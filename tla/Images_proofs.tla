--------------------------- MODULE Images_proofs ---------------------------
(***************************************************************************)
(* Theorems about Images, for every number of requests and images, every   *)
(* seed and every set of inputs, with failures and crashes: the loop over  *)
(* the images of a creation implements the one statement Catalog takes it  *)
(* for, so that all Catalog's theorems hold with the images in it; no      *)
(* image is shown before its files are stored; the primary image of a      *)
(* product is its own, or one that a PATCH of the product has named; and   *)
(* the files of its images are its own, while requests are handled one at  *)
(* a time.                                                                 *)
(***************************************************************************)
EXTENDS Images, CatalogDeletion_proofs, WellFoundedInduction, NaturalsInduction

-----------------------------------------------------------------------------
(* Lists of images *)

LEMMA SmallestIndex ==
  ASSUME NEW S \in SUBSET Nat, S # {}
  PROVE  \E m \in S : \A k \in S : m <= k
<1> DEFINE Below == {ss \in Nat \X Nat : ss[1] < ss[2]}
<1>1. IsWellFoundedOn(Below, Nat)
  BY NatLessThanWellFounded DEF OpToRel
<1>2. \E m \in S : \A k \in S : <<k, m>> \notin Below
  <2> HIDE DEF Below
  <2> QED BY <1>1, WFMin
<1>3. PICK m \in S : \A k \in S : <<k, m>> \notin Below
  BY <1>2
<1>4. \A k \in S : ~(k < m) /\ k \in Nat /\ m \in Nat
  BY <1>3
<1> HIDE DEF Below
<1>5. \A k \in S : m <= k
  BY <1>4
<1> QED BY <1>5

\* Dropping duplicates leaves a list that is no longer, and empty only if
\* there was nothing to drop.
LEMMA DeduplicatedLength ==
  ASSUME NEW list \in Seq(ImageInput)
  PROVE  /\ Len(Deduplicated(list)) \in 0..Len(list)
         /\ DOMAIN Deduplicated(list) = 1..Len(Deduplicated(list))
         /\ Deduplicated(list) = <<>> <=> Len(Deduplicated(list)) = 0
<1> DEFINE first == {k \in DOMAIN list : \A j \in 1..(k - 1) : list[j].data # list[k].data}
           pick(n) == list[CHOOSE k \in first : Cardinality({j \in first : j <= k}) = n]
<1>1. Deduplicated(list) = [n \in 1..Cardinality(first) |-> pick(n)]
  BY DEF Deduplicated
<1>2. Len(list) \in Nat /\ DOMAIN list = 1..Len(list) /\ first \subseteq 1..Len(list)
  OBVIOUS
<1>3. IsFiniteSet(1..Len(list)) /\ Cardinality(1..Len(list)) = Len(list)
  <2>1. 1 \in Int /\ Len(list) \in Int
    BY <1>2
  <2>2. Cardinality(1..Len(list)) = IF 1 > Len(list) THEN 0 ELSE Len(list) - 1 + 1
    BY <2>1, FS_Interval
  <2> QED BY <1>2, <2>1, <2>2, FS_Interval
<1> HIDE DEF first
<1>4. Cardinality(first) \in Nat /\ Cardinality(first) <= Len(list)
  <2>1. IsFiniteSet(first) /\ Cardinality(first) <= Cardinality(1..Len(list))
    BY <1>2, <1>3, FS_Subset
  <2>2. Cardinality(first) \in Nat
    BY <2>1, FS_CardinalityType
  <2> QED BY <1>3, <2>1, <2>2
<1> HIDE DEF pick
<1> DEFINE c == Cardinality(first)
<1>5. c \in Nat /\ Deduplicated(list) = [n \in 1..c |-> pick(n)]
  BY <1>1, <1>4
<1>6. c <= Len(list)
  BY <1>4
<1> HIDE DEF c
<1>7. Len([n \in 1..c |-> pick(n)]) = c /\ DOMAIN [n \in 1..c |-> pick(n)] = 1..c
  BY <1>5
<1> QED BY <1>2, <1>5, <1>6, <1>7

\* The first image that is not loaded decides what becomes of the list.
LEMMA FirstBadImage ==
  ASSUME NEW list, NEW n \in Nat, DOMAIN list = 1..n, NEW i \in 1..n, ~IsLoaded(list[i]),
         \A j \in 1..(i - 1) : IsLoaded(list[j])
  PROVE  Outcome(list) = IF list[i].type = "other" THEN "unknownType" ELSE "invalid"
<1> DEFINE IsBad(k) == ~IsLoaded(list[k]) /\ \A j \in 1..(k - 1) : IsLoaded(list[j])
           bad == CHOOSE k \in DOMAIN list : IsBad(k)
<1>1. i \in DOMAIN list /\ IsBad(i)
  OBVIOUS
<1>2. ~(\A k \in DOMAIN list : IsLoaded(list[k]))
  BY <1>1
<1>3. bad \in DOMAIN list /\ IsBad(bad)
  <2> HIDE DEF IsBad
  <2> QED BY <1>1
<1>4. bad = i
  <2> HIDE DEF bad
  <2>1. bad \in 1..n
    BY <1>3
  <2>2. ~(bad < i)
    BY <1>3, <2>1
  <2>3. ~(i < bad)
    BY <1>3, <2>1
  <2> QED BY <2>1, <2>2, <2>3
<1> QED BY <1>2, <1>4 DEF Outcome

-----------------------------------------------------------------------------
(* Where the loop is *)

StartOfLoop == [index |-> 0, step |-> "load", size |-> 1]

LoopState == [index : 0..MaxImages, step : LoopStep, size : Size]

\* A request comes to its images with the loop at its start; behind the loop
\* are images that have been loaded, and the one it is past loading is, too.
LoopOK(r) ==
  /\ pc[r] # "idle" => in[r] \in Inputs
  /\ loop[r] \in LoopState
  /\ pc[r] \in {"idle", "exists", "insertRoot"} => loop[r] = StartOfLoop
  /\ loop[r].step \in {"load", "fetch", "insert"} => loop[r].size = 1
  /\ At(r, "createProduct", "insertImages") =>
       /\ loop[r].index <= Len(ImagesToCreate(r))
       /\ \A k \in 1..loop[r].index : IsLoaded(ImagesToCreate(r)[k])
       /\ loop[r].step # "load" => loop[r].index < Len(ImagesToCreate(r)) /\ IsLoaded(Image(r))

LoopInv == loop \in [Request -> LoopState] /\ \A r \in Request : LoopOK(r)

LEMMA LoopInit == ImagesInit => TypeInv /\ LoopInv
<1> SUFFICES ASSUME ImagesInit PROVE TypeInv /\ LoopInv
  OBVIOUS
<1>1. TypeInv
  BY InitType DEF ImagesInit
<1>2. StartOfLoop \in LoopState
  BY ImagesAssumption DEF StartOfLoop, LoopState, LoopStep, Size
<1>3. loop = [r \in Request |-> StartOfLoop] /\ pc = [r \in Request |-> "idle"]
  BY DEF ImagesInit, Init, StartOfLoop
<1>4. loop \in [Request -> LoopState]
  BY <1>2, <1>3
<1>5. ASSUME NEW r \in Request PROVE LoopOK(r)
  BY <1>2, <1>3, <1>5 DEF LoopOK, StartOfLoop, At
<1> QED BY <1>1, <1>4, <1>5 DEF LoopInv

\* The list of an input, and what the input says of it.
LEMMA ListOfInput ==
  ASSUME NEW i \in Inputs
  PROVE  LET list == Deduplicated(ImagesOf[i])
         IN /\ Len(list) \in 0..MaxImages
            /\ DOMAIN list = 1..Len(list)
            /\ list = <<>> <=> Len(list) = 0
            /\ i.images = Outcome(list)
<1>1. /\ ImagesOf[i] \in Seq(ImageInput) /\ Len(ImagesOf[i]) <= MaxImages
      /\ i.images = Outcome(Deduplicated(ImagesOf[i])) /\ MaxImages \in Nat
  BY ImagesAssumption
<1> DEFINE list == Deduplicated(ImagesOf[i])
<1>2. /\ Len(list) \in 0..Len(ImagesOf[i])
      /\ DOMAIN list = 1..Len(list)
      /\ list = <<>> <=> Len(list) = 0
  BY <1>1, DeduplicatedLength
<1>3. Len(ImagesOf[i]) \in Nat
  BY <1>1
<1> QED BY <1>1, <1>2, <1>3

LEMMA ListOf ==
  ASSUME NEW r \in Request, in[r] \in Inputs
  PROVE  /\ Len(ImagesToCreate(r)) \in 0..MaxImages
         /\ DOMAIN ImagesToCreate(r) = 1..Len(ImagesToCreate(r))
         /\ ImagesToCreate(r) = <<>> <=> Len(ImagesToCreate(r)) = 0
         /\ in[r].images = Outcome(ImagesToCreate(r))
BY ListOfInput DEF ImagesToCreate

-----------------------------------------------------------------------------
(* The loop implements the one statement of Catalog *)

LEMMA FailedLoad ==
  ASSUME TypeInv, LoopInv, NEW r \in Request, AtStep(r, "load"), Image(r).type \in {"base64", "url"},
         Image(r).data \notin Picture, LoopFails(r), UNCHANGED locals
  PROVE  Handle(r)
<1>1. /\ At(r, "createProduct", "insertImages") /\ LoopOK(r) /\ in[r] \in Inputs
      /\ loop[r].index < Len(ImagesToCreate(r))
  BY DEF AtStep, InLoop, At, LoopInv, LoopOK
<1>2. loop[r].index \in Nat
  BY <1>1, ImagesAssumption DEF LoopOK, LoopState
<1>3. /\ Len(ImagesToCreate(r)) \in Nat /\ DOMAIN ImagesToCreate(r) = 1..Len(ImagesToCreate(r))
      /\ in[r].images = Outcome(ImagesToCreate(r))
  BY <1>1, ListOf, ImagesAssumption
<1> DEFINE i == loop[r].index + 1
           list == ImagesToCreate(r)
<1>4. i \in 1..Len(list) /\ list[i] = Image(r) /\ \A j \in 1..(i - 1) : IsLoaded(list[j])
  BY <1>1, <1>2, <1>3 DEF Image, LoopOK
<1>5. ~IsLoaded(list[i]) /\ list[i].type # "other"
  BY <1>4 DEF IsLoaded
<1> HIDE DEF i, list
<1>6. Outcome(list) = "invalid"
  BY <1>3, <1>4, <1>5, FirstBadImage DEF list
<1>7. CreateProduct_InsertImages(r)
  BY <1>1, <1>3, <1>6 DEF CreateProduct_InsertImages, LoopFails, list
<1> QED BY <1>7 DEF Handle, Runs, CreateProductStep

LEMMA PanickedLoad ==
  ASSUME TypeInv, LoopInv, NEW r \in Request, CreateThumbnailsPanics(r)
  PROVE  Handle(r)
<1>1. /\ At(r, "createProduct", "insertImages") /\ LoopOK(r) /\ in[r] \in Inputs
      /\ loop[r].index < Len(ImagesToCreate(r))
  BY DEF CreateThumbnailsPanics, AtStep, InLoop, At, LoopInv, LoopOK
<1>2. loop[r].index \in Nat
  BY <1>1, ImagesAssumption DEF LoopOK, LoopState
<1>3. /\ Len(ImagesToCreate(r)) \in Nat /\ DOMAIN ImagesToCreate(r) = 1..Len(ImagesToCreate(r))
      /\ in[r].images = Outcome(ImagesToCreate(r))
  BY <1>1, ListOf, ImagesAssumption
<1> DEFINE i == loop[r].index + 1
           list == ImagesToCreate(r)
<1>4. i \in 1..Len(list) /\ list[i] = Image(r) /\ \A j \in 1..(i - 1) : IsLoaded(list[j])
  BY <1>1, <1>2, <1>3 DEF Image, LoopOK
<1>5. ~IsLoaded(list[i]) /\ list[i].type = "other"
  BY <1>4 DEF IsLoaded, CreateThumbnailsPanics
<1> HIDE DEF i, list
<1>6. Outcome(list) = "unknownType"
  BY <1>3, <1>4, <1>5, FirstBadImage DEF list
<1>7. CreateProduct_InsertImages(r)
  BY <1>1, <1>3, <1>6 DEF CreateProduct_InsertImages, CreateThumbnailsPanics, list
<1> QED BY <1>7 DEF Handle, Runs, CreateProductStep

LEMMA EndedLoop ==
  ASSUME TypeInv, LoopInv, NEW r \in Request, LoopEnds(r)
  PROVE  Handle(r)
<1>1. /\ At(r, "createProduct", "insertImages") /\ LoopOK(r) /\ in[r] \in Inputs
      /\ loop[r].index = Len(ImagesToCreate(r))
  BY DEF LoopEnds, At, LoopInv, LoopOK
<1>2. /\ DOMAIN ImagesToCreate(r) = 1..Len(ImagesToCreate(r))
      /\ in[r].images = Outcome(ImagesToCreate(r))
  BY <1>1, ListOf
<1>3. Outcome(ImagesToCreate(r)) = "valid"
  BY <1>1, <1>2 DEF Outcome, LoopOK
<1>4. CreateProduct_InsertImages(r)
  BY <1>1, <1>2, <1>3 DEF CreateProduct_InsertImages, LoopEnds
<1> QED BY <1>4 DEF Handle, Runs, CreateProductStep

\* The steps of the loop that Catalog does not see.
WithinLoop(r) ==
  /\ UNCHANGED <<vars, primary, readPrimary>>
  /\ \/ /\ AtStep(r, "load") /\ IsLoaded(Image(r)) /\ UNCHANGED <<files, images>>
        /\ GotoStep(r, "create") \/ GotoStep(r, "fetch")
     \/ Fetched(r) \/ CreateFile(r) \/ EncodeFile(r) \/ CreateProductImage(r)

\* Every step is a step of Catalog in which no loop moves, or stays within a loop.
LEMMA ImagesSteps ==
  ASSUME TypeInv, LoopInv, [ImagesNext]_allVars
  PROVE  \/ [Next]_vars /\ UNCHANGED <<files, images, loop>>
         \/ \E r \in Request : WithinLoop(r)
<1>1. CASE UNCHANGED allVars
  BY <1>1 DEF allVars, imageVars
<1>2. CASE /\ \/ \E r \in Request : Arrive(r) \/ CommitFails(r) \/ StatementFails(r)
              \/ ServerCrash
              \/ Quiescent
           /\ UNCHANGED imageVars
  BY <1>2 DEF Next, Handle, imageVars
<1>3. ASSUME NEW r \in Request, Handle(r), UNCHANGED <<files, images, loop>>
      PROVE  [Next]_vars /\ UNCHANGED <<files, images, loop>>
  BY <1>3 DEF Next
<1>4. ASSUME NEW r \in Request, LoopStepOf(r)
      PROVE  (Handle(r) /\ UNCHANGED <<files, images, loop>>) \/ WithinLoop(r)
  <2>1. CASE LoadBase64(r)
    <3>1. CASE Image(r).data \in Picture /\ GotoStep(r, "create") /\ UNCHANGED vars
      BY <2>1, <3>1 DEF LoadBase64, WithinLoop, IsLoaded
    <3>2. CASE Image(r).data \notin Picture /\ LoopFails(r) /\ UNCHANGED <<loop, locals>>
      BY <2>1, <3>2, FailedLoad DEF LoadBase64
    <3> QED BY <2>1, <3>1, <3>2 DEF LoadBase64
  <2>2. CASE LoadURL(r)
    <3>1. CASE Image(r).data \in Picture /\ GotoStep(r, "fetch") /\ UNCHANGED vars
      BY <2>2, <3>1 DEF LoadURL, WithinLoop, IsLoaded
    <3>2. CASE Image(r).data \notin Picture /\ LoopFails(r) /\ UNCHANGED <<loop, locals>>
      BY <2>2, <3>2, FailedLoad DEF LoadURL
    <3> QED BY <2>2, <3>1, <3>2 DEF LoadURL
  <2>3. CASE CreateThumbnailsPanics(r)
    BY <2>3, PanickedLoad DEF CreateThumbnailsPanics, imageVars
  <2>4. CASE LoopEnds(r)
    BY <2>4, EndedLoop DEF LoopEnds, imageVars
  <2>5. CASE CreateFile(r) \/ EncodeFile(r) \/ CreateProductImage(r)
    BY <2>5 DEF CreateFile, EncodeFile, CreateProductImage, WithinLoop
  <2> QED BY <1>4, <2>1, <2>2, <2>3, <2>4, <2>5 DEF LoopStepOf
<1>5. ASSUME NEW r \in Request, Fetched(r) PROVE WithinLoop(r)
  BY <1>5 DEF Fetched, WithinLoop
<1>6. ASSUME NEW r \in Request, InsertProduct(r) \/ ReadProduct(r) \/ WriteProduct(r)
      PROVE  Handle(r) /\ UNCHANGED <<files, images, loop>>
  BY <1>6 DEF InsertProduct, ReadProduct, WriteProduct, Handle, Runs, CreateProductStep,
     UpdateProductStep
<1>7. ASSUME NEW r \in Request, OtherStatement(r)
      PROVE  Handle(r) /\ UNCHANGED <<files, images, loop>>
  BY <1>7 DEF OtherStatement, Handle, Runs, CreateProductStep, imageVars
<1> QED BY <1>1, <1>2, <1>3, <1>4, <1>5, <1>6, <1>7 DEF ImagesNext, RunsWithImages

-----------------------------------------------------------------------------
(* The loop keeps its invariant *)

\* How a creation comes to its images: through the statements before them.
Moves(r) ==
  \E l \in Label \ {"idle", "exists"} :
    /\ pc' = [pc EXCEPT ![r] = l]
    /\ l = "insertRoot" => pc[r] = "exists"
    /\ l = "insertImages" => pc[r] = "insertRoot"

LEMMA HandleMoves ==
  ASSUME TypeInv, NEW r \in Request, Handle(r)
  PROVE  Moves(r) /\ in' = in /\ pc[r] # "idle"
<1>1. CASE ReadStep(r)
  BY <1>1 DEF ReadStep, CreateProduct_Exists, CreateOption_Exists, CreateOption_NameFree,
     CreateValue_Exists, CreateValue_ValueFree, UpdateOption_ReadBack, GetWebhooks, Moves, At,
     Continue, Respond, Goto, locals, Label, Statement
<1>2. CASE MarkStep(r)
  BY <1>2 DEF MarkStep, DeleteProduct_ArchiveBridges, DeleteProduct_ArchiveProduct,
     DeleteRoot_ArchiveBridges, DeleteRoot_ArchiveValues, DeleteRoot_ArchiveOptions,
     DeleteRoot_ArchiveProducts, DeleteRoot_ArchiveRoot, DeleteOption_ArchiveValues,
     DeleteOption_ArchiveOption, Moves, At, Continue, Respond, RespondAndLeak, Goto, locals,
     Label, Statement
<1>3. CASE InsertStep(r)
  BY <1>3 DEF InsertStep, CreateProduct_InsertRoot, CreateProduct_InsertImages,
     CreateProduct_InsertProduct, CreateProduct_InsertVariants, CreateOption_Insert,
     CreateValue_Insert, Moves, At, Continue, Respond, RespondAndLeak, Goto, locals, Label,
     Statement
<1>4. CASE UpdateStep(r)
  BY <1>4 DEF UpdateStep, UpdateProduct_Update, UpdateOption_Update, UpdateValue_Update,
     DeleteValue_Update, Moves, At, Continue, Respond, Goto, locals, Label, Statement
<1>5. CASE EndStep(r)
  BY <1>5 DEF EndStep, CommitSucceeds, CommitFails, StatementFails, Moves, Continue, Respond,
     RespondAndLeak, Goto, locals, Label, Statement
<1>6. CASE FindStep(r)
  BY <1>6 DEF FindStep, DeleteProduct_Find, DeleteRoot_Find, DeleteOption_Find,
     UpdateValue_Find, DeleteValue_Find, UpdateProduct_Find, UpdateOption_Find, Find, Moves, At,
     Continue, Respond, Goto, Label, Statement
<1> QED BY <1>1, <1>2, <1>3, <1>4, <1>5, <1>6, HandleSteps

\* What becomes of request q in any step of Catalog.
LEMMA RequestMoves ==
  ASSUME TypeInv, [Next]_vars, NEW q \in Request
  PROVE  /\ pc'[q] = "idle" => pc[q] = "idle"
         /\ pc'[q] \in {"exists", "insertRoot"} => pc[q] \in {"idle", "exists", "insertRoot"}
         /\ pc'[q] = "insertImages" => pc[q] \in {"insertRoot", "insertImages"}
         /\ pc[q] # "idle" => in'[q] = in[q]
         /\ pc[q] = "idle" => pc'[q] = "idle" \/ in'[q] \in Inputs
<1> USE DEF TypeInv, LocalsOK
<1>1. CASE UNCHANGED vars
  BY <1>1 DEF vars, locals
<1>2. ASSUME NEW r \in Request, Arrive(r) PROVE (pc[q] = "idle" => pc'[q] = "idle" \/ in'[q] \in Inputs)
        /\ (pc[q] # "idle" => pc'[q] = pc[q] /\ in'[q] = in[q])
        /\ pc'[q] \in {pc[q], "exists", "find"}
  BY <1>2 DEF Arrive, Continue, Goto
<1>3. ASSUME NEW r \in Request, Handle(r)
      PROVE  /\ in' = in /\ (pc[q] = "idle" => pc'[q] = "idle")
             /\ pc'[q] = pc[q] \/ pc'[q] \notin {"idle", "exists"}
             /\ pc'[q] = "insertRoot" => pc[q] \in {"exists", "insertRoot"}
             /\ pc'[q] = "insertImages" => pc[q] \in {"insertRoot", "insertImages"}
  BY <1>3, HandleMoves DEF Moves
<1>4. CASE ServerCrash
  <2> DEFINE dying == InFlight \cup {r \in Request : pc[r] = "leaked"}
  <2>1. in' = in /\ pc' = [r \in Request |-> IF r \in dying THEN "dead" ELSE pc[r]]
    BY <1>4 DEF ServerCrash, locals
  <2>2. pc'[q] = "dead" \/ pc'[q] = pc[q]
    BY <2>1
  <2>3. pc[q] = "idle" => q \notin dying
    BY DEF InFlight, Statement
  <2> HIDE DEF dying
  <2> QED BY <2>1, <2>2, <2>3
<1> QED BY <1>1, <1>2, <1>3, <1>4 DEF Next, Quiescent

LEMMA LoopAtRest ==
  ASSUME TypeInv, LoopInv, [Next]_vars, UNCHANGED <<files, images, loop>>
  PROVE  LoopInv'
<1> SUFFICES ASSUME NEW q \in Request PROVE LoopOK(q)'
  BY DEF LoopInv
<1>1. LoopOK(q)
  BY DEF LoopInv
<1>2. pc'[q] # "idle" => in'[q] \in Inputs
  BY <1>1, RequestMoves DEF LoopOK
<1>3. At(q, "createProduct", "insertImages")' =>
        pc[q] \in {"insertRoot", "insertImages"} /\ in'[q] = in[q]
  BY RequestMoves DEF At
<1>4. ASSUME At(q, "createProduct", "insertImages")', pc[q] = "insertImages"
      PROVE  LoopOK(q)'
  <2>1. At(q, "createProduct", "insertImages") /\ ImagesToCreate(q)' = ImagesToCreate(q)
    BY <1>3, <1>4 DEF At, ImagesToCreate
  <2>2. Image(q)' = Image(q)
    BY <2>1 DEF Image
  <2> QED BY <1>1, <1>2, <1>4, <2>1, <2>2 DEF LoopOK, At
<1>5. ASSUME At(q, "createProduct", "insertImages")', pc[q] = "insertRoot"
      PROVE  LoopOK(q)'
  <2>1. loop'[q] = StartOfLoop
    BY <1>1, <1>5 DEF LoopOK
  <2>2. in'[q] \in Inputs
    BY <1>2, <1>5 DEF At
  <2>3. Len(ImagesToCreate(q)') \in Nat
    BY <2>2, ListOfInput, ImagesAssumption DEF ImagesToCreate
  <2> QED BY <1>1, <1>2, <1>5, <2>1, <2>3 DEF LoopOK, At, StartOfLoop
<1>6. ASSUME ~At(q, "createProduct", "insertImages")'
      PROVE  LoopOK(q)'
  BY <1>1, <1>2, <1>6, RequestMoves DEF LoopOK
<1> QED BY <1>3, <1>4, <1>5, <1>6


\* Steps within the loop of r leave the loops of others where they are.
LEMMA OneLoop ==
  ASSUME LoopInv, NEW r \in Request, UNCHANGED vars, NEW l \in LoopState,
         loop' = [loop EXCEPT ![r] = l], InLoop(r),
         l.step \in {"load", "fetch", "insert"} => l.size = 1,
         \/ l.index = loop[r].index /\ IsLoaded(Image(r))
         \/ l.index = loop[r].index + 1 /\ l.step = "load" /\ IsLoaded(Image(r))
  PROVE  LoopInv'
<1>1. loop' \in [Request -> LoopState] /\ loop'[r] = l
  BY DEF LoopInv
<1>2. pc' = pc /\ in' = in
  BY DEF vars, locals
<1>3. ASSUME NEW q \in Request \ {r} PROVE LoopOK(q)'
  <2>1. loop'[q] = loop[q] /\ LoopOK(q)
    BY DEF LoopInv
  <2>2. ImagesToCreate(q)' = ImagesToCreate(q) /\ Image(q)' = Image(q)
    BY <1>2, <2>1 DEF ImagesToCreate, Image
  <2> QED BY <1>2, <2>1, <2>2 DEF LoopOK, At
<1>4. LoopOK(r)'
  <2>1. LoopOK(r) /\ At(r, "createProduct", "insertImages") /\ At(r, "createProduct", "insertImages")'
    BY <1>2 DEF LoopInv, InLoop, At
  <2>2. ImagesToCreate(r)' = ImagesToCreate(r)
    BY <1>2 DEF ImagesToCreate
  <2>3. loop[r].index \in Nat /\ Len(ImagesToCreate(r)) \in Nat /\ in[r] \in Inputs
    BY <2>1, ListOf, ImagesAssumption DEF LoopOK, LoopState, At
  <2>4. loop[r].index < Len(ImagesToCreate(r)) /\ IsLoaded(Image(r))
    BY DEF InLoop
  <2>5. CASE l.index = loop[r].index
    <3>1. Image(r)' = Image(r)
      BY <1>1, <2>2, <2>5 DEF Image
    <3> QED BY <1>1, <1>2, <2>1, <2>2, <2>3, <2>4, <2>5, <3>1 DEF LoopOK, At
  <2>6. CASE l.index = loop[r].index + 1 /\ l.step = "load"
    <3>1. \A k \in 1..(loop[r].index + 1) : k \in 1..loop[r].index \/ k = loop[r].index + 1
      BY <2>3
    <3>2. \A k \in 1..l.index : IsLoaded(ImagesToCreate(r)[k])
      BY <2>1, <2>4, <2>6, <3>1 DEF LoopOK, Image
    <3> QED BY <1>1, <1>2, <2>1, <2>2, <2>3, <2>4, <2>6, <3>2 DEF LoopOK, At
  <2> QED BY <2>5, <2>6
<1> QED BY <1>1, <1>3, <1>4 DEF LoopInv

\* A step of the loop as it is written, and as a new state of it.
LEMMA LoopRecords ==
  ASSUME NEW l \in LoopState
  PROVE  /\ \A s \in LoopStep : [l EXCEPT !.step = s] = [index |-> l.index, step |-> s, size |-> l.size]
         /\ l.size < 3 => AfterFile(l) = [index |-> l.index, step |-> "create", size |-> l.size + 1]
         /\ ~(l.size < 3) => AfterFile(l) = [index |-> l.index, step |-> "insert", size |-> 1]
         /\ AfterRow(l) = [index |-> l.index + 1, step |-> "load", size |-> l.size]
<1>1. PICK i \in 0..MaxImages, t \in LoopStep, z \in Size : l = [index |-> i, step |-> t, size |-> z]
  BY DEF LoopState
<1>2. l.index = i /\ l.step = t /\ l.size = z
  BY <1>1
<1>3. \A s \in LoopStep : [l EXCEPT !.step = s] = [index |-> i, step |-> s, size |-> z]
  BY <1>1
<1>4. ASSUME NEW t2, NEW n
      PROVE  [l EXCEPT !.step = t2, !.size = n] = [index |-> i, step |-> t2, size |-> n]
  <2>1. [l EXCEPT !.step = t2] = [index |-> i, step |-> t2, size |-> z]
    BY <1>1
  <2>2. [l EXCEPT !.step = t2, !.size = n] = [[l EXCEPT !.step = t2] EXCEPT !.size = n]
    OBVIOUS
  <2>3. [[index |-> i, step |-> t2, size |-> z] EXCEPT !.size = n]
          = [index |-> i, step |-> t2, size |-> n]
    OBVIOUS
  <2> QED BY <2>1, <2>2, <2>3
<1>5. ASSUME NEW n
      PROVE  [l EXCEPT !.index = n, !.step = "load"] = [index |-> n, step |-> "load", size |-> z]
  <2>1. [l EXCEPT !.index = n] = [index |-> n, step |-> t, size |-> z]
    BY <1>1
  <2>2. [l EXCEPT !.index = n, !.step = "load"] = [[l EXCEPT !.index = n] EXCEPT !.step = "load"]
    OBVIOUS
  <2>3. [[index |-> n, step |-> t, size |-> z] EXCEPT !.step = "load"]
          = [index |-> n, step |-> "load", size |-> z]
    OBVIOUS
  <2> QED BY <2>1, <2>2, <2>3
<1>6. [l EXCEPT !.step = "create", !.size = l.size + 1]
        = [index |-> l.index, step |-> "create", size |-> l.size + 1]
  BY <1>2, <1>4
<1>7. [l EXCEPT !.step = "insert", !.size = 1] = [index |-> l.index, step |-> "insert", size |-> 1]
  BY <1>2, <1>4
<1>8. [l EXCEPT !.index = l.index + 1, !.step = "load"]
        = [index |-> l.index + 1, step |-> "load", size |-> l.size]
  BY <1>2, <1>5
<1> QED BY <1>2, <1>3, <1>6, <1>7, <1>8 DEF AfterFile, AfterRow

LEMMA LoopMoves ==
  ASSUME TypeInv, LoopInv, NEW r \in Request, WithinLoop(r)
  PROVE  LoopInv'
<1> USE DEF WithinLoop
<1>1. /\ UNCHANGED vars /\ InLoop(r) /\ loop[r] \in LoopState /\ IsLoaded(Image(r)) /\ LoopOK(r)
      /\ At(r, "createProduct", "insertImages")
  <2>1. InLoop(r)
    BY DEF Fetched, CreateFile, EncodeFile, CreateProductImage, AtStep
  <2>2. AtStep(r, "load") => IsLoaded(Image(r))
    BY DEF AtStep, Fetched, CreateFile, EncodeFile, CreateProductImage
  <2> QED BY <2>1, <2>2 DEF LoopInv, LoopOK, InLoop, AtStep
<1>2. ASSUME NEW s \in {"create", "encode", "fetch"}, GotoStep(r, s),
             s = "fetch" => loop[r].step \in {"load", "fetch", "insert"}
      PROVE  LoopInv'
  <2> DEFINE l == [index |-> loop[r].index, step |-> s, size |-> loop[r].size]
  <2>1. l = [loop[r] EXCEPT !.step = s] /\ l \in LoopState
    BY <1>1, LoopRecords DEF LoopState, LoopStep
  <2>2. loop' = [loop EXCEPT ![r] = l]
    BY <1>2, <2>1 DEF GotoStep
  <2>3. l.step \in {"load", "fetch", "insert"} => l.size = 1
    BY <1>1, <1>2 DEF LoopOK
  <2>4. l.index = loop[r].index
    OBVIOUS
  <2> HIDE DEF l
  <2> QED BY <1>1, <2>1, <2>2, <2>3, <2>4, OneLoop
<1>3. ASSUME EncodeFile(r) PROVE LoopInv'
  <2> DEFINE l == AfterFile(loop[r])
  <2>1. l \in LoopState /\ l.index = loop[r].index /\ (l.step = "insert" => l.size = 1)
        /\ l.step \in {"create", "insert"}
    <3>1. loop[r].size \in {1, 2, 3} /\ loop[r].index \in 0..MaxImages
      BY <1>1 DEF LoopState, Size
    <3>2. CASE loop[r].size < 3
      <4>1. l = [index |-> loop[r].index, step |-> "create", size |-> loop[r].size + 1]
        BY <1>1, <3>2, LoopRecords
      <4> HIDE DEF l
      <4> QED BY <3>1, <3>2, <4>1 DEF LoopState, LoopStep, Size
    <3>3. CASE ~(loop[r].size < 3)
      <4>1. l = [index |-> loop[r].index, step |-> "insert", size |-> 1]
        BY <1>1, <3>3, LoopRecords
      <4> HIDE DEF l
      <4> QED BY <3>1, <4>1 DEF LoopState, LoopStep, Size
    <3> QED BY <3>2, <3>3
  <2>2. loop' = [loop EXCEPT ![r] = l]
    BY <1>3 DEF EncodeFile
  <2> HIDE DEF l
  <2> QED BY <1>1, <2>1, <2>2, OneLoop
<1>4. ASSUME CreateProductImage(r) PROVE LoopInv'
  <2> DEFINE l == AfterRow(loop[r])
  <2>1. loop[r].step = "insert" /\ loop[r].size = 1 /\ loop[r].index < Len(ImagesToCreate(r))
    BY <1>1, <1>4 DEF CreateProductImage, AtStep, InLoop, LoopOK
  <2>2. loop[r].index + 1 \in 0..MaxImages
    <3>1. Len(ImagesToCreate(r)) \in 0..MaxImages
      BY <1>1, ListOf DEF LoopOK, At
    <3> QED BY <1>1, <2>1, <3>1, ImagesAssumption DEF LoopState
  <2>3. l = [index |-> loop[r].index + 1, step |-> "load", size |-> 1]
    BY <1>1, <2>1, LoopRecords
  <2>4. loop' = [loop EXCEPT ![r] = l]
    BY <1>4 DEF CreateProductImage
  <2> HIDE DEF l
  <2>5. PICK n \in 0..MaxImages :
          n = loop[r].index + 1 /\ l = [index |-> n, step |-> "load", size |-> 1]
    BY <2>2, <2>3
  <2>6. l \in LoopState /\ l.index = n /\ l.step = "load" /\ l.size = 1
    BY <2>5 DEF LoopState, LoopStep, Size
  <2> QED BY <1>1, <2>4, <2>5, <2>6, OneLoop
<1> QED BY <1>2, <1>3, <1>4 DEF Fetched, CreateFile, AtStep

LEMMA ImagesStep ==
  ASSUME TypeInv, LoopInv, [ImagesNext]_allVars
  PROVE  [Next]_vars /\ TypeInv' /\ LoopInv'
<1>1. CASE [Next]_vars /\ UNCHANGED <<files, images, loop>>
  BY <1>1, NextType, LoopAtRest
<1>2. ASSUME NEW r \in Request, WithinLoop(r)
      PROVE  [Next]_vars /\ TypeInv' /\ LoopInv'
  BY <1>2, NextType, LoopMoves DEF WithinLoop
<1> QED BY <1>1, <1>2, ImagesSteps

LEMMA LoopInvariant == ImagesSpec => [](TypeInv /\ LoopInv)
BY LoopInit, ImagesStep, PTL DEF ImagesSpec

\* The loop of handleProductCreationImages implements the one statement of
\* Catalog that stands for it: whichever image it stops at, with an error,
\* a panic or a crash, its transaction ends as one that had none to insert.
THEOREM ImagesImplementCatalog == ImagesSpec => CatalogIsImplemented
<1>1. ImagesInit => Init
  BY DEF ImagesInit
<1>2. TypeInv /\ LoopInv /\ [ImagesNext]_allVars => [Next]_vars
  BY ImagesStep
<1> QED BY <1>1, <1>2, LoopInvariant, PTL DEF ImagesSpec, CatalogIsImplemented, Spec


\* So whatever is proved of Catalog holds with the images in it: among it
\* that a creation stopped between two of its images leaves no row behind
\* that others see.
COROLLARY CatalogWithImages ==
  ImagesSpec => /\ [](CreationsAreAtomic /\ ActiveKeysAreUnique /\ LeakedTransactionsBlockNobody)
                /\ RowsAreSoftDeleted
<1>1. ImagesSpec => Spec
  BY ImagesImplementCatalog DEF CatalogIsImplemented
<1> QED BY <1>1, CreationAtomicity, KeyUniqueness, LeakHarmless, SoftDeletion, PTL

-----------------------------------------------------------------------------
(* The types of the images *)

ImageTables ==
  /\ files \in [Path -> Content]
  /\ images \subseteq ImageId
  /\ primary \in [ProductId -> ImageId \cup {None}]
  /\ readPrimary \in [Request -> ImageId \cup {None}]

LEMMA PrimaryIndexType ==
  ASSUME NEW r \in Request, in[r] \in Inputs, ImagesToCreate(r) # <<>>
  PROVE  PrimaryIndex(r) \in Index /\ PrimaryIndex(r) < Len(ImagesToCreate(r))
<1> DEFINE called == {k \in DOMAIN ImagesToCreate(r) : ImagesToCreate(r)[k].isPrimary}
           first == CHOOSE k \in called : \A j \in called : k <= j
<1>1. /\ Len(ImagesToCreate(r)) \in 0..MaxImages /\ MaxImages \in Nat
      /\ DOMAIN ImagesToCreate(r) = 1..Len(ImagesToCreate(r))
      /\ Len(ImagesToCreate(r)) # 0
  BY ListOf, ImagesAssumption
<1>2. 0 \in Index
  BY <1>1 DEF Index
<1>3. called \subseteq 1..Len(ImagesToCreate(r))
  BY <1>1
<1>4. CASE called = {}
  BY <1>1, <1>2, <1>4 DEF PrimaryIndex
<1>5. CASE called # {}
  <2>1. called \in SUBSET Nat
    BY <1>1, <1>3
  <2>2. \E m \in called : \A k \in called : m <= k
    <3> HIDE DEF called
    <3> QED BY <1>5, <2>1, SmallestIndex
  <2>3. first \in called
    <3> HIDE DEF called
    <3> QED BY <2>2
  <2>4. PrimaryIndex(r) = first - 1
    BY <1>5 DEF PrimaryIndex
  <2>5. first \in 1..Len(ImagesToCreate(r))
    <3> HIDE DEF called, first
    <3> QED BY <1>3, <2>3
  <2> HIDE DEF called, first
  <2> QED BY <1>1, <2>4, <2>5 DEF Index
<1> QED BY <1>4, <1>5

LEMMA FileOfType ==
  ASSUME LoopInv, NEW r \in Request, InLoop(r)
  PROVE  /\ FileOf(r) \in Path /\ <<r, loop[r].index>> \in ImageId
         /\ loop[r].index \in Index /\ loop[r].size \in Size /\ in[r].sku \in {i.sku : i \in Inputs}
         /\ in[r] \in Inputs
<1>1. in[r] \in Inputs /\ loop[r] \in LoopState /\ loop[r].index < Len(ImagesToCreate(r))
  BY DEF LoopInv, LoopOK, InLoop, At
<1>2. Len(ImagesToCreate(r)) \in 0..MaxImages /\ MaxImages \in Nat
  BY <1>1, ListOf, ImagesAssumption
<1>3. loop[r].index \in 0..MaxImages
  BY <1>1 DEF LoopState
<1>4. loop[r].index \in Index /\ loop[r].size \in Size
  BY <1>1, <1>2, <1>3 DEF LoopState, Index
<1>5. in[r].sku \in {i.sku : i \in Inputs}
  BY <1>1
<1> QED BY <1>1, <1>4, <1>5 DEF FileOf, PathOf, Path, ImageId

LEMMA ImageTablesStep ==
  ASSUME TypeInv, LoopInv, ImageTables, [ImagesNext]_allVars
  PROVE  ImageTables'
<1> USE DEF ImageTables
<1>1. CASE UNCHANGED imageVars
  BY <1>1 DEF imageVars
<1>2. ASSUME NEW r \in Request, LoopStepOf(r) \/ Fetched(r) PROVE ImageTables'
  <2>1. CASE LoadBase64(r) \/ LoadURL(r) \/ Fetched(r)
    BY <2>1 DEF LoadBase64, LoadURL, Fetched
  <2>2. CASE CreateThumbnailsPanics(r) \/ LoopEnds(r)
    BY <1>1, <2>2 DEF CreateThumbnailsPanics, LoopEnds
  <2>3. CASE CreateFile(r)
    <3>1. FileOf(r) \in Path /\ Mixed \in Content /\ Partial \in Content
      BY <2>3, FileOfType DEF CreateFile, AtStep, Content, Mixed, Partial
    <3> QED BY <2>3, <3>1 DEF CreateFile
  <2>4. CASE EncodeFile(r)
    <3>1. /\ FileOf(r) \in Path /\ Mixed \in Content /\ Whole(<<r, loop[r].index>>) \in Content
      BY <2>4, FileOfType DEF EncodeFile, AtStep, Content, Mixed, Whole
    <3> QED BY <2>4, <3>1 DEF EncodeFile
  <2>5. CASE CreateProductImage(r)
    BY <2>5, FileOfType DEF CreateProductImage, AtStep
  <2> QED BY <1>2, <2>1, <2>2, <2>3, <2>4, <2>5 DEF LoopStepOf
<1>3. ASSUME NEW r \in Request, InsertProduct(r) PROVE ImageTables'
  <2>1. pc[r] \in Statement
    BY <1>3 DEF InsertProduct, CreateProduct_InsertProduct, At, Statement
  <2>2. in[r] \in Inputs
    BY <2>1, RequestFields
  <2>3. ImagesToCreate(r) # <<>> => <<r, PrimaryIndex(r)>> \in ImageId
    BY <2>2, PrimaryIndexType DEF ImageId
  <2> QED BY <1>3, <2>3 DEF InsertProduct, SetPrimaryProductImageForProduct
<1>4. ASSUME NEW r \in Request, ReadProduct(r) PROVE ImageTables'
  <2>1. DOMAIN products = ProductId
    BY DEF TypeInv, StoreTypeOK
  <2>2. readPrimary' = readPrimary
        \/ \E p \in ProductId : readPrimary' = [readPrimary EXCEPT ![r] = primary[p]]
    BY <1>4, <2>1 DEF ReadProduct, ProductsWithSKU, Active
  <2> QED BY <1>4, <2>2 DEF ReadProduct
<1>5. ASSUME NEW r \in Request, WriteProduct(r) PROVE ImageTables'
  BY <1>5 DEF WriteProduct, MergedImage, ImageKnown, CommittedImages
<1>6. ASSUME NEW r \in Request, OtherStatement(r) PROVE ImageTables'
  BY <1>1, <1>6 DEF OtherStatement
<1> QED BY <1>1, <1>2, <1>3, <1>4, <1>5, <1>6 DEF ImagesNext, RunsWithImages, allVars

LEMMA ImageTablesInvariant == ImagesSpec => []ImageTables
<1>1. ImagesInit => ImageTables
  BY DEF ImagesInit, ImageTables, Content, Absent
<1> QED BY <1>1, ImageTablesStep, LoopInvariant, PTL DEF ImagesSpec

\* Every image has a number below the bound and a file of its own request's
\* SKU, and the primary image of a product is one there could be: the index
\* that handleProductCreationImages and its callers compute never leaves the
\* list the duplicates have been dropped from.
THEOREM ImagesTypeCorrect == ImagesSpec => []ImagesTypeOK
<1>1. LoopInv /\ ImageTables => ImagesTypeOK
  BY DEF LoopInv, ImageTables, ImagesTypeOK, LoopState
<1> QED BY <1>1, LoopInvariant, ImageTablesInvariant, PTL


-----------------------------------------------------------------------------
(* The files of an image *)

Inserted(r) == roots[<<r, 1>>].st # "absent"

\* A root is its request's, and has the SKU of it.
RootNamed(r) ==
  Inserted(r) => pc[r] # "idle" /\ in[r].op = "createProduct" /\ roots[<<r, 1>>].prefix = in[r].sku

\* Somebody else has got past the check with the SKU of r.
Shared(r) == \E q \in Request \ {r} : Inserted(q) /\ roots[<<q, 1>>].prefix = in[r].sku

\* The loop of r has written size s of its image i.
HasWritten(r, i, s) ==
  \/ i < loop[r].index
  \/ i = loop[r].index /\ (s < loop[r].size \/ loop[r].step = "insert")

\* A file that is written is whole, unless another creation has the same
\* paths, and then still it is there.
FileFine(r, i, s) ==
  LET f == PathOf(in[r].sku, i, s)
  IN files[f] = Whole(<<r, i>>) \/ (files[f] # Absent /\ Shared(r))

\* No image precedes its files.
FilesOK(r) ==
  /\ loop[r] # StartOfLoop => Inserted(r)
  /\ loop[r].step # "load" => loop[r].index \in Index
  /\ \A i \in Index, s \in Size : HasWritten(r, i, s) => FileFine(r, i, s)
  /\ loop[r].step = "encode" =>
       files[FileOf(r)] = Partial \/ (files[FileOf(r)] # Absent /\ Shared(r))
  /\ \A id \in images : id[1] = r => id[2] < loop[r].index

FilesInv == \A r \in Request : RootNamed(r) /\ FilesOK(r)

\* What becomes of the root of request q in a step of Catalog.
LEMMA RootMoves ==
  ASSUME TypeInv, TransactionInv, [Next]_vars, NEW q \in Request, RootNamed(q)
  PROVE  /\ RootNamed(q)'
         /\ Inserted(q) => Inserted(q)' /\ roots'[<<q, 1>>].prefix = roots[<<q, 1>>].prefix
<1> DEFINE Same == (Inserted(q)' <=> Inserted(q))
                   /\ (Inserted(q) => roots'[<<q, 1>>].prefix = roots[<<q, 1>>].prefix)
<1>1. ASSUME Same PROVE RootNamed(q)' /\ (Inserted(q) => Inserted(q)')
  BY <1>1, RequestMoves DEF RootNamed
<1>2. ASSUME UNCHANGED roots PROVE Same
  BY <1>2 DEF Inserted
<1>3. <<q, 1>> \in RootId /\ roots \in [RootId -> RootRow]
  BY DrawnIds DEF TypeInv, StoreTypeOK
<1>4. ASSUME NEW rs \in SUBSET Request, roots' = Undone(roots, rs) PROVE Same
  <2>1. ASSUME NEW i \in RootId
        PROVE  /\ roots'[i].st = "absent" <=> roots[i].st = "absent"
               /\ roots'[i].prefix = roots[i].prefix
    BY <1>3, <1>4 DEF Undone, RootRow
  <2> QED BY <1>3, <2>1 DEF Inserted
<1>5. ASSUME NEW r, NEW gone, roots' = Settled(roots, r, gone), gone \subseteq Committed(roots)
      PROVE  Same
  <2>1. ASSUME NEW i \in RootId
        PROVE  /\ roots'[i].st = "absent" <=> roots[i].st = "absent"
               /\ roots'[i].prefix = roots[i].prefix
    BY <1>3, <1>5 DEF Settled, RootRow, Committed
  <2> QED BY <1>3, <2>1 DEF Inserted
<1>6. ASSUME NEW r \in Request, CreateProduct_InsertRoot(r), r # q PROVE Same
  <2>1. roots'[<<q, 1>>] = roots[<<q, 1>>]
    BY <1>3, <1>6 DEF CreateProduct_InsertRoot, CreateProductRoot, Written
  <2> QED BY <2>1 DEF Inserted
<1>7. ASSUME CreateProduct_InsertRoot(q)
      PROVE  /\ RootNamed(q)'
             /\ Inserted(q) => Inserted(q)' /\ roots'[<<q, 1>>].prefix = roots[<<q, 1>>].prefix
  <2>1. roots'[<<q, 1>>] = [st |-> "pending", prefix |-> in[q].sku]
    BY <1>3, <1>7 DEF CreateProduct_InsertRoot, CreateProductRoot, Written
  <2>2. pc'[q] # "idle" /\ in' = in /\ in[q].op = "createProduct"
    BY <1>7 DEF CreateProduct_InsertRoot, TypeInv, LocalsOK, Continue, Goto, At, locals
  <2> QED BY <2>1, <2>2 DEF RootNamed, Inserted
<1>8. ASSUME NEW r \in Request, Handle(r)
      PROVE  Same \/ CreateProduct_InsertRoot(q)
  <2>1. CASE ReadStep(r)
    BY <1>2, <2>1, ReadStepFrame DEF tables
  <2>2. CASE MarkStep(r)
    BY <1>2, <1>4, <2>2, MarkStepFrame DEF tables, MarksOnly, Rollback
  <2>3. CASE InsertStep(r)
    <3>1. CreateProduct_InsertRoot(r) \/ UNCHANGED roots \/ Rollback({r})
      BY <2>3 DEF InsertStep, CreateProduct_InsertImages, CreateProduct_InsertProduct,
         CreateProduct_InsertVariants, CreateOption_Insert, CreateValue_Insert, tables
    <3> QED BY <1>2, <1>4, <1>6, <3>1 DEF Rollback
  <2>4. CASE UpdateStep(r)
    BY <1>2, <2>4 DEF UpdateStep, UpdateProduct_Update, UpdateOption_Update, UpdateValue_Update,
       DeleteValue_Update
  <2>5. CASE EndStep(r)
    <3>1. Commit(r) \/ Rollback({r}) \/ UNCHANGED roots
      BY <2>5 DEF EndStep, CommitSucceeds, CommitFails, StatementFails, tables
    <3>2. marks[r].roots \subseteq Committed(roots)
      BY DEF TransactionInv, Transacts, MarksOK
    <3> QED BY <1>2, <1>4, <1>5, <3>1, <3>2 DEF Commit, Rollback
  <2>6. CASE FindStep(r)
    BY <1>2, <2>6 DEF FindStep, DeleteProduct_Find, DeleteRoot_Find, DeleteOption_Find,
       UpdateValue_Find, DeleteValue_Find, UpdateProduct_Find, UpdateOption_Find, Find, tables
  <2> QED BY <1>8, <2>1, <2>2, <2>3, <2>4, <2>5, <2>6, HandleSteps
<1>9. CASE ServerCrash
  <2>1. PICK rs \in SUBSET Request : Rollback(rs)
    BY <1>9 DEF ServerCrash, InFlight
  <2>2. Same
    BY <1>4, <2>1 DEF Rollback
  <2> QED BY <1>1, <2>2
<1>10. CASE UNCHANGED tables
  BY <1>1, <1>2, <1>10 DEF tables
<1> HIDE DEF Same
<1>11. ASSUME NEW r \in Request, Handle(r)
       PROVE  /\ RootNamed(q)'
              /\ Inserted(q) => Inserted(q)' /\ roots'[<<q, 1>>].prefix = roots[<<q, 1>>].prefix
  BY <1>1, <1>7, <1>8, <1>11 DEF Same
<1> QED BY <1>9, <1>10, <1>11 DEF Next, Arrive, Quiescent, vars


LEMMA NothingAtStart ==
  ASSUME NEW r \in Request, loop[r] = StartOfLoop
  PROVE  loop[r].step = "load" /\ \A i \in Index, s \in Size : ~HasWritten(r, i, s)
<1>1. loop[r].index = 0 /\ loop[r].step = "load" /\ loop[r].size = 1
  BY DEF StartOfLoop
<1> QED BY <1>1, ImagesAssumption DEF HasWritten, Index, Size

LEMMA FilesAtRest ==
  ASSUME TypeInv, TransactionInv, FilesInv, [Next]_vars, UNCHANGED <<files, images, loop>>
  PROVE  FilesInv'
<1>1. ASSUME NEW q \in Request
      PROVE  /\ RootNamed(q)' /\ RootNamed(q)
             /\ Inserted(q) => Inserted(q)' /\ roots'[<<q, 1>>].prefix = roots[<<q, 1>>].prefix
  BY RootMoves DEF FilesInv
<1>2. ASSUME NEW r \in Request PROVE FilesOK(r)'
  <2>1. FilesOK(r)
    BY DEF FilesInv
  <2>2. CASE loop[r] = StartOfLoop
    <3>1. \A i \in Index, s \in Size : ~HasWritten(r, i, s)'
      BY <2>2, NothingAtStart DEF HasWritten
    <3>2. loop'[r] = StartOfLoop /\ loop'[r].step = "load"
      BY <2>2, NothingAtStart
    <3> QED BY <2>1, <3>1, <3>2 DEF FilesOK
  <2>3. CASE loop[r] # StartOfLoop
    <3>1. Inserted(r) /\ Inserted(r)' /\ in'[r] = in[r]
      BY <1>1, <2>1, <2>3, RequestMoves DEF FilesOK, RootNamed
    <3>2. Shared(r) => Shared(r)'
      BY <1>1, <3>1 DEF Shared
    <3>3. FileOf(r)' = FileOf(r) /\ \A i, s : PathOf(in'[r].sku, i, s) = PathOf(in[r].sku, i, s)
      BY <3>1 DEF FileOf, PathOf
    <3>4. \A i, s : FileFine(r, i, s) => FileFine(r, i, s)'
      BY <3>2, <3>3 DEF FileFine
    <3>5. \A i, s : HasWritten(r, i, s)' <=> HasWritten(r, i, s)
      BY DEF HasWritten
    <3> QED BY <2>1, <3>1, <3>2, <3>3, <3>4, <3>5 DEF FilesOK
  <2> QED BY <2>2, <2>3
<1> QED BY <1>1, <1>2 DEF FilesInv

\* A request in its loop has inserted its root.
LEMMA LoopHasRoot ==
  ASSUME TypeInv, TransactionInv, FilesInv, NEW r \in Request, InLoop(r)
  PROVE  Inserted(r) /\ roots[<<r, 1>>].prefix = in[r].sku
BY DEF TransactionInv, Transacts, Stage, InLoop, At, OnlyRoot, Inserted, FilesInv, RootNamed

\* What a step of one loop leaves to be shown.
LEMMA VarsAlone ==
  ASSUME FilesInv, UNCHANGED vars, \A q \in Request : FilesOK(q)'
  PROVE  FilesInv'
BY DEF FilesInv, RootNamed, Inserted, vars, tables, locals

LEMMA SameShared ==
  ASSUME UNCHANGED vars, NEW q \in Request
  PROVE  (Shared(q)' <=> Shared(q)) /\ (Inserted(q)' <=> Inserted(q)) /\ in'[q] = in[q]
BY DEF Shared, Inserted, vars, tables, locals

\* A file of r is written: others have lost theirs of the same path, if there
\* are any, but not without sharing the SKU.
LEMMA OthersFiles ==
  ASSUME TypeInv, TransactionInv, LoopInv, FilesInv, ImageTables, NEW r \in Request, InLoop(r),
         UNCHANGED vars, NEW c, c # Absent, files' = [files EXCEPT ![FileOf(r)] = c],
         UNCHANGED images, NEW q \in Request \ {r}, loop'[q] = loop[q]
  PROVE  FilesOK(q)'
<1>1. FilesOK(q) /\ RootNamed(q) /\ RootNamed(r) /\ LoopOK(q)
  BY DEF FilesInv, LoopInv
<1>2. Inserted(r) /\ roots[<<r, 1>>].prefix = in[r].sku
  BY LoopHasRoot
<1>3. (Shared(q)' <=> Shared(q)) /\ (Inserted(q)' <=> Inserted(q)) /\ in'[q] = in[q]
  BY SameShared
<1>4. DOMAIN files = Path
  BY DEF ImageTables
<1>5. ASSUME NEW f \in Path, f[1] = in[q].sku
      PROVE  files'[f] = files[f] \/ (files'[f] # Absent /\ Shared(q))
  <2>1. CASE f = FileOf(r)
    <3>1. in[r].sku = in[q].sku
      BY <1>5, <2>1 DEF FileOf, PathOf
    <3>2. Shared(q)
      BY <1>2, <3>1 DEF Shared
    <3>3. files'[f] = c
      BY <1>4, <2>1
    <3> QED BY <3>2, <3>3
  <2>2. CASE f # FileOf(r)
    BY <1>4, <2>2
  <2> QED BY <2>1, <2>2
<1>6. loop[q] # StartOfLoop => in[q] \in Inputs
  BY <1>1 DEF FilesOK, RootNamed, LoopOK
<1>7. ASSUME NEW i \in Index, NEW s \in Size, HasWritten(q, i, s)' PROVE FileFine(q, i, s)'
  <2>1. HasWritten(q, i, s)
    BY <1>7 DEF HasWritten
  <2>2. in[q] \in Inputs
    BY <1>6, <2>1, NothingAtStart
  <2> DEFINE f == PathOf(in[q].sku, i, s)
  <2>3. f \in Path /\ f[1] = in[q].sku
    BY <2>2 DEF PathOf, Path
  <2>4. files[f] = Whole(<<q, i>>) \/ (files[f] # Absent /\ Shared(q))
    BY <1>1, <2>1 DEF FilesOK, FileFine
  <2>5. files'[f] = Whole(<<q, i>>) \/ (files'[f] # Absent /\ Shared(q))
    <3> HIDE DEF f
    <3> QED BY <1>5, <2>3, <2>4
  <2> QED BY <1>3, <2>5 DEF FileFine
<1>8. ASSUME loop[q].step = "encode"
      PROVE  files'[FileOf(q)'] = Partial \/ (files'[FileOf(q)'] # Absent /\ Shared(q)')
  <2>1. in[q] \in Inputs /\ loop[q].index \in Index /\ loop[q].size \in Size
    BY <1>1, <1>6, <1>8, NothingAtStart DEF FilesOK, LoopOK, LoopState
  <2>2. FileOf(q) \in Path /\ FileOf(q)[1] = in[q].sku /\ FileOf(q)' = FileOf(q)
    BY <1>3, <2>1 DEF FileOf, PathOf, Path
  <2>3. files[FileOf(q)] = Partial \/ (files[FileOf(q)] # Absent /\ Shared(q))
    BY <1>1, <1>8 DEF FilesOK
  <2>4. files'[FileOf(q)] = Partial \/ (files'[FileOf(q)] # Absent /\ Shared(q))
    BY <1>5, <2>2, <2>3
  <2> QED BY <1>3, <2>2, <2>4
<1> QED BY <1>1, <1>3, <1>7, <1>8 DEF FilesOK


LEMMA OthersNoFiles ==
  ASSUME FilesInv, UNCHANGED vars, UNCHANGED files, NEW q \in Request, loop'[q] = loop[q],
         \A id \in images' : id[1] = q => id \in images
  PROVE  FilesOK(q)'
<1>1. FilesOK(q) /\ (Shared(q)' <=> Shared(q)) /\ (Inserted(q)' <=> Inserted(q)) /\ in'[q] = in[q]
  BY SameShared DEF FilesInv
<1> QED BY <1>1 DEF FilesOK, FileFine, HasWritten, FileOf

LEMMA GotoStepFiles ==
  ASSUME TypeInv, TransactionInv, LoopInv, FilesInv, NEW r \in Request, InLoop(r), UNCHANGED vars,
         UNCHANGED <<files, images>>, NEW s \in {"create", "fetch"}, GotoStep(r, s),
         loop[r].step \in {"load", "fetch"}
  PROVE  FilesInv'
<1>1. ASSUME NEW q \in Request \ {r} PROVE FilesOK(q)'
  <2>1. loop'[q] = loop[q]
    BY DEF GotoStep, LoopInv
  <2> QED BY <2>1, OthersNoFiles
<1>2. FilesOK(r)'
  <2>1. /\ FilesOK(r) /\ (Shared(r)' <=> Shared(r)) /\ (Inserted(r)' <=> Inserted(r))
        /\ in'[r] = in[r] /\ Inserted(r)
    BY SameShared, LoopHasRoot DEF FilesInv
  <2>2. loop'[r].index = loop[r].index /\ loop'[r].size = loop[r].size /\ loop'[r].step = s
    BY DEF GotoStep, LoopInv, LoopState
  <2>3. loop[r].index \in Index
    BY FileOfType
  <2>4. \A i, n : HasWritten(r, i, n)' => HasWritten(r, i, n)
    BY <2>2 DEF HasWritten
  <2> QED BY <2>1, <2>2, <2>3, <2>4 DEF FilesOK, FileFine
<1> QED BY <1>1, <1>2, VarsAlone

LEMMA CreateFileFiles ==
  ASSUME TypeInv, TransactionInv, LoopInv, FilesInv, ImageTables, NEW r \in Request, CreateFile(r)
  PROVE  FilesInv'
<1> DEFINE open == \E q \in Request \ {r} : AtStep(q, "encode") /\ FileOf(q) = FileOf(r)
           c == IF open THEN Mixed ELSE Partial
<1>1. /\ InLoop(r) /\ loop[r].step = "create" /\ UNCHANGED <<vars, images>>
      /\ GotoStep(r, "encode") /\ files' = [files EXCEPT ![FileOf(r)] = c]
  BY DEF CreateFile, AtStep
<1>2. c # Absent /\ (c = Partial \/ open)
  BY DEF Mixed, Partial, Absent
<1>3. open => Shared(r)
  <2> SUFFICES ASSUME NEW q \in Request \ {r}, AtStep(q, "encode"), FileOf(q) = FileOf(r)
               PROVE  Shared(r)
    OBVIOUS
  <2>1. in[q].sku = in[r].sku
    BY DEF FileOf, PathOf
  <2>2. Inserted(q) /\ roots[<<q, 1>>].prefix = in[q].sku
    BY LoopHasRoot DEF AtStep
  <2> QED BY <2>1, <2>2 DEF Shared
<1> HIDE DEF open, c
<1>4. ASSUME NEW q \in Request \ {r} PROVE FilesOK(q)'
  <2>1. loop'[q] = loop[q]
    BY <1>1 DEF GotoStep, LoopInv
  <2> QED BY <1>1, <1>2, <2>1, OthersFiles
<1>5. FilesOK(r)'
  <2>1. /\ FilesOK(r) /\ (Shared(r)' <=> Shared(r)) /\ (Inserted(r)' <=> Inserted(r))
        /\ in'[r] = in[r] /\ Inserted(r)
    BY <1>1, SameShared, LoopHasRoot DEF FilesInv
  <2>2. loop'[r].index = loop[r].index /\ loop'[r].size = loop[r].size /\ loop'[r].step = "encode"
    BY <1>1 DEF GotoStep, LoopInv, LoopState
  <2>3. FileOf(r) \in Path /\ loop[r].index \in Index /\ loop[r].size \in Size /\ in[r] \in Inputs
    BY <1>1, FileOfType
  <2>4. files'[FileOf(r)] = c /\ \A f \in Path : f # FileOf(r) => files'[f] = files[f]
    BY <1>1, <2>3 DEF ImageTables
  <2>5. FileOf(r)' = FileOf(r)
    BY <2>1, <2>2 DEF FileOf
  <2>6. ASSUME NEW i \in Index, NEW s \in Size, HasWritten(r, i, s)' PROVE FileFine(r, i, s)'
    <3>1. HasWritten(r, i, s) /\ ~(i = loop[r].index /\ s = loop[r].size)
      BY <1>1, <2>2, <2>3, <2>6, ImagesAssumption DEF HasWritten, Index, Size
    <3>2. PathOf(in[r].sku, i, s) \in Path /\ PathOf(in[r].sku, i, s) # FileOf(r)
      BY <2>3, <3>1 DEF PathOf, FileOf, Path
    <3>3. files'[PathOf(in[r].sku, i, s)] = files[PathOf(in[r].sku, i, s)]
      BY <2>4, <3>2
    <3> QED BY <2>1, <3>1, <3>3 DEF FilesOK, FileFine
  <2> QED BY <1>1, <1>2, <1>3, <2>1, <2>2, <2>3, <2>4, <2>5, <2>6 DEF FilesOK
<1> QED BY <1>1, <1>4, <1>5, VarsAlone

LEMMA EncodeFileFiles ==
  ASSUME TypeInv, TransactionInv, LoopInv, FilesInv, ImageTables, NEW r \in Request, EncodeFile(r)
  PROVE  FilesInv'
<1>1. /\ InLoop(r) /\ loop[r].step = "encode" /\ UNCHANGED <<vars, images>>
      /\ loop' = [loop EXCEPT ![r] = AfterFile(loop[r])]
  BY DEF EncodeFile, AtStep
<1>2. PICK c : /\ files' = [files EXCEPT ![FileOf(r)] = c]
               /\ c # Absent
               /\ c = Whole(<<r, loop[r].index>>) \/ files[FileOf(r)] # Partial
  BY DEF EncodeFile, Mixed, Absent, Whole
<1>3. ASSUME NEW q \in Request \ {r} PROVE FilesOK(q)'
  <2>1. loop'[q] = loop[q]
    BY <1>1 DEF LoopInv
  <2> QED BY <1>1, <1>2, <2>1, OthersFiles
<1>4. FilesOK(r)'
  <2>1. /\ FilesOK(r) /\ (Shared(r)' <=> Shared(r)) /\ (Inserted(r)' <=> Inserted(r))
        /\ in'[r] = in[r] /\ Inserted(r) /\ loop[r] \in LoopState
    BY <1>1, SameShared, LoopHasRoot DEF FilesInv, LoopInv
  <2>2. loop'[r] = AfterFile(loop[r])
    BY <1>1 DEF LoopInv
  <2>3. FileOf(r) \in Path /\ loop[r].index \in Index /\ loop[r].size \in Size /\ in[r] \in Inputs
    BY <1>1, FileOfType
  <2>4. /\ loop'[r].index = loop[r].index /\ loop'[r].step \in {"create", "insert"}
        /\ \A s \in Size : s < loop'[r].size \/ loop'[r].step = "insert"
                             => s < loop[r].size \/ s = loop[r].size
    <3>1. CASE loop[r].size < 3
      <4>1. loop'[r] = [index |-> loop[r].index, step |-> "create", size |-> loop[r].size + 1]
        BY <2>1, <2>2, <3>1, LoopRecords
      <4>2. loop'[r].index = loop[r].index /\ loop'[r].step = "create"
            /\ loop'[r].size = loop[r].size + 1
        BY <4>1
      <4> QED BY <2>3, <4>2 DEF Size
    <3>2. CASE ~(loop[r].size < 3)
      <4>1. loop'[r] = [index |-> loop[r].index, step |-> "insert", size |-> 1]
        BY <2>1, <2>2, <3>2, LoopRecords
      <4>2. loop'[r].index = loop[r].index /\ loop'[r].step = "insert" /\ loop'[r].size = 1
        BY <4>1
      <4> QED BY <2>3, <3>2, <4>2 DEF Size
    <3> QED BY <3>1, <3>2
  <2>5. files'[FileOf(r)] = c /\ \A f \in Path : f # FileOf(r) => files'[f] = files[f]
    BY <1>2, <2>3 DEF ImageTables
  <2>6. files[FileOf(r)] # Partial => Shared(r)
    BY <1>1, <2>1 DEF FilesOK
  <2>7. ASSUME NEW i \in Index, NEW s \in Size, HasWritten(r, i, s)' PROVE FileFine(r, i, s)'
    <3>1. CASE i = loop[r].index /\ s = loop[r].size
      <4>1. PathOf(in[r].sku, i, s) = FileOf(r)
        BY <3>1 DEF FileOf
      <4> QED BY <1>2, <2>1, <2>5, <2>6, <3>1, <4>1 DEF FileFine
    <3>2. CASE ~(i = loop[r].index /\ s = loop[r].size)
      <4>1. HasWritten(r, i, s)
        BY <2>4, <2>7, <3>2 DEF HasWritten
      <4>2. PathOf(in[r].sku, i, s) \in Path /\ PathOf(in[r].sku, i, s) # FileOf(r)
        BY <2>3, <3>2 DEF PathOf, FileOf, Path
      <4>3. files'[PathOf(in[r].sku, i, s)] = files[PathOf(in[r].sku, i, s)]
        BY <2>5, <4>2
      <4> QED BY <2>1, <4>1, <4>3 DEF FilesOK, FileFine
    <3> QED BY <3>1, <3>2
  <2> QED BY <1>1, <2>1, <2>3, <2>4, <2>7 DEF FilesOK
<1> QED BY <1>1, <1>3, <1>4, VarsAlone

LEMMA CreateProductImageFiles ==
  ASSUME TypeInv, TransactionInv, LoopInv, FilesInv, ImageTables, NEW r \in Request,
         CreateProductImage(r)
  PROVE  FilesInv'
<1>1. /\ InLoop(r) /\ loop[r].step = "insert" /\ UNCHANGED <<vars, files>>
      /\ loop' = [loop EXCEPT ![r] = AfterRow(loop[r])]
      /\ images' = images \cup {<<r, loop[r].index>>}
  BY DEF CreateProductImage, AtStep
<1>2. ASSUME NEW q \in Request \ {r} PROVE FilesOK(q)'
  <2>1. loop'[q] = loop[q] /\ \A id \in images' : id[1] = q => id \in images
    BY <1>1 DEF LoopInv
  <2> QED BY <1>1, <2>1, OthersNoFiles
<1>3. FilesOK(r)'
  <2>1. /\ FilesOK(r) /\ (Shared(r)' <=> Shared(r)) /\ (Inserted(r)' <=> Inserted(r))
        /\ in'[r] = in[r] /\ Inserted(r) /\ loop[r] \in LoopState /\ loop[r].size = 1
    BY <1>1, SameShared, LoopHasRoot DEF FilesInv, LoopInv, LoopOK
  <2>2. loop'[r] = [index |-> loop[r].index + 1, step |-> "load", size |-> loop[r].size]
    BY <1>1, <2>1, LoopRecords DEF LoopInv
  <2>3. loop'[r].index = loop[r].index + 1 /\ loop'[r].step = "load" /\ loop'[r].size = 1
    BY <2>1, <2>2
  <2>4. loop[r].index \in 0..MaxImages
    BY <2>1 DEF LoopState
  <2>5. ASSUME NEW i \in Index, NEW s \in Size, HasWritten(r, i, s)' PROVE HasWritten(r, i, s)
    <3>1. i < loop[r].index + 1
      BY <2>3, <2>4, <2>5 DEF HasWritten, Size
    <3>2. i < loop[r].index \/ i = loop[r].index
      BY <2>4, <3>1, ImagesAssumption DEF Index
    <3> QED BY <1>1, <3>2 DEF HasWritten
  <2>6. \A i \in Index, s \in Size : HasWritten(r, i, s)' => FileFine(r, i, s)'
    BY <1>1, <2>1, <2>5 DEF FilesOK, FileFine
  <2>7. ASSUME NEW id \in images', id[1] = r PROVE id[2] < loop'[r].index
    <3>1. CASE id \in images
      <4>1. id[2] < loop[r].index /\ id[2] \in Nat
        BY <2>1, <2>7, <3>1, ImagesAssumption DEF FilesOK, ImageTables, ImageId, Index
      <4> QED BY <2>3, <2>4, <4>1
    <3>2. CASE id = <<r, loop[r].index>>
      BY <2>3, <2>4, <3>2
    <3> QED BY <1>1, <3>1, <3>2
  <2> QED BY <2>1, <2>3, <2>6, <2>7 DEF FilesOK
<1> QED BY <1>1, <1>2, <1>3, VarsAlone


LEMMA FilesStep ==
  ASSUME TypeInv, TransactionInv, LoopInv, FilesInv, ImageTables, [ImagesNext]_allVars
  PROVE  FilesInv'
<1>1. ASSUME NEW r \in Request, WithinLoop(r) PROVE FilesInv'
  <2>1. UNCHANGED vars
    BY <1>1 DEF WithinLoop
  <2>2. CASE /\ AtStep(r, "load") /\ UNCHANGED <<files, images>>
             /\ GotoStep(r, "create") \/ GotoStep(r, "fetch")
    BY <2>1, <2>2, GotoStepFiles DEF AtStep
  <2>3. CASE Fetched(r)
    BY <2>1, <2>3, GotoStepFiles DEF Fetched, AtStep
  <2> QED BY <1>1, <2>2, <2>3, CreateFileFiles, EncodeFileFiles, CreateProductImageFiles
          DEF WithinLoop
<1> QED BY <1>1, FilesAtRest, ImagesSteps

LEMMA FilesInvariant == ImagesSpec => []FilesInv
<1>1. ImagesInit => FilesInv
  <2> SUFFICES ASSUME ImagesInit PROVE FilesInv
    OBVIOUS
  <2>1. ASSUME NEW r \in Request PROVE ~Inserted(r)
    <3>1. r # 0
      BY DEF Request
    <3>2. <<r, 1>> \in RootId /\ <<r, 1>>[1] # 0
      BY <3>1, DrawnIds
    <3> QED BY <3>2, SeedAssumption DEF ImagesInit, Init, StoreInit, Inserted
  <2>2. ASSUME NEW r \in Request PROVE loop[r] = StartOfLoop
    BY DEF ImagesInit, StartOfLoop
  <2>3. images = {}
    BY DEF ImagesInit
  <2> QED BY <2>1, <2>2, <2>3, NothingAtStart DEF FilesInv, RootNamed, FilesOK
<1>2. ImagesSpec => []TransactionInv
  BY ImagesImplementCatalog, TransactionInvariant, PTL DEF CatalogIsImplemented
<1> QED BY <1>1, <1>2, FilesStep, LoopInvariant, ImageTablesInvariant, PTL DEF ImagesSpec

\* No image is shown before its three files are stored, and they are whole
\* unless another creation has got past the check with the same SKU:
\* handleProductCreationImages stores an image before it inserts the row, and
\* an error of os.Create or png.Encode ends the handler there.
THEOREM FilesBeforeImages == ImagesSpec => []StoredBeforeShown
<1>1. LoopInv /\ ImageTables /\ FilesInv => StoredBeforeShown
  <2> SUFFICES ASSUME FilesInv, ImageTables, NEW id \in CommittedImages
               PROVE  \/ HasItsFiles(id)
                      \/ /\ \A s \in Size : files[PathOf(in[id[1]].sku, id[2], s)] # Absent
                         /\ Shared(id[1])
    BY DEF StoredBeforeShown, Shared, Inserted
  <2>1. id \in images /\ id[1] \in Request /\ id[2] \in Index /\ id = <<id[1], id[2]>>
    BY DEF CommittedImages, ImageTables, ImageId
  <2>2. \A s \in Size : HasWritten(id[1], id[2], s)
    BY <2>1 DEF FilesInv, FilesOK, HasWritten
  <2>3. \A s \in Size : FileFine(id[1], id[2], s)
    BY <2>1, <2>2 DEF FilesInv, FilesOK
  <2>4. \A s \in Size : Whole(<<id[1], id[2]>>) # Absent
    BY DEF Whole, Absent
  <2> QED BY <2>1, <2>3, <2>4 DEF FileFine, HasItsFiles
<1> QED BY <1>1, LoopInvariant, ImageTablesInvariant, FilesInvariant, PTL

-----------------------------------------------------------------------------
(* The files of an active root are its own, while requests are handled one *)
(* at a time                                                               *)

\* What the loop of r has written is there, and nobody has written over it.
WrittenWhole(r) ==
  /\ \A i \in Index, s \in Size :
       HasWritten(r, i, s) => files[PathOf(in[r].sku, i, s)] = Whole(<<r, i>>)
  /\ pc[r] \in Statement /\ loop[r].step = "encode" => files[FileOf(r)] = Partial

\* While requests are handled one at a time, this is so of the request that
\* is handled and of those whose root is active.
OwnFilesInv ==
  \A r \in Request :
    pc[r] \in Statement \/ roots[<<r, 1>>].st = "active" => WrittenWhole(r)

\* Only the request of a root makes it active, by its commit.
LEMMA RootShown ==
  ASSUME TypeInv, TransactionInv, [Next]_vars, NEW q \in Request,
         roots'[<<q, 1>>].st = "active"
  PROVE  roots[<<q, 1>>].st = "active" \/ pc[q] \in Statement
<1> DEFINE Was == roots[<<q, 1>>].st = "active"
<1>1. <<q, 1>> \in RootId /\ roots \in [RootId -> RootRow] /\ StoreTypeOK
  BY DrawnIds DEF TypeInv, StoreTypeOK
<1>2. ASSUME UNCHANGED roots PROVE Was
  BY <1>2
<1>3. ASSUME NEW rs \in SUBSET Request, Rollback(rs) PROVE Was
  BY <1>1, <1>3, RollbackRows
<1>4. ASSUME NEW r \in Request, Commit(r), r # q PROVE Was
  <2>1. \A i \in RootId : i[1] = q /\ roots'[i].st = "active" => roots[i].st = "active"
    BY <1>1, <1>4, CommitRows
  <2> QED BY <1>1, <2>1
<1>5. ASSUME NEW r \in Request, Handle(r), r # q PROVE Was
  <2>1. CASE ReadStep(r)
    BY <1>2, <2>1, ReadStepFrame DEF tables
  <2>2. CASE MarkStep(r)
    BY <1>2, <1>3, <2>2, MarkStepFrame DEF tables, MarksOnly
  <2>3. CASE InsertStep(r)
    <3>1. CreateProduct_InsertRoot(r) \/ UNCHANGED roots \/ Rollback({r})
      BY <2>3 DEF InsertStep, CreateProduct_InsertImages, CreateProduct_InsertProduct,
         CreateProduct_InsertVariants, CreateOption_Insert, CreateValue_Insert, tables
    <3>2. CreateProduct_InsertRoot(r) => roots'[<<q, 1>>] = roots[<<q, 1>>]
      BY <1>1, <1>5 DEF CreateProduct_InsertRoot, CreateProductRoot, Written
    <3> QED BY <1>2, <1>3, <3>1, <3>2
  <2>4. CASE UpdateStep(r)
    BY <1>2, <2>4 DEF UpdateStep, UpdateProduct_Update, UpdateOption_Update, UpdateValue_Update,
       DeleteValue_Update
  <2>5. CASE EndStep(r)
    <3>1. Commit(r) \/ Rollback({r}) \/ UNCHANGED roots
      BY <2>5 DEF EndStep, CommitSucceeds, CommitFails, StatementFails, tables
    <3> QED BY <1>2, <1>3, <1>4, <1>5, <3>1
  <2>6. CASE FindStep(r)
    BY <1>2, <2>6 DEF FindStep, DeleteProduct_Find, DeleteRoot_Find, DeleteOption_Find,
       UpdateValue_Find, DeleteValue_Find, UpdateProduct_Find, UpdateOption_Find, Find, tables
  <2> QED BY <1>5, <2>1, <2>2, <2>3, <2>4, <2>5, <2>6, HandleSteps
<1>6. CASE ServerCrash
  <2>1. PICK rs \in SUBSET Request : Rollback(rs)
    BY <1>6 DEF ServerCrash, InFlight
  <2> QED BY <1>3, <2>1
<1>7. CASE UNCHANGED tables
  BY <1>2, <1>7 DEF tables
<1>8. ASSUME Handle(q) PROVE pc[q] \in Statement
  BY <1>8, HandleRuns
<1>9. ASSUME NEW r \in Request, Handle(r) PROVE Was \/ pc[q] \in Statement
  <2>1. CASE r = q
    BY <1>8, <1>9, <2>1
  <2>2. CASE r # q
    BY <1>5, <1>9, <2>2
  <2> QED BY <2>1, <2>2
<1>10. UNCHANGED vars \/ (\E r \in Request : Arrive(r)) \/ Quiescent => UNCHANGED tables
  BY DEF Arrive, Quiescent, vars
<1>11. (\E r \in Request : Handle(r)) \/ ServerCrash \/ UNCHANGED tables
  BY <1>10 DEF Next
<1>12. CASE \E r \in Request : Handle(r)
  BY <1>9, <1>12
<1> QED BY <1>6, <1>7, <1>11, <1>12

LEMMA OwnAtRest ==
  ASSUME TypeInv, TransactionInv, FilesInv, OwnFilesInv, [Next]_vars,
         UNCHANGED <<files, images, loop>>
  PROVE  OwnFilesInv'
<1> SUFFICES ASSUME NEW r \in Request, pc'[r] \in Statement \/ roots'[<<r, 1>>].st = "active"
             PROVE  WrittenWhole(r)'
  BY DEF OwnFilesInv
<1>1. CASE loop[r] = StartOfLoop
  <2>1. loop'[r].step = "load" /\ \A i \in Index, s \in Size : ~HasWritten(r, i, s)'
    BY <1>1, NothingAtStart DEF HasWritten
  <2> QED BY <2>1 DEF WrittenWhole
<1>2. CASE loop[r] # StartOfLoop
  <2>1. pc[r] # "idle"
    BY <1>2 DEF FilesInv, FilesOK, RootNamed
  <2>2. in'[r] = in[r]
    BY <2>1, RequestMoves
  <2>3. pc'[r] \in Statement => pc[r] \in Statement
    <3>1. CASE UNCHANGED vars
      BY <3>1 DEF vars
    <3>2. ASSUME NEW q \in Request, Arrive(q) \/ Handle(q), q # r PROVE pc'[r] = pc[r]
      BY <3>2, OthersAlone
    <3>3. ASSUME Arrive(r) PROVE FALSE
      BY <2>1, <3>3 DEF Arrive
    <3>4. ASSUME Handle(r) PROVE pc[r] \in Statement
      BY <3>4, HandleRuns
    <3>5. CASE ServerCrash
      <4>1. pc'[r] = pc[r] \/ pc'[r] = "dead"
        BY <3>5 DEF ServerCrash, TypeInv, LocalsOK
      <4> QED BY <4>1 DEF Statement
    <3> QED BY <3>1, <3>2, <3>3, <3>4, <3>5 DEF Next, Quiescent
  <2>4. WrittenWhole(r)
    BY <2>3, RootShown DEF OwnFilesInv
  <2> QED BY <2>2, <2>3, <2>4 DEF WrittenWhole, HasWritten, FileOf, PathOf
<1> QED BY <1>1, <1>2

\* The files of others have other paths: no active root has the SKU of a
\* creation that is past its check, and nobody else is creating.
LEMMA OwnOthers ==
  ASSUME TypeInv, TransactionInv, LoopInv, FilesInv, ImageTables, SerialInv, OwnFilesInv,
         NEW r \in Request, InLoop(r), UNCHANGED vars,
         NEW c, files' = [files EXCEPT ![FileOf(r)] = c] \/ files' = files,
         NEW q \in Request \ {r}, loop'[q] = loop[q],
         pc'[q] \in Statement \/ roots'[<<q, 1>>].st = "active"
  PROVE  WrittenWhole(q)'
<1>1. /\ pc[r] = "insertImages" /\ in[r].op = "createProduct" /\ pc'[q] = pc[q] /\ roots' = roots
      /\ in' = in
  BY DEF InLoop, At, vars, tables, locals
<1>2. pc[q] \notin Statement
  BY <1>1 DEF SerialInv, OneAtATime, Statement
<1>3. roots[<<q, 1>>].st = "active"
  BY <1>1, <1>2
<1>4. <<q, 1>> \in Active(roots)
  BY <1>3, DrawnIds DEF Active, TypeInv, StoreTypeOK
<1>5. roots[<<q, 1>>].prefix # in[r].sku
  BY <1>1, <1>4 DEF SerialInv, Alone, StillChecked, Statement
<1>6. in[q].sku # in[r].sku
  BY <1>3, <1>5 DEF FilesInv, RootNamed, Inserted
<1>7. WrittenWhole(q)
  BY <1>3 DEF OwnFilesInv
<1>8. DOMAIN files = Path
  BY DEF ImageTables
<1>9. ASSUME NEW i \in Index, NEW s \in Size, HasWritten(q, i, s)'
      PROVE  files'[PathOf(in[q].sku, i, s)] = Whole(<<q, i>>)
  <2>1. HasWritten(q, i, s)
    BY <1>9 DEF HasWritten
  <2>2. files[PathOf(in[q].sku, i, s)] = Whole(<<q, i>>)
    BY <1>7, <2>1 DEF WrittenWhole
  <2>3. in[q] \in Inputs
    BY <1>3 DEF FilesInv, RootNamed, Inserted, LoopInv, LoopOK
  <2>4. PathOf(in[q].sku, i, s) \in Path /\ PathOf(in[q].sku, i, s) # FileOf(r)
    BY <1>6, <2>3 DEF PathOf, Path, FileOf
  <2> QED BY <1>8, <2>2, <2>4
<1> QED BY <1>1, <1>2, <1>9 DEF WrittenWhole

LEMMA OwnStep ==
  ASSUME TypeInv, TransactionInv, LoopInv, FilesInv, ImageTables, SerialInv, OwnFilesInv,
         NEW r \in Request, WithinLoop(r)
  PROVE  OwnFilesInv'
<1>1. UNCHANGED vars /\ InLoop(r) /\ pc[r] \in Statement
  BY DEF WithinLoop, Fetched, CreateFile, EncodeFile, CreateProductImage, AtStep, InLoop, At,
     Statement
<1>2. in' = in
  BY <1>1 DEF vars, locals
<1>3. WrittenWhole(r) /\ loop[r] \in LoopState
  BY <1>1 DEF OwnFilesInv, LoopInv
<1>4. PICK c : files' = [files EXCEPT ![FileOf(r)] = c] \/ files' = files
  BY DEF WithinLoop, Fetched, CreateFile, EncodeFile, CreateProductImage
<1>5. ASSUME NEW q \in Request \ {r} PROVE loop'[q] = loop[q]
  BY DEF WithinLoop, Fetched, CreateFile, EncodeFile, CreateProductImage, GotoStep, LoopInv
<1>6. /\ FileOf(r) \in Path /\ loop[r].index \in Index /\ loop[r].size \in Size
      /\ in[r] \in Inputs /\ DOMAIN files = Path
  BY <1>1, FileOfType DEF ImageTables
<1>7. ASSUME NEW i \in Index, NEW s \in Size, ~(i = loop[r].index /\ s = loop[r].size)
      PROVE  PathOf(in[r].sku, i, s) \in Path /\ PathOf(in[r].sku, i, s) # FileOf(r)
  BY <1>6, <1>7 DEF PathOf, FileOf, Path
<1>8. CASE /\ GotoStep(r, "create") \/ GotoStep(r, "fetch")
           /\ UNCHANGED files
  <2>1. loop'[r].index = loop[r].index /\ loop'[r].size = loop[r].size
        /\ loop'[r].step \in {"create", "fetch"}
    BY <1>3, <1>8 DEF GotoStep, LoopInv, LoopState
  <2>2. \A i, s : HasWritten(r, i, s)' => HasWritten(r, i, s)
    BY <2>1 DEF HasWritten
  <2>3. WrittenWhole(r)'
    BY <1>2, <1>3, <1>8, <2>1, <2>2 DEF WrittenWhole
  <2> QED BY <1>1, <1>4, <1>5, <2>3, OwnOthers DEF OwnFilesInv
<1>9. CASE CreateFile(r)
  <2>1. ~ \E q \in Request \ {r} : AtStep(q, "encode") /\ FileOf(q) = FileOf(r)
    BY <1>1 DEF SerialInv, OneAtATime, AtStep, InLoop, At, Statement
  <2>2. files' = [files EXCEPT ![FileOf(r)] = Partial]
    BY <1>9, <2>1 DEF CreateFile
  <2>3. loop'[r].index = loop[r].index /\ loop'[r].size = loop[r].size
        /\ loop'[r].step = "encode" /\ loop[r].step = "create"
    BY <1>3, <1>9 DEF CreateFile, AtStep, GotoStep, LoopInv, LoopState
  <2>4. FileOf(r)' = FileOf(r)
    BY <1>2, <2>3 DEF FileOf
  <2>5. files'[FileOf(r)] = Partial
    BY <1>6, <2>2
  <2>6. ASSUME NEW i \in Index, NEW s \in Size, HasWritten(r, i, s)'
        PROVE  files'[PathOf(in[r].sku, i, s)] = Whole(<<r, i>>)
    <3>1. HasWritten(r, i, s) /\ ~(i = loop[r].index /\ s = loop[r].size)
      BY <1>6, <2>3, <2>6, ImagesAssumption DEF HasWritten, Index, Size
    <3>2. files'[PathOf(in[r].sku, i, s)] = files[PathOf(in[r].sku, i, s)]
      BY <1>6, <1>7, <2>2, <3>1
    <3> QED BY <1>3, <3>1, <3>2 DEF WrittenWhole
  <2>7. WrittenWhole(r)'
    BY <1>2, <2>4, <2>5, <2>6 DEF WrittenWhole
  <2> QED BY <1>1, <1>4, <1>5, <2>7, OwnOthers DEF OwnFilesInv
<1>10. CASE EncodeFile(r)
  <2>1. files[FileOf(r)] = Partial
    BY <1>1, <1>3, <1>10 DEF WrittenWhole, EncodeFile, AtStep
  <2>2. files' = [files EXCEPT ![FileOf(r)] = Whole(<<r, loop[r].index>>)]
    BY <1>10, <2>1 DEF EncodeFile
  <2>3. loop'[r] = AfterFile(loop[r])
    BY <1>10 DEF EncodeFile, LoopInv
  <2>4. /\ loop'[r].index = loop[r].index /\ loop'[r].step \in {"create", "insert"}
        /\ \A s \in Size : s < loop'[r].size \/ loop'[r].step = "insert"
                             => s < loop[r].size \/ s = loop[r].size
    <3>1. CASE loop[r].size < 3
      <4>1. loop'[r] = [index |-> loop[r].index, step |-> "create", size |-> loop[r].size + 1]
        BY <1>3, <2>3, <3>1, LoopRecords
      <4>2. loop'[r].index = loop[r].index /\ loop'[r].step = "create"
            /\ loop'[r].size = loop[r].size + 1
        BY <4>1
      <4> QED BY <1>6, <4>2 DEF Size
    <3>2. CASE ~(loop[r].size < 3)
      <4>1. loop'[r] = [index |-> loop[r].index, step |-> "insert", size |-> 1]
        BY <1>3, <2>3, <3>2, LoopRecords
      <4>2. loop'[r].index = loop[r].index /\ loop'[r].step = "insert" /\ loop'[r].size = 1
        BY <4>1
      <4> QED BY <1>6, <3>2, <4>2 DEF Size
    <3> QED BY <3>1, <3>2
  <2>5. ASSUME NEW i \in Index, NEW s \in Size, HasWritten(r, i, s)'
        PROVE  files'[PathOf(in[r].sku, i, s)] = Whole(<<r, i>>)
    <3>1. CASE i = loop[r].index /\ s = loop[r].size
      <4>1. PathOf(in[r].sku, i, s) = FileOf(r)
        BY <3>1 DEF FileOf
      <4> QED BY <1>6, <2>2, <3>1, <4>1
    <3>2. CASE ~(i = loop[r].index /\ s = loop[r].size)
      <4>1. HasWritten(r, i, s)
        BY <2>4, <2>5, <3>2 DEF HasWritten
      <4>2. files'[PathOf(in[r].sku, i, s)] = files[PathOf(in[r].sku, i, s)]
        BY <1>6, <1>7, <2>2, <3>2
      <4> QED BY <1>3, <4>1, <4>2 DEF WrittenWhole
    <3> QED BY <3>1, <3>2
  <2>6. WrittenWhole(r)'
    BY <1>2, <2>4, <2>5 DEF WrittenWhole
  <2> QED BY <1>1, <1>4, <1>5, <2>6, OwnOthers DEF OwnFilesInv
<1>11. CASE CreateProductImage(r)
  <2>1. /\ loop[r].step = "insert" /\ files' = files /\ loop'[r] = AfterRow(loop[r])
        /\ loop[r].size = 1
    BY <1>11 DEF CreateProductImage, AtStep, LoopInv, LoopOK
  <2>2. loop'[r] = [index |-> loop[r].index + 1, step |-> "load", size |-> loop[r].size]
    BY <1>3, <2>1, LoopRecords
  <2>3. loop'[r].index = loop[r].index + 1 /\ loop'[r].step = "load" /\ loop'[r].size = 1
    BY <2>1, <2>2
  <2>4. ASSUME NEW i \in Index, NEW s \in Size, HasWritten(r, i, s)' PROVE HasWritten(r, i, s)
    <3>1. i < loop[r].index + 1
      BY <1>6, <2>3, <2>4 DEF HasWritten, Size
    <3>2. i < loop[r].index \/ i = loop[r].index
      BY <1>6, <3>1, ImagesAssumption DEF Index
    <3> QED BY <2>1, <3>2 DEF HasWritten
  <2>5. WrittenWhole(r)'
    BY <1>2, <1>3, <2>1, <2>3, <2>4 DEF WrittenWhole
  <2> QED BY <1>1, <1>4, <1>5, <2>5, OwnOthers DEF OwnFilesInv
<1> QED BY <1>8, <1>9, <1>10, <1>11 DEF WithinLoop, Fetched

LEMMA OwnFilesInvariant ==
  ASSUME MaxInFlight = 1
  PROVE  ImagesSpec => [](OwnFilesInv /\ FilesInv /\ ImageTables)
<1>1. ImagesInit => OwnFilesInv
  <2> SUFFICES ASSUME ImagesInit, NEW r \in Request PROVE WrittenWhole(r)
    BY DEF OwnFilesInv
  <2>1. loop[r] = StartOfLoop
    BY DEF ImagesInit, StartOfLoop
  <2> QED BY <2>1, NothingAtStart DEF WrittenWhole
<1>2. ImagesSpec => [](TransactionInv /\ SerialInv)
  <2>1. TypeInv /\ TransactionInv /\ SerialInv /\ [Next]_vars => SerialInv'
    BY SerialNext
  <2>2. Spec => [](TransactionInv /\ SerialInv)
    BY <2>1, SerialInit, TypeInvariant, TransactionInvariant, PTL DEF Spec
  <2> QED BY <2>2, ImagesImplementCatalog, PTL DEF CatalogIsImplemented
<1>3. /\ TypeInv /\ TransactionInv /\ LoopInv /\ FilesInv /\ ImageTables /\ SerialInv /\ OwnFilesInv
      /\ [ImagesNext]_allVars
      => OwnFilesInv'
  BY ImagesSteps, OwnAtRest, OwnStep
<1> QED BY <1>1, <1>2, <1>3, LoopInvariant, ImageTablesInvariant, FilesInvariant, PTL
        DEF ImagesSpec

\* While requests are handled one at a time, a product shows the pictures it
\* was created with, whatever creations of the same SKU fail, panic or are
\* refused before and after: "can't create a product with a sku that already
\* exists!" keeps the paths of two active roots apart.
THEOREM PicturesStay ==
  ASSUME MaxInFlight = 1
  PROVE  ImagesSpec => []PicturesAreOwn
<1>1. OwnFilesInv /\ FilesInv /\ ImageTables => PicturesAreOwn
  <2> SUFFICES ASSUME OwnFilesInv, FilesInv, ImageTables, NEW id \in CommittedImages,
                      <<id[1], 1>> \in Active(roots)
               PROVE  HasItsFiles(id)
    BY DEF PicturesAreOwn
  <2>1. id \in images /\ id[1] \in Request /\ id[2] \in Index /\ id = <<id[1], id[2]>>
    BY DEF CommittedImages, ImageTables, ImageId
  <2>2. \A s \in Size : HasWritten(id[1], id[2], s)
    BY <2>1 DEF FilesInv, FilesOK, HasWritten
  <2>3. WrittenWhole(id[1])
    BY <2>1 DEF OwnFilesInv, Active
  <2> QED BY <2>1, <2>2, <2>3 DEF WrittenWhole, HasItsFiles
<1> QED BY <1>1, OwnFilesInvariant, PTL

-----------------------------------------------------------------------------
(* The primary image of a product is its own, or one a PATCH has named *)

\* The rows of the images the loop is past are inserted; a product comes after all of them.
RowsBehind(r) ==
  /\ \A i \in Index : i < loop[r].index => <<r, i>> \in images
  /\ pc[r] = "insertProducts" => loop[r].index = Len(ImagesToCreate(r))

\* The image may be the primary one of p: it is an image of the creation of p,
\* or a PATCH of p has named it and others see it; none, if there is none.
ImageFits(p, image) ==
  IF image = None
  THEN p[1] # 0 /\ in[p[1]].options = <<>> => \A i \in Index : <<p[1], i>> \notin images
  ELSE /\ image \in images
       /\ \/ image[1] = p[1]
          \/ Named(p, image) /\ <<image[1], 1>> \in Committed(roots)

\* The product p has the root it was created with, and an image that may be its own.
CreatedWith(p) ==
  /\ products[p].st = "absent" => primary[p] = None
  /\ products[p].st # "absent" =>
       /\ ImageFits(p, primary[p])
       /\ p[1] = 0 => products[p].root[1] = 0
       /\ p[1] # 0 => products[p].root = <<p[1], 1>>

\* What a PATCH has read may be old, but it may be written back.
ReadFits(r) == At(r, "updateProduct", "update") => ImageFits(got[r], readPrimary[r])

PrimaryInv ==
  /\ \A r \in Request : RowsBehind(r) /\ ReadFits(r)
  /\ \A p \in ProductId : CreatedWith(p)

LEMMA PrimaryInit == ImagesInit => PrimaryInv
<1> SUFFICES ASSUME ImagesInit PROVE PrimaryInv
  OBVIOUS
<1>1. /\ loop = [r \in Request |-> StartOfLoop] /\ pc = [r \in Request |-> "idle"]
      /\ primary = [p \in ProductId |-> None] /\ products = Seed.products
  BY DEF ImagesInit, Init, StoreInit, StartOfLoop
<1>2. ASSUME NEW r \in Request PROVE RowsBehind(r) /\ ReadFits(r)
  <2>1. loop[r].index = 0 /\ pc[r] = "idle"
    BY <1>1 DEF StartOfLoop
  <2>2. \A i \in Index : ~(i < 0)
    BY ImagesAssumption DEF Index
  <2> QED BY <2>1, <2>2 DEF RowsBehind, ReadFits, At
<1>3. ASSUME NEW p \in ProductId, products[p].st # "absent"
      PROVE  p[1] = 0 /\ products[p].root[1] = 0
  <2>1. p[1] = 0 /\ products[p].st \in {"active", "archived"}
    BY <1>1, <1>3, SeedAssumption
  <2>2. products[p].root \in Committed(Seed.roots)
    BY <1>1, <2>1, SeedAssumption DEF Committed, Tables
  <2>3. products[p].root \in RootId /\ Seed.roots[products[p].root].st # "absent"
    BY <2>2, SeedAssumption DEF Committed, Tables
  <2> QED BY <2>1, <2>3, SeedAssumption
<1>4. \A p \in ProductId : CreatedWith(p)
  BY <1>1, <1>3 DEF CreatedWith, ImageFits
<1> QED BY <1>2, <1>4 DEF PrimaryInv

-----------------------------------------------------------------------------
(* What becomes of a product, and where a step has to do with its image *)

\* The product is there as it was, or is not there still.
SameProduct(p) ==
  /\ products'[p].st = "absent" <=> products[p].st = "absent"
  /\ products[p].st # "absent" => products'[p].root = products[p].root

\* A creation inserts its products, each under the root of the creation.
InsertedWith(p) ==
  /\ p[1] \in Request
  /\ CreateProduct_InsertProduct(p[1]) \/ CreateProduct_InsertVariants(p[1])
  /\ products'[p].st = "pending" /\ products'[p].root = <<p[1], 1>>

\* A PATCH of a product leaves its root.
LEMMA UpdatedProduct ==
  ASSUME TypeInv, DeletionInv, NoReparenting, NEW r \in Request, UpdateProduct_Update(r),
         NEW p \in ProductId
  PROVE  SameProduct(p)
<1>1. products \in [ProductId -> ProductRow] /\ DOMAIN products = ProductId
  BY DEF TypeInv, StoreTypeOK
<1>2. CASE UNCHANGED products
  BY <1>2 DEF SameProduct
<1>3. CASE UpdateProduct(got[r], MergedRoot(r), MergedSku(r))
  <2>1. in[r].root = None
    BY RequestFields DEF NoReparenting, UpdateProduct_Update, At, Statement
  <2>2. MergedRoot(r) = products[got[r]].root
    BY <2>1 DEF DeletionInv, RequestInv, Targets, UpdateProduct_Update, MergedRoot
  <2> QED BY <1>1, <1>3, <2>2 DEF UpdateProduct, ProductRow, SameProduct
<1> QED BY <1>2, <1>3 DEF UpdateProduct_Update

\* What becomes of product p in any step of Catalog.
LEMMA ProductMoves ==
  ASSUME TypeInv, DeletionInv, NoReparenting, [Next]_vars, NEW p \in ProductId
  PROVE  SameProduct(p) \/ InsertedWith(p)
<1>1. /\ products \in [ProductId -> ProductRow] /\ DOMAIN products = ProductId
      /\ StoreTypeOK
  BY DEF TypeInv, StoreTypeOK
<1>2. ASSUME UNCHANGED products PROVE SameProduct(p)
  BY <1>2 DEF SameProduct
<1>3. ASSUME NEW rs, products' = Undone(products, rs) PROVE SameProduct(p)
  BY <1>1, <1>3 DEF Undone, ProductRow, SameProduct
<1>4. ASSUME NEW r \in Request, Commit(r) PROVE SameProduct(p)
  <2>1. marks[r].products \subseteq Committed(products)
    BY DEF DeletionInv, RequestInv, MarksKnown
  <2>2. products' = Settled(products, r, marks[r].products)
    BY <1>4 DEF Commit
  <2> QED BY <1>1, <2>1, <2>2 DEF Settled, ProductRow, Committed, SameProduct
<1>5. ASSUME NEW r \in Request, CreateProduct_InsertProduct(r) PROVE SameProduct(p) \/ InsertedWith(p)
  <2>1. products' = Written(products,
          [q \in {<<r, 1>>} |-> [st |-> "pending", root |-> <<r, 1>>, sku |-> in[r].sku]])
    BY <1>5 DEF CreateProduct_InsertProduct, CreateProduct
  <2>2. CASE p = <<r, 1>>
    <3>1. p[1] = r /\ products'[p] = [st |-> "pending", root |-> <<r, 1>>, sku |-> in[r].sku]
      BY <1>1, <2>1, <2>2 DEF Written
    <3> QED BY <1>5, <3>1 DEF InsertedWith
  <2>3. CASE p # <<r, 1>>
    <3>1. products'[p] = products[p]
      BY <1>1, <2>1, <2>3 DEF Written
    <3> QED BY <3>1 DEF SameProduct
  <2> QED BY <2>2, <2>3
<1>6. ASSUME NEW r \in Request, CreateProduct_InsertVariants(r) PROVE SameProduct(p) \/ InsertedWith(p)
  <2>1. CASE UNCHANGED products
    BY <1>2, <2>1
  <2>2. CASE Rollback({r})
    BY <1>3, <2>2 DEF Rollback
  <2>3. CASE CreateVariants(r, in[r].sku, in[r].options[1].values)
    <3> DEFINE texts == in[r].options[1].values
               drawn == {q \in ProductId : q[1] = r /\ q[2] \in DOMAIN texts}
               row(q) == [st |-> "pending", root |-> <<r, 1>>,
                          sku |-> Append(in[r].sku, Lower[texts[q[2]]])]
    <3>1. products' = Written(products, [q \in drawn |-> row(q)])
      BY <2>3 DEF CreateVariants
    <3>2. CASE p \in drawn
      <4>1. p[1] = r /\ products'[p] = row(p)
        BY <1>1, <3>1, <3>2 DEF Written
      <4>2. products'[p].st = "pending" /\ products'[p].root = <<r, 1>>
        BY <4>1
      <4> QED BY <1>6, <4>1, <4>2 DEF InsertedWith
    <3>3. CASE p \notin drawn
      <4>1. products'[p] = products[p]
        BY <1>1, <3>1, <3>3 DEF Written
      <4> QED BY <4>1 DEF SameProduct
    <3> QED BY <3>2, <3>3
  <2> QED BY <1>6, <2>1, <2>2, <2>3 DEF CreateProduct_InsertVariants, tables
<1>7. ASSUME NEW r \in Request, UpdateProduct_Update(r) PROVE SameProduct(p)
  BY <1>7, UpdatedProduct
<1>8. ASSUME NEW r \in Request, Handle(r) PROVE SameProduct(p) \/ InsertedWith(p)
  <2>1. CASE ReadStep(r)
    BY <1>2, <2>1, ReadStepFrame DEF tables
  <2>2. CASE MarkStep(r)
    BY <1>2, <1>3, <2>2, MarkStepFrame DEF tables, MarksOnly, Rollback
  <2>3. CASE InsertStep(r)
    <3>1. \/ UNCHANGED products \/ Rollback({r})
          \/ CreateProduct_InsertProduct(r) \/ CreateProduct_InsertVariants(r)
      BY <2>3 DEF InsertStep, CreateProduct_InsertRoot, CreateProduct_InsertImages,
         CreateOption_Insert, CreateValue_Insert, tables
    <3> QED BY <1>2, <1>3, <1>5, <1>6, <3>1 DEF Rollback
  <2>4. CASE UpdateStep(r)
    <3>1. UpdateProduct_Update(r) \/ UNCHANGED products
      BY <2>4 DEF UpdateStep, UpdateOption_Update, UpdateValue_Update, DeleteValue_Update
    <3> QED BY <1>2, <1>7, <3>1
  <2>5. CASE EndStep(r)
    <3>1. Commit(r) \/ Rollback({r}) \/ UNCHANGED products
      BY <2>5 DEF EndStep, CommitSucceeds, CommitFails, StatementFails, tables
    <3> QED BY <1>2, <1>3, <1>4, <3>1 DEF Rollback
  <2>6. CASE FindStep(r)
    BY <1>2, <2>6 DEF FindStep, DeleteProduct_Find, DeleteRoot_Find, DeleteOption_Find,
       UpdateValue_Find, DeleteValue_Find, UpdateProduct_Find, UpdateOption_Find, Find, tables
  <2> QED BY <1>8, <2>1, <2>2, <2>3, <2>4, <2>5, <2>6, HandleSteps
<1>9. CASE ServerCrash
  <2>1. PICK rs \in SUBSET Request : Rollback(rs)
    BY <1>9 DEF ServerCrash, InFlight
  <2> QED BY <1>3, <2>1 DEF Rollback
<1>10. CASE UNCHANGED tables
  BY <1>2, <1>10 DEF tables
<1>11. UNCHANGED vars \/ (\E r \in Request : Arrive(r)) \/ Quiescent => UNCHANGED tables
  BY DEF Arrive, Quiescent, vars
<1> QED BY <1>8, <1>9, <1>10, <1>11 DEF Next

\* A step that has to do neither with images nor with the product they belong to.
Elsewhere ==
  /\ [Next]_vars /\ UNCHANGED imageVars
  /\ \A q \in Request :
       /\ pc[q] = "insertProducts" /\ in[q].options = <<>> => pc'[q] # "commit"
       /\ pc'[q] = "insertProducts" =>
            pc[q] = "insertProducts" \/ loop[q].index = Len(ImagesToCreate(q))
       /\ pc'[q] = "update" /\ in'[q].op = "updateProduct" =>
            At(q, "updateProduct", "update") /\ got'[q] = got[q]

LEMMA HandledElsewhere ==
  ASSUME TypeInv, NEW r \in Request, Handle(r), UNCHANGED imageVars,
         pc[r] = "insertProducts" /\ in[r].options = <<>> => pc'[r] # "commit",
         pc'[r] = "insertProducts" => loop[r].index = Len(ImagesToCreate(r)),
         pc'[r] = "update" => in'[r].op # "updateProduct"
  PROVE  Elsewhere
<1>1. ASSUME NEW q \in Request \ {r}
      PROVE  pc'[q] = pc[q] /\ in'[q] = in[q] /\ got'[q] = got[q]
  BY OthersAlone
<1>2. ASSUME NEW q \in Request
      PROVE  /\ pc[q] = "insertProducts" /\ in[q].options = <<>> => pc'[q] # "commit"
             /\ pc'[q] = "insertProducts" =>
                  pc[q] = "insertProducts" \/ loop[q].index = Len(ImagesToCreate(q))
             /\ pc'[q] = "update" /\ in'[q].op = "updateProduct" =>
                  At(q, "updateProduct", "update") /\ got'[q] = got[q]
  <2>1. CASE q = r
    BY <2>1
  <2>2. CASE q # r
    BY <1>1, <2>2 DEF At
  <2> QED BY <2>1, <2>2
<1> QED BY <1>2 DEF Elsewhere, Next

\* Where a handler is after the steps that are elsewhere.
LEMMA LoopStepsElsewhere ==
  ASSUME TypeInv, LoopInv, NEW r \in Request, LoopStepOf(r)
  PROVE  WithinLoop(r) \/ Elsewhere
<1>1. ASSUME UNCHANGED <<files, images, primary, readPrimary, loop>>, LoopFails(r), UNCHANGED locals,
             Handle(r)
      PROVE  Elsewhere
  <2>1. pc'[r] = "done"
    BY <1>1 DEF LoopFails, Respond, Goto, TypeInv, LocalsOK
  <2> QED BY <1>1, <2>1, HandledElsewhere DEF imageVars
<1>2. CASE LoadBase64(r)
  <2>1. CASE Image(r).data \in Picture /\ GotoStep(r, "create") /\ UNCHANGED vars
    BY <1>2, <2>1 DEF LoadBase64, WithinLoop, IsLoaded
  <2>2. CASE Image(r).data \notin Picture /\ LoopFails(r) /\ UNCHANGED <<loop, locals>>
    <3>1. Handle(r)
      BY <1>2, <2>2, FailedLoad DEF LoadBase64
    <3> QED BY <1>1, <1>2, <2>2, <3>1 DEF LoadBase64
  <2> QED BY <1>2, <2>1, <2>2 DEF LoadBase64
<1>3. CASE LoadURL(r)
  <2>1. CASE Image(r).data \in Picture /\ GotoStep(r, "fetch") /\ UNCHANGED vars
    BY <1>3, <2>1 DEF LoadURL, WithinLoop, IsLoaded
  <2>2. CASE Image(r).data \notin Picture /\ LoopFails(r) /\ UNCHANGED <<loop, locals>>
    <3>1. Handle(r)
      BY <1>3, <2>2, FailedLoad DEF LoadURL
    <3> QED BY <1>1, <1>3, <2>2, <3>1 DEF LoadURL
  <2> QED BY <1>3, <2>1, <2>2 DEF LoadURL
<1>4. CASE CreateThumbnailsPanics(r)
  <2>1. Handle(r) /\ UNCHANGED imageVars
    BY <1>4, PanickedLoad DEF CreateThumbnailsPanics
  <2>2. pc'[r] = "leaked"
    BY <1>4 DEF CreateThumbnailsPanics, RespondAndLeak, Goto, TypeInv, LocalsOK
  <2> QED BY <2>1, <2>2, HandledElsewhere
<1>5. CASE LoopEnds(r)
  <2>1. Handle(r) /\ UNCHANGED imageVars /\ loop[r].index = Len(ImagesToCreate(r))
    BY <1>5, EndedLoop DEF LoopEnds
  <2>2. pc'[r] = "insertProducts"
    BY <1>5 DEF LoopEnds, Continue, Goto, TypeInv, LocalsOK
  <2> QED BY <2>1, <2>2, HandledElsewhere
<1>6. CASE CreateFile(r) \/ EncodeFile(r) \/ CreateProductImage(r)
  BY <1>6 DEF CreateFile, EncodeFile, CreateProductImage, WithinLoop
<1> QED BY <1>2, <1>3, <1>4, <1>5, <1>6 DEF LoopStepOf

LEMMA StatementsElsewhere ==
  ASSUME TypeInv, NEW r \in Request,
         OtherStatement(r) \/ (UNCHANGED imageVars /\ (CommitFails(r) \/ StatementFails(r)))
  PROVE  Elsewhere
<1>1. Handle(r) /\ UNCHANGED imageVars
  BY DEF OtherStatement, Handle, Runs, CreateProductStep
<1> DEFINE Good ==
             /\ pc[r] = "insertProducts" /\ in[r].options = <<>> => pc'[r] # "commit"
             /\ pc'[r] # "insertProducts"
             /\ pc'[r] = "update" => in'[r].op # "updateProduct"
<1> USE DEF TypeInv, LocalsOK
<1>2. ASSUME CreateProduct_Exists(r) \/ CreateProduct_InsertRoot(r) PROVE Good
  BY <1>2 DEF CreateProduct_Exists, CreateProduct_InsertRoot, Continue, Respond, Goto, locals
<1>3. ASSUME CreateProduct_InsertVariants(r) PROVE Good
  BY <1>3 DEF CreateProduct_InsertVariants, Continue, Respond, RespondAndLeak, Goto, locals
<1>4. ASSUME DeleteProductStep(r) PROVE Good
  BY <1>4 DEF DeleteProductStep, DeleteProduct_Find, DeleteProduct_ArchiveBridges,
     DeleteProduct_ArchiveProduct, Find, At, Continue, Respond, Goto, locals
<1>5. ASSUME DeleteRootStep(r) PROVE Good
  BY <1>5 DEF DeleteRootStep, DeleteRoot_Find, DeleteRoot_ArchiveBridges,
     DeleteRoot_ArchiveValues, DeleteRoot_ArchiveOptions, DeleteRoot_ArchiveProducts,
     DeleteRoot_ArchiveRoot, Find, At, Continue, Respond, Goto, locals
<1>6. ASSUME OptionStep(r) PROVE Good
  BY <1>6 DEF OptionStep, CreateOption_Exists, CreateOption_NameFree, CreateOption_Insert,
     DeleteOption_Find, DeleteOption_ArchiveValues, DeleteOption_ArchiveOption,
     UpdateOption_Find, UpdateOption_Update, UpdateOption_ReadBack, Find, At, Continue,
     Respond, RespondAndLeak, Goto, locals
<1>7. ASSUME ValueStep(r) PROVE Good
  BY <1>7 DEF ValueStep, CreateValue_Exists, CreateValue_ValueFree, CreateValue_Insert,
     UpdateValue_Find, UpdateValue_Update, DeleteValue_Find, DeleteValue_Update, Find, At,
     Continue, Respond, RespondAndLeak, Goto, locals
<1>8. ASSUME CommitSucceeds(r) \/ GetWebhooks(r) \/ CommitFails(r) \/ StatementFails(r) PROVE Good
  BY <1>8 DEF CommitSucceeds, GetWebhooks, CommitFails, StatementFails, Continue, Respond,
     RespondAndLeak, Goto, locals
<1>9. Good
  BY <1>2, <1>3, <1>4, <1>5, <1>6, <1>7, <1>8 DEF OtherStatement
<1> QED BY <1>1, <1>9, HandledElsewhere

LEMMA ImagesStepKinds ==
  ASSUME TypeInv, LoopInv, [ImagesNext]_allVars
  PROVE  \/ Elsewhere
         \/ \E r \in Request :
              WithinLoop(r) \/ InsertProduct(r) \/ ReadProduct(r) \/ WriteProduct(r)
<1>1. CASE UNCHANGED allVars
  BY <1>1 DEF allVars, vars, locals, Elsewhere, At
<1>2. ASSUME NEW r \in Request, Arrive(r), UNCHANGED imageVars PROVE Elsewhere
  <2>1. \A q \in Request : /\ pc'[q] = pc[q] \/ pc'[q] \in {"exists", "find"}
                           /\ pc[q] # "idle" => in'[q] = in[q]
                           /\ got'[q] = got[q]
    BY <1>2 DEF Arrive, Continue, Goto, TypeInv, LocalsOK
  <2>2. [Next]_vars
    BY <1>2 DEF Next
  <2> QED BY <1>2, <2>1, <2>2 DEF Elsewhere, At
<1>3. ASSUME NEW r \in Request, CommitFails(r) \/ StatementFails(r), UNCHANGED imageVars
      PROVE  Elsewhere
  BY <1>3, StatementsElsewhere
<1>4. ASSUME ServerCrash, UNCHANGED imageVars PROVE Elsewhere
  <2>1. \A q \in Request : pc'[q] = pc[q] \/ pc'[q] = "dead"
    BY <1>4 DEF ServerCrash
  <2>2. [Next]_vars /\ UNCHANGED locals
    BY <1>4 DEF Next, ServerCrash
  <2> QED BY <1>4, <2>1, <2>2 DEF Elsewhere, At, locals
<1>5. ASSUME Quiescent, UNCHANGED imageVars PROVE Elsewhere
  BY <1>5 DEF Quiescent, vars, locals, Elsewhere, At, Next
<1>6. ASSUME NEW r \in Request, RunsWithImages(r)
      PROVE  Elsewhere \/ WithinLoop(r) \/ InsertProduct(r) \/ ReadProduct(r) \/ WriteProduct(r)
  BY <1>6, LoopStepsElsewhere, StatementsElsewhere DEF RunsWithImages
<1>7. ASSUME NEW r \in Request, Fetched(r) PROVE WithinLoop(r)
  BY <1>7 DEF Fetched, WithinLoop
<1> QED BY <1>1, <1>2, <1>3, <1>4, <1>5, <1>6, <1>7 DEF ImagesNext

-----------------------------------------------------------------------------
(* The steps of the primary images *)

\* Rows of images are inserted in the loop of their request, and stay.
ImagesGrow ==
  /\ images \subseteq images'
  /\ \A q \in Request, i \in Index :
       <<q, i>> \in images' => <<q, i>> \in images \/ pc[q] = "insertImages"

\* What a PATCH has named, it has named.
LEMMA NamedStays ==
  ASSUME TypeInv, [Next]_vars, NEW p, NEW image, Named(p, image)
  PROVE  Named(p, image)'
<1>1. PICK r \in Request : /\ pc[r] \notin {"idle", "find"} /\ in[r].op = "updateProduct"
                           /\ in[r].image = image /\ got[r] = p
  BY DEF Named
<1>2. SUFFICES pc'[r] \notin {"idle", "find"} /\ in'[r] = in[r] /\ got'[r] = got[r]
  BY <1>1 DEF Named
<1> USE DEF TypeInv, LocalsOK
<1>3. CASE UNCHANGED vars
  BY <1>1, <1>3 DEF vars, locals
<1>4. ASSUME NEW q \in Request, Arrive(q) PROVE pc'[r] = pc[r] /\ in'[r] = in[r] /\ got'[r] = got[r]
  <2>1. q # r
    BY <1>1, <1>4 DEF Arrive
  <2> QED BY <1>4, <2>1, OthersAlone
<1>5. ASSUME NEW q \in Request, Handle(q), q # r
      PROVE  pc'[r] = pc[r] /\ in'[r] = in[r] /\ got'[r] = got[r]
  BY <1>5, OthersAlone
<1>6. ASSUME Handle(r)
      PROVE  pc'[r] \notin {"idle", "find"} /\ in'[r] = in[r] /\ got'[r] = got[r]
  <2>1. ~FindStep(r)
    BY <1>1 DEF FindStep, DeleteProduct_Find, DeleteRoot_Find, DeleteOption_Find,
       UpdateValue_Find, DeleteValue_Find, UpdateProduct_Find, UpdateOption_Find, Find, At
  <2>2. Advances(r)
    BY <1>6, <2>1, HandleSteps, ReadStepFrame, MarkStepAdvances, InsertStepAdvances,
       UpdateStepAdvances, EndStepAdvances
  <2> QED BY <2>2 DEF Advances
<1>7. CASE ServerCrash
  <2>1. \A q \in Request : pc'[q] = pc[q] \/ pc'[q] = "dead"
    BY <1>7 DEF ServerCrash
  <2> QED BY <1>1, <1>7, <2>1 DEF ServerCrash, locals
<1> QED BY <1>1, <1>3, <1>4, <1>5, <1>6, <1>7 DEF Next, Quiescent

LEMMA CommittedRootsStay ==
  ASSUME TypeInv, TransactionInv, [Next]_vars, NEW i \in Committed(roots)
  PROVE  i \in Committed(roots)'
<1>1. TypeInv'
  BY NextType
<1>2. i \in DOMAIN roots /\ i \in DOMAIN roots' /\ Shown(roots[i]) \in {"active", "archived"}
  BY <1>1 DEF TypeInv, StoreTypeOK, Committed, Shown
<1>3. Shown(roots'[i]) \in {"active", "archived"}
  BY <1>2, NextTurns DEF RowsTurn, Turned
<1> QED BY <1>2, <1>3 DEF Committed, Shown

\* The creation of a product that is there has begun.
LEMMA CreatorStays ==
  ASSUME TypeInv, DeletionInv, [Next]_vars, NEW p \in ProductId, products[p].st # "absent",
         p[1] # 0
  PROVE  p[1] \in Request /\ pc[p[1]] # "insertImages" /\ in'[p[1]] = in[p[1]]
<1>1. p[1] \in Request
  BY DEF ProductId, Transaction, Request
<1>2. pc[p[1]] \notin {"idle", "insertImages"}
  BY <1>1 DEF DeletionInv, RequestInv, Fresh
<1> QED BY <1>1, <1>2, RequestMoves

\* An image that may be the primary one of a product may be it for good.
LEMMA FitsStays ==
  ASSUME TypeInv, TransactionInv, DeletionInv, [Next]_vars, ImagesGrow,
         NEW p \in ProductId, products[p].st # "absent", NEW image, ImageFits(p, image)
  PROVE  ImageFits(p, image)'
<1>1. CASE image = None
  <2>1. ASSUME p[1] # 0, in'[p[1]].options = <<>>, NEW i \in Index PROVE <<p[1], i>> \notin images'
    BY <1>1, <2>1, CreatorStays DEF ImageFits, ImagesGrow
  <2> QED BY <1>1, <2>1 DEF ImageFits
<1>2. CASE image # None
  <2>1. image \in images'
    BY <1>2 DEF ImageFits, ImagesGrow
  <2>2. CASE image[1] = p[1]
    BY <1>2, <2>1, <2>2 DEF ImageFits
  <2>3. CASE Named(p, image) /\ <<image[1], 1>> \in Committed(roots)
    <3>1. Named(p, image)' /\ <<image[1], 1>> \in Committed(roots)'
      BY <2>3, NamedStays, CommittedRootsStay
    <3> QED BY <1>2, <2>1, <3>1 DEF ImageFits
  <2> QED BY <1>2, <2>2, <2>3 DEF ImageFits
<1> QED BY <1>1, <1>2

\* A product is given an image that may be its own, or keeps the one it has.
LEMMA GivenImage ==
  ASSUME TypeInv, TransactionInv, DeletionInv, PrimaryInv, [Next]_vars, ImagesGrow,
         NEW p \in ProductId, SameProduct(p), NEW image, primary'[p] = image,
         IF products[p].st = "absent" THEN image = None ELSE ImageFits(p, image)
  PROVE  CreatedWith(p)'
<1>1. CreatedWith(p)
  BY DEF PrimaryInv
<1>2. CASE products[p].st = "absent"
  BY <1>2 DEF SameProduct, CreatedWith
<1>3. CASE products[p].st # "absent"
  <2>1. ImageFits(p, image)'
    BY <1>3, FitsStays
  <2>2. ImageFits(p, primary[p])'
    BY <2>1 DEF ImageFits, Named
  <2> QED BY <1>1, <1>3, <2>2 DEF SameProduct, CreatedWith
<1> QED BY <1>2, <1>3

LEMMA SameProductImage ==
  ASSUME TypeInv, TransactionInv, DeletionInv, PrimaryInv, [Next]_vars, ImagesGrow,
         NEW p \in ProductId, SameProduct(p), primary'[p] = primary[p]
  PROVE  CreatedWith(p)'
<1>1. PICK image : image = primary[p]
  OBVIOUS
<1>2. IF products[p].st = "absent" THEN image = None ELSE ImageFits(p, image)
  BY <1>1 DEF PrimaryInv, CreatedWith
<1> QED BY <1>1, <1>2, GivenImage

\* What a PATCH has read stays fit to be written back.
LEMMA ReadStays ==
  ASSUME TypeInv, TransactionInv, DeletionInv, PrimaryInv, [Next]_vars, ImagesGrow,
         NEW q \in Request, readPrimary'[q] = readPrimary[q],
         At(q, "updateProduct", "update")' => At(q, "updateProduct", "update") /\ got'[q] = got[q]
  PROVE  ReadFits(q)'
<1> SUFFICES ASSUME At(q, "updateProduct", "update")' PROVE ImageFits(got[q], readPrimary[q])'
  BY DEF ReadFits
<1>1. PICK p, image : p = got[q] /\ image = readPrimary[q]
  OBVIOUS
<1>2. p \in ProductId /\ products[p].st # "absent" /\ ImageFits(p, image)
  BY <1>1 DEF PrimaryInv, ReadFits, DeletionInv, RequestInv, Targets, Committed, TypeInv,
     StoreTypeOK
<1>3. ImageFits(p, image)'
  BY <1>2, FitsStays
<1> QED BY <1>1, <1>3 DEF ImageFits, Named

\* A request begins with a check or a read.
LEMMA RequestStays ==
  ASSUME TypeInv, [Next]_vars, NEW q \in Request, pc[q] = "idle"
  PROVE  pc'[q] \in {"idle", "exists", "find"}
<1>1. CASE UNCHANGED vars
  BY <1>1 DEF vars
<1>2. ASSUME NEW r \in Request, Arrive(r) PROVE pc'[q] \in {"idle", "exists", "find"}
  BY <1>2 DEF Arrive, Continue, Goto, TypeInv, LocalsOK
<1>3. ASSUME NEW r \in Request, Handle(r) PROVE pc'[q] = "idle"
  BY <1>3, OthersAlone, HandleMoves
<1>4. ASSUME ServerCrash PROVE pc'[q] = "idle"
  BY <1>4 DEF ServerCrash, InFlight, Statement
<1> QED BY <1>1, <1>2, <1>3, <1>4 DEF Next, Quiescent, vars

LEMMA PrimaryElsewhere ==
  ASSUME TypeInv, TransactionInv, DeletionInv, NoReparenting, PrimaryInv, Elsewhere
  PROVE  PrimaryInv'
<1>1. [Next]_vars /\ UNCHANGED <<images, loop, primary, readPrimary>> /\ ImagesGrow
  BY DEF Elsewhere, imageVars, ImagesGrow
<1>2. ASSUME NEW r \in Request PROVE RowsBehind(r)'
  <2>1. RowsBehind(r)
    BY DEF PrimaryInv
  <2>2. ASSUME pc'[r] = "insertProducts" PROVE loop'[r].index = Len(ImagesToCreate(r)')
    <3>1. loop[r].index = Len(ImagesToCreate(r))
      BY <2>1, <2>2 DEF Elsewhere, RowsBehind
    <3>2. pc[r] # "idle"
      BY <1>1, <2>2, RequestStays
    <3>3. ImagesToCreate(r)' = ImagesToCreate(r)
      BY <1>1, <3>2, RequestMoves DEF ImagesToCreate
    <3> QED BY <1>1, <3>1, <3>3
  <2> QED BY <1>1, <2>1, <2>2 DEF RowsBehind
<1>3. ASSUME NEW r \in Request PROVE ReadFits(r)'
  BY <1>1, ReadStays DEF Elsewhere, At
<1>4. ASSUME NEW p \in ProductId PROVE CreatedWith(p)'
  <2>1. CASE SameProduct(p)
    BY <1>1, <2>1, SameProductImage
  <2>2. CASE InsertedWith(p)
    <3>1. p[1] \in Request /\ p[1] # 0 /\ pc[p[1]] = "insertProducts" /\ in' = in
          /\ (pc'[p[1]] = "commit" => in[p[1]].options # <<>>)
      BY <2>2 DEF InsertedWith, CreateProduct_InsertProduct, CreateProduct_InsertVariants, At, locals,
         Elsewhere, Request
    <3>2. products[p].st = "absent"
      BY <3>1 DEF DeletionInv, RequestInv, Fresh
    <3>3. primary[p] = None
      BY <3>2 DEF PrimaryInv, CreatedWith
    <3>4. in[p[1]].options # <<>>
      BY <2>2, <3>1 DEF InsertedWith, CreateProduct_InsertProduct, CreateProduct_InsertVariants,
         Continue, Goto, TypeInv, LocalsOK
    <3> QED BY <1>1, <2>2, <3>1, <3>3, <3>4 DEF InsertedWith, CreatedWith, ImageFits
  <2> QED BY <1>1, <2>1, <2>2, ProductMoves
<1> QED BY <1>2, <1>3, <1>4 DEF PrimaryInv


LEMMA PrimaryInserted ==
  ASSUME TypeInv, TransactionInv, LoopInv, ImageTables, FilesInv, DeletionInv, NoReparenting,
         PrimaryInv, NEW r \in Request, InsertProduct(r)
  PROVE  PrimaryInv'
<1>1. /\ CreateProduct_InsertProduct(r) /\ UNCHANGED <<files, images, loop, readPrimary>>
      /\ UNCHANGED <<in, got>> /\ Handle(r) /\ [Next]_vars
      /\ At(r, "createProduct", "insertProducts") /\ in[r].options = <<>> /\ ImagesGrow
  BY DEF InsertProduct, CreateProduct_InsertProduct, Handle, Runs, CreateProductStep, Next, locals,
     ImagesGrow
<1>2. pc'[r] = "commit" /\ \A q \in Request \ {r} : pc'[q] = pc[q]
  BY <1>1 DEF CreateProduct_InsertProduct, Continue, Goto, TypeInv, LocalsOK
<1>3. in[r] \in Inputs /\ loop[r].index = Len(ImagesToCreate(r))
  BY <1>1, RequestFields DEF At, Statement, PrimaryInv, RowsBehind
<1>4. <<r, 1>> \in ProductId /\ <<r, 1>>[1] = r
  BY DrawnIds
<1>5. products[<<r, 1>>].st = "absent"
  BY <1>1, <1>4 DEF At, DeletionInv, RequestInv, Fresh
<1>6. \A p \in ProductId : p # <<r, 1>> => primary'[p] = primary[p]
  BY DEF InsertProduct, SetPrimaryProductImageForProduct, ImageTables
<1>7. ASSUME NEW q \in Request PROVE RowsBehind(q)'
  BY <1>1, <1>2 DEF PrimaryInv, RowsBehind, ImagesToCreate
<1>8. ASSUME NEW q \in Request PROVE ReadFits(q)'
  BY <1>1, <1>2, ReadStays DEF At
<1>9. products' = Written(products,
        [p \in {<<r, 1>>} |-> [st |-> "pending", root |-> <<r, 1>>, sku |-> in[r].sku]])
  BY <1>1 DEF CreateProduct_InsertProduct, CreateProduct
<1>10. DOMAIN products = ProductId
  BY DEF TypeInv, StoreTypeOK
<1>11. ASSUME NEW p \in ProductId, p # <<r, 1>> PROVE CreatedWith(p)'
  <2>1. products'[p] = products[p]
    BY <1>9, <1>10, <1>11 DEF Written
  <2> QED BY <1>1, <1>6, <1>11, <2>1, SameProductImage DEF SameProduct
<1>12. CreatedWith(<<r, 1>>)'
  <2>1. /\ products'[<<r, 1>>].st = "pending" /\ products'[<<r, 1>>].root = <<r, 1>>
    BY <1>4, <1>9, <1>10 DEF Written
  <2>2. r # 0
    BY DEF Request
  <2>3. CASE ImagesToCreate(r) = <<>>
    <3>1. primary'[<<r, 1>>] = None
      BY <1>4, <1>5, <2>3 DEF InsertProduct, PrimaryInv, CreatedWith
    <3>2. loop[r].index = 0
      BY <1>3, <2>3, ListOf
    <3>3. ASSUME NEW i \in Index, <<r, i>> \in images PROVE FALSE
      <4>1. i < 0
        BY <3>2, <3>3 DEF FilesInv, FilesOK
      <4> QED BY <4>1, ImagesAssumption DEF Index
    <3> QED BY <1>1, <1>4, <2>1, <2>2, <3>1, <3>3 DEF CreatedWith, ImageFits
  <2>4. CASE ImagesToCreate(r) # <<>>
    <3>1. PrimaryIndex(r) \in Index /\ PrimaryIndex(r) < loop[r].index
      BY <1>3, <2>4, PrimaryIndexType
    <3>2. primary'[<<r, 1>>] = <<r, PrimaryIndex(r)>>
      BY <1>4, <2>4 DEF InsertProduct, SetPrimaryProductImageForProduct, ImageTables
    <3>3. <<r, PrimaryIndex(r)>> \in images
      BY <3>1 DEF PrimaryInv, RowsBehind
    <3>4. <<r, PrimaryIndex(r)>> # None
      BY <3>1, ImagesAssumption DEF ImageId
    <3>5. primary'[<<r, 1>>] # None /\ primary'[<<r, 1>>] \in images' /\ primary'[<<r, 1>>][1] = r
      BY <1>1, <3>2, <3>3, <3>4
    <3> HIDE DEF PrimaryIndex
    <3> QED BY <1>4, <2>1, <2>2, <3>5 DEF CreatedWith, ImageFits
  <2> QED BY <2>3, <2>4
<1> QED BY <1>7, <1>8, <1>11, <1>12 DEF PrimaryInv

LEMMA PrimaryRead ==
  ASSUME TypeInv, TransactionInv, ImageTables, DeletionInv, NoReparenting, PrimaryInv,
         NEW r \in Request, ReadProduct(r)
  PROVE  PrimaryInv'
<1>1. /\ UpdateProduct_Find(r) /\ UNCHANGED <<files, images, primary, loop>>
      /\ UNCHANGED <<tables, in>> /\ Handle(r) /\ [Next]_vars /\ At(r, "updateProduct", "find")
      /\ ImagesGrow
  BY DEF ReadProduct, UpdateProduct_Find, Handle, Runs, UpdateProductStep, Next, ImagesGrow
<1>2. \A q \in Request \ {r} : pc'[q] = pc[q] /\ got'[q] = got[q]
  BY <1>1, OthersAlone
<1>3. pc'[r] \in {"done", "update"}
  BY <1>1 DEF UpdateProduct_Find, Continue, Respond, Goto, TypeInv, LocalsOK
<1>4. ASSUME NEW q \in Request PROVE RowsBehind(q)'
  BY <1>1, <1>2, <1>3 DEF PrimaryInv, RowsBehind, ImagesToCreate
<1>5. \A q \in Request \ {r} : readPrimary'[q] = readPrimary[q]
  BY DEF ReadProduct, ImageTables
<1>6. ASSUME pc'[r] = "update" PROVE ReadFits(r)'
  <2>1. in[r].product = None
    BY <1>1, RequestFields DEF NoReparenting, At, Statement
  <2>2. PICK p \in ProductsWithSKU(in[r].sku) :
          in[r].product = None => p = got'[r] /\ readPrimary' = [readPrimary EXCEPT ![r] = primary[p]]
    BY <1>6 DEF ReadProduct
  <2>3. p = got'[r] /\ readPrimary'[r] = primary[p]
    BY <2>1, <2>2 DEF ImageTables
  <2>4. p \in ProductId /\ products[p].st # "absent"
    BY DEF ProductsWithSKU, Active, TypeInv, StoreTypeOK
  <2>5. PICK image : image = primary[p]
    OBVIOUS
  <2>6. ImageFits(p, image)
    BY <2>4, <2>5 DEF PrimaryInv, CreatedWith
  <2>7. ImageFits(p, image)'
    BY <1>1, <2>4, <2>6, FitsStays
  <2> QED BY <2>3, <2>5, <2>7 DEF ReadFits, ImageFits, Named
<1>7. ASSUME NEW q \in Request PROVE ReadFits(q)'
  <2>1. CASE q = r
    BY <1>3, <1>6, <2>1 DEF ReadFits, At
  <2>2. CASE q # r
    BY <1>1, <1>2, <1>5, <2>2, ReadStays DEF At
  <2> QED BY <2>1, <2>2
<1>8. ASSUME NEW p \in ProductId PROVE CreatedWith(p)'
  <2>1. SameProduct(p)
    BY <1>1 DEF tables, SameProduct
  <2> QED BY <1>1, <2>1, SameProductImage
<1> QED BY <1>4, <1>7, <1>8 DEF PrimaryInv

LEMMA PrimaryWritten ==
  ASSUME TypeInv, TransactionInv, ImageTables, DeletionInv, NoReparenting, PrimaryInv,
         NEW r \in Request, WriteProduct(r)
  PROVE  PrimaryInv'
<1>1. /\ UpdateProduct_Update(r) /\ UNCHANGED <<files, images, loop, readPrimary>>
      /\ UNCHANGED <<in, got>> /\ Handle(r) /\ [Next]_vars /\ At(r, "updateProduct", "update")
      /\ ImagesGrow
  BY DEF WriteProduct, UpdateProduct_Update, Handle, Runs, UpdateProductStep, Next, locals,
     ImagesGrow
<1>2. pc'[r] \in {"webhooks", "done"} /\ \A q \in Request \ {r} : pc'[q] = pc[q]
  BY <1>1 DEF UpdateProduct_Update, Continue, Respond, Goto, TypeInv, LocalsOK
<1>3. ASSUME NEW q \in Request PROVE RowsBehind(q)'
  BY <1>1, <1>2 DEF PrimaryInv, RowsBehind, ImagesToCreate
<1>4. ASSUME NEW q \in Request PROVE ReadFits(q)'
  <2>1. pc'[q] = "update" => pc[q] = "update"
    BY <1>2
  <2> QED BY <1>1, <2>1, ReadStays DEF At
<1>5. ASSUME NEW p \in ProductId PROVE CreatedWith(p)'
  <2>1. SameProduct(p)
    BY <1>1, UpdatedProduct
  <2>2. CASE primary'[p] = primary[p]
    BY <1>1, <2>1, <2>2, SameProductImage
  <2>3. CASE primary'[p] # primary[p]
    <3>1. p = got[r] /\ ImageKnown(r) /\ primary'[p] = MergedImage(r)
      BY <2>3 DEF WriteProduct, ImageTables
    <3>2. PICK image : image = MergedImage(r)
      OBVIOUS
    <3>3. products[p].st # "absent"
      BY <1>1, <3>1 DEF DeletionInv, RequestInv, Targets, Committed
    <3>4. ImageFits(p, image)
      <4>1. CASE in[r].image = None
        BY <1>1, <3>1, <3>2, <4>1 DEF MergedImage, PrimaryInv, ReadFits
      <4>2. CASE in[r].image # None
        <5>1. image = in[r].image /\ image \in images /\ <<image[1], 1>> \in Committed(roots)
          BY <3>1, <3>2, <4>2 DEF MergedImage, ImageKnown, CommittedImages
        <5>2. Named(p, image)
          BY <1>1, <3>1, <5>1 DEF Named, At
        <5> QED BY <4>2, <5>1, <5>2 DEF ImageFits
      <4> QED BY <4>1, <4>2
    <3>5. primary'[p] = image
      BY <3>1, <3>2
    <3> QED BY <1>1, <2>1, <3>3, <3>4, <3>5, GivenImage
  <2> QED BY <2>2, <2>3
<1> QED BY <1>3, <1>4, <1>5 DEF PrimaryInv

LEMMA PrimaryWithinLoop ==
  ASSUME TypeInv, TransactionInv, LoopInv, ImageTables, DeletionInv, PrimaryInv,
         NEW r \in Request, WithinLoop(r)
  PROVE  PrimaryInv'
<1>1. /\ UNCHANGED <<vars, primary, readPrimary>> /\ InLoop(r)
      /\ pc[r] = "insertImages" /\ loop[r] \in LoopState
  BY DEF WithinLoop, Fetched, CreateFile, EncodeFile, CreateProductImage, AtStep, InLoop, At,
     LoopInv
<1>2. UNCHANGED <<pc, in, got, products>>
  BY <1>1 DEF vars, tables, locals
<1>3. \A q \in Request \ {r} : loop'[q] = loop[q]
  BY DEF WithinLoop, Fetched, CreateFile, EncodeFile, CreateProductImage, GotoStep, LoopInv
<1>4. \/ images' = images /\ loop'[r].index = loop[r].index
      \/ images' = images \cup {<<r, loop[r].index>>} /\ loop'[r].index = loop[r].index + 1
  <2>1. CASE CreateProductImage(r)
    <3>1. loop'[r] = AfterRow(loop[r]) /\ images' = images \cup {<<r, loop[r].index>>}
      BY <2>1 DEF CreateProductImage, LoopInv
    <3>2. loop'[r] = [index |-> loop[r].index + 1, step |-> "load", size |-> loop[r].size]
      BY <1>1, <3>1, LoopRecords
    <3>3. loop'[r].index = loop[r].index + 1
      BY <3>2
    <3> QED BY <3>1, <3>3
  <2>2. CASE EncodeFile(r)
    <3>1. loop'[r] = AfterFile(loop[r]) /\ images' = images
      BY <2>2 DEF EncodeFile, LoopInv
    <3>2. \/ AfterFile(loop[r]) = [index |-> loop[r].index, step |-> "create", size |-> loop[r].size + 1]
          \/ AfterFile(loop[r]) = [index |-> loop[r].index, step |-> "insert", size |-> 1]
      BY <1>1, LoopRecords
    <3>3. AfterFile(loop[r]).index = loop[r].index
      <4>1. \A n, t, z : [index |-> n, step |-> t, size |-> z].index = n
        OBVIOUS
      <4> QED BY <3>2, <4>1
    <3> QED BY <3>1, <3>3
  <2>3. ASSUME NEW s \in LoopStep, GotoStep(r, s) PROVE loop'[r].index = loop[r].index
    <3>1. loop'[r] = [loop[r] EXCEPT !.step = s]
      BY <2>3 DEF GotoStep, LoopInv
    <3> QED BY <1>1, <3>1 DEF LoopState
  <2> QED BY <2>1, <2>2, <2>3 DEF WithinLoop, Fetched, CreateFile, LoopStep
<1>5. ASSUME NEW q \in Request PROVE RowsBehind(q)'
  <2>1. CASE q = r
    <3>1. \A i \in Index : i < loop[r].index + 1 => i < loop[r].index \/ i = loop[r].index
      BY <1>1, ImagesAssumption DEF Index, LoopState
    <3> QED BY <1>1, <1>2, <1>4, <2>1, <3>1 DEF PrimaryInv, RowsBehind
  <2>2. CASE q # r
    BY <1>2, <1>3, <1>4, <2>2 DEF PrimaryInv, RowsBehind, ImagesToCreate
  <2> QED BY <2>1, <2>2
<1>6. [Next]_vars /\ ImagesGrow
  <2>1. images \subseteq images'
    BY <1>4
  <2>2. ASSUME NEW q \in Request, NEW i \in Index, <<q, i>> \in images'
        PROVE  <<q, i>> \in images \/ pc[q] = "insertImages"
    BY <1>1, <1>4, <2>2
  <2> QED BY <1>1, <2>1, <2>2 DEF ImagesGrow
<1>7. ASSUME NEW q \in Request PROVE ReadFits(q)'
  BY <1>1, <1>2, <1>6, ReadStays DEF At
<1>8. ASSUME NEW p \in ProductId PROVE CreatedWith(p)'
  <2>1. SameProduct(p)
    BY <1>2 DEF SameProduct
  <2> QED BY <1>1, <1>6, <2>1, SameProductImage
<1> QED BY <1>5, <1>7, <1>8 DEF PrimaryInv

\* An image of the creation of a product that others see is one they see.
LEMMA OwnImageShown ==
  ASSUME TypeInv, TransactionInv, ImageTables, FilesInv, NEW p \in Committed(products),
         NEW image \in images, image[1] = p[1]
  PROVE  image \in CommittedImages
<1>1. image \in ImageId /\ image[1] \in Request /\ image[2] \in Index /\ image = <<image[1], image[2]>>
  BY DEF ImageTables, ImageId
<1>2. Inserted(image[1])
  <2>1. image[2] < loop[image[1]].index
    BY <1>1 DEF FilesInv, FilesOK
  <2>2. loop[image[1]] # StartOfLoop
    BY <1>1, <2>1, ImagesAssumption DEF StartOfLoop, Index
  <2> QED BY <1>1, <2>2 DEF FilesInv, FilesOK
<1>3. <<image[1], 1>> \in RootId /\ <<image[1], 1>>[1] = image[1] /\ DOMAIN roots = RootId
  BY <1>1, DrawnIds DEF TypeInv, StoreTypeOK
<1>4. roots[<<image[1], 1>>].st \notin {"pending", "aborted"}
  BY <1>1, <1>3, StagesAreAtomic DEF CreationsAreAtomic
<1>5. roots[<<image[1], 1>>].st \in RowState
  BY <1>3 DEF TypeInv, StoreTypeOK, RootRow
<1> QED BY <1>2, <1>3, <1>4, <1>5 DEF CommittedImages, Committed, Inserted, RowState

\* The primary image of a product is one clients can see, and an image of its
\* own creation unless a PATCH of the product has named another in its body;
\* no product without options is left without one.  Deletions, failed
\* creations, and PATCHes of other columns, however old the row they write
\* back, change none of this: the index of the primary image counts the list
\* the duplicates have been dropped from, and the foreign key of products holds.
THEOREM PrimaryImagesStay ==
  ASSUME NoReparenting
  PROVE  ImagesSpec => []PrimaryImagesAreOwn
<1>1. ImagesSpec => [](DeletionInv /\ TransactionInv)
  <2>1. TypeInv /\ DeletionInv /\ [Next]_vars => DeletionInv'
    BY DeletionNext
  <2>2. Spec => []DeletionInv
    BY <2>1, DeletionInit, TypeInvariant, PTL DEF Spec
  <2> QED BY <2>2, ImagesImplementCatalog, TransactionInvariant, PTL DEF CatalogIsImplemented
<1>2. /\ TypeInv /\ TransactionInv /\ LoopInv /\ ImageTables /\ FilesInv /\ DeletionInv
      /\ PrimaryInv /\ [ImagesNext]_allVars
      => PrimaryInv'
  BY ImagesStepKinds, PrimaryElsewhere, PrimaryInserted, PrimaryRead, PrimaryWritten,
     PrimaryWithinLoop
<1>3. TypeInv /\ TransactionInv /\ ImageTables /\ FilesInv /\ PrimaryInv => PrimaryImagesAreOwn
  <2> SUFFICES ASSUME TypeInv, TransactionInv, ImageTables, FilesInv, PrimaryInv,
                      NEW p \in Committed(products)
               PROVE  /\ primary[p] # None =>
                           /\ primary[p] \in CommittedImages
                           /\ <<primary[p][1], 1>> = products[p].root \/ Named(p, primary[p])
                      /\ \A r \in Request :
                           products[p].root = <<r, 1>> /\ in[r].options = <<>>
                             /\ (\E i \in Index : <<r, i>> \in images) => primary[p] # None
    BY DEF PrimaryImagesAreOwn
  <2>1. p \in ProductId /\ products[p].st # "absent" /\ CreatedWith(p)
    BY DEF Committed, TypeInv, StoreTypeOK, PrimaryInv
  <2>2. ASSUME primary[p] # None
        PROVE  /\ primary[p] \in CommittedImages
               /\ <<primary[p][1], 1>> = products[p].root \/ Named(p, primary[p])
    <3>1. ImageFits(p, primary[p]) /\ primary[p] \in images
      BY <2>1, <2>2 DEF CreatedWith, ImageFits
    <3>2. CASE primary[p][1] = p[1]
      <4>1. p[1] # 0
        BY <3>1, <3>2 DEF ImageTables, ImageId, Request
      <4> QED BY <2>1, <3>1, <3>2, <4>1, OwnImageShown DEF CreatedWith
    <3>3. CASE Named(p, primary[p]) /\ <<primary[p][1], 1>> \in Committed(roots)
      BY <3>1, <3>3 DEF CommittedImages
    <3> QED BY <2>2, <3>1, <3>2, <3>3 DEF ImageFits
  <2>3. ASSUME NEW r \in Request, products[p].root = <<r, 1>>, in[r].options = <<>>,
               NEW i \in Index, <<r, i>> \in images
        PROVE  primary[p] # None
    <3>1. <<r, 1>>[1] # 0 /\ <<r, 1>>[1] = r
      BY DEF Request
    <3>2. p[1] # 0
      BY <2>1, <2>3, <3>1 DEF CreatedWith
    <3>3. p[1] = r
      BY <2>1, <2>3, <3>1, <3>2 DEF CreatedWith
    <3> QED BY <2>1, <2>3, <3>2, <3>3 DEF CreatedWith, ImageFits
  <2> QED BY <2>2, <2>3
<1> QED BY <1>1, <1>2, <1>3, PrimaryInit, LoopInvariant, ImageTablesInvariant, FilesInvariant,
        PTL DEF ImagesSpec

=============================================================================

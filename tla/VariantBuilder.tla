--------------------------- MODULE VariantBuilder ---------------------------
(***************************************************************************)
(* buildProductsFromOptions of api/v1/product_options.go: an odometer with *)
(* one digit per option builds a product for every combination of option   *)
(* values.  A step is an iteration of its outer loop.                      *)
(*                                                                         *)
(* A text is the sequence of the words its underscores separate, so that   *)
(* joining texts with "_" is joining sequences.                            *)
(***************************************************************************)
EXTENDS Naturals, Sequences

CONSTANTS
  Word,       \* what stands between two underscores
  LowerWord,  \* strings.ToLower on Word
  Prefix,     \* the SKU of the creation
  Lists       \* the option lists clients may send: per option, its values

Text == Seq(Word)

\* Creation calls the builder only for a body with options.
ASSUME ListsAssumption == Lists \subseteq Seq(Seq(Text)) /\ <<>> \notin Lists
ASSUME TextAssumption == LowerWord \in [Word -> Word] /\ Prefix \in Text

VARIABLES
  optionData,  \* the placeholders, one per value of each option
  ix,          \* the digits; Go counts values from 0
  toCreate,    \* the combinations a product has been built for
  state        \* of the call: "running", "returned" or "panicked"

vars == <<optionData, ix, toCreate, state>>

Options == DOMAIN optionData

\* Every digit names a value of its option.
InRange(c) == \A j \in Options : c[j] < Len(optionData[j])

Digit == UNION {0..(Len(optionData[j]) - 1) : j \in Options}

Combination == {c \in [Options -> Digit] : InRange(c)}

TypeOK ==
  /\ optionData \in Lists
  /\ ix \in [Options -> Nat]
  /\ toCreate \in Seq(Combination)
  /\ state \in {"running", "returned", "panicked"}

Init ==
  /\ optionData \in Lists
  /\ ix = [j \in Options |-> 0]
  /\ toCreate = <<>>
  /\ state = "running"

-----------------------------------------------------------------------------

\* The inner loop of next returns at digit j: every later digit is at its
\* last value, and j is not, or is the first.
StopsAt(j) ==
  /\ j = 1 \/ ix[j] + 1 < Len(optionData[j])
  /\ \A k \in Options : k > j => ix[k] + 1 >= Len(optionData[k])

Advanced_KeepsLater(j) == [ix EXCEPT ![j] = @ + 1]  \* mutant: without ix[j] = 0
Advanced_ResetsAll(j) ==  \* mutant: every other digit is reset
  [k \in Options |-> IF k = j THEN ix[k] + 1 ELSE 0]
Advanced(j) ==
  [k \in Options |-> IF k < j THEN ix[k] ELSE IF k = j THEN ix[k] + 1 ELSE 0]

next == \E j \in Options : StopsAt(j) /\ ix' = Advanced(j)

\* The condition of the outer loop looks at the first digit only.
More_OneTooFar == ix[1] <= Len(optionData[1])  \* mutant: <= for <
More == ix[1] < Len(optionData[1])

Build ==
  /\ state = "running"
  /\ More
  /\ InRange(ix)
  /\ toCreate' = Append(toCreate, ix)
  /\ next
  /\ UNCHANGED <<optionData, state>>

\* optionData[j][k] of an option without values: index out of range.
Panic ==
  /\ state = "running"
  /\ More
  /\ ~InRange(ix)
  /\ state' = "panicked"
  /\ UNCHANGED <<optionData, ix, toCreate>>

Return ==
  /\ state = "running"
  /\ ~More
  /\ state' = "returned"
  /\ UNCHANGED <<optionData, ix, toCreate>>

\* The call is over.
Over == state # "running" /\ UNCHANGED vars

Next == Build \/ Panic \/ Return \/ Over

Spec == Init /\ [][Next]_vars

-----------------------------------------------------------------------------
(* The products built *)

\* The texts of the values a combination names, lower-cased, after the
\* prefix, all joined with "_".
Lowered(text) == [i \in DOMAIN text |-> LowerWord[text[i]]]

SKU_LastOnly(c) ==  \* mutant: skuPrefixParts = instead of append
  Prefix \o Lowered(optionData[Len(optionData)][c[Len(optionData)] + 1])
SKU(c) ==
  LET upTo[j \in Nat] == IF j = 0 THEN Prefix
                         ELSE upTo[j - 1] \o Lowered(optionData[j][c[j] + 1])
  IN upTo[Len(optionData)]

-----------------------------------------------------------------------------
(* Properties *)

\* c comes before d: they differ first in a digit that is smaller in c.
Before(c, d) ==
  \E j \in Options : c[j] < d[j] /\ \A k \in Options : k < j => c[k] = d[k]

\* No variant is built twice, and variants are built in the order the options
\* are listed in: the carry of next never falls back on an earlier combination.
BuiltInOrder ==
  \A m, n \in DOMAIN toCreate : m < n => Before(toCreate[m], toCreate[n])

\* No variant is skipped, although the outer loop watches the first digit
\* alone: a combination that comes before the digits has been built, and when
\* the call returns all of them have.
NoneSkipped ==
  \A c \in Combination :
    (state = "running" /\ Before(c, ix)) \/ state = "returned" =>
      \E n \in DOMAIN toCreate : toCreate[n] = c

\* The call panics on its first iteration or never: an option without values
\* that is not the first, after a first option with values.  Everything
\* inserted before it is then left in an open transaction.
PanicsAtOnce ==
  state = "panicked" => /\ toCreate = <<>>
                        /\ optionData[1] # <<>>
                        /\ \E j \in Options : optionData[j] = <<>>

\* Two variants of one product never get one SKU, as long as no value holds an
\* underscore and no two values of an option differ in case only.
SkusAreDistinct ==
  (/\ \A j \in Options : \A v \in DOMAIN optionData[j] : Len(optionData[j][v]) = 1
   /\ \A j \in Options : \A v, w \in DOMAIN optionData[j] :
        Lowered(optionData[j][v]) = Lowered(optionData[j][w]) => v = w)
  => \A m, n \in DOMAIN toCreate : SKU(toCreate[m]) = SKU(toCreate[n]) => m = n

=============================================================================

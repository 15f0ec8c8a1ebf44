----------------------- MODULE VariantBuilder_proofs -----------------------
(***************************************************************************)
(* The odometer of VariantBuilder builds every combination once, in order, *)
(* for any number of options and values.                                   *)
(***************************************************************************)
EXTENDS VariantBuilder, SequenceTheorems, WellFoundedInduction, NaturalsInduction, TLAPS

\* Induction enters here only: a nonempty set of naturals has a least element.
LEMMA LeastElement ==
  ASSUME NEW S \in SUBSET Nat, S # {}
  PROVE  \E m \in S : \A k \in S : ~ (k < m)
<1> DEFINE R == {ss \in Nat \X Nat : ss[1] < ss[2]}
<1>1. IsWellFoundedOn(R, Nat)
  BY NatLessThanWellFounded DEF OpToRel
<1>2. \E m \in S : \A k \in S : ~ (<<k, m>> \in R)
  <2> HIDE DEF R
  <2> QED BY <1>1, WFMin
<1>3. PICK m \in S : \A k \in S : ~ (<<k, m>> \in R)
  BY <1>2
<1>4. \A k \in S : ~ (k < m)
  BY <1>3
<1> QED BY <1>4

\* What Lists promises of the options of a call.
LEMMA OptionShape ==
  ASSUME TypeOK
  PROVE  /\ optionData \in Seq(Seq(Text)) /\ optionData # <<>>
         /\ Options = 1..Len(optionData) /\ 1 \in Options
         /\ \A j \in Options : Len(optionData[j]) \in Nat
         /\ \A c \in Combination : c \in [Options -> Nat] /\ InRange(c)
<1>1. optionData \in Seq(Seq(Text)) /\ optionData # <<>>
  BY ListsAssumption DEF TypeOK
<1>2. Options = 1..Len(optionData) /\ 1 \in Options /\ Options \subseteq Nat
  BY <1>1 DEF Options
<1>3. \A j \in Options : Len(optionData[j]) \in Nat
  BY <1>1, <1>2
<1>4. Digit \subseteq Nat
  BY <1>3 DEF Digit
<1>5. \A c \in Combination : c \in [Options -> Nat] /\ InRange(c)
  BY <1>4 DEF Combination
<1> QED BY <1>1, <1>2, <1>3, <1>5

LEMMA InRangeIsCombination ==
  ASSUME TypeOK, InRange(ix)
  PROVE  ix \in Combination
<1>1. \A j \in Options : ix[j] \in Digit
  <2> SUFFICES ASSUME NEW j \in Options PROVE ix[j] \in Digit
    OBVIOUS
  <2>1. ix[j] \in 0..(Len(optionData[j]) - 1)
    BY OptionShape DEF TypeOK, InRange
  <2> QED BY <2>1 DEF Digit
<1> QED BY <1>1 DEF TypeOK, Combination

LEMMA BeforeTransitive ==
  ASSUME Options \subseteq Nat,
         NEW c \in [Options -> Nat], NEW d \in [Options -> Nat], NEW e \in [Options -> Nat],
         Before(c, d), Before(d, e)
  PROVE  Before(c, e)
<1>1. PICK i \in Options : c[i] < d[i] /\ \A k \in Options : k < i => c[k] = d[k]
  BY DEF Before
<1>2. PICK j \in Options : d[j] < e[j] /\ \A k \in Options : k < j => d[k] = e[k]
  BY DEF Before
<1>3. CASE i <= j
  BY <1>1, <1>2, <1>3 DEF Before
<1>4. CASE j < i
  BY <1>1, <1>2, <1>4 DEF Before
<1> QED BY <1>1, <1>2, <1>3, <1>4

-----------------------------------------------------------------------------
(* What next does to the digits *)

\* The digits next leaves come later.
LEMMA AdvancedComesLater ==
  ASSUME TypeOK, NEW j \in Options
  PROVE  Advanced(j) \in [Options -> Nat] /\ Before(ix, Advanced(j))
<1>1. Options \subseteq Nat
  BY OptionShape
<1> QED BY <1>1 DEF TypeOK, Advanced, Before

\* No combination lies between the digits and those next leaves: one that
\* agrees with ix up to the digit that moves cannot exceed it in those behind,
\* which are at their last values.
LEMMA NothingBetween ==
  ASSUME TypeOK, NEW j \in Options, StopsAt(j),
         NEW c \in Combination, Before(c, Advanced(j))
  PROVE  Before(c, ix) \/ c = ix
<1>1. /\ Options = 1..Len(optionData) /\ c \in [Options -> Nat] /\ InRange(c)
      /\ Options \subseteq Nat /\ ix \in [Options -> Nat]
      /\ \A k \in Options : Len(optionData[k]) \in Nat
  <2>1. ix \in [Options -> Nat]
    BY DEF TypeOK
  <2>2. Options = 1..Len(optionData) => Options \subseteq Nat
    OBVIOUS
  <2> QED BY <2>1, <2>2, OptionShape, Zenon
<1>2. PICK m \in Options : /\ c[m] < Advanced(j)[m]
                           /\ \A k \in Options : k < m => c[k] = Advanced(j)[k]
  BY DEF Before
<1>3. m <= j
  BY <1>1, <1>2 DEF Advanced
<1>4. \A k \in Options : k < m => c[k] = ix[k]
  BY <1>1, <1>2, <1>3 DEF Advanced
<1>5. CASE c[m] < ix[m]
  BY <1>4, <1>5 DEF Before
<1>6. CASE ~ (c[m] < ix[m])
  <2>1. m = j /\ c[j] = ix[j]
    BY <1>1, <1>2, <1>3, <1>6 DEF Advanced
  <2>2. \A k \in Options : k <= j => c[k] = ix[k]
    BY <1>1, <1>4, <2>1
  <2> DEFINE T == {k \in Options : c[k] # ix[k]}
  <2>3. CASE T = {}
    BY <1>1, <2>3
  <2>4. CASE T # {}
    <3>1. PICK n \in T : \A k \in T : ~ (k < n)
      BY <1>1, <2>4, LeastElement
    <3>2. n > j /\ c[n] # ix[n]
      BY <1>1, <2>2, <3>1
    <3>3. c[n] < ix[n]
      <4>1. c[n] < Len(optionData[n])
        BY <1>1, <3>1 DEF InRange
      <4>2. ix[n] + 1 >= Len(optionData[n])
        BY <3>1, <3>2 DEF StopsAt
      <4>3. c[n] \in Nat /\ ix[n] \in Nat /\ Len(optionData[n]) \in Nat
        BY <1>1, <3>1
      <4> QED BY <3>2, <4>1, <4>2, <4>3
    <3>4. \A k \in Options : k < n => c[k] = ix[k]
      BY <3>1
    <3> QED BY <3>3, <3>4 DEF Before
  <2> QED BY <2>3, <2>4
<1> QED BY <1>5, <1>6

-----------------------------------------------------------------------------
(* The inductive invariant *)

\* Every product built so far comes before the digits.
BuiltBeforeDigits ==
  state = "running" => \A n \in DOMAIN toCreate : Before(toCreate[n], ix)

\* Only the first digit ever leaves its option: the others are past their last
\* value in an option without values alone.
LaterDigits ==
  \A j \in Options : j # 1 => ix[j] < Len(optionData[j]) \/ optionData[j] = <<>>

BuilderInv == /\ TypeOK /\ BuiltBeforeDigits /\ LaterDigits
              /\ BuiltInOrder /\ NoneSkipped /\ PanicsAtOnce

LEMMA BuilderInit == Init => BuilderInv
<1> SUFFICES ASSUME Init PROVE BuilderInv
  OBVIOUS
<1>1. TypeOK
  BY DEF Init, TypeOK
<1>2. Options = 1..Len(optionData) /\ \A j \in Options : Len(optionData[j]) \in Nat
      /\ optionData \in Seq(Seq(Text))
      /\ \A c \in Combination : c \in [Options -> Nat]
  BY <1>1, OptionShape
<1>3. LaterDigits
  <2> SUFFICES ASSUME NEW j \in Options PROVE ix[j] < Len(optionData[j]) \/ optionData[j] = <<>>
    BY DEF LaterDigits
  <2>1. ix[j] = 0 /\ Len(optionData[j]) \in Nat /\ optionData[j] \in Seq(Text)
    BY <1>2 DEF Init
  <2>2. Len(optionData[j]) = 0 => optionData[j] = <<>>
    BY <2>1
  <2> QED BY <2>1, <2>2
<1>4. NoneSkipped
  <2> SUFFICES ASSUME NEW c \in Combination, Before(c, ix) PROVE FALSE
    BY DEF Init, NoneSkipped
  <2>1. PICK j \in Options : c[j] < ix[j]
    BY DEF Before
  <2>2. c[j] \in Nat /\ ix[j] = 0
    BY <1>2 DEF Init
  <2> QED BY <2>1, <2>2
<1>5. BuiltBeforeDigits /\ BuiltInOrder /\ PanicsAtOnce
  BY DEF Init, BuiltBeforeDigits, BuiltInOrder, PanicsAtOnce
<1> QED BY <1>1, <1>3, <1>4, <1>5 DEF BuilderInv

LEMMA BuildInv ==
  ASSUME BuilderInv, Build
  PROVE  BuilderInv'
<1>1. PICK j \in Options : StopsAt(j) /\ ix' = Advanced(j)
  BY DEF Build, next
<1>2. /\ TypeOK /\ state = "running" /\ UNCHANGED <<optionData, state>>
      /\ toCreate' = Append(toCreate, ix) /\ ix \in Combination
      /\ toCreate \in Seq(Combination) /\ ix \in [Options -> Nat]
  BY InRangeIsCombination DEF BuilderInv, Build, TypeOK
<1>3. /\ Options = 1..Len(optionData) /\ Options \subseteq Nat
      /\ \A k \in Options : Len(optionData[k]) \in Nat
      /\ \A c \in Combination : c \in [Options -> Nat] /\ InRange(c)
  BY <1>2, OptionShape
<1>4. Options' = Options /\ Combination' = Combination
  BY <1>2 DEF Options, Combination, Digit, InRange
<1>5. ix' \in [Options -> Nat] /\ Before(ix, ix')
  BY <1>1, <1>2, AdvancedComesLater
<1>6. /\ toCreate' \in Seq(Combination) /\ Len(toCreate') = Len(toCreate) + 1
      /\ \A n \in DOMAIN toCreate : toCreate'[n] = toCreate[n] /\ toCreate[n] \in Combination
      /\ toCreate'[Len(toCreate) + 1] = ix
      /\ DOMAIN toCreate' = 1..(Len(toCreate) + 1) /\ DOMAIN toCreate = 1..Len(toCreate)
  BY <1>2
<1>7. TypeOK'
  BY <1>2, <1>4, <1>5, <1>6 DEF TypeOK
<1>8. \A n \in DOMAIN toCreate : Before(toCreate[n], ix)
  BY <1>2 DEF BuilderInv, BuiltBeforeDigits
<1>9. \A n \in DOMAIN toCreate' : Before(toCreate'[n], ix')
  <2> SUFFICES ASSUME NEW n \in 1..(Len(toCreate) + 1) PROVE Before(toCreate'[n], ix')
    BY <1>6
  <2>1. CASE n = Len(toCreate) + 1
    BY <1>5, <1>6, <2>1
  <2>2. CASE n \in DOMAIN toCreate
    <3>1. toCreate[n] \in [Options -> Nat] /\ Before(toCreate[n], ix) /\ toCreate'[n] = toCreate[n]
      BY <1>3, <1>6, <1>8, <2>2
    <3> QED BY <1>2, <1>3, <1>5, <3>1, BeforeTransitive
  <2> QED BY <1>2, <1>6, <2>1, <2>2
<1>10. BuiltBeforeDigits'
  BY <1>4, <1>9 DEF BuiltBeforeDigits, Before
<1>11. LaterDigits'
  <2> SUFFICES ASSUME NEW k \in Options, k # 1
               PROVE  ix'[k] < Len(optionData[k]) \/ optionData[k] = <<>>
    BY <1>2, <1>4 DEF LaterDigits
  <2>1. optionData[k] \in Seq(Text) /\ ix[k] \in Nat /\ Len(optionData[k]) \in Nat
    BY <1>2, <1>3, OptionShape
  <2>2. ix[k] < Len(optionData[k])
    BY DEF Build, InRange
  <2> QED BY <1>1, <1>3, <2>1, <2>2 DEF Advanced, StopsAt
<1>12. BuiltInOrder'
  <2> SUFFICES ASSUME NEW m \in DOMAIN toCreate', NEW n \in DOMAIN toCreate', m < n
               PROVE  Before(toCreate'[m], toCreate'[n])
    BY <1>4 DEF BuiltInOrder, Before
  <2>1. m \in DOMAIN toCreate
    BY <1>2, <1>6
  <2>2. CASE n \in DOMAIN toCreate
    BY <1>6, <2>1, <2>2 DEF BuilderInv, BuiltInOrder
  <2>3. CASE n = Len(toCreate) + 1
    BY <1>6, <1>8, <2>1, <2>3
  <2> QED BY <1>2, <1>6, <2>2, <2>3
<1>13. NoneSkipped'
  <2> SUFFICES ASSUME NEW c \in Combination, Before(c, ix')
               PROVE  \E n \in DOMAIN toCreate' : toCreate'[n] = c
    BY <1>2, <1>4 DEF NoneSkipped, Before
  <2>1. Before(c, ix) \/ c = ix
    BY <1>1, <1>2, NothingBetween
  <2>2. CASE Before(c, ix)
    <3>1. PICK n \in DOMAIN toCreate : toCreate[n] = c
      BY <1>2, <2>2 DEF BuilderInv, NoneSkipped
    <3>2. n \in DOMAIN toCreate'
      BY <1>2, <1>6
    <3> QED BY <1>6, <3>1, <3>2
  <2>3. CASE c = ix
    <3>1. Len(toCreate) + 1 \in DOMAIN toCreate'
      BY <1>2, <1>6
    <3> QED BY <1>6, <2>3, <3>1
  <2> QED BY <2>1, <2>2, <2>3
<1>14. PanicsAtOnce'
  BY <1>2 DEF PanicsAtOnce
<1> QED BY <1>7, <1>10, <1>11, <1>12, <1>13, <1>14 DEF BuilderInv

LEMMA PanicInv ==
  ASSUME BuilderInv, Panic
  PROVE  BuilderInv'
<1>1. TypeOK /\ UNCHANGED <<optionData, ix, toCreate>> /\ state' = "panicked"
  BY DEF BuilderInv, Panic
<1>2. /\ Options' = Options /\ Combination' = Combination
  BY <1>1 DEF Options, Combination, Digit, InRange
<1>3. /\ optionData \in Seq(Seq(Text)) /\ Options = 1..Len(optionData) /\ 1 \in Options
      /\ ix \in [Options -> Nat] /\ \A j \in Options : Len(optionData[j]) \in Nat
      /\ \A c \in Combination : c \in [Options -> Nat] /\ InRange(c)
  BY <1>1, OptionShape DEF TypeOK
<1>4. TypeOK' /\ BuiltBeforeDigits' /\ LaterDigits' /\ BuiltInOrder' /\ NoneSkipped'
  BY <1>1, <1>2 DEF BuilderInv, TypeOK, BuiltBeforeDigits, LaterDigits, BuiltInOrder, NoneSkipped,
     Before
<1>5. optionData[1] # <<>>
  BY <1>3 DEF Panic, More
<1>6. PICK j \in Options : ~ (ix[j] < Len(optionData[j]))
  BY DEF Panic, InRange
<1>7. optionData[j] = <<>>
  BY <1>3, <1>6 DEF Panic, More, BuilderInv, LaterDigits
<1>8. toCreate = <<>>
  <2>1. \A n \in DOMAIN toCreate : FALSE
    <3> SUFFICES ASSUME NEW n \in DOMAIN toCreate PROVE FALSE
      OBVIOUS
    <3>1. toCreate[n] \in Combination
      BY <1>1 DEF TypeOK
    <3>2. toCreate[n][j] \in Nat /\ toCreate[n][j] < Len(optionData[j])
      BY <1>3, <3>1 DEF InRange
    <3> QED BY <1>7, <3>2
  <2>2. toCreate \in Seq(Combination) /\ Len(toCreate) \in Nat
        /\ DOMAIN toCreate = 1..Len(toCreate)
    BY <1>1 DEF TypeOK
  <2>3. Len(toCreate) = 0
    <3>1. ~ (1 \in 1..Len(toCreate))
      BY <2>1, <2>2
    <3> QED BY <2>2, <3>1
  <2> QED BY <2>2, <2>3, EmptySeq
<1>9. PanicsAtOnce'
  BY <1>1, <1>2, <1>5, <1>7, <1>8 DEF PanicsAtOnce
<1> QED BY <1>4, <1>9 DEF BuilderInv

LEMMA ReturnInv ==
  ASSUME BuilderInv, Return
  PROVE  BuilderInv'
<1>1. /\ TypeOK /\ UNCHANGED <<optionData, ix, toCreate>> /\ state = "running"
      /\ state' = "returned"
  BY DEF BuilderInv, Return
<1>2. /\ Options' = Options /\ Combination' = Combination
  BY <1>1 DEF Options, Combination, Digit, InRange
<1>3. /\ Options = 1..Len(optionData) /\ 1 \in Options
      /\ ix \in [Options -> Nat] /\ \A j \in Options : Len(optionData[j]) \in Nat
      /\ \A c \in Combination : c \in [Options -> Nat] /\ InRange(c)
  BY <1>1, OptionShape DEF TypeOK
<1>4. \A c \in Combination : Before(c, ix)
  <2> SUFFICES ASSUME NEW c \in Combination PROVE Before(c, ix)
    OBVIOUS
  <2>1. c[1] < ix[1]
    BY <1>3 DEF InRange, Return, More
  <2> QED BY <1>3, <2>1 DEF Before
<1>5. NoneSkipped'
  BY <1>1, <1>2, <1>4 DEF BuilderInv, NoneSkipped
<1>6. TypeOK' /\ BuiltBeforeDigits' /\ LaterDigits' /\ BuiltInOrder' /\ PanicsAtOnce'
  BY <1>1, <1>2 DEF BuilderInv, TypeOK, BuiltBeforeDigits, LaterDigits, BuiltInOrder, PanicsAtOnce,
     Before
<1> QED BY <1>5, <1>6 DEF BuilderInv

LEMMA BuilderNext == BuilderInv /\ [Next]_vars => BuilderInv'
<1> SUFFICES ASSUME BuilderInv, [Next]_vars PROVE BuilderInv'
  OBVIOUS
<1>1. CASE UNCHANGED vars
  <2>1. UNCHANGED <<optionData, ix, toCreate, state>>
    BY <1>1 DEF vars
  <2>2. Options' = Options /\ Combination' = Combination
    BY <2>1 DEF Options, Combination, Digit, InRange
  <2> QED BY <2>1, <2>2 DEF BuilderInv, TypeOK, BuiltBeforeDigits, LaterDigits, BuiltInOrder,
            NoneSkipped, PanicsAtOnce, Before
<1> QED BY <1>1, BuildInv, PanicInv, ReturnInv DEF Next, Over

LEMMA BuilderInvariant == Spec => []BuilderInv
BY BuilderInit, BuilderNext, PTL DEF Spec

-----------------------------------------------------------------------------

\* No variant is built twice, for any number of options and values: the carry
\* of next in buildProductsFromOptions never falls back.
THEOREM CombinationsInOrder == Spec => []BuiltInOrder
<1>1. BuilderInv => BuiltInOrder
  BY DEF BuilderInv
<1> QED BY BuilderInvariant, <1>1, PTL

\* No combination of option values is skipped, although the loop of
\* buildProductsFromOptions watches the first digit alone.
THEOREM EveryCombinationIsBuilt == Spec => []NoneSkipped
<1>1. BuilderInv => NoneSkipped
  BY DEF BuilderInv
<1> QED BY BuilderInvariant, <1>1, PTL

\* buildProductsFromOptions panics before it has built anything, for an option
\* without values behind the first, and never otherwise.
THEOREM OnlyAnEmptyOptionPanics == Spec => []PanicsAtOnce
<1>1. BuilderInv => PanicsAtOnce
  BY DEF BuilderInv
<1> QED BY BuilderInvariant, <1>1, PTL

-----------------------------------------------------------------------------
(* The SKUs *)

\* The words of c's value of option j behind those of the options before it.
Joined(words, c, j) == words \o Lowered(optionData[j][c[j] + 1])

\* f is upTo of SKU(c), as far as option n.
JoinsUpTo(f, c, n) ==
  f[0] = Prefix /\ \A j \in 1..n : f[j] = Joined(f[j - 1], c, j)

LEMMA JoinsExist ==
  ASSUME NEW c, NEW n \in Nat
  PROVE  \E f : JoinsUpTo(f, c, n)
<1> DEFINE Missing == {k \in Nat : ~ \E f : JoinsUpTo(f, c, k)}
<1> SUFFICES ASSUME Missing # {} PROVE FALSE
  OBVIOUS
<1>1. PICK m \in Missing : \A k \in Missing : ~ (k < m)
  BY LeastElement
<1>2. CASE m = 0
  <2> DEFINE f == [k \in {0} |-> Prefix]
  <2>1. JoinsUpTo(f, c, 0)
    BY DEF JoinsUpTo
  <2> QED BY <1>2, <2>1
<1>3. CASE m # 0
  <2>1. m - 1 \in Nat /\ m - 1 \notin Missing
    BY <1>1, <1>3
  <2>2. PICK f : JoinsUpTo(f, c, m - 1)
    BY <2>1
  <2> DEFINE g == [k \in 0..m |-> IF k = m THEN Joined(f[m - 1], c, m) ELSE f[k]]
  <2>3. JoinsUpTo(g, c, m)
    <3>1. g[0] = Prefix
      BY <1>3, <2>1, <2>2 DEF JoinsUpTo
    <3>2. ASSUME NEW j \in 1..m PROVE g[j] = Joined(g[j - 1], c, j)
      <4>1. g[j - 1] = f[j - 1]
        BY <2>1
      <4>2. CASE j = m
        BY <4>1, <4>2
      <4>3. CASE j # m
        <5>1. j \in 1..(m - 1) /\ g[j] = f[j]
          BY <2>1, <4>3
        <5> QED BY <2>2, <4>1, <5>1 DEF JoinsUpTo
      <4> QED BY <4>2, <4>3
    <3> QED BY <3>1, <3>2 DEF JoinsUpTo
  <2> QED BY <2>3
<1> QED BY <1>2, <1>3

LEMMA JoinsAgree ==
  ASSUME NEW c, NEW n \in Nat, NEW f, NEW g, JoinsUpTo(f, c, n), JoinsUpTo(g, c, n)
  PROVE  \A k \in 0..n : f[k] = g[k]
<1> DEFINE Differ == {k \in 0..n : f[k] # g[k]}
<1> SUFFICES ASSUME Differ # {} PROVE FALSE
  OBVIOUS
<1>1. PICK m \in Differ : \A k \in Differ : ~ (k < m)
  <2>1. Differ \in SUBSET Nat
    OBVIOUS
  <2> QED BY <2>1, LeastElement
<1>2. m # 0
  BY DEF JoinsUpTo
<1>3. m \in 1..n /\ m - 1 \in 0..n /\ m - 1 < m
  BY <1>2
<1>4. f[m - 1] = g[m - 1]
  BY <1>1, <1>3
<1>5. f[m] = Joined(f[m - 1], c, m) /\ g[m] = Joined(g[m - 1], c, m)
  BY <1>3 DEF JoinsUpTo
<1> QED BY <1>4, <1>5

\* The recursive definition in SKU has a solution.
LEMMA SKUJoins ==
  ASSUME NEW c, Len(optionData) \in Nat
  PROVE  \E f : JoinsUpTo(f, c, Len(optionData)) /\ SKU(c) = f[Len(optionData)]
<1> DEFINE F(n) == CHOOSE f : JoinsUpTo(f, c, n)
           Solves(g) == g = [j \in Nat |-> IF j = 0 THEN Prefix ELSE Joined(g[j - 1], c, j)]
           up == [j \in Nat |-> F(j)[j]]
<1>1. \A n \in Nat : JoinsUpTo(F(n), c, n)
  BY JoinsExist
<1> HIDE DEF F
<1>2. \A j \in Nat : up[j] = IF j = 0 THEN Prefix ELSE Joined(up[j - 1], c, j)
  <2> SUFFICES ASSUME NEW j \in Nat
               PROVE  F(j)[j] = IF j = 0 THEN Prefix ELSE Joined(up[j - 1], c, j)
    OBVIOUS
  <2>1. CASE j = 0
    BY <1>1, <2>1 DEF JoinsUpTo
  <2>2. CASE j # 0
    <3>1. j - 1 \in Nat /\ j \in 1..j /\ j - 1 \in 0..(j - 1)
      BY <2>2
    <3>2. JoinsUpTo(F(j), c, j) /\ JoinsUpTo(F(j - 1), c, j - 1)
      BY <1>1, <3>1
    <3>3. JoinsUpTo(F(j), c, j - 1)
      BY <3>1, <3>2 DEF JoinsUpTo
    <3>4. F(j)[j - 1] = F(j - 1)[j - 1]
      BY <3>1, <3>2, <3>3, JoinsAgree
    <3>5. F(j)[j] = Joined(F(j)[j - 1], c, j)
      BY <3>1, <3>2 DEF JoinsUpTo
    <3> QED BY <2>2, <3>1, <3>4, <3>5
  <2> QED BY <2>1, <2>2
<1>3. Solves(up)
  BY <1>2
<1> DEFINE upTo == CHOOSE g : Solves(g)
<1>4. Solves(upTo)
  BY <1>3
<1>5. SKU(c) = upTo[Len(optionData)]
  BY DEF SKU, Joined
<1>6. JoinsUpTo(upTo, c, Len(optionData))
  <2> HIDE DEF upTo
  <2> QED BY <1>4 DEF JoinsUpTo
<1> QED BY <1>5, <1>6

\* The SKU of a combination of one-word values is the prefix and the word of
\* every value, lower-cased, each at its option's place.
LEMMA SKUWords ==
  ASSUME TypeOK, NEW c \in Combination,
         \A j \in Options : \A v \in DOMAIN optionData[j] : Len(optionData[j][v]) = 1
  PROVE  /\ SKU(c) \in Seq(Word)
         /\ \A j \in Options : SKU(c)[Len(Prefix) + j] = LowerWord[optionData[j][c[j] + 1][1]]
<1> DEFINE n == Len(optionData)
           word(j) == LowerWord[optionData[j][c[j] + 1][1]]
           Reaches(words, k) ==
             /\ words \in Seq(Word) /\ Len(words) = Len(Prefix) + k
             /\ \A j \in 1..k : words[Len(Prefix) + j] = word(j)
<1>1. /\ n \in Nat /\ Options = 1..n /\ Prefix \in Seq(Word) /\ Len(Prefix) \in Nat
      /\ optionData \in Seq(Seq(Text)) /\ LowerWord \in [Word -> Word]
      /\ c \in [Options -> Nat] /\ InRange(c)
      /\ \A j \in Options : Len(optionData[j]) \in Nat
  BY OptionShape, TextAssumption DEF Text
<1>2. ASSUME NEW j \in 1..n
      PROVE  word(j) \in Word /\ Lowered(optionData[j][c[j] + 1]) = <<word(j)>>
  <2>1. optionData[j] \in Seq(Text) /\ c[j] + 1 \in DOMAIN optionData[j]
    BY <1>1 DEF InRange
  <2> DEFINE text == optionData[j][c[j] + 1]
  <2>2. text \in Seq(Word) /\ Len(text) = 1
    BY <1>1, <2>1 DEF Text
  <2> HIDE DEF text
  <2>3. text[1] \in Word /\ DOMAIN text = {1}
    BY <2>2
  <2>4. LowerWord[text[1]] \in Word /\ Lowered(text) = <<LowerWord[text[1]]>>
    BY <1>1, <2>3 DEF Lowered
  <2> QED BY <2>4 DEF text
<1>3. PICK f : JoinsUpTo(f, c, n) /\ SKU(c) = f[n]
  BY <1>1, SKUJoins
<1> HIDE DEF word, n
<1>4. Reaches(f[0], 0)
  BY <1>1, <1>3 DEF JoinsUpTo
<1>5. ASSUME NEW k \in 1..n, Reaches(f[k - 1], k - 1)
      PROVE  Reaches(f[k], k)
  <2> DEFINE front == f[k - 1]
             w == word(k)
  <2>1. f[k] = front \o <<w>> /\ w \in Word
    BY <1>2, <1>3, <1>5 DEF JoinsUpTo, Joined
  <2>2. /\ front \in Seq(Word) /\ Len(front) = Len(Prefix) + (k - 1)
        /\ \A j \in 1..(k - 1) : front[Len(Prefix) + j] = word(j)
    BY <1>5
  <2> HIDE DEF front, w
  <2>3. /\ f[k] \in Seq(Word) /\ Len(f[k]) = Len(Prefix) + k
        /\ f[k][Len(Prefix) + k] = w
        /\ \A i \in 1..Len(front) : f[k][i] = front[i]
    <3> DEFINE last == <<w>>
    <3>1. f[k] = front \o last /\ last \in Seq(Word) /\ Len(last) = 1 /\ last[1] = w
      BY <2>1
    <3> HIDE DEF last
    <3>2. /\ front \o last \in Seq(Word) /\ Len(front \o last) = Len(front) + Len(last)
          /\ \A i \in 1..Len(front) + Len(last) :
               (front \o last)[i] = IF i <= Len(front) THEN front[i] ELSE last[i - Len(front)]
      BY <2>2, <3>1, ConcatProperties
    <3>3. k \in Nat /\ Len(front) \in Nat /\ Len(front) + 1 = Len(Prefix) + k
      BY <1>1, <2>2
    <3> QED BY <3>1, <3>2, <3>3
  <2>4. ASSUME NEW j \in 1..k PROVE f[k][Len(Prefix) + j] = word(j)
    <3>1. CASE j = k
      BY <2>3, <3>1 DEF w
    <3>2. CASE j # k
      <4>1. j \in 1..(k - 1) /\ Len(Prefix) + j \in 1..Len(front)
        BY <1>1, <2>2, <3>2
      <4> QED BY <2>2, <2>3, <4>1
    <3> QED BY <3>1, <3>2
  <2> QED BY <2>3, <2>4
<1> DEFINE Short == {k \in 0..n : ~ Reaches(f[k], k)}
<1>6. Short = {}
  <2> SUFFICES ASSUME Short # {} PROVE FALSE
    OBVIOUS
  <2>1. Short \in SUBSET Nat
    BY <1>1
  <2>2. PICK m \in Short : \A k \in Short : ~ (k < m)
    <3> HIDE DEF Short
    <3> QED BY <2>1, LeastElement
  <2> HIDE DEF Reaches
  <2>3. m # 0
    BY <1>4, <2>2
  <2>4. m \in 1..n /\ m - 1 \in 0..n /\ m - 1 < m
    BY <1>1, <2>3
  <2> QED BY <1>5, <2>2, <2>4
<1>7. Reaches(f[n], n)
  <2> HIDE DEF Reaches
  <2>1. n \in 0..n
    BY <1>1
  <2> QED BY <1>6, <2>1
<1> QED BY <1>1, <1>3, <1>7 DEF word, n

\* Combinations of one-word values that no option repeats in another case get
\* SKUs of their own.
LEMMA SKUsTellApart ==
  ASSUME TypeOK, NEW c \in Combination, NEW d \in Combination, SKU(c) = SKU(d),
         \A j \in Options : \A v \in DOMAIN optionData[j] : Len(optionData[j][v]) = 1,
         \A j \in Options : \A v, w \in DOMAIN optionData[j] :
           Lowered(optionData[j][v]) = Lowered(optionData[j][w]) => v = w
  PROVE  \A j \in Options : c[j] = d[j]
<1> SUFFICES ASSUME NEW j \in Options PROVE c[j] = d[j]
  OBVIOUS
<1> DEFINE text == optionData[j][c[j] + 1]
           twin == optionData[j][d[j] + 1]
<1>1. /\ optionData[j] \in Seq(Text) /\ c[j] \in Nat /\ d[j] \in Nat
      /\ c[j] + 1 \in DOMAIN optionData[j] /\ d[j] + 1 \in DOMAIN optionData[j]
  BY OptionShape DEF InRange
<1>2. text \in Seq(Word) /\ twin \in Seq(Word) /\ Len(text) = 1 /\ Len(twin) = 1
  BY <1>1 DEF Text
<1>3. LowerWord[text[1]] = LowerWord[twin[1]]
  BY SKUWords
<1> HIDE DEF text, twin
<1>4. DOMAIN text = {1} /\ DOMAIN twin = {1}
  BY <1>2
<1>5. Lowered(text) = Lowered(twin)
  BY <1>3, <1>4 DEF Lowered
<1>6. c[j] + 1 = d[j] + 1
  BY <1>1, <1>5 DEF text, twin
<1> QED BY <1>1, <1>6

\* The variants buildProductsFromOptions builds for one product have SKUs of
\* their own, for any number of options and values, as long as no value holds
\* an underscore and no option repeats a value in another case.
THEOREM SkusOfTheirOwn == Spec => []SkusAreDistinct
<1>1. BuilderInv => SkusAreDistinct
  <2> SUFFICES ASSUME BuilderInv,
                      \A j \in Options : \A v \in DOMAIN optionData[j] : Len(optionData[j][v]) = 1,
                      \A j \in Options : \A v, w \in DOMAIN optionData[j] :
                        Lowered(optionData[j][v]) = Lowered(optionData[j][w]) => v = w,
                      NEW m \in DOMAIN toCreate, NEW n \in DOMAIN toCreate,
                      SKU(toCreate[m]) = SKU(toCreate[n])
               PROVE  m = n
    BY DEF SkusAreDistinct
  <2>1. /\ TypeOK /\ m \in Nat /\ n \in Nat
        /\ toCreate[m] \in Combination /\ toCreate[n] \in Combination
    BY DEF BuilderInv, TypeOK
  <2>2. \A j \in Options : toCreate[m][j] = toCreate[n][j] /\ toCreate[m][j] \in Nat
    BY <2>1, SKUsTellApart, OptionShape
  <2>3. ~ Before(toCreate[m], toCreate[n]) /\ ~ Before(toCreate[n], toCreate[m])
    BY <2>2 DEF Before
  <2>4. ~ (m < n) /\ ~ (n < m)
    BY <2>3 DEF BuilderInv, BuiltInOrder
  <2> QED BY <2>1, <2>4
<1> QED BY BuilderInvariant, <1>1, PTL

=============================================================================

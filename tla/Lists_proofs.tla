---------------------------- MODULE Lists_proofs ----------------------------
(***************************************************************************)
(* Lists for any table, filter and limits: types, the walk that has every  *)
(* row once, the bound on what a response holds, and what archiving rows   *)
(* does to the pages that follow.                                          *)
(***************************************************************************)
EXTENDS Lists, FiniteSetTheorems, SequenceTheorems, WellFoundedInduction,
        NaturalsInduction, TLAPS

\* The rows a list gives back are found through their ranks, and that each
\* rank is taken is the one place where induction enters.
LEMMA SmallestNumber ==
  ASSUME NEW S \in SUBSET Nat, S # {}
  PROVE  \E m \in S : \A k \in S : k >= m
<1> DEFINE Below == {ss \in Nat \X Nat : ss[1] < ss[2]}
<1>1. IsWellFoundedOn(Below, Nat)
  BY NatLessThanWellFounded DEF OpToRel
<1>2. \E m \in S : \A k \in S : <<k, m>> \notin Below
  <2> HIDE DEF Below
  <2> QED BY <1>1, WFMin
<1>3. PICK m \in S : \A k \in S : <<k, m>> \notin Below
  BY <1>2
<1>4. \A k \in S : ~(k < m)
  BY <1>3
<1>5. \A k \in S : k \in Nat /\ m \in Nat
  OBVIOUS
<1>6. \A k \in S : k >= m
  <2> HIDE DEF Below
  <2> QED BY <1>4, <1>5
<1> QED BY <1>6

LEMMA Ranks ==
  ASSUME NEW n \in Nat, NEW places \in SUBSET (1..n), NEW k \in 1..Cardinality(places)
  PROVE  \E i \in places : Cardinality({j \in places : j <= i}) = k
<1> DEFINE UpTo(m) == {j \in places : j <= m}
           Enough == {m \in Nat : Cardinality(UpTo(m)) >= k}
<1>0. \A j \in places : j \in Nat /\ 1 <= j /\ j <= n
  OBVIOUS
<1>1. IsFiniteSet(places) /\ Cardinality(places) \in Nat /\ k \in Nat /\ k >= 1
  <2>1. IsFiniteSet(1..n)
    BY FS_Interval
  <2>2. IsFiniteSet(places)
    BY <2>1, FS_Subset
  <2> QED BY <2>2, FS_CardinalityType
<1>2. \A m \in Nat : IsFiniteSet(UpTo(m)) /\ Cardinality(UpTo(m)) \in Nat
  <2> TAKE m \in Nat
  <2>1. UpTo(m) \in SUBSET places
    OBVIOUS
  <2>2. IsFiniteSet(UpTo(m))
    BY <1>1, <2>1, FS_Subset
  <2> QED BY <2>2, FS_CardinalityType
<1>3. UpTo(n) = places /\ UpTo(0) = {}
  <2>1. \A j \in places : j <= n /\ ~(j <= 0)
    BY <1>0
  <2> QED BY <2>1
<1>4. \A m \in Nat : m # 0 => UpTo(m) = UpTo(m - 1) \cup (places \cap {m})
  <2> TAKE m \in Nat
  <2>1. \A j \in places : j <= m <=> j <= m - 1 \/ j = m
    BY <1>0
  <2> QED BY <2>1
<1> HIDE DEF UpTo
<1>5. n \in Enough /\ Enough \in SUBSET Nat
  BY <1>1, <1>3
<1>6. PICK m \in Enough : \A l \in Enough : l >= m
  <2> HIDE DEF Enough
  <2> QED BY <1>5, SmallestNumber
<1>7. m \in Nat /\ Cardinality(UpTo(m)) >= k
  OBVIOUS
<1>8. m # 0
  <2>1. Cardinality(UpTo(0)) = 0
    BY <1>3, FS_EmptySet
  <2> QED BY <1>1, <1>7, <2>1
<1>9. m - 1 \in Nat /\ Cardinality(UpTo(m - 1)) < k
  <2>1. m - 1 \in Nat /\ m - 1 \notin Enough
    <3>1. m - 1 \in Nat /\ ~(m - 1 >= m)
      BY <1>7, <1>8
    <3> QED BY <1>6, <3>1
  <2> QED BY <1>1, <1>2, <2>1
<1>10. m \in places
  <2> SUFFICES ASSUME m \notin places PROVE FALSE
    OBVIOUS
  <2>1. UpTo(m) = UpTo(m - 1) \cup (places \cap {m}) /\ places \cap {m} = {}
    BY <1>4, <1>7, <1>8
  <2> QED BY <1>1, <1>2, <1>7, <1>9, <2>1
<1>11. Cardinality(UpTo(m)) <= Cardinality(UpTo(m - 1)) + 1
  <2>1. UpTo(m) = UpTo(m - 1) \cup {m}
    BY <1>4, <1>7, <1>8, <1>10
  <2>2. Cardinality(UpTo(m - 1) \cup {m})
          = IF m \in UpTo(m - 1) THEN Cardinality(UpTo(m - 1)) ELSE Cardinality(UpTo(m - 1)) + 1
    BY <1>2, <1>9, FS_AddElement
  <2> QED BY <1>2, <1>9, <2>1, <2>2
<1>12. Cardinality(UpTo(m)) = k
  BY <1>1, <1>2, <1>7, <1>9, <1>11
<1> QED BY <1>10, <1>12 DEF UpTo

LEMMA InOrderType ==
  ASSUME rows \in Seq(Row), NEW places \in SUBSET DOMAIN rows
  PROVE  /\ InOrder(places) \in Seq(Row)
         /\ Len(InOrder(places)) = Cardinality(places)
         /\ Cardinality(places) \in Nat
<1>1. Len(rows) \in Nat /\ DOMAIN rows = 1..Len(rows)
  OBVIOUS
<1>2. Cardinality(places) \in Nat
  <2>1. IsFiniteSet(1..Len(rows))
    BY <1>1, FS_Interval
  <2>2. IsFiniteSet(places)
    BY <1>1, <2>1, FS_Subset
  <2> QED BY <2>2, FS_CardinalityType
<1> DEFINE size == Cardinality(places)
           Ranked(k) == rows[CHOOSE i \in places : Cardinality({j \in places : j <= i}) = k]
<1>3. \A k \in 1..size : Ranked(k) \in Row
  <2> TAKE k \in 1..size
  <2>1. \E i \in places : Cardinality({j \in places : j <= i}) = k
    BY <1>1, Ranks
  <2>2. (CHOOSE i \in places : Cardinality({j \in places : j <= i}) = k) \in places
    BY <2>1
  <2> QED BY <1>1, <2>2
<1>4. InOrder(places) = [k \in 1..size |-> Ranked(k)]
  BY DEF InOrder
<1> HIDE DEF size, Ranked
<1>5. size \in Nat
  BY <1>2 DEF size
<1>6. /\ [k \in 1..size |-> Ranked(k)] \in Seq(Row)
      /\ Len([k \in 1..size |-> Ranked(k)]) = size
  BY <1>3, <1>5
<1> QED BY <1>4, <1>5, <1>6 DEF size

LEMMA MatchingType ==
  ASSUME rows \in Seq(Row), NEW f
  PROVE  Matching(f) \in Seq(Row)
BY InOrderType DEF Matching

LEMMA CutType ==
  ASSUME NEW S, NEW s \in Seq(S), NEW limit \in Nat, NEW offset \in Nat
  PROVE  Cut(s, limit, offset) \in Seq(S) /\ Len(Cut(s, limit, offset)) <= limit
<1> DEFINE to == IF offset + limit < Len(s) THEN offset + limit ELSE Len(s)
<1>1. Len(s) \in Nat /\ to \in Nat /\ to <= Len(s) /\ to <= offset + limit
  OBVIOUS
<1>2. \A i \in offset + 1 .. to : s[i] \in S
  BY <1>1
<1>3. /\ SubSeq(s, offset + 1, to) \in Seq(S)
      /\ Len(SubSeq(s, offset + 1, to)) =
           IF offset + 1 <= to THEN to - (offset + 1) + 1 ELSE 0
  <2> HIDE DEF to
  <2> QED BY <1>1, <1>2, SubSeqProperties
<1>4. Len(SubSeq(s, offset + 1, to)) <= limit
  <2> HIDE DEF to
  <2> QED BY <1>1, <1>3
<1> QED BY <1>3, <1>4 DEF Cut

\* LIMIT and OFFSET are sane whatever the filter.
LEMMA LimitsType ==
  ASSUME NEW f \in QueryFilter, f.limit <= MaxLimit, NEW p \in Nat \ {0}
  PROVE  /\ Limit(f) \in Nat /\ 0 < Limit(f) /\ Limit(f) <= MaxLimit
         /\ Offset(f, p) \in Nat /\ Offset(f, p) = (p - 1) * f.limit
<1>1. f.limit \in Nat /\ p - 1 \in Nat
  BY DEF QueryFilter
<1>2. (p - 1) * f.limit \in Nat
  BY <1>1
<1>3. p = 1 => (p - 1) * f.limit = 0
  BY <1>1
<1> QED BY <1>1, <1>2, <1>3, ListsAssumption DEF Limit, Offset

LEMMA ListedType ==
  ASSUME TypeOK
  PROVE  /\ Listed(filter, page) \in Seq(Row)
         /\ Counted(filter, page) = <<Len(Matching(filter))>>
         /\ Len(Matching(filter)) \in Nat
<1>1. Matching(filter) \in Seq(Row)
  BY MatchingType DEF TypeOK
<1>3. /\ Limit(filter) \in Nat /\ 0 < Limit(filter)
      /\ Offset(filter, page) \in Nat
  BY LimitsType DEF TypeOK
<1>4. Listed(filter, page) \in Seq(Row)
  BY <1>1, <1>3, CutType DEF Listed
<1>5. Counted(filter, page) = <<Len(Matching(filter))>>
  <2> DEFINE one == <<Len(Matching(filter))>>
  <2>1. one \in Seq(Nat) /\ Len(one) = 1
    BY <1>1
  <2>2. Cut(one, Limit(filter), 0) = SubSeq(one, 1, Len(one))
    <3> HIDE DEF one
    <3>1. (IF 0 + Limit(filter) < Len(one) THEN 0 + Limit(filter) ELSE Len(one)) = Len(one)
      BY <1>3, <2>1
    <3> QED BY <3>1 DEF Cut
  <2>3. SubSeq(one, 1, Len(one)) = one
    BY <2>1, SubSeqFull
  <2> QED BY <2>2, <2>3 DEF Counted
<1> QED BY <1>1, <1>4, <1>5

-----------------------------------------------------------------------------
(* Types *)

\* What a write makes of the table.
LEMMA Placed ==
  ASSUME rows \in Seq(Row), NEW row \in Row
  PROVE  /\ \A p \in 1..Len(rows) + 1 : Put(rows, p, row) \in Seq(Row)
         /\ \A i, p \in DOMAIN rows : Put(Without(rows, i), p, row) \in Seq(Row)
<1>1. \A s \in Seq(Row), i \in Int, j \in Int : 1 <= i /\ j <= Len(s) => SubSeq(s, i, j) \in Seq(Row)
  <2> TAKE s \in Seq(Row), i \in Int, j \in Int
  <2> HAVE 1 <= i /\ j <= Len(s)
  <2>1. \A k \in i..j : s[k] \in Row
    OBVIOUS
  <2> QED BY <2>1, SubSeqProperties
<1>2. \A s \in Seq(Row) : \A p \in 1..Len(s) + 1 : Put(s, p, row) \in Seq(Row)
  <2> TAKE s \in Seq(Row)
  <2> TAKE p \in 1..Len(s) + 1
  <2>1. Len(s) \in Nat /\ p - 1 \in Int /\ p \in Int
    OBVIOUS
  <2>2. SubSeq(s, 1, p - 1) \in Seq(Row)
    BY <1>1, <2>1
  <2>3. SubSeq(s, p, Len(s)) \in Seq(Row)
    BY <1>1, <2>1
  <2>4. <<row>> \in Seq(Row)
    OBVIOUS
  <2> QED BY <2>2, <2>3, <2>4, ConcatProperties DEF Put
<1>3. \A i \in DOMAIN rows : Without(rows, i) \in Seq(Row) /\ Len(Without(rows, i)) + 1 = Len(rows)
  <2> TAKE i \in DOMAIN rows
  <2>1. Len(rows) \in Nat /\ i \in 1..Len(rows)
    OBVIOUS
  <2>2. \A k \in 1..i - 1 : rows[k] \in Row
    BY <2>1
  <2>3. \A k \in i + 1..Len(rows) : rows[k] \in Row
    BY <2>1
  <2>4. SubSeq(rows, 1, i - 1) \in Seq(Row) /\ Len(SubSeq(rows, 1, i - 1)) = i - 1
    <3>1. Len(SubSeq(rows, 1, i - 1)) = IF 1 <= i - 1 THEN i - 1 - 1 + 1 ELSE 0
      BY <2>1, <2>2, SubSeqProperties
    <3> QED BY <1>1, <2>1, <3>1
  <2>5. SubSeq(rows, i + 1, Len(rows)) \in Seq(Row)
        /\ Len(SubSeq(rows, i + 1, Len(rows))) = Len(rows) - i
    <3>1. Len(SubSeq(rows, i + 1, Len(rows)))
            = IF i + 1 <= Len(rows) THEN Len(rows) - (i + 1) + 1 ELSE 0
      BY <2>1, <2>3, SubSeqProperties
    <3> QED BY <1>1, <2>1, <3>1
  <2> DEFINE front == SubSeq(rows, 1, i - 1)
             back == SubSeq(rows, i + 1, Len(rows))
  <2>6. front \o back \in Seq(Row) /\ Len(front \o back) = Len(front) + Len(back)
    <3>1. front \in Seq(Row) /\ back \in Seq(Row)
      BY <2>4, <2>5
    <3> HIDE DEF front, back
    <3> QED BY <3>1, ConcatProperties
  <2>7. Len(front) + Len(back) + 1 = Len(rows)
    <3>1. \A k, n \in Int : (k - 1) + (n - k) + 1 = n
      OBVIOUS
    <3>2. i \in Int /\ Len(rows) \in Int
      BY <2>1
    <3>3. (i - 1) + (Len(rows) - i) + 1 = Len(rows)
      BY <3>1, <3>2, Zenon
    <3> QED BY <2>4, <2>5, <3>3, Zenon
  <2> QED BY <2>6, <2>7 DEF Without
<1>4. \A i, p \in DOMAIN rows : Put(Without(rows, i), p, row) \in Seq(Row)
  <2> TAKE i, p \in DOMAIN rows
  <2>1. p \in 1..Len(Without(rows, i)) + 1
    BY <1>3
  <2> QED BY <1>2, <1>3, <2>1
<1> QED BY <1>2, <1>4

LEMMA ParsedType ==
  ASSUME NEW q \in Queries
  PROVE  /\ ParsedPage(q.page) = 1
         /\ parseRawFilterParams(q) \in QueryFilter
         /\ parseRawFilterParams(q).limit <= MaxLimit
<1>1. q \in Query /\ q.page \in {None, Garbage, 0, 1} /\ None \notin Int /\ Garbage \notin Int
  BY ListsAssumption
<1>2. ParsedPage(q.page) = 1
  BY <1>1 DEF ParsedPage
<1>3. ParsedLimit(q.limit) \in Nat /\ ParsedLimit(q.limit) <= MaxLimit
  <2>1. q.limit \in Int \cup {None, Garbage, NaN} /\ MaxLimit \in Nat
    BY <1>1, ListsAssumption DEF Query
  <2>2. CASE q.limit \in {None, Garbage}
    BY <2>2, ListsAssumption DEF ParsedLimit
  <2>3. CASE q.limit = NaN /\ q.limit \notin {None, Garbage}
    BY <2>1, <2>3 DEF ParsedLimit
  <2>4. CASE q.limit \in Int /\ q.limit # NaN /\ q.limit \notin {None, Garbage}
    <3>1. ParsedLimit(q.limit) = IF q.limit < 0 THEN 0
                                 ELSE IF q.limit > 2 * MaxLimit THEN MaxLimit ELSE q.limit \div 2
      BY <2>4 DEF ParsedLimit
    <3>2. q.limit >= 0 /\ q.limit <= 2 * MaxLimit => q.limit \div 2 \in Nat /\ q.limit \div 2 <= MaxLimit
      BY <2>1, <2>4
    <3> QED BY <2>1, <2>4, <3>1, <3>2
  <2> QED BY <2>1, <2>2, <2>3, <2>4
<1>4. parseRawFilterParams(q) \in QueryFilter
  BY <1>1, <1>3 DEF parseRawFilterParams, QueryFilter, Query
<1> QED BY <1>2, <1>3, <1>4 DEF parseRawFilterParams

LEMMA TypeInit == Init => TypeOK
BY ListsAssumption DEF Init, TypeOK, NoAnswer, QueryFilter

LEMMA TypeStep == TypeOK /\ [Next]_vars => TypeOK'
<1> SUFFICES ASSUME TypeOK, [Next]_vars PROVE TypeOK'
  OBVIOUS
<1>1. CASE Begin
  <2>1. PICK q \in Queries : page' = ParsedPage(q.page) /\ filter' = parseRawFilterParams(q)
    BY <1>1 DEF Begin
  <2> QED BY <1>1, <2>1, ParsedType DEF Begin, TypeOK
<1>2. CASE GetCount
  <2>1. Counted(filter, page) = <<Len(Matching(filter))>> /\ Len(Matching(filter)) \in Nat
    BY ListedType
  <2>2. count' \in Nat /\ pc' \in {"list", "noRow"}
    BY <1>2, <2>1 DEF GetCount, TypeOK
  <2> QED BY <1>2, <2>2 DEF GetCount, TypeOK
<1>3. CASE GetList
  <2>1. Listed(filter, page) \in Seq(Row)
    BY ListedType
  <2>2. filter.limit \in 0..MaxLimit
    BY DEF TypeOK, QueryFilter
  <2> QED BY <1>3, <2>1, <2>2 DEF GetList, TypeOK
<1>4. CASE StatementFails
  BY <1>4 DEF StatementFails, TypeOK
<1>5. CASE Receive
  <2>1. answer.data \in Seq(Row)
    BY DEF TypeOK
  <2>2. got' \in Seq(Row)
    BY <1>5, <2>1, ConcatProperties DEF Receive, TypeOK
  <2>3. page' \in Nat \ {0}
    <3>1. ParsedPage(answer.page + 1) \in Nat \ {0}
      BY DEF ParsedPage, TypeOK
    <3> QED BY <1>5, <3>1 DEF Receive, TypeOK
  <2>4. pc' \in {"count", "gaveup", "done"}
    BY <1>5 DEF Receive
  <2> QED BY <1>5, <2>2, <2>3, <2>4 DEF Receive, TypeOK
<1>6. CASE Insert
  <2>1. PICK p \in 1..Len(rows) + 1 :
          Write(Put(rows, p, [id |-> Len(rows) + 1, st |-> "active",
                              created |-> writes + 1, updated |-> None]))
    BY <1>6 DEF Insert
  <2> DEFINE row == [id |-> Len(rows) + 1, st |-> "active",
                     created |-> writes + 1, updated |-> None]
  <2>2. row \in Row
    BY DEF TypeOK, Row, Time
  <2>3. Put(rows, p, row) \in Seq(Row)
    <3>1. rows \in Seq(Row)
      BY DEF TypeOK
    <3> HIDE DEF row
    <3> QED BY <2>2, <3>1, Placed
  <2>4. Write(Put(rows, p, row))
    BY <2>1
  <2> HIDE DEF row
  <2> QED BY <2>3, <2>4, ListsAssumption DEF Write, TypeOK
<1>7. CASE Update
  <2>1. PICK i \in DOMAIN rows, p \in DOMAIN rows :
          Write(Put(Without(rows, i), p, [rows[i] EXCEPT !.updated = writes + 1]))
    BY <1>7 DEF Update
  <2> DEFINE row == [rows[i] EXCEPT !.updated = writes + 1]
  <2>2. row \in Row
    <3>1. rows[i] \in Row /\ writes + 1 \in Time
      BY DEF TypeOK, Time
    <3> QED BY <3>1 DEF Row
  <2>3. Put(Without(rows, i), p, row) \in Seq(Row)
    <3>1. rows \in Seq(Row)
      BY DEF TypeOK
    <3> HIDE DEF row
    <3> QED BY <2>2, <3>1, Placed
  <2>4. Write(Put(Without(rows, i), p, row))
    BY <2>1
  <2> HIDE DEF row
  <2> QED BY <2>3, <2>4, ListsAssumption DEF Write, TypeOK
<1>8. CASE Archive
  <2>1. PICK i \in DOMAIN rows, p \in DOMAIN rows :
          Write(Put(Without(rows, i), p, [rows[i] EXCEPT !.st = "archived"]))
    BY <1>8 DEF Archive
  <2> DEFINE row == [rows[i] EXCEPT !.st = "archived"]
  <2>2. row \in Row
    <3>1. rows[i] \in Row
      BY DEF TypeOK
    <3> QED BY <3>1 DEF Row
  <2>3. Put(Without(rows, i), p, row) \in Seq(Row)
    <3>1. rows \in Seq(Row)
      BY DEF TypeOK
    <3> HIDE DEF row
    <3> QED BY <2>2, <3>1, Placed
  <2>4. Write(Put(Without(rows, i), p, row))
    BY <2>1
  <2> HIDE DEF row
  <2> QED BY <2>3, <2>4, ListsAssumption DEF Write, TypeOK
<1>9. CASE UNCHANGED vars
  BY <1>9 DEF vars, TypeOK
<1> QED
  BY <1>1, <1>2, <1>3, <1>4, <1>5, <1>6, <1>7, <1>8, <1>9 DEF Next, Over

\* Every reachable state is well typed: whatever a client asks for, the limit
\* its handler works with is at most MaxLimit, and every place of an answer
\* holds a row of the table.
THEOREM ListsTypeCorrect == Spec => []TypeOK
<1>1. Init => TypeOK
  BY TypeInit
<1>2. TypeOK /\ [Next]_vars => TypeOK'
  BY TypeStep
<1> QED BY <1>1, <1>2, PTL DEF Spec

-----------------------------------------------------------------------------
(* The walk *)

\* The first n rows that match.
First(n) ==
  SubSeq(Matching(filter), 1, IF n < Len(Matching(filter)) THEN n ELSE Len(Matching(filter)))

\* How many rows the pages before this one hold.
Before(p) == (p - 1) * filter.limit

\* What an undisturbed walk has at each of its points: the pages before the
\* one in flight, which is cut from the rows that follow them.
WalkInv ==
  /\ pc = "idle" => got = << >>
  /\ writes = 0 /\ filter.limit > 0 =>
       /\ pc \in {"count", "list", "answered", "noRow", "failed"} => got = First(Before(page))
       /\ pc = "gaveup" => got = First(Before(page) + filter.limit)
       /\ pc = "answered" => /\ answer.data = Cut(Matching(filter), filter.limit, Before(page))
                             /\ answer.limit = filter.limit
                             /\ answer.page = page
       /\ pc = "done" => got = Matching(filter)

\* One page after another is a longer first part.
LEMMA NextPage ==
  ASSUME NEW S, NEW s \in Seq(S), NEW n \in Nat, NEW limit \in Nat, limit > 0
  PROVE  /\ SubSeq(s, 1, IF n < Len(s) THEN n ELSE Len(s)) \o Cut(s, limit, n)
              = SubSeq(s, 1, IF n + limit < Len(s) THEN n + limit ELSE Len(s))
         /\ Len(Cut(s, limit, n)) < limit =>
              SubSeq(s, 1, IF n < Len(s) THEN n ELSE Len(s)) \o Cut(s, limit, n) = s
<1> DEFINE k == IF n < Len(s) THEN n ELSE Len(s)
           to == IF n + limit < Len(s) THEN n + limit ELSE Len(s)
           front == SubSeq(s, 1, k)
           cut == Cut(s, limit, n)
<1>1. Len(s) \in Nat /\ k \in 0..Len(s) /\ to \in k..Len(s)
  OBVIOUS
<1>2. cut = SubSeq(s, n + 1, to)
  BY DEF Cut
<1>3. cut = SubSeq(s, k + 1, to)
  <2>1. CASE n < Len(s)
    BY <1>2, <2>1
  <2>2. CASE ~(n < Len(s))
    <3>1. k = Len(s) /\ to = Len(s) /\ to < n + 1 /\ to < k + 1
      BY <1>1, <2>2
    <3>2. SubSeq(s, n + 1, to) = << >> /\ SubSeq(s, k + 1, to) = << >>
      <4> HIDE DEF k, to
      <4> QED BY <1>1, <3>1, SubSeqEmpty
    <3> QED BY <1>2, <3>2
  <2> QED BY <2>1, <2>2
<1>4. front \o cut = SubSeq(s, 1, to)
  <2>1. front = SubSeq(s, 1, k)
    OBVIOUS
  <2> HIDE DEF k, to
  <2>2. SubSeq(s, 1, k) \o SubSeq(s, k + 1, to) = SubSeq(s, 1, to)
    BY <1>1, ConcatAdjacentSubSeq
  <2> QED BY <1>3, <2>1, <2>2
<1>5. Len(cut) < limit => to = Len(s)
  <2>1. \A i \in n + 1..to : s[i] \in S
    BY <1>1
  <2>2. Len(SubSeq(s, n + 1, to)) = IF n + 1 <= to THEN to - (n + 1) + 1 ELSE 0
    <3> HIDE DEF to
    <3> QED BY <1>1, <2>1, SubSeqProperties
  <2> QED BY <1>1, <1>2, <2>2
<1>6. SubSeq(s, 1, Len(s)) = s
  BY SubSeqFull
<1>7. Len(cut) < limit => front \o cut = s
  BY <1>4, <1>5, <1>6
<1> QED BY <1>4, <1>7

\* Only writes change what matches.
LEMMA SameRows ==
  ASSUME UNCHANGED <<rows, filter>>
  PROVE  /\ Matching(filter)' = Matching(filter)
         /\ \A n : First(n)' = First(n)
         /\ \A p : Before(p)' = Before(p)
<1>1. Matching(filter)' = Matching(filter)
  BY DEF Matching, InOrder
<1> QED BY <1>1 DEF First, Before

LEMMA WalkStart == Init => WalkInv
BY DEF Init, WalkInv

\* The facts about the page in flight that the steps of a walk rest on.
LEMMA Paging ==
  ASSUME TypeOK
  PROVE  /\ Matching(filter) \in Seq(Row) /\ Len(Matching(filter)) \in Nat
         /\ page \in Nat /\ filter.limit \in Nat
         /\ Before(page) \in Nat
         /\ Before(page + 1) = Before(page) + filter.limit
         /\ page = 1 => Before(page) = 0
<1>1. page \in Nat \ {0} /\ filter.limit \in Nat
  BY DEF TypeOK, QueryFilter
<1>2. Matching(filter) \in Seq(Row) /\ Len(Matching(filter)) \in Nat
  BY MatchingType, ListedType DEF TypeOK
<1>3. (page - 1) * filter.limit \in Nat
  BY <1>1
<1>4. (page + 1 - 1) * filter.limit = (page - 1) * filter.limit + filter.limit
  BY <1>1
<1>5. page = 1 => (page - 1) * filter.limit = 0
  BY <1>1
<1> QED BY <1>1, <1>2, <1>3, <1>4, <1>5 DEF Before

LEMMA WalkStep ==
  ASSUME TypeOK, WalkInv, [Next]_vars
  PROVE  WalkInv'
<1>0. /\ (pc = "idle" => got = << >>)'
      /\ writes' = 0 => writes = 0
  <2>1. CASE Insert \/ Update \/ Archive
    <3>1. \E newRows : Write(newRows)
      BY <2>1, Zenon DEF Insert, Update, Archive
    <3>2. writes' = writes + 1 /\ writes \in Nat /\ UNCHANGED <<pc, got>>
      BY <3>1, ListsAssumption DEF Write, TypeOK
    <3> QED BY <3>2 DEF WalkInv
  <2> QED
    BY <2>1 DEF Next, WalkInv, vars, Begin, GetCount, GetList, StatementFails, Receive, Over
<1> SUFFICES ASSUME (writes = 0 /\ filter.limit > 0)' PROVE WalkInv'
  BY <1>0 DEF WalkInv
<1>1. CASE Begin
  <2>1. page' = 1 /\ pc' = "count" /\ got' = got
    BY <1>1, ParsedType DEF Begin
  <2>2. got' = << >>
    BY <1>1, <2>1 DEF Begin, WalkInv
  <2>3. First(Before(page))' = << >>
    <3>1. Matching(filter)' = Matching(filter')
      BY <1>1 DEF Begin, Matching, InOrder
    <3>2. Matching(filter') \in Seq(Row)
      BY MatchingType DEF TypeOK
    <3>3. Before(page)' = 0
      <4>1. filter'.limit \in Nat
        BY <1>1, ParsedType DEF Begin, QueryFilter
      <4> QED BY <2>1, <4>1 DEF Before
    <3>4. \A s \in Seq(Row) : SubSeq(s, 1, IF 0 < Len(s) THEN 0 ELSE Len(s)) = << >>
      <4> TAKE s \in Seq(Row)
      <4>1. (IF 0 < Len(s) THEN 0 ELSE Len(s)) = 0
        OBVIOUS
      <4> QED BY <4>1, SubSeqEmpty
    <3> QED BY <3>1, <3>2, <3>3, <3>4 DEF First
  <2> QED BY <2>1, <2>2, <2>3 DEF WalkInv
<1>2. CASE GetCount
  <2>1. UNCHANGED <<rows, writes, page, filter, answer, got>> /\ pc = "count"
    BY <1>2 DEF GetCount
  <2>2. pc' \in {"list", "noRow"}
    BY <1>2 DEF GetCount
  <2>3. got = First(Before(page))
    BY <2>1 DEF WalkInv
  <2>4. First(Before(page))' = First(Before(page))
    BY <2>1, SameRows DEF First, Before
  <2> QED BY <2>1, <2>2, <2>3, <2>4 DEF WalkInv
<1>3. CASE GetList
  <2>1. UNCHANGED <<rows, writes, page, filter, count, got>> /\ pc = "list" /\ pc' = "answered"
    BY <1>3 DEF GetList
  <2>2. answer' = [count |-> count, limit |-> filter.limit, page |-> page,
                   data |-> Listed(filter, page)]
    BY <1>3 DEF GetList
  <2>3. Listed(filter, page) = Cut(Matching(filter), filter.limit, Before(page))
    BY <2>1, LimitsType DEF Listed, Limit, Before, TypeOK
  <2>4. got = First(Before(page))
    BY <2>1 DEF WalkInv
  <2>5. First(Before(page))' = First(Before(page)) /\ Matching(filter)' = Matching(filter)
        /\ Before(page)' = Before(page)
    BY <2>1, SameRows DEF First, Before
  <2>6. Cut(Matching(filter), filter.limit, Before(page))'
          = Cut(Matching(filter), filter.limit, Before(page))
    BY <2>1, <2>5 DEF Cut
  <2> QED BY <2>1, <2>2, <2>3, <2>4, <2>5, <2>6 DEF WalkInv
<1>4. CASE StatementFails
  <2>1. UNCHANGED <<rows, writes, page, filter, count, answer, got>>
        /\ pc \in {"count", "list"} /\ pc' = "failed"
    BY <1>4 DEF StatementFails
  <2>2. got = First(Before(page))
    BY <2>1 DEF WalkInv
  <2>3. First(Before(page))' = First(Before(page))
    BY <2>1, SameRows DEF First, Before
  <2> QED BY <2>1, <2>2, <2>3 DEF WalkInv
<1>5. CASE Receive
  <2>1. UNCHANGED <<rows, writes, filter, count, answer>> /\ pc = "answered"
    BY <1>5 DEF Receive
  <2> DEFINE data == Cut(Matching(filter), filter.limit, Before(page))
             upTo == First(Before(page) + filter.limit)
  <2>2. /\ got = First(Before(page))
        /\ answer.data = data /\ answer.limit = filter.limit /\ answer.page = page
    BY <2>1 DEF WalkInv
  <2>3. answer.data = data
    BY <2>2
  <2>4. /\ got \o data = upTo
        /\ Len(data) < filter.limit => got \o data = Matching(filter)
    <3>1. filter.limit > 0 /\ got = First(Before(page))
      BY <2>1, <2>2
    <3> DEFINE all == Matching(filter)
               n == Before(page)
    <3>2. /\ all \in Seq(Row) /\ n \in Nat /\ filter.limit \in Nat
          /\ data = Cut(all, filter.limit, n)
          /\ got = SubSeq(all, 1, IF n < Len(all) THEN n ELSE Len(all))
          /\ upTo = SubSeq(all, 1, IF n + filter.limit < Len(all) THEN n + filter.limit ELSE Len(all))
      <4>1. got = SubSeq(all, 1, IF n < Len(all) THEN n ELSE Len(all))
        BY <3>1 DEF First
      <4>2. upTo = SubSeq(all, 1, IF n + filter.limit < Len(all) THEN n + filter.limit ELSE Len(all))
        BY DEF First
      <4>3. all \in Seq(Row) /\ n \in Nat /\ filter.limit \in Nat
        BY Paging
      <4> QED BY <4>1, <4>2, <4>3
    <3>3. filter.limit > 0
      BY <3>1
    <3> HIDE DEF all, n, data, upTo
    <3>4. /\ got \o data = upTo
          /\ Len(data) < filter.limit => got \o data = all
      BY <3>2, <3>3, NextPage
    <3> QED BY <3>4 DEF all
  <2>5. /\ Matching(filter)' = Matching(filter)
        /\ Before(page + 1) = Before(page) + filter.limit
        /\ filter.limit \in Nat /\ filter' = filter
    BY <2>1, SameRows, Paging
  <2>6. got' = got \o data
    BY <1>5, <2>3 DEF Receive
  <2> DEFINE more == data # << >> /\ Len(data) >= filter.limit
  <2>7. \/ more /\ page' = ParsedPage(page + 1) /\ pc' = "count"
        \/ more /\ page' = page /\ pc' = "gaveup"
        \/ ~more /\ page' = page /\ pc' = "done"
    <3> HIDE DEF data
    <3> QED BY <1>5, <2>2, <2>3 DEF Receive
  <2>8. CASE more /\ page' = ParsedPage(page + 1) /\ pc' = "count"
    <3>1. page' = page + 1
      BY <2>8, Paging DEF ParsedPage, TypeOK
    <3>2. First(Before(page))' = upTo
      <4>1. Before(page)' = Before(page + 1)
        BY <2>5, <3>1 DEF Before
      <4> QED BY <2>5, <4>1 DEF First
    <3>3. got' = upTo
      <4> HIDE DEF data, upTo
      <4> QED BY <2>4, <2>6
    <3> HIDE DEF data, upTo
    <3> QED BY <2>8, <3>2, <3>3 DEF WalkInv
  <2>9. CASE more /\ page' = page /\ pc' = "gaveup"
    <3>1. First(Before(page) + filter.limit)' = upTo
      <4>1. (Before(page) + filter.limit)' = Before(page) + filter.limit
        BY <2>5, <2>9 DEF Before
      <4> QED BY <2>5, <4>1 DEF First
    <3>2. got' = upTo
      <4> HIDE DEF data, upTo
      <4> QED BY <2>4, <2>6
    <3> HIDE DEF data, upTo
    <3> QED BY <2>9, <3>1, <3>2 DEF WalkInv
  <2>10. CASE ~more /\ page' = page /\ pc' = "done"
    <3>1. Len(data) < filter.limit
      <4>1. Len(data) \in Nat /\ filter.limit \in Nat /\ filter.limit > 0
        BY <2>1, Paging, CutType
      <4>2. data = << >> => Len(data) = 0
        OBVIOUS
      <4> HIDE DEF data
      <4> QED BY <2>10, <4>1, <4>2
    <3>2. got' = Matching(filter)'
      <4> HIDE DEF data, upTo
      <4> QED BY <2>4, <2>5, <2>6, <3>1
    <3> HIDE DEF data, upTo
    <3> QED BY <2>10, <3>2 DEF WalkInv
  <2> HIDE DEF data, upTo, more
  <2> QED BY <2>7, <2>8, <2>9, <2>10
<1>6. CASE Insert \/ Update \/ Archive
  <2>1. \E newRows : Write(newRows)
    BY <1>6, Zenon DEF Insert, Update, Archive
  <2>2. writes' = writes + 1 /\ writes \in Nat
    BY <2>1, ListsAssumption DEF Write, TypeOK
  <2> QED BY <2>2
<1>7. CASE UNCHANGED vars
  <2>1. /\ First(Before(page))' = First(Before(page))
        /\ First(Before(page) + filter.limit)' = First(Before(page) + filter.limit)
        /\ Matching(filter)' = Matching(filter)
        /\ Before(page)' = Before(page)
    BY <1>7, SameRows DEF vars, First, Before
  <2>2. Cut(Matching(filter), filter.limit, Before(page))'
          = Cut(Matching(filter), filter.limit, Before(page))
    BY <1>7, <2>1 DEF vars, Cut
  <2> QED BY <1>7, <2>1, <2>2 DEF vars, WalkInv
<1> QED
  BY <1>1, <1>2, <1>3, <1>4, <1>5, <1>6, <1>7 DEF Next, Over

\* A first part of the rows is the first part of its own length.
LEMMA WalkIsAPrefix ==
  ASSUME TypeOK, WalkInv, writes = 0, filter.limit > 0
  PROVE  got = SubSeq(Matching(filter), 1, Len(got))
<1> DEFINE all == Matching(filter)
<1>1. all \in Seq(Row) /\ Len(all) \in Nat
  BY Paging
<1>2. \A n \in Nat : First(n) = SubSeq(all, 1, Len(First(n)))
  <2> TAKE n \in Nat
  <2> DEFINE to == IF n < Len(all) THEN n ELSE Len(all)
  <2>1. to \in Nat /\ to <= Len(all) /\ First(n) = SubSeq(all, 1, to)
    BY <1>1 DEF First
  <2>2. \A i \in 1..to : all[i] \in Row
    <3> HIDE DEF all, to
    <3> QED BY <1>1, <2>1
  <2>3. Len(SubSeq(all, 1, to)) = to
    <3> HIDE DEF all, to
    <3>1. Len(SubSeq(all, 1, to)) = IF 1 <= to THEN to - 1 + 1 ELSE 0
      BY <1>1, <2>1, <2>2, SubSeqProperties
    <3> QED BY <2>1, <3>1
  <2> QED BY <2>1, <2>3
<1>3. all = SubSeq(all, 1, Len(all))
  BY <1>1, SubSeqFull
<1>4. << >> = SubSeq(all, 1, Len(<< >>))
  <2>1. << >> \in Seq(Row) /\ Len(<< >>) = 0
    OBVIOUS
  <2> HIDE DEF all
  <2> QED BY <1>1, <2>1, SubSeqEmpty
<1>5. Before(page) \in Nat /\ Before(page) + filter.limit \in Nat
  BY Paging
<1>6. \/ got = << >>
      \/ got = all
      \/ \E n \in Nat : got = First(n)
  BY <1>5 DEF WalkInv, TypeOK
<1> HIDE DEF all
<1>7. got = SubSeq(all, 1, Len(got))
  BY <1>2, <1>3, <1>4, <1>6
<1> QED BY <1>7 DEF all

LEMMA WalkIsInvariant == Spec => [](TypeOK /\ WalkInv)
<1>1. Init => TypeOK /\ WalkInv
  BY TypeInit, WalkStart
<1>2. TypeOK /\ WalkInv /\ [Next]_vars => (TypeOK /\ WalkInv)'
  BY TypeStep, WalkStep
<1> QED BY <1>1, <1>2, PTL DEF Spec

\* Whatever the table, the filter and the limits, a walk that nobody
\* disturbs has a first part of the rows that match, and all of
\* them when it ends: no page boundary loses or repeats a row.
THEOREM WalksAreComplete == Spec => []WalksSeeEveryRow
<1>1. TypeOK /\ WalkInv => WalksSeeEveryRow
  BY WalkIsAPrefix DEF WalksSeeEveryRow, Undisturbed, WalkInv
<1> QED BY <1>1, WalkIsInvariant, PTL

-----------------------------------------------------------------------------
(* The bound *)

\* No answer holds more than MaxLimit rows, whatever limit
\* the client asks for and whatever is written meanwhile.
THEOREM ResponsesStayBounded == Spec => []ResponsesAreBounded
<1>1. Init => ResponsesAreBounded
  BY ListsAssumption DEF Init, NoAnswer, ResponsesAreBounded
<1>2. TypeOK /\ ResponsesAreBounded /\ [Next]_vars => ResponsesAreBounded'
  <2> SUFFICES ASSUME TypeOK, ResponsesAreBounded, [Next]_vars PROVE ResponsesAreBounded'
    OBVIOUS
  <2>1. CASE GetList
    <3>1. /\ Limit(filter) \in Nat /\ Limit(filter) <= MaxLimit
          /\ Offset(filter, page) \in Nat /\ MaxLimit \in Nat
      BY LimitsType, ListsAssumption DEF TypeOK
    <3>2. Listed(filter, page) \in Seq(Row) /\ Len(Listed(filter, page)) <= Limit(filter)
      BY <3>1, MatchingType, CutType DEF Listed, TypeOK
    <3>3. answer'.data = Listed(filter, page)
      BY <2>1 DEF GetList
    <3>4. Len(Listed(filter, page)) \in Nat
      BY <3>2
    <3>5. Len(Listed(filter, page)) <= MaxLimit
      BY <3>1, <3>2, <3>4
    <3> QED BY <3>3, <3>5 DEF ResponsesAreBounded
  <2>2. CASE answer' = answer
    BY <2>2 DEF ResponsesAreBounded
  <2> QED
    BY <2>1, <2>2 DEF Next, vars, Begin, GetCount, StatementFails, Receive,
                      Insert, Update, Archive, Write, Over
<1> QED BY <1>1, <1>2, TypeInit, TypeStep, PTL DEF Spec

-----------------------------------------------------------------------------
(* No row comes twice *)

\* Nothing was inserted or updated since the walk began; a row that was
\* written keeps the later time for good.
Quiet(table) ==
  \A i \in DOMAIN table :
    table[i].created <= 0 /\ (table[i].updated # None => table[i].updated <= 0)

IdsAreUnique(table) ==
  \A i, j \in DOMAIN table : table[i].id = table[j].id => i = j

\* A row's rank: how many of the rows that match have come up to it.
UpTo(table, f, j) == {k \in DOMAIN table : k <= j /\ Matches(table[k], f)}
Rank(table, f, j) == Cardinality(UpTo(table, f, j))

\* The rows of a list that still match have ranks of at most n.
Within(table, f, list, n) ==
  \A k \in DOMAIN list, j \in DOMAIN table :
    Matches(table[j], f) /\ table[j].id = list[k].id => Rank(table, f, j) <= n

Distinct(list) == \A i, j \in DOMAIN list : list[i].id = list[j].id => i = j

Apart(list, other) == \A i \in DOMAIN list, j \in DOMAIN other : list[i].id # other[j].id

\* What the client has lies before the page in flight: rows that are archived
\* only let others move up.
OnceInv ==
  Quiet(rows) =>
    /\ IdsAreUnique(rows)
    /\ filter.limit > 0 =>
         /\ Distinct(got)
         /\ pc \in {"count", "list"} => Within(rows, filter, got, Before(page))
         /\ pc = "answered" =>
              /\ answer.page = page
              /\ Distinct(answer.data) /\ Apart(got, answer.data)
              /\ Within(rows, filter, got, Before(page) + filter.limit)
              /\ Within(rows, filter, answer.data, Before(page) + filter.limit)

\* Where the rows of a table that a row was moved in come from.
From(i, p, j) ==
  IF j = p THEN i
  ELSE IF j < p THEN (IF j < i THEN j ELSE j + 1)
  ELSE (IF j - 1 < i THEN j - 1 ELSE j)

LEMMA FromPlaces ==
  ASSUME NEW n \in Nat, NEW i \in 1..n, NEW p \in 1..n
  PROVE  /\ \A j \in 1..n : From(i, p, j) \in 1..n
         /\ \A j, k \in 1..n : From(i, p, j) = From(i, p, k) => j = k
         /\ \A j, k \in 1..n : j # p /\ k # p /\ j <= k => From(i, p, j) <= From(i, p, k)
         /\ \A m \in 1..n : \E j \in 1..n : From(i, p, j) = m
<1>1. \A j \in 1..n : From(i, p, j) \in 1..n
  BY DEF From
<1>2. \A j, k \in 1..n : From(i, p, j) = From(i, p, k) => j = k
  BY DEF From
<1>3. \A j, k \in 1..n : j # p /\ k # p /\ j <= k => From(i, p, j) <= From(i, p, k)
  BY DEF From
<1>4. \A m \in 1..n : \E j \in 1..n : From(i, p, j) = m
  <2> TAKE m \in 1..n
  <2> DEFINE left == IF m < i THEN m ELSE m - 1
  <2>1. CASE m = i
    BY <2>1 DEF From
  <2>2. CASE m # i /\ left < p
    <3>1. left \in 1..n /\ From(i, p, left) = m
      BY <2>2 DEF From
    <3> QED BY <3>1
  <2>3. CASE m # i /\ left >= p
    <3>1. left + 1 \in 1..n /\ From(i, p, left + 1) = m
      BY <2>3 DEF From
    <3> QED BY <3>1
  <2> QED BY <2>1, <2>2, <2>3
<1> QED BY <1>1, <1>2, <1>3, <1>4

LEMMA PutPlaces ==
  ASSUME NEW s \in Seq(Row), NEW p \in 1..Len(s) + 1, NEW row \in Row
  PROVE  /\ Put(s, p, row) \in Seq(Row) /\ Len(Put(s, p, row)) = Len(s) + 1
         /\ \A j \in 1..Len(s) + 1 :
              Put(s, p, row)[j] = IF j < p THEN s[j] ELSE IF j = p THEN row ELSE s[j - 1]
<1> DEFINE front == SubSeq(s, 1, p - 1)
           back == SubSeq(s, p, Len(s))
<1>0. Len(s) \in Nat /\ p \in Nat /\ p >= 1 /\ p <= Len(s) + 1
  OBVIOUS
<1>1. /\ front \in Seq(Row) /\ Len(front) = p - 1
      /\ \A j \in 1..p - 1 : front[j] = s[j]
  <2>1. \A k \in 1..p - 1 : s[k] \in Row
    BY <1>0
  <2>2. /\ front \in Seq(Row) /\ Len(front) = IF 1 <= p - 1 THEN p - 1 - 1 + 1 ELSE 0
        /\ \A j \in 1..p - 1 - 1 + 1 : front[j] = s[1 + j - 1]
    BY <1>0, <2>1, SubSeqProperties
  <2> HIDE DEF front
  <2> QED BY <1>0, <2>2
<1>2. /\ back \in Seq(Row) /\ Len(back) = Len(s) - p + 1
      /\ \A j \in 1..Len(s) - p + 1 : back[j] = s[p + j - 1]
  <2>1. \A k \in p..Len(s) : s[k] \in Row
    BY <1>0
  <2>2. /\ back \in Seq(Row) /\ Len(back) = IF p <= Len(s) THEN Len(s) - p + 1 ELSE 0
        /\ \A j \in 1..Len(s) - p + 1 : back[j] = s[p + j - 1]
    BY <1>0, <2>1, SubSeqProperties
  <2> HIDE DEF back
  <2> QED BY <1>0, <2>2
<1>3. Put(s, p, row) = front \o <<row>> \o back
  BY DEF Put
<1> HIDE DEF front, back
<1> DEFINE head == front \o <<row>>
<1>4. /\ head \in Seq(Row) /\ Len(head) = p
      /\ \A j \in 1..p : head[j] = IF j < p THEN s[j] ELSE row
  <2>1. <<row>> \in Seq(Row) /\ Len(<<row>>) = 1 /\ <<row>>[1] = row
    OBVIOUS
  <2>2. /\ head \in Seq(Row) /\ Len(head) = Len(front) + Len(<<row>>)
        /\ \A j \in 1..Len(front) + Len(<<row>>) :
             head[j] = IF j <= Len(front) THEN front[j] ELSE <<row>>[j - Len(front)]
    BY <1>1, <2>1, ConcatProperties
  <2> HIDE DEF head
  <2> QED BY <1>0, <1>1, <2>1, <2>2
<1> HIDE DEF head
<1>5. /\ head \o back \in Seq(Row) /\ Len(head \o back) = Len(head) + Len(back)
      /\ \A j \in 1..Len(head) + Len(back) :
           (head \o back)[j] = IF j <= Len(head) THEN head[j] ELSE back[j - Len(head)]
  BY <1>2, <1>4, ConcatProperties
<1>6. Put(s, p, row) = head \o back
  BY <1>3 DEF head
<1>7. \A j \in 1..Len(s) + 1 :
        (head \o back)[j] = IF j < p THEN s[j] ELSE IF j = p THEN row ELSE s[j - 1]
  BY <1>0, <1>2, <1>4, <1>5
<1> QED BY <1>0, <1>2, <1>4, <1>5, <1>6, <1>7

LEMMA WithoutPlaces ==
  ASSUME NEW s \in Seq(Row), NEW i \in 1..Len(s)
  PROVE  /\ Without(s, i) \in Seq(Row) /\ Len(Without(s, i)) = Len(s) - 1
         /\ \A j \in 1..Len(s) - 1 : Without(s, i)[j] = IF j < i THEN s[j] ELSE s[j + 1]
<1> DEFINE front == SubSeq(s, 1, i - 1)
           back == SubSeq(s, i + 1, Len(s))
<1>0. Len(s) \in Nat /\ i \in Nat /\ i >= 1 /\ i <= Len(s)
  OBVIOUS
<1>1. /\ front \in Seq(Row) /\ Len(front) = i - 1
      /\ \A j \in 1..i - 1 : front[j] = s[j]
  <2>1. \A k \in 1..i - 1 : s[k] \in Row
    BY <1>0
  <2>2. /\ front \in Seq(Row) /\ Len(front) = IF 1 <= i - 1 THEN i - 1 - 1 + 1 ELSE 0
        /\ \A j \in 1..i - 1 - 1 + 1 : front[j] = s[1 + j - 1]
    BY <1>0, <2>1, SubSeqProperties
  <2> HIDE DEF front
  <2>3. \A j \in 1..i - 1 : front[j] = s[j]
    BY <1>0, <2>2
  <2>4. Len(front) = i - 1
    BY <1>0, <2>2
  <2> QED BY <2>2, <2>3, <2>4
<1>2. /\ back \in Seq(Row) /\ Len(back) = Len(s) - i
      /\ \A j \in 1..Len(s) - i : back[j] = s[i + j]
  <2>1. \A k \in i + 1..Len(s) : s[k] \in Row
    BY <1>0
  <2>2. /\ back \in Seq(Row)
        /\ Len(back) = IF i + 1 <= Len(s) THEN Len(s) - (i + 1) + 1 ELSE 0
        /\ \A j \in 1..Len(s) - (i + 1) + 1 : back[j] = s[i + 1 + j - 1]
    BY <1>0, <2>1, SubSeqProperties
  <2> HIDE DEF back
  <2> QED BY <1>0, <2>2
<1>3. Without(s, i) = front \o back
  BY DEF Without
<1> HIDE DEF front, back
<1>4. /\ front \o back \in Seq(Row) /\ Len(front \o back) = Len(front) + Len(back)
      /\ \A j \in 1..Len(front) + Len(back) :
           (front \o back)[j] = IF j <= Len(front) THEN front[j] ELSE back[j - Len(front)]
  BY <1>1, <1>2, ConcatProperties
<1>5. \A j \in 1..Len(s) - 1 : (front \o back)[j] = IF j < i THEN s[j] ELSE s[j + 1]
  BY <1>0, <1>1, <1>2, <1>4
<1>6. Len(front \o back) = Len(s) - 1
  BY <1>0, <1>1, <1>2, <1>4
<1> QED BY <1>3, <1>4, <1>5, <1>6

\* A row that is written moves, and the others keep their order.
LEMMA Moved ==
  ASSUME NEW s \in Seq(Row), NEW i \in DOMAIN s, NEW p \in DOMAIN s, NEW row \in Row
  PROVE  /\ Put(Without(s, i), p, row) \in Seq(Row)
         /\ DOMAIN Put(Without(s, i), p, row) = DOMAIN s
         /\ \A j \in DOMAIN s :
              Put(Without(s, i), p, row)[j] = IF j = p THEN row ELSE s[From(i, p, j)]
<1> DEFINE w == Without(s, i)
           new == Put(w, p, row)
<1>0. Len(s) \in Nat /\ i \in 1..Len(s) /\ p \in 1..Len(s) /\ DOMAIN s = 1..Len(s)
  OBVIOUS
<1>1. /\ w \in Seq(Row) /\ Len(w) = Len(s) - 1
      /\ \A j \in 1..Len(s) - 1 : w[j] = IF j < i THEN s[j] ELSE s[j + 1]
  BY <1>0, WithoutPlaces
<1> HIDE DEF w
<1>2. p \in 1..Len(w) + 1
  BY <1>0, <1>1
<1>3. /\ new \in Seq(Row) /\ Len(new) = Len(w) + 1
      /\ \A j \in 1..Len(w) + 1 :
           new[j] = IF j < p THEN w[j] ELSE IF j = p THEN row ELSE w[j - 1]
  <2>1. w \in Seq(Row)
    BY <1>1
  <2> QED BY <2>1, <1>2, PutPlaces, ZenonT(30)
<1> HIDE DEF new
<1>4. DOMAIN new = 1..Len(s)
  BY <1>0, <1>1, <1>3
<1>5. \A j \in 1..Len(s) : new[j] = IF j = p THEN row ELSE s[From(i, p, j)]
  BY <1>0, <1>1, <1>3 DEF From
<1> QED BY <1>0, <1>3, <1>4, <1>5 DEF new, w
LEMMA UpToType ==
  ASSUME NEW s \in Seq(Row), NEW f, NEW j
  PROVE  IsFiniteSet(UpTo(s, f, j)) /\ Rank(s, f, j) \in Nat
<1>1. IsFiniteSet(1..Len(s)) /\ DOMAIN s = 1..Len(s)
  BY FS_Interval
<1>2. UpTo(s, f, j) \subseteq 1..Len(s)
  BY <1>1 DEF UpTo
<1>3. IsFiniteSet(UpTo(s, f, j))
  BY <1>1, <1>2, FS_Subset
<1> QED BY <1>3, FS_CardinalityType DEF Rank

\* Archiving a row changes no id, hides no write, and makes no rank greater.
LEMMA ArchivedPlaces ==
  ASSUME NEW s \in Seq(Row), NEW i \in DOMAIN s, NEW p \in DOMAIN s, NEW t,
         t = Put(Without(s, i), p, [s[i] EXCEPT !.st = "archived"])
  PROVE  /\ Quiet(t) => Quiet(s)
         /\ IdsAreUnique(s) => IdsAreUnique(t)
         /\ \A f, list : \A n \in Nat : Within(s, f, list, n) => Within(t, f, list, n)
<1> DEFINE row == [s[i] EXCEPT !.st = "archived"]
           from(j) == From(i, p, j)
<1>1. s[i] \in Row /\ row \in Row
  <2>1. s[i] \in Row
    OBVIOUS
  <2> QED BY <2>1 DEF Row
<1>2. /\ row.st = "archived" /\ row.id = s[i].id
      /\ row.created = s[i].created /\ row.updated = s[i].updated
  BY <1>1 DEF Row
<1>3. t = Put(Without(s, i), p, row)
  OBVIOUS
<1>4. Len(s) \in Nat /\ DOMAIN s = 1..Len(s)
  OBVIOUS
<1> HIDE DEF row
<1>5. /\ t \in Seq(Row) /\ DOMAIN t = DOMAIN s
      /\ \A j \in DOMAIN s : t[j] = IF j = p THEN row ELSE s[from(j)]
  <2>1. row \in Row
    BY <1>1
  <2>2. /\ Put(Without(s, i), p, row) \in Seq(Row)
        /\ DOMAIN Put(Without(s, i), p, row) = DOMAIN s
        /\ \A j \in DOMAIN s :
             Put(Without(s, i), p, row)[j] = IF j = p THEN row ELSE s[From(i, p, j)]
    BY <2>1, Moved
  <2> QED BY <1>3, <2>2, Zenon
<1>6. /\ \A j \in DOMAIN s : from(j) \in DOMAIN s
      /\ \A j, k \in DOMAIN s : from(j) = from(k) => j = k
      /\ \A j, k \in DOMAIN s : j # p /\ k # p /\ j <= k => from(j) <= from(k)
      /\ \A m \in DOMAIN s : \E j \in DOMAIN s : from(j) = m
  <2>1. PICK n \in Nat : n = Len(s)
    BY <1>4
  <2>2. i \in 1..n /\ p \in 1..n /\ DOMAIN s = 1..n
    BY <1>4, <2>1
  <2>3. \A j \in 1..n : From(i, p, j) \in 1..n
    BY <2>2, FromPlaces
  <2>4. \A j, k \in 1..n : From(i, p, j) = From(i, p, k) => j = k
    BY <2>2, FromPlaces
  <2>5. \A j, k \in 1..n : j # p /\ k # p /\ j <= k => From(i, p, j) <= From(i, p, k)
    BY <2>2, FromPlaces
  <2>6. \A m \in 1..n : \E j \in 1..n : From(i, p, j) = m
    BY <2>2, FromPlaces
  <2> QED BY <2>2, <2>3, <2>4, <2>5, <2>6, Zenon
<1>7. from(p) = i
  BY DEF From
<1> HIDE DEF from
<1>8. \A j \in DOMAIN s : /\ t[j].id = s[from(j)].id
                          /\ t[j].created = s[from(j)].created
                          /\ t[j].updated = s[from(j)].updated
  BY <1>2, <1>5, <1>7
<1>9. Quiet(t) => Quiet(s)
  <2> SUFFICES ASSUME Quiet(t), NEW m \in DOMAIN s
               PROVE  s[m].created <= 0 /\ (s[m].updated # None => s[m].updated <= 0)
    BY DEF Quiet
  <2>1. PICK j \in DOMAIN s : from(j) = m
    BY <1>6
  <2>2. t[j].created <= 0 /\ (t[j].updated # None => t[j].updated <= 0)
    BY <1>5 DEF Quiet
  <2>3. /\ s[m].created = t[j].created /\ s[m].updated = t[j].updated
    BY <1>8, <2>1, Zenon
  <2> QED BY <2>2, <2>3
<1>10. IdsAreUnique(s) => IdsAreUnique(t)
  <2> SUFFICES ASSUME IdsAreUnique(s), NEW j \in DOMAIN s, NEW k \in DOMAIN s,
                      t[j].id = t[k].id
               PROVE  j = k
    BY <1>5, Zenon DEF IdsAreUnique
  <2>1. from(j) \in DOMAIN s /\ from(k) \in DOMAIN s /\ s[from(j)].id = s[from(k)].id
    BY <1>6, <1>8, Zenon
  <2>2. from(j) = from(k)
    BY <2>1, Zenon DEF IdsAreUnique
  <2> QED BY <1>6, <2>2, Zenon
<1>11. ASSUME NEW f, NEW j \in DOMAIN s, Matches(t[j], f)
       PROVE  /\ j # p /\ Matches(s[from(j)], f)
              /\ Rank(t, f, j) <= Rank(s, f, from(j))
  <2>1. \A k \in DOMAIN s : Matches(t[k], f) => k # p /\ t[k] = s[from(k)]
    BY <1>2, <1>5 DEF Matches
  <2>2. j # p /\ Matches(s[from(j)], f)
    BY <2>1, <1>11
  <2> DEFINE A == UpTo(t, f, j)
             B == UpTo(s, f, from(j))
             move == [k \in A |-> from(k)]
  <2>3. A \subseteq DOMAIN s /\ \A k \in A : k # p /\ k <= j /\ Matches(s[from(k)], f)
    BY <1>5, <2>1 DEF UpTo
  <2>4. \A k \in A : from(k) \in B
    BY <1>6, <2>2, <2>3 DEF UpTo
  <2>5. IsFiniteSet(B) /\ Cardinality(A) = Rank(t, f, j) /\ Cardinality(B) = Rank(s, f, from(j))
    BY UpToType DEF Rank
  <2> HIDE DEF A, B
  <2>6. move \in Injection(A, B)
    <3>1. move \in [A -> B]
      BY <2>4
    <3>2. \A a, b \in A : move[a] = move[b] => a = b
      BY <1>6, <2>3
    <3> QED BY <3>1, <3>2 DEF Injection, IsInjective
  <2>7. Cardinality(A) <= Cardinality(B)
    <3> HIDE DEF move
    <3> QED BY <2>5, <2>6, FS_Injection
  <2> QED BY <2>2, <2>5, <2>7
<1>12. ASSUME NEW f, NEW list, NEW n \in Nat, Within(s, f, list, n)
       PROVE  Within(t, f, list, n)
  <2> SUFFICES ASSUME NEW k \in DOMAIN list, NEW j \in DOMAIN t,
                      Matches(t[j], f), t[j].id = list[k].id
               PROVE  Rank(t, f, j) <= n
    BY DEF Within
  <2>1. j \in DOMAIN s
    BY <1>5
  <2>2. /\ Matches(s[from(j)], f) /\ Rank(t, f, j) <= Rank(s, f, from(j))
        /\ from(j) \in DOMAIN s /\ s[from(j)].id = list[k].id
    BY <1>6, <1>8, <1>11, <2>1
  <2>3. Rank(s, f, from(j)) <= n
    BY <1>12, <2>2 DEF Within
  <2>4. Rank(s, f, from(j)) \in Nat
    BY UpToType
  <2>5. Rank(t, f, j) \in Nat
    BY <1>5, UpToType
  <2> QED BY <2>2, <2>3, <2>4, <2>5
<1> QED BY <1>9, <1>10, <1>12

\* What is listed at the k-th place of a page is the row of the next rank.
LEMMA MatchingPlaces ==
  ASSUME rows \in Seq(Row), NEW f, NEW m \in 1..Len(Matching(f))
  PROVE  \E j \in DOMAIN rows : /\ Matches(rows[j], f) /\ rows[j] = Matching(f)[m]
                                /\ Rank(rows, f, j) = m
<1> DEFINE places == {i \in DOMAIN rows : Matches(rows[i], f)}
           upTo(i) == {j \in places : j <= i}
<1>1. Len(rows) \in Nat /\ DOMAIN rows = 1..Len(rows) /\ places \in SUBSET (1..Len(rows))
  OBVIOUS
<1>2. \A i : upTo(i) = UpTo(rows, f, i)
  BY DEF UpTo
<1>3. Matching(f) = InOrder(places)
  BY DEF Matching
<1>4. \A i \in places : i \in DOMAIN rows /\ Matches(rows[i], f)
  OBVIOUS
<1> HIDE DEF places
<1>5. Len(Matching(f)) = Cardinality(places) /\ m \in 1..Cardinality(places)
  BY <1>1, <1>3, InOrderType
<1>6. \E i \in places : Cardinality(upTo(i)) = m
  BY <1>1, <1>5, Ranks
<1> DEFINE place == CHOOSE i \in places : Cardinality(upTo(i)) = m
<1>7. place \in places /\ Cardinality(upTo(place)) = m
  BY <1>6
<1>8. InOrder(places)[m] = rows[place]
  BY <1>5 DEF InOrder
<1> HIDE DEF place, upTo
<1> QED BY <1>2, <1>3, <1>4, <1>7, <1>8 DEF Rank

LEMMA CutPlaces ==
  ASSUME NEW s \in Seq(Row), NEW limit \in Nat, NEW offset \in Nat,
         NEW k \in DOMAIN Cut(s, limit, offset)
  PROVE  /\ k \in Nat /\ 1 <= k /\ k <= limit
         /\ offset + k \in 1..Len(s)
         /\ Cut(s, limit, offset)[k] = s[offset + k]
<1> DEFINE to == IF offset + limit < Len(s) THEN offset + limit ELSE Len(s)
           cut == SubSeq(s, offset + 1, to)
<1>1. Len(s) \in Nat /\ to \in Nat /\ to <= Len(s) /\ to <= offset + limit
  OBVIOUS
<1>2. \A i \in offset + 1..to : s[i] \in Row
  BY <1>1
<1>3. k \in DOMAIN cut /\ Cut(s, limit, offset) = cut
  BY DEF Cut
<1> HIDE DEF to
<1>4. /\ cut \in Seq(Row)
      /\ Len(cut) = IF offset + 1 <= to THEN to - (offset + 1) + 1 ELSE 0
      /\ \A i \in 1..to - (offset + 1) + 1 : cut[i] = s[offset + 1 + i - 1]
  BY <1>1, <1>2, SubSeqProperties
<1> HIDE DEF cut
<1>5. k \in 1..to - (offset + 1) + 1
  BY <1>1, <1>3, <1>4
<1>6. cut[k] = s[offset + k]
  BY <1>1, <1>4, <1>5
<1> QED BY <1>1, <1>3, <1>5, <1>6

LEMMA ListedPlaces ==
  ASSUME TypeOK, filter.limit > 0, NEW k \in DOMAIN Listed(filter, page)
  PROVE  /\ k \in Nat /\ 1 <= k /\ k <= filter.limit
         /\ \E j \in DOMAIN rows : /\ Matches(rows[j], filter)
                                   /\ rows[j] = Listed(filter, page)[k]
                                   /\ Rank(rows, filter, j) = Before(page) + k
<1>1. /\ Matching(filter) \in Seq(Row) /\ Before(page) \in Nat /\ filter.limit \in Nat
  BY Paging
<1>2. Listed(filter, page) = Cut(Matching(filter), filter.limit, Before(page))
  BY LimitsType DEF Listed, Limit, Before, TypeOK
<1>3. /\ k \in Nat /\ 1 <= k /\ k <= filter.limit
      /\ Before(page) + k \in 1..Len(Matching(filter))
      /\ Listed(filter, page)[k] = Matching(filter)[Before(page) + k]
  BY <1>1, <1>2, CutPlaces
<1>4. PICK m \in 1..Len(Matching(filter)) : m = Before(page) + k
  BY <1>3
<1>5. \E j \in DOMAIN rows : /\ Matches(rows[j], filter) /\ rows[j] = Matching(filter)[m]
                             /\ Rank(rows, filter, j) = m
  BY MatchingPlaces DEF TypeOK
<1> QED BY <1>3, <1>4, <1>5

\* A page of rows whose ids are unique has each once, and none of those that
\* lie before it.
LEMMA PagesAreNew ==
  ASSUME TypeOK, filter.limit > 0, IdsAreUnique(rows), Within(rows, filter, got, Before(page))
  PROVE  /\ Distinct(Listed(filter, page)) /\ Apart(got, Listed(filter, page))
         /\ Within(rows, filter, got, Before(page) + filter.limit)
         /\ Within(rows, filter, Listed(filter, page), Before(page) + filter.limit)
<1> DEFINE data == Listed(filter, page)
           limit == filter.limit
           n == Before(page)
<1>1. limit \in Nat /\ n \in Nat
  BY Paging
<1>2. \A k \in DOMAIN data :
        /\ k \in Nat /\ 1 <= k /\ k <= limit
        /\ \E j \in DOMAIN rows : /\ Matches(rows[j], filter) /\ rows[j] = data[k]
                                  /\ Rank(rows, filter, j) = n + k
  BY ListedPlaces
<1>3. \A j : Rank(rows, filter, j) \in Nat
  BY UpToType DEF TypeOK
<1>4. Within(rows, filter, got, n)
  OBVIOUS
<1> HIDE DEF data, limit, n
<1>5. Distinct(data)
  <2> SUFFICES ASSUME NEW k \in DOMAIN data, NEW l \in DOMAIN data, data[k].id = data[l].id
               PROVE  k = l
    BY DEF Distinct
  <2>1. PICK j \in DOMAIN rows : rows[j] = data[k] /\ Rank(rows, filter, j) = n + k
    BY <1>2
  <2>2. PICK i \in DOMAIN rows : rows[i] = data[l] /\ Rank(rows, filter, i) = n + l
    BY <1>2
  <2>3. i = j
    BY <2>1, <2>2 DEF IdsAreUnique
  <2> QED BY <1>1, <1>2, <2>1, <2>2, <2>3
<1>6. Apart(got, data)
  <2> SUFFICES ASSUME NEW i \in DOMAIN got, NEW k \in DOMAIN data, got[i].id = data[k].id
               PROVE  FALSE
    BY DEF Apart
  <2>1. PICK j \in DOMAIN rows : /\ Matches(rows[j], filter) /\ rows[j] = data[k]
                                 /\ Rank(rows, filter, j) = n + k
    BY <1>2
  <2>2. Rank(rows, filter, j) <= n
    BY <1>4, <2>1 DEF Within
  <2> QED BY <1>1, <1>2, <2>1, <2>2
<1>7. Within(rows, filter, got, n + limit)
  <2> SUFFICES ASSUME NEW k \in DOMAIN got, NEW j \in DOMAIN rows,
                      Matches(rows[j], filter), rows[j].id = got[k].id
               PROVE  Rank(rows, filter, j) <= n + limit
    BY DEF Within
  <2>1. Rank(rows, filter, j) <= n
    BY <1>4 DEF Within
  <2> QED BY <1>1, <1>3, <2>1
<1>8. Within(rows, filter, data, n + limit)
  <2> SUFFICES ASSUME NEW k \in DOMAIN data, NEW j \in DOMAIN rows,
                      Matches(rows[j], filter), rows[j].id = data[k].id
               PROVE  Rank(rows, filter, j) <= n + limit
    BY DEF Within
  <2>1. PICK i \in DOMAIN rows : rows[i] = data[k] /\ Rank(rows, filter, i) = n + k
    BY <1>2
  <2>2. i = j
    BY <2>1 DEF IdsAreUnique
  <2> QED BY <1>1, <1>2, <2>1, <2>2
<1> QED BY <1>5, <1>6, <1>7, <1>8 DEF data, limit, n

\* Taking a page makes one list of two that are apart.
LEMMA PageTaken ==
  ASSUME NEW list \in Seq(Row), NEW data \in Seq(Row), NEW s, NEW f, NEW n,
         Distinct(list), Distinct(data), Apart(list, data),
         Within(s, f, list, n), Within(s, f, data, n)
  PROVE  Distinct(list \o data) /\ Within(s, f, list \o data, n)
<1> DEFINE both == list \o data
<1>1. Len(list) \in Nat /\ Len(data) \in Nat
  OBVIOUS
<1>2. \A i \in DOMAIN both :
        /\ i \in Nat
        /\ i <= Len(list) => i \in DOMAIN list /\ both[i] = list[i]
        /\ i > Len(list) => i - Len(list) \in DOMAIN data /\ both[i] = data[i - Len(list)]
  <2>1. /\ both \in Seq(Row) /\ Len(both) = Len(list) + Len(data)
        /\ \A i \in 1..Len(list) + Len(data) :
             both[i] = IF i <= Len(list) THEN list[i] ELSE data[i - Len(list)]
    BY ConcatProperties
  <2> HIDE DEF both
  <2> QED BY <1>1, <2>1
<1> HIDE DEF both
<1>3. Distinct(both)
  <2> SUFFICES ASSUME NEW i \in DOMAIN both, NEW j \in DOMAIN both, both[i].id = both[j].id
               PROVE  i = j
    BY DEF Distinct
  <2>1. CASE i <= Len(list) /\ j <= Len(list)
    BY <1>2, <2>1 DEF Distinct
  <2>2. CASE i > Len(list) /\ j > Len(list)
    <3>1. i - Len(list) = j - Len(list)
      BY <1>2, <2>2 DEF Distinct
    <3> QED BY <1>1, <1>2, <3>1
  <2>3. CASE i <= Len(list) /\ j > Len(list)
    BY <1>2, <2>3 DEF Apart
  <2>4. CASE i > Len(list) /\ j <= Len(list)
    BY <1>2, <2>4 DEF Apart
  <2> QED BY <1>1, <1>2, <2>1, <2>2, <2>3, <2>4
<1>4. Within(s, f, both, n)
  <2> SUFFICES ASSUME NEW k \in DOMAIN both, NEW j \in DOMAIN s,
                      Matches(s[j], f), s[j].id = both[k].id
               PROVE  Rank(s, f, j) <= n
    BY DEF Within
  <2>1. CASE k <= Len(list)
    BY <1>2, <2>1 DEF Within
  <2>2. CASE k > Len(list)
    BY <1>2, <2>2 DEF Within
  <2> QED BY <1>1, <1>2, <2>1, <2>2
<1> QED BY <1>3, <1>4 DEF both

LEMMA OnceStart == Init => OnceInv
<1> SUFFICES ASSUME Init PROVE OnceInv
  OBVIOUS
<1>1. IdsAreUnique(rows)
  BY ListsAssumption DEF Init, IdsAreUnique
<1>2. got = << >> /\ pc = "idle"
  BY DEF Init
<1> QED BY <1>1, <1>2 DEF OnceInv, Distinct

LEMMA OnceStep ==
  ASSUME TypeOK, WalkInv, OnceInv, [Next]_vars
  PROVE  OnceInv'
<1>1. CASE Begin
  <2>1. page' = 1 /\ pc' = "count" /\ UNCHANGED <<rows, got>> /\ got = << >>
    BY <1>1, ParsedType DEF Begin, WalkInv
  <2>2. Distinct(got') /\ \A n : Within(rows', filter', got', n)
    BY <2>1 DEF Distinct, Within
  <2> QED BY <2>1, <2>2 DEF OnceInv
<1>2. CASE GetCount \/ StatementFails
  <2>1. UNCHANGED <<rows, page, filter, answer, got>> /\ pc \in {"count", "list"}
        /\ pc' \in {"list", "noRow", "failed"}
    BY <1>2 DEF GetCount, StatementFails
  <2> QED BY <2>1 DEF OnceInv, Before
<1>3. CASE GetList
  <2>1. /\ UNCHANGED <<rows, page, filter, got>> /\ pc = "list" /\ pc' = "answered"
        /\ answer'.page = page /\ answer'.data = Listed(filter, page)
    BY <1>3 DEF GetList
  <2> SUFFICES ASSUME Quiet(rows), filter.limit > 0
               PROVE  OnceInv'
    BY <2>1 DEF OnceInv
  <2>2. /\ IdsAreUnique(rows) /\ Distinct(got) /\ Within(rows, filter, got, Before(page))
    BY <2>1 DEF OnceInv
  <2>3. /\ Distinct(Listed(filter, page)) /\ Apart(got, Listed(filter, page))
        /\ Within(rows, filter, got, Before(page) + filter.limit)
        /\ Within(rows, filter, Listed(filter, page), Before(page) + filter.limit)
    BY <2>2, PagesAreNew
  <2>4. Before(page)' = Before(page)
    BY <2>1 DEF Before
  <2> QED BY <2>1, <2>2, <2>3, <2>4 DEF OnceInv
<1>4. CASE Receive
  <2>1. /\ UNCHANGED <<rows, filter, answer>> /\ pc = "answered" /\ got' = got \o answer.data
        /\ \/ page' = ParsedPage(answer.page + 1) /\ pc' = "count"
           \/ page' = page /\ pc' \in {"gaveup", "done"}
    BY <1>4 DEF Receive
  <2> SUFFICES ASSUME Quiet(rows), filter.limit > 0
               PROVE  OnceInv'
    BY <2>1 DEF OnceInv
  <2>2. /\ IdsAreUnique(rows) /\ Distinct(got)
        /\ answer.page = page
        /\ Distinct(answer.data) /\ Apart(got, answer.data)
        /\ Within(rows, filter, got, Before(page) + filter.limit)
        /\ Within(rows, filter, answer.data, Before(page) + filter.limit)
    BY <2>1 DEF OnceInv
  <2>3. got \in Seq(Row) /\ answer.data \in Seq(Row)
    BY DEF TypeOK
  <2>4. /\ Distinct(got \o answer.data)
        /\ Within(rows, filter, got \o answer.data, Before(page) + filter.limit)
    BY <2>2, <2>3, PageTaken
  <2>5. pc' = "count" => Before(page)' = Before(page) + filter.limit
    <3> SUFFICES ASSUME pc' = "count" PROVE Before(page)' = Before(page) + filter.limit
      OBVIOUS
    <3>1. page' = page + 1
      BY <2>1, <2>2, Paging DEF ParsedPage, TypeOK
    <3>2. Before(page)' = Before(page + 1)
      BY <2>1, <3>1 DEF Before
    <3> QED BY <3>2, Paging
  <2> QED BY <2>1, <2>2, <2>4, <2>5 DEF OnceInv
<1>5. CASE Insert
  <2>1. PICK p \in 1..Len(rows) + 1 :
          Write(Put(rows, p, [id |-> Len(rows) + 1, st |-> "active",
                              created |-> writes + 1, updated |-> None]))
    BY <1>5 DEF Insert
  <2> DEFINE row == [id |-> Len(rows) + 1, st |-> "active",
                     created |-> writes + 1, updated |-> None]
  <2>2. row \in Row /\ row.created = writes + 1 /\ writes \in Nat
    BY ListsAssumption DEF TypeOK, Row, Time
  <2>3. rows' = Put(rows, p, row)
    BY <2>1 DEF Write
  <2> HIDE DEF row
  <2>4. p \in DOMAIN rows' /\ rows'[p] = row
    <3>1. rows \in Seq(Row) /\ row \in Row /\ Len(rows) \in Nat /\ p \in 1..Len(rows) + 1
      BY <2>2 DEF TypeOK
    <3>2. /\ Put(rows, p, row) \in Seq(Row) /\ Len(Put(rows, p, row)) = Len(rows) + 1
          /\ Put(rows, p, row)[p] = row
      BY <3>1, PutPlaces
    <3>3. p \in DOMAIN Put(rows, p, row)
      BY <3>1, <3>2
    <3> QED BY <2>3, <3>2, <3>3
  <2> QED BY <2>2, <2>4 DEF OnceInv, Quiet
<1>6. CASE Update
  <2>1. PICK i \in DOMAIN rows, p \in DOMAIN rows :
          Write(Put(Without(rows, i), p, [rows[i] EXCEPT !.updated = writes + 1]))
    BY <1>6 DEF Update
  <2> DEFINE row == [rows[i] EXCEPT !.updated = writes + 1]
  <2>2. row \in Row /\ row.updated = writes + 1 /\ writes \in Nat /\ row.updated # None
    <3>1. rows[i] \in Row /\ writes \in Nat /\ writes + 1 \in Time /\ None \notin Int
      BY ListsAssumption DEF TypeOK, Time
    <3> QED BY <3>1 DEF Row, Time
  <2>3. rows' = Put(Without(rows, i), p, row)
    BY <2>1 DEF Write
  <2> HIDE DEF row
  <2>4. p \in DOMAIN rows' /\ rows'[p] = row
    BY <2>2, <2>3, Moved DEF TypeOK
  <2> QED BY <2>2, <2>4 DEF OnceInv, Quiet
<1>7. CASE Archive
  <2>1. PICK i \in DOMAIN rows, p \in DOMAIN rows :
          Write(Put(Without(rows, i), p, [rows[i] EXCEPT !.st = "archived"]))
    BY <1>7 DEF Archive
  <2>2. /\ rows' = Put(Without(rows, i), p, [rows[i] EXCEPT !.st = "archived"])
        /\ UNCHANGED <<pc, page, filter, answer, got>>
    BY <2>1 DEF Write
  <2>3. /\ Quiet(rows') => Quiet(rows)
        /\ IdsAreUnique(rows) => IdsAreUnique(rows')
        /\ \A f, list : \A n \in Nat : Within(rows, f, list, n) => Within(rows', f, list, n)
    <3>1. rows \in Seq(Row)
      BY DEF TypeOK
    <3>2. PICK t : t = rows'
      OBVIOUS
    <3>3. t = Put(Without(rows, i), p, [rows[i] EXCEPT !.st = "archived"])
      BY <2>2, <3>2
    <3>4. /\ Quiet(t) => Quiet(rows)
          /\ IdsAreUnique(rows) => IdsAreUnique(t)
          /\ \A f, list : \A n \in Nat : Within(rows, f, list, n) => Within(t, f, list, n)
      BY <3>1, <3>3, ArchivedPlaces
    <3> QED BY <3>2, <3>4
  <2>4. Before(page) \in Nat /\ Before(page) + filter.limit \in Nat /\ Before(page)' = Before(page)
    BY <2>2, Paging DEF Before
  <2> QED BY <2>2, <2>3, <2>4 DEF OnceInv
<1>8. CASE UNCHANGED vars
  BY <1>8 DEF vars, OnceInv, Before
<1> QED BY <1>1, <1>2, <1>3, <1>4, <1>5, <1>6, <1>7, <1>8 DEF Next, Over

\* Whatever is archived during a walk, and wherever the rows that are archived
\* move, no row comes to the client on two of its pages: applying LIMIT and
\* OFFSET anew to the rows that are left may skip one, and never repeats one.
THEOREM NothingComesTwice == Spec => []NoRowTwice
<1>1. Init => OnceInv
  BY OnceStart
<1>2. TypeOK /\ WalkInv /\ OnceInv /\ [Next]_vars => OnceInv'
  BY OnceStep
<1>3. OnceInv => NoRowTwice
  BY DEF OnceInv, NoRowTwice, Quiet, Distinct
<1> QED BY <1>1, <1>2, <1>3, WalkIsInvariant, PTL DEF Spec

=============================================================================

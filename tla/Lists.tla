------------------------------- MODULE Lists -------------------------------
(***************************************************************************)
(* The list routes of products, roots, discounts and webhooks: a client    *)
(* walks the pages of one list while other requests write to its table.    *)
(* Each page is a request of its own, and its handler runs two             *)
(* statements, one that counts and one that selects; neither has an ORDER  *)
(* BY.                                                                     *)
(*                                                                         *)
(* Lists change nothing, so that one walk is enough, and the death of the  *)
(* server is to the client what a failing statement is.                    *)
(***************************************************************************)
EXTENDS Integers, Sequences, FiniteSets

CONSTANTS
  DefaultLimit, MaxLimit,
  SeedRows,  \* the table when the walk begins, a sequence
  Queries,   \* what the client may ask for
  Faults,    \* whether a statement may fail for reasons of its own
  MaxWrites, \* bound: how many rows are written during the walk
  MaxPages,  \* bound: the page at which the client gives up
  None, Garbage, NaN

\* The walk begins at 0; every write takes place at a time of its own.
Time == Int

\* updated: updated_on, None for NULL.
Row == [id : Nat, st : {"active", "archived"},
        created : Time, updated : Time \cup {None}]

\* The parameters in the URL.  A limit is a number of halves; a time that does
\* not parse is one that is left out.
Query == [page : Nat \cup {None, Garbage}, limit : Int \cup {None, Garbage, NaN},
          createdAfter : Time \cup {None}, createdBefore : Time \cup {None},
          updatedAfter : Time \cup {None}, updatedBefore : Time \cup {None}]

\* models.QueryFilter, but for its page, which changes from request to request.
QueryFilter == [limit : Nat,
                createdAfter : Time \cup {None}, createdBefore : Time \cup {None},
                updatedAfter : Time \cup {None}, updatedBefore : Time \cup {None}]

\* Walks begin at the first page, however they ask for it, and ids are primary
\* keys.
ASSUME ListsAssumption ==
  /\ DefaultLimit \in Nat \ {0} /\ MaxLimit \in Nat /\ DefaultLimit <= MaxLimit
  /\ MaxWrites \in Nat /\ MaxPages \in Nat /\ Faults \in BOOLEAN
  /\ SeedRows \in Seq(Row)
  /\ \A i, j \in DOMAIN SeedRows : SeedRows[i].id = SeedRows[j].id => i = j
  /\ Queries \subseteq Query
  /\ \A q \in Queries : q.page \in {None, Garbage, 0, 1}
  /\ {None, Garbage, NaN} \cap Int = {}

VARIABLES
  rows,    \* the table, in the order a scan meets its rows
  writes,  \* how many rows have been written since: the time
  pc,
  page, filter, count,  \* of the request in flight
  answer,
  got      \* the rows the client has

vars == <<rows, writes, pc, page, filter, count, answer, got>>

NoAnswer == [count |-> 0, limit |-> 0, page |-> 0, data |-> << >>]

TypeOK ==
  /\ rows \in Seq(Row)
  /\ writes \in 0..MaxWrites
  /\ pc \in {"idle", "count", "list", "answered", "done", "gaveup", "noRow", "failed"}
  /\ page \in Nat \ {0}
  /\ filter \in QueryFilter /\ filter.limit <= MaxLimit
  /\ count \in Nat
  /\ answer \in [count : Nat, limit : 0..MaxLimit, page : Nat, data : Seq(Row)]
  /\ got \in Seq(Row)

-----------------------------------------------------------------------------

ParsedPage(p) == IF p \in Nat \ {0} THEN p ELSE 1

\* uint8(math.Max(math.Min(i, MaxLimit), 0)): NaN passes both and becomes 0.
ParsedLimit_Unclamped(l) ==  \* mutant: without math.Min
  CASE l \in {None, Garbage} -> DefaultLimit
    [] l = NaN               -> 0
    [] OTHER                 -> IF l < 0 THEN 0 ELSE l \div 2
ParsedLimit(l) ==
  CASE l \in {None, Garbage} -> DefaultLimit
    [] l = NaN               -> 0
    [] OTHER                 -> IF l < 0 THEN 0 ELSE IF l > 2 * MaxLimit THEN MaxLimit ELSE l \div 2

parseRawFilterParams(q) ==
  [limit |-> ParsedLimit(q.limit),
   createdAfter |-> q.createdAfter, createdBefore |-> q.createdBefore,
   updatedAfter |-> q.updatedAfter, updatedBefore |-> q.updatedBefore]

\* The WHERE clause.  A comparison with NULL is not true.
Matches(row, f) ==
  /\ f.createdAfter # None => row.created > f.createdAfter
  /\ f.createdBefore # None => row.created < f.createdBefore
  /\ f.updatedAfter # None => row.updated # None /\ row.updated > f.updatedAfter
  /\ f.updatedBefore # None => row.updated # None /\ row.updated < f.updatedBefore
  /\ row.st = "active"

\* The rows at some places of the table, in its order.
InOrder(places) ==
  [k \in 1..Cardinality(places) |->
     rows[CHOOSE i \in places : Cardinality({j \in places : j <= i}) = k]]

Matching(f) == InOrder({i \in DOMAIN rows : Matches(rows[i], f)})

\* LIMIT and OFFSET.
Limit(f) == IF f.limit > 0 THEN f.limit ELSE DefaultLimit

Offset_WholePages(f, p) == IF p > 1 THEN p * f.limit ELSE 0  \* mutant: without - 1
Offset(f, p) == IF p > 1 THEN (p - 1) * f.limit ELSE 0

Cut(result, limit, offset) ==
  SubSeq(result, offset + 1,
         IF offset + limit < Len(result) THEN offset + limit ELSE Len(result))

\* SELECT count(id) has one row of its own, which the LIMIT is applied to.
Counted_Offset(f, p) ==  \* mutant: with the offset
  Cut(<<Len(Matching(f))>>, Limit(f), Offset(f, p))
Counted(f, p) == Cut(<<Len(Matching(f))>>, Limit(f), 0)

Listed_NoOffset(f, p) == Cut(Matching(f), Limit(f), 0)  \* mutant: without the offset
Listed(f, p) == Cut(Matching(f), Limit(f), Offset(f, p))

-----------------------------------------------------------------------------
(* The walk *)

Init ==
  /\ rows = SeedRows
  /\ writes = 0
  /\ pc = "idle"
  /\ page = 1 /\ count = 0
  /\ filter = [limit |-> DefaultLimit, createdAfter |-> None, createdBefore |-> None,
               updatedAfter |-> None, updatedBefore |-> None]
  /\ answer = NoAnswer
  /\ got = << >>

\* The first request of the walk.
Begin ==
  /\ pc = "idle"
  /\ \E q \in Queries :
       /\ page' = ParsedPage(q.page)
       /\ filter' = parseRawFilterParams(q)
  /\ pc' = "count"
  /\ UNCHANGED <<rows, writes, count, answer, got>>

\* GetProductCount and its like: a count without a row is an error like any
\* other, and its label tells it apart for the properties.
GetCount ==
  /\ pc = "count"
  /\ LET result == Counted(filter, page)
     IN \/ /\ result # << >>
           /\ count' = result[1]
           /\ pc' = "list"
        \/ /\ result = << >>
           /\ pc' = "noRow"
           /\ UNCHANGED count
  /\ UNCHANGED <<rows, writes, page, filter, answer, got>>

\* GetProductList and its like, and the answer.
GetList ==
  /\ pc = "list"
  /\ answer' = [count |-> count, limit |-> filter.limit, page |-> page,
                data |-> Listed(filter, page)]
  /\ pc' = "answered"
  /\ UNCHANGED <<rows, writes, page, filter, count, got>>

\* A statement fails, and the request is answered with 500.
StatementFails ==
  /\ Faults
  /\ pc \in {"count", "list"}
  /\ pc' = "failed"
  /\ UNCHANGED <<rows, writes, page, filter, count, answer, got>>

\* The client takes the page and asks for the next one, unless it was short.
Receive ==
  /\ pc = "answered"
  /\ LET data == answer.data
         more == data # << >> /\ Len(data) >= answer.limit
     IN /\ got' = got \o data
        /\ \/ /\ more /\ page < MaxPages
              /\ page' = ParsedPage(answer.page + 1)
              /\ pc' = "count"
           \/ /\ more /\ page >= MaxPages
              /\ pc' = "gaveup"
              /\ UNCHANGED page
           \/ /\ ~more
              /\ pc' = "done"
              /\ UNCHANGED page
  /\ UNCHANGED <<rows, writes, filter, count, answer>>

-----------------------------------------------------------------------------
(* Other requests.  Nothing orders the rows of a table: a new version of a *)
(* row goes wherever there is room.                                        *)

Without(s, i) == SubSeq(s, 1, i - 1) \o SubSeq(s, i + 1, Len(s))
Put(s, i, row) == SubSeq(s, 1, i - 1) \o <<row>> \o SubSeq(s, i, Len(s))

Write(newRows) ==
  /\ pc # "idle" /\ writes < MaxWrites
  /\ rows' = newRows
  /\ writes' = writes + 1
  /\ UNCHANGED <<pc, page, filter, count, answer, got>>

Insert ==
  \E p \in 1..Len(rows) + 1 :
    Write(Put(rows, p, [id |-> Len(rows) + 1, st |-> "active",
                        created |-> writes + 1, updated |-> None]))

\* An UPDATE of any row, archived ones included.
Update ==
  \E i \in DOMAIN rows, p \in DOMAIN rows :
    Write(Put(Without(rows, i), p, [rows[i] EXCEPT !.updated = writes + 1]))

Archive ==
  \E i \in DOMAIN rows, p \in DOMAIN rows :
    Write(Put(Without(rows, i), p, [rows[i] EXCEPT !.st = "archived"]))

Over == pc \in {"done", "gaveup", "noRow", "failed"} /\ UNCHANGED vars

Next ==
  \/ Begin \/ GetCount \/ GetList \/ StatementFails \/ Receive
  \/ Insert \/ Update \/ Archive
  \/ Over

Spec == Init /\ [][Next]_vars

\* The server answers what it is asked, and the client goes on asking.
FairSpec == Spec /\ WF_vars(GetCount) /\ WF_vars(GetList) /\ WF_vars(Receive)

-----------------------------------------------------------------------------
(* Properties *)

Undisturbed == writes = 0

\* A walk that nobody disturbs has every row that matches its filter, each
\* once and in the order of the table, and on the way there a first part of
\* them.  (The offset and the limit of applyQueryFilterToQueryBuilder, for
\* limits that do not come out as 0.)
WalksSeeEveryRow ==
  Undisturbed /\ filter.limit > 0 =>
    /\ got = SubSeq(Matching(filter), 1, Len(got))
    /\ pc = "done" => got = Matching(filter)

\* What the API's description says of a list: count is "The number of products
\* in the current response" (swagger/configs/v1.yml:834).  (GetProductCount
\* counts every row that matches, and its LIMIT cuts only its one result.)
CountIsOfTheResponse ==
  Undisturbed /\ pc = "answered" => answer.count = Len(answer.data)

\* Rows that are archived during a walk may make it skip others, but nothing
\* comes twice, as long as no row is inserted or updated.
NoRowTwice ==
  /\ filter.limit > 0
  /\ \A i \in DOMAIN rows :
       rows[i].created <= 0 /\ (rows[i].updated # None => rows[i].updated <= 0)
  => \A i, j \in DOMAIN got : got[i].id = got[j].id => i = j

\* MaxLimit "is the maximum number of objects Dairycart will return in a
\* response" (helpers.go:23).
ResponsesAreBounded == Len(answer.data) <= MaxLimit

\* A walk comes to its end with every page answered, whatever is written
\* meanwhile, unless the database fails.  (The count must not be paged: past
\* the first page it would have no row, and the request would fail.)
WalksEnd == pc = "count" /\ filter.limit > 0 ~> pc \in {"done", "failed"}

=============================================================================

------------------------------ MODULE Discounts ------------------------------
(***************************************************************************)
(* Discounts, from the Go client (client/v1) through the handlers          *)
(* (api/v1/discounts.go) to the table                                      *)
(* (storage/v1/database/postgres/discounts.go), on the servers of Startup: *)
(* a call finds a server listening, or none, and a server that dies takes  *)
(* its handlers with it.                                                   *)
(*                                                                         *)
(* The handlers use no transaction: each statement commits by itself.      *)
(* When the connection breaks after a statement took effect and before its *)
(* answer came, lib/pq reports driver.ErrBadConn and database/sql sends    *)
(* the statement again, on another connection.                             *)
(***************************************************************************)
EXTENDS Startup

CONSTANTS
  MaxCalls,       \* bound on the calls
  DiscountInputs, \* the requests they may be made with
  MaxDiscounts,   \* bound on the rows
  Codes,          \* discount codes; NoCode is ""
  NoCode,
  Examples        \* how many discounts the example data has

DiscountId == 1..MaxDiscounts
Call == 1..MaxCalls

\* "named" says that the body has fields which no condition looks at; the id
\* of a body is in no input of the Go client.
DiscountInput == [op : {"create", "update", "delete", "get", "list"},
                  id : DiscountId, bodyId : DiscountId \cup {None}, named : BOOLEAN,
                  code : Codes \cup {NoCode}, requiresCode : BOOLEAN, startsOn : {"given", "zero"}]

Status == {"200", "201", "400", "404", "500"}

ASSUME DiscountsAssumption ==
  /\ MaxCalls \in Nat /\ MaxDiscounts \in Nat /\ Examples \in 0..MaxDiscounts
  /\ NoCode \notin Codes
  /\ None \notin DiscountId /\ None \notin Status
  /\ DiscountInputs \subseteq DiscountInput
  /\ \A b \in Budgets : b.calls \in 0..MaxCalls

VARIABLES
  discounts, \* the table
  calls      \* the calls, their handlers and what the client made of them

discountVars == <<discounts, calls>>
deploymentVars == <<startupVars, discountVars>>

Discount == [state : {"absent", "active", "archived"}, code : Codes \cup {NoCode},
             requiresCode : BOOLEAN, startsOn : {"given", "zero"}]

\* A handler's next statement; "gone" with its server.
AtStatement == {"find", "count", "select", "insert", "update", "archive"}

\* How many times a call's write took effect, and whether it was sent twice,
\* are history.
CallState == [at : {"idle", "answered", "gone"} \cup AtStatement,
              server : Server \cup {None}, input : DiscountInputs \cup {None}, found : Discount,
              effects : Nat, sentAgain : BOOLEAN,
              answer : Status \cup {None},
              client : {"idle", "waiting", "object", "noRows", "typedNil", "message", "silent", "timeout"}]

DiscountsTypeOK ==
  /\ StartupTypeOK
  /\ discounts \in [DiscountId -> Discount]
  /\ calls \in [Call -> CallState]

Absent == [state |-> "absent", code |-> NoCode, requiresCode |-> FALSE, startsOn |-> "zero"]

DiscountsInit ==
  /\ StartupInit
  /\ discounts = [d \in DiscountId |-> Absent]
  /\ calls = [c \in Call |->
                [at |-> "idle", server |-> None, input |-> None, found |-> Absent, effects |-> 0,
                 sentAgain |-> FALSE, answer |-> None, client |-> "idle"]]

-----------------------------------------------------------------------------
(* The example data *)

ExampleDiscount == [Absent EXCEPT !.state = "active", !.startsOn = "given"]

\* The id a bigserial hands out next.
NextId(d) == \A e \in DiscountId : discounts[e].state = "absent" <=> d <= e

\* The discounts are loaded with the rest of the last script, whatever other
\* servers have stored before.
LoadDiscounts ==
  IF Last \in ran' \ ran
  THEN \E d \in DiscountId :
         /\ NextId(d) /\ d + Examples - 1 <= MaxDiscounts
         /\ discounts' = [e \in DiscountId |->
                           IF e \in d..(d + Examples - 1) THEN ExampleDiscount ELSE discounts[e]]
  ELSE UNCHANGED discounts

-----------------------------------------------------------------------------
(* The client *)

\* executeRequest: nobody listening is an error at once.  A body that decodes
\* to a zero struct is refused before any statement.
IsZero(i) ==
  /\ ~i.named /\ i.code = NoCode /\ ~i.requiresCode /\ i.startsOn = "zero" /\ i.bodyId = None

FirstStatement(i) ==
  CASE i.op = "create" -> "insert" [] i.op = "list" -> "count" [] OTHER -> "find"

MakeCall(c, s, i) ==
  /\ c <= budget.calls
  /\ \A earlier \in Call : calls[earlier].client = "idle" <=> c <= earlier
  /\ calls' =
       [calls EXCEPT ![c] =
          IF proc[s] # "listening" THEN [@ EXCEPT !.client = "message"]
          ELSE LET sent == [@ EXCEPT !.server = s, !.input = i, !.client = "waiting"]
               IN  IF i.op \in {"create", "update"} /\ IsZero(i)
                   THEN [sent EXCEPT !.at = "answered", !.answer = "400"]
                   ELSE [sent EXCEPT !.at = FirstStatement(i)]]
  /\ UNCHANGED <<startupVars, discounts>>

\* unmarshalBody: the object, or the message of the server.
Read(answer) == IF answer \in {"200", "201"} THEN "object" ELSE "message"

\* executeRequest has an error of its own when the connection is "lost".
get(answer) == IF answer = "lost" THEN "message" ELSE Read(answer)

\* A nil *ClientError, returned as an error, is an error that is not nil.
delete(answer) ==
  CASE answer = "lost" -> "message"
    [] answer # "lost" /\ Read(answer) = "object" -> "typedNil"
    [] OTHER -> "message"

\* post and patch wrap the wrong error, nil, and lose the message.
makeDataRequest(answer) ==
  CASE answer = "lost" -> "message"
    [] answer # "lost" /\ Read(answer) = "object" -> "object"
    [] OTHER -> "silent"

\* A list takes its rows from a field the server does not send.
Returned(op, answer) ==
  CASE op \in {"create", "update"} -> makeDataRequest(answer)
    [] op = "delete" -> delete(answer)
    [] op = "list" -> IF get(answer) = "object" THEN "noRows" ELSE "message"
    [] OTHER -> get(answer)

Receive(c) ==
  /\ calls[c].client = "waiting"
  /\ calls[c].at \in {"answered", "gone"}
  /\ LET answer == IF calls[c].at = "gone" THEN "lost" ELSE calls[c].answer
     IN  calls' = [calls EXCEPT ![c].client = Returned(calls[c].input.op, answer)]
  /\ UNCHANGED <<startupVars, discounts>>

\* Five seconds, whatever the handler is doing; it goes on.
Timeout_Unset(c) ==  \* mutant: http.Client without a Timeout
  /\ FALSE
  /\ calls' = [calls EXCEPT ![c].client = "timeout"]
  /\ UNCHANGED <<startupVars, discounts>>
Timeout(c) ==
  /\ calls[c].client = "waiting"
  /\ calls' = [calls EXCEPT ![c].client = "timeout"]
  /\ UNCHANGED <<startupVars, discounts>>

-----------------------------------------------------------------------------
(* The statements *)

Answered(c, answer) == [calls EXCEPT ![c].at = "answered", ![c].answer = answer]

\* CONSTRAINT code_must_be_provided.
Storable(row) == (row.code # NoCode) = row.requiresCode

\* mergo.Merge(updatedDiscount, existingDiscount) fills the empty fields, but
\* never a time.Time; the id is a field like the others.
Target(c) ==
  LET i == calls[c].input IN IF i.bodyId = None THEN i.id ELSE i.bodyId

Merged(c) ==
  LET i == calls[c].input
      e == calls[c].found
  IN  [code |-> IF i.code = NoCode THEN e.code ELSE i.code,
       requiresCode |-> i.requiresCode \/ e.requiresCode,
       startsOn |-> i.startsOn]

\* What the write in hand does to the table: its result, and the rows.
Insert(c, result) ==
  LET i == calls[c].input
      row == [state |-> "active", code |-> i.code, requiresCode |-> i.requiresCode,
              startsOn |-> i.startsOn]
  IN  \/ /\ Storable(row) /\ result = "ok"
         /\ \E d \in DiscountId :
              /\ NextId(d)
              /\ discounts' = [discounts EXCEPT ![d] = row]
      \/ ~Storable(row) /\ result = "error" /\ UNCHANGED discounts

\* WHERE id = $11, archived or not.  No row is sql.ErrNoRows.
Update_Revives(c, result) ==  \* mutant: archived_on = NULL among the SET clauses
  LET d == Target(c)
      row == [state |-> "active", code |-> Merged(c).code,
              requiresCode |-> Merged(c).requiresCode, startsOn |-> Merged(c).startsOn]
  IN  \/ /\ discounts[d].state # "absent" /\ Storable(row) /\ result = "ok"
         /\ discounts' = [discounts EXCEPT ![d] = row]
      \/ /\ discounts[d].state = "absent" \/ ~Storable(row)
         /\ result = "error" /\ UNCHANGED discounts
Update(c, result) ==
  LET d == Target(c)
      row == [state |-> discounts[d].state, code |-> Merged(c).code,
              requiresCode |-> Merged(c).requiresCode, startsOn |-> Merged(c).startsOn]
  IN  \/ /\ discounts[d].state # "absent" /\ Storable(row) /\ result = "ok"
         /\ discounts' = [discounts EXCEPT ![d] = row]
      \/ /\ discounts[d].state = "absent" \/ ~Storable(row)
         /\ result = "error" /\ UNCHANGED discounts

\* The row was found, and no row is ever taken out of the table.
Archive(c, result) ==
  /\ result = "ok"
  /\ discounts' = [discounts EXCEPT ![calls[c].input.id].state = "archived"]

Write(c, result) ==
  \/ calls[c].at = "insert"  /\ Insert(c, result)
  \/ calls[c].at = "update"  /\ Update(c, result)
  \/ calls[c].at = "archive" /\ Archive(c, result)

-----------------------------------------------------------------------------
(* The handlers *)

FindDiscount(c) ==
  /\ calls[c].at = "find" /\ dbUp
  /\ LET i == calls[c].input
         row == discounts[i.id]
     IN  calls' =
           IF row.state # "active" THEN Answered(c, "404")
           ELSE IF i.op = "get" THEN Answered(c, "200")
           ELSE [calls EXCEPT ![c].found = row,
                              ![c].at = IF i.op = "update" THEN "update" ELSE "archive"]
  /\ UNCHANGED <<startupVars, discounts>>

\* The count, and then the page.
ListDiscounts(c) ==
  /\ dbUp
  /\ \/ calls[c].at = "count" /\ calls' = [calls EXCEPT ![c].at = "select"]
     \/ calls[c].at = "select" /\ calls' = Answered(c, "200")
  /\ UNCHANGED <<startupVars, discounts>>

WriteDiscount_Unchecked(c) ==  \* mutant: the error of the statement is dropped
  /\ dbUp
  /\ \E result \in {"ok", "error"} :
       /\ Write(c, result)
       /\ calls' =
            [Answered(c, IF calls[c].input.op = "create" THEN "201" ELSE "200")
               EXCEPT ![c].effects = IF result = "ok" THEN @ + 1 ELSE @]
  /\ UNCHANGED startupVars
WriteDiscount(c) ==
  /\ dbUp
  /\ \/ /\ Write(c, "ok")
        /\ calls' =
             [Answered(c, IF calls[c].input.op = "create" THEN "201" ELSE "200")
                EXCEPT ![c].effects = @ + 1]
     \/ /\ Write(c, "error")
        /\ calls' = Answered(c, "500")
  /\ UNCHANGED startupVars

StatementFails(c) ==
  /\ calls[c].at \in AtStatement
  /\ ~dbUp
  /\ calls' = Answered(c, "500")
  /\ UNCHANGED <<startupVars, discounts>>

Handle(c) ==
  FindDiscount(c) \/ ListDiscounts(c) \/ WriteDiscount(c) \/ StatementFails(c)

-----------------------------------------------------------------------------
(* The composition *)

\* A step of main concerns no call: no handler runs before the listener does.
MainStep(s) == Main(s) /\ LoadDiscounts /\ UNCHANGED calls

StartServer(s) == Start(s) /\ UNCHANGED discountVars

\* An answer on the wire may still arrive.
ServerDiesWithHandlers(s) ==
  /\ ServerDies(s)
  /\ calls' =
       [c \in Call |->
          IF calls[c].server = s /\ calls[c].at \in AtStatement
          THEN [calls[c] EXCEPT !.at = "gone"] ELSE calls[c]]
  /\ UNCHANGED discounts

\* A statement in flight may have taken effect; it will be sent again.
DatabaseRestarts ==
  /\ Outage
  /\ \/ UNCHANGED <<discounts, calls>>
     \/ \E c \in Call :
          /\ Write(c, "ok")
          /\ calls' = [calls EXCEPT ![c].effects = @ + 1, ![c].sentAgain = TRUE]

DatabaseRecovers == Recovery /\ UNCHANGED discountVars

DeploymentNext ==
  \/ \E s \in Server : StartServer(s) \/ MainStep(s) \/ ServerDiesWithHandlers(s)
  \/ \E c \in Call :
       \/ \E s \in Server, i \in DiscountInputs : MakeCall(c, s, i)
       \/ Receive(c) \/ Timeout(c) \/ Handle(c)
  \/ DatabaseRestarts
  \/ DatabaseRecovers

DeploymentSpec == DiscountsInit /\ [][DeploymentNext]_deploymentVars

\* main runs and the client has its timer; nobody promises that the database
\* comes back, that a server is started, or that a handler gets its turn.
DeploymentFairSpec ==
  /\ DeploymentSpec
  /\ \A s \in Server : WF_deploymentVars(MainStep(s))
  /\ \A c \in Call : WF_deploymentVars(Receive(c) \/ Timeout(c))

-----------------------------------------------------------------------------
(* Properties *)

SoftDeletion == INSTANCE SoftDelete WITH
                  Row <- DiscountId, state <- [d \in DiscountId |-> discounts[d].state]

\* Whatever calls overlap, a discount is archived at most once and for good,
\* although PATCH may name an archived one in its body and UPDATE does not
\* look at archived_on.  (discountUpdateQuery, discountDeletionQuery.)
DiscountsAreSoftDeleted == SoftDeletion!Spec

Effective(c) == calls[c].answer \in {"200", "201"}

\* What a handler answers is what its statements did: an answer of success to
\* a write means that it took effect, a refusal that it did not, and only a
\* statement that was sent again has had two effects, or one behind an
\* internal error.  A client that is handed an object, or the nil
\* *ClientError of a deletion, is told of an effect.
AnswersAreTruthful ==
  \A c \in Call :
    LET call == calls[c] IN
    /\ call.answer \in {"400", "404"} => call.effects = 0
    /\ Effective(c) /\ call.input.op \in {"create", "update", "delete"} => call.effects >= 1
    /\ Effective(c) /\ call.input.op = "delete" => discounts[call.input.id].state = "archived"
    /\ call.effects > 1 \/ (call.answer = "500" /\ call.effects > 0) => call.sentAgain
    /\ call.client \in {"object", "typedNil"} => Effective(c)

\* A start ends (EveryStartEnds) and a call comes back to its caller,
\* whatever dies and whether its handler ever gets its turn.
\* (http.Client.Timeout, which the login is made without.)
NobodyWaitsForEver ==
  /\ EveryStartEnds
  /\ \A c \in Call : calls[c].client = "waiting" ~> calls[c].client # "waiting"
=============================================================================

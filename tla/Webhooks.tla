------------------------------ MODULE Webhooks ------------------------------
(***************************************************************************)
(* The webhook registry of api/v1/webhooks.go, and what product handlers   *)
(* do with it once their change is committed: they look up the webhooks of *)
(* its event, start webhookExecutor.CallWebhook for each in a goroutine of *)
(* its own, and answer.                                                    *)
(*                                                                         *)
(* Every statement runs on db and commits by itself.  A call depends on a  *)
(* third party, which may answer late or never: http.DefaultClient has no  *)
(* timeout.                                                                *)
(***************************************************************************)
EXTENDS Naturals, Sequences

CONSTANTS
  MaxRequests,   \* bound: how many requests the server receives
  Faults,        \* whether a statement may fail for reasons of its own
  MaxCrashes,    \* bound: how often the server process dies
  Event,         \* the enum webhook_event
  Unknown,       \* any other text
  None,
  SeedWebhooks,  \* the rows of webhooks, a sequence
  Inputs         \* the requests clients may send

Request == 1..MaxRequests
WebhookId == 1..Len(SeedWebhooks)

\* updated: updated_on IS NOT NULL.  What is posted where is left out.
Webhook == [st : {"active", "archived"}, event : Event, updated : BOOLEAN]

\* "change" is a handler of products.go whose product has been written.
Operation == {"create", "update", "delete", "change"}

\* id is the id in the URL, bodyId one in the body; None is a field left out.
Input == [op : Operation, id : Nat \cup {None}, bodyId : Nat \cup {None},
          event : Event \cup {Unknown, None}]

ASSUME ConstantsAssumption ==
  /\ MaxRequests \in Nat \ {0} /\ MaxCrashes \in Nat /\ Faults \in BOOLEAN
  /\ Unknown \notin Event /\ None \notin Event \cup {Unknown} \cup Nat
  /\ SeedWebhooks \in Seq(Webhook)

ASSUME InputsAssumption ==
  /\ Inputs \subseteq Input /\ None \notin Inputs
  /\ \A i \in Inputs :
       /\ i.op \in {"update", "delete"} => i.id \in Nat
       /\ i.op = "change" => i.event \in Event

VARIABLES
  webhooks,
  calls,   \* by the request that made the change and the webhook
  logs,    \* webhook_execution_logs: the calls that have a row
  pc, in, status,
  seen,    \* the webhook the handler has read: its id and its event
  crashes

vars == <<webhooks, calls, logs, pc, in, status, seen, crashes>>

Statement == {"insert", "find", "update", "archive", "lookup"}
Label == Statement \cup {"idle", "done", "dead"}

\* A call nobody has made, one waiting for the receiver, one the receiver has
\* answered, one that failed, one whose log statement has run, one the
\* process took with it.
CallState == {"none", "posted", "answered", "failed", "over", "lost"}

Seen == [id : WebhookId, event : Event]

TypeOK ==
  /\ webhooks \in [WebhookId -> Webhook]
  /\ calls \in [Request -> [WebhookId -> CallState]]
  /\ logs \subseteq Request \X WebhookId
  /\ pc \in [Request -> Label]
  /\ in \in [Request -> Inputs \cup {None}]
  /\ status \in [Request -> {0, 200, 201, 404, 500}]
  /\ seen \in [Request -> Seen \cup {None}]
  /\ crashes \in 0..MaxCrashes

Init ==
  /\ webhooks = [w \in WebhookId |-> SeedWebhooks[w]]
  /\ calls = [r \in Request |-> [w \in WebhookId |-> "none"]]
  /\ logs = {}
  /\ pc = [r \in Request |-> "idle"]
  /\ in = [r \in Request |-> None]
  /\ status = [r \in Request |-> 0]
  /\ seen = [r \in Request |-> None]
  /\ crashes = 0

-----------------------------------------------------------------------------

At(r, op, statement) == pc[r] = statement /\ in[r].op = op

Continue(r, statement) ==
  /\ pc' = [pc EXCEPT ![r] = statement]
  /\ UNCHANGED status

Respond(r, code) ==
  /\ pc' = [pc EXCEPT ![r] = "done"]
  /\ status' = [status EXCEPT ![r] = code]

FirstStatement(op) ==
  CASE op = "create" -> "insert"
    [] op = "change" -> "lookup"
    [] OTHER         -> "find"

Arrive(r) ==
  /\ pc[r] = "idle"
  /\ \A q \in Request : q < r => pc[q] # "idle"
  /\ \E i \in Inputs :
       /\ in' = [in EXCEPT ![r] = i]
       /\ Continue(r, FirstStatement(i.op))
  /\ UNCHANGED <<webhooks, calls, logs, seen, crashes>>

\* The columns of the two tables that statements return.
WebhookColumns == {"id", "url", "event_type", "content_type", "created_on", "updated_on",
                   "archived_on"}
LogColumns == {"id", "webhook_id", "status_code", "succeeded", "executed_on"}

\* POST /v1/webhook: INSERT ... RETURNING id, executed_on.  PostgreSQL refuses
\* a statement that names a column the table does not have.
Create_Insert(r) ==
  /\ At(r, "create", "insert")
  /\ ~({"id", "executed_on"} \subseteq WebhookColumns)
  /\ Respond(r, 500)
  /\ UNCHANGED <<webhooks, calls, logs, in, seen, crashes>>

\* GetWebhook, of PATCH and DELETE /v1/webhook/{webhook_id}.
Find(r) ==
  /\ pc[r] = "find"
  /\ LET id    == in[r].id
         found == id \in WebhookId /\ webhooks[id].st = "active"
     IN \/ ~found /\ Respond(r, 404) /\ UNCHANGED seen
        \/ /\ found
           /\ seen' = [seen EXCEPT ![r] = [id |-> id, event |-> webhooks[id].event]]
           /\ Continue(r, IF in[r].op = "update" THEN "update" ELSE "archive")
  /\ UNCHANGED <<webhooks, calls, logs, in, crashes>>

\* A write that has taken effect, and whose answer may be lost.
Written(r) == Respond(r, 200) \/ (Faults /\ Respond(r, 500))

\* UPDATE webhooks SET every column but archived_on WHERE id = $4.
UpdateWebhook_Revives(id, event) ==  \* mutant: archived_on of the row read too
  webhooks' = [webhooks EXCEPT ![id] = [st |-> "active", event |-> event, updated |-> TRUE]]
UpdateWebhook(id, event) ==
  webhooks' = [webhooks EXCEPT ![id] = [@ EXCEPT !.event = event, !.updated = TRUE]]

\* mergo.Merge fills in what the body leaves out, the id as well as the event.
Merged_Unmerged(field, old) == field  \* mutant: without mergo.Merge
Merged(field, old) == IF field = None THEN old ELSE field

Update_Update(r) ==
  /\ At(r, "update", "update")
  /\ LET id    == Merged(in[r].bodyId, seen[r].id)
         event == Merged(in[r].event, seen[r].event)
     IN \/ /\ id \in WebhookId /\ event # Unknown
           /\ UpdateWebhook(id, event)
           /\ Written(r)
        \/ /\ id \notin WebhookId \/ event = Unknown
           /\ Respond(r, 500)
           /\ UNCHANGED webhooks
  /\ UNCHANGED <<calls, logs, in, seen, crashes>>

Delete_Archive(r) ==
  /\ At(r, "delete", "archive")
  /\ webhooks' = [webhooks EXCEPT ![seen[r].id].st = "archived"]
  /\ Written(r)
  /\ UNCHANGED <<calls, logs, in, seen, crashes>>

-----------------------------------------------------------------------------
(* The end of a product handler, and the goroutines it starts *)

\* SELECT ... WHERE event_type = $1, archived webhooks included.
GetWebhooksByEventType_First(event) ==  \* mutant: QueryRow for Query
  {w \in WebhookId : webhooks[w].event = event
                     /\ \A v \in 1..w-1 : webhooks[v].event # event}
GetWebhooksByEventType(event) == {w \in WebhookId : webhooks[w].event = event}

\* for _, wh := range webhooks { go webhookExecutor.CallWebhook(...) }
Call(r) ==
  LET called == GetWebhooksByEventType(in[r].event)
  IN calls' = [calls EXCEPT ![r] = [w \in WebhookId |-> IF w \in called THEN "posted" ELSE @[w]]]

Change_Lookup_Waits(r) ==  \* mutant: without go
  /\ At(r, "change", "lookup")
  /\ \/ /\ \A w \in WebhookId : calls[r][w] = "none"
        /\ Call(r)
        /\ UNCHANGED <<pc, status>>
     \/ /\ \A w \in WebhookId : calls[r][w] \notin {"posted", "answered"}
        /\ Respond(r, 200)
        /\ UNCHANGED calls
  /\ UNCHANGED <<webhooks, logs, in, seen, crashes>>
Change_Lookup(r) ==
  /\ At(r, "change", "lookup")
  /\ Call(r)
  /\ Respond(r, 200)
  /\ UNCHANGED <<webhooks, logs, in, seen, crashes>>

Turns(r, w, from, to) ==
  /\ calls[r][w] = from
  /\ calls' = [calls EXCEPT ![r][w] = to]
  /\ UNCHANGED <<webhooks, logs, pc, in, status, seen, crashes>>

\* The receiver answers.
Answer(r, w) == Turns(r, w, "posted", "answered")

\* whe.Client.Post returns an error: nothing is logged, nothing is retried.
PostFails(r, w) == Turns(r, w, "posted", "failed")

\* INSERT INTO webhook_execution_logs ... RETURNING id, created_on.
CreateWebhookExecutionLog(r, w) ==
  /\ calls[r][w] = "answered"
  /\ calls' = [calls EXCEPT ![r][w] = "over"]
  /\ logs' = IF {"id", "created_on"} \subseteq LogColumns THEN logs \cup {<<r, w>>} ELSE logs
  /\ UNCHANGED <<webhooks, pc, in, status, seen, crashes>>

-----------------------------------------------------------------------------

\* A statement fails and changes nothing.
StatementFails(r) ==
  /\ Faults
  /\ pc[r] \in Statement
  /\ Respond(r, 500)
  /\ UNCHANGED <<webhooks, calls, logs, in, seen, crashes>>

\* The process dies, and every goroutine with it.
ServerCrash ==
  /\ crashes < MaxCrashes
  /\ pc' = [r \in Request |-> IF pc[r] \in Statement THEN "dead" ELSE pc[r]]
  /\ calls' = [r \in Request |-> [w \in WebhookId |->
                 IF calls[r][w] \in {"posted", "answered"} THEN "lost" ELSE calls[r][w]]]
  /\ crashes' = crashes + 1
  /\ UNCHANGED <<webhooks, logs, in, status, seen>>

\* Every request has come and gone, and so has every call.
Quiescent ==
  /\ \A r \in Request : pc[r] \in {"done", "dead"}
  /\ \A r \in Request, w \in WebhookId : calls[r][w] \notin {"posted", "answered"}
  /\ UNCHANGED vars

\* The next statement of the handler of request r.
Runs(r) ==
  \/ Create_Insert(r) \/ Find(r) \/ Update_Update(r) \/ Delete_Archive(r)
  \/ Change_Lookup(r)

Handle(r) == Runs(r) \/ StatementFails(r)

\* The next step of the goroutine request r has started for webhook w.
CallWebhook(r, w) == Answer(r, w) \/ PostFails(r, w) \/ CreateWebhookExecutionLog(r, w)

Next ==
  \/ \E r \in Request : Arrive(r) \/ Handle(r)
  \/ \E r \in Request, w \in WebhookId : CallWebhook(r, w)
  \/ ServerCrash
  \/ Quiescent

Spec == Init /\ [][Next]_vars

\* The Go scheduler runs every handler, and the database ends every statement
\* it has been given.  Nothing is assumed of the receivers of webhooks.
FairSpec == Spec /\ \A r \in Request : WF_vars(Runs(r))

-----------------------------------------------------------------------------
(* Properties *)

\* A change answered with 200 has called every webhook that was registered
\* for its event before it and has been left alone since, and no webhook of
\* another event, whatever happens to the registry meanwhile.  (The loop of
\* the product handlers over GetWebhooksByEventType.)
SubscribersAreCalled ==
  \A r \in Request, w \in WebhookId :
    /\ pc[r] = "done" /\ status[r] = 200 /\ in[r].op = "change"
    /\ webhooks[w].st = "active" /\ ~webhooks[w].updated
    => (calls[r][w] # "none" <=> webhooks[w].event = in[r].event)

\* No receiver keeps a client of the shop waiting: every request ends, even
\* if no webhook is ever answered.  (go webhookExecutor.CallWebhook.)
EveryRequestEnds ==
  \A r \in Request : pc[r] \in Statement ~> pc[r] \in {"done", "dead"}

\* A deleted webhook stays deleted, whichever older copy of a webhook a PATCH
\* writes back and whichever id its body names.
webhookState == [w \in WebhookId |-> webhooks[w].st]
Soft == INSTANCE SoftDelete WITH Row <- WebhookId, state <- webhookState
WebhooksAreSoftDeleted == Soft!Spec

\* TestWebhookCreationHandler, "optimal conditions": a webhook for an event
\* of the enum is created, if the statement runs.
CreationsSucceed ==
  \A r \in Request :
    pc[r] = "done" /\ in[r].op = "create" /\ in[r].event \in Event => status[r] = 201

=============================================================================

-------------------------- MODULE Webhooks_proofs --------------------------
(***************************************************************************)
(* Types, deletion and the reach of a change in Webhooks, for any number   *)
(* of webhooks and requests.                                               *)
(***************************************************************************)
EXTENDS Webhooks, TLAPS

\* TypeOK is not inductive: a handler past its first read uses what it read.
TypeInv ==
  /\ TypeOK
  /\ \A r \in Request : pc[r] # "idle" => in[r] \in Inputs
  /\ \A r \in Request : pc[r] \in {"update", "archive"} => seen[r] \in Seen

LEMMA TypeInit == Init => TypeInv
<1> SUFFICES ASSUME Init PROVE TypeInv
  OBVIOUS
<1>1. webhooks \in [WebhookId -> Webhook]
  BY ConstantsAssumption DEF Init, WebhookId
<1>2. calls \in [Request -> [WebhookId -> CallState]]
  BY DEF Init, CallState
<1>3. logs \subseteq Request \X WebhookId /\ crashes \in 0..MaxCrashes
  BY ConstantsAssumption DEF Init
<1>4. /\ pc \in [Request -> Label]
      /\ in \in [Request -> Inputs \cup {None}]
      /\ status \in [Request -> {0, 200, 201, 404, 500}]
      /\ seen \in [Request -> Seen \cup {None}]
  BY DEF Init, Label
<1>5. \A r \in Request : pc[r] = "idle"
  BY DEF Init
<1> QED BY <1>1, <1>2, <1>3, <1>4, <1>5 DEF TypeInv, TypeOK

LEMMA ArchivedType ==
  ASSUME NEW h \in Webhook PROVE [h EXCEPT !.st = "archived"] \in Webhook
  BY DEF Webhook

LEMMA UpdateType ==
  ASSUME webhooks \in [WebhookId -> Webhook],
         NEW id \in WebhookId, NEW event \in Event, UpdateWebhook(id, event)
  PROVE  webhooks' \in [WebhookId -> Webhook]
<1>1. [webhooks[id] EXCEPT !.event = event, !.updated = TRUE] \in Webhook
  BY DEF Webhook
<1> QED BY <1>1 DEF UpdateWebhook

LEMMA TypeStep == TypeInv /\ [Next]_vars => TypeInv'
<1> SUFFICES ASSUME TypeInv, [Next]_vars PROVE TypeInv'
  OBVIOUS
<1> USE DEF TypeInv, TypeOK, Label, Statement
<1>1. ASSUME NEW r \in Request, Arrive(r) PROVE TypeInv'
  <2>1. PICK i \in Inputs : /\ in' = [in EXCEPT ![r] = i]
                            /\ Continue(r, FirstStatement(i.op))
    BY <1>1 DEF Arrive
  <2>2. FirstStatement(i.op) \in {"insert", "find", "lookup"}
    BY DEF FirstStatement
  <2> QED BY <1>1, <2>1, <2>2 DEF Arrive, Continue
<1>2. ASSUME NEW r \in Request, Create_Insert(r) PROVE TypeInv'
  BY <1>2 DEF Create_Insert, Respond, At
<1>3. ASSUME NEW r \in Request, Find(r) PROVE TypeInv'
  <2>1. CASE Respond(r, 404) /\ UNCHANGED seen
    BY <1>3, <2>1 DEF Find, Respond
  <2>2. CASE ~(Respond(r, 404) /\ UNCHANGED seen)
    <3>1. in[r].id \in WebhookId
      BY <1>3, <2>2 DEF Find
    <3>2. webhooks[in[r].id].event \in Event
      BY <3>1 DEF Webhook
    <3>3. seen' = [seen EXCEPT ![r] = [id |-> in[r].id, event |-> webhooks[in[r].id].event]]
      BY <1>3, <2>2 DEF Find
    <3>4. [id |-> in[r].id, event |-> webhooks[in[r].id].event] \in Seen
      BY <3>1, <3>2 DEF Seen
    <3> QED BY <1>3, <2>2, <3>3, <3>4 DEF Find, Continue
  <2> QED BY <2>1, <2>2
<1>4. ASSUME NEW r \in Request, Update_Update(r) PROVE TypeInv'
  <2>1. webhooks' \in [WebhookId -> Webhook]
    <3>1. in[r] \in Input /\ seen[r] \in Seen
      BY <1>4, InputsAssumption DEF Update_Update, At
    <3> DEFINE id    == Merged(in[r].bodyId, seen[r].id)
               event == Merged(in[r].event, seen[r].event)
    <3>2. event # Unknown => event \in Event
      BY <3>1 DEF Merged, Input, Seen
    <3>3. id \in WebhookId /\ event \in Event /\ UpdateWebhook(id, event)
          => webhooks' \in [WebhookId -> Webhook]
      <4> HIDE DEF id, event
      <4> QED BY UpdateType
    <3>4. UNCHANGED webhooks \/ (id \in WebhookId /\ event # Unknown /\ UpdateWebhook(id, event))
      BY <1>4 DEF Update_Update
    <3> QED BY <3>2, <3>3, <3>4
  <2> QED BY <1>4, <2>1 DEF Update_Update, At, Written, Respond
<1>5. ASSUME NEW r \in Request, Delete_Archive(r) PROVE TypeInv'
  <2>0. seen[r].id \in WebhookId
    BY <1>5 DEF Delete_Archive, At, Seen
  <2>1. webhooks' \in [WebhookId -> Webhook]
    <3>1. [webhooks[seen[r].id] EXCEPT !.st = "archived"] \in Webhook
      BY <2>0, ArchivedType
    <3> QED BY <1>5, <2>0, <3>1 DEF Delete_Archive
  <2>2. pc[r] = "archive" /\ UNCHANGED <<calls, logs, in, seen, crashes>>
    BY <1>5 DEF Delete_Archive, At
  <2>3. PICK code \in {200, 500} : Respond(r, code)
    BY <1>5 DEF Delete_Archive, Written
  <2> QED BY <2>1, <2>2, <2>3 DEF Respond
<1>6. ASSUME NEW r \in Request, Change_Lookup(r) PROVE TypeInv'
  <2> DEFINE now == [w \in WebhookId |-> IF w \in GetWebhooksByEventType(in[r].event)
                                        THEN "posted" ELSE calls[r][w]]
  <2>0. now \in [WebhookId -> CallState] /\ calls' = [calls EXCEPT ![r] = now]
    BY <1>6 DEF Change_Lookup, Call, CallState
  <2>1. calls' \in [Request -> [WebhookId -> CallState]]
    <3> HIDE DEF now
    <3> QED BY <2>0
  <2>2. pc[r] = "lookup" /\ Respond(r, 200) /\ UNCHANGED <<webhooks, logs, in, seen, crashes>>
    BY <1>6 DEF Change_Lookup, At
  <2> HIDE DEF now
  <2> QED BY <2>1, <2>2 DEF Respond
<1>7. ASSUME NEW r \in Request, StatementFails(r) PROVE TypeInv'
  BY <1>7 DEF StatementFails, Respond
<1>8. ASSUME NEW r \in Request, NEW w \in WebhookId, CallWebhook(r, w) PROVE TypeInv'
  <2>0. PICK new \in CallState : calls' = [calls EXCEPT ![r][w] = new]
    BY <1>8 DEF CallWebhook, Answer, PostFails, Turns, CreateWebhookExecutionLog, CallState
  <2>1. calls' \in [Request -> [WebhookId -> CallState]]
    BY <2>0
  <2>2. logs' \subseteq Request \X WebhookId
    BY <1>8 DEF CallWebhook, Answer, PostFails, Turns, CreateWebhookExecutionLog
  <2> QED BY <1>8, <2>1, <2>2
          DEF CallWebhook, Answer, PostFails, Turns, CreateWebhookExecutionLog
<1>9. ASSUME ServerCrash PROVE TypeInv'
  <2>0. \A q \in Request : [w \in WebhookId |-> IF calls[q][w] \in {"posted", "answered"}
                                                 THEN "lost" ELSE calls[q][w]]
                            \in [WebhookId -> CallState]
    BY DEF CallState
  <2>1. calls' \in [Request -> [WebhookId -> CallState]]
    BY <1>9, <2>0 DEF ServerCrash
  <2>2. crashes' \in 0..MaxCrashes
    BY <1>9, ConstantsAssumption DEF ServerCrash
  <2>3. pc' \in [Request -> Label] /\ \A r \in Request : pc'[r] # pc[r] => pc[r] # "idle" /\ pc'[r] = "dead"
    BY <1>9 DEF ServerCrash
  <2> QED BY <1>9, <2>1, <2>2, <2>3 DEF ServerCrash
<1>10. CASE UNCHANGED vars
  BY <1>10 DEF vars
<1> QED
  BY <1>1, <1>2, <1>3, <1>4, <1>5, <1>6, <1>7, <1>8, <1>9, <1>10 DEF Next, Handle, Runs, Quiescent

LEMMA TypeInvariant == Spec => []TypeInv
  BY TypeInit, TypeStep, PTL DEF Spec

\* Every reachable state is well typed: no PATCH writes an event outside the
\* enum or a webhook its body has left incomplete.
THEOREM WebhooksTypeCorrect == Spec => []TypeOK
<1>1. TypeInv => TypeOK
  BY DEF TypeInv
<1> QED BY <1>1, TypeInvariant, PTL

-----------------------------------------------------------------------------
(* What a step does to a webhook, and what that means for deletion *)

\* A webhook is left alone, patched, or archived.
Keeps(old, new) ==
  /\ old.st = "archived" => new.st = "archived"
  /\ new.updated \/ (new.updated = old.updated /\ new.event = old.event)

LEMMA RowStep ==
  TypeInv /\ [Next]_vars => \A w \in WebhookId : Keeps(webhooks[w], webhooks'[w])
<1> SUFFICES ASSUME TypeInv, [Next]_vars, NEW w \in WebhookId
             PROVE Keeps(webhooks[w], webhooks'[w])
  OBVIOUS
<1>0. webhooks \in [WebhookId -> Webhook]
  BY DEF TypeInv, TypeOK
<1>1. ASSUME NEW r \in Request, Update_Update(r) PROVE Keeps(webhooks[w], webhooks'[w])
  <2>1. UNCHANGED webhooks
        \/ \E id \in WebhookId : \E event : UpdateWebhook(id, event)
    BY <1>1 DEF Update_Update
  <2>2. ASSUME NEW id \in WebhookId, NEW event, UpdateWebhook(id, event)
        PROVE Keeps(webhooks[w], webhooks'[w])
    BY <1>0, <2>2 DEF UpdateWebhook, Keeps, Webhook
  <2> QED BY <2>1, <2>2 DEF Keeps
<1>2. ASSUME NEW r \in Request, Delete_Archive(r) PROVE Keeps(webhooks[w], webhooks'[w])
  BY <1>0, <1>2 DEF Delete_Archive, Keeps, Webhook
<1>3. CASE UNCHANGED webhooks
  BY <1>3 DEF Keeps
<1> QED
  BY <1>1, <1>2, <1>3
     DEF Next, vars, Arrive, Handle, Runs, Create_Insert, Find, Change_Lookup, StatementFails,
         CallWebhook, Answer, PostFails, Turns, CreateWebhookExecutionLog, ServerCrash, Quiescent

\* The registry implements rows that are archived at most once and stay
\* archived, whatever PATCHes write back.
THEOREM WebhooksImplementSoftDelete == Spec => WebhooksAreSoftDeleted
<1>1. TypeInv => Soft!Init
  BY DEF TypeInv, TypeOK, Webhook, webhookState, Soft!Init, Soft!TypeOK, Soft!States
<1>2. TypeInv /\ TypeInv' /\ [Next]_vars => [Soft!Next]_webhookState
  <2> SUFFICES ASSUME TypeInv, TypeInv', [Next]_vars PROVE Soft!Next
    OBVIOUS
  <2>1. \A w \in WebhookId : /\ webhooks[w].st \in {"active", "archived"}
                             /\ webhooks'[w].st \in {"active", "archived"}
    BY DEF TypeInv, TypeOK, Webhook
  <2>2. \A w \in WebhookId : webhooks[w].st = "archived" => webhooks'[w].st = "archived"
    BY RowStep DEF Keeps
  <2>3. Soft!Archive
    BY <2>1, <2>2 DEF Soft!Archive, Soft!Turns, Soft!States, webhookState
  <2> QED BY <2>3 DEF Soft!Next
<1> QED
  BY <1>1, <1>2, TypeInit, TypeInvariant, PTL DEF Spec, WebhooksAreSoftDeleted, Soft!Spec

-----------------------------------------------------------------------------
(* Whom a change reaches *)

\* Until it is answered a request has called nobody and has no status.
ReachInv ==
  /\ \A r \in Request : pc[r] \notin {"done", "dead"} =>
       status[r] = 0 /\ \A w \in WebhookId : calls[r][w] = "none"
  /\ SubscribersAreCalled

LEMMA ReachInit == Init => ReachInv
  BY DEF Init, ReachInv, SubscribersAreCalled

\* Calls that have been made are not forgotten, and only a lookup makes any.
CallsKeep(r) ==
  \A w \in WebhookId : calls[r][w] = "none" <=> calls'[r][w] = "none"

LEMMA ReachStep == TypeInv /\ TypeInv' /\ ReachInv /\ [Next]_vars => ReachInv'
<1> SUFFICES ASSUME TypeInv, TypeInv', ReachInv, [Next]_vars PROVE ReachInv'
  OBVIOUS
<1>1. \A w \in WebhookId :
        webhooks'[w].st = "active" /\ ~webhooks'[w].updated =>
          /\ webhooks[w].st = "active" /\ ~webhooks[w].updated
          /\ webhooks'[w].event = webhooks[w].event
  BY RowStep DEF Keeps, TypeInv, TypeOK, Webhook
<1> DEFINE Reached(r) ==
      /\ pc[r] \notin {"done", "dead"} =>
           status[r] = 0 /\ \A w \in WebhookId : calls[r][w] = "none"
      /\ \A w \in WebhookId :
           /\ pc[r] = "done" /\ status[r] = 200 /\ in[r].op = "change"
           /\ webhooks[w].st = "active" /\ ~webhooks[w].updated
           => (calls[r][w] # "none" <=> webhooks[w].event = in[r].event)
<1>2. \A r \in Request : Reached(r)
  BY DEF ReachInv, SubscribersAreCalled
<1>3. ASSUME NEW r \in Request, CallsKeep(r),
             pc'[r] = pc[r] /\ status'[r] = status[r] /\ in'[r] = in[r]
      PROVE Reached(r)'
  BY <1>1, <1>2, <1>3 DEF CallsKeep
<1>4. ASSUME NEW r \in Request, CallsKeep(r), in'[r].op # "change" \/ status'[r] # 200,
             pc'[r] \notin {"done", "dead"} => pc[r] \notin {"done", "dead"} /\ status'[r] = status[r]
      PROVE Reached(r)'
  BY <1>2, <1>4 DEF CallsKeep
<1>5. ASSUME NEW r \in Request, Handle(r) \/ Arrive(r), ~Change_Lookup(r)
      PROVE Reached(r)'
  <2>1. CallsKeep(r)
    BY <1>5 DEF CallsKeep, Handle, Runs, Arrive, Create_Insert, Find, Update_Update, Delete_Archive,
                StatementFails
  <2>2. in'[r].op # "change" \/ status'[r] # 200
    <3>1. CASE Update_Update(r) \/ Delete_Archive(r)
      BY <3>1 DEF Update_Update, Delete_Archive, At
    <3>2. CASE Arrive(r)
      BY <1>2, <3>2 DEF Arrive, Continue
    <3>3. CASE Create_Insert(r) \/ StatementFails(r)
      BY <3>3 DEF Create_Insert, StatementFails, Respond, TypeInv, TypeOK
    <3>4. CASE Find(r)
      <4>1. status'[r] = 404 \/ status'[r] = status[r]
        BY <3>4 DEF Find, Respond, Continue, TypeInv, TypeOK
      <4>2. status[r] = 0
        BY <1>2, <3>4 DEF Find
      <4> QED BY <4>1, <4>2
    <3> QED BY <1>5, <3>1, <3>2, <3>3, <3>4 DEF Handle, Runs
  <2>3. pc'[r] \notin {"done", "dead"} => pc[r] \notin {"done", "dead"} /\ status'[r] = status[r]
    <3> USE DEF TypeInv, TypeOK
    <3>1. CASE Arrive(r)
      BY <3>1 DEF Arrive, Continue
    <3>2. CASE Find(r)
      BY <3>2 DEF Find, Continue, Respond
    <3>3. CASE Create_Insert(r) \/ Update_Update(r) \/ Delete_Archive(r) \/ StatementFails(r)
      BY <3>3 DEF Create_Insert, Update_Update, Delete_Archive, StatementFails, Written, Respond
    <3> QED BY <1>5, <3>1, <3>2, <3>3 DEF Handle, Runs
  <2> QED BY <1>4, <2>1, <2>2, <2>3
<1>6. ASSUME NEW r \in Request, Change_Lookup(r) PROVE Reached(r)'
  <2>1. \A w \in WebhookId : calls[r][w] = "none"
    BY <1>2, <1>6 DEF Change_Lookup, At
  <2>2. \A w \in WebhookId : calls'[r][w] # "none" <=> webhooks[w].event = in[r].event
    BY <1>6, <2>1 DEF Change_Lookup, Call, GetWebhooksByEventType, TypeInv, TypeOK
  <2>3. pc'[r] = "done" /\ UNCHANGED <<webhooks, in>>
    BY <1>6 DEF Change_Lookup, Respond, TypeInv, TypeOK
  <2> QED BY <2>2, <2>3
<1>7. ASSUME NEW r \in Request, Handle(r) \/ Arrive(r), NEW q \in Request, q # r
      PROVE Reached(q)'
  <2>1. CallsKeep(q)
    BY <1>7 DEF CallsKeep, Handle, Runs, Arrive, Create_Insert, Find, Update_Update, Delete_Archive,
                Change_Lookup, Call, StatementFails, TypeInv, TypeOK
  <2>2. pc'[q] = pc[q] /\ status'[q] = status[q] /\ in'[q] = in[q]
    BY <1>7 DEF Handle, Runs, Arrive, Create_Insert, Find, Update_Update, Delete_Archive,
                Change_Lookup, StatementFails, Written, Continue, Respond, TypeInv, TypeOK
  <2> QED BY <1>3, <2>1, <2>2
<1>8. ASSUME NEW r \in Request, NEW w \in WebhookId, CallWebhook(r, w), NEW q \in Request
      PROVE Reached(q)'
  <2>1. CallsKeep(q)
    BY <1>8 DEF CallsKeep, CallWebhook, Answer, PostFails, Turns, CreateWebhookExecutionLog,
                TypeInv, TypeOK
  <2>2. UNCHANGED <<pc, status, in>>
    BY <1>8 DEF CallWebhook, Answer, PostFails, Turns, CreateWebhookExecutionLog
  <2> QED BY <1>3, <2>1, <2>2
<1>9. ASSUME ServerCrash, NEW q \in Request PROVE Reached(q)'
  <2>1. CallsKeep(q)
    BY <1>9 DEF CallsKeep, ServerCrash
  <2>2. pc'[q] = "dead" \/ pc'[q] = pc[q]
    BY <1>9 DEF ServerCrash
  <2>3. UNCHANGED <<status, in>>
    BY <1>9 DEF ServerCrash
  <2>4. CASE pc'[q] = "dead"
    BY <2>4
  <2> QED BY <1>3, <2>1, <2>2, <2>3, <2>4
<1>10. ASSUME UNCHANGED vars, NEW q \in Request PROVE Reached(q)'
  <2>1. CallsKeep(q) /\ UNCHANGED <<pc, status, in>>
    BY <1>10 DEF vars, CallsKeep
  <2> QED BY <1>3, <2>1
<1>11. ASSUME NEW q \in Request PROVE Reached(q)'
  <2> HIDE DEF Reached
  <2>1. ASSUME NEW r \in Request, Arrive(r) \/ Handle(r) PROVE Reached(q)'
    BY <1>5, <1>6, <1>7, <2>1
  <2> QED BY <1>8, <1>9, <1>10, <2>1 DEF Next, Quiescent
<1> QED BY <1>11 DEF ReachInv, SubscribersAreCalled

\* A change that is answered with 200 has called exactly the webhooks of its
\* event, among those nobody has touched, however the registry changes.
THEOREM ChangesReachSubscribers == Spec => []SubscribersAreCalled
<1>1. ReachInv => SubscribersAreCalled
  BY DEF ReachInv
<1> QED BY <1>1, ReachInit, ReachStep, TypeInvariant, PTL DEF Spec

=============================================================================

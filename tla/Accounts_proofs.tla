-------------------------- MODULE Accounts_proofs --------------------------
(***************************************************************************)
(* Theorems about Accounts, for any number of requests, users and clients, *)
(* with failures, crashes and the passing of time: its types; deleted      *)
(* users stay deleted, sessions agree with their users, and failed logins  *)
(* are bounded.                                                            *)
(***************************************************************************)
EXTENDS Accounts, FiniteSetTheorems, TLAPS

-----------------------------------------------------------------------------
(* Types *)

\* A handler past its first read works on a user it has a copy of.
Reading == {"insertAttempt", "rehash", "tokenExists", "insertToken", "update", "archive"}

LocalsOK ==
  \A r \in Request :
    /\ pc[r] \in Statement => in[r] \in Inputs
    /\ pc[r] \in Reading => seen[r] \in Seen /\ users[seen[r].id] \in KnownUser

TypeInv == TypeOK /\ LocalsOK

\* What the inputs of a handler that needs them are.
LEMMA InputFields ==
  ASSUME NEW i \in Inputs
  PROVE  /\ i.client \in Client /\ i.admin \in BOOLEAN
         /\ i.username \in Username \cup {None} /\ i.email \in Email \cup {None}
         /\ i.password \in Password \cup {None} /\ i.newPassword \in Password \cup {None}
         /\ i.op = "register" => i.username \in Username /\ i.email \in Email
                                 /\ i.password \in Password
         /\ i.op = "login" => i.username \in Username
BY InputsAssumption DEF Input

LEMMA HashType == \A p \in Password \cup {Garbled} : Hash(p) \in HashOf
BY DEF Hash, HashOf

LEMMA TypeInit == Init => TypeInv
<1> SUFFICES ASSUME Init PROVE TypeInv
  OBVIOUS
<1>1. NoUser \in UserRow
  BY DEF UserRow
<1>2. \A u \in SeedId : SeedUsers[u - MaxRequests] \in UserRow
  BY ConstantsAssumption DEF SeedId, UserRow
<1>3. users \in [UserId -> UserRow]
  BY <1>1, <1>2 DEF Init, UserId
<1>4. cookie \in [Client -> Session] /\ session \in [Request -> Session]
  BY DEF Init, NoSession, Session
<1>5. 0 \in 0..Window /\ 0 \in 0..MaxCrashes
  BY ConstantsAssumption
<1>6. TypeOK
  BY <1>3, <1>4, <1>5 DEF Init, TypeOK, Label
<1>7. LocalsOK
  BY DEF Init, LocalsOK, Statement, Reading
<1> QED BY <1>6, <1>7 DEF TypeInv

\* The users found active are known.
LEMMA ActiveIsKnown ==
  ASSUME TypeOK
  PROVE  \A u \in Active : u \in UserId /\ users[u] \in KnownUser
BY DEF TypeOK, Active, UserRow, NoUser

\* A step that goes on or answers, and leaves the tables and what the handlers
\* know alone.
Passing(r) ==
  /\ \E label \in Label : Goto(r, label) /\ (label \in Statement => pc[r] \in Statement)
                          /\ (label \in Reading => pc[r] \in Reading)
  /\ \E code \in {0, 200, 201, 400, 401, 403, 404, 500} :
       status' = status \/ status' = [status EXCEPT ![r] = code]
  /\ crashes' = crashes
  /\ UNCHANGED <<users, in, session, seen>>

LEMMA PassingType ==
  ASSUME TypeInv, NEW r \in Request, Passing(r),
         attempts' \in [Request -> Attempt \cup {None}], tokens' \in [Request -> Token \cup {None}],
         age' \in [Request -> 0..Window], cookie' \in [Client -> Session]
  PROVE  TypeInv'
<1>1. TypeOK'
  <2>1. pc' \in [Request -> Label]
    BY DEF TypeInv, TypeOK, Passing, Goto
  <2>2. PICK code \in {0, 200, 201, 400, 401, 403, 404, 500} :
          status' = status \/ status' = [status EXCEPT ![r] = code]
    BY DEF Passing
  <2>3. status' \in [Request -> {0, 200, 201, 400, 401, 403, 404, 500}]
    BY <2>2 DEF TypeInv, TypeOK
  <2> QED BY <2>1, <2>3 DEF TypeInv, TypeOK, Passing
<1>2. LocalsOK'
  BY DEF TypeInv, TypeOK, LocalsOK, Passing, Goto
<1> QED BY <1>1, <1>2 DEF TypeInv

LEMMA FindType ==
  ASSUME TypeInv, NEW r \in Request, NEW ids \in SUBSET Active, NEW next \in Reading,
         pc[r] \in Statement, Find(r, ids, next)
  PROVE  TypeInv'
<1> USE DEF TypeInv, TypeOK, LocalsOK, Statement, Reading, Label
<1>1. CASE ids = {} /\ Respond(r, 404) /\ UNCHANGED seen
  <2>1. Passing(r) /\ UNCHANGED <<attempts, tokens, age, cookie>>
    BY <1>1 DEF Find, Respond, Passing, Goto, tables
  <2> QED BY <2>1, PassingType
<1>2. CASE \E id \in ids : /\ seen' = [seen EXCEPT ![r] = [id |-> id, row |-> users[id]]]
                           /\ Continue(r, next)
  <2>1. PICK id \in ids : /\ seen' = [seen EXCEPT ![r] = [id |-> id, row |-> users[id]]]
                          /\ Continue(r, next)
    BY <1>2
  <2>2. [id |-> id, row |-> users[id]] \in Seen /\ users[id] \in KnownUser
    BY ActiveIsKnown DEF Seen
  <2>3. seen' \in [Request -> Seen \cup {None}] /\ seen'[r] = [id |-> id, row |-> users[id]]
    BY <2>1, <2>2
  <2>4. UNCHANGED <<users, attempts, tokens, age, in, session, status, cookie, crashes>>
    BY <2>1 DEF Find, Continue, tables
  <2>5. pc' = [pc EXCEPT ![r] = next]
    BY <2>1 DEF Continue, Goto
  <2>6. TypeOK'
    BY <2>3, <2>4, <2>5
  <2>7. LocalsOK'
    BY <2>1, <2>2, <2>3, <2>4, <2>5
  <2> QED BY <2>6, <2>7
<1> QED BY <1>1, <1>2 DEF Find

\* The session a user is given.
LEMMA LoggedInType ==
  ASSUME NEW id \in UserId, NEW row \in KnownUser
  PROVE  LoggedIn(id, row) \in Session
BY DEF LoggedIn, Session, KnownUser

LEMMA ArriveType ==
  ASSUME TypeInv, NEW r \in Request, Arrive(r)
  PROVE  TypeInv'
<1> USE DEF TypeInv, TypeOK, LocalsOK
<1>1. PICK i \in Inputs :
        /\ in' = [in EXCEPT ![r] = i]
        /\ session' = [session EXCEPT ![r] = cookie[i.client]]
        /\ \/ Respond(r, 403)
           \/ Continue(r, FirstStatement(i.op))
  BY DEF Arrive
<1>2. cookie[i.client] \in Session
  BY InputFields
<1>3. FirstStatement(i.op) \in {"exists", "exhausted", "logout", "find"}
  BY DEF FirstStatement
<1>4. UNCHANGED <<users, attempts, tokens, age, seen, cookie, crashes>>
  BY <1>1 DEF Arrive, Respond, Continue, tables
<1>5. \/ Goto(r, "done") /\ status' = [status EXCEPT ![r] = 403]
      \/ Goto(r, FirstStatement(i.op)) /\ UNCHANGED status
  BY <1>1 DEF Respond, Continue
<1>6. TypeOK'
  BY <1>1, <1>2, <1>3, <1>4, <1>5 DEF Goto, Label, Statement
<1>7. LocalsOK'
  BY <1>1, <1>3, <1>4, <1>5 DEF Goto, Label, Statement, Reading
<1> QED BY <1>6, <1>7

\* A statement that replaces the row of one user by a row of a known user, and
\* ends the request.
LEMMA WriteUserType ==
  ASSUME TypeInv, NEW r \in Request, NEW id \in UserId, NEW row \in KnownUser,
         users' = [users EXCEPT ![id] = row], Goto(r, "done"),
         \E code \in {200, 201, 500} : status' = [status EXCEPT ![r] = code],
         cookie' \in [Client -> Session],
         UNCHANGED <<attempts, tokens, age, in, session, seen, crashes>>
  PROVE  TypeInv'
<1> USE DEF TypeInv, TypeOK, LocalsOK
<1>1. TypeOK'
  BY DEF Goto, Label, UserRow
<1>2. LocalsOK'
  BY DEF Goto, Statement, Reading, UserRow, Seen
<1> QED BY <1>1, <1>2

\* What a writing statement that answers does but for the tables.
LEMMA AnswerFacts ==
  ASSUME TypeOK, NEW r \in Request, in[r] \in Inputs, NEW code \in {200, 201}, NEW values \in Session,
         RespondWithSession(r, code, values) \/ Respond(r, code) \/ LostAnswer(r)
  PROVE  /\ Goto(r, "done") /\ UNCHANGED crashes /\ cookie' \in [Client -> Session]
         /\ \E c \in {200, 201, 500} : status' = [status EXCEPT ![r] = c]
BY InputFields DEF RespondWithSession, Respond, LostAnswer, TypeOK

LEMMA RegisterType ==
  ASSUME TypeInv, NEW r \in Request, Register_InsertUser(r)
  PROVE  TypeInv'
<1> DEFINE row == [st |-> "active", username |-> in[r].username, email |-> in[r].email,
                   password |-> Hash(in[r].password), admin |-> in[r].admin]
<1>1. in[r] \in Inputs /\ in[r].op = "register" /\ r \in UserId /\ TypeOK
  BY DEF Register_InsertUser, At, TypeInv, LocalsOK, Statement, UserId
<1>2. row \in KnownUser
  BY <1>1, InputFields, HashType DEF KnownUser
<1>3. LoggedIn(r, row) \in Session
  BY <1>1, <1>2, LoggedInType
<1>4. /\ users' = [users EXCEPT ![r] = row]
      /\ RespondWithSession(r, 201, LoggedIn(r, row)) \/ LostAnswer(r)
      /\ UNCHANGED <<attempts, tokens, age, in, session, seen>>
  BY DEF Register_InsertUser
<1> HIDE DEF row
<1>5. /\ Goto(r, "done") /\ UNCHANGED crashes /\ cookie' \in [Client -> Session]
      /\ \E c \in {200, 201, 500} : status' = [status EXCEPT ![r] = c]
  BY <1>1, <1>3, <1>4, AnswerFacts
<1> QED BY <1>1, <1>2, <1>4, <1>5, WriteUserType

\* The row UpdateUser writes.
LEMMA UpdateUserType ==
  ASSUME NEW id, NEW row \in KnownUser, users[id] \in KnownUser
  PROVE  [row EXCEPT !.st = users[id].st] \in KnownUser
BY DEF KnownUser

LEMMA MergedUserType ==
  ASSUME NEW i \in Inputs, NEW old \in KnownUser
  PROVE  MergedUser(i, old) \in KnownUser
<1>1. Given(i.username, old.username) \in Username /\ Given(i.email, old.email) \in Email
  BY InputFields DEF Given, KnownUser
<1>2. (IF i.newPassword = None THEN old.password ELSE Hash(i.newPassword)) \in HashOf
  BY InputFields, HashType DEF KnownUser
<1> QED BY <1>1, <1>2 DEF MergedUser, KnownUser

LEMMA WriteType ==
  ASSUME TypeInv, NEW r \in Request, Login_Rehash(r) \/ Update_Update(r) \/ Delete_Archive(r)
  PROVE  TypeInv'
<1> DEFINE id == seen[r].id
           stale == seen[r].row
<1>1. /\ in[r] \in Inputs /\ id \in UserId /\ stale \in KnownUser
      /\ users[id] \in KnownUser /\ TypeOK
  BY DEF Login_Rehash, Update_Update, Delete_Archive, At, TypeInv, LocalsOK, Statement, Reading,
     Seen
<1>2. CASE Login_Rehash(r)
  <2> DEFINE user == [stale EXCEPT !.password = Hash(Garbled)]
             row == [user EXCEPT !.st = users[id].st]
  <2>1. user \in KnownUser
    BY <1>1, HashType DEF KnownUser
  <2>2. row \in KnownUser /\ LoggedIn(id, user) \in Session
    BY <1>1, <2>1, UpdateUserType, LoggedInType
  <2>3. /\ users' = [users EXCEPT ![id] = row]
        /\ RespondWithSession(r, 200, LoggedIn(id, user)) \/ LostAnswer(r)
        /\ UNCHANGED <<attempts, tokens, age, in, session, seen>>
    BY <1>2 DEF Login_Rehash, UpdateUser
  <2> HIDE DEF row, user, id, stale
  <2>4. /\ Goto(r, "done") /\ UNCHANGED crashes /\ cookie' \in [Client -> Session]
        /\ \E c \in {200, 201, 500} : status' = [status EXCEPT ![r] = c]
    BY <1>1, <2>2, <2>3, AnswerFacts
  <2> QED BY <1>1, <2>2, <2>3, <2>4, WriteUserType
<1>3. CASE Update_Update(r)
  <2> DEFINE user == MergedUser(in[r], stale)
             row == [user EXCEPT !.st = users[id].st]
  <2>1. row \in KnownUser
    BY <1>1, MergedUserType, UpdateUserType
  <2>2. /\ users' = [users EXCEPT ![id] = row]
        /\ Respond(r, 200) \/ LostAnswer(r)
        /\ UNCHANGED <<attempts, tokens, age, in, session, seen>>
    BY <1>3 DEF Update_Update, UpdateUser
  <2> HIDE DEF row, user, id, stale
  <2>3. /\ Goto(r, "done") /\ UNCHANGED crashes /\ cookie' \in [Client -> Session]
        /\ \E c \in {200, 201, 500} : status' = [status EXCEPT ![r] = c]
    BY <1>1, <2>2 DEF Respond, LostAnswer, TypeOK
  <2> QED BY <1>1, <2>1, <2>2, <2>3, WriteUserType
<1>4. CASE Delete_Archive(r)
  <2>1. [users[id] EXCEPT !.st = "archived"] \in KnownUser
    BY <1>1 DEF KnownUser
  <2>2. /\ users' = [users EXCEPT ![id] = [users[id] EXCEPT !.st = "archived"]]
        /\ Respond(r, 200) \/ LostAnswer(r)
        /\ UNCHANGED <<attempts, tokens, age, in, session, seen>>
    BY <1>4 DEF Delete_Archive
  <2> HIDE DEF id, stale
  <2>3. /\ Goto(r, "done") /\ UNCHANGED crashes /\ cookie' \in [Client -> Session]
        /\ \E c \in {200, 201, 500} : status' = [status EXCEPT ![r] = c]
    BY <1>1, <2>2 DEF Respond, LostAnswer, TypeOK
  <2> QED BY <1>1, <2>1, <2>2, <2>3, WriteUserType
<1> QED BY <1>2, <1>3, <1>4

LEMMA InsertAttemptType ==
  ASSUME TypeInv, NEW r \in Request, Login_InsertAttempt(r)
  PROVE  TypeInv'
<1> USE DEF TypeInv, TypeOK
<1> DEFINE user == seen[r].row
           valid == Matches(user.password, in[r].password)
<1>1. in[r] \in Inputs /\ in[r].op = "login" /\ seen[r].id \in UserId /\ user \in KnownUser
      /\ pc[r] \in Statement /\ pc[r] \in Reading
  BY DEF Login_InsertAttempt, At, LocalsOK, Statement, Reading, Seen
<1>2. attempts' \in [Request -> Attempt \cup {None}] /\ age' \in [Request -> 0..Window]
  <2>1. [username |-> in[r].username, successful |-> valid] \in Attempt
    BY <1>1, InputFields DEF Attempt, Matches
  <2>2. 0 \in 0..Window
    BY ConstantsAssumption
  <2> QED BY <2>1, <2>2 DEF Login_InsertAttempt
<1>3. LoggedIn(seen[r].id, user) \in Session
  BY <1>1, LoggedInType
<1>4. cookie' \in [Client -> Session]
  BY <1>1, <1>3, InputFields
     DEF Login_InsertAttempt, Respond, RespondWithSession, Continue, LostAnswer
<1>5. Passing(r)
  BY <1>1 DEF Login_InsertAttempt, Respond, RespondWithSession, Continue, LostAnswer, Passing, Label,
     Statement, Reading, Goto
<1> QED BY <1>2, <1>4, <1>5, PassingType DEF Login_InsertAttempt

LEMMA OtherHandlersType ==
  ASSUME TypeInv, NEW r \in Request,
         \/ Register_Exists(r) \/ Login_Exhausted(r) \/ Login_Find(r) \/ Logout(r)
         \/ Update_Find(r) \/ Delete_Find(r)
         \/ Forgot_Find(r) \/ Forgot_TokenExists(r) \/ Forgot_InsertToken(r) \/ StatementFails(r)
  PROVE  TypeInv'
<1> USE DEF TypeInv, TypeOK
<1>1. ASSUME Passing(r), UNCHANGED <<attempts, tokens, age, cookie>> PROVE TypeInv'
  BY <1>1, PassingType
<1>2. CASE Register_Exists(r)
  BY <1>1, <1>2 DEF Register_Exists, At, Respond, Continue, Goto, Passing, Label, Statement, Reading,
     tables
<1>3. CASE Login_Exhausted(r)
  BY <1>1, <1>3 DEF Login_Exhausted, At, Respond, Continue, Goto, Passing, Label, Statement, Reading,
     tables
<1>4. CASE Login_Find(r)
  <2>1. UsersNamed(in[r].username) \in SUBSET Active
    BY DEF UsersNamed
  <2> QED BY <1>4, <2>1, FindType DEF Login_Find, At, Statement, Reading
<1>5. CASE Logout(r)
  <2> DEFINE values == session[r]
  <2>1. values \in Session /\ in[r] \in Inputs
    BY <1>5 DEF Logout, At, LocalsOK, Statement
  <2> HIDE DEF values
  <2>2. [values EXCEPT !.authorized = FALSE] \in Session
    BY <2>1 DEF Session
  <2>3. cookie' \in [Client -> Session]
    BY <1>5, <2>1, <2>2, InputFields DEF Logout, RespondWithSession, values
  <2>4. Passing(r) /\ UNCHANGED <<attempts, tokens, age>>
    BY <1>5 DEF Logout, At, RespondWithSession, Goto, Passing, Label, Statement, Reading, tables
  <2> QED BY <2>3, <2>4, PassingType
<1>6. CASE Update_Find(r)
  <2> DEFINE found == Active \cap {in[r].user}
  <2>1. \/ Find(r, found, "update")
        \/ Respond(r, 401) /\ UNCHANGED <<tables, in, session, seen>>
    BY <1>6 DEF Update_Find
  <2>2. CASE Find(r, found, "update")
    BY <1>6, <2>2, FindType DEF Update_Find, At, Statement, Reading
  <2>3. CASE Respond(r, 401) /\ UNCHANGED <<tables, in, session, seen>>
    BY <1>1, <2>3 DEF Respond, Goto, Passing, Label, Statement, Reading, tables
  <2> QED BY <2>1, <2>2, <2>3
<1>7. CASE Delete_Find(r)
  <2> DEFINE found == Active \cap {in[r].user}
  <2>1. \/ Find(r, found, "archive")
        \/ Respond(r, 403) /\ UNCHANGED <<tables, in, session, seen>>
    BY <1>7 DEF Delete_Find
  <2>2. CASE Find(r, found, "archive")
    BY <1>7, <2>2, FindType DEF Delete_Find, At, Statement, Reading
  <2>3. CASE Respond(r, 403) /\ UNCHANGED <<tables, in, session, seen>>
    BY <1>1, <2>3 DEF Respond, Goto, Passing, Label, Statement, Reading, tables
  <2> QED BY <2>1, <2>2, <2>3
<1>8. CASE Forgot_Find(r)
  <2>1. UsersNamed(in[r].username) \in SUBSET Active
    BY DEF UsersNamed
  <2> QED BY <1>8, <2>1, FindType DEF Forgot_Find, At, Statement, Reading
<1>9. CASE Forgot_TokenExists(r)
  BY <1>1, <1>9 DEF Forgot_TokenExists, At, Respond, Continue, Goto, Passing, Label, Statement,
     Reading, tables
<1>10. CASE Forgot_InsertToken(r)
  <2>1. 0 \in 0..Window
    BY ConstantsAssumption
  <2>2. [user |-> seen[r].id, left |-> 0] \in Token
    BY <1>10, <2>1 DEF Forgot_InsertToken, At, LocalsOK, Reading, Seen, Token
  <2>3. tokens' \in [Request -> Token \cup {None}] /\ age' \in [Request -> 0..Window]
    BY <1>10, <2>1, <2>2 DEF Forgot_InsertToken
  <2>4. Passing(r) /\ UNCHANGED <<attempts, cookie>>
    BY <1>10 DEF Forgot_InsertToken, At, Respond, LostAnswer, Goto, Passing, Label, Statement, Reading
  <2> QED BY <2>3, <2>4, PassingType
<1>11. CASE StatementFails(r)
  <2>1. Respond(r, 400) \/ Respond(r, 500)
    BY <1>11 DEF StatementFails
  <2>2. UNCHANGED <<users, attempts, tokens, age, in, session, seen>>
    BY <1>11 DEF StatementFails, tables
  <2>3. CASE Respond(r, 400)
    BY <1>1, <2>2, <2>3 DEF Respond, Goto, Passing, Label, Statement, Reading
  <2>4. CASE Respond(r, 500)
    BY <1>1, <2>2, <2>4 DEF Respond, Goto, Passing, Label, Statement, Reading
  <2> QED BY <2>1, <2>3, <2>4
<1> QED BY <1>2, <1>3, <1>4, <1>5, <1>6, <1>7, <1>8, <1>9, <1>10, <1>11

LEMMA CrashType == TypeInv /\ ServerCrash => TypeInv'
<1> SUFFICES ASSUME TypeInv, ServerCrash PROVE TypeInv'
  OBVIOUS
<1> USE DEF TypeInv, TypeOK, LocalsOK
<1>1. crashes' \in 0..MaxCrashes
  BY ConstantsAssumption DEF ServerCrash
<1>2. pc' \in [Request -> Label]
  BY DEF ServerCrash, Label
<1>3. TypeOK'
  BY <1>1, <1>2 DEF ServerCrash, tables
<1>4. LocalsOK'
  BY DEF ServerCrash, Statement, Reading, tables
<1> QED BY <1>3, <1>4

LEMMA TickType == TypeInv /\ Tick => TypeInv'
<1> SUFFICES ASSUME TypeInv, Tick PROVE TypeInv'
  OBVIOUS
<1> USE DEF TypeInv, TypeOK, LocalsOK
<1>1. age' \in [Request -> 0..Window]
  BY ConstantsAssumption DEF Tick
<1>2. ASSUME NEW r \in Request, tokens[r] # None, tokens[r].left > 0
      PROVE  [tokens[r] EXCEPT !.left = @ - 1] \in Token
  <2> DEFINE token == tokens[r]
  <2>1. token \in Token /\ token.left > 0
    BY <1>2
  <2>2. Window \in Nat
    BY ConstantsAssumption
  <2> HIDE DEF token
  <2>3. [token EXCEPT !.left = @ - 1] \in Token
    BY <2>1, <2>2 DEF Token
  <2> QED BY <2>3 DEF token
<1>3. tokens' \in [Request -> Token \cup {None}]
  BY <1>2 DEF Tick
<1>4. UNCHANGED <<users, attempts, cookie, pc, in, status, session, seen, crashes>>
  BY DEF Tick
<1> QED BY <1>1, <1>3, <1>4

LEMMA TypeNext == TypeInv /\ [Next]_vars => TypeInv'
<1> SUFFICES ASSUME TypeInv, [Next]_vars PROVE TypeInv'
  OBVIOUS
<1>1. CASE UNCHANGED vars
  BY <1>1 DEF vars, tables, TypeInv, TypeOK, LocalsOK
<1>2. CASE \E r \in Request : Arrive(r) \/ Handle(r)
  BY <1>2, ArriveType, RegisterType, WriteType, InsertAttemptType, OtherHandlersType DEF Handle
<1> QED BY <1>1, <1>2, CrashType, TickType DEF Next

LEMMA TypeInvariant == Spec => []TypeInv
BY TypeInit, TypeNext, PTL DEF Spec

\* Every row, session and answer is of its kind: a PATCH never blanks a column
\* of users, whatever its body leaves out (mergo.Merge fills it in).
THEOREM AccountsTypeCorrect == Spec => []TypeOK
<1>1. TypeInv => TypeOK
  BY DEF TypeInv
<1> QED BY TypeInvariant, <1>1, PTL

-----------------------------------------------------------------------------
(* Deleted users and sessions *)

Unborn == {"idle", "exists", "insertUser"}

Truthful(s, rows) ==
  s.user # None => rows[s.user].st # "absent" /\ s.admin = rows[s.user].admin

\* A request inserts its user once, in a row nobody has seen; what handlers and
\* clients hold of a user agrees with its row on is_admin, which no statement
\* changes.
SafeInv ==
  /\ \A r \in Request : pc[r] \in Unborn => users[r].st = "absent"
  /\ \A c \in Client : Truthful(cookie[c], users)
  /\ \A r \in Request : Truthful(session[r], users)
  /\ \A r \in Request : pc[r] \in Reading => seen[r].row.admin = users[seen[r].id].admin

\* What a step may do to a row.
KeepsRow(old, new) ==
  /\ old.st # "absent" => new.st # "absent" /\ new.admin = old.admin
  /\ old.st = "archived" => new.st = "archived"

Keeps == \A u \in UserId : KeepsRow(users[u], users'[u])

LEMMA SafeInit == Init => SafeInv
<1>1. \A r \in Request : r \in UserId /\ r \notin SeedId
  BY ConstantsAssumption DEF SeedId, UserId, Request
<1> QED BY <1>1 DEF Init, SafeInv, Unborn, Reading, Truthful, NoSession, NoUser

\* Users who keep their is_admin keep the sessions and the copies true.
LEMMA KeepsSafe ==
  ASSUME TypeInv, TypeInv', SafeInv, Keeps,
         \A q \in Request : pc'[q] \in Unborn => pc[q] \in Unborn /\ users'[q] = users[q],
         \A c \in Client : cookie'[c] = cookie[c] \/ Truthful(cookie'[c], users'),
         \A q \in Request : session'[q] = session[q] \/ Truthful(session'[q], users'),
         \A q \in Request : pc'[q] \in Reading =>
           \/ pc[q] \in Reading /\ seen'[q] = seen[q]
           \/ seen'[q].row.admin = users'[seen'[q].id].admin
  PROVE  SafeInv'
<1>1. \A s \in Session : Truthful(s, users) => Truthful(s, users')
  BY DEF Keeps, KeepsRow, Truthful, Session
<1>2. \A r \in Request : (pc[r] \in Unborn => users[r].st = "absent")'
  BY DEF SafeInv
<1>3. \A c \in Client : Truthful(cookie[c], users)'
  <2> SUFFICES ASSUME NEW c \in Client PROVE Truthful(cookie'[c], users')
    BY DEF Truthful
  <2>1. cookie[c] \in Session /\ Truthful(cookie[c], users)
    BY DEF SafeInv, TypeInv, TypeOK
  <2> QED BY <1>1, <2>1
<1>4. \A r \in Request : Truthful(session[r], users)'
  <2> SUFFICES ASSUME NEW r \in Request PROVE Truthful(session'[r], users')
    BY DEF Truthful
  <2>1. session[r] \in Session /\ Truthful(session[r], users)
    BY DEF SafeInv, TypeInv, TypeOK
  <2> QED BY <1>1, <2>1
<1>5. \A r \in Request : (pc[r] \in Reading => seen[r].row.admin = users[seen[r].id].admin)'
  <2> SUFFICES ASSUME NEW r \in Request, pc'[r] \in Reading, pc[r] \in Reading, seen'[r] = seen[r]
               PROVE  seen[r].row.admin = users'[seen[r].id].admin
    OBVIOUS
  <2>1. seen[r].id \in UserId /\ users[seen[r].id].st # "absent"
    BY DEF TypeInv, LocalsOK, Seen, KnownUser
  <2>2. seen[r].row.admin = users[seen[r].id].admin
    BY DEF SafeInv
  <2> QED BY <2>1, <2>2 DEF Keeps, KeepsRow
<1> QED BY <1>2, <1>3, <1>4, <1>5 DEF SafeInv

\* A handler that writes no user and hands out no session.
LEMMA QuietSafe ==
  ASSUME TypeInv, TypeInv', SafeInv, NEW r \in Request, NEW label \in Label, Goto(r, label),
         label \in Unborn => pc[r] \in Unborn, label \in Reading => pc[r] \in Reading,
         UNCHANGED <<users, cookie, session, seen>>
  PROVE  SafeInv'
<1>1. Keeps
  BY DEF Keeps, KeepsRow
<1>2. \A q \in Request : /\ pc'[q] \in Unborn => pc[q] \in Unborn
                         /\ pc'[q] \in Reading => pc[q] \in Reading
  BY DEF Goto, TypeInv, TypeOK
<1> QED BY <1>1, <1>2, KeepsSafe

\* A handler that answers, with a session or without one.
LEMMA AnswerSafe ==
  ASSUME TypeInv, TypeInv', SafeInv, NEW r \in Request, Keeps, Goto(r, "done"),
         NEW s, Truthful(s, users'),
         \A q \in Request : q = r \/ users'[q] = users[q] \/ pc[q] \notin Unborn,
         cookie' = cookie \/ cookie' = [cookie EXCEPT ![in[r].client] = s],
         UNCHANGED <<session, seen>>
  PROVE  SafeInv'
<1>1. \A q \in Request : pc'[q] \in Unborn \cup Reading => pc'[q] = pc[q] /\ q # r
  BY DEF Goto, TypeInv, TypeOK, Unborn, Reading
<1>2. \A c \in Client : cookie'[c] = cookie[c] \/ Truthful(cookie'[c], users')
  BY DEF TypeInv, TypeOK
<1> QED BY <1>1, <1>2, KeepsSafe

LEMMA ArriveSafe ==
  ASSUME TypeInv, TypeInv', SafeInv, NEW r \in Request, Arrive(r)
  PROVE  SafeInv'
<1>1. PICK i \in Inputs :
        /\ session' = [session EXCEPT ![r] = cookie[i.client]]
        /\ Goto(r, "done") \/ Goto(r, FirstStatement(i.op))
        /\ UNCHANGED cookie
  BY DEF Arrive, Respond, Continue
<1>2. pc[r] = "idle" /\ UNCHANGED <<users, seen>>
  BY DEF Arrive, tables
<1>3. FirstStatement(i.op) \notin Reading
  BY DEF FirstStatement, Reading
<1>4. Keeps
  BY <1>2 DEF Keeps, KeepsRow
<1>5. \A q \in Request : /\ pc'[q] \in Unborn => pc[q] \in Unborn
                         /\ pc'[q] \in Reading => pc[q] \in Reading
  BY <1>1, <1>2, <1>3 DEF Goto, TypeInv, TypeOK, Unborn, Reading
<1>6. Truthful(cookie[i.client], users)
  BY InputFields DEF SafeInv
<1>7. \A q \in Request : session'[q] = session[q] \/ Truthful(session'[q], users')
  BY <1>1, <1>2, <1>6 DEF TypeInv, TypeOK
<1> QED BY <1>1, <1>2, <1>4, <1>5, <1>7, KeepsSafe

LEMMA FindSafe ==
  ASSUME TypeInv, TypeInv', SafeInv, NEW r \in Request, NEW ids \in SUBSET Active,
         NEW next \in Reading, Find(r, ids, next)
  PROVE  SafeInv'
<1>1. UNCHANGED <<users, cookie, session>>
  BY DEF Find, Respond, Continue, tables
<1>2. Keeps
  BY <1>1 DEF Keeps, KeepsRow
<1>3. CASE Respond(r, 404) /\ UNCHANGED seen
  BY <1>1, <1>3, QuietSafe DEF Respond, Label, Unborn, Reading, Statement
<1>4. CASE \E id \in ids : /\ seen' = [seen EXCEPT ![r] = [id |-> id, row |-> users[id]]]
                           /\ Continue(r, next)
  <2>1. PICK id \in ids : /\ seen' = [seen EXCEPT ![r] = [id |-> id, row |-> users[id]]]
                          /\ Goto(r, next)
    BY <1>4 DEF Continue
  <2>2. \A q \in Request : pc'[q] \in Unborn => pc[q] \in Unborn
    BY <2>1 DEF Goto, TypeInv, TypeOK, Unborn, Reading
  <2>3. \A q \in Request : q # r /\ pc'[q] \in Reading => pc[q] \in Reading /\ seen'[q] = seen[q]
    BY <2>1 DEF Goto, TypeInv, TypeOK
  <2>4. seen'[r].row.admin = users'[seen'[r].id].admin
    BY <1>1, <2>1 DEF TypeInv, TypeOK
  <2> QED BY <1>1, <1>2, <2>2, <2>3, <2>4, KeepsSafe
<1> QED BY <1>3, <1>4 DEF Find

LEMMA RegisterSafe ==
  ASSUME TypeInv, TypeInv', SafeInv, NEW r \in Request, Register_InsertUser(r)
  PROVE  SafeInv'
<1> DEFINE row == [st |-> "active", username |-> in[r].username, email |-> in[r].email,
                   password |-> Hash(in[r].password), admin |-> in[r].admin]
           s == LoggedIn(r, row)
<1>1. /\ users' = [users EXCEPT ![r] = row]
      /\ RespondWithSession(r, 201, s) \/ LostAnswer(r)
      /\ UNCHANGED <<session, seen>>
  BY DEF Register_InsertUser
<1>2. users[r].st = "absent" /\ r \in UserId /\ users \in [UserId -> UserRow]
  BY DEF Register_InsertUser, At, SafeInv, Unborn, UserId, TypeInv, TypeOK
<1>3. Keeps /\ \A q \in Request : q = r \/ users'[q] = users[q]
  BY <1>1, <1>2 DEF Keeps, KeepsRow, UserId
<1>4. Truthful(s, users')
  BY <1>1, <1>2 DEF Truthful, LoggedIn
<1>5. Goto(r, "done") /\ (cookie' = cookie \/ cookie' = [cookie EXCEPT ![in[r].client] = s])
  BY <1>1 DEF RespondWithSession, LostAnswer, Respond
<1> HIDE DEF s
<1> QED BY <1>1, <1>3, <1>4, <1>5, AnswerSafe

\* A write of a row that keeps is_admin, and does not bring a user back.
LEMMA WriteKeeps ==
  ASSUME TypeInv, SafeInv, NEW id \in UserId, users[id].st # "absent", NEW row,
         KeepsRow(users[id], row), users' = [users EXCEPT ![id] = row]
  PROVE  Keeps /\ \A q \in Request : users'[q] = users[q] \/ pc[q] \notin Unborn
BY DEF Keeps, KeepsRow, TypeInv, TypeOK, SafeInv, UserId

LEMMA WriteSafe ==
  ASSUME TypeInv, TypeInv', SafeInv, NEW r \in Request,
         Login_Rehash(r) \/ Update_Update(r) \/ Delete_Archive(r)
  PROVE  SafeInv'
<1> DEFINE id == seen[r].id
           stale == seen[r].row
<1>1. /\ id \in UserId /\ stale \in KnownUser /\ users[id] \in KnownUser
      /\ stale.admin = users[id].admin
  BY DEF Login_Rehash, Update_Update, Delete_Archive, At, TypeInv, LocalsOK, Statement, Reading,
     Seen, SafeInv
<1>2. users[id].st # "absent" /\ users \in [UserId -> UserRow]
  BY <1>1 DEF KnownUser, TypeInv, TypeOK
<1>3. CASE Login_Rehash(r)
  <2> DEFINE user == [stale EXCEPT !.password = Hash(Garbled)]
             row == [user EXCEPT !.st = users[id].st]
             s == LoggedIn(id, user)
  <2>1. row.st = users[id].st /\ row.admin = users[id].admin /\ user.admin = users[id].admin
    BY <1>1 DEF KnownUser
  <2>2. /\ users' = [users EXCEPT ![id] = row]
        /\ RespondWithSession(r, 200, s) \/ LostAnswer(r)
        /\ UNCHANGED <<session, seen>>
    BY <1>3 DEF Login_Rehash, UpdateUser
  <2>3. Truthful(s, users')
    BY <1>1, <1>2, <2>1, <2>2 DEF Truthful, LoggedIn
  <2>4. Goto(r, "done") /\ (cookie' = cookie \/ cookie' = [cookie EXCEPT ![in[r].client] = s])
    BY <2>2 DEF RespondWithSession, LostAnswer, Respond
  <2>5. KeepsRow(users[id], row)
    BY <2>1 DEF KeepsRow
  <2> HIDE DEF row, s, user, id, stale
  <2>6. Keeps /\ \A q \in Request : users'[q] = users[q] \/ pc[q] \notin Unborn
    BY <1>1, <1>2, <2>2, <2>5, WriteKeeps
  <2> QED BY <2>2, <2>3, <2>4, <2>6, AnswerSafe
<1>4. ASSUME NEW row, KeepsRow(users[id], row), users' = [users EXCEPT ![id] = row],
             Goto(r, "done"), UNCHANGED <<cookie, session, seen>>
      PROVE  SafeInv'
  <2> HIDE DEF id, stale
  <2>1. Keeps /\ \A q \in Request : users'[q] = users[q] \/ pc[q] \notin Unborn
    BY <1>1, <1>2, <1>4, WriteKeeps
  <2>2. Truthful(NoSession, users')
    BY DEF Truthful, NoSession
  <2> QED BY <1>4, <2>1, <2>2, AnswerSafe
<1>5. CASE Update_Update(r)
  <2> DEFINE user == MergedUser(in[r], stale)
             row == [user EXCEPT !.st = users[id].st]
  <2>1. user.admin = users[id].admin /\ row.admin = user.admin /\ row.st = users[id].st
    BY <1>1 DEF MergedUser, KnownUser
  <2>2. users' = [users EXCEPT ![id] = row] /\ UNCHANGED <<session, seen>>
    BY <1>5 DEF Update_Update, UpdateUser
  <2>3. Goto(r, "done") /\ UNCHANGED cookie
    BY <1>5 DEF Update_Update, Respond, LostAnswer
  <2>4. KeepsRow(users[id], row)
    BY <2>1 DEF KeepsRow
  <2> HIDE DEF row, user, id, stale
  <2> QED BY <1>4, <2>2, <2>3, <2>4
<1>6. CASE Delete_Archive(r)
  <2> DEFINE row == [users[id] EXCEPT !.st = "archived"]
  <2>1. row.admin = users[id].admin /\ row.st = "archived"
    BY <1>1 DEF KnownUser
  <2>2. users' = [users EXCEPT ![id] = row] /\ UNCHANGED <<session, seen>>
    BY <1>6 DEF Delete_Archive
  <2>3. Goto(r, "done") /\ UNCHANGED cookie
    BY <1>6 DEF Delete_Archive, Respond, LostAnswer
  <2>4. KeepsRow(users[id], row)
    BY <2>1 DEF KeepsRow
  <2> HIDE DEF row, id, stale
  <2> QED BY <1>4, <2>2, <2>3, <2>4
<1> QED BY <1>3, <1>5, <1>6

LEMMA InsertAttemptSafe ==
  ASSUME TypeInv, TypeInv', SafeInv, NEW r \in Request, Login_InsertAttempt(r)
  PROVE  SafeInv'
<1> DEFINE s == LoggedIn(seen[r].id, seen[r].row)
<1>1. pc[r] \in Reading /\ UNCHANGED <<users, session, seen>>
  BY DEF Login_InsertAttempt, At, Reading
<1>2. Truthful(s, users')
  BY <1>1 DEF SafeInv, TypeInv, LocalsOK, KnownUser, Truthful, LoggedIn
<1>3. Keeps
  BY <1>1 DEF Keeps, KeepsRow
<1>4. CASE Goto(r, "rehash") /\ UNCHANGED cookie
  BY <1>1, <1>4, QuietSafe DEF Label, Statement, Reading, Unborn
<1>5. CASE Goto(r, "done") /\ (cookie' = cookie \/ cookie' = [cookie EXCEPT ![in[r].client] = s])
  <2> HIDE DEF s
  <2> QED BY <1>1, <1>2, <1>3, <1>5, AnswerSafe
<1> QED BY <1>4, <1>5 DEF Login_InsertAttempt, Respond, RespondWithSession, Continue, LostAnswer

LEMMA LogoutSafe ==
  ASSUME TypeInv, TypeInv', SafeInv, NEW r \in Request, Logout(r)
  PROVE  SafeInv'
<1> DEFINE s == [session[r] EXCEPT !.authorized = FALSE]
<1>1. UNCHANGED <<users, session, seen>> /\ Goto(r, "done")
      /\ cookie' = [cookie EXCEPT ![in[r].client] = s]
  BY DEF Logout, RespondWithSession, tables
<1>2. Truthful(s, users')
  BY <1>1 DEF SafeInv, TypeInv, TypeOK, Session, Truthful
<1>3. Keeps
  BY <1>1 DEF Keeps, KeepsRow
<1> HIDE DEF s
<1> QED BY <1>1, <1>2, <1>3, AnswerSafe

LEMMA OtherHandlersSafe ==
  ASSUME TypeInv, TypeInv', SafeInv, NEW r \in Request,
         \/ Register_Exists(r) \/ Login_Exhausted(r) \/ Login_Find(r)
         \/ Update_Find(r) \/ Delete_Find(r)
         \/ Forgot_Find(r) \/ Forgot_TokenExists(r) \/ Forgot_InsertToken(r) \/ StatementFails(r)
  PROVE  SafeInv'
<1>1. ASSUME NEW code, Respond(r, code), UNCHANGED <<users, session, seen>>
      PROVE  SafeInv'
  BY <1>1, QuietSafe DEF Respond, Label, Statement, Reading, Unborn
<1>2. CASE Register_Exists(r)
  <2>1. CASE Continue(r, "insertUser")
    BY <1>2, <2>1, QuietSafe DEF Register_Exists, At, Continue, Label, Statement, Reading, Unborn,
       tables
  <2> QED BY <1>1, <1>2, <2>1 DEF Register_Exists, tables
<1>3. CASE Login_Exhausted(r)
  <2>1. CASE Continue(r, "find")
    BY <1>3, <2>1, QuietSafe DEF Login_Exhausted, At, Continue, Label, Statement, Reading, Unborn,
       tables
  <2> QED BY <1>1, <1>3, <2>1 DEF Login_Exhausted, tables
<1>4. CASE Login_Find(r) \/ Forgot_Find(r)
  <2>1. UsersNamed(in[r].username) \in SUBSET Active
    BY DEF UsersNamed
  <2> QED BY <1>4, <2>1, FindSafe DEF Login_Find, Forgot_Find, Reading
<1>5. CASE Update_Find(r)
  <2> DEFINE found == Active \cap {in[r].user}
  <2>1. \/ Find(r, found, "update")
        \/ Respond(r, 401) /\ UNCHANGED <<users, session, seen>>
    BY <1>5 DEF Update_Find, tables
  <2> QED BY <1>1, <2>1, FindSafe DEF Reading
<1>6. CASE Delete_Find(r)
  <2> DEFINE found == Active \cap {in[r].user}
  <2>1. \/ Find(r, found, "archive")
        \/ Respond(r, 403) /\ UNCHANGED <<users, session, seen>>
    BY <1>6 DEF Delete_Find, tables
  <2> QED BY <1>1, <2>1, FindSafe DEF Reading
<1>7. CASE Forgot_TokenExists(r)
  <2>1. CASE Continue(r, "insertToken")
    BY <1>7, <2>1, QuietSafe DEF Forgot_TokenExists, At, Continue, Label, Statement, Reading, Unborn,
       tables
  <2> QED BY <1>1, <1>7, <2>1 DEF Forgot_TokenExists, tables
<1>8. CASE Forgot_InsertToken(r)
  BY <1>1, <1>8 DEF Forgot_InsertToken, LostAnswer
<1>9. CASE StatementFails(r)
  BY <1>1, <1>9 DEF StatementFails, tables
<1> QED BY <1>2, <1>3, <1>4, <1>5, <1>6, <1>7, <1>8, <1>9

LEMMA SafeNext == TypeInv /\ TypeInv' /\ SafeInv /\ [Next]_vars => SafeInv'
<1> SUFFICES ASSUME TypeInv, TypeInv', SafeInv, [Next]_vars PROVE SafeInv'
  OBVIOUS
<1>1. ASSUME UNCHANGED <<users, cookie, session, seen>>,
             \A q \in Request : pc'[q] = pc[q] \/ pc'[q] \notin Unborn \cup Reading
      PROVE  SafeInv'
  <2>1. Keeps
    BY <1>1 DEF Keeps, KeepsRow
  <2> QED BY <1>1, <2>1, KeepsSafe
<1>2. CASE UNCHANGED vars
  BY <1>1, <1>2 DEF vars, tables
<1>3. CASE \E r \in Request : Arrive(r) \/ Handle(r)
  BY <1>3, ArriveSafe, RegisterSafe, WriteSafe, InsertAttemptSafe, LogoutSafe, OtherHandlersSafe
     DEF Handle
<1>4. CASE ServerCrash
  BY <1>1, <1>4 DEF ServerCrash, Unborn, Reading, tables
<1>5. CASE Tick
  BY <1>1, <1>5 DEF Tick
<1> QED BY <1>2, <1>3, <1>4, <1>5 DEF Next

LEMMA SafeInvariant == Spec => []SafeInv
BY TypeInit, TypeNext, SafeInit, SafeNext, PTL DEF Spec

\* The session a client holds says of its user what its row says, at any time:
\* no PATCH and no stale row a login writes back changes is_admin.
THEOREM SessionsAreTruthful == Spec => []CookiesMatchUsers
<1>1. SafeInv /\ TypeInv => CookiesMatchUsers
  BY DEF SafeInv, TypeInv, TypeOK, Session, Truthful, CookiesMatchUsers
<1> QED BY SafeInvariant, TypeInvariant, <1>1, PTL

-----------------------------------------------------------------------------
(* The users as rows that are deleted softly *)

LEMMA SoftStep ==
  ASSUME TypeInv, TypeInv', SafeInv, [Next]_vars
  PROVE  [Soft!Next]_userState
<1>1. userState \in [UserId -> Soft!States] /\ userState' \in [UserId -> Soft!States]
  BY DEF userState, TypeInv, TypeOK, UserRow, KnownUser, NoUser, Soft!States
<1>2. CASE UNCHANGED users
  BY <1>2 DEF userState
<1>3. CASE \E r \in Request : Register_InsertUser(r)
  <2>1. PICK r \in Request : Register_InsertUser(r)
    BY <1>3
  <2>2. users[r].st = "absent" /\ users \in [UserId -> UserRow] /\ r \in UserId
    BY <2>1 DEF Register_InsertUser, At, SafeInv, Unborn, TypeInv, TypeOK, UserId
  <2>3. \A u \in UserId : users'[u] = users[u] \/ (users[u].st = "absent" /\ users'[u].st = "active")
    BY <2>1, <2>2 DEF Register_InsertUser
  <2>4. Soft!Create
    BY <1>1, <2>3 DEF Soft!Create, Soft!Turns, userState
  <2> QED BY <2>4 DEF Soft!Next
<1>4. CASE \E r \in Request : Login_Rehash(r) \/ Update_Update(r) \/ Delete_Archive(r)
  <2>1. PICK r \in Request : Login_Rehash(r) \/ Update_Update(r) \/ Delete_Archive(r)
    BY <1>4
  <2> DEFINE id == seen[r].id
             stale == seen[r].row
  <2>2. /\ id \in UserId /\ stale \in KnownUser /\ users[id] \in KnownUser
        /\ users \in [UserId -> UserRow]
    BY <2>1 DEF Login_Rehash, Update_Update, Delete_Archive, At, TypeInv, TypeOK, LocalsOK,
       Statement, Reading, Seen
  <2>3. CASE Login_Rehash(r) \/ Update_Update(r)
    <3>1. PICK user \in KnownUser : users' = [users EXCEPT ![id] = [user EXCEPT !.st = users[id].st]]
      <4>1. in[r] \in Inputs
        BY <2>3 DEF Login_Rehash, Update_Update, At, TypeInv, LocalsOK, Statement
      <4>2. MergedUser(in[r], stale) \in KnownUser
        <5> HIDE DEF stale
        <5> QED BY <2>2, <4>1, MergedUserType
      <4>3. [stale EXCEPT !.password = Hash(Garbled)] \in KnownUser
        BY <2>2, HashType DEF KnownUser
      <4> QED BY <2>3, <4>2, <4>3 DEF Login_Rehash, Update_Update, UpdateUser
    <3>2. \A u \in UserId : users'[u].st = users[u].st
      BY <2>2, <3>1 DEF KnownUser
    <3> QED BY <3>2 DEF userState
  <2>4. CASE Delete_Archive(r)
    <3>1. \A u \in UserId :
            users'[u] = users[u]
            \/ (users[u].st \in {"active", "archived"} /\ users'[u].st = "archived")
      BY <2>2, <2>4 DEF Delete_Archive, KnownUser
    <3>2. Soft!Archive
      BY <1>1, <3>1 DEF Soft!Archive, Soft!Turns, userState
    <3> QED BY <3>2 DEF Soft!Next
  <2> QED BY <2>1, <2>3, <2>4
<1> QED
  BY <1>2, <1>3, <1>4, ZenonT(30)
     DEF Next, Handle, vars, tables, Arrive, Register_Exists, Login_Exhausted, Login_Find,
         Login_InsertAttempt, Logout, Update_Find, Delete_Find, Find, Forgot_Find,
         Forgot_TokenExists, Forgot_InsertToken, StatementFails, ServerCrash, Tick

\* A deleted user stays deleted, whoever writes its row back as it was: users
\* implement rows that are created once and archived at most once.
THEOREM UsersImplementSoftDelete == Spec => UsersAreSoftDeleted
<1>1. TypeInv => Soft!Init
  BY DEF userState, TypeInv, TypeOK, UserRow, KnownUser, NoUser, Soft!Init, Soft!TypeOK, Soft!States
<1>2. TypeInv /\ TypeInv' /\ SafeInv /\ [Next]_vars => [Soft!Next]_userState
  BY SoftStep
<1> QED
  BY <1>1, <1>2, TypeInit, TypeInvariant, SafeInvariant, PTL DEF Spec, UsersAreSoftDeleted, Soft!Spec

-----------------------------------------------------------------------------
(* The throttle *)

Clearing == {"find", "insertAttempt"}

\* The logins that found the throttle open and have not recorded their attempt.
Cleared(u) == {q \in Request : pc[q] \in Clearing /\ in[q].op = "login" /\ in[q].username = u}

\* Recent attempts are not bounded inductively: those still to come count too.
Counted(u) == Recent(u) \cup Cleared(u)

BoundInv ==
  /\ Cardinality(InFlight) <= MaxInFlight
  /\ \A r \in Request : attempts[r] # None => pc[r] # "idle" /\ in[r].op = "login"
  /\ \A u \in Username : Cardinality(Counted(u)) <= Limit - 1 + MaxInFlight

LEMMA FiniteRequests ==
  /\ IsFiniteSet(Request)
  /\ \A S : S \subseteq Request => IsFiniteSet(S) /\ Cardinality(S) \in Nat
  /\ \A S, T : T \subseteq Request /\ S \subseteq T => Cardinality(S) <= Cardinality(T)
<1>1. IsFiniteSet(Request)
  BY ConstantsAssumption, FS_Interval DEF Request
<1>2. ASSUME NEW S, S \subseteq Request PROVE IsFiniteSet(S) /\ Cardinality(S) \in Nat
  BY <1>1, <1>2, FS_Subset, FS_CardinalityType
<1>3. ASSUME NEW S, NEW T, T \subseteq Request, S \subseteq T PROVE Cardinality(S) <= Cardinality(T)
  BY <1>2, <1>3, FS_Subset
<1> QED BY <1>1, <1>2, <1>3

LEMMA BoundInit == Init => BoundInv
<1> SUFFICES ASSUME Init PROVE BoundInv
  OBVIOUS
<1>1. InFlight = {}
  BY DEF Init, InFlight, Statement
<1>2. \A u : Recent(u) = {} /\ Cleared(u) = {}
  BY DEF Init, Recent, Cleared, Clearing
<1>3. \A u : Counted(u) = {}
  BY <1>2 DEF Counted
<1>4. Cardinality({}) = 0
  BY FS_EmptySet
<1>5. MaxInFlight \in Nat /\ MaxInFlight >= 0 /\ Limit - 1 + MaxInFlight >= 0
  BY ConstantsAssumption
<1>6. \A r \in Request : attempts[r] = None
  BY DEF Init
<1>7. Cardinality(InFlight) <= MaxInFlight
  BY <1>1, <1>4, <1>5
<1>8. \A u \in Username : Cardinality(Counted(u)) <= Limit - 1 + MaxInFlight
  BY <1>3, <1>4, <1>5
<1> QED BY <1>6, <1>7, <1>8 DEF BoundInv

\* A step that clears nobody and records nothing new.
LEMMA ShrinkingBound ==
  ASSUME BoundInv, InFlight' \subseteq InFlight,
         \A r \in Request : attempts'[r] # None => pc'[r] # "idle" /\ in'[r].op = "login",
         \A u \in Username : Counted(u)' \subseteq Counted(u)
  PROVE  BoundInv'
<1>1. InFlight \subseteq Request /\ InFlight' \subseteq Request
  BY DEF InFlight
<1>2. \A u \in Username : Counted(u) \subseteq Request /\ Counted(u)' \subseteq Request
  BY DEF Counted, Recent, Cleared
<1>3. MaxInFlight \in Nat /\ Limit \in Nat
  BY ConstantsAssumption
<1>4. Cardinality(InFlight)' <= MaxInFlight
  <2>1. Cardinality(InFlight') <= Cardinality(InFlight) /\ Cardinality(InFlight) \in Nat
        /\ Cardinality(InFlight') \in Nat
    BY <1>1, FiniteRequests
  <2> QED BY <1>3, <2>1 DEF BoundInv
<1>5. ASSUME NEW u \in Username PROVE Cardinality(Counted(u))' <= Limit - 1 + MaxInFlight
  <2>1. Cardinality(Counted(u)') <= Cardinality(Counted(u)) /\ Cardinality(Counted(u)) \in Nat
        /\ Cardinality(Counted(u)') \in Nat
    BY <1>2, FiniteRequests
  <2> QED BY <1>3, <2>1 DEF BoundInv
<1> QED BY <1>4, <1>5 DEF BoundInv

\* What most handlers do: their request goes on, the throttle behind or out of
\* its way.
LEMMA HandlerBound ==
  ASSUME TypeOK, BoundInv, NEW r \in Request, NEW label, Goto(r, label),
         pc[r] \in Statement, label \in Statement \cup {"done"},
         label \in Clearing => pc[r] \in Clearing \/ in[r].op # "login",
         UNCHANGED <<attempts, in>>, age' \in [Request -> 0..Window],
         \A q \in Request : age'[q] = age[q] \/ (q = r /\ in[r].op # "login")
  PROVE  BoundInv'
<1>1. pc' = [pc EXCEPT ![r] = label] /\ pc \in [Request -> Label]
  BY DEF Goto, TypeOK
<1>2. InFlight' \subseteq InFlight
  BY <1>1 DEF InFlight
<1>3. \A q \in Request : attempts'[q] # None => pc'[q] # "idle" /\ in'[q].op = "login"
  BY <1>1 DEF BoundInv, Statement
<1>4. ASSUME NEW u \in Username PROVE Counted(u)' \subseteq Counted(u)
  <2>1. Cleared(u)' \subseteq Cleared(u)
    BY <1>1 DEF Cleared
  <2>2. Recent(u)' \subseteq Recent(u)
    BY DEF Recent, BoundInv
  <2> QED BY <2>1, <2>2 DEF Counted
<1> QED BY <1>2, <1>3, <1>4, ShrinkingBound

LEMMA ArriveBound ==
  ASSUME TypeOK, BoundInv, NEW r \in Request, Arrive(r)
  PROVE  BoundInv'
<1>1. PICK i \in Inputs :
        /\ in' = [in EXCEPT ![r] = i]
        /\ Goto(r, "done") \/ Goto(r, FirstStatement(i.op))
  BY DEF Arrive, Respond, Continue
<1>2. pc[r] = "idle" /\ UNCHANGED <<attempts, age>> /\ Cardinality(InFlight) < MaxInFlight
  BY DEF Arrive, tables
<1>3. FirstStatement(i.op) # "idle" /\ (FirstStatement(i.op) \in Clearing => i.op # "login")
  BY DEF FirstStatement, Clearing
<1>4. pc'[r] # "idle" /\ \A q \in Request : q # r => pc'[q] = pc[q] /\ in'[q] = in[q]
  BY <1>1, <1>3 DEF Goto, TypeOK
<1>5. pc'[r] \in Clearing => in'[r].op # "login"
  BY <1>1, <1>3 DEF Goto, TypeOK, Clearing
<1>6. \A q \in Request : attempts'[q] # None => pc'[q] # "idle" /\ in'[q].op = "login"
  BY <1>2, <1>4 DEF BoundInv
<1>7. ASSUME NEW u \in Username PROVE Counted(u)' \subseteq Counted(u)
  <2>1. Cleared(u)' \subseteq Cleared(u)
    BY <1>4, <1>5 DEF Cleared
  <2>2. Recent(u)' = Recent(u)
    BY <1>2 DEF Recent
  <2> QED BY <2>1, <2>2 DEF Counted
<1>8. Cardinality(InFlight)' <= MaxInFlight
  <2>1. InFlight' \subseteq InFlight \cup {r} /\ InFlight \cup {r} \subseteq Request
        /\ InFlight \subseteq Request
    BY <1>4 DEF InFlight
  <2>2. Cardinality(InFlight \cup {r}) <= Cardinality(InFlight) + 1
    BY <2>1, FiniteRequests, FS_AddElement
  <2>3. Cardinality(InFlight') <= Cardinality(InFlight \cup {r})
    BY <2>1, FiniteRequests
  <2>4. Cardinality(InFlight) \in Nat /\ Cardinality(InFlight') \in Nat
        /\ Cardinality(InFlight \cup {r}) \in Nat
    BY <2>1, FiniteRequests
  <2>5. MaxInFlight \in Nat
    BY ConstantsAssumption
  <2> QED BY <1>2, <2>2, <2>3, <2>4, <2>5
<1>9. ASSUME NEW u \in Username PROVE Cardinality(Counted(u))' <= Limit - 1 + MaxInFlight
  <2>1. Counted(u) \subseteq Request /\ Counted(u)' \subseteq Request
    BY DEF Counted, Recent, Cleared
  <2>2. Cardinality(Counted(u)') <= Cardinality(Counted(u)) /\ Cardinality(Counted(u)) \in Nat
        /\ Cardinality(Counted(u)') \in Nat
    BY <1>7, <2>1, FiniteRequests
  <2>3. MaxInFlight \in Nat /\ Limit \in Nat
    BY ConstantsAssumption
  <2> QED BY <2>2, <2>3 DEF BoundInv
<1> QED BY <1>6, <1>8, <1>9 DEF BoundInv

\* The throttle is open: with this login, those it has let through and not heard
\* from are at most all that are in flight.
LEMMA ExhaustedBound ==
  ASSUME TypeOK, BoundInv, NEW r \in Request, Login_Exhausted(r)
  PROVE  BoundInv'
<1>1. UNCHANGED <<attempts, age, in>> /\ pc[r] = "exhausted" /\ in[r].op = "login"
  BY DEF Login_Exhausted, At, tables
<1>2. CASE Respond(r, 401)
  BY <1>1, <1>2, HandlerBound DEF Respond, Statement, Clearing, TypeOK
<1>3. CASE ~LoginAttemptsHaveBeenExhausted(in[r].username) /\ Continue(r, "find")
  <2> DEFINE name == in[r].username
  <2>1. pc' = [pc EXCEPT ![r] = "find"] /\ pc \in [Request -> Label]
    BY <1>3 DEF Continue, Goto, TypeOK
  <2>2. InFlight' = InFlight /\ InFlight \subseteq Request /\ r \in InFlight
    BY <1>1, <2>1 DEF InFlight, Statement
  <2>3. \A q \in Request : attempts'[q] # None => pc'[q] # "idle" /\ in'[q].op = "login"
    BY <1>1, <2>1 DEF BoundInv
  <2>4. ASSUME NEW u \in Username PROVE Cardinality(Counted(u))' <= Limit - 1 + MaxInFlight
    <3>1. Recent(u)' = Recent(u)
      BY <1>1 DEF Recent
    <3>2. Recent(u) \subseteq Request /\ Cleared(u) \subseteq Request
      BY DEF Recent, Cleared
    <3>3. MaxInFlight \in Nat /\ Limit \in Nat
      BY ConstantsAssumption
    <3>4. CASE u # name
      <4>1. Cleared(u)' = Cleared(u)
        BY <1>1, <2>1, <3>4 DEF Cleared
      <4> QED BY <3>1, <4>1 DEF Counted, BoundInv
    <3>5. CASE u = name
      <4>1. Cardinality(Recent(u)) < Limit
        <5>1. Cardinality(Recent(u)) \in Nat
          BY <3>2, FiniteRequests
        <5> QED BY <1>3, <3>3, <3>5, <5>1 DEF LoginAttemptsHaveBeenExhausted
      <4>2. Cleared(u)' \subseteq InFlight
        BY <1>1, <2>1, <2>2 DEF Cleared, Clearing, InFlight, Statement
      <4>3. Counted(u)' \subseteq Recent(u) \cup InFlight
        BY <3>1, <4>2 DEF Counted
      <4>4. Cardinality(Counted(u)') <= Cardinality(Recent(u) \cup InFlight)
        BY <2>2, <3>2, <4>3, FiniteRequests
      <4>5. /\ Cardinality(Recent(u) \cup InFlight)
               = Cardinality(Recent(u)) + Cardinality(InFlight) - Cardinality(Recent(u) \cap InFlight)
            /\ Cardinality(Recent(u) \cap InFlight) \in Nat
            /\ Cardinality(Recent(u)) \in Nat /\ Cardinality(InFlight) \in Nat
        BY <2>2, <3>2, FiniteRequests, FS_Union
      <4>6. Cardinality(Counted(u)') \in Nat
        BY <2>2, <3>2, <4>3, FiniteRequests
      <4> QED BY <3>3, <4>1, <4>4, <4>5, <4>6 DEF BoundInv
    <3> QED BY <3>4, <3>5
  <2> QED BY <2>2, <2>3, <2>4 DEF BoundInv
<1> QED BY <1>2, <1>3 DEF Login_Exhausted

LEMMA InsertAttemptBound ==
  ASSUME TypeInv, BoundInv, NEW r \in Request, Login_InsertAttempt(r)
  PROVE  BoundInv'
<1> DEFINE attempt == [username |-> in[r].username,
                       successful |-> Matches(seen[r].row.password, in[r].password)]
<1>1. attempts' = [attempts EXCEPT ![r] = attempt] /\ attempt.username = in[r].username
  BY DEF Login_InsertAttempt
<1> HIDE DEF attempt
<1>2. /\ pc[r] = "insertAttempt" /\ in[r].op = "login" /\ UNCHANGED in
      /\ age' = [age EXCEPT ![r] = 0]
  BY DEF Login_InsertAttempt, At
<1>3. Goto(r, "done") \/ Goto(r, "rehash")
  BY DEF Login_InsertAttempt, Respond, RespondWithSession, Continue, LostAnswer
<1>4. pc'[r] \in {"done", "rehash"} /\ \A q \in Request : q # r => pc'[q] = pc[q]
  BY <1>3 DEF Goto, TypeInv, TypeOK
<1>5. InFlight' \subseteq InFlight
  BY <1>2, <1>4 DEF InFlight, Statement
<1>6. \A q \in Request : q # r => attempts'[q] = attempts[q] /\ age'[q] = age[q]
  BY <1>1, <1>2 DEF TypeInv, TypeOK
<1>7. \A q \in Request : attempts'[q] # None => pc'[q] # "idle" /\ in'[q].op = "login"
  BY <1>2, <1>4, <1>6 DEF BoundInv
<1>8. ASSUME NEW u \in Username PROVE Counted(u)' \subseteq Counted(u)
  <2>1. Cleared(u)' \subseteq Cleared(u)
    BY <1>2, <1>4 DEF Cleared, Clearing
  <2>2. \A q \in Recent(u)' : q # r => q \in Recent(u)
    BY <1>6 DEF Recent
  <2>3. r \in Recent(u)' => r \in Cleared(u)
    BY <1>1, <1>2 DEF Recent, Cleared, Clearing, TypeInv, TypeOK
  <2> QED BY <2>1, <2>2, <2>3 DEF Counted
<1> QED BY <1>5, <1>7, <1>8, ShrinkingBound

LEMMA OtherHandlersBound ==
  ASSUME TypeInv, TypeInv', BoundInv, NEW r \in Request,
         \/ Register_Exists(r) \/ Register_InsertUser(r) \/ Login_Find(r) \/ Login_Rehash(r)
         \/ Logout(r) \/ Update_Find(r) \/ Update_Update(r) \/ Delete_Find(r) \/ Delete_Archive(r)
         \/ Forgot_Find(r) \/ Forgot_TokenExists(r) \/ Forgot_InsertToken(r) \/ StatementFails(r)
  PROVE  BoundInv'
<1>1. pc[r] \in Statement /\ TypeOK /\ age' \in [Request -> 0..Window]
  BY DEF Register_Exists, Register_InsertUser, Login_Find, Login_Rehash, Logout, Update_Find,
     Update_Update, Delete_Find, Delete_Archive, Forgot_Find, Forgot_TokenExists, Forgot_InsertToken,
     StatementFails, At, Statement, TypeInv, TypeOK
<1>2. UNCHANGED <<attempts, in>>
  BY DEF Register_Exists, Register_InsertUser, Login_Find, Login_Rehash, Logout, Update_Find,
     Update_Update, Delete_Find, Delete_Archive, Forgot_Find, Forgot_TokenExists, Forgot_InsertToken,
     StatementFails, Find, tables
<1>3. \A q \in Request : age'[q] = age[q] \/ (q = r /\ in[r].op # "login")
  <2>1. CASE Forgot_InsertToken(r)
    BY <1>1, <2>1 DEF Forgot_InsertToken, At, TypeOK
  <2>2. CASE ~Forgot_InsertToken(r)
    BY <2>2 DEF Register_Exists, Register_InsertUser, Login_Find, Login_Rehash, Logout, Update_Find,
       Update_Update, Delete_Find, Delete_Archive, Forgot_Find, Forgot_TokenExists, StatementFails,
       Find, tables
  <2> QED BY <2>1, <2>2
<1>4. PICK label \in {"done", "insertUser", "insertAttempt", "update", "archive", "tokenExists",
                      "insertToken"} :
        Goto(r, label) /\ (label = "insertAttempt" => pc[r] = "find")
  BY DEF Register_Exists, Register_InsertUser, Login_Find, Login_Rehash, Logout, Update_Find,
     Update_Update, Delete_Find, Delete_Archive, Forgot_Find, Forgot_TokenExists, Forgot_InsertToken,
     StatementFails, Find, Respond, RespondWithSession, Continue, LostAnswer, At
<1> QED BY <1>1, <1>2, <1>3, <1>4, HandlerBound DEF Statement, Clearing

LEMMA BoundNext == TypeInv /\ TypeInv' /\ BoundInv /\ [Next]_vars => BoundInv'
<1> SUFFICES ASSUME TypeInv, TypeInv', BoundInv, [Next]_vars PROVE BoundInv'
  OBVIOUS
<1>1. CASE UNCHANGED vars
  BY <1>1 DEF vars, tables, BoundInv, InFlight, Counted, Recent, Cleared
<1>2. CASE \E r \in Request : Arrive(r) \/ Handle(r)
  BY <1>2, ArriveBound, ExhaustedBound, InsertAttemptBound, OtherHandlersBound DEF Handle, TypeInv
<1>3. CASE ServerCrash
  <2>1. InFlight' \subseteq InFlight
    BY <1>3 DEF ServerCrash, InFlight, Statement
  <2>2. \A r \in Request : attempts'[r] # None => pc'[r] # "idle" /\ in'[r].op = "login"
    BY <1>3 DEF ServerCrash, BoundInv, tables
  <2>3. \A u \in Username : Counted(u)' \subseteq Counted(u)
    BY <1>3 DEF ServerCrash, Counted, Recent, Cleared, Clearing, tables
  <2> QED BY <2>1, <2>2, <2>3, ShrinkingBound
<1>4. CASE Tick
  <2>1. UNCHANGED <<attempts, pc, in>>
    BY <1>4 DEF Tick
  <2>2. \A q \in Request : age'[q] < Window => age[q] < Window
    BY <1>4, ConstantsAssumption DEF Tick, TypeInv, TypeOK
  <2>3. InFlight' \subseteq InFlight
    BY <2>1 DEF InFlight
  <2>4. \A r \in Request : attempts'[r] # None => pc'[r] # "idle" /\ in'[r].op = "login"
    BY <2>1 DEF BoundInv
  <2>5. \A u \in Username : Counted(u)' \subseteq Counted(u)
    BY <2>1, <2>2 DEF Counted, Recent, Cleared
  <2> QED BY <2>3, <2>4, <2>5, ShrinkingBound
<1> QED BY <1>1, <1>2, <1>3, <1>4 DEF Next

LEMMA BoundInvariant == Spec => []BoundInv
BY TypeInit, TypeNext, BoundInit, BoundNext, PTL DEF Spec

\* Whatever logins run at once, a window holds at most the failed attempts the
\* throttle allows and those of the other requests in flight.
THEOREM ThrottleHolds == Spec => []LoginFailuresAreBounded
<1>1. BoundInv => LoginFailuresAreBounded
  <2> SUFFICES ASSUME BoundInv, NEW u \in Username
               PROVE  Cardinality(Recent(u)) <= Limit - 1 + MaxInFlight
    BY DEF LoginFailuresAreBounded
  <2>1. Recent(u) \subseteq Counted(u) /\ Counted(u) \subseteq Request /\ Recent(u) \subseteq Request
    BY DEF Counted, Recent, Cleared
  <2>2. Cardinality(Recent(u)) <= Cardinality(Counted(u)) /\ Cardinality(Recent(u)) \in Nat
        /\ Cardinality(Counted(u)) \in Nat
    BY <2>1, FiniteRequests
  <2>3. MaxInFlight \in Nat /\ Limit \in Nat
    BY ConstantsAssumption
  <2> QED BY <2>2, <2>3 DEF BoundInv
<1> QED BY BoundInvariant, <1>1, PTL

=============================================================================

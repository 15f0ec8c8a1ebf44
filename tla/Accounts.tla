------------------------------ MODULE Accounts ------------------------------
(***************************************************************************)
(* The handlers of api/v1/users.go: registration, login with its throttle, *)
(* logout, update and deletion of users, password reset requests; and the  *)
(* session cookie they hand back and forth with a client.                  *)
(*                                                                         *)
(* Every statement runs on db and commits by itself.  net/http runs each   *)
(* request in a goroutine of its own: between two statements of a handler  *)
(* any other request may run, and time may pass.                           *)
(***************************************************************************)
EXTENDS Naturals, Sequences, FiniteSets

CONSTANTS
  MaxRequests,  \* bound: how many requests the server receives
  MaxInFlight,  \* bound: how many requests are handled at a time
  Faults,       \* whether a statement may fail for reasons of its own
  MaxCrashes,   \* bound: how often the server process dies
  Limit,        \* failed logins that exhaust a user name: 10 in the code
  Window,       \* for how long: fifteen minutes, in ticks
  Client, Username, Email, Password,
  Garbled,      \* what a hash of a hash is the hash of: no client's password
  None,
  SeedUsers,    \* the rows users has in the beginning, a sequence
  Inputs        \* the requests clients may send

Request == 1..MaxRequests
SeedId  == (MaxRequests + 1)..(MaxRequests + Len(SeedUsers))

\* A bigserial never hands an id out twice: a row is named by the request
\* that inserted it.
UserId == Request \cup SeedId

\* A bcrypt hash: of what, and whether at today's hashCost.
Hash(text) == [of |-> text, strong |-> TRUE]
HashOf == [of : Password \cup {Garbled}, strong : BOOLEAN]

KnownUser == [st : {"active", "archived"}, username : Username, email : Email,
              password : HashOf, admin : BOOLEAN]
NoUser == [st |-> "absent", username |-> None, email |-> None, password |-> Hash(Garbled),
           admin |-> FALSE]
UserRow == KnownUser \cup {NoUser}

\* The values of a session: user_id, authenticated and is_admin.
Session == [user : UserId \cup {None}, authorized : BOOLEAN, admin : BOOLEAN]
NoSession == [user |-> None, authorized |-> FALSE, admin |-> FALSE]

Operation == {"register", "login", "logout", "update", "delete", "forgot"}

\* One record for all requests; None is a field the body leaves out.
Input == [op : Operation, client : Client, username : Username \cup {None},
          email : Email \cup {None}, password : Password \cup {None},
          newPassword : Password \cup {None}, admin : BOOLEAN, user : UserId \cup {None}]

ASSUME ConstantsAssumption ==
  /\ MaxRequests \in Nat \ {0} /\ MaxInFlight \in Nat \ {0} /\ MaxCrashes \in Nat
  /\ Faults \in BOOLEAN
  /\ Limit \in Nat \ {0} /\ Window \in Nat \ {0}
  /\ Garbled \notin Password /\ None \notin Username \cup Email \cup Password \cup UserId
  /\ SeedUsers \in Seq(KnownUser)

ASSUME InputsAssumption ==
  /\ Inputs \subseteq Input /\ None \notin Inputs
  /\ \A i \in Inputs :
       /\ i.op \in {"register", "login", "forgot"} => i.username \in Username
       /\ i.op \in {"register", "login", "update"} => i.password \in Password
       /\ i.op = "register" => i.email \in Email
       /\ i.op \in {"update", "delete"} => i.user \in UserId

VARIABLES
  users,
  attempts,  \* login_attempts, by the request that made the attempt
  tokens,    \* password_reset_tokens, by the request that asked
  age,       \* of the row a request has inserted in one of the two, in ticks
  cookie,    \* the session each client holds
  pc, in, status,
  session,   \* the session the request came with
  seen,      \* the user the handler has read: its id and the copy of its row
  crashes

tables == <<users, attempts, tokens, age>>
vars == <<tables, cookie, pc, in, status, session, seen, crashes>>

Statement == {"exists", "insertUser", "exhausted", "find", "insertAttempt", "rehash",
              "tokenExists", "insertToken", "update", "archive", "logout"}
Label == Statement \cup {"idle", "done", "dead"}

Attempt == [username : Username, successful : BOOLEAN]
Token == [user : UserId, left : 0..Window]  \* left: ticks to expires_on
Seen == [id : UserId, row : KnownUser]

TypeOK ==
  /\ users \in [UserId -> UserRow]
  /\ attempts \in [Request -> Attempt \cup {None}]
  /\ tokens \in [Request -> Token \cup {None}]
  /\ age \in [Request -> 0..Window]
  /\ cookie \in [Client -> Session]
  /\ pc \in [Request -> Label]
  /\ in \in [Request -> Inputs \cup {None}]
  /\ status \in [Request -> {0, 200, 201, 400, 401, 403, 404, 500}]
  /\ session \in [Request -> Session]
  /\ seen \in [Request -> Seen \cup {None}]
  /\ crashes \in 0..MaxCrashes

Init ==
  /\ users = [u \in UserId |-> IF u \in SeedId THEN SeedUsers[u - MaxRequests]
                               ELSE NoUser]
  /\ attempts = [r \in Request |-> None]
  /\ tokens = [r \in Request |-> None]
  /\ age = [r \in Request |-> 0]
  /\ cookie = [c \in Client |-> NoSession]
  /\ pc = [r \in Request |-> "idle"]
  /\ in = [r \in Request |-> None]
  /\ status = [r \in Request |-> 0]
  /\ session = [r \in Request |-> NoSession]
  /\ seen = [r \in Request |-> None]
  /\ crashes = 0

-----------------------------------------------------------------------------
(* What the handlers are made of *)

InFlight == {r \in Request : pc[r] \in Statement}
Active == {u \in UserId : users[u].st = "active"}

At(r, op, statement) == pc[r] = statement /\ in[r].op = op

Goto(r, label) == pc' = [pc EXCEPT ![r] = label]

Continue(r, statement) == Goto(r, statement) /\ UNCHANGED <<status, cookie, crashes>>

Respond(r, code) ==
  /\ Goto(r, "done")
  /\ status' = [status EXCEPT ![r] = code]
  /\ UNCHANGED <<cookie, crashes>>

\* session.Save: the whole session goes back to the client.
RespondWithSession(r, code, values) ==
  /\ Goto(r, "done")
  /\ status' = [status EXCEPT ![r] = code]
  /\ cookie' = [cookie EXCEPT ![in[r].client] = values]
  /\ UNCHANGED crashes

LoggedIn(id, row) == [user |-> id, authorized |-> TRUE, admin |-> row.admin]

\* A statement that writes: it may have taken effect and its answer be lost.
LostAnswer(r) == Faults /\ Respond(r, 500)

\* A read that finds one of the users ids, and keeps a copy of its row, or 404.
Find(r, ids, next) ==
  /\ \/ ids = {} /\ Respond(r, 404) /\ UNCHANGED seen
     \/ \E id \in ids :
          /\ seen' = [seen EXCEPT ![r] = [id |-> id, row |-> users[id]]]
          /\ Continue(r, next)
  /\ UNCHANGED <<tables, in, session>>

UsersNamed(username) == {u \in Active : users[u].username = username}

FirstStatement(op) ==
  CASE op = "register" -> "exists"
    [] op = "login"    -> "exhausted"
    [] op = "logout"   -> "logout"
    [] OTHER           -> "find"

\* A request arrives with the cookie its client holds.  Only a session with
\* is_admin set may register an admin.
Arrive(r) ==
  /\ pc[r] = "idle"
  /\ \A q \in Request : q < r => pc[q] # "idle"
  /\ Cardinality(InFlight) < MaxInFlight
  /\ \E i \in Inputs :
       /\ in' = [in EXCEPT ![r] = i]
       /\ session' = [session EXCEPT ![r] = cookie[i.client]]
       /\ \/ i.op = "register" /\ i.admin /\ ~cookie[i.client].admin /\ Respond(r, 403)
          \/ ~(i.op = "register" /\ i.admin /\ ~cookie[i.client].admin)
             /\ Continue(r, FirstStatement(i.op))
  /\ UNCHANGED <<tables, seen>>

-----------------------------------------------------------------------------
(* POST /user *)

Register_Exists(r) ==
  /\ At(r, "register", "exists")
  /\ \/ UsersNamed(in[r].username) # {} /\ Respond(r, 400)
     \/ UsersNamed(in[r].username) = {} /\ Continue(r, "insertUser")
  /\ UNCHANGED <<tables, in, session, seen>>

\* UNIQUE (username, archived_on) binds no active rows: the insert succeeds.
Register_InsertUser(r) ==
  /\ At(r, "register", "insertUser")
  /\ LET row == [st |-> "active", username |-> in[r].username, email |-> in[r].email,
                 password |-> Hash(in[r].password), admin |-> in[r].admin]
     IN /\ users' = [users EXCEPT ![r] = row]
        /\ RespondWithSession(r, 201, LoggedIn(r, row)) \/ LostAnswer(r)
  /\ UNCHANGED <<attempts, tokens, age, in, session, seen>>

-----------------------------------------------------------------------------
(* POST /login and POST /logout *)

\* The failed attempts the throttle counts.
Recent_ForEver(username) ==  \* mutant: without created_on > NOW() - 15 minutes
  {q \in Request : attempts[q] # None /\ attempts[q].username = username
                   /\ ~attempts[q].successful}
Recent(username) ==
  {q \in Request : attempts[q] # None /\ attempts[q].username = username
                   /\ ~attempts[q].successful /\ age[q] < Window}

LoginAttemptsHaveBeenExhausted_OffByOne(username) ==  \* mutant: > for >=
  Cardinality(Recent(username)) > Limit
LoginAttemptsHaveBeenExhausted(username) == Cardinality(Recent(username)) >= Limit

Login_Exhausted(r) ==
  /\ At(r, "login", "exhausted")
  /\ \/ LoginAttemptsHaveBeenExhausted(in[r].username) /\ Respond(r, 401)
     \/ ~LoginAttemptsHaveBeenExhausted(in[r].username) /\ Continue(r, "find")
  /\ UNCHANGED <<tables, in, session, seen>>

Login_Find(r) ==
  /\ At(r, "login", "find")
  /\ Find(r, UsersNamed(in[r].username), "insertAttempt")

\* passwordMatches: bcrypt.CompareHashAndPassword.
Matches(hash, password) == hash.of = password

\* The attempt is recorded after the password has been compared, which takes
\* its time: bcrypt runs at hashCost.
Login_InsertAttempt(r) ==
  /\ At(r, "login", "insertAttempt")
  /\ LET user  == seen[r].row
         valid == Matches(user.password, in[r].password)
     IN /\ attempts' = [attempts EXCEPT ![r] = [username |-> in[r].username, successful |-> valid]]
        /\ \/ ~valid /\ Respond(r, 401)
           \/ valid /\ ~user.password.strong /\ Continue(r, "rehash")
           \/ valid /\ user.password.strong
              /\ RespondWithSession(r, 200, LoggedIn(seen[r].id, user))
           \/ LostAnswer(r)
  /\ age' = [age EXCEPT ![r] = 0]
  /\ UNCHANGED <<users, tokens, in, session, seen>>

\* UPDATE users SET every column but archived_on WHERE id = $8.
UpdateUser_Revives(id, row) == users' = [users EXCEPT ![id] = row]  \* mutant: archived_on too
UpdateUser(id, row) == users' = [users EXCEPT ![id] = [row EXCEPT !.st = users[id].st]]

\* A password hashed at another cost is hashed again: the hash, not the
\* password, is.  The rest of the row is written back as it was read.
Login_Rehash(r) ==
  /\ At(r, "login", "rehash")
  /\ LET user == [seen[r].row EXCEPT !.password = Hash(Garbled)]
     IN /\ UpdateUser(seen[r].id, user)
        /\ RespondWithSession(r, 200, LoggedIn(seen[r].id, user)) \/ LostAnswer(r)
  /\ UNCHANGED <<attempts, tokens, age, in, session, seen>>

\* Only authenticated changes.
Logout(r) ==
  /\ At(r, "logout", "logout")
  /\ RespondWithSession(r, 200, [session[r] EXCEPT !.authorized = FALSE])
  /\ UNCHANGED <<tables, in, session, seen>>

-----------------------------------------------------------------------------
(* PATCH /user/{user_id} *)

Update_Find(r) ==
  /\ At(r, "update", "find")
  /\ LET found == Active \cap {in[r].user}
     IN \/ Find(r, found, "update") /\ \A u \in found : Matches(users[u].password, in[r].password)
        \/ /\ \E u \in found : ~Matches(users[u].password, in[r].password)
           /\ Respond(r, 401)
           /\ UNCHANGED <<tables, in, session, seen>>

Given_Always(field, old) == field  \* mutant: without mergo.Merge
Given(field, old) == IF field = None THEN old ELSE field

\* createUserFromUpdateInput, which leaves is_admin out, and mergo.Merge.
MergedUser_AdminFromBody(i, old) ==  \* mutant: IsAdmin: in.IsAdmin
  [old EXCEPT !.username = Given(i.username, @), !.email = Given(i.email, @),
              !.password = IF i.newPassword = None THEN @ ELSE Hash(i.newPassword),
              !.admin = @ \/ i.admin]
MergedUser(i, old) ==
  [old EXCEPT !.username = Given(i.username, @), !.email = Given(i.email, @),
              !.password = IF i.newPassword = None THEN @ ELSE Hash(i.newPassword)]

Update_Update(r) ==
  /\ At(r, "update", "update")
  /\ UpdateUser(seen[r].id, MergedUser(in[r], seen[r].row))
  /\ Respond(r, 200) \/ LostAnswer(r)
  /\ UNCHANGED <<attempts, tokens, age, in, session, seen>>

-----------------------------------------------------------------------------
(* DELETE /v1/user/{user_id} *)

Delete_Find(r) ==
  /\ At(r, "delete", "find")
  /\ LET found == Active \cap {in[r].user}
     IN \/ (found = {} \/ session[r].admin) /\ Find(r, found, "archive")
        \/ /\ found # {} /\ ~session[r].admin
           /\ Respond(r, 403)
           /\ UNCHANGED <<tables, in, session, seen>>

Delete_Archive(r) ==
  /\ At(r, "delete", "archive")
  /\ users' = [users EXCEPT ![seen[r].id].st = "archived"]
  /\ Respond(r, 200) \/ LostAnswer(r)
  /\ UNCHANGED <<attempts, tokens, age, in, session, seen>>

-----------------------------------------------------------------------------
(* POST /password_reset *)

Forgot_Find(r) ==
  /\ At(r, "forgot", "find")
  /\ Find(r, UsersNamed(in[r].username), "tokenExists")

PasswordResetTokenForUserIDExists(id) ==
  \E q \in Request : tokens[q] # None /\ tokens[q].user = id /\ tokens[q].left > 0

Forgot_TokenExists(r) ==
  /\ At(r, "forgot", "tokenExists")
  /\ \/ PasswordResetTokenForUserIDExists(seen[r].id) /\ Respond(r, 400)
     \/ ~PasswordResetTokenForUserIDExists(seen[r].id) /\ Continue(r, "insertToken")
  /\ UNCHANGED <<tables, in, session, seen>>

\* The INSERT names expires_on, with the zero time of a field nobody has set:
\* the default of the column, in fifteen minutes, is not used.
Forgot_InsertToken(r) ==
  /\ At(r, "forgot", "insertToken")
  /\ tokens' = [tokens EXCEPT ![r] = [user |-> seen[r].id, left |-> 0]]
  /\ age' = [age EXCEPT ![r] = 0]
  /\ Respond(r, 200) \/ LostAnswer(r)
  /\ UNCHANGED <<users, attempts, in, session, seen>>

-----------------------------------------------------------------------------

\* A statement fails and changes nothing.
StatementFails(r) ==
  /\ Faults
  /\ pc[r] \in Statement \ {"logout"}
  /\ Respond(r, IF pc[r] \in {"exists", "tokenExists"} THEN 400 ELSE 500)
  /\ UNCHANGED <<tables, in, session, seen>>

\* The process dies; every statement that ran has been committed.
ServerCrash ==
  /\ crashes < MaxCrashes
  /\ InFlight # {}
  /\ pc' = [r \in Request |-> IF r \in InFlight THEN "dead" ELSE pc[r]]
  /\ crashes' = crashes + 1
  /\ UNCHANGED <<tables, cookie, in, status, session, seen>>

\* Time passes.
Tick ==
  /\ age' = [r \in Request |-> IF age[r] < Window THEN age[r] + 1 ELSE age[r]]
  /\ tokens' = [r \in Request |-> IF tokens[r] # None /\ tokens[r].left > 0
                                  THEN [tokens[r] EXCEPT !.left = @ - 1] ELSE tokens[r]]
  /\ UNCHANGED <<users, attempts, cookie, pc, in, status, session, seen, crashes>>

\* The next statement of the handler of request r.
Handle(r) ==
  \/ Register_Exists(r) \/ Register_InsertUser(r)
  \/ Login_Exhausted(r) \/ Login_Find(r) \/ Login_InsertAttempt(r) \/ Login_Rehash(r)
  \/ Logout(r)
  \/ Update_Find(r) \/ Update_Update(r)
  \/ Delete_Find(r) \/ Delete_Archive(r)
  \/ Forgot_Find(r) \/ Forgot_TokenExists(r) \/ Forgot_InsertToken(r)
  \/ StatementFails(r)

Next ==
  \/ \E r \in Request : Arrive(r) \/ Handle(r)
  \/ ServerCrash
  \/ Tick

Spec == Init /\ [][Next]_vars

\* Handlers get to run, and time does not stop.
FairSpec == Spec /\ WF_vars(Tick) /\ \A r \in Request : WF_vars(Handle(r))

-----------------------------------------------------------------------------
(* Properties *)

\* The check of LoginAttemptsHaveBeenExhausted and the attempt it is for are
\* two statements with a slow comparison between them: logins in flight may
\* exceed the limit, but only those, however requests and time interleave.
LoginFailuresAreBounded ==
  \A u \in Username : Cardinality(Recent(u)) <= Limit - 1 + MaxInFlight

\* "Please wait fifteen minutes before attempting to authenticate again": a
\* refused login is not an attempt of its own, so that waiting helps.
WaitingHelps ==
  \A u \in Username : LoginAttemptsHaveBeenExhausted(u) ~> ~LoginAttemptsHaveBeenExhausted(u)

\* A session says of its user what the row says: whatever PATCHes and logins
\* write back stale rows, and whoever logs in or registers with whose cookie.
CookiesMatchUsers ==
  \A c \in Client : cookie[c].user # None =>
    /\ users[cookie[c].user].st # "absent"
    /\ cookie[c].admin = users[cookie[c].user].admin

\* No write of a stale row, by PATCH or by the rehash of a login, brings a
\* deleted user back.
userState == [u \in UserId |-> users[u].st]
Soft == INSTANCE SoftDelete WITH Row <- UserId, state <- userState
UsersAreSoftDeleted == Soft!Spec

\* "user has existent, non-expired password reset request": who has asked
\* within fifteen minutes has one token.
OneFreshToken ==
  \A q, r \in Request :
    tokens[q] # None /\ tokens[r] # None /\ age[q] < Window /\ age[r] < Window
    /\ tokens[q].user = tokens[r].user => q = r

=============================================================================

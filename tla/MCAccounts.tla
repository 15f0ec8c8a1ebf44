----------------------------- MODULE MCAccounts -----------------------------
(***************************************************************************)
(* Small instances of Accounts for TLC.                                    *)
(***************************************************************************)
EXTENDS Accounts

CONSTANTS c1, c2, frank, moon, fmail, mmail, right, wrong

ClientDef == {c1, c2}
UsernameDef == {frank, moon}
EmailDef == {fmail, mmail}
PasswordDef == {right, wrong}

\* An admin whose password was hashed at an older cost, and a customer.
SeedDef ==
  << [st |-> "active", username |-> frank, email |-> fmail,
      password |-> [of |-> right, strong |-> FALSE], admin |-> TRUE],
     [st |-> "active", username |-> moon, email |-> mmail,
      password |-> Hash(right), admin |-> FALSE] >>

Admin == MaxRequests + 1
Customer == MaxRequests + 2

Blank(op, c) ==
  [op |-> op, client |-> c, username |-> None, email |-> None, password |-> None,
   newPassword |-> None, admin |-> FALSE, user |-> None]

Register(c, username, email, admin) ==
  [Blank("register", c) EXCEPT !.username = username, !.email = email, !.password = right,
                               !.admin = admin]
Login(c, username, password) ==
  [Blank("login", c) EXCEPT !.username = username, !.password = password]
Update(c, user, username, newPassword, admin) ==
  [Blank("update", c) EXCEPT !.user = user, !.username = username, !.password = right,
                             !.newPassword = newPassword, !.admin = admin]
Delete(c, user) == [Blank("delete", c) EXCEPT !.user = user]
Forgot(c, username) == [Blank("forgot", c) EXCEPT !.username = username]

\* Everything a client may ask, about the admin, the customer and itself.
AllInputs ==
  { Register(c1, frank, mmail, FALSE), Register(c1, moon, mmail, TRUE),
    Login(c1, frank, right), Login(c1, moon, right),
    Login(c2, moon, wrong), Blank("logout", c1),
    Update(c2, Admin, moon, wrong, FALSE), Update(c1, Customer, None, None, TRUE),
    Delete(c1, Admin), Forgot(c2, moon) }

ForgotInputs == { Forgot(c1, moon), Forgot(c2, frank) }
=============================================================================

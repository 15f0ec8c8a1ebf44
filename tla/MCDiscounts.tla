----------------------------- MODULE MCDiscounts -----------------------------
(***************************************************************************)
(* Small instances of Discounts for TLC.  A run begins with one of the     *)
(* budgets: three starts and no call, two and a call, or one and two       *)
(* calls.                                                                  *)
(***************************************************************************)
EXTENDS Discounts

Configuration(file, db, images, secret, example) ==
  [file |-> file, database |-> db, images |-> images, secret |-> secret,
   migrateExampleData |-> example]

\* With and without the example data, and one that ends the start.
ConfigsDef ==
  { Configuration("read", "postgres", "local", "long", TRUE),
    Configuration("read", "postgres", "local", "default", FALSE),
    Configuration("missing", "none", "local", "default", FALSE) }

\* The auth script is the only one that says IF NOT EXISTS everywhere.
RepeatableDef == {3}

BudgetsDef ==
  { [starts |-> 3, outages |-> 1, calls |-> 0],
    [starts |-> 2, outages |-> 0, calls |-> 1],
    [starts |-> 1, outages |-> 1, calls |-> 2] }

Request(op, id, bodyId, code, requires) ==
  [op |-> op, id |-> id, bodyId |-> bodyId, named |-> requires, code |-> code,
   requiresCode |-> requires, startsOn |-> "zero"]

\* Creations with a code, without one the check asks for, and of nothing;
\* changes of one row and, through its body, of another.
DiscountInputsDef ==
  { Request("create", 1, None, "save", TRUE), Request("create", 1, None, NoCode, TRUE),
    Request("create", 1, None, NoCode, FALSE),
    Request("update", 1, None, "save", TRUE), Request("update", 1, 2, NoCode, FALSE),
    Request("delete", 1, None, NoCode, FALSE), Request("delete", 2, None, NoCode, FALSE),
    Request("get", 1, None, NoCode, FALSE), Request("list", 1, None, NoCode, FALSE) }

CodesDef == {"save"}
=============================================================================

----------------------------- MODULE MCWebhooks -----------------------------
(***************************************************************************)
(* Small instances of Webhooks for TLC.                                    *)
(***************************************************************************)
EXTENDS Webhooks

CONSTANTS product_created, product_updated

EventDef == {product_created, product_updated}

\* The example data of the migrations have one webhook for each event.
SeedDef ==
  << [st |-> "active", event |-> product_created, updated |-> FALSE],
     [st |-> "active", event |-> product_created, updated |-> FALSE],
     [st |-> "active", event |-> product_updated, updated |-> FALSE] >>

Create(event) == [op |-> "create", id |-> None, bodyId |-> None, event |-> event]
Update(id, bodyId, event) == [op |-> "update", id |-> id, bodyId |-> bodyId, event |-> event]
Delete(id) == [op |-> "delete", id |-> id, bodyId |-> None, event |-> None]
Change(event) == [op |-> "change", id |-> None, bodyId |-> None, event |-> event]

AllInputs ==
  { Create(product_created),
    Update(1, None, product_updated), Update(1, 2, None), Update(2, 9, None),
    Update(3, None, Unknown), Update(9, None, product_created),
    Delete(1), Delete(2),
    Change(product_created), Change(product_updated) }

CreateInputs == { Create(product_created), Create(product_updated) }
=============================================================================

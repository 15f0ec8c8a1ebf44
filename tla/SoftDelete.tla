----------------------------- MODULE SoftDelete -----------------------------
(***************************************************************************)
(* What every table with an archived_on promises of a row, whatever        *)
(* handlers run at once: it appears once, is archived at most once, and    *)
(* never comes back.  Rows appear in batches (a product with its root,     *)
(* options and values) and are archived in batches; no step does both.     *)
(***************************************************************************)
CONSTANT Row

VARIABLE state

States == {"absent", "active", "archived"}

\* The type invariant: a row is in one of three states.
TypeOK == state \in [Row -> States]

Init == TypeOK

Turns(from, to) ==
  \A x \in Row : state'[x] = state[x] \/ (state[x] = from /\ state'[x] = to)

Create  == state' \in [Row -> States] /\ Turns("absent", "active")
Archive == state' \in [Row -> States] /\ Turns("active", "archived")

Next == Create \/ Archive

Spec == Init /\ [][Next]_state
=============================================================================

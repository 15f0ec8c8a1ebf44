------------------------------ MODULE MCLists ------------------------------
(***************************************************************************)
(* Small instances of Lists for TLC.                                       *)
(***************************************************************************)
EXTENDS Lists

Seeded(id, st, created, updated) ==
  [id |-> id, st |-> st, created |-> created, updated |-> updated]

\* Four rows, one of them deleted.
SeedDef ==
  << Seeded(1, "active", -2, None), Seeded(2, "active", -2, -1),
     Seeded(3, "archived", -1, None), Seeded(4, "active", -1, 0) >>

Ask(p, limit) ==
  [page |-> p, limit |-> limit, createdAfter |-> None, createdBefore |-> None,
   updatedAfter |-> None, updatedBefore |-> None]

\* Limits are halves: 1, 2, 2.5, more than the most, none, and what comes out as 0.
AllQueries ==
  { Ask(None, 2), Ask(1, 4), Ask(0, 5), Ask(1, 100), Ask(Garbage, Garbage), Ask(None, None),
    Ask(1, 1), Ask(1, -4), Ask(1, NaN),
    [Ask(1, 2) EXCEPT !.createdBefore = 1], [Ask(1, 2) EXCEPT !.createdAfter = -2],
    [Ask(1, 2) EXCEPT !.updatedAfter = -1], [Ask(1, 2) EXCEPT !.updatedBefore = 2] }
=============================================================================

---------------------------- MODULE SchemaHistory ----------------------------
(***************************************************************************)
(* What the migrations promise: the scripts take effect one after another  *)
(* and for ever, and a server serves a database only when all of the       *)
(* schema is there.  The last script, which loads example data, may be     *)
(* left out.                                                               *)
(***************************************************************************)
EXTENDS Naturals

CONSTANTS
  Last,   \* how many scripts there are
  Server

VARIABLES
  schema, \* the scripts that have taken effect
  serving \* the servers that listen for requests

vars == <<schema, serving>>

Init == schema = {} /\ serving = {}

Load ==
  /\ \E k \in 1..Last : schema = 1..(k - 1) /\ schema' = 1..k
  /\ UNCHANGED serving

Serve ==
  /\ 1..(Last - 1) \subseteq schema
  /\ \E s \in Server : serving' = serving \cup {s}
  /\ UNCHANGED schema

Stop ==
  /\ \E s \in serving : serving' = serving \ {s}
  /\ UNCHANGED schema

Next == Load \/ Serve \/ Stop

Spec == Init /\ [][Next]_vars
=============================================================================

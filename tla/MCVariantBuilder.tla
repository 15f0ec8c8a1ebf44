-------------------------- MODULE MCVariantBuilder --------------------------
(***************************************************************************)
(* Option lists for TLC.                                                   *)
(***************************************************************************)
EXTENDS VariantBuilder

WordDef == {"shirt", "small", "Small", "red"}
LowerWordDef == [w \in WordDef |-> IF w = "Small" THEN "small" ELSE w]
PrefixDef == <<"shirt">>

\* Values of an option: one word, two that differ in case.
Values == {<<"small">>, <<"Small">>, <<"red">>}

\* At most MaxOptions options of at most MaxValues values, none included.
MaxOptions == 3
MaxValues == 2
SeqUpTo(S, n) == UNION {[1..k -> S] : k \in 0..n}

\* Digits of different widths, two of them carrying more than once, and an
\* underscore in a value.
WideList ==
  LET three == <<<<"small">>, <<"red">>, <<"shirt">>>>
  IN <<three, <<<<"red">>, <<"small", "red">>>>, three>>

ListsDef == (SeqUpTo(SeqUpTo(Values, MaxValues), MaxOptions) \ {<<>>}) \cup {WideList}
=============================================================================

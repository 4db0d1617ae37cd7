--------------------------- MODULE MCReparseCache ---------------------------
(* Constants for checking ReparseCache with TLC: texts are counts, and an  *)
(* edit that takes one away does not fit the empty text.                   *)
EXTENDS ReparseCache

CONSTANTS f, g

MCTexts == 0..2
MCApply ==
    [e \in Edits |-> [t \in Texts |->
        CASE e = "type" -> IF t + 1 \in Texts THEN t + 1 ELSE None
          [] e = "erase" -> IF t > 0 THEN t - 1 ELSE None
          [] e = "paste" -> 2]]
MCBatches == {<<"type">>, <<"paste">>, <<"type", "erase">>}
MCTyping == {<<"type">>}
=============================================================================

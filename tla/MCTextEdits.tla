------------------------------ MODULE MCTextEdits ------------------------------
(* A letter, two letters of two bytes that share the first, an astral       *)
(* character, and both line ends.                                           *)
EXTENDS TextEdits, TLC

CONSTANTS ch, e1, e2, g

MCBytesOf == ch :> <<97>> @@ e1 :> <<195, 168>> @@ e2 :> <<195, 169>>
             @@ g :> <<240, 159, 152, 128>> @@ CR :> <<13>> @@ LF :> <<10>>
MCUnitsOf == [c \in {ch, e1, e2, g, CR, LF} |-> IF c = g THEN 2 ELSE 1]
MCFirstTexts == { <<g, e1, LF>>, <<e1, CR, LF>>, <<ch, LF, g, LF, e1, LF>> }
MCTyped == { <<>>, <<e2>>, <<g, LF>> }
MCFormatted == { <<ch, LF, g, LF, e1, LF>>, <<g, LF, ch, LF>>, <<e1, LF>>, <<>>,
                 <<ch, CR, LF>>, <<LF, ch, LF, LF, g>>, <<ch, LF, LF, e1, LF, g, LF, ch, LF>> }
=============================================================================

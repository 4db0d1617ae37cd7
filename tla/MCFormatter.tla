------------------------------ MODULE MCFormatter ------------------------------
(* Programs of one statement: every construct in every context.               *)
EXTENDS Formatter

Constructs == {
    <<"a">>, <<"1">>, <<"-", "ws", "1">>, <<"-", "a">>, <<"!", "a">>, <<"-", "ws", "-", "ws", "a">>,
    <<"a", ".", "b", "(", "c", ")", ".", "c", "(", "1", ")">>, <<"a", "(", "b", ",", "c", ";", "c", "=", "1", ")">>,
    <<"a", "(", ";", "b", "=", "1", ")">>, <<"a", "(", "b", ";", "ws", ")">>, <<"[", "a", ",", "b", "]">>,
    <<"(", "a", ",", ")">>, <<"(", ";", "a", "=", "1", ")">>, <<"(", "a", ",", "b", ")">>, <<"{", "a", "}">>,
    <<"a", "[", "1", "]">>, <<"a", "{", "b", "}">>, <<"a", "ws", "where", "ws", "b">>,
    <<"a", "(", "c", ")", "ws", "where", "ws", "{", "a", ",", "b", "}">>,
    <<"a", "(", "c", ")", "::", "c", "ws", "where", "ws", "{", "a", ",", "b", "}">>, <<"a", "::", "b">>, <<"::", "b">>,
    <<"b", "=>", "a", "(", "c", ")">>, <<"b", "=>", "c", "=>", "[", "c", "]">>, <<"b", "=>", "c">>,
    <<"a", "ws", "?", "ws", "b", "ws", ":", "ws", "c">>, <<"a", "...">>, <<"a", "(", ")", "...">>,
    <<"[", "a", "ws", "for", "ws", "b", "ws", "in", "ws", "c", "ws", "if", "ws", "a", "]">>,
    <<"a", "(", "b", "ws", "for", "ws", "b", "=", "c", ")">>,
    <<"a", "(", "c", ",", "b", "ws", "for", "ws", "b", "=", "c", ")">>,
    <<"(", "a", "ws", "for", "ws", "b", "=", "c", ",", "c", "ws", "in", "ws", "a", ")">>, <<"+", "(", "a", ",", ")">>,
    <<"+", "(", "a", ",", "b", ")">>, <<"1", "a">>, <<"1", "(", "a", ")">>, <<"(", "a", ")", "b">>,
    <<"a", ".", "(", "b", ")">>, <<"(", "a", ";", "b", ")">>, <<"(", "a", ";", ")">>, <<"a", "->", "b">>,
    <<"(", "a", ",", "b", ")", "->", "b">>, <<"return", "ws", "a">>, <<"return">>, <<"a", ".^", "b">>,
    <<"1", "ws", ".^", "ws", "b">>, <<"a", ":", "b">>, <<"a", ":", "b", ":", "c">>, <<"a", "|>", "b">>,
    <<"a", "&&", "return", "ws", "b">>, <<"a", "-", "b", "+", "c">>, <<"a", "==", "b", "<:", "c">>, <<"a", "=", "b">>,
    <<"a", ",", "b">>, <<"a", "||", "b", "||", "c">>, <<"a", "ws", "+", "nl", LineComment, "nl", "b">> }

(* What stands before a construct and after it.                               *)
Contexts == {
    <<<<>>, <<>>>>, <<<<"longname", "(">>, <<")">>>>, <<<<"[">>, <<",", "longname", "]">>>>, <<<<"(">>, <<")">>>>,
    <<<<>>, <<"ws", "+", "ws", "longname">>>>, <<<<"longname", "=">>, <<>>>>,
    <<<<"a", "(", "longname", ";", "b", "=">>, <<")">>>>, <<<<>>, <<"[", "longname", "]">>>>,
    <<<<"longname", "ws", "where", "ws", "{">>, <<"}">>>>, <<<<"return", "ws">>, <<>>>>, <<<<>>, <<",", "longname">>>>,
    <<<<"a", "ws", "?", "ws">>, <<"ws", ":", "ws", "longname">>>>, <<<<"-">>, <<>>>>, <<<<"a", "(">>, <<"...", ")">>>>,
    <<<<"longname", "ws", "=>", "ws">>, <<>>>>,
    <<<<"[">>, <<"ws", "for", "ws", "a", "ws", "in", "ws", "longname", "]">>>>, <<<<>>, <<"(", "longname", ")">>>>,
    <<<<>>, <<"::", "longname">>>>, <<<<>>, <<"ws", "where", "ws", "{", "b", ",", "longname", "}">>>>,
    <<<<>>, <<"^", "a">>>>, <<<<"a", "&&">>, <<>>>>, <<<<"-", "ws">>, <<>>>>, <<<<>>, <<"ws", ".^", "ws", "a">>>>,
    <<<<"(">>, <<",", ")">>>>, <<<<"a", "(", ";", "b", "=">>, <<")">>>>, <<<<>>, <<".", "b", "(", "longname", ")">>>> }

(* Every block form, with a body and without, on one line and on several.     *)
Blocks == {
    <<"begin", "ws", "a", "ws", "end">>, <<"begin", "ws", ";", "ws", "end">>,
    <<"begin", "ws", LineComment, "nl", "a", ";", "b", "nl", "nl", "nl", "c", "ws", LineComment, "nl", "end">>,
    <<"quote", "nl", "a", "nl", "end">>, <<"if", "ws", "a", "&&", "b", "ws", "end">>,
    <<"if", "ws", "a", "ws", "b", "ws", "end">>,
    <<"if", "ws", "a", "nl", "b", "nl", "elseif", "ws", "b", "ws", "c", ";", "a", "ws", "else", "ws", "c", "ws", "end">>,
    <<"if", "ws", "a", ";", "else", "nl", "if", "ws", "b", "ws", "c", "ws", "end", "ws", "end">>,
    <<"while", "ws", "a", "==", "b", "ws", "break", "ws", "end">>,
    <<"for", "ws", "a", "=", "b", "ws", "continue", "ws", "end">>,
    <<"for", "ws", "a", "ws", "in", "ws", "b", ",", "b", "=", "c", "nl", "end">>,
    <<"let", "ws", "a", "=", "1", ",", "b", "ws", "end">>, <<"let", "ws", "a", ",", "nl", "b", "ws", "end">>,
    <<"let", "ws", "end">>, <<"let", "ws", "a", "=", "longname", ",", "b", "=", "longname", ";", "a", "ws", "end">>,
    <<"try", "ws", "a", "ws", "catch", "ws", "b", "nl", "c", "ws", "end">>,
    <<"try", "ws", "a", "ws", "catch", ";", "else", "ws", "b", "ws", "finally", "ws", "c", "ws", "end">>,
    <<"try", "ws", "finally", "ws", "a", "ws", "catch", "ws", "end">>,
    <<"function", "ws", "a", "ws", "end">>, <<"function", "ws", "a", "(", "b", ")", "ws", "return", "ws", "end">>,
    <<"function", "(", "a", ")", "ws", "b", "ws", "end">>,
    <<"function", "ws", LineComment, "nl", "a", "(", ")", "nl", "b", "ws", "end">>,
    <<"function", "ws", "a", "(", "b", ")", "::", "c", "ws", "where", "ws", "b", "ws", "const", "ws", "a", "=", "1", "ws", "end">>,
    <<"macro", "ws", "a", "(", ")", "ws", "quote", "ws", "b", "ws", "end", "ws", "end">>,
    <<"struct", "ws", "a", "<:", "b", "ws", "c", "::", "a", ";", "b", "ws", "end">>,
    <<"mutable", "ws", "struct", "ws", "a", "nl", "end">>, <<"baremodule", "ws", "a", "ws", "end">>,
    <<"module", "ws", "a", "nl", "nl", "b", "nl", "nl", "end">>,
    <<"module", "ws", "a", "nl", "module", "ws", "b", "ws", "c", "ws", "end", "ws", "end">>,
    <<"begin", "ws", "module", "ws", "a", "nl", "b", "nl", "end", ";", "a", "ws", "end">>,
    <<"a", "(", "b", ")", "do", "ws", "c", "nl", "a", "ws", "end">>, <<"a", "ws", "do", ";", "end">>,
    <<"a", "(", "b", ",", "c", ")", "ws", "do", "ws", "a", ",", "b", "ws", "c", "ws", "end">>,
    <<"a", "(", ")", "ws", "do", "ws", "(", "a", ",", "b", ")", ",", "ws", "end">>,
    <<"const", "ws", "a", "=", "1">>, <<"global", "ws", "a", ",", "b", "=", "1">>, <<"const", "ws", "global", "nl", "a", "=", "b">>,
    <<"local", "nl", "a">>, <<"a", "&&", "break">>, <<"a", "||", "continue", "ws", "b">>,
    <<"break", "ws", "a", "ws", "b", "*", "c">>, <<"(", "begin", "ws", "a", "ws", "end", ")">> }
BlockContexts == {
    <<<<>>, <<>>>>, <<<<"begin", "ws">>, <<"ws", "end">>>>, <<<<"if", "ws">>, <<"ws", "a", "ws", "end">>>>,
    <<<<"let", "ws", "a", "=">>, <<";", "b", "ws", "end">>>>, <<<<"for", "ws", "a", "ws", "in", "ws">>, <<"nl", "b", "nl", "end">>>>,
    <<<<"a", "(", ")", "ws", "do", "ws", "b", "nl">>, <<"ws", "end">>>>, <<<<"module", "ws", "a", "nl">>, <<"nl", "end">>>>,
    <<<<"const", "ws", "a", "=">>, <<>>>>, <<<<"break", "ws", "a", "ws">>, <<>>>>,
    <<<<"function", "ws", "a", "(", "b", "=">>, <<")", "ws", "a", "ws", "end">>>> }

(* Several statements, and lines with semicolons.                             *)
TopLevels == {
    <<"a", ";", "b", ";">>, <<"a", ";", "ws", LineComment, "nl", "nl", "nl", LineComment, "nl", "b">>,
    <<";", "a", "nl", ";", "nl", "begin", "ws", "a", ";", "end", ";", "nl">>,
    <<"module", "ws", "a", "ws", "b", "ws", "end", "nl", "c">>, <<"module", "ws", "a", "ws", "b", "ws", "end", ";", "nl", "c">>,
    <<"nl", "a", "ws", LineComment, "nl", "nl", "b", ",", "c", "nl", "nl">> }

Placed(contexts, constructs) == {around[1] \o c \o around[2] : around \in contexts, c \in constructs}
Programs == {t \in Placed(Contexts, Constructs \cup Blocks) \cup Placed(BlockContexts, Constructs \cup Blocks) \cup TopLevels :
                 ~Glued(t)}
MCSources == {t \in Programs : LET tree == Program(t) IN Parses(tree) /\ ~KnownMisread(tree)}
MCMisread == {t \in Programs \cup {<<"a", "ws", "where", "ws", "{", "}">>, <<"a", "ws", ":", "ws", "::", "b">>} :
                  LET tree == Program(t) IN Parses(tree) /\ KnownMisread(tree)}
===============================================================================

-------------------------------- MODULE Layout --------------------------------
(* The printer (fatou-formatter/src/formatter/printer.rs, ir.rs): a layout    *)
(* document to tokens, a group flat when it fits the line with what follows   *)
(* it up to the next break, else broken.                                      *)
EXTENDS FormatRules
LOCAL INSTANCE SequencesExt

CONSTANT INDENT_WIDTH
ASSUME IndentAssumption == INDENT_WIDTH \in Nat

TokenWidth(tok) ==
    CASE tok \in {"longname"} -> 8
      [] tok = "baremodule" -> 10
      [] tok \in {"function", "continue"} -> 8
      [] tok \in {"mutable", "finally"} -> 7
      [] tok \in {LineComment, "return", "struct", "module", "elseif", "global"} -> 6
      [] tok \in {"where", "while", "macro", "begin", "quote", "catch", "break", "const", "local"} -> 5
      [] tok = "else" -> 4
      [] tok \in {"for", "...", "let", "try", "end"} -> 3
      [] tok \in {"if", "in", "do", "=>", "||", "&&", "==", "<:", "|>", ".^", "->", "::"} -> 2
      [] tok = "nl" -> 0
      [] OTHER -> 1
TextWidth(toks) == FoldLeft(LAMBDA sum, tok : sum + TokenWidth(tok), 0, toks)

Pending(indent, mode, ir) == [indent |-> indent, mode |-> mode, ir |-> ir]
(* The work stack has its next document first.                                *)
Expand(entry, parts) == [k \in DOMAIN parts |-> [entry EXCEPT !.ir = parts[k]]]

(* fits_stack: probe, then what is pending after it, on the rest of the line. *)
(* in_group says the document belongs to the group under test.                *)
RECURSIVE FitsStack(_, _)
FitsStack(remaining, stack) ==
    IF stack = <<>> \/ remaining < 0 THEN remaining >= 0
    ELSE LET top == Head(stack)
             ir == top.ir
             rest == Tail(stack)
             into(parts) == FitsStack(remaining, Expand(top, parts) \o rest)
         IN CASE ir.ir = "text" -> IF "nl" \in ToSet(ir.toks) THEN ~top.in_group
                                   ELSE FitsStack(remaining - TextWidth(ir.toks), rest)
              [] ir.ir = "concat" -> into(ir.parts)
              [] ir.ir \in {"group", "indent"} -> into(<<ir.inner>>)
              [] ir.ir = "line" -> top.mode = "break" \/ FitsStack(remaining - 1, rest)
              [] ir.ir = "soft" -> top.mode = "break" \/ FitsStack(remaining, rest)
              [] ir.ir \in {"hard", "blank"} -> ~top.in_group
              [] ir.ir = "comma_if_broken" -> FitsStack(IF top.mode = "break" THEN remaining - 1 ELSE remaining, rest)
              [] ir.ir = "hug" -> IF ~top.in_group /\ top.mode = "break" THEN into(<<ir.explode>>)
                                  ELSE into(<<ir.prefix, ir.body, ir.close>>)
              [] ir.ir = "cond" -> into(<<ir.primary>>)

Probe(in_group, mode, ir) == [in_group |-> in_group, mode |-> mode, ir |-> ir]
After(stack) == [k \in DOMAIN stack |-> Probe(FALSE, stack[k].mode, stack[k].ir)]
Fits(remaining, inner, stack) == FitsStack(remaining, <<Probe(TRUE, "flat", inner)>> \o After(stack))
HugFits(remaining, hug, stack) ==
    FitsStack(remaining, <<Probe(TRUE, "flat", hug.prefix), Probe(FALSE, "break", hug.body),
                           Probe(FALSE, "flat", hug.close)>> \o After(stack))
Saturating(width, used) == IF used > width THEN 0 ELSE width - used

(* print_at's loop: one document off the stack at a time.                     *)
LineStart(indent) == IF indent = 0 THEN <<"nl">> ELSE <<"nl", "ws">>
RECURSIVE PrintFrom(_, _, _, _)
PrintFrom(width, stack, out, col) ==
    IF stack = <<>> THEN out
    ELSE LET top == Head(stack)
             ir == top.ir
             rest == Tail(stack)
             into(parts) == PrintFrom(width, Expand(top, parts) \o rest, out, col)
             break == PrintFrom(width, rest, out \o LineStart(top.indent), top.indent)
             flat(toks) == PrintFrom(width, rest, out \o toks, col + TextWidth(toks))
         IN CASE ir.ir = "text" -> IF ir.toks = <<"nl">> THEN PrintFrom(width, rest, out \o ir.toks, 0) ELSE flat(ir.toks)
              [] ir.ir = "concat" -> into(ir.parts)
              [] ir.ir = "indent" ->
                     PrintFrom(width, <<Pending(top.indent + INDENT_WIDTH, top.mode, ir.inner)>> \o rest, out, col)
              [] ir.ir = "line" -> IF top.mode = "flat" THEN flat(<<"ws">>) ELSE break
              [] ir.ir = "soft" -> IF top.mode = "flat" THEN flat(<<>>) ELSE break
              [] ir.ir = "hard" -> break
              [] ir.ir = "blank" -> PrintFrom(width, rest, Append(out, "nl"), 0)
              [] ir.ir = "group" ->
                     PrintFrom(width,
                               <<Pending(top.indent, IF Fits(Saturating(width, col), ir.inner, rest) THEN "flat"
                                                     ELSE "break", ir.inner)>> \o rest, out, col)
              [] ir.ir = "comma_if_broken" -> flat(IF top.mode = "break" THEN <<",">> ELSE <<>>)
              [] ir.ir = "hug" -> into(IF HugFits(Saturating(width, col), ir, rest)
                                       THEN <<ir.prefix, ir.body, ir.close>> ELSE <<ir.explode>>)
              [] ir.ir = "cond" -> into(IF Fits(Saturating(width, top.indent), ir.probe, rest)
                                        THEN <<ir.primary>> ELSE <<ir.fallback>>)

(* format_node: parse, lower, print.                                          *)
FormatNode(t, width) == PrintFrom(width, <<Pending(0, "break", Lower(Flushed(Program(t), TRUE), "node"))>>, <<>>, 0)
===============================================================================

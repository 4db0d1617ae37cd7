--------------------------- MODULE MCScriptProjects ---------------------------
(* Constants for checking ScriptProjects with TLC: a main file that may or *)
(* may not include a part, and a part that defines one thing or another.   *)
EXTENDS ScriptProjects

CONSTANTS main, part

MCIncludesOf == [t \in Texts |-> IF t \in {"includes", "renames"} THEN {part} ELSE {}]
MCDefinesOf == [t \in Texts |-> IF t = "comment" THEN "plain" ELSE t]
MCInitialDisk == (main :> "includes") @@ (part :> "plain")
MCBuffers == (main :> {"includes", "plain"}) @@ (part :> {})
MCBothOpen == (main :> {"includes", "renames"}) @@ (part :> {"plain"})
MCEntryPoints == {{}, {main}}
MCNoEntries == {main}
MCHarvests == {[f \in Files |-> IF f = main
                  THEN {[code |-> "cycle", target |-> part, text |-> None]}
                  ELSE {}],
               [f \in Files |-> IF f = main
                  THEN {[code |-> "missing", target |-> part, text |-> None]}
                  ELSE {}]}
MCHarvest == {[f \in Files |-> {}]}
MCBudget(e, x, c, r, h, p) ==
    [edits |-> e, closes |-> x, configs |-> c, rewrites |-> r, harvests |-> h,
     panics |-> p]
MCBudgets == {MCBudget(2, 1, 0, 0, 0, 0), MCBudget(2, 0, 0, 1, 0, 0),
              MCBudget(1, 1, 0, 1, 0, 0), MCBudget(1, 0, 0, 2, 0, 0),
              MCBudget(2, 0, 1, 0, 0, 0), MCBudget(1, 0, 2, 0, 0, 0),
              MCBudget(2, 0, 0, 0, 1, 0), MCBudget(1, 0, 0, 0, 2, 0),
              MCBudget(2, 0, 0, 0, 0, 1), MCBudget(1, 0, 0, 1, 0, 1)}
MCTyping == {MCBudget(3, 0, 0, 0, 0, 0)}
=============================================================================

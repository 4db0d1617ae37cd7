----------------------------- MODULE MCComponents -----------------------------
(* Components that share no state with one another, side by side in one run: *)
(* the first state picks one, and the others rest at their Idle state.       *)
EXTENDS MCTextEdits, MCLintFixes, MCControlFlow, MCIncludeGraph, MCServerConfig, MCIndexCache

VARIABLE component

TextIdle ==
    /\ encoding = Utf8 /\ client_text = <<>> /\ batch = <<>> /\ changes = 0
    /\ text = <<>> /\ line_starts = <<0>> /\ before = <<>> /\ byte_edits = NoEdits
    /\ answer = NoAnswer /\ lone = FALSE
LintIdle ==
    /\ source = <<>> /\ current = <<>> /\ passes = 0 /\ offered = <<>> /\ remaining = NotDone
    /\ settings = [enabled |-> {}, quiet |-> {}, unsafe |-> FALSE]
FlowIdle == region = <<Plain>> /\ flow = NoGraph
IncludeIdle == tree = [f \in Files |-> <<>>] /\ harvest = NoHarvest /\ graph = NoProjectGraph /\ problems = <<>>
ConfigIdle ==
    /\ mode = "push" /\ watching = FALSE
    /\ disk = [f \in ConfigFiles |-> IF f \in Dirs THEN Missing ELSE Config(y, NoFile)]
    /\ ConfigInit
CacheIdle == CacheInit

MCInit ==
    \/ component = "text" /\ LintIdle /\ FlowIdle /\ IncludeIdle /\ ConfigIdle /\ CacheIdle /\ TextInit
    \/ component = "lint" /\ TextIdle /\ FlowIdle /\ IncludeIdle /\ ConfigIdle /\ CacheIdle /\ LintInit
    \/ component = "flow" /\ TextIdle /\ LintIdle /\ IncludeIdle /\ ConfigIdle /\ CacheIdle /\ FlowInit
    \/ component = "include" /\ TextIdle /\ LintIdle /\ FlowIdle /\ ConfigIdle /\ CacheIdle /\ IncludeInit
    \/ component = "config" /\ TextIdle /\ LintIdle /\ FlowIdle /\ IncludeIdle /\ CacheIdle /\ ConfigInit
    \/ component = "cache" /\ TextIdle /\ LintIdle /\ FlowIdle /\ IncludeIdle /\ ConfigIdle /\ CacheInit

MCNext ==
    /\ UNCHANGED component
    /\ \/ component = "text" /\ TextNext
          /\ UNCHANGED <<lintVars, flowVars, includeVars, configVars, cacheVars>>
       \/ component = "lint" /\ LintNext
          /\ UNCHANGED <<textVars, flowVars, includeVars, configVars, cacheVars>>
       \/ component = "flow" /\ FlowNext
          /\ UNCHANGED <<textVars, lintVars, includeVars, configVars, cacheVars>>
       \/ component = "include" /\ IncludeNext
          /\ UNCHANGED <<textVars, lintVars, flowVars, configVars, cacheVars>>
       \/ component = "config" /\ ConfigNext
          /\ UNCHANGED <<textVars, lintVars, flowVars, includeVars, cacheVars>>
       \/ component = "cache" /\ CacheNext /\ MCFirstStart
          /\ UNCHANGED <<textVars, lintVars, flowVars, includeVars, configVars>>

MCSpec == MCInit /\ [][MCNext]_<<component, textVars, lintVars, flowVars, includeVars, configVars, cacheVars>>

(* Whatever path a text takes, through changes, positions or format edits,   *)
(* client and server mean the same text and the same places in it            *)
(* (text/edit.rs, line_index.rs, lsp/format.rs).                             *)
TextsAgree == component = "text" => BuffersAgree /\ PositionsAgree /\ FormatEditsReproduce
=============================================================================

------------------------------ MODULE IncludeGraph ------------------------------
(***************************************************************************)
(* Three walks over the `include`s of one package, which the code keeps    *)
(* apart: the harvester's, which reads the disk (index/harvest.rs); the    *)
(* server's include graph, derived from the files the harvest found        *)
(* (incremental.rs project_graph); and the command line's include problems *)
(* (linter/include_graph.rs).  They must agree on which files belong to    *)
(* the package, in which module each runs, and which includes are wrong.   *)
(*                                                                         *)
(* A file is the sequence of its static includes in source order: each     *)
(* names a target, the modules of the file around the call, and whether    *)
(* the call stands at the top level of its module or inside an `if`, a     *)
(* `begin` or a function.  In one file, a module name means one block.     *)
(***************************************************************************)
EXTENDS Naturals, Sequences, FiniteSets, SequencesExt

CONSTANTS
    Files,            \* the files on disk
    Absent,           \* a target that is not on disk
    Entry,            \* src/<Pkg>.jl
    Pkg,              \* the package's name
    Trees             \* the packages considered: Files -> sequences of includes

Include(target, suffix, direct) == [target |-> target, suffix |-> suffix, direct |-> direct]

VARIABLES
    tree,
    harvest,          \* PackageIndex: members, member_modules
    graph,            \* ProjectGraph
    problems          \* include_problems of each file: <<edge, kind>>

includeVars == <<tree, harvest, graph, problems>>
-----------------------------------------------------------------------------
(* The harvester's walk.  Its state: the members in walk order, the module  *)
(* of each, and whether the package's own `module` was met: that one stands *)
(* for the root and is not a nesting.                                       *)

NoHarvest == [members |-> <<>>, modules |-> <<>>, root_filled |-> FALSE]
IsMember(h, f) == f \in Range(h.members)

RECURSIVE WalkFile(_, _, _, _)

(* handle_module and walk_call for one include of a file at module `path`.  *)
(* `own` tells that the package's module block is this file's. *)
WalkInclude(state, item, path, at_root) ==
    LET h == state.h
        absorbs == /\ at_root /\ item.suffix # <<>> /\ Head(item.suffix) = Pkg
                   /\ (~h.root_filled \/ state.own)
        filled == [h EXCEPT !.root_filled = @ \/ absorbs]
        suffix == IF absorbs THEN Tail(item.suffix) ELSE item.suffix
        walked == IF item.direct /\ item.target # Absent
                  THEN WalkFile(filled, item.target, path \o suffix, at_root /\ item.suffix = <<>>)
                  ELSE filled
    IN  [h |-> walked, own |-> state.own \/ absorbs]

(* A file is walked once, where the first include of it stands. *)
WalkFile(h, f, path, at_root) ==
    IF IsMember(h, f) THEN h
    ELSE LET entered == [h EXCEPT !.members = Append(@, f),
                                  !.modules = [g \in DOMAIN @ \cup {f} |-> IF g = f THEN path ELSE @[g]]]
         IN  FoldLeft(LAMBDA state, item : WalkInclude(state, item, path, at_root),
                      [h |-> entered, own |-> FALSE], tree[f]).h

HarvestPackage == WalkFile(NoHarvest, Entry, <<>>, TRUE)
-----------------------------------------------------------------------------
(* project_graph.  A file is gray while it is on the stack, black after.    *)

NoProjectGraph == [nodes |-> <<>>, hosts |-> <<>>, gray |-> {}, forward |-> {},
                   cycles |-> {}, unresolved |-> {}]

(* A plausible mistake: every module is a nesting. *)
ChildHostUnstripped(host, suffix) == host \o suffix

(* host_suffix without the absorbed root module. *)
ChildHost(host, suffix) ==
    IF host = <<>> /\ suffix # <<>> /\ Head(suffix) = Pkg THEN Tail(suffix) ELSE host \o suffix

RECURSIVE WalkIncludeGraph(_, _, _, _)
WalkIncludeGraph(g, seeded, f, host) ==
    LET entered == [g EXCEPT !.gray = @ \cup {f}, !.nodes = Append(@, f),
                             !.hosts = [n \in DOMAIN @ \cup {f} |-> IF n = f THEN host ELSE @[n]]]
        Follow(h, i) ==
            LET item == tree[f][i]
                known == [h EXCEPT !.forward = @ \cup {<<f, item.target>>}]
            IN  CASE item.target \notin seeded -> [h EXCEPT !.unresolved = @ \cup {<<f, i>>}]
                  [] item.target \in h.gray -> [known EXCEPT !.cycles = @ \cup {<<f, i>>}]
                  [] item.target \in Range(h.nodes) -> known
                  [] OTHER -> WalkIncludeGraph(known, seeded, item.target, ChildHost(host, item.suffix))
        walked == FoldLeft(Follow, entered, [i \in DOMAIN tree[f] |-> i])
    IN  [walked EXCEPT !.gray = @ \ {f}]

(* The graph sees the members of the last harvest only. *)
ProjectGraph(seeded) ==
    IF Entry \in seeded THEN WalkIncludeGraph(NoProjectGraph, seeded, Entry, <<>>)
    ELSE NoProjectGraph
-----------------------------------------------------------------------------
(* include_problems.                                                        *)

Targets(f) == { tree[f][i].target : i \in DOMAIN tree[f] } \ {Absent}

RECURSIVE ReachedFrom(_)
ReachedFrom(S) ==
    LET more == UNION { Targets(f) : f \in S }
    IN  IF more \subseteq S THEN S ELSE ReachedFrom(S \cup more)

(* reaches: inclusive. *)
Reaches(from, goal) == goal \in ReachedFrom({from})

IncludeProblems(f) ==
    LET Repeated(i) == \E j \in 1 .. i - 1 : /\ tree[f][j].target = tree[f][i].target
                                            /\ tree[f][j].suffix = tree[f][i].suffix
        Missing(i) == tree[f][i].target = Absent
        Cycle(i) == ~Missing(i) /\ Reaches(tree[f][i].target, f)
        Of(kind, Holds(_)) == { <<i, kind>> : i \in {j \in DOMAIN tree[f] : Holds(j)} }
    IN  Of("missing", Missing) \cup Of("cycle", Cycle) \cup Of("duplicate", Repeated)
-----------------------------------------------------------------------------
IncludeInit ==
    /\ tree \in Trees
    /\ harvest = NoHarvest
    /\ graph = NoProjectGraph
    /\ problems = <<>>

Harvest ==
    /\ harvest = NoHarvest
    /\ harvest' = HarvestPackage
    /\ UNCHANGED <<tree, graph, problems>>

DeriveGraph ==
    /\ harvest # NoHarvest /\ graph = NoProjectGraph
    /\ graph' = ProjectGraph(Range(harvest.members))
    /\ UNCHANGED <<tree, harvest, problems>>

LintIncludes ==
    /\ problems = <<>>
    /\ problems' = [f \in Files |-> IncludeProblems(f)]
    /\ UNCHANGED <<tree, harvest, graph>>

IncludeNext == Harvest \/ DeriveGraph \/ LintIncludes
IncludeSpec == IncludeInit /\ [][IncludeNext]_includeVars
-----------------------------------------------------------------------------
(* Properties.                                                              *)

Includes == { <<f, i>> \in Files \X (1 .. 9) : i \in DOMAIN tree[f] }
ItemAt(e) == tree[e[1]][e[2]]

(* The packages on which the walks can agree: every include stands at the   *)
(* top level of a module, and only the entry holds a module of the          *)
(* package's name. *)
WellFormed ==
    /\ \A e \in Includes : ItemAt(e).direct
    /\ \A e \in Includes : \A k \in DOMAIN ItemAt(e).suffix :
          ItemAt(e).suffix[k] = Pkg => e[1] = Entry /\ k = 1

Done == graph # NoProjectGraph /\ problems # <<>>

(* The server's graph and the harvest list the same files in the same order *)
(* and place each in the same module ("held in lockstep by a parity test"). *)
WalksAgree ==
    Done /\ WellFormed => /\ graph.nodes = harvest.members
                          /\ graph.hosts = harvest.modules

(* An include that closes a cycle is reported where the walk meets it, and  *)
(* the command line reports it too; without the reported includes there is  *)
(* no cycle left: what loads first, loads. *)
CyclesAreCut ==
    Done =>
      LET kept == { e \in Includes : /\ ItemAt(e).target \in Range(graph.nodes)
                                     /\ e[1] \in Range(graph.nodes) /\ e \notin graph.cycles }
          after(f) == { ItemAt(e).target : e \in {d \in kept : d[1] = f} }
          rest[n \in 0 .. Cardinality(Files)] ==
              IF n = 0 THEN Range(graph.nodes)
              ELSE { f \in rest[n - 1] : after(f) \cap rest[n - 1] # {} }
      IN  /\ rest[Cardinality(Files)] = {}
          /\ \A e \in graph.cycles : <<e[2], "cycle">> \in problems[e[1]]

(* On such packages the includes the server calls unresolved are those the  *)
(* command line calls missing. *)
UnresolvedIsMissing ==
    Done /\ WellFormed =>
        graph.unresolved = { e \in Includes : /\ e[1] \in Range(graph.nodes)
                                              /\ <<e[2], "missing">> \in problems[e[1]] }

WalksAreConsistent == WalksAgree /\ CyclesAreCut /\ UnresolvedIsMissing

(* "The language server derives the same problems incrementally from its    *)
(* seeded workspace" (include_graph.rs): what it reports as missing the     *)
(* command line reports as missing. *)
ServerFindsTheSameMissing ==
    Done => \A e \in graph.unresolved : <<e[2], "missing">> \in problems[e[1]]
=============================================================================

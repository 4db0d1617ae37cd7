------------------------- MODULE MCWorkspaceHarvester -------------------------
(* Two workspace folders, one inside the other's sources, with a package in *)
(* each; without its project file the inner folder belongs to the outer.    *)
EXTENDS WorkspaceHarvester, TLC

CONSTANTS outer, inner, c1, c1body, c2

MCWalkUps == <<<<outer>>, <<inner, outer>>>>
MCDepth == outer :> 1 @@ inner :> 2
MCNames == {"A", "B"}
MCSources == {<<outer, "A.jl">>, <<outer, "B.jl">>, <<outer, "util.jl">>,
              <<inner, "A.jl">>, <<inner, "B.jl">>}
MCEntryOf == [p \in {outer, inner} |->
                "A" :> <<p, "A.jl">> @@ "B" :> <<p, "B.jl">>]
MCReadBy == outer :> {<<outer, "util.jl">>} @@ inner :> {}
MCUnderSrc == [s \in MCSources |-> IF s[1] = inner THEN {outer, inner} ELSE {outer}]
MCApiOf == c1 :> "one" @@ c1body :> "one" @@ c2 :> "two" @@ Absent :> "none"

Project(name, deps) == [name |-> name, deps |-> deps]
MCProjectTexts == {Project(name, deps) : name \in MCNames, deps \in SUBSET {"B"}}
MCManifests == {[pins |-> {}], [pins |-> {"B"}]}
MCInitialDisk ==
    (ProjectOf(outer) :> Project("A", {})) @@ (ManifestOf(outer) :> [pins |-> {}])
    @@ (ProjectOf(inner) :> Project("B", {})) @@ (ManifestOf(inner) :> Absent)
    @@ [s \in MCSources |-> IF s \in {<<outer, "B.jl">>, <<inner, "A.jl">>} THEN Absent ELSE c1]
MCTypedIn ==
    [f \in EnvFiles |-> IF f = ProjectOf(outer)
                        THEN {Broken, Project("A", {}), Project("A", {"B"})}
                        ELSE {}]
MCWrittenTo ==
    [f \in EnvFiles \cup MCSources |->
       CASE f = ProjectOf(outer) -> {Broken, Project("A", {"B"})}
         [] f = ManifestOf(outer) -> {Broken}
         [] f = ProjectOf(inner) -> {Absent, Project("B", {})}
         [] f = <<outer, "A.jl">> -> {Absent, c1}
         [] OTHER -> {}]

Nothing == [opens |-> 0, edits |-> 0, closes |-> 0, saves |-> 0, sources |-> 0,
            writes |-> 0, renames |-> 0, watched |-> FALSE]
MCBudgets ==
    { [Nothing EXCEPT !.opens = 2, !.edits = 1, !.closes = 1, !.saves = 1],
      [Nothing EXCEPT !.opens = 1, !.edits = 2, !.saves = 2],
      [Nothing EXCEPT !.opens = 1, !.edits = 1, !.writes = 1, !.closes = 1, !.watched = TRUE],
      [Nothing EXCEPT !.sources = 3],
      [Nothing EXCEPT !.sources = 1, !.writes = 1, !.watched = TRUE],
      [Nothing EXCEPT !.writes = 2, !.watched = TRUE],
      [Nothing EXCEPT !.opens = 1, !.closes = 1, !.renames = 1],
      [Nothing EXCEPT !.renames = 1, !.sources = 1] }
MCRenames == { [Nothing EXCEPT !.renames = 2] }

(* The instance is one the theorem about the library speaks of.             *)
ASSUME LibraryHypotheses == WritesAreReported /\ FilesUnderSrc
=============================================================================

------------------------------ MODULE MCLintFixes ------------------------------
EXTENDS LintFixes, TLC

CONSTANTS r1, r2, r3

(* r1's fix leaves what r2 reports; r2's fix is unsafe; r3 has none. *)
MCRewrites == r1 :> r2 @@ r2 :> NoRule

SourceLines == { <<Stmt(r1), NewLine>>, <<Stmt(r3), NewLine>>, <<Stmt(NoRule), NewLine>>,
           <<Stmt(r2), Comment("node", r3), NewLine>>,
           <<Stmt(r3), Comment("node", Typo), NewLine>>,
           <<Comment("node", r1), NewLine>>, <<Comment("node", r2), NewLine>>,
           <<Comment("node", r3), NewLine>>,
           <<Comment("file", r3), NewLine>>, <<Comment("file", Outdated), NewLine>>,
           <<Comment("all", NoRule), NewLine>> }
Branches == { <<>>, <<Stmt(r3), NewLine>>, <<Comment("node", r3), NewLine>>,
              <<Stmt(r3), NewLine, Comment("node", r3), NewLine>>,
              <<Stmt(r2), Comment("node", r1), NewLine>> }

MCFirstFiles ==
    { l \o m \o n : l, m, n \in SourceLines }
    \cup { l \o <<If, NewLine>> \o b \o <<Else, NewLine>> \o c \o <<End, NewLine>> \o m :
             l \in {<<Stmt(r1), NewLine>>, <<Comment("node", r1), NewLine>>},
             m \in {<<Stmt(r3), NewLine>>, <<Comment("file", r3), NewLine>>, <<Comment("node", r2), NewLine>>},
             b, c \in Branches }
MCEnabled == { Rules, {r3, Outdated, Misnamed, Blanket} }
MCQuiets == { {}, {r3} }

MCLooseText == << Stmt(NoRule), Stmt(r1), NewLine >>
MCOneFix == { Fix(i, j, c, TRUE) : i, j \in 0 .. 3, c \in {<<>>, <<Stmt(r2)>>} }
MCLooseFixes ==
    LET valid == {f \in MCOneFix : f.start <= f.end}
    IN  { <<f, g, h>> : f, g, h \in valid }
=============================================================================

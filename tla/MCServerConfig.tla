----------------------------- MODULE MCServerConfig -----------------------------
EXTENDS ServerConfig

CONSTANTS top, sub, base, x, y

MCAbove == [d \in {top, sub} |-> IF d = sub THEN <<sub, top>> ELSE <<top>>]
MCContents == { Config(x, NoFile), Config(Unset, base), Broken }
MCBaseContents == { Config(y, NoFile), Config(Unset, top) }
MCFirstDisks ==
    { [f \in {top, sub, base} |-> CASE f = top -> Missing [] f = sub -> Missing [] OTHER -> Config(y, NoFile)],
      [f \in {top, sub, base} |-> CASE f = top -> Config(Unset, base) [] OTHER -> Missing] }
=============================================================================

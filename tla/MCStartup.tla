----------------------------- MODULE MCStartup -----------------------------
(* Startup for TLC: configuration files and command lines. *)
EXTENDS Startup, TLC

CONSTANTS f1, word, cfg, other, twice, lists, wrong, bare, small, missing

L(k, v)  == [key |-> k, value |-> v]
Comment  == L("#", NULL)
Opt(n, v) == [name |-> n, value |-> v]

MCNames == {f1, word}
MCPaths == {cfg, other, twice, lists, wrong, bare, small, missing}

Size == <<L("LCDCols", 4), L("LCDRows", 20)>>

\* A plain file; one with another database; one with repeated, unstored and over-wide values and no
\* database; both lists; an unknown keyword; one without a value; no size.
MCContentsOf ==
  cfg :> (<<Comment, L("ServerPort", 2), L("DatabaseFile", f1)>> \o Size)
  @@ other :> (<<L("DatabaseFile", word)>> \o Size)
  @@ twice :> (<<L("ServerPort", 1), L("LCDClrDisp", 1), L("LCDLine1", 896),
                 L("LCDLine2", 192), L("BlackList", word), L("ServerPort", 7)>> \o Size)
  @@ lists :> (<<L("BlackList", word), L("WhiteList", word)>> \o Size)
  @@ wrong :> (<<L("Whitelist", word)>> \o Size)
  @@ bare  :> <<L("ServerPort", NULL)>>
  @@ small :> <<L("DatabaseFile", f1), L("LCDRows", 20)>>
  @@ missing :> NULL

MCCommandLines ==
  {<<>>, <<Opt("--port", 3)>>, <<Opt("--port", word)>>, <<Opt("--port", NULL)>>,
   <<Opt("--port", 0)>>, <<Opt("--config", twice), Opt("--bind", word), Opt("--config", cfg)>>,
   <<Opt("--help", NULL)>>, <<Opt("--config", twice), Opt("--port", 3), Opt("--port", 5)>>}
  \cup {<<Opt("--config", p)>> : p \in MCPaths \ {cfg}}
=============================================================================

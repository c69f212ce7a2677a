--------------------------- MODULE MCCommandLine ---------------------------
(* CommandLine for TLC: a stack that is clear, or full of letters.           *)
EXTENDS CommandLine

CONSTANTS a

MCFills == {[k \in Places |-> NUL], [k \in Places |-> a]}
=============================================================================

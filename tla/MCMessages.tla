----------------------------- MODULE MCMessages -----------------------------
(***************************************************************************)
(* Values of the constants of Messages for TLC.                            *)
(***************************************************************************)
EXTENDS Messages, TLC

\* A body that leaves a line of the display blank, and one that fills it.
MCTexts  == {"short", "long"}
MCRowsOf == [x \in MCTexts |-> IF x = "short" THEN 1 ELSE 2]

\* A single body, where only the rows and their numbers matter.
MCText  == {"short"}
MCRowOf == [x \in MCText |-> 1]

\* Bodies of one row, whatever they are.
MCOneRow == [x \in Texts |-> 1]

\* The clients are interchangeable, and so are bodies of one length: no
\* definition names one.
Interchangeable == Permutations(Clients) \cup Permutations(Texts)

=============================================================================

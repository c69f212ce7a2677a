----------------------------- MODULE MCLcdPanel -----------------------------
(* LcdPanel for TLC: lengths of the texts, and the memory of a panel where   *)
(* row 3 follows row 1.                                                      *)
EXTENDS LcdPanel, TLC

CONSTANTS short, long, g, sp, w1, w2, n1, n2

MCWelcome == <<w1, w2>>
MCNotices == <<n1, n2>>
MCLengthOf == short :> 1 @@ long :> 3 @@ g :> 3 @@ sp :> 1
              @@ w1 :> 1 @@ w2 :> 1 @@ n1 :> 2 @@ n2 :> 1
\* Scrolling off, with a long text scrolled as it is set or not, and on.
MCSettings == {[enabled |-> FALSE, speedIs1 |-> FALSE], [enabled |-> FALSE, speedIs1 |-> TRUE],
               [enabled |-> TRUE, speedIs1 |-> TRUE]}
MCFollows == <<3, 1, 2>>
\* Clients differ in nothing but their names.
MCSymmetry == Permutations(Clients)
=============================================================================

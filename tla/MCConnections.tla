--------------------------- MODULE MCConnections ---------------------------
(***************************************************************************)
(* Symmetry for the safety runs of Connections.                            *)
(***************************************************************************)
EXTENDS Connections, TLC

\* The connections are interchangeable: no definition names one.
ConnSymmetry == Permutations(Conns)

=============================================================================

----------------------------- MODULE MCSessions -----------------------------
(***************************************************************************)
(* Values of the constants of Sessions for TLC.                            *)
(***************************************************************************)
EXTENDS Sessions, TLC

MCWords    == {"admin", "eve", "2", "-1", "verylong"}
MCNumberOf == [w \in MCWords |-> CASE w = "2" -> 2 [] w = "-1" -> -1 [] OTHER -> NULL]
MCTooLong  == {"verylong"}

Line(n, a) == [name |-> n, args |-> a]

\* A command without arguments; a message; logging in as admin and, with a word
\* too many, as the user made; making a moderator.  The arguments that the
\* threads take from each other add the rest: a user of level -1 (the words of
\* the message), a level that is no number, a name that is too long (those of
\* the login).
MCLines ==
  {Line("MSG_DEL", <<>>), Line("MSG_CREATE", <<"eve", "eve", "-1">>),
   Line("IDENT", <<"admin", "admin">>), Line("IDENT", <<"eve", "eve", "verylong">>),
   Line("CREATE_USER", <<"eve", "eve", "2">>)}

\* The clients are interchangeable: no definition names one.
ClientSymmetry == Permutations(Clients)

=============================================================================

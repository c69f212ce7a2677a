----------------------------- MODULE Databases -----------------------------
(***************************************************************************)
(* What the database files promise over any number of starts.  Each is     *)
(* made once; from then on it is what the start that made it left: a       *)
(* complete database, or one without its tables or its default user.  No   *)
(* later start initializes the one again, or repairs the other.  Module    *)
(* Startup implements it, whatever fails and wherever a start is ended.    *)
(***************************************************************************)
CONSTANTS
  Files,
  None,        \* there is no such file
  New,         \* it is being made
  Complete,    \* the database as it should be
  Unfinished   \* what a start that did not get through may leave instead

VARIABLE db    \* how each file stands

Init == db = [f \in Files |-> None]

\* One database is made at a time.
Make(f) ==
  /\ db[f] = None
  /\ \A g \in Files : db[g] # New
  /\ db' = [db EXCEPT ![f] = New]

Finish(f) ==
  /\ db[f] = New
  /\ db' = [db EXCEPT ![f] = Complete]

Abandon(f) ==
  /\ db[f] = New
  /\ \E d \in Unfinished : db' = [db EXCEPT ![f] = d]

Next == \E f \in Files : Make(f) \/ Finish(f) \/ Abandon(f)

Spec == Init /\ [][Next]_db

=============================================================================

---------------------------- MODULE MessageBoard ----------------------------
(***************************************************************************)
(* What the message commands promise a single user: a board of numbered    *)
(* messages, one of which may be current, and commands that each take      *)
(* effect at once.  Module Messages implements it for one client and a     *)
(* database whose statements succeed.                                      *)
(***************************************************************************)
EXTENDS Integers

CONSTANTS Texts, NULL

VARIABLES
  stored,   \* the messages on the board, records [id, text]
  issued,   \* the last number given to a message
  current   \* the message on display, or NULL

vars == <<stored, issued, current>>

New(x) == [id |-> issued + 1, text |-> x]

\* The neighbours of a message, and the newest message of a set.
Next1(m) == {n \in stored : n.id > m.id /\ \A o \in stored : o.id > m.id => n.id <= o.id}
Prev1(m) == {n \in stored : n.id < m.id /\ \A o \in stored : o.id < m.id => o.id <= n.id}
Newest(S) == {n \in S : \A o \in S : o.id <= n.id}

Init == stored = {} /\ issued = 0 /\ current = NULL

\* A new message gets a number no message ever had, and becomes current.
Post(x) ==
  /\ stored' = stored \cup {New(x)}
  /\ issued' = issued + 1
  /\ current' = New(x)

\* A message whose author the board lost before it could be displayed.
PostUnseen(x) ==
  /\ stored' = stored \cup {New(x)}
  /\ issued' = issued + 1
  /\ current' = NULL

Move ==
  /\ current # NULL
  /\ \E n \in Next1(current) \cup Prev1(current) : current' = n
  /\ UNCHANGED <<stored, issued>>

ShowNewest ==
  /\ \E n \in Newest(stored) : current' = n
  /\ UNCHANGED <<stored, issued>>

\* The current message, and no other, leaves the board; the newest one left
\* takes its place.
Remove ==
  /\ current \in stored
  /\ stored' = stored \ {current}
  /\ \/ \E n \in Newest(stored') : current' = n
     \/ stored' = {} /\ current' = NULL
  /\ UNCHANGED issued

\* The program starts again: it remembers the board, not the current message.
Forget == current' = NULL /\ UNCHANGED <<stored, issued>>

Next == (\E x \in Texts : Post(x) \/ PostUnseen(x)) \/ Move \/ ShowNewest \/ Remove \/ Forget

Spec == Init /\ [][Next]_vars

=============================================================================

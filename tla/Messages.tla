------------------------------ MODULE Messages ------------------------------
(***************************************************************************)
(* The message board: src/src/message/message.c with the handlers of       *)
(* src/src/server/handle_msg.c that call it, and what the commands of      *)
(* src/src/server/handle_lcdtxt.c do to the display it is shown on.        *)
(*                                                                         *)
(* Every client has a handler thread.  The threads share, with no lock:    *)
(* the sqlite connection (each statement is atomic, a sequence of them is  *)
(* not), the global pointer currentMessage, and the lines of the display.  *)
(* A step of a thread is one access to one of these.                       *)
(*                                                                         *)
(* Abstractions: a message body is a value of Texts that fills RowsOf[x]   *)
(* display rows; a Message object is a record, because no object changes   *)
(* once currentMessage points to it; one call of set_lcd_line_text is one  *)
(* step; the access check that precedes a handler is in module Sessions;   *)
(* what SET_TEXT and the like put on a line is one value, Custom, whatever *)
(* it is (module LcdPanel has them in full).                               *)
(***************************************************************************)
EXTENDS Integers, Sequences

CONSTANTS
  Clients,      \* the connected clients: one handler thread each
  Texts,        \* message bodies
  RowsOf,       \* display rows a body fills, [Texts -> Nat]
  Height,       \* config.lcdConfig.lcdHeight
  UserIds,      \* row ids an INSERT into table users may return
  NULL,
  LineCommands, \* those of SET_TEXT, CLEAR_LINE and MSG_SCROLL that clients send
  DbMayFail,    \* may a statement fail (database locked, disk full)?
  MaxId,        \* bound: messages ever inserted
  MaxSignals    \* bound: times the process is signalled to stop

ASSUME ConstantsOK ==
  /\ NULL \notin Texts /\ NULL \notin [id : Nat, text : Texts]
  /\ RowsOf \in [Texts -> Nat]
  /\ Height \in Nat \ {0}
  /\ UserIds \subseteq Nat \ {0}
  /\ LineCommands \subseteq {"SET_TEXT", "CLEAR_LINE", "MSG_SCROLL"}
  /\ DbMayFail \in BOOLEAN
  /\ MaxId \in Nat
  /\ MaxSignals \in Nat

VARIABLES
  messages,       \* table messages: a set of rows
  sequence,       \* the AUTOINCREMENT counter of table messages
  lastRowid,      \* sqlite3_last_insert_rowid(db): per connection
  currentMessage, \* the global pointer: NULL or a Message
  screen,         \* what the display shows on each line
  process,        \* "up", "stopped" by a signal, or "segfault"
  signals,        \* signals received so far
  pc,             \* where each client's thread is
  cmd,            \* the command it runs
  msg,            \* its local Message object
  cursor,         \* the id it took from currentMessage
  row,            \* the next display line print_message_object writes
  replies,        \* the replies sent to that command
  own,            \* history: the row its MSG_CREATE inserted, 0 if none
  acked,          \* history: rows whose MSG_CREATE was answered OK 110
  erased,         \* history: ids a MSG_DEL was asked to delete
  crossed         \* history: has an INSERT of this process failed, or come between
                  \* another one and its sqlite3_last_insert_rowid?

board  == <<messages, sequence, lastRowid>>
locals == <<cmd, msg, cursor, row>>
ghosts == <<own, acked, erased, crossed>>
vars   == <<board, currentMessage, screen, process, signals, pc, locals, replies, ghosts>>

(***************************************************************************)
(* Values                                                                  *)
(***************************************************************************)
Message  == [id : Nat, text : Texts]
NoObject == [id |-> 0, text |-> NULL]      \* what calloc returns

Cell == [kind : {"blank", "notice", "header", "body", "custom"}, text : Texts \cup {NULL}, part : Nat]

Blank       == [kind |-> "blank",  text |-> NULL, part |-> 0]
Notice      == [kind |-> "notice", text |-> NULL, part |-> 0]
Custom      == [kind |-> "custom", text |-> NULL, part |-> 0]
HeaderOf(x) == [kind |-> "header", text |-> x,    part |-> 0]
BodyOf(x,n) == [kind |-> "body",   text |-> x,    part |-> n]

BugCellOf(x, i) ==  \* mutant: > for >= in the test for the end of the body
  IF i = 1 THEN HeaderOf(x)
  ELSE IF i - 2 > RowsOf[x] THEN Blank ELSE BodyOf(x, i - 1)

\* The cell print_message_object writes on line i for the body x: the header
\* on line 1, then the body, one part per line, then blanks.
CellOf(x, i) ==
  IF i = 1 THEN HeaderOf(x)
  ELSE IF i - 2 >= RowsOf[x] THEN Blank ELSE BodyOf(x, i - 1)

\* What the display shows once main has cleared it and written the welcome.
Welcome == [i \in 1..Height |-> IF i \in {1, 2} THEN Notice ELSE Blank]

BugBefore(i) ==   \* mutant: ORDER BY id ASC
  {m \in messages : m.id < i /\ \A o \in messages : o.id < i => m.id <= o.id}
BugAfterNext(i) ==   \* mutant: WHERE id > ? + 1
  {m \in messages : m.id > i + 1 /\ \A o \in messages : o.id > i + 1 => m.id <= o.id}
BugWithId(i) == {m \in messages : m.id <= i}  \* mutant: WHERE id <= ?

\* ... WHERE id = ?
WithId(i) == {m \in messages : m.id = i}
\* ... WHERE id > ? ORDER BY id ASC LIMIT 1
After(i)  == {m \in messages : m.id > i /\ \A o \in messages : o.id > i => m.id <= o.id}
\* ... WHERE id < ? ORDER BY id DESC LIMIT 1
Before(i) == {m \in messages : m.id < i /\ \A o \in messages : o.id < i => o.id <= m.id}
\* ... ORDER BY id DESC LIMIT 1
Latest    == {m \in messages : \A o \in messages : o.id <= m.id}

(***************************************************************************)
(* Initial state: a new database, the server listening                     *)
(***************************************************************************)
Labels == {"idle", "rowid", "print", "zero", "line", "read", "select",
           "delete", "clear", "latest", "nomore", "custom", "reply", "done"}

Statuses == {"OK_MESSAGE_SET", "OK_MESSAGE_DELETED", "OK_USER_CREATED",
             "OK_LINE_CLEARED", "OK_CLEAR_DISPLAY",
             "ERROR_NO_MORE_MESSAGES", "ERROR_NO_MESSAGE_SHOWN",
             "ERROR_INVALID_LINE", "ERROR_INVALID_ALIGN"}

MessageCommands == {"MSG_CREATE", "MSG_NEXT", "MSG_PREV", "MSG_LATEST", "MSG_DEL"}

Commands == MessageCommands \cup LineCommands \cup {"none", "CLEAR_DISPLAY", "CREATE_USER"}

Init ==
  /\ messages = {} /\ sequence = 0 /\ lastRowid = 0
  /\ currentMessage = NULL
  /\ screen = Welcome
  /\ process = "up" /\ signals = 0
  /\ pc      = [t \in Clients |-> "idle"]
  /\ cmd     = [t \in Clients |-> "none"]
  /\ msg     = [t \in Clients |-> NoObject]
  /\ cursor  = [t \in Clients |-> 0]
  /\ row     = [t \in Clients |-> 1]
  /\ replies = [t \in Clients |-> <<>>]
  /\ own     = [t \in Clients |-> 0]
  /\ acked = {} /\ erased = {} /\ crossed = FALSE

At(t, l)   == process = "up" /\ pc[t] = l
Goto(t, l) == pc' = [pc EXCEPT ![t] = l]

\* The command is over, and the replies rs have been sent.
Finish(t, rs) == Goto(t, "done") /\ replies' = [replies EXCEPT ![t] = rs]

\* Thread t, with nothing to do, takes up command c.
Begin(t, c) ==
  /\ At(t, "idle")
  /\ cmd' = [cmd EXCEPT ![t] = c]

BugSetLine(i, cell) ==  \* mutant: >= for > in the test of the line number
  IF i >= Height THEN UNCHANGED screen ELSE screen' = [screen EXCEPT ![i] = cell]

\* set_lcd_line_text(cell, i): refused, with the status ignored, past Height.
SetLine(i, cell) == screen' = [screen EXCEPT ![i] = cell]

(***************************************************************************)
(* MSG_CREATE: handle_msg, new_message, save_message                       *)
(***************************************************************************)
\* A thread whose INSERT is done has not asked for its rowid yet.
RowidAwaited == \E u \in Clients : pc[u] = "rowid"

\* INSERT INTO messages.  The result of the statement is never looked at.
CreateMessage(t, x) ==
  /\ Begin(t, "MSG_CREATE")
  /\ \/ /\ sequence < MaxId
        /\ sequence'  = sequence + 1
        /\ messages'  = messages \cup {[id |-> sequence + 1, text |-> x]}
        /\ lastRowid' = sequence + 1
        /\ own' = [own EXCEPT ![t] = sequence + 1]
        /\ crossed' = (crossed \/ RowidAwaited)
     \/ /\ DbMayFail
        /\ own' = [own EXCEPT ![t] = 0]
        /\ crossed' = TRUE
        /\ UNCHANGED board
  /\ msg' = [msg EXCEPT ![t] = [id |-> 0, text |-> x]]
  /\ Goto(t, "rowid")
  /\ UNCHANGED <<currentMessage, screen, process, signals, cursor, row, replies, acked, erased>>

BugTakeRowid(t) ==  \* mutant: the number of rows inserted, not their id
  /\ At(t, "rowid")
  /\ msg' = [msg EXCEPT ![t] = [id |-> 1, text |-> msg[t].text]]
  /\ Goto(t, "print")
  /\ UNCHANGED <<board, currentMessage, screen, process, signals, cmd, cursor, row, replies, ghosts>>

\* msg->id = sqlite3_last_insert_rowid(db), a call of its own.
TakeRowid(t) ==
  /\ At(t, "rowid")
  /\ msg' = [msg EXCEPT ![t] = [id |-> lastRowid, text |-> msg[t].text]]
  /\ Goto(t, "print")
  /\ UNCHANGED <<board, currentMessage, screen, process, signals, cmd, cursor, row, replies, ghosts>>

(***************************************************************************)
(* print_message_object                                                    *)
(***************************************************************************)
\* An object with id 0 is not displayed: two lines say so instead.
PrintZero(t) ==
  /\ \/ At(t, "print") /\ msg[t].id = 0 /\ SetLine(1, Notice) /\ Goto(t, "zero")
     \/ At(t, "zero") /\ SetLine(2, Notice) /\ Goto(t, "reply")
  /\ UNCHANGED <<board, currentMessage, process, signals, locals, replies, ghosts>>

Publish(t) ==
  /\ At(t, "print") /\ msg[t].id # 0
  /\ currentMessage' = msg[t]
  /\ row' = [row EXCEPT ![t] = 1]
  /\ Goto(t, "line")
  /\ UNCHANGED <<board, screen, process, signals, cmd, msg, cursor, replies, ghosts>>

BugPrintLine(t) ==  \* mutant: <= for < in the test for the last line
  /\ At(t, "line")
  /\ SetLine(row[t], CellOf(msg[t].text, row[t]))
  /\ IF row[t] <= Height
     THEN row' = [row EXCEPT ![t] = @ + 1] /\ UNCHANGED pc
     ELSE Goto(t, "reply") /\ UNCHANGED row
  /\ UNCHANGED <<board, currentMessage, process, signals, cmd, msg, cursor, replies, ghosts>>

\* The header, then every other line: a part of the body or a blank.
PrintLine(t) ==
  /\ At(t, "line")
  /\ SetLine(row[t], CellOf(msg[t].text, row[t]))
  /\ IF row[t] < Height
     THEN row' = [row EXCEPT ![t] = @ + 1] /\ UNCHANGED pc
     ELSE Goto(t, "reply") /\ UNCHANGED row
  /\ UNCHANGED <<board, currentMessage, process, signals, cmd, msg, cursor, replies, ghosts>>

(***************************************************************************)
(* MSG_NEXT, MSG_PREV, MSG_LATEST                                          *)
(***************************************************************************)
BugTestCurrent(t, c) ==  \* mutant: no test of the pointer
  /\ Begin(t, c)
  /\ Goto(t, "read")
  /\ UNCHANGED <<board, currentMessage, screen, process, signals, msg, cursor, row, replies, ghosts>>

\* get_next_message_object tests currentMessage for NULL ... and returns 320,
\* a status for which handle_next_msg and handle_prev_msg have no case.
TestCurrent(t, c) ==
  /\ Begin(t, c)
  /\ IF currentMessage = NULL
     THEN Finish(t, IF c = "MSG_DEL" THEN <<"ERROR_NO_MESSAGE_SHOWN">> ELSE <<>>)
     ELSE Goto(t, "read") /\ UNCHANGED replies
  /\ UNCHANGED <<board, currentMessage, screen, process, signals, msg, cursor, row, ghosts>>

\* ... and follows the pointer afterwards.
ReadCurrent(t) ==
  /\ At(t, "read") /\ currentMessage # NULL
  /\ cursor' = [cursor EXCEPT ![t] = currentMessage.id]
  /\ Goto(t, IF cmd[t] = "MSG_DEL" THEN "delete" ELSE "select")
  /\ UNCHANGED <<board, currentMessage, screen, process, signals, cmd, msg, row, replies, ghosts>>

\* A SELECT that fails leaves the object with id 0, like one that finds no row.
Fetch(t, rows, none) ==
  \/ \E m \in rows : msg' = [msg EXCEPT ![t] = m] /\ Goto(t, "print") /\ UNCHANGED replies
  \/ /\ rows = {} \/ DbMayFail
     /\ msg' = [msg EXCEPT ![t] = NoObject]
     /\ none

SelectNeighbour(t) ==
  /\ At(t, "select")
  /\ Fetch(t, IF cmd[t] = "MSG_NEXT" THEN After(cursor[t]) ELSE Before(cursor[t]),
           Finish(t, <<"ERROR_NO_MORE_MESSAGES">>))
  /\ UNCHANGED <<board, currentMessage, screen, process, signals, cmd, cursor, row, ghosts>>

\* handle_latest_msg falls out of its switch into a second reply.
SelectLatest(t) ==
  /\ Begin(t, "MSG_LATEST")
  /\ Fetch(t, Latest, Finish(t, <<"ERROR_NO_MORE_MESSAGES", "OK_MESSAGE_SET">>))
  /\ UNCHANGED <<board, currentMessage, screen, process, signals, cursor, row, ghosts>>

(***************************************************************************)
(* MSG_DEL: delete_message                                                 *)
(***************************************************************************)
\* DELETE FROM messages WHERE id = ?; deleting no row at all is a success.
DeleteRow(t) ==
  /\ At(t, "delete")
  /\ \/ /\ messages' = messages \ WithId(cursor[t])
        /\ erased' = erased \cup {cursor[t]}
        /\ Goto(t, "clear") /\ UNCHANGED replies
     \/ /\ DbMayFail
        /\ Finish(t, <<"ERROR_NO_MESSAGE_SHOWN">>)
        /\ UNCHANGED <<messages, erased>>
  /\ UNCHANGED <<sequence, lastRowid, currentMessage, screen, process, signals, locals, own, acked, crossed>>

ClearCurrent(t) ==
  /\ At(t, "clear")
  /\ currentMessage' = NULL
  /\ Goto(t, "latest")
  /\ UNCHANGED <<board, screen, process, signals, locals, replies, ghosts>>

FallBack(t) ==
  /\ At(t, "latest")
  /\ Fetch(t, Latest, Goto(t, "nomore") /\ UNCHANGED replies)
  /\ UNCHANGED <<board, currentMessage, screen, process, signals, cmd, cursor, row, ghosts>>

\* "No more messages!" is written on line 1 only.
NoMoreMessages(t) ==
  /\ At(t, "nomore")
  /\ SetLine(1, Notice)
  /\ Goto(t, "reply")
  /\ UNCHANGED <<board, currentMessage, process, signals, locals, replies, ghosts>>

(***************************************************************************)
(* The reply to a command that got as far as the display                   *)
(***************************************************************************)
FinalReplies(c) ==
  CASE c = "MSG_DEL"       -> <<"OK_MESSAGE_DELETED">>
    [] c = "MSG_LATEST"    -> <<"OK_MESSAGE_SET", "OK_MESSAGE_SET">>
    [] c = "CLEAR_LINE"    -> <<"OK_LINE_CLEARED">>
    [] c = "CLEAR_DISPLAY" -> <<"OK_CLEAR_DISPLAY">>
    [] OTHER               -> <<"OK_MESSAGE_SET">>

Reply(t) ==
  /\ At(t, "reply")
  /\ Finish(t, FinalReplies(cmd[t]))
  /\ acked' = IF cmd[t] = "MSG_CREATE" /\ own[t] # 0
              THEN acked \cup {[id |-> own[t], text |-> msg[t].text]}
              ELSE acked
  /\ UNCHANGED <<board, currentMessage, screen, process, signals, locals, own, erased, crossed>>

\* The handler returns to the loop on recv, and its locals are gone.
Return(t) ==
  /\ At(t, "done")
  /\ Goto(t, "idle")
  /\ cmd' = [cmd EXCEPT ![t] = "none"]
  /\ msg' = [msg EXCEPT ![t] = NoObject]
  /\ cursor' = [cursor EXCEPT ![t] = 0]
  /\ row' = [row EXCEPT ![t] = 1]
  /\ replies' = [replies EXCEPT ![t] = <<>>]
  /\ own' = [own EXCEPT ![t] = 0]
  /\ UNCHANGED <<board, currentMessage, screen, process, signals, acked, erased, crossed>>

(***************************************************************************)
(* SET_TEXT, CLEAR_LINE, MSG_SCROLL and CLEAR_DISPLAY: they write the same *)
(* display, and leave currentMessage as it is                              *)
(***************************************************************************)
\* A line that is no number, or, for SET_TEXT and MSG_SCROLL, is not one of the
\* display's, and an alignment that is none.
Refusals(c) == IF c = "SET_TEXT" THEN {"ERROR_INVALID_LINE", "ERROR_INVALID_ALIGN"} ELSE {"ERROR_INVALID_LINE"}

\* One line is written (line 0 is shown as line 1), or none: with an error, or,
\* if set_lcd_line_text refuses the line to CLEAR_LINE or scrolling is off, with OK.
CustomLine(t, c) ==
  /\ Begin(t, c)
  /\ \/ \E i \in 1..Height : row' = [row EXCEPT ![t] = i] /\ Goto(t, "custom") /\ UNCHANGED replies
     \/ \E status \in Refusals(c) : Finish(t, <<status>>) /\ UNCHANGED row
     \/ c # "SET_TEXT" /\ Finish(t, FinalReplies(c)) /\ UNCHANGED row
  /\ UNCHANGED <<board, currentMessage, screen, process, signals, msg, cursor, ghosts>>

\* clear_lcd_lines begins with the first.
ClearDisplay(t) ==
  /\ Begin(t, "CLEAR_DISPLAY")
  /\ row' = [row EXCEPT ![t] = 1]
  /\ Goto(t, "custom")
  /\ UNCHANGED <<board, currentMessage, screen, process, signals, msg, cursor, replies, ghosts>>

\* One call of lcd_text; CLEAR_DISPLAY goes on with the next line, MSG_SCROLL (and
\* SET_TEXT with a text that is scrolled) with as many frames as the text has.
WriteCustom(t) ==
  /\ At(t, "custom")
  /\ SetLine(row[t], Custom)
  /\ IF cmd[t] = "CLEAR_DISPLAY" /\ row[t] < Height
     THEN row' = [row EXCEPT ![t] = @ + 1] /\ UNCHANGED pc
     ELSE (Goto(t, "reply") \/ UNCHANGED pc) /\ UNCHANGED row
  /\ UNCHANGED <<board, currentMessage, process, signals, cmd, msg, cursor, replies, ghosts>>

(***************************************************************************)
(* The rest of the program, as far as the board can tell                   *)
(***************************************************************************)
\* CREATE_USER inserts into another table through the same connection.
CreateUser(t) ==
  /\ Begin(t, "CREATE_USER")
  /\ lastRowid' \in UserIds
  /\ crossed' = (crossed \/ RowidAwaited)
  /\ Finish(t, <<"OK_USER_CREATED">>)
  /\ UNCHANGED <<messages, sequence, currentMessage, screen, process, signals, msg, cursor, row,
                 own, acked, erased>>

\* The process ends: the database is all that survives.
Die(how) ==
  /\ process' = how
  /\ currentMessage' = NULL /\ lastRowid' = 0
  /\ pc'     = [t \in Clients |-> "idle"]
  /\ cmd'    = [t \in Clients |-> "none"]
  /\ msg'    = [t \in Clients |-> NoObject]
  /\ cursor' = [t \in Clients |-> 0]
  /\ row'    = [t \in Clients |-> 1]
  /\ replies' = [t \in Clients |-> <<>>]
  /\ own'    = [t \in Clients |-> 0]
  /\ crossed' = FALSE
  /\ UNCHANGED <<messages, sequence, acked, erased>>

\* currentMessage became NULL after it was tested: &(currentMessage->id) is
\* followed by execute_sql (id is the first member, so the address is NULL).
FollowNull(t) ==
  /\ At(t, "read") /\ currentMessage = NULL
  /\ Die("segfault")
  /\ UNCHANGED <<screen, signals>>

\* SIGTERM, SIGINT or SIGHUP: the handler writes two lines and exits.
HandleSigs ==
  /\ process = "up" /\ signals < MaxSignals
  /\ signals' = signals + 1
  /\ screen' = [screen EXCEPT ![1] = Notice, ![2] = Notice]
  /\ Die("stopped")

\* systemd starts the service again (Restart=always): main opens the
\* database it finds, clears the display and writes the welcome.
Restart ==
  /\ process # "up"
  /\ process' = "up"
  /\ screen' = Welcome
  /\ UNCHANGED <<board, currentMessage, signals, pc, locals, replies, ghosts>>

-----------------------------------------------------------------------------
\* The steps of a command under way: what the scheduler owes a thread.
Run(t) ==
  \/ TakeRowid(t) \/ PrintZero(t) \/ Publish(t) \/ PrintLine(t)
  \/ ReadCurrent(t) \/ FollowNull(t) \/ SelectNeighbour(t)
  \/ DeleteRow(t) \/ ClearCurrent(t) \/ FallBack(t) \/ NoMoreMessages(t)
  \/ WriteCustom(t) \/ Reply(t) \/ Return(t)

Take(t) ==
  \/ \E x \in Texts : CreateMessage(t, x)
  \/ \E c \in {"MSG_NEXT", "MSG_PREV", "MSG_DEL"} : TestCurrent(t, c)
  \/ SelectLatest(t)
  \/ (\E c \in LineCommands : CustomLine(t, c)) \/ ClearDisplay(t)
  \/ CreateUser(t)

Next ==
  \/ \E t \in Clients : Take(t) \/ Run(t)
  \/ HandleSigs
  \/ Restart

Spec == Init /\ [][Next]_vars

\* A running thread is scheduled, its calls return, and systemd restarts the
\* service.  Nothing is owed to the clients: they may stop sending commands.
FairSpec == Spec /\ (\A t \in Clients : WF_vars(Run(t))) /\ WF_vars(Restart)

-----------------------------------------------------------------------------
(***************************************************************************)
(* Properties                                                              *)
(***************************************************************************)
TableTypeOK   == messages \subseteq Message /\ sequence \in Nat /\ lastRowid \in Nat
DisplayTypeOK == currentMessage \in Message \cup {NULL} /\ screen \in [1..Height -> Cell]
ProcessTypeOK == process \in {"up", "stopped", "segfault"} /\ signals \in Nat
ThreadTypeOK  ==
  /\ pc \in [Clients -> Labels]
  /\ cmd \in [Clients -> Commands]
  /\ cursor \in [Clients -> Nat]
  /\ row \in [Clients -> 1..Height]
  /\ replies \in [Clients -> Seq(Statuses)]
ObjectTypeOK  == msg \in [Clients -> Message \cup {NoObject}]
HistoryTypeOK ==
  /\ own \in [Clients -> Nat]
  /\ acked \subseteq Message /\ erased \subseteq Nat /\ crossed \in BOOLEAN

\* Types: a thread in print_message_object stays on the display's lines, and
\* a Message object is either as calloc left it or one with a text.
TypeOK ==
  /\ TableTypeOK /\ DisplayTypeOK /\ ProcessTypeOK
  /\ ThreadTypeOK /\ ObjectTypeOK /\ HistoryTypeOK

\* No command is under way.
Quiet == process = "up" /\ \A t \in Clients : pc[t] = "idle"

\* The row m is still there, or a MSG_DEL has asked for its number.
Kept(m) == m \in messages \/ m.id \in erased

\* A message whose author was told OK 110, its INSERT having succeeded, stays
\* in the table through other clients' commands and restarts, until some
\* MSG_DEL asks for its id.
AckedIsDurable == \A m \in acked : Kept(m)

\* No two rows carry the same id, and none is above the counter: the next
\* INSERT takes a number no row has.  (A part of the inductive invariant.)
IdsUnique ==
  /\ \A m, n \in messages : m.id = n.id => m = n
  /\ \A m \in messages : m.id \in 1..sequence

\* The current message is the row that carries its id, if the table has one:
\* what MSG_DEL deletes is what is on display.
CurrentMatchesRow ==
  currentMessage # NULL => \A m \in messages : m.id = currentMessage.id => m = currentMessage

\* Whatever several clients do at once: unless an INSERT of this process failed,
\* or came between another one and its sqlite3_last_insert_rowid, the current
\* message is the row with its id, or one that a MSG_DEL has asked to delete.
CurrentIsKept ==
  ~crossed /\ currentMessage # NULL => Kept(currentMessage) /\ CurrentMatchesRow

\* The display showing the body x and nothing else.
Rendered(x) ==
  [i \in 1..Height |-> IF i = 1 THEN HeaderOf(x)
                       ELSE IF i - 1 \in 1..RowsOf[x] THEN BodyOf(x, i - 1) ELSE Blank]

\* The line shows what the message m puts there, or what SET_TEXT, CLEAR_LINE,
\* MSG_SCROLL or CLEAR_DISPLAY has put there since.
ShownOn(i, m) == screen[i] \in {Rendered(m.text)[i], Custom}

\* When no command is under way, every line of the display shows the current
\* message (its header, its body, a blank behind them) or what a command that
\* writes lines has put in its place: no line of another message, and no notice.
ScreenShowsCurrent ==
  Quiet /\ currentMessage # NULL => \A i \in 1..Height : ShownOn(i, currentMessage)

\* currentMessage is never followed while it is NULL.
NoSegfault == process # "segfault"

\* README:21, of MSG_CREATE: "OK 110 MESSAGE_SET - Message was created in
\* database and displayed!"
OkMeansCreated ==
  \A t \in Clients : At(t, "done") /\ cmd[t] = "MSG_CREATE" => own[t] # 0

\* All of the current message is on display, and it is a row of the table.
OnDisplay == currentMessage \in messages /\ screen = Rendered(currentMessage.text)

\* No message lies on the side of the current one that c asks for.
NoneThere(c) ==
  \A m \in messages :
    \/ c = "MSG_NEXT" /\ m.id <= currentMessage.id
    \/ c = "MSG_PREV" /\ m.id >= currentMessage.id

\* Each reply to the message commands of a single client, the second to
\* MSG_LATEST included, is so: OK to MSG_DEL when the message is gone and the
\* display shows one that is left, if any; OK to the others when a message is
\* current and all of it on display; NO_MESSAGE_SHOWN when none is current;
\* NO_MORE_MESSAGES when there is none on that side (or at all).  But for two
\* things: MSG_LATEST on an empty board sends NO_MORE_MESSAGES and then an OK
\* that is not so, and MSG_NEXT and MSG_PREV with no current message, and no
\* other command, are left without a reply.
RepliesTruthful ==
  \A t \in Clients : At(t, "done") /\ cmd[t] \in MessageCommands =>
    /\ (replies[t] = <<>>) <=> (cmd[t] \in {"MSG_NEXT", "MSG_PREV"} /\ currentMessage = NULL)
    /\ \A n \in DOMAIN replies[t] :
         \/ /\ replies[t][n] = "OK_MESSAGE_DELETED"
            /\ WithId(cursor[t]) = {}
            /\ IF currentMessage = NULL THEN messages = {} ELSE OnDisplay
         \/ /\ replies[t][n] = "OK_MESSAGE_SET"
            /\ OnDisplay \/ (cmd[t] = "MSG_LATEST" /\ n = 2 /\ messages = {})
         \/ replies[t][n] = "ERROR_NO_MESSAGE_SHOWN" /\ currentMessage = NULL
         \/ replies[t][n] = "ERROR_NO_MORE_MESSAGES" /\ NoneThere(cmd[t])

\* Once a message is current, the display comes to show all of it, or another
\* message, but for lines that SET_TEXT and the like have written since:
\* print_message_object is brought to its end, and neither a command that
\* fails nor a signal leaves the display showing something else for good.
DisplayCatchesUp ==
  currentMessage # NULL
    ~> (currentMessage = NULL \/ \A i \in 1..Height : ShownOn(i, currentMessage))

-----------------------------------------------------------------------------
(***************************************************************************)
(* Refinement, for one client: the board a single user sees.  A row that   *)
(* has been inserted joins the board when it becomes current; a deletion   *)
(* takes effect when the row goes, with the message that will replace it.  *)
(***************************************************************************)
Posting(t)  == cmd[t] = "MSG_CREATE" /\ pc[t] \in {"rowid", "print"}
Removing(t) == cmd[t] = "MSG_DEL" /\ pc[t] \in {"clear", "latest", "print", "nomore"}

BoardStored == {m \in messages : ~\E t \in Clients : Posting(t) /\ m.id = own[t]}
BoardIssued == IF \E t \in Clients : Posting(t) THEN sequence - 1 ELSE sequence
BoardCurrent ==
  IF \E t \in Clients : Removing(t)
  THEN IF messages = {} THEN NULL ELSE CHOOSE m \in Latest : TRUE
  ELSE currentMessage

Board == INSTANCE MessageBoard
           WITH stored <- BoardStored, issued <- BoardIssued, current <- BoardCurrent

\* Every behaviour of one client's message commands is a behaviour of the
\* board: ids in order, MSG_NEXT and MSG_PREV to a neighbour, MSG_DEL to the
\* newest message left, restarts included.
ImplementsBoard == Board!Spec

=============================================================================

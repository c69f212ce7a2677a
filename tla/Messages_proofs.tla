-------------------------- MODULE Messages_proofs --------------------------
(***************************************************************************)
(* Theorems about Messages, for any number of clients and any interleaving *)
(* of their threads: types, and what the table of messages keeps.          *)
(***************************************************************************)
EXTENDS Messages, TLAPS

\* A thread about to take its row id holds the object new_message filled in.
RowidHasText == \A t \in Clients : pc[t] = "rowid" => msg[t].text \in Texts

TypeInv == TypeOK /\ RowidHasText

\* From its INSERT to the end of its command, a MSG_CREATE that inserted a row
\* keeps the text in its object, and the row is kept.
Created == {"rowid", "print", "zero", "line", "reply", "done"}

OwnKept ==
  \A t \in Clients : own[t] # 0 =>
    /\ pc[t] \in Created
    /\ msg[t].text \in Texts
    /\ Kept([id |-> own[t], text |-> msg[t].text])

LEMMA CellType ==
  ASSUME NEW x \in Texts \cup {NULL}, NEW i \in 1..Height
  PROVE  CellOf(x, i) \in Cell
BY ConstantsOK DEF CellOf, HeaderOf, BodyOf, Blank, Cell

LEMMA FixedCells == Blank \in Cell /\ Notice \in Cell /\ Custom \in Cell
BY DEF Blank, Notice, Custom, Cell

LEMMA RepliesType ==
  ASSUME NEW c PROVE FinalReplies(c) \in Seq(Statuses)
<1>1. CASE c = "MSG_DEL"
  BY <1>1 DEF FinalReplies, Statuses
<1>2. CASE c = "MSG_LATEST"
  BY <1>2 DEF FinalReplies, Statuses
<1>3. CASE c = "CLEAR_LINE"
  BY <1>3 DEF FinalReplies, Statuses
<1>4. CASE c = "CLEAR_DISPLAY"
  BY <1>4 DEF FinalReplies, Statuses
<1>5. CASE c \notin {"MSG_DEL", "MSG_LATEST", "CLEAR_LINE", "CLEAR_DISPLAY"}
  BY <1>5 DEF FinalReplies, Statuses
<1> QED
  BY <1>1, <1>2, <1>3, <1>4, <1>5

\* The commands that write lines of the display and leave the board alone.
Lines(t) == (\E c \in LineCommands : CustomLine(t, c)) \/ ClearDisplay(t) \/ WriteCustom(t)

LEMMA LinesFrame ==
  ASSUME NEW t, Lines(t)
  PROVE  /\ pc[t] \in {"idle", "custom"}
         /\ \/ pc' = pc
            \/ \E l \in {"custom", "reply", "done"} : pc' = [pc EXCEPT ![t] = l]
         /\ UNCHANGED <<board, currentMessage, process, signals, msg, cursor, ghosts>>
BY DEF Lines, CustomLine, ClearDisplay, WriteCustom, Begin, At, Finish, Goto

LEMMA TypeInit == Init => TypeInv
<1> SUFFICES ASSUME Init PROVE TypeInv
  OBVIOUS
<1>1. DisplayTypeOK
  BY FixedCells DEF Init, Welcome, DisplayTypeOK
<1>2. ThreadTypeOK
  BY ConstantsOK DEF Init, ThreadTypeOK, Labels, Commands, MessageCommands
<1>3. TableTypeOK /\ ProcessTypeOK /\ ObjectTypeOK /\ HistoryTypeOK /\ RowidHasText
  BY DEF Init, TableTypeOK, ProcessTypeOK, ObjectTypeOK, HistoryTypeOK, RowidHasText
<1> QED
  BY <1>1, <1>2, <1>3 DEF TypeInv, TypeOK

\* The table: what INSERT, DELETE and the end of the process do to it.
LEMMA TableSteps ==
  ASSUME [Next]_vars
  PROVE  \/ UNCHANGED board
         \/ \E t \in Clients, x \in Texts : CreateMessage(t, x)
         \/ \E t \in Clients : DeleteRow(t) \/ CreateUser(t) \/ FollowNull(t)
         \/ HandleSigs
BY DEF vars, Next, Take, Run, board, TakeRowid, PrintZero, Publish, PrintLine, TestCurrent,
   ReadCurrent, SelectNeighbour, SelectLatest, ClearCurrent, FallBack, NoMoreMessages,
   Reply, Return, Restart, CustomLine, ClearDisplay, WriteCustom

LEMMA TableType == ASSUME TableTypeOK, [Next]_vars PROVE TableTypeOK'
<1> USE DEF TableTypeOK
<1>1. CASE UNCHANGED board
  BY <1>1 DEF board
<1>2. ASSUME NEW t \in Clients, NEW x \in Texts, CreateMessage(t, x) PROVE TableTypeOK'
  BY <1>2 DEF CreateMessage, board, Message
<1>3. ASSUME NEW t \in Clients, DeleteRow(t) PROVE TableTypeOK'
  BY <1>3 DEF DeleteRow, WithId
<1>4. ASSUME NEW t \in Clients, CreateUser(t) PROVE TableTypeOK'
  BY <1>4, ConstantsOK DEF CreateUser
<1>5. ASSUME NEW t \in Clients, FollowNull(t) PROVE TableTypeOK'
  BY <1>5 DEF FollowNull, Die
<1>6. CASE HandleSigs
  BY <1>6 DEF HandleSigs, Die
<1> QED
  BY <1>1, <1>2, <1>3, <1>4, <1>5, <1>6, TableSteps

\* The display and the current message.
LEMMA DisplaySteps ==
  ASSUME [Next]_vars
  PROVE  \/ UNCHANGED <<currentMessage, screen>>
         \/ \E t \in Clients : \/ PrintZero(t) \/ Publish(t) \/ PrintLine(t)
                               \/ ClearCurrent(t) \/ NoMoreMessages(t) \/ FollowNull(t)
                               \/ WriteCustom(t)
         \/ HandleSigs \/ Restart
BY DEF vars, Next, Take, Run, CreateMessage, TakeRowid, TestCurrent, ReadCurrent,
   SelectNeighbour, SelectLatest, DeleteRow, FallBack, Reply, Return, CreateUser,
   CustomLine, ClearDisplay

LEMMA DisplayType == ASSUME TypeInv, [Next]_vars PROVE DisplayTypeOK'
<1>1. CASE UNCHANGED <<currentMessage, screen>>
  BY <1>1 DEF TypeInv, TypeOK, DisplayTypeOK
<1> USE DEF TypeInv, TypeOK, DisplayTypeOK
<1>2. ASSUME NEW t \in Clients, PrintZero(t) PROVE DisplayTypeOK'
  BY <1>2, FixedCells DEF PrintZero, SetLine
<1>3. ASSUME NEW t \in Clients, Publish(t) PROVE DisplayTypeOK'
  <2>1. msg[t] \in Message
    BY <1>3 DEF Publish, ObjectTypeOK, NoObject
  <2>2. currentMessage' = msg[t] /\ screen' = screen
    BY <1>3 DEF Publish
  <2> QED
    BY <2>1, <2>2
<1>4. ASSUME NEW t \in Clients, PrintLine(t) PROVE DisplayTypeOK'
  <2>1. msg[t].text \in Texts \cup {NULL} /\ row[t] \in 1..Height
    BY DEF ObjectTypeOK, ThreadTypeOK, Message, NoObject
  <2>2. CellOf(msg[t].text, row[t]) \in Cell
    BY <2>1, CellType
  <2>3. currentMessage' = currentMessage /\ screen' = [screen EXCEPT ![row[t]] = CellOf(msg[t].text, row[t])]
    BY <1>4 DEF PrintLine, SetLine
  <2> QED
    BY <2>1, <2>2, <2>3
<1>5. ASSUME NEW t \in Clients, ClearCurrent(t) PROVE DisplayTypeOK'
  BY <1>5 DEF ClearCurrent
<1>6. ASSUME NEW t \in Clients, NoMoreMessages(t) PROVE DisplayTypeOK'
  BY <1>6, FixedCells DEF NoMoreMessages, SetLine
<1>7. ASSUME NEW t \in Clients, FollowNull(t) PROVE DisplayTypeOK'
  BY <1>7 DEF FollowNull, Die
<1>8. CASE HandleSigs
  BY <1>8, FixedCells DEF HandleSigs, Die
<1>9. CASE Restart
  BY <1>9, FixedCells DEF Restart, Welcome
<1>10. ASSUME NEW t \in Clients, WriteCustom(t) PROVE DisplayTypeOK'
  BY <1>10, FixedCells DEF WriteCustom, SetLine
<1> QED
  BY <1>1, <1>2, <1>3, <1>4, <1>5, <1>6, <1>7, <1>8, <1>9, <1>10, DisplaySteps

LEMMA ProcessType == ASSUME ProcessTypeOK, [Next]_vars PROVE ProcessTypeOK'
<1>1. ASSUME NEW t \in Clients, FollowNull(t) PROVE ProcessTypeOK'
  BY <1>1 DEF FollowNull, Die, ProcessTypeOK
<1>2. CASE HandleSigs
  BY <1>2 DEF HandleSigs, Die, ProcessTypeOK
<1>3. CASE Restart
  BY <1>3 DEF Restart, ProcessTypeOK
<1>4. CASE UNCHANGED <<process, signals>>
  BY <1>4 DEF ProcessTypeOK
<1>5. \/ UNCHANGED <<process, signals>> \/ HandleSigs \/ Restart
      \/ \E t \in Clients : FollowNull(t)
  BY DEF vars, Next, Take, Run, CreateMessage, TakeRowid, PrintZero, Publish, PrintLine,
     TestCurrent, ReadCurrent, SelectNeighbour, SelectLatest, DeleteRow, ClearCurrent,
     FallBack, NoMoreMessages, Reply, Return, CreateUser, CustomLine, ClearDisplay, WriteCustom
<1> QED
  BY <1>1, <1>2, <1>3, <1>4, <1>5

\* The Message objects of the threads.
LEMMA ObjectSteps ==
  ASSUME [Next]_vars
  PROVE  \/ UNCHANGED msg
         \/ \E t \in Clients, x \in Texts : CreateMessage(t, x)
         \/ \E t \in Clients : \/ TakeRowid(t) \/ SelectNeighbour(t) \/ SelectLatest(t)
                               \/ FallBack(t) \/ Return(t)
         \/ msg' = [t \in Clients |-> NoObject]
BY DEF vars, Next, Take, Run, locals, PrintZero, Publish, PrintLine, TestCurrent, ReadCurrent,
   DeleteRow, ClearCurrent, NoMoreMessages, Reply, CreateUser, Restart, FollowNull,
   HandleSigs, Die, CustomLine, ClearDisplay, WriteCustom

\* A SELECT fills the object with a row, or leaves it empty.
LEMMA FetchType ==
  ASSUME TypeInv, NEW t \in Clients, NEW rows \in SUBSET messages, NEW none, Fetch(t, rows, none)
  PROVE  ObjectTypeOK'
<1>1. \/ \E m \in rows : msg' = [msg EXCEPT ![t] = m]
      \/ msg' = [msg EXCEPT ![t] = NoObject]
  BY DEF Fetch
<1> QED
  BY <1>1 DEF TypeInv, TypeOK, TableTypeOK, ObjectTypeOK

LEMMA ObjectType == ASSUME TypeInv, [Next]_vars PROVE ObjectTypeOK'
<1>1. CASE UNCHANGED msg
  BY <1>1 DEF TypeInv, TypeOK, ObjectTypeOK
<1>2. ASSUME NEW t \in Clients, NEW x \in Texts, CreateMessage(t, x) PROVE ObjectTypeOK'
  <2>1. [id |-> 0, text |-> x] \in Message
    BY DEF Message
  <2> QED
    BY <1>2, <2>1 DEF CreateMessage, TypeInv, TypeOK, ObjectTypeOK
<1>3. ASSUME NEW t \in Clients, TakeRowid(t) PROVE ObjectTypeOK'
  <2>1. [id |-> lastRowid, text |-> msg[t].text] \in Message
    BY <1>3 DEF TakeRowid, At, TypeInv, TypeOK, TableTypeOK, RowidHasText, Message
  <2> QED
    BY <1>3, <2>1 DEF TakeRowid, TypeInv, TypeOK, ObjectTypeOK
<1>4. ASSUME NEW t \in Clients, SelectNeighbour(t) PROVE ObjectTypeOK'
  BY <1>4, FetchType DEF SelectNeighbour, After, Before
<1>5. ASSUME NEW t \in Clients, SelectLatest(t) PROVE ObjectTypeOK'
  BY <1>5, FetchType DEF SelectLatest, Latest
<1>6. ASSUME NEW t \in Clients, FallBack(t) PROVE ObjectTypeOK'
  BY <1>6, FetchType DEF FallBack, Latest
<1>7. ASSUME NEW t \in Clients, Return(t) PROVE ObjectTypeOK'
  BY <1>7 DEF Return, TypeInv, TypeOK, ObjectTypeOK
<1>8. CASE msg' = [t \in Clients |-> NoObject]
  BY <1>8 DEF ObjectTypeOK
<1> QED
  BY <1>1, <1>2, <1>3, <1>4, <1>5, <1>6, <1>7, <1>8, ObjectSteps

LEMMA ReplyTypes ==
  /\ <<>> \in Seq(Statuses)
  /\ <<"ERROR_NO_MESSAGE_SHOWN">> \in Seq(Statuses)
  /\ <<"ERROR_NO_MORE_MESSAGES">> \in Seq(Statuses)
  /\ <<"ERROR_NO_MORE_MESSAGES", "OK_MESSAGE_SET">> \in Seq(Statuses)
  /\ \A c, status : status \in Refusals(c) => <<status>> \in Seq(Statuses)
BY DEF Statuses, Refusals

LEMMA FinishType ==
  ASSUME ThreadTypeOK, NEW t \in Clients, NEW rs \in Seq(Statuses), Finish(t, rs)
  PROVE  pc' \in [Clients -> Labels] /\ replies' \in [Clients -> Seq(Statuses)]
BY DEF ThreadTypeOK, Finish, Goto, Labels

\* The threads: each action moves one of them, or the process ends.
LEMMA ThreadType == ASSUME TypeInv, [Next]_vars PROVE ThreadTypeOK'
<1> USE DEF ThreadTypeOK, TypeInv, TypeOK
<1>1. ASSUME NEW t \in Clients, NEW x \in Texts, CreateMessage(t, x) PROVE ThreadTypeOK'
  BY <1>1 DEF CreateMessage, Begin, Goto, Labels, Commands, MessageCommands
<1>2. ASSUME NEW t \in Clients, TakeRowid(t) PROVE ThreadTypeOK'
  BY <1>2 DEF TakeRowid, Goto, Labels
<1>3. ASSUME NEW t \in Clients, PrintZero(t) PROVE ThreadTypeOK'
  BY <1>3 DEF PrintZero, Goto, Labels, locals
<1>4. ASSUME NEW t \in Clients, Publish(t) PROVE ThreadTypeOK'
  BY <1>4, ConstantsOK DEF Publish, Goto, Labels
<1>5. ASSUME NEW t \in Clients, PrintLine(t) PROVE ThreadTypeOK'
  <2>1. CASE row[t] < Height
    <3>1. row[t] \in 1..Height /\ Height \in Nat
      BY ConstantsOK
    <3>2. row[t] + 1 \in 1..Height
      BY <2>1, <3>1
    <3> QED
      BY <1>5, <2>1, <3>2 DEF PrintLine
  <2>2. CASE ~(row[t] < Height)
    BY <1>5, <2>2 DEF PrintLine, Goto, Labels
  <2> QED
    BY <2>1, <2>2
<1>6. ASSUME NEW t \in Clients, NEW c \in {"MSG_NEXT", "MSG_PREV", "MSG_DEL"}, TestCurrent(t, c)
      PROVE  ThreadTypeOK'
  <2>1. pc' \in [Clients -> Labels] /\ replies' \in [Clients -> Seq(Statuses)]
    <3>1. CASE currentMessage = NULL
      BY <1>6, <3>1, ReplyTypes, FinishType DEF TestCurrent
    <3>2. CASE currentMessage # NULL
      BY <1>6, <3>2 DEF TestCurrent, Goto, Labels
    <3> QED
      BY <3>1, <3>2
  <2> QED
    BY <1>6, <2>1 DEF TestCurrent, Begin, Commands, MessageCommands
<1>7. ASSUME NEW t \in Clients, ReadCurrent(t) PROVE ThreadTypeOK'
  <2>1. currentMessage.id \in Nat
    BY <1>7 DEF ReadCurrent, DisplayTypeOK, Message
  <2> QED
    BY <1>7, <2>1 DEF ReadCurrent, Goto, Labels
<1>8. ASSUME NEW t \in Clients, SelectNeighbour(t) PROVE ThreadTypeOK'
  <2>1. pc' \in [Clients -> Labels] /\ replies' \in [Clients -> Seq(Statuses)]
    <3>1. CASE Goto(t, "print") /\ UNCHANGED replies
      BY <3>1 DEF Goto, Labels
    <3>2. ASSUME NEW rs \in Seq(Statuses), Finish(t, rs)
          PROVE  pc' \in [Clients -> Labels] /\ replies' \in [Clients -> Seq(Statuses)]
      BY <3>2, FinishType
    <3> QED
      BY <1>8, <3>1, <3>2, ReplyTypes DEF SelectNeighbour, Fetch
  <2> QED
    BY <1>8, <2>1 DEF SelectNeighbour
<1>9. ASSUME NEW t \in Clients, SelectLatest(t) PROVE ThreadTypeOK'
  <2>1. pc' \in [Clients -> Labels] /\ replies' \in [Clients -> Seq(Statuses)]
    <3>1. CASE Goto(t, "print") /\ UNCHANGED replies
      BY <3>1 DEF Goto, Labels
    <3>2. ASSUME NEW rs \in Seq(Statuses), Finish(t, rs)
          PROVE  pc' \in [Clients -> Labels] /\ replies' \in [Clients -> Seq(Statuses)]
      BY <3>2, FinishType
    <3> QED
      BY <1>9, <3>1, <3>2, ReplyTypes DEF SelectLatest, Fetch
  <2> QED
    BY <1>9, <2>1 DEF SelectLatest, Begin, Commands, MessageCommands
<1>10. ASSUME NEW t \in Clients, DeleteRow(t) PROVE ThreadTypeOK'
  <2>1. pc' \in [Clients -> Labels] /\ replies' \in [Clients -> Seq(Statuses)]
    <3>1. CASE Goto(t, "clear") /\ UNCHANGED replies
      BY <3>1 DEF Goto, Labels
    <3>2. CASE Finish(t, <<"ERROR_NO_MESSAGE_SHOWN">>)
      BY <3>2, FinishType, ReplyTypes
    <3> QED
      BY <1>10, <3>1, <3>2 DEF DeleteRow
  <2> QED
    BY <1>10, <2>1 DEF DeleteRow, locals
<1>11. ASSUME NEW t \in Clients, ClearCurrent(t) PROVE ThreadTypeOK'
  BY <1>11 DEF ClearCurrent, Goto, Labels, locals
<1>12. ASSUME NEW t \in Clients, FallBack(t) PROVE ThreadTypeOK'
  BY <1>12 DEF FallBack, Fetch, Goto, Labels
<1>13. ASSUME NEW t \in Clients, NoMoreMessages(t) PROVE ThreadTypeOK'
  BY <1>13 DEF NoMoreMessages, Goto, Labels, locals
<1>14. ASSUME NEW t \in Clients, Reply(t) PROVE ThreadTypeOK'
  <2>1. FinalReplies(cmd[t]) \in Seq(Statuses)
    BY RepliesType
  <2> QED
    BY <1>14, <2>1 DEF Reply, Finish, Goto, Labels, locals
<1>15. ASSUME NEW t \in Clients, Return(t) PROVE ThreadTypeOK'
  BY <1>15, ConstantsOK DEF Return, Goto, Labels, Commands
<1>16. ASSUME NEW t \in Clients, CreateUser(t) PROVE ThreadTypeOK'
  BY <1>16 DEF CreateUser, Begin, Finish, Goto, Labels, Commands, Statuses
<1>17. CASE HandleSigs \/ \E t \in Clients : FollowNull(t)
  <2>1. \E how : Die(how)
    BY <1>17 DEF HandleSigs, FollowNull
  <2> QED
    BY <2>1, ConstantsOK DEF Die, Labels, Commands
<1>18. CASE Restart \/ UNCHANGED vars
  BY <1>18 DEF Restart, vars, locals
<1>19. ASSUME NEW t \in Clients, NEW c \in LineCommands, CustomLine(t, c) PROVE ThreadTypeOK'
  <2>1. pc' \in [Clients -> Labels] /\ replies' \in [Clients -> Seq(Statuses)]
    <3>1. CASE Goto(t, "custom") /\ UNCHANGED replies
      BY <3>1 DEF Goto, Labels
    <3>2. ASSUME NEW rs \in Seq(Statuses), Finish(t, rs)
          PROVE  pc' \in [Clients -> Labels] /\ replies' \in [Clients -> Seq(Statuses)]
      BY <3>2, FinishType
    <3> QED
      BY <1>19, <3>1, <3>2, ReplyTypes, RepliesType DEF CustomLine
  <2>2. row' \in [Clients -> 1..Height]
    BY <1>19 DEF CustomLine
  <2> QED
    BY <1>19, <2>1, <2>2 DEF CustomLine, Begin, Commands
<1>20. ASSUME NEW t \in Clients, ClearDisplay(t) PROVE ThreadTypeOK'
  BY <1>20, ConstantsOK DEF ClearDisplay, Begin, Goto, Labels, Commands
<1>21. ASSUME NEW t \in Clients, WriteCustom(t) PROVE ThreadTypeOK'
  <2>1. pc' \in [Clients -> Labels]
    BY <1>21 DEF WriteCustom, Goto, Labels
  <2>2. row' \in [Clients -> 1..Height]
    <3>1. row[t] < Height => row[t] + 1 \in 1..Height
      BY ConstantsOK
    <3> QED
      BY <1>21, <3>1 DEF WriteCustom
  <2> QED
    BY <1>21, <2>1, <2>2 DEF WriteCustom
<1> QED
  BY <1>1, <1>2, <1>3, <1>4, <1>5, <1>6, <1>7, <1>8, <1>9, <1>10, <1>11, <1>12,
     <1>13, <1>14, <1>15, <1>16, <1>17, <1>18, <1>19, <1>20, <1>21
  DEF Next, Take, Run

\* Only CreateMessage brings a thread to "rowid", and its object has a text.
LEMMA RowidStep == ASSUME TypeInv, [Next]_vars PROVE RowidHasText'
<1> SUFFICES ASSUME NEW u \in Clients, pc'[u] = "rowid" PROVE msg'[u].text \in Texts
  BY DEF RowidHasText
<1> USE DEF TypeInv, TypeOK, ThreadTypeOK, ObjectTypeOK
<1>1. ASSUME NEW t \in Clients, NEW x \in Texts, CreateMessage(t, x) PROVE msg'[u].text \in Texts
  <2>1. CASE u = t
    BY <1>1, <2>1 DEF CreateMessage
  <2>2. CASE u # t
    BY <1>1, <2>2 DEF CreateMessage, Goto, RowidHasText
  <2> QED
    BY <2>1, <2>2
<1>2. CASE pc[u] = "rowid" /\ msg'[u] = msg[u]
  BY <1>2 DEF RowidHasText
<1>3. ASSUME NEW t \in Clients, TakeRowid(t) PROVE pc[u] = "rowid" /\ msg'[u] = msg[u]
  BY <1>3 DEF TakeRowid, Goto
<1>4. ASSUME NEW t \in Clients, SelectNeighbour(t) PROVE pc[u] = "rowid" /\ msg'[u] = msg[u]
  BY <1>4 DEF SelectNeighbour, Fetch, Finish, Goto
<1>5. ASSUME NEW t \in Clients, SelectLatest(t) PROVE pc[u] = "rowid" /\ msg'[u] = msg[u]
  BY <1>5 DEF SelectLatest, Fetch, Finish, Goto
<1>6. ASSUME NEW t \in Clients, FallBack(t) PROVE pc[u] = "rowid" /\ msg'[u] = msg[u]
  BY <1>6 DEF FallBack, Fetch, Goto
<1>7. ASSUME NEW t \in Clients, Return(t) PROVE pc[u] = "rowid" /\ msg'[u] = msg[u]
  BY <1>7 DEF Return, Goto
<1>8. CASE \E how : Die(how)
  BY <1>8 DEF Die
<1>9. ASSUME NEW t \in Clients,
             \/ PrintZero(t) \/ Publish(t) \/ PrintLine(t) \/ ReadCurrent(t)
             \/ DeleteRow(t) \/ ClearCurrent(t) \/ NoMoreMessages(t) \/ Reply(t) \/ CreateUser(t)
      PROVE  pc[u] = "rowid" /\ msg'[u] = msg[u]
  <2>1. msg' = msg
    BY <1>9 DEF PrintZero, Publish, PrintLine, ReadCurrent, DeleteRow, ClearCurrent,
       NoMoreMessages, Reply, CreateUser, locals
  <2>2. \E l \in Labels \ {"rowid"} : Goto(t, l) \/ pc' = pc
    BY <1>9 DEF PrintZero, Publish, PrintLine, ReadCurrent, DeleteRow, ClearCurrent,
       NoMoreMessages, Reply, CreateUser, Finish, Labels
  <2> QED
    BY <2>1, <2>2 DEF Goto
<1>10. ASSUME NEW t \in Clients, NEW c, TestCurrent(t, c) PROVE pc[u] = "rowid" /\ msg'[u] = msg[u]
  BY <1>10 DEF TestCurrent, Finish, Goto
<1>11. CASE Restart \/ UNCHANGED vars
  BY <1>11 DEF Restart, vars, locals, RowidHasText
<1>12. ASSUME HandleSigs \/ \E t \in Clients : FollowNull(t) PROVE \E how : Die(how)
  BY <1>12 DEF HandleSigs, FollowNull
<1>13. ASSUME NEW t \in Clients, Lines(t) PROVE pc[u] = "rowid" /\ msg'[u] = msg[u]
  BY <1>13, LinesFrame
<1> QED
  BY <1>1, <1>2, <1>3, <1>4, <1>5, <1>6, <1>7, <1>8, <1>9, <1>10, <1>11, <1>12, <1>13
  DEF Next, Take, Run, Lines

\* The histories.
LEMMA HistorySteps ==
  ASSUME [Next]_vars
  PROVE  \/ UNCHANGED ghosts
         \/ \E t \in Clients, x \in Texts : CreateMessage(t, x)
         \/ \E t \in Clients : DeleteRow(t) \/ Reply(t) \/ Return(t) \/ CreateUser(t)
         \/ \E how : Die(how)
BY DEF vars, ghosts, Next, Take, Run, TakeRowid, PrintZero, Publish, PrintLine, TestCurrent,
   ReadCurrent, SelectNeighbour, SelectLatest, ClearCurrent, FallBack, NoMoreMessages,
   Restart, HandleSigs, FollowNull, CustomLine, ClearDisplay, WriteCustom

LEMMA HistoryType == ASSUME TypeInv, OwnKept, [Next]_vars PROVE HistoryTypeOK'
<1> USE DEF HistoryTypeOK, TypeInv, TypeOK
<1>1. CASE UNCHANGED ghosts
  BY <1>1 DEF ghosts
<1>2. ASSUME NEW t \in Clients, NEW x \in Texts, CreateMessage(t, x) PROVE HistoryTypeOK'
  <2>1. own' = [own EXCEPT ![t] = sequence + 1] \/ own' = [own EXCEPT ![t] = 0]
    BY <1>2 DEF CreateMessage
  <2>2. crossed' \in BOOLEAN
    BY <1>2 DEF CreateMessage
  <2> QED
    BY <1>2, <2>1, <2>2 DEF CreateMessage, TableTypeOK
<1>3. ASSUME NEW t \in Clients, DeleteRow(t) PROVE HistoryTypeOK'
  BY <1>3 DEF DeleteRow, ThreadTypeOK
<1>4. ASSUME NEW t \in Clients, Reply(t) PROVE HistoryTypeOK'
  <2>1. own[t] # 0 => msg[t].text \in Texts
    BY DEF OwnKept
  <2>2. own[t] # 0 => [id |-> own[t], text |-> msg[t].text] \in Message
    BY <2>1 DEF Message
  <2> QED
    BY <1>4, <2>2 DEF Reply
<1>5. ASSUME NEW t \in Clients, Return(t) PROVE HistoryTypeOK'
  BY <1>5 DEF Return
<1>6. CASE \E how : Die(how)
  <2>1. crossed' \in BOOLEAN
    BY <1>6 DEF Die
  <2>2. own' = [t \in Clients |-> 0] /\ acked' = acked /\ erased' = erased
    BY <1>6 DEF Die
  <2> QED
    BY <2>1, <2>2
<1>7. ASSUME NEW t \in Clients, CreateUser(t) PROVE HistoryTypeOK'
  <2>1. crossed' \in BOOLEAN
    BY <1>7 DEF CreateUser
  <2> QED
    BY <1>7, <2>1 DEF CreateUser
<1> QED
  BY <1>1, <1>2, <1>3, <1>4, <1>5, <1>6, <1>7, HistorySteps

-----------------------------------------------------------------------------
(***************************************************************************)
(* Durability.  Between its INSERT and its reply a message is only in the  *)
(* hands of its thread: OwnKept says that the row is kept all that time.   *)
(***************************************************************************)
LEMMA KeptStep == ASSUME [Next]_vars, NEW m, Kept(m) PROVE Kept(m)'
<1>1. CASE UNCHANGED <<messages, erased>>
  BY <1>1 DEF Kept
<1>2. ASSUME NEW t \in Clients, NEW x \in Texts, CreateMessage(t, x) PROVE Kept(m)'
  BY <1>2 DEF CreateMessage, Kept, board
<1>3. ASSUME NEW t \in Clients, DeleteRow(t) PROVE Kept(m)'
  BY <1>3 DEF DeleteRow, WithId, Kept
<1>4. \/ UNCHANGED <<messages, erased>>
      \/ \E t \in Clients, x \in Texts : CreateMessage(t, x)
      \/ \E t \in Clients : DeleteRow(t)
  BY DEF vars, board, ghosts, Next, Take, Run, TakeRowid, PrintZero, Publish, PrintLine,
     TestCurrent, ReadCurrent, SelectNeighbour, SelectLatest, ClearCurrent, FallBack,
     NoMoreMessages, CreateUser, Restart, HandleSigs, FollowNull, Die, Reply, Return,
     CustomLine, ClearDisplay, WriteCustom
<1> QED
  BY <1>1, <1>2, <1>3, <1>4

\* What the threads do to the object and the counter of a MSG_CREATE.
LEMMA OwnSteps ==
  ASSUME TypeInv, OwnKept, [Next]_vars, NEW u \in Clients, own'[u] # 0
  PROVE  \/ \E x \in Texts : CreateMessage(u, x)
         \/ own'[u] = own[u] /\ pc'[u] \in Created /\ msg'[u].text = msg[u].text
<1> DEFINE Same == own'[u] = own[u] /\ pc'[u] \in Created /\ msg'[u].text = msg[u].text
<1> USE DEF TypeInv, TypeOK, ThreadTypeOK, ObjectTypeOK, HistoryTypeOK
<1>1. ASSUME NEW t \in Clients, NEW x \in Texts, CreateMessage(t, x), t # u PROVE Same
  <2>1. own'[u] = own[u] /\ pc'[u] = pc[u] /\ msg'[u] = msg[u]
    BY <1>1 DEF CreateMessage, Goto
  <2> QED
    BY <2>1 DEF OwnKept
<1>2. ASSUME NEW t \in Clients, TakeRowid(t) PROVE Same
  <2>1. own'[u] = own[u] /\ msg'[u].text = msg[u].text
    BY <1>2 DEF TakeRowid, ghosts
  <2>2. pc'[u] \in {pc[u], "print"}
    BY <1>2 DEF TakeRowid, Goto
  <2> QED
    BY <2>1, <2>2 DEF OwnKept, Created
<1>3. ASSUME NEW t \in Clients, PrintZero(t) \/ Publish(t) \/ PrintLine(t) \/ Reply(t) PROVE Same
  <2>1. own'[u] = own[u] /\ msg'[u] = msg[u]
    BY <1>3 DEF PrintZero, Publish, PrintLine, Reply, ghosts, locals
  <2>2. pc'[u] \in {pc[u], "zero", "line", "reply", "done"}
    BY <1>3 DEF PrintZero, Publish, PrintLine, Reply, Finish, Goto
  <2> QED
    BY <2>1, <2>2 DEF OwnKept, Created
\* The other actions belong to other commands: their thread has no row.
<1>4. ASSUME NEW t \in Clients,
             \/ ReadCurrent(t) \/ SelectNeighbour(t) \/ DeleteRow(t) \/ ClearCurrent(t)
             \/ FallBack(t) \/ NoMoreMessages(t) \/ SelectLatest(t) \/ CreateUser(t)
             \/ \E c : TestCurrent(t, c)
      PROVE Same
  <2>1. own' = own
    BY <1>4 DEF ReadCurrent, SelectNeighbour, DeleteRow, ClearCurrent, FallBack,
       NoMoreMessages, SelectLatest, CreateUser, TestCurrent, ghosts
  <2>2. pc[t] \notin Created
    BY <1>4 DEF ReadCurrent, SelectNeighbour, DeleteRow, ClearCurrent, FallBack,
       NoMoreMessages, SelectLatest, CreateUser, TestCurrent, Begin, At, Created
  <2>3. u # t
    BY <2>1, <2>2 DEF OwnKept
  <2>4. \/ msg' = msg
        \/ \E m : msg' = [msg EXCEPT ![t] = m]
    BY <1>4 DEF ReadCurrent, SelectNeighbour, DeleteRow, ClearCurrent, FallBack,
       NoMoreMessages, SelectLatest, CreateUser, TestCurrent, Fetch, locals
  <2>5. \E l \in Labels : Goto(t, l)
    BY <1>4 DEF ReadCurrent, SelectNeighbour, DeleteRow, ClearCurrent, FallBack,
       NoMoreMessages, SelectLatest, CreateUser, TestCurrent, Fetch, Finish, Labels
  <2> QED
    BY <2>1, <2>3, <2>4, <2>5 DEF OwnKept, Goto
<1>5. ASSUME NEW t \in Clients, Return(t) PROVE Same
  <2>1. u # t
    BY <1>5 DEF Return
  <2>2. own'[u] = own[u] /\ pc'[u] = pc[u] /\ msg'[u] = msg[u]
    BY <1>5, <2>1 DEF Return, Goto
  <2> QED
    BY <2>2 DEF OwnKept
<1>6. CASE \E how : Die(how)
  BY <1>6 DEF Die
<1>7. CASE Restart \/ UNCHANGED vars
  BY <1>7 DEF Restart, vars, locals, ghosts, OwnKept
<1>8. ASSUME HandleSigs \/ \E t \in Clients : FollowNull(t) PROVE \E how : Die(how)
  BY <1>8 DEF HandleSigs, FollowNull
<1>9. ASSUME NEW t \in Clients, Lines(t) PROVE Same
  <2>1. own' = own /\ msg' = msg
    BY <1>9, LinesFrame DEF ghosts
  <2>2. pc[t] \notin Created
    BY <1>9, LinesFrame DEF Created
  <2>3. u # t
    BY <2>1, <2>2 DEF OwnKept
  <2>4. pc' = pc \/ \E l \in {"custom", "reply", "done"} : pc' = [pc EXCEPT ![t] = l]
    BY <1>9, LinesFrame
  <2>5. pc'[u] = pc[u]
    BY <2>3, <2>4
  <2> QED
    BY <2>1, <2>5 DEF OwnKept
<1> QED
  BY <1>1, <1>2, <1>3, <1>4, <1>5, <1>6, <1>7, <1>8, <1>9 DEF Next, Take, Run, Lines

LEMMA OwnKeptStep == ASSUME TypeInv, OwnKept, [Next]_vars PROVE OwnKept'
<1> SUFFICES ASSUME NEW u \in Clients, own'[u] # 0
             PROVE  /\ pc'[u] \in Created
                    /\ msg'[u].text \in Texts
                    /\ Kept([id |-> own[u], text |-> msg[u].text])'
  BY DEF OwnKept
<1>1. ASSUME NEW x \in Texts, CreateMessage(u, x)
      PROVE  /\ pc'[u] \in Created
             /\ msg'[u].text \in Texts
             /\ Kept([id |-> own[u], text |-> msg[u].text])'
  <2>1. pc'[u] = "rowid" /\ msg'[u].text = x
    BY <1>1 DEF CreateMessage, Goto, TypeInv, TypeOK, ThreadTypeOK, ObjectTypeOK
  <2>2. messages' = messages \cup {[id |-> own'[u], text |-> x]}
    BY <1>1 DEF CreateMessage, TypeInv, TypeOK, HistoryTypeOK
  <2> QED
    BY <2>1, <2>2 DEF Created, Kept
<1>2. CASE own'[u] = own[u] /\ pc'[u] \in Created /\ msg'[u].text = msg[u].text
  <2> DEFINE m == [id |-> own[u], text |-> msg[u].text]
  <2>1. msg[u].text \in Texts /\ Kept(m)
    BY <1>2 DEF OwnKept
  <2>2. m \in messages' \/ m.id \in erased'
    BY <2>1, KeptStep DEF Kept
  <2> QED
    BY <1>2, <2>1, <2>2 DEF Kept
<1> QED
  BY <1>1, <1>2, OwnSteps

LEMMA AckedStep == ASSUME OwnKept, AckedIsDurable, [Next]_vars PROVE AckedIsDurable'
<1> SUFFICES ASSUME NEW m \in acked' PROVE Kept(m)'
  BY DEF AckedIsDurable
<1>1. CASE m \in acked
  BY <1>1, KeptStep DEF AckedIsDurable
<1>2. CASE m \notin acked
  <2>1. PICK t \in Clients : Reply(t)
    BY <1>2, HistorySteps DEF ghosts, CreateMessage, DeleteRow, Return, CreateUser, Die
  <2>2. own[t] # 0 /\ m = [id |-> own[t], text |-> msg[t].text]
    BY <1>2, <2>1 DEF Reply
  <2> QED
    BY <2>2, KeptStep DEF OwnKept
<1> QED
  BY <1>1, <1>2

-----------------------------------------------------------------------------
(***************************************************************************)
(* The numbers of messages.                                                *)
(***************************************************************************)
LEMMA IdsStep == ASSUME TableTypeOK, IdsUnique, [Next]_vars PROVE IdsUnique'
<1>1. CASE messages' \subseteq messages /\ sequence' = sequence
  BY <1>1 DEF IdsUnique
<1>2. ASSUME NEW x \in Texts,
             sequence' = sequence + 1,
             messages' = messages \cup {[id |-> sequence + 1, text |-> x]}
      PROVE  IdsUnique'
  <2>1. \A m \in messages : m.id \in 1..sequence /\ m.id # sequence + 1
    BY DEF IdsUnique, TableTypeOK
  <2>2. ASSUME NEW m \in messages' PROVE m.id \in 1..sequence'
    BY <1>2, <2>1, <2>2 DEF TableTypeOK
  <2>3. ASSUME NEW m \in messages', NEW n \in messages', m.id = n.id PROVE m = n
    BY <1>2, <2>1, <2>3 DEF IdsUnique
  <2> QED
    BY <2>2, <2>3 DEF IdsUnique
<1>3. \/ messages' \subseteq messages /\ sequence' = sequence
      \/ \E x \in Texts : /\ sequence' = sequence + 1
                          /\ messages' = messages \cup {[id |-> sequence + 1, text |-> x]}
  BY TableSteps DEF board, CreateMessage, DeleteRow, CreateUser, FollowNull, HandleSigs, Die, WithId
<1> QED
  BY <1>1, <1>2, <1>3

-----------------------------------------------------------------------------
(***************************************************************************)
(* The inductive invariant and the theorems.                               *)
(***************************************************************************)
IInv == TypeInv /\ OwnKept /\ AckedIsDurable /\ IdsUnique

LEMMA IInvInit == Init => IInv
<1> SUFFICES ASSUME Init PROVE IInv
  OBVIOUS
<1>1. OwnKept /\ AckedIsDurable /\ IdsUnique
  BY DEF Init, OwnKept, AckedIsDurable, IdsUnique
<1> QED
  BY <1>1, TypeInit DEF IInv

LEMMA IInvStep == IInv /\ [Next]_vars => IInv'
<1> SUFFICES ASSUME IInv, [Next]_vars PROVE IInv'
  OBVIOUS
<1>1. TypeInv'
  BY TableType, DisplayType, ProcessType, ThreadType, ObjectType, HistoryType, RowidStep
  DEF IInv, TypeInv, TypeOK
<1>2. OwnKept' /\ AckedIsDurable'
  BY OwnKeptStep, AckedStep DEF IInv
<1>3. IdsUnique'
  BY IdsStep DEF IInv, TypeInv, TypeOK
<1> QED
  BY <1>1, <1>2, <1>3 DEF IInv

LEMMA Invariance == Spec => []IInv
BY IInvInit, IInvStep, PTL DEF Spec

\* In every interleaving the variables keep their types; in particular no
\* thread of print_message_object runs off the lines of the display.
THEOREM TypeCorrect == Spec => []TypeOK
<1>1. IInv => TypeOK
  BY DEF IInv, TypeInv
<1> QED
  BY <1>1, Invariance, PTL

\* A message that was acknowledged, and really inserted, is in the table with
\* the text it was sent with until a MSG_DEL asks for its number: neither the
\* races between the threads nor a restart loses or changes it.
THEOREM Durability == Spec => []AckedIsDurable
<1>1. IInv => AckedIsDurable
  BY DEF IInv
<1> QED
  BY <1>1, Invariance, PTL

-----------------------------------------------------------------------------
(***************************************************************************)
(* Several clients: what a thread is about to publish was in the table     *)
(* when it was found, or has its own number, and no INSERT changes that.   *)
(***************************************************************************)
\* The object m is the row with its id, or was until a MSG_DEL asked for it,
\* and no later row gets the number.
Stored(m) ==
  /\ m.id \in 1..sequence /\ Kept(m)
  /\ \A n \in messages : n.id = m.id => n = m

\* What the thread t holds and will make current is a message of the table.
HoldsStored(t) ==
  /\ pc[t] = "rowid" => Stored([id |-> lastRowid, text |-> msg[t].text])
  /\ pc[t] = "print" /\ msg[t].id # 0 => Stored(msg[t])

SharedInv ==
  ~crossed =>
    /\ \A t \in Clients : HoldsStored(t)
    /\ currentMessage # NULL => Stored(currentMessage)

LEMMA RowsAreStored == ASSUME IdsUnique, NEW m \in messages PROVE Stored(m)
BY DEF IdsUnique, Stored, Kept

\* What was stored remains so, whoever does what.
LEMMA StoredStep == ASSUME IInv, [Next]_vars, NEW m, Stored(m) PROVE Stored(m)'
<1>1. Kept(m)'
  BY KeptStep DEF Stored
<1>2. sequence \in Nat
  BY DEF IInv, TypeInv, TypeOK, TableTypeOK
<1>3. CASE messages' \subseteq messages /\ sequence' = sequence
  BY <1>1, <1>3 DEF Stored
<1>4. ASSUME NEW x \in Texts,
             sequence' = sequence + 1,
             messages' = messages \cup {[id |-> sequence + 1, text |-> x]}
      PROVE  Stored(m)'
  <2>1. m.id \in 1..sequence' /\ m.id # sequence + 1
    BY <1>2, <1>4 DEF Stored
  <2>2. \A n \in messages' : n.id = m.id => n \in messages
    BY <1>4, <2>1
  <2> QED
    BY <1>1, <2>1, <2>2 DEF Stored
<1>5. \/ messages' \subseteq messages /\ sequence' = sequence
      \/ \E x \in Texts : /\ sequence' = sequence + 1
                          /\ messages' = messages \cup {[id |-> sequence + 1, text |-> x]}
  BY TableSteps DEF board, CreateMessage, DeleteRow, CreateUser, FollowNull, HandleSigs, Die, WithId
<1> QED
  BY <1>3, <1>4, <1>5

\* The thread u holds nothing new.
LEMMA HoldsStep ==
  ASSUME IInv, [Next]_vars, NEW u \in Clients, HoldsStored(u),
         pc'[u] = "rowid" => pc[u] = "rowid" /\ msg'[u] = msg[u] /\ lastRowid' = lastRowid,
         pc'[u] = "print" => pc[u] = "print" /\ msg'[u] = msg[u]
  PROVE  HoldsStored(u)'
<1>1. ASSUME pc'[u] = "rowid" PROVE Stored([id |-> lastRowid, text |-> msg[u].text])'
  <2>1. PICK m : m = [id |-> lastRowid, text |-> msg[u].text]
    OBVIOUS
  <2>2. Stored(m)
    BY <1>1, <2>1 DEF HoldsStored
  <2>3. Stored(m)'
    BY <2>2, StoredStep
  <2>4. m = [id |-> lastRowid', text |-> msg'[u].text]
    BY <1>1, <2>1
  <2> QED
    BY <2>3, <2>4
<1>2. ASSUME pc'[u] = "print", msg'[u].id # 0 PROVE Stored(msg[u])'
  <2>1. PICK m : m = msg[u]
    OBVIOUS
  <2>2. Stored(m)'
    BY <1>2, <2>1, StoredStep DEF HoldsStored
  <2> QED
    BY <1>2, <2>1, <2>2
<1> QED
  BY <1>1, <1>2 DEF HoldsStored

\* Neither does any, and no other message becomes current.
LEMMA SharedStep ==
  ASSUME IInv, [Next]_vars, SharedInv, ~crossed,
         currentMessage' \in {currentMessage, NULL},
         \A u \in Clients :
           /\ pc'[u] = "rowid" => pc[u] = "rowid" /\ msg'[u] = msg[u] /\ lastRowid' = lastRowid
           /\ pc'[u] = "print" => pc[u] = "print" /\ msg'[u] = msg[u]
  PROVE  SharedInv'
<1>1. \A u \in Clients : HoldsStored(u)'
  BY HoldsStep DEF SharedInv
<1>2. currentMessage' # NULL => Stored(currentMessage)'
  <2> SUFFICES ASSUME currentMessage' # NULL PROVE Stored(currentMessage)'
    OBVIOUS
  <2>1. PICK m : m = currentMessage /\ currentMessage' = m
    OBVIOUS
  <2>2. Stored(m)'
    BY <2>1, StoredStep DEF SharedInv
  <2> QED
    BY <2>1, <2>2
<1> QED
  BY <1>1, <1>2 DEF SharedInv

\* An INSERT that nobody comes between: its rowid is the last there was.
LEMMA CreateMessageShared ==
  ASSUME IInv, [Next]_vars, SharedInv, NEW t \in Clients, NEW x \in Texts, CreateMessage(t, x)
  PROVE  SharedInv'
<1> SUFFICES ASSUME ~crossed' PROVE SharedInv'
  BY DEF SharedInv
<1>1. /\ ~crossed /\ ~RowidAwaited
      /\ sequence' = sequence + 1
      /\ messages' = messages \cup {[id |-> sequence + 1, text |-> x]}
      /\ lastRowid' = sequence + 1
      /\ currentMessage' = currentMessage
      /\ msg' = [msg EXCEPT ![t] = [id |-> 0, text |-> x]]
      /\ pc' = [pc EXCEPT ![t] = "rowid"]
  BY DEF CreateMessage, Goto
<1>2. pc \in [Clients -> Labels] /\ msg \in [Clients -> Message \cup {NoObject}] /\ sequence \in Nat
  BY DEF IInv, TypeInv, TypeOK, ThreadTypeOK, ObjectTypeOK, TableTypeOK
<1>3. HoldsStored(t)'
  <2>1. pc'[t] = "rowid" /\ msg'[t].text = x
    BY <1>1, <1>2
  <2>2. PICK m : m = [id |-> sequence + 1, text |-> x]
    OBVIOUS
  <2>3. m \in messages' /\ m = [id |-> lastRowid', text |-> msg'[t].text]
    BY <1>1, <2>1, <2>2
  <2>4. IdsUnique'
    BY IInvStep DEF IInv
  <2>5. Stored(m)'
    BY <2>3, <2>4 DEF IdsUnique, Stored, Kept
  <2> QED
    BY <2>1, <2>3, <2>5 DEF HoldsStored
<1>4. ASSUME NEW u \in Clients, u # t PROVE HoldsStored(u)'
  <2>1. pc'[u] = pc[u] /\ msg'[u] = msg[u] /\ pc[u] # "rowid"
    BY <1>1, <1>2, <1>4 DEF RowidAwaited
  <2> QED
    BY <1>1, <2>1, HoldsStep DEF SharedInv
<1>5. currentMessage' # NULL => Stored(currentMessage)'
  <2> SUFFICES ASSUME currentMessage' # NULL PROVE Stored(currentMessage)'
    OBVIOUS
  <2>1. PICK m : m = currentMessage /\ currentMessage' = m
    BY <1>1
  <2>2. Stored(m)'
    BY <1>1, <2>1, StoredStep DEF SharedInv
  <2> QED
    BY <2>1, <2>2
<1> QED
  BY <1>3, <1>4, <1>5 DEF SharedInv

LEMMA CreateUserShared ==
  ASSUME IInv, [Next]_vars, SharedInv, NEW t \in Clients, CreateUser(t)
  PROVE  SharedInv'
<1> SUFFICES ASSUME ~crossed' PROVE SharedInv'
  BY DEF SharedInv
<1>1. ~crossed /\ ~RowidAwaited
  BY DEF CreateUser
<1>2. pc' = [pc EXCEPT ![t] = "done"] /\ msg' = msg /\ currentMessage' = currentMessage
  BY DEF CreateUser, Finish, Goto
<1>3. pc \in [Clients -> Labels]
  BY DEF IInv, TypeInv, TypeOK, ThreadTypeOK
<1>4. \A u \in Clients : pc'[u] # "rowid" /\ (pc'[u] = "print" => pc[u] = "print" /\ msg'[u] = msg[u])
  BY <1>1, <1>2, <1>3 DEF RowidAwaited
<1> QED
  BY <1>1, <1>2, <1>4, SharedStep

\* The object gets the rowid, which is that of its own row.
LEMMA TakeRowidShared ==
  ASSUME IInv, [Next]_vars, SharedInv, ~crossed, NEW t \in Clients, TakeRowid(t)
  PROVE  SharedInv'
<1>1. /\ pc[t] = "rowid"
      /\ msg' = [msg EXCEPT ![t] = [id |-> lastRowid, text |-> msg[t].text]]
      /\ pc' = [pc EXCEPT ![t] = "print"]
      /\ UNCHANGED <<board, currentMessage>>
  BY DEF TakeRowid, At, Goto
<1>2. pc \in [Clients -> Labels] /\ msg \in [Clients -> Message \cup {NoObject}]
  BY DEF IInv, TypeInv, TypeOK, ThreadTypeOK, ObjectTypeOK
<1>3. HoldsStored(t)'
  <2>1. PICK m : m = [id |-> lastRowid, text |-> msg[t].text]
    OBVIOUS
  <2>2. Stored(m)'
    BY <1>1, <2>1, StoredStep DEF SharedInv, HoldsStored
  <2>3. pc'[t] = "print" /\ msg'[t] = m
    BY <1>1, <1>2, <2>1
  <2> QED
    BY <2>2, <2>3 DEF HoldsStored
<1>4. ASSUME NEW u \in Clients, u # t PROVE HoldsStored(u)'
  <2>1. pc'[u] = pc[u] /\ msg'[u] = msg[u] /\ lastRowid' = lastRowid
    BY <1>1, <1>2, <1>4 DEF board
  <2> QED
    BY <2>1, HoldsStep DEF SharedInv
<1>5. currentMessage' # NULL => Stored(currentMessage)'
  <2> SUFFICES ASSUME currentMessage' # NULL PROVE Stored(currentMessage)'
    OBVIOUS
  <2>1. PICK m : m = currentMessage /\ currentMessage' = m
    BY <1>1
  <2>2. Stored(m)'
    BY <2>1, StoredStep DEF SharedInv
  <2> QED
    BY <2>1, <2>2
<1> QED
  BY <1>3, <1>4, <1>5 DEF SharedInv

\* A SELECT finds a row of the table, or nothing.
LEMMA FetchShared ==
  ASSUME IInv, [Next]_vars, SharedInv, ~crossed, NEW t \in Clients,
         SelectNeighbour(t) \/ SelectLatest(t) \/ FallBack(t)
  PROVE  SharedInv'
<1>1. /\ UNCHANGED <<board, currentMessage>>
      /\ \/ \E m \in messages : msg' = [msg EXCEPT ![t] = m] /\ pc' = [pc EXCEPT ![t] = "print"]
         \/ /\ msg' = [msg EXCEPT ![t] = NoObject]
            /\ \E l \in {"done", "nomore"} : pc' = [pc EXCEPT ![t] = l]
  BY DEF SelectNeighbour, SelectLatest, FallBack, Fetch, Finish, Goto, After, Before, Latest
<1>2. pc \in [Clients -> Labels] /\ msg \in [Clients -> Message \cup {NoObject}]
  BY DEF IInv, TypeInv, TypeOK, ThreadTypeOK, ObjectTypeOK
<1>3. HoldsStored(t)'
  <2>1. ASSUME NEW m \in messages, msg' = [msg EXCEPT ![t] = m], pc' = [pc EXCEPT ![t] = "print"]
        PROVE  HoldsStored(t)'
    <3>1. Stored(m)'
      BY RowsAreStored, StoredStep DEF IInv
    <3>2. pc'[t] = "print" /\ msg'[t] = m
      BY <1>2, <2>1
    <3> QED
      BY <3>1, <3>2 DEF HoldsStored
  <2>2. ASSUME NEW l \in {"done", "nomore"}, pc' = [pc EXCEPT ![t] = l] PROVE HoldsStored(t)'
    BY <1>2, <2>2 DEF HoldsStored
  <2> QED
    BY <1>1, <2>1, <2>2
<1>4. ASSUME NEW u \in Clients, u # t PROVE HoldsStored(u)'
  <2>1. pc'[u] = pc[u] /\ msg'[u] = msg[u] /\ lastRowid' = lastRowid
    BY <1>1, <1>2, <1>4 DEF board
  <2> QED
    BY <2>1, HoldsStep DEF SharedInv
<1>5. currentMessage' # NULL => Stored(currentMessage)'
  <2> SUFFICES ASSUME currentMessage' # NULL PROVE Stored(currentMessage)'
    OBVIOUS
  <2>1. PICK m : m = currentMessage /\ currentMessage' = m
    BY <1>1
  <2>2. Stored(m)'
    BY <2>1, StoredStep DEF SharedInv
  <2> QED
    BY <2>1, <2>2
<1> QED
  BY <1>3, <1>4, <1>5 DEF SharedInv

LEMMA PublishShared ==
  ASSUME IInv, [Next]_vars, SharedInv, ~crossed, NEW t \in Clients, Publish(t)
  PROVE  SharedInv'
<1>1. /\ pc[t] = "print" /\ msg[t].id # 0 /\ currentMessage' = msg[t]
      /\ pc' = [pc EXCEPT ![t] = "line"]
      /\ UNCHANGED <<board, msg>>
  BY DEF Publish, At, Goto
<1>2. pc \in [Clients -> Labels]
  BY DEF IInv, TypeInv, TypeOK, ThreadTypeOK
<1>3. ASSUME NEW u \in Clients PROVE HoldsStored(u)'
  <2>1. /\ pc'[u] = "rowid" => pc[u] = "rowid"
        /\ pc'[u] = "print" => pc[u] = "print"
        /\ msg'[u] = msg[u] /\ lastRowid' = lastRowid
    BY <1>1, <1>2 DEF board
  <2> QED
    BY <2>1, HoldsStep DEF SharedInv
<1>4. Stored(currentMessage)'
  <2>1. PICK m : m = msg[t] /\ currentMessage' = m
    BY <1>1
  <2>2. Stored(m)'
    BY <1>1, <2>1, StoredStep DEF SharedInv, HoldsStored
  <2> QED
    BY <2>1, <2>2
<1> QED
  BY <1>3, <1>4 DEF SharedInv

\* The other steps of a thread.
LEMMA ElseShared ==
  ASSUME IInv, [Next]_vars, SharedInv, ~crossed, NEW t \in Clients,
         \/ PrintZero(t) \/ PrintLine(t) \/ ReadCurrent(t) \/ DeleteRow(t) \/ ClearCurrent(t)
         \/ NoMoreMessages(t) \/ Reply(t) \/ Return(t) \/ Lines(t) \/ \E c : TestCurrent(t, c)
  PROVE  SharedInv'
<1>1. /\ currentMessage' \in {currentMessage, NULL} /\ lastRowid' = lastRowid
      /\ \/ msg' = msg
         \/ msg' = [msg EXCEPT ![t] = NoObject]
  BY LinesFrame DEF PrintZero, PrintLine, ReadCurrent, DeleteRow, ClearCurrent, NoMoreMessages, Reply,
         Return, TestCurrent, board, locals
<1>2. \/ pc' = pc /\ msg' = msg
      \/ \E l \in Labels \ {"rowid", "print"} : pc' = [pc EXCEPT ![t] = l]
  BY LinesFrame DEF PrintZero, PrintLine, ReadCurrent, DeleteRow, ClearCurrent, NoMoreMessages, Reply,
         Return, TestCurrent, Finish, Goto, Labels, locals
<1>3. pc \in [Clients -> Labels] /\ msg \in [Clients -> Message \cup {NoObject}]
  BY DEF IInv, TypeInv, TypeOK, ThreadTypeOK, ObjectTypeOK
<1>4. ASSUME NEW u \in Clients
      PROVE  /\ pc'[u] = "rowid" => pc[u] = "rowid" /\ msg'[u] = msg[u]
             /\ pc'[u] = "print" => pc[u] = "print" /\ msg'[u] = msg[u]
  BY <1>1, <1>2, <1>3
<1> QED
  BY <1>1, <1>4, SharedStep

LEMMA DieShared == ASSUME \E how : Die(how) PROVE SharedInv'
BY DEF Die, SharedInv, HoldsStored

LEMMA OthersShared ==
  ASSUME IInv, [Next]_vars, SharedInv, Restart \/ UNCHANGED vars PROVE SharedInv'
<1>1. UNCHANGED <<currentMessage, lastRowid, pc, msg, crossed>>
  BY DEF Restart, vars, board, locals, ghosts
<1> QED
  BY <1>1, SharedStep DEF SharedInv

LEMMA SharedInvStep == IInv /\ SharedInv /\ [Next]_vars => SharedInv'
<1> SUFFICES ASSUME IInv, SharedInv, [Next]_vars PROVE SharedInv'
  OBVIOUS
<1>1. ASSUME NEW t \in Clients, Run(t) \/ Take(t) PROVE SharedInv'
  <2>1. CASE CreateUser(t) \/ \E x \in Texts : CreateMessage(t, x)
    BY <2>1, CreateUserShared, CreateMessageShared
  <2>2. CASE FollowNull(t)
    BY <2>2, DieShared DEF FollowNull
  <2>3. CASE ~(CreateUser(t) \/ \E x \in Texts : CreateMessage(t, x)) /\ ~FollowNull(t)
    <3>1. crossed' = crossed
      BY <1>1, <2>3 DEF Run, Take, TakeRowid, PrintZero, Publish, PrintLine, TestCurrent, ReadCurrent,
         SelectNeighbour, SelectLatest, DeleteRow, ClearCurrent, FallBack, NoMoreMessages, Reply,
         Return, ghosts, CustomLine, ClearDisplay, WriteCustom
    <3>2. CASE crossed
      BY <3>1, <3>2 DEF SharedInv
    <3>3. CASE ~crossed
      BY <1>1, <2>3, <3>3, TakeRowidShared, FetchShared, PublishShared, ElseShared DEF Run, Take, Lines
    <3> QED
      BY <3>2, <3>3
  <2> QED
    BY <2>1, <2>2, <2>3
<1>2. CASE HandleSigs
  BY <1>2, DieShared DEF HandleSigs
<1>3. CASE Restart \/ UNCHANGED vars
  BY <1>3, OthersShared
<1> QED
  BY <1>1, <1>2, <1>3 DEF Next

\* However many clients use the board at once: as long as no INSERT fails, and
\* none comes between another and the question for its rowid, what is current
\* is the row with its number, or one that somebody asked to delete.  The end of
\* the process sets right what such an INSERT did.
THEOREM CurrentIsStored == Spec => []CurrentIsKept
<1>1. Init => SharedInv
  BY DEF Init, SharedInv, HoldsStored
<1>2. SharedInv => CurrentIsKept
  BY DEF SharedInv, CurrentIsKept, CurrentMatchesRow, Stored
<1> QED
  BY <1>1, <1>2, SharedInvStep, Invariance, PTL DEF Spec

=============================================================================

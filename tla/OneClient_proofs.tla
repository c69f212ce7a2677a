-------------------------- MODULE OneClient_proofs --------------------------
(***************************************************************************)
(* Theorems about Messages for a single client: what races take away from  *)
(* several clients, one of them alone does have, and its commands are      *)
(* those of MessageBoard.  The database is one whose statements succeed.   *)
(***************************************************************************)
EXTENDS Messages_proofs, WellFoundedInduction

Alone == \A t, u \in Clients : t = u

\* The program that is not running has nothing in memory.
Stopped == process # "up" => currentMessage = NULL /\ \A t \in Clients : pc[t] = "idle"

\* The current message is a row, but for the time between DELETE and the
\* pointer being cleared.
CurrentStored ==
  currentMessage # NULL => currentMessage \in messages \/ \E t \in Clients : pc[t] = "clear"

\* Every line shows the current message, or what a command has written there since.
Shown == currentMessage # NULL => \A i \in 1..Height : ShownOn(i, currentMessage)

\* That is so but while the message is being printed.
Displayed == (\A t \in Clients : pc[t] # "line") => Shown

\* What the thread knows of the message it took its id from.
HoldsCursor(t) == currentMessage # NULL /\ cursor[t] = currentMessage.id

\* Before the object it is about to print becomes the current one.
BeforePrint(t) ==
  /\ msg[t] \in messages /\ cmd[t] \in MessageCommands
  /\ cmd[t] = "MSG_CREATE" => own[t] = sequence /\ msg[t].id = own[t]
  /\ cmd[t] = "MSG_NEXT"   => HoldsCursor(t) /\ msg[t] \in After(cursor[t])
  /\ cmd[t] = "MSG_PREV"   => HoldsCursor(t) /\ msg[t] \in Before(cursor[t])
  /\ cmd[t] = "MSG_LATEST" => msg[t] \in Latest
  /\ cmd[t] = "MSG_DEL"    => currentMessage = NULL /\ msg[t] \in Latest /\ WithId(cursor[t]) = {}

\* What holds of a thread at each of its places.
Knows(t) ==
  /\ pc[t] = "rowid"  => /\ cmd[t] = "MSG_CREATE" /\ own[t] = sequence /\ lastRowid = sequence
                         /\ [id |-> sequence, text |-> msg[t].text] \in messages
  /\ pc[t] = "print"  => BeforePrint(t)
  /\ pc[t] # "zero"
  /\ pc[t] = "line"   => /\ cmd[t] \in MessageCommands /\ (cmd[t] = "MSG_DEL" => WithId(cursor[t]) = {})
                         /\ currentMessage = msg[t] /\ currentMessage \in messages
                         /\ \A i \in 1..(row[t] - 1) : screen[i] = CellOf(msg[t].text, i)
  /\ pc[t] = "read"   => cmd[t] \in {"MSG_NEXT", "MSG_PREV", "MSG_DEL"} /\ currentMessage # NULL
  /\ pc[t] = "select" => cmd[t] \in {"MSG_NEXT", "MSG_PREV"} /\ HoldsCursor(t)
  /\ pc[t] = "delete" => cmd[t] = "MSG_DEL" /\ HoldsCursor(t)
  /\ pc[t] = "clear"  => cmd[t] = "MSG_DEL" /\ HoldsCursor(t) /\ WithId(cursor[t]) = {}
  /\ pc[t] = "latest" => cmd[t] = "MSG_DEL" /\ currentMessage = NULL /\ WithId(cursor[t]) = {}
  /\ pc[t] = "nomore" => cmd[t] = "MSG_DEL" /\ currentMessage = NULL /\ messages = {}
  /\ pc[t] = "custom" => cmd[t] \notin MessageCommands
  /\ pc[t] = "reply" /\ cmd[t] \in MessageCommands =>
       /\ cmd[t] = "MSG_DEL" => WithId(cursor[t]) = {}
       /\ IF currentMessage = NULL THEN cmd[t] = "MSG_DEL" /\ messages = {} ELSE OnDisplay

OneInv ==
  /\ Stopped /\ CurrentStored /\ Displayed /\ RepliesTruthful
  /\ process # "segfault"
  /\ \A t \in Clients : Knows(t)

-----------------------------------------------------------------------------
(***************************************************************************)
(* The SELECTs find a row if there is one, and one row only.               *)
(***************************************************************************)
LEMMA LeastOf ==
  ASSUME NEW S \in SUBSET Nat, S # {}
  PROVE  \E n \in S : \A k \in S : n <= k
<1>1. PICK n \in S : \A k \in S : ~(<<k, n>> \in OpToRel(<, Nat))
  BY WFMin, NatLessThanWellFounded
<1>2. \A k \in S : k < n => <<k, n>> \in OpToRel(<, Nat)
  BY DEF OpToRel
<1>3. \A k \in S : ~(k < n)
  BY <1>1, <1>2
<1> QED
  BY <1>3

LEMMA GreatestOf ==
  ASSUME NEW n \in Nat, NEW S \in SUBSET (0..n), S # {}
  PROVE  \E m \in S : \A k \in S : k <= m
<1> DEFINE T == {n - k : k \in S}
<1>1. T \in SUBSET Nat /\ T # {}
  <2>1. \A k \in S : n - k \in Nat
    OBVIOUS
  <2> QED
    BY <2>1
<1>2. PICK d \in T : \A e \in T : d <= e
  BY <1>1, LeastOf
<1>3. PICK m \in S : d = n - m
  BY <1>2
<1>4. ASSUME NEW k \in S PROVE k <= m
  <2>1. d <= n - k
    BY <1>2
  <2> QED
    BY <1>3, <2>1
<1> QED
  BY <1>4

LEMMA RowTypes ==
  ASSUME IInv
  PROVE  /\ messages \subseteq Message /\ sequence \in Nat
         /\ \A m \in messages : m.id \in 1..sequence /\ m.id \in Nat /\ m.text \in Texts /\ m # NULL
         /\ \A m, n \in messages : m.id = n.id => m = n
BY ConstantsOK DEF IInv, TypeInv, TypeOK, TableTypeOK, IdsUnique, Message

\* The numbers of some rows have a least and a greatest.
LEMMA RowExtremes ==
  ASSUME IInv, NEW S \in SUBSET messages, S # {}
  PROVE  /\ \E m \in S : \A o \in S : m.id <= o.id
         /\ \E m \in S : \A o \in S : o.id <= m.id
<1> DEFINE Ids == {m.id : m \in S}
<1>1. Ids \in SUBSET Nat /\ Ids \in SUBSET (0..sequence) /\ Ids # {}
  BY RowTypes
<1>2. PICK n \in Ids : \A k \in Ids : n <= k
  BY <1>1, LeastOf
<1>3. PICK g \in Ids : \A k \in Ids : k <= g
  BY <1>1, RowTypes, GreatestOf
<1> QED
  BY <1>2, <1>3

LEMMA LatestRow ==
  ASSUME IInv
  PROVE  /\ Latest \subseteq messages
         /\ Latest = {} <=> messages = {}
         /\ \A m, n \in Latest : m = n
<1>1. messages # {} => Latest # {}
  BY RowExtremes DEF Latest
<1>2. ASSUME NEW m \in Latest, NEW n \in Latest PROVE m = n
  <2>1. m.id <= n.id /\ n.id <= m.id /\ m \in messages /\ n \in messages
    BY DEF Latest
  <2> QED
    BY <2>1, RowTypes
<1> QED
  BY <1>1, <1>2 DEF Latest

\* MSG_NEXT and MSG_PREV end only when there is no message on that side.
LEMMA Neighbours ==
  ASSUME IInv, NEW i \in Nat
  PROVE  /\ After(i) \subseteq messages /\ Before(i) \subseteq messages
         /\ After(i) = {} => \A m \in messages : ~(m.id > i)
         /\ Before(i) = {} => \A m \in messages : ~(m.id < i)
<1>1. ASSUME NEW m \in messages, m.id > i PROVE After(i) # {}
  <2> DEFINE S == {o \in messages : o.id > i}
  <2>1. PICK n \in S : \A o \in S : n.id <= o.id
    BY <1>1, RowExtremes
  <2> QED
    BY <2>1 DEF After
<1>2. ASSUME NEW m \in messages, m.id < i PROVE Before(i) # {}
  <2> DEFINE S == {o \in messages : o.id < i}
  <2>1. PICK n \in S : \A o \in S : o.id <= n.id
    BY <1>2, RowExtremes
  <2> QED
    BY <2>1 DEF Before
<1> QED
  BY <1>1, <1>2 DEF After, Before

\* The row with the number of a row is that row.
LEMMA OneRow ==
  ASSUME IInv, NEW m \in messages
  PROVE  WithId(m.id) = {m}
BY RowTypes DEF WithId

\* What print_message_object writes line by line is the picture of the message.
LEMMA CellsRendered ==
  ASSUME NEW x \in Texts, NEW i \in 1..Height
  PROVE  Rendered(x)[i] = CellOf(x, i)
<1>1. RowsOf[x] \in Nat /\ Height \in Nat
  BY ConstantsOK
<1> QED
  BY <1>1 DEF Rendered, CellOf

LEMMA ShownSame ==
  ASSUME UNCHANGED <<currentMessage, screen>>
  PROVE  Shown' <=> Shown
BY DEF Shown, ShownOn, Rendered

LEMMA OnDisplaySame ==
  ASSUME UNCHANGED <<messages, currentMessage, screen>>
  PROVE  OnDisplay' <=> OnDisplay
BY DEF OnDisplay, Rendered

\* All of the message on display is more than every line showing it.
LEMMA OnDisplayShown == ASSUME OnDisplay PROVE Shown
BY DEF OnDisplay, Shown, ShownOn

-----------------------------------------------------------------------------
(***************************************************************************)
(* The steps.                                                              *)
(***************************************************************************)
LEMMA Types ==
  ASSUME IInv, NEW t \in Clients
  PROVE  /\ pc \in [Clients -> Labels] /\ cmd \in [Clients -> Commands]
         /\ cursor \in [Clients -> Nat] /\ row \in [Clients -> 1..Height]
         /\ replies \in [Clients -> Seq(Statuses)] /\ own \in [Clients -> Nat]
         /\ msg \in [Clients -> Message \cup {NoObject}]
         /\ screen \in [1..Height -> Cell] /\ currentMessage \in Message \cup {NULL}
BY DEF IInv, TypeInv, TypeOK, ThreadTypeOK, ObjectTypeOK, DisplayTypeOK, HistoryTypeOK

\* A step of the only thread, seen from what it leaves the thread with.
LEMMA ThreadStep ==
  ASSUME Alone, OneInv, NEW t \in Clients, process = "up", UNCHANGED process,
         Knows(t)', CurrentStored', Displayed', pc'[t] = "done" => RepliesTruthful'
  PROVE  OneInv'
<1>1. \A u \in Clients : Knows(u)'
  BY DEF Alone
<1>2. RepliesTruthful'
  BY DEF Alone, RepliesTruthful, At
<1> QED
  BY <1>1, <1>2 DEF OneInv, Stopped

\* A thread that holds nothing.
LEMMA Begins ==
  ASSUME IInv, OneInv, Alone, NEW t \in Clients, process = "up", pc[t] \in {"idle", "done"}
  PROVE  /\ \A u \in Clients : pc[u] \notin {"line", "clear"}
         /\ currentMessage # NULL => currentMessage \in messages
         /\ Shown
BY DEF Alone, OneInv, CurrentStored, Displayed

\* One reply, and what makes it so.
LEMMA OneReply ==
  ASSUME Alone, NEW t \in Clients, NEW status, replies'[t] = <<status>>,
         ~(cmd'[t] \in {"MSG_NEXT", "MSG_PREV"} /\ currentMessage' = NULL),
         \/ /\ status = "OK_MESSAGE_DELETED" /\ WithId(cursor[t])' = {}
            /\ currentMessage' = NULL => messages' = {}
            /\ currentMessage' # NULL => OnDisplay'
         \/ status = "OK_MESSAGE_SET" /\ OnDisplay'
         \/ status = "ERROR_NO_MESSAGE_SHOWN" /\ currentMessage' = NULL
         \/ status = "ERROR_NO_MORE_MESSAGES" /\ NoneThere(cmd[t])'
  PROVE  RepliesTruthful'
<1>1. replies'[t] # <<>> /\ DOMAIN replies'[t] = {1} /\ replies'[t][1] = status
  OBVIOUS
<1>2. \A u \in Clients : u = t
  BY DEF Alone
<1> QED
  BY <1>1, <1>2 DEF RepliesTruthful

\* The commands that say nothing about messages are not spoken of.
LEMMA NoReply ==
  ASSUME Alone, NEW t \in Clients, cmd'[t] \notin MessageCommands
  PROVE  RepliesTruthful'
<1>1. \A u \in Clients : u = t
  BY DEF Alone
<1> QED
  BY <1>1 DEF RepliesTruthful

LEMMA CreateMessageOne ==
  ASSUME IInv, OneInv, Alone, ~DbMayFail, NEW t \in Clients, NEW x \in Texts, CreateMessage(t, x)
  PROVE  OneInv'
<1>1. /\ process = "up" /\ pc[t] = "idle" /\ UNCHANGED <<process, currentMessage, screen>>
      /\ pc' = [pc EXCEPT ![t] = "rowid"] /\ cmd' = [cmd EXCEPT ![t] = "MSG_CREATE"]
      /\ sequence' = sequence + 1 /\ lastRowid' = sequence + 1
      /\ messages' = messages \cup {[id |-> sequence + 1, text |-> x]}
      /\ own' = [own EXCEPT ![t] = sequence + 1] /\ msg' = [msg EXCEPT ![t] = [id |-> 0, text |-> x]]
  BY DEF CreateMessage, Begin, At, Goto
<1>2. pc'[t] = "rowid" /\ cmd'[t] = "MSG_CREATE" /\ own'[t] = sequence' /\ msg'[t].text = x
  BY <1>1, Types
<1>3. Knows(t)'
  BY <1>1, <1>2 DEF Knows
<1>4. CurrentStored' /\ Displayed'
  BY <1>1, Begins, ShownSame DEF CurrentStored, Displayed
<1> QED
  BY <1>1, <1>2, <1>3, <1>4, ThreadStep

LEMMA TakeRowidOne ==
  ASSUME IInv, OneInv, Alone, NEW t \in Clients, TakeRowid(t)
  PROVE  OneInv'
<1>1. /\ process = "up" /\ pc[t] = "rowid"
      /\ UNCHANGED <<process, messages, sequence, currentMessage, screen, cmd, own>>
      /\ pc' = [pc EXCEPT ![t] = "print"]
      /\ msg' = [msg EXCEPT ![t] = [id |-> lastRowid, text |-> msg[t].text]]
  BY DEF TakeRowid, At, Goto, board, ghosts
<1>2. pc'[t] = "print" /\ msg'[t] = [id |-> lastRowid, text |-> msg[t].text]
  BY <1>1, Types
<1>3. /\ cmd[t] = "MSG_CREATE" /\ own[t] = sequence /\ lastRowid = sequence
      /\ [id |-> sequence, text |-> msg[t].text] \in messages
  BY <1>1 DEF OneInv, Knows
<1>4. BeforePrint(t)'
  BY <1>1, <1>2, <1>3 DEF BeforePrint, MessageCommands
<1>5. Knows(t)'
  BY <1>2, <1>4 DEF Knows
<1>6. CurrentStored' /\ Displayed'
  BY <1>1, <1>2, ShownSame DEF OneInv, CurrentStored, Displayed, Alone
<1> QED
  BY <1>1, <1>2, <1>5, <1>6, ThreadStep

\* No object has the id 0.
LEMMA PrintZeroOne ==
  ASSUME IInv, OneInv, NEW t \in Clients, PrintZero(t)
  PROVE  FALSE
<1>1. pc[t] = "print" /\ msg[t].id = 0
  BY DEF PrintZero, At, OneInv, Knows
<1>2. msg[t] \in messages
  BY <1>1 DEF OneInv, Knows, BeforePrint
<1> QED
  BY <1>1, <1>2, RowTypes

LEMMA PublishOne ==
  ASSUME IInv, OneInv, Alone, NEW t \in Clients, Publish(t)
  PROVE  OneInv'
<1>1. /\ process = "up" /\ pc[t] = "print"
      /\ UNCHANGED <<process, messages, screen, cmd, msg, cursor>>
      /\ pc' = [pc EXCEPT ![t] = "line"] /\ currentMessage' = msg[t] /\ row' = [row EXCEPT ![t] = 1]
  BY DEF Publish, At, Goto, board
<1>2. pc'[t] = "line" /\ row'[t] = 1
  BY <1>1, Types
<1>3. BeforePrint(t)
  BY <1>1 DEF OneInv, Knows
<1>4. Knows(t)'
  <2>1. WithId(cursor[t])' = WithId(cursor[t])
    BY <1>1 DEF WithId
  <2> QED
    BY <1>1, <1>2, <1>3, <2>1 DEF Knows, BeforePrint
<1>5. CurrentStored' /\ Displayed'
  BY <1>1, <1>2, <1>3 DEF BeforePrint, CurrentStored, Displayed
<1> QED
  BY <1>1, <1>2, <1>4, <1>5, ThreadStep

LEMMA PrintLineOne ==
  ASSUME IInv, OneInv, Alone, NEW t \in Clients, PrintLine(t)
  PROVE  OneInv'
<1>1. /\ process = "up" /\ pc[t] = "line"
      /\ UNCHANGED <<process, messages, currentMessage, cmd, msg, cursor>>
      /\ screen' = [screen EXCEPT ![row[t]] = CellOf(msg[t].text, row[t])]
  BY DEF PrintLine, At, board, SetLine
<1>2. /\ cmd[t] \in MessageCommands /\ (cmd[t] = "MSG_DEL" => WithId(cursor[t]) = {})
      /\ currentMessage = msg[t] /\ currentMessage \in messages
      /\ \A i \in 1..(row[t] - 1) : screen[i] = CellOf(msg[t].text, i)
  BY <1>1 DEF OneInv, Knows
<1>3. row[t] \in 1..Height /\ Height \in Nat /\ screen \in [1..Height -> Cell]
  BY Types, ConstantsOK
<1>4. \A i \in 1..row[t] : screen'[i] = CellOf(msg[t].text, i)
  BY <1>1, <1>2, <1>3
<1>5. (WithId(cursor[t]) = {})' <=> WithId(cursor[t]) = {}
  BY <1>1 DEF WithId
<1>6. CurrentStored'
  BY <1>1, <1>2 DEF CurrentStored
<1>7. CASE row[t] < Height
  <2>1. pc' = pc /\ row' = [row EXCEPT ![t] = @ + 1]
    BY <1>7 DEF PrintLine
  <2>2. row'[t] - 1 = row[t]
    BY <1>3, <2>1, Types
  <2>3. Knows(t)' /\ Displayed'
    BY <1>1, <1>2, <1>4, <1>5, <2>1, <2>2 DEF Knows, Displayed
  <2> QED
    BY <1>1, <1>6, <2>1, <2>3, ThreadStep
<1>8. CASE ~(row[t] < Height)
  <2>1. pc' = [pc EXCEPT ![t] = "reply"] /\ row[t] = Height
    BY <1>3, <1>8 DEF PrintLine, Goto
  <2>2. pc'[t] = "reply"
    BY <2>1, Types
  <2>3. screen' = Rendered(currentMessage.text)
    <3>1. currentMessage.text \in Texts
      BY <1>2, RowTypes
    <3>2. \A i \in 1..Height : screen'[i] = Rendered(currentMessage.text)[i]
      BY <1>2, <1>4, <2>1, <3>1, CellsRendered
    <3>3. screen' = [i \in 1..Height |-> screen'[i]]
      BY <1>1, <1>3
    <3>4. Rendered(currentMessage.text) = [i \in 1..Height |-> Rendered(currentMessage.text)[i]]
      BY DEF Rendered
    <3> QED
      BY <3>2, <3>3, <3>4
  <2>4. OnDisplay'
    BY <1>1, <1>2, <2>3 DEF OnDisplay, Rendered
  <2>5. Knows(t)'
    BY <1>1, <1>2, <1>5, <2>2, <2>4, RowTypes DEF Knows
  <2>6. Shown'
    BY <2>4 DEF OnDisplay, Shown, ShownOn
  <2>7. Displayed'
    BY <2>6 DEF Displayed
  <2> QED
    BY <1>1, <1>6, <2>2, <2>5, <2>7, ThreadStep
<1> QED
  BY <1>7, <1>8

LEMMA TestCurrentOne ==
  ASSUME IInv, OneInv, Alone, NEW t \in Clients,
         NEW c \in {"MSG_NEXT", "MSG_PREV", "MSG_DEL"}, TestCurrent(t, c)
  PROVE  OneInv'
<1>1. /\ process = "up" /\ pc[t] = "idle"
      /\ UNCHANGED <<process, messages, currentMessage, screen>>
      /\ cmd' = [cmd EXCEPT ![t] = c] /\ cmd'[t] = c
  BY Types DEF TestCurrent, Begin, At, board
<1>2. CASE currentMessage = NULL
  <2>1. /\ pc'[t] = "done"
        /\ replies'[t] = IF c = "MSG_DEL" THEN <<"ERROR_NO_MESSAGE_SHOWN">> ELSE <<>>
    BY <1>2, Types DEF TestCurrent, Finish, Goto
  <2>2. RepliesTruthful'
    <3>1. CASE c = "MSG_DEL"
      BY <1>1, <1>2, <2>1, <3>1, OneReply
    <3>2. CASE c # "MSG_DEL"
      <4>1. replies'[t] = <<>> /\ currentMessage' = NULL /\ cmd'[t] \in {"MSG_NEXT", "MSG_PREV"}
        BY <1>1, <1>2, <2>1, <3>2
      <4>2. DOMAIN replies'[t] = {} /\ \A u \in Clients : u = t
        BY <4>1 DEF Alone
      <4> QED
        BY <4>1, <4>2 DEF RepliesTruthful
    <3> QED
      BY <3>1, <3>2
  <2>3. Knows(t)' /\ CurrentStored' /\ Displayed'
    BY <1>1, <1>2, <2>1 DEF Knows, CurrentStored, Displayed, Shown
  <2> QED
    BY <1>1, <2>2, <2>3, ThreadStep
<1>3. CASE currentMessage # NULL
  <2>1. pc'[t] = "read"
    BY <1>3, Types DEF TestCurrent, Goto
  <2>2. Knows(t)' /\ CurrentStored' /\ Displayed'
    BY <1>1, <1>3, <2>1, Begins, ShownSame DEF Knows, CurrentStored, Displayed
  <2> QED
    BY <1>1, <2>1, <2>2, ThreadStep
<1> QED
  BY <1>2, <1>3

LEMMA ReadCurrentOne ==
  ASSUME IInv, OneInv, Alone, NEW t \in Clients, ReadCurrent(t)
  PROVE  OneInv'
<1>1. /\ process = "up" /\ pc[t] = "read" /\ currentMessage # NULL
      /\ UNCHANGED <<process, messages, currentMessage, screen, cmd>>
      /\ cursor'[t] = currentMessage.id
      /\ pc'[t] = IF cmd[t] = "MSG_DEL" THEN "delete" ELSE "select"
  BY Types DEF ReadCurrent, At, Goto, board
<1>2. cmd[t] \in {"MSG_NEXT", "MSG_PREV", "MSG_DEL"} /\ pc[t] \notin {"clear", "line"}
  BY <1>1 DEF OneInv, Knows
<1>3. Knows(t)'
  BY <1>1, <1>2 DEF Knows, HoldsCursor
<1>4. CurrentStored' /\ Displayed'
  BY <1>1, <1>2, ShownSame DEF OneInv, CurrentStored, Displayed, Alone
<1> QED
  BY <1>1, <1>3, <1>4, ThreadStep

LEMMA SelectNeighbourOne ==
  ASSUME IInv, OneInv, Alone, ~DbMayFail, NEW t \in Clients, SelectNeighbour(t)
  PROVE  OneInv'
<1> DEFINE rows == IF cmd[t] = "MSG_NEXT" THEN After(cursor[t]) ELSE Before(cursor[t])
<1>1. /\ process = "up" /\ pc[t] = "select"
      /\ UNCHANGED <<process, messages, sequence, currentMessage, screen, cmd, cursor>>
      /\ Fetch(t, rows, Finish(t, <<"ERROR_NO_MORE_MESSAGES">>))
  BY DEF SelectNeighbour, At, board
<1>2. cmd[t] \in {"MSG_NEXT", "MSG_PREV"} /\ HoldsCursor(t)
  BY <1>1 DEF OneInv, Knows
<1>3. cursor[t] \in Nat /\ rows \subseteq messages
  BY Types, Neighbours
<1>4. CurrentStored' /\ (pc'[t] # "line" => Displayed')
  <2>1. pc[t] \notin {"clear", "line"}
    BY <1>1
  <2> QED
    BY <1>1, <2>1, ShownSame DEF OneInv, CurrentStored, Displayed, Alone
<1>5. CASE \E m \in rows : msg' = [msg EXCEPT ![t] = m] /\ Goto(t, "print") /\ UNCHANGED replies
  <2>1. pc'[t] = "print" /\ msg'[t] \in rows
    BY <1>5, Types DEF Goto
  <2>2. HoldsCursor(t)' /\ After(cursor[t])' = After(cursor[t]) /\ Before(cursor[t])' = Before(cursor[t])
    BY <1>1, <1>2 DEF HoldsCursor, After, Before
  <2>3. BeforePrint(t)'
    BY <1>1, <1>2, <1>3, <2>1, <2>2 DEF BeforePrint, MessageCommands
  <2>4. Knows(t)'
    BY <2>1, <2>3 DEF Knows
  <2> QED
    BY <1>1, <1>4, <2>1, <2>4, ThreadStep
<1>6. CASE rows = {} /\ Finish(t, <<"ERROR_NO_MORE_MESSAGES">>)
  <2>1. pc'[t] = "done" /\ replies'[t] = <<"ERROR_NO_MORE_MESSAGES">>
    BY <1>6, Types DEF Finish, Goto
  <2>2. \A m \in messages : \/ cmd[t] = "MSG_NEXT" /\ m.id <= currentMessage.id
                            \/ cmd[t] = "MSG_PREV" /\ m.id >= currentMessage.id
    BY <1>2, <1>3, <1>6, RowTypes, Neighbours DEF HoldsCursor
  <2>3. RepliesTruthful'
    <3>1. NoneThere(cmd[t])'
      BY <1>1, <2>2 DEF NoneThere
    <3> QED
      BY <1>1, <1>2, <2>1, <3>1, OneReply DEF HoldsCursor
  <2>4. Knows(t)'
    BY <2>1 DEF Knows
  <2> QED
    BY <1>1, <1>4, <2>1, <2>3, <2>4, ThreadStep
<1> QED
  BY <1>1, <1>5, <1>6 DEF Fetch

LEMMA SelectLatestOne ==
  ASSUME IInv, OneInv, Alone, ~DbMayFail, NEW t \in Clients, SelectLatest(t)
  PROVE  OneInv'
<1>1. /\ process = "up" /\ pc[t] = "idle"
      /\ UNCHANGED <<process, messages, sequence, currentMessage, screen>>
      /\ cmd'[t] = "MSG_LATEST"
      /\ Fetch(t, Latest, Finish(t, <<"ERROR_NO_MORE_MESSAGES", "OK_MESSAGE_SET">>))
  BY Types DEF SelectLatest, Begin, At, board
<1>2. CurrentStored' /\ (pc'[t] # "line" => Displayed')
  BY <1>1, Begins, ShownSame DEF CurrentStored, Displayed
<1>3. CASE \E m \in Latest : msg' = [msg EXCEPT ![t] = m] /\ Goto(t, "print") /\ UNCHANGED replies
  <2>1. pc'[t] = "print" /\ msg'[t] \in Latest
    BY <1>3, Types DEF Goto
  <2>2. Latest' = Latest /\ Latest \subseteq messages
    BY <1>1 DEF Latest
  <2>3. BeforePrint(t)'
    BY <1>1, <2>1, <2>2 DEF BeforePrint, MessageCommands
  <2>4. Knows(t)'
    BY <2>1, <2>3 DEF Knows
  <2> QED
    BY <1>1, <1>2, <2>1, <2>4, ThreadStep
<1>4. CASE Latest = {} /\ Finish(t, <<"ERROR_NO_MORE_MESSAGES", "OK_MESSAGE_SET">>)
  <2>1. pc'[t] = "done" /\ replies'[t] = <<"ERROR_NO_MORE_MESSAGES", "OK_MESSAGE_SET">>
    BY <1>4, Types DEF Finish, Goto
  <2>2. messages = {}
    BY <1>4, LatestRow
  <2>3. RepliesTruthful'
    <3>1. /\ replies'[t] # <<>> /\ DOMAIN replies'[t] = 1..2
          /\ replies'[t][1] = "ERROR_NO_MORE_MESSAGES" /\ replies'[t][2] = "OK_MESSAGE_SET"
      BY <2>1
    <3>2. messages' = {} /\ NoneThere(cmd[t])' /\ \A u \in Clients : u = t
      BY <1>1, <2>2 DEF NoneThere, Alone
    <3>3. \A n \in DOMAIN replies'[t] : n = 1 \/ n = 2
      BY <3>1
    <3> QED
      BY <1>1, <3>1, <3>2, <3>3 DEF RepliesTruthful
  <2>4. Knows(t)'
    BY <2>1 DEF Knows
  <2> QED
    BY <1>1, <1>2, <2>1, <2>3, <2>4, ThreadStep
<1> QED
  BY <1>1, <1>3, <1>4 DEF Fetch

LEMMA DeleteRowOne ==
  ASSUME IInv, OneInv, Alone, ~DbMayFail, NEW t \in Clients, DeleteRow(t)
  PROVE  OneInv'
<1>1. /\ process = "up" /\ pc[t] = "delete" /\ pc'[t] = "clear"
      /\ UNCHANGED <<process, currentMessage, screen, cmd, cursor>>
      /\ messages' = messages \ WithId(cursor[t])
  BY Types DEF DeleteRow, At, Goto, locals
<1>2. cmd[t] = "MSG_DEL" /\ HoldsCursor(t)
  BY <1>1 DEF OneInv, Knows
<1>3. WithId(cursor[t])' = {}
  BY <1>1 DEF WithId
<1>4. Knows(t)'
  BY <1>1, <1>2, <1>3 DEF Knows, HoldsCursor
<1>5. CurrentStored' /\ Displayed'
  <2>1. pc[t] # "line"
    BY <1>1
  <2> QED
    BY <1>1, <2>1, ShownSame DEF OneInv, CurrentStored, Displayed, Alone
<1> QED
  BY <1>1, <1>4, <1>5, ThreadStep

LEMMA ClearCurrentOne ==
  ASSUME IInv, OneInv, Alone, NEW t \in Clients, ClearCurrent(t)
  PROVE  OneInv'
<1>1. /\ process = "up" /\ pc[t] = "clear" /\ pc'[t] = "latest" /\ currentMessage' = NULL
      /\ UNCHANGED <<process, messages, cmd, cursor>>
  BY Types DEF ClearCurrent, At, Goto, locals, board
<1>2. cmd[t] = "MSG_DEL" /\ WithId(cursor[t]) = {} /\ WithId(cursor[t])' = WithId(cursor[t])
  BY <1>1 DEF OneInv, Knows, WithId
<1>3. Knows(t)' /\ CurrentStored' /\ Displayed'
  BY <1>1, <1>2 DEF Knows, CurrentStored, Displayed, Shown
<1> QED
  BY <1>1, <1>3, ThreadStep

LEMMA FallBackOne ==
  ASSUME IInv, OneInv, Alone, ~DbMayFail, NEW t \in Clients, FallBack(t)
  PROVE  OneInv'
<1>1. /\ process = "up" /\ pc[t] = "latest"
      /\ UNCHANGED <<process, messages, currentMessage, cmd, cursor>>
      /\ \/ \E m \in Latest : msg' = [msg EXCEPT ![t] = m] /\ Goto(t, "print")
         \/ Latest = {} /\ Goto(t, "nomore")
  BY DEF FallBack, Fetch, At, board
<1>2. /\ cmd[t] = "MSG_DEL" /\ currentMessage = NULL /\ WithId(cursor[t]) = {}
      /\ WithId(cursor[t])' = WithId(cursor[t]) /\ Latest' = Latest /\ Latest \subseteq messages
  BY <1>1 DEF OneInv, Knows, WithId, Latest
<1>3. CurrentStored' /\ Displayed'
  BY <1>1, <1>2 DEF CurrentStored, Displayed, Shown
<1>4. CASE \E m \in Latest : msg' = [msg EXCEPT ![t] = m] /\ Goto(t, "print")
  <2>1. pc'[t] = "print" /\ msg'[t] \in Latest
    BY <1>4, Types DEF Goto
  <2>2. BeforePrint(t)'
    BY <1>1, <1>2, <2>1 DEF BeforePrint, MessageCommands
  <2>3. Knows(t)'
    BY <2>1, <2>2 DEF Knows
  <2> QED
    BY <1>1, <1>3, <2>1, <2>3, ThreadStep
<1>5. CASE Latest = {} /\ Goto(t, "nomore")
  <2>1. pc'[t] = "nomore" /\ messages = {}
    BY <1>5, Types, LatestRow DEF Goto
  <2>2. Knows(t)'
    BY <1>1, <1>2, <2>1 DEF Knows
  <2> QED
    BY <1>1, <1>3, <2>1, <2>2, ThreadStep
<1> QED
  BY <1>1, <1>4, <1>5

LEMMA NoMoreMessagesOne ==
  ASSUME IInv, OneInv, Alone, NEW t \in Clients, NoMoreMessages(t)
  PROVE  OneInv'
<1>1. /\ process = "up" /\ pc[t] = "nomore" /\ pc'[t] = "reply"
      /\ UNCHANGED <<process, messages, currentMessage, cmd, cursor>>
  BY Types DEF NoMoreMessages, At, Goto, locals, board
<1>2. cmd[t] = "MSG_DEL" /\ currentMessage = NULL /\ messages = {}
  BY <1>1 DEF OneInv, Knows
<1>3. WithId(cursor[t])' = {}
  BY <1>1, <1>2 DEF WithId
<1>4. Knows(t)' /\ CurrentStored' /\ Displayed'
  BY <1>1, <1>2, <1>3 DEF Knows, CurrentStored, Displayed, Shown, MessageCommands
<1> QED
  BY <1>1, <1>4, ThreadStep

LEMMA ReplyOne ==
  ASSUME IInv, OneInv, Alone, NEW t \in Clients, Reply(t)
  PROVE  OneInv'
<1>1. /\ process = "up" /\ pc[t] = "reply" /\ pc'[t] = "done"
      /\ UNCHANGED <<process, messages, currentMessage, screen, cmd, cursor>>
      /\ replies'[t] = FinalReplies(cmd[t])
  BY Types DEF Reply, Finish, At, Goto, locals, board
<1>2. Shown /\ pc[t] \notin {"clear", "line"}
  BY <1>1 DEF OneInv, Displayed, Alone
<1>3. RepliesTruthful'
  <2>1. CASE cmd[t] \notin MessageCommands
    BY <1>1, <2>1, NoReply
  <2>2. CASE cmd[t] \in MessageCommands
    <3>1. /\ cmd[t] = "MSG_DEL" => WithId(cursor[t]) = {}
          /\ currentMessage = NULL => cmd[t] = "MSG_DEL" /\ messages = {}
          /\ currentMessage # NULL => OnDisplay
      BY <1>1, <2>2 DEF OneInv, Knows
    <3>2. WithId(cursor[t])' = WithId(cursor[t]) /\ (OnDisplay' <=> OnDisplay)
      BY <1>1, OnDisplaySame DEF WithId
    <3>3. CASE cmd[t] = "MSG_DEL"
      <4>1. replies'[t] = <<"OK_MESSAGE_DELETED">>
        BY <1>1, <3>3 DEF FinalReplies
      <4> QED
        BY <1>1, <3>1, <3>2, <3>3, <4>1, OneReply
    <3>4. CASE cmd[t] = "MSG_LATEST"
      <4>1. replies'[t] = <<"OK_MESSAGE_SET", "OK_MESSAGE_SET">>
        BY <1>1, <3>4 DEF FinalReplies
      <4>2. /\ replies'[t] # <<>> /\ \A n \in DOMAIN replies'[t] : replies'[t][n] = "OK_MESSAGE_SET"
        BY <4>1
      <4>3. OnDisplay' /\ \A u \in Clients : u = t
        BY <3>1, <3>2, <3>4 DEF Alone
      <4> QED
        BY <1>1, <3>4, <4>2, <4>3 DEF RepliesTruthful
    <3>5. CASE cmd[t] \notin {"MSG_DEL", "MSG_LATEST"}
      <4>1. replies'[t] = <<"OK_MESSAGE_SET">>
        BY <1>1, <2>2, <3>5 DEF FinalReplies, MessageCommands
      <4> QED
        BY <1>1, <3>1, <3>2, <3>5, <4>1, OneReply
    <3> QED
      BY <3>3, <3>4, <3>5
  <2> QED
    BY <2>1, <2>2
<1>4. Knows(t)' /\ CurrentStored' /\ Displayed'
  BY <1>1, <1>2, ShownSame DEF Knows, OneInv, CurrentStored, Displayed, Alone
<1> QED
  BY <1>1, <1>3, <1>4, ThreadStep

LEMMA ReturnOne ==
  ASSUME IInv, OneInv, Alone, NEW t \in Clients, Return(t)
  PROVE  OneInv'
<1>1. /\ process = "up" /\ pc[t] = "done" /\ pc'[t] = "idle"
      /\ UNCHANGED <<process, messages, currentMessage, screen>>
  BY Types DEF Return, At, Goto, board
<1>2. Knows(t)' /\ CurrentStored' /\ Displayed'
  BY <1>1, Begins, ShownSame DEF Knows, CurrentStored, Displayed
<1> QED
  BY <1>1, <1>2, ThreadStep

LEMMA CreateUserOne ==
  ASSUME IInv, OneInv, Alone, NEW t \in Clients, CreateUser(t)
  PROVE  OneInv'
<1>1. /\ process = "up" /\ pc[t] = "idle" /\ pc'[t] = "done" /\ cmd'[t] = "CREATE_USER"
      /\ UNCHANGED <<process, messages, currentMessage, screen>>
  BY Types DEF CreateUser, Begin, Finish, At, Goto
<1>2. RepliesTruthful'
  BY <1>1, NoReply DEF MessageCommands
<1>3. Knows(t)' /\ CurrentStored' /\ Displayed'
  BY <1>1, Begins, ShownSame DEF Knows, CurrentStored, Displayed
<1> QED
  BY <1>1, <1>2, <1>3, ThreadStep

\* SET_TEXT and the like begin, or are refused.
LEMMA CustomLineOne ==
  ASSUME IInv, OneInv, Alone, NEW t \in Clients,
         ClearDisplay(t) \/ \E c \in LineCommands : CustomLine(t, c)
  PROVE  OneInv'
<1>1. /\ process = "up" /\ pc[t] = "idle" /\ pc'[t] \in {"custom", "done"}
      /\ cmd'[t] \in LineCommands \cup {"CLEAR_DISPLAY"}
      /\ UNCHANGED <<process, messages, currentMessage, screen>>
  BY Types DEF CustomLine, ClearDisplay, Begin, Finish, At, Goto, board
<1>2. cmd'[t] \notin MessageCommands
  BY <1>1, ConstantsOK DEF MessageCommands
<1>3. Knows(t)' /\ CurrentStored' /\ Displayed'
  BY <1>1, <1>2, Begins, ShownSame DEF Knows, CurrentStored, Displayed
<1> QED
  BY <1>1, <1>2, <1>3, NoReply, ThreadStep

\* They put something else in the place of a line of the message.
LEMMA WriteCustomOne ==
  ASSUME IInv, OneInv, Alone, NEW t \in Clients, WriteCustom(t)
  PROVE  OneInv'
<1>1. /\ process = "up" /\ pc[t] = "custom" /\ pc'[t] \in {"custom", "reply"}
      /\ screen' = [screen EXCEPT ![row[t]] = Custom]
      /\ UNCHANGED <<process, messages, currentMessage, cmd>>
  BY Types DEF WriteCustom, SetLine, At, Goto, board
<1>2. cmd[t] \notin MessageCommands
  BY <1>1 DEF OneInv, Knows
<1>3. Shown'
  <2>1. Shown
    BY <1>1 DEF OneInv, Displayed, Alone
  <2>2. \A i \in 1..Height : screen'[i] \in {screen[i], Custom}
    BY <1>1, Types
  <2> QED
    BY <1>1, <2>1, <2>2 DEF Shown, ShownOn, Rendered
<1>4. Knows(t)' /\ CurrentStored' /\ Displayed'
  BY <1>1, <1>2, <1>3 DEF OneInv, Knows, CurrentStored, Displayed, Alone
<1> QED
  BY <1>1, <1>4, ThreadStep

\* The pointer that was tested is not NULL when it is followed.
LEMMA FollowNullOne ==
  ASSUME OneInv, NEW t \in Clients, FollowNull(t)
  PROVE  FALSE
BY DEF FollowNull, At, OneInv, Knows

LEMMA DieOne ==
  ASSUME Die("stopped")
  PROVE  OneInv'
<1>1. /\ process' = "stopped" /\ currentMessage' = NULL
      /\ pc' = [u \in Clients |-> "idle"]
  BY DEF Die
<1>2. \A u \in Clients : Knows(u)'
  BY <1>1 DEF Knows
<1>3. Stopped' /\ CurrentStored' /\ Displayed' /\ RepliesTruthful'
  BY <1>1 DEF Stopped, CurrentStored, Displayed, Shown, RepliesTruthful, At
<1> QED
  BY <1>1, <1>2, <1>3 DEF OneInv

LEMMA RestartOne ==
  ASSUME OneInv, Restart
  PROVE  OneInv'
<1>1. /\ process # "up" /\ process' = "up" /\ currentMessage' = currentMessage /\ pc' = pc
  BY DEF Restart
<1>2. currentMessage = NULL /\ \A u \in Clients : pc[u] = "idle"
  BY <1>1 DEF OneInv, Stopped
<1>3. \A u \in Clients : Knows(u)'
  BY <1>1, <1>2 DEF Knows
<1>4. Stopped' /\ CurrentStored' /\ Displayed' /\ RepliesTruthful'
  BY <1>1, <1>2 DEF Stopped, CurrentStored, Displayed, Shown, RepliesTruthful, At
<1> QED
  BY <1>1, <1>3, <1>4 DEF OneInv

LEMMA InitOne == Init => OneInv
BY DEF Init, OneInv, Stopped, CurrentStored, Displayed, Shown, RepliesTruthful, Knows, At

LEMMA StutterOne == ASSUME OneInv, UNCHANGED vars PROVE OneInv'
BY DEF vars, board, locals, ghosts, OneInv, Stopped, CurrentStored, Displayed, Shown, ShownOn, OnDisplay,
   RepliesTruthful, NoneThere, Knows, BeforePrint, HoldsCursor, At, WithId, Latest, After, Before, Rendered

LEMMA StepOne == ASSUME IInv, OneInv, Alone, ~DbMayFail, [Next]_vars PROVE OneInv'
BY CreateMessageOne, TakeRowidOne, PrintZeroOne, PublishOne, PrintLineOne, TestCurrentOne,
   ReadCurrentOne, SelectNeighbourOne, SelectLatestOne, DeleteRowOne, ClearCurrentOne,
   FallBackOne, NoMoreMessagesOne, ReplyOne, ReturnOne, CreateUserOne, FollowNullOne, DieOne,
   RestartOne, StutterOne, CustomLineOne, WriteCustomOne
DEF Next, Take, Run, HandleSigs

LEMMA InvarianceOne == ASSUME Alone, ~DbMayFail PROVE Spec => [](IInv /\ OneInv)
BY IInvInit, IInvStep, InitOne, StepOne, PTL DEF Spec

-----------------------------------------------------------------------------
(***************************************************************************)
(* The theorems about states.                                              *)
(***************************************************************************)
\* Whoever is alone deletes, with MSG_DEL, the message that is on display: the
\* current message is the row that has its number.
THEOREM CurrentIsRow == ASSUME Alone, ~DbMayFail PROVE Spec => []CurrentMatchesRow
<1>1. ASSUME IInv, OneInv, currentMessage # NULL, NEW m \in messages, m.id = currentMessage.id
      PROVE  m = currentMessage
  <2>1. CASE currentMessage \in messages
    BY <1>1, <2>1, RowTypes
  <2>2. ASSUME NEW t \in Clients, pc[t] = "clear" PROVE FALSE
    <3>1. HoldsCursor(t) /\ WithId(cursor[t]) = {}
      BY <1>1, <2>2 DEF OneInv, Knows
    <3> QED
      BY <1>1, <3>1 DEF HoldsCursor, WithId
  <2> QED
    BY <1>1, <2>1, <2>2 DEF OneInv, CurrentStored
<1>2. IInv /\ OneInv => CurrentMatchesRow
  BY <1>1 DEF CurrentMatchesRow
<1> QED
  BY <1>2, InvarianceOne, PTL

\* Whoever is alone sees, whenever no command is under way, the current message
\* on every line of the display that no command has written something else on.
THEOREM DisplayIsCurrent == ASSUME Alone, ~DbMayFail PROVE Spec => []ScreenShowsCurrent
<1>1. OneInv => ScreenShowsCurrent
  BY DEF OneInv, Displayed, Shown, ScreenShowsCurrent, Quiet
<1> QED
  BY <1>1, InvarianceOne, PTL

\* Whoever is alone is told the truth by every reply to the message commands,
\* but for the second one to MSG_LATEST on an empty board, and is left without
\* one by MSG_NEXT and MSG_PREV exactly when there is no current message.
THEOREM RepliesAreTrue == ASSUME Alone, ~DbMayFail PROVE Spec => []RepliesTruthful
<1>1. OneInv => RepliesTruthful
  BY DEF OneInv
<1> QED
  BY <1>1, InvarianceOne, PTL

-----------------------------------------------------------------------------
(***************************************************************************)
(* NoSegfault does not need the statements of the database to succeed.     *)
(***************************************************************************)
PointerSafe == process # "segfault" /\ \A t \in Clients : pc[t] = "read" => currentMessage # NULL

LEMMA TestedPointer ==
  ASSUME IInv, Alone, NEW t \in Clients, NEW c \in {"MSG_NEXT", "MSG_PREV", "MSG_DEL"},
         TestCurrent(t, c), PointerSafe
  PROVE  PointerSafe'
<1>1. UNCHANGED <<process, currentMessage>>
  BY DEF TestCurrent
<1>2. currentMessage = NULL => pc'[t] = "done"
  BY Types DEF TestCurrent, Finish, Goto
<1> QED
  BY <1>1, <1>2 DEF PointerSafe, Alone

\* Any other step of the only thread leaves it elsewhere than before the read.
LEMMA OtherPlaces ==
  ASSUME IInv, NEW t \in Clients, process # "segfault",
         \/ \E x \in Texts : CreateMessage(t, x)
         \/ SelectLatest(t) \/ CreateUser(t)
         \/ TakeRowid(t) \/ PrintZero(t) \/ Publish(t) \/ PrintLine(t) \/ ReadCurrent(t)
         \/ SelectNeighbour(t) \/ DeleteRow(t) \/ ClearCurrent(t) \/ FallBack(t)
         \/ NoMoreMessages(t) \/ Reply(t) \/ Return(t) \/ Lines(t)
  PROVE  pc'[t] # "read" /\ process' # "segfault"
<1>1. ASSUME NEW x \in Texts, CreateMessage(t, x) PROVE pc'[t] # "read" /\ process' # "segfault"
  BY <1>1, Types DEF CreateMessage, Goto
<1>2. CASE SelectLatest(t) \/ SelectNeighbour(t) \/ FallBack(t)
  BY <1>2, Types DEF SelectLatest, SelectNeighbour, FallBack, Fetch, Finish, Goto
<1>3. CASE CreateUser(t) \/ Reply(t) \/ Return(t) \/ DeleteRow(t)
  BY <1>3, Types DEF CreateUser, Reply, Return, DeleteRow, Finish, Goto
<1>4. CASE PrintZero(t) \/ Publish(t) \/ PrintLine(t) \/ NoMoreMessages(t)
  BY <1>4, Types DEF PrintZero, Publish, PrintLine, NoMoreMessages, At, Goto
<1>5. CASE TakeRowid(t) \/ ReadCurrent(t) \/ ClearCurrent(t)
  BY <1>5, Types DEF TakeRowid, ReadCurrent, ClearCurrent, Goto
<1>6. CASE Lines(t)
  <2>1. pc[t] \in {"idle", "custom"} /\ process' = process
    BY <1>6, LinesFrame
  <2>2. pc' = pc \/ \E l \in {"custom", "reply", "done"} : pc' = [pc EXCEPT ![t] = l]
    BY <1>6, LinesFrame
  <2> QED
    BY <2>1, <2>2, Types
<1> QED
  BY <1>1, <1>2, <1>3, <1>4, <1>5, <1>6

\* Whoever is alone never makes the program follow a NULL pointer, be it with
\* statements that fail.
THEOREM NeverFollowsNull == ASSUME Alone PROVE Spec => []NoSegfault
<1>1. Init => PointerSafe
  BY DEF Init, PointerSafe
<1>2. ASSUME IInv, PointerSafe, [Next]_vars PROVE PointerSafe'
  <2>1. ASSUME NEW t \in Clients, Take(t) \/ Run(t) PROVE PointerSafe'
    <3>1. CASE \E c \in {"MSG_NEXT", "MSG_PREV", "MSG_DEL"} : TestCurrent(t, c)
      BY <1>2, <3>1, TestedPointer
    <3>2. CASE FollowNull(t)
      BY <1>2, <3>2 DEF FollowNull, At, PointerSafe
    <3>3. CASE ~FollowNull(t) /\ ~\E c \in {"MSG_NEXT", "MSG_PREV", "MSG_DEL"} : TestCurrent(t, c)
      <4>1. pc'[t] # "read" /\ process' # "segfault"
        BY <1>2, <2>1, <3>3, OtherPlaces DEF Take, Run, Lines, PointerSafe
      <4> QED
        BY <4>1 DEF PointerSafe, Alone
    <3> QED
      BY <3>1, <3>2, <3>3
  <2>2. CASE HandleSigs
    BY <2>2 DEF HandleSigs, Die, PointerSafe
  <2>3. CASE Restart
    BY <1>2, <2>3 DEF Restart, PointerSafe
  <2>4. CASE UNCHANGED vars
    BY <1>2, <2>4 DEF vars, PointerSafe
  <2> QED
    BY <1>2, <2>1, <2>2, <2>3, <2>4 DEF Next
<1>3. PointerSafe => NoSegfault
  BY DEF PointerSafe, NoSegfault
<1> QED
  BY <1>1, <1>2, <1>3, IInvInit, IInvStep, PTL DEF Spec

-----------------------------------------------------------------------------
(***************************************************************************)
(* The refinement: every step of the only client is a step of the board,   *)
(* or leaves the board as it is.                                           *)
(***************************************************************************)
LEMMA BoardSeen ==
  ASSUME Alone, NEW t \in Clients
  PROVE  /\ BoardStored = IF Posting(t) THEN {m \in messages : m.id # own[t]} ELSE messages
         /\ BoardIssued = IF Posting(t) THEN sequence - 1 ELSE sequence
         /\ ~Removing(t) => BoardCurrent = currentMessage
         /\ Removing(t) /\ messages = {} => BoardCurrent = NULL
         /\ Removing(t) /\ messages # {} => BoardCurrent = CHOOSE m \in Latest : TRUE
<1>1. (\E u \in Clients : Posting(u)) <=> Posting(t)
  BY DEF Alone
<1>2. (\E u \in Clients : Removing(u)) <=> Removing(t)
  BY DEF Alone
<1>3. \A m : (\E u \in Clients : Posting(u) /\ m.id = own[u]) <=> Posting(t) /\ m.id = own[t]
  BY DEF Alone
<1> QED
  BY <1>1, <1>2, <1>3 DEF BoardStored, BoardIssued, BoardCurrent

LEMMA BoardSeenNext ==
  ASSUME Alone, NEW t \in Clients
  PROVE  /\ BoardStored' = IF Posting(t)' THEN {m \in messages' : m.id # own'[t]} ELSE messages'
         /\ BoardIssued' = IF Posting(t)' THEN sequence' - 1 ELSE sequence'
         /\ ~Removing(t)' => BoardCurrent' = currentMessage'
         /\ Removing(t)' /\ messages' = {} => BoardCurrent' = NULL
         /\ Removing(t)' /\ messages' # {} => BoardCurrent' = CHOOSE m \in Latest' : TRUE
<1>1. (\E u \in Clients : Posting(u)') <=> Posting(t)'
  BY DEF Alone
<1>2. (\E u \in Clients : Removing(u)') <=> Removing(t)'
  BY DEF Alone
<1>3. \A m : (\E u \in Clients : Posting(u)' /\ m.id = own'[u]) <=> Posting(t)' /\ m.id = own'[t]
  BY DEF Alone
<1> QED
  BY <1>1, <1>2, <1>3 DEF BoardStored, BoardIssued, BoardCurrent

\* Steps that are none of the board's.
LEMMA SameBoard ==
  ASSUME Alone, NEW t \in Clients, UNCHANGED <<messages, sequence, currentMessage>>,
         Posting(t)' <=> Posting(t), Posting(t) => own'[t] = own[t],
         Removing(t)' <=> Removing(t)
  PROVE  UNCHANGED Board!vars
<1>1. Latest' = Latest
  BY DEF Latest
<1>2. BoardStored' = BoardStored
  BY BoardSeen, BoardSeenNext
<1>3. BoardIssued' = BoardIssued
  BY BoardSeen, BoardSeenNext
<1>4. BoardCurrent' = BoardCurrent
  BY <1>1, BoardSeen, BoardSeenNext
<1> QED
  BY <1>2, <1>3, <1>4 DEF Board!vars

\* A row that is being posted is not on the board yet.
LEMMA PostedRow ==
  ASSUME IInv, OneInv, NEW t \in Clients, Posting(t)
  PROVE  \E x \in Texts : /\ [id |-> sequence, text |-> x] \in messages
                          /\ msg[t].text = x /\ own[t] = sequence
                          /\ pc[t] = "print" => msg[t] = [id |-> sequence, text |-> x]
<1>1. CASE pc[t] = "rowid"
  BY <1>1, RowTypes DEF OneInv, Knows
<1>2. CASE pc[t] = "print"
  <2>1. msg[t] \in messages /\ msg[t].id = sequence /\ own[t] = sequence
    BY <1>2 DEF OneInv, Knows, BeforePrint, Posting
  <2>2. msg[t] \in Message
    BY <2>1, RowTypes
  <2>3. msg[t] = [id |-> sequence, text |-> msg[t].text] /\ msg[t].text \in Texts
    BY <2>1, <2>2 DEF Message
  <2> QED
    BY <2>1, <2>3
<1> QED
  BY <1>1, <1>2 DEF Posting

\* To add it is to make the board's messages those of the table.
LEMMA PostedBoard ==
  ASSUME IInv, NEW x \in Texts, [id |-> sequence, text |-> x] \in messages
  PROVE  /\ messages = {m \in messages : m.id # sequence} \cup {[id |-> (sequence - 1) + 1, text |-> x]}
         /\ sequence = (sequence - 1) + 1
<1>1. sequence \in Nat /\ (sequence - 1) + 1 = sequence
  BY RowTypes
<1>2. \A m \in messages : m.id = sequence => m = [id |-> sequence, text |-> x]
  BY RowTypes
<1> QED
  BY <1>1, <1>2

LEMMA CreateMessageBoard ==
  ASSUME IInv, OneInv, Alone, ~DbMayFail, NEW t \in Clients, NEW x \in Texts, CreateMessage(t, x)
  PROVE  UNCHANGED Board!vars
<1>1. /\ pc[t] = "idle" /\ pc'[t] = "rowid" /\ cmd'[t] = "MSG_CREATE" /\ own'[t] = sequence + 1
      /\ currentMessage' = currentMessage /\ sequence' = sequence + 1
      /\ messages' = messages \cup {[id |-> sequence + 1, text |-> x]}
  BY Types DEF CreateMessage, Begin, At, Goto
<1>2. ~Posting(t) /\ Posting(t)' /\ ~Removing(t) /\ ~Removing(t)'
  BY <1>1 DEF Posting, Removing
<1>3. \A m \in messages : m.id # sequence + 1
  BY RowTypes
<1>4. BoardStored' = BoardStored
  <2>1. BoardStored = messages /\ BoardStored' = {m \in messages' : m.id # sequence + 1}
    BY <1>1, <1>2, BoardSeen, BoardSeenNext
  <2> QED
    BY <1>1, <1>3, <2>1
<1>5. BoardIssued' = BoardIssued /\ BoardCurrent' = BoardCurrent
  BY <1>1, <1>2, RowTypes, BoardSeen, BoardSeenNext
<1> QED
  BY <1>4, <1>5 DEF Board!vars

\* The object becomes current: the commands that display a message take effect,
\* MSG_DEL, which had its effect when the row went, excepted.
LEMMA PublishBoard ==
  ASSUME IInv, OneInv, Alone, NEW t \in Clients, Publish(t)
  PROVE  [Board!Next]_Board!vars
<1>1. /\ pc[t] = "print" /\ pc'[t] = "line" /\ currentMessage' = msg[t]
      /\ UNCHANGED <<messages, sequence, cmd>>
  BY Types DEF Publish, At, Goto, board
<1>2. BeforePrint(t)
  BY <1>1 DEF OneInv, Knows
<1>3. ~Posting(t)' /\ ~Removing(t)'
  BY <1>1 DEF Posting, Removing
<1>4. BoardStored' = messages /\ BoardIssued' = sequence /\ BoardCurrent' = msg[t]
  BY <1>1, <1>3, BoardSeenNext
<1>5. CASE cmd[t] = "MSG_CREATE"
  <2>1. Posting(t)
    BY <1>1, <1>5 DEF Posting
  <2>2. PICK x \in Texts : /\ [id |-> sequence, text |-> x] \in messages
                          /\ own[t] = sequence /\ msg[t] = [id |-> sequence, text |-> x]
    BY <1>1, <2>1, PostedRow
  <2>3. BoardStored = {m \in messages : m.id # sequence} /\ BoardIssued = sequence - 1
    BY <2>1, <2>2, BoardSeen
  <2>4. Board!Post(x)
    BY <1>4, <2>2, <2>3, PostedBoard DEF Board!Post, Board!New
  <2> QED
    BY <2>4 DEF Board!Next
<1>6. CASE cmd[t] # "MSG_CREATE"
  <2>1. BoardStored = messages /\ BoardIssued = sequence
    BY <1>6, BoardSeen DEF Posting
  <2>2. CASE cmd[t] \in {"MSG_NEXT", "MSG_PREV"}
    <3>1. BoardCurrent = currentMessage /\ HoldsCursor(t)
      BY <1>2, <2>2, BoardSeen DEF Removing, BeforePrint
    <3>2. msg[t] \in Board!Next1(BoardCurrent) \cup Board!Prev1(BoardCurrent)
      BY <1>2, <2>1, <2>2, <3>1 DEF BeforePrint, HoldsCursor, After, Before, Board!Next1, Board!Prev1
    <3>3. Board!Move
      BY <1>4, <2>1, <3>1, <3>2 DEF HoldsCursor, Board!Move
    <3> QED
      BY <3>3 DEF Board!Next
  <2>3. CASE cmd[t] = "MSG_LATEST"
    <3>1. msg[t] \in Board!Newest(BoardStored)
      BY <1>2, <2>1, <2>3 DEF BeforePrint, Latest, Board!Newest
    <3>2. Board!ShowNewest
      BY <1>4, <2>1, <3>1 DEF Board!ShowNewest
    <3> QED
      BY <3>2 DEF Board!Next
  <2>4. CASE cmd[t] = "MSG_DEL"
    <3>1. Removing(t) /\ msg[t] \in Latest /\ messages # {}
      BY <1>1, <1>2, <2>4 DEF Removing, BeforePrint
    <3>2. BoardCurrent = msg[t]
      BY <3>1, BoardSeen, LatestRow
    <3> QED
      BY <1>4, <2>1, <3>2 DEF Board!vars
  <2> QED
    BY <1>2, <1>6, <2>2, <2>3, <2>4 DEF BeforePrint, MessageCommands
<1> QED
  BY <1>5, <1>6

\* The row that goes is the message on display, and the newest of the others
\* is the one that FallBack will find.
LEMMA DeleteRowBoard ==
  ASSUME IInv, OneInv, Alone, ~DbMayFail, NEW t \in Clients, DeleteRow(t)
  PROVE  Board!Remove
<1>1. /\ pc[t] = "delete" /\ pc'[t] = "clear" /\ UNCHANGED <<sequence, currentMessage, cmd>>
      /\ messages' = messages \ WithId(cursor[t])
  BY Types DEF DeleteRow, At, Goto, locals
<1>2. cmd[t] = "MSG_DEL" /\ HoldsCursor(t)
  BY <1>1 DEF OneInv, Knows
<1>3. currentMessage \in messages
  BY <1>1, <1>2 DEF OneInv, CurrentStored, HoldsCursor, Alone
<1>4. messages' = messages \ {currentMessage}
  BY <1>1, <1>2, <1>3, OneRow DEF HoldsCursor
<1>5. ~Posting(t) /\ ~Posting(t)' /\ ~Removing(t) /\ Removing(t)'
  BY <1>1, <1>2 DEF Posting, Removing
<1>6. /\ BoardStored = messages /\ BoardCurrent = currentMessage /\ BoardIssued = sequence
      /\ BoardStored' = messages' /\ BoardIssued' = sequence
  BY <1>1, <1>5, BoardSeen, BoardSeenNext
<1>7. CASE messages' = {}
  BY <1>3, <1>4, <1>5, <1>6, <1>7, BoardSeenNext DEF Board!Remove
<1>8. CASE messages' # {}
  <2>1. BoardCurrent' = CHOOSE m \in Latest' : TRUE
    BY <1>5, <1>8, BoardSeenNext
  <2>2. Latest' # {}
    <3>1. messages' \subseteq messages
      BY <1>4
    <3>2. PICK m \in messages' : \A o \in messages' : o.id <= m.id
      BY <1>8, <3>1, RowExtremes
    <3> QED
      BY <3>2 DEF Latest
  <2>3. BoardCurrent' \in Latest'
    BY <2>1, <2>2
  <2>4. Latest' = Board!Newest(BoardStored')
    BY <1>6 DEF Latest, Board!Newest
  <2> QED
    BY <1>3, <1>4, <1>6, <2>3, <2>4 DEF Board!Remove
<1> QED
  BY <1>7, <1>8

\* The message that replaced the deleted one stays the current one of the board
\* while the pointer is cleared and the newest row fetched.
LEMMA FallBackBoard ==
  ASSUME IInv, OneInv, Alone, ~DbMayFail, NEW t \in Clients,
         ClearCurrent(t) \/ FallBack(t) \/ NoMoreMessages(t)
  PROVE  UNCHANGED Board!vars
<1>1. UNCHANGED <<messages, sequence, cmd>>
  BY DEF ClearCurrent, FallBack, NoMoreMessages, board, locals
<1>2. pc[t] \in {"clear", "latest", "nomore"} /\ cmd[t] = "MSG_DEL"
  BY DEF ClearCurrent, FallBack, NoMoreMessages, At, OneInv, Knows
<1>3. Removing(t) /\ ~Posting(t) /\ ~Posting(t)'
  BY <1>1, <1>2 DEF Posting, Removing
<1>4. BoardStored' = BoardStored /\ BoardIssued' = BoardIssued
  BY <1>1, <1>3, BoardSeen, BoardSeenNext
<1>5. BoardCurrent' = BoardCurrent
  <2>1. CASE ClearCurrent(t) \/ FallBack(t)
    <3>1. pc'[t] \in {"latest", "print", "nomore"}
      BY <2>1, Types DEF ClearCurrent, FallBack, Fetch, Goto
    <3>2. Removing(t)' /\ Latest' = Latest
      BY <1>1, <1>2, <3>1 DEF Removing, Latest
    <3> QED
      BY <1>1, <1>3, <3>2, BoardSeen, BoardSeenNext
  <2>2. CASE NoMoreMessages(t)
    <3>1. pc[t] = "nomore" /\ pc'[t] = "reply" /\ currentMessage' = currentMessage
      BY <2>2, Types DEF NoMoreMessages, At, Goto
    <3>2. currentMessage = NULL /\ messages = {}
      BY <3>1 DEF OneInv, Knows
    <3>3. ~Removing(t)'
      BY <3>1 DEF Removing
    <3> QED
      BY <1>3, <3>1, <3>2, <3>3, BoardSeen, BoardSeenNext
  <2> QED
    BY <2>1, <2>2
<1> QED
  BY <1>4, <1>5 DEF Board!vars

\* The other steps of a thread.
LEMMA QuietBoard ==
  ASSUME IInv, OneInv, Alone, ~DbMayFail, NEW t \in Clients,
         \/ \E c \in {"MSG_NEXT", "MSG_PREV", "MSG_DEL"} : TestCurrent(t, c)
         \/ SelectLatest(t) \/ CreateUser(t) \/ TakeRowid(t) \/ PrintLine(t) \/ ReadCurrent(t)
         \/ SelectNeighbour(t) \/ Reply(t) \/ Return(t) \/ Lines(t)
  PROVE  UNCHANGED Board!vars
<1>1. CASE TakeRowid(t)
  <2>1. /\ pc[t] = "rowid" /\ pc'[t] = "print"
        /\ UNCHANGED <<messages, sequence, currentMessage, cmd, own>>
    BY <1>1, Types DEF TakeRowid, At, Goto, board, ghosts
  <2>2. cmd[t] = "MSG_CREATE"
    BY <2>1 DEF OneInv, Knows
  <2> QED
    BY <2>1, <2>2, SameBoard DEF Posting, Removing
<1>2. CASE SelectNeighbour(t)
  <2>1. /\ pc[t] = "select" /\ pc'[t] \in {"print", "done"}
        /\ UNCHANGED <<messages, sequence, currentMessage, cmd>>
    BY <1>2, Types DEF SelectNeighbour, Fetch, Finish, At, Goto, board
  <2>2. cmd[t] \in {"MSG_NEXT", "MSG_PREV"}
    BY <2>1 DEF OneInv, Knows
  <2> QED
    BY <2>1, <2>2, SameBoard DEF Posting, Removing
<1>3. CASE SelectLatest(t)
  <2>1. /\ pc[t] = "idle" /\ cmd'[t] = "MSG_LATEST"
        /\ UNCHANGED <<messages, sequence, currentMessage>>
    BY <1>3, Types DEF SelectLatest, Begin, At, board
  <2> QED
    BY <2>1, SameBoard DEF Posting, Removing
<1>4. CASE \/ \E c \in {"MSG_NEXT", "MSG_PREV", "MSG_DEL"} : TestCurrent(t, c)
           \/ CreateUser(t) \/ PrintLine(t) \/ ReadCurrent(t) \/ Reply(t) \/ Return(t)
  <2>1. UNCHANGED <<messages, sequence, currentMessage>>
    BY <1>4 DEF TestCurrent, CreateUser, PrintLine, ReadCurrent, Reply, Return, board
  <2>2. /\ pc[t] \in {"idle", "line", "read", "reply", "done"}
        /\ pc'[t] \in {"idle", "line", "read", "select", "delete", "reply", "done"}
    BY <1>4, Types DEF TestCurrent, CreateUser, PrintLine, ReadCurrent, Reply, Return, Begin,
       Finish, At, Goto
  <2> QED
    BY <2>1, <2>2, SameBoard DEF Posting, Removing
<1>5. CASE Lines(t)
  <2>1. /\ UNCHANGED <<messages, sequence, currentMessage>>
        /\ pc[t] \in {"idle", "custom"}
    BY <1>5, LinesFrame DEF board
  <2>2. pc' = pc \/ \E l \in {"custom", "reply", "done"} : pc' = [pc EXCEPT ![t] = l]
    BY <1>5, LinesFrame
  <2>3. pc'[t] \in {"idle", "custom", "reply", "done"}
    BY <2>1, <2>2, Types
  <2> QED
    BY <2>1, <2>3, SameBoard DEF Posting, Removing
<1> QED
  BY <1>1, <1>2, <1>3, <1>4, <1>5

\* The end of the process: a row inserted and not yet current is on the board
\* from then on, and nothing is current.
LEMMA SignalBoard ==
  ASSUME IInv, OneInv, Alone, HandleSigs
  PROVE  Board!Next
<1>1. /\ currentMessage' = NULL /\ UNCHANGED <<messages, sequence>>
      /\ \A t \in Clients : pc'[t] = "idle"
  BY DEF HandleSigs, Die
<1>2. \A t \in Clients : ~Posting(t)' /\ ~Removing(t)'
  BY <1>1 DEF Posting, Removing
<1>3. BoardStored' = messages /\ BoardIssued' = sequence /\ BoardCurrent' = NULL
  BY <1>1, <1>2 DEF BoardStored, BoardIssued, BoardCurrent
<1>4. ASSUME NEW t \in Clients, Posting(t) PROVE Board!Next
  <2>1. PICK x \in Texts : [id |-> sequence, text |-> x] \in messages /\ own[t] = sequence
    BY <1>4, PostedRow
  <2>2. BoardStored = {m \in messages : m.id # sequence} /\ BoardIssued = sequence - 1
    BY <1>4, <2>1, BoardSeen
  <2>3. Board!PostUnseen(x)
    BY <1>3, <2>1, <2>2, PostedBoard DEF Board!PostUnseen, Board!New
  <2> QED
    BY <2>3 DEF Board!Next
<1>5. CASE \A t \in Clients : ~Posting(t)
  <2>1. BoardStored = messages /\ BoardIssued = sequence
    BY <1>5 DEF BoardStored, BoardIssued
  <2>2. Board!Forget
    BY <1>3, <2>1 DEF Board!Forget
  <2> QED
    BY <2>2 DEF Board!Next
<1> QED
  BY <1>4, <1>5

LEMMA UnchangedBoard ==
  ASSUME Restart \/ UNCHANGED vars
  PROVE  UNCHANGED Board!vars
<1>1. UNCHANGED <<messages, sequence, currentMessage, pc, cmd, own>>
  BY DEF Restart, vars, board, locals, ghosts
<1>2. /\ \A t : (Posting(t)' <=> Posting(t)) /\ (Removing(t)' <=> Removing(t))
      /\ Latest' = Latest
  BY <1>1 DEF Posting, Removing, Latest
<1>3. BoardStored' = BoardStored
  BY <1>1, <1>2 DEF BoardStored
<1>4. BoardIssued' = BoardIssued /\ BoardCurrent' = BoardCurrent
  BY <1>1, <1>2 DEF BoardIssued, BoardCurrent
<1> QED
  BY <1>3, <1>4 DEF Board!vars

\* The commands of whoever is alone are those of MessageBoard, each taking
\* effect at once: ids in order, MSG_NEXT and MSG_PREV to a neighbour, MSG_DEL
\* to the newest message left, and no more forgotten by a restart than which
\* message was current.
THEOREM OneClientRefinement == ASSUME Alone, ~DbMayFail PROVE Spec => ImplementsBoard
<1>1. Init => Board!Init
  <2>1. ASSUME Init PROVE \A t \in Clients : ~Posting(t) /\ ~Removing(t)
    BY <2>1 DEF Init, Posting, Removing
  <2> QED
    BY <2>1 DEF Init, BoardStored, BoardIssued, BoardCurrent, Board!Init
<1>2. ASSUME IInv, OneInv, [Next]_vars PROVE [Board!Next]_Board!vars
  <2>1. ASSUME NEW t \in Clients, Take(t) \/ Run(t) PROVE [Board!Next]_Board!vars
    <3>1. CASE \E x \in Texts : CreateMessage(t, x)
      BY <1>2, <3>1, CreateMessageBoard
    <3>2. CASE Publish(t)
      BY <1>2, <3>2, PublishBoard
    <3>3. CASE DeleteRow(t)
      BY <1>2, <3>3, DeleteRowBoard DEF Board!Next
    <3>4. CASE ClearCurrent(t) \/ FallBack(t) \/ NoMoreMessages(t)
      BY <1>2, <3>4, FallBackBoard
    <3>5. CASE PrintZero(t) \/ FollowNull(t)
      BY <1>2, <3>5, PrintZeroOne, FollowNullOne
    <3>6. CASE \/ \E c \in {"MSG_NEXT", "MSG_PREV", "MSG_DEL"} : TestCurrent(t, c)
               \/ SelectLatest(t) \/ CreateUser(t) \/ TakeRowid(t) \/ PrintLine(t) \/ ReadCurrent(t)
               \/ SelectNeighbour(t) \/ Reply(t) \/ Return(t) \/ Lines(t)
      BY <1>2, <3>6, QuietBoard
    <3> QED
      BY <2>1, <3>1, <3>2, <3>3, <3>4, <3>5, <3>6 DEF Take, Run, Lines
  <2>2. CASE HandleSigs
    BY <1>2, <2>2, SignalBoard
  <2>3. CASE Restart \/ UNCHANGED vars
    BY <2>3, UnchangedBoard
  <2> QED
    BY <1>2, <2>1, <2>2, <2>3 DEF Next
<1> QED
  BY <1>1, <1>2, InvarianceOne, PTL DEF Spec, ImplementsBoard, Board!Spec

=============================================================================

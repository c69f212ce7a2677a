------------------------------ MODULE LcdPanel ------------------------------
(***************************************************************************)
(* The display: set_lcd_line_text and scrolling (src/src/lcd/lcd_txt.c),   *)
(* lcd_text and lcd_scroll on the bus (src/src/lcd/lcd_disp.c), and who    *)
(* calls them: the commands of src/src/server/handle_lcdtxt.c, main at     *)
(* start-up, and the signal handler.  (The MSG_ commands call              *)
(* set_lcd_line_text line by line as CLEAR_DISPLAY does; see Messages.)    *)
(*                                                                         *)
(* A line is drawn by one lcd_write that places the panel's cursor and one *)
(* per character; the cursor moves on by itself.  No lock is held, so the  *)
(* threads' writes interleave, and the cursor is whoever's came last.      *)
(*                                                                         *)
(* Abstractions: a text is a value with a length, a character the place of *)
(* one in a text; lcd_write is one step, but while two threads are writing *)
(* its two nibbles may mix with the other's, after which the panel may     *)
(* show anything (lost); the copy of a text into a line's buffer is one    *)
(* step, and texts are shorter than that buffer; the address of each row   *)
(* is the panel's (setuplcd takes it from the configuration, and 0 where   *)
(* that says nothing); a second signal while the handler runs, and the     *)
(* access checks (in Sessions), are left out.                              *)
(***************************************************************************)
EXTENDS Integers, Sequences

CONSTANTS
  Clients,        \* the connected clients: one handler thread each
  Main, Handler,  \* main, and the signal handler on whatever thread it runs
  Texts,          \* texts clients send
  Garbage,        \* what malloc may leave in a line's buffer
  Space,          \* the text " "
  Welcome,        \* the two lines of the welcome
  Notices,        \* the two lines written on a signal
  LengthOf,       \* strlen of each text
  Height, Width,  \* lcd_height, lcd_width
  MaxLen,         \* lcd_msg_maxlen
  Settings,       \* what the configuration may say of scrolling at a start
  Follows,        \* the row the cursor goes to from the end of each, 0 if none
  Lines,          \* line numbers clients send, NULL for what is no number
  AskedAligns,    \* alignments clients send
  LineSpan,       \* 2^32: how many values an unsigned int has
  NULL,
  MaxEvents       \* bound: commands, signals and failing writes on the bus, together

Known   == Texts \cup {Space, Welcome[1], Welcome[2], Notices[1], Notices[2]}
Strings == Known \cup Garbage

ASSUME ConstantsOK ==
  /\ Height \in 1..4 /\ Width \in Nat \ {0} /\ MaxLen \in Nat
  /\ LengthOf \in [Strings -> Nat] /\ LengthOf[Space] = 1
  /\ Garbage # {} /\ Garbage \cap Known = {}
  /\ Settings # {} /\ Settings \subseteq [enabled : BOOLEAN, speedIs1 : BOOLEAN]
  /\ Follows \in [1..Height -> 0..Height]
  /\ Lines \subseteq Int \cup {NULL}
  /\ LineSpan \in Nat /\ LineSpan > Height
  /\ MaxEvents \in Nat

Threads == Clients \cup {Main, Handler}

ASSUME ThreadsDiffer == Main \notin Clients /\ Handler \notin Clients \cup {Main} /\ NULL \notin Threads

(***************************************************************************)
(* Texts and rows                                                          *)
(***************************************************************************)
Blank      == <<Space, 1>>
Char(x, k) == IF x = Space THEN Blank ELSE <<x, k>>
Row        == [1..Width -> {Blank} \cup (Strings \X Nat)]

\* What is kept of the panel when nothing is known of what it shows.
Off        == [r \in 1..Height |-> [k \in 1..Width |-> Blank]]

Least(a, b) == IF a <= b THEN a ELSE b

\* A string of C: what is left of the text x from its character i on.
From(x, i) == [text |-> x, skip |-> i, len |-> IF i <= LengthOf[x] THEN LengthOf[x] - i ELSE 0]
Whole(x)   == From(x, 0)

\* The row with s after a margin, cut at the width and filled with blanks.
Placed(s, margin) ==
  [k \in 1..Width |-> IF k - margin \in 1..s.len THEN Char(s.text, s.skip + k - margin) ELSE Blank]

BugFormatted(s, align) ==   \* mutant: RIGHT without the precision, the margin below zero
  LET m == Least(s.len, MaxLen)
      t == [s EXCEPT !.len = m]
  IN  CASE align = "LEFT"   -> {Placed(t, 0)}
        [] align = "RIGHT"  -> {Placed(t, Width - m)}
        [] align = "CENTER" -> {Placed(t, (Width - m) \div 2)}

\* formatted_text of lcd_text.  With CENTER and a text wider than the display
\* the unsigned subtraction wraps: the padding is a negative width (margin
\* and text change places) where size_t has 64 bits, all blanks where it has 32.
Formatted(s, align) ==
  LET n == Least(s.len, MaxLen)
      t == [s EXCEPT !.len = n]
  IN  CASE align = "LEFT"  -> {Placed(t, 0)}
        [] align = "RIGHT" -> {Placed(t, Width - Least(n, Width))}
        [] align = "CENTER" /\ n <= Width -> {Placed(t, (Width - n) \div 2)}
        [] align = "CENTER" /\ n > Width  ->
             {Placed(t, (n - Width + 1) \div 2), [k \in 1..Width |-> Blank]}

BugRowOf(line) == line   \* mutant: no default

\* The switch of lcd_text: any other line goes to row 1.
RowOf(line) == IF line \in 1..Least(4, Height) THEN line ELSE 1

AsUnsigned(n) == n % LineSpan

\* One call of set_lcd_line_text.
Item(x, line, align) == [text |-> x, line |-> line, align |-> align]
Aligns == {"LEFT", "RIGHT", "CENTER"}

\* A line as lcdLines keeps it: NULL is what malloc leaves for an alignment.
Line == [text : Strings, align : Aligns \cup {NULL}]

ASSUME NullOK == NULL \notin Line /\ NULL \notin [1..Height -> Row]

ClearLine(line) == Item(Space, line, "LEFT")
ClearLines      == [i \in 1..Height |-> ClearLine(i)]
Greeting        == <<Item(Welcome[1], 1, "CENTER"), Item(Welcome[2], 2, "CENTER")>>
Farewell        == <<Item(Notices[1], 1, "CENTER"), Item(Notices[2], 2, "CENTER")>>

VARIABLES
  panel,     \* what the display shows, row by row
  cursor,    \* where the panel puts the next character: row 0 is off screen
  lost,      \* have nibbles of two threads mixed?
  lcdLines,  \* NULL, or the line as set: its text and alignment
  config,    \* lcd_scroll_enabled == 1 and lcd_scroll_speed == 1
  process,   \* "starting", "up" or "down"
  host,      \* the thread the signal handler runs on, or NULL
  pc,        \* where each thread is
  todo,      \* the calls of set_lcd_line_text it has still to make
  call,      \* its call of lcd_text: the row, its characters, where it returns
  sent,      \* lcd_writes made by that call
  scroll,    \* its call of lcd_scroll: the line, the length found, the next frame
  status,    \* what its last set_lcd_line_text returned
  answer,    \* history: the reply its handler gives whatever that was, or "none"
  asked,     \* history: all the lines its command asks for, as it understood them
  before,    \* history: the panel when its command began, NULL once others write
  overlap,   \* history: have two commands overlapped since the start?
  events     \* commands, signals and failing writes so far

env     == <<config, process, host>>
glass   == <<panel, cursor, lost>>
locals  == <<todo, call, sent, scroll, status>>
history == <<answer, asked, before, overlap>>
vars    == <<glass, lcdLines, env, pc, locals, history, events>>

NoCall   == [row |-> 1, chars |-> [k \in 1..Width |-> Blank], back |-> "idle"]
NoScroll == [line |-> 1, len |-> 0, next |-> 0]

ForAll(v) == [t \in Threads |-> v]

Init ==
  /\ panel = Off
  /\ cursor = <<1, 1>> /\ lost = FALSE
  /\ lcdLines = [i \in 0..Height |-> NULL]
  /\ process = "down" /\ host = NULL /\ config \in Settings
  /\ pc = ForAll("idle") /\ todo = ForAll(<<>>)
  /\ call = ForAll(NoCall) /\ sent = ForAll(0)
  /\ scroll = ForAll(NoScroll) /\ status = ForAll("none")
  /\ answer = ForAll("none") /\ asked = ForAll(<<>>) /\ before = ForAll(NULL)
  /\ overlap = FALSE
  /\ events = 0

Running(t) == process # "down" /\ t # host
At(t, l)   == Running(t) /\ pc[t] = l
Goto(t, l) == pc' = [pc EXCEPT ![t] = l]
Ended(t)   == At(t, "next") /\ todo[t] = <<>>
Busy       == {t \in Threads : pc[t] # "idle"}

\* Thread t begins to work on the lines ls, alone or not.
Overlapping(t, ls) ==
  /\ asked'   = [asked EXCEPT ![t] = ls]
  /\ before'  = IF Busy = {} THEN [before EXCEPT ![t] = panel] ELSE ForAll(NULL)
  /\ overlap' = (overlap \/ Busy # {})

(***************************************************************************)
(* The commands of handle_lcdtxt.c                                         *)
(***************************************************************************)
Command(t) ==
  /\ process = "up" /\ At(t, "idle") /\ events < MaxEvents
  /\ events' = events + 1
  /\ UNCHANGED <<glass, lcdLines, env, call, sent>>

\* The lines ls are to be set, and a is answered ("none": the status of the last).
SetLines(t, ls, a) ==
  /\ Command(t)
  /\ answer' = [answer EXCEPT ![t] = a]
  /\ todo' = [todo EXCEPT ![t] = ls]
  /\ Goto(t, "next")
  /\ Overlapping(t, ls)
  /\ UNCHANGED <<scroll, status>>

\* is_numerical_cpy takes a long and keeps an int.  CLEAR_LINE and CLEAR_DISPLAY
\* do not look at what set_lcd_line_text returned.
SetText(t, x, n, align) == SetLines(t, <<Item(x, AsUnsigned(n), align)>>, "none")
ClearLcdLine(t, n)      == SetLines(t, <<ClearLine(AsUnsigned(n))>>, "LINE_CLEARED")
ClearLcdDisplay(t)      == SetLines(t, ClearLines, "CLEAR_DISPLAY")

\* INVALID_LINE, and nothing is done.
Refuse(t) ==
  /\ Command(t)
  /\ status' = [status EXCEPT ![t] = "INVALID_LINE"]
  /\ Goto(t, "next")
  /\ Overlapping(t, <<>>)
  /\ UNCHANGED <<todo, scroll, answer>>

\* MSG_SCROLL of the line i, answered MESSAGE_SET whatever scroll_lcd_line does
\* with it, or its refusal; the others refuse what is no number.
ScrollLine(t, n) ==
  LET i == AsUnsigned(n) IN
  \/ i \notin 1..Height /\ Refuse(t)
  \/ /\ i \in 1..Height
     /\ Command(t)
     /\ scroll' = [scroll EXCEPT ![t] = [NoScroll EXCEPT !.line = i]]
     /\ Overlapping(t, IF config.enabled /\ lcdLines[i] # NULL
                       THEN <<Item(lcdLines[i].text, i, "LEFT")>> ELSE <<>>)
     /\ Goto(t, "scroll")
     /\ answer' = [answer EXCEPT ![t] = "MESSAGE_SET"]
     /\ UNCHANGED <<todo, status>>

(***************************************************************************)
(* set_lcd_line_text                                                       *)
(***************************************************************************)
\* lcd_text(s, line, align), after which t goes on at back.
Draw(t, s, line, align, back) ==
  /\ \E chars \in Formatted(s, align) :
       call' = [call EXCEPT ![t] = [row |-> RowOf(line), chars |-> chars, back |-> back]]
  /\ sent' = [sent EXCEPT ![t] = 0]
  /\ Goto(t, "draw")

\* The tests of the line number, and of the pointer in lcdLines.
TakeLine(t) ==
  /\ At(t, "next") /\ todo[t] # <<>>
  /\ LET i == Head(todo[t]) IN
     \/ /\ i.line > Height
        /\ status' = [status EXCEPT ![t] = "INVALID_LINE"]
        /\ todo' = [todo EXCEPT ![t] = Tail(@)]
        /\ UNCHANGED pc
     \/ /\ i.line <= Height
        /\ Goto(t, IF lcdLines[i.line] = NULL THEN "malloc" ELSE "store")
        /\ UNCHANGED <<status, todo>>
  /\ UNCHANGED <<glass, lcdLines, env, call, sent, scroll, history, events>>

\* malloc: the buffer holds whatever was there.
Allocate(t) ==
  /\ At(t, "malloc")
  /\ \E x \in Garbage :
       lcdLines' = [lcdLines EXCEPT ![Head(todo[t]).line] = [text |-> x, align |-> NULL]]
  /\ Goto(t, "store")
  /\ UNCHANGED <<glass, env, locals, history, events>>

RefuseAlign(t) ==
  /\ At(t, "store") /\ Head(todo[t]).align \notin Aligns
  /\ status' = [status EXCEPT ![t] = "INVALID_ALIGN"]
  /\ todo' = [todo EXCEPT ![t] = Tail(@)]
  /\ Goto(t, "next")
  /\ UNCHANGED <<glass, lcdLines, env, call, sent, scroll, history, events>>

\* Is the text scrolled as soon as it is set?
Rolls(x) == LengthOf[x] > Width /\ config.speedIs1

BugStoreLine(t) ==   \* mutant: the alignment is kept for a text that is scrolled
  /\ At(t, "store") /\ Head(todo[t]).align \in Aligns
  /\ LET i == Head(todo[t]) IN
     /\ Draw(t, Whole(i.text), i.line, i.align, "next")
     /\ scroll' = [scroll EXCEPT ![t] = [NoScroll EXCEPT !.line = RowOf(i.line)]]
  /\ todo' = [todo EXCEPT ![t] = Tail(@)]
  /\ status' = [status EXCEPT ![t] = "MESSAGE_SET"]
  /\ UNCHANGED <<glass, lcdLines, env, history, events>>

\* Text and alignment are stored; a long text is drawn from the left, then
\* scrolled, if lcd_scroll_speed is 1, and any other is drawn as asked.
StoreLine(t) ==
  /\ At(t, "store") /\ Head(todo[t]).align \in Aligns
  /\ LET i == Head(todo[t]) IN
     /\ lcdLines' = [lcdLines EXCEPT ![i.line] = [text |-> i.text, align |-> i.align]]
     /\ IF Rolls(i.text)
        THEN Draw(t, Whole(i.text), i.line, "LEFT", "scroll")
        ELSE Draw(t, Whole(i.text), i.line, i.align, "next")
     /\ scroll' = [scroll EXCEPT ![t] = [NoScroll EXCEPT !.line = i.line]]
  /\ todo' = [todo EXCEPT ![t] = Tail(@)]
  /\ status' = [status EXCEPT ![t] = "MESSAGE_SET"]
  /\ UNCHANGED <<glass, env, history, events>>

(***************************************************************************)
(* scroll_lcd_line and lcd_scroll                                          *)
(***************************************************************************)
NoScrolling(t) ==
  /\ At(t, "scroll")
  /\ lcdLines[scroll[t].line] = NULL \/ ~config.enabled
  /\ Goto(t, "next")
  /\ UNCHANGED <<glass, lcdLines, env, locals, history, events>>

\* The length is taken once; the buffer is read again for every frame.
BeginScroll(t) ==
  /\ At(t, "scroll") /\ config.enabled
  /\ LET i == scroll[t].line IN
     /\ lcdLines[i] # NULL
     /\ LET x == lcdLines[i].text IN
        IF LengthOf[x] <= Width
        THEN Draw(t, Whole(x), i, "LEFT", "next") /\ UNCHANGED scroll
        ELSE /\ Draw(t, Whole(x), i, "LEFT", "frame")
             /\ scroll' = [scroll EXCEPT ![t] = [line |-> i, len |-> LengthOf[x], next |-> 1]]
  /\ UNCHANGED <<glass, lcdLines, env, todo, status, history, events>>

\* One character further, and at the end the text from its beginning.
NextFrame(t) ==
  /\ At(t, "frame")
  /\ LET s == scroll[t]
         x == lcdLines[s.line].text
     IN  IF s.next <= s.len - Width
         THEN /\ Draw(t, From(x, s.next), s.line, "LEFT", "frame")
              /\ scroll' = [scroll EXCEPT ![t].next = @ + 1]
         ELSE Draw(t, Whole(x), s.line, "LEFT", "next") /\ UNCHANGED scroll
  /\ UNCHANGED <<glass, lcdLines, env, todo, status, history, events>>

(***************************************************************************)
(* The bus and the panel                                                   *)
(***************************************************************************)
\* The panel's own counter: along the row, then on to another.
Advance(c) == IF c[2] < Width THEN <<c[1], c[2] + 1>>
              ELSE <<IF c[1] = 0 THEN 0 ELSE Follows[c[1]], 1>>

\* The n-th lcd_write of the call c: the cursor, then the characters.
TakeByte(c, n) ==
  IF n = 0 THEN cursor' = <<c.row, 1>> /\ UNCHANGED panel
  ELSE /\ panel' = IF cursor[1] = 0 THEN panel ELSE [panel EXCEPT ![cursor[1]][cursor[2]] = c.chars[n]]
       /\ cursor' = Advance(cursor)

Write(t) ==
  /\ At(t, "draw")
  /\ \/ ~lost /\ TakeByte(call[t], sent[t]) /\ UNCHANGED lost
     \/ lost /\ UNCHANGED glass
     \/ /\ ~lost /\ \E u \in Threads \ {t} : pc[u] = "draw"
        /\ lost' = TRUE /\ panel' = Off /\ cursor' = <<0, 1>>
  /\ IF sent[t] < Width
     THEN sent' = [sent EXCEPT ![t] = @ + 1] /\ UNCHANGED <<pc, call>>
     ELSE /\ sent' = [sent EXCEPT ![t] = 0]
          /\ call' = [call EXCEPT ![t] = NoCall]
          /\ Goto(t, call[t].back)
  /\ UNCHANGED <<lcdLines, env, todo, scroll, status, history, events>>

(***************************************************************************)
(* The end of a command, of a start and of the process                     *)
(***************************************************************************)
\* The reply has been sent, or main goes on to start_server.
Return(t) ==
  /\ Ended(t) /\ t # Handler
  /\ Goto(t, "idle")
  /\ scroll' = [scroll EXCEPT ![t] = NoScroll]
  /\ status' = [status EXCEPT ![t] = "none"]
  /\ answer' = [answer EXCEPT ![t] = "none"]
  /\ asked'  = [asked EXCEPT ![t] = <<>>]
  /\ before' = [before EXCEPT ![t] = NULL]
  /\ process' = "up"
  /\ UNCHANGED <<glass, lcdLines, config, host, todo, call, sent, overlap, events>>

\* The panel goes on showing what it did, but no property asks for it before
\* the next start has written every row.
Die ==
  /\ process' = "down" /\ host' = NULL
  /\ pc' = ForAll("idle") /\ todo' = ForAll(<<>>)
  /\ call' = ForAll(NoCall) /\ sent' = ForAll(0)
  /\ scroll' = ForAll(NoScroll) /\ status' = ForAll("none")
  /\ answer' = ForAll("none") /\ asked' = ForAll(<<>>) /\ before' = ForAll(NULL)
  /\ lcdLines' = [i \in 0..Height |-> NULL]
  /\ panel' = Off /\ cursor' = <<0, 1>>
  /\ UNCHANGED <<lost, config, overlap>>

\* SIGTERM, SIGINT or SIGHUP: some thread (main, until the start is over) stops
\* where it is and runs handle_sigs; the others run on.
HandleSigs(h) ==
  /\ process # "down" /\ host = NULL /\ events < MaxEvents
  /\ process = "starting" => h = Main
  /\ events' = events + 1
  /\ host' = h
  /\ todo' = [todo EXCEPT ![Handler] = Farewell]
  /\ Goto(Handler, "next")
  /\ Overlapping(Handler, Farewell)
  /\ UNCHANGED <<glass, lcdLines, config, process, call, sent, scroll, status, answer>>

\* exit(0) of handle_sigs.
ExitHandler == Ended(Handler) /\ Die /\ UNCHANGED events

\* A write on the bus fails: exit(1) of i2c_write_byte.
BusFails(t) ==
  /\ At(t, "draw") /\ events < MaxEvents
  /\ events' = events + 1
  /\ Die

BugRestart ==   \* mutant: clear_lcd_lines left out
  /\ process = "down"
  /\ process' = "starting"
  /\ config' \in Settings /\ lost' = FALSE
  /\ todo' = [todo EXCEPT ![Main] = Greeting]
  /\ Goto(Main, "next")
  /\ asked' = [asked EXCEPT ![Main] = Greeting]
  /\ before' = [before EXCEPT ![Main] = panel]
  /\ overlap' = FALSE
  /\ UNCHANGED <<panel, cursor, lcdLines, host, call, sent, scroll, status, answer, events>>

\* systemd starts the program again: i2c_init brings the panel back in step,
\* whichever nibble it waited for; main sets all lines to blanks, and then the
\* welcome.  (lcd_clear is an empty function.)
Restart ==
  /\ process = "down"
  /\ process' = "starting"
  /\ config' \in Settings /\ lost' = FALSE
  /\ todo' = [todo EXCEPT ![Main] = ClearLines \o Greeting]
  /\ Goto(Main, "next")
  /\ asked' = [asked EXCEPT ![Main] = ClearLines \o Greeting]
  /\ before' = [before EXCEPT ![Main] = panel]
  /\ overlap' = FALSE
  /\ UNCHANGED <<panel, cursor, lcdLines, host, call, sent, scroll, status, answer, events>>

-----------------------------------------------------------------------------
Run(t) ==
  \/ TakeLine(t) \/ Allocate(t) \/ RefuseAlign(t) \/ StoreLine(t)
  \/ NoScrolling(t) \/ BeginScroll(t) \/ NextFrame(t)
  \/ Write(t) \/ Return(t)

Send(t) ==
  \/ \E n \in Lines \ {NULL} :
       \/ \E x \in Texts, a \in AskedAligns : SetText(t, x, n, a)
       \/ ClearLcdLine(t, n)
       \/ ScrollLine(t, n)
  \/ NULL \in Lines /\ Refuse(t)
  \/ ClearLcdDisplay(t)

Next ==
  \/ \E t \in Clients : Send(t)
  \/ \E t \in Threads : Run(t) \/ BusFails(t)
  \/ \E h \in Clients \cup {Main} : HandleSigs(h)
  \/ ExitHandler
  \/ Restart

Spec == Init /\ [][Next]_vars

-----------------------------------------------------------------------------
(***************************************************************************)
(* Properties                                                              *)
(***************************************************************************)
Labels == {"idle", "next", "malloc", "store", "draw", "scroll", "frame"}

\* Types: the cursor stays on the panel or off screen, a thread writes as many
\* characters as the row has, lcdLines is used between line 0 and the height.
TypeOK ==
  /\ panel \in [1..Height -> Row]
  /\ cursor \in (0..Height) \X (1..Width) /\ lost \in BOOLEAN
  /\ lcdLines \in [0..Height -> Line \cup {NULL}]
  /\ process \in {"starting", "up", "down"} /\ host \in Threads \cup {NULL}
  /\ pc \in [Threads -> Labels]
  /\ \A t \in Threads :
       /\ call[t].row \in 1..Height /\ call[t].chars \in Row
       /\ sent[t] \in 0..Width
       /\ scroll[t].line \in 0..Height /\ scroll[t].next \in 0..(scroll[t].len + 1)
       /\ before[t] = NULL \/ before[t] \in [1..Height -> Row]
  /\ overlap \in BOOLEAN

\* The row shows the text x: in full with the margins the alignment asks for
\* (at the centre they differ by one at most), or as much from the left as
\* fits.  CENTER promises nothing for a text wider than the display.
Shows(row, x, align) ==
  LET n == Least(LengthOf[x], MaxLen) IN
  IF n > Width
  THEN align # "CENTER" => \A k \in 1..Width : row[k] = Char(x, k)
  ELSE \E left \in 0..(Width - n) :
         LET right == Width - n - left IN
         /\ align = "LEFT" => left = 0
         /\ align = "RIGHT" => right = 0
         /\ align = "CENTER" => left - right \in {-1, 0}
         /\ \A k \in 1..Width :
              row[k] = IF k \in (left + 1)..(left + n) THEN Char(x, k - left) ELSE Blank

\* How a line is shown that was asked for with this text and alignment.
ShownAs(row, i) == Shows(row, i.text, IF Rolls(i.text) /\ i.align \in Aligns THEN "LEFT" ELSE i.align)

\* The lines a command asks for that can be set, by the row they go to.
Honoured(t, r) ==
  {k \in DOMAIN asked[t] : asked[t][k].line <= Height /\ asked[t][k].align \in Aligns
                           /\ RowOf(asked[t][k].line) = r}

\* What the client of t is told.
Reply(t) == IF answer[t] = "none" THEN status[t] ELSE answer[t]

ShowsLine(t) == \E r \in 1..Height : Honoured(t, r) # {}

\* A command, start-up or signal handler whose writes no other thread's
\* interrupted has shown, when it is over, the last text it asked for on every
\* row it asked for, in place, and has touched no other row: not even when it
\* was refused, scrolled, or wrote to the end of a row.
\* A client is always answered: INVALID_LINE and INVALID_ALIGN when nothing was
\* shown, CLEAR_DISPLAY when every row was asked for, MESSAGE_SET when its line
\* was shown, or for MSG_SCROLL while scrolling is off, which does nothing.
\* LINE_CLEARED is no such promise: CLEAR_LINE says it of any number.
UndisturbedWrites ==
  \A t \in Threads : Ended(t) /\ before[t] # NULL /\ ~lost =>
    /\ \A r \in 1..Height :
         IF Honoured(t, r) = {} THEN panel[r] = before[t][r]
         ELSE LET k == CHOOSE k \in Honoured(t, r) : \A j \in Honoured(t, r) : j <= k
              IN  ShownAs(panel[r], asked[t][k])
    /\ t \in Clients =>
         CASE Reply(t) \in {"INVALID_LINE", "INVALID_ALIGN"} -> ~ShowsLine(t)
           [] Reply(t) = "MESSAGE_SET"   -> ShowsLine(t) \/ (asked[t] = <<>> /\ ~config.enabled)
           [] Reply(t) = "CLEAR_DISPLAY" -> \A r \in 1..Height : Honoured(t, r) # {}
           [] OTHER                      -> Reply(t) = "LINE_CLEARED"

\* While no command is under way, and none has overlapped since the start,
\* every row shows the text kept in lcdLines for it (the one MSG_SCROLL would
\* scroll), in its alignment or, after scrolling, from the left.  Row 1 may
\* show line 0 instead.
RowsMatchLines ==
  process = "up" /\ Busy = {} /\ ~overlap /\ ~lost =>
    \A r \in 1..Height :
      \E i \in {r} \cup {j \in {0} : r = 1} :
        /\ lcdLines[i] # NULL
        /\ Shows(panel[r], lcdLines[i].text, lcdLines[i].align)
           \/ Shows(panel[r], lcdLines[i].text, "LEFT")

\* Memory that malloc left as it was is never displayed, not even by MSG_SCROLL
\* on a line whose SET_TEXT was refused: start-up sets every line that can be
\* scrolled.  Line 0 is left out there: a second command may allocate it anew
\* while the first scrolls it.
NoGarbageShown ==
  process = "up" /\ (~overlap \/ lcdLines[0] = NULL) =>
    \A r \in 1..Height, k \in 1..Width : panel[r][k][1] \notin Garbage

=============================================================================

-------------------------- MODULE LcdPanel_proofs --------------------------
(***************************************************************************)
(* Theorems about LcdPanel, for any number of clients, any interleaving of *)
(* their writes, and any panel of up to four lines.                        *)
(***************************************************************************)
EXTENDS LcdPanel, TLAPS

Items  == [text : Known, line : Nat, align : Aligns \cup AskedAligns]
Asks   == [text : Strings, line : Nat, align : Aligns \cup AskedAligns]
Call   == [row : 1..Height, chars : Row, back : {"idle", "next", "scroll", "frame"}]
Scroll == [line : 0..Height, len : Nat, next : Nat]

GlassOK == /\ panel \in [1..Height -> Row]
           /\ cursor \in (0..Height) \X (1..Width) /\ lost \in BOOLEAN
LinesOK == lcdLines \in [0..Height -> Line \cup {NULL}]
EnvOK   == /\ process \in {"starting", "up", "down"} /\ host \in Threads \cup {NULL}
           /\ config \in Settings /\ overlap \in BOOLEAN

ThreadsOK ==
  /\ pc \in [Threads -> Labels]
  /\ todo \in [Threads -> Seq(Items)]
  /\ call \in [Threads -> Call] /\ sent \in [Threads -> 0..Width]
  /\ scroll \in [Threads -> Scroll]
  /\ status \in [Threads -> {"none", "MESSAGE_SET", "INVALID_LINE", "INVALID_ALIGN"}]
  /\ asked \in [Threads -> Seq(Asks)]
  /\ before \in [Threads -> [1..Height -> Row] \cup {NULL}]

\* Does t scroll, or will it once what it draws is drawn?
ScrollsOn(t, l) == pc[t] = l \/ (pc[t] = "draw" /\ call[t].back = l)

\* What a thread has seen of what it uses.
PlaceOK(t) ==
  /\ pc[t] \in {"malloc", "store"} => todo[t] # <<>> /\ Head(todo[t]).line <= Height
  /\ pc[t] = "draw" => call[t].back \in {"next", "scroll", "frame"}
  /\ ScrollsOn(t, "frame") => lcdLines[scroll[t].line] # NULL
  /\ scroll[t].next <= scroll[t].len + 1

TypeInv == GlassOK /\ LinesOK /\ EnvOK /\ ThreadsOK /\ \A t \in Threads : PlaceOK(t)

-----------------------------------------------------------------------------
(***************************************************************************)
(* Texts and rows                                                          *)
(***************************************************************************)
LEMMA Sizes ==
  /\ Height \in Nat /\ Height >= 1 /\ Height <= 4 /\ 1 \in 1..Height
  /\ Width \in Nat /\ Width >= 1 /\ MaxLen \in Nat
  /\ \A x \in Strings : LengthOf[x] \in Nat
BY ConstantsOK

LEMMA NamedTexts ==
  /\ Space \in Known /\ Texts \subseteq Known /\ Known \subseteq Strings /\ Garbage \subseteq Strings
  /\ Welcome[1] \in Known /\ Welcome[2] \in Known /\ Notices[1] \in Known /\ Notices[2] \in Known
  /\ Garbage \cap Known = {}
BY ConstantsOK DEF Known, Strings

Glyphs == {Blank} \cup (Strings \X Nat)

LEMMA CharType == ASSUME NEW x \in Strings, NEW k \in Nat PROVE Char(x, k) \in Glyphs
BY DEF Char, Glyphs

\* A string of C, as From makes it.
CString == [text : Strings, skip : Nat, len : Nat]

LEMMA FromType == ASSUME NEW x \in Strings, NEW i \in Nat PROVE From(x, i) \in CString
<1>1. LengthOf[x] \in Nat
  BY Sizes
<1> QED
  BY <1>1 DEF From, CString

LEMMA PlacedType ==
  ASSUME NEW s \in CString, NEW n \in Nat, NEW m \in Int
  PROVE  Placed([s EXCEPT !.len = n], m) \in Row
<1> DEFINE t == [s EXCEPT !.len = n]
<1>1. t.text = s.text /\ t.skip = s.skip /\ t.len = n /\ s.text \in Strings /\ s.skip \in Nat
  BY DEF CString
<1> HIDE DEF t
<1>2. ASSUME NEW k \in 1..Width, k - m \in 1..n PROVE Char(s.text, s.skip + k - m) \in Glyphs
  <2>1. s.skip + k - m \in Nat
    BY <1>1, <1>2, Sizes
  <2> QED
    BY <1>1, <2>1, CharType
<1>3. Blank \in Glyphs
  BY DEF Glyphs
<1>4. Placed(t, m) \in [1..Width -> Glyphs]
  BY <1>1, <1>2, <1>3 DEF Placed
<1> QED
  BY <1>4 DEF t, Row, Glyphs

LEMMA LeastType == ASSUME NEW a \in Nat, NEW b \in Nat PROVE Least(a, b) \in Nat /\ Least(a, b) <= b /\ Least(a, b) <= a
BY DEF Least

\* What is drawn for each alignment.
LEMMA FormattedCases ==
  ASSUME NEW s \in CString, NEW n, n = Least(s.len, MaxLen)
  PROVE  /\ Formatted(s, "LEFT") = {Placed([s EXCEPT !.len = n], 0)}
         /\ Formatted(s, "RIGHT") = {Placed([s EXCEPT !.len = n], Width - Least(n, Width))}
         /\ n <= Width => Formatted(s, "CENTER") = {Placed([s EXCEPT !.len = n], (Width - n) \div 2)}
         /\ n > Width => Formatted(s, "CENTER") =
              {Placed([s EXCEPT !.len = n], (n - Width + 1) \div 2), [k \in 1..Width |-> Blank]}
<1>1. n \in Nat /\ Width \in Nat
  BY Sizes, LeastType DEF CString
<1>2. n <= Width => ~(n > Width)
  BY <1>1
<1>3. n > Width => ~(n <= Width)
  BY <1>1
<1>4. Formatted(s, "LEFT") = {Placed([s EXCEPT !.len = n], 0)}
  BY DEF Formatted
<1>5. Formatted(s, "RIGHT") = {Placed([s EXCEPT !.len = n], Width - Least(n, Width))}
  BY DEF Formatted
<1>6. CASE n <= Width
  <2>1. Formatted(s, "CENTER") = {Placed([s EXCEPT !.len = n], (Width - n) \div 2)}
    BY <1>2, <1>6 DEF Formatted
  <2> QED
    BY <1>2, <1>4, <1>5, <1>6, <2>1
<1>7. CASE ~(n <= Width)
  <2>1. n > Width
    BY <1>1, <1>7
  <2>2. Formatted(s, "CENTER") =
          {Placed([s EXCEPT !.len = n], (n - Width + 1) \div 2), [k \in 1..Width |-> Blank]}
    BY <1>7, <2>1 DEF Formatted
  <2> QED
    BY <1>4, <1>5, <1>7, <2>2
<1> QED
  BY <1>6, <1>7

LEMMA FormattedType ==
  ASSUME NEW s \in CString, NEW align \in Aligns
  PROVE  Formatted(s, align) \subseteq Row
<1> DEFINE n == Least(s.len, MaxLen)
<1>1. n \in Nat /\ Width \in Nat
  BY Sizes, LeastType DEF CString
<1> HIDE DEF n
<1>2. Width - Least(n, Width) \in Int /\ (Width - n) \div 2 \in Int /\ (n - Width + 1) \div 2 \in Int
  <2>1. Least(n, Width) \in Nat
    BY <1>1, LeastType
  <2> QED
    BY <1>1, <2>1
<1>3. \A m \in Int : Placed([s EXCEPT !.len = n], m) \in Row
  BY <1>1, PlacedType
<1>4. [k \in 1..Width |-> Blank] \in Row
  BY DEF Row
<1>5. n = Least(s.len, MaxLen)
  BY DEF n
<1>6. /\ Formatted(s, "LEFT") \subseteq Row
      /\ Formatted(s, "RIGHT") \subseteq Row
      /\ n <= Width => Formatted(s, "CENTER") \subseteq Row
      /\ n > Width => Formatted(s, "CENTER") \subseteq Row
  <2>1. Formatted(s, "LEFT") \subseteq Row
    BY <1>3, <1>5, FormattedCases
  <2>2. Formatted(s, "RIGHT") \subseteq Row
    BY <1>2, <1>3, <1>5, FormattedCases
  <2>3. n <= Width => Formatted(s, "CENTER") \subseteq Row
    BY <1>2, <1>3, <1>5, FormattedCases
  <2>4. n > Width => Formatted(s, "CENTER") \subseteq Row
    <3>1. n > Width => Formatted(s, "CENTER") =
            {Placed([s EXCEPT !.len = n], (n - Width + 1) \div 2), [k \in 1..Width |-> Blank]}
      BY <1>5, FormattedCases
    <3>2. Placed([s EXCEPT !.len = n], (n - Width + 1) \div 2) \in Row
      BY <1>2, <1>3
    <3> QED
      BY <1>4, <3>1, <3>2
  <2> QED
    BY <2>1, <2>2, <2>3, <2>4
<1>7. Formatted(s, "CENTER") \subseteq Row
  BY <1>1, <1>6
<1> QED
  BY <1>6, <1>7 DEF Aligns

-----------------------------------------------------------------------------
(***************************************************************************)
(* Types                                                                   *)
(***************************************************************************)
LEMMA ItemTypes ==
  /\ Items \subseteq Asks
  /\ \A i \in Nat : ClearLine(i) \in Items
  /\ ClearLines \in Seq(Items) /\ Greeting \in Seq(Items) /\ Farewell \in Seq(Items)
<1>1. \A i \in Nat : ClearLine(i) \in Items
  BY NamedTexts DEF ClearLine, Item, Items, Aligns
<1>2. ClearLines \in Seq(Items)
  BY <1>1, Sizes DEF ClearLines
<1>3. /\ Item(Welcome[1], 1, "CENTER") \in Items /\ Item(Welcome[2], 2, "CENTER") \in Items
      /\ Item(Notices[1], 1, "CENTER") \in Items /\ Item(Notices[2], 2, "CENTER") \in Items
  BY NamedTexts DEF Item, Items, Aligns
<1>4. Greeting \in Seq(Items) /\ Farewell \in Seq(Items)
  BY <1>3 DEF Greeting, Farewell
<1>5. Items \subseteq Asks
  BY NamedTexts DEF Items, Asks
<1> QED
  BY <1>1, <1>2, <1>4, <1>5

LEMMA UnsignedType == ASSUME NEW n \in Int PROVE AsUnsigned(n) \in Nat
BY ConstantsOK DEF AsUnsigned

LEMMA AsksItems == ASSUME NEW ls \in Seq(Items) PROVE ls \in Seq(Asks)
BY ItemTypes

\* MSG_SCROLL of a line it accepts, and what it asks for.
ScrollRow(t, i) ==
  /\ Command(t)
  /\ scroll' = [scroll EXCEPT ![t] = [NoScroll EXCEPT !.line = i]]
  /\ Overlapping(t, IF config.enabled /\ lcdLines[i] # NULL
                    THEN <<Item(lcdLines[i].text, i, "LEFT")>> ELSE <<>>)
  /\ Goto(t, "scroll")
  /\ answer' = [answer EXCEPT ![t] = "MESSAGE_SET"]
  /\ UNCHANGED <<todo, status>>

\* The replies that go with the lines a command sets.
Answers == {"none", "LINE_CLEARED", "CLEAR_DISPLAY"}
GoesWith(a, ls) == /\ a = "none" => Len(ls) = 1
                   /\ a = "CLEAR_DISPLAY" => ls = ClearLines

\* What the steps are, as far as the invariants care.
LEMMA Steps ==
  ASSUME [Next]_vars
  PROVE  \/ \E t \in Clients, ls \in Seq(Items), a \in Answers : GoesWith(a, ls) /\ SetLines(t, ls, a)
         \/ \E t \in Clients : Refuse(t)
         \/ \E t \in Clients, i \in 1..Height : ScrollRow(t, i)
         \/ \E t \in Threads : \/ TakeLine(t) \/ Allocate(t) \/ RefuseAlign(t) \/ StoreLine(t)
                               \/ NoScrolling(t) \/ BeginScroll(t) \/ NextFrame(t)
                               \/ Write(t) \/ Return(t)
         \/ Die
         \/ \E h \in Clients \cup {Main} : HandleSigs(h)
         \/ Restart
         \/ UNCHANGED vars
<1>1. ASSUME NEW t \in Clients, Send(t)
      PROVE  \/ \E ls \in Seq(Items), a \in Answers : GoesWith(a, ls) /\ SetLines(t, ls, a)
             \/ Refuse(t)
             \/ \E i \in 1..Height : ScrollRow(t, i)
  <2>1. ASSUME NEW n \in Lines \ {NULL}, NEW x \in Texts, NEW a \in AskedAligns, SetText(t, x, n, a)
        PROVE  \E ls \in Seq(Items), b \in Answers : GoesWith(b, ls) /\ SetLines(t, ls, b)
    <3>1. AsUnsigned(n) \in Nat /\ x \in Known
      BY ConstantsOK, UnsignedType, NamedTexts
    <3>2. Item(x, AsUnsigned(n), a) \in Items
      BY <3>1 DEF Item, Items
    <3>3. <<Item(x, AsUnsigned(n), a)>> \in Seq(Items) /\ Len(<<Item(x, AsUnsigned(n), a)>>) = 1
      BY <3>2
    <3>4. SetLines(t, <<Item(x, AsUnsigned(n), a)>>, "none")
      BY <2>1 DEF SetText
    <3>5. GoesWith("none", <<Item(x, AsUnsigned(n), a)>>) /\ "none" \in Answers
      BY <3>3 DEF GoesWith, Answers
    <3> QED
      BY <3>3, <3>4, <3>5
  <2>2. ASSUME NEW n \in Lines \ {NULL}, ClearLcdLine(t, n)
        PROVE  \E ls \in Seq(Items), b \in Answers : GoesWith(b, ls) /\ SetLines(t, ls, b)
    <3>1. AsUnsigned(n) \in Nat
      BY ConstantsOK, UnsignedType
    <3>2. <<ClearLine(AsUnsigned(n))>> \in Seq(Items)
      BY <3>1, ItemTypes
    <3>3. SetLines(t, <<ClearLine(AsUnsigned(n))>>, "LINE_CLEARED")
      BY <2>2 DEF ClearLcdLine
    <3>4. GoesWith("LINE_CLEARED", <<ClearLine(AsUnsigned(n))>>) /\ "LINE_CLEARED" \in Answers
      BY DEF GoesWith, Answers
    <3> QED
      BY <3>2, <3>3, <3>4
  <2>3. ASSUME ClearLcdDisplay(t)
        PROVE  \E ls \in Seq(Items), b \in Answers : GoesWith(b, ls) /\ SetLines(t, ls, b)
    <3>1. SetLines(t, ClearLines, "CLEAR_DISPLAY")
      BY <2>3 DEF ClearLcdDisplay
    <3>2. GoesWith("CLEAR_DISPLAY", ClearLines) /\ "CLEAR_DISPLAY" \in Answers
      BY DEF GoesWith, Answers
    <3> QED
      BY <3>1, <3>2, ItemTypes
  <2> QED
    BY <1>1, <2>1, <2>2, <2>3 DEF Send, ScrollLine, ScrollRow
<1>2. CASE \E t \in Threads : BusFails(t)
  BY <1>2 DEF BusFails
<1>3. CASE ExitHandler
  BY <1>3 DEF ExitHandler
<1> QED
  BY <1>1, <1>2, <1>3 DEF Next, Run

LEMMA InitTypes == Init => TypeInv
<1> SUFFICES ASSUME Init PROVE TypeInv
  OBVIOUS
<1>1. Off \in [1..Height -> Row] /\ [k \in 1..Width |-> Blank] \in Row
  BY DEF Off, Row
<1>2. GlassOK /\ LinesOK /\ EnvOK
  <2>1. <<1, 1>> \in (0..Height) \X (1..Width)
    BY Sizes
  <2>2. GlassOK
    BY <1>1, <2>1 DEF Init, GlassOK
  <2> QED
    BY <2>2 DEF Init, LinesOK, EnvOK
<1>3. NoCall \in Call /\ NoScroll \in Scroll
  BY <1>1, Sizes DEF NoCall, Call, NoScroll, Scroll
<1>4. ThreadsOK
  BY <1>3, Sizes DEF Init, ThreadsOK, ForAll, Labels
<1>5. ASSUME NEW t \in Threads PROVE PlaceOK(t)
  <2>1. pc[t] = "idle" /\ scroll[t] = NoScroll
    BY DEF Init, ForAll
  <2> QED
    BY <2>1 DEF PlaceOK, ScrollsOn, NoScroll
<1> QED
  BY <1>2, <1>4, <1>5 DEF TypeInv

\* The end of the process puts everything but the panel's memory back.
LEMMA DieTypes == TypeInv /\ Die => TypeInv'
<1> SUFFICES ASSUME TypeInv, Die PROVE TypeInv'
  OBVIOUS
<1>1. Off \in [1..Height -> Row] /\ [k \in 1..Width |-> Blank] \in Row
  BY DEF Off, Row
<1>2. GlassOK' /\ LinesOK' /\ EnvOK'
  BY <1>1, Sizes DEF Die, TypeInv, GlassOK, LinesOK, EnvOK
<1>3. NoCall \in Call /\ NoScroll \in Scroll
  BY <1>1, Sizes DEF NoCall, Call, NoScroll, Scroll
<1>4. ThreadsOK'
  BY <1>3, Sizes DEF Die, ThreadsOK, ForAll, Labels
<1>5. ASSUME NEW t \in Threads PROVE PlaceOK(t)'
  <2>1. pc'[t] = "idle" /\ scroll'[t] = NoScroll
    BY DEF Die, ForAll
  <2> QED
    BY <2>1 DEF PlaceOK, ScrollsOn, NoScroll
<1> QED
  BY <1>2, <1>4, <1>5 DEF TypeInv

\* The panel's counter stays on the panel or off screen.
LEMMA AdvanceType ==
  ASSUME NEW c \in (0..Height) \X (1..Width)
  PROVE  Advance(c) \in (0..Height) \X (1..Width)
<1>1. c[1] \in 0..Height /\ c[2] \in 1..Width
  OBVIOUS
<1>2. c[1] # 0 => Follows[c[1]] \in 0..Height
  BY <1>1, ConstantsOK
<1>3. c[2] < Width => c[2] + 1 \in 1..Width
  BY <1>1, Sizes
<1> QED
  BY <1>1, <1>2, <1>3, Sizes DEF Advance

LEMMA WriteGlass == ASSUME TypeInv, NEW t \in Threads, Write(t) PROVE GlassOK'
<1>1. /\ panel \in [1..Height -> Row] /\ cursor \in (0..Height) \X (1..Width) /\ lost \in BOOLEAN
      /\ call[t] \in Call /\ sent[t] \in 0..Width
  BY DEF TypeInv, GlassOK, ThreadsOK
<1>2. CASE TakeByte(call[t], sent[t]) /\ UNCHANGED lost
  <2>1. CASE sent[t] = 0
    <3>1. cursor' = <<call[t].row, 1>> /\ panel' = panel /\ lost' = lost
      BY <1>2, <2>1 DEF TakeByte
    <3>2. call[t].row \in 1..Height
      BY <1>1 DEF Call
    <3> QED
      BY <1>1, <3>1, <3>2, Sizes DEF GlassOK
  <2>2. CASE sent[t] # 0
    <3> DEFINE r == cursor[1]
               c == cursor[2]
    <3>1. /\ panel' = IF r = 0 THEN panel ELSE [panel EXCEPT ![r][c] = call[t].chars[sent[t]]]
          /\ cursor' = Advance(cursor) /\ lost' = lost
      BY <1>2, <2>2 DEF TakeByte
    <3>2. r \in 0..Height /\ c \in 1..Width /\ sent[t] \in 1..Width
      BY <1>1, <2>2, Sizes
    <3>3. call[t].chars \in [1..Width -> Glyphs]
      BY <1>1 DEF Call, Row, Glyphs
    <3>4. call[t].chars[sent[t]] \in Glyphs
      BY <3>2, <3>3
    <3>5. panel' \in [1..Height -> Row]
      <4> HIDE DEF r, c
      <4>1. CASE r = 0
        BY <1>1, <3>1, <4>1
      <4>2. CASE r # 0
        <5>1. r \in 1..Height
          BY <3>2, <4>2, Sizes
        <5>2. panel[r] \in [1..Width -> Glyphs]
          BY <1>1, <5>1 DEF Row, Glyphs
        <5>3. [panel[r] EXCEPT ![c] = call[t].chars[sent[t]]] \in [1..Width -> Glyphs]
          BY <3>2, <3>4, <5>2
        <5>4. [panel[r] EXCEPT ![c] = call[t].chars[sent[t]]] \in Row
          BY <5>3 DEF Row, Glyphs
        <5>5. panel' = [panel EXCEPT ![r] = [panel[r] EXCEPT ![c] = call[t].chars[sent[t]]]]
          BY <3>1, <4>2
        <5> QED
          BY <1>1, <5>4, <5>5
      <4> QED
        BY <4>1, <4>2
    <3>6. cursor' \in (0..Height) \X (1..Width)
      BY <1>1, <3>1, AdvanceType
    <3> QED
      BY <1>1, <3>1, <3>5, <3>6 DEF GlassOK
  <2> QED
    BY <2>1, <2>2
<1>3. CASE lost' = TRUE /\ panel' = Off /\ cursor' = <<0, 1>>
  <2>1. Off \in [1..Height -> Row]
    BY DEF Off, Row
  <2> QED
    BY <1>3, <2>1, Sizes DEF GlassOK
<1>4. CASE UNCHANGED glass
  BY <1>1, <1>4 DEF glass, GlassOK
<1> QED
  BY <1>2, <1>3, <1>4 DEF Write

LEMMA DrawTypes ==
  ASSUME TypeInv, NEW t \in Threads, NEW s \in CString, NEW line \in Nat, NEW align \in Aligns,
         NEW back \in {"next", "scroll", "frame"}, Draw(t, s, line, align, back)
  PROVE  /\ call' \in [Threads -> Call] /\ sent' \in [Threads -> 0..Width]
         /\ pc' = [pc EXCEPT ![t] = "draw"] /\ pc' \in [Threads -> Labels]
         /\ \E chars \in Formatted(s, align) :
              call' = [call EXCEPT ![t] = [row |-> RowOf(line), chars |-> chars, back |-> back]]
<1>1. RowOf(line) \in 1..Height
  BY Sizes DEF RowOf, Least
<1>2. PICK chars \in Formatted(s, align) :
        call' = [call EXCEPT ![t] = [row |-> RowOf(line), chars |-> chars, back |-> back]]
  BY DEF Draw
<1>3. chars \in Row
  BY <1>2, FormattedType
<1>4. [row |-> RowOf(line), chars |-> chars, back |-> back] \in Call
  BY <1>1, <1>3 DEF Call
<1>5. call' \in [Threads -> Call]
  BY <1>2, <1>4 DEF TypeInv, ThreadsOK
<1>6. sent' \in [Threads -> 0..Width] /\ pc' = [pc EXCEPT ![t] = "draw"] /\ pc' \in [Threads -> Labels]
  BY Sizes DEF Draw, Goto, TypeInv, ThreadsOK, Labels
<1> QED
  BY <1>2, <1>5, <1>6

\* What Overlapping does to the histories.
LEMMA HistoryTypes ==
  ASSUME TypeInv, NEW t \in Threads, NEW ls \in Seq(Asks), Overlapping(t, ls)
  PROVE  /\ asked' \in [Threads -> Seq(Asks)]
         /\ before' \in [Threads -> [1..Height -> Row] \cup {NULL}]
         /\ overlap' \in BOOLEAN
<1>1. asked' \in [Threads -> Seq(Asks)]
  BY DEF Overlapping, TypeInv, ThreadsOK
<1>2. overlap' \in BOOLEAN
  BY DEF Overlapping, TypeInv, EnvOK
<1>3. before' \in [Threads -> [1..Height -> Row] \cup {NULL}]
  <2>1. before' = [before EXCEPT ![t] = panel] \/ before' = [u \in Threads |-> NULL]
    BY DEF Overlapping, ForAll
  <2> QED
    BY <2>1 DEF TypeInv, ThreadsOK, GlassOK
<1> QED
  BY <1>1, <1>2, <1>3

\* The text of a line that is set.
LEMMA LineType ==
  ASSUME TypeInv, NEW i \in 0..Height, lcdLines[i] # NULL
  PROVE  lcdLines[i] \in Line /\ lcdLines[i].text \in Strings
BY DEF TypeInv, LinesOK, Line

LEMMA FreshScroll ==
  ASSUME NEW i PROVE [NoScroll EXCEPT !.line = i] = [line |-> i, len |-> 0, next |-> 0]
BY DEF NoScroll

LEMMA CommandTypes ==
  ASSUME TypeInv, NEW t \in Threads,
         \/ \E ls \in Seq(Items), a \in Answers : SetLines(t, ls, a)
         \/ Refuse(t)
         \/ \E i \in 1..Height : ScrollRow(t, i)
  PROVE  TypeInv'
<1>1. /\ UNCHANGED <<panel, cursor, lost, lcdLines, config, process, host, call, sent>>
      /\ pc[t] = "idle"
  BY DEF SetLines, Refuse, ScrollRow, Command, glass, env, At
<1>2. GlassOK' /\ LinesOK'
  BY <1>1 DEF TypeInv, GlassOK, LinesOK
<1>3. ASSUME NEW ls \in Seq(Items), NEW a \in Answers, SetLines(t, ls, a) PROVE TypeInv'
  <2>1. /\ todo' = [todo EXCEPT ![t] = ls] /\ pc' = [pc EXCEPT ![t] = "next"]
        /\ Overlapping(t, ls) /\ UNCHANGED <<scroll, status>>
    BY <1>3 DEF SetLines, Goto
  <2>2. /\ asked' \in [Threads -> Seq(Asks)] /\ overlap' \in BOOLEAN
        /\ before' \in [Threads -> [1..Height -> Row] \cup {NULL}]
    BY <2>1, AsksItems, HistoryTypes
  <2>3. ThreadsOK' /\ EnvOK'
    BY <1>1, <2>1, <2>2 DEF TypeInv, ThreadsOK, EnvOK, Labels
  <2>4. \A u \in Threads : PlaceOK(u)'
    BY <1>1, <2>1 DEF TypeInv, PlaceOK, ScrollsOn, ThreadsOK
  <2> QED
    BY <1>2, <2>3, <2>4 DEF TypeInv
<1>4. CASE Refuse(t)
  <2>1. /\ status' = [status EXCEPT ![t] = "INVALID_LINE"] /\ pc' = [pc EXCEPT ![t] = "next"]
        /\ Overlapping(t, <<>>) /\ UNCHANGED <<todo, scroll>>
    BY <1>4 DEF Refuse, Goto
  <2>2. /\ asked' \in [Threads -> Seq(Asks)] /\ overlap' \in BOOLEAN
        /\ before' \in [Threads -> [1..Height -> Row] \cup {NULL}]
    <3>1. <<>> \in Seq(Asks)
      OBVIOUS
    <3> QED
      BY <2>1, <3>1, HistoryTypes
  <2>3. ThreadsOK' /\ EnvOK'
    BY <1>1, <2>1, <2>2 DEF TypeInv, ThreadsOK, EnvOK, Labels
  <2>4. \A u \in Threads : PlaceOK(u)'
    BY <1>1, <2>1 DEF TypeInv, PlaceOK, ScrollsOn, ThreadsOK
  <2> QED
    BY <1>2, <2>3, <2>4 DEF TypeInv
<1>5. ASSUME NEW i \in 1..Height, ScrollRow(t, i) PROVE TypeInv'
  <2> DEFINE ls == IF config.enabled /\ lcdLines[i] # NULL
                   THEN <<Item(lcdLines[i].text, i, "LEFT")>> ELSE <<>>
  <2>1. /\ scroll' = [scroll EXCEPT ![t] = [NoScroll EXCEPT !.line = i]]
        /\ pc' = [pc EXCEPT ![t] = "scroll"]
        /\ Overlapping(t, ls) /\ UNCHANGED <<todo, status>>
    BY <1>5 DEF ScrollRow, Goto
  <2>2. ls \in Seq(Asks)
    <3>1. CASE config.enabled /\ lcdLines[i] # NULL
      <4>1. Item(lcdLines[i].text, i, "LEFT") \in Asks
        BY <3>1, LineType, Sizes DEF Item, Asks, Aligns
      <4> QED
        BY <3>1, <4>1
    <3> QED
      BY <3>1
  <2> HIDE DEF ls
  <2>3. /\ asked' \in [Threads -> Seq(Asks)] /\ overlap' \in BOOLEAN
        /\ before' \in [Threads -> [1..Height -> Row] \cup {NULL}]
    BY <2>1, <2>2, HistoryTypes
  <2>4. scroll' = [scroll EXCEPT ![t] = [line |-> i, len |-> 0, next |-> 0]]
    BY <2>1, FreshScroll
  <2>5. ThreadsOK' /\ EnvOK'
    <3>1. [line |-> i, len |-> 0, next |-> 0] \in Scroll
      BY Sizes DEF Scroll
    <3>2. scroll' \in [Threads -> Scroll]
      BY <2>4, <3>1 DEF TypeInv, ThreadsOK
    <3> QED
      BY <1>1, <2>1, <2>3, <3>2 DEF TypeInv, ThreadsOK, EnvOK, Labels
  <2>6. ASSUME NEW u \in Threads PROVE PlaceOK(u)'
    <3>1. CASE u = t
      <4>1. pc'[t] = "scroll" /\ scroll'[t].len = 0 /\ scroll'[t].next = 0
        BY <2>1, <2>4 DEF TypeInv, ThreadsOK
      <4> QED
        BY <3>1, <4>1 DEF PlaceOK, ScrollsOn
    <3>2. CASE u # t
      BY <1>1, <2>1, <2>4, <3>2 DEF TypeInv, PlaceOK, ScrollsOn, ThreadsOK
    <3> QED
      BY <3>1, <3>2
  <2> QED
    BY <1>2, <2>5, <2>6 DEF TypeInv
<1> QED
  BY <1>3, <1>4, <1>5

\* What TypeInv says of one thread.
LEMMA ThreadTypes ==
  ASSUME TypeInv, NEW t \in Threads
  PROVE  /\ pc \in [Threads -> Labels] /\ todo \in [Threads -> Seq(Items)]
         /\ call \in [Threads -> Call] /\ sent \in [Threads -> 0..Width] /\ scroll \in [Threads -> Scroll]
         /\ status \in [Threads -> {"none", "MESSAGE_SET", "INVALID_LINE", "INVALID_ALIGN"}]
         /\ pc[t] \in Labels /\ todo[t] \in Seq(Items) /\ sent[t] \in 0..Width
         /\ call[t].row \in 1..Height /\ call[t].chars \in Row
         /\ scroll[t].line \in 0..Height /\ scroll[t].len \in Nat /\ scroll[t].next \in Nat
         /\ PlaceOK(t)
BY DEF TypeInv, ThreadsOK, Call, Scroll

LEMMA FirstItem ==
  ASSUME TypeInv, NEW t \in Threads, todo[t] # <<>>
  PROVE  /\ Head(todo[t]) \in Items /\ Tail(todo[t]) \in Seq(Items)
         /\ Head(todo[t]).text \in Known /\ Head(todo[t]).line \in Nat
<1>1. todo[t] \in Seq(Items)
  BY ThreadTypes
<1>2. Head(todo[t]) \in Items /\ Tail(todo[t]) \in Seq(Items)
  BY <1>1
<1> QED
  BY <1>2 DEF Items

\* The steps of set_lcd_line_text up to the drawing.
LEMMA TakeLineTypes == ASSUME TypeInv, NEW t \in Threads, TakeLine(t) PROVE TypeInv'
<1> DEFINE i == Head(todo[t])
<1>1. /\ todo[t] # <<>> /\ pc[t] = "next"
      /\ UNCHANGED <<glass, lcdLines, env, call, sent, scroll, history>>
      /\ \/ /\ status' = [status EXCEPT ![t] = "INVALID_LINE"]
            /\ todo' = [todo EXCEPT ![t] = Tail(@)] /\ UNCHANGED pc
         \/ /\ i.line <= Height
            /\ pc' = [pc EXCEPT ![t] = IF lcdLines[i.line] = NULL THEN "malloc" ELSE "store"]
            /\ UNCHANGED <<status, todo>>
  BY DEF TakeLine, At, Goto
<1>2. GlassOK' /\ LinesOK' /\ EnvOK'
  BY <1>1 DEF TypeInv, GlassOK, LinesOK, EnvOK, glass, env, history
<1>3. Tail(todo[t]) \in Seq(Items)
  BY <1>1, FirstItem
<1>4. ThreadsOK'
  <2>1. pc' \in [Threads -> Labels]
    BY <1>1 DEF TypeInv, ThreadsOK, Labels
  <2>2. todo' \in [Threads -> Seq(Items)]
    BY <1>1, <1>3 DEF TypeInv, ThreadsOK
  <2>3. status' \in [Threads -> {"none", "MESSAGE_SET", "INVALID_LINE", "INVALID_ALIGN"}]
    BY <1>1 DEF TypeInv, ThreadsOK
  <2> QED
    BY <1>1, <2>1, <2>2, <2>3 DEF TypeInv, ThreadsOK, history
<1>5. \A u \in Threads : PlaceOK(u)'
  BY <1>1 DEF TypeInv, PlaceOK, ScrollsOn, ThreadsOK
<1> QED
  BY <1>2, <1>4, <1>5 DEF TypeInv

LEMMA AllocateTypes == ASSUME TypeInv, NEW t \in Threads, Allocate(t) PROVE TypeInv'
<1>1. /\ pc[t] = "malloc" /\ pc' = [pc EXCEPT ![t] = "store"]
      /\ UNCHANGED <<glass, env, locals, history>>
  BY DEF Allocate, At, Goto
<1>2. PICK x \in Garbage :
        lcdLines' = [lcdLines EXCEPT ![Head(todo[t]).line] = [text |-> x, align |-> NULL]]
  BY DEF Allocate
<1>3. [text |-> x, align |-> NULL] \in Line
  BY NamedTexts DEF Line
<1>4. LinesOK'
  BY <1>2, <1>3 DEF TypeInv, LinesOK
<1>5. GlassOK' /\ EnvOK' /\ ThreadsOK'
  BY <1>1 DEF TypeInv, GlassOK, EnvOK, ThreadsOK, Labels, glass, env, locals, history
<1>6. \A i \in 0..Height : lcdLines[i] # NULL => lcdLines'[i] # NULL
  BY <1>2, <1>3, NullOK DEF TypeInv, LinesOK
<1>7. \A u \in Threads : PlaceOK(u)'
  BY <1>1, <1>6, ThreadTypes DEF TypeInv, PlaceOK, ScrollsOn, locals
<1> QED
  BY <1>4, <1>5, <1>7 DEF TypeInv

LEMMA RefuseAlignTypes == ASSUME TypeInv, NEW t \in Threads, RefuseAlign(t) PROVE TypeInv'
<1>1. /\ pc[t] = "store" /\ pc' = [pc EXCEPT ![t] = "next"]
      /\ status' = [status EXCEPT ![t] = "INVALID_ALIGN"] /\ todo' = [todo EXCEPT ![t] = Tail(@)]
      /\ UNCHANGED <<glass, lcdLines, env, call, sent, scroll, history>>
  BY DEF RefuseAlign, At, Goto
<1>2. todo[t] # <<>>
  BY <1>1 DEF TypeInv, PlaceOK
<1>3. Tail(todo[t]) \in Seq(Items)
  BY <1>2, FirstItem
<1>4. GlassOK' /\ LinesOK' /\ EnvOK'
  BY <1>1 DEF TypeInv, GlassOK, LinesOK, EnvOK, glass, env, history
<1>5. ThreadsOK'
  BY <1>1, <1>3 DEF TypeInv, ThreadsOK, Labels, history
<1>6. \A u \in Threads : PlaceOK(u)'
  BY <1>1 DEF TypeInv, PlaceOK, ScrollsOn, ThreadsOK
<1> QED
  BY <1>4, <1>5, <1>6 DEF TypeInv

\* What StoreLine does, with the alignment the line is drawn in.
LEMMA Stored ==
  ASSUME TypeInv, NEW t \in Threads, StoreLine(t)
  PROVE  LET i == Head(todo[t])
         IN  /\ pc[t] = "store" /\ todo[t] # <<>> /\ i.line \in 0..Height /\ i.align \in Aligns
             /\ i.text \in Known /\ Whole(i.text) \in CString
             /\ lcdLines' = [lcdLines EXCEPT ![i.line] = [text |-> i.text, align |-> i.align]]
             /\ \/ Rolls(i.text) /\ Draw(t, Whole(i.text), i.line, "LEFT", "scroll")
                \/ ~Rolls(i.text) /\ Draw(t, Whole(i.text), i.line, i.align, "next")
             /\ scroll' = [scroll EXCEPT ![t] = [line |-> i.line, len |-> 0, next |-> 0]]
             /\ todo' = [todo EXCEPT ![t] = Tail(@)] /\ Tail(todo[t]) \in Seq(Items)
             /\ status' = [status EXCEPT ![t] = "MESSAGE_SET"]
             /\ UNCHANGED <<glass, env, history>>
<1> DEFINE i == Head(todo[t])
<1>1. pc[t] = "store" /\ i.align \in Aligns
  BY DEF StoreLine, At
<1>2. todo[t] # <<>> /\ i.line <= Height
  BY <1>1 DEF TypeInv, PlaceOK
<1>3. i.line \in 0..Height /\ i.text \in Known /\ Tail(todo[t]) \in Seq(Items)
  BY <1>2, FirstItem, Sizes
<1>4. Whole(i.text) \in CString
  BY <1>3, NamedTexts, FromType DEF Whole
<1>5. scroll' = [scroll EXCEPT ![t] = [line |-> i.line, len |-> 0, next |-> 0]]
  <2>1. scroll' = [scroll EXCEPT ![t] = [NoScroll EXCEPT !.line = i.line]]
    BY DEF StoreLine
  <2> QED
    BY <2>1, FreshScroll
<1>6. \/ Rolls(i.text) /\ Draw(t, Whole(i.text), i.line, "LEFT", "scroll")
      \/ ~Rolls(i.text) /\ Draw(t, Whole(i.text), i.line, i.align, "next")
  BY DEF StoreLine
<1> QED
  BY <1>1, <1>2, <1>3, <1>4, <1>5, <1>6 DEF StoreLine

LEMMA StoreLineTypes == ASSUME TypeInv, NEW t \in Threads, StoreLine(t) PROVE TypeInv'
<1> DEFINE i == Head(todo[t])
<1>1. /\ i.line \in 0..Height /\ i.align \in Aligns /\ i.text \in Known /\ Whole(i.text) \in CString
      /\ lcdLines' = [lcdLines EXCEPT ![i.line] = [text |-> i.text, align |-> i.align]]
      /\ \/ Draw(t, Whole(i.text), i.line, "LEFT", "scroll")
         \/ Draw(t, Whole(i.text), i.line, i.align, "next")
      /\ scroll' = [scroll EXCEPT ![t] = [line |-> i.line, len |-> 0, next |-> 0]]
      /\ todo' = [todo EXCEPT ![t] = Tail(@)] /\ Tail(todo[t]) \in Seq(Items)
      /\ status' = [status EXCEPT ![t] = "MESSAGE_SET"]
      /\ UNCHANGED <<glass, env, history>>
  BY Stored
<1> HIDE DEF i
<1>2. [text |-> i.text, align |-> i.align] \in Line
  BY <1>1, NamedTexts DEF Line
<1>3. LinesOK' /\ \A j \in 0..Height : lcdLines[j] # NULL => lcdLines'[j] # NULL
  BY <1>1, <1>2, NullOK DEF TypeInv, LinesOK
<1>4. GlassOK' /\ EnvOK'
  BY <1>1 DEF TypeInv, GlassOK, EnvOK, glass, env, history
<1>5. /\ call' \in [Threads -> Call] /\ sent' \in [Threads -> 0..Width]
      /\ pc' = [pc EXCEPT ![t] = "draw"] /\ pc' \in [Threads -> Labels]
      /\ call'[t].back \in {"scroll", "next"} /\ \A u \in Threads \ {t} : call'[u] = call[u]
  <2>1. i.line \in Nat /\ "LEFT" \in Aligns
    BY <1>1 DEF Aligns
  <2>2. ASSUME NEW a \in Aligns, NEW b \in {"scroll", "next"}, Draw(t, Whole(i.text), i.line, a, b)
        PROVE  /\ call' \in [Threads -> Call] /\ sent' \in [Threads -> 0..Width]
               /\ pc' = [pc EXCEPT ![t] = "draw"] /\ pc' \in [Threads -> Labels]
               /\ call'[t].back = b /\ \A u \in Threads \ {t} : call'[u] = call[u]
    <3>1. /\ call' \in [Threads -> Call] /\ sent' \in [Threads -> 0..Width]
          /\ pc' = [pc EXCEPT ![t] = "draw"] /\ pc' \in [Threads -> Labels]
          /\ \E chars \in Formatted(Whole(i.text), a) :
               call' = [call EXCEPT ![t] = [row |-> RowOf(i.line), chars |-> chars, back |-> b]]
      BY <1>1, <2>1, <2>2, DrawTypes
    <3> QED
      BY <3>1, ThreadTypes
  <2> QED
    BY <1>1, <2>1, <2>2
<1>6. [line |-> i.line, len |-> 0, next |-> 0] \in Scroll
  BY <1>1 DEF Scroll
<1>7. ThreadsOK'
  BY <1>1, <1>5, <1>6 DEF TypeInv, ThreadsOK, history
<1>8. ASSUME NEW u \in Threads PROVE PlaceOK(u)'
  <2>1. CASE u = t
    <3>1. pc'[t] = "draw" /\ scroll'[t].next = 0 /\ scroll'[t].len = 0
      BY <1>1, <1>5, ThreadTypes
    <3> QED
      BY <1>5, <2>1, <3>1 DEF PlaceOK, ScrollsOn
  <2>2. CASE u # t
    <3>1. /\ pc'[u] = pc[u] /\ todo'[u] = todo[u] /\ call'[u] = call[u] /\ scroll'[u] = scroll[u]
      BY <1>1, <1>5, <2>2, ThreadTypes
    <3> QED
      BY <1>3, <3>1, ThreadTypes DEF PlaceOK, ScrollsOn
  <2> QED
    BY <2>1, <2>2
<1> QED
  BY <1>3, <1>4, <1>7, <1>8 DEF TypeInv

LEMMA NoScrollingTypes == ASSUME TypeInv, NEW t \in Threads, NoScrolling(t) PROVE TypeInv'
<1>1. pc' = [pc EXCEPT ![t] = "next"] /\ UNCHANGED <<glass, lcdLines, env, locals, history>>
  BY DEF NoScrolling, Goto
<1>2. GlassOK' /\ LinesOK' /\ EnvOK' /\ ThreadsOK'
  BY <1>1 DEF TypeInv, GlassOK, LinesOK, EnvOK, ThreadsOK, Labels, glass, env, locals, history
<1>3. \A u \in Threads : PlaceOK(u)'
  BY <1>1, ThreadTypes DEF PlaceOK, ScrollsOn, locals
<1> QED
  BY <1>2, <1>3 DEF TypeInv

\* What the two steps of lcd_scroll draw, and where it goes on.
LEMMA Scrolled ==
  ASSUME TypeInv, NEW t \in Threads, BeginScroll(t) \/ NextFrame(t)
  PROVE  LET i == scroll[t].line
             x == lcdLines[i].text
         IN  /\ i \in 0..Height /\ lcdLines[i] # NULL /\ x \in Strings
             /\ \/ /\ Draw(t, Whole(x), i, "LEFT", "next") /\ UNCHANGED scroll
                \/ /\ Draw(t, Whole(x), i, "LEFT", "frame")
                   /\ scroll' = [scroll EXCEPT ![t] = [line |-> i, len |-> LengthOf[x], next |-> 1]]
                \/ /\ pc[t] = "frame" /\ scroll[t].next <= scroll[t].len - Width
                   /\ Draw(t, From(x, scroll[t].next), i, "LEFT", "frame")
                   /\ scroll' = [scroll EXCEPT ![t] = [line |-> i, len |-> scroll[t].len,
                                                      next |-> scroll[t].next + 1]]
<1> DEFINE i == scroll[t].line
           x == lcdLines[i].text
<1>1. i \in 0..Height /\ lcdLines[i] # NULL
  BY ThreadTypes DEF BeginScroll, NextFrame, At, PlaceOK, ScrollsOn
<1>2. x \in Strings
  BY <1>1, LineType
<1>3. CASE BeginScroll(t)
  BY <1>1, <1>2, <1>3 DEF BeginScroll
<1>4. CASE NextFrame(t)
  <2>1. CASE scroll[t].next <= scroll[t].len - Width
    <3>1. /\ pc[t] = "frame" /\ Draw(t, From(x, scroll[t].next), i, "LEFT", "frame")
          /\ scroll' = [scroll EXCEPT ![t].next = @ + 1]
      BY <1>4, <2>1 DEF NextFrame, At
    <3>2. [scroll[t] EXCEPT !.next = @ + 1] = [line |-> i, len |-> scroll[t].len, next |-> scroll[t].next + 1]
      <4>1. scroll[t] \in Scroll
        BY ThreadTypes
      <4> QED
        BY <4>1 DEF Scroll
    <3>3. scroll' = [scroll EXCEPT ![t] = [scroll[t] EXCEPT !.next = @ + 1]]
      BY <3>1, ThreadTypes
    <3> QED
      BY <1>1, <1>2, <2>1, <3>1, <3>2, <3>3
  <2>2. CASE ~(scroll[t].next <= scroll[t].len - Width)
    BY <1>1, <1>2, <1>4, <2>2 DEF NextFrame
  <2> QED
    BY <2>1, <2>2
<1> QED
  BY <1>3, <1>4

LEMMA ScrolledTypes ==
  ASSUME TypeInv, NEW t \in Threads, BeginScroll(t) \/ NextFrame(t)
  PROVE  TypeInv'
<1> DEFINE i == scroll[t].line
           x == lcdLines[i].text
<1>1. UNCHANGED <<glass, lcdLines, env, todo, status, history>>
  BY DEF BeginScroll, NextFrame
<1>2. /\ i \in 0..Height /\ lcdLines[i] # NULL /\ x \in Strings /\ LengthOf[x] \in Nat /\ i \in Nat
      /\ "LEFT" \in Aligns /\ scroll[t].next \in Nat /\ scroll[t].len \in Nat
      /\ Whole(x) \in CString /\ From(x, scroll[t].next) \in CString
  <2>1. i \in 0..Height /\ lcdLines[i] # NULL /\ x \in Strings
    BY Scrolled
  <2>2. scroll[t].next \in Nat /\ scroll[t].len \in Nat
    BY ThreadTypes
  <2>3. LengthOf[x] \in Nat /\ i \in Nat
    BY <2>1, Sizes
  <2>4. Whole(x) \in CString /\ From(x, scroll[t].next) \in CString
    BY <2>1, <2>2, FromType DEF Whole
  <2> QED
    BY <2>1, <2>2, <2>3, <2>4 DEF Aligns
<1>3. \E s \in CString, b \in {"next", "frame"} : Draw(t, s, i, "LEFT", b)
  BY <1>2, Scrolled
<1>4. /\ call' \in [Threads -> Call] /\ sent' \in [Threads -> 0..Width]
      /\ pc' = [pc EXCEPT ![t] = "draw"] /\ pc' \in [Threads -> Labels]
      /\ call'[t].back \in {"next", "frame"} /\ \A u \in Threads \ {t} : call'[u] = call[u]
  <2>1. PICK s \in CString, b \in {"next", "frame"} : Draw(t, s, i, "LEFT", b)
    BY <1>3
  <2>2. /\ call' \in [Threads -> Call] /\ sent' \in [Threads -> 0..Width]
        /\ pc' = [pc EXCEPT ![t] = "draw"] /\ pc' \in [Threads -> Labels]
        /\ \E chars \in Formatted(s, "LEFT") :
             call' = [call EXCEPT ![t] = [row |-> RowOf(i), chars |-> chars, back |-> b]]
    BY <1>2, <2>1, DrawTypes
  <2> QED
    BY <2>2, ThreadTypes
<1>5. \E n \in Nat, m \in Nat : m <= n + 1 /\
        (scroll' = scroll \/ scroll' = [scroll EXCEPT ![t] = [line |-> i, len |-> n, next |-> m]])
  <2>1. \/ scroll' = scroll
        \/ scroll' = [scroll EXCEPT ![t] = [line |-> i, len |-> LengthOf[x], next |-> 1]]
        \/ /\ scroll[t].next <= scroll[t].len - Width
           /\ scroll' = [scroll EXCEPT ![t] = [line |-> i, len |-> scroll[t].len,
                                              next |-> scroll[t].next + 1]]
    BY Scrolled
  <2>2. scroll[t].next <= scroll[t].len - Width => scroll[t].next + 1 <= scroll[t].len + 1
    BY <1>2, Sizes
  <2> QED
    BY <1>2, <2>1, <2>2
<1>6. /\ scroll' \in [Threads -> Scroll] /\ scroll'[t].line = i
      /\ scroll'[t].next <= scroll'[t].len + 1 /\ \A u \in Threads \ {t} : scroll'[u] = scroll[u]
  <2>1. CASE scroll' = scroll
    BY <2>1, ThreadTypes DEF PlaceOK
  <2>2. ASSUME NEW n \in Nat, NEW m \in Nat, m <= n + 1,
               scroll' = [scroll EXCEPT ![t] = [line |-> i, len |-> n, next |-> m]]
        PROVE  /\ scroll' \in [Threads -> Scroll] /\ scroll'[t].line = i
               /\ scroll'[t].next <= scroll'[t].len + 1 /\ \A u \in Threads \ {t} : scroll'[u] = scroll[u]
    <3>1. [line |-> i, len |-> n, next |-> m] \in Scroll
      BY <1>2 DEF Scroll
    <3> QED
      BY <2>2, <3>1, ThreadTypes
  <2> QED
    BY <1>5, <2>1, <2>2
<1>7. GlassOK' /\ LinesOK' /\ EnvOK'
  BY <1>1 DEF TypeInv, GlassOK, LinesOK, EnvOK, glass, env, history
<1>8. ThreadsOK'
  BY <1>1, <1>4, <1>6 DEF TypeInv, ThreadsOK, history
<1>9. ASSUME NEW u \in Threads PROVE PlaceOK(u)'
  <2>1. CASE u = t
    <3>1. pc'[t] = "draw"
      BY <1>4, ThreadTypes
    <3> QED
      BY <1>1, <1>2, <1>4, <1>6, <2>1, <3>1 DEF PlaceOK, ScrollsOn
  <2>2. CASE u # t
    <3>1. /\ pc'[u] = pc[u] /\ todo'[u] = todo[u] /\ call'[u] = call[u] /\ scroll'[u] = scroll[u]
          /\ lcdLines' = lcdLines
      BY <1>1, <1>4, <1>6, <2>2, ThreadTypes
    <3> QED
      BY <3>1, ThreadTypes DEF PlaceOK, ScrollsOn
  <2> QED
    BY <2>1, <2>2
<1> QED
  BY <1>7, <1>8, <1>9 DEF TypeInv

LEMMA WriteTypes == ASSUME TypeInv, NEW t \in Threads, Write(t) PROVE TypeInv'
<1>1. /\ pc[t] = "draw"
      /\ \/ /\ sent[t] < Width /\ sent' = [sent EXCEPT ![t] = @ + 1] /\ UNCHANGED <<pc, call>>
         \/ /\ sent' = [sent EXCEPT ![t] = 0] /\ call' = [call EXCEPT ![t] = NoCall]
            /\ pc' = [pc EXCEPT ![t] = call[t].back]
      /\ UNCHANGED <<lcdLines, env, todo, scroll, status, history>>
  BY DEF Write, At, Goto
<1>2. call[t].back \in {"next", "scroll", "frame"} /\ sent[t] \in 0..Width
  BY <1>1, ThreadTypes DEF PlaceOK
<1>3. NoCall \in Call
  <2>1. [k \in 1..Width |-> Blank] \in Row
    BY DEF Row
  <2> QED
    BY <2>1, Sizes DEF NoCall, Call
<1>4. pc' \in [Threads -> Labels] /\ call' \in [Threads -> Call] /\ sent' \in [Threads -> 0..Width]
  <2>1. /\ pc \in [Threads -> Labels] /\ call \in [Threads -> Call] /\ sent \in [Threads -> 0..Width]
    BY DEF TypeInv, ThreadsOK
  <2>2. sent[t] < Width => sent[t] + 1 \in 0..Width
    BY <1>2, Sizes
  <2>3. 0 \in 0..Width
    BY Sizes
  <2>4. call[t].back \in Labels
    BY <1>2 DEF Labels
  <2>5. pc' \in [Threads -> Labels]
    BY <1>1, <2>1, <2>4
  <2>6. call' \in [Threads -> Call]
    BY <1>1, <1>3, <2>1
  <2>7. sent' \in [Threads -> 0..Width]
    BY <1>1, <2>1, <2>2, <2>3
  <2> QED
    BY <2>5, <2>6, <2>7
<1>5. LinesOK' /\ EnvOK' /\ ThreadsOK'
  BY <1>1, <1>4 DEF TypeInv, LinesOK, EnvOK, ThreadsOK, env, history
<1>6. ASSUME NEW u \in Threads PROVE PlaceOK(u)'
  <2>1. CASE u = t
    <3>1. /\ scroll' = scroll /\ lcdLines' = lcdLines /\ todo' = todo
          /\ \/ pc'[t] = "draw" /\ call'[t] = call[t]
             \/ pc'[t] = call[t].back
      BY <1>1, ThreadTypes
    <3> QED
      BY <1>1, <1>2, <2>1, <3>1, ThreadTypes DEF PlaceOK, ScrollsOn
  <2>2. CASE u # t
    <3>1. /\ pc'[u] = pc[u] /\ todo' = todo /\ call'[u] = call[u] /\ scroll' = scroll
          /\ lcdLines' = lcdLines
      BY <1>1, <2>2, ThreadTypes
    <3> QED
      BY <3>1, ThreadTypes DEF PlaceOK, ScrollsOn
  <2> QED
    BY <2>1, <2>2
<1> QED
  BY <1>5, <1>6, WriteGlass DEF TypeInv

LEMMA ReturnTypes == ASSUME TypeInv, NEW t \in Threads, Return(t) PROVE TypeInv'
<1>1. /\ pc[t] = "next" /\ todo[t] = <<>> /\ pc' = [pc EXCEPT ![t] = "idle"]
      /\ scroll' = [scroll EXCEPT ![t] = [line |-> 1, len |-> 0, next |-> 0]]
      /\ status' = [status EXCEPT ![t] = "none"] /\ asked' = [asked EXCEPT ![t] = <<>>]
      /\ before' = [before EXCEPT ![t] = NULL] /\ process' = "up"
      /\ UNCHANGED <<glass, lcdLines, config, host, todo, call, sent, overlap>>
  BY DEF Return, Ended, At, Goto, NoScroll
<1>2. GlassOK' /\ LinesOK' /\ EnvOK'
  BY <1>1 DEF TypeInv, GlassOK, LinesOK, EnvOK, glass
<1>3. [line |-> 1, len |-> 0, next |-> 0] \in Scroll
  BY Sizes DEF Scroll
<1>4. ThreadsOK'
  BY <1>1, <1>3 DEF TypeInv, ThreadsOK, Labels
<1>5. ASSUME NEW u \in Threads PROVE PlaceOK(u)'
  <2>1. CASE u = t
    <3>1. pc'[t] = "idle" /\ scroll'[t].next = 0 /\ scroll'[t].len = 0
      BY <1>1, ThreadTypes
    <3> QED
      BY <2>1, <3>1 DEF PlaceOK, ScrollsOn
  <2>2. CASE u # t
    <3>1. /\ pc'[u] = pc[u] /\ todo' = todo /\ call' = call /\ scroll'[u] = scroll[u]
          /\ lcdLines' = lcdLines
      BY <1>1, <2>2, ThreadTypes
    <3> QED
      BY <3>1, ThreadTypes DEF PlaceOK, ScrollsOn
  <2> QED
    BY <2>1, <2>2
<1> QED
  BY <1>2, <1>4, <1>5 DEF TypeInv

LEMMA HandleSigsTypes == ASSUME TypeInv, NEW h \in Clients \cup {Main}, HandleSigs(h) PROVE TypeInv'
<1>1. /\ host' = h /\ todo' = [todo EXCEPT ![Handler] = Farewell]
      /\ pc' = [pc EXCEPT ![Handler] = "next"] /\ Overlapping(Handler, Farewell)
      /\ UNCHANGED <<glass, lcdLines, config, process, call, sent, scroll, status>>
  BY DEF HandleSigs, Goto
<1>2. Handler \in Threads /\ h \in Threads /\ Farewell \in Seq(Items)
  BY ItemTypes DEF Threads
<1>3. /\ asked' \in [Threads -> Seq(Asks)] /\ overlap' \in BOOLEAN
      /\ before' \in [Threads -> [1..Height -> Row] \cup {NULL}]
  BY <1>1, <1>2, AsksItems, HistoryTypes
<1>4. GlassOK' /\ LinesOK' /\ EnvOK'
  BY <1>1, <1>2, <1>3 DEF TypeInv, GlassOK, LinesOK, EnvOK, glass
<1>5. ThreadsOK'
  BY <1>1, <1>2, <1>3 DEF TypeInv, ThreadsOK, Labels
<1>6. \A u \in Threads : PlaceOK(u)'
  BY <1>1, <1>2 DEF TypeInv, PlaceOK, ScrollsOn, ThreadsOK
<1> QED
  BY <1>4, <1>5, <1>6 DEF TypeInv

LEMMA RestartTypes == ASSUME TypeInv, Restart PROVE TypeInv'
<1> DEFINE ls == ClearLines \o Greeting
<1>1. /\ process' = "starting" /\ config' \in Settings /\ lost' = FALSE
      /\ todo' = [todo EXCEPT ![Main] = ls] /\ pc' = [pc EXCEPT ![Main] = "next"]
      /\ asked' = [asked EXCEPT ![Main] = ls] /\ before' = [before EXCEPT ![Main] = panel]
      /\ overlap' = FALSE
      /\ UNCHANGED <<panel, cursor, lcdLines, host, call, sent, scroll, status>>
  BY DEF Restart, Goto
<1>2. Main \in Threads /\ ls \in Seq(Items)
  BY ItemTypes DEF Threads
<1>3. ls \in Seq(Asks)
  BY <1>2, AsksItems
<1> HIDE DEF ls
<1>4. GlassOK' /\ LinesOK' /\ EnvOK'
  BY <1>1 DEF TypeInv, GlassOK, LinesOK, EnvOK
<1>5. ThreadsOK'
  BY <1>1, <1>2, <1>3 DEF TypeInv, ThreadsOK, GlassOK, Labels
<1>6. \A u \in Threads : PlaceOK(u)'
  BY <1>1, <1>2 DEF TypeInv, PlaceOK, ScrollsOn, ThreadsOK
<1> QED
  BY <1>4, <1>5, <1>6 DEF TypeInv

LEMMA TypeStep == TypeInv /\ [Next]_vars => TypeInv'
<1> SUFFICES ASSUME TypeInv, [Next]_vars PROVE TypeInv'
  OBVIOUS
<1>1. CASE UNCHANGED vars
  BY <1>1 DEF TypeInv, GlassOK, LinesOK, EnvOK, ThreadsOK, PlaceOK, ScrollsOn, vars, glass, env, locals, history
<1>2. \A t \in Clients : t \in Threads
  BY DEF Threads
<1> QED
  BY <1>1, <1>2, Steps, CommandTypes, TakeLineTypes, AllocateTypes, RefuseAlignTypes, StoreLineTypes,
     NoScrollingTypes, ScrolledTypes, WriteTypes, ReturnTypes, DieTypes, HandleSigsTypes, RestartTypes

\* The state stays typed: the panel's cursor on the panel or off screen, a
\* thread's writes within the row, lcdLines within line 0 and the height.
THEOREM TypeCorrect == Spec => []TypeOK
<1>1. TypeInv => TypeOK
  <2> SUFFICES ASSUME TypeInv PROVE TypeOK
    OBVIOUS
  <2>1. ASSUME NEW t \in Threads
        PROVE  /\ call[t].row \in 1..Height /\ call[t].chars \in Row
               /\ sent[t] \in 0..Width
               /\ scroll[t].line \in 0..Height /\ scroll[t].next \in 0..(scroll[t].len + 1)
               /\ before[t] = NULL \/ before[t] \in [1..Height -> Row]
    <3>1. before[t] = NULL \/ before[t] \in [1..Height -> Row]
      BY DEF TypeInv, ThreadsOK
    <3> QED
      BY <3>1, ThreadTypes DEF PlaceOK
  <2> QED
    BY <2>1 DEF TypeInv, GlassOK, LinesOK, EnvOK, ThreadsOK, TypeOK
<1> QED
  BY <1>1, InitTypes, TypeStep, PTL DEF Spec

-----------------------------------------------------------------------------
(***************************************************************************)
(* No garbage: the memory malloc leaves in a line is replaced by a text    *)
(* before the line can be drawn from lcdLines.  Start-up sets every line   *)
(* that MSG_SCROLL takes; the others are scrolled only after a StoreLine,  *)
(* which a second command can undo only on line 0 (its test of the pointer *)
(* in TakeLine comes before its malloc).                                   *)
(***************************************************************************)
Clean(chars) == \A k \in 1..Width : chars[k][1] \notin Garbage
CleanLine(i) == lcdLines[i] # NULL /\ lcdLines[i].text \notin Garbage

\* What NoGarbageShown asks for: once lost, it is lost until the process ends.
LineZeroSafe == ~overlap \/ lcdLines[0] = NULL

\* Who may be at work in each phase of the process.
Phases ==
  /\ process = "down" =>
       /\ host = NULL /\ panel = Off /\ \A i \in 0..Height : lcdLines[i] = NULL
       /\ \A t \in Threads : pc[t] = "idle"
  /\ process = "starting" =>
       /\ host \in {NULL, Main} /\ pc[Main] # "idle"
       /\ \A t \in Clients : pc[t] = "idle"
  /\ host = NULL => pc[Handler] = "idle"
  /\ ~overlap => \A t, u \in Threads : pc[t] # "idle" /\ pc[u] # "idle" => t = u

\* Main still has to set the line i.
ToSet(i) == \E k \in 1..Len(todo[Main]) : todo[Main][k].line = i /\ todo[Main][k].align \in Aligns

LinesSet ==
  /\ process = "up" => \A i \in 1..Height : CleanLine(i)
  /\ process = "starting" /\ host = NULL => \A i \in 1..Height : CleanLine(i) \/ ToSet(i)
  /\ \A t \in Threads : pc[t] = "malloc" =>
       /\ process = "up" => Head(todo[t]).line = 0
       /\ process = "starting" /\ t # host => lcdLines[Head(todo[t]).line] = NULL

\* Who scrolls a line has set it, or took one that is always set.
ScrollsClean(t) ==
  ScrollsOn(t, "scroll") \/ ScrollsOn(t, "frame") =>
    lcdLines[scroll[t].line] # NULL /\ (LineZeroSafe => CleanLine(scroll[t].line))

GlassClean == LineZeroSafe =>
  /\ \A t \in Threads : Clean(call[t].chars)
  /\ \A r \in 1..Height : Clean(panel[r])

CleanInv == Phases /\ LinesSet /\ (\A t \in Threads : ScrollsClean(t)) /\ GlassClean

LEMMA BlankClean == Clean([k \in 1..Width |-> Blank]) /\ Blank[1] \notin Garbage
BY NamedTexts DEF Clean, Blank

LEMMA PlacedClean ==
  ASSUME NEW s \in CString, s.text \notin Garbage, NEW n \in Nat, NEW m \in Int
  PROVE  Clean(Placed([s EXCEPT !.len = n], m))
<1> DEFINE t == [s EXCEPT !.len = n]
<1>1. t.text = s.text
  BY DEF CString
<1> HIDE DEF t
<1>2. ASSUME NEW j PROVE Char(s.text, j)[1] \notin Garbage
  BY BlankClean DEF Char
<1>3. \A k \in 1..Width : Placed(t, m)[k] = Blank \/ \E j : Placed(t, m)[k] = Char(s.text, j)
  BY <1>1 DEF Placed
<1>4. Clean(Placed(t, m))
  BY <1>2, <1>3, BlankClean DEF Clean
<1> QED
  BY <1>4 DEF t

LEMMA FormattedClean ==
  ASSUME NEW s \in CString, s.text \notin Garbage, NEW align \in Aligns, NEW chars \in Formatted(s, align)
  PROVE  Clean(chars)
<1> DEFINE n == Least(s.len, MaxLen)
<1>1. n \in Nat /\ Width \in Nat
  BY Sizes, LeastType DEF CString
<1>2. n = Least(s.len, MaxLen)
  BY DEF n
<1> HIDE DEF n
<1>3. \E m \in Int : chars = Placed([s EXCEPT !.len = n], m) \/ chars = [k \in 1..Width |-> Blank]
  <2>1. Least(n, Width) \in Nat
    BY <1>1, LeastType
  <2>2. CASE align = "LEFT"
    BY <1>2, <2>2, FormattedCases
  <2>3. CASE align = "RIGHT"
    BY <1>1, <1>2, <2>1, <2>3, FormattedCases
  <2>4. CASE align = "CENTER"
    BY <1>1, <1>2, <2>4, FormattedCases
  <2> QED
    BY <2>2, <2>3, <2>4 DEF Aligns
<1> QED
  BY <1>1, <1>3, BlankClean, PlacedClean

\* A thread that draws a clean text draws clean characters.
LEMMA DrawClean ==
  ASSUME TypeInv, NEW t \in Threads, NEW s \in CString, s.text \notin Garbage, NEW line \in Nat,
         NEW align \in Aligns, NEW back, Draw(t, s, line, align, back),
         \A u \in Threads : Clean(call[u].chars)
  PROVE  \A u \in Threads : Clean(call'[u].chars)
<1>1. PICK chars \in Formatted(s, align) :
        call' = [call EXCEPT ![t] = [row |-> RowOf(line), chars |-> chars, back |-> back]]
  BY DEF Draw
<1>2. Clean(chars)
  BY <1>1, FormattedClean
<1> QED
  BY <1>1, <1>2, ThreadTypes

\* The phases last while the threads at work are the same.
LEMMA PhasesKept ==
  ASSUME Phases, process # "down", UNCHANGED <<env, overlap>>,
         \A u \in Threads : pc'[u] = "idle" <=> pc[u] = "idle"
  PROVE  Phases'
BY DEF Phases, env, Threads

\* Until the start is over, one thread runs.
LEMMA OneRunner ==
  ASSUME Phases, process = "starting", NEW t \in Threads, NEW u \in Threads,
         t # host, u # host, pc[t] # "idle", pc[u] # "idle"
  PROVE  t = u
BY DEF Phases, Threads

\* In the start it is main that sets the lines, unless it was interrupted.
LEMMA MainRuns ==
  ASSUME Phases, process = "starting", host = NULL, NEW t \in Threads, pc[t] # "idle"
  PROVE  t = Main
BY DEF Phases, Threads

LEMMA DropFirst ==
  ASSUME TypeInv, todo[Main] # <<>>, todo'[Main] = Tail(todo[Main]), NEW i, ToSet(i),
         ~(Head(todo[Main]).line = i /\ Head(todo[Main]).align \in Aligns)
  PROVE  ToSet(i)'
<1>1. todo[Main] \in Seq(Items)
  BY DEF TypeInv, ThreadsOK, Threads
<1>2. PICK k \in 1..Len(todo[Main]) : todo[Main][k].line = i /\ todo[Main][k].align \in Aligns
  BY DEF ToSet
<1>3. k # 1
  BY <1>1, <1>2
<1>4. k - 1 \in 1..Len(Tail(todo[Main])) /\ Tail(todo[Main])[k - 1] = todo[Main][k]
  BY <1>1, <1>2, <1>3
<1> QED
  BY <1>2, <1>4 DEF ToSet

LEMMA InitClean == Init => CleanInv
<1> SUFFICES ASSUME Init PROVE CleanInv
  OBVIOUS
<1>1. Phases /\ LinesSet
  BY DEF Init, Phases, LinesSet, ForAll, Threads
<1>2. \A t \in Threads : ScrollsClean(t)
  BY DEF Init, ScrollsClean, ScrollsOn, ForAll
<1>3. GlassClean
  BY BlankClean DEF Init, GlassClean, ForAll, NoCall, Off
<1> QED
  BY <1>1, <1>2, <1>3 DEF CleanInv

LEMMA DieClean == Die => CleanInv'
<1> SUFFICES ASSUME Die PROVE CleanInv'
  OBVIOUS
<1>1. Phases' /\ LinesSet'
  BY DEF Die, Phases, LinesSet, ForAll, Threads
<1>2. \A t \in Threads : ScrollsClean(t)'
  BY DEF Die, ScrollsClean, ScrollsOn, ForAll
<1>3. GlassClean'
  BY BlankClean DEF Die, GlassClean, ForAll, NoCall, Off
<1> QED
  BY <1>1, <1>2, <1>3 DEF CleanInv

LEMMA RestartClean == TypeInv /\ CleanInv /\ Restart => CleanInv'
<1> SUFFICES ASSUME TypeInv, CleanInv, Restart PROVE CleanInv'
  OBVIOUS
<1> DEFINE ls == ClearLines \o Greeting
<1>1. /\ process = "down" /\ process' = "starting" /\ overlap' = FALSE
      /\ todo' = [todo EXCEPT ![Main] = ls] /\ pc' = [pc EXCEPT ![Main] = "next"]
      /\ UNCHANGED <<panel, lcdLines, host, call, scroll>>
  BY DEF Restart, Goto
<1>2. /\ \A t \in Threads : pc[t] = "idle"
      /\ \A i \in 0..Height : lcdLines[i] = NULL
      /\ host = NULL /\ panel = Off
  BY <1>1 DEF CleanInv, Phases
<1>3. /\ pc'[Main] = "next" /\ todo'[Main] = ls /\ \A t \in Threads \ {Main} : pc'[t] = "idle"
  BY <1>1, <1>2 DEF TypeInv, ThreadsOK, Threads
<1>4. Phases'
  BY <1>1, <1>2, <1>3, ThreadsDiffer DEF Phases, Threads
<1>5. ASSUME NEW i \in 1..Height PROVE ToSet(i)'
  <2>1. ClearLines \in Seq(Items) /\ Greeting \in Seq(Items) /\ Len(ClearLines) = Height
    BY ItemTypes, Sizes DEF ClearLines
  <2>2. i \in 1..Len(ls) /\ ls[i] = ClearLines[i]
    BY <2>1, Sizes
  <2>3. ClearLines[i].line = i /\ ClearLines[i].align \in Aligns
    BY DEF ClearLines, ClearLine, Item, Aligns
  <2> HIDE DEF ls
  <2> QED
    BY <1>3, <2>2, <2>3 DEF ToSet
<1>6. LinesSet'
  <2> HIDE DEF ls
  <2> QED
    BY <1>1, <1>3, <1>5 DEF LinesSet
<1>7. \A t \in Threads : ScrollsClean(t)'
  BY <1>3 DEF ScrollsClean, ScrollsOn
<1>8. GlassClean'
  <2>1. LineZeroSafe
    BY <1>2, Sizes DEF LineZeroSafe
  <2> QED
    BY <1>1, <2>1 DEF CleanInv, GlassClean
<1> QED
  BY <1>4, <1>6, <1>7, <1>8 DEF CleanInv

LEMMA HandleSigsClean ==
  ASSUME TypeInv, CleanInv, NEW h \in Clients \cup {Main}, HandleSigs(h)
  PROVE  CleanInv'
<1>1. /\ process # "down" /\ host = NULL
      /\ process = "starting" => h = Main
      /\ host' = h /\ todo' = [todo EXCEPT ![Handler] = Farewell]
      /\ pc' = [pc EXCEPT ![Handler] = "next"] /\ overlap' = (overlap \/ Busy # {})
      /\ UNCHANGED <<panel, lcdLines, process, call, scroll>>
  BY DEF HandleSigs, Goto, Overlapping, glass
<1>2. /\ Handler \in Threads /\ h # NULL /\ Handler # Main /\ Handler \notin Clients
      /\ pc \in [Threads -> Labels] /\ todo \in [Threads -> Seq(Items)]
  BY ThreadsDiffer DEF Threads, TypeInv, ThreadsOK
<1>3. pc'[Handler] = "next" /\ \A u \in Threads \ {Handler} : pc'[u] = pc[u] /\ todo'[u] = todo[u]
  BY <1>1, <1>2
<1>4. LineZeroSafe' => LineZeroSafe
  BY <1>1 DEF LineZeroSafe
<1>5. Phases'
  <2>1. ~overlap' => Busy = {} /\ \A u \in Threads : pc[u] = "idle"
    BY <1>1 DEF Busy
  <2>2. \A u \in Clients : u \in Threads \ {Handler}
    BY <1>2 DEF Threads
  <2> QED
    BY <1>1, <1>2, <1>3, <2>1, <2>2 DEF CleanInv, Phases
<1>6. LinesSet'
  <2>1. process' = "up" => \A i \in 1..Height : CleanLine(i)'
    BY <1>1 DEF CleanInv, LinesSet, CleanLine
  <2>2. host' # NULL
    BY <1>1, <1>2
  <2>3. ASSUME NEW u \in Threads, pc'[u] = "malloc"
        PROVE  /\ process' = "up" => Head(todo'[u]).line = 0
               /\ process' = "starting" /\ u # host' => lcdLines'[Head(todo'[u]).line] = NULL
    <3>1. u # host /\ u # Handler
      BY <1>1, <1>3, <2>3, ThreadsDiffer
    <3> QED
      BY <1>1, <1>3, <2>3, <3>1 DEF CleanInv, LinesSet
  <2> QED
    BY <2>1, <2>2, <2>3 DEF LinesSet
<1>7. ASSUME NEW u \in Threads PROVE ScrollsClean(u)'
  BY <1>1, <1>3, <1>4 DEF CleanInv, ScrollsClean, ScrollsOn, CleanLine
<1>8. GlassClean'
  BY <1>1, <1>4 DEF CleanInv, GlassClean
<1> QED
  BY <1>5, <1>6, <1>7, <1>8 DEF CleanInv

LEMMA CommandClean ==
  ASSUME TypeInv, CleanInv, NEW t \in Clients,
         \/ \E ls \in Seq(Items), a \in Answers : SetLines(t, ls, a)
         \/ Refuse(t)
         \/ \E i \in 1..Height : ScrollRow(t, i)
  PROVE  CleanInv'
<1>1. /\ process = "up" /\ t \in Threads /\ UNCHANGED <<panel, lcdLines, process, host, call>>
      /\ overlap' = (overlap \/ Busy # {})
  BY DEF SetLines, Refuse, ScrollRow, Command, Overlapping, glass, env, Threads
<1>2. pc \in [Threads -> Labels] /\ todo \in [Threads -> Seq(Items)] /\ scroll \in [Threads -> Scroll]
  BY DEF TypeInv, ThreadsOK
<1>3. /\ \E l \in {"next", "scroll"} : pc' = [pc EXCEPT ![t] = l]
      /\ todo' = todo \/ \E ls \in Seq(Items) : todo' = [todo EXCEPT ![t] = ls]
      /\ \/ pc' = [pc EXCEPT ![t] = "next"] /\ scroll' = scroll
         \/ \E i \in 1..Height : scroll' = [scroll EXCEPT ![t] = [line |-> i, len |-> 0, next |-> 0]]
  BY FreshScroll DEF SetLines, Refuse, ScrollRow, Goto
<1>4. /\ pc'[t] \in {"next", "scroll"}
      /\ \A u \in Threads \ {t} : pc'[u] = pc[u] /\ todo'[u] = todo[u] /\ scroll'[u] = scroll[u]
      /\ pc'[t] = "next" \/ scroll'[t].line \in 1..Height
  BY <1>1, <1>2, <1>3
<1>5. LineZeroSafe' => LineZeroSafe
  BY <1>1 DEF LineZeroSafe
<1>6. Phases'
  <2>1. ~overlap' => Busy = {} /\ \A u \in Threads : pc[u] = "idle"
    BY <1>1 DEF Busy
  <2> QED
    BY <1>1, <1>4, <2>1, ThreadsDiffer DEF CleanInv, Phases, Threads
<1>7. LinesSet'
  BY <1>1, <1>4 DEF CleanInv, LinesSet, CleanLine
<1>8. ASSUME NEW u \in Threads PROVE ScrollsClean(u)'
  <2>1. CASE u = t
    BY <1>1, <1>4, <2>1 DEF CleanInv, LinesSet, ScrollsClean, ScrollsOn, CleanLine
  <2>2. CASE u # t
    BY <1>1, <1>4, <1>5, <2>2 DEF CleanInv, ScrollsClean, ScrollsOn, CleanLine
  <2> QED
    BY <2>1, <2>2
<1>9. GlassClean'
  BY <1>1, <1>5 DEF CleanInv, GlassClean
<1> QED
  BY <1>6, <1>7, <1>8, <1>9 DEF CleanInv

LEMMA TakeLineClean == ASSUME TypeInv, CleanInv, NEW t \in Threads, TakeLine(t) PROVE CleanInv'
<1> DEFINE j == Head(todo[t])
<1>1. /\ process # "down" /\ t # host /\ pc[t] = "next" /\ todo[t] # <<>>
      /\ UNCHANGED <<panel, lcdLines, process, host, call, scroll, overlap>> /\ UNCHANGED env
      /\ \/ j.line > Height /\ todo' = [todo EXCEPT ![t] = Tail(@)] /\ pc' = pc
         \/ /\ j.line <= Height /\ todo' = todo
            /\ pc' = [pc EXCEPT ![t] = IF lcdLines[j.line] = NULL THEN "malloc" ELSE "store"]
  BY DEF TakeLine, At, Running, Goto, glass, env, history
<1>2. j.line \in Nat /\ pc \in [Threads -> Labels] /\ todo \in [Threads -> Seq(Items)]
  BY <1>1, FirstItem, ThreadTypes
<1>3. /\ \A u \in Threads \ {t} : pc'[u] = pc[u] /\ todo'[u] = todo[u]
      /\ pc'[t] = "malloc" => todo' = todo /\ lcdLines[j.line] = NULL /\ j.line \in 0..Height
      /\ pc'[t] \in {"next", "malloc", "store"}
      /\ \/ todo' = todo
         \/ j.line > Height /\ todo'[t] = Tail(todo[t])
  <2> HIDE DEF j
  <2> QED
    BY <1>1, <1>2, Sizes
<1> HIDE DEF j
<1>4. Phases'
  BY <1>1, <1>3, PhasesKept DEF CleanInv
<1>5. LinesSet'
  <2>1. \A i \in 1..Height : CleanLine(i) => CleanLine(i)'
    BY <1>1 DEF CleanLine
  <2>2. ASSUME process' = "starting", host' = NULL, NEW i \in 1..Height PROVE CleanLine(i)' \/ ToSet(i)'
    <3>1. t = Main /\ (CleanLine(i) \/ ToSet(i))
      BY <1>1, <2>2, MainRuns DEF CleanInv, LinesSet
    <3>2. CASE ToSet(i) /\ todo' # todo
      <4>1. j.line # i
        BY <1>2, <1>3, <3>2, Sizes
      <4> QED
        BY <1>1, <1>3, <3>1, <3>2, <4>1, DropFirst DEF j
    <3>3. CASE ToSet(i) /\ todo' = todo
      BY <3>3 DEF ToSet
    <3> QED
      BY <2>1, <3>1, <3>2, <3>3
  <2>3. ASSUME NEW u \in Threads, pc'[u] = "malloc"
        PROVE  /\ process' = "up" => Head(todo'[u]).line = 0
               /\ process' = "starting" /\ u # host' => lcdLines'[Head(todo'[u]).line] = NULL
    <3>1. CASE u = t
      <4>1. process = "up" => j.line = 0
        BY <1>3, <2>3, <3>1, Sizes DEF CleanInv, LinesSet, CleanLine
      <4> QED
        BY <1>1, <1>3, <2>3, <3>1, <4>1 DEF j
    <3>2. CASE u # t
      BY <1>1, <1>3, <2>3, <3>2 DEF CleanInv, LinesSet
    <3> QED
      BY <3>1, <3>2
  <2> QED
    BY <1>1, <2>1, <2>2, <2>3 DEF CleanInv, LinesSet
<1>6. ASSUME NEW u \in Threads PROVE ScrollsClean(u)'
  <2>1. CASE u = t
    BY <1>3, <2>1 DEF ScrollsClean, ScrollsOn
  <2>2. CASE u # t
    BY <1>1, <1>3, <2>2 DEF CleanInv, ScrollsClean, ScrollsOn, CleanLine, LineZeroSafe
  <2> QED
    BY <2>1, <2>2
<1>7. GlassClean'
  BY <1>1 DEF CleanInv, GlassClean, LineZeroSafe
<1> QED
  BY <1>4, <1>5, <1>6, <1>7 DEF CleanInv

LEMMA AllocateClean == ASSUME TypeInv, CleanInv, NEW t \in Threads, Allocate(t) PROVE CleanInv'
<1> DEFINE j == Head(todo[t]).line
<1>1. /\ process # "down" /\ t # host /\ pc[t] = "malloc" /\ pc' = [pc EXCEPT ![t] = "store"]
      /\ UNCHANGED <<panel, process, host, call, scroll, todo, overlap>> /\ UNCHANGED env
      /\ \E x \in Garbage : lcdLines' = [lcdLines EXCEPT ![j] = [text |-> x, align |-> NULL]]
  BY DEF Allocate, At, Running, Goto, glass, env, locals, history
<1>2. /\ pc \in [Threads -> Labels] /\ lcdLines \in [0..Height -> Line \cup {NULL}] /\ j \in 0..Height
      /\ process = "up" => j = 0
      /\ process = "starting" => lcdLines[j] = NULL
      /\ process \in {"starting", "up"}
  <2>1. pc \in [Threads -> Labels] /\ lcdLines \in [0..Height -> Line \cup {NULL}]
        /\ process \in {"starting", "up", "down"}
    BY DEF TypeInv, ThreadsOK, LinesOK, EnvOK
  <2>2. todo[t] # <<>> /\ j <= Height
    BY <1>1 DEF TypeInv, PlaceOK
  <2>3. j \in Nat
    BY <2>2, FirstItem
  <2> QED
    BY <1>1, <2>1, <2>2, <2>3, Sizes DEF CleanInv, LinesSet
<1> HIDE DEF j
<1>3. /\ \A u \in Threads \ {t} : pc'[u] = pc[u]
      /\ pc'[t] = "store"
      /\ \A i \in 0..Height : i # j => lcdLines'[i] = lcdLines[i]
      /\ lcdLines'[j] # NULL
  <2>1. PICK x \in Garbage : lcdLines' = [lcdLines EXCEPT ![j] = [text |-> x, align |-> NULL]]
    BY <1>1
  <2>2. [text |-> x, align |-> NULL] # NULL
    BY <2>1, NamedTexts, NullOK DEF Line
  <2> QED
    BY <1>1, <1>2, <2>1, <2>2
<1>4. Phases'
  BY <1>1, <1>3, PhasesKept DEF CleanInv
<1>5. \A i \in 1..Height : CleanLine(i) => CleanLine(i)'
  <2> SUFFICES ASSUME NEW i \in 1..Height, CleanLine(i) PROVE CleanLine(i)'
    OBVIOUS
  <2>1. i # j
    BY <1>2 DEF CleanLine
  <2> QED
    BY <1>3, <2>1 DEF CleanLine
<1>6. LinesSet'
  <2>1. ASSUME NEW u \in Threads, pc'[u] = "malloc"
        PROVE  /\ process' = "up" => Head(todo'[u]).line = 0
               /\ process' = "starting" /\ u # host' => lcdLines'[Head(todo'[u]).line] = NULL
    <3>1. u # t /\ pc[u] = "malloc"
      BY <1>3, <2>1
    <3>2. ~(process = "starting" /\ u # host)
      BY <1>1, <3>1, OneRunner DEF CleanInv
    <3> QED
      BY <1>1, <3>1, <3>2 DEF CleanInv, LinesSet
  <2>2. \A i \in 1..Height : ToSet(i) => ToSet(i)'
    BY <1>1 DEF ToSet
  <2> QED
    BY <1>1, <1>5, <2>1, <2>2 DEF CleanInv, LinesSet
<1>7. LineZeroSafe' => LineZeroSafe
  BY <1>1, <1>3, Sizes DEF LineZeroSafe
<1>8. ASSUME NEW u \in Threads PROVE ScrollsClean(u)'
  <2>1. CASE u = t
    BY <1>3, <2>1 DEF ScrollsClean, ScrollsOn
  <2>2. CASE u # t
    <3> SUFFICES ASSUME (ScrollsOn(u, "scroll") \/ ScrollsOn(u, "frame"))'
                 PROVE  (lcdLines[scroll[u].line] # NULL /\ (LineZeroSafe => CleanLine(scroll[u].line)))'
      BY DEF ScrollsClean
    <3> DEFINE i == scroll[u].line
    <3>1. /\ i \in 0..Height /\ scroll' = scroll /\ lcdLines[i] # NULL /\ pc[u] # "idle"
          /\ LineZeroSafe => CleanLine(i)
      BY <1>1, <1>3, <2>2, ThreadTypes DEF CleanInv, ScrollsClean, ScrollsOn
    <3> HIDE DEF i
    <3>2. CASE i # j
      <4>1. lcdLines'[i] = lcdLines[i]
        BY <1>3, <3>1, <3>2
      <4> QED
        BY <1>7, <3>1, <4>1 DEF i, CleanLine
    <3>3. CASE i = j
      <4>1. process = "up" /\ j = 0
        BY <1>2, <3>1, <3>3
      <4>2. ~LineZeroSafe'
        <5>1. overlap
          BY <1>1, <2>2, <3>1 DEF CleanInv, Phases
        <5> QED
          BY <1>1, <1>3, <4>1, <5>1 DEF LineZeroSafe
      <4> QED
        BY <1>3, <3>1, <3>3, <4>2 DEF i
    <3> QED
      BY <3>2, <3>3
  <2> QED
    BY <2>1, <2>2
<1>9. GlassClean'
  BY <1>1, <1>7 DEF CleanInv, GlassClean
<1> QED
  BY <1>4, <1>6, <1>8, <1>9 DEF CleanInv

LEMMA RefuseAlignClean == ASSUME TypeInv, CleanInv, NEW t \in Threads, RefuseAlign(t) PROVE CleanInv'
<1>1. /\ process # "down" /\ t # host /\ pc[t] = "store" /\ pc' = [pc EXCEPT ![t] = "next"]
      /\ Head(todo[t]).align \notin Aligns /\ todo' = [todo EXCEPT ![t] = Tail(@)]
      /\ UNCHANGED <<panel, lcdLines, process, host, call, scroll, overlap>> /\ UNCHANGED env
  BY DEF RefuseAlign, At, Running, Goto, glass, env, history
<1>2. todo[t] # <<>>
  BY <1>1 DEF TypeInv, PlaceOK
<1>3. /\ pc'[t] = "next" /\ todo'[t] = Tail(todo[t])
      /\ \A u \in Threads \ {t} : pc'[u] = pc[u] /\ todo'[u] = todo[u]
  BY <1>1, ThreadTypes
<1>4. Phases'
  BY <1>1, <1>3, PhasesKept DEF CleanInv
<1>5. LinesSet'
  <2>1. ASSUME process' = "starting", host' = NULL, NEW i \in 1..Height PROVE CleanLine(i)' \/ ToSet(i)'
    <3>1. t = Main /\ (CleanLine(i) \/ ToSet(i))
      BY <1>1, <2>1, MainRuns DEF CleanInv, LinesSet
    <3> QED
      BY <1>1, <1>2, <1>3, <3>1, DropFirst DEF CleanLine
  <2>2. ASSUME NEW u \in Threads, pc'[u] = "malloc"
        PROVE  /\ process' = "up" => Head(todo'[u]).line = 0
               /\ process' = "starting" /\ u # host' => lcdLines'[Head(todo'[u]).line] = NULL
    BY <1>1, <1>3, <2>2 DEF CleanInv, LinesSet
  <2> QED
    BY <1>1, <2>1, <2>2 DEF CleanInv, LinesSet, CleanLine
<1>6. \A u \in Threads : ScrollsClean(u)'
  BY <1>1, <1>3 DEF CleanInv, ScrollsClean, ScrollsOn, CleanLine, LineZeroSafe
<1>7. GlassClean'
  BY <1>1 DEF CleanInv, GlassClean, LineZeroSafe
<1> QED
  BY <1>4, <1>5, <1>6, <1>7 DEF CleanInv

LEMMA StoreLineClean == ASSUME TypeInv, CleanInv, NEW t \in Threads, StoreLine(t) PROVE CleanInv'
<1> DEFINE j == Head(todo[t]).line
           x == Head(todo[t]).text
           a == Head(todo[t]).align
<1>1. /\ pc[t] = "store" /\ todo[t] # <<>> /\ j \in 0..Height /\ a \in Aligns
      /\ x \in Known /\ Whole(x) \in CString
      /\ lcdLines' = [lcdLines EXCEPT ![j] = [text |-> x, align |-> a]]
      /\ Draw(t, Whole(x), j, "LEFT", "scroll") \/ Draw(t, Whole(x), j, a, "next")
      /\ scroll' = [scroll EXCEPT ![t] = [line |-> j, len |-> 0, next |-> 0]]
      /\ todo' = [todo EXCEPT ![t] = Tail(@)] /\ UNCHANGED <<glass, env, history>>
  BY Stored
<1>2. process # "down" /\ t # host
  BY DEF StoreLine, At, Running
<1> HIDE DEF j, x, a
<1>3. x \notin Garbage /\ [text |-> x, align |-> a] # NULL
  <2>1. [text |-> x, align |-> a] \in Line
    BY <1>1, NamedTexts DEF Line
  <2> QED
    BY <1>1, <2>1, NamedTexts, NullOK
<1>4. \A i \in 0..Height : IF i = j THEN CleanLine(i)' ELSE lcdLines'[i] = lcdLines[i]
  <2>1. lcdLines \in [0..Height -> Line \cup {NULL}]
    BY DEF TypeInv, LinesOK
  <2>2. lcdLines'[j] = [text |-> x, align |-> a] /\ \A i \in 0..Height : i # j => lcdLines'[i] = lcdLines[i]
    BY <1>1, <2>1
  <2> QED
    BY <1>3, <2>2 DEF CleanLine
<1>5. /\ UNCHANGED <<panel, process, host, overlap>>
      /\ pc'[t] = "draw" /\ todo'[t] = Tail(todo[t]) /\ scroll'[t].line = j
      /\ \A u \in Threads \ {t} :
           pc'[u] = pc[u] /\ todo'[u] = todo[u] /\ call'[u] = call[u] /\ scroll'[u] = scroll[u]
  BY <1>1, ThreadTypes DEF Draw, Goto, glass, env, history
<1>6. LineZeroSafe' => LineZeroSafe
  BY <1>4, <1>5, <1>1, Sizes DEF LineZeroSafe, CleanLine
<1>7. Phases'
  BY <1>1, <1>2, <1>5, PhasesKept DEF CleanInv, history
<1>8. \A i \in 0..Height : CleanLine(i) => CleanLine(i)'
  BY <1>4 DEF CleanLine
<1>9. LinesSet'
  <2>1. ASSUME process' = "starting", host' = NULL, NEW i \in 1..Height PROVE CleanLine(i)' \/ ToSet(i)'
    <3>1. t = Main /\ (CleanLine(i) \/ ToSet(i))
      BY <1>1, <1>5, <2>1, MainRuns DEF CleanInv, LinesSet
    <3>2. CASE j = i
      BY <1>4, <3>2
    <3>3. CASE j # i
      BY <1>1, <1>5, <1>8, <3>1, <3>3, DropFirst DEF j
    <3> QED
      BY <3>2, <3>3
  <2>2. ASSUME NEW u \in Threads, pc'[u] = "malloc"
        PROVE  /\ process' = "up" => Head(todo'[u]).line = 0
               /\ process' = "starting" /\ u # host' => lcdLines'[Head(todo'[u]).line] = NULL
    <3>1. u # t /\ pc[u] = "malloc"
      BY <1>5, <2>2
    <3>2. ~(process = "starting" /\ u # host)
      BY <1>1, <1>2, <3>1, OneRunner DEF CleanInv
    <3> QED
      BY <1>5, <3>1, <3>2 DEF CleanInv, LinesSet
  <2>3. process' = "up" => \A i \in 1..Height : CleanLine(i)'
    BY <1>5, <1>8 DEF CleanInv, LinesSet
  <2> QED
    BY <2>1, <2>2, <2>3 DEF LinesSet
<1>10. ASSUME NEW u \in Threads PROVE ScrollsClean(u)'
  <2>1. CASE u = t
    BY <1>1, <1>4, <1>5, <2>1 DEF ScrollsClean, CleanLine
  <2>2. CASE u # t
    <3> DEFINE i == scroll[u].line
    <3>1. i \in 0..Height /\ scroll'[u] = scroll[u] /\ pc'[u] = pc[u] /\ call'[u] = call[u]
      BY <1>5, <2>2, ThreadTypes
    <3>2. lcdLines[i] # NULL => lcdLines'[i] # NULL
      BY <1>4, <3>1 DEF CleanLine
    <3> QED
      BY <1>6, <1>8, <3>1, <3>2 DEF CleanInv, ScrollsClean, ScrollsOn
  <2> QED
    BY <2>1, <2>2
<1>11. GlassClean'
  <2> SUFFICES ASSUME LineZeroSafe' PROVE (\A u \in Threads : Clean(call[u].chars))' /\ (\A r \in 1..Height : Clean(panel[r]))'
    BY DEF GlassClean
  <2>1. (\A u \in Threads : Clean(call[u].chars)) /\ \A r \in 1..Height : Clean(panel[r])
    BY <1>6 DEF CleanInv, GlassClean
  <2>2. Whole(x).text \notin Garbage /\ "LEFT" \in Aligns /\ j \in Nat
    BY <1>1, <1>3, Sizes DEF Whole, From, Aligns
  <2>3. \A u \in Threads : Clean(call'[u].chars)
    BY <1>1, <2>1, <2>2, DrawClean
  <2> QED
    BY <1>5, <2>1, <2>3
<1> QED
  BY <1>7, <1>9, <1>10, <1>11 DEF CleanInv

LEMMA NoScrollingClean == ASSUME TypeInv, CleanInv, NEW t \in Threads, NoScrolling(t) PROVE CleanInv'
<1>1. /\ process # "down" /\ pc[t] = "scroll" /\ pc' = [pc EXCEPT ![t] = "next"]
      /\ UNCHANGED <<panel, lcdLines, process, host, call, scroll, todo, overlap>> /\ UNCHANGED env
  BY DEF NoScrolling, At, Running, Goto, glass, env, locals, history
<1>2. pc'[t] = "next" /\ \A u \in Threads \ {t} : pc'[u] = pc[u]
  BY <1>1, ThreadTypes
<1>3. Phases'
  BY <1>1, <1>2, PhasesKept DEF CleanInv
<1>4. LinesSet'
  BY <1>1, <1>2 DEF CleanInv, LinesSet, CleanLine, ToSet
<1>5. \A u \in Threads : ScrollsClean(u)'
  BY <1>1, <1>2 DEF CleanInv, ScrollsClean, ScrollsOn, CleanLine, LineZeroSafe
<1>6. GlassClean'
  BY <1>1 DEF CleanInv, GlassClean, LineZeroSafe
<1> QED
  BY <1>3, <1>4, <1>5, <1>6 DEF CleanInv

LEMMA ScrolledClean ==
  ASSUME TypeInv, CleanInv, NEW t \in Threads, BeginScroll(t) \/ NextFrame(t)
  PROVE  CleanInv'
<1> DEFINE i == scroll[t].line
           x == lcdLines[i].text
<1>1. /\ process # "down" /\ pc[t] \in {"scroll", "frame"}
      /\ UNCHANGED <<panel, lcdLines, process, host, todo, overlap>> /\ UNCHANGED env
  BY DEF BeginScroll, NextFrame, At, Running, glass, env, history
<1>2. /\ i \in 0..Height /\ x \in Strings /\ scroll[t].next \in Nat
      /\ \E s \in {Whole(x), From(x, scroll[t].next)}, b \in {"next", "frame"} : Draw(t, s, i, "LEFT", b)
      /\ scroll' = scroll \/ \E n, m : scroll' = [scroll EXCEPT ![t] = [line |-> i, len |-> n, next |-> m]]
  <2>1. scroll[t].next \in Nat
    BY ThreadTypes
  <2> QED
    BY <2>1, Scrolled
<1>3. /\ pc'[t] = "draw" /\ scroll'[t].line = i
      /\ \A u \in Threads \ {t} : pc'[u] = pc[u] /\ call'[u] = call[u] /\ scroll'[u] = scroll[u]
  BY <1>2, ThreadTypes DEF Draw, Goto
<1>4. lcdLines[i] # NULL /\ (LineZeroSafe => CleanLine(i))
  BY <1>1 DEF CleanInv, ScrollsClean, ScrollsOn
<1>5. Phases'
  BY <1>1, <1>3, PhasesKept DEF CleanInv
<1>6. LinesSet'
  BY <1>1, <1>3 DEF CleanInv, LinesSet, CleanLine, ToSet
<1>7. LineZeroSafe' = LineZeroSafe
  BY <1>1 DEF LineZeroSafe
<1>8. ASSUME NEW u \in Threads PROVE ScrollsClean(u)'
  <2>1. CASE u = t
    BY <1>1, <1>3, <1>4, <1>7, <2>1 DEF ScrollsClean, CleanLine
  <2>2. CASE u # t
    BY <1>1, <1>3, <1>7, <2>2 DEF CleanInv, ScrollsClean, ScrollsOn, CleanLine
  <2> QED
    BY <2>1, <2>2
<1>9. GlassClean'
  <2> SUFFICES ASSUME LineZeroSafe PROVE (\A u \in Threads : Clean(call'[u].chars)) /\ \A r \in 1..Height : Clean(panel'[r])
    BY <1>7 DEF GlassClean
  <2>1. (\A u \in Threads : Clean(call[u].chars)) /\ \A r \in 1..Height : Clean(panel[r])
    BY DEF CleanInv, GlassClean
  <2>2. PICK s \in {Whole(x), From(x, scroll[t].next)}, b \in {"next", "frame"} : Draw(t, s, i, "LEFT", b)
    BY <1>2
  <2>3. s \in CString /\ s.text \notin Garbage
    <3>1. Whole(x) \in CString /\ From(x, scroll[t].next) \in CString
      BY <1>2, FromType DEF Whole
    <3>2. Whole(x).text = x /\ From(x, scroll[t].next).text = x
      BY DEF Whole, From
    <3> QED
      BY <1>4, <2>2, <3>1, <3>2 DEF CleanLine
  <2>4. \A u \in Threads : Clean(call'[u].chars)
    <3>1. "LEFT" \in Aligns /\ i \in Nat
      BY <1>2, Sizes DEF Aligns
    <3> QED
      BY <2>1, <2>2, <2>3, <3>1, DrawClean
  <2> QED
    BY <1>1, <2>1, <2>4
<1> QED
  BY <1>5, <1>6, <1>8, <1>9 DEF CleanInv

\* A write puts a clean character on a clean panel.
LEMMA WriteClean == ASSUME TypeInv, CleanInv, NEW t \in Threads, Write(t) PROVE CleanInv'
<1>1. /\ process # "down" /\ pc[t] = "draw"
      /\ UNCHANGED <<lcdLines, process, host, todo, scroll, overlap>> /\ UNCHANGED env
      /\ \/ UNCHANGED <<pc, call>>
         \/ call' = [call EXCEPT ![t] = NoCall] /\ pc' = [pc EXCEPT ![t] = call[t].back]
  BY DEF Write, At, Running, Goto, env, history
<1>2. call[t].back \in {"next", "scroll", "frame"} /\ sent[t] \in 0..Width /\ call \in [Threads -> Call]
  BY <1>1, ThreadTypes DEF PlaceOK
<1>3. /\ \A u \in Threads \ {t} : pc'[u] = pc[u] /\ call'[u] = call[u]
      /\ (pc'[t] = "draw" /\ call'[t] = call[t]) \/ (pc'[t] = call[t].back /\ call'[t] = NoCall)
  BY <1>1, <1>2, ThreadTypes
<1>4. Phases'
  BY <1>1, <1>2, <1>3, PhasesKept DEF CleanInv
<1>5. LinesSet'
  BY <1>1, <1>2, <1>3 DEF CleanInv, LinesSet, CleanLine, ToSet
<1>6. LineZeroSafe' = LineZeroSafe
  BY <1>1 DEF LineZeroSafe
<1>7. ASSUME NEW u \in Threads PROVE ScrollsClean(u)'
  <2>1. ScrollsOn(u, "scroll")' => ScrollsOn(u, "scroll")
    BY <1>1, <1>2, <1>3 DEF ScrollsOn
  <2>2. ScrollsOn(u, "frame")' => ScrollsOn(u, "frame")
    BY <1>1, <1>2, <1>3 DEF ScrollsOn
  <2> QED
    BY <1>1, <1>6, <2>1, <2>2 DEF CleanInv, ScrollsClean, CleanLine
<1>8. GlassClean'
  <2> SUFFICES ASSUME LineZeroSafe
               PROVE  (\A u \in Threads : Clean(call'[u].chars)) /\ \A r \in 1..Height : Clean(panel'[r])
    BY <1>6 DEF GlassClean
  <2>1. (\A u \in Threads : Clean(call[u].chars)) /\ \A r \in 1..Height : Clean(panel[r])
    BY DEF CleanInv, GlassClean
  <2>2. \A u \in Threads : Clean(call'[u].chars)
    <3>1. Clean(NoCall.chars)
      BY BlankClean DEF NoCall
    <3>2. \A u \in Threads : call'[u] = call[u] \/ call'[u] = NoCall
      BY <1>3
    <3> QED
      BY <2>1, <3>1, <3>2
  <2>3. ASSUME NEW r \in 1..Height PROVE Clean(panel'[r])
    <3>1. panel \in [1..Height -> Row] /\ cursor \in (0..Height) \X (1..Width)
      BY DEF TypeInv, GlassOK
    <3>2. \/ panel' = panel
          \/ panel' = Off
          \/ /\ cursor[1] \in 1..Height /\ sent[t] \in 1..Width
             /\ panel' = [panel EXCEPT ![cursor[1]][cursor[2]] = call[t].chars[sent[t]]]
      <4>1. sent[t] # 0 => sent[t] \in 1..Width
        BY <1>2, Sizes
      <4>2. cursor[1] # 0 => cursor[1] \in 1..Height
        BY <3>1, Sizes
      <4> QED
        BY <4>1, <4>2 DEF Write, TakeByte, glass
    <3>3. CASE panel' = Off
      BY <3>3, BlankClean DEF Off
    <3>4. CASE /\ cursor[1] \in 1..Height /\ sent[t] \in 1..Width
               /\ panel' = [panel EXCEPT ![cursor[1]][cursor[2]] = call[t].chars[sent[t]]]
      <4>1. call[t].chars[sent[t]][1] \notin Garbage
        BY <2>1, <3>4 DEF Clean
      <4>2. panel[r] \in [1..Width -> Glyphs]
        BY <3>1 DEF Row, Glyphs
      <4>3. panel'[r] = IF r = cursor[1] THEN [panel[r] EXCEPT ![cursor[2]] = call[t].chars[sent[t]]] ELSE panel[r]
        BY <3>1, <3>4
      <4>4. \A k \in 1..Width : panel'[r][k] = panel[r][k] \/ panel'[r][k] = call[t].chars[sent[t]]
        BY <4>2, <4>3
      <4> QED
        BY <2>1, <4>1, <4>4 DEF Clean
    <3> QED
      BY <2>1, <3>2, <3>3, <3>4
  <2> QED
    BY <2>2, <2>3
<1> QED
  BY <1>4, <1>5, <1>7, <1>8 DEF CleanInv

\* When main has set every line, clients may scroll any.
LEMMA ReturnClean == ASSUME TypeInv, CleanInv, NEW t \in Threads, Return(t) PROVE CleanInv'
<1>1. /\ process # "down" /\ t # host /\ t # Handler
      /\ pc[t] = "next" /\ todo[t] = <<>> /\ pc' = [pc EXCEPT ![t] = "idle"] /\ process' = "up"
      /\ scroll' = [scroll EXCEPT ![t] = NoScroll]
      /\ UNCHANGED <<panel, lcdLines, host, todo, call, overlap>>
  BY DEF Return, Ended, At, Running, Goto, glass
<1>2. pc'[t] = "idle" /\ \A u \in Threads \ {t} : pc'[u] = pc[u] /\ scroll'[u] = scroll[u]
  BY <1>1, ThreadTypes
<1>3. process \in {"starting", "up"}
  BY <1>1 DEF TypeInv, EnvOK
<1>4. process = "starting" =>
        t = Main /\ host = NULL /\ \A u \in Threads \ {t} : pc[u] = "idle"
  BY <1>1, ThreadsDiffer DEF CleanInv, Phases, Threads
<1>5. Phases'
  BY <1>1, <1>2 DEF CleanInv, Phases
<1>6. LinesSet'
  <2>1. ASSUME NEW i \in 1..Height PROVE CleanLine(i)'
    <3>1. process = "starting" => ~ToSet(i)
      BY <1>1, <1>4 DEF ToSet
    <3> QED
      BY <1>1, <1>3, <1>4, <3>1 DEF CleanInv, LinesSet, CleanLine
  <2>2. ASSUME NEW u \in Threads, pc'[u] = "malloc" PROVE Head(todo'[u]).line = 0
    BY <1>1, <1>2, <1>3, <1>4, <2>2 DEF CleanInv, LinesSet
  <2> QED
    BY <1>1, <2>1, <2>2 DEF LinesSet
<1>7. \A u \in Threads : ScrollsClean(u)'
  BY <1>1, <1>2 DEF CleanInv, ScrollsClean, ScrollsOn, CleanLine, LineZeroSafe
<1>8. GlassClean'
  BY <1>1 DEF CleanInv, GlassClean, LineZeroSafe
<1> QED
  BY <1>5, <1>6, <1>7, <1>8 DEF CleanInv

LEMMA CleanStep == TypeInv /\ CleanInv /\ [Next]_vars => CleanInv'
<1> SUFFICES ASSUME TypeInv, CleanInv, [Next]_vars PROVE CleanInv'
  OBVIOUS
<1>1. CASE UNCHANGED vars
  BY <1>1 DEF CleanInv, Phases, LinesSet, CleanLine, ToSet, ScrollsClean, ScrollsOn, LineZeroSafe,
              GlassClean, vars, glass, env, locals, history
<1> QED
  BY <1>1, Steps, CommandClean, TakeLineClean, AllocateClean, RefuseAlignClean, StoreLineClean,
     NoScrollingClean, ScrolledClean, WriteClean, ReturnClean, DieClean, HandleSigsClean, RestartClean

\* Memory that malloc left as it was is never displayed, on a panel of any size
\* and for any number of clients, unless a second command overlapped on line 0.
THEOREM GarbageUnseen == Spec => []NoGarbageShown
<1>1. CleanInv => NoGarbageShown
  BY DEF CleanInv, GlassClean, LineZeroSafe, Clean, NoGarbageShown
<1> QED
  BY <1>1, InitTypes, TypeStep, InitClean, CleanStep, PTL DEF Spec

=============================================================================

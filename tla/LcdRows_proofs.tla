--------------------------- MODULE LcdRows_proofs ---------------------------
(***************************************************************************)
(* What the rows of the panel show: the writes of a thread that was alone  *)
(* at work are the lines it was asked for, and while nobody has overlapped *)
(* the rows are the lines kept in lcdLines.                                *)
(*                                                                         *)
(* A thread is alone while before[t] is kept: it was the only one at work  *)
(* when its command began, and nobody has begun since.  Only then is the   *)
(* panel's cursor where the thread put it.                                 *)
(***************************************************************************)
EXTENDS LcdPanel_proofs

Alone(t) == before[t] # NULL /\ ~lost

Sole ==
  /\ \A t \in Threads : before[t] # NULL =>
       pc[t] # "idle" /\ \A u \in Threads \ {t} : pc[u] = "idle"
  /\ ~overlap => \A t \in Threads : pc[t] # "idle" => before[t] # NULL
  /\ \A t \in Threads : pc[t] = "idle" => todo[t] = <<>> /\ status[t] = "none"

\* How many of the lines it was asked for t has taken, and the last of them.
Taken(t)   == Len(asked[t]) - Len(todo[t])
Current(t) == asked[t][Taken(t)]

\* What t has still to do is the end of what it was asked for.
Suffix(t) ==
  /\ Len(todo[t]) <= Len(asked[t])
  /\ \A k \in 1..Len(todo[t]) : todo[t][k] = asked[t][Taken(t) + k]

CanBeSet(i) == i.line <= Height /\ i.align \in Aligns

\* The status of a command of one line tells whether it was set.
StatusOK(t) ==
  Len(asked[t]) = 1 /\ status[t] # "none" =>
    todo[t] = <<>> /\ (status[t] = "MESSAGE_SET" <=> CanBeSet(asked[t][1]))

\* The part of the row that is drawn so far, and where the cursor is.
Drawn(t) ==
  pc[t] = "draw" /\ sent[t] > 0 =>
    /\ cursor = <<call[t].row, sent[t]>>
    /\ \A k \in 1..(sent[t] - 1) : panel[call[t].row][k] = call[t].chars[k]

\* The line t draws or scrolls is in lcdLines, as asked, and what is drawn
\* last of it shows it.
LineInUse(t) ==
  LET i == scroll[t].line IN
  /\ pc[t] = "malloc" => lcdLines[Head(todo[t]).line] = NULL
  /\ pc[t] = "scroll" /\ asked[t] = <<>> => lcdLines[i] = NULL \/ ~config.enabled
  /\ pc[t] \in {"draw", "frame"} \/ (pc[t] = "scroll" /\ asked[t] # <<>>) =>
       /\ Taken(t) >= 1 /\ CanBeSet(Current(t)) /\ Current(t).line = i
       /\ lcdLines[i] # NULL /\ lcdLines[i].text = Current(t).text
       /\ pc[t] = "draw" => call[t].row = RowOf(i)
       /\ ScrollsOn(t, "scroll") \/ ScrollsOn(t, "frame") => Rolls(Current(t).text) \/ Current(t).align = "LEFT"
       /\ pc[t] = "draw" /\ call[t].back # "frame" =>
            /\ ShownAs(call[t].chars, Current(t))
            /\ \E a \in {"LEFT", lcdLines[i].align} : Shows(call[t].chars, lcdLines[i].text, a)

\* t is about to draw the row r, or is drawing it.
InProgress(t, r) ==
  /\ r = RowOf(scroll[t].line)
  /\ pc[t] \in {"draw", "frame"} \/ (pc[t] = "scroll" /\ asked[t] # <<>> /\ config.enabled)

\* The row r shows the last of the lines taken that went to it, or what it did.
Reached(t, r) == {k \in Honoured(t, r) : k <= Taken(t)}
RowDone(t, r) ==
  \/ Reached(t, r) = {} /\ panel[r] = before[t][r]
  \/ \E k \in Reached(t, r) : (\A j \in Reached(t, r) : j <= k) /\ ShownAs(panel[r], asked[t][k])

AloneOK(t) == Drawn(t) /\ LineInUse(t) /\ \A r \in 1..Height : InProgress(t, r) \/ RowDone(t, r)

WritesInv ==
  /\ Sole
  /\ \A t \in Threads : Suffix(t) /\ StatusOK(t)
  /\ \A t \in Threads : Alone(t) => AloneOK(t)

\* What a reply that is not the status says of the lines asked for; the status
\* of a line taken is told in StatusOK.
AnswerOK(t) ==
  /\ pc[t] = "idle" => answer[t] = "none"
  /\ t \in Clients /\ pc[t] # "idle" /\ answer[t] = "none" =>
       /\ Len(asked[t]) = 1 \/ (asked[t] = <<>> /\ status[t] = "INVALID_LINE" /\ todo[t] = <<>>)
       /\ todo[t] # <<>> \/ status[t] # "none"
  /\ answer[t] = "MESSAGE_SET" =>
       \/ asked[t] = <<>> /\ ~config.enabled
       \/ Len(asked[t]) = 1 /\ CanBeSet(asked[t][1])
  /\ answer[t] = "CLEAR_DISPLAY" => asked[t] = ClearLines

AnswersInv ==
  /\ answer \in [Threads -> {"none", "MESSAGE_SET", "LINE_CLEARED", "CLEAR_DISPLAY"}]
  /\ \A t \in Threads : AnswerOK(t)

\* The row r shows the line kept for it.
RowMatches(r) ==
  \E i \in {r} \cup {j \in {0} : r = 1} :
    /\ lcdLines[i] # NULL
    /\ \E a \in {lcdLines[i].align, "LEFT"} : Shows(panel[r], lcdLines[i].text, a)

Drawing(t, r) == pc[t] \in {"draw", "frame"} /\ r = RowOf(scroll[t].line)

RowsInv ==
  process # "down" /\ ~overlap /\ ~lost =>
    \A r \in 1..Height :
      \/ RowMatches(r)
      \/ process = "starting" /\ ToSet(r)
      \/ \E t \in Threads : Drawing(t, r)

Inv == TypeInv /\ CleanInv /\ WritesInv /\ RowsInv

-----------------------------------------------------------------------------
(***************************************************************************)
(* What lcd_text draws                                                     *)
(***************************************************************************)
LEMMA RowOfLine ==
  /\ \A n \in Nat : RowOf(n) \in 1..Height
  /\ \A r \in 1..Height : RowOf(r) = r
  /\ RowOf(0) = 1
BY Sizes DEF RowOf, Least

\* The characters lcd_text makes of a text show it as the alignment asks.
LEMMA FormattedShows ==
  ASSUME NEW x \in Strings, NEW align \in Aligns, NEW chars \in Formatted(Whole(x), align)
  PROVE  Shows(chars, x, align)
<1> DEFINE n == Least(LengthOf[x], MaxLen)
           t == [Whole(x) EXCEPT !.len = n]
<1>1. LengthOf[x] \in Nat /\ n \in Nat /\ Width \in Nat /\ Width >= 1
  BY Sizes, LeastType
<1>2. Whole(x) \in CString /\ Whole(x).len = LengthOf[x]
  <2>1. Whole(x) = [text |-> x, skip |-> 0, len |-> LengthOf[x]]
    BY <1>1 DEF Whole, From
  <2> QED
    BY <1>1, <2>1 DEF CString
<1>3. t = [text |-> x, skip |-> 0, len |-> n]
  BY <1>2 DEF Whole, From
<1>4. n = Least(Whole(x).len, MaxLen)
  BY <1>2
<1>5. /\ Formatted(Whole(x), "LEFT") = {Placed(t, 0)}
      /\ Formatted(Whole(x), "RIGHT") = {Placed(t, Width - Least(n, Width))}
      /\ n <= Width => Formatted(Whole(x), "CENTER") = {Placed(t, (Width - n) \div 2)}
  BY <1>2, <1>4, FormattedCases
<1>6. \A m : Placed(t, m) = [k \in 1..Width |-> IF k - m \in 1..n THEN Char(x, 0 + k - m) ELSE Blank]
  BY <1>3 DEF Placed
<1>7. n = Least(LengthOf[x], MaxLen)
  OBVIOUS
<1> HIDE DEF n, t
<1>8. ASSUME NEW m \in 0..(Width - n), NEW k \in 1..Width
      PROVE  Placed(t, m)[k] = IF k \in (m + 1)..(m + n) THEN Char(x, k - m) ELSE Blank
  <2>1. k - m \in 1..n <=> k \in (m + 1)..(m + n)
    BY <1>1
  <2>2. 0 + k - m = k - m
    BY <1>1
  <2> QED
    BY <1>6, <2>1, <2>2
<1>9. CASE n > Width
  <2>1. Width - Least(n, Width) = 0
    BY <1>1, <1>9 DEF Least
  <2>2. align # "CENTER" => chars = Placed(t, 0)
    BY <1>5, <2>1 DEF Aligns
  <2>3. \A k \in 1..Width : Placed(t, 0)[k] = Char(x, k)
    <3> TAKE k \in 1..Width
    <3>1. k - 0 \in 1..n /\ 0 + k - 0 = k
      BY <1>1, <1>9
    <3> QED
      BY <1>6, <3>1
  <2> QED
    BY <1>7, <1>9, <2>2, <2>3 DEF Shows
<1>10. CASE ~(n > Width)
  <2>1. Width - n \in Nat /\ Least(n, Width) = n /\ n <= Width
    BY <1>1, <1>10 DEF Least
  <2>2. \E m \in 0..(Width - n) :
          /\ chars = Placed(t, m)
          /\ align = "LEFT" => m = 0
          /\ align = "RIGHT" => Width - n - m = 0
          /\ align = "CENTER" => m - (Width - n - m) \in {-1, 0}
    <3>1. CASE align = "LEFT"
      <4>1. chars = Placed(t, 0) /\ 0 \in 0..(Width - n)
        BY <1>5, <2>1, <3>1
      <4> QED
        BY <3>1, <4>1
    <3>2. CASE align = "RIGHT"
      <4> DEFINE m == Width - n
      <4>1. chars = Placed(t, m) /\ m \in 0..(Width - n) /\ Width - n - m = 0
        BY <1>1, <1>5, <2>1, <3>2
      <4> HIDE DEF m
      <4> QED
        BY <3>2, <4>1
    <3>3. CASE align = "CENTER"
      <4> DEFINE m == (Width - n) \div 2
      <4>1. m \in 0..(Width - n) /\ m - (Width - n - m) \in {-1, 0}
        BY <1>1, <2>1
      <4>2. chars = Placed(t, m)
        BY <1>5, <2>1, <3>3
      <4> HIDE DEF m
      <4> QED
        BY <3>3, <4>1, <4>2
    <3> QED
      BY <3>1, <3>2, <3>3 DEF Aligns
  <2> QED
    BY <1>7, <1>8, <1>10, <2>2 DEF Shows
<1> QED
  BY <1>9, <1>10

\* A row that is drawn to its end is the characters it was drawn with.
LEMMA SameRow ==
  ASSUME NEW a \in Row, NEW b \in Row, \A k \in 1..Width : a[k] = b[k]
  PROVE  a = b
<1>1. a = [k \in 1..Width |-> a[k]] /\ b = [k \in 1..Width |-> b[k]]
  BY DEF Row
<1> QED
  BY <1>1

-----------------------------------------------------------------------------
(***************************************************************************)
(* What a step leaves as it was                                            *)
(***************************************************************************)
\* A step of the thread t, alone or not, leaves the other threads' facts alone.
LEMMA WritesKept ==
  ASSUME WritesInv, NEW t \in Threads, pc[t] # "idle", pc'[t] # "idle",
         \A u \in Threads \ {t} : pc'[u] = pc[u] /\ todo'[u] = todo[u] /\ status'[u] = status[u],
         UNCHANGED history, lost => lost',
         Suffix(t)', StatusOK(t)', Alone(t) => AloneOK(t)'
  PROVE  WritesInv'
<1>1. Sole'
  BY DEF WritesInv, Sole, history
<1>2. \A u \in Threads : Suffix(u)' /\ StatusOK(u)'
  <2> TAKE u \in Threads
  <2>1. CASE u = t
    BY <2>1
  <2>2. CASE u # t
    <3>1. Suffix(u) /\ StatusOK(u)
      BY DEF WritesInv
    <3>2. todo'[u] = todo[u] /\ status'[u] = status[u] /\ asked' = asked
      BY <2>2 DEF history
    <3>3. Suffix(u)'
      BY <3>1, <3>2 DEF Suffix, Taken
    <3>4. StatusOK(u)'
      BY <3>1, <3>2 DEF StatusOK, CanBeSet
    <3> QED
      BY <3>3, <3>4
  <2> QED
    BY <2>1, <2>2
<1>3. ASSUME NEW u \in Threads, Alone(u)' PROVE AloneOK(u)'
  <2>1. Alone(u)
    BY <1>3 DEF Alone, history
  <2>2. u = t
    BY <2>1 DEF WritesInv, Sole, Alone
  <2> QED
    BY <2>1, <2>2
<1> QED
  BY <1>1, <1>2, <1>3 DEF WritesInv

\* While no command has overlapped, the thread at work is alone, main in the start.
LEMMA OnlyOne ==
  ASSUME Inv, ~overlap, NEW t \in Threads, pc[t] # "idle"
  PROVE  /\ before[t] # NULL /\ \A u \in Threads \ {t} : pc[u] = "idle"
         /\ process = "starting" => t = Main
BY DEF Inv, CleanInv, Phases, WritesInv, Sole, Threads

LEMMA TailFacts ==
  ASSUME NEW S, NEW s \in Seq(S), s # <<>>, NEW q, q = Tail(s)
  PROVE  /\ q \in Seq(S) /\ Len(s) \in Nat /\ Len(s) >= 1 /\ Len(q) = Len(s) - 1
         /\ \A k \in 1..Len(q) : q[k] = s[k + 1]
         /\ Head(s) = s[1]
<1>1. Len(s) \in Nat /\ Len(s) >= 1
  OBVIOUS
<1>2. q \in Seq(S) /\ Len(q) = Len(s) - 1
  OBVIOUS
<1>3. \A k \in 1..Len(q) : q[k] = s[k + 1]
  OBVIOUS
<1> QED
  BY <1>1, <1>2, <1>3

\* t takes the first line it has still to set.
LEMMA TakenOne ==
  ASSUME TypeInv, NEW t \in Threads, Suffix(t), todo[t] # <<>>,
         todo'[t] = Tail(todo[t]), asked' = asked
  PROVE  /\ Suffix(t)' /\ Taken(t)' = Taken(t) + 1 /\ Taken(t)' \in 1..Len(asked[t])
         /\ Taken(t) \in Nat /\ Current(t)' = Head(todo[t])
         /\ Len(asked[t]) = 1 => todo'[t] = <<>> /\ asked[t][1] = Head(todo[t])
<1> DEFINE s == todo[t]
           a == asked[t]
<1>1. s \in Seq(Items) /\ a \in Seq(Asks) /\ Len(a) \in Nat
  BY DEF TypeInv, ThreadsOK
<1>2. PICK q : q = Tail(s)
  OBVIOUS
<1>3. /\ q \in Seq(Items) /\ Len(s) \in Nat /\ Len(s) >= 1 /\ Len(q) = Len(s) - 1
      /\ \A k \in 1..Len(q) : q[k] = s[k + 1]
      /\ Head(s) = s[1]
  BY <1>1, <1>2, TailFacts
<1>4. Len(s) <= Len(a) /\ \A k \in 1..Len(s) : s[k] = a[Len(a) - Len(s) + k]
  BY DEF Suffix, Taken
<1>5. Taken(t) = Len(a) - Len(s) /\ Taken(t)' = Len(a) - Len(q) /\ Current(t)' = a[Len(a) - Len(q)]
  BY <1>2 DEF Taken, Current
<1>6. Suffix(t)' <=> Len(q) <= Len(a) /\ \A k \in 1..Len(q) : q[k] = a[Len(a) - Len(q) + k]
  BY <1>2 DEF Suffix, Taken
<1>7. todo'[t] = q
  BY <1>2
<1> HIDE DEF s, a
<1>8. Taken(t)' = Taken(t) + 1 /\ Taken(t) \in Nat /\ Taken(t)' \in 1..Len(a)
  BY <1>1, <1>3, <1>4, <1>5
<1>9. Current(t)' = Head(s)
  <2>1. Len(a) - Len(q) = Len(a) - Len(s) + 1 /\ 1 \in 1..Len(s)
    BY <1>1, <1>3
  <2> QED
    BY <1>3, <1>4, <1>5, <2>1
<1>10. Suffix(t)'
  <2>1. ASSUME NEW k \in 1..Len(q) PROVE q[k] = a[Len(a) - Len(q) + k]
    <3>1. k + 1 \in 1..Len(s) /\ Len(a) - Len(s) + (k + 1) = Len(a) - Len(q) + k
      BY <1>1, <1>3
    <3> QED
      BY <1>3, <1>4, <3>1
  <2>2. Len(q) <= Len(a)
    BY <1>1, <1>3, <1>4
  <2> QED
    BY <1>6, <2>1, <2>2
<1>11. Len(a) = 1 => q = <<>> /\ a[1] = Head(s)
  <2> SUFFICES ASSUME Len(a) = 1 PROVE q = <<>> /\ a[1] = Head(s)
    OBVIOUS
  <2>1. Len(s) = 1 /\ Len(q) = 0 /\ Len(a) - Len(s) + 1 = 1 /\ 1 \in 1..Len(s)
    BY <1>1, <1>3, <1>4
  <2> QED
    BY <1>3, <1>4, <2>1
<1> QED
  BY <1>7, <1>8, <1>9, <1>10, <1>11 DEF s, a

\* A row stays done while the panel keeps it and no line for it is taken.
LEMMA RowKept ==
  ASSUME TypeInv, NEW t \in Threads, NEW r \in 1..Height, RowDone(t, r),
         UNCHANGED <<asked, before, config>>, panel'[r] = panel[r],
         \/ todo'[t] = todo[t]
         \/ /\ Taken(t) \in Nat /\ Taken(t)' = Taken(t) + 1
            /\ ~(CanBeSet(Current(t)') /\ RowOf(Current(t)'.line) = r)
  PROVE  RowDone(t, r)'
<1>1. Reached(t, r)' = Reached(t, r)
  <2>1. CASE todo'[t] = todo[t]
    BY <2>1 DEF Reached, Honoured, Taken
  <2>2. CASE todo'[t] # todo[t]
    <3>1. Taken(t) \in Nat /\ Taken(t)' = Taken(t) + 1
      BY <2>2
    <3>2. Current(t)' = asked[t][Taken(t) + 1]
      BY <3>1 DEF Current
    <3>3. \A k \in DOMAIN asked[t] : k \in Int
      BY DEF TypeInv, ThreadsOK
    <3>4. \A k \in Honoured(t, r) : k <= Taken(t) + 1 <=> k <= Taken(t)
      <4> TAKE k \in Honoured(t, r)
      <4>1. k \in Int /\ k # Taken(t) + 1
        BY <2>2, <3>2, <3>3 DEF Honoured, CanBeSet
      <4> QED
        BY <3>1, <4>1
    <3>5. Honoured(t, r)' = Honoured(t, r)
      BY DEF Honoured
    <3> QED
      BY <3>1, <3>4, <3>5 DEF Reached
  <2> QED
    BY <2>1, <2>2
<1> QED
  BY <1>1 DEF RowDone, ShownAs, Rolls

-----------------------------------------------------------------------------
(***************************************************************************)
(* The steps                                                               *)
(***************************************************************************)
\* The last line taken, once it is shown, is the one its row has to show.
LEMMA NowShown ==
  ASSUME TypeInv', NEW t \in Threads, NEW r \in 1..Height,
         Taken(t)' \in 1..Len(asked'[t]), CanBeSet(Current(t)'), RowOf(Current(t)'.line) = r,
         ShownAs(panel[r], Current(t))'
  PROVE  RowDone(t, r)'
<1> DEFINE n == Taken(t)'
<1>1. asked'[t] \in Seq(Asks)
  BY DEF TypeInv, ThreadsOK
<1>2. n \in DOMAIN asked'[t] /\ n <= n /\ Current(t)' = asked'[t][n]
  BY <1>1 DEF Current
<1>3. n \in Reached(t, r)'
  <2>1. n \in Honoured(t, r)'
    BY <1>2 DEF Honoured, CanBeSet
  <2> QED
    BY <1>2, <2>1 DEF Reached
<1>4. \A j \in Reached(t, r)' : j <= n
  BY DEF Reached
<1>5. ShownAs(panel[r], asked[t][Taken(t)])'
  BY <1>2 DEF Current
<1> HIDE DEF n
<1> QED
  BY <1>3, <1>4, <1>5 DEF RowDone, n

\* What RowsInv says of the rows while t is at work.
LEMMA RowsNow ==
  ASSUME Inv, ~overlap, ~lost, NEW t \in Threads, pc[t] # "idle", process # "down", NEW r \in 1..Height
  PROVE  RowMatches(r) \/ (process = "starting" /\ t = Main /\ ToSet(r)) \/ Drawing(t, r)
<1>1. \A u \in Threads : Drawing(u, r) => u = t
  BY OnlyOne DEF Drawing
<1> QED
  BY <1>1, OnlyOne DEF Inv, RowsInv

\* A line that was set but cannot be, or has no alignment, changes no row.
LEMMA DroppedOne ==
  ASSUME Inv, NEW t \in Threads, process # "down", pc[t] \in {"next", "store"}, todo[t] # <<>>,
         ~CanBeSet(Head(todo[t])),
         todo' = [todo EXCEPT ![t] = Tail(@)], pc' = [pc EXCEPT ![t] = "next"],
         NEW e \in {"INVALID_LINE", "INVALID_ALIGN"}, status' = [status EXCEPT ![t] = e],
         UNCHANGED <<glass, lcdLines, env, call, sent, scroll, history>>
  PROVE  WritesInv' /\ RowsInv'
<1>1. /\ pc'[t] = "next" /\ todo'[t] = Tail(todo[t]) /\ status'[t] = e
      /\ \A u \in Threads \ {t} : pc'[u] = pc[u] /\ todo'[u] = todo[u] /\ status'[u] = status[u]
  BY ThreadTypes DEF Inv
<1>2. TypeInv /\ Suffix(t) /\ asked' = asked
  BY DEF Inv, WritesInv, history
<1>3. /\ Suffix(t)' /\ Taken(t)' = Taken(t) + 1 /\ Taken(t) \in Nat /\ Current(t)' = Head(todo[t])
      /\ Len(asked[t]) = 1 => todo'[t] = <<>> /\ asked[t][1] = Head(todo[t])
  BY <1>1, <1>2, TakenOne
<1>4. StatusOK(t)'
  BY <1>1, <1>2, <1>3 DEF StatusOK, CanBeSet
<1>5. Alone(t) => AloneOK(t)'
  <2> SUFFICES ASSUME Alone(t) PROVE AloneOK(t)'
    OBVIOUS
  <2>1. Drawn(t)' /\ LineInUse(t)'
    BY <1>1 DEF Drawn, LineInUse, ScrollsOn
  <2>2. ASSUME NEW r \in 1..Height PROVE RowDone(t, r)'
    <3>1. RowDone(t, r)
      BY DEF Inv, WritesInv, AloneOK, InProgress
    <3> QED
      BY <1>2, <1>3, <3>1, RowKept DEF glass, env, history
  <2> QED
    BY <2>1, <2>2 DEF AloneOK
<1>6. WritesInv'
  <2>1. WritesInv /\ pc[t] # "idle" /\ pc'[t] # "idle" /\ UNCHANGED history /\ (lost => lost')
    BY <1>1 DEF Inv, glass
  <2> QED
    BY <1>1, <1>3, <1>4, <1>5, <2>1, WritesKept
<1>7. RowsInv'
  <2> SUFFICES ASSUME ~overlap, ~lost, NEW r \in 1..Height
               PROVE  RowMatches(r)' \/ (process = "starting" /\ ToSet(r))'
    BY DEF RowsInv, env, glass, history
  <2>1. RowMatches(r) \/ (process = "starting" /\ t = Main /\ ToSet(r))
    BY RowsNow DEF Drawing
  <2>2. RowMatches(r) => RowMatches(r)'
    BY DEF RowMatches, glass
  <2>3. process' = process
    BY DEF env
  <2>4. t = Main /\ ToSet(r) => ToSet(r)'
    <3>1. ~(Head(todo[t]).line = r /\ Head(todo[t]).align \in Aligns)
      BY Sizes DEF CanBeSet
    <3> QED
      BY <1>1, <1>2, <3>1, DropFirst
  <2> QED
    BY <2>1, <2>2, <2>3, <2>4
<1> QED
  BY <1>6, <1>7

LEMMA RefuseAlignWrites ==
  ASSUME Inv, NEW t \in Threads, RefuseAlign(t) PROVE WritesInv' /\ RowsInv'
<1>1. /\ process # "down" /\ pc[t] = "store" /\ Head(todo[t]).align \notin Aligns
      /\ pc' = [pc EXCEPT ![t] = "next"]
      /\ status' = [status EXCEPT ![t] = "INVALID_ALIGN"] /\ todo' = [todo EXCEPT ![t] = Tail(@)]
      /\ UNCHANGED <<glass, lcdLines, env, call, sent, scroll, history>>
  BY DEF RefuseAlign, At, Running, Goto
<1>2. todo[t] # <<>> /\ ~CanBeSet(Head(todo[t]))
  BY <1>1, ThreadTypes DEF Inv, PlaceOK, CanBeSet
<1> QED
  BY <1>1, <1>2, DroppedOne

LEMMA TakeLineWrites ==
  ASSUME Inv, NEW t \in Threads, TakeLine(t) PROVE WritesInv' /\ RowsInv'
<1> DEFINE i == Head(todo[t])
<1>1. /\ process # "down" /\ pc[t] = "next" /\ todo[t] # <<>>
      /\ UNCHANGED <<glass, lcdLines, env, call, sent, scroll, history>>
      /\ pc \in [Threads -> Labels] /\ i.line \in Nat
  BY ThreadTypes, FirstItem DEF TakeLine, At, Running, Inv
<1>2. CASE /\ i.line > Height
           /\ status' = [status EXCEPT ![t] = "INVALID_LINE"]
           /\ todo' = [todo EXCEPT ![t] = Tail(@)] /\ UNCHANGED pc
  <2>1. ~CanBeSet(i)
    BY <1>1, <1>2, Sizes DEF CanBeSet
  <2>2. pc' = [pc EXCEPT ![t] = "next"]
    BY <1>1, <1>2
  <2> QED
    BY <1>1, <1>2, <2>1, <2>2, DroppedOne
<1>3. CASE /\ i.line <= Height
           /\ pc' = [pc EXCEPT ![t] = IF lcdLines[i.line] = NULL THEN "malloc" ELSE "store"]
           /\ UNCHANGED <<status, todo>>
  <2>1. /\ pc'[t] \in {"malloc", "store"}
        /\ pc'[t] = "malloc" => lcdLines[i.line] = NULL
        /\ \A u \in Threads \ {t} : pc'[u] = pc[u]
    BY <1>1, <1>3
  <2>2. Suffix(t)' /\ StatusOK(t)'
    BY <1>1, <1>3 DEF Inv, WritesInv, Suffix, StatusOK, Taken, CanBeSet, history
  <2>3. Alone(t) => AloneOK(t)'
    <3> SUFFICES ASSUME Alone(t) PROVE AloneOK(t)'
      OBVIOUS
    <3>1. Drawn(t)' /\ LineInUse(t)'
      BY <1>1, <1>3, <2>1 DEF Drawn, LineInUse, ScrollsOn
    <3>2. ASSUME NEW r \in 1..Height PROVE RowDone(t, r)'
      <4>1. RowDone(t, r) /\ TypeInv
        BY <1>1 DEF Inv, WritesInv, AloneOK, InProgress
      <4> QED
        BY <1>1, <1>3, <4>1, RowKept DEF glass, env, history
    <3> QED
      BY <3>1, <3>2 DEF AloneOK
  <2>4. WritesInv'
    <3>1. WritesInv /\ pc[t] # "idle" /\ pc'[t] # "idle" /\ UNCHANGED history /\ (lost => lost')
      BY <1>1, <2>1 DEF Inv, glass
    <3> QED
      BY <1>3, <2>1, <2>2, <2>3, <3>1, WritesKept
  <2>5. RowsInv'
    <3> SUFFICES ASSUME ~overlap, ~lost, NEW r \in 1..Height
                 PROVE  RowMatches(r)' \/ (process = "starting" /\ ToSet(r))'
      BY <1>1 DEF RowsInv, env, glass, history
    <3>1. RowMatches(r) \/ (process = "starting" /\ ToSet(r))
      BY <1>1, RowsNow DEF Drawing
    <3> QED
      BY <1>1, <1>3, <3>1 DEF RowMatches, ToSet, glass, env
  <2> QED
    BY <2>4, <2>5
<1> QED
  BY <1>2, <1>3 DEF TakeLine, Goto

\* malloc changes no line that is shown.
LEMMA AllocateWrites ==
  ASSUME Inv, NEW t \in Threads, Allocate(t) PROVE WritesInv' /\ RowsInv'
<1> DEFINE j == Head(todo[t]).line
<1>1. /\ process # "down" /\ pc[t] = "malloc" /\ pc' = [pc EXCEPT ![t] = "store"]
      /\ UNCHANGED <<glass, env, locals, history>>
      /\ \E x \in Garbage : lcdLines' = [lcdLines EXCEPT ![j] = [text |-> x, align |-> NULL]]
  BY DEF Allocate, At, Running, Goto
<1>2. /\ pc \in [Threads -> Labels] /\ lcdLines \in [0..Height -> Line \cup {NULL}]
  BY DEF Inv, TypeInv, ThreadsOK, LinesOK
<1>3. pc'[t] = "store" /\ \A u \in Threads \ {t} : pc'[u] = pc[u]
  BY <1>1, <1>2
<1>4. Suffix(t)' /\ StatusOK(t)'
  BY <1>1 DEF Inv, WritesInv, Suffix, StatusOK, Taken, CanBeSet, history, locals
<1>5. Alone(t) => AloneOK(t)'
  <2> SUFFICES ASSUME Alone(t) PROVE AloneOK(t)'
    OBVIOUS
  <2>1. Drawn(t)' /\ LineInUse(t)'
    BY <1>3 DEF Drawn, LineInUse, ScrollsOn
  <2>2. ASSUME NEW r \in 1..Height PROVE RowDone(t, r)'
    <3>1. RowDone(t, r) /\ TypeInv
      BY <1>1 DEF Inv, WritesInv, AloneOK, InProgress
    <3> QED
      BY <1>1, <3>1, RowKept DEF glass, env, history, locals
  <2> QED
    BY <2>1, <2>2 DEF AloneOK
<1>6. WritesInv'
  <2>1. WritesInv /\ pc[t] # "idle" /\ pc'[t] # "idle" /\ UNCHANGED history /\ (lost => lost')
        /\ todo' = todo /\ status' = status
    BY <1>1, <1>3 DEF Inv, glass, locals
  <2> QED
    BY <1>3, <1>4, <1>5, <2>1, WritesKept
<1>7. RowsInv'
  <2> SUFFICES ASSUME ~overlap, ~lost, NEW r \in 1..Height
               PROVE  RowMatches(r)' \/ (process = "starting" /\ ToSet(r))'
    BY <1>1 DEF RowsInv, env, glass, history
  <2>1. RowMatches(r) \/ (process = "starting" /\ ToSet(r))
    BY <1>1, RowsNow DEF Drawing
  <2>2. lcdLines[j] = NULL
    <3>1. Alone(t)
      BY <1>1, OnlyOne DEF Alone
    <3> QED
      BY <1>1, <3>1 DEF Inv, WritesInv, AloneOK, LineInUse
  <2> HIDE DEF j
  <2>3. \A i \in 0..Height : lcdLines[i] # NULL => lcdLines'[i] = lcdLines[i]
    BY <1>1, <1>2, <2>2
  <2>4. RowMatches(r) => RowMatches(r)'
    BY <1>1, <2>3, Sizes DEF RowMatches, glass
  <2> QED
    BY <1>1, <2>1, <2>4 DEF ToSet, env, locals
<1> QED
  BY <1>6, <1>7

\* Scrolling that is off leaves what the drawing has shown.
LEMMA NoScrollingWrites ==
  ASSUME Inv, NEW t \in Threads, NoScrolling(t) PROVE WritesInv' /\ RowsInv'
<1>1. /\ process # "down" /\ pc[t] = "scroll" /\ pc' = [pc EXCEPT ![t] = "next"]
      /\ lcdLines[scroll[t].line] = NULL \/ ~config.enabled
      /\ UNCHANGED <<glass, lcdLines, env, locals, history>>
  BY DEF NoScrolling, At, Running, Goto
<1>2. pc'[t] = "next" /\ \A u \in Threads \ {t} : pc'[u] = pc[u]
  BY <1>1, ThreadTypes DEF Inv
<1>3. Suffix(t)' /\ StatusOK(t)'
  BY <1>1 DEF Inv, WritesInv, Suffix, StatusOK, Taken, CanBeSet, history, locals
<1>4. Alone(t) => AloneOK(t)'
  <2> SUFFICES ASSUME Alone(t) PROVE AloneOK(t)'
    OBVIOUS
  <2>1. Drawn(t)' /\ LineInUse(t)'
    BY <1>2 DEF Drawn, LineInUse, ScrollsOn
  <2>2. ASSUME NEW r \in 1..Height PROVE RowDone(t, r)'
    <3>1. asked[t] # <<>> => ~config.enabled
      BY <1>1 DEF Inv, WritesInv, AloneOK, LineInUse
    <3>2. RowDone(t, r) /\ TypeInv
      BY <1>1, <3>1 DEF Inv, WritesInv, AloneOK, InProgress
    <3> QED
      BY <1>1, <3>2, RowKept DEF glass, env, history, locals
  <2> QED
    BY <2>1, <2>2 DEF AloneOK
<1>5. WritesInv'
  <2>1. WritesInv /\ pc[t] # "idle" /\ pc'[t] # "idle" /\ UNCHANGED history /\ (lost => lost')
        /\ todo' = todo /\ status' = status
    BY <1>1, <1>2 DEF Inv, glass, locals
  <2> QED
    BY <1>2, <1>3, <1>4, <2>1, WritesKept
<1>6. RowsInv'
  <2> SUFFICES ASSUME ~overlap, ~lost, NEW r \in 1..Height
               PROVE  RowMatches(r)' \/ (process = "starting" /\ ToSet(r))'
    BY <1>1 DEF RowsInv, env, glass, history
  <2>1. RowMatches(r) \/ (process = "starting" /\ ToSet(r))
    BY <1>1, RowsNow DEF Drawing
  <2> QED
    BY <1>1, <2>1 DEF RowMatches, ToSet, glass, env, locals
<1> QED
  BY <1>5, <1>6

\* What Draw does, seen from the thread and from the others.
LEMMA DrawFacts ==
  ASSUME TypeInv, NEW t \in Threads, NEW s \in CString, NEW line \in Nat, NEW align \in Aligns,
         NEW back \in {"next", "scroll", "frame"}, Draw(t, s, line, align, back)
  PROVE  /\ pc'[t] = "draw" /\ sent'[t] = 0 /\ call'[t].row = RowOf(line) /\ call'[t].back = back
         /\ call'[t].chars \in Formatted(s, align)
         /\ \A u \in Threads \ {t} : pc'[u] = pc[u]
<1>1. pc' = [pc EXCEPT ![t] = "draw"] /\ sent' = [sent EXCEPT ![t] = 0]
  BY DEF Draw, Goto
<1>2. PICK chars \in Formatted(s, align) :
        call' = [call EXCEPT ![t] = [row |-> RowOf(line), chars |-> chars, back |-> back]]
  BY DEF Draw
<1>3. call'[t] = [row |-> RowOf(line), chars |-> chars, back |-> back]
  BY <1>2, ThreadTypes
<1> QED
  BY <1>1, <1>2, <1>3, ThreadTypes

\* The line is stored, and what is drawn of it shows it.
LEMMA StoreLineWrites ==
  ASSUME Inv, NEW t \in Threads, StoreLine(t) PROVE WritesInv' /\ RowsInv'
<1> DEFINE j == Head(todo[t]).line
           x == Head(todo[t]).text
           a == Head(todo[t]).align
<1>1. /\ pc[t] = "store" /\ todo[t] # <<>> /\ j \in 0..Height /\ a \in Aligns
      /\ x \in Known /\ Whole(x) \in CString
      /\ lcdLines' = [lcdLines EXCEPT ![j] = [text |-> x, align |-> a]]
      /\ \/ Rolls(x) /\ Draw(t, Whole(x), j, "LEFT", "scroll")
         \/ ~Rolls(x) /\ Draw(t, Whole(x), j, a, "next")
      /\ scroll' = [scroll EXCEPT ![t] = [line |-> j, len |-> 0, next |-> 0]]
      /\ todo' = [todo EXCEPT ![t] = Tail(@)] /\ status' = [status EXCEPT ![t] = "MESSAGE_SET"]
      /\ UNCHANGED <<glass, env, history>>
  BY Stored DEF Inv
<1>2. process # "down" /\ TypeInv /\ CanBeSet(Head(todo[t]))
  BY <1>1, Sizes DEF StoreLine, At, Running, Inv, CanBeSet
<1>3. x \in Strings /\ j \in Nat /\ "LEFT" \in Aligns
  BY <1>1, NamedTexts, Sizes DEF Aligns
<1>4. \E i \in Asks : i = Head(todo[t]) /\ i.line = j /\ i.text = x /\ i.align = a
  BY <1>1, <1>2, FirstItem, ItemTypes
<1>5. PICK i \in Asks : i = Head(todo[t]) /\ i.line = j /\ i.text = x /\ i.align = a
  BY <1>4
<1> HIDE DEF j, x, a
<1>6. [text |-> x, align |-> a] # NULL
  <2>1. [text |-> x, align |-> a] \in Line
    BY <1>1, <1>3 DEF Line
  <2> QED
    BY <2>1, NullOK
<1>7. lcdLines'[j] = [text |-> x, align |-> a] /\ \A k \in 0..Height : k # j => lcdLines'[k] = lcdLines[k]
  <2>1. lcdLines \in [0..Height -> Line \cup {NULL}]
    BY <1>2 DEF TypeInv, LinesOK
  <2> QED
    BY <1>1, <2>1
<1>8. /\ todo'[t] = Tail(todo[t]) /\ status'[t] = "MESSAGE_SET" /\ scroll'[t].line = j
      /\ \A u \in Threads \ {t} : todo'[u] = todo[u] /\ status'[u] = status[u]
  BY <1>1, <1>2, ThreadTypes
<1>9. /\ pc'[t] = "draw" /\ sent'[t] = 0 /\ call'[t].row = RowOf(j)
      /\ \A u \in Threads \ {t} : pc'[u] = pc[u]
      /\ \/ Rolls(x) /\ call'[t].back = "scroll" /\ Shows(call'[t].chars, x, "LEFT")
         \/ ~Rolls(x) /\ call'[t].back = "next" /\ Shows(call'[t].chars, x, a)
  <2>1. CASE Rolls(x) /\ Draw(t, Whole(x), j, "LEFT", "scroll")
    <3>1. /\ pc'[t] = "draw" /\ sent'[t] = 0 /\ call'[t].row = RowOf(j) /\ call'[t].back = "scroll"
          /\ call'[t].chars \in Formatted(Whole(x), "LEFT")
          /\ \A u \in Threads \ {t} : pc'[u] = pc[u]
      BY <1>1, <1>2, <1>3, <2>1, DrawFacts
    <3> QED
      BY <1>3, <2>1, <3>1, FormattedShows
  <2>2. CASE ~Rolls(x) /\ Draw(t, Whole(x), j, a, "next")
    <3>1. /\ pc'[t] = "draw" /\ sent'[t] = 0 /\ call'[t].row = RowOf(j) /\ call'[t].back = "next"
          /\ call'[t].chars \in Formatted(Whole(x), a)
          /\ \A u \in Threads \ {t} : pc'[u] = pc[u]
      BY <1>1, <1>2, <1>3, <2>2, DrawFacts
    <3> QED
      BY <1>1, <1>3, <2>2, <3>1, FormattedShows
  <2> QED
    BY <1>1, <2>1, <2>2
<1>10. /\ Suffix(t)' /\ Taken(t)' = Taken(t) + 1 /\ Taken(t) \in Nat /\ Current(t)' = i
       /\ Len(asked[t]) = 1 => todo'[t] = <<>> /\ asked[t][1] = i
       /\ asked' = asked /\ config' = config
  <2>1. Suffix(t) /\ asked' = asked /\ config' = config
    BY <1>1 DEF Inv, WritesInv, history, env
  <2> QED
    BY <1>1, <1>2, <1>5, <1>8, <2>1, TakenOne
<1>11. StatusOK(t)'
  BY <1>2, <1>5, <1>8, <1>10 DEF StatusOK, CanBeSet
<1>12. /\ Rolls(i.text)' <=> Rolls(x)
       /\ ShownAs(call[t].chars, i)'
       /\ \E b \in {"LEFT", i.align} : Shows(call'[t].chars, i.text, b)
  <2>1. Rolls(i.text)' <=> Rolls(x)
    BY <1>5, <1>10 DEF Rolls
  <2>2. ShownAs(call[t].chars, i)'
    BY <1>1, <1>5, <1>9, <2>1 DEF ShownAs
  <2> QED
    BY <1>5, <1>9, <2>1, <2>2
<1>13. Alone(t) => AloneOK(t)'
  <2> SUFFICES ASSUME Alone(t) PROVE AloneOK(t)'
    OBVIOUS
  <2>1. Drawn(t)'
    BY <1>9 DEF Drawn
  <2>2. LineInUse(t)'
    <3>1. /\ Taken(t)' >= 1 /\ CanBeSet(Current(t)') /\ Current(t)'.line = scroll'[t].line
          /\ lcdLines'[scroll'[t].line] # NULL
          /\ lcdLines'[scroll'[t].line].text = i.text /\ lcdLines'[scroll'[t].line].align = i.align
          /\ Current(t)' = i
      BY <1>2, <1>5, <1>6, <1>7, <1>8, <1>10
    <3>2. ScrollsOn(t, "scroll")' \/ ScrollsOn(t, "frame")' => Rolls(Current(t).text)'
      BY <1>9, <1>10, <1>12 DEF ScrollsOn, Rolls
    <3>3. ShownAs(call[t].chars, Current(t))'
      BY <1>10, <1>12 DEF ShownAs, Rolls
    <3> QED
      BY <1>8, <1>9, <1>12, <3>1, <3>2, <3>3 DEF LineInUse, CanBeSet
  <2>3. ASSUME NEW r \in 1..Height PROVE InProgress(t, r)' \/ RowDone(t, r)'
    <3>1. CASE r = RowOf(j)
      BY <1>8, <1>9, <3>1 DEF InProgress
    <3>2. CASE r # RowOf(j)
      <4>1. RowDone(t, r)
        BY <1>1 DEF Inv, WritesInv, AloneOK, InProgress
      <4> QED
        BY <1>1, <1>2, <1>5, <1>10, <3>2, <4>1, RowKept DEF glass, history
    <3> QED
      BY <3>1, <3>2
  <2> QED
    BY <2>1, <2>2, <2>3 DEF AloneOK
<1>14. WritesInv'
  <2>1. WritesInv /\ pc[t] # "idle" /\ pc'[t] # "idle" /\ UNCHANGED history /\ (lost => lost')
    BY <1>1, <1>9 DEF Inv, glass
  <2> QED
    BY <1>8, <1>9, <1>10, <1>11, <1>13, <2>1, WritesKept
<1>15. RowsInv'
  <2> SUFFICES ASSUME ~overlap, ~lost, NEW r \in 1..Height
               PROVE  RowMatches(r)' \/ (process = "starting" /\ ToSet(r))' \/ Drawing(t, r)'
    BY <1>1 DEF RowsInv, env, glass, history
  <2>1. CASE r = RowOf(j)
    BY <1>8, <1>9, <2>1 DEF Drawing
  <2>2. CASE r # RowOf(j)
    <3>1. RowMatches(r) \/ (process = "starting" /\ t = Main /\ ToSet(r))
      BY <1>1, <1>2, RowsNow DEF Drawing
    <3>2. r # j /\ (r = 1 => j # 0)
      BY <2>2, RowOfLine
    <3>3. RowMatches(r) => RowMatches(r)'
      BY <1>1, <1>7, <3>2, Sizes DEF RowMatches, glass
    <3>4. t = Main /\ ToSet(r) => ToSet(r)'
      BY <1>1, <1>2, <1>8, <3>2, DropFirst DEF j
    <3> QED
      BY <1>1, <3>1, <3>3, <3>4 DEF env
  <2> QED
    BY <2>1, <2>2
<1> QED
  BY <1>14, <1>15

\* A frame is drawn from the line kept, and the last one shows it.
LEMMA ScrolledWrites ==
  ASSUME Inv, NEW t \in Threads, BeginScroll(t) \/ NextFrame(t) PROVE WritesInv' /\ RowsInv'
<1> DEFINE i == scroll[t].line
           x == lcdLines[i].text
<1>1. /\ process # "down" /\ pc[t] \in {"scroll", "frame"} /\ TypeInv
      /\ UNCHANGED <<glass, lcdLines, env, todo, status, history>>
      /\ pc[t] = "scroll" => config.enabled /\ lcdLines[i] # NULL
  BY DEF BeginScroll, NextFrame, At, Running, Inv
<1>2. /\ i \in 0..Height /\ lcdLines[i] # NULL /\ x \in Strings /\ scroll[t].next \in Nat
      /\ \/ Draw(t, Whole(x), i, "LEFT", "next")
         \/ \E s \in {Whole(x), From(x, scroll[t].next)} : Draw(t, s, i, "LEFT", "frame")
      /\ scroll' = scroll \/ \E n, m : scroll' = [scroll EXCEPT ![t] = [line |-> i, len |-> n, next |-> m]]
  <2>1. scroll[t].next \in Nat
    BY <1>1, ThreadTypes
  <2> QED
    BY <1>1, <2>1, Scrolled
<1>3. i \in Nat /\ "LEFT" \in Aligns /\ Whole(x) \in CString /\ From(x, scroll[t].next) \in CString
  BY <1>2, Sizes, FromType DEF Aligns, Whole
<1>4. scroll'[t].line = i
  BY <1>1, <1>2, ThreadTypes
<1>5. /\ pc'[t] = "draw" /\ sent'[t] = 0 /\ call'[t].row = RowOf(i)
      /\ \A u \in Threads \ {t} : pc'[u] = pc[u]
      /\ \/ call'[t].back = "next" /\ Shows(call'[t].chars, x, "LEFT")
         \/ call'[t].back = "frame"
  <2>1. CASE Draw(t, Whole(x), i, "LEFT", "next")
    <3>1. /\ pc'[t] = "draw" /\ sent'[t] = 0 /\ call'[t].row = RowOf(i) /\ call'[t].back = "next"
          /\ call'[t].chars \in Formatted(Whole(x), "LEFT")
          /\ \A u \in Threads \ {t} : pc'[u] = pc[u]
      BY <1>1, <1>3, <2>1, DrawFacts
    <3> QED
      BY <1>2, <1>3, <3>1, FormattedShows
  <2>2. ASSUME NEW s \in {Whole(x), From(x, scroll[t].next)}, Draw(t, s, i, "LEFT", "frame")
        PROVE  /\ pc'[t] = "draw" /\ sent'[t] = 0 /\ call'[t].row = RowOf(i) /\ call'[t].back = "frame"
               /\ \A u \in Threads \ {t} : pc'[u] = pc[u]
    <3>1. s \in CString
      BY <1>3
    <3> QED
      BY <1>1, <1>3, <2>2, <3>1, DrawFacts
  <2> QED
    BY <1>2, <2>1, <2>2
<1>6. Suffix(t)' /\ StatusOK(t)'
  BY <1>1 DEF Inv, WritesInv, Suffix, StatusOK, Taken, CanBeSet, history
<1>7. Taken(t)' = Taken(t) /\ Current(t)' = Current(t)
  BY <1>1 DEF Taken, Current, history
<1>8. Alone(t) => AloneOK(t)'
  <2> SUFFICES ASSUME Alone(t) PROVE AloneOK(t)'
    OBVIOUS
  <2>1. Drawn(t)'
    BY <1>5 DEF Drawn
  <2>2. /\ Taken(t) >= 1 /\ CanBeSet(Current(t)) /\ Current(t).line = i /\ Current(t).text = x
        /\ Rolls(Current(t).text) \/ Current(t).align = "LEFT"
    BY <1>1 DEF Inv, WritesInv, AloneOK, LineInUse, ScrollsOn
  <2>3. call'[t].back # "frame" => ShownAs(call'[t].chars, Current(t))
    BY <1>5, <2>2 DEF ShownAs, CanBeSet
  <2>4. LineInUse(t)'
    <3>1. /\ lcdLines' = lcdLines /\ config' = config
      BY <1>1 DEF env
    <3>2. Rolls(Current(t).text)' <=> Rolls(Current(t).text)
      BY <1>7, <3>1 DEF Rolls
    <3>3. call'[t].back # "frame" => ShownAs(call[t].chars, Current(t))'
      BY <1>7, <2>3, <3>1 DEF ShownAs, Rolls
    <3> QED
      BY <1>2, <1>4, <1>5, <1>7, <2>2, <3>1, <3>2, <3>3 DEF LineInUse, CanBeSet
  <2>5. ASSUME NEW r \in 1..Height PROVE InProgress(t, r)' \/ RowDone(t, r)'
    <3>1. CASE r = RowOf(i)
      BY <1>4, <1>5, <3>1 DEF InProgress
    <3>2. CASE r # RowOf(i)
      <4>1. RowDone(t, r)
        BY <3>2 DEF Inv, WritesInv, AloneOK, InProgress
      <4> QED
        BY <1>1, <4>1, RowKept DEF glass, env, history
    <3> QED
      BY <3>1, <3>2
  <2> QED
    BY <2>1, <2>4, <2>5 DEF AloneOK
<1>9. WritesInv'
  <2>1. WritesInv /\ pc[t] # "idle" /\ pc'[t] # "idle" /\ UNCHANGED history /\ (lost => lost')
    BY <1>1, <1>5 DEF Inv, glass
  <2> QED
    BY <1>1, <1>5, <1>6, <1>8, <2>1, WritesKept
<1>10. RowsInv'
  <2> SUFFICES ASSUME ~overlap, ~lost, NEW r \in 1..Height
               PROVE  RowMatches(r)' \/ (process = "starting" /\ ToSet(r))' \/ Drawing(t, r)'
    BY <1>1 DEF RowsInv, env, glass, history
  <2>1. CASE r = RowOf(i)
    BY <1>4, <1>5, <2>1 DEF Drawing
  <2>2. CASE r # RowOf(i)
    <3>1. RowMatches(r) \/ (process = "starting" /\ ToSet(r))
      BY <1>1, <2>2, RowsNow DEF Drawing
    <3> QED
      BY <1>1, <3>1 DEF RowMatches, ToSet, glass, env
  <2> QED
    BY <2>1, <2>2
<1> QED
  BY <1>9, <1>10

\* What the write of a thread that is alone does to the panel.
LEMMA WriteAlone ==
  ASSUME Inv, NEW t \in Threads, Write(t), Alone(t), lost' = FALSE
  PROVE  LET row == call[t].row
             n   == sent[t]
         IN  /\ \A r \in 1..Height : r # row => panel'[r] = panel[r]
             /\ \A k \in 1..Width : k <= n => panel'[row][k] = call[t].chars[k]
             /\ n < Width => cursor' = <<row, n + 1>>
<1> DEFINE row == call[t].row
           n   == sent[t]
<1>1. /\ pc[t] = "draw" /\ n \in 0..Width /\ row \in 1..Height /\ panel \in [1..Height -> Row]
      /\ cursor \in (0..Height) \X (1..Width)
  BY ThreadTypes DEF Write, At, Inv, TypeInv, GlassOK
<1>2. TakeByte(call[t], n)
  BY DEF Write, Alone, glass
<1>3. n > 0 => cursor = <<row, n>> /\ \A k \in 1..(n - 1) : panel[row][k] = call[t].chars[k]
  BY <1>1 DEF Inv, WritesInv, AloneOK, Drawn
<1>4. CASE n = 0
  <2>1. cursor' = <<row, 1>> /\ panel' = panel
    BY <1>2, <1>4 DEF TakeByte
  <2>2. \A k \in 1..Width : ~(k <= n)
    BY <1>4, Sizes
  <2> QED
    BY <1>4, <2>1, <2>2
<1>5. CASE n # 0
  <2>1. n \in 1..Width
    BY <1>1, <1>5, Sizes
  <2>2. cursor[1] = row /\ cursor[2] = n /\ row # 0
    BY <1>1, <1>3, <2>1, Sizes
  <2>3. panel' = [panel EXCEPT ![row][n] = call[t].chars[n]] /\ cursor' = Advance(cursor)
    BY <1>2, <1>5, <2>2 DEF TakeByte
  <2> HIDE DEF row, n
  <2>4. panel[row] \in [1..Width -> Glyphs]
    BY <1>1 DEF Row, Glyphs
  <2>5. panel'[row] = [panel[row] EXCEPT ![n] = call[t].chars[n]]
    BY <1>1, <2>3
  <2>6. \A r \in 1..Height : r # row => panel'[r] = panel[r]
    BY <1>1, <2>3
  <2>7. ASSUME NEW k \in 1..Width, k <= n PROVE panel'[row][k] = call[t].chars[k]
    <3>1. CASE k = n
      BY <2>1, <2>4, <2>5, <3>1
    <3>2. CASE k # n
      <4>1. k \in 1..(n - 1) /\ n > 0
        BY <2>1, <2>7, <3>2, Sizes
      <4> QED
        BY <1>3, <2>4, <2>5, <3>2, <4>1
    <3> QED
      BY <3>1, <3>2
  <2>8. n < Width => cursor' = <<row, n + 1>>
    BY <2>2, <2>3 DEF Advance
  <2> QED
    BY <2>6, <2>7, <2>8 DEF row, n
<1> QED
  BY <1>4, <1>5

\* At the end of its drawing the row is what was drawn.
LEMMA WriteWrites ==
  ASSUME Inv, NEW t \in Threads, Write(t) PROVE WritesInv' /\ RowsInv'
<1> DEFINE row == call[t].row
           back == call[t].back
           i == scroll[t].line
<1>1. /\ process # "down" /\ pc[t] = "draw" /\ TypeInv /\ TypeInv'
      /\ UNCHANGED <<lcdLines, env, todo, scroll, status, history>>
      /\ lost => lost'
      /\ back \in {"next", "scroll", "frame"} /\ sent[t] \in 0..Width
  <2>1. process # "down" /\ pc[t] = "draw" /\ UNCHANGED <<lcdLines, env, todo, scroll, status, history>>
    BY DEF Write, At, Running
  <2>2. TypeInv /\ TypeInv'
    BY WriteTypes DEF Inv
  <2>3. lost => lost'
    BY DEF Write, glass
  <2>4. back \in {"next", "scroll", "frame"} /\ sent[t] \in 0..Width
    BY <2>1, <2>2, ThreadTypes DEF PlaceOK
  <2> QED
    BY <2>1, <2>2, <2>3, <2>4
<1>2. /\ \A u \in Threads \ {t} : pc'[u] = pc[u]
      /\ \/ /\ sent[t] < Width /\ sent'[t] = sent[t] + 1
            /\ pc'[t] = "draw" /\ call'[t] = call[t]
         \/ /\ sent[t] = Width /\ pc'[t] = back
  <2>1. ~(sent[t] < Width) => sent[t] = Width
    BY <1>1, Sizes
  <2> QED
    BY <1>1, <2>1, ThreadTypes DEF Write, Goto
<1>3. Suffix(t)' /\ StatusOK(t)'
  BY <1>1 DEF Inv, WritesInv, Suffix, StatusOK, Taken, CanBeSet, history
<1>4. /\ Taken(t)' = Taken(t) /\ Current(t)' = Current(t) /\ asked' = asked
      /\ lcdLines' = lcdLines /\ config' = config /\ scroll' = scroll /\ todo' = todo
  BY <1>1 DEF Taken, Current, history, env
<1>5. ASSUME Alone(t)
      PROVE  /\ Taken(t) >= 1 /\ CanBeSet(Current(t)) /\ Current(t).line = i /\ lcdLines[i] # NULL
             /\ lcdLines[i].text = Current(t).text /\ row = RowOf(i) /\ row \in 1..Height
             /\ ScrollsOn(t, "scroll") \/ ScrollsOn(t, "frame") =>
                  Rolls(Current(t).text) \/ Current(t).align = "LEFT"
             /\ back # "frame" =>
                  /\ ShownAs(call[t].chars, Current(t))
                  /\ \E a \in {"LEFT", lcdLines[i].align} : Shows(call[t].chars, lcdLines[i].text, a)
             /\ asked[t] # <<>>
  <2>1. LineInUse(t) /\ Suffix(t) /\ row \in 1..Height
    BY <1>1, <1>5, ThreadTypes DEF Inv, WritesInv, AloneOK
  <2>2. asked[t] = <<>> => ~(Taken(t) >= 1)
    BY <1>1 DEF Taken, TypeInv, ThreadsOK
  <2> QED
    BY <1>1, <2>1, <2>2 DEF LineInUse
<1>6. ASSUME Alone(t), ~lost'
      PROVE  /\ \A r \in 1..Height : r # row => panel'[r] = panel[r]
             /\ sent[t] = Width => panel'[row] = call[t].chars
             /\ sent[t] < Width => /\ cursor' = <<row, sent[t] + 1>>
                                   /\ \A k \in 1..sent[t] : panel'[row][k] = call[t].chars[k]
  <2>1. /\ \A r \in 1..Height : r # row => panel'[r] = panel[r]
        /\ \A k \in 1..Width : k <= sent[t] => panel'[row][k] = call[t].chars[k]
        /\ sent[t] < Width => cursor' = <<row, sent[t] + 1>>
    <3>1. lost' = FALSE
      BY <1>1, <1>6 DEF TypeInv, GlassOK
    <3> QED
      BY <1>6, <3>1, WriteAlone
  <2>2. sent[t] = Width => panel'[row] = call[t].chars
    <3> SUFFICES ASSUME sent[t] = Width PROVE panel'[row] = call[t].chars
      OBVIOUS
    <3>1. panel' \in [1..Height -> Row] /\ row \in 1..Height /\ call[t].chars \in Row
      BY <1>1, ThreadTypes DEF TypeInv, GlassOK
    <3>2. panel'[row] \in Row
      BY <3>1
    <3>3. \A k \in 1..Width : k <= sent[t]
      BY Sizes
    <3> QED
      BY <2>1, <3>1, <3>2, <3>3, SameRow
  <2>3. \A k \in 1..sent[t] : k \in 1..Width /\ k <= sent[t]
    BY <1>1, Sizes
  <2> QED
    BY <2>1, <2>2, <2>3
<1>7. (Alone(t) /\ ~lost') => AloneOK(t)'
  <2> SUFFICES ASSUME Alone(t), ~lost' PROVE AloneOK(t)'
    OBVIOUS
  <2>1. Drawn(t)'
    <3>1. CASE pc'[t] = "draw"
      <4>1. sent[t] < Width /\ sent'[t] = sent[t] + 1 /\ call'[t] = call[t] /\ sent'[t] - 1 = sent[t]
        BY <1>1, <1>2, <3>1, Sizes
      <4> QED
        BY <1>6, <4>1 DEF Drawn
    <3> QED
      BY <3>1 DEF Drawn
  <2>2. LineInUse(t)'
    <3>1. ScrollsOn(t, "scroll")' \/ ScrollsOn(t, "frame")' =>
            Rolls(Current(t).text)' \/ Current(t)'.align = "LEFT"
      BY <1>1, <1>2, <1>4, <1>5 DEF ScrollsOn, Rolls
    <3>2. pc'[t] = "draw" /\ call'[t].back # "frame" => ShownAs(call[t].chars, Current(t))'
      BY <1>1, <1>2, <1>4, <1>5 DEF ShownAs, Rolls
    <3> QED
      BY <1>1, <1>2, <1>4, <1>5, <3>1, <3>2 DEF LineInUse, CanBeSet
  <2>3. ASSUME NEW r \in 1..Height PROVE InProgress(t, r)' \/ RowDone(t, r)'
    <3>1. CASE r # row
      <4>1. RowDone(t, r)
        BY <1>1, <1>5, <3>1 DEF Inv, WritesInv, AloneOK, InProgress
      <4>2. panel'[r] = panel[r]
        BY <1>6, <3>1
      <4> QED
        BY <1>1, <1>4, <4>1, <4>2, RowKept DEF history
    <3>2. CASE r = row /\ (pc'[t] = "draw" \/ pc'[t] = "frame")
      BY <1>4, <1>5, <3>2 DEF InProgress
    <3>3. CASE r = row /\ pc'[t] # "draw" /\ pc'[t] # "frame"
      <4>1. panel'[r] = call[t].chars /\ back # "frame"
        BY <1>2, <1>6, <3>3
      <4>2. ShownAs(panel[r], Current(t))'
        BY <1>4, <1>5, <4>1 DEF ShownAs, Rolls
      <4>3. Taken(t)' \in 1..Len(asked'[t])
        <5>1. Len(asked[t]) \in Nat /\ Len(todo[t]) \in Nat
          BY <1>1 DEF TypeInv, ThreadsOK
        <5>2. Taken(t) \in Int /\ Taken(t) <= Len(asked[t])
          <6>1. \A m, n \in Nat : m - n \in Int /\ m - n <= m
            OBVIOUS
          <6> QED
            BY <5>1, <6>1, Zenon DEF Taken
        <5> QED
          BY <1>4, <1>5, <5>1, <5>2
      <4>4. CanBeSet(Current(t)') /\ RowOf(Current(t)'.line) = r
        BY <1>4, <1>5, <3>3
      <4> QED
        BY <1>1, <4>2, <4>3, <4>4, NowShown
    <3> QED
      BY <3>1, <3>2, <3>3
  <2> QED
    BY <2>1, <2>2, <2>3 DEF AloneOK
<1>8. WritesInv'
  <2>1. pc[t] # "idle" /\ pc'[t] # "idle" /\ UNCHANGED history
    BY <1>1, <1>2
  <2>2. Sole'
    BY <1>1, <1>2, <2>1 DEF Inv, WritesInv, Sole, history
  <2>3. ASSUME NEW u \in Threads, Alone(u)' PROVE AloneOK(u)'
    <3>1. Alone(u) /\ ~lost'
      BY <1>1, <2>3 DEF Alone, history
    <3>2. u = t
      BY <2>1, <3>1 DEF Inv, WritesInv, Sole, Alone
    <3> QED
      BY <1>7, <3>1, <3>2
  <2>4. \A u \in Threads : Suffix(u)' /\ StatusOK(u)'
    BY <1>1 DEF Inv, WritesInv, Suffix, StatusOK, Taken, CanBeSet, history
  <2> QED
    BY <2>2, <2>3, <2>4 DEF WritesInv
<1>9. RowsInv'
  <2> SUFFICES ASSUME ~overlap, ~lost', NEW r \in 1..Height
               PROVE  RowMatches(r)' \/ (process = "starting" /\ ToSet(r))' \/ Drawing(t, r)'
    BY <1>1 DEF RowsInv, env, history
  <2>1. Alone(t) /\ ~lost
    BY <1>1, OnlyOne DEF Alone
  <2>2. CASE r # row
    <3>1. RowMatches(r) \/ (process = "starting" /\ ToSet(r))
      BY <1>1, <1>5, <2>1, <2>2, RowsNow DEF Drawing
    <3>2. panel'[r] = panel[r]
      BY <1>6, <2>1, <2>2
    <3> QED
      BY <1>1, <3>1, <3>2 DEF RowMatches, ToSet, env
  <2>3. CASE r = row /\ (pc'[t] = "draw" \/ pc'[t] = "frame")
    BY <1>4, <1>5, <2>1, <2>3 DEF Drawing
  <2>4. CASE r = row /\ pc'[t] # "draw" /\ pc'[t] # "frame"
    <3>1. panel'[r] = call[t].chars /\ back # "frame"
      BY <1>2, <1>6, <2>1, <2>4
    <3>2. i \in {r} \cup {j \in {0} : r = 1}
      <4>1. i \in 0..Height /\ r = RowOf(i)
        BY <1>1, <1>5, <2>1, <2>4, ThreadTypes
      <4>2. CASE i = 0
        BY <4>1, <4>2, RowOfLine
      <4>3. CASE i # 0
        <5>1. i \in 1..Height
          BY <4>1, <4>3, Sizes
        <5> QED
          BY <4>1, <5>1, RowOfLine
      <4> QED
        BY <4>2, <4>3
    <3>3. lcdLines[i] # NULL /\ \E a \in {lcdLines[i].align, "LEFT"} : Shows(panel'[r], lcdLines[i].text, a)
      BY <1>5, <2>1, <3>1
    <3> HIDE DEF i
    <3> QED
      BY <1>4, <3>2, <3>3 DEF RowMatches
  <2> QED
    BY <2>2, <2>3, <2>4
<1> QED
  BY <1>8, <1>9

LEMMA ReturnWrites ==
  ASSUME Inv, NEW t \in Threads, Return(t) PROVE WritesInv' /\ RowsInv'
<1>1. /\ process # "down" /\ pc[t] = "next" /\ todo[t] = <<>> /\ pc' = [pc EXCEPT ![t] = "idle"]
      /\ status' = [status EXCEPT ![t] = "none"] /\ asked' = [asked EXCEPT ![t] = <<>>]
      /\ before' = [before EXCEPT ![t] = NULL] /\ process' = "up" /\ scroll' = [scroll EXCEPT ![t] = NoScroll]
      /\ UNCHANGED <<glass, lcdLines, config, host, todo, call, sent, overlap>>
  BY DEF Return, Ended, At, Running, Goto
<1>2. /\ pc \in [Threads -> Labels] /\ status' \in [Threads -> {"none", "MESSAGE_SET", "INVALID_LINE", "INVALID_ALIGN"}]
      /\ DOMAIN asked = Threads /\ DOMAIN before = Threads /\ DOMAIN status = Threads
  BY <1>1 DEF Inv, TypeInv, ThreadsOK
<1>3. /\ pc'[t] = "idle" /\ status'[t] = "none" /\ asked'[t] = <<>> /\ before'[t] = NULL /\ todo'[t] = <<>>
      /\ \A u \in Threads \ {t} : pc'[u] = pc[u] /\ status'[u] = status[u] /\ asked'[u] = asked[u]
                                  /\ before'[u] = before[u] /\ todo'[u] = todo[u]
  BY <1>1, <1>2
<1>4. \A u \in Threads \ {t} : ~Alone(u)
  BY <1>1 DEF Inv, WritesInv, Sole, Alone
<1>5. Sole'
  BY <1>1, <1>3 DEF Inv, WritesInv, Sole
<1>6. ASSUME NEW u \in Threads PROVE Suffix(u)' /\ StatusOK(u)'
  <2>1. CASE u = t
    <3>1. Len(todo'[t]) = 0 /\ Len(asked'[t]) = 0
      BY <1>3
    <3>2. Suffix(t)'
      BY <3>1 DEF Suffix
    <3>3. StatusOK(t)'
      BY <3>1 DEF StatusOK
    <3> QED
      BY <2>1, <3>2, <3>3
  <2>2. CASE u # t
    <3>1. Suffix(u) /\ StatusOK(u)
      BY DEF Inv, WritesInv
    <3>2. todo'[u] = todo[u] /\ asked'[u] = asked[u] /\ status'[u] = status[u]
      BY <1>3, <2>2
    <3> QED
      BY <3>1, <3>2 DEF Suffix, StatusOK, Taken, CanBeSet
  <2> QED
    BY <2>1, <2>2
<1>7. \A u \in Threads : ~Alone(u)'
  BY <1>1, <1>3, <1>4 DEF Alone, glass
<1>8. RowsInv'
  <2> SUFFICES ASSUME ~overlap, ~lost, NEW r \in 1..Height PROVE RowMatches(r)'
    BY <1>1 DEF RowsInv, glass
  <2>1. t = Main => ~ToSet(r)
    BY <1>1 DEF ToSet
  <2>2. RowMatches(r)
    BY <1>1, <2>1, RowsNow DEF Drawing
  <2> QED
    BY <1>1, <2>2 DEF RowMatches, glass
<1> QED
  BY <1>5, <1>6, <1>7, <1>8 DEF WritesInv

-----------------------------------------------------------------------------
(***************************************************************************)
(* Beginnings and ends                                                     *)
(***************************************************************************)
\* A thread that begins to work is alone exactly if nobody else is at work.
LEMMA Begins ==
  ASSUME Inv, NEW t \in Threads, pc[t] = "idle", NEW ls \in Seq(Asks), Overlapping(t, ls),
         pc'[t] # "idle", UNCHANGED glass,
         \A u \in Threads \ {t} : pc'[u] = pc[u] /\ todo'[u] = todo[u] /\ status'[u] = status[u],
         Suffix(t)', StatusOK(t)',
         Drawn(t)', LineInUse(t)',
         \A r \in 1..Height : InProgress(t, r)' \/ Reached(t, r)' = {}
  PROVE  WritesInv'
<1>1. /\ asked' = [asked EXCEPT ![t] = ls] /\ overlap' = (overlap \/ Busy # {})
      /\ before' = IF Busy = {} THEN [before EXCEPT ![t] = panel] ELSE [u \in Threads |-> NULL]
  BY DEF Overlapping, ForAll
<1>2. /\ DOMAIN asked = Threads /\ DOMAIN before = Threads /\ panel \in [1..Height -> Row]
  BY DEF Inv, TypeInv, ThreadsOK, GlassOK
<1>3. panel # NULL
  BY <1>2, NullOK
<1>4. /\ Busy = {} => before'[t] = panel /\ \A u \in Threads \ {t} : before'[u] = NULL /\ pc[u] = "idle"
      /\ Busy # {} => (\A u \in Threads : before'[u] = NULL) /\ overlap'
  <2>1. Busy = {} => \A u \in Threads : pc[u] = "idle" /\ before[u] = NULL
    BY DEF Busy, Inv, WritesInv, Sole
  <2> QED
    BY <1>1, <1>2, <2>1
<1>5. Sole'
  BY <1>3, <1>4 DEF Inv, WritesInv, Sole
<1>6. ASSUME NEW u \in Threads PROVE Suffix(u)' /\ StatusOK(u)'
  <2>1. CASE u = t
    BY <2>1
  <2>2. CASE u # t
    <3>1. Suffix(u) /\ StatusOK(u)
      BY DEF Inv, WritesInv
    <3>2. todo'[u] = todo[u] /\ asked'[u] = asked[u] /\ status'[u] = status[u]
      BY <1>1, <1>2, <2>2
    <3> QED
      BY <3>1, <3>2 DEF Suffix, StatusOK, Taken, CanBeSet
  <2> QED
    BY <2>1, <2>2
<1>7. ASSUME NEW u \in Threads, Alone(u)' PROVE AloneOK(u)'
  <2>1. u = t /\ before'[t] = panel'
    BY <1>4, <1>7 DEF Alone, glass
  <2>2. ASSUME NEW r \in 1..Height PROVE InProgress(t, r)' \/ RowDone(t, r)'
    BY <2>1 DEF RowDone
  <2> QED
    BY <2>1, <2>2 DEF AloneOK
<1> QED
  BY <1>5, <1>6, <1>7 DEF WritesInv

\* Beginning changes no row and no line.
LEMMA BeginsRows ==
  ASSUME Inv, NEW t \in Threads, NEW ls, Overlapping(t, ls),
         UNCHANGED <<glass, lcdLines, process>>, process # "down", todo'[Main] = todo[Main]
  PROVE  RowsInv'
<1> SUFFICES ASSUME ~overlap', ~lost', NEW r \in 1..Height
             PROVE  RowMatches(r)' \/ (process = "starting" /\ ToSet(r))'
  BY DEF RowsInv
<1>1. ~overlap /\ ~lost /\ \A u \in Threads : pc[u] = "idle"
  BY DEF Overlapping, Busy, glass
<1>2. RowMatches(r) \/ (process = "starting" /\ ToSet(r))
  BY <1>1 DEF Inv, RowsInv, Drawing
<1> QED
  BY <1>2 DEF RowMatches, ToSet, glass

\* Nothing of what is still all to be done is reached.
LEMMA NothingReached ==
  ASSUME NEW t \in Threads, NEW r, asked'[t] \in Seq(Asks), Taken(t)' = 0
  PROVE  Reached(t, r)' = {}
<1>1. \A k \in DOMAIN asked'[t] : ~(k <= 0)
  OBVIOUS
<1> QED
  BY <1>1 DEF Reached, Honoured

\* A thread begins with all the lines it was asked for still to set.
LEMMA AllToDo ==
  ASSUME Inv, NEW t \in Threads, pc[t] = "idle", NEW ls \in Seq(Items), Overlapping(t, ls),
         pc' = [pc EXCEPT ![t] = "next"], todo' = [todo EXCEPT ![t] = ls], UNCHANGED <<glass, status>>
  PROVE  WritesInv'
<1>1. /\ pc'[t] = "next" /\ todo'[t] = ls /\ asked'[t] = ls
      /\ \A u \in Threads \ {t} : pc'[u] = pc[u] /\ todo'[u] = todo[u] /\ status'[u] = status[u]
      /\ status'[t] = "none" /\ ls \in Seq(Asks)
  BY ThreadTypes, AsksItems DEF Overlapping, Inv, TypeInv, ThreadsOK, WritesInv, Sole
<1>2. Len(ls) \in Nat /\ Taken(t)' = 0
  BY <1>1 DEF Taken
<1>3. Suffix(t)' /\ StatusOK(t)'
  <2>1. Suffix(t)'
    <3>1. Len(todo'[t]) <= Len(asked'[t]) /\ \A k \in 1..Len(todo'[t]) : todo'[t][k] = asked'[t][0 + k]
      BY <1>1, <1>2
    <3> QED
      BY <1>2, <3>1 DEF Suffix
  <2> QED
    BY <1>1, <2>1 DEF StatusOK
<1>4. Drawn(t)' /\ LineInUse(t)'
  BY <1>1 DEF Drawn, LineInUse, ScrollsOn
<1>5. \A r \in 1..Height : Reached(t, r)' = {}
  BY <1>1, <1>2, NothingReached
<1> QED
  BY <1>1, <1>3, <1>4, <1>5, Begins

LEMMA CommandWrites ==
  ASSUME Inv, NEW t \in Clients,
         \/ \E ls \in Seq(Items), a \in Answers : SetLines(t, ls, a)
         \/ Refuse(t)
         \/ \E i \in 1..Height : ScrollRow(t, i)
  PROVE  WritesInv' /\ RowsInv'
<1>1. /\ t \in Threads /\ t # Main /\ Main \in Threads /\ process = "up" /\ pc[t] = "idle"
      /\ UNCHANGED <<glass, lcdLines, env, call, sent>>
      /\ todo[t] = <<>> /\ status[t] = "none" /\ TypeInv
  BY ThreadsDiffer DEF SetLines, Refuse, ScrollRow, Command, At, Threads, Inv, WritesInv, Sole
<1>2. ASSUME NEW ls \in Seq(Items), NEW a \in Answers, SetLines(t, ls, a) PROVE WritesInv' /\ RowsInv'
  <2>1. /\ todo' = [todo EXCEPT ![t] = ls] /\ pc' = [pc EXCEPT ![t] = "next"]
        /\ Overlapping(t, ls) /\ UNCHANGED <<scroll, status>>
    BY <1>2 DEF SetLines, Goto
  <2>2. WritesInv'
    BY <1>1, <2>1, AllToDo
  <2>3. todo'[Main] = todo[Main] /\ process' = process /\ process # "down"
    BY <1>1, <2>1 DEF env
  <2> QED
    BY <1>1, <2>1, <2>2, <2>3, BeginsRows
<1>3. CASE Refuse(t)
  <2>1. /\ status' = [status EXCEPT ![t] = "INVALID_LINE"] /\ pc' = [pc EXCEPT ![t] = "next"]
        /\ Overlapping(t, <<>>) /\ UNCHANGED <<todo, scroll>>
    BY <1>3 DEF Refuse, Goto
  <2>2. /\ pc'[t] = "next" /\ todo'[t] = <<>> /\ asked'[t] = <<>>
        /\ \A u \in Threads \ {t} : pc'[u] = pc[u] /\ todo'[u] = todo[u] /\ status'[u] = status[u]
    BY <1>1, <2>1 DEF Overlapping, TypeInv, ThreadsOK
  <2>3. <<>> \in Seq(Asks)
    OBVIOUS
  <2>4. Taken(t)' = 0 /\ Len(asked'[t]) = 0 /\ Len(todo'[t]) = 0
    BY <2>2 DEF Taken
  <2>5. Suffix(t)' /\ StatusOK(t)'
    BY <2>4 DEF Suffix, StatusOK
  <2>6. Drawn(t)' /\ LineInUse(t)'
    BY <2>2 DEF Drawn, LineInUse, ScrollsOn
  <2>7. \A r \in 1..Height : Reached(t, r)' = {}
    BY <1>1, <2>2, <2>3, <2>4, NothingReached
  <2>8. WritesInv'
    BY <1>1, <2>1, <2>2, <2>3, <2>5, <2>6, <2>7, Begins
  <2>9. todo'[Main] = todo[Main] /\ process' = process /\ process # "down"
    BY <1>1, <2>1 DEF env
  <2> QED
    BY <1>1, <2>1, <2>8, <2>9, BeginsRows
<1>4. ASSUME NEW i \in 1..Height, ScrollRow(t, i) PROVE WritesInv' /\ RowsInv'
  <2> DEFINE one == Item(lcdLines[i].text, i, "LEFT")
             ls  == IF config.enabled /\ lcdLines[i] # NULL THEN <<one>> ELSE <<>>
  <2>1. /\ scroll' = [scroll EXCEPT ![t] = [line |-> i, len |-> 0, next |-> 0]]
        /\ pc' = [pc EXCEPT ![t] = "scroll"]
        /\ Overlapping(t, ls) /\ UNCHANGED <<todo, status>>
    BY <1>4, FreshScroll DEF ScrollRow, Goto
  <2>2. i \in 0..Height /\ i <= Height
    BY Sizes
  <2>3. PICK x : x = lcdLines[i].text
    OBVIOUS
  <2>4. PICK it : it = [text |-> x, line |-> i, align |-> "LEFT"]
    OBVIOUS
  <2>5. ls = IF config.enabled /\ lcdLines[i] # NULL THEN <<it>> ELSE <<>>
    BY <2>3, <2>4 DEF Item
  <2>6. config.enabled /\ lcdLines[i] # NULL => it \in Asks
    BY <1>1, <2>2, <2>3, <2>4, LineType, Sizes DEF Asks, Aligns
  <2> HIDE DEF ls
  <2>7. PICK l : l = ls
    OBVIOUS
  <2>8. l \in Seq(Asks) /\ Overlapping(t, l)
    <3>1. CASE config.enabled /\ lcdLines[i] # NULL
      <4>1. l = <<it>> /\ it \in Asks
        BY <2>5, <2>6, <2>7, <3>1
      <4> QED
        BY <2>1, <2>7, <4>1
    <3>2. CASE ~(config.enabled /\ lcdLines[i] # NULL)
      <4>1. l = <<>>
        BY <2>5, <2>7, <3>2
      <4> QED
        BY <2>1, <2>7, <4>1
    <3> QED
      BY <3>1, <3>2
  <2>9. /\ pc'[t] = "scroll" /\ todo'[t] = <<>> /\ asked'[t] = l /\ scroll'[t].line = i /\ status'[t] = "none"
        /\ \A u \in Threads \ {t} : pc'[u] = pc[u] /\ todo'[u] = todo[u] /\ status'[u] = status[u]
        /\ config' = config /\ lcdLines' = lcdLines /\ Len(todo'[t]) = 0
    BY <1>1, <2>1, <2>8, ThreadTypes DEF Overlapping, TypeInv, ThreadsOK, env
  <2>10. \/ /\ l = <<it>> /\ config.enabled /\ lcdLines[i] # NULL
            /\ Len(l) = 1 /\ Taken(t)' = 1 /\ Current(t)' = it /\ l[1] = it
         \/ /\ l = <<>> /\ ~(config.enabled /\ lcdLines[i] # NULL)
            /\ Len(l) = 0 /\ Taken(t)' = 0
    <3>1. Taken(t)' = Len(l) - 0 /\ Current(t)' = l[Len(l) - 0]
      BY <2>9 DEF Taken, Current
    <3>2. CASE l = <<it>> /\ config.enabled /\ lcdLines[i] # NULL
      <4>1. Len(l) = 1 /\ l[1] = it
        BY <3>2
      <4>2. Taken(t)' = 1 /\ Current(t)' = it
        BY <3>1, <4>1
      <4> QED
        BY <3>2, <4>1, <4>2
    <3>3. CASE l = <<>> /\ ~(config.enabled /\ lcdLines[i] # NULL)
      <4>1. Len(l) = 0
        BY <3>3
      <4> QED
        BY <3>1, <3>3, <4>1
    <3> QED
      BY <2>5, <2>7, <3>2, <3>3
  <2>11. Suffix(t)' /\ StatusOK(t)'
    BY <2>9, <2>10 DEF Suffix, StatusOK
  <2>12. Drawn(t)' /\ LineInUse(t)'
    <3>1. Drawn(t)'
      BY <2>9 DEF Drawn
    <3>2. LineInUse(t)'
      <4>1. l = <<it>> => l # <<>>
        OBVIOUS
      <4>2. CanBeSet(it) /\ it.line = i /\ it.text = lcdLines[i].text /\ it.align = "LEFT"
        BY <2>2, <2>3, <2>4 DEF CanBeSet, Aligns
      <4> QED
        BY <2>9, <2>10, <4>1, <4>2 DEF LineInUse
    <3> QED
      BY <3>1, <3>2
  <2>13. ASSUME NEW r \in 1..Height PROVE InProgress(t, r)' \/ Reached(t, r)' = {}
    <3>1. CASE l = <<>>
      <4>1. Len(l) = 0
        BY <3>1
      <4>2. Taken(t)' = 0
        BY <2>10, <4>1
      <4> QED
        BY <1>1, <2>8, <2>9, <4>2, NothingReached
    <3>2. CASE l = <<it>> /\ r = RowOf(i)
      <4>1. l # <<>> /\ config.enabled
        BY <2>10, <3>2
      <4> QED
        BY <2>9, <3>2, <4>1 DEF InProgress
    <3>3. CASE l = <<it>> /\ r # RowOf(i)
      <4>1. DOMAIN l = {1} /\ l[1].line = i
        BY <2>4, <3>3
      <4>2. \A k \in DOMAIN l : RowOf(l[k].line) # r
        BY <3>3, <4>1
      <4> QED
        BY <2>9, <4>2 DEF Reached, Honoured
    <3> QED
      BY <2>10, <3>1, <3>2, <3>3
  <2>14. WritesInv'
    BY <1>1, <2>8, <2>9, <2>11, <2>12, <2>13, Begins
  <2>15. todo'[Main] = todo[Main] /\ process' = process /\ process # "down"
    BY <1>1, <2>1 DEF env
  <2> QED
    BY <1>1, <2>1, <2>14, <2>15, BeginsRows
<1> QED
  BY <1>2, <1>3, <1>4

LEMMA HandleSigsWrites ==
  ASSUME Inv, NEW h \in Clients \cup {Main}, HandleSigs(h) PROVE WritesInv' /\ RowsInv'
<1>1. /\ process # "down" /\ host = NULL
      /\ todo' = [todo EXCEPT ![Handler] = Farewell]
      /\ pc' = [pc EXCEPT ![Handler] = "next"] /\ Overlapping(Handler, Farewell)
      /\ UNCHANGED <<glass, lcdLines, config, process, call, sent, scroll, status>>
  BY DEF HandleSigs, Goto
<1>2. Handler \in Threads /\ Handler # Main /\ Farewell \in Seq(Items) /\ pc[Handler] = "idle"
  BY <1>1, ItemTypes, ThreadsDiffer DEF Threads, Inv, CleanInv, Phases
<1>3. WritesInv'
  BY <1>1, <1>2, AllToDo
<1>4. todo'[Main] = todo[Main]
  BY <1>1, <1>2
<1> QED
  BY <1>1, <1>2, <1>3, <1>4, BeginsRows

\* A start asks for every row.
LEMMA RestartWrites == Inv /\ Restart => WritesInv' /\ RowsInv'
<1> SUFFICES ASSUME Inv, Restart PROVE WritesInv' /\ RowsInv'
  OBVIOUS
<1>1. PICK ls : ls = ClearLines \o Greeting
  OBVIOUS
<1>2. /\ process = "down" /\ process' = "starting" /\ overlap' = FALSE
      /\ todo' = [todo EXCEPT ![Main] = ls] /\ pc' = [pc EXCEPT ![Main] = "next"]
      /\ asked' = [asked EXCEPT ![Main] = ls] /\ before' = [before EXCEPT ![Main] = panel]
      /\ UNCHANGED <<panel, lcdLines, host, call, scroll, status>>
  BY <1>1 DEF Restart, Goto
<1>3. /\ \A u \in Threads : pc[u] = "idle" /\ before[u] = NULL /\ status[u] = "none"
      /\ Main \in Threads /\ ls \in Seq(Items) /\ ls \in Seq(Asks) /\ panel # NULL
      /\ DOMAIN pc = Threads /\ DOMAIN todo = Threads /\ DOMAIN asked = Threads /\ DOMAIN before = Threads
  <2>1. \A u \in Threads : pc[u] = "idle" /\ before[u] = NULL /\ status[u] = "none"
    BY <1>2 DEF Inv, CleanInv, Phases, WritesInv, Sole
  <2>2. ls \in Seq(Items) /\ ls \in Seq(Asks)
    BY <1>1, ItemTypes, AsksItems
  <2>3. panel # NULL
    BY NullOK DEF Inv, TypeInv, GlassOK
  <2> QED
    BY <2>1, <2>2, <2>3 DEF Inv, TypeInv, ThreadsOK, Threads
<1>4. /\ pc'[Main] = "next" /\ todo'[Main] = ls /\ asked'[Main] = ls /\ before'[Main] = panel
      /\ \A u \in Threads \ {Main} : pc'[u] = "idle" /\ todo'[u] = todo[u] /\ asked'[u] = asked[u]
                                     /\ before'[u] = NULL
  BY <1>2, <1>3
<1>5. Len(ls) \in Nat /\ Taken(Main)' = 0
  BY <1>3, <1>4 DEF Taken
<1>6. Sole'
  BY <1>2, <1>3, <1>4 DEF Inv, WritesInv, Sole
<1>7. ASSUME NEW u \in Threads PROVE Suffix(u)' /\ StatusOK(u)'
  <2>1. CASE u = Main
    <3>1. Len(todo'[Main]) <= Len(asked'[Main]) /\ \A k \in 1..Len(todo'[Main]) : todo'[Main][k] = asked'[Main][0 + k]
      BY <1>4, <1>5
    <3>2. Suffix(Main)'
      BY <1>5, <3>1 DEF Suffix
    <3>3. StatusOK(Main)'
      BY <1>2, <1>3 DEF StatusOK
    <3> QED
      BY <2>1, <3>2, <3>3
  <2>2. CASE u # Main
    <3>1. Suffix(u) /\ StatusOK(u)
      BY DEF Inv, WritesInv
    <3>2. todo'[u] = todo[u] /\ asked'[u] = asked[u] /\ status'[u] = status[u]
      BY <1>2, <1>4, <2>2
    <3> QED
      BY <3>1, <3>2 DEF Suffix, StatusOK, Taken, CanBeSet
  <2> QED
    BY <2>1, <2>2
<1>8. ASSUME NEW u \in Threads, Alone(u)' PROVE AloneOK(u)'
  <2>1. u = Main
    BY <1>4, <1>8 DEF Alone
  <2>2. Drawn(Main)' /\ LineInUse(Main)'
    BY <1>4 DEF Drawn, LineInUse, ScrollsOn
  <2>3. ASSUME NEW r \in 1..Height PROVE RowDone(Main, r)'
    <3>1. Reached(Main, r)' = {}
      BY <1>3, <1>4, <1>5, NothingReached
    <3> QED
      BY <1>2, <1>4, <3>1 DEF RowDone
  <2> QED
    BY <2>1, <2>2, <2>3 DEF AloneOK
<1>9. RowsInv'
  <2>1. ASSUME NEW r \in 1..Height PROVE ToSet(r)'
    <3>1. ClearLines \in Seq(Items) /\ Greeting \in Seq(Items) /\ Len(ClearLines) = Height
      BY ItemTypes, Sizes DEF ClearLines
    <3>2. r \in 1..Len(ls) /\ ls[r] = ClearLines[r]
      BY <1>1, <3>1, Sizes
    <3>3. ClearLines[r].line = r /\ ClearLines[r].align \in Aligns
      BY DEF ClearLines, ClearLine, Item, Aligns
    <3> QED
      BY <1>4, <3>2, <3>3 DEF ToSet
  <2> QED
    BY <1>2, <2>1 DEF RowsInv
<1> QED
  BY <1>6, <1>7, <1>8, <1>9 DEF WritesInv

LEMMA DieWrites == Die => WritesInv' /\ RowsInv'
<1> SUFFICES ASSUME Die PROVE WritesInv' /\ RowsInv'
  OBVIOUS
<1>1. \A u \in Threads : /\ pc'[u] = "idle" /\ todo'[u] = <<>> /\ asked'[u] = <<>>
                         /\ status'[u] = "none" /\ before'[u] = NULL
  BY DEF Die, ForAll
<1>2. Sole'
  BY <1>1 DEF Sole
<1>3. ASSUME NEW u \in Threads PROVE Suffix(u)' /\ StatusOK(u)'
  <2>1. Len(todo'[u]) = 0 /\ Len(asked'[u]) = 0
    BY <1>1
  <2> QED
    BY <2>1 DEF Suffix, StatusOK
<1>4. \A u \in Threads : ~Alone(u)'
  BY <1>1 DEF Alone
<1>5. RowsInv'
  BY DEF Die, RowsInv
<1> QED
  BY <1>2, <1>3, <1>4, <1>5 DEF WritesInv

LEMMA InitWrites == Init => WritesInv /\ RowsInv
<1> SUFFICES ASSUME Init PROVE WritesInv /\ RowsInv
  OBVIOUS
<1>1. \A u \in Threads : /\ pc[u] = "idle" /\ todo[u] = <<>> /\ asked[u] = <<>>
                         /\ status[u] = "none" /\ before[u] = NULL
  BY DEF Init, ForAll
<1>2. Sole
  BY <1>1 DEF Sole
<1>3. ASSUME NEW u \in Threads PROVE Suffix(u) /\ StatusOK(u)
  <2>1. Len(todo[u]) = 0 /\ Len(asked[u]) = 0
    BY <1>1
  <2> QED
    BY <2>1 DEF Suffix, StatusOK
<1>4. \A u \in Threads : ~Alone(u)
  BY <1>1 DEF Alone
<1>5. RowsInv
  BY DEF Init, RowsInv
<1> QED
  BY <1>2, <1>3, <1>4, <1>5 DEF WritesInv

-----------------------------------------------------------------------------
(***************************************************************************)
(* The invariant                                                           *)
(***************************************************************************)
LEMMA InvInit == Init => Inv
BY InitTypes, InitClean, InitWrites DEF Inv

LEMMA InvStep == Inv /\ [Next]_vars => Inv'
<1> SUFFICES ASSUME Inv, [Next]_vars PROVE Inv'
  OBVIOUS
<1>1. TypeInv' /\ CleanInv'
  BY TypeStep, CleanStep DEF Inv
<1>2. CASE UNCHANGED vars
  <2>1. WritesInv'
    <3>1. UNCHANGED <<panel, cursor, lost, lcdLines, config, pc, todo, call, sent, scroll, status,
                      asked, before, overlap>>
      BY <1>2 DEF vars, glass, env, locals, history
    <3>2. Sole' /\ \A u \in Threads : Suffix(u)' /\ StatusOK(u)'
      <4>1. Sole'
        BY <3>1 DEF Inv, WritesInv, Sole
      <4>2. \A u \in Threads : Suffix(u)'
        BY <3>1 DEF Inv, WritesInv, Suffix, Taken
      <4>3. \A u \in Threads : StatusOK(u)'
        BY <3>1 DEF Inv, WritesInv, StatusOK, CanBeSet
      <4> QED
        BY <4>1, <4>2, <4>3
    <3>3. ASSUME NEW u \in Threads, Alone(u)' PROVE AloneOK(u)'
      <4>1. AloneOK(u) /\ TypeInv
        BY <3>1, <3>3 DEF Inv, WritesInv, Alone
      <4>2. Drawn(u)'
        BY <3>1, <4>1 DEF AloneOK, Drawn
      <4>3. LineInUse(u)'
        BY <3>1, <4>1 DEF AloneOK, LineInUse, ScrollsOn, Taken, Current, CanBeSet, ShownAs, Rolls
      <4>4. \A r \in 1..Height : InProgress(u, r)' \/ RowDone(u, r)'
        BY <3>1, <4>1, RowKept DEF AloneOK, InProgress
      <4> QED
        BY <4>2, <4>3, <4>4 DEF AloneOK
    <3> QED
      BY <3>2, <3>3 DEF WritesInv
  <2>2. RowsInv'
    BY <1>2 DEF Inv, RowsInv, RowMatches, ToSet, Drawing, vars, glass, env, locals, history
  <2> QED
    BY <1>1, <2>1, <2>2 DEF Inv
<1>3. (WritesInv' /\ RowsInv') \/ UNCHANGED vars
  BY Steps, CommandWrites, TakeLineWrites, AllocateWrites, RefuseAlignWrites, StoreLineWrites,
     NoScrollingWrites, ScrolledWrites, WriteWrites, ReturnWrites, DieWrites, HandleSigsWrites, RestartWrites
<1> QED
  BY <1>1, <1>2, <1>3 DEF Inv

-----------------------------------------------------------------------------
(***************************************************************************)
(* The replies                                                             *)
(***************************************************************************)
LEMMA NotEmpty == ASSUME NEW S, NEW s \in Seq(S), Len(s) = 1 PROVE s # <<>>
<1>1. ASSUME s = <<>> PROVE FALSE
  <2>1. Len(s) = 0
    BY <1>1
  <2> QED
    BY <2>1
<1> QED
  BY <1>1

\* A command that begins on the lines ls with the answer a.
LEMMA AnswerBegins ==
  ASSUME Inv, AnswersInv, NEW t \in Clients, pc[t] = "idle", NEW ls \in Seq(Asks), Overlapping(t, ls),
         NEW a \in {"none", "MESSAGE_SET", "LINE_CLEARED", "CLEAR_DISPLAY"},
         answer' = [answer EXCEPT ![t] = a], config' = config, pc'[t] # "idle",
         \A u \in Threads \ {t} : pc'[u] = pc[u] /\ todo'[u] = todo[u] /\ status'[u] = status[u],
         a = "none" => \/ Len(ls) = 1 /\ todo'[t] # <<>>
                       \/ ls = <<>> /\ status'[t] = "INVALID_LINE" /\ todo'[t] = <<>>,
         a = "MESSAGE_SET" => (ls = <<>> /\ ~config.enabled) \/ (Len(ls) = 1 /\ CanBeSet(ls[1])),
         a = "CLEAR_DISPLAY" => ls = ClearLines
  PROVE  AnswersInv'
<1>1. t \in Threads /\ asked \in [Threads -> Seq(Asks)]
  BY DEF Inv, TypeInv, ThreadsOK, Threads
<1>2. answer' \in [Threads -> {"none", "MESSAGE_SET", "LINE_CLEARED", "CLEAR_DISPLAY"}]
  BY <1>1 DEF AnswersInv
<1>3. /\ answer'[t] = a /\ asked'[t] = ls
      /\ \A u \in Threads \ {t} : answer'[u] = answer[u] /\ asked'[u] = asked[u]
  BY <1>1 DEF AnswersInv, Overlapping
<1>4. AnswerOK(t)'
  BY <1>3 DEF AnswerOK, CanBeSet
<1>5. \A u \in Threads \ {t} : AnswerOK(u)'
  BY <1>3 DEF AnswersInv, AnswerOK, CanBeSet
<1> QED
  BY <1>2, <1>4, <1>5 DEF AnswersInv

LEMMA CommandAnswers ==
  ASSUME Inv, AnswersInv, NEW t \in Clients,
         \/ \E ls \in Seq(Items), a \in Answers : GoesWith(a, ls) /\ SetLines(t, ls, a)
         \/ Refuse(t)
         \/ \E i \in 1..Height : ScrollRow(t, i)
  PROVE  AnswersInv'
<1>1. /\ t \in Threads /\ process = "up" /\ pc[t] = "idle" /\ config' = config /\ lcdLines' = lcdLines
      /\ todo[t] = <<>> /\ TypeInv
  BY DEF SetLines, Refuse, ScrollRow, Command, At, Threads, Inv, WritesInv, Sole, env
<1>2. pc \in [Threads -> Labels] /\ todo \in [Threads -> Seq(Items)] /\ DOMAIN status = Threads
  BY <1>1 DEF TypeInv, ThreadsOK
<1>3. ASSUME NEW ls \in Seq(Items), NEW a \in Answers, GoesWith(a, ls), SetLines(t, ls, a) PROVE AnswersInv'
  <2>1. /\ answer' = [answer EXCEPT ![t] = a] /\ todo' = [todo EXCEPT ![t] = ls]
        /\ pc' = [pc EXCEPT ![t] = "next"] /\ Overlapping(t, ls) /\ status' = status
    BY <1>3 DEF SetLines, Goto
  <2>2. /\ pc'[t] = "next" /\ todo'[t] = ls
        /\ \A u \in Threads \ {t} : pc'[u] = pc[u] /\ todo'[u] = todo[u] /\ status'[u] = status[u]
    BY <1>1, <1>2, <2>1
  <2>3. ls \in Seq(Asks) /\ a \in {"none", "MESSAGE_SET", "LINE_CLEARED", "CLEAR_DISPLAY"} /\ a # "MESSAGE_SET"
    BY AsksItems DEF Answers
  <2>4. (a = "none" => Len(ls) = 1) /\ (a = "CLEAR_DISPLAY" => ls = ClearLines)
    BY <1>3 DEF GoesWith
  <2>5. Len(ls) = 1 => ls # <<>>
    BY NotEmpty
  <2> QED
    BY <1>1, <2>1, <2>2, <2>3, <2>4, <2>5, AnswerBegins
<1>4. CASE Refuse(t)
  <2>1. /\ answer' = answer /\ todo' = todo /\ status' = [status EXCEPT ![t] = "INVALID_LINE"]
        /\ pc' = [pc EXCEPT ![t] = "next"] /\ Overlapping(t, <<>>)
    BY <1>4 DEF Refuse, Goto
  <2>2. /\ pc'[t] = "next" /\ todo'[t] = <<>> /\ status'[t] = "INVALID_LINE"
        /\ \A u \in Threads \ {t} : pc'[u] = pc[u] /\ todo'[u] = todo[u] /\ status'[u] = status[u]
    BY <1>1, <1>2, <2>1
  <2>3. answer' = [answer EXCEPT ![t] = "none"]
    BY <1>1, <2>1 DEF AnswersInv, AnswerOK
  <2>4. <<>> \in Seq(Asks)
    OBVIOUS
  <2> QED
    BY <1>1, <2>1, <2>2, <2>3, <2>4, AnswerBegins
<1>5. ASSUME NEW i \in 1..Height, ScrollRow(t, i) PROVE AnswersInv'
  <2> DEFINE it == Item(lcdLines[i].text, i, "LEFT")
  <2>1. PICK ls : ls = IF config.enabled /\ lcdLines[i] # NULL THEN <<it>> ELSE <<>>
    OBVIOUS
  <2>2. /\ answer' = [answer EXCEPT ![t] = "MESSAGE_SET"] /\ todo' = todo /\ status' = status
        /\ pc' = [pc EXCEPT ![t] = "scroll"] /\ Overlapping(t, ls)
    BY <1>5, <2>1 DEF ScrollRow, Goto
  <2>3. pc'[t] = "scroll" /\ \A u \in Threads \ {t} : pc'[u] = pc[u] /\ todo'[u] = todo[u] /\ status'[u] = status[u]
    BY <1>1, <1>2, <2>2
  <2>4. i \in 0..Height /\ i <= Height /\ lcdLines[i] # NULL
    BY <1>1, Sizes DEF Inv, CleanInv, LinesSet, CleanLine
  <2>5. it \in Asks /\ CanBeSet(it)
    BY <1>1, <2>4, LineType, Sizes DEF Item, Asks, Aligns, CanBeSet
  <2> HIDE DEF it
  <2>6. ls \in Seq(Asks) /\ ((ls = <<>> /\ ~config.enabled) \/ (Len(ls) = 1 /\ CanBeSet(ls[1])))
    <3>1. CASE config.enabled
      <4>1. ls = <<it>>
        BY <2>1, <2>4, <3>1
      <4>2. Len(ls) = 1 /\ ls[1] = it /\ ls \in Seq(Asks)
        BY <2>5, <4>1
      <4> QED
        BY <2>5, <4>2
    <3>2. CASE ~config.enabled
      <4>1. ls = <<>>
        BY <2>1, <3>2
      <4> QED
        BY <3>2, <4>1
    <3> QED
      BY <3>1, <3>2
  <2> QED
    BY <1>1, <2>2, <2>3, <2>6, AnswerBegins
<1> QED
  BY <1>3, <1>4, <1>5

\* A step of set_lcd_line_text or of the bus: the status changes when a line is taken.
LEMMA RunAnswers ==
  ASSUME Inv, AnswersInv, NEW t \in Threads,
         \/ TakeLine(t) \/ Allocate(t) \/ RefuseAlign(t) \/ StoreLine(t)
         \/ NoScrolling(t) \/ BeginScroll(t) \/ NextFrame(t) \/ Write(t)
  PROVE  AnswersInv'
<1>1. answer' = answer /\ asked' = asked /\ config' = config /\ pc[t] # "idle"
  BY DEF TakeLine, Allocate, RefuseAlign, StoreLine, NoScrolling, BeginScroll, NextFrame, Write, At, history, env
<1>2. /\ \A u \in Threads \ {t} : todo'[u] = todo[u] /\ status'[u] = status[u] /\ pc'[u] = pc[u]
      /\ \/ todo' = todo /\ status' = status
         \/ todo[t] # <<>> /\ status'[t] # "none"
  <2>1. pc' = pc \/ \E l : pc' = [pc EXCEPT ![t] = l]
    BY DEF TakeLine, Allocate, RefuseAlign, StoreLine, NoScrolling, BeginScroll, NextFrame, Write, Draw, Goto
  <2>2. \/ todo' = todo /\ status' = status
        \/ /\ todo[t] # <<>> /\ todo' = [todo EXCEPT ![t] = Tail(@)]
           /\ \E e \in {"MESSAGE_SET", "INVALID_LINE", "INVALID_ALIGN"} : status' = [status EXCEPT ![t] = e]
    <3>1. pc[t] = "store" => todo[t] # <<>>
      BY DEF Inv, TypeInv, PlaceOK
    <3> QED
      BY <3>1 DEF TakeLine, Allocate, RefuseAlign, StoreLine, NoScrolling, BeginScroll, NextFrame, Write, At, locals
  <2>3. DOMAIN pc = Threads /\ DOMAIN todo = Threads /\ DOMAIN status = Threads
    BY DEF Inv, TypeInv, ThreadsOK
  <2> QED
    BY <2>1, <2>2, <2>3
<1>3. AnswerOK(t)'
  <2>1. AnswerOK(t)
    BY DEF AnswersInv
  <2>2. pc'[t] # "idle"
    <3>1. pc[t] = "draw" => call[t].back \in {"next", "scroll", "frame"}
      BY DEF Inv, TypeInv, PlaceOK
    <3>2. pc' = pc \/ \E l \in {"next", "malloc", "store", "draw", "scroll", "frame"} : pc' = [pc EXCEPT ![t] = l]
      BY <3>1 DEF TakeLine, Allocate, RefuseAlign, StoreLine, NoScrolling, BeginScroll, NextFrame, Write, Draw, Goto, At
    <3> QED
      BY <1>1, <3>2 DEF Inv, TypeInv, ThreadsOK
  <2> QED
    BY <1>1, <1>2, <2>1, <2>2 DEF AnswerOK, CanBeSet
<1>4. \A u \in Threads \ {t} : AnswerOK(u)'
  BY <1>1, <1>2 DEF AnswersInv, AnswerOK, CanBeSet
<1> QED
  BY <1>1, <1>3, <1>4 DEF AnswersInv

LEMMA AnswersStep == Inv /\ AnswersInv /\ [Next]_vars => AnswersInv'
<1> SUFFICES ASSUME Inv, AnswersInv, [Next]_vars PROVE AnswersInv'
  OBVIOUS
<1>1. ASSUME NEW t \in Threads, Return(t) PROVE AnswersInv'
  <2>1. /\ answer' = [answer EXCEPT ![t] = "none"] /\ asked' = [asked EXCEPT ![t] = <<>>]
        /\ pc' = [pc EXCEPT ![t] = "idle"] /\ status' = [status EXCEPT ![t] = "none"]
        /\ config' = config /\ todo' = todo
    BY <1>1 DEF Return, Goto
  <2>2. /\ answer'[t] = "none" /\ pc'[t] = "idle"
        /\ \A u \in Threads \ {t} : /\ answer'[u] = answer[u] /\ asked'[u] = asked[u]
                                    /\ pc'[u] = pc[u] /\ status'[u] = status[u]
    BY <2>1 DEF Inv, TypeInv, ThreadsOK, AnswersInv
  <2>3. answer' \in [Threads -> {"none", "MESSAGE_SET", "LINE_CLEARED", "CLEAR_DISPLAY"}]
    BY <2>1 DEF AnswersInv
  <2>4. AnswerOK(t)'
    BY <2>2 DEF AnswerOK
  <2>5. \A u \in Threads \ {t} : AnswerOK(u)'
    BY <2>1, <2>2 DEF AnswersInv, AnswerOK, CanBeSet
  <2> QED
    BY <2>3, <2>4, <2>5 DEF AnswersInv
<1>2. CASE Die
  <2>1. \A u \in Threads : answer'[u] = "none" /\ pc'[u] = "idle"
    BY <1>2 DEF Die, ForAll
  <2>2. answer' \in [Threads -> {"none", "MESSAGE_SET", "LINE_CLEARED", "CLEAR_DISPLAY"}]
    BY <1>2 DEF Die, ForAll
  <2> QED
    BY <2>1, <2>2 DEF AnswersInv, AnswerOK
<1>3. ASSUME NEW h \in Clients \cup {Main}, HandleSigs(h) PROVE AnswersInv'
  <2>1. /\ pc[Handler] = "idle" /\ Handler \in Threads /\ Handler \notin Clients
        /\ answer' = answer /\ config' = config /\ status' = status
    BY <1>3, ThreadsDiffer DEF HandleSigs, Threads, Inv, CleanInv, Phases
  <2>2. /\ asked' = [asked EXCEPT ![Handler] = Farewell] /\ todo' = [todo EXCEPT ![Handler] = Farewell]
        /\ pc' = [pc EXCEPT ![Handler] = "next"]
    BY <1>3 DEF HandleSigs, Overlapping, Goto
  <2>3. \A u \in Threads \ {Handler} : asked'[u] = asked[u] /\ todo'[u] = todo[u] /\ pc'[u] = pc[u]
    BY <2>2 DEF Inv, TypeInv, ThreadsOK
  <2>4. AnswerOK(Handler)'
    BY <2>1 DEF AnswersInv, AnswerOK
  <2>5. \A u \in Threads \ {Handler} : AnswerOK(u)'
    BY <2>1, <2>3 DEF AnswersInv, AnswerOK, CanBeSet
  <2> QED
    BY <2>1, <2>4, <2>5 DEF AnswersInv
<1>4. CASE Restart
  <2>1. answer' = answer /\ \A u \in Threads : pc[u] = "idle"
    BY <1>4 DEF Restart, Inv, CleanInv, Phases
  <2>2. \A u \in Threads : answer[u] = "none"
    BY <2>1 DEF AnswersInv, AnswerOK
  <2>3. \A u \in Clients : pc'[u] = "idle"
    <3>1. \A u \in Clients : u \in Threads /\ u # Main
      BY ThreadsDiffer DEF Threads
    <3> QED
      BY <1>4, <2>1, <3>1 DEF Restart, Goto, Inv, TypeInv, ThreadsOK
  <2> QED
    BY <2>1, <2>2, <2>3 DEF AnswersInv, AnswerOK
<1>5. CASE UNCHANGED vars
  BY <1>5 DEF AnswersInv, AnswerOK, CanBeSet, vars, locals, env, history
<1> QED
  BY <1>1, <1>2, <1>3, <1>4, <1>5, Steps, CommandAnswers, RunAnswers

LEMMA AnswersInit == Init => AnswersInv
BY DEF Init, ForAll, AnswersInv, AnswerOK

\* What a client is told when its command is over is so.
LEMMA AnswersTrue ==
  ASSUME Inv, AnswersInv, NEW t \in Clients, Ended(t)
  PROVE  CASE Reply(t) \in {"INVALID_LINE", "INVALID_ALIGN"} -> ~ShowsLine(t)
           [] Reply(t) = "MESSAGE_SET"   -> ShowsLine(t) \/ (asked[t] = <<>> /\ ~config.enabled)
           [] Reply(t) = "CLEAR_DISPLAY" -> \A r \in 1..Height : Honoured(t, r) # {}
           [] OTHER                      -> Reply(t) = "LINE_CLEARED"
<1>1. t \in Threads /\ pc[t] = "next" /\ todo[t] = <<>> /\ asked[t] \in Seq(Asks) /\ AnswerOK(t) /\ StatusOK(t)
  BY DEF Ended, At, Inv, TypeInv, ThreadsOK, WritesInv, AnswersInv, Threads
<1>2. ASSUME Len(asked[t]) = 1 PROVE ShowsLine(t) <=> CanBeSet(asked[t][1])
  <2>1. DOMAIN asked[t] = {1} /\ asked[t][1].line \in Nat
    <3>1. DOMAIN asked[t] = 1..1 /\ asked[t][1] \in Asks
      BY <1>1, <1>2
    <3> QED
      BY <3>1 DEF Asks
  <2>2. RowOf(asked[t][1].line) \in 1..Height
    BY <2>1, RowOfLine
  <2>3. \A r \in 1..Height : Honoured(t, r) # {} <=> CanBeSet(asked[t][1]) /\ RowOf(asked[t][1].line) = r
    BY <2>1 DEF Honoured, CanBeSet
  <2> QED
    BY <2>2, <2>3 DEF ShowsLine
<1>3. asked[t] = <<>> => ~ShowsLine(t)
  BY DEF ShowsLine, Honoured
<1>4. CASE answer[t] = "none"
  <2>1. Reply(t) = status[t] /\ status[t] # "none"
    BY <1>1, <1>4 DEF Reply, AnswerOK
  <2>2. status[t] \in {"MESSAGE_SET", "INVALID_LINE", "INVALID_ALIGN"}
    BY <1>1, <2>1 DEF Inv, TypeInv, ThreadsOK
  <2>3. CASE Len(asked[t]) = 1
    <3>1. status[t] = "MESSAGE_SET" <=> ShowsLine(t)
      BY <1>1, <1>2, <2>1, <2>3 DEF StatusOK
    <3> QED
      BY <2>1, <2>2, <3>1
  <2>4. CASE asked[t] = <<>> /\ status[t] = "INVALID_LINE"
    BY <1>3, <2>1, <2>4
  <2> QED
    BY <1>1, <1>4, <2>3, <2>4 DEF AnswerOK
<1>5. CASE answer[t] = "MESSAGE_SET"
  <2>1. Reply(t) = "MESSAGE_SET"
    BY <1>5 DEF Reply
  <2>2. ShowsLine(t) \/ (asked[t] = <<>> /\ ~config.enabled)
    BY <1>1, <1>2, <1>5 DEF AnswerOK
  <2> QED
    BY <2>1, <2>2
<1>6. CASE answer[t] = "CLEAR_DISPLAY"
  <2>1. Reply(t) = "CLEAR_DISPLAY" /\ asked[t] = ClearLines
    BY <1>1, <1>6 DEF Reply, AnswerOK
  <2>2. \A r \in 1..Height : r \in Honoured(t, r)
    <3> TAKE r \in 1..Height
    <3>1. r \in DOMAIN asked[t] /\ asked[t][r].line = r /\ asked[t][r].align \in Aligns /\ r <= Height
      BY <2>1, Sizes DEF ClearLines, ClearLine, Item, Aligns
    <3> QED
      BY <3>1, RowOfLine DEF Honoured
  <2> QED
    BY <2>1, <2>2
<1>7. CASE answer[t] = "LINE_CLEARED"
  BY <1>7 DEF Reply
<1> QED
  BY <1>1, <1>4, <1>5, <1>6, <1>7 DEF AnswersInv

-----------------------------------------------------------------------------
(***************************************************************************)
(* The theorems                                                            *)
(***************************************************************************)
\* A command, start-up or signal handler that nobody's writes interrupted has
\* shown, when it is over, the last text it asked for on every row it asked
\* for, and has touched no other row.  Its client is answered, truly but for
\* LINE_CLEARED, and for MESSAGE_SET to MSG_SCROLL while scrolling is off.
THEOREM WritesLand == Spec => []UndisturbedWrites
<1>1. ASSUME Inv, NEW t \in Threads, Ended(t), before[t] # NULL, ~lost
      PROVE  \A r \in 1..Height :
               IF Honoured(t, r) = {} THEN panel[r] = before[t][r]
               ELSE LET k == CHOOSE k \in Honoured(t, r) : \A j \in Honoured(t, r) : j <= k
                    IN  ShownAs(panel[r], asked[t][k])
  <2>1. pc[t] = "next" /\ todo[t] = <<>> /\ asked[t] \in Seq(Asks)
    BY <1>1 DEF Ended, At, Inv, TypeInv, ThreadsOK
  <2>2. Taken(t) = Len(asked[t]) /\ Len(asked[t]) \in Nat
    BY <2>1 DEF Taken
  <2>3. \A k \in DOMAIN asked[t] : k \in Int /\ k <= Taken(t)
    BY <2>1, <2>2
  <2>4. \A r \in 1..Height : Reached(t, r) = Honoured(t, r)
    BY <2>3 DEF Reached, Honoured
  <2>5. ASSUME NEW r \in 1..Height
        PROVE  IF Honoured(t, r) = {} THEN panel[r] = before[t][r]
               ELSE LET k == CHOOSE k \in Honoured(t, r) : \A j \in Honoured(t, r) : j <= k
                    IN  ShownAs(panel[r], asked[t][k])
    <3>1. RowDone(t, r)
      BY <1>1, <2>1 DEF Inv, WritesInv, Alone, AloneOK, InProgress
    <3>2. CASE Honoured(t, r) = {}
      BY <2>4, <3>1, <3>2 DEF RowDone
    <3>3. CASE Honoured(t, r) # {}
      <4>1. PICK k \in Honoured(t, r) : (\A j \in Honoured(t, r) : j <= k) /\ ShownAs(panel[r], asked[t][k])
        BY <2>4, <3>1, <3>3 DEF RowDone
      <4>2. \A m \in Honoured(t, r) : (\A j \in Honoured(t, r) : j <= m) => m = k
        <5> TAKE m \in Honoured(t, r)
        <5>1. m \in Int /\ k \in Int
          BY <2>3, <4>1 DEF Honoured
        <5> QED
          BY <4>1, <5>1
      <4>3. k = CHOOSE m \in Honoured(t, r) : \A j \in Honoured(t, r) : j <= m
        BY <4>1, <4>2
      <4> QED
        BY <3>3, <4>1, <4>3
    <3> QED
      BY <3>2, <3>3
  <2> QED
    BY <2>5
<1>2. Inv /\ AnswersInv => UndisturbedWrites
  BY <1>1, AnswersTrue DEF UndisturbedWrites
<1> QED
  BY <1>2, InvInit, InvStep, AnswersInit, AnswersStep, PTL DEF Spec

\* While no command is under way, and none has overlapped since the start,
\* every row shows the text that MSG_SCROLL would scroll there.
THEOREM RowsAreLines == Spec => []RowsMatchLines
<1>1. ASSUME Inv, process = "up", Busy = {}, ~overlap, ~lost, NEW r \in 1..Height
      PROVE  RowMatches(r)
  BY <1>1 DEF Inv, RowsInv, Drawing, Busy
<1>2. Inv => RowsMatchLines
  <2>1. \A r : RowMatches(r) =>
          \E i \in {r} \cup {j \in {0} : r = 1} :
            /\ lcdLines[i] # NULL
            /\ Shows(panel[r], lcdLines[i].text, lcdLines[i].align)
               \/ Shows(panel[r], lcdLines[i].text, "LEFT")
    BY DEF RowMatches
  <2> QED
    BY <1>1, <2>1 DEF RowsMatchLines
<1> QED
  BY <1>2, InvInit, InvStep, PTL DEF Spec

=============================================================================

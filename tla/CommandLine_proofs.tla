------------------------- MODULE CommandLine_proofs -------------------------
(***************************************************************************)
(* Theorems about CommandLine, for a buffer of any size, any number of     *)
(* words, any contents of the stack and any stream of bytes.               *)
(***************************************************************************)
EXTENDS CommandLine, FiniteSetTheorems, SequenceTheorems, TLAPS

\* The bytes of the line that is being received are in the buffer.
Filled == pc = "read" => \A k \in 0..(length - 1) : buffer[k] \in Received

\* Outside of split_args there are neither words nor arguments.
NoWords ==
  /\ pc \in {"read", "line"} => args = NUL
  /\ pc \in {"read", "line", "named"} => argv = <<>>
  /\ pc \in {"split", "call", "wild"} => args \in 0..Cap

\* The line being worked on has the length of the buffer's.
LineKnown == pc # "read" => lines # <<>> /\ length > 0 /\ Len(Last(lines)) = length

\* The byte at k is the line's, or stands for blanks at its end.
Kept(k) ==
  \/ buffer[k] = Last(lines)[k + 1]
  \/ buffer[k] = NUL /\ \A j \in k..(length - 1) : Last(lines)[j + 1] \in Blanks

\* From the place i on the buffer holds the rest of the line, and its end.
Rest(i) ==
  /\ i \in 0..length
  /\ \A k \in i..(length - 1) : Kept(k)
  /\ buffer[length] = NUL

\* The search for words is still in the line, or has left it by its last quote.
InLine  == Rest(args) /\ \A i \in DOMAIN argv : argv[i] <= length
Escaped == LastQuote # 0 /\ \E i \in DOMAIN argv : argv[i] = LastQuote
Inside ==
  /\ pc = "line" => /\ \A k \in 0..(length - 1) : buffer[k] = Last(lines)[k + 1]
                    /\ buffer[length] = NUL
  /\ pc = "named" /\ args # NUL => Rest(args)
  /\ pc = "split" => InLine \/ Escaped

\* Types as an induction needs them.
Typed == TypeOK /\ argv \in Seq(0..Cap) /\ lines \in Seq(Seq(Received))

IInv == Typed /\ Filled /\ NoWords /\ LineKnown /\ Inside /\ StaysInLine

-----------------------------------------------------------------------------
(***************************************************************************)
(* The least and the greatest element                                      *)
(***************************************************************************)
LEMMA LeastExists ==
  ASSUME NEW S \in SUBSET Int, IsFiniteSet(S), S # {}
  PROVE  \E x \in S : \A y \in S : x <= y
<1> DEFINE Below(x) == {y \in S : y < x}
           T == {Below(x) : x \in S}
<1>1. T \subseteq FiniteSubsetsOf(S) /\ T # {}
  <2>1. \A x \in S : Below(x) \in SUBSET S /\ IsFiniteSet(Below(x))
    BY FS_Subset
  <2> QED
    BY <2>1 DEF FiniteSubsetsOf
<1>2. PICK B \in T : \A C \in T : ~(<<C, B>> \in StrictSubsetOrdering(S))
  BY <1>1, WFMin, FS_StrictSubsetOrderingWellFounded
<1>3. PICK x \in S : B = Below(x)
  OBVIOUS
<1>4. ASSUME NEW y \in S, y < x PROVE FALSE
  <2>1. Below(y) \in SUBSET S /\ Below(x) \in SUBSET S
    OBVIOUS
  <2>2. Below(y) \subseteq Below(x)
    <3>1. x \in Int /\ y \in Int /\ \A z \in S : z \in Int
      BY <1>4
    <3>2. \A z \in S : z < y => z < x
      BY <1>4, <3>1
    <3> QED
      BY <3>2
  <2>3. y \in Below(x) /\ y \notin Below(y)
    BY <1>4
  <2>4. <<Below(y), Below(x)>> \in StrictSubsetOrdering(S)
    <3> HIDE DEF Below
    <3> QED
      BY <2>1, <2>2, <2>3 DEF StrictSubsetOrdering
  <2> QED
    BY <1>2, <1>3, <2>4
<1> QED
  BY <1>4

LEMMA GreatestExists ==
  ASSUME NEW S \in SUBSET Int, IsFiniteSet(S), S # {}
  PROVE  \E x \in S : \A y \in S : y <= x
<1> DEFINE Above(x) == {y \in S : y > x}
           T == {Above(x) : x \in S}
<1>1. T \subseteq FiniteSubsetsOf(S) /\ T # {}
  <2>1. \A x \in S : Above(x) \in SUBSET S /\ IsFiniteSet(Above(x))
    BY FS_Subset
  <2> QED
    BY <2>1 DEF FiniteSubsetsOf
<1>2. PICK B \in T : \A C \in T : ~(<<C, B>> \in StrictSubsetOrdering(S))
  BY <1>1, WFMin, FS_StrictSubsetOrderingWellFounded
<1>3. PICK x \in S : B = Above(x)
  OBVIOUS
<1>4. ASSUME NEW y \in S, y > x PROVE FALSE
  <2>1. Above(y) \in SUBSET S /\ Above(x) \in SUBSET S
    OBVIOUS
  <2>2. Above(y) \subseteq Above(x)
    <3>1. x \in Int /\ y \in Int /\ \A z \in S : z \in Int
      BY <1>4
    <3>2. \A z \in S : z > y => z > x
      BY <1>4, <3>1
    <3> QED
      BY <3>2
  <2>3. y \in Above(x) /\ y \notin Above(y)
    BY <1>4
  <2>4. <<Above(y), Above(x)>> \in StrictSubsetOrdering(S)
    <3> HIDE DEF Above
    <3> QED
      BY <2>1, <2>2, <2>3 DEF StrictSubsetOrdering
  <2> QED
    BY <1>2, <1>3, <2>4
<1> QED
  BY <1>4

LEMMA MinOf ==
  ASSUME NEW S \in SUBSET Int, IsFiniteSet(S), S # {}
  PROVE  Min(S) \in S /\ \A y \in S : Min(S) <= y
BY LeastExists DEF Min

LEMMA MaxOf ==
  ASSUME NEW S \in SUBSET Int, IsFiniteSet(S), S # {}
  PROVE  Max(S) \in S /\ \A y \in S : y <= Max(S)
<1>1. \E x \in S : \A y \in S : x >= y
  BY GreatestExists
<1> QED
  BY <1>1 DEF Max

\* Where finds finitely many places.
LEMMA WhereFinite ==
  ASSUME NEW i \in Int, NEW j \in Int, NEW S
  PROVE  Where(i, j, S) \in SUBSET Int /\ IsFiniteSet(Where(i, j, S))
<1>1. Where(i, j, S) \in SUBSET (i..(j - 1))
  BY DEF Where
<1> QED
  BY <1>1, FS_Interval, FS_Subset

\* FirstOf is the first place from i on with a byte of S, or the buffer's end.
LEMMA FirstOfFacts ==
  ASSUME NEW i \in 0..Cap, NEW S
  PROVE  /\ FirstOf(i, S) \in i..Cap
         /\ FirstOf(i, S) < Cap => buffer[FirstOf(i, S)] \in S
         /\ \A k \in i..(Cap - 1) : buffer[k] \in S => FirstOf(i, S) <= k
<1>1. Cap \in Nat
  BY ConstantsOK
<1>2. CASE i < Cap /\ Where(i, Cap, S) # {}
  <2>1. Min(Where(i, Cap, S)) \in Where(i, Cap, S)
        /\ \A y \in Where(i, Cap, S) : Min(Where(i, Cap, S)) <= y
    BY <1>1, <1>2, WhereFinite, MinOf
  <2>2. FirstOf(i, S) = Min(Where(i, Cap, S))
    BY <1>2 DEF FirstOf
  <2> QED
    BY <1>1, <2>1, <2>2 DEF Where
<1>3. CASE ~(i < Cap /\ Where(i, Cap, S) # {})
  <2>1. FirstOf(i, S) = Cap
    BY <1>3 DEF FirstOf
  <2>2. \A k \in i..(Cap - 1) : buffer[k] \notin S
    BY <1>1, <1>3 DEF Where
  <2> QED
    BY <1>1, <2>1, <2>2
<1> QED
  BY <1>2, <1>3

\* The last quote of the line is the one after which there are no more.
LEMMA LastQuoteIs ==
  ASSUME NEW n \in Nat, n # 0, Last(lines) \in Seq(Received),
         n \in DOMAIN Last(lines), Last(lines)[n] = Quote,
         \A k \in DOMAIN Last(lines) : Last(lines)[k] = Quote => k <= n
  PROVE  LastQuote = n
<1> DEFINE Q == {k \in DOMAIN Last(lines) : Last(lines)[k] = Quote}
           S == {0} \cup Q
<1>1. DOMAIN Last(lines) = 1..Len(Last(lines)) /\ Len(Last(lines)) \in Nat
  OBVIOUS
<1>2. S \in SUBSET (0..Len(Last(lines)))
  BY <1>1
<1>3. IsFiniteSet(S) /\ S \in SUBSET Int
  <2>1. IsFiniteSet(0..Len(Last(lines))) /\ 0..Len(Last(lines)) \subseteq Int
    BY <1>1, FS_Interval
  <2> HIDE DEF S
  <2> QED
    BY <1>2, <2>1, FS_Subset
<1>4. Max(S) \in S /\ \A y \in S : y <= Max(S)
  BY <1>3, MaxOf
<1>5. n \in S /\ \A y \in S : y <= n
  OBVIOUS
<1>6. Max(S) = n
  <2>1. Max(S) <= n /\ n <= Max(S)
    BY <1>4, <1>5
  <2>2. Max(S) \in Int
    BY <1>3, <1>4
  <2> HIDE DEF S
  <2> QED
    BY <2>1, <2>2
<1> QED
  BY <1>6 DEF LastQuote

-----------------------------------------------------------------------------
(***************************************************************************)
(* handle_client                                                           *)
(***************************************************************************)
LEMMA InitInv == Init => IInv
<1> SUFFICES ASSUME Init PROVE IInv
  OBVIOUS
<1>1. Typed
  BY ConstantsOK DEF Init, Typed, TypeOK, Places
<1>2. Filled /\ NoWords /\ LineKnown /\ Inside /\ StaysInLine
  BY DEF Init, Filled, NoWords, LineKnown, Inside, StaysInLine
<1> QED
  BY <1>1, <1>2 DEF IInv

LEMMA LastOfAppend ==
  ASSUME NEW S, NEW s \in Seq(S), NEW e \in S
  PROVE  Append(s, e) \in Seq(S) /\ Append(s, e) # <<>> /\ Last(Append(s, e)) = e
<1>1. Len(Append(s, e)) = Len(s) + 1 /\ Append(s, e)[Len(s) + 1] = e
  OBVIOUS
<1> QED
  BY <1>1 DEF Last

\* Between two lines only the types and the bytes in the buffer matter.
LEMMA Reading ==
  ASSUME IInv, Typed', Filled', pc' = "read", args' = NUL, argv' = <<>>
  PROVE  IInv'
BY DEF IInv, NoWords, LineKnown, Inside, StaysInLine

LEMMA RecvStep == ASSUME NEW bytes \in Chunks, IInv, Recv(bytes) PROVE IInv'
<1>1. bytes \in Seq(Received)
  BY ConstantsOK DEF Chunks, SeqOf
<1>2. Typed' /\ Filled'
  BY <1>1 DEF Recv, IInv, Typed, TypeOK, Filled
<1> QED
  BY <1>2, Reading DEF Recv, IInv, NoWords

LEMMA NextByteTyped ==
  ASSUME IInv, NextByte
  PROVE  /\ Head(input) \in Received
         /\ input' \in Seq(Received) /\ heard' \in Seq(Received)
BY DEF NextByte, IInv, Typed, TypeOK

LEMMA AppendByteStep == IInv /\ AppendByte => IInv'
<1> SUFFICES ASSUME IInv, AppendByte PROVE IInv'
  OBVIOUS
<1>1. Head(input) \in Received /\ input' \in Seq(Received) /\ heard' \in Seq(Received)
  BY NextByteTyped DEF AppendByte
<1>2. length \in Places /\ buffer \in [Places -> Received \cup {NUL}] /\ Cap \in Nat
  BY ConstantsOK DEF IInv, Typed, TypeOK
<1>3. pc = "read" /\ UNCHANGED <<pc, name, args, argv, lines>>
  BY DEF AppendByte, NextByte
<1>4. CASE /\ length < Cap - 1
           /\ buffer' = [buffer EXCEPT ![length] = Head(input)] /\ length' = length + 1
  <2>1. Typed'
    BY <1>1, <1>2, <1>3, <1>4 DEF IInv, Typed, TypeOK, Places
  <2>2. Filled'
    BY <1>1, <1>2, <1>3, <1>4 DEF IInv, Filled, Places
  <2> QED
    BY <1>3, <2>1, <2>2, Reading DEF IInv, NoWords
<1>5. CASE UNCHANGED <<buffer, length>>
  <2>1. Typed' /\ Filled'
    BY <1>1, <1>3, <1>5 DEF IInv, Typed, TypeOK, Filled
  <2> QED
    BY <1>3, <2>1, Reading DEF IInv, NoWords
<1> QED
  BY <1>4, <1>5 DEF AppendByte

LEMMA EndLineStep == IInv /\ EndLine => IInv'
<1> SUFFICES ASSUME IInv, EndLine PROVE IInv'
  OBVIOUS
<1>1. input' \in Seq(Received) /\ heard' \in Seq(Received)
  BY NextByteTyped DEF EndLine
<1>2. length \in Places /\ buffer \in [Places -> Received \cup {NUL}] /\ Cap \in Nat
  BY ConstantsOK DEF IInv, Typed, TypeOK
<1>3. /\ pc = "read" /\ UNCHANGED <<length, name, args, argv>>
      /\ buffer' = [buffer EXCEPT ![length] = NUL]
  BY DEF EndLine, NextByte
<1>4. \A k \in 0..(length - 1) : k \in Places /\ buffer[k] \in Received /\ buffer'[k] = buffer[k]
  BY <1>2, <1>3 DEF IInv, Filled, Places
<1>5. buffer' \in [Places -> Received \cup {NUL}] /\ buffer'[length] = NUL
  BY <1>2, <1>3
<1>6. CASE length > 0
  <2> DEFINE line == [k \in 1..length |-> buffer[k - 1]]
  <2>1. pc' = "line" /\ lines' = Append(lines, line)
    BY <1>6 DEF EndLine
  <2>2. line \in Seq(Received) /\ Len(line) = length
    BY <1>2, <1>4 DEF Places
  <2>3. \A k \in 0..(length - 1) : line[k + 1] = buffer[k]
    BY <1>2 DEF Places
  <2> HIDE DEF line
  <2>4. lines' \in Seq(Seq(Received)) /\ Last(lines') = line /\ lines' # <<>>
    <3>1. lines \in Seq(Seq(Received))
      BY DEF IInv, Typed
    <3> QED
      BY <2>1, <2>2, <3>1, LastOfAppend
  <2>5. Typed'
    <3>1. \A i \in DOMAIN lines' : lines'[i] \in Seq(Received)
      BY <2>4
    <3> QED
      BY <1>1, <1>3, <1>5, <2>1, <2>4, <3>1 DEF IInv, Typed, TypeOK
  <2>6. Last(lines)' = line
    BY <2>4
  <2>7. LineKnown'
    BY <1>3, <1>6, <2>2, <2>4, <2>6 DEF LineKnown
  <2>8. Inside'
    BY <1>2, <1>3, <1>4, <1>5, <2>1, <2>3, <2>6 DEF Inside
  <2>9. Filled' /\ NoWords' /\ StaysInLine'
    BY <1>3, <2>1 DEF IInv, Filled, NoWords, StaysInLine
  <2> QED
    BY <2>5, <2>7, <2>8, <2>9 DEF IInv
<1>7. CASE ~(length > 0)
  <2>1. UNCHANGED <<pc, lines>>
    BY <1>7 DEF EndLine
  <2>2. Typed'
    BY <1>1, <1>3, <1>5, <2>1 DEF IInv, Typed, TypeOK
  <2>3. Filled'
    BY <1>2, <1>3, <1>7 DEF Filled, Places
  <2> QED
    BY <1>3, <2>1, <2>2, <2>3, Reading DEF IInv, NoWords
<1> QED
  BY <1>6, <1>7

LEMMA DoneStep == ASSUME IInv, NEW p, Done(p) PROVE IInv'
<1>1. Typed'
  BY ConstantsOK DEF Done, IInv, Typed, TypeOK, Places
<1>2. Filled'
  BY DEF Done, Filled
<1> QED
  BY <1>1, <1>2, Reading DEF Done

-----------------------------------------------------------------------------
(***************************************************************************)
(* process_command                                                         *)
(***************************************************************************)
LEMMA TakeNameStep == IInv /\ TakeName => IInv'
<1> SUFFICES ASSUME IInv, TakeName PROVE IInv'
  OBVIOUS
<1> DEFINE kept == Where(0, length, Received \ Blanks)
           last == Max(kept)
           first == Min(Where(0, last + 1, Received \ {Space}))
           ends  == Where(first, last + 1, {Space})
<1>1. /\ pc = "line" /\ pc' = "named" /\ args = NUL /\ argv = <<>>
      /\ UNCHANGED <<input, length, argv, heard, lines>>
  BY DEF TakeName, IInv, NoWords
<1>2. /\ length \in Places /\ length > 0 /\ Cap \in Nat
      /\ buffer \in [Places -> Received \cup {NUL}]
      /\ Last(lines) \in Seq(Received) /\ Len(Last(lines)) = length /\ lines # <<>>
      /\ NUL \notin Received /\ Space \in Blanks
  <2>1. Last(lines) \in Seq(Received) /\ Len(Last(lines)) = length /\ lines # <<>> /\ length > 0
    BY <1>1 DEF IInv, Typed, LineKnown, Last
  <2> QED
    BY <2>1, ConstantsOK DEF IInv, Typed, TypeOK, Blanks
<1>3. /\ \A k \in 0..(length - 1) : k \in Places /\ buffer[k] = Last(lines)[k + 1] /\ buffer[k] \in Received
      /\ buffer[length] = NUL
  <2>1. \A k \in 0..(length - 1) : k \in Places /\ buffer[k] = Last(lines)[k + 1]
    BY <1>1, <1>2 DEF IInv, Inside, Places
  <2>2. \A k \in 0..(length - 1) : k + 1 \in 1..Len(Last(lines))
    BY <1>2 DEF Places
  <2>3. \A k \in 0..(length - 1) : Last(lines)[k + 1] \in Received
    BY <1>2, <2>2
  <2> QED
    BY <1>1, <2>1, <2>3 DEF IInv, Inside
<1>4. LineKnown' /\ Filled' /\ StaysInLine'
  BY <1>1 DEF IInv, LineKnown, Filled, StaysInLine
<1>5. CASE kept = {}
  <2>1. /\ buffer' = [k \in Places |-> IF k < length THEN NUL ELSE buffer[k]]
        /\ UNCHANGED <<name, args>>
    BY <1>5 DEF TakeName
  <2>2. Typed'
    BY <1>1, <1>2, <2>1 DEF IInv, Typed, TypeOK
  <2>3. NoWords' /\ Inside'
    BY <1>1, <2>1 DEF NoWords, Inside
  <2> QED
    BY <1>4, <2>2, <2>3 DEF IInv
<1>6. CASE kept # {}
  <2>1. last \in kept /\ \A y \in kept : y <= last
    BY <1>2, <1>6, WhereFinite, MaxOf DEF Places
  <2>2. last \in 0..(length - 1) /\ buffer[last] \in Received \ Blanks
    BY <2>1 DEF Where
  <2>3. \A k \in 0..(length - 1) : k > last => buffer[k] \in Blanks
    BY <1>3, <2>1 DEF Where
  <2>4. Named(last)
    BY <1>6 DEF TakeName
  <2> HIDE DEF last
  <2>5. last \in Int /\ last + 1 \in Int /\ length \in Nat
    BY <1>2, <2>2 DEF Places
  <2>6. last \in Where(0, last + 1, Received \ {Space})
    BY <1>2, <2>2, <2>5 DEF Where
  <2>7. first \in Where(0, last + 1, Received \ {Space})
    BY <2>5, <2>6, WhereFinite, MinOf
  <2>8. first \in 0..last
    BY <2>5, <2>7 DEF Where
  <2> HIDE DEF first
  <2>9. /\ name' = first
        /\ args' = (IF ends = {} THEN NUL ELSE Min(ends) + 1)
        /\ buffer' = [k \in Places |-> IF k \in (last + 1)..(length - 1) \/ (ends # {} /\ k = Min(ends))
                                     THEN NUL ELSE buffer[k]]
    BY <2>4 DEF Named, first
  <2>10. ends # {} => Min(ends) \in 0..last /\ buffer[Min(ends)] = Space
    <3> SUFFICES ASSUME ends # {} PROVE Min(ends) \in 0..last /\ buffer[Min(ends)] = Space
      OBVIOUS
    <3>1. Min(ends) \in ends
      BY <2>5, <2>8, WhereFinite, MinOf
    <3> QED
      BY <2>5, <2>8, <3>1 DEF Where
  <2> HIDE DEF ends
  <2>11. Typed'
    <3>1. name' \in Places
      BY <1>2, <2>2, <2>8, <2>9 DEF Places
    <3>2. args' \in 0..Cap \cup {NUL}
      BY <1>2, <2>2, <2>9, <2>10 DEF Places
    <3>3. buffer' \in [Places -> Received \cup {NUL}]
      BY <1>2, <2>9
    <3> QED
      BY <1>1, <3>1, <3>2, <3>3 DEF IInv, Typed, TypeOK
  <2>12. args' # NUL => Rest(args)'
    <3> SUFFICES ASSUME args' # NUL PROVE Rest(args)'
      OBVIOUS
    <3>1. ends # {} /\ args' = Min(ends) + 1 /\ args' \in 0..length /\ args' \in Int
      BY <2>2, <2>5, <2>9, <2>10
    <3>2. buffer'[length] = NUL
      BY <1>2, <1>3, <2>9
    <3>3. ASSUME NEW k \in args'..(length - 1) PROVE Kept(k)'
      <4>1. k \in Places /\ k \in 0..(length - 1) /\ k # Min(ends) /\ k \in Int
        BY <1>2, <2>5, <2>10, <3>1, <3>3 DEF Places
      <4>2. CASE k <= last
        <5>1. buffer'[k] = buffer[k]
          BY <2>5, <2>9, <4>1, <4>2
        <5> QED
          BY <1>1, <1>3, <4>1, <5>1 DEF Kept
      <4>3. CASE k > last
        <5>1. buffer'[k] = NUL
          BY <2>5, <2>9, <4>1, <4>3
        <5>2. \A j \in k..(length - 1) : Last(lines)[j + 1] \in Blanks
          BY <1>3, <2>3, <2>5, <4>1, <4>3
        <5> QED
          BY <1>1, <5>1, <5>2 DEF Kept
      <4> QED
        BY <2>5, <4>1, <4>2, <4>3
    <3> QED
      BY <1>1, <3>1, <3>2, <3>3 DEF Rest
  <2>13. NoWords' /\ Inside'
    BY <1>1, <2>12 DEF NoWords, Inside
  <2> QED
    BY <1>4, <2>11, <2>13 DEF IInv
<1> QED
  BY <1>5, <1>6

LEMMA BeginSplitStep == IInv /\ BeginSplit => IInv'
<1> SUFFICES ASSUME IInv, BeginSplit PROVE IInv'
  OBVIOUS
<1>1. /\ pc = "named" /\ args # NUL /\ pc' = "split"
      /\ UNCHANGED <<input, buffer, length, name, args, argv, heard, lines>>
  BY DEF BeginSplit
<1>2. argv = <<>> /\ args \in 0..Cap
  BY <1>1 DEF IInv, NoWords, Typed, TypeOK
<1>3. Rest(args)
  BY <1>1 DEF IInv, Inside
<1>4. Rest(args)'
  BY <1>1, <1>3 DEF Rest, Kept
<1>5. InLine'
  BY <1>1, <1>2, <1>4 DEF InLine
<1>6. args \in Int /\ args <= length
  BY <1>2, <1>3 DEF Rest
<1>7. StaysInLine'
  BY <1>1, <1>2, <1>6 DEF StaysInLine
<1>8. Typed' /\ Filled' /\ NoWords' /\ LineKnown' /\ Inside'
  BY <1>1, <1>2, <1>5 DEF IInv, Typed, TypeOK, Filled, NoWords, LineKnown, Inside
<1> QED
  BY <1>7, <1>8 DEF IInv

-----------------------------------------------------------------------------
(***************************************************************************)
(* split_args                                                              *)
(***************************************************************************)
\* The line and the buffer while it is split.
LEMMA Splitting ==
  ASSUME IInv, pc = "split"
  PROVE  /\ length \in Places /\ length > 0 /\ Cap \in Nat /\ args \in 0..Cap
         /\ buffer \in [Places -> Received \cup {NUL}]
         /\ argv \in Seq(0..Cap)
         /\ Last(lines) \in Seq(Received) /\ Len(Last(lines)) = length
         /\ DOMAIN Last(lines) = 1..length
         /\ InLine \/ Escaped
<1>1. Last(lines) \in Seq(Received) /\ Len(Last(lines)) = length /\ length > 0
  BY DEF IInv, Typed, LineKnown, Last
<1> QED
  BY <1>1, ConstantsOK DEF IInv, Typed, TypeOK, NoWords, Inside

\* Once a word begins behind the last quote, one does for ever.
LEMMA EscapedStays ==
  ASSUME Escaped, lines' = lines, argv \in Seq(0..Cap),
         argv' = argv \/ \E w \in 0..Cap : argv' = Append(argv, w)
  PROVE  Escaped'
<1>1. LastQuote' = LastQuote
  BY DEF LastQuote
<1>2. PICK i \in DOMAIN argv : argv[i] = LastQuote
  BY DEF Escaped
<1>3. i \in DOMAIN argv' /\ argv'[i] = argv[i]
  <2>1. CASE argv' = argv
    BY <2>1
  <2>2. ASSUME NEW w \in 0..Cap, argv' = Append(argv, w) PROVE i \in DOMAIN argv' /\ argv'[i] = argv[i]
    <3>1. i \in 1..Len(argv)
      OBVIOUS
    <3> QED
      BY <2>2, <3>1
  <2> QED
    BY <2>1, <2>2
<1> QED
  BY <1>1, <1>2, <1>3 DEF Escaped

\* Within the line the next word begins and ends within the line.
LEMMA StartInLine ==
  ASSUME IInv, pc = "split", InLine
  PROVE  /\ Start \in args..length /\ Start < Cap
         /\ buffer[Start] # NUL => Start < length
<1>1. /\ args \in 0..Cap /\ length \in Places /\ Cap \in Nat
      /\ args \in 0..length /\ buffer[length] = NUL
  BY Splitting DEF InLine, Rest
<1>2. NUL \in NotBlank
  BY ConstantsOK DEF NotBlank, Received
<1>3. length \in args..(Cap - 1)
  BY <1>1 DEF Places
<1>4. Start <= length /\ Start \in args..Cap
  BY <1>1, <1>2, <1>3, FirstOfFacts DEF Start
<1> QED
  BY <1>1, <1>3, <1>4

LEMMA EndInLine ==
  ASSUME IInv, pc = "split", InLine, buffer[Start] # NUL
  PROVE  WordEnd \in Start..length /\ WordEnd < Cap
<1>1. /\ args \in 0..Cap /\ length \in Places /\ Cap \in Nat
      /\ args \in 0..length /\ buffer[length] = NUL
  BY Splitting DEF InLine, Rest
<1>2. Start \in args..length /\ Start < length /\ Start \in Int
  BY <1>1, StartInLine
<1>3. Start \in 0..Cap /\ Start + 1 \in 0..Cap
  BY <1>1, <1>2 DEF Places
<1>4. length \in Start..(Cap - 1) /\ length \in (Start + 1)..(Cap - 1)
  BY <1>1, <1>2 DEF Places
<1>5. /\ FirstOf(Start + 1, {Quote, NUL}) <= length
      /\ FirstOf(Start + 1, {Quote, NUL}) \in (Start + 1)..Cap
  BY <1>1, <1>3, <1>4, FirstOfFacts
<1>6. /\ FirstOf(Start, Blanks \cup {NUL}) <= length
      /\ FirstOf(Start, Blanks \cup {NUL}) \in Start..Cap
  BY <1>1, <1>3, <1>4, FirstOfFacts
<1>7. WordEnd \in Start..Cap /\ WordEnd <= length
  BY <1>1, <1>2, <1>5, <1>6 DEF WordEnd
<1> QED
  BY <1>1, <1>2, <1>7 DEF Places

LEMMA ElementsOf ==
  ASSUME NEW S, NEW s \in Seq(S)
  PROVE  \A k \in DOMAIN s : s[k] \in S
OBVIOUS

\* What a word leaves behind: types, and a search in the line if it was there.
LEMMA WordTyped ==
  ASSUME IInv, pc = "split", Len(argv) < MaxArgs,
         NEW i \in 0..Cap, NEW j \in Places, NEW next \in 0..Cap, Word(i, j, next)
  PROVE  Typed' /\ Filled' /\ NoWords' /\ LineKnown' /\ (Escaped => Escaped')
<1>1. /\ argv' = Append(argv, i) /\ buffer' = [buffer EXCEPT ![j] = NUL] /\ args' = next
      /\ UNCHANGED <<input, length, pc, name, heard, lines>>
  BY DEF Word
<1>2. argv \in Seq(0..Cap) /\ MaxArgs \in Nat
  BY ConstantsOK DEF IInv, Typed
<1>3. argv' \in Seq(0..Cap) /\ Len(argv') <= MaxArgs /\ \A k \in DOMAIN argv' : argv'[k] \in 0..Cap
  <2>1. argv' \in Seq(0..Cap)
    BY <1>1, <1>2
  <2>2. Len(argv') = Len(argv) + 1 /\ Len(argv) \in Nat
    BY <1>1, <1>2
  <2>3. Len(argv') <= MaxArgs
    BY <1>2, <2>2
  <2>4. \A k \in DOMAIN argv' : argv'[k] \in 0..Cap
    BY <2>1, ElementsOf
  <2> QED
    BY <2>1, <2>3, <2>4
<1>4. Typed'
  BY <1>1, <1>3 DEF IInv, Typed, TypeOK
<1>5. Filled' /\ NoWords' /\ LineKnown'
  BY <1>1 DEF IInv, Filled, NoWords, LineKnown
<1>6. Escaped => Escaped'
  BY <1>1, <1>2, EscapedStays
<1> QED
  BY <1>4, <1>5, <1>6

LEMMA WordInLine ==
  ASSUME IInv, pc = "split", InLine,
         NEW i \in 0..length, NEW j \in Places, NEW next \in args..length, Word(i, j, next),
         j < next \/ buffer[j] = NUL
  PROVE  InLine'
<1>1. /\ argv' = Append(argv, i) /\ buffer' = [buffer EXCEPT ![j] = NUL] /\ args' = next
      /\ UNCHANGED <<length, lines>>
  BY DEF Word
<1>2. /\ length \in Places /\ args \in 0..length /\ buffer \in [Places -> Received \cup {NUL}]
      /\ argv \in Seq(0..Cap) /\ buffer[length] = NUL
  BY Splitting DEF InLine, Rest
<1>3. \A k \in next..length : buffer'[k] = buffer[k]
  BY <1>1, <1>2 DEF Places
<1>4. \A k \in next..(length - 1) : Kept(k)'
  <2> SUFFICES ASSUME NEW k \in next..(length - 1) PROVE Kept(k)'
    OBVIOUS
  <2>1. Kept(k)
    BY <1>2 DEF InLine, Rest, Places
  <2>2. buffer'[k] = buffer[k]
    BY <1>2, <1>3 DEF Places
  <2> QED
    BY <1>1, <2>1, <2>2 DEF Kept
<1>5. Rest(args)'
  <2>1. args' \in 0..length' /\ buffer'[length] = NUL
    BY <1>1, <1>2, <1>3 DEF Places
  <2> QED
    BY <1>1, <1>4, <2>1 DEF Rest
<1>6. \A k \in DOMAIN argv' : argv'[k] <= length
  BY <1>1, <1>2 DEF InLine, Places
<1> QED
  BY <1>1, <1>5, <1>6 DEF InLine

\* The two together, for a word that may be the one behind the last quote.
LEMMA WordStep ==
  ASSUME IInv, pc = "split", Len(argv) < MaxArgs,
         NEW i \in 0..Cap, NEW j \in Places, NEW next \in 0..Cap, Word(i, j, next),
         InLine => InLine' \/ (LastQuote = i /\ i # 0)
  PROVE  IInv'
<1>1. Typed' /\ Filled' /\ NoWords' /\ LineKnown' /\ (Escaped => Escaped')
  BY WordTyped
<1>2. argv' = Append(argv, i) /\ UNCHANGED <<length, pc, lines>> /\ argv \in Seq(0..Cap)
  BY DEF Word, IInv, Typed
<1>3. (LastQuote = i /\ i # 0) => Escaped'
  <2> SUFFICES ASSUME LastQuote = i, i # 0 PROVE Escaped'
    OBVIOUS
  <2>1. LastQuote' = LastQuote
    BY <1>2 DEF LastQuote
  <2>2. Len(argv) + 1 \in DOMAIN argv' /\ argv'[Len(argv) + 1] = i
    BY <1>2
  <2> QED
    BY <2>1, <2>2 DEF Escaped
<1>4. InLine' \/ Escaped'
  BY <1>1, <1>3, Splitting
<1>5. InLine' => args' <= length' /\ \A k \in DOMAIN argv' : argv'[k] <= length'
  BY <1>2, Splitting DEF InLine, Rest, Places
<1>6. StaysInLine'
  BY <1>2, <1>4, <1>5 DEF StaysInLine, Escaped
<1>7. Inside'
  BY <1>2, <1>4 DEF Inside
<1> QED
  BY <1>1, <1>6, <1>7 DEF IInv

LEMMA QuotedStep == IInv /\ Quoted => IInv'
<1> SUFFICES ASSUME IInv, Quoted PROVE IInv'
  OBVIOUS
<1>1. /\ pc = "split" /\ Len(argv) < MaxArgs
      /\ Start < Cap /\ buffer[Start] = Quote /\ WordEnd < Cap
      /\ WordEnd = FirstOf(Start + 1, {Quote, NUL})
      /\ Word(Start + 1, WordEnd, WordEnd + 1)
  BY DEF Quoted, Searching, WordEnd
<1>2. /\ length \in Places /\ length > 0 /\ Cap \in Nat /\ args \in 0..Cap
      /\ Last(lines) \in Seq(Received) /\ DOMAIN Last(lines) = 1..length
      /\ Len(Last(lines)) = length
  BY <1>1, Splitting
<1>3. Start \in args..Cap
  BY <1>2, FirstOfFacts DEF Start
<1>4. Start \in Places /\ Start + 1 \in 0..Cap
  BY <1>1, <1>2, <1>3 DEF Places
<1>5. /\ WordEnd \in (Start + 1)..Cap /\ buffer[WordEnd] \in {Quote, NUL}
      /\ \A k \in (Start + 1)..(Cap - 1) : buffer[k] \in {Quote, NUL} => WordEnd <= k
  BY <1>1, <1>4, FirstOfFacts
<1>6. WordEnd \in Places /\ WordEnd + 1 \in 0..Cap
  BY <1>1, <1>2, <1>4, <1>5 DEF Places
<1>7. Quote # NUL /\ NUL \notin Received /\ Quote \notin Blanks /\ NUL \notin Blanks
  BY ConstantsOK DEF Received
<1>8. InLine => InLine' \/ LastQuote = Start + 1
  <2> SUFFICES ASSUME InLine PROVE InLine' \/ LastQuote = Start + 1
    OBVIOUS
  <2>1. Start \in args..length /\ Start < length
    BY <1>1, <1>7, StartInLine
  <2>2. WordEnd \in Start..length
    BY <1>1, <1>7, EndInLine
  <2>3. Rest(args)
    BY DEF InLine
  <2>4. args \in 0..length /\ buffer[length] = NUL
    BY <2>3 DEF Rest
  <2>5. CASE buffer[WordEnd] = Quote
    <3>1. WordEnd # length /\ WordEnd + 1 \in args..length /\ Start + 1 \in 0..length
      BY <1>2, <1>5, <1>7, <2>1, <2>2, <2>4, <2>5 DEF Places
    <3>2. WordEnd < WordEnd + 1
      BY <1>6 DEF Places
    <3> QED
      BY <1>1, <1>6, <3>1, <3>2, WordInLine
  <2>6. CASE buffer[WordEnd] = NUL
    <3>1. \A k \in args..(length - 1) : Kept(k)
      BY <2>3 DEF Rest
    <3>2. Last(lines)[Start + 1] = Quote
      <4>1. Start \in args..(length - 1)
        BY <1>2, <2>1 DEF Places
      <4>2. Kept(Start)
        BY <3>1, <4>1
      <4> QED
        BY <1>1, <1>7, <4>2 DEF Kept
    <3>3. ASSUME NEW k \in 1..length, Last(lines)[k] = Quote, k > Start + 1 PROVE FALSE
      <4>1. /\ k - 1 \in (Start + 1)..(length - 1) /\ k - 1 \in args..(length - 1)
            /\ k - 1 \in (Start + 1)..(Cap - 1) /\ (k - 1) + 1 = k
        BY <1>2, <2>1, <2>4, <3>3 DEF Places
      <4>2. Kept(k - 1)
        BY <3>1, <4>1
      <4>3. buffer[k - 1] = Quote
        <5> SUFFICES ASSUME buffer[k - 1] # Quote PROVE FALSE
          OBVIOUS
        <5>1. \A j \in (k - 1)..(length - 1) : Last(lines)[j + 1] \in Blanks
          BY <3>3, <4>1, <4>2 DEF Kept
        <5>2. Last(lines)[k] \in Blanks
          BY <1>2, <4>1, <5>1 DEF Places
        <5> QED
          BY <1>7, <3>3, <5>2
      <4>4. WordEnd <= k - 1 /\ WordEnd # k - 1
        BY <1>5, <1>7, <2>6, <4>1, <4>3
      <4>5. WordEnd \in args..(length - 1) /\ k - 1 \in WordEnd..(length - 1)
            /\ WordEnd + 1 \in 1..length
        BY <1>2, <1>5, <2>1, <2>4, <4>1, <4>4 DEF Places
      <4>6. Kept(WordEnd)
        BY <3>1, <4>5
      <4>7. Last(lines)[WordEnd + 1] # NUL
        <5>1. Last(lines)[WordEnd + 1] \in Received
          BY <1>2, <4>5
        <5> QED
          BY <1>7, <5>1
      <4>8. Last(lines)[(k - 1) + 1] \in Blanks
        BY <2>6, <4>5, <4>6, <4>7 DEF Kept
      <4> QED
        BY <1>7, <3>3, <4>1, <4>8
    <3>4. \A k \in DOMAIN Last(lines) : Last(lines)[k] = Quote => k <= Start + 1
      BY <1>2, <1>4, <3>3 DEF Places
    <3>5. Start + 1 \in DOMAIN Last(lines) /\ Start + 1 \in Nat /\ Start + 1 # 0
      BY <1>2, <1>4, <2>1 DEF Places
    <3> QED
      BY <1>2, <3>2, <3>4, <3>5, LastQuoteIs
  <2> QED
    BY <1>5, <2>5, <2>6
<1>9. Start + 1 # 0
  BY <1>4 DEF Places
<1> QED
  BY <1>1, <1>4, <1>6, <1>8, <1>9, WordStep

LEMMA PlainStep == IInv /\ Plain => IInv'
<1> SUFFICES ASSUME IInv, Plain PROVE IInv'
  OBVIOUS
<1> DEFINE next == IF buffer[WordEnd] = NUL THEN WordEnd ELSE WordEnd + 1
<1>1. /\ pc = "split" /\ Len(argv) < MaxArgs
      /\ Start < Cap /\ buffer[Start] \notin {Quote, NUL} /\ WordEnd < Cap
      /\ WordEnd = FirstOf(Start, Blanks \cup {NUL})
      /\ Word(Start, WordEnd, next)
  BY DEF Plain, Searching, WordEnd
<1>2. length \in Places /\ Cap \in Nat /\ args \in 0..Cap
  BY <1>1, Splitting
<1>3. Start \in args..Cap
  BY <1>2, FirstOfFacts DEF Start
<1>4. Start \in 0..Cap
  BY <1>2, <1>3
<1>5. WordEnd \in Start..Cap
  BY <1>1, <1>4, FirstOfFacts
<1>6. WordEnd \in Places /\ next \in 0..Cap
  BY <1>1, <1>2, <1>4, <1>5 DEF Places
<1>7. InLine => InLine'
  <2> SUFFICES ASSUME InLine PROVE InLine'
    OBVIOUS
  <2>1. Start \in args..length /\ WordEnd \in Start..length
    BY <1>1, StartInLine, EndInLine
  <2>2. args \in 0..length /\ buffer[length] = NUL
    BY DEF InLine, Rest
  <2>3. next \in args..length /\ Start \in 0..length
    BY <1>2, <2>1, <2>2 DEF Places
  <2>4. WordEnd < next \/ buffer[WordEnd] = NUL
    BY <1>6 DEF Places
  <2> HIDE DEF next
  <2> QED
    BY <1>1, <1>6, <2>3, <2>4, WordInLine
<1>8. InLine => InLine'
  BY <1>7
<1>9. CASE buffer[WordEnd] = NUL
  <2>1. Word(Start, WordEnd, WordEnd) /\ WordEnd \in 0..Cap
    BY <1>1, <1>6, <1>9
  <2> QED
    BY <1>1, <1>4, <1>6, <1>8, <2>1, WordStep
<1>10. CASE buffer[WordEnd] # NUL
  <2>1. Word(Start, WordEnd, WordEnd + 1) /\ WordEnd + 1 \in 0..Cap
    BY <1>1, <1>6, <1>10
  <2> QED
    BY <1>1, <1>4, <1>6, <1>8, <2>1, WordStep
<1> QED
  BY <1>9, <1>10

LEMMA EndSplitStep == IInv /\ EndSplit => IInv'
<1> SUFFICES ASSUME IInv, EndSplit PROVE IInv'
  OBVIOUS
<1>1. /\ pc = "split" /\ pc' = "call"
      /\ UNCHANGED <<input, buffer, length, name, args, argv, heard, lines>>
  BY DEF EndSplit
<1>2. Typed' /\ Filled' /\ NoWords' /\ LineKnown' /\ Inside'
  BY <1>1 DEF IInv, Typed, TypeOK, Filled, NoWords, LineKnown, Inside
<1>3. StaysInLine'
  BY <1>1 DEF IInv, StaysInLine, LastQuote
<1> QED
  BY <1>2, <1>3 DEF IInv

\* The end of the buffer is reached only from beyond the line.
LEMMA OverrunStep == IInv /\ Overrun => IInv'
<1> SUFFICES ASSUME IInv, Overrun PROVE IInv'
  OBVIOUS
<1>1. /\ pc = "split" /\ pc' = "wild"
      /\ args = Cap \/ Start = Cap \/ (Start # Cap /\ Searching /\ WordEnd = Cap)
      /\ UNCHANGED <<input, buffer, length, name, args, argv, heard, lines>>
  BY DEF Overrun
<1>2. Typed' /\ Filled' /\ NoWords' /\ LineKnown' /\ Inside'
  BY <1>1 DEF IInv, Typed, TypeOK, Filled, NoWords, LineKnown, Inside
<1>3. ~InLine
  <2> SUFFICES ASSUME InLine PROVE FALSE
    OBVIOUS
  <2>1. length \in Places /\ Cap \in Nat /\ args \in 0..length
    BY <1>1, Splitting DEF InLine, Rest
  <2>2. Start \in args..length /\ Start < Cap
    BY <1>1, StartInLine
  <2>3. args # Cap /\ Start # Cap
    BY <2>1, <2>2 DEF Places
  <2>4. WordEnd = Cap
    BY <1>1, <2>3
  <2>5. buffer[Start] = NUL
    BY <1>1, <2>1, <2>4, EndInLine
  <2>6. WordEnd = FirstOf(Start, Blanks \cup {NUL})
    BY <2>5, ConstantsOK DEF WordEnd, Received
  <2>7. Start \in 0..Cap /\ Start \in Start..(Cap - 1)
    BY <2>1, <2>2 DEF Places
  <2>8. WordEnd <= Start
    BY <2>5, <2>6, <2>7, FirstOfFacts
  <2> QED
    BY <2>1, <2>2, <2>4, <2>7, <2>8 DEF Places
<1>4. Escaped
  BY <1>1, <1>3, Splitting
<1>5. StaysInLine'
  BY <1>1, <1>4 DEF StaysInLine, Escaped, LastQuote
<1> QED
  BY <1>2, <1>5 DEF IInv

-----------------------------------------------------------------------------
(***************************************************************************)
(* The theorems                                                            *)
(***************************************************************************)
LEMMA Invariance == Spec => []IInv
<1>1. IInv /\ UNCHANGED vars => IInv'
  BY DEF vars, IInv, Typed, TypeOK, Filled, NoWords, LineKnown, Inside, StaysInLine,
         InLine, Escaped, Rest, Kept, LastQuote
<1>2. IInv /\ [Next]_vars => IInv'
  BY <1>1, RecvStep, AppendByteStep, EndLineStep, TakeNameStep, DoneStep, BeginSplitStep,
     QuotedStep, PlainStep, EndSplitStep, OverrunStep
     DEF Next, Unsplit, Called
<1> QED
  BY InitInv, <1>2, PTL DEF Spec

\* Whatever is received, and however recv cuts it into pieces: command_length
\* stays below BUFFER_SIZE, so that there is a place for the NUL, and argv
\* never has more than MAX_ARGS words.
THEOREM TypeCorrect == Spec => []TypeOK
<1>1. IInv => TypeOK
  BY DEF IInv, Typed
<1> QED
  BY <1>1, Invariance, PTL

\* split_args reads and writes within the line that was received, never in what
\* earlier lines left behind it nor beyond the buffer, unless the last quote of
\* the line opened a word: only a quote that is not closed leads out of it.
THEOREM SearchStaysInLine == Spec => []StaysInLine
<1>1. IInv => StaysInLine
  BY DEF IInv
<1> QED
  BY <1>1, Invariance, PTL

-----------------------------------------------------------------------------
(***************************************************************************)
(* The lines that were sent                                                *)
(***************************************************************************)
\* Where the last line of the first j bytes of h ends.
Ended(h, j) == Max({0} \cup {i \in 1..j : h[i] = Eol})

\* The buffer holds what was received since the last line's end, or what fits.
Pending ==
  /\ pc = "read" =>
       LET last == Ended(heard, Len(heard))
       IN  /\ length = Least(Len(heard) - last, Cap - 1)
           /\ \A k \in 0..(length - 1) : buffer[k] = heard[last + k + 1]
  /\ pc # "read" => Ended(heard, Len(heard)) = Len(heard)

\* How many lines end before j.
Before(j) == Cardinality({i \in LineEnds : i < j})

\* The lines are one for each end, and the line of an end is where the number
\* of ends before it says.
Ranked ==
  /\ Len(lines) = Cardinality(LineEnds)
  /\ \A n \in DOMAIN lines : \E j \in LineEnds : Before(j) + 1 = n
  /\ \A j \in LineEnds : Before(j) + 1 \in DOMAIN lines /\ lines[Before(j) + 1] = LineAt(j)

LEMMA EndedFacts ==
  ASSUME NEW h, NEW j \in Nat
  PROVE  /\ Ended(h, j) \in 0..j
         /\ Ended(h, j) # 0 => h[Ended(h, j)] = Eol
         /\ \A i \in 1..j : h[i] = Eol => i <= Ended(h, j)
<1> DEFINE S == {0} \cup {i \in 1..j : h[i] = Eol}
<1>1. S \in SUBSET (0..j) /\ S # {}
  OBVIOUS
<1>2. IsFiniteSet(S) /\ S \in SUBSET Int
  <2>1. IsFiniteSet(0..j) /\ 0..j \subseteq Int
    BY FS_Interval
  <2> HIDE DEF S
  <2> QED
    BY <1>1, <2>1, FS_Subset
<1>3. Max(S) \in S /\ \A y \in S : y <= Max(S)
  BY <1>1, <1>2, MaxOf
<1>4. Ended(h, j) = Max(S)
  BY DEF Ended
<1> QED
  BY <1>1, <1>3, <1>4

LEMMA EndedNext ==
  ASSUME NEW h, NEW j \in Nat
  PROVE  Ended(h, j + 1) = IF h[j + 1] = Eol THEN j + 1 ELSE Ended(h, j)
<1>1. CASE h[j + 1] = Eol
  <2>1. Ended(h, j + 1) \in 0..(j + 1) /\ j + 1 \in 1..(j + 1)
    BY EndedFacts
  <2>2. j + 1 <= Ended(h, j + 1)
    BY <1>1, <2>1, EndedFacts
  <2> QED
    BY <1>1, <2>1, <2>2
<1>2. CASE h[j + 1] # Eol
  <2>1. {i \in 1..(j + 1) : h[i] = Eol} = {i \in 1..j : h[i] = Eol}
    BY <1>2
  <2> QED
    BY <1>2, <2>1 DEF Ended
<1> QED
  BY <1>1, <1>2

\* What ends among the first j bytes depends on no others.
LEMMA EndedSame ==
  ASSUME NEW h, NEW g, NEW j \in Nat, \A i \in 1..j : h[i] = g[i]
  PROVE  Ended(h, j) = Ended(g, j)
<1>1. {i \in 1..j : h[i] = Eol} = {i \in 1..j : g[i] = Eol}
  OBVIOUS
<1> QED
  BY <1>1 DEF Ended

LEMMA LineEndsFinite ==
  ASSUME heard \in Seq(Received)
  PROVE  /\ IsFiniteSet(LineEnds) /\ LineEnds \subseteq 2..Len(heard)
         /\ Cardinality(LineEnds) \in Nat
         /\ \A j \in LineEnds : Before(j) \in Nat
<1>1. LineEnds \subseteq 2..Len(heard) /\ Len(heard) \in Nat
  BY DEF LineEnds
<1>2. IsFiniteSet(LineEnds)
  <2>1. IsFiniteSet(2..Len(heard))
    BY <1>1, FS_Interval
  <2> QED
    BY <1>1, <2>1, FS_Subset
<1>3. \A j \in LineEnds : IsFiniteSet({i \in LineEnds : i < j})
  BY <1>2, FS_Subset
<1> QED
  BY <1>1, <1>2, <1>3, FS_CardinalityType DEF Before

\* The same piece of two sequences that agree there.
LEMMA SamePiece ==
  ASSUME NEW S, NEW s \in Seq(S), NEW t, NEW m \in Nat \ {0}, NEW n \in Int, n <= Len(s),
         \A i \in m..n : t[i] = s[i]
  PROVE  /\ SubSeq(t, m, n) = SubSeq(s, m, n)
         /\ SubSeq(s, m, n) \in Seq(S)
         /\ Len(SubSeq(s, m, n)) = IF m <= n THEN n - m + 1 ELSE 0
         /\ \A i \in 1..(n - m + 1) : SubSeq(s, m, n)[i] = s[m + i - 1]
<1>1. \A i \in m..n : s[i] \in S /\ t[i] \in S
  OBVIOUS
<1>2. /\ SubSeq(s, m, n) \in Seq(S)
      /\ Len(SubSeq(s, m, n)) = IF m <= n THEN n - m + 1 ELSE 0
      /\ \A i \in 1..(n - m + 1) : SubSeq(s, m, n)[i] = s[m + i - 1]
  BY <1>1, SubSeqProperties
<1>3. /\ SubSeq(t, m, n) \in Seq(S)
      /\ Len(SubSeq(t, m, n)) = IF m <= n THEN n - m + 1 ELSE 0
      /\ \A i \in 1..(n - m + 1) : SubSeq(t, m, n)[i] = t[m + i - 1]
  BY <1>1, SubSeqProperties
<1>4. PICK a, b : a = SubSeq(s, m, n) /\ b = SubSeq(t, m, n)
  OBVIOUS
<1>5. a \in Seq(S) /\ b \in Seq(S) /\ Len(a) = Len(b)
  BY <1>2, <1>3, <1>4
<1>6. ASSUME NEW i \in 1..Len(a) PROVE a[i] = b[i]
  <2>1. i \in 1..(n - m + 1) /\ m + i - 1 \in m..n
    BY <1>2, <1>4
  <2> QED
    BY <1>2, <1>3, <1>4, <2>1
<1>7. a = b
  BY <1>5, <1>6, SeqEqual
<1> QED
  BY <1>2, <1>4, <1>7

\* One more byte: an end is added if the byte is one and its line not empty,
\* and what is known of the earlier ends stays.
LEMMA OneMore ==
  ASSUME heard \in Seq(Received), NEW e \in Received, heard' = Append(heard, e)
  PROVE  /\ heard' \in Seq(Received) /\ Len(heard') = Len(heard) + 1
         /\ heard'[Len(heard) + 1] = e
         /\ \A k \in 1..Len(heard) : heard'[k] = heard[k]
         /\ Ended(heard', Len(heard)) = Ended(heard, Len(heard))
         /\ LineEnds' = IF e = Eol /\ Len(heard) > 0 /\ heard[Len(heard)] # Eol
                        THEN LineEnds \cup {Len(heard) + 1} ELSE LineEnds
         /\ \A j \in LineEnds : Before(j)' = Before(j) /\ LineAt(j)' = LineAt(j)
<1>1. /\ heard' \in Seq(Received) /\ Len(heard') = Len(heard) + 1 /\ Len(heard) \in Nat
      /\ heard'[Len(heard) + 1] = e
      /\ \A k \in 1..Len(heard) : heard'[k] = heard[k]
  OBVIOUS
<1>2. Ended(heard', Len(heard)) = Ended(heard, Len(heard))
  BY <1>1, EndedSame
<1>3. \A j \in 2..Len(heard) : j \in LineEnds' <=> j \in LineEnds
  BY <1>1 DEF LineEnds
<1>4. Len(heard) + 1 \in LineEnds' <=> e = Eol /\ Len(heard) > 0 /\ heard[Len(heard)] # Eol
  BY <1>1 DEF LineEnds
<1>5. LineEnds \subseteq 2..Len(heard) /\ LineEnds' \subseteq 2..(Len(heard) + 1)
  BY <1>1 DEF LineEnds
<1>6. LineEnds' = IF e = Eol /\ Len(heard) > 0 /\ heard[Len(heard)] # Eol
                  THEN LineEnds \cup {Len(heard) + 1} ELSE LineEnds
  <2>1. PICK N : N = Len(heard)
    OBVIOUS
  <2>2. N \in Nat /\ N + 1 \notin 2..N /\ 2..(N + 1) \subseteq 2..N \cup {N + 1}
    BY <1>1, <2>1
  <2>3. CASE N + 1 \in LineEnds'
    <3>1. LineEnds' = LineEnds \cup {N + 1}
      BY <1>3, <1>5, <2>1, <2>2, <2>3, Zenon
    <3> QED
      BY <1>4, <2>1, <2>3, <3>1, Zenon
  <2>4. CASE N + 1 \notin LineEnds'
    <3>1. LineEnds' = LineEnds
      BY <1>3, <1>5, <2>1, <2>2, <2>4, Zenon
    <3> QED
      BY <1>4, <2>1, <2>4, <3>1, Zenon
  <2> QED
    BY <2>3, <2>4
<1>7. ASSUME NEW j \in LineEnds PROVE Before(j)' = Before(j)
  <2>1. {i \in LineEnds' : i < j} = {i \in LineEnds : i < j}
    <3>1. \A i \in LineEnds' : i < j => i \in 2..Len(heard)
      BY <1>1, <1>5
    <3> QED
      BY <1>3, <1>5, <3>1, Zenon
  <2> QED
    BY <2>1 DEF Before
<1>8. ASSUME NEW j \in LineEnds PROVE LineAt(j)' = LineAt(j)
  <2>1. j \in 2..Len(heard) /\ j - 1 \in Nat
    BY <1>1, <1>5
  <2>2. \A i \in 1..(j - 1) : heard'[i] = heard[i]
    BY <1>1, <2>1
  <2>3. PICK n : n = Ended(heard, j - 1)
    OBVIOUS
  <2>4. n \in 0..(j - 1) /\ Ended(heard', j - 1) = n
    BY <2>1, <2>2, <2>3, EndedFacts, EndedSame
  <2>5. PICK m : m = Least(j - 1, n + 1 + Cap - 2)
    OBVIOUS
  <2>6. m \in Int /\ m <= j - 1
    BY <2>1, <2>4, <2>5, ConstantsOK DEF Least
  <2>7. LineAt(j) = SubSeq(heard, n + 1, m) /\ LineAt(j)' = SubSeq(heard', n + 1, m)
    BY <2>3, <2>4, <2>5 DEF LineAt, Ended
  <2>8. /\ n + 1 \in Nat \ {0} /\ m <= Len(heard)
        /\ \A i \in (n + 1)..m : heard'[i] = heard[i]
    BY <1>1, <2>1, <2>4, <2>6
  <2>9. SubSeq(heard', n + 1, m) = SubSeq(heard, n + 1, m)
    BY <2>6, <2>8, SamePiece
  <2> QED
    BY <2>7, <2>9
<1> QED
  BY <1>1, <1>2, <1>6, <1>7, <1>8

\* The line in the buffer is the one that ends with the next byte.
LEMMA LineReceived ==
  ASSUME IInv, Pending, pc = "read", heard' = Append(heard, Eol), length > 0,
         NEW end, end = Len(heard) + 1
  PROVE  LineAt(end)' = [k \in 1..length |-> buffer[k - 1]]
<1>1. /\ heard \in Seq(Received) /\ Len(heard) \in Nat /\ Cap \in Nat /\ Eol \in Received
      /\ length \in Places
  BY ConstantsOK DEF IInv, Typed, TypeOK, Received
<1>2. PICK n : n = Ended(heard, Len(heard))
  OBVIOUS
<1>3. /\ n \in 0..Len(heard)
      /\ length = Least(Len(heard) - n, Cap - 1)
      /\ \A k \in 0..(length - 1) : buffer[k] = heard[n + k + 1]
  BY <1>1, <1>2, EndedFacts DEF Pending
<1>4. /\ Ended(heard', Len(heard)) = n
      /\ \A k \in 1..Len(heard) : heard'[k] = heard[k] /\ heard[k] \in Received
  BY <1>1, <1>2, OneMore
<1>5. PICK m : m = Least(Len(heard), n + 1 + Cap - 2)
  OBVIOUS
<1>6. m \in Int /\ m <= Len(heard) /\ m - (n + 1) + 1 = length /\ n + 1 <= m
  BY <1>1, <1>3, <1>5 DEF Least, Places
<1>7. LineAt(end)' = SubSeq(heard', n + 1, m)
  <2>1. end - 1 = Len(heard)
    BY <1>1
  <2> QED
    BY <1>4, <1>5, <2>1 DEF LineAt, Ended
<1>8. \A i \in (n + 1)..m : heard'[i] \in Received
  BY <1>1, <1>3, <1>4, <1>6
<1>9. /\ SubSeq(heard', n + 1, m) \in Seq(Received)
      /\ Len(SubSeq(heard', n + 1, m)) = length
      /\ \A i \in 1..length : SubSeq(heard', n + 1, m)[i] = heard'[n + 1 + i - 1]
  BY <1>3, <1>6, <1>8, SubSeqProperties
<1>10. \A i \in 1..length : heard'[n + 1 + i - 1] = buffer[i - 1]
  <2> SUFFICES ASSUME NEW i \in 1..length PROVE heard'[n + 1 + i - 1] = buffer[i - 1]
    OBVIOUS
  <2>1. i - 1 \in 0..(length - 1) /\ n + (i - 1) + 1 = n + 1 + i - 1 /\ n + 1 + i - 1 \in 1..Len(heard)
    BY <1>1, <1>3, <1>6 DEF Places
  <2> QED
    BY <1>3, <1>4, <2>1
<1>11. PICK s : s = SubSeq(heard', n + 1, m)
  OBVIOUS
<1>12. s \in Seq(Received) /\ Len(s) = length /\ \A i \in 1..length : s[i] = buffer[i - 1]
  BY <1>9, <1>10, <1>11
<1>13. s = [k \in 1..length |-> buffer[k - 1]]
  BY <1>12
<1> QED
  BY <1>7, <1>11, <1>13

LEMMA SentAtFirst == Init => Pending /\ Ranked
<1> SUFFICES ASSUME Init PROVE Pending /\ Ranked
  OBVIOUS
<1>1. Len(heard) = 0 /\ Len(lines) = 0 /\ DOMAIN lines = {} /\ length = 0 /\ pc = "read"
  BY DEF Init
<1>2. Ended(heard, 0) = 0
  <2>1. Ended(heard, 0) \in 0..0
    BY EndedFacts
  <2> QED
    BY <2>1
<1>3. LineEnds = {}
  BY <1>1 DEF LineEnds
<1>4. Pending
  BY <1>1, <1>2, ConstantsOK DEF Pending, Least
<1> QED
  BY <1>1, <1>3, <1>4, FS_EmptySet DEF Ranked

LEMMA AppendByteSent ==
  ASSUME IInv, Pending, Ranked, AppendByte
  PROVE  Pending' /\ Ranked'
<1> DEFINE e == Head(input)
<1>1. /\ pc = "read" /\ pc' = "read" /\ lines' = lines
      /\ e \in Received /\ e # Eol /\ heard' = Append(heard, e)
      /\ heard \in Seq(Received) /\ Len(heard) \in Nat
      /\ length \in Places /\ Cap \in Nat
      /\ buffer \in [Places -> Received \cup {NUL}]
  BY NextByteTyped, ConstantsOK DEF AppendByte, NextByte, IInv, Typed, TypeOK
<1>2. IF length < Cap - 1
      THEN buffer' = [buffer EXCEPT ![length] = e] /\ length' = length + 1
      ELSE UNCHANGED <<buffer, length>>
  BY DEF AppendByte
<1> HIDE DEF e
<1>3. /\ heard' \in Seq(Received) /\ Len(heard') = Len(heard) + 1 /\ heard'[Len(heard) + 1] = e
      /\ \A k \in 1..Len(heard) : heard'[k] = heard[k]
      /\ Ended(heard', Len(heard)) = Ended(heard, Len(heard))
      /\ LineEnds' = LineEnds
      /\ \A j \in LineEnds : Before(j)' = Before(j) /\ LineAt(j)' = LineAt(j)
  BY <1>1, OneMore
<1>4. Ranked'
  <2>1. Len(lines)' = Cardinality(LineEnds)'
    BY <1>1, <1>3 DEF Ranked
  <2>2. \A n \in DOMAIN lines' : \E j \in LineEnds' : Before(j)' + 1 = n
    BY <1>1, <1>3 DEF Ranked
  <2>3. \A j \in LineEnds' : Before(j)' + 1 \in DOMAIN lines' /\ lines'[Before(j)' + 1] = LineAt(j)'
    BY <1>1, <1>3 DEF Ranked
  <2> QED
    BY <2>1, <2>2, <2>3 DEF Ranked
<1>5. PICK n : n = Ended(heard, Len(heard))
  OBVIOUS
<1>6. Ended(heard', Len(heard')) = n
  BY <1>1, <1>3, <1>5, EndedNext
<1>7. /\ n \in 0..Len(heard)
      /\ length = Least(Len(heard) - n, Cap - 1)
      /\ \A k \in 0..(length - 1) : buffer[k] = heard[n + k + 1]
  BY <1>1, <1>5, EndedFacts DEF Pending
<1>8. \A k \in 0..(length - 1) : n + k + 1 \in 1..Len(heard)
  BY <1>1, <1>7 DEF Least, Places
<1>9. CASE length < Cap - 1
  <2>1. length = Len(heard) - n /\ length' = Least(Len(heard') - n, Cap - 1)
    BY <1>1, <1>2, <1>3, <1>7, <1>9 DEF Least, Places
  <2>2. ASSUME NEW k \in 0..(length' - 1) PROVE buffer'[k] = heard'[n + k + 1]
    <3>1. CASE k = length
      <4>1. n + k + 1 = Len(heard) + 1
        BY <1>1, <1>7, <2>1, <3>1 DEF Places
      <4> QED
        BY <1>1, <1>2, <1>3, <1>9, <3>1, <4>1
    <3>2. CASE k # length
      <4>1. k \in 0..(length - 1)
        BY <1>1, <1>2, <1>9, <3>2 DEF Places
      <4>2. buffer'[k] = buffer[k]
        BY <1>1, <1>2, <1>9, <3>2, <4>1 DEF Places
      <4> QED
        BY <1>3, <1>7, <1>8, <4>1, <4>2
    <3> QED
      BY <3>1, <3>2
  <2> QED
    BY <1>1, <1>6, <2>1, <2>2, <1>4 DEF Pending
<1>10. CASE ~(length < Cap - 1)
  <2>1. buffer' = buffer /\ length' = length
    BY <1>2, <1>10
  <2>2. length = Least(Len(heard') - n, Cap - 1)
    BY <1>1, <1>3, <1>7, <1>10 DEF Least, Places
  <2>3. \A k \in 0..(length - 1) : buffer[k] = heard'[n + k + 1]
    BY <1>3, <1>7, <1>8
  <2> QED
    BY <1>1, <1>6, <2>1, <2>2, <2>3, <1>4 DEF Pending
<1> QED
  BY <1>9, <1>10

LEMMA EndLineSent ==
  ASSUME Cap > 1, IInv, Pending, Ranked, EndLine
  PROVE  Pending' /\ Ranked'
<1>1. /\ pc = "read" /\ Eol \in Received /\ heard' = Append(heard, Eol)
      /\ heard \in Seq(Received) /\ Len(heard) \in Nat
      /\ length \in Places /\ length' = length /\ Cap \in Nat
      /\ lines \in Seq(Seq(Received))
  BY NextByteTyped, ConstantsOK DEF EndLine, NextByte, IInv, Typed, TypeOK
<1>2. /\ heard' \in Seq(Received) /\ Len(heard') = Len(heard) + 1 /\ heard'[Len(heard) + 1] = Eol
      /\ LineEnds' = IF Len(heard) > 0 /\ heard[Len(heard)] # Eol
                     THEN LineEnds \cup {Len(heard) + 1} ELSE LineEnds
      /\ \A j \in LineEnds : Before(j)' = Before(j) /\ LineAt(j)' = LineAt(j)
  BY <1>1, OneMore
<1>3. Ended(heard', Len(heard')) = Len(heard')
  BY <1>1, <1>2, EndedNext
<1>4. PICK n : n = Ended(heard, Len(heard))
  OBVIOUS
<1>5. /\ n \in 0..Len(heard)
      /\ n # 0 => heard[n] = Eol
      /\ \A i \in 1..Len(heard) : heard[i] = Eol => i <= n
      /\ length = Least(Len(heard) - n, Cap - 1)
  <2>1. n \in 0..Len(heard) /\ \A i \in 1..Len(heard) : heard[i] = Eol => i <= n
    BY <1>1, <1>4, EndedFacts
  <2>2. n # 0 => heard[n] = Eol
    BY <1>1, <1>4, EndedFacts
  <2> QED
    BY <1>1, <1>4, <2>1, <2>2 DEF Pending
<1>6. length > 0 <=> Len(heard) > 0 /\ heard[Len(heard)] # Eol
  <2>1. length > 0 <=> n < Len(heard)
    BY <1>1, <1>5 DEF Least, Places
  <2>2. ASSUME n < Len(heard) PROVE Len(heard) > 0 /\ heard[Len(heard)] # Eol
    <3>1. Len(heard) \in 1..Len(heard) /\ ~(Len(heard) <= n)
      BY <1>1, <1>5, <2>2
    <3> QED
      BY <1>5, <3>1
  <2>3. ASSUME Len(heard) > 0, heard[Len(heard)] # Eol PROVE n # Len(heard)
    BY <1>1, <1>5, <2>3
  <2> QED
    BY <1>1, <1>5, <2>1, <2>2, <2>3
<1>7. IsFiniteSet(LineEnds) /\ LineEnds \subseteq 2..Len(heard) /\ Cardinality(LineEnds) \in Nat
  BY <1>1, LineEndsFinite
<1>8. CASE length > 0
  <2> DEFINE line == [k \in 1..length |-> buffer[k - 1]]
  <2>0. PICK m : m = Len(heard) + 1
    OBVIOUS
  <2>1. pc' = "line" /\ lines' = Append(lines, line) /\ LineEnds' = LineEnds \cup {m}
    BY <1>2, <1>6, <1>8, <2>0 DEF EndLine
  <2>2. LineAt(m)' = line
    BY <1>1, <1>8, <2>0, LineReceived
  <2>3. m \notin LineEnds /\ Cardinality(LineEnds') = Cardinality(LineEnds) + 1
    <3>1. m \notin LineEnds
      BY <1>1, <1>7, <2>0
    <3> QED
      BY <1>7, <2>1, <3>1, FS_AddElement
  <2>4. Before(m)' = Cardinality(LineEnds)
    <3>1. {i \in LineEnds' : i < m} = LineEnds
      <4>1. (\A i \in LineEnds : i < m) /\ ~(m < m)
        BY <1>1, <1>7, <2>0
      <4> QED
        BY <2>1, <4>1, Zenon
    <3> QED
      BY <3>1 DEF Before
  <2> HIDE DEF line
  <2>5. /\ Len(lines) = Cardinality(LineEnds) /\ Len(lines') = Len(lines) + 1
        /\ lines'[Len(lines) + 1] = line
        /\ DOMAIN lines = 1..Len(lines) /\ DOMAIN lines' = 1..(Len(lines) + 1)
        /\ \A k \in 1..Len(lines) : lines'[k] = lines[k]
    BY <1>1, <2>1 DEF Ranked
  <2>6. \A k \in DOMAIN lines' : \E j \in LineEnds' : Before(j)' + 1 = k
    <3> SUFFICES ASSUME NEW k \in DOMAIN lines' PROVE \E j \in LineEnds' : Before(j)' + 1 = k
      OBVIOUS
    <3>1. CASE k \in DOMAIN lines
      <4>1. PICK j \in LineEnds : Before(j) + 1 = k
        BY <3>1 DEF Ranked
      <4>2. j \in LineEnds' /\ Before(j)' + 1 = k
        BY <1>2, <2>1, <4>1
      <4> QED
        BY <4>2
    <3>2. CASE k \notin DOMAIN lines
      <4>1. k = Cardinality(LineEnds) + 1
        BY <1>7, <2>5, <3>2
      <4>2. m \in LineEnds' /\ Before(m)' + 1 = k
        BY <2>1, <2>4, <4>1
      <4> QED
        BY <4>2
    <3> QED
      BY <3>1, <3>2
  <2>7. \A j \in LineEnds' : Before(j)' + 1 \in DOMAIN lines' /\ lines'[Before(j)' + 1] = LineAt(j)'
    <3> SUFFICES ASSUME NEW j \in LineEnds'
                 PROVE Before(j)' + 1 \in DOMAIN lines' /\ lines'[Before(j)' + 1] = LineAt(j)'
      OBVIOUS
    <3>1. CASE j \in LineEnds
      <4>1. Before(j) + 1 \in DOMAIN lines /\ lines[Before(j) + 1] = LineAt(j)
        BY <3>1 DEF Ranked
      <4>2. Before(j)' = Before(j) /\ LineAt(j)' = LineAt(j)
        BY <1>2, <3>1
      <4>3. \A k \in DOMAIN lines : k \in DOMAIN lines' /\ lines'[k] = lines[k]
        BY <1>7, <2>5
      <4> QED
        BY <4>1, <4>2, <4>3
    <3>2. CASE j = m
      <4>1. Before(j)' = Before(m)'
        BY <3>2
      <4>2. Before(j)' + 1 = Len(lines) + 1
        BY <2>4, <2>5, <4>1
      <4> QED
        BY <1>7, <2>2, <2>5, <3>2, <4>2
    <3> QED
      BY <2>1, <3>1, <3>2
  <2>8. Ranked'
    <3>1. Len(lines)' = Cardinality(LineEnds)'
      BY <2>3, <2>5
    <3> QED
      BY <2>6, <2>7, <3>1 DEF Ranked
  <2> QED
    BY <1>3, <2>1, <2>8 DEF Pending
<1>9. CASE ~(length > 0)
  <2>1. UNCHANGED <<pc, lines>> /\ LineEnds' = LineEnds
    BY <1>2, <1>6, <1>9 DEF EndLine
  <2>2. Ranked'
    <3>1. Len(lines)' = Cardinality(LineEnds)'
      BY <2>1 DEF Ranked
    <3>2. \A k \in DOMAIN lines' : \E j \in LineEnds' : Before(j)' + 1 = k
      BY <1>2, <2>1 DEF Ranked
    <3>3. \A j \in LineEnds' : Before(j)' + 1 \in DOMAIN lines' /\ lines'[Before(j)' + 1] = LineAt(j)'
      BY <1>2, <2>1 DEF Ranked
    <3> QED
      BY <3>1, <3>2, <3>3 DEF Ranked
  <2>3. length = 0
    BY <1>1, <1>9 DEF Places
  <2>4. length' = Least(Len(heard') - Len(heard'), Cap - 1)
    BY <1>1, <1>2, <2>3 DEF Least
  <2>5. pc' = "read" /\ \A k \in 0..(length' - 1) : FALSE
    BY <1>1, <2>1, <2>3
  <2> QED
    BY <1>3, <2>2, <2>4, <2>5 DEF Pending
<1> QED
  BY <1>8, <1>9

\* The other steps hear nothing and add no line.
LEMMA QuietSent ==
  ASSUME IInv, Pending, Ranked, UNCHANGED <<heard, lines>>,
         \/ pc' = "read" /\ UNCHANGED <<pc, length, buffer>>
         \/ pc # "read" /\ pc' # "read"
         \/ pc # "read" /\ pc' = "read" /\ length' = 0
  PROVE  Pending' /\ Ranked'
<1>1. LineEnds' = LineEnds /\ heard' = heard /\ lines' = lines
  BY DEF LineEnds
<1>2. \A j : Before(j)' = Before(j) /\ LineAt(j)' = LineAt(j)
  BY <1>1 DEF Before, LineAt
<1>3. Ranked'
  BY <1>1, <1>2 DEF Ranked
<1>4. CASE pc' = "read" /\ UNCHANGED <<pc, length, buffer>>
  BY <1>1, <1>3, <1>4 DEF Pending
<1>5. CASE pc # "read" /\ pc' # "read"
  BY <1>1, <1>3, <1>5 DEF Pending
<1>6. CASE pc # "read" /\ pc' = "read" /\ length' = 0
  <2>1. Ended(heard', Len(heard')) = Len(heard') /\ Len(heard') \in Nat
    BY <1>1, <1>6 DEF Pending, IInv, Typed, TypeOK
  <2>2. length' = Least(Len(heard') - Len(heard'), Cap - 1)
    BY <1>6, <2>1, ConstantsOK DEF Least
  <2>3. \A k \in 0..(length' - 1) : FALSE
    BY <1>6
  <2> QED
    BY <1>3, <1>6, <2>1, <2>2, <2>3 DEF Pending
<1> QED
  BY <1>4, <1>5, <1>6

\* However recv cuts the bytes into pieces, and whatever the stack held:
\* process_command is called with the lines that were sent, once each and in
\* order, a line that is too long cut to what fits.  A buffer of one byte would
\* have room for the NUL alone and no line would ever be passed on.
THEOREM LinesArrive ==
  ASSUME Cap > 1
  PROVE  Spec => []LinesAsSent
<1>1. Init => Pending /\ Ranked
  BY SentAtFirst
<1>2. IInv /\ Pending /\ Ranked /\ [Next]_vars => Pending' /\ Ranked'
  <2> SUFFICES ASSUME IInv, Pending, Ranked, [Next]_vars PROVE Pending' /\ Ranked'
    OBVIOUS
  <2>1. CASE UNCHANGED vars
    <3>1. UNCHANGED <<heard, lines, pc, length, buffer>>
      BY <2>1 DEF vars
    <3> QED
      BY <3>1, QuietSent
  <2>2. ASSUME NEW bytes \in Chunks, Recv(bytes) PROVE Pending' /\ Ranked'
    BY <2>2, QuietSent DEF Recv
  <2>3. CASE AppendByte
    BY <2>3, AppendByteSent
  <2>4. CASE EndLine
    BY <2>4, EndLineSent
  <2>5. CASE TakeName \/ BeginSplit \/ EndSplit \/ Overrun
    BY <2>5, QuietSent DEF TakeName, BeginSplit, EndSplit, Overrun
  <2>6. CASE Unsplit \/ Called
    BY <2>6, QuietSent DEF Unsplit, Called, Done
  <2>7. CASE Quoted \/ Plain
    BY <2>7, QuietSent DEF Quoted, Plain, Word, Searching
  <2> QED
    BY <2>1, <2>2, <2>3, <2>4, <2>5, <2>6, <2>7 DEF Next
<1>3. IInv /\ Ranked => LinesAsSent
  <2> SUFFICES ASSUME IInv, Ranked PROVE LinesAsSent
    OBVIOUS
  <2>1. /\ lines \in Seq(Seq(Received)) /\ Len(lines) = Cardinality(LineEnds)
        /\ DOMAIN lines = 1..Cardinality(LineEnds)
    BY DEF IInv, Typed, Ranked
  <2>2. ASSUME NEW n \in 1..Cardinality(LineEnds)
        PROVE  lines[n] = LineAt(CHOOSE j \in LineEnds : Cardinality({i \in LineEnds : i < j}) = n - 1)
    <3>1. heard \in Seq(Received) /\ \A j \in LineEnds : Before(j) \in Nat
      BY LineEndsFinite DEF IInv, Typed, TypeOK
    <3>2. \E j \in LineEnds : Cardinality({i \in LineEnds : i < j}) = n - 1
      <4>1. PICK j \in LineEnds : Before(j) + 1 = n
        BY <2>1 DEF Ranked
      <4>2. Before(j) = n - 1
        BY <3>1, <4>1
      <4> QED
        BY <4>2 DEF Before
    <3>3. PICK c : c = CHOOSE j \in LineEnds : Cardinality({i \in LineEnds : i < j}) = n - 1
      OBVIOUS
    <3>4. c \in LineEnds /\ Before(c) = n - 1
      BY <3>2, <3>3 DEF Before
    <3>5. lines[Before(c) + 1] = LineAt(c) /\ Before(c) + 1 = n
      BY <3>4 DEF Ranked
    <3> QED
      BY <3>3, <3>5
  <2> QED
    BY <2>1, <2>2 DEF LinesAsSent
<1> QED
  BY <1>1, <1>2, <1>3, Invariance, PTL DEF Spec

-----------------------------------------------------------------------------
(***************************************************************************)
(* The words that were sent: where a line has them                         *)
(***************************************************************************)
\* The bytes of the line at the places i to j are a word as it is, or one in
\* quotes.  (The line's first byte is at the buffer's place 0.)
IsPlain(line, i, j) == \A k \in i..j : line[k + 1] \in Letters

IsQuoted(line, i, j) ==
  /\ i < j /\ line[i + 1] = Quote /\ line[j + 1] = Quote
  /\ \A k \in (i + 1)..(j - 1) : line[k + 1] \in Letters \cup Blanks

\* A name of m letters, and n words from the places b[j] to e[j], none next to
\* another; all else is blanks, and a space ends the name if words follow.
Laid(line, m, n, b, e) ==
  /\ line \in Seq(Received) /\ m \in 1..Len(line) /\ n \in Nat
  /\ \A k \in 0..(m - 1) : line[k + 1] \in Letters
  /\ \A j \in 1..n : b[j] \in (m + 1)..(Len(line) - 1) /\ e[j] \in b[j]..(Len(line) - 1)
  /\ \A j \in 1..n : IsPlain(line, b[j], e[j]) \/ IsQuoted(line, b[j], e[j])
  /\ \A i, j \in 1..n : i < j => e[i] + 1 < b[j]
  /\ \A k \in m..(Len(line) - 1) : line[k + 1] \in Blanks \/ \E j \in 1..n : k \in b[j]..e[j]
  /\ n # 0 => line[m + 1] = Space

\* Where what is between the quotes begins, and where the NUL behind it goes.
From(line, i) == IF line[i + 1] = Quote THEN i + 1 ELSE i
To(line, i)   == IF line[i + 1] = Quote THEN i ELSE i + 1

\* From i up to j the buffer has the line's bytes, and at j their end.
Held(i, j) ==
  /\ i \in Nat /\ j \in i..length
  /\ \A k \in i..(j - 1) : buffer[k] = Last(lines)[k + 1]
  /\ buffer[j] = NUL

\* How far a line so laid out is cut up: the words found are those of the line,
\* and the others are still there as they were received.
CutUp(m, n, b, e) ==
  /\ pc \in {"named", "split", "call"} => name = 0 /\ Held(0, m)
  /\ pc = "named" /\ n = 0 => args = NUL
  /\ pc \in {"named", "split"} /\ n # 0 =>
       /\ args \in (m + 1)..(e[n] + 1) /\ Held(args, e[n] + 1)
       /\ \A j \in 1..n : IF j <= Len(argv) THEN e[j] < args ELSE args <= b[j]
  /\ pc \in {"split", "call"} =>
       /\ n # 0 /\ Len(argv) <= n
       /\ \A j \in 1..Len(argv) : /\ argv[j] = From(Last(lines), b[j])
                                  /\ Held(argv[j], To(Last(lines), e[j]))
  /\ pc = "call" => Len(argv) = Least(n, MaxArgs)

Placed == \A m, n, b, e : Laid(Last(lines), m, n, b, e) => CutUp(m, n, b, e)

LEMMA MinIs ==
  ASSUME NEW S \in SUBSET Int, IsFiniteSet(S), NEW x \in S, \A y \in S : x <= y
  PROVE  Min(S) = x
<1>1. Min(S) \in S /\ Min(S) <= x /\ x <= Min(S)
  BY MinOf
<1>2. Min(S) \in Int /\ x \in Int
  BY <1>1
<1> QED
  BY <1>1, <1>2

LEMMA MaxIs ==
  ASSUME NEW S \in SUBSET Int, IsFiniteSet(S), NEW x \in S, \A y \in S : y <= x
  PROVE  Max(S) = x
<1>1. Max(S) \in S /\ Max(S) <= x /\ x <= Max(S)
  BY MaxOf
<1>2. Max(S) \in Int /\ x \in Int
  BY <1>1
<1> QED
  BY <1>1, <1>2

\* A search stops at the first byte it looks for.
LEMMA FirstOfIs ==
  ASSUME NEW i \in 0..Cap, NEW S, NEW p \in i..(Cap - 1), buffer[p] \in S,
         \A k \in i..(p - 1) : buffer[k] \notin S
  PROVE  FirstOf(i, S) = p
<1>1. Cap \in Nat
  BY ConstantsOK
<1>2. FirstOf(i, S) \in i..Cap /\ FirstOf(i, S) <= p
  BY FirstOfFacts
<1>3. FirstOf(i, S) < Cap
  BY <1>1, <1>2
<1>4. buffer[FirstOf(i, S)] \in S
  BY <1>3, FirstOfFacts
<1>5. ~(FirstOf(i, S) \in i..(p - 1))
  BY <1>4
<1> QED
  BY <1>1, <1>2, <1>5

\* The kinds of bytes are distinct.
LEMMA Kinds ==
  /\ Space \in Blanks /\ Blanks \subseteq Received /\ Letters \subseteq Received
  /\ Quote \in Received /\ Quote \notin Letters /\ Quote \notin Blanks
  /\ Letters \cap Blanks = {} /\ NUL \notin Received
BY ConstantsOK DEF Blanks, Received

\* Where a word is, and what it is made of.
LEMMA WordLaid ==
  ASSUME NEW line, NEW m, NEW n, NEW b, NEW e, Laid(line, m, n, b, e), NEW j \in 1..n
  PROVE  /\ Len(line) \in Nat /\ m \in Nat /\ b[j] \in Int /\ e[j] \in Int
         /\ m < b[j] /\ b[j] <= e[j] /\ e[j] < Len(line)
         /\ line[b[j] + 1] \in Received \ Blanks /\ line[e[j] + 1] \in Received \ Blanks
         /\ line[b[j] + 1] = Quote =>
              /\ From(line, b[j]) = b[j] + 1 /\ To(line, e[j]) = e[j] /\ b[j] < e[j]
              /\ line[e[j] + 1] = Quote
              /\ \A k \in (b[j] + 1)..(e[j] - 1) : line[k + 1] # Quote
         /\ line[b[j] + 1] # Quote =>
              /\ From(line, b[j]) = b[j] /\ To(line, e[j]) = e[j] + 1
              /\ \A k \in b[j]..e[j] : line[k + 1] \notin Blanks
<1>1. /\ Len(line) \in Nat /\ m \in Nat /\ b[j] \in Int /\ e[j] \in Int
      /\ m < b[j] /\ b[j] <= e[j] /\ e[j] < Len(line)
  BY DEF Laid
<1>2. CASE IsPlain(line, b[j], e[j])
  <2>1. \A k \in b[j]..e[j] : line[k + 1] \in Letters
    BY <1>2 DEF IsPlain
  <2>2. b[j] \in b[j]..e[j] /\ e[j] \in b[j]..e[j]
    BY <1>1
  <2> QED
    BY <1>1, <2>1, <2>2, Kinds DEF From, To
<1>3. CASE IsQuoted(line, b[j], e[j])
  <2>1. /\ b[j] < e[j] /\ line[b[j] + 1] = Quote /\ line[e[j] + 1] = Quote
        /\ \A k \in (b[j] + 1)..(e[j] - 1) : line[k + 1] \in Letters \cup Blanks
    BY <1>3 DEF IsQuoted
  <2> QED
    BY <1>1, <2>1, Kinds DEF From, To
<1> QED
  BY <1>2, <1>3 DEF Laid

\* Before a word and behind those before it are blanks.
LEMMA BlanksBefore ==
  ASSUME NEW line, NEW m, NEW n, NEW b, NEW e, Laid(line, m, n, b, e), NEW i \in 1..n,
         NEW k \in m..(b[i] - 1), \A j \in 1..n : j < i => e[j] < k
  PROVE  line[k + 1] \in Blanks
<1>1. k \in m..(Len(line) - 1)
  BY WordLaid
<1>2. ASSUME NEW j \in 1..n, k \in b[j]..e[j] PROVE FALSE
  <2>1. /\ b[i] \in Int /\ e[i] \in Int /\ b[i] <= e[i] /\ m \in Nat
        /\ b[j] \in Int /\ e[j] \in Int /\ n \in Nat
    BY WordLaid DEF Laid
  <2>2. i < j => e[i] + 1 < b[j]
    BY DEF Laid
  <2>3. k \in Int /\ k < b[i] /\ k >= b[j] /\ k <= e[j]
    BY <1>2, <2>1
  <2>4. ~(j < i)
    BY <2>1, <2>3
  <2>5. ~(i < j)
    BY <2>1, <2>2, <2>3
  <2>6. i = j
    BY <2>1, <2>4, <2>5
  <2> QED
    BY <2>1, <2>3, <2>6
<1> QED
  BY <1>1, <1>2 DEF Laid

\* Behind the last word there is nothing but blanks.
LEMMA BlanksBehind ==
  ASSUME NEW line, NEW m, NEW n, NEW b, NEW e, Laid(line, m, n, b, e),
         NEW k \in m..(Len(line) - 1), n # 0 => e[n] < k
  PROVE  line[k + 1] \in Blanks
<1> SUFFICES ASSUME NEW j \in 1..n, k \in b[j]..e[j] PROVE FALSE
  BY DEF Laid
<1>1. n \in Nat /\ n \in 1..n /\ n # 0
  BY DEF Laid
<1>2. b[n] \in Int /\ e[n] \in Int /\ b[n] <= e[n] /\ e[j] \in Int /\ b[j] \in Int
  BY <1>1, WordLaid
<1>3. j < n => e[j] + 1 < b[n]
  BY <1>1 DEF Laid
<1>4. k \in Int /\ k <= e[j] /\ e[n] < k
  BY <1>1, <1>2
<1> QED
  BY <1>1, <1>2, <1>3, <1>4

\* The line and the buffer when process_command begins.
LEMMA LineReady ==
  ASSUME IInv, pc = "line"
  PROVE  /\ length \in Places /\ length > 0 /\ Cap \in Nat /\ args = NUL /\ argv = <<>>
         /\ buffer \in [Places -> Received \cup {NUL}]
         /\ Len(Last(lines)) = length
         /\ \A k \in 0..(length - 1) : buffer[k] = Last(lines)[k + 1]
         /\ buffer[length] = NUL
BY ConstantsOK DEF IInv, Typed, TypeOK, LineKnown, Inside, NoWords, Places

\* The last byte that is kept is the last of the name or of the last word.
LEMMA LastKept ==
  ASSUME IInv, pc = "line", NEW m, NEW n, NEW b, NEW e, Laid(Last(lines), m, n, b, e),
         NEW last, last = IF n = 0 THEN m - 1 ELSE e[n]
  PROVE  /\ last \in (m - 1)..(length - 1) /\ m \in 1..length
         /\ Where(0, length, Received \ Blanks) # {}
         /\ Max(Where(0, length, Received \ Blanks)) = last
<1>1. /\ length \in Nat /\ Len(Last(lines)) = length
      /\ \A k \in 0..(length - 1) : buffer[k] = Last(lines)[k + 1]
  BY LineReady DEF Places
<1>2. /\ m \in 1..length /\ n \in Nat /\ (n # 0 => n \in 1..n)
      /\ \A k \in 0..(m - 1) : Last(lines)[k + 1] \in Letters
  BY <1>1 DEF Laid
<1>3. last \in (m - 1)..(length - 1) /\ Last(lines)[last + 1] \in Received \ Blanks
  <2>1. CASE n = 0
    <3>1. last = m - 1 /\ last \in 0..(m - 1) /\ last \in (m - 1)..(length - 1)
      BY <1>1, <1>2, <2>1
    <3> QED
      BY <1>2, <3>1, Kinds
  <2>2. CASE n # 0
    <3>1. last = e[n] /\ n \in 1..n
      BY <1>2, <2>2
    <3>2. /\ m \in Nat /\ b[n] \in Int /\ e[n] \in Int
          /\ m < b[n] /\ b[n] <= e[n] /\ e[n] < Len(Last(lines))
          /\ Last(lines)[e[n] + 1] \in Received \ Blanks
      BY <3>1, WordLaid
    <3> QED
      BY <1>1, <3>1, <3>2
  <2> QED
    BY <2>1, <2>2
<1>4. last \in Where(0, length, Received \ Blanks)
  BY <1>1, <1>2, <1>3 DEF Where
<1>5. ASSUME NEW k \in Where(0, length, Received \ Blanks), k > last PROVE FALSE
  <2>1. /\ k \in m..(length - 1) /\ k \in 0..(length - 1)
        /\ buffer[k] \notin Blanks /\ (n # 0 => e[n] < k)
    BY <1>1, <1>2, <1>3, <1>5 DEF Where
  <2>2. Last(lines)[k + 1] \in Blanks
    BY <1>1, <2>1, BlanksBehind
  <2> QED
    BY <1>1, <2>1, <2>2
<1>6. \A k \in Where(0, length, Received \ Blanks) : k <= last
  BY <1>1, <1>2, <1>3, <1>5 DEF Where
<1>7. Max(Where(0, length, Received \ Blanks)) = last
  <2>1. PICK S : S = Where(0, length, Received \ Blanks)
    OBVIOUS
  <2>2. S \in SUBSET Int /\ IsFiniteSet(S)
    BY <1>1, <2>1, WhereFinite
  <2> QED
    BY <1>4, <1>6, <2>1, <2>2, MaxIs
<1> QED
  BY <1>2, <1>3, <1>4, <1>7

LEMMA TakeNamePlaces == IInv /\ TakeName => Placed'
<1> SUFFICES ASSUME IInv, TakeName, NEW m, NEW n, NEW b, NEW e, Laid(Last(lines), m, n, b, e)
             PROVE  CutUp(m, n, b, e)'
  BY DEF Placed, TakeName
<1>1. /\ pc = "line" /\ pc' = "named" /\ length' = length /\ argv' = argv /\ lines' = lines
  BY DEF TakeName
<1>2. /\ length \in Places /\ Cap \in Nat /\ argv = <<>>
      /\ buffer \in [Places -> Received \cup {NUL}]
      /\ Len(Last(lines)) = length
      /\ \A k \in 0..(length - 1) : buffer[k] = Last(lines)[k + 1]
      /\ buffer[length] = NUL
  BY <1>1, LineReady
<1>3. PICK last : last = IF n = 0 THEN m - 1 ELSE e[n]
  OBVIOUS
<1>4. /\ last \in (m - 1)..(length - 1) /\ m \in 1..length /\ n \in Nat
      /\ Named(last)
  <2>1. /\ last \in (m - 1)..(length - 1) /\ m \in 1..length
        /\ Where(0, length, Received \ Blanks) # {}
        /\ Max(Where(0, length, Received \ Blanks)) = last
    <3>1. /\ last \in (m - 1)..(length - 1) /\ m \in 1..length
          /\ Where(0, length, Received \ Blanks) # {}
      BY <1>1, <1>3, LastKept
    <3>2. Max(Where(0, length, Received \ Blanks)) = last
      BY <1>1, <1>3, LastKept
    <3> QED
      BY <3>1, <3>2
  <2> QED
    BY <2>1 DEF TakeName, Laid
<1>5. /\ \A k \in 0..(m - 1) : k \in 0..(length - 1) /\ buffer[k] \in Letters
      /\ last \in Int /\ length \in Nat /\ m \in Nat
  BY <1>2, <1>4 DEF Laid, Places
<1> DEFINE starts == Where(0, last + 1, Received \ {Space})
           ends   == Where(0, last + 1, {Space})
<1>6. Min(starts) = 0
  <2>1. 0 \in 0..(m - 1) /\ 0 \in 0..(last + 1 - 1)
    BY <1>4, <1>5
  <2>2. 0 \in starts
    BY <1>5, <2>1, Kinds DEF Where
  <2>3. \A k \in starts : 0 <= k
    BY DEF Where
  <2>4. starts \in SUBSET Int /\ IsFiniteSet(starts)
    BY <1>5, WhereFinite
  <2> HIDE DEF starts
  <2> QED
    BY <2>2, <2>3, <2>4, MinIs
<1>7. IF n = 0 THEN ends = {} ELSE ends # {} /\ Min(ends) = m /\ m < last
  <2>1. \A k \in ends : k >= m
    BY <1>4, <1>5, Kinds DEF Where
  <2>2. CASE n = 0
    <3>1. ~(\E k \in ends : TRUE)
      BY <1>3, <1>5, <2>1, <2>2 DEF Where
    <3> QED
      BY <2>2, <3>1
  <2>3. CASE n # 0
    <3>1. n \in 1..n /\ m < last
      BY <1>3, <1>4, <2>3, WordLaid
    <3>2. Last(lines)[m + 1] = Space /\ m \in 0..(length - 1)
      BY <1>4, <1>5, <2>3, <3>1 DEF Laid
    <3>3. m \in ends
      BY <1>2, <1>5, <3>1, <3>2 DEF Where
    <3>4. ends \in SUBSET Int /\ IsFiniteSet(ends)
      BY <1>5, WhereFinite
    <3> HIDE DEF ends
    <3>5. Min(ends) = m
      BY <2>1, <3>3, <3>4, MinIs
    <3> QED
      BY <2>3, <3>1, <3>3, <3>5
  <2> QED
    BY <2>2, <2>3
<1>8. /\ name' = 0
      /\ args' = IF n = 0 THEN NUL ELSE m + 1
      /\ buffer' = [k \in Places |-> IF k \in (last + 1)..(length - 1) \/ (n # 0 /\ k = m)
                                     THEN NUL ELSE buffer[k]]
  <2> HIDE DEF starts, ends
  <2>1. /\ name' = Min(starts)
        /\ args' = IF Where(name', last + 1, {Space}) = {} THEN NUL
                   ELSE Min(Where(name', last + 1, {Space})) + 1
        /\ buffer' = [k \in Places |->
             IF \/ k \in (last + 1)..(length - 1)
                \/ (Where(name', last + 1, {Space}) # {} /\ k = Min(Where(name', last + 1, {Space})))
             THEN NUL ELSE buffer[k]]
    BY <1>4 DEF Named, starts
  <2>2. name' = 0 /\ Where(name', last + 1, {Space}) = ends
    BY <1>6, <2>1 DEF ends
  <2> QED
    BY <1>7, <2>1, <2>2
<1> HIDE DEF starts, ends
<1>9. \A k \in 0..last : k \in Places /\ (k # m => buffer'[k] = Last(lines)[k + 1])
  BY <1>2, <1>4, <1>5, <1>8 DEF Places
<1>10. buffer'[length] = NUL /\ buffer'[last + 1] = NUL /\ (n # 0 => buffer'[m] = NUL)
  BY <1>2, <1>4, <1>5, <1>8 DEF Places
<1>11. Held(0, m)'
  <2>1. \A k \in 0..(m - 1) : buffer'[k] = Last(lines)[k + 1]
    BY <1>4, <1>5, <1>9
  <2>2. buffer'[m] = NUL
    BY <1>3, <1>5, <1>10
  <2> QED
    BY <1>1, <1>4, <1>5, <2>1, <2>2 DEF Held
<1>12. n # 0 => /\ args' \in (m + 1)..(e[n] + 1) /\ Held(args, e[n] + 1)'
                /\ \A j \in 1..n : IF j <= Len(argv') THEN e[j] < args' ELSE args' <= b[j]
  <2> SUFFICES ASSUME n # 0
               PROVE  /\ args' \in (m + 1)..(e[n] + 1) /\ Held(args, e[n] + 1)'
                      /\ \A j \in 1..n : IF j <= Len(argv') THEN e[j] < args' ELSE args' <= b[j]
    OBVIOUS
  <2>1. e[n] = last /\ args' = m + 1 /\ m < last
    BY <1>3, <1>7, <1>8
  <2>2. \A k \in (m + 1)..last : buffer'[k] = Last(lines)[k + 1]
    BY <1>5, <1>9
  <2>3. Held(args, e[n] + 1)'
    BY <1>1, <1>4, <1>5, <1>10, <2>1, <2>2 DEF Held
  <2>4. Len(argv') = 0
    BY <1>1, <1>2
  <2>5. \A j \in 1..n : m + 1 <= b[j] /\ ~(j <= Len(argv'))
    BY <1>5, <2>4, WordLaid
  <2> QED
    BY <1>4, <1>5, <2>1, <2>3, <2>5
<1> QED
  BY <1>1, <1>8, <1>11, <1>12 DEF CutUp

LEMMA BeginSplitPlaces == IInv /\ Placed /\ BeginSplit => Placed'
<1> SUFFICES ASSUME IInv, Placed, BeginSplit,
                    NEW m, NEW n, NEW b, NEW e, Laid(Last(lines), m, n, b, e)
             PROVE  CutUp(m, n, b, e)'
  BY DEF Placed, BeginSplit
<1>1. /\ pc = "named" /\ args # NUL /\ pc' = "split"
      /\ UNCHANGED <<buffer, length, name, args, argv, lines>>
  BY DEF BeginSplit
<1>2. CutUp(m, n, b, e) /\ argv = <<>> /\ n \in Nat
  BY <1>1 DEF Placed, Laid, IInv, NoWords
<1>3. /\ n # 0 /\ name = 0 /\ Held(0, m) /\ Len(argv) = 0
      /\ args \in (m + 1)..(e[n] + 1) /\ Held(args, e[n] + 1)
      /\ \A j \in 1..n : IF j <= Len(argv) THEN e[j] < args ELSE args <= b[j]
  BY <1>1, <1>2 DEF CutUp
<1>4. Held(0, m)' /\ Held(args, e[n] + 1)'
  BY <1>1, <1>3 DEF Held
<1>5. name' = 0 /\ args' = args /\ argv' = argv
  BY <1>1, <1>3
<1>6. Len(argv') <= n /\ \A j \in 1..Len(argv') : FALSE
  BY <1>2, <1>3, <1>5
<1> QED
  BY <1>1, <1>3, <1>4, <1>5, <1>6 DEF CutUp

\* What is held up to the place behind another.
LEMMA HeldUpTo ==
  ASSUME NEW i, NEW last \in Int, Held(i, last + 1)
  PROVE  /\ i \in Nat /\ i <= last + 1 /\ last + 1 <= length
         /\ \A k \in Int : i <= k /\ k <= last => buffer[k] = Last(lines)[k + 1]
         /\ buffer[last + 1] = NUL
BY DEF Held

\* While a line is split, with words left and with none.
LEMMA SplittingLaid ==
  ASSUME IInv, pc = "split", NEW m, NEW n, NEW b, NEW e, Laid(Last(lines), m, n, b, e),
         CutUp(m, n, b, e)
  PROVE  /\ length \in Places /\ Cap \in Nat /\ m \in Nat
         /\ n \in Nat /\ n # 0 /\ n \in 1..n
         /\ buffer \in [Places -> Received \cup {NUL}] /\ argv \in Seq(0..Cap)
         /\ Len(Last(lines)) = length /\ Len(argv) \in 0..n /\ name = 0
         /\ Held(0, m)
         /\ args \in Nat /\ m < args /\ e[n] \in Int /\ args <= e[n] + 1 /\ e[n] < length
         /\ \A k \in Int : args <= k /\ k <= e[n] => buffer[k] = Last(lines)[k + 1]
         /\ buffer[e[n] + 1] = NUL
         /\ \A j \in 1..n : IF j <= Len(argv) THEN e[j] < args ELSE args <= b[j]
         /\ \A j \in 1..Len(argv) : /\ argv[j] = From(Last(lines), b[j])
                                    /\ Held(argv[j], To(Last(lines), e[j]))
<1>1. /\ n # 0 /\ Len(argv) <= n /\ name = 0 /\ Held(0, m)
      /\ args \in (m + 1)..(e[n] + 1) /\ Held(args, e[n] + 1)
      /\ \A j \in 1..n : IF j <= Len(argv) THEN e[j] < args ELSE args <= b[j]
      /\ \A j \in 1..Len(argv) : /\ argv[j] = From(Last(lines), b[j])
                                 /\ Held(argv[j], To(Last(lines), e[j]))
  BY DEF CutUp
<1>2. n \in Nat /\ m \in 1..Len(Last(lines))
  BY DEF Laid
<1>3. /\ length \in Places /\ Cap \in Nat /\ argv \in Seq(0..Cap)
      /\ buffer \in [Places -> Received \cup {NUL}] /\ Len(Last(lines)) = length
  BY Splitting
<1>4. n \in 1..n /\ m \in Nat
  BY <1>1, <1>2
<1>5. e[n] \in Int /\ e[n] < length
  BY <1>3, <1>4, WordLaid
<1>6. /\ args \in Nat /\ args <= e[n] + 1
      /\ \A k \in Int : args <= k /\ k <= e[n] => buffer[k] = Last(lines)[k + 1]
      /\ buffer[e[n] + 1] = NUL
  BY <1>1, <1>5, HeldUpTo
<1>7. m < args
  BY <1>1, <1>4, <1>5
<1>8. Len(argv) \in 0..n
  BY <1>1, <1>2, <1>3
<1> QED
  BY <1>1, <1>2, <1>3, <1>4, <1>5, <1>6, <1>7, <1>8

\* The next word begins where the line has it.
LEMMA NextStart ==
  ASSUME IInv, pc = "split", NEW m, NEW n, NEW b, NEW e, Laid(Last(lines), m, n, b, e),
         CutUp(m, n, b, e), NEW i \in 1..n, i = Len(argv) + 1
  PROVE  /\ Start = b[i] /\ Start < Cap /\ buffer[Start] = Last(lines)[b[i] + 1]
         /\ buffer[Start] # NUL
<1>1. /\ length \in Places /\ Cap \in Nat /\ m \in Nat /\ n \in 1..n
      /\ Len(Last(lines)) = length /\ Len(argv) \in Nat
      /\ args \in Nat /\ m < args /\ e[n] \in Int /\ args <= e[n] + 1 /\ e[n] < length
      /\ \A k \in Int : args <= k /\ k <= e[n] => buffer[k] = Last(lines)[k + 1]
      /\ buffer[e[n] + 1] = NUL
      /\ \A j \in 1..n : IF j <= Len(argv) THEN e[j] < args ELSE args <= b[j]
  BY SplittingLaid
<1>2. /\ b[i] \in Int /\ e[i] \in Int /\ b[i] <= e[i] /\ e[i] < length
      /\ Last(lines)[b[i] + 1] \in Received \ Blanks
      /\ b[n] \in Int /\ e[n] \in Int /\ b[n] <= e[n] /\ e[n] < length
  <2>1. /\ b[i] \in Int /\ e[i] \in Int /\ b[i] <= e[i] /\ e[i] < Len(Last(lines))
        /\ Last(lines)[b[i] + 1] \in Received \ Blanks
    BY WordLaid
  <2>2. b[n] \in Int /\ e[n] \in Int /\ b[n] <= e[n] /\ e[n] < Len(Last(lines))
    BY <1>1, WordLaid
  <2> QED
    BY <1>1, <2>1, <2>2
<1>3. e[i] <= e[n] /\ args <= b[i]
  <2>1. i < n => e[i] + 1 < b[n]
    BY <1>1 DEF Laid
  <2>2. i = n \/ i < n
    BY <1>1
  <2>3. ~(i <= Len(argv))
    BY <1>1
  <2>4. e[i] <= e[n]
    BY <1>2, <2>1, <2>2
  <2>5. args <= b[i]
    BY <1>1, <2>3
  <2> QED
    BY <2>4, <2>5
<1>4. /\ args \in 0..Cap /\ args \in Nat /\ b[i] \in args..(Cap - 1)
      /\ \A k \in args..b[i] : buffer[k] = Last(lines)[k + 1]
  <2>0. length \in 0..(Cap - 1) /\ Cap \in Nat
    BY <1>1 DEF Places
  <2>1. b[i] <= e[n] /\ e[n] < Cap
    BY <1>2, <1>3, <2>0
  <2>2. \A k \in args..b[i] : k \in Int /\ args <= k /\ k <= e[n]
    BY <1>1, <1>2, <2>1
  <2>3. \A k \in args..b[i] : buffer[k] = Last(lines)[k + 1]
    BY <1>1, <2>2
  <2>4. args \in Nat /\ b[i] \in Int /\ args <= b[i] /\ b[i] < Cap
    BY <1>1, <1>2, <1>3, <2>0, <2>1
  <2> QED
    BY <2>0, <2>3, <2>4
<1>5. buffer[b[i]] \in NotBlank /\ buffer[b[i]] = Last(lines)[b[i] + 1] /\ buffer[b[i]] # NUL
  <2>1. b[i] \in args..b[i]
    BY <1>2, <1>4
  <2> QED
    BY <1>2, <1>4, <2>1, Kinds DEF NotBlank
<1>6. ASSUME NEW k \in args..(b[i] - 1) PROVE buffer[k] \notin NotBlank
  <2>1. k \in m..(b[i] - 1) /\ k \in args..b[i] /\ k \in Int /\ args <= k
    BY <1>1, <1>2, <1>4
  <2>2. ASSUME NEW j \in 1..n, j < i PROVE e[j] < k
    <3>1. j <= Len(argv) /\ e[j] \in Int
      BY <1>1, <2>2, WordLaid
    <3>2. e[j] < args
      BY <1>1, <3>1
    <3> QED
      BY <1>4, <2>1, <3>1, <3>2
  <2>3. Last(lines)[k + 1] \in Blanks
    BY <2>1, <2>2, BlanksBefore
  <2> QED
    BY <1>4, <2>1, <2>3 DEF NotBlank
<1>7. FirstOf(args, NotBlank) = b[i]
  BY <1>4, <1>5, <1>6, FirstOfIs
<1> QED
  BY <1>1, <1>4, <1>5, <1>7 DEF Start

\* And it ends where the line has it.
LEMMA NextEnd ==
  ASSUME IInv, pc = "split", NEW m, NEW n, NEW b, NEW e, Laid(Last(lines), m, n, b, e),
         CutUp(m, n, b, e), NEW i \in 1..n, i = Len(argv) + 1
  PROVE  /\ WordEnd = To(Last(lines), e[i]) /\ WordEnd < Cap
         /\ buffer[Start] # Quote => IF i = n THEN buffer[WordEnd] = NUL
                                     ELSE buffer[WordEnd] \in Blanks
<1>1. /\ length \in Places /\ Cap \in Nat /\ m \in Nat /\ n \in 1..n
      /\ Len(Last(lines)) = length /\ Len(argv) \in Nat
      /\ args \in Nat /\ m < args /\ e[n] \in Int /\ args <= e[n] + 1 /\ e[n] < length
      /\ \A k \in Int : args <= k /\ k <= e[n] => buffer[k] = Last(lines)[k + 1]
      /\ buffer[e[n] + 1] = NUL
      /\ \A j \in 1..n : IF j <= Len(argv) THEN e[j] < args ELSE args <= b[j]
  BY SplittingLaid
<1>2. /\ b[i] \in Int /\ e[i] \in Int /\ m < b[i] /\ b[i] <= e[i] /\ e[i] < length
      /\ b[n] \in Int /\ e[n] \in Int /\ b[n] <= e[n] /\ e[n] < length
  BY <1>1, WordLaid
<1>3. /\ i < n => i + 1 \in 1..n /\ e[i] + 1 < b[n] /\ e[i] + 1 < b[i + 1]
      /\ i = n \/ i < n
      /\ e[i] <= e[n] /\ args <= b[i]
  <2>1. i < n => i + 1 \in 1..n /\ e[i] + 1 < b[n] /\ e[i] + 1 < b[i + 1]
    <3> SUFFICES ASSUME i < n PROVE i + 1 \in 1..n /\ e[i] + 1 < b[n] /\ e[i] + 1 < b[i + 1]
      OBVIOUS
    <3>1. i + 1 \in 1..n /\ i < i + 1
      BY <1>1
    <3> QED
      BY <1>1, <3>1 DEF Laid
  <2>2. i = n \/ i < n
    BY <1>1
  <2>3. ~(i <= Len(argv))
    BY <1>1
  <2>4. e[i] <= e[n]
    BY <1>2, <2>1, <2>2
  <2> QED
    BY <1>1, <2>1, <2>2, <2>3, <2>4
<1>4. /\ args \in Nat
      /\ \A k \in args..e[n] : buffer[k] = Last(lines)[k + 1] /\ buffer[k] \in Received
      /\ buffer[e[n] + 1] = NUL
  <2>2. \A k \in args..e[n] : Last(lines)[k + 1] \in Received
    <3>1. \A k \in args..e[n] : k + 1 \in 1..Len(Last(lines))
      BY <1>1, <1>2 DEF Places
    <3> QED
      BY <3>1 DEF Laid
  <2> QED
    BY <1>1, <2>2
<1>5. Start = b[i] /\ buffer[Start] = Last(lines)[b[i] + 1]
  BY NextStart
<1>6. CASE Last(lines)[b[i] + 1] = Quote
  <2>1. /\ To(Last(lines), e[i]) = e[i] /\ b[i] < e[i] /\ Last(lines)[e[i] + 1] = Quote
        /\ \A k \in (b[i] + 1)..(e[i] - 1) : Last(lines)[k + 1] # Quote
    BY <1>6, WordLaid
  <2>2. /\ b[i] + 1 \in 0..Cap /\ e[i] \in (b[i] + 1)..(Cap - 1) /\ e[i] \in args..e[n]
        /\ \A k \in (b[i] + 1)..(e[i] - 1) : k \in args..e[n]
    <3>1. args <= b[i] /\ e[i] <= e[n] /\ e[i] < Cap /\ 0 <= b[i]
      BY <1>1, <1>2, <1>3, <1>4 DEF Places
    <3>2. args \in Nat /\ b[i] \in Int /\ e[i] \in Int /\ e[n] \in Int /\ Cap \in Nat /\ b[i] < e[i]
      BY <1>1, <1>2, <2>1
    <3>3. b[i] + 1 \in 0..Cap /\ e[i] \in (b[i] + 1)..(Cap - 1) /\ e[i] \in args..e[n]
      BY <3>1, <3>2
    <3>4. \A k \in (b[i] + 1)..(e[i] - 1) : k \in args..e[n]
      BY <3>1, <3>2
    <3> QED
      BY <3>3, <3>4
  <2>3. buffer[e[i]] \in {Quote, NUL}
    BY <1>4, <2>1, <2>2
  <2>4. \A k \in (b[i] + 1)..(e[i] - 1) : buffer[k] \notin {Quote, NUL}
    BY <1>4, <2>1, <2>2, Kinds
  <2>5. FirstOf(b[i] + 1, {Quote, NUL}) = e[i]
    BY <2>2, <2>3, <2>4, FirstOfIs
  <2>6. WordEnd = e[i] /\ e[i] < Cap
    BY <1>1, <1>2, <1>5, <1>6, <2>5 DEF WordEnd, Places
  <2> QED
    BY <1>5, <1>6, <2>1, <2>6
<1>7. CASE Last(lines)[b[i] + 1] # Quote
  <2>1. /\ To(Last(lines), e[i]) = e[i] + 1
        /\ \A k \in b[i]..e[i] : Last(lines)[k + 1] \notin Blanks
    BY <1>7, WordLaid
  <2>2. IF i = n THEN buffer[e[i] + 1] = NUL ELSE buffer[e[i] + 1] \in Blanks
    <3>1. CASE i = n
      BY <1>4, <3>1
    <3>2. CASE i # n
      <4>1. /\ i + 1 \in 1..n /\ e[i] + 1 \in m..(b[i + 1] - 1) /\ e[i] + 1 \in args..e[n]
            /\ b[i + 1] \in Int
        <5>1. i + 1 \in 1..n /\ e[i] + 1 < b[i + 1] /\ e[i] + 1 < b[n]
          BY <1>3, <3>2
        <5>2. b[i + 1] \in Int
          BY <5>1, WordLaid
        <5>3. i # n => i < n
          BY <1>3
        <5>4. args <= e[i] + 1 /\ e[i] + 1 <= e[n] /\ m <= e[i] + 1
          <6>1. /\ args \in Nat /\ m \in Nat /\ b[i] \in Int /\ e[i] \in Int /\ e[n] \in Int
                /\ b[n] \in Int /\ m < b[i] /\ b[i] <= e[i] /\ args <= b[i] /\ b[n] <= e[n]
            BY <1>1, <1>2, <1>3
          <6> QED
            BY <5>1, <6>1
        <5> QED
          <6>1. /\ i + 1 \in 1..n /\ e[i] + 1 < b[i + 1] /\ b[i + 1] \in Int
            BY <5>1, <5>2
          <6>2. e[i] \in Int /\ m \in Nat /\ args \in Nat /\ e[n] \in Int
            BY <1>1, <1>2
          <6> QED
            BY <5>4, <6>1, <6>2
      <4>2. ASSUME NEW j \in 1..n, j < i + 1 PROVE e[j] < e[i] + 1
        <5>1. e[j] \in Int /\ (j = i \/ j < i)
          BY <4>2, WordLaid
        <5>2. j < i => e[j] + 1 < b[i]
          BY DEF Laid
        <5> QED
          BY <1>2, <5>1, <5>2
      <4>3. Last(lines)[e[i] + 1 + 1] \in Blanks
        BY <4>1, <4>2, BlanksBefore
      <4> QED
        BY <1>4, <3>2, <4>1, <4>3
    <3> QED
      BY <3>1, <3>2
  <2>3. /\ b[i] \in 0..Cap /\ e[i] + 1 \in b[i]..(Cap - 1)
        /\ \A k \in b[i]..e[i] : k \in args..e[n]
    <3>1. args <= b[i] /\ e[i] <= e[n] /\ e[i] + 1 < Cap /\ 0 <= b[i]
      BY <1>1, <1>2, <1>3, <1>4 DEF Places
    <3>2. args \in Nat /\ b[i] \in Int /\ e[i] \in Int /\ e[n] \in Int /\ Cap \in Nat /\ b[i] <= e[i]
      BY <1>1, <1>2
    <3>3. b[i] \in 0..Cap /\ e[i] + 1 \in b[i]..(Cap - 1)
      BY <3>1, <3>2
    <3>4. \A k \in b[i]..e[i] : k \in args..e[n]
      BY <3>1, <3>2
    <3> QED
      BY <3>3, <3>4
  <2>4. \A k \in b[i]..e[i] : buffer[k] \notin Blanks \cup {NUL}
    BY <1>4, <2>1, <2>3, Kinds
  <2>5. buffer[e[i] + 1] \in Blanks \cup {NUL}
    BY <2>2
  <2>6. FirstOf(b[i], Blanks \cup {NUL}) = e[i] + 1
    <3>1. PICK place : place = e[i] + 1
      OBVIOUS
    <3>2. b[i] \in 0..Cap /\ place \in b[i]..(Cap - 1)
      BY <2>3, <3>1
    <3>3. buffer[place] \in Blanks \cup {NUL}
      BY <2>5, <3>1
    <3>4. \A k \in b[i]..(place - 1) : buffer[k] \notin Blanks \cup {NUL}
      <4>1. place - 1 = e[i]
        BY <1>2, <3>1
      <4> QED
        BY <2>4, <4>1
    <3>5. FirstOf(b[i], Blanks \cup {NUL}) = place
      BY <3>2, <3>3, <3>4, FirstOfIs
    <3> QED
      BY <3>1, <3>5
  <2>7. WordEnd = e[i] + 1 /\ e[i] + 1 < Cap
    BY <1>1, <1>2, <1>5, <1>7, <2>6 DEF WordEnd, Places
  <2> QED
    BY <2>1, <2>2, <2>7
<1> QED
  BY <1>6, <1>7

\* A step that writes at one other place leaves what is held.
LEMMA HeldStays ==
  ASSUME NEW i, NEW j, Held(i, j), NEW t \in Int, t \notin i..j,
         lines' = lines, length' = length, i \in Nat, j \in Int,
         \A k \in Int : k # t => buffer'[k] = buffer[k]
  PROVE  Held(i, j)'
BY DEF Held

\* The next word is taken out of the line, and the search goes on behind it.
LEMMA WordCut ==
  ASSUME IInv, pc = "split", NEW m, NEW n, NEW b, NEW e, Laid(Last(lines), m, n, b, e),
         CutUp(m, n, b, e), NEW i \in 1..n, i = Len(argv) + 1,
         NEW next \in Int, e[i] < next, next <= e[n] + 1,
         \A j \in 1..n : i < j => next <= b[j],
         To(Last(lines), e[i]) < next \/ next = e[n] + 1,
         Word(From(Last(lines), b[i]), To(Last(lines), e[i]), next)
  PROVE  CutUp(m, n, b, e)'
<1>1. PICK f, t : f = From(Last(lines), b[i]) /\ t = To(Last(lines), e[i])
  OBVIOUS
<1>2. /\ length \in Places /\ Cap \in Nat /\ m \in Nat /\ n \in Nat /\ n # 0 /\ n \in 1..n
      /\ buffer \in [Places -> Received \cup {NUL}] /\ argv \in Seq(0..Cap)
      /\ Len(Last(lines)) = length /\ Len(argv) \in Nat /\ name = 0
      /\ Held(0, m)
      /\ args \in Nat /\ m < args /\ e[n] \in Int /\ args <= e[n] + 1 /\ e[n] < length
      /\ buffer[e[n] + 1] = NUL
  BY SplittingLaid
<1>3. /\ \A k \in Int : args <= k /\ k <= e[n] => buffer[k] = Last(lines)[k + 1]
      /\ \A j \in 1..n : IF j <= Len(argv) THEN e[j] < args ELSE args <= b[j]
      /\ \A j \in 1..Len(argv) : /\ argv[j] = From(Last(lines), b[j])
                                 /\ Held(argv[j], To(Last(lines), e[j]))
  BY SplittingLaid
<1>4. \A j \in 1..n : /\ b[j] \in Int /\ e[j] \in Int /\ m < b[j] /\ b[j] <= e[j] /\ e[j] < length
                      /\ From(Last(lines), b[j]) \in Int /\ To(Last(lines), e[j]) \in Int
                      /\ b[j] <= From(Last(lines), b[j])
                      /\ From(Last(lines), b[j]) <= To(Last(lines), e[j])
                      /\ e[j] <= To(Last(lines), e[j]) /\ To(Last(lines), e[j]) <= e[j] + 1
  <2> SUFFICES ASSUME NEW j \in 1..n
               PROVE  /\ b[j] \in Int /\ e[j] \in Int /\ m < b[j] /\ b[j] <= e[j] /\ e[j] < length
                      /\ From(Last(lines), b[j]) \in Int /\ To(Last(lines), e[j]) \in Int
                      /\ b[j] <= From(Last(lines), b[j])
                      /\ From(Last(lines), b[j]) <= To(Last(lines), e[j])
                      /\ e[j] <= To(Last(lines), e[j]) /\ To(Last(lines), e[j]) <= e[j] + 1
    OBVIOUS
  <2>1. b[j] \in Int /\ e[j] \in Int /\ m < b[j] /\ b[j] <= e[j] /\ e[j] < length
    BY <1>2, WordLaid
  <2>2. CASE Last(lines)[b[j] + 1] = Quote
    <3>1. /\ From(Last(lines), b[j]) = b[j] + 1 /\ To(Last(lines), e[j]) = e[j] /\ b[j] < e[j]
      BY <2>2, WordLaid
    <3> QED
      BY <2>1, <3>1
  <2>3. CASE Last(lines)[b[j] + 1] # Quote
    <3>1. From(Last(lines), b[j]) = b[j] /\ To(Last(lines), e[j]) = e[j] + 1
      BY <2>3, WordLaid
    <3> QED
      BY <2>1, <3>1
  <2> QED
    BY <2>2, <2>3
<1>5. /\ argv' = Append(argv, f) /\ buffer' = [buffer EXCEPT ![t] = NUL] /\ args' = next
      /\ pc' = "split" /\ name' = name /\ lines' = lines /\ length' = length
  BY <1>1 DEF Word
<1>6. /\ f \in Int /\ t \in Int /\ b[i] <= f /\ f <= t /\ e[i] <= t /\ t <= e[i] + 1
      /\ m < b[i] /\ b[i] <= e[i] /\ b[i] \in Int /\ e[i] \in Int /\ e[i] < length
  BY <1>1, <1>4
<1>7. t \in Places /\ t <= length /\ length \in Nat /\ 0 <= b[i]
  <2>1. length \in 0..(Cap - 1) /\ Cap \in Nat /\ m \in Nat
    BY <1>2 DEF Places
  <2> QED
    BY <1>6, <2>1 DEF Places
<1>8. \A k \in Int : k # t => buffer'[k] = buffer[k]
  BY <1>2, <1>5
<1>9. buffer'[t] = NUL
  BY <1>2, <1>5, <1>7
<1>10. Held(0, m)'
  <2>1. t \notin 0..m /\ 0 \in Nat /\ m \in Int
    BY <1>2, <1>6
  <2> QED
    BY <1>2, <1>5, <1>6, <1>8, <2>1, HeldStays
<1>11. args <= b[i] /\ e[i] <= e[n] /\ \A j \in 1..n : j < i => e[j] + 1 < b[i]
  <2>1. args <= b[i]
    <3>1. ~(i <= Len(argv))
      BY <1>2
    <3> QED
      BY <1>3, <3>1
  <2>2. e[i] <= e[n]
    <3>1. i = n \/ i < n
      BY <1>2
    <3>2. i < n => e[i] + 1 < b[n]
      BY <1>2 DEF Laid
    <3>3. b[n] \in Int /\ b[n] <= e[n]
      BY <1>2, <1>4
    <3> QED
      BY <1>2, <1>6, <3>1, <3>2, <3>3
  <2>3. \A j \in 1..n : j < i => e[j] + 1 < b[i]
    BY DEF Laid
  <2> QED
    BY <2>1, <2>2, <2>3
<1>12. next \in (m + 1)..(e[n] + 1)
  BY <1>2, <1>6
<1>13. Held(next, e[n] + 1)'
  <2>1. next \in Nat /\ e[n] + 1 \in next..length
    BY <1>2, <1>12
  <2>2. ASSUME NEW k \in next..e[n] PROVE buffer'[k] = Last(lines)[k + 1]
    <3>1. k \in Int /\ next <= k /\ k <= e[n]
      BY <1>2, <2>2
    <3>2. t < next
      BY <1>1, <1>2, <3>1
    <3>3. k # t /\ args <= k
      <4>1. args \in Nat /\ b[i] \in Int /\ e[i] \in Int /\ args <= b[i] /\ b[i] <= e[i]
        BY <1>2, <1>6, <1>11
      <4> QED
        BY <1>6, <3>1, <3>2, <4>1
    <3> QED
      BY <1>3, <1>8, <3>1, <3>3
  <2>3. buffer'[e[n] + 1] = NUL
    <3>1. CASE e[n] + 1 = t
      BY <1>9, <3>1
    <3>2. CASE e[n] + 1 # t
      <4>1. e[n] + 1 \in Int
        BY <1>2
      <4> QED
        BY <1>2, <1>8, <3>2, <4>1
    <3> QED
      BY <3>1, <3>2
  <2>4. next \in Nat /\ e[n] + 1 \in next..length'
    BY <1>5, <2>1
  <2>5. \A k \in next..e[n] : buffer'[k] = Last(lines')[k + 1]
    BY <1>5, <2>2
  <2>6. PICK end : end = e[n] + 1
    OBVIOUS
  <2>7. Held(next, end)'
    <3>1. \A k \in next..(end - 1) : buffer'[k] = Last(lines')[k + 1]
      <4>1. end - 1 = e[n]
        BY <1>2, <2>6
      <4> QED
        BY <2>5, <4>1
    <3>2. end \in next..length' /\ buffer'[end] = NUL
      BY <2>3, <2>4, <2>6
    <3> QED
      BY <2>4, <3>1, <3>2 DEF Held
  <2> QED
    BY <2>6, <2>7
<1>14. Held(f, t)'
  <2>1. f \in Nat /\ t \in f..length
    BY <1>2, <1>6, <1>7
  <2>2. ASSUME NEW k \in f..(t - 1) PROVE buffer'[k] = Last(lines)[k + 1]
    <3>1. k \in Int /\ f <= k /\ k < t
      BY <1>6, <2>2
    <3>2. args <= k /\ k <= e[n] /\ k # t
      <4>1. args \in Nat /\ e[n] \in Int /\ args <= b[i] /\ e[i] <= e[n]
        BY <1>2, <1>11
      <4> QED
        BY <1>6, <3>1, <4>1
    <3> QED
      BY <1>3, <1>8, <3>1, <3>2
  <2> QED
    BY <1>5, <1>9, <2>1, <2>2 DEF Held
<1>15. /\ Len(argv') = i /\ argv'[i] = f
       /\ \A j \in 1..Len(argv) : argv'[j] = argv[j]
  BY <1>2, <1>5
<1>16. ASSUME NEW j \in 1..n PROVE IF j <= Len(argv') THEN e[j] < next ELSE next <= b[j]
  <2>1. CASE j < i
    <3>1. e[j] + 1 < b[i] /\ e[j] \in Int
      BY <1>4, <1>11, <2>1
    <3> QED
      BY <1>6, <1>15, <2>1, <3>1
  <2>2. CASE j = i
    BY <1>15, <2>2
  <2>3. CASE i < j
    <3>1. ~(j <= Len(argv'))
      BY <1>15, <2>3
    <3> QED
      BY <2>3, <3>1
  <2> QED
    BY <2>1, <2>2, <2>3
<1>17. ASSUME NEW j \in 1..Len(argv')
       PROVE  argv'[j] = From(Last(lines), b[j]) /\ Held(argv[j], To(Last(lines), e[j]))'
  <2>1. CASE j = i
    <3>1. argv'[j] = f /\ f = From(Last(lines), b[j]) /\ t = To(Last(lines), e[j])
      BY <1>1, <1>15, <2>1
    <3>2. To(Last(lines), e[j])' = t
      BY <1>5, <3>1 DEF To
    <3> QED
      BY <1>14, <3>1, <3>2
  <2>2. CASE j # i
    <3>1. j \in 1..Len(argv) /\ j \in 1..n /\ j < i
      BY <1>2, <1>15, <2>2
    <3>2. PICK x, y : x = argv[j] /\ y = To(Last(lines), e[j])
      OBVIOUS
    <3>3. x = From(Last(lines), b[j]) /\ Held(x, y) /\ argv'[j] = x
      BY <1>3, <1>15, <3>1, <3>2
    <3>4. /\ x \in Int /\ y \in Int /\ b[j] <= x /\ y <= e[j] + 1 /\ e[j] + 1 < b[i]
          /\ b[j] \in Int /\ e[j] \in Int /\ m < b[j]
      BY <1>4, <1>11, <3>1, <3>2, <3>3
    <3>5. x \in Nat /\ t \notin x..y
      <4>1. m \in Nat /\ t \in Int /\ e[i] <= t /\ b[i] <= e[i] /\ b[i] \in Int /\ e[i] \in Int
        BY <1>2, <1>6
      <4>2. 0 <= x
        BY <3>4, <4>1
      <4>3. y < t
        BY <3>4, <4>1
      <4> QED
        BY <3>4, <4>1, <4>2, <4>3
    <3>6. Held(x, y)'
      BY <1>5, <1>6, <1>8, <3>3, <3>4, <3>5, HeldStays
    <3>7. To(Last(lines), e[j])' = y
      BY <1>5, <3>2 DEF To
    <3> QED
      BY <3>3, <3>6, <3>7
  <2> QED
    BY <2>1, <2>2
<1>18. Held(args, e[n] + 1)'
  BY <1>5, <1>13
<1>19. /\ args' \in (m + 1)..(e[n] + 1)
       /\ \A j \in 1..n : IF j <= Len(argv') THEN e[j] < args' ELSE args' <= b[j]
  BY <1>5, <1>12, <1>16
<1>20. \A j \in 1..Len(argv') : /\ argv'[j] = From(Last(lines'), b[j])
                                /\ Held(argv[j], To(Last(lines), e[j]))'
  BY <1>5, <1>17
<1>21. n # 0 /\ Len(argv') <= n /\ name' = 0
  BY <1>2, <1>5, <1>15
<1> QED
  BY <1>5, <1>10, <1>18, <1>19, <1>20, <1>21 DEF CutUp

\* Behind the last word is a NUL: the search goes on only if there is another.
LEMMA WordsLeft ==
  ASSUME IInv, pc = "split", NEW m, NEW n, NEW b, NEW e, Laid(Last(lines), m, n, b, e),
         CutUp(m, n, b, e)
  PROVE  IF Len(argv) = n THEN buffer[args] = NUL /\ args < Cap ELSE Len(argv) + 1 \in 1..n
<1>1. /\ length \in Places /\ Cap \in Nat /\ n \in Nat /\ n # 0 /\ n \in 1..n
      /\ Len(argv) \in 0..n
      /\ args \in Nat /\ e[n] \in Int /\ args <= e[n] + 1 /\ e[n] < length
      /\ buffer[e[n] + 1] = NUL
      /\ \A j \in 1..n : IF j <= Len(argv) THEN e[j] < args ELSE args <= b[j]
  BY SplittingLaid
<1>2. CASE Len(argv) = n
  <2>1. e[n] < args
    BY <1>1, <1>2
  <2>2. args = e[n] + 1
    BY <1>1, <2>1
  <2> QED
    BY <1>1, <1>2, <2>2 DEF Places
<1>3. CASE Len(argv) # n
  BY <1>1, <1>3
<1> QED
  BY <1>2, <1>3

\* Where the words behind a word begin.
LEMMA WordsBehind ==
  ASSUME NEW line, NEW m, NEW n, NEW b, NEW e, Laid(line, m, n, b, e), NEW i \in 1..n
  PROVE  /\ e[i] \in Int /\ e[n] \in Int /\ n \in Nat /\ e[i] <= e[n]
         /\ i # n => e[i] + 1 < e[n]
         /\ \A j \in 1..n : i < j => e[i] + 1 < b[j] /\ b[j] \in Int
<1>1. n \in Nat /\ n \in 1..n
  BY DEF Laid
<1>2. e[i] \in Int /\ e[n] \in Int /\ b[n] \in Int /\ b[n] <= e[n]
  BY <1>1, WordLaid
<1>3. \A j \in 1..n : i < j => e[i] + 1 < b[j]
  BY DEF Laid
<1>4. \A j \in 1..n : b[j] \in Int
  BY WordLaid
<1>5. i # n => e[i] + 1 < e[n]
  BY <1>1, <1>2, <1>3
<1> QED
  BY <1>1, <1>2, <1>3, <1>4, <1>5

LEMMA QuotedPlaces == IInv /\ Placed /\ Quoted => Placed'
<1> SUFFICES ASSUME IInv, Placed, Quoted,
                    NEW m, NEW n, NEW b, NEW e, Laid(Last(lines), m, n, b, e)
             PROVE  CutUp(m, n, b, e)'
  BY DEF Placed, Quoted, Word
<1>1. /\ pc = "split" /\ buffer[args] # NUL /\ buffer[Start] = Quote
      /\ Word(Start + 1, WordEnd, WordEnd + 1)
  BY DEF Quoted, Searching
<1>2. CutUp(m, n, b, e)
  BY DEF Placed
<1>3. PICK i : i = Len(argv) + 1
  OBVIOUS
<1>4. i \in 1..n
  BY <1>1, <1>2, <1>3, WordsLeft
<1>5. /\ Start = b[i] /\ Last(lines)[b[i] + 1] = Quote /\ WordEnd = To(Last(lines), e[i])
  BY <1>1, <1>2, <1>3, <1>4, NextStart, NextEnd
<1>6. From(Last(lines), b[i]) = b[i] + 1 /\ To(Last(lines), e[i]) = e[i]
  BY <1>4, <1>5, WordLaid
<1>7. /\ e[i] \in Int /\ e[n] \in Int /\ e[i] <= e[n]
      /\ \A j \in 1..n : i < j => e[i] + 1 < b[j] /\ b[j] \in Int
  BY <1>4, WordsBehind
<1>8. PICK next : next = e[i] + 1
  OBVIOUS
<1>9. Word(From(Last(lines), b[i]), To(Last(lines), e[i]), next)
  BY <1>1, <1>5, <1>6, <1>8
<1>10. /\ next \in Int /\ e[i] < next /\ next <= e[n] + 1 /\ To(Last(lines), e[i]) < next
       /\ \A j \in 1..n : i < j => next <= b[j]
  BY <1>6, <1>7, <1>8
<1> QED
  BY <1>1, <1>2, <1>3, <1>4, <1>9, <1>10, WordCut

LEMMA PlainPlaces == IInv /\ Placed /\ Plain => Placed'
<1> SUFFICES ASSUME IInv, Placed, Plain,
                    NEW m, NEW n, NEW b, NEW e, Laid(Last(lines), m, n, b, e)
             PROVE  CutUp(m, n, b, e)'
  BY DEF Placed, Plain, Word
<1>1. /\ pc = "split" /\ buffer[args] # NUL /\ buffer[Start] # Quote
      /\ Word(Start, WordEnd, IF buffer[WordEnd] = NUL THEN WordEnd ELSE WordEnd + 1)
  BY DEF Plain, Searching
<1>2. CutUp(m, n, b, e)
  BY DEF Placed
<1>3. PICK i : i = Len(argv) + 1
  OBVIOUS
<1>4. i \in 1..n
  BY <1>1, <1>2, <1>3, WordsLeft
<1>5. /\ Start = b[i] /\ Last(lines)[b[i] + 1] # Quote /\ WordEnd = To(Last(lines), e[i])
      /\ IF i = n THEN buffer[WordEnd] = NUL ELSE buffer[WordEnd] \in Blanks
  BY <1>1, <1>2, <1>3, <1>4, NextStart, NextEnd
<1>6. From(Last(lines), b[i]) = b[i] /\ To(Last(lines), e[i]) = e[i] + 1
  BY <1>4, <1>5, WordLaid
<1>7. /\ e[i] \in Int /\ e[n] \in Int /\ e[i] <= e[n]
      /\ i # n => e[i] + 1 < e[n]
      /\ \A j \in 1..n : i < j => e[i] + 1 < b[j] /\ b[j] \in Int
  BY <1>4, WordsBehind
<1>8. PICK next : next = IF i = n THEN e[i] + 1 ELSE e[i] + 1 + 1
  OBVIOUS
<1>9. Word(From(Last(lines), b[i]), To(Last(lines), e[i]), next)
  <2>1. CASE i = n
    BY <1>1, <1>5, <1>6, <1>8, <2>1
  <2>2. CASE i # n
    <3>1. buffer[WordEnd] # NUL
      BY <1>5, <2>2, Kinds
    <3> QED
      BY <1>1, <1>5, <1>6, <1>8, <2>2, <3>1
  <2> QED
    BY <2>1, <2>2
<1>10. /\ next \in Int /\ e[i] < next /\ next <= e[n] + 1
       /\ To(Last(lines), e[i]) < next \/ next = e[n] + 1
  BY <1>6, <1>7, <1>8
<1>11. \A j \in 1..n : i < j => next <= b[j]
  BY <1>7, <1>8
<1> QED
  BY <1>1, <1>2, <1>3, <1>4, <1>9, <1>10, <1>11, WordCut

LEMMA EndSplitPlaces == IInv /\ Placed /\ EndSplit => Placed'
<1> SUFFICES ASSUME IInv, Placed, EndSplit,
                    NEW m, NEW n, NEW b, NEW e, Laid(Last(lines), m, n, b, e)
             PROVE  CutUp(m, n, b, e)'
  BY DEF Placed, EndSplit
<1>1. /\ pc = "split" /\ pc' = "call"
      /\ UNCHANGED <<buffer, length, name, args, argv, lines>>
  BY DEF EndSplit
<1>2. CutUp(m, n, b, e)
  BY DEF Placed
<1>3. /\ length \in Places /\ Cap \in Nat /\ n \in Nat /\ n # 0 /\ n \in 1..n
      /\ Len(argv) \in 0..n /\ name = 0 /\ Held(0, m)
      /\ args \in Nat /\ e[n] \in Int /\ e[n] < length
      /\ \A k \in Int : args <= k /\ k <= e[n] => buffer[k] = Last(lines)[k + 1]
      /\ \A j \in 1..n : IF j <= Len(argv) THEN e[j] < args ELSE args <= b[j]
      /\ \A j \in 1..Len(argv) : /\ argv[j] = From(Last(lines), b[j])
                                 /\ Held(argv[j], To(Last(lines), e[j]))
  BY <1>1, <1>2, SplittingLaid
<1>4. MaxArgs \in Nat /\ Len(argv) <= MaxArgs
  BY ConstantsOK DEF IInv, Typed, TypeOK
<1>5. Len(argv) = n \/ Len(argv) = MaxArgs
  <2> SUFFICES ASSUME Len(argv) # n, Len(argv) # MaxArgs PROVE FALSE
    OBVIOUS
  <2>1. PICK i : i = Len(argv) + 1
    OBVIOUS
  <2>2. i \in 1..n
    BY <1>3, <2>1
  <2>3. Start = b[i] /\ buffer[Start] # NUL
    BY <1>1, <1>2, <2>1, <2>2, NextStart
  <2>4. buffer[args] = NUL
    BY <2>3 DEF EndSplit
  <2>5. args <= e[n]
    <3>1. ~(i <= Len(argv))
      BY <1>3, <2>1
    <3>2. args <= b[i] /\ b[i] \in Int /\ e[i] \in Int /\ b[i] <= e[i] /\ e[i] <= e[n]
      BY <1>3, <2>2, <3>1, WordLaid, WordsBehind
    <3> QED
      BY <1>3, <3>2
  <2>6. buffer[args] = Last(lines)[args + 1]
    BY <1>3, <2>5
  <2>7. args + 1 \in 1..Len(Last(lines)) /\ Last(lines) \in Seq(Received)
    BY <1>1, <1>3, <2>5, Splitting
  <2>8. Last(lines)[args + 1] \in Received
    BY <2>7
  <2> QED
    BY <2>4, <2>6, <2>8, Kinds
<1>6. Len(argv) = Least(n, MaxArgs)
  BY <1>3, <1>4, <1>5 DEF Least
<1>7. \A i, j : Held(i, j) => Held(i, j)'
  BY <1>1 DEF Held
<1>8. /\ name' = 0 /\ Held(0, m)' /\ n # 0 /\ Len(argv') <= n
      /\ Len(argv') = Least(n, MaxArgs)
  BY <1>1, <1>3, <1>6, <1>7
<1>9. ASSUME NEW j \in 1..Len(argv')
      PROVE  argv'[j] = From(Last(lines'), b[j]) /\ Held(argv[j], To(Last(lines), e[j]))'
  <2>1. PICK x, y : x = argv[j] /\ y = To(Last(lines), e[j])
    OBVIOUS
  <2>2. Held(x, y) /\ argv[j] = From(Last(lines), b[j])
    BY <1>1, <1>3, <2>1
  <2>3. Held(x, y)' /\ argv'[j] = x /\ To(Last(lines), e[j])' = y
    BY <1>1, <1>7, <2>1, <2>2 DEF To
  <2> QED
    BY <1>1, <2>1, <2>2, <2>3
<1> QED
  BY <1>1, <1>8, <1>9 DEF CutUp

\* The other steps are before the words are looked for, or after.
LEMMA PlacesElsewhere ==
  ASSUME pc' \in {"read", "line", "wild"} PROVE Placed'
BY DEF Placed, CutUp

LEMMA PlacesUnchanged == Placed /\ UNCHANGED vars => Placed'
BY DEF Placed, CutUp, Held, vars

LEMMA PlacesKept == Spec => []Placed
<1>1. Init => Placed
  BY DEF Init, Placed, CutUp
<1>2. IInv /\ Placed /\ [Next]_vars => Placed'
  <2> SUFFICES ASSUME IInv, Placed, [Next]_vars PROVE Placed'
    OBVIOUS
  <2>1. CASE UNCHANGED vars
    BY <2>1, PlacesUnchanged
  <2>2. ASSUME NEW bytes \in Chunks, Recv(bytes) PROVE Placed'
    BY <2>2, PlacesElsewhere DEF Recv
  <2>3. CASE AppendByte
    BY <2>3, PlacesElsewhere DEF AppendByte, NextByte
  <2>4. CASE EndLine
    BY <2>4, PlacesElsewhere DEF EndLine, NextByte
  <2>5. CASE TakeName
    BY <2>5, TakeNamePlaces
  <2>6. CASE Unsplit \/ Called
    BY <2>6, PlacesElsewhere DEF Unsplit, Called, Done
  <2>7. CASE BeginSplit
    BY <2>7, BeginSplitPlaces
  <2>8. CASE Quoted
    BY <2>8, QuotedPlaces
  <2>9. CASE Plain
    BY <2>9, PlainPlaces
  <2>10. CASE EndSplit
    BY <2>10, EndSplitPlaces
  <2>11. CASE Overrun
    BY <2>11, PlacesElsewhere DEF Overrun
  <2> QED
    BY <2>1, <2>2, <2>3, <2>4, <2>5, <2>6, <2>7, <2>8, <2>9, <2>10, <2>11 DEF Next
<1> QED
  BY <1>1, <1>2, Invariance, PTL DEF Spec

-----------------------------------------------------------------------------
(***************************************************************************)
(* The words that were sent: what the handler of the command gets          *)
(***************************************************************************)
\* A line that is laid out as the name cmd and these words.
SpellsAt(line, cmd, words, m, n, b, e) ==
  /\ Laid(line, m, n, b, e)
  /\ cmd = [k \in 1..m |-> line[k]]
  /\ words \in Seq(Seq(Received)) /\ Len(words) = n
  /\ \A j \in 1..n : words[j] = [k \in 1..(To(line, e[j]) - From(line, b[j])) |->
                                   line[From(line, b[j]) + k]]

Spells(line, cmd, words) == \E m, n, b, e : SpellsAt(line, cmd, words, m, n, b, e)

\* However many words a line has, however long they are and whatever blanks are
\* between them: the name and the words that split_args has room for arrive.
WordsAsSpelled ==
  pc \in {"named", "call"} =>
    \A cmd, words : Spells(Last(lines), cmd, words) =>
      /\ String(name) = cmd
      /\ pc = "named" => (args = NUL <=> words = <<>>)
      /\ pc = "call" => /\ Len(argv) = Least(Len(words), MaxArgs)
                        /\ \A i \in DOMAIN argv : String(argv[i]) = words[i]

LEMMA StringHeld ==
  ASSUME IInv, pc # "read", NEW i, NEW j, Held(i, j)
  PROVE  String(i) = [k \in 1..(j - i) |-> Last(lines)[i + k]]
<1>1. /\ length \in Places /\ Cap \in Nat /\ lines # <<>> /\ Len(Last(lines)) = length
      /\ Last(lines) \in Seq(Received)
  BY ConstantsOK DEF IInv, Typed, TypeOK, LineKnown, Last
<1>2. /\ i \in Nat /\ j \in i..length /\ buffer[j] = NUL
      /\ \A k \in i..(j - 1) : buffer[k] = Last(lines)[k + 1]
  BY DEF Held
<1>3. i \in 0..Cap /\ j \in i..(Cap - 1) /\ j \in Nat
  BY <1>1, <1>2 DEF Places
<1>4. \A k \in i..(j - 1) : buffer[k] \notin {NUL}
  <2>1. \A k \in i..(j - 1) : k + 1 \in 1..Len(Last(lines))
    BY <1>1, <1>2 DEF Places
  <2>2. \A k \in i..(j - 1) : Last(lines)[k + 1] \in Received
    BY <1>1, <2>1
  <2> QED
    BY <1>2, <2>2, Kinds
<1>5. FirstOf(i, {NUL}) = j
  BY <1>2, <1>3, <1>4, FirstOfIs
<1>6. \A k \in 1..(j - i) : buffer[i + k - 1] = Last(lines)[i + k]
  <2> SUFFICES ASSUME NEW k \in 1..(j - i) PROVE buffer[i + k - 1] = Last(lines)[i + k]
    OBVIOUS
  <2>1. i + k - 1 \in i..(j - 1) /\ i + k - 1 + 1 = i + k
    BY <1>2, <1>3
  <2> QED
    BY <1>2, <2>1
<1> QED
  BY <1>5, <1>6 DEF String

LEMMA SpelledArrives == IInv /\ Placed => WordsAsSpelled
<1> SUFFICES ASSUME IInv, Placed, pc \in {"named", "call"},
                    NEW cmd, NEW words, Spells(Last(lines), cmd, words)
             PROVE  /\ String(name) = cmd
                    /\ pc = "named" => (args = NUL <=> words = <<>>)
                    /\ pc = "call" => /\ Len(argv) = Least(Len(words), MaxArgs)
                                      /\ \A i \in DOMAIN argv : String(argv[i]) = words[i]
  BY DEF WordsAsSpelled
<1>1. PICK m, n, b, e :
        /\ Laid(Last(lines), m, n, b, e)
        /\ cmd = [k \in 1..m |-> Last(lines)[k]]
        /\ words \in Seq(Seq(Received)) /\ Len(words) = n
        /\ \A j \in 1..n : words[j] =
             [k \in 1..(To(Last(lines), e[j]) - From(Last(lines), b[j])) |->
                Last(lines)[From(Last(lines), b[j]) + k]]
  BY DEF Spells, SpellsAt
<1>2. CutUp(m, n, b, e) /\ n \in Nat /\ m \in Nat
  <2>1. CutUp(m, n, b, e)
    BY <1>1 DEF Placed
  <2>2. n \in Nat /\ m \in Nat
    BY <1>1 DEF Laid
  <2> QED
    BY <2>1, <2>2
<1>3. String(name) = cmd
  <2>1. name = 0 /\ Held(0, m)
    BY <1>2 DEF CutUp
  <2>2. String(0) = [k \in 1..(m - 0) |-> Last(lines)[0 + k]]
    BY <2>1, StringHeld
  <2>3. m - 0 = m /\ \A k \in 1..m : 0 + k = k
    BY <1>2
  <2>4. [k \in 1..(m - 0) |-> Last(lines)[0 + k]] = [k \in 1..m |-> Last(lines)[k]]
    BY <2>3
  <2> QED
    BY <1>1, <2>1, <2>2, <2>4
<1>4. words = <<>> <=> n = 0
  BY <1>1
<1>5. ASSUME pc = "named" PROVE args = NUL <=> words = <<>>
  <2>1. CASE n = 0
    BY <1>2, <1>4, <1>5, <2>1 DEF CutUp
  <2>2. CASE n # 0
    <3>1. Held(args, e[n] + 1)
      BY <1>2, <1>5, <2>2 DEF CutUp
    <3>2. n \in 1..n
      BY <1>2, <2>2
    <3>3. e[n] \in Int /\ e[n] < Len(Last(lines))
      BY <1>1, <3>2, WordLaid
    <3>4. args \in Nat /\ args <= e[n] + 1 /\ e[n] + 1 <= length
      BY <3>1, <3>3, HeldUpTo
    <3>5. args \in 0..Cap
      BY <3>3, <3>4, ConstantsOK DEF IInv, Typed, TypeOK, Places
    <3> QED
      BY <1>4, <2>2, <3>5, ConstantsOK
  <2> QED
    BY <2>1, <2>2
<1>6. ASSUME pc = "call"
      PROVE  /\ Len(argv) = Least(Len(words), MaxArgs)
             /\ \A i \in DOMAIN argv : String(argv[i]) = words[i]
  <2>1. /\ Len(argv) = Least(n, MaxArgs) /\ Len(argv) <= n
        /\ \A j \in 1..Len(argv) : /\ argv[j] = From(Last(lines), b[j])
                                   /\ Held(argv[j], To(Last(lines), e[j]))
    BY <1>2, <1>6 DEF CutUp
  <2>2. argv \in Seq(0..Cap) /\ DOMAIN argv = 1..Len(argv) /\ Len(argv) \in Nat
    BY DEF IInv, Typed
  <2>3. ASSUME NEW i \in DOMAIN argv PROVE String(argv[i]) = words[i]
    <3>1. i \in 1..Len(argv) /\ i \in 1..n
      BY <1>2, <2>1, <2>2
    <3>2. PICK x, y : x = From(Last(lines), b[i]) /\ y = To(Last(lines), e[i])
      OBVIOUS
    <3>3. argv[i] = x /\ Held(x, y)
      BY <2>1, <3>1, <3>2
    <3>4. String(x) = [k \in 1..(y - x) |-> Last(lines)[x + k]]
      BY <1>6, <3>3, StringHeld
    <3>5. words[i] = [k \in 1..(y - x) |-> Last(lines)[x + k]]
      BY <1>1, <3>1, <3>2
    <3> QED
      BY <3>3, <3>4, <3>5
  <2> QED
    BY <1>1, <2>1, <2>3
<1> QED
  BY <1>3, <1>5, <1>6

\* Whatever a client spells arrives: the theorem for lines of any number of
\* words, of any length and with any blanks between them.
THEOREM AnyWordsArrive == Spec => []WordsAsSpelled
BY Invariance, PlacesKept, SpelledArrives, PTL

-----------------------------------------------------------------------------
(***************************************************************************)
(* The words that were sent: what Requests are spelled                     *)
(***************************************************************************)
\* A name alone is a line.
LEMMA NameSpelled ==
  ASSUME NEW w \in PlainWords
  PROVE  Spells(w, w, <<>>) /\ w \in Seq(Received)
<1>1. w \in Seq(Letters) /\ w # <<>>
  <2>1. PICK m \in 0..2 : w \in [1..m -> Letters]
    BY DEF PlainWords, SeqOf
  <2>2. w \in Seq(Letters)
    BY <2>1
  <2> QED
    BY <2>2 DEF PlainWords
<1>2. w \in Seq(Received) /\ Len(w) \in Nat /\ Len(w) # 0
  BY <1>1, Kinds
<1>3. \A k \in 0..(Len(w) - 1) : k + 1 \in 1..Len(w) /\ w[k + 1] \in Letters
  BY <1>1, <1>2
<1>4. \A b, e : Laid(w, Len(w), 0, b, e)
  BY <1>2, <1>3 DEF Laid
<1>5. w = [k \in 1..Len(w) |-> w[k]]
  BY <1>1
<1>6. <<>> \in Seq(Seq(Received)) /\ Len(<<>>) = 0
  OBVIOUS
<1>7. \A j \in 1..0 : FALSE
  OBVIOUS
<1>8. \A b, e : SpellsAt(w, w, <<>>, Len(w), 0, b, e)
  BY <1>4, <1>5, <1>6, <1>7 DEF SpellsAt
<1> QED
  BY <1>2, <1>8 DEF Spells

\* The bytes of two sequences in a row.
LEMMA InARow ==
  ASSUME NEW S, NEW s \in Seq(S), NEW t \in Seq(S)
  PROVE  /\ s \o t \in Seq(S) /\ Len(s \o t) = Len(s) + Len(t)
         /\ Len(s) \in Nat /\ Len(t) \in Nat
         /\ \A k \in 1..Len(s) : (s \o t)[k] = s[k]
         /\ \A k \in 1..Len(t) : (s \o t)[Len(s) + k] = t[k]
OBVIOUS

\* Blanks at the end of a line spell nothing.
LEMMA TrailSpelled ==
  ASSUME NEW line, NEW cmd, NEW words, Spells(line, cmd, words), NEW gap \in Seq(Blanks)
  PROVE  Spells(line \o gap, cmd, words)
<1>1. PICK m, n, b, e :
        /\ Laid(line, m, n, b, e)
        /\ cmd = [k \in 1..m |-> line[k]]
        /\ words \in Seq(Seq(Received)) /\ Len(words) = n
        /\ \A j \in 1..n : words[j] = [k \in 1..(To(line, e[j]) - From(line, b[j])) |->
                                         line[From(line, b[j]) + k]]
  BY DEF Spells, SpellsAt
<1>2. PICK new : new = line \o gap
  OBVIOUS
<1>3. line \in Seq(Received) /\ gap \in Seq(Received) /\ \A k \in 1..Len(gap) : gap[k] \in Blanks
  BY <1>1, Kinds DEF Laid
<1>4. /\ new \in Seq(Received) /\ Len(new) = Len(line) + Len(gap)
      /\ Len(line) \in Nat /\ Len(gap) \in Nat
      /\ \A k \in 1..Len(line) : new[k] = line[k]
      /\ \A k \in 1..Len(gap) : new[Len(line) + k] = gap[k]
  BY <1>2, <1>3, InARow
<1>5. m \in 1..Len(line) /\ n \in Nat
  BY <1>1 DEF Laid
<1>6. \A k \in 0..(Len(line) - 1) : new[k + 1] = line[k + 1]
  BY <1>4
<1>7. ASSUME NEW j \in 1..n
      PROVE  /\ b[j] \in Int /\ e[j] \in Int /\ m < b[j] /\ b[j] <= e[j] /\ e[j] < Len(line)
             /\ From(new, b[j]) = From(line, b[j]) /\ To(new, e[j]) = To(line, e[j])
             /\ 0 <= From(line, b[j]) /\ To(line, e[j]) <= Len(line)
             /\ From(line, b[j]) \in Int /\ To(line, e[j]) \in Int
  <2>1. b[j] \in Int /\ e[j] \in Int /\ m < b[j] /\ b[j] <= e[j] /\ e[j] < Len(line)
    BY <1>1, WordLaid
  <2>2. new[b[j] + 1] = line[b[j] + 1] /\ new[e[j] + 1] = line[e[j] + 1]
    <3>1. b[j] \in 0..(Len(line) - 1) /\ e[j] \in 0..(Len(line) - 1)
      BY <1>4, <1>5, <2>1
    <3> QED
      BY <1>6, <3>1
  <2> QED
    BY <1>5, <2>1, <2>2 DEF From, To
<1>8. Laid(new, m, n, b, e)
  <2>1. new \in Seq(Received) /\ m \in 1..Len(new) /\ n \in Nat
    BY <1>4, <1>5
  <2>2. \A k \in 0..(m - 1) : new[k + 1] \in Letters
    <3>1. \A k \in 0..(m - 1) : k \in 0..(Len(line) - 1)
      BY <1>4, <1>5
    <3> QED
      BY <1>1, <1>6, <3>1 DEF Laid
  <2>3. \A j \in 1..n : b[j] \in (m + 1)..(Len(new) - 1) /\ e[j] \in b[j]..(Len(new) - 1)
    <3> SUFFICES ASSUME NEW j \in 1..n
                 PROVE  b[j] \in (m + 1)..(Len(new) - 1) /\ e[j] \in b[j]..(Len(new) - 1)
      OBVIOUS
    <3>1. b[j] \in Int /\ e[j] \in Int /\ m < b[j] /\ b[j] <= e[j] /\ e[j] < Len(line)
      BY <1>7
    <3>2. m \in Int /\ Len(line) \in Int /\ Len(new) \in Int /\ Len(line) <= Len(new)
      BY <1>4, <1>5
    <3> QED
      BY <3>1, <3>2
  <2>4. ASSUME NEW j \in 1..n PROVE IsPlain(new, b[j], e[j]) \/ IsQuoted(new, b[j], e[j])
    <3>1. \A k \in b[j]..e[j] : new[k + 1] = line[k + 1]
      <4>1. b[j] \in Int /\ e[j] \in Int /\ m < b[j] /\ e[j] < Len(line)
        BY <1>7
      <4>2. \A k \in b[j]..e[j] : k \in 0..(Len(line) - 1)
        BY <1>4, <1>5, <4>1
      <4> QED
        BY <1>6, <4>2
    <3>2. CASE IsPlain(line, b[j], e[j])
      BY <3>1, <3>2 DEF IsPlain
    <3>3. CASE IsQuoted(line, b[j], e[j])
      <4>1. b[j] \in b[j]..e[j] /\ e[j] \in b[j]..e[j]
            /\ \A k \in (b[j] + 1)..(e[j] - 1) : k \in b[j]..e[j]
        BY <1>7
      <4> QED
        BY <3>1, <3>3, <4>1 DEF IsQuoted
    <3> QED
      BY <1>1, <3>2, <3>3 DEF Laid
  <2>5. \A i, j \in 1..n : i < j => e[i] + 1 < b[j]
    BY <1>1 DEF Laid
  <2>6. ASSUME NEW k \in m..(Len(new) - 1) PROVE new[k + 1] \in Blanks \/ \E j \in 1..n : k \in b[j]..e[j]
    <3>1. CASE k < Len(line)
      <4>1. k \in m..(Len(line) - 1) /\ new[k + 1] = line[k + 1]
        <5>1. k \in m..(Len(line) - 1) /\ k \in 0..(Len(line) - 1)
          BY <1>4, <1>5, <3>1
        <5> QED
          BY <1>6, <5>1
      <4> QED
        BY <1>1, <4>1 DEF Laid
    <3>2. CASE ~(k < Len(line))
      <4>1. PICK i : i = k - Len(line) + 1
        OBVIOUS
      <4>2. i \in 1..Len(gap) /\ k + 1 = Len(line) + i
        BY <1>4, <1>5, <3>2, <4>1
      <4>3. new[k + 1] = gap[i] /\ gap[i] \in Blanks
        BY <1>3, <1>4, <4>2
      <4> QED
        BY <4>3
    <3> QED
      BY <3>1, <3>2
  <2>7. n # 0 => new[m + 1] = Space
    <3> SUFFICES ASSUME n # 0 PROVE new[m + 1] = Space
      OBVIOUS
    <3>1. n \in 1..n
      BY <1>5
    <3>2. m \in 0..(Len(line) - 1)
      BY <1>5, <1>7, <3>1
    <3> QED
      BY <1>1, <1>6, <3>2 DEF Laid
  <2> QED
    BY <2>1, <2>2, <2>3, <2>4, <2>5, <2>6, <2>7 DEF Laid
<1>9. cmd = [k \in 1..m |-> new[k]]
  <2>1. \A k \in 1..m : new[k] = line[k]
    BY <1>4, <1>5
  <2> QED
    BY <1>1, <2>1
<1>10. ASSUME NEW j \in 1..n
       PROVE  words[j] = [k \in 1..(To(new, e[j]) - From(new, b[j])) |-> new[From(new, b[j]) + k]]
  <2>1. PICK x, y : x = From(line, b[j]) /\ y = To(line, e[j])
    OBVIOUS
  <2>2. /\ x \in Int /\ y \in Int /\ 0 <= x /\ y <= Len(line)
        /\ From(new, b[j]) = x /\ To(new, e[j]) = y
    BY <1>7, <2>1
  <2>3. \A k \in 1..(y - x) : new[x + k] = line[x + k]
    <3>1. \A k \in 1..(y - x) : x + k \in 1..Len(line)
      BY <1>4, <2>2
    <3> QED
      BY <1>4, <3>1
  <2>4. words[j] = [k \in 1..(y - x) |-> line[x + k]]
    BY <1>1, <2>1
  <2> QED
    BY <2>2, <2>3, <2>4
<1>11. Spells(new, cmd, words)
  <2>1. /\ Laid(new, m, n, b, e)
        /\ cmd = [k \in 1..m |-> new[k]]
        /\ words \in Seq(Seq(Received)) /\ Len(words) = n
        /\ \A j \in 1..n : words[j] = [k \in 1..(To(new, e[j]) - From(new, b[j])) |->
                                         new[From(new, b[j]) + k]]
    BY <1>1, <1>8, <1>9, <1>10
  <2>2. SpellsAt(new, cmd, words, m, n, b, e)
    BY <2>1 DEF SpellsAt
  <2> QED
    BY <2>2 DEF Spells
<1> QED
  BY <1>2, <1>11

\* A piece of a line that adds a word to it: g blanks, the first of which is a
\* space, and the word as it is or in quotes.
Adds(t, g, word) ==
  /\ t \in Seq(Received) /\ g \in 1..(Len(t) - 1) /\ t[1] = Space
  /\ \A k \in 1..g : t[k] \in Blanks
  /\ word \in Seq(Received)
  /\ \/ /\ \A k \in (g + 1)..Len(t) : t[k] \in Letters
        /\ word = [k \in 1..(Len(t) - g) |-> t[g + k]]
     \/ /\ g + 1 < Len(t) /\ t[g + 1] = Quote /\ t[Len(t)] = Quote
        /\ \A k \in (g + 2)..(Len(t) - 1) : t[k] \in Letters \cup Blanks
        /\ word = [k \in 1..(Len(t) - g - 2) |-> t[g + 1 + k]]

\* One word more is spelled by one such piece more, behind a name that no
\* blanks follow yet or behind other words.
LEMMA MoreSpelled ==
  ASSUME NEW line, NEW cmd, NEW words, Spells(line, cmd, words), words = <<>> => line = cmd,
         NEW t, NEW g, NEW word, Adds(t, g, word)
  PROVE  Spells(line \o t, cmd, Append(words, word))
<1>1. PICK m, n, b, e : SpellsAt(line, cmd, words, m, n, b, e)
  BY DEF Spells
<1>2. /\ Laid(line, m, n, b, e) /\ cmd = [k \in 1..m |-> line[k]]
      /\ words \in Seq(Seq(Received)) /\ Len(words) = n
  BY <1>1 DEF SpellsAt
<1>3. PICK new, p, q : new = line \o t /\ p = Len(line) /\ q = Len(t)
  OBVIOUS
<1>4. /\ new \in Seq(Received) /\ Len(new) = p + q /\ p \in Nat /\ q \in Nat
      /\ \A k \in 1..p : new[k] = line[k]
      /\ \A k \in 1..q : new[p + k] = t[k]
  <2>1. line \in Seq(Received) /\ t \in Seq(Received)
    BY <1>2 DEF Laid, Adds
  <2> QED
    BY <1>3, <2>1, InARow
<1>5. m \in 1..p /\ n \in Nat /\ g \in 1..(q - 1) /\ g \in Int
  BY <1>2, <1>3, <1>4 DEF Laid, Adds
<1>6. \A k \in 0..(p - 1) : new[k + 1] = line[k + 1]
  BY <1>4
<1>7. \A k \in 0..(q - 1) : new[p + k + 1] = t[k + 1]
  <2> SUFFICES ASSUME NEW k \in 0..(q - 1) PROVE new[p + k + 1] = t[k + 1]
    OBVIOUS
  <2>1. k + 1 \in 1..q /\ p + (k + 1) = p + k + 1
    BY <1>4
  <2> QED
    BY <1>4, <2>1
<1> DEFINE bb == [j \in 1..(n + 1) |-> IF j = n + 1 THEN p + g ELSE b[j]]
           ee == [j \in 1..(n + 1) |-> IF j = n + 1 THEN p + q - 1 ELSE e[j]]
<1>8. /\ bb[n + 1] = p + g /\ ee[n + 1] = p + q - 1
      /\ \A j \in 1..n : bb[j] = b[j] /\ ee[j] = e[j]
      /\ \A j \in 1..(n + 1) : j = n + 1 \/ j \in 1..n
  BY <1>5
<1> HIDE DEF bb, ee
<1>9. ASSUME NEW j \in 1..n
      PROVE  /\ b[j] \in Int /\ e[j] \in Int /\ m < b[j] /\ b[j] <= e[j] /\ e[j] < p
             /\ From(new, b[j]) = From(line, b[j]) /\ To(new, e[j]) = To(line, e[j])
             /\ 0 <= From(line, b[j]) /\ To(line, e[j]) <= p
             /\ From(line, b[j]) \in Int /\ To(line, e[j]) \in Int
  <2>1. b[j] \in Int /\ e[j] \in Int /\ m < b[j] /\ b[j] <= e[j] /\ e[j] < p
    BY <1>2, <1>3, WordLaid
  <2>2. new[b[j] + 1] = line[b[j] + 1] /\ new[e[j] + 1] = line[e[j] + 1]
    <3>1. b[j] \in 0..(p - 1) /\ e[j] \in 0..(p - 1)
      BY <1>4, <1>5, <2>1
    <3> QED
      BY <1>6, <3>1
  <2>3. p \in Nat /\ m \in Nat /\ 0 < b[j]
    BY <1>4, <1>5, <2>1
  <2> QED
    BY <2>1, <2>2, <2>3 DEF From, To
<1>10. IsPlain(new, p + g, p + q - 1) \/ IsQuoted(new, p + g, p + q - 1)
  <2>1. CASE \A k \in (g + 1)..q : t[k] \in Letters
    <3> SUFFICES ASSUME NEW k \in (p + g)..(p + q - 1) PROVE new[k + 1] \in Letters
      BY DEF IsPlain
    <3>1. PICK i : i = k + 1 - p
      OBVIOUS
    <3>2. i \in (g + 1)..q /\ i \in 1..q /\ p + i = k + 1
      BY <1>4, <1>5, <3>1
    <3>3. new[k + 1] = t[i] /\ t[i] \in Letters
      BY <1>4, <2>1, <3>2
    <3> QED
      BY <3>3
  <2>2. CASE /\ g + 1 < q /\ t[g + 1] = Quote /\ t[q] = Quote
             /\ \A k \in (g + 2)..(q - 1) : t[k] \in Letters \cup Blanks
    <3>1. new[p + g + 1] = Quote
      BY <1>5, <1>4, <1>7, <2>2
    <3>2. new[p + q - 1 + 1] = Quote
      <4>1. p + q - 1 + 1 = p + q /\ q \in 1..q
        BY <1>4, <1>5
      <4> QED
        BY <1>4, <2>2, <4>1
    <3>3. ASSUME NEW k \in (p + g + 1)..(p + q - 2) PROVE new[k + 1] \in Letters \cup Blanks
      <4>1. PICK i : i = k + 1 - p
        OBVIOUS
      <4>2. i \in (g + 2)..(q - 1) /\ i \in 1..q /\ p + i = k + 1
        BY <1>4, <1>5, <4>1
      <4>3. new[k + 1] = t[i] /\ t[i] \in Letters \cup Blanks
        BY <1>4, <2>2, <4>2
      <4> QED
        BY <4>3
    <3>4. p + g < p + q - 1
      BY <1>4, <1>5, <2>2
    <3>5. PICK x, y : x = p + g /\ y = p + q - 1
      OBVIOUS
    <3>6. x < y /\ new[x + 1] = Quote /\ new[y + 1] = Quote
      BY <3>1, <3>2, <3>4, <3>5
    <3>7. x + 1 = p + g + 1 /\ y - 1 = p + q - 2
      BY <1>4, <1>5, <3>5
    <3>8. \A k \in (x + 1)..(y - 1) : new[k + 1] \in Letters \cup Blanks
      BY <3>3, <3>7
    <3>9. IsQuoted(new, x, y)
      BY <3>6, <3>8 DEF IsQuoted
    <3> QED
      BY <3>5, <3>9
  <2> QED
    BY <1>3, <2>1, <2>2 DEF Adds
<1>11. Laid(new, m, n + 1, bb, ee)
  <2>1. new \in Seq(Received) /\ m \in 1..Len(new) /\ n + 1 \in Nat
    BY <1>4, <1>5
  <2>2. \A k \in 0..(m - 1) : new[k + 1] \in Letters
    <3>1. \A k \in 0..(m - 1) : k \in 0..(p - 1)
      BY <1>4, <1>5
    <3> QED
      BY <1>2, <1>6, <3>1 DEF Laid
  <2>3. ASSUME NEW j \in 1..(n + 1)
        PROVE  bb[j] \in (m + 1)..(Len(new) - 1) /\ ee[j] \in bb[j]..(Len(new) - 1)
    <3>1. CASE j \in 1..n
      <4>1. b[j] \in Int /\ e[j] \in Int /\ m < b[j] /\ b[j] <= e[j] /\ e[j] < p
        BY <1>9, <3>1
      <4>2. m \in Int /\ p \in Int /\ Len(new) \in Int /\ p <= Len(new) /\ bb[j] = b[j] /\ ee[j] = e[j]
        BY <1>4, <1>5, <1>8, <3>1
      <4> QED
        BY <4>1, <4>2
    <3>2. CASE j = n + 1
      BY <1>4, <1>5, <1>8, <3>2
    <3> QED
      BY <1>8, <3>1, <3>2
  <2>4. ASSUME NEW j \in 1..(n + 1) PROVE IsPlain(new, bb[j], ee[j]) \/ IsQuoted(new, bb[j], ee[j])
    <3>1. CASE j = n + 1
      BY <1>8, <1>10, <3>1
    <3>2. CASE j \in 1..n
      <4>1. b[j] \in Int /\ e[j] \in Int /\ m < b[j] /\ b[j] <= e[j] /\ e[j] < p
        BY <1>9, <3>2
      <4>2. \A k \in b[j]..e[j] : new[k + 1] = line[k + 1]
        <5>1. \A k \in b[j]..e[j] : k \in 0..(p - 1)
          BY <1>4, <1>5, <4>1
        <5> QED
          BY <1>6, <5>1
      <4>3. CASE IsPlain(line, b[j], e[j])
        BY <1>8, <3>2, <4>2, <4>3 DEF IsPlain
      <4>4. CASE IsQuoted(line, b[j], e[j])
        <5>1. b[j] \in b[j]..e[j] /\ e[j] \in b[j]..e[j]
              /\ \A k \in (b[j] + 1)..(e[j] - 1) : k \in b[j]..e[j]
          BY <4>1
        <5>2. IsQuoted(new, b[j], e[j])
          BY <4>2, <4>4, <5>1 DEF IsQuoted
        <5> QED
          BY <1>8, <3>2, <5>2
      <4> QED
        BY <1>2, <3>2, <4>3, <4>4 DEF Laid
    <3> QED
      BY <1>8, <3>1, <3>2
  <2>5. ASSUME NEW i \in 1..(n + 1), NEW j \in 1..(n + 1), i < j PROVE ee[i] + 1 < bb[j]
    <3>1. i \in 1..n
      BY <1>5, <2>5
    <3>2. CASE j \in 1..n
      <4>1. e[i] + 1 < b[j]
        BY <1>2, <2>5, <3>1, <3>2 DEF Laid
      <4> QED
        BY <1>8, <3>1, <3>2, <4>1
    <3>3. CASE j = n + 1
      <4>1. e[i] \in Int /\ e[i] < p
        BY <1>9, <3>1
      <4> QED
        <5>1. p \in Nat /\ g \in Int /\ g >= 1 /\ bb[j] = p + g /\ ee[i] = e[i]
          <6>1. bb[j] = p + g /\ ee[i] = e[i]
            BY <1>8, <3>1, <3>3
          <6> QED
            BY <1>4, <1>5, <6>1
        <5> QED
          BY <4>1, <5>1
    <3> QED
      BY <1>8, <3>2, <3>3
  <2>6. ASSUME NEW k \in m..(Len(new) - 1)
        PROVE  new[k + 1] \in Blanks \/ \E j \in 1..(n + 1) : k \in bb[j]..ee[j]
    <3>1. CASE k < p
      <4>1. k \in m..(p - 1) /\ k \in 0..(p - 1)
        BY <1>4, <1>5, <3>1
      <4>2. new[k + 1] = line[k + 1]
        BY <1>6, <4>1
      <4>3. line[k + 1] \in Blanks \/ \E j \in 1..n : k \in b[j]..e[j]
        BY <1>2, <1>3, <4>1 DEF Laid
      <4>4. \A j \in 1..n : j \in 1..(n + 1) /\ bb[j] = b[j] /\ ee[j] = e[j]
        BY <1>5, <1>8
      <4> QED
        BY <4>2, <4>3, <4>4
    <3>2. CASE p <= k /\ k < p + g
      <4>1. PICK i : i = k + 1 - p
        OBVIOUS
      <4>2. i \in 1..q /\ i \in 1..g /\ p + i = k + 1
        BY <1>4, <1>5, <3>2, <4>1
      <4>3. new[k + 1] = t[i] /\ t[i] \in Blanks
        BY <1>4, <4>2 DEF Adds
      <4> QED
        BY <4>3
    <3>3. CASE p + g <= k
      <4>1. n + 1 \in 1..(n + 1) /\ k \in bb[n + 1]..ee[n + 1]
        BY <1>4, <1>5, <1>8, <3>3
      <4> QED
        BY <4>1
    <3> QED
      BY <1>4, <1>5, <3>1, <3>2, <3>3
  <2>7. new[m + 1] = Space
    <3>1. CASE n = 0
      <4>1. words = <<>>
        BY <1>2, <3>1
      <4>2. line = cmd /\ DOMAIN line = 1..p
        BY <1>2, <1>3, <4>1 DEF Laid
      <4>3. 1..m = 1..p
        BY <1>2, <4>2
      <4>4. m = p
        BY <1>4, <1>5, <4>3
      <4>5. 1 \in 1..q
        BY <1>4, <1>5
      <4> QED
        BY <1>4, <4>4, <4>5 DEF Adds
    <3>2. CASE n # 0
      <4>1. n \in 1..n
        BY <1>5, <3>2
      <4>2. m \in 0..(p - 1)
        <5>1. b[n] \in Int /\ e[n] \in Int /\ m < b[n] /\ b[n] <= e[n] /\ e[n] < p
          BY <1>9, <4>1
        <5> QED
          BY <1>4, <1>5, <5>1
      <4> QED
        BY <1>2, <1>6, <3>2, <4>2 DEF Laid
    <3> QED
      BY <3>1, <3>2
  <2> QED
    BY <2>1, <2>2, <2>3, <2>4, <2>5, <2>6, <2>7 DEF Laid
<1>12. cmd = [k \in 1..m |-> new[k]]
  <2>1. \A k \in 1..m : new[k] = line[k]
    BY <1>4, <1>5
  <2> QED
    BY <1>2, <2>1
<1>13. /\ Append(words, word) \in Seq(Seq(Received)) /\ Len(Append(words, word)) = n + 1
       /\ Append(words, word)[n + 1] = word
       /\ \A j \in 1..n : Append(words, word)[j] = words[j]
  <2>1. word \in Seq(Received)
    BY DEF Adds
  <2> QED
    BY <1>2, <2>1, AppendProperties
<1>14. ASSUME NEW j \in 1..n
       PROVE  words[j] = [k \in 1..(To(new, e[j]) - From(new, b[j])) |-> new[From(new, b[j]) + k]]
  <2>1. PICK x, y : x = From(line, b[j]) /\ y = To(line, e[j])
    OBVIOUS
  <2>2. /\ x \in Int /\ y \in Int /\ 0 <= x /\ y <= p
        /\ From(new, b[j]) = x /\ To(new, e[j]) = y
    BY <1>9, <2>1
  <2>3. \A k \in 1..(y - x) : new[x + k] = line[x + k]
    <3>1. \A k \in 1..(y - x) : x + k \in 1..p
      BY <1>4, <2>2
    <3> QED
      BY <1>4, <3>1
  <2>4. words[j] = [k \in 1..(y - x) |-> line[x + k]]
    BY <1>1, <2>1 DEF SpellsAt
  <2> QED
    BY <2>2, <2>3, <2>4
<1>15. word = [k \in 1..(To(new, p + q - 1) - From(new, p + g)) |-> new[From(new, p + g) + k]]
  <2>1. /\ new[p + g + 1] = t[g + 1] /\ new[p + q - 1 + 1] = t[q]
        /\ p + q - 1 + 1 = p + q
    <3>1. p + q - 1 + 1 = p + q /\ q \in 1..q /\ g \in 0..(q - 1)
      BY <1>4, <1>5
    <3> QED
      BY <1>4, <1>7, <3>1
  <2>2. CASE /\ \A k \in (g + 1)..q : t[k] \in Letters
             /\ word = [k \in 1..(q - g) |-> t[g + k]]
    <3>1. t[g + 1] # Quote /\ t[q] # Quote
      <4>1. g + 1 \in (g + 1)..q /\ q \in (g + 1)..q
        BY <1>4, <1>5
      <4> QED
        BY <2>2, <4>1, Kinds
    <3>2. From(new, p + g) = p + g /\ To(new, p + q - 1) = p + q
      BY <2>1, <3>1 DEF From, To
    <3>3. (p + q) - (p + g) = q - g
      BY <1>4, <1>5
    <3>4. \A k \in 1..(q - g) : new[p + g + k] = t[g + k]
      <4> SUFFICES ASSUME NEW k \in 1..(q - g) PROVE new[p + g + k] = t[g + k]
        OBVIOUS
      <4>1. g + k \in 1..q /\ p + (g + k) = p + g + k
        BY <1>4, <1>5
      <4> QED
        BY <1>4, <4>1
    <3> QED
      BY <2>2, <3>2, <3>3, <3>4
  <2>3. CASE /\ g + 1 < q /\ t[g + 1] = Quote /\ t[q] = Quote
             /\ word = [k \in 1..(q - g - 2) |-> t[g + 1 + k]]
    <3>1. From(new, p + g) = p + g + 1 /\ To(new, p + q - 1) = p + q - 1
      BY <2>1, <2>3 DEF From, To
    <3>2. (p + q - 1) - (p + g + 1) = q - g - 2
      BY <1>4, <1>5
    <3>3. \A k \in 1..(q - g - 2) : new[p + g + 1 + k] = t[g + 1 + k]
      <4> SUFFICES ASSUME NEW k \in 1..(q - g - 2) PROVE new[p + g + 1 + k] = t[g + 1 + k]
        OBVIOUS
      <4>1. g + 1 + k \in 1..q /\ p + (g + 1 + k) = p + g + 1 + k
        BY <1>4, <1>5
      <4> QED
        BY <1>4, <4>1
    <3> QED
      BY <2>3, <3>1, <3>2, <3>3
  <2> QED
    BY <1>3, <2>2, <2>3 DEF Adds
<1>16. \A j \in 1..(n + 1) :
         Append(words, word)[j] =
           [k \in 1..(To(new, ee[j]) - From(new, bb[j])) |-> new[From(new, bb[j]) + k]]
  <2> SUFFICES ASSUME NEW j \in 1..(n + 1)
               PROVE  Append(words, word)[j] =
                        [k \in 1..(To(new, ee[j]) - From(new, bb[j])) |-> new[From(new, bb[j]) + k]]
    OBVIOUS
  <2>1. CASE j = n + 1
    BY <1>8, <1>13, <1>15, <2>1
  <2>2. CASE j \in 1..n
    BY <1>8, <1>13, <1>14, <2>2
  <2> QED
    BY <1>8, <2>1, <2>2
<1>17. SpellsAt(new, cmd, Append(words, word), m, n + 1, bb, ee)
  BY <1>11, <1>12, <1>13, <1>16 DEF SpellsAt
<1>18. Spells(new, cmd, Append(words, word))
  BY <1>17 DEF Spells
<1> QED
  BY <1>3, <1>18

\* A word in one of its forms, set apart by a space, is such a piece.
LEMMA FormAdds ==
  ASSUME NEW gap \in Gaps, NEW f \in Forms
  PROVE  Adds(<<Space>> \o gap \o f.form, 1 + Len(gap), f.word)
<1>1. gap \in Seq(Blanks) /\ \A k \in 1..Len(gap) : gap[k] \in Blanks
  <2>1. Space \in Blanks /\ Tab \in Blanks
    BY DEF Blanks
  <2>2. <<>> \in Seq(Blanks) /\ <<Space>> \in Seq(Blanks) /\ <<Tab, Space>> \in Seq(Blanks)
    BY <2>1
  <2>3. gap \in Seq(Blanks)
    BY <2>2 DEF Gaps
  <2> QED
    BY <2>3
<1>2. PICK form, word, front, t, g :
        /\ form = f.form /\ word = f.word /\ front = <<Space>> \o gap
        /\ t = front \o form /\ g = 1 + Len(gap)
  OBVIOUS
<1>3. \/ word \in Seq(Letters) /\ word # <<>> /\ form = word
      \/ word \in Seq(Letters \cup Blanks) /\ form = <<Quote>> \o word \o <<Quote>>
  <2>1. CASE f \in {[form |-> w, word |-> w] : w \in PlainWords}
    <3>1. word \in PlainWords /\ form = word
      BY <1>2, <2>1
    <3>2. PICK m \in 0..2 : word \in [1..m -> Letters]
      BY <3>1 DEF PlainWords, SeqOf
    <3>3. word \in Seq(Letters) /\ word # <<>>
      BY <3>1, <3>2 DEF PlainWords
    <3> QED
      BY <3>1, <3>3
  <2>2. CASE f \in {[form |-> <<Quote>> \o w \o <<Quote>>, word |-> w] : w \in SeqOf(Letters \cup Blanks, 2)}
    <3>1. word \in SeqOf(Letters \cup Blanks, 2) /\ form = <<Quote>> \o word \o <<Quote>>
      <4>1. PICK w \in SeqOf(Letters \cup Blanks, 2) :
              f = [form |-> <<Quote>> \o w \o <<Quote>>, word |-> w]
        BY <2>2
      <4>2. PICK s : s = <<Quote>> \o w \o <<Quote>>
        OBVIOUS
      <4>3. f.form = s /\ f.word = w
        BY <4>1, <4>2
      <4> QED
        BY <1>2, <4>2, <4>3
    <3>2. PICK m \in 0..2 : word \in [1..m -> Letters \cup Blanks]
      BY <3>1 DEF SeqOf
    <3>3. word \in Seq(Letters \cup Blanks)
      BY <3>2
    <3> QED
      BY <3>1, <3>3
  <2> QED
    BY <2>1, <2>2 DEF Forms
<1>4. /\ front \in Seq(Received) /\ Len(front) = g /\ g \in Nat /\ g >= 1 /\ front[1] = Space
      /\ \A k \in 1..g : front[k] \in Blanks
  <2>1. <<Space>> \in Seq(Blanks) /\ Len(<<Space>>) = 1 /\ <<Space>>[1] = Space
    BY Kinds
  <2>2. /\ front \in Seq(Blanks) /\ Len(front) = 1 + Len(gap) /\ Len(gap) \in Nat
        /\ front[1] = Space
    BY <1>1, <1>2, <2>1, InARow
  <2>3. front \in Seq(Received) /\ \A k \in 1..Len(front) : front[k] \in Blanks
    BY <2>2, Kinds
  <2> QED
    BY <1>2, <2>2, <2>3
<1>5. word \in Seq(Received) /\ Len(word) \in Nat
  BY <1>3, Kinds
<1>6. CASE word \in Seq(Letters) /\ word # <<>> /\ form = word
  <2>1. /\ t \in Seq(Received) /\ Len(t) = g + Len(word)
        /\ \A k \in 1..g : t[k] = front[k]
        /\ \A k \in 1..Len(word) : t[g + k] = word[k]
    BY <1>2, <1>4, <1>5, <1>6, InARow
  <2>2. Len(word) > 0 /\ \A k \in 1..Len(word) : word[k] \in Letters
    BY <1>5, <1>6
  <2>3. ASSUME NEW k \in (g + 1)..Len(t) PROVE t[k] \in Letters
    <3>1. PICK i : i = k - g
      OBVIOUS
    <3>2. i \in 1..Len(word) /\ g + i = k
      BY <1>4, <1>5, <2>1, <3>1
    <3> QED
      BY <2>1, <2>2, <3>2
  <2>4. Len(t) - g = Len(word)
    BY <1>4, <1>5, <2>1
  <2>5. word = [k \in 1..Len(word) |-> t[g + k]]
    BY <1>5, <2>1
  <2>6. word = [k \in 1..(Len(t) - g) |-> t[g + k]]
    BY <2>4, <2>5
  <2>7. g \in 1..(Len(t) - 1) /\ t[1] = Space /\ \A k \in 1..g : t[k] \in Blanks
    BY <1>4, <1>5, <2>1, <2>2
  <2> QED
    BY <1>2, <1>5, <2>1, <2>3, <2>6, <2>7 DEF Adds
<1>7. CASE word \in Seq(Letters \cup Blanks) /\ form = <<Quote>> \o word \o <<Quote>>
  <2>1. PICK open, q : open = <<Quote>> \o word /\ q = <<Quote>>
    OBVIOUS
  <2>2. q \in Seq(Received) /\ Len(q) = 1 /\ q[1] = Quote
    BY <2>1, Kinds
  <2>3. /\ open \in Seq(Received) /\ Len(open) = 1 + Len(word) /\ open[1] = Quote
        /\ \A k \in 1..Len(word) : open[1 + k] = word[k]
    <3>1. open = q \o word
      BY <2>1
    <3>2. /\ open \in Seq(Received) /\ Len(open) = Len(q) + Len(word)
          /\ \A k \in 1..Len(q) : open[k] = q[k]
          /\ \A k \in 1..Len(word) : open[Len(q) + k] = word[k]
      <4>1. q \in Seq(Received) /\ word \in Seq(Received)
        BY <1>5, <2>2
      <4> QED
        BY <3>1, <4>1, InARow
    <3> QED
      BY <2>2, <3>2
  <2>4. /\ form \in Seq(Received) /\ Len(form) = 1 + Len(word) + 1 /\ form[1] = Quote
        /\ form[1 + Len(word) + 1] = Quote
        /\ \A k \in 1..Len(word) : form[1 + k] = word[k]
    <3>1. form = open \o q
      BY <1>7, <2>1
    <3>2. /\ form \in Seq(Received) /\ Len(form) = Len(open) + Len(q)
          /\ \A k \in 1..Len(open) : form[k] = open[k]
          /\ \A k \in 1..Len(q) : form[Len(open) + k] = q[k]
      <4>1. open \in Seq(Received) /\ q \in Seq(Received)
        BY <2>2, <2>3
      <4> QED
        BY <3>1, <4>1, InARow
    <3>3. 1 \in 1..Len(open) /\ 1 \in 1..Len(q) /\ \A k \in 1..Len(word) : 1 + k \in 1..Len(open)
      BY <1>5, <2>2, <2>3
    <3>4. form[1 + Len(word) + 1] = Quote
      BY <2>2, <2>3, <3>2, <3>3
    <3>5. \A k \in 1..Len(word) : form[1 + k] = word[k]
      BY <2>3, <3>2, <3>3
    <3> QED
      BY <2>2, <2>3, <3>2, <3>3, <3>4, <3>5
  <2>5. /\ t \in Seq(Received) /\ Len(t) = g + Len(form)
        /\ \A k \in 1..g : t[k] = front[k]
        /\ \A k \in 1..Len(form) : t[g + k] = form[k]
    <3>1. front \in Seq(Received) /\ form \in Seq(Received) /\ t = front \o form
      BY <1>2, <1>4, <2>4
    <3>2. /\ t \in Seq(Received) /\ Len(t) = Len(front) + Len(form)
          /\ \A k \in 1..Len(front) : t[k] = front[k]
          /\ \A k \in 1..Len(form) : t[Len(front) + k] = form[k]
      BY <3>1, InARow
    <3> QED
      BY <1>4, <3>2
  <2>6. Len(t) = g + 2 + Len(word) /\ Len(form) \in Nat /\ 1 \in 1..Len(form) /\ Len(form) \in 1..Len(form)
    BY <1>4, <1>5, <2>4, <2>5
  <2>7. t[g + 1] = Quote /\ t[Len(t)] = Quote
    BY <2>4, <2>5, <2>6
  <2>8. ASSUME NEW k \in 1..Len(word) PROVE t[g + 1 + k] = word[k]
    <3>1. 1 + k \in 1..Len(form) /\ g + (1 + k) = g + 1 + k
      BY <1>4, <1>5, <2>4
    <3> QED
      BY <2>4, <2>5, <3>1
  <2>9. ASSUME NEW k \in (g + 2)..(Len(t) - 1) PROVE t[k] \in Letters \cup Blanks
    <3>1. PICK i : i = k - g - 1
      OBVIOUS
    <3>2. i \in 1..Len(word) /\ g + 1 + i = k
      BY <1>4, <1>5, <2>6, <3>1
    <3>3. word[i] \in Letters \cup Blanks
      BY <1>7, <3>2
    <3> QED
      BY <2>8, <3>2, <3>3
  <2>10. Len(t) - g - 2 = Len(word)
    BY <1>4, <1>5, <2>6
  <2>11. word = [k \in 1..Len(word) |-> t[g + 1 + k]]
    BY <1>5, <2>8
  <2>12. word = [k \in 1..(Len(t) - g - 2) |-> t[g + 1 + k]]
    BY <2>10, <2>11
  <2>13. g \in 1..(Len(t) - 1) /\ g + 1 < Len(t) /\ t[1] = Space /\ \A k \in 1..g : t[k] \in Blanks
    BY <1>4, <1>5, <2>5, <2>6
  <2>14. Adds(t, g, word)
    BY <1>5, <2>5, <2>7, <2>9, <2>12, <2>13 DEF Adds
  <2> QED
    BY <1>2, <2>14
<1> QED
  BY <1>3, <1>6, <1>7

\* Up to three pieces in a row.
LEMMA Flattened ==
  ASSUME NEW seqs, NEW n \in 0..3, seqs = [i \in 1..n |-> seqs[i]], Len(seqs) = n
  PROVE  /\ n = 0 => FlattenSeq(seqs) = <<>>
         /\ n = 1 => FlattenSeq(seqs) = seqs[1]
         /\ n = 2 => FlattenSeq(seqs) = seqs[1] \o seqs[2]
         /\ n = 3 => FlattenSeq(seqs) = seqs[1] \o seqs[2] \o seqs[3]
<1>1. CASE n = 0
  <2>1. FlattenSeq(seqs) = seqs
    BY <1>1 DEF FlattenSeq
  <2>2. seqs = <<>>
    BY <1>1
  <2> QED
    BY <1>1, <2>1, <2>2
<1>2. CASE n # 0
  <2> PICK two, three : two = seqs[1] \o seqs[2] /\ three = two \o seqs[3]
    OBVIOUS
  <2> DEFINE Step(f) == [i \in 1..Len(seqs) |-> IF i = 1 THEN seqs[i] ELSE f[i - 1] \o seqs[i]]
             whole == [i \in 1..Len(seqs) |-> IF i = 1 THEN seqs[1] ELSE IF i = 2 THEN two ELSE three]
             flat == CHOOSE f : f = Step(f)
  <2>0. Len(seqs) = n /\ n \in 1..3
    BY <1>2
  <2>1. whole = Step(whole)
    <3>1. ASSUME NEW i \in 1..Len(seqs) PROVE whole[i] = Step(whole)[i]
      <4>1. CASE i = 1
        BY <4>1
      <4>2. CASE i = 2
        <5>1. i - 1 = 1 /\ 1 \in 1..Len(seqs) /\ i # 1
          BY <4>2
        <5>2. whole[i - 1] = seqs[1] /\ whole[i] = two
          BY <4>2, <5>1
        <5>3. Step(whole)[i] = whole[i - 1] \o seqs[i]
          BY <5>1
        <5> HIDE DEF whole, Step
        <5> QED
          BY <4>2, <5>2, <5>3, Zenon
      <4>3. CASE i = 3
        <5>1. i - 1 = 2 /\ 2 \in 1..Len(seqs) /\ i # 1 /\ i # 2 /\ 2 # 1
          BY <4>3
        <5>2. whole[i - 1] = two /\ whole[i] = three
          BY <5>1
        <5>3. Step(whole)[i] = whole[i - 1] \o seqs[i]
          BY <5>1
        <5> HIDE DEF whole, Step
        <5> QED
          BY <4>3, <5>2, <5>3, Zenon
      <4>4. i = 1 \/ i = 2 \/ i = 3
        <5> HIDE DEF Step, whole
        <5> QED
          BY <2>0
      <4> QED
        BY <4>1, <4>2, <4>3, <4>4
    <3> QED
      BY <3>1
  <2>2. flat = Step(flat)
    <3> HIDE DEF Step, whole
    <3> QED
      BY <2>1
  <2>3. FlattenSeq(seqs) = flat[Len(seqs)]
    BY <1>2 DEF FlattenSeq
  <2> HIDE DEF flat
  <2>4. \A i \in 1..Len(seqs) : flat[i] = IF i = 1 THEN seqs[i] ELSE flat[i - 1] \o seqs[i]
    BY <2>2
  <2> HIDE DEF Step, whole
  <2>5. flat[1] = seqs[1]
    <3>1. 1 \in 1..Len(seqs)
      BY <2>0
    <3> QED
      BY <2>4, <3>1
  <2>6. n > 1 => flat[2] = flat[1] \o seqs[2]
    <3>1. n > 1 => 2 \in 1..Len(seqs) /\ 2 # 1 /\ 2 - 1 = 1
      BY <2>0
    <3> QED
      BY <2>4, <3>1
  <2>7. n > 2 => flat[3] = flat[2] \o seqs[3]
    <3>1. n > 2 => 3 \in 1..Len(seqs) /\ 3 # 1 /\ 3 - 1 = 2
      BY <2>0
    <3> QED
      BY <2>4, <3>1
  <2>8. n = 1 => FlattenSeq(seqs) = seqs[1]
    BY <2>0, <2>3, <2>5
  <2>9. n = 2 => FlattenSeq(seqs) = seqs[1] \o seqs[2]
    <3> SUFFICES ASSUME n = 2 PROVE FlattenSeq(seqs) = seqs[1] \o seqs[2]
      OBVIOUS
    <3>1. n > 1 /\ Len(seqs) = 2
      BY <2>0
    <3> QED
      BY <2>3, <2>5, <2>6, <3>1, Zenon
  <2>10. n = 3 => FlattenSeq(seqs) = seqs[1] \o seqs[2] \o seqs[3]
    <3> SUFFICES ASSUME n = 3 PROVE FlattenSeq(seqs) = seqs[1] \o seqs[2] \o seqs[3]
      OBVIOUS
    <3>1. n > 1 /\ n > 2 /\ Len(seqs) = 3
      BY <2>0
    <3> QED
      BY <2>3, <2>5, <2>6, <2>7, <3>1, Zenon
  <2> QED
    BY <1>2, <2>8, <2>9, <2>10, Zenon
<1> QED
  BY <1>1, <1>2

\* A name and up to three words in their forms.
LEMMA ArgumentsSpelled ==
  ASSUME NEW w \in PlainWords, NEW gap \in Gaps, NEW n \in 0..3, NEW fs \in [1..n -> Forms]
  PROVE  Spells(w \o FlattenSeq([i \in 1..n |-> <<Space>> \o gap \o fs[i].form]), w,
                [i \in 1..n |-> fs[i].word])
<1> DEFINE Piece(i) == <<Space>> \o gap \o fs[i].form
           PieceWord(i) == fs[i].word
           pieces == [i \in 1..n |-> Piece(i)]
           words  == [i \in 1..n |-> PieceWord(i)]
<1>0. \A s, t, u \in Seq(Received) : (s \o t) \o u = s \o (t \o u)
  OBVIOUS
<1>1. ASSUME NEW i \in 1..n PROVE Adds(pieces[i], 1 + Len(gap), words[i])
  BY FormAdds
<1>2. \A i \in 1..n : pieces[i] \in Seq(Received) /\ words[i] \in Seq(Received)
  <2> HIDE DEF pieces, words
  <2> QED
    BY <1>1 DEF Adds
<1>3. /\ pieces = [i \in 1..n |-> pieces[i]] /\ Len(pieces) = n
      /\ words = [i \in 1..n |-> words[i]] /\ Len(words) = n
  <2> HIDE DEF Piece, PieceWord
  <2> QED
    OBVIOUS
<1> HIDE DEF pieces, words
<1>4. Spells(w, w, <<>>) /\ w \in Seq(Received)
  BY NameSpelled
<1>5. CASE n = 0
  <2>1. FlattenSeq(pieces) = <<>>
    BY <1>3, <1>5, Flattened
  <2>2. w \o <<>> = w
    BY <1>4, ConcatEmptySeq
  <2>3. words = <<>>
    BY <1>3, <1>5
  <2> QED
    BY <1>4, <2>1, <2>2, <2>3, Zenon DEF pieces, words
<1>6. ASSUME n # 0
      PROVE  /\ Spells(w \o pieces[1], w, Append(<<>>, words[1]))
             /\ w \o pieces[1] \in Seq(Received) /\ Append(<<>>, words[1]) # <<>>
  <2>1. 1 \in 1..n
    BY <1>6
  <2>2. w \o pieces[1] \in Seq(Received) /\ Append(<<>>, words[1]) # <<>>
    BY <1>2, <1>4, <2>1
  <2> QED
    BY <1>1, <1>4, <2>1, <2>2, MoreSpelled
<1>7. ASSUME n > 1
      PROVE  /\ Spells(w \o pieces[1] \o pieces[2], w, Append(Append(<<>>, words[1]), words[2]))
             /\ Append(Append(<<>>, words[1]), words[2]) # <<>>
  <2>1. 1 \in 1..n /\ 2 \in 1..n /\ n # 0
    BY <1>7
  <2>2. Append(Append(<<>>, words[1]), words[2]) # <<>>
    <3>1. <<>> \in Seq(Seq(Received)) /\ words[1] \in Seq(Received) /\ words[2] \in Seq(Received)
      BY <1>2, <2>1
    <3>2. Append(<<>>, words[1]) \in Seq(Seq(Received))
      BY <3>1, AppendProperties
    <3> QED
      BY <3>1, <3>2, AppendProperties
  <2> QED
    BY <1>1, <1>6, <2>1, <2>2, MoreSpelled
<1>8. ASSUME n > 2
      PROVE  Spells(w \o pieces[1] \o pieces[2] \o pieces[3], w,
                    Append(Append(Append(<<>>, words[1]), words[2]), words[3]))
  <2>1. 3 \in 1..n /\ n > 1
    BY <1>8
  <2> QED
    BY <1>1, <1>7, <2>1, MoreSpelled
<1>9. CASE n = 1
  <2>1. FlattenSeq(pieces) = pieces[1]
    BY <1>3, <1>9, Flattened
  <2>2. words = Append(<<>>, words[1])
    BY <1>3, <1>9
  <2>3. Spells(w \o FlattenSeq(pieces), w, words)
    BY <1>6, <1>9, <2>1, <2>2
  <2> QED
    BY <2>3 DEF pieces, words
<1>10. CASE n = 2
  <2>1. FlattenSeq(pieces) = pieces[1] \o pieces[2]
    BY <1>3, <1>10, Flattened
  <2>2. words = Append(Append(<<>>, words[1]), words[2])
    BY <1>3, <1>10
  <2>3. pieces[1] \in Seq(Received) /\ pieces[2] \in Seq(Received)
    BY <1>2, <1>10
  <2>4. (w \o pieces[1]) \o pieces[2] = w \o (pieces[1] \o pieces[2])
    BY <1>0, <1>4, <2>3, Zenon
  <2>5. n > 1
    BY <1>10
  <2>6. Spells(w \o FlattenSeq(pieces), w, words)
    BY <1>7, <2>1, <2>2, <2>4, <2>5, Zenon
  <2> QED
    BY <2>6 DEF pieces, words
<1>11. CASE n = 3
  <2>1. FlattenSeq(pieces) = pieces[1] \o pieces[2] \o pieces[3]
    BY <1>3, <1>11, Flattened
  <2>2. words = Append(Append(Append(<<>>, words[1]), words[2]), words[3])
    BY <1>3, <1>11
  <2>3. pieces[1] \in Seq(Received) /\ pieces[2] \in Seq(Received) /\ pieces[3] \in Seq(Received)
    BY <1>2, <1>11
  <2>4. PICK p, q : p = pieces[1] \o pieces[2] /\ q = w \o pieces[1]
    OBVIOUS
  <2>5. p \in Seq(Received) /\ q \in Seq(Received)
    BY <1>4, <2>3, <2>4, InARow
  <2>6. q \o pieces[2] = w \o p
    BY <1>0, <1>4, <2>3, <2>4, Zenon
  <2>7. (w \o p) \o pieces[3] = w \o (p \o pieces[3])
    BY <1>0, <1>4, <2>3, <2>5, Zenon
  <2>8. n > 2
    BY <1>11
  <2>9. Spells(w \o FlattenSeq(pieces), w, words)
    BY <1>8, <2>1, <2>2, <2>4, <2>6, <2>7, <2>8, Zenon
  <2> QED
    BY <2>9 DEF pieces, words
<1> QED
  BY <1>5, <1>9, <1>10, <1>11

\* Requests are spelled as a name and words.
LEMMA RequestSpelled ==
  ASSUME NEW r \in Requests
  PROVE  Spells(r.line, r.name, r.words)
<1>1. PICK w \in PlainWords, a \in UNION {Arguments(n) : n \in 0..3}, gap \in Gaps :
        r = Request(w, a, gap)
  BY DEF Requests
<1>2. PICK n \in 0..3 : a \in Arguments(n)
  OBVIOUS
<1>3. PICK fs \in [1..n -> Forms], inner \in Gaps : a = Argument(n, fs, inner)
  BY <1>2 DEF Arguments
<1>4. PICK flat, words : /\ flat = FlattenSeq([i \in 1..n |-> <<Space>> \o inner \o fs[i].form])
                         /\ words = [i \in 1..n |-> fs[i].word]
  OBVIOUS
<1>5. a.line = flat /\ a.words = words
  <2>1. a = [line |-> flat, words |-> words]
    BY <1>3, <1>4 DEF Argument
  <2> QED
    BY <2>1
<1>6. Spells(w \o flat, w, words)
  BY <1>4, ArgumentsSpelled
<1>7. gap \in Seq(Blanks)
  <2>1. Space \in Blanks /\ Tab \in Blanks
    BY DEF Blanks
  <2>2. <<>> \in Seq(Blanks) /\ <<Space>> \in Seq(Blanks) /\ <<Tab, Space>> \in Seq(Blanks)
    BY <2>1
  <2> QED
    BY <2>2 DEF Gaps
<1>8. Spells(w \o flat \o gap, w, words)
  BY <1>6, <1>7, TrailSpelled
<1>9. PICK line : line = w \o flat \o gap
  OBVIOUS
<1>10. r = [line |-> line, name |-> w, words |-> words]
  BY <1>1, <1>5, <1>9 DEF Request
<1>11. r.line = line /\ r.name = w /\ r.words = words
  BY <1>10
<1> QED
  BY <1>8, <1>9, <1>11

\* What a client wrote as words arrives as the same words, whatever earlier
\* lines left in the buffer and however recv cut them: the name, the arguments
\* with the blanks in quotes kept, and of too many as many as argv has room for.
THEOREM WordsArrive == Spec => []WordsAsSent
<1>1. WordsAsSpelled => WordsAsSent
  <2> SUFFICES ASSUME WordsAsSpelled, pc \in {"named", "call"},
                      NEW r \in Requests, r.line = Last(lines)
               PROVE  /\ String(name) = r.name
                      /\ pc = "named" => (args = NUL <=> r.words = <<>>)
                      /\ pc = "call" => /\ Len(argv) = Least(Len(r.words), MaxArgs)
                                        /\ \A i \in DOMAIN argv : String(argv[i]) = r.words[i]
    BY DEF WordsAsSent
  <2>1. Spells(Last(lines), r.name, r.words)
    BY RequestSpelled
  <2> QED
    BY <2>1 DEF WordsAsSpelled
<1> QED
  BY <1>1, AnyWordsArrive, PTL

=============================================================================

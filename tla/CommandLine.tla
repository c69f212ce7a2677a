---------------------------- MODULE CommandLine ----------------------------
(***************************************************************************)
(* From the bytes of a connection to the words of a command: handle_client *)
(* (src/src/server/handle_client.c) cuts what recv delivers into lines,    *)
(* process_command (src/src/server/server_commands.c) trims a line and     *)
(* takes the command's name off, split_args finds the arguments.           *)
(*                                                                         *)
(* This is one thread of a handler, alone: strtok's shared pointer is in   *)
(* Sessions, descriptors and the calls of recv in Connections.  The buffer *)
(* is on the stack and keeps what earlier lines, or others before them,    *)
(* left in it.                                                             *)
(*                                                                         *)
(* Abstractions: a byte is a letter, one of the blanks, a quote or the end *)
(* of a line (CR or LF), and no NUL is received; whether the command is    *)
(* known, may be used and takes arguments is a choice; strtoupper is left  *)
(* out.  Beyond the end of the buffer nothing is known, and the thread is  *)
(* followed no further (wild).                                             *)
(***************************************************************************)
EXTENDS Integers, Sequences, FiniteSetsExt, SequencesExt

CONSTANTS
  Letters,       \* bytes that are nothing special
  Space, Tab,    \* both isspace, but the first alone ends a command's name
  Quote, Eol,
  NUL,           \* the byte that ends a string; of args, the null pointer
  Cap,           \* BUFFER_SIZE
  MaxArgs,       \* MAX_ARGS: words argv has room for
  Fills,         \* what the stack may hold where the buffer is
  MaxBytes,      \* bound: bytes received on a connection
  MaxChunk       \* bound: bytes in one recv

Blanks   == {Space, Tab}
Received == Letters \cup Blanks \cup {Quote, Eol}
Places   == 0..(Cap - 1)

ASSUME ConstantsOK ==
  /\ Cap \in Nat \ {0} /\ MaxArgs \in Nat \ {0}
  /\ NUL \notin Received /\ NUL \notin 0..Cap /\ Letters \cap (Blanks \cup {Quote, Eol}) = {}
  /\ Space # Tab /\ Quote \notin Blanks /\ Eol \notin Blanks \cup {Quote}
  /\ Fills # {} /\ Fills \subseteq [Places -> Received \cup {NUL}]
  /\ MaxBytes \in Nat /\ MaxChunk \in Nat

VARIABLES
  input,    \* what is left of the bytes recv delivered
  buffer,   \* command_buffer
  length,   \* command_length
  pc,       \* "read", "line", "named", "split", "call" or "wild"
  name,     \* where cmd begins
  args,     \* where the next argument is looked for, NUL for none
  argv,     \* where the words found begin
  heard,    \* history: all bytes taken from recv's buffer
  lines     \* history: the lines process_command was called with

vars == <<input, buffer, length, pc, name, args, argv, heard, lines>>

Init ==
  /\ input = <<>> /\ buffer \in Fills /\ length = 0
  /\ pc = "read" /\ name = 0 /\ args = NUL /\ argv = <<>>
  /\ heard = <<>> /\ lines = <<>>

(***************************************************************************)
(* handle_client                                                           *)
(***************************************************************************)
Recv(bytes) ==
  /\ pc = "read" /\ input = <<>>
  /\ Len(heard) + Len(bytes) <= MaxBytes
  /\ input' = bytes
  /\ UNCHANGED <<buffer, length, pc, name, args, argv, heard, lines>>

\* The next byte of the loop over what recv delivered.
NextByte ==
  /\ pc = "read" /\ input # <<>>
  /\ input' = Tail(input) /\ heard' = Append(heard, Head(input))

BugAppendByte ==   \* mutant: the last place of the buffer is used as well
  /\ NextByte /\ Head(input) # Eol
  /\ IF length < Cap
     THEN buffer' = [buffer EXCEPT ![length] = Head(input)] /\ length' = length + 1
     ELSE UNCHANGED <<buffer, length>>
  /\ UNCHANGED <<pc, name, args, argv, lines>>

\* What does not fit is dropped: a place is kept for the NUL.
AppendByte ==
  /\ NextByte /\ Head(input) # Eol
  /\ IF length < Cap - 1
     THEN buffer' = [buffer EXCEPT ![length] = Head(input)] /\ length' = length + 1
     ELSE UNCHANGED <<buffer, length>>
  /\ UNCHANGED <<pc, name, args, argv, lines>>

\* The end of a line that is not empty: process_command is called.
EndLine ==
  /\ NextByte /\ Head(input) = Eol
  /\ buffer' = [buffer EXCEPT ![length] = NUL]
  /\ IF length > 0
     THEN /\ pc' = "line"
          /\ lines' = Append(lines, [k \in 1..length |-> buffer[k - 1]])
     ELSE UNCHANGED <<pc, lines>>
  /\ UNCHANGED <<length, name, args, argv>>

BugDone(p) ==   \* mutant: the length is reset only when the command was split
  /\ pc = p
  /\ pc' = "read" /\ length' = (IF p = "call" THEN 0 ELSE length)
  /\ name' = 0 /\ args' = NUL /\ argv' = <<>>
  /\ UNCHANGED <<input, buffer, heard, lines>>

\* process_command has returned.
Done(p) ==
  /\ pc = p
  /\ pc' = "read" /\ length' = 0
  /\ name' = 0 /\ args' = NUL /\ argv' = <<>>
  /\ UNCHANGED <<input, buffer, heard, lines>>

(***************************************************************************)
(* process_command                                                         *)
(***************************************************************************)
\* Where bytes of S are, from the place i up to, not including, j.
Where(i, j, S) == {k \in i..(j - 1) : buffer[k] \in S}

NotBlank == (Received \cup {NUL}) \ Blanks

\* The name starts at the first byte that is no space, and ends at the next
\* space or with the line; what follows are the arguments.
Named(last) ==
  LET first == Min(Where(0, last + 1, Received \ {Space}))
      ends  == Where(first, last + 1, {Space})
  IN  /\ name' = first
      /\ args' = IF ends = {} THEN NUL ELSE Min(ends) + 1
      /\ buffer' = [k \in Places |-> IF k \in (last + 1)..(length - 1) \/ (ends # {} /\ k = Min(ends))
                                     THEN NUL ELSE buffer[k]]

\* Blanks at the end are overwritten, and strtok takes the name off.  A line
\* of blanks is no command.
TakeName ==
  /\ pc = "line" /\ pc' = "named"
  /\ LET kept == Where(0, length, Received \ Blanks) IN
     IF kept = {}
     THEN /\ buffer' = [k \in Places |-> IF k < length THEN NUL ELSE buffer[k]]
          /\ UNCHANGED <<name, args>>
     ELSE Named(Max(kept))
  /\ UNCHANGED <<input, length, argv, heard, lines>>

\* No command, an unknown one, one that is refused or takes no arguments.
Unsplit == Done("named")

BeginSplit ==
  /\ pc = "named" /\ args # NUL
  /\ pc' = "split"
  /\ UNCHANGED <<input, buffer, length, name, args, argv, heard, lines>>

(***************************************************************************)
(* split_args                                                              *)
(***************************************************************************)
\* The first place from i on with a byte of S; Cap when the buffer has none.
FirstOf(i, S) == IF i < Cap /\ Where(i, Cap, S) # {} THEN Min(Where(i, Cap, S)) ELSE Cap

\* Where the next word would begin.
Start == FirstOf(args, NotBlank)

\* Where it would end: at the next quote if it begins with one, else at a blank.
WordEnd == IF buffer[Start] = Quote THEN FirstOf(Start + 1, {Quote, NUL})
           ELSE FirstOf(Start, Blanks \cup {NUL})

Searching == pc = "split" /\ args < Cap /\ buffer[args] # NUL /\ Len(argv) < MaxArgs

BugWord(i, j, next) ==   \* mutant: the word is not ended
  /\ argv' = Append(argv, i)
  /\ args' = next
  /\ UNCHANGED <<input, buffer, length, pc, name, heard, lines>>

\* A word of argv from the place i to j, where a NUL is written, and the
\* search goes on at next.
Word(i, j, next) ==
  /\ argv' = Append(argv, i)
  /\ buffer' = [buffer EXCEPT ![j] = NUL]
  /\ args' = next
  /\ UNCHANGED <<input, length, pc, name, heard, lines>>

\* Up to the next quote.  With none the word is the rest of the line, and the
\* pointer is moved past the NUL at its end.
Quoted ==
  /\ Searching /\ Start < Cap /\ buffer[Start] = Quote /\ WordEnd < Cap
  /\ Word(Start + 1, WordEnd, WordEnd + 1)

BugPlain ==   \* mutant: the pointer is moved past the NUL at the end of the line
  /\ Searching /\ Start < Cap /\ buffer[Start] \notin {Quote, NUL} /\ WordEnd < Cap
  /\ Word(Start, WordEnd, WordEnd + 1)

\* Up to the next blank or the end.
Plain ==
  /\ Searching /\ Start < Cap /\ buffer[Start] \notin {Quote, NUL} /\ WordEnd < Cap
  /\ Word(Start, WordEnd, IF buffer[WordEnd] = NUL THEN WordEnd ELSE WordEnd + 1)

\* No more words, or no more room in argv: the handler is called.
EndSplit ==
  /\ pc = "split" /\ args < Cap
  /\ \/ buffer[args] = NUL
     \/ Len(argv) = MaxArgs
     \/ Start < Cap /\ buffer[Start] = NUL
  /\ pc' = "call"
  /\ UNCHANGED <<input, buffer, length, name, args, argv, heard, lines>>

\* A search has come to the end of the buffer.
Overrun ==
  /\ pc = "split"
  /\ \/ args = Cap
     \/ Searching /\ IF Start = Cap THEN TRUE ELSE WordEnd = Cap
  /\ pc' = "wild"
  /\ UNCHANGED <<input, buffer, length, name, args, argv, heard, lines>>

Called == Done("call")

-----------------------------------------------------------------------------
Chunks == SeqOf(Received, MaxChunk) \ {<<>>}

Next ==
  \/ \E bytes \in Chunks : Recv(bytes)
  \/ AppendByte \/ EndLine
  \/ TakeName \/ Unsplit \/ BeginSplit
  \/ Quoted \/ Plain \/ EndSplit \/ Overrun
  \/ Called

Spec == Init /\ [][Next]_vars

-----------------------------------------------------------------------------
(***************************************************************************)
(* Properties                                                              *)
(***************************************************************************)
\* Types: there is always room for the NUL, and argv has MAX_ARGS words at most.
TypeOK ==
  /\ input \in Seq(Received) /\ heard \in Seq(Received)
  /\ buffer \in [Places -> Received \cup {NUL}]
  /\ length \in Places
  /\ pc \in {"read", "line", "named", "split", "call", "wild"}
  /\ name \in Places /\ args \in 0..Cap \cup {NUL}
  /\ Len(argv) <= MaxArgs /\ \A i \in DOMAIN argv : argv[i] \in 0..Cap
  /\ \A i \in DOMAIN lines : lines[i] \in Seq(Received)

Least(a, b) == IF a <= b THEN a ELSE b

\* The places of heard where a line ends that is not empty.
LineEnds == {j \in 2..Len(heard) : heard[j] = Eol /\ heard[j - 1] # Eol}

\* The line that ends there.
LineAt(j) ==
  LET first == Max({0} \cup {i \in 1..(j - 1) : heard[i] = Eol}) + 1
  IN  SubSeq(heard, first, Least(j - 1, first + Cap - 2))

\* However recv cuts the bytes into pieces, process_command is called with the
\* lines that were sent, once each and in order; of a line that is too long,
\* with what fits.
LinesAsSent == lines = [n \in 1..Cardinality(LineEnds) |->
                          LineAt(CHOOSE j \in LineEnds : Cardinality({i \in LineEnds : i < j}) = n - 1)]

\* A string of C from the place i on.
String(i) == [k \in 1..(FirstOf(i, {NUL}) - i) |-> buffer[i + k - 1]]

\* How a client writes a word: as it is if it has neither blank nor quote in
\* it and is not empty, or in quotes.
PlainWords == SeqOf(Letters, 2) \ {<<>>}
Forms == {[form |-> w, word |-> w] : w \in PlainWords}
         \cup {[form |-> <<Quote>> \o w \o <<Quote>>, word |-> w] : w \in SeqOf(Letters \cup Blanks, 2)}
Gaps  == {<<>>, <<Space>>, <<Tab, Space>>}

\* Up to three words, the first set apart by a space, with more blanks between
\* them than needed.
Argument(n, fs, gap) ==
  [line |-> FlattenSeq([i \in 1..n |-> <<Space>> \o gap \o fs[i].form]),
   words |-> [i \in 1..n |-> fs[i].word]]
Arguments(n) == {Argument(n, fs, gap) : fs \in [1..n -> Forms], gap \in Gaps}

\* Requests of a name and such words; of these, what fits in a line.
Request(w, a, gap) == [line |-> w \o a.line \o gap, name |-> w, words |-> a.words]
Requests ==
  {r \in {Request(w, a, gap) : w \in PlainWords, a \in UNION {Arguments(n) : n \in 0..3}, gap \in Gaps} :
     Len(r.line) < Cap}

\* What a client wrote as words arrives as the same words, whatever earlier
\* lines left in the buffer: the name, the arguments with the blanks in quotes
\* kept, and of too many as many as argv has room for.
WordsAsSent ==
  pc \in {"named", "call"} =>
    \A r \in Requests : r.line = Last(lines) =>
      /\ String(name) = r.name
      /\ pc = "named" => (args = NUL <=> r.words = <<>>)
      /\ pc = "call" => /\ Len(argv) = Least(Len(r.words), MaxArgs)
                        /\ \A i \in DOMAIN argv : String(argv[i]) = r.words[i]

\* Where the last line has its last quote.
LastQuote == Max({0} \cup {k \in DOMAIN Last(lines) : Last(lines)[k] = Quote})

\* The search for words leaves the line, for the bytes of earlier ones or the
\* end of the buffer, only if the line's last quote opens a word.
StaysInLine ==
  pc \in {"split", "call", "wild"} =>
    \/ pc # "wild" /\ args <= length /\ \A i \in DOMAIN argv : argv[i] <= length
    \/ LastQuote # 0 /\ \E i \in DOMAIN argv : argv[i] = LastQuote

=============================================================================

# Formal models of TeleTexter

TeleTexter (`src/`) is a C program for a Raspberry Pi: it listens on a TCP
port, takes one-line commands from its clients and shows messages on an I2C
character display. This directory holds TLA+ models of it, the TLC
configurations that check them on small instances, and TLAPS proofs of their
main properties for all values of the constants.

## The system

| Component | Code | State | Operations |
|---|---|---|---|
| Message board | `message/message.c`, `server/handle_msg.c` | table `messages`, the global `currentMessage`, the rowid sqlite keeps per connection | `MSG_CREATE`, `MSG_NEXT`, `MSG_PREV`, `MSG_LATEST`, `MSG_DEL` |
| Connections | `server/server.c`, `server/handle_client.c` | descriptors, the array `clients` and its mutex, one thread per client | accept, recv, `BYE`, `remove_client` |
| Commands | `server/server_commands.c` | the buffer of each thread, `strtok`'s static pointer | `process_command`, `split_args`, the command table |
| Accounts | `server/handle_ident.c`, `server/handle_admin.c`, `user/user.c` | table `users`; `cli->user`, `cli->identified` | `IDENT`, `CREATE_USER`; `DELETE_USER` is empty |
| Database start-up | `db/db_handler.c` | the database file | `init_db`, `create_db`, `execute_sql` |
| Configuration and arguments | `config/config.c`, `app_args.h` | `config` | `manage_startup_args`, `loadConfig` |
| Start, signals, service | `teletexter.c`, `signals.c`, `service/` | the process | start, stop, restart |
| Display lines | `lcd/lcd_txt.c`, `server/handle_lcdtxt.c` | `lcdLines` | `SET_TEXT`, `CLEAR_LINE`, `CLEAR_DISPLAY`, `MSG_SCROLL` |
| Display driver | `lcd/lcd_disp.c` | the cursor of the panel | `lcd_text`, `lcd_scroll`, bytes on the bus |
| Log, utilities, GPIO, pages | the rest | | formatting; GPIO and pages are empty |

`main` opens the database, writes a welcome on the display and runs the accept
loop, which starts one handler thread per connection. A handler thread reads
lines, and runs each through `process_command`, which checks the access level
and the number of arguments and calls the handler of the command. The threads
meet in

* the sqlite connection: a statement is atomic, a sequence of them is not;
* `currentMessage`, read and written without a lock;
* the display, written without a lock;
* the position `strtok` keeps between its calls, one for all threads;
* the table of file descriptors, where a closed number is used again;
* the array `clients`, the one thing that has a mutex.

What is hard here is therefore interleaving: values read, then relied upon after
another thread had its turn; statements that fail and whose result is not looked
at; numbers and pointers that outlive what they referred to; the end of the
process at any moment. `PROJECT.json` lists these hazards line by line.

What makes each component correct: *board* - ids are unique and in order,
`currentMessage` is a row and is what the display shows (but for lines that other commands have
written since), acknowledged messages stay, replies are true; *connections* - no descriptor leaks, no slot
is lost, a thread keeps to its client, all threads come to their end; *commands* - the arguments and the access level a
handler works with are those of its own line and client; *accounts* - levels come
from the table and users from administrators; *start-up* - an initialised
database has its tables and its administrator; *configuration* - `config` holds
what the arguments and the file say, or the server is not up; *display* - a line shows one text, the
one that is stored for it.

## Modules

### Messages

The board, one step per access to shared state. `CreateMessage` is the INSERT
in `save_message`, `TakeRowid` the separate call of
`sqlite3_last_insert_rowid`; `Publish` is `currentMessage = msg` in
`print_message_object`, and `PrintLine` one call of `set_lcd_line_text`.
`TestCurrent` is the test of `currentMessage` for NULL, and `ReadCurrent` or, if it
became NULL in between, `FollowNull` the access that follows it. `DeleteRow`,
`ClearCurrent`, `FallBack` and `NoMoreMessages` are the parts of
`delete_message`. `CreateUser` stands for the INSERT into the other table: it
changes the rowid all threads read (the SELECT before it is in Sessions).
`CustomLine`, `ClearDisplay` and `WriteCustom` are `SET_TEXT`, `CLEAR_LINE`, `MSG_SCROLL` and `CLEAR_DISPLAY`,
which write the same display and leave `currentMessage` as it is; what they put on a line is the one value `Custom`
(LcdPanel says what it is). `HandleSigs` and `Restart` end the process and start it again; `Die` is what
survives: the database.

The display commands decide what can be said of the display: a line shows what the current message puts there, or what
one of them has put there since (`ShownOn`), and nothing else - no line of another message, no notice. That *all* of
the message is shown is asserted where a message command says so, in its reply (`RepliesTruthful`).

A message body is a value that fills a number of display lines; the display is
a cell per line. An object is a record: no object changes once `currentMessage`
points to it, and none that is current is freed.

`MessageBoard` is the abstract specification: what the commands promise a
single user, each taking effect at once. The refinement mapping is at the end
of Messages (`BoardStored`, `BoardIssued`, `BoardCurrent`): a row joins the board when it
becomes current, and a deletion takes effect with the choice of the message
that replaces it.

What is left of it for several clients is `CurrentIsKept`. Its history variable `crossed` says
whether an INSERT of this process has failed, or has come between another one (of a message or a
user) and the call for its rowid: the two ways an object can get an id that is not its own.

### Connections

The accept loop and the threads over a kernel that gives out the lowest free
descriptor. `socket` is the number in `cli->socket`, which nothing resets;
`Target` is what it refers to now. A `recv` is two steps, `BeginRecv` (look the
number up) and `Deliver` or `EndOfInput` (the connection found), because a
thread blocked in `recv` stays on its connection when the number is closed and
used again. `Send` covers what a send can meet: no descriptor, a live connection,
a peer that has closed and answers with RST, and a connection that was reset,
where SIGPIPE ends the process.
`CloseSocket` and `ClearSlot` are `remove_client`, run for `BYE` and again when
the thread ends. The array has `ArraySize` entries (100 in the code), and the loops over it go as far as `maxClients`,
which is any of the values `Configured`: a loop that finds nothing in the array and goes on behind it makes the process
`wild` (`RunsOff`), and nothing is said of it afterwards. `late` is history: the clients that `add_client`, which runs after
`pthread_create`, put into the array when their thread had already ended. `LogFails` is a line for the log that
cannot be written, for want of a descriptor among others: it ends the process. `Connect`, `SendLine`, `PeerClose` and `Reset` are the
network.

### Sessions

How a line becomes a command, and what the account of the client allows.
`FirstToken`, `LoadRest` and `StoreEnd` are the two calls of `strtok`, the second
split into reading and writing the static pointer. The pointer is modelled as
the buffer it leads into and the command name it was left behind; `Behind` says what
is found there later: the arguments, if that line is still the one in the
buffer, otherwise the arguments of any line. `RunSplit` is `split_args`, which
also shortens the line it works on, whoever it belongs to.

`LoginFound`, `LoginNotPrepared` and `LoginFailed` are the outcomes of `IDENT`.
`execute_sql` returns 0 or 1 for a statement with a callback and an error code
when it cannot be prepared, and `check_user_login` takes anything but 0 for a success; a
failed login writes through a pointer nobody set, which is a choice between a crash and
nothing. `FindUser` and `InsertUser` are the two statements of `add_user`, with
other threads in between. The handlers that touch neither the accounts nor the
table are one step (`RunOther`), `handle_msg` among them, with a label of its own.

`doubted` is history: the names with which a creation went on to its INSERT although the SELECT had
failed, or while another creation of the same name stood between its two statements.

A line is a name and a sequence of words. `AsUnsigned` is the conversion
of the access level from `int` to `unsigned int`; `Span` is the number of
values of the latter.

### CommandLine

The same path for one connection, byte by byte: what Sessions takes for granted.
`Recv` delivers a chunk; `AppendByte` and `EndLine` are the loop of
`handle_client` over it; `TakeName` is the trimming in `process_command` and the first
`strtok`, which leaves in `args` where the arguments begin. `Quoted` and `Plain` are one round of
the loop of `split_args`, each ending its word with a NUL written into the buffer;
`EndSplit` leaves the loop. `Unsplit` and `Called` return to `recv`, with the buffer
as it is: only the length is reset.

The buffer is a function from places to bytes and begins as whatever the stack
held (`Fills`). A search that comes to its end goes on in memory of which nothing is
known; the model stops there (`wild`).

The reference definitions are written from the client's side: `LineEnds` and
`LineAt` cut the whole stream at once, and `Requests` puts names, words, quotes and blanks
together, so that the words that went in are known without taking anything apart.

### LcdPanel

The display at the grain of `lcd_write`: a call of `lcd_text` is a write that
places the panel's cursor and one per character, and the cursor moves on by itself
(`Advance`; where it goes from the end of a row is the constant `Follows`). `Command` and the
actions on it are the handlers of `handle_lcdtxt.c`; `TakeLine`, `Allocate`, `RefuseAlign` and
`StoreLine` are `set_lcd_line_text` with its `malloc` on first use; `NoScrolling`, `BeginScroll`
and `NextFrame` are `scroll_lcd_line` and `lcd_scroll`. `Restart` is main clearing the lines and
writing its welcome, `HandleSigs` the signal handler on the thread it interrupts (`host`), with
the others still running, `BusFails` the `exit(1)` of a write that fails. `answer` is what a handler replies
whatever `set_lcd_line_text` or `scroll_lcd_line` returned: `CLEAR_LINE`, `CLEAR_DISPLAY` and an accepted `MSG_SCROLL` do not
look at it; the others, and every refusal of the number, pass on `status`. `Reply` is what the client is told.

Every thread writes to the one cursor. While two threads are inside `lcd_text` the nibbles of a
byte may mix as well, after which the panel is out of step (`lost`) until the next
`i2c_init`. `Formatted` is the three `printf` formats of `lcd_text`; CENTER with a text wider than
the display computes its padding in unsigned arithmetic, and both outcomes of that are there.

### Startup

Starts of the program, one after another, over the databases they leave on the disk.
`ParseOption` is a round of `manage_startup_args`, `ReadLine` one of `loadConfig`, `ConfigRead`
the rest of both in main. `FindFile` is `access`, `OpenFile` is `sqlite3_open`, `Announce` the line in
the log between them and the schema. `Statement` and `StatementFails` are the statements of
`sql_commands` in `create_db`, over a transaction (`txn`) that only COMMIT brings to the disk;
`InsertAdmin` is the default user, inserted whether or not that succeeded. `OpenSocket` and `Bind`
are the loop over the addresses in `start_server`.
Any start may end anywhere (`Killed`), and a log that cannot be opened ends it at each
message (`LogFails`); what ends with it is in `Exit`, and what stays is `disk`.

`Databases` is the abstract specification of the files: each is made once, by `Make`, and the start that
made it completes it (`Finish`) or leaves it without its tables or its default user (`Abandon`); after that
nothing changes it. The mapping is `Standing`: the file a start is creating counts as being made until the
verdict of `init_db`, or until it is spoilt, and any other as what is on the disk.

A configuration line is a keyword and the value its conversion gives; `Field` is what is kept of it in a field that is
a byte. `ServesAsConfigured` is about the record `config`, not about what the display driver makes of it. `Htons` cuts the port to
`PortSpan` values.

## Runs

| Run | Bounds | Shows |
|---|---|---|
| `messages_single` | 1 client, 3 ids, 2 bodies, 3 display lines, 1 signal | the board is implemented, the display shows the current message but for lines written over it and catches up, no NULL is followed, every reply is true but for one |
| `messages_pair` | 2 clients, 2 ids, 2 bodies, 1 line, failing statements, 1 signal | types, durability of acknowledged messages; the current message is a row or was deleted, unless INSERTs failed or crossed |
| `messages_failed_insert` | 1 client | a violation: OK 110 for a message that was not stored |
| `messages_race` | 2 clients | a violation: the display and `currentMessage` disagree |
| `connections_safe` | 2 connections, 2 descriptors, an array of 2, `MaxClients` 2 or 3, 2 lines each | no leak, isolation until `BYE`, one slot each, no slot kept but by clients added too late |
| `connections_live` | 2 connections, an array of 1, `MaxClients` 1 or 2, 1 line each | types, the array is left only if `MaxClients` exceeds it, and all threads end |
| `connections_close` | 2 connections, 1 line each | a violation: a second close hits another client |
| `sessions_pair` | 2 clients, 3 users, failing statements, 5 lines | types, levels, provenance, durability of users, unique names, posters |
| `sessions_args` | 2 clients | a violation: arguments of another client's command |
| `input` | all streams of 8 bytes in chunks of 1 or 2, a buffer of 7, 2 words | lines and words arrive as sent, whatever is in the buffer; when the search leaves the line |
| `panel` | 2 clients, 3 rows of 2, 2 commands, signals or failures | undisturbed writes show what was asked, and are answered so; rows agree with `lcdLines`; no memory of `malloc` is shown |
| `startup` | 3 starts, 8 files, 15 command lines, 2 databases, 2 addresses | the databases implement `Databases`; they are whole and complete, or spoilt by a start that was cut short; the `config` of a server that is up is what its file says; no socket is left; starts settle |

**Why the bounds suffice.** Every race above is between two threads over one
pointer, number or row; two clients have all of them, and a third adds no new
kind of step. Three ids give `MSG_PREV` a row it must not skip
and a deletion in the middle (a `MSG_NEXT` that skips the only row there is to skip ends at the newest, as
`MSG_LATEST` may: that takes a fourth id, and is left to `OneClientRefinement`, which is for any number of ids);
two bodies, one shorter
than the display and one that fills it, reach the blank lines and both ends of
the loop in `print_message_object`. With two clients the display has one line (a signal or a segfault cuts a
command short all the same, and the properties of that run are not about the display),
and of the commands that write one line its clients send `CLEAR_LINE` alone (the constant
`LineCommands`), beside `CLEAR_DISPLAY`: the three differ in what they show and reply, the other
runs have all of them, and the theorems hold for any. Two descriptors let a closed one be
used again while the other is open, one slot for two connections fills the array, and a `MaxClients` of one more than
its entries is enough to leave it. Three
users are the administrator, a user with another level, and one whom either
might have created; the five lines, which threads may take from each other, include a level of
-1, one that is no number and a name that is too long.
Counters are cut by `MaxId`, `MaxSignals`, `MaxLines`, `MaxBytes`, `MaxEvents` and `MaxStarts`, all
of them in the guards.
`Span` is 16 in the runs and any number above 3 in the proofs.

Eight bytes are a line that is longer than the buffer of seven with its end, and a short
line after a longer one, whose rest is then behind the NUL; two words fill `argv`. Three words
do not fit into so short a line: that words beyond `MAX_ARGS` are left out is not in this run, but in the theorems `AnyWordsArrive` and
`WordsArrive`. A panel of three rows has one that the commands in hand do not touch,
and two columns tell margins from characters; texts of one and of three fill less and more than
a row, so that all formats, scrolling and its last frame occur. Two events are the least that
interleave: two commands, a command and a signal, a signal and a failing write; the start before
them makes five calls of `lcd_text` itself. Lines 0, 4 and 19 (19 is 3 as an unsigned int of 4 bits) are the one that is
accepted by mistake, one too large and one that wraps. Three starts are one that spoils a database,
one that finds it so, and one more to show that nothing changes. The files have, in turn, nothing
wrong, another database, repeated and over-wide values, both lists, an unknown keyword, no value, no size, and cannot be opened.

**Symmetry** is used for clients and connections in the safety runs only (`panel` among them), in `messages_pair` also for the
bodies, which there fill one line each.

**Deadlock** is checked in the runs of Messages: there a command can always be
taken up. It is not in those of Connections, where all connections end, nor in
those of Sessions, where the process may have crashed, nor in `input` (after the last byte the
thread waits), `panel` (after the last event) and `startup` (after the last start).

**Fairness.** `FairSpec` of Messages asks that a thread with a command under way
is scheduled (the scheduler, and sqlite calls that return) and that systemd
restarts the service (`Restart=always`). `FairSpec` of Connections asks that the
accept loop and each handler run while they can; a mutex held for two steps is released, so
weak fairness is enough. Clients and peers owe nothing. `FairSpec` of Startup asks that main
goes on, since each of its calls returns; being started again is owed to nobody. LcdPanel and CommandLine have no
liveness property: their loops are bounded by the text and the line.

**Findings.** The four violation runs are disagreements with what the
repository says of itself; the places are in `PROJECT.json`.
* `OK 110` is promised to mean "created in database", but the result of the
  INSERT is ignored.
* `currentMessage` is documented as the message on display; two clients
  printing at once separate the two.
* `remove_client` is meant to close a socket that is valid; after `BYE` it may
  close another client's.
* `strtok(NULL, "\n")` is meant to return the rest of this line; it may return the rest of
  another client's.

**Observations**, in the models and not among the findings, because nothing in the
repository says otherwise or because no run is spent on them.
* A start that ends between `sqlite3_open` and the default user leaves a database that
  no later start completes, for its file is there (`spoilt`). A log that cannot be opened is enough.
* An unterminated quote moves the search for words past the end of the line, into what
  earlier lines left behind (`StaysInLine` says that nothing else does). With `MAX_ARGS` words,
  `argv[count] = NULL` is written past the allocation.
* Line 0 is accepted: it is kept beside line 1 and shown in its place. Two first uses of it at
  once allocate it twice, and a scroll of the first may show what `malloc` left in the second.
* A CENTERed text wider than the display is shown from its middle, or not at all, depending on `size_t`.
* `set_lcd_line_text` scrolls a long text at once if `lcd_scroll_speed` is 1, although
  the configuration calls it a speed in milliseconds; `lcd_scroll_enabled` is asked only later.
* A 16-bit overflow of the port is accepted: 65536 is any free port.
* `MSG_NEXT` and `MSG_PREV` with no current message are not answered. `MSG_LATEST` is answered twice, and on an empty
  board `OK 110 Message set!` follows the error. `RepliesTruthful` says that this is all: no other command is without a reply,
  and no other reply is false.
* `CLEAR_LINE` answers that the line was cleared also when the display has no such line, and `MSG_SCROLL` answers OK with
  scrolling off (`UndisturbedWrites` says which replies can be relied on).
* After `SET_TEXT`, `CLEAR_LINE` or `CLEAR_DISPLAY` the display no longer shows `currentMessage`, which `MSG_DEL` still deletes.
* The array `clients` has 100 entries, whatever `MaxClients` says; with more clients than that, and a larger `MaxClients`, `add_client`
  and `remove_client` leave it.
* A client that is gone before `add_client` keeps its slot for ever (`SlotsCleared` says that no other does).
* A log that cannot be opened ends the process, also while clients are served: an `accept` that fails because no
  descriptor is left cannot be logged either. This is in Connections and Startup, not in the other modules.
* `--bind`, documented in the usage text, is stored and used by nobody; the ioctl in `lcd_disp.c` uses a constant for
  the address and not `LCDAddress`. The addresses of the rows come from the configuration, 0 where it does not give them.

## Proofs

TLAPS checks these theorems for all values of the constants allowed by
`ConstantsOK` (in LcdPanel also `ThreadsDiffer` and `NullOK`: threads, NULL, lines and rows are
different things; what `malloc` leaves is none of the texts the program knows). Thirty-five theorems in eight
modules; every invariant and every refinement of the passing runs is among them. Each module of proofs
has an inductive invariant (`IInv`, or as named below); one lemma per action or group of actions shows that it is preserved, frame lemmas say
which actions change a variable at all.

* `Messages_proofs`: `TypeCorrect`, `Durability`, `CurrentIsStored`. For
  durability, `AckedIsDurable` is not inductive: a thread between its INSERT and
  its reply must already know that its row is in the table, with the body it will acknowledge,
  or that its id was asked to be deleted, and that ids are never given twice
  (`IdsUnique`). `CurrentIsStored` (any number of clients) needs an invariant about the objects threads hold (`SharedInv`):
  while nothing was crossed, the rowid is that of the message a thread has just inserted and is about to ask it for, and
  every object on its way to `Publish` is a row, or its id was asked to be deleted (`HoldsStored`, `Stored`). Nothing is assumed
  of failing SELECTs, deletions, signals or the order of the threads.
* `OneClient_proofs`: `CurrentIsRow`, `DisplayIsCurrent`, `RepliesAreTrue`, `NeverFollowsNull` and
  `OneClientRefinement`, what the races take away. They assume `Alone` (one client), and all but
  `NeverFollowsNull` that statements succeed (`~DbMayFail`): the runs `messages_race` and
  `messages_failed_insert` show them false without. Signals and restarts are in. None is inductive, for
  all of them fail in the middle of a command: `OneInv` says for each place of the thread what it `Knows`,
  e.g. that the id it read is the current message's until it is cleared (`HoldsCursor`), and that the
  object it is about to print is the neighbour, the newest or the one it stored (`BeforePrint`). `StepOne` preserves it.
  The display commands are in: they write `Custom` on lines of the display and touch nothing else.
  That a SELECT with ORDER BY and LIMIT finds a row if there is one, and one only, is `LeastOf` and the lemmas
  behind it. In the refinement `Publish` is `Post`, `Move` or `ShowNewest` according to the
  command, and a stutter for `MSG_DEL`, whose `DeleteRow` is `Remove`; `HandleSigs` is `PostUnseen`
  if a message was stored and not yet published, else `Forget`; every other step is a stutter.
* `Connections_proofs`: `TypeCorrect`, `NoLeak`, `SlotsDistinct`, `NoSlotLeftBehind`,
  `Isolation`. The invariant adds that a connection is accepted once, that an
  open descriptor is owned by the thread that will close it, that main's new client has
  a thread, and that whoever is in the array has not been added before. For the slots it adds that every
  client is in an entry that the loops reach (`InReach`), so that the thread's own `remove_client` finds it; `ArrayKept`, the part of
  `TypeOK` about the array, is that the process is `wild` only with a `MaxClients` beyond the array.
* `Sessions_proofs`: `TypeCorrect`, `LevelsFromTable`, `PostersAreUsers`,
  `Provenance`, `CreationIsDurable`, `NamesAreUnique`. The invariant adds that ids count the rows (`Counted`),
  that a thread inside `CREATE_USER` still has the level it was checked
  for (`AdminCreates`, and `UserPosts` for `MSG_CREATE`: no other thread changes
  an account) and has words that passed the checks (`Ready`). For the names, `StillFree` says that a thread about
  to insert a name that is not doubted is the only one, and that no row has it (`FreeRows`, `FreeNames`).
* `Startup_proofs`: `TypeCorrect`, `WholeSchema`, `OneDefaultUser`,
  `DatabasesComplete`, `NoSocketLeak`, `ServedAsConfigured`, `DatabasesRefinement`, for any files, arguments, number of starts and addresses. None of
  the properties of the databases is inductive: `Stage` says for each phase of
  `init_db` what is in the file and what in the transaction, `HalfWay` which statements
  have run and hence which tables COMMIT will bring, `AbsentIsEmpty` that a file not there
  has nothing in it. The assumptions on the constants are that lines and options have values of their kind.
  `ServesAsConfigured` compares, for every keyword, a loop with a choice among all lines: `ConfigInv` says that what is
  left of the file is its end (`Remains`) and `config` what the lines before that say (`LinesRead`), and that the
  port of the command line overrides the file's only after the last line.
  In `DatabasesRefinement`, `OpenFile` and any end of the process are `Make` and `Abandon`, the verdict of `init_db` is
  `Finish` or `Abandon`, and every statement in between is a stutter. `SpoiltLeft` says what a spoilt file may hold;
  the statements of a start that did not make its file change nothing of it.
* `CommandLine_proofs`: `TypeCorrect`, `SearchStaysInLine`, `LinesArrive`, `WordsArrive`, `AnyWordsArrive`. The invariant says what the buffer
  holds from the place `args` on: each byte is the line's, or a NUL that stands for blanks at
  its end (`Kept`), and a NUL ends it (`Rest`). That bounds every search by the length of the line
  (`StartInLine`, `EndInLine`). A word whose quote is not closed breaks `Rest`; then no byte
  behind its quote is another quote, which makes it the line's last (`LastQuoteIs`), and it remains
  a word of `argv` (`EscapedStays`). The library states nothing of `Min` and `Max`: that a finite set of integers has a
  least and a greatest element (`LeastExists`, `GreatestExists`) follows from the strict subsets of a finite set being well-founded.
  For `LinesArrive` the buffer holds what came since the last end of a line, or what fits (`Pending`), and
  the lines handed over are one for each end of a line heard so far, each in the place that the number of ends
  before it says (`Ranked`). It assumes `Cap > 1`: a buffer of one byte has room for the NUL only, and no line would be
  passed on. BUFFER_SIZE is 1024.
  For the words, `Laid` says where a line that spells a request has its blanks, words and quotes, without recursion: by
  the places where each word begins and ends. The invariant is that a line so laid out is cut up accordingly (`Placed`): the words
  found so far are its first ones, each ended by a NUL, and from `args` on the line is still as it was received (`CutUp`).
  `AnyWordsArrive` states the result for requests of any number of words of any length
  (`WordsAsSpelled`). `WordsArrive` is the property of the run, whose `Requests` are put together with `FlattenSeq`: as they have
  at most three words, it is unfolded at most three times and needs no induction. That NUL is no place
  of the buffer is the one assumption this adds.
* `LcdPanel_proofs`: `TypeCorrect`, `GarbageUnseen`. A thread that is to scroll a line has seen it allocated,
  and only the end of the process takes that back (`PlaceOK`). For the garbage, `CleanInv` says who
  can be at work in each phase of the process (`Phases`), that main sets every line before clients
  come in and has those it has not set yet in front of it (`LinesSet`), hence that a client allocates line 0 only; what is
  scrolled is clean (`ScrollsClean`) and so is what is on its way to the panel (`GlassClean`).
* `LcdRows_proofs`: `WritesLand`, `RowsAreLines`. Only a thread that has been alone since its command began knows
  where the panel's cursor is (`Drawn`); with that, the row it is in is drawn up to the cursor. `Suffix` says that its calls
  still to come are the last of those it was asked for, `LineInUse` that what it draws or scrolls is the line it has just stored,
  `RowDone` that every other row shows the last of the lines that went to it or what it did before; a row in
  progress may show anything until the last character. `RowsInv` adds that a row that does not match its
  line is one main has still to set or one being drawn. Both rest on `FormattedShows`: what the formats of `lcd_text` make
  of a text has the margins its alignment asks for. What the client is told is a second invariant (`AnswersInv`): which lines go
  with which `answer`, and that a command that passes on the status has one once its line is taken.

Only model-checked: the liveness properties `DisplayCatchesUp`, `Drains` and `Settles` (liveness under fairness is out of the prover's reach). The four properties of the violation runs are false.
The theorems of `OneClient_proofs` are about one client only, as the runs are.

## Not modelled

* The wording of statuses, the columns of `LIST`, the lines of the log: formatting.
* The nibbles and pulses of a byte on the bus, and the delays between them; a byte is
  written, mixed up with another's, or fails. `lcd_backlight` is called by nobody, and `lcd_clear` is empty.
* Texts of as many characters as a line's buffer has (200), which `strncpy` leaves without an end.
* NUL bytes from a client.
* What sqlite, stdio and `malloc` do when the signal handler enters them again: it is not in this code.
* `set_lcd_text`, `handle_set_msg_no`, `handle_admin_set_permission`, `handle_admin_edit_pwd` (called by nobody), GPIO and
  pages (empty), builds without a display.
* `WhiteList` and `BlackList` beyond their being read, for they are never used; `--bind` and `--users` likewise.
* Memory: threads are never joined and objects never freed; here memory is unbounded.

## Plan

Done: Messages with MessageBoard, Connections, Sessions, CommandLine, LcdPanel and Startup with Databases; theorems on
all six, the refinements of MessageBoard for one client and of Databases, and what stays true of the board for
several clients. What could come next:

1. That a `MSG_NEXT` never goes back, whatever other clients do meanwhile.
2. The placing of the parts of a body on the lines, in `print_message_object`, as a function of its own.
3. A specification of the display (a text per row) that LcdPanel implements while commands do not overlap.

------------------------------ MODULE Sessions ------------------------------
(***************************************************************************)
(* Sessions: how a line becomes a command (process_command and split_args  *)
(* of src/src/server/server_commands.c), the logins it is checked against  *)
(* (handle_ident.c) and the accounts (handle_admin.c, user.c).             *)
(*                                                                         *)
(* The handler threads share the table users and, through strtok, one      *)
(* hidden pointer: strtok(buffer, " ") leaves in it the rest of the line,  *)
(* strtok(NULL, "\n") takes from it the arguments.  The pointer may have   *)
(* moved to the buffer of another thread in between.                       *)
(*                                                                         *)
(* Abstractions: a line is a command name and a sequence of words; while   *)
(* its thread is idle a buffer is being filled, and may hold anything;     *)
(* argv holds the words as they were when the line was split; lines of     *)
(* blanks, answered before any strtok, are left out.  The handlers that    *)
(* touch neither the accounts nor the table users are one step here:       *)
(* Messages has those of the board.                                        *)
(***************************************************************************)
EXTENDS Integers, Sequences, FiniteSets

CONSTANTS
  Clients,    \* the connected clients: one handler thread each
  Words,      \* the words a line may hold
  NumberOf,   \* is_numerical_cpy: the int a word stands for, or NULL
  TooLong,    \* words longer than config.userConfig.maxNicknameLength
  Lines,      \* the lines clients send: [name, args]
  Span,       \* 2^32: how many values an unsigned int has
  NULL,
  DbMayFail,  \* may a statement fail (database locked, disk full)?
  MaxId       \* bound: users ever inserted, the default one included

ASSUME ConstantsOK ==
  /\ "admin" \in Words
  /\ Span \in Nat /\ Span > 3
  /\ NumberOf \in [Words -> Int \cup {NULL}]
  /\ TooLong \subseteq Words
  /\ Lines \subseteq [name : STRING, args : Seq(Words)]
  /\ DbMayFail \in BOOLEAN
  /\ MaxId \in Nat \ {0}
  /\ NULL \notin Int

\* The table of commands: the arguments each requires, and the access level.
RequiresArgs ==
  [IDENT |-> 2, MSG_CREATE |-> 1, MSG_NEXT |-> 0, MSG_PREV |-> 0, MSG_LATEST |-> 0,
   MSG_SCROLL |-> 1, MSG_DEL |-> 0, BYE |-> 0, LIST |-> 0, SET_TEXT |-> 3,
   CLEAR_DISPLAY |-> 0, CLEAR_LINE |-> 1, CREATE_USER |-> 3, DELETE_USER |-> 1]
AccessLevel ==
  [IDENT |-> 0, MSG_CREATE |-> 1, MSG_NEXT |-> 1, MSG_PREV |-> 1, MSG_LATEST |-> 1,
   MSG_SCROLL |-> 1, MSG_DEL |-> 2, BYE |-> 0, LIST |-> 0, SET_TEXT |-> 3,
   CLEAR_DISPLAY |-> 2, CLEAR_LINE |-> 2, CREATE_USER |-> 3, DELETE_USER |-> 3]
CommandNames == DOMAIN RequiresArgs
ADMIN_USER == 3

VARIABLES
  users,    \* table users: a set of rows
  author,   \* history: the account that created each row, by id; 0 for init_db
  process,  \* "up", or "segfault"
  saved,    \* strtok's pointer: into which buffer, or NULL when nothing is left
  pc,       \* where each thread is
  buffer,   \* the command_buffer of each: the line it works on, NoLine if none
  args,     \* its args: what strtok gave it
  argv,     \* its words
  account,     \* its cli->user
  identified,  \* its cli->identified
  told,     \* history: users whose creation was answered USER_CREATED
  doubted   \* history: names inserted though the SELECT had not shown they were free

table  == <<users, author>>
locals == <<pc, buffer, args, argv>>
login  == <<account, identified>>
history == <<told, doubted>>
vars   == <<table, process, saved, locals, login, history>>

\* Conversion of an int to unsigned int.
AsUnsigned(n) == n % Span

\* A pointer to the arguments of the line l in the buffer of thread t: where
\* they begin depends on the name.
Rest(t, l) == IF l.args = <<>> THEN NULL ELSE [owner |-> t, after |-> l.name]

\* What the pointer p leads to now: the arguments of the line that lies there,
\* or anything once that is another command's, or the next line coming in.
Behind(p) ==
  IF buffer[p.owner].name = p.after THEN {buffer[p.owner].args} ELSE {l.args : l \in Lines}

\* The buffers once split_args has written a terminator after the first word.
FirstWord(words) == IF words = <<>> THEN words ELSE <<words[1]>>
Cut(o) == [buffer EXCEPT ![o].args = FirstWord(@)]

NoAccount == [id |-> 0, name |-> NULL, level |-> 0]        \* what calloc returns
AccountOf(u) == [id |-> u.id, name |-> u.name, level |-> AsUnsigned(u.level)]

\* The row init_db inserts in a new database.
Admin == [id |-> 1, name |-> "admin", password |-> "admin", level |-> ADMIN_USER]

NoLine == [name |-> "none", args |-> <<>>]

Init ==
  /\ users = {Admin} /\ author = <<0>>
  /\ process = "up"
  /\ saved = NULL
  /\ buffer  = [t \in Clients |-> NoLine]
  /\ pc      = [t \in Clients |-> "idle"]
  /\ args    = [t \in Clients |-> NULL]
  /\ argv    = [t \in Clients |-> <<>>]
  /\ account = [t \in Clients |-> NoAccount]
  /\ identified = [t \in Clients |-> FALSE]
  /\ told = {} /\ doubted = {}

At(t, l)   == process = "up" /\ pc[t] = l
Goto(t, l) == pc' = [pc EXCEPT ![t] = l]
Command(t) == buffer[t].name

\* The command is over, one status was sent.  The locals are gone, and the
\* buffer, left as in lines, is filled anew.
AnsweredIn(t, lines) ==
  /\ Goto(t, "idle")
  /\ buffer' = [lines EXCEPT ![t] = NoLine]
  /\ args' = [args EXCEPT ![t] = NULL] /\ argv' = [argv EXCEPT ![t] = <<>>]
Answered(t) == AnsweredIn(t, buffer)

(***************************************************************************)
(* process_command                                                         *)
(***************************************************************************)
\* cmd = strtok(buffer, " ")
FirstToken(t, l) ==
  /\ At(t, "idle")
  /\ buffer' = [buffer EXCEPT ![t] = l]
  /\ saved' = Rest(t, l)
  /\ Goto(t, "load")
  /\ UNCHANGED <<table, process, args, argv, login, history>>

\* args = strtok(NULL, "\n"): read the pointer, ...
LoadRest(t) ==
  /\ At(t, "load")
  /\ args' = [args EXCEPT ![t] = saved]
  /\ Goto(t, "store")
  /\ UNCHANGED <<table, process, saved, buffer, argv, login, history>>

\* ... and leave it at the end of the token: at the line's NUL, where strtok finds
\* no further one (NULL here).
StoreEnd(t) ==
  /\ At(t, "store")
  /\ saved' = NULL
  /\ Goto(t, "dispatch")
  /\ UNCHANGED <<table, process, buffer, args, argv, login, history>>

Handler(c) ==
  CASE c = "IDENT" -> "ident" [] c = "CREATE_USER" -> "check" [] c = "MSG_CREATE" -> "post"
    [] OTHER -> "other"

BugMayRun(t) ==  \* mutant: the level may be one below
  Command(t) \in CommandNames /\ account[t].level + 1 >= AccessLevel[Command(t)]

MayRun(t) == Command(t) \in CommandNames /\ account[t].level >= AccessLevel[Command(t)]

\* INVALID_COMMAND, ACCESS_DENIED or MISSING_ARGS.
Refuse(t) ==
  /\ At(t, "dispatch")
  /\ MayRun(t) => RequiresArgs[Command(t)] > 0 /\ args[t] = NULL
  /\ Answered(t)
  /\ UNCHANGED <<table, process, saved, login, history>>

RunPlain(t) ==
  /\ At(t, "dispatch") /\ MayRun(t) /\ RequiresArgs[Command(t)] = 0
  /\ Goto(t, Handler(Command(t)))
  /\ UNCHANGED <<table, process, saved, buffer, args, argv, login, history>>

BugRunSplit(t) ==  \* mutant: the terminating NULL is counted as an argument
  /\ At(t, "dispatch") /\ MayRun(t) /\ RequiresArgs[Command(t)] > 0 /\ args[t] # NULL
  /\ \E words \in Behind(args[t]) :
       \/ /\ Len(words) + 1 < RequiresArgs[Command(t)]
          /\ AnsweredIn(t, Cut(args[t].owner))
       \/ /\ Len(words) + 1 >= RequiresArgs[Command(t)]
          /\ buffer' = Cut(args[t].owner)
          /\ argv' = [argv EXCEPT ![t] = words] /\ args' = [args EXCEPT ![t] = NULL]
          /\ Goto(t, Handler(Command(t)))
  /\ UNCHANGED <<table, process, saved, login, history>>

\* split_args works in place, in whosever buffer args leads to.  From here on
\* the command uses argv.
RunSplit(t) ==
  /\ At(t, "dispatch") /\ MayRun(t) /\ RequiresArgs[Command(t)] > 0 /\ args[t] # NULL
  /\ \E words \in Behind(args[t]) :
       \/ /\ Len(words) < RequiresArgs[Command(t)]           \* MISSING_ARGS
          /\ AnsweredIn(t, Cut(args[t].owner))
       \/ /\ Len(words) >= RequiresArgs[Command(t)]
          /\ buffer' = Cut(args[t].owner)
          /\ argv' = [argv EXCEPT ![t] = words] /\ args' = [args EXCEPT ![t] = NULL]
          /\ Goto(t, Handler(Command(t)))
  /\ UNCHANGED <<table, process, saved, login, history>>

\* A handler that is modelled elsewhere, or answers from constants.  handle_msg
\* ("post") goes on to the board only for who is identified, and the row it
\* inserts there names cli->user.
RunOther(t) ==
  /\ At(t, "other") \/ At(t, "post")
  /\ Answered(t)
  /\ UNCHANGED <<table, process, saved, login, history>>

(***************************************************************************)
(* IDENT: handle_ident, check_user_login                                   *)
(***************************************************************************)
\* SELECT * FROM users WHERE username=? AND password=?
Matching(t) == {u \in users : u.name = argv[t][1] /\ u.password = argv[t][2]}

\* LOGIN_OK.  user_callback overwrites cli->user row by row: the last row read
\* counts, which is the last there is unless the statement fails before.
LoginFound(t) ==
  /\ At(t, "ident")
  /\ \E u \in Matching(t) :
       /\ DbMayFail \/ \A v \in Matching(t) : v.id <= u.id
       /\ account' = [account EXCEPT ![t] = AccountOf(u)]
  /\ identified' = [identified EXCEPT ![t] = TRUE]
  /\ Answered(t)
  /\ UNCHANGED <<table, process, saved, history>>

\* LOGIN_OK too: execute_sql returns the error code of a statement that could
\* not be prepared, which is not 0; the account stays as it was.
LoginNotPrepared(t) ==
  /\ At(t, "ident") /\ DbMayFail
  /\ identified' = [identified EXCEPT ![t] = TRUE]
  /\ Answered(t)
  /\ UNCHANGED <<table, process, saved, account, history>>

\* LOGIN_FAILED: errmsg, which nobody set, is written through.  That kills the
\* process or, with luck, harms nothing; the account stays as it was.
LoginFailed(t) ==
  /\ At(t, "ident") /\ (Matching(t) = {} \/ DbMayFail)
  /\ \/ process' = "segfault" /\ UNCHANGED <<locals, identified>>
     \/ /\ Answered(t) /\ UNCHANGED process
        /\ identified' = [identified EXCEPT ![t] = FALSE]
  /\ UNCHANGED <<table, saved, account, history>>

(***************************************************************************)
(* CREATE_USER: handle_admin_create_user, add_user                         *)
(***************************************************************************)
Valid(t) == NumberOf[argv[t][3]] # NULL /\ argv[t][1] \notin TooLong

\* NOT_INTEGER or USERNAME_TOO_LONG.
RefuseUser(t) ==
  /\ At(t, "check") /\ ~Valid(t)
  /\ Answered(t)
  /\ UNCHANGED <<table, process, saved, login, history>>

BugExists(name) ==  \* mutant: the SELECT looks for an administrator of that name
  \E u \in users : u.name = name /\ u.level = ADMIN_USER

Exists(name) == \E u \in users : u.name = name

\* The thread t goes on to its INSERT.  Its name is doubted if there was such a
\* row after all, or if another thread is about to insert one.
GoesOn(t) ==
  LET name == argv[t][1]
      unsure == Exists(name) \/ \E u \in Clients : pc[u] = "insert" /\ argv[u][1] = name
  IN
  /\ Goto(t, "insert")
  /\ doubted' = IF unsure THEN doubted \cup {name} ELSE doubted
  /\ UNCHANGED <<buffer, args, argv, told>>

BugFindUser(t) ==  \* mutant: add_user is given cli->user, not a new User
  /\ At(t, "check") /\ Valid(t)
  /\ account' = [account EXCEPT ![t].name = argv[t][1],
                                 ![t].level = AsUnsigned(NumberOf[argv[t][3]])]
  /\ \/ (Exists(argv[t][1]) \/ DbMayFail) /\ Answered(t) /\ UNCHANGED history
     \/ (~Exists(argv[t][1]) \/ DbMayFail) /\ GoesOn(t)
  /\ UNCHANGED <<table, process, saved, identified>>

\* SELECT username FROM users WHERE username = ?, and USERNAME_EXIST for a row.
\* A statement that cannot be prepared counts as a row, one that fails later
\* as none.
FindUser(t) ==
  /\ At(t, "check") /\ Valid(t)
  /\ \/ (Exists(argv[t][1]) \/ DbMayFail) /\ Answered(t) /\ UNCHANGED history
     \/ (~Exists(argv[t][1]) \/ DbMayFail) /\ GoesOn(t)
  /\ UNCHANGED <<table, process, saved, login>>

Asked(t) == [name |-> argv[t][1], password |-> argv[t][2], level |-> NumberOf[argv[t][3]]]

\* Rows are never deleted, so the AUTOINCREMENT ids count them.
Inserted(t) ==
  LET id == Cardinality(users) + 1 IN
  /\ id <= MaxId
  /\ users' = users \cup {[id |-> id, name |-> Asked(t).name, password |-> Asked(t).password,
                           level |-> Asked(t).level]}
  /\ author' = Append(author, account[t].id)

BugInsertUser(t) ==  \* mutant: the result of the INSERT is not looked at
  /\ At(t, "insert")
  /\ Inserted(t) \/ (DbMayFail /\ UNCHANGED table)
  /\ told' = told \cup {Asked(t)}
  /\ Answered(t)
  /\ UNCHANGED <<process, saved, login, doubted>>

\* INSERT INTO users: USER_CREATED or, if that fails, an OK with the number of
\* DB_ERROR.
InsertUser(t) ==
  /\ At(t, "insert")
  /\ \/ Inserted(t) /\ told' = told \cup {Asked(t)}
     \/ DbMayFail /\ UNCHANGED <<table, told>>
  /\ Answered(t)
  /\ UNCHANGED <<process, saved, login, doubted>>

-----------------------------------------------------------------------------
Step(t) ==
  \/ LoadRest(t) \/ StoreEnd(t)
  \/ Refuse(t) \/ RunPlain(t) \/ RunSplit(t) \/ RunOther(t)
  \/ LoginFound(t) \/ LoginNotPrepared(t) \/ LoginFailed(t)
  \/ RefuseUser(t) \/ FindUser(t) \/ InsertUser(t)

Next == \E t \in Clients : (\E l \in Lines : FirstToken(t, l)) \/ Step(t)

Spec == Init /\ [][Next]_vars

-----------------------------------------------------------------------------
(***************************************************************************)
(* Properties                                                              *)
(***************************************************************************)
Requests == [name : Words, password : Words, level : Int]
Rows == [id : Nat \ {0}, name : Words, password : Words, level : Int]
Names == {l.name : l \in Lines} \cup {NoLine.name}
Buffers == [name : Names, args : Seq(Words)]
Pointers == [owner : Clients, after : Names] \cup {NULL}

TableTypeOK   == users \subseteq Rows /\ author \in Seq(Nat) /\ Len(author) = Cardinality(users)
TokensTypeOK  ==
  /\ saved \in Pointers /\ args \in [Clients -> Pointers]
  /\ buffer \in [Clients -> Buffers]
ThreadTypeOK  ==
  /\ process \in {"up", "segfault"}
  /\ pc \in [Clients -> {"idle", "load", "store", "dispatch", "ident", "check", "insert",
                       "post", "other"}]
  /\ argv \in [Clients -> Seq(Words)]
  /\ \A t \in Clients : pc[t] = "ident" => Len(argv[t]) >= 2
  /\ \A t \in Clients : pc[t] \in {"check", "insert"} => Len(argv[t]) >= 3
HistoryTypeOK == told \subseteq Requests /\ doubted \subseteq Words
AccountTypeOK ==
  /\ account \in [Clients -> [id : Nat, name : Words \cup {NULL}, level : 0..(Span - 1)]]
  /\ identified \in [Clients -> BOOLEAN]

\* Types: in particular access levels are those of an unsigned int, and no
\* handler looks for an argument that split_args did not deliver.
TypeOK == TableTypeOK /\ TokensTypeOK /\ ThreadTypeOK /\ AccountTypeOK /\ HistoryTypeOK

\* Whatever happens to the arguments of its commands, the account of a client
\* is nobody or that of a row of table users: name, id and level belong
\* together, and no level comes from anywhere else.
AccountFromRow ==
  \A t \in Clients : account[t] = NoAccount \/ \E u \in users : account[t] = AccountOf(u)

\* Every row but the default one was created by an account that had itself the
\* level of an administrator, and was there before: the check made when the
\* command was dispatched still holds when the row is inserted.
CreatedByAdmin ==
  \A u \in users :
    u.id # 1 => \E v \in users :
      v.id = author[u.id] /\ v.id < u.id /\ AsUnsigned(v.level) >= ADMIN_USER

\* Every user whose creation was ever acknowledged is in the table, with the
\* name, password and level that were asked for.
CreatedIsStored ==
  \A w \in told : \E u \in users :
    u.name = w.name /\ u.password = w.password /\ u.level = w.level

\* No two users have one name, unless a creation of that name went on to its
\* INSERT when the SELECT had failed, or while another creation of it stood
\* between the two statements: user.c has neither a transaction nor a UNIQUE
\* column to stop these, and there is no third way.
NamesUnique ==
  \A u, v \in users : u.name = v.name /\ u.name \notin doubted => u = v

\* Every message names a user of the table as its poster, as the FOREIGN KEY in
\* init_db says and sqlite does not enforce: neither a client that failed to log
\* in, nor one whose login "succeeded" on a statement that was never run, posts
\* as nobody.
PosterIsUser ==
  \A t \in Clients : pc[t] = "post" /\ identified[t] => \E u \in users : u.id = account[t].id

\* server_commands.c:106, "Capture rest of string including spaces": the
\* arguments of a command are the rest of its own line.
ArgsAreOwn == \A t \in Clients : pc[t] = "dispatch" => args[t] = Rest(t, buffer[t])

=============================================================================

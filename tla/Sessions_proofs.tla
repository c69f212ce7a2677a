-------------------------- MODULE Sessions_proofs --------------------------
(***************************************************************************)
(* Theorems about Sessions, for any number of clients, any words and lines *)
(* and any width of an unsigned int.                                       *)
(***************************************************************************)
EXTENDS Sessions, FiniteSetTheorems, TLAPS

\* Ids count the rows.
Counted == IsFiniteSet(users) /\ \A u \in users : u.id \in 1..Cardinality(users)

\* The check of process_command still holds inside the handlers.
AdminCreates ==
  \A t \in Clients : pc[t] \in {"check", "insert"} => account[t].level >= ADMIN_USER
UserPosts == \A t \in Clients : pc[t] = "post" => account[t].level >= 1

\* A user about to be inserted has passed the checks of its name and level.
Ready == \A t \in Clients : pc[t] = "insert" => Valid(t)

\* While its name is not doubted, no row has it yet and nobody else is about to
\* insert one.
StillFree ==
  \A t \in Clients : pc[t] = "insert" /\ argv[t][1] \notin doubted =>
    /\ ~Exists(argv[t][1])
    /\ \A u \in Clients \ {t} : pc[u] = "insert" => argv[u][1] # argv[t][1]

-----------------------------------------------------------------------------
(***************************************************************************)
(* Helpers                                                                 *)
(***************************************************************************)
LEMMA Unsigned == ASSUME NEW n \in Int PROVE AsUnsigned(n) \in 0..(Span - 1)
BY ConstantsOK DEF AsUnsigned

LEMMA Tables ==
  /\ RequiresArgs["IDENT"] = 2 /\ RequiresArgs["CREATE_USER"] = 3
  /\ RequiresArgs["MSG_CREATE"] = 1
  /\ AccessLevel["CREATE_USER"] = 3 /\ AccessLevel["MSG_CREATE"] = 1
BY DEF RequiresArgs, AccessLevel

LEMMA Handlers ==
  ASSUME NEW c
  PROVE  /\ Handler(c) \in {"ident", "check", "post", "other"}
         /\ Handler(c) = "ident" => c = "IDENT"
         /\ Handler(c) = "check" => c = "CREATE_USER"
         /\ Handler(c) = "post" => c = "MSG_CREATE"
BY DEF Handler

\* The handlers that need words belong to commands that require arguments.
LEMMA PlainGoesOn ==
  ASSUME NEW t \in Clients, RunPlain(t)
  PROVE  Goto(t, "other") /\ UNCHANGED <<process, argv>>
<1>1. RequiresArgs[Command(t)] = 0 /\ Goto(t, Handler(Command(t))) /\ UNCHANGED <<process, argv>>
  BY DEF RunPlain
<1>2. Handler(Command(t)) = "other"
  BY <1>1, Tables, Handlers
<1> QED
  BY <1>1, <1>2

\* What split_args finds are words, whatever args leads to.
LEMMA BehindWords ==
  ASSUME TokensTypeOK, NEW t \in Clients, args[t] # NULL, NEW w \in Behind(args[t])
  PROVE  w \in Seq(Words) /\ args[t].owner \in Clients
<1>1. args[t].owner \in Clients
  BY DEF TokensTypeOK, Pointers
<1>2. buffer[args[t].owner].args \in Seq(Words)
  BY <1>1 DEF TokensTypeOK, Buffers
<1>3. \A l \in Lines : l.args \in Seq(Words)
  BY ConstantsOK
<1> QED
  BY <1>1, <1>2, <1>3 DEF Behind

\* A buffer keeps its type when it is cut, and when it is filled anew.
LEMMA CutType ==
  ASSUME TokensTypeOK, NEW o \in Clients
  PROVE  Cut(o) \in [Clients -> Buffers]
<1> DEFINE b == buffer[o]
<1>1. b \in Buffers
  BY DEF TokensTypeOK
<1>2. FirstWord(b.args) \in Seq(Words)
  BY <1>1 DEF FirstWord, Buffers
<1>3. [b EXCEPT !.args = FirstWord(b.args)] \in Buffers
  BY <1>1, <1>2 DEF Buffers
<1> QED
  BY <1>3 DEF Cut, TokensTypeOK

LEMMA NoLineType == NoLine \in Buffers
BY DEF NoLine, Buffers, Names

\* A request has its three words, and they make a row.
LEMMA AskedType ==
  ASSUME TypeOK, NEW t \in Clients, Valid(t), Len(argv[t]) >= 3
  PROVE  Asked(t) \in Requests
<1>1. argv[t] \in Seq(Words)
  BY DEF TypeOK, ThreadTypeOK
<1>2. argv[t][1] \in Words /\ argv[t][2] \in Words /\ argv[t][3] \in Words
  BY <1>1
<1>3. NumberOf[argv[t][3]] \in Int
  BY <1>2, ConstantsOK DEF Valid
<1> QED
  BY <1>2, <1>3 DEF Asked, Requests

-----------------------------------------------------------------------------
(***************************************************************************)
(* Types                                                                   *)
(***************************************************************************)
LEMMA TokensType == ASSUME TypeOK, [Next]_vars PROVE TokensTypeOK'
<1> USE DEF TypeOK, TokensTypeOK
<1>1. CASE UNCHANGED <<saved, buffer, args>>
  BY <1>1
<1>2. ASSUME NEW t \in Clients, NEW l \in Lines, FirstToken(t, l) PROVE TokensTypeOK'
  <2>1. l \in [name : STRING, args : Seq(Words)] /\ l.name \in Names
    BY ConstantsOK DEF Names
  <2>2. Rest(t, l) \in Pointers /\ l \in Buffers
    BY <2>1 DEF Rest, Pointers, Buffers
  <2> QED
    BY <1>2, <2>2 DEF FirstToken
<1>3. ASSUME NEW t \in Clients, LoadRest(t) \/ StoreEnd(t) PROVE TokensTypeOK'
  BY <1>3 DEF LoadRest, StoreEnd, Pointers
<1>4. ASSUME NEW t \in Clients, RunSplit(t) PROVE TokensTypeOK'
  <2>1. Cut(args[t].owner) \in [Clients -> Buffers]
    BY <1>4, CutType DEF RunSplit, Pointers
  <2>2. args' = [args EXCEPT ![t] = NULL] /\ saved' = saved
    BY <1>4 DEF RunSplit, AnsweredIn
  <2>3. \/ buffer' = Cut(args[t].owner)
        \/ buffer' = [Cut(args[t].owner) EXCEPT ![t] = NoLine]
    BY <1>4 DEF RunSplit, AnsweredIn
  <2> QED
    BY <2>1, <2>2, <2>3, NoLineType DEF Pointers
<1>5. ASSUME NEW t \in Clients, Answered(t), UNCHANGED saved PROVE TokensTypeOK'
  BY <1>5, NoLineType DEF Answered, AnsweredIn, Pointers
<1>6. \/ UNCHANGED <<saved, buffer, args>>
      \/ \E t \in Clients : \/ \E l \in Lines : FirstToken(t, l)
                            \/ LoadRest(t) \/ StoreEnd(t) \/ RunSplit(t)
                            \/ Answered(t) /\ UNCHANGED saved
  BY DEF vars, locals, Next, Step, Refuse, RunPlain, RunOther, LoginFound,
     LoginNotPrepared, LoginFailed, RefuseUser, FindUser, GoesOn, InsertUser
<1> QED
  BY <1>1, <1>2, <1>3, <1>4, <1>5, <1>6

\* Where the threads are, and that their handlers have the words they read.
LEMMA ThreadType == ASSUME TypeOK, [Next]_vars PROVE ThreadTypeOK'
<1> USE DEF TypeOK, ThreadTypeOK
<1>1. CASE UNCHANGED locals /\ process' \in {process, "segfault"}
  BY <1>1 DEF locals
<1>2. ASSUME NEW t \in Clients, NEW lines, AnsweredIn(t, lines), process' = process
      PROVE  ThreadTypeOK'
  BY <1>2 DEF AnsweredIn, Goto
<1>3. ASSUME NEW t \in Clients, NEW l \in {"load", "store", "dispatch", "other"},
             Goto(t, l), UNCHANGED <<process, argv>>
      PROVE  ThreadTypeOK'
  BY <1>3 DEF Goto
<1>4. ASSUME NEW t \in Clients, RunPlain(t) PROVE Goto(t, "other") /\ UNCHANGED <<process, argv>>
  BY <1>4, PlainGoesOn
<1>5. ASSUME NEW t \in Clients, RunSplit(t), ~AnsweredIn(t, Cut(args[t].owner))
      PROVE  ThreadTypeOK'
  <2>1. PICK w \in Behind(args[t]) : /\ Len(w) >= RequiresArgs[Command(t)]
                                     /\ argv' = [argv EXCEPT ![t] = w]
                                     /\ Goto(t, Handler(Command(t)))
    BY <1>5 DEF RunSplit
  <2>2. w \in Seq(Words)
    BY <1>5, <2>1, BehindWords DEF RunSplit
  <2>3. CASE Handler(Command(t)) = "ident"
    BY <1>5, <2>1, <2>2, <2>3, Tables, Handlers DEF RunSplit, Goto
  <2>4. CASE Handler(Command(t)) = "check"
    BY <1>5, <2>1, <2>2, <2>4, Tables, Handlers DEF RunSplit, Goto
  <2>5. CASE Handler(Command(t)) \in {"post", "other"}
    BY <1>5, <2>1, <2>2, <2>5 DEF RunSplit, Goto
  <2> QED
    BY <2>3, <2>4, <2>5, Handlers
<1>6. ASSUME NEW t \in Clients, FindUser(t), ~Answered(t) PROVE ThreadTypeOK'
  BY <1>6 DEF FindUser, GoesOn, At, Goto
<1>7. \/ UNCHANGED locals /\ process' \in {process, "segfault"}
      \/ \E t \in Clients :
           \/ \E lines : AnsweredIn(t, lines) /\ process' = process
           \/ \E l \in {"load", "store", "dispatch"} : Goto(t, l) /\ UNCHANGED <<process, argv>>
           \/ RunPlain(t)
           \/ RunSplit(t) /\ ~AnsweredIn(t, Cut(args[t].owner))
           \/ FindUser(t) /\ ~Answered(t)
  BY DEF vars, Next, Step, FirstToken, LoadRest, StoreEnd, Refuse, RunOther, Answered,
     LoginFound, LoginNotPrepared, LoginFailed, RefuseUser, InsertUser, RunSplit, FindUser
<1> QED
  BY <1>1, <1>2, <1>3, <1>4, <1>5, <1>6, <1>7

\* Only InsertUser changes the table, and only LoginFound an account.
LEMMA TableSteps ==
  ASSUME [Next]_vars PROVE UNCHANGED <<table, told>> \/ \E t \in Clients : InsertUser(t)
BY DEF vars, Next, Step, FirstToken, LoadRest, StoreEnd, Refuse, RunPlain, RunSplit,
   RunOther, LoginFound, LoginNotPrepared, LoginFailed, RefuseUser, FindUser, GoesOn, history

LEMMA AccountSteps ==
  ASSUME [Next]_vars PROVE UNCHANGED account \/ \E t \in Clients : LoginFound(t)
BY DEF vars, login, Next, Step, FirstToken, LoadRest, StoreEnd, Refuse, RunPlain, RunSplit,
   RunOther, LoginNotPrepared, LoginFailed, RefuseUser, FindUser, InsertUser

LEMMA IdentifiedType ==
  ASSUME TypeOK, [Next]_vars PROVE identified' \in [Clients -> BOOLEAN]
<1>1. \/ UNCHANGED identified
      \/ \E t \in Clients, b \in BOOLEAN : identified' = [identified EXCEPT ![t] = b]
  BY DEF vars, login, Next, Step, FirstToken, LoadRest, StoreEnd, Refuse, RunPlain, RunSplit,
     RunOther, LoginFound, LoginNotPrepared, LoginFailed, RefuseUser, FindUser, InsertUser
<1> QED
  BY <1>1 DEF TypeOK, AccountTypeOK

LEMMA AccountType == ASSUME TypeOK, [Next]_vars PROVE AccountTypeOK'
<1> USE DEF TypeOK, AccountTypeOK
<1>1. CASE UNCHANGED account
  BY <1>1, IdentifiedType
<1>2. ASSUME NEW t \in Clients, LoginFound(t)
      PROVE  account' \in [Clients -> [id : Nat, name : Words \cup {NULL}, level : 0..(Span - 1)]]
  <2>1. PICK u \in users : account' = [account EXCEPT ![t] = AccountOf(u)]
    BY <1>2 DEF LoginFound, Matching
  <2>2. u \in Rows
    BY DEF TableTypeOK
  <2>3. AccountOf(u) \in [id : Nat, name : Words \cup {NULL}, level : 0..(Span - 1)]
    BY <2>2, Unsigned DEF AccountOf, Rows
  <2> QED
    BY <2>1, <2>3
<1> QED
  BY <1>1, <1>2, AccountSteps, IdentifiedType

\* What an INSERT adds.
LEMMA InsertedRow ==
  ASSUME TypeOK, Counted, Ready, NEW t \in Clients, InsertUser(t), Inserted(t)
  PROVE  \E u \in Rows :
           /\ u.id = Cardinality(users) + 1 /\ u.id \in Nat
           /\ u.name = Asked(t).name /\ u.password = Asked(t).password /\ u.level = Asked(t).level
           /\ users' = users \cup {u} /\ author' = Append(author, account[t].id)
           /\ IsFiniteSet(users') /\ Cardinality(users') = u.id
           /\ Asked(t) \in Requests
<1> DEFINE n == Cardinality(users)
           u == [id |-> n + 1, name |-> Asked(t).name, password |-> Asked(t).password,
                 level |-> Asked(t).level]
<1>1. n \in Nat
  BY FS_CardinalityType DEF Counted
<1>2. Valid(t) /\ Len(argv[t]) >= 3
  BY DEF InsertUser, At, Ready, TypeOK, ThreadTypeOK
<1>3. Asked(t) \in Requests
  BY <1>2, AskedType
<1>4. u \in Rows
  BY <1>1, <1>3 DEF Rows, Requests
<1>5. users' = users \cup {u} /\ author' = Append(author, account[t].id)
  BY DEF Inserted
<1>6. u \notin users
  BY <1>1 DEF Counted
<1>7. IsFiniteSet(users') /\ Cardinality(users') = n + 1
  BY <1>5, <1>6, FS_AddElement DEF Counted
<1> QED
  BY <1>1, <1>3, <1>4, <1>5, <1>7

\* Only a thread that goes on to its INSERT can make a name doubted.
LEMMA DoubtedSteps ==
  ASSUME [Next]_vars
  PROVE  UNCHANGED doubted \/ \E t \in Clients : FindUser(t) /\ GoesOn(t)
BY DEF vars, history, Next, Step, FirstToken, LoadRest, StoreEnd, Refuse, RunPlain, RunSplit,
   RunOther, LoginFound, LoginNotPrepared, LoginFailed, RefuseUser, FindUser, InsertUser

LEMMA DoubtedType == ASSUME TypeOK, [Next]_vars PROVE doubted' \subseteq Words
<1> USE DEF TypeOK, HistoryTypeOK
<1>1. ASSUME NEW t \in Clients, FindUser(t), GoesOn(t) PROVE doubted' \subseteq Words
  <2>1. argv[t] \in Seq(Words) /\ Len(argv[t]) >= 3
    BY <1>1 DEF FindUser, At, ThreadTypeOK
  <2>2. argv[t][1] \in Words
    BY <2>1
  <2> QED
    BY <1>1, <2>2 DEF GoesOn
<1> QED
  BY <1>1, DoubtedSteps

LEMMA TableType ==
  ASSUME TypeOK, Counted, Ready, [Next]_vars PROVE TableTypeOK' /\ HistoryTypeOK' /\ Counted'
<1> USE DoubtedType DEF TypeOK, TableTypeOK, HistoryTypeOK
<1>1. CASE UNCHANGED <<table, told>>
  BY <1>1 DEF table, Counted
<1>2. ASSUME NEW t \in Clients, InsertUser(t), Inserted(t)
      PROVE  TableTypeOK' /\ HistoryTypeOK' /\ Counted'
  <2>1. PICK u \in Rows :
           /\ u.id = Cardinality(users) + 1 /\ u.id \in Nat
           /\ users' = users \cup {u} /\ author' = Append(author, account[t].id)
           /\ IsFiniteSet(users') /\ Cardinality(users') = u.id
           /\ Asked(t) \in Requests
    BY <1>2, InsertedRow
  <2>2. account[t].id \in Nat
    BY DEF AccountTypeOK
  <2>3. author' \in Seq(Nat) /\ Len(author') = Len(author) + 1
    BY <2>1, <2>2
  <2>4. told' \subseteq told \cup {Asked(t)}
    BY <1>2 DEF InsertUser
  <2>5. users' \subseteq Rows /\ HistoryTypeOK'
    BY <2>1, <2>4
  <2>6. Counted'
    BY <2>1, FS_CardinalityType DEF Counted
  <2> QED
    BY <2>1, <2>3, <2>5, <2>6
<1>3. ASSUME NEW t \in Clients, InsertUser(t), ~Inserted(t)
      PROVE  TableTypeOK' /\ HistoryTypeOK' /\ Counted'
  BY <1>3 DEF InsertUser, table, Counted
<1> QED
  BY <1>1, <1>2, <1>3, TableSteps

LEMMA TypeStep == ASSUME TypeOK, Counted, Ready, [Next]_vars PROVE TypeOK' /\ Counted'
BY TokensType, ThreadType, AccountType, TableType DEF TypeOK

-----------------------------------------------------------------------------
(***************************************************************************)
(* Accounts and rows                                                       *)
(***************************************************************************)
\* A thread in a handler that needs a level got there by RunSplit, past the
\* checks, or was there before with the same words.
LEMMA HandlerSteps ==
  ASSUME TypeOK, [Next]_vars, NEW t \in Clients, pc'[t] \in {"check", "insert", "post"}
  PROVE  \/ pc'[t] = pc[t] /\ argv'[t] = argv[t]
         \/ RunSplit(t) /\ pc'[t] = "check" /\ Command(t) = "CREATE_USER"
         \/ RunSplit(t) /\ pc'[t] = "post" /\ Command(t) = "MSG_CREATE"
         \/ FindUser(t) /\ Valid(t) /\ pc[t] = "check" /\ pc'[t] = "insert" /\ argv' = argv
<1> USE DEF TypeOK, ThreadTypeOK
<1> DEFINE Kept == pc'[t] = pc[t] /\ argv'[t] = argv[t]
           P == \/ Kept
                \/ RunSplit(t) /\ pc'[t] = "check" /\ Command(t) = "CREATE_USER"
                \/ RunSplit(t) /\ pc'[t] = "post" /\ Command(t) = "MSG_CREATE"
                \/ FindUser(t) /\ Valid(t) /\ pc[t] = "check" /\ pc'[t] = "insert" /\ argv' = argv
<1>1. CASE UNCHANGED locals
  BY <1>1 DEF locals
<1>2. ASSUME NEW s \in Clients, NEW lines, AnsweredIn(s, lines) PROVE Kept
  BY <1>2 DEF AnsweredIn, Goto
<1>3. ASSUME NEW s \in Clients, NEW l \in {"load", "store", "dispatch", "other"},
             Goto(s, l), argv' = argv
      PROVE  Kept
  BY <1>3 DEF Goto
<1>4. ASSUME NEW s \in Clients, RunPlain(s) PROVE Goto(s, "other") /\ argv' = argv
  BY <1>4, PlainGoesOn
<1>5. ASSUME NEW s \in Clients, RunSplit(s), ~AnsweredIn(s, Cut(args[s].owner)) PROVE P
  <2>1. Goto(s, Handler(Command(s))) /\ \E w : argv' = [argv EXCEPT ![s] = w]
    BY <1>5 DEF RunSplit
  <2>2. CASE s = t
    <3>1. pc'[t] = Handler(Command(t))
      BY <2>1, <2>2 DEF Goto
    <3>2. \/ pc'[t] = "check" /\ Command(t) = "CREATE_USER"
          \/ pc'[t] = "post" /\ Command(t) = "MSG_CREATE"
      BY <3>1, Handlers
    <3> QED
      BY <1>5, <2>2, <3>2
  <2>3. CASE s # t
    BY <2>1, <2>3 DEF Goto
  <2> QED
    BY <2>2, <2>3
<1>6. ASSUME NEW s \in Clients, FindUser(s), ~Answered(s) PROVE P
  BY <1>6 DEF FindUser, GoesOn, At, Goto
<1>7. \/ UNCHANGED locals
      \/ \E s \in Clients :
           \/ \E lines : AnsweredIn(s, lines)
           \/ \E l \in {"load", "store", "dispatch"} : Goto(s, l) /\ argv' = argv
           \/ RunPlain(s)
           \/ RunSplit(s) /\ ~AnsweredIn(s, Cut(args[s].owner))
           \/ FindUser(s) /\ ~Answered(s)
  BY DEF vars, Next, Step, FirstToken, LoadRest, StoreEnd, Refuse, RunOther, Answered,
     LoginFound, LoginNotPrepared, LoginFailed, RefuseUser, InsertUser, RunSplit, FindUser
<1> QED
  BY <1>1, <1>2, <1>3, <1>4, <1>5, <1>6, <1>7

LEMMA ReadyStep == ASSUME TypeOK, Ready, [Next]_vars PROVE Ready'
<1> SUFFICES ASSUME NEW t \in Clients, pc'[t] = "insert" PROVE Valid(t)'
  BY DEF Ready
<1>1. argv'[t] = argv[t] /\ Valid(t)
  BY HandlerSteps DEF Ready
<1> QED
  BY <1>1 DEF Valid

\* A login changes only the account of a thread that is in IDENT.
LEMMA LoginElsewhere ==
  ASSUME TypeOK, [Next]_vars, NEW t \in Clients, pc'[t] \in {"check", "insert", "post"}
  PROVE  account'[t] = account[t]
<1>1. ~LoginFound(t)
  BY DEF LoginFound, Answered, AnsweredIn, Goto, TypeOK, ThreadTypeOK
<1>2. ASSUME NEW s \in Clients, LoginFound(s) PROVE account'[t] = account[t]
  <2>1. s # t /\ \E a : account' = [account EXCEPT ![s] = a]
    BY <1>1, <1>2 DEF LoginFound
  <2> QED
    BY <2>1 DEF TypeOK, AccountTypeOK
<1> QED
  BY <1>2, AccountSteps

LEMMA AdminCreatesStep == ASSUME TypeOK, AdminCreates, [Next]_vars PROVE AdminCreates'
<1> SUFFICES ASSUME NEW t \in Clients, pc'[t] \in {"check", "insert"}
             PROVE  account'[t].level >= ADMIN_USER
  BY DEF AdminCreates
<1>1. account'[t] = account[t]
  BY LoginElsewhere
<1>2. CASE pc[t] \in {"check", "insert"}
  BY <1>1, <1>2 DEF AdminCreates
<1>3. CASE RunSplit(t) /\ Command(t) = "CREATE_USER"
  <2>1. account[t].level >= AccessLevel["CREATE_USER"]
    BY <1>3 DEF RunSplit, MayRun
  <2> QED
    BY <1>1, <2>1, Tables DEF ADMIN_USER
<1> QED
  BY <1>2, <1>3, HandlerSteps

LEMMA UserPostsStep == ASSUME TypeOK, UserPosts, [Next]_vars PROVE UserPosts'
<1> SUFFICES ASSUME NEW t \in Clients, pc'[t] = "post"
             PROVE  account'[t].level >= 1
  BY DEF UserPosts
<1>1. account'[t] = account[t]
  BY LoginElsewhere
<1>2. CASE pc[t] = "post"
  BY <1>1, <1>2 DEF UserPosts
<1>3. CASE RunSplit(t) /\ Command(t) = "MSG_CREATE"
  <2>1. account[t].level >= AccessLevel["MSG_CREATE"]
    BY <1>3 DEF RunSplit, MayRun
  <2> QED
    BY <1>1, <2>1, Tables
<1> QED
  BY <1>2, <1>3, HandlerSteps

\* The rows only grow, so an account keeps its row, and a request its own.
LEMMA RowsKept == ASSUME [Next]_vars PROVE users \subseteq users'
BY TableSteps DEF table, InsertUser, Inserted

LEMMA AccountFromRowStep == ASSUME TypeOK, AccountFromRow, [Next]_vars PROVE AccountFromRow'
<1> SUFFICES ASSUME NEW t \in Clients
             PROVE  account'[t] = NoAccount \/ \E u \in users' : account'[t] = AccountOf(u)
  BY DEF AccountFromRow, NoAccount, AccountOf, AsUnsigned
<1>1. CASE account'[t] = account[t]
  BY <1>1, RowsKept DEF AccountFromRow
<1>2. ASSUME NEW s \in Clients, LoginFound(s)
      PROVE  account'[t] = account[t] \/ \E u \in users : account'[t] = AccountOf(u)
  <2>1. PICK u \in users : account' = [account EXCEPT ![s] = AccountOf(u)]
    BY <1>2 DEF LoginFound, Matching
  <2> QED
    BY <2>1 DEF TypeOK, AccountTypeOK
<1> QED
  BY <1>1, <1>2, AccountSteps, RowsKept

LEMMA CreatedIsStoredStep ==
  ASSUME TypeOK, Counted, Ready, CreatedIsStored, [Next]_vars PROVE CreatedIsStored'
<1> SUFFICES ASSUME NEW w \in told'
             PROVE  \E u \in users' : u.name = w.name /\ u.password = w.password /\ u.level = w.level
  BY DEF CreatedIsStored
<1>1. CASE w \in told
  BY <1>1, RowsKept DEF CreatedIsStored
<1>2. CASE w \notin told
  <2>1. PICK t \in Clients : InsertUser(t) /\ Inserted(t) /\ w = Asked(t)
    BY <1>2, TableSteps DEF InsertUser
  <2> QED
    BY <2>1, InsertedRow
<1> QED
  BY <1>1, <1>2

\* The new row has as its author an account with the level of an administrator,
\* hence that of a row, with a smaller id.
LEMMA CreatedByAdminStep ==
  ASSUME TypeOK, Counted, Ready, AdminCreates, AccountFromRow, CreatedByAdmin, [Next]_vars
  PROVE  CreatedByAdmin'
<1> SUFFICES ASSUME NEW u \in users', u.id # 1
             PROVE  \E v \in users' :
                      v.id = author'[u.id] /\ v.id < u.id /\ AsUnsigned(v.level) >= ADMIN_USER
  BY DEF CreatedByAdmin, AsUnsigned, ADMIN_USER
<1>1. CASE UNCHANGED table
  BY <1>1 DEF table, CreatedByAdmin
<1>2. ASSUME NEW t \in Clients, InsertUser(t), Inserted(t)
      PROVE  \E v \in users' :
               v.id = author'[u.id] /\ v.id < u.id /\ AsUnsigned(v.level) >= ADMIN_USER
  <2> DEFINE n == Cardinality(users)
  <2>1. PICK w \in Rows : /\ w.id = n + 1 /\ w.id \in Nat
                          /\ users' = users \cup {w} /\ author' = Append(author, account[t].id)
    BY <1>2, InsertedRow
  <2>2. n \in Nat /\ author \in Seq(Nat) /\ Len(author) = n /\ account[t].id \in Nat
    BY FS_CardinalityType DEF Counted, TypeOK, TableTypeOK, AccountTypeOK
  <2>3. CASE u \in users
    <3>1. u.id \in 1..n
      BY <2>3 DEF Counted
    <3>2. author'[u.id] = author[u.id]
      BY <2>1, <2>2, <3>1
    <3> QED
      BY <2>1, <2>3, <3>2 DEF CreatedByAdmin
  <2>4. CASE u = w
    <3>1. author'[u.id] = account[t].id
      BY <2>1, <2>2, <2>4
    <3>2. account[t].level >= ADMIN_USER
      BY <1>2 DEF InsertUser, At, AdminCreates
    <3>3. PICK v \in users : account[t] = AccountOf(v)
      BY <3>2 DEF AccountFromRow, NoAccount, ADMIN_USER
    <3>4. v.id = account[t].id /\ AsUnsigned(v.level) = account[t].level
      BY <3>3 DEF AccountOf
    <3>5. v.id \in 1..n
      BY DEF Counted
    <3> QED
      BY <2>1, <2>2, <2>4, <3>1, <3>2, <3>4, <3>5
  <2> QED
    BY <2>1, <2>3, <2>4
<1>3. ASSUME NEW t \in Clients, InsertUser(t), ~Inserted(t) PROVE UNCHANGED table
  BY <1>3 DEF InsertUser, table
<1> QED
  BY <1>1, <1>2, <1>3, TableSteps

-----------------------------------------------------------------------------
(***************************************************************************)
(* Names                                                                   *)
(***************************************************************************)
LEMMA DoubtedGrows == ASSUME [Next]_vars PROVE doubted \subseteq doubted'
BY DoubtedSteps DEF GoesOn

\* Who goes on to its INSERT with a name that is not doubted has seen that it is
\* free, and that nobody else was about to insert it.
LEMMA GoesOnFree ==
  ASSUME TypeOK, NEW t \in Clients, FindUser(t), GoesOn(t), argv[t][1] \notin doubted'
  PROVE  /\ ~Exists(argv[t][1]) /\ users' = users
         /\ \A u \in Clients : pc[u] = "insert" => argv[u][1] # argv[t][1]
         /\ \A u \in Clients \ {t} : pc'[u] = pc[u]
BY DEF GoesOn, FindUser, table, Goto, TypeOK, ThreadTypeOK

\* A step of anybody else adds no row of a name that is still free, ...
LEMMA FreeRows ==
  ASSUME TypeOK, Counted, Ready, StillFree, [Next]_vars, NEW t \in Clients,
         pc[t] = "insert", pc'[t] = "insert", argv[t][1] \notin doubted
  PROVE  \A u \in users' : u.name # argv[t][1]
<1>1. \A u \in users : u.name # argv[t][1]
  BY DEF StillFree, Exists
<1>2. ASSUME NEW s \in Clients, InsertUser(s), Inserted(s)
      PROVE  \A u \in users' : u.name # argv[t][1]
  <2>1. pc[s] = "insert" /\ pc'[s] = "idle"
    BY <1>2 DEF InsertUser, At, Answered, AnsweredIn, Goto, TypeOK, ThreadTypeOK
  <2>2. argv[s][1] # argv[t][1]
    BY <2>1 DEF StillFree
  <2>3. PICK w : users' = users \cup {w} /\ w.name = Asked(s).name
    BY <1>2, InsertedRow
  <2> QED
    BY <1>1, <2>2, <2>3 DEF Asked
<1> QED
  BY <1>1, <1>2, TableSteps DEF table, InsertUser

\* ... and brings nobody else to the point of inserting one.
LEMMA FreeNames ==
  ASSUME TypeOK, StillFree, [Next]_vars, NEW t \in Clients, NEW u \in Clients \ {t},
         pc[t] = "insert", argv[t][1] \notin doubted', pc'[u] = "insert"
  PROVE  argv'[u][1] # argv[t][1]
<1>1. CASE pc'[u] = pc[u] /\ argv'[u] = argv[u]
  BY <1>1, DoubtedGrows DEF StillFree
<1>2. CASE FindUser(u) /\ argv' = argv
  <2>1. GoesOn(u)
    BY <1>2 DEF FindUser, Answered, AnsweredIn, Goto, TypeOK, ThreadTypeOK
  <2> QED
    BY <1>2, <2>1, GoesOnFree
<1> QED
  BY <1>1, <1>2, HandlerSteps

LEMMA StillFreeStep == ASSUME TypeOK, Counted, Ready, StillFree, [Next]_vars PROVE StillFree'
<1> SUFFICES ASSUME NEW t \in Clients, pc'[t] = "insert", argv'[t][1] \notin doubted'
             PROVE  /\ \A u \in users' : u.name # argv'[t][1]
                    /\ \A u \in Clients \ {t} : pc'[u] = "insert" => argv'[u][1] # argv'[t][1]
  BY DEF StillFree, Exists
<1>1. CASE pc[t] = "insert" /\ argv'[t] = argv[t]
  BY <1>1, DoubtedGrows, FreeRows, FreeNames
<1>2. CASE FindUser(t) /\ argv' = argv
  <2>1. GoesOn(t)
    BY <1>2 DEF FindUser, Answered, AnsweredIn, Goto, TypeOK, ThreadTypeOK
  <2> QED
    BY <1>2, <2>1, GoesOnFree DEF Exists
<1> QED
  BY <1>1, <1>2, HandlerSteps

LEMMA NamesUniqueStep ==
  ASSUME TypeOK, Counted, Ready, StillFree, NamesUnique, [Next]_vars PROVE NamesUnique'
<1> SUFFICES ASSUME NEW u \in users', NEW v \in users', u.name = v.name, u.name \notin doubted'
             PROVE  u = v
  BY DEF NamesUnique
<1>1. CASE UNCHANGED table
  BY <1>1, DoubtedGrows DEF table, NamesUnique
<1>2. ASSUME NEW t \in Clients, InsertUser(t), Inserted(t) PROVE u = v
  <2>1. PICK w : users' = users \cup {w} /\ w.name = argv[t][1]
    BY <1>2, InsertedRow DEF Asked
  <2>2. pc[t] = "insert"
    BY <1>2 DEF InsertUser, At
  <2>3. w.name \notin doubted => \A x \in users : x.name # w.name
    BY <2>1, <2>2 DEF StillFree, Exists
  <2> QED
    BY <2>1, <2>3, DoubtedGrows DEF NamesUnique
<1>3. ASSUME NEW t \in Clients, InsertUser(t), ~Inserted(t) PROVE UNCHANGED table
  BY <1>3 DEF InsertUser, table
<1> QED
  BY <1>1, <1>2, <1>3, TableSteps

-----------------------------------------------------------------------------
(***************************************************************************)
(* The invariant                                                           *)
(***************************************************************************)
IInv ==
  /\ TypeOK /\ Counted /\ Ready /\ AdminCreates /\ UserPosts
  /\ AccountFromRow /\ CreatedByAdmin /\ CreatedIsStored /\ StillFree /\ NamesUnique

LEMMA InitInv == Init => IInv
<1> SUFFICES ASSUME Init PROVE IInv
  OBVIOUS
<1>1. IsFiniteSet(users) /\ Cardinality(users) = 1
  BY FS_Singleton DEF Init
<1>2. Admin \in Rows
  BY ConstantsOK DEF Admin, Rows, ADMIN_USER
<1>3. TableTypeOK /\ Counted
  BY <1>1, <1>2 DEF Init, TableTypeOK, Counted, Admin
<1>4. TokensTypeOK /\ ThreadTypeOK /\ HistoryTypeOK
  BY NoLineType DEF Init, TokensTypeOK, ThreadTypeOK, HistoryTypeOK, Pointers
<1>5. AccountTypeOK
  BY ConstantsOK DEF Init, AccountTypeOK, NoAccount
<1>6. Ready /\ AdminCreates /\ UserPosts /\ AccountFromRow /\ CreatedIsStored
  BY DEF Init, Ready, AdminCreates, UserPosts, AccountFromRow, CreatedIsStored
<1>7. CreatedByAdmin
  BY DEF Init, CreatedByAdmin, Admin
<1>8. StillFree /\ NamesUnique
  BY DEF Init, StillFree, NamesUnique
<1> QED
  BY <1>3, <1>4, <1>5, <1>6, <1>7, <1>8 DEF IInv, TypeOK

LEMMA Invariance == Spec => []IInv
<1>1. IInv /\ [Next]_vars => IInv'
  BY TypeStep, ReadyStep, AdminCreatesStep, UserPostsStep, AccountFromRowStep,
     CreatedByAdminStep, CreatedIsStoredStep, StillFreeStep, NamesUniqueStep DEF IInv
<1> QED
  BY InitInv, <1>1, PTL DEF Spec

\* The state stays typed, whatever arguments strtok hands out.
THEOREM TypeCorrect == Spec => []TypeOK
<1>1. IInv => TypeOK
  BY DEF IInv
<1> QED
  BY Invariance, <1>1, PTL

\* The access level of a client is always that of a row of the table users.
THEOREM LevelsFromTable == Spec => []AccountFromRow
<1>1. IInv => AccountFromRow
  BY DEF IInv
<1> QED
  BY Invariance, <1>1, PTL

\* The poster of a message is a row of the table users: the check of the access
\* level, made when the command was dispatched, is what shows it.
THEOREM PostersAreUsers == Spec => []PosterIsUser
<1>1. ASSUME AccountFromRow, UserPosts PROVE PosterIsUser
  <2> SUFFICES ASSUME NEW t \in Clients, pc[t] = "post"
               PROVE  \E u \in users : u.id = account[t].id
    BY DEF PosterIsUser
  <2>1. account[t].level >= 1
    BY <1>1 DEF UserPosts
  <2>2. PICK u \in users : account[t] = AccountOf(u)
    BY <1>1, <2>1 DEF AccountFromRow, NoAccount
  <2> QED
    BY <2>2 DEF AccountOf
<1>2. IInv => PosterIsUser
  BY <1>1 DEF IInv
<1> QED
  BY Invariance, <1>2, PTL

\* Every user goes back, through administrators, to the default one.
THEOREM Provenance == Spec => []CreatedByAdmin
<1>1. IInv => CreatedByAdmin
  BY DEF IInv
<1> QED
  BY Invariance, <1>1, PTL

\* Two users of one name come from a SELECT that failed or from two creations of
\* that name that overlap, and from nothing else.
THEOREM NamesAreUnique == Spec => []NamesUnique
<1>1. IInv => NamesUnique
  BY DEF IInv
<1> QED
  BY Invariance, <1>1, PTL

\* USER_CREATED is never answered for a user that is not there.
THEOREM CreationIsDurable == Spec => []CreatedIsStored
<1>1. IInv => CreatedIsStored
  BY DEF IInv
<1> QED
  BY Invariance, <1>1, PTL

=============================================================================

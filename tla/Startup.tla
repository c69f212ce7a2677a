------------------------------ MODULE Startup ------------------------------
(***************************************************************************)
(* One start of the program after another: main (src/src/teletexter.c)     *)
(* with manage_startup_args, loadConfig, init_db, i2c_init and the part of *)
(* start_server before its accept loop, under systemd's Restart=always.    *)
(*                                                                         *)
(* What a start leaves behind is the database file, which sqlite3_open     *)
(* makes the moment it is called.  Whether a later start creates the       *)
(* schema depends on that file being there, and nothing else.              *)
(*                                                                         *)
(* Abstractions: the value of a configuration line is what atoi, strtol or *)
(* strncpy makes of it (a number, or a name, NULL for the empty one); a    *)
(* run of the display's initialisation is one step, see LcdPanel; the log  *)
(* is a call that may end the process.                                     *)
(***************************************************************************)
EXTENDS Integers, Sequences

CONSTANTS
  Names,         \* names in a configuration: files, hosts
  Paths,         \* names of configuration files
  DefaultPath,   \* /etc/teletexter/teletexter.cfg
  ContentsOf,    \* the lines of each, NULL if it cannot be opened
  CommandLines,  \* the arguments main may be started with
  PortSpan,      \* 2^16: how many ports htons can express
  NULL,
  MaxAddresses,  \* bound: addresses getaddrinfo finds for the host
  MaxStarts      \* bound: times the program is started

(***************************************************************************)
(* Values                                                                  *)
(***************************************************************************)
\* valid_keywords, by the type of the field each is stored in.
ByteKeys   == {"LCDAddress", "LCDLine1", "LCDLine2", "LCDLine3", "LCDLine4",
               "LCDNoBacklight", "LCDBacklight", "LCDEnableBit"}
NumberKeys == ByteKeys \cup
              {"ServerPort", "MaxClients", "MaxMessageLength", "MaxNicknameLength",
               "ScrollLongMessages", "ScrollSpeed", "LCDCols", "LCDRows"}
NameKeys   == {"LayoutFile", "DatabaseFile", "SystemLogPath", "WhiteList", "BlackList",
               "LCDDeviceFile", "ServerBindAddress", "ServerIdentifier"}
Stored     == NumberKeys \cup NameKeys
valid_keywords == Stored \cup {"LCDClrDisp"}     \* known, and not stored

\* A line of a configuration file as loadConfig takes it, and an argument.
Entries == {l \in [key : STRING, value : Int \cup Names \cup {NULL}] :
              /\ l.key \in NumberKeys => l.value \in Int \cup {NULL}
              /\ l.key \in NameKeys => l.value \in Names \cup {NULL}}
Options == {o \in [name : STRING, value : Int \cup Names \cup Paths \cup {NULL}] :
              o.name = "--config" => o.value \in Paths \cup {NULL}}

\* struct Config config = {0}
Zeroed == [k \in Stored |-> IF k \in NumberKeys THEN 0 ELSE NULL]

\* What the field of the keyword k holds of a value: a (uint8_t) its last byte.
Field(k, value) == IF k \in ByteKeys THEN value % 256 ELSE value

BugAssign(c, l) ==   \* mutant: the branch for LCDLine2 is a copy of the one for LCDLine1
  IF l.key \notin Stored THEN c
  ELSE [c EXCEPT ![IF l.key = "LCDLine2" THEN "LCDLine1" ELSE l.key] = Field(l.key, l.value)]

\* The configuration c after the line l.
Assign(c, l) ==
  IF l.key \notin Stored THEN c ELSE [c EXCEPT ![l.key] = Field(l.key, l.value)]

BugHtons(n) == n   \* mutant: no cast to 16 bits
Htons(n) == n % PortSpan

Tables == {"users", "messages", "gpio_a", "gpio_d"}

BugStatements == <<"users", "messages", "gpio_a", "gpio_d">>   \* mutant: no transaction

\* sql_commands: a CREATE TABLE IF NOT EXISTS per table, in a transaction.
Statements == <<"BEGIN", "users", "messages", "gpio_a", "gpio_d", "COMMIT">>

\* A database: its file, its tables, and the rows ('admin', 'admin', 3).
Database == [exists : BOOLEAN, tables : SUBSET Tables, admins : Nat]
Absent   == [exists |-> FALSE, tables |-> {}, admins |-> 0]
Complete == [exists |-> TRUE, tables |-> Tables, admins |-> 1]

ASSUME ConstantsOK ==
  /\ NULL \notin Names /\ NULL \notin Int /\ NULL \notin Database
  /\ DefaultPath \in Paths
  /\ DOMAIN ContentsOf = Paths
  /\ \A p \in Paths : ContentsOf[p] # NULL => ContentsOf[p] \in Seq(Entries)
  /\ CommandLines \subseteq Seq(Options)
  /\ PortSpan \in Nat /\ PortSpan > 1
  /\ MaxAddresses \in Nat /\ MaxStarts \in Nat

VARIABLES
  disk,       \* the databases, by name; NULL names sqlite's temporary one
  phase,      \* where main is; "down" when the program does not run
  given,      \* the arguments of this start
  argv,       \* those not looked at yet
  arg,        \* configPath and arg_srv_port
  input,      \* the lines of the configuration not read yet
  config,     \* struct Config config
  isNew,      \* is_new_db
  todo,       \* the statements create_db has not run yet
  created,    \* rc of create_db: did all of them succeed?
  txn,        \* the open transaction: the database as it would be, or NULL
  addresses,  \* how many of getaddrinfo's results are left
  sockets,    \* how many sockets start_server has open
  listening,  \* the port the server socket is bound to, or NULL
  starts,     \* starts so far
  spoilt      \* history: databases whose first start did not get through

options  == <<given, argv, arg>>
settings == <<input, config>>
creation == <<isNew, todo, created, txn>>
network  == <<addresses, sockets, listening>>
memory   == <<options, settings, creation, network>>
vars     == <<disk, phase, memory, starts, spoilt>>

dbFile == config["DatabaseFile"]
Db     == disk[dbFile]

NoArg == [config |-> DefaultPath, port |-> 0]

Init ==
  /\ disk = [f \in Names \cup {NULL} |-> Absent]
  /\ phase = "down" /\ starts = 0 /\ spoilt = {}
  /\ given = <<>> /\ argv = <<>> /\ arg = NoArg
  /\ input = <<>> /\ config = Zeroed
  /\ isNew = FALSE /\ todo = <<>> /\ created = TRUE /\ txn = NULL
  /\ addresses = 0 /\ sockets = 0 /\ listening = NULL

\* The file is there, and its schema or its default user are still to come.
Creating ==
  \/ phase \in {"announce", "schema", "noschema", "insert"}
  \/ phase = "verdict" /\ ~created

\* The process ends: an open transaction and the temporary database are lost.
Exit ==
  /\ phase' = "down"
  /\ disk' = [disk EXCEPT ![NULL] = Absent]
  /\ spoilt' = (spoilt \cup (IF Creating THEN {dbFile} ELSE {})) \ {NULL}
  /\ given' = <<>> /\ argv' = <<>> /\ arg' = NoArg
  /\ input' = <<>> /\ config' = Zeroed
  /\ isNew' = FALSE /\ todo' = <<>> /\ created' = TRUE /\ txn' = NULL
  /\ addresses' = 0 /\ sockets' = 0 /\ listening' = NULL
  /\ UNCHANGED starts

At(p)   == phase = p
Goto(p) == phase' = p

(***************************************************************************)
(* manage_startup_args                                                     *)
(***************************************************************************)
\* systemd starts the program without arguments, an administrator with some.
Start(opts) ==
  /\ At("down") /\ starts < MaxStarts
  /\ starts' = starts + 1
  /\ given' = opts /\ argv' = opts
  /\ Goto("args")
  /\ UNCHANGED <<disk, arg, settings, creation, network, spoilt>>

\* A known option with its value; --bind and --users are taken and never used.
Accepted(o) ==
  /\ o.name \in {"--config", "--port", "--bind", "--users"}
  /\ o.value # NULL
  /\ o.name = "--port" => o.value \in Int        \* is_numerical

ParseOption ==
  /\ At("args") /\ argv # <<>>
  /\ LET o == Head(argv) IN
     \/ /\ Accepted(o)
        /\ argv' = Tail(argv)
        /\ arg' = CASE o.name = "--config" -> [arg EXCEPT !.config = o.value]
                    [] o.name = "--port"   -> [arg EXCEPT !.port = o.value]
                    [] OTHER               -> arg
        /\ UNCHANGED <<disk, phase, given, settings, creation, network, starts, spoilt>>
     \/ ~Accepted(o) /\ Exit

(***************************************************************************)
(* loadConfig, and what main makes of it                                   *)
(***************************************************************************)
OpenConfig ==
  /\ At("args") /\ argv = <<>>
  /\ \/ /\ ContentsOf[arg.config] # NULL
        /\ input' = ContentsOf[arg.config]
        /\ Goto("config")
        /\ UNCHANGED <<disk, options, config, creation, network, starts, spoilt>>
     \/ ContentsOf[arg.config] = NULL /\ Exit

\* An empty line or a comment, whatever follows the #.
Skipped(l) == l.key = "#"
Valid(l)   == l.value # NULL /\ l.key \in valid_keywords

ReadLine ==
  /\ At("config") /\ input # <<>>
  /\ LET l == Head(input) IN
     \/ /\ Skipped(l) \/ Valid(l)
        /\ input' = Tail(input)
        /\ config' = IF Skipped(l) THEN config ELSE Assign(config, l)
        /\ UNCHANGED <<disk, phase, options, creation, network, starts, spoilt>>
     \/ ~Skipped(l) /\ ~Valid(l) /\ Exit

BothLists == config["BlackList"] # NULL /\ config["WhiteList"] # NULL

BugConfigRead ==   \* mutant: --port does not count if the configuration has a port
  /\ At("config") /\ input = <<>>
  /\ \/ /\ ~BothLists
        /\ config' = IF config["ServerPort"] = 0 THEN [config EXCEPT !["ServerPort"] = arg.port]
                     ELSE config
        /\ Goto("access")
        /\ UNCHANGED <<disk, options, input, creation, network, starts, spoilt>>
     \/ BothLists /\ Exit

\* A port among the arguments replaces the one of the configuration.
ConfigRead ==
  /\ At("config") /\ input = <<>>
  /\ \/ /\ ~BothLists
        /\ config' = IF arg.port # 0 THEN [config EXCEPT !["ServerPort"] = arg.port]
                     ELSE config
        /\ Goto("access")
        /\ UNCHANGED <<disk, options, input, creation, network, starts, spoilt>>
     \/ BothLists /\ Exit

(***************************************************************************)
(* init_db and create_db                                                   *)
(***************************************************************************)
BugFindFile ==   \* mutant: every start takes the database for new
  /\ At("access")
  /\ isNew' = TRUE
  /\ Goto("open")
  /\ UNCHANGED <<disk, options, settings, todo, created, txn, network, starts, spoilt>>

\* access(db_name, F_OK); no file has the empty name.
FindFile ==
  /\ At("access")
  /\ isNew' = ~Db.exists
  /\ Goto("open")
  /\ UNCHANGED <<disk, options, settings, todo, created, txn, network, starts, spoilt>>

BugOpenFile ==   \* mutant: opened first, then looked for
  /\ At("open")
  /\ \/ /\ disk' = [disk EXCEPT ![dbFile].exists = TRUE]
        /\ Goto("display")
        /\ UNCHANGED <<memory, starts, spoilt>>
     \/ Exit

\* sqlite3_open: an empty file is made at once, or there is none to be had.
OpenFile ==
  /\ At("open")
  /\ \/ /\ disk' = [disk EXCEPT ![dbFile].exists = TRUE]
        /\ Goto(IF isNew THEN "announce" ELSE "display")
        /\ UNCHANGED <<memory, starts, spoilt>>
     \/ Exit

\* "Database file %s is new. Initializing...", then sqlite3_exec.
Announce ==
  /\ At("announce")
  /\ todo' = Statements
  /\ Goto("schema")
  /\ UNCHANGED <<disk, options, settings, isNew, created, txn, network, starts, spoilt>>

\* What a statement of this connection sees, and where it writes.
Seen == IF txn = NULL THEN Db ELSE txn
Write(d) ==
  IF txn = NULL THEN disk' = [disk EXCEPT ![dbFile] = d] /\ UNCHANGED txn
  ELSE txn' = d /\ UNCHANGED disk

Statement ==
  /\ At("schema") /\ todo # <<>>
  /\ \/ Head(todo) = "BEGIN"  /\ txn' = Db /\ UNCHANGED disk
     \/ Head(todo) = "COMMIT" /\ disk' = [disk EXCEPT ![dbFile] = txn] /\ txn' = NULL
     \/ Head(todo) \in Tables /\ Write([Seen EXCEPT !.tables = @ \cup {Head(todo)}])
  /\ todo' = Tail(todo)
  /\ UNCHANGED <<phase, options, settings, isNew, created, network, starts, spoilt>>

\* The rest of sql_commands is not run; sqlite may roll back on its own.
StatementFails ==
  /\ At("schema") /\ todo # <<>>
  /\ created' = FALSE
  /\ txn' \in {txn, NULL}
  /\ todo' = <<>>
  /\ Goto("noschema")
  /\ UNCHANGED <<disk, options, settings, isNew, network, starts, spoilt>>

\* "Failed to create tables of database", or all is well; on to the user.
SchemaDone ==
  /\ \/ At("schema") /\ todo = <<>>
     \/ At("noschema")
  /\ Goto("insert")
  /\ UNCHANGED <<disk, memory, starts, spoilt>>

\* INSERT INTO users ... ('admin', 'admin', 3), also when create_db failed,
\* and with its result ignored.
InsertAdmin ==
  /\ At("insert")
  /\ \/ /\ "users" \in Seen.tables
        /\ Write([Seen EXCEPT !.admins = @ + 1])
        /\ Goto("verdict") /\ UNCHANGED spoilt
     \/ /\ spoilt' = spoilt \cup {dbFile}
        /\ Goto("noadmin") /\ UNCHANGED <<disk, txn>>
  /\ UNCHANGED <<options, settings, isNew, todo, created, network, starts>>

\* execute_sql logs the error.
AdminFailed ==
  /\ At("noadmin")
  /\ Goto("verdict")
  /\ UNCHANGED <<disk, memory, starts, spoilt>>

\* rc is create_db's: sqlite3_close rolls back, or "New database %s initialized!"
Verdict ==
  /\ At("verdict")
  /\ \/ created /\ Goto("display") /\ UNCHANGED <<disk, memory, starts, spoilt>>
     \/ ~created /\ Exit

(***************************************************************************)
(* The display, and start_server up to listen                              *)
(***************************************************************************)
\* setuplcd, i2c_init, clear_lcd_lines and the welcome: without a size of the
\* display, or when the bus fails, the program ends.
InitDisplay ==
  /\ At("display")
  /\ \/ /\ config["LCDCols"] # 0 /\ config["LCDRows"] # 0
        /\ Goto("resolve")
        /\ UNCHANGED <<disk, memory, starts, spoilt>>
     \/ Exit

\* getaddrinfo(config.serverConfig.serverHost)
Resolve ==
  /\ At("resolve")
  /\ \/ /\ addresses' \in 1..MaxAddresses
        /\ Goto("bind")
        /\ UNCHANGED <<disk, options, settings, creation, sockets, listening, starts, spoilt>>
     \/ Exit

\* socket() for the next address; without one, continue.
OpenSocket ==
  /\ At("bind") /\ addresses > 0
  /\ \/ sockets' = sockets + 1 /\ Goto("socket") /\ UNCHANGED addresses
     \/ addresses' = addresses - 1 /\ UNCHANGED <<phase, sockets>>
  /\ UNCHANGED <<disk, options, settings, creation, listening, starts, spoilt>>

\* Port 0 leaves the choice of a port to the kernel.
Bound == IF Htons(config["ServerPort"]) = 0 THEN 1..(PortSpan - 1)
         ELSE {Htons(config["ServerPort"])}

BugBind ==   \* mutant: no close after a bind that failed
  /\ At("socket")
  /\ \/ listening' \in Bound /\ Goto("listen") /\ UNCHANGED <<sockets, addresses>>
     \/ addresses' = addresses - 1 /\ Goto("bind") /\ UNCHANGED <<sockets, listening>>
  /\ UNCHANGED <<disk, options, settings, creation, starts, spoilt>>

BugBindAgain ==   \* mutant: the same address again, for (p = res; p != NULL;)
  /\ At("socket")
  /\ \/ listening' \in Bound /\ Goto("listen") /\ UNCHANGED sockets
     \/ sockets' = sockets - 1 /\ Goto("bind") /\ UNCHANGED listening
  /\ UNCHANGED <<disk, options, settings, creation, addresses, starts, spoilt>>

\* The first address that can be bound is taken; the others' sockets are closed.
Bind ==
  /\ At("socket")
  /\ \/ listening' \in Bound /\ Goto("listen") /\ UNCHANGED <<sockets, addresses>>
     \/ /\ sockets' = sockets - 1 /\ addresses' = addresses - 1
        /\ Goto("bind") /\ UNCHANGED listening
  /\ UNCHANGED <<disk, options, settings, creation, starts, spoilt>>

NoAddress == At("bind") /\ addresses = 0 /\ Exit

Listen ==
  /\ At("listen")
  /\ \/ Goto("serving") /\ UNCHANGED <<disk, memory, starts, spoilt>>
     \/ Exit

(***************************************************************************)
(* The end of the program at any other moment                              *)
(***************************************************************************)
\* log_sys_message and log_err_message exit(1) when the log cannot be opened.
LogFails ==
  /\ phase \in {"announce", "noschema", "noadmin", "verdict", "display", "serving"}
  /\ Exit

\* A signal, a crash, a power failure; a handler's write to a failed bus.
Killed == phase # "down" /\ Exit

-----------------------------------------------------------------------------
\* The steps of main up to the accept loop.
Main ==
  \/ ParseOption \/ OpenConfig \/ ReadLine \/ ConfigRead
  \/ FindFile \/ OpenFile \/ Announce \/ Statement \/ StatementFails \/ SchemaDone
  \/ InsertAdmin \/ AdminFailed \/ Verdict
  \/ InitDisplay \/ Resolve \/ OpenSocket \/ Bind \/ NoAddress \/ Listen

Next ==
  \/ \E opts \in CommandLines : Start(opts)
  \/ Main
  \/ LogFails
  \/ Killed

Spec == Init /\ [][Next]_vars

\* main runs, and the calls it makes return.  A start is owed to nobody:
\* systemd gives up on a service that fails too often.
FairSpec == Spec /\ WF_vars(Main)

-----------------------------------------------------------------------------
(***************************************************************************)
(* Properties                                                              *)
(***************************************************************************)
Phases == {"down", "args", "config", "access", "open", "announce", "schema", "noschema",
           "insert", "noadmin", "verdict", "display", "resolve", "bind", "socket",
           "listen", "serving"}

DiskTypeOK ==
  /\ disk \in [Names \cup {NULL} -> Database]
  /\ txn \in Database \cup {NULL}
  /\ spoilt \subseteq Names \cup {NULL}
ConfigTypeOK ==
  /\ config \in [Stored -> Int \cup Names \cup {NULL}]
  /\ \A k \in NumberKeys : config[k] \in Int
  /\ \A k \in NameKeys : config[k] \in Names \cup {NULL}
MainTypeOK ==
  /\ phase \in Phases /\ starts \in Nat
  /\ isNew \in BOOLEAN /\ created \in BOOLEAN
NetworkTypeOK ==
  /\ addresses \in Nat /\ sockets \in Nat
  /\ listening \in 0..(PortSpan - 1) \cup {NULL}

\* Types: a configuration has a value for every field, numbers where the
\* structure has numbers, and the port is one of 16 bits.
TypeOK == DiskTypeOK /\ ConfigTypeOK /\ MainTypeOK /\ NetworkTypeOK

\* The schema is there as a whole or not at all, wherever a start was cut
\* short: create_db's statements are one transaction.
SchemaIsWhole == \A f \in DOMAIN disk : disk[f].tables \in {{}, Tables}

\* However often the program is started, init_db inserts its default user
\* once in a database, and never in one without tables.
DefaultUserOnce ==
  \A f \in DOMAIN disk : disk[f].admins <= (IF disk[f].tables = {} THEN 0 ELSE 1)

\* A database file that init_db is not working on has all its tables and its
\* default user, through any failure of the arguments, the configuration, the
\* display or the network and any number of starts, unless the start that made
\* the file was ended, or a statement of it failed, before init_db was done.
CompleteUnlessSpoilt ==
  \A f \in DOMAIN disk :
    disk[f].exists /\ f \notin spoilt /\ ~(Creating /\ f = dbFile) => disk[f] = Complete

\* A database that misses its default user, or everything.
Unfinished == [exists : {TRUE}, tables : {{}, Tables}, admins : {0}]

\* How each database stands: NULL while the start that made its file works on it.
Standing ==
  [f \in Names |-> IF Creating /\ f = dbFile /\ f \notin spoilt THEN NULL ELSE disk[f]]

Databases ==
  INSTANCE Databases WITH Files <- Names, None <- Absent, New <- NULL, db <- Standing

\* Whatever is started, fails or is ended, in any order: a database file is
\* made once, and no later start of the program changes what the first one
\* left, be it complete or not.
ImplementsDatabases == Databases!Spec

\* What the last line for the keyword k asks for, or the zeroed structure.
LastOf(k, lines) ==
  LET places == {i \in DOMAIN lines : lines[i].key = k}
  IN  IF places = {} THEN Zeroed[k]
      ELSE Field(k, lines[CHOOSE i \in places : \A j \in places : j <= i].value)

\* The port that was asked for: the last --port, or else the configuration's.
AskedPort ==
  LET ports == {i \in DOMAIN given : given[i].name = "--port"}
      last  == CHOOSE i \in ports : \A j \in ports : j <= i
      lines == ContentsOf[arg.config]
  IN  IF ports # {} /\ given[last].value # 0 THEN given[last].value
      ELSE LastOf("ServerPort", lines)

\* While a server is up, every field of its record config, the bytes for the
\* display included, holds what the last line for its keyword says in the file
\* its last --config names, and the server listens on the port asked for if
\* there is such a port.  It is never up on a file with an unknown keyword or a
\* keyword without a value, with both lists or without the size of the display.
\* What the program does with a field is another matter: no part of it uses
\* --bind, and the ioctl of lcd_disp.c does not use LCDAddress.
ServesAsConfigured ==
  At("serving") =>
    LET paths == {i \in DOMAIN given : given[i].name = "--config"}
        path  == IF paths = {} THEN DefaultPath
                 ELSE given[CHOOSE i \in paths : \A j \in paths : j <= i].value
        lines == ContentsOf[path]
    IN  /\ \A i \in DOMAIN lines : Skipped(lines[i]) \/ Valid(lines[i])
        /\ \A k \in Stored \ {"ServerPort"} : config[k] = LastOf(k, lines)
        /\ LastOf("BlackList", lines) = NULL \/ LastOf("WhiteList", lines) = NULL
        /\ LastOf("LCDCols", lines) # 0 /\ LastOf("LCDRows", lines) # 0
        /\ AskedPort \in 1..(PortSpan - 1) => listening = AskedPort

\* A socket is open only while start_server tries an address with it or
\* listens on it: none is left over from the addresses that failed.
NoSocketLeft ==
  sockets = IF phase \in {"socket", "listen", "serving"} THEN 1 ELSE 0

\* Every start comes to serve its clients, or to an end: the loops over the
\* arguments, the lines, the statements and the addresses are left.
Settles == (phase = "args") ~> (phase \in {"serving", "down"})

=============================================================================

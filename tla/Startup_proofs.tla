--------------------------- MODULE Startup_proofs ---------------------------
(***************************************************************************)
(* Theorems about Startup, for all configuration files, arguments and      *)
(* databases, and any number of starts and addresses.                      *)
(***************************************************************************)
EXTENDS Startup, SequenceTheorems, TLAPS

\* What is still to be read is of its kind.
InputTyped ==
  /\ input \in Seq(Entries)
  /\ argv \in Seq(Options)
  /\ arg.config \in Paths /\ arg.port \in Int
  /\ arg = [config |-> arg.config, port |-> arg.port]

Empty == [exists |-> TRUE, tables |-> {}, admins |-> 0]
NoUser == [exists |-> TRUE, tables |-> Tables, admins |-> 0]

\* How many statements create_db has run.
Ran == 6 - Len(todo)

\* create_db between two statements: nothing of the tables is in the file
\* before COMMIT, all of them are in it afterwards.
HalfWay ==
  /\ todo \in Seq({"BEGIN", "users", "messages", "gpio_a", "gpio_d", "COMMIT"})
  /\ Len(todo) \in 0..6
  /\ \A i \in 1..Len(todo) : todo[i] = Statements[Ran + i]
  /\ Ran \in {0, 6} => txn = NULL
  /\ Ran \in 1..5 => /\ txn \in Database
                     /\ txn.exists /\ txn.admins = 0
                     /\ \A i \in 2..Ran : Statements[i] \in txn.tables
  /\ Db = IF Ran = 6 THEN NoUser ELSE Empty

\* Where main is in init_db, and what its database looks like then.
Stage ==
  /\ phase \in {"down", "args", "config", "access", "open"} => created /\ txn = NULL
  /\ phase = "open" => (isNew <=> ~Db.exists)
  /\ phase = "announce" => created /\ txn = NULL /\ Db = Empty
  /\ phase = "schema" => created /\ HalfWay
  /\ phase = "noschema" => ~created
  /\ phase = "insert" /\ created => txn = NULL /\ Db = NoUser
  /\ phase \in {"noschema", "insert"} /\ ~created =>
       Db = Empty /\ (txn # NULL => txn.admins = 0)
  /\ phase \in {"noadmin", "verdict"} => IF created THEN txn = NULL ELSE Db = Empty
  /\ phase = "noadmin" => dbFile \in spoilt
  /\ phase \in {"display", "resolve", "bind", "socket", "listen", "serving"} =>
       created /\ txn = NULL

\* A file that was never opened has nothing in it.
AbsentIsEmpty == \A f \in DOMAIN disk : ~disk[f].exists => disk[f] = Absent

\* An address is tried with the one socket there is.
Trying == NoSocketLeft /\ (phase = "socket" => addresses > 0)

IInv ==
  /\ TypeOK /\ InputTyped /\ Stage /\ AbsentIsEmpty
  /\ SchemaIsWhole /\ DefaultUserOnce /\ CompleteUnlessSpoilt /\ Trying

-----------------------------------------------------------------------------
LEMMA ZeroedTyped ==
  /\ Zeroed \in [Stored -> Int \cup Names \cup {NULL}]
  /\ \A k \in NumberKeys : Zeroed[k] \in Int
  /\ \A k \in NameKeys : Zeroed[k] \in Names \cup {NULL}
<1>1. \A k \in NameKeys : k \notin NumberKeys
  BY DEF NameKeys, NumberKeys, ByteKeys
<1> QED
  BY <1>1 DEF Zeroed, Stored

LEMMA DbName == ASSUME ConfigTypeOK PROVE dbFile \in Names \cup {NULL}
BY DEF ConfigTypeOK, dbFile, NameKeys

LEMMA DatabaseFacts ==
  /\ Absent \in Database /\ Complete \in Database /\ Empty \in Database /\ NoUser \in Database
  /\ Tables # {}
BY DEF Absent, Complete, Empty, NoUser, Database, Tables

LEMMA SameDatabase ==
  ASSUME NEW d \in Database, NEW e \in Database,
         d.exists = e.exists, d.tables = e.tables, d.admins = e.admins
  PROVE  d = e
BY DEF Database

LEMMA InitInv == Init => IInv
<1> SUFFICES ASSUME Init PROVE IInv
  OBVIOUS
<1>1. TypeOK
  <2>1. DiskTypeOK
    BY DatabaseFacts DEF Init, DiskTypeOK
  <2>2. ConfigTypeOK
    BY ZeroedTyped DEF Init, ConfigTypeOK
  <2> QED
    BY <2>1, <2>2 DEF Init, TypeOK, MainTypeOK, NetworkTypeOK, Phases
<1>2. InputTyped
  BY ConstantsOK DEF Init, InputTyped, NoArg
<1>3. Stage
  BY DEF Init, Stage
<1>4. AbsentIsEmpty /\ SchemaIsWhole /\ DefaultUserOnce /\ CompleteUnlessSpoilt
  BY DEF Init, AbsentIsEmpty, SchemaIsWhole, DefaultUserOnce, CompleteUnlessSpoilt, Absent
<1>5. Trying
  BY DEF Init, Trying, NoSocketLeft
<1> QED
  BY <1>1, <1>2, <1>3, <1>4, <1>5 DEF IInv

-----------------------------------------------------------------------------
(***************************************************************************)
(* The end of a start                                                      *)
(***************************************************************************)
\* A process that ends leaves each database as it is, and one it was creating
\* among the spoilt.
LEMMA ExitStep == IInv /\ Exit => IInv'
<1> SUFFICES ASSUME IInv, Exit PROVE IInv'
  OBVIOUS
<1> USE DEF IInv
<1>1. disk \in [Names \cup {NULL} -> Database] /\ dbFile \in Names \cup {NULL}
  BY DbName DEF TypeOK, DiskTypeOK
<1>2. disk' = [disk EXCEPT ![NULL] = Absent]
  BY DEF Exit
<1>3. TypeOK'
  <2>1. DiskTypeOK'
    <3>1. spoilt' \subseteq Names \cup {NULL}
      BY <1>1 DEF Exit, TypeOK, DiskTypeOK
    <3> QED
      BY <1>1, <1>2, <3>1, DatabaseFacts DEF Exit, DiskTypeOK
  <2>2. ConfigTypeOK'
    BY ZeroedTyped DEF Exit, ConfigTypeOK
  <2> QED
    BY <2>1, <2>2 DEF Exit, TypeOK, MainTypeOK, NetworkTypeOK, Phases
<1>4. InputTyped'
  BY ConstantsOK DEF Exit, InputTyped, NoArg
<1>5. Stage'
  BY DEF Exit, Stage
<1>6. AbsentIsEmpty' /\ SchemaIsWhole' /\ DefaultUserOnce'
  <2>1. \A f \in DOMAIN disk' : disk'[f] = Absent \/ (f \in DOMAIN disk /\ disk'[f] = disk[f])
    BY <1>1, <1>2
  <2>2. Absent.tables = {} /\ Absent.admins = 0
    BY DEF Absent
  <2>3. AbsentIsEmpty'
    BY <2>1 DEF AbsentIsEmpty
  <2>4. SchemaIsWhole'
    BY <2>1, <2>2 DEF SchemaIsWhole
  <2>5. DefaultUserOnce'
    BY <2>1, <2>2 DEF DefaultUserOnce
  <2> QED
    BY <2>3, <2>4, <2>5
<1>7. CompleteUnlessSpoilt'
  <2> SUFFICES ASSUME NEW f \in DOMAIN disk', disk'[f].exists, f \notin spoilt'
               PROVE  disk'[f] = Complete
    BY DEF CompleteUnlessSpoilt
  <2>1. f # NULL /\ disk'[f] = disk[f] /\ f \in DOMAIN disk
    BY <1>1, <1>2 DEF Absent
  <2>2. f \notin spoilt /\ ~(Creating /\ f = dbFile)
    BY <2>1 DEF Exit
  <2> QED
    BY <2>1, <2>2 DEF CompleteUnlessSpoilt
<1>8. Trying'
  BY DEF Exit, Trying, NoSocketLeft
<1> QED
  BY <1>3, <1>4, <1>5, <1>6, <1>7, <1>8

\* A step that leaves the databases and the transaction alone and does not go
\* in or out of init_db.
LEMMA OutsideStep ==
  ASSUME IInv, UNCHANGED <<disk, txn, created, spoilt>>, TypeOK', InputTyped', Trying',
         phase \notin {"open", "announce", "schema", "noschema", "insert", "noadmin", "verdict"},
         phase' \notin {"open", "announce", "schema", "noschema", "insert", "noadmin", "verdict"},
         created /\ txn = NULL
  PROVE  IInv'
<1>1. Stage'
  BY DEF Stage
<1>2. ~Creating /\ ~Creating'
  BY DEF Creating
<1>3. AbsentIsEmpty' /\ SchemaIsWhole' /\ DefaultUserOnce' /\ CompleteUnlessSpoilt'
  BY <1>2 DEF IInv, AbsentIsEmpty, SchemaIsWhole, DefaultUserOnce, CompleteUnlessSpoilt
<1> QED
  BY <1>1, <1>3 DEF IInv

LEMMA StartStep == ASSUME NEW opts \in CommandLines, IInv, Start(opts) PROVE IInv'
<1>1. TypeOK'
  BY DEF Start, Goto, IInv, TypeOK, DiskTypeOK, ConfigTypeOK, MainTypeOK, NetworkTypeOK, Phases,
         settings, creation, network
<1>2. InputTyped'
  <2>1. argv' \in Seq(Options)
    BY ConstantsOK DEF Start
  <2> QED
    BY <2>1 DEF Start, IInv, InputTyped, settings
<1>3. Trying'
  BY DEF Start, At, Goto, IInv, Trying, NoSocketLeft, network
<1> QED
  BY <1>1, <1>2, <1>3, OutsideStep DEF Start, At, Goto, IInv, Stage, creation

LEMMA ParseOptionStep == IInv /\ ParseOption => IInv'
<1> SUFFICES ASSUME IInv, ParseOption, ~Exit PROVE IInv'
  BY ExitStep
<1> DEFINE o == Head(argv)
<1>1. /\ At("args") /\ argv # <<>> /\ Accepted(o)
      /\ argv' = Tail(argv)
      /\ arg' = CASE o.name = "--config" -> [arg EXCEPT !.config = o.value]
                    [] o.name = "--port"   -> [arg EXCEPT !.port = o.value]
                    [] OTHER               -> arg
      /\ UNCHANGED <<disk, phase, given, settings, creation, network, starts, spoilt>>
  BY DEF ParseOption
<1>2. TypeOK'
  BY <1>1 DEF IInv, TypeOK, DiskTypeOK, ConfigTypeOK, MainTypeOK, NetworkTypeOK,
              settings, creation, network
<1>3. InputTyped'
  <2>1. o \in Options /\ argv' \in Seq(Options)
    BY <1>1 DEF IInv, InputTyped
  <2>2. /\ o.name = "--config" => o.value \in Paths
        /\ o.name = "--port" => o.value \in Int
    BY <1>1, <2>1 DEF Options, Accepted
  <2>3. \/ arg' = [arg EXCEPT !.config = o.value] /\ o.name = "--config"
        \/ arg' = [arg EXCEPT !.port = o.value] /\ o.name = "--port"
        \/ arg' = arg
    BY <1>1
  <2>4. arg'.config \in Paths /\ arg'.port \in Int /\ arg' = [config |-> arg'.config, port |-> arg'.port]
    BY <2>2, <2>3 DEF IInv, InputTyped
  <2> QED
    BY <1>1, <2>1, <2>4 DEF IInv, InputTyped, settings
<1>4. Trying'
  BY <1>1 DEF IInv, Trying, NoSocketLeft, network
<1> QED
  BY <1>1, <1>2, <1>3, <1>4, OutsideStep DEF At, IInv, Stage, creation

LEMMA OpenConfigStep == IInv /\ OpenConfig => IInv'
<1> SUFFICES ASSUME IInv, OpenConfig, ~Exit PROVE IInv'
  BY ExitStep
<1>1. TypeOK'
  BY DEF OpenConfig, Goto, IInv, TypeOK, DiskTypeOK, ConfigTypeOK, MainTypeOK, NetworkTypeOK,
         Phases, creation, network
<1>2. InputTyped'
  <2>1. input' \in Seq(Entries)
    BY ConstantsOK DEF OpenConfig, IInv, InputTyped
  <2> QED
    BY <2>1 DEF OpenConfig, IInv, InputTyped, options
<1>3. Trying'
  BY DEF OpenConfig, At, Goto, IInv, Trying, NoSocketLeft, network
<1> QED
  BY <1>1, <1>2, <1>3, OutsideStep DEF OpenConfig, At, Goto, IInv, Stage, creation

LEMMA ReadLineStep == IInv /\ ReadLine => IInv'
<1> SUFFICES ASSUME IInv, ReadLine, ~Exit PROVE IInv'
  BY ExitStep
<1> DEFINE l == Head(input)
<1>1. /\ At("config") /\ input # <<>> /\ (Skipped(l) \/ Valid(l))
      /\ input' = Tail(input)
      /\ config' = IF Skipped(l) THEN config ELSE Assign(config, l)
      /\ UNCHANGED <<disk, phase, options, creation, network, starts, spoilt>>
  BY DEF ReadLine
<1>2. l \in Entries /\ input' \in Seq(Entries)
  BY <1>1 DEF IInv, InputTyped
<1>3. ConfigTypeOK'
  <2>1. CASE config' = config
    BY <2>1 DEF IInv, TypeOK, ConfigTypeOK
  <2>2. CASE config' = Assign(config, l) /\ Valid(l) /\ l.key \in Stored
    <3> DEFINE v == Field(l.key, l.value)
    <3>1. config' = [config EXCEPT ![l.key] = v]
      BY <2>2 DEF Assign
    <3>2. l.key \in ByteKeys => l.key \in NumberKeys
      BY DEF NumberKeys
    <3>3. /\ l.key \in NumberKeys => v \in Int
          /\ l.key \in NameKeys => v \in Names \cup {NULL}
      <4>1. l.key \in NumberKeys => l.value \in Int
        BY <1>2, <2>2 DEF Entries, Valid
      <4>2. l.key \in NameKeys => l.value \in Names \cup {NULL} /\ l.key \notin ByteKeys
        BY <1>2 DEF Entries, NameKeys, ByteKeys
      <4> QED
        BY <3>2, <4>1, <4>2 DEF Field
    <3>4. v \in Int \cup Names \cup {NULL}
      BY <2>2, <3>3 DEF Stored
    <3> HIDE DEF v
    <3>5. \A k \in NumberKeys \cup NameKeys : k \in Stored
      BY DEF Stored
    <3> QED
      BY <2>2, <3>1, <3>3, <3>4, <3>5 DEF IInv, TypeOK, ConfigTypeOK
  <2> QED
    BY <1>1, <2>1, <2>2 DEF Assign
<1>4. TypeOK'
  BY <1>1, <1>3 DEF IInv, TypeOK, DiskTypeOK, MainTypeOK, NetworkTypeOK, creation, network
<1>5. InputTyped' /\ Trying'
  BY <1>1, <1>2 DEF IInv, InputTyped, Trying, NoSocketLeft, options, network
<1> QED
  BY <1>1, <1>4, <1>5, OutsideStep DEF At, IInv, Stage, creation

LEMMA ConfigReadStep == IInv /\ ConfigRead => IInv'
<1> SUFFICES ASSUME IInv, ConfigRead, ~Exit PROVE IInv'
  BY ExitStep
<1>1. /\ At("config")
      /\ config' = IF arg.port # 0 THEN [config EXCEPT !["ServerPort"] = arg.port] ELSE config
      /\ Goto("access")
      /\ UNCHANGED <<disk, options, input, creation, network, starts, spoilt>>
  BY DEF ConfigRead
<1>2. ConfigTypeOK'
  <2>1. "ServerPort" \in NumberKeys /\ "ServerPort" \notin NameKeys
    BY DEF NumberKeys, NameKeys, ByteKeys
  <2>2. \A k \in NumberKeys \cup NameKeys : k \in Stored
    BY DEF Stored
  <2>3. arg.port \in Int
    BY DEF IInv, InputTyped
  <2> QED
    BY <1>1, <2>1, <2>2, <2>3 DEF IInv, TypeOK, ConfigTypeOK
<1>3. TypeOK'
  BY <1>1, <1>2 DEF Goto, IInv, TypeOK, DiskTypeOK, MainTypeOK, NetworkTypeOK, Phases,
                    creation, network
<1>4. InputTyped' /\ Trying'
  BY <1>1 DEF At, Goto, IInv, InputTyped, Trying, NoSocketLeft, options, network
<1> QED
  BY <1>1, <1>3, <1>4, OutsideStep DEF At, Goto, IInv, Stage, creation

LEMMA NetworkStep ==
  IInv /\ (InitDisplay \/ Resolve \/ OpenSocket \/ Bind \/ NoAddress \/ Listen) => IInv'
<1> SUFFICES ASSUME IInv, InitDisplay \/ Resolve \/ OpenSocket \/ Bind \/ NoAddress \/ Listen, ~Exit
             PROVE  IInv'
  BY ExitStep
<1>1. /\ phase \in {"display", "resolve", "bind", "socket", "listen"}
      /\ phase' \in {"resolve", "bind", "socket", "listen", "serving"}
      /\ UNCHANGED <<disk, options, settings, creation, starts, spoilt>>
      /\ NetworkTypeOK' /\ Trying'
  <2>1. CASE InitDisplay
    BY <2>1 DEF InitDisplay, At, Goto, IInv, TypeOK, NetworkTypeOK, Trying, NoSocketLeft, memory, network
  <2>2. CASE Resolve
    BY <2>2, ConstantsOK DEF Resolve, At, Goto, IInv, TypeOK, NetworkTypeOK, Trying, NoSocketLeft
  <2>3. CASE OpenSocket
    BY <2>3 DEF OpenSocket, At, Goto, IInv, TypeOK, NetworkTypeOK, Trying, NoSocketLeft
  <2>4. CASE Bind
    <3>1. Bound \subseteq 0..(PortSpan - 1)
      <4>1. config["ServerPort"] \in Int
        BY DEF IInv, TypeOK, ConfigTypeOK, NumberKeys
      <4>2. Htons(config["ServerPort"]) \in 0..(PortSpan - 1)
        BY <4>1, ConstantsOK DEF Htons
      <4> QED
        BY <4>2, ConstantsOK DEF Bound
    <3>2. /\ phase = "socket" /\ sockets = 1 /\ addresses \in Nat
          /\ UNCHANGED <<disk, options, settings, creation, starts, spoilt>>
      BY <2>4 DEF Bind, At, IInv, TypeOK, NetworkTypeOK, Trying, NoSocketLeft
    <3>3. CASE listening' \in Bound /\ Goto("listen") /\ UNCHANGED <<sockets, addresses>>
      <4>1. listening' \in 0..(PortSpan - 1)
        BY <3>1, <3>3
      <4> QED
        BY <3>2, <3>3, <4>1 DEF Goto, NetworkTypeOK, Trying, NoSocketLeft
    <3>4. CASE /\ sockets' = sockets - 1 /\ addresses' = addresses - 1
               /\ Goto("bind") /\ UNCHANGED listening
      BY <3>2, <3>4 DEF Goto, IInv, TypeOK, NetworkTypeOK, Trying, NoSocketLeft
    <3> QED
      BY <2>4, <3>3, <3>4 DEF Bind
  <2>5. CASE Listen
    BY <2>5 DEF Listen, At, Goto, IInv, TypeOK, NetworkTypeOK, Trying, NoSocketLeft, memory, network
  <2> QED
    BY <2>1, <2>2, <2>3, <2>4, <2>5 DEF NoAddress
<1>2. TypeOK'
  BY <1>1 DEF IInv, TypeOK, DiskTypeOK, ConfigTypeOK, MainTypeOK, Phases, settings, creation
<1>3. InputTyped'
  BY <1>1 DEF IInv, InputTyped, options, settings
<1> QED
  BY <1>1, <1>2, <1>3, OutsideStep DEF IInv, Stage, creation

-----------------------------------------------------------------------------
(***************************************************************************)
(* init_db                                                                 *)
(***************************************************************************)
\* What a step of init_db leaves alone, and what is left to show of it.
LEMMA InsideStep ==
  ASSUME IInv, DiskTypeOK', MainTypeOK', UNCHANGED <<options, settings, network>>,
         phase \in {"access", "open", "announce", "schema", "noschema", "insert", "noadmin", "verdict"},
         phase' \notin {"socket", "listen", "serving"},
         Stage', AbsentIsEmpty', SchemaIsWhole', DefaultUserOnce', CompleteUnlessSpoilt'
  PROVE  IInv'
<1>1. TypeOK' /\ InputTyped' /\ Trying'
  BY DEF IInv, TypeOK, ConfigTypeOK, NetworkTypeOK, InputTyped, Trying, NoSocketLeft,
         options, settings, network
<1> QED
  BY <1>1 DEF IInv

\* The databases are the same, and so is which one is being created.
LEMMA SameDisk ==
  ASSUME IInv, disk' = disk, dbFile' = dbFile, spoilt \subseteq spoilt',
         Creating' \/ ~Creating \/ dbFile \in spoilt'
  PROVE  AbsentIsEmpty' /\ SchemaIsWhole' /\ DefaultUserOnce' /\ CompleteUnlessSpoilt'
<1>1. CompleteUnlessSpoilt'
  BY DEF IInv, CompleteUnlessSpoilt
<1> QED
  BY <1>1 DEF IInv, AbsentIsEmpty, SchemaIsWhole, DefaultUserOnce

LEMMA FindFileStep == IInv /\ FindFile => IInv'
<1> SUFFICES ASSUME IInv, FindFile PROVE IInv'
  OBVIOUS
<1>1. /\ phase = "access" /\ phase' = "open" /\ isNew' = ~Db.exists
      /\ UNCHANGED <<disk, options, settings, todo, created, txn, network, starts, spoilt>>
  BY DEF FindFile, At, Goto
<1>2. dbFile' = dbFile /\ Db' = Db
  BY <1>1 DEF dbFile, Db, settings
<1>3. DiskTypeOK'
  BY <1>1 DEF IInv, TypeOK, DiskTypeOK
<1>4. MainTypeOK'
  BY <1>1 DEF IInv, TypeOK, MainTypeOK, Phases
<1>5. Stage'
  <2>1. isNew' <=> ~Db'.exists
    BY <1>1, <1>2
  <2> QED
    BY <1>1, <2>1 DEF IInv, Stage
<1>6. ~Creating
  BY <1>1 DEF Creating
<1> QED
  BY <1>1, <1>2, <1>3, <1>4, <1>5, <1>6, SameDisk, InsideStep

LEMMA OpenFileStep == IInv /\ OpenFile => IInv'
<1> SUFFICES ASSUME IInv, OpenFile, ~Exit PROVE IInv'
  BY ExitStep
<1>1. /\ phase = "open" /\ phase' = (IF isNew THEN "announce" ELSE "display")
      /\ disk' = [disk EXCEPT ![dbFile].exists = TRUE]
      /\ UNCHANGED <<memory, starts, spoilt>>
  BY DEF OpenFile, At, Goto
<1>2. dbFile' = dbFile /\ dbFile \in Names \cup {NULL} /\ dbFile \in DOMAIN disk
  BY <1>1, DbName DEF dbFile, memory, settings, IInv, TypeOK, DiskTypeOK
<1>3. Db \in Database /\ created /\ txn = NULL /\ (isNew <=> ~Db.exists)
  BY <1>1, <1>2 DEF Db, IInv, TypeOK, DiskTypeOK, Stage
<1>4. CASE isNew
  <2>1. Db = Absent
    BY <1>2, <1>3, <1>4 DEF Db, IInv, AbsentIsEmpty
  <2>2. disk' = [disk EXCEPT ![dbFile] = Empty]
    <3>1. [Absent EXCEPT !.exists = TRUE] = Empty
      <4> DEFINE d == [Absent EXCEPT !.exists = TRUE]
      <4>1. d \in Database /\ d.exists = TRUE /\ d.tables = {} /\ d.admins = 0
        BY DatabaseFacts DEF Database, Absent
      <4>2. Empty.exists = TRUE /\ Empty.tables = {} /\ Empty.admins = 0
        BY DEF Empty
      <4>3. d = Empty
        <5> HIDE DEF d
        <5> QED
          BY <4>1, <4>2, DatabaseFacts, SameDatabase
      <4> QED
        BY <4>3
    <3>2. [disk[dbFile] EXCEPT !.exists = TRUE] = Empty
      BY <2>1, <3>1 DEF Db
    <3>3. disk' = [disk EXCEPT ![dbFile] = [disk[dbFile] EXCEPT !.exists = TRUE]]
      BY <1>1
    <3> QED
      BY <3>2, <3>3
  <2>3. Db' = Empty
    BY <1>2, <2>2 DEF Db
  <2>4. DiskTypeOK' /\ MainTypeOK'
    BY <1>1, <1>4, <2>2, DatabaseFacts
       DEF IInv, TypeOK, DiskTypeOK, MainTypeOK, Phases, memory, creation
  <2>5. Stage'
    BY <1>1, <1>3, <1>4, <2>3 DEF Stage, memory, creation
  <2>6. \A f \in DOMAIN disk' : f \in DOMAIN disk /\ disk'[f] = IF f = dbFile THEN Empty ELSE disk[f]
    BY <2>2
  <2>7. ~Creating /\ Creating'
    BY <1>1, <1>4 DEF Creating
  <2>8. Empty.exists /\ Empty.tables = {} /\ Empty.admins = 0
    BY DEF Empty
  <2>9. AbsentIsEmpty' /\ SchemaIsWhole' /\ DefaultUserOnce'
    BY <2>6, <2>8 DEF IInv, AbsentIsEmpty, SchemaIsWhole, DefaultUserOnce
  <2>10. CompleteUnlessSpoilt'
    BY <1>1, <1>2, <2>6, <2>7 DEF IInv, CompleteUnlessSpoilt
  <2> QED
    BY <1>1, <1>4, <2>4, <2>5, <2>9, <2>10, InsideStep DEF memory
<1>5. CASE ~isNew
  <2>1. disk' = disk
    BY <1>1, <1>2, <1>3, <1>5 DEF Db, Database, IInv, TypeOK, DiskTypeOK
  <2>2. ~Creating
    BY <1>1 DEF Creating
  <2>3. Stage'
    BY <1>1, <1>3, <1>5 DEF Stage, memory, creation
  <2>4. DiskTypeOK' /\ MainTypeOK'
    BY <1>1, <1>5, <2>1 DEF IInv, TypeOK, DiskTypeOK, MainTypeOK, Phases, memory, creation
  <2> QED
    BY <1>1, <1>2, <1>5, <2>1, <2>2, <2>3, <2>4, SameDisk, InsideStep DEF memory
<1> QED
  BY <1>4, <1>5

LEMMA AnnounceStep == IInv /\ Announce => IInv'
<1> SUFFICES ASSUME IInv, Announce PROVE IInv'
  OBVIOUS
<1>1. /\ phase = "announce" /\ phase' = "schema" /\ todo' = Statements
      /\ UNCHANGED <<disk, options, settings, isNew, created, txn, network, starts, spoilt>>
  BY DEF Announce, At, Goto
<1>2. dbFile' = dbFile /\ Db' = Db
  BY <1>1 DEF dbFile, Db, settings
<1>3. DiskTypeOK' /\ MainTypeOK'
  BY <1>1 DEF IInv, TypeOK, DiskTypeOK, MainTypeOK, Phases
<1>4. HalfWay'
  <2>1. /\ Len(todo') = 6 /\ \A i \in 1..6 : todo'[i] = Statements[i]
        /\ todo' \in Seq({"BEGIN", "users", "messages", "gpio_a", "gpio_d", "COMMIT"})
    BY <1>1 DEF Statements
  <2>2. Ran' = 0
    BY <2>1 DEF Ran
  <2>3. txn' = NULL /\ Db' = Empty
    BY <1>1, <1>2 DEF IInv, Stage
  <2> QED
    BY <2>1, <2>2, <2>3 DEF HalfWay
<1>5. Stage'
  BY <1>1, <1>4 DEF IInv, Stage
<1>6. Creating'
  BY <1>1 DEF Creating
<1> QED
  BY <1>1, <1>2, <1>3, <1>5, <1>6, SameDisk, InsideStep

\* One statement less to run is one more that ran.
LEMMA CountDown ==
  ASSUME NEW n \in 1..6, NEW m, m = n - 1
  PROVE  6 - n \in 0..5 /\ 6 - m = (6 - n) + 1 /\ m \in 0..6
OBVIOUS

\* The statements in order: BEGIN, the tables, COMMIT.
LEMMA NextStatement ==
  ASSUME HalfWay, todo # <<>>
  PROVE  /\ Len(todo) \in 1..6
         /\ Ran \in 0..5 /\ Head(todo) = Statements[Ran + 1]
         /\ Tail(todo) \in Seq({"BEGIN", "users", "messages", "gpio_a", "gpio_d", "COMMIT"})
         /\ Len(Tail(todo)) = Len(todo) - 1
         /\ \A i \in 1..Len(Tail(todo)) : Tail(todo)[i] = Statements[Ran + 1 + i]
<1>1. Len(todo) \in 1..6
  BY DEF HalfWay
<1>2. Ran \in 0..5 /\ Head(todo) = Statements[Ran + 1]
  <2>1. Ran \in 0..5
    BY <1>1, CountDown DEF Ran
  <2>2. 1 \in 1..Len(todo) /\ Head(todo) = todo[1]
    BY <1>1 DEF HalfWay
  <2> QED
    BY <2>1, <2>2 DEF HalfWay
<1>3. /\ Len(Tail(todo)) = Len(todo) - 1
      /\ \A i \in 1..Len(Tail(todo)) : Tail(todo)[i] = todo[i + 1]
      /\ Tail(todo) \in Seq({"BEGIN", "users", "messages", "gpio_a", "gpio_d", "COMMIT"})
  BY <1>1 DEF HalfWay
<1>4. ASSUME NEW i \in 1..Len(Tail(todo)) PROVE Tail(todo)[i] = Statements[Ran + 1 + i]
  <2>1. i \in Int /\ i + 1 \in 1..Len(todo)
    BY <1>1, <1>3, <1>4
  <2>2. todo[i + 1] = Statements[Ran + (i + 1)]
    BY <2>1 DEF HalfWay
  <2>3. Ran + (i + 1) = Ran + 1 + i
    BY <1>2, <2>1
  <2> QED
    BY <1>3, <2>2, <2>3
<1> QED
  BY <1>1, <1>2, <1>3, <1>4

LEMMA StatementStep == IInv /\ Statement => IInv'
<1> SUFFICES ASSUME IInv, Statement PROVE IInv'
  OBVIOUS
<1>1. /\ phase = "schema" /\ todo # <<>> /\ todo' = Tail(todo)
      /\ UNCHANGED <<phase, options, settings, isNew, created, network, starts, spoilt>>
  BY DEF Statement, At
<1>2. dbFile' = dbFile /\ dbFile \in Names \cup {NULL} /\ dbFile \in DOMAIN disk
  BY <1>1, DbName DEF dbFile, settings, IInv, TypeOK, DiskTypeOK
<1>3. created /\ HalfWay
  BY <1>1 DEF IInv, Stage
<1>4. MainTypeOK'
  BY <1>1 DEF IInv, TypeOK, MainTypeOK
<1>5. /\ todo' \in Seq({"BEGIN", "users", "messages", "gpio_a", "gpio_d", "COMMIT"})
      /\ Len(todo') \in 0..6 /\ Ran' = Ran + 1 /\ Ran \in 0..5
      /\ \A i \in 1..Len(todo') : todo'[i] = Statements[Ran' + i]
  <2>1. Len(todo) \in 1..6 /\ Len(todo') = Len(todo) - 1 /\ Ran \in 0..5
    BY <1>1, <1>3, NextStatement
  <2>2. Ran' = Ran + 1 /\ Len(todo') \in 0..6
    BY <2>1, CountDown DEF Ran
  <2>3. /\ Tail(todo) \in Seq({"BEGIN", "users", "messages", "gpio_a", "gpio_d", "COMMIT"})
        /\ \A i \in 1..Len(Tail(todo)) : Tail(todo)[i] = Statements[Ran + 1 + i]
    BY <1>1, <1>3, NextStatement
  <2> QED
    BY <1>1, <2>1, <2>2, <2>3
<1>6. Creating /\ Creating'
  BY <1>1 DEF Creating
<1>7. Head(todo) = Statements[Ran + 1]
  BY <1>1, <1>3, NextStatement
<1>8. CASE Ran = 0
  <2>1. Head(todo) = "BEGIN"
    BY <1>7, <1>8 DEF Statements
  <2>2. txn = NULL /\ Db = Empty
    BY <1>3, <1>8 DEF HalfWay
  <2>3. txn' = Empty /\ disk' = disk
    BY <2>1, <2>2 DEF Statement, Tables
  <2>4. Db' = Empty
    BY <1>2, <2>2, <2>3 DEF Db
  <2>5. DiskTypeOK'
    BY <1>1, <2>3, DatabaseFacts DEF IInv, TypeOK, DiskTypeOK
  <2>6. HalfWay'
    BY <1>5, <1>8, <2>3, <2>4, DatabaseFacts DEF HalfWay, Empty
  <2>7. Stage'
    BY <1>1, <1>3, <2>6 DEF Stage
  <2> QED
    BY <1>1, <1>2, <1>4, <1>6, <2>3, <2>5, <2>7, SameDisk, InsideStep
<1>9. CASE Ran \in 1..4
  <2>1. Head(todo) \in Tables /\ Head(todo) \notin {"BEGIN", "COMMIT"}
    BY <1>7, <1>9 DEF Statements, Tables
  <2>2. /\ txn \in Database /\ txn.exists /\ txn.admins = 0
        /\ \A i \in 2..Ran : Statements[i] \in txn.tables
        /\ Db = Empty
    BY <1>3, <1>9 DEF HalfWay
  <2>3. txn # NULL
    BY <2>2, ConstantsOK
  <2>4. txn' = [txn EXCEPT !.tables = @ \cup {Head(todo)}] /\ disk' = disk
    BY <2>1, <2>3 DEF Statement, Write, Seen
  <2>5. /\ txn' \in Database /\ txn'.exists /\ txn'.admins = 0
        /\ txn'.tables = txn.tables \cup {Head(todo)}
    BY <2>1, <2>2, <2>4 DEF Database
  <2>6. \A i \in 2..Ran' : Statements[i] \in txn'.tables
    BY <1>5, <1>7, <2>2, <2>5
  <2>7. Db' = Empty
    BY <1>2, <2>2, <2>4 DEF Db
  <2>8. DiskTypeOK'
    BY <1>1, <2>4, <2>5 DEF IInv, TypeOK, DiskTypeOK
  <2>9. HalfWay'
    BY <1>5, <1>9, <2>5, <2>6, <2>7 DEF HalfWay
  <2>10. Stage'
    BY <1>1, <1>3, <2>9 DEF Stage
  <2> QED
    BY <1>1, <1>2, <1>4, <1>6, <2>4, <2>8, <2>10, SameDisk, InsideStep
<1>10. CASE Ran = 5
  <2>1. Head(todo) = "COMMIT"
    BY <1>7, <1>10 DEF Statements
  <2>2. /\ txn \in Database /\ txn.exists /\ txn.admins = 0
        /\ \A i \in 2..5 : Statements[i] \in txn.tables
    BY <1>3, <1>10 DEF HalfWay
  <2>3. txn = NoUser
    <3>1. txn.tables \in SUBSET Tables
      BY <2>2 DEF Database
    <3>2. Tables \subseteq txn.tables
      BY <2>2 DEF Statements, Tables
    <3>3. txn.tables = Tables
      BY <3>1, <3>2
    <3>4. NoUser.exists = TRUE /\ NoUser.tables = Tables /\ NoUser.admins = 0
      BY DEF NoUser
    <3>5. txn.exists = TRUE
      BY <2>2 DEF Database
    <3> QED
      BY <2>2, <3>3, <3>4, <3>5, DatabaseFacts, SameDatabase
  <2>4. disk' = [disk EXCEPT ![dbFile] = NoUser] /\ txn' = NULL
    BY <2>1, <2>3 DEF Statement, Tables
  <2>5. Db' = NoUser
    BY <1>2, <2>4 DEF Db
  <2>6. DiskTypeOK'
    BY <1>1, <2>4, DatabaseFacts DEF IInv, TypeOK, DiskTypeOK
  <2>7. Stage'
    <3>1. HalfWay'
      BY <1>5, <1>10, <2>4, <2>5 DEF HalfWay
    <3> QED
      BY <1>1, <1>3, <3>1 DEF Stage
  <2>8. \A f \in DOMAIN disk' : f \in DOMAIN disk /\ disk'[f] = IF f = dbFile THEN NoUser ELSE disk[f]
    BY <2>4
  <2>9. NoUser.exists /\ NoUser.tables = Tables /\ NoUser.admins = 0
    BY DEF NoUser
  <2>10. AbsentIsEmpty' /\ SchemaIsWhole' /\ DefaultUserOnce'
    BY <2>8, <2>9, DatabaseFacts DEF IInv, AbsentIsEmpty, SchemaIsWhole, DefaultUserOnce
  <2>11. CompleteUnlessSpoilt'
    BY <1>1, <1>2, <1>6, <2>8 DEF IInv, CompleteUnlessSpoilt
  <2> QED
    BY <1>1, <1>4, <2>6, <2>7, <2>10, <2>11, InsideStep
<1> QED
  BY <1>5, <1>8, <1>9, <1>10

LEMMA StatementFailsStep == IInv /\ StatementFails => IInv'
<1> SUFFICES ASSUME IInv, StatementFails PROVE IInv'
  OBVIOUS
<1>1. /\ phase = "schema" /\ phase' = "noschema" /\ todo # <<>> /\ todo' = <<>>
      /\ created' = FALSE /\ txn' \in {txn, NULL}
      /\ UNCHANGED <<disk, options, settings, isNew, network, starts, spoilt>>
  BY DEF StatementFails, At, Goto
<1>2. dbFile' = dbFile /\ Db' = Db
  BY <1>1 DEF dbFile, Db, settings
<1>3. DiskTypeOK' /\ MainTypeOK'
  BY <1>1 DEF IInv, TypeOK, DiskTypeOK, MainTypeOK, Phases
<1>4. HalfWay
  BY <1>1 DEF IInv, Stage
<1>5. Ran \in 0..5
  BY <1>1, <1>4, NextStatement
<1>6. Db' = Empty /\ (txn' # NULL => txn'.admins = 0)
  <2>1. Db = Empty
    BY <1>4, <1>5 DEF HalfWay
  <2>2. txn # NULL => txn.admins = 0
    BY <1>4, <1>5 DEF HalfWay
  <2> QED
    BY <1>1, <1>2, <2>1, <2>2
<1>7. Stage'
  BY <1>1, <1>6 DEF Stage
<1>8. Creating'
  BY <1>1 DEF Creating
<1> QED
  BY <1>1, <1>2, <1>3, <1>7, <1>8, SameDisk, InsideStep

LEMMA SchemaDoneStep == IInv /\ SchemaDone => IInv'
<1> SUFFICES ASSUME IInv, SchemaDone PROVE IInv'
  OBVIOUS
<1>1. /\ (phase = "schema" /\ todo = <<>>) \/ phase = "noschema"
      /\ phase' = "insert" /\ UNCHANGED <<disk, memory, starts, spoilt>>
  BY DEF SchemaDone, At, Goto
<1>2. dbFile' = dbFile /\ Db' = Db
  BY <1>1 DEF dbFile, Db, memory, settings
<1>3. DiskTypeOK' /\ MainTypeOK'
  BY <1>1 DEF IInv, TypeOK, DiskTypeOK, MainTypeOK, Phases, memory, creation
<1>4. phase = "schema" => created /\ txn = NULL /\ Db = NoUser
  <2> SUFFICES ASSUME phase = "schema" PROVE created /\ txn = NULL /\ Db = NoUser
    OBVIOUS
  <2>1. Ran = 6
    BY <1>1 DEF Ran
  <2> QED
    BY <2>1 DEF IInv, Stage, HalfWay
<1>5. Stage'
  BY <1>1, <1>2, <1>4 DEF IInv, Stage, memory, creation
<1>6. Creating'
  BY <1>1 DEF Creating
<1> QED
  BY <1>1, <1>2, <1>3, <1>5, <1>6, SameDisk, InsideStep DEF memory

LEMMA InsertAdminStep == IInv /\ InsertAdmin => IInv'
<1> SUFFICES ASSUME IInv, InsertAdmin PROVE IInv'
  OBVIOUS
<1>1. /\ phase = "insert"
      /\ UNCHANGED <<options, settings, isNew, todo, created, network, starts>>
  BY DEF InsertAdmin, At
<1>2. dbFile' = dbFile /\ dbFile \in Names \cup {NULL} /\ dbFile \in DOMAIN disk
  BY <1>1, DbName DEF dbFile, settings, IInv, TypeOK, DiskTypeOK
<1>3. /\ created => txn = NULL /\ Db = NoUser
      /\ ~created => Db = Empty /\ (txn # NULL => txn.admins = 0)
  BY <1>1 DEF IInv, Stage
<1>4. CASE /\ "users" \in Seen.tables
           /\ Write([Seen EXCEPT !.admins = @ + 1])
           /\ phase' = "verdict" /\ UNCHANGED spoilt
  <2>1. CASE created
    <3>1. Write([NoUser EXCEPT !.admins = @ + 1]) /\ txn = NULL
      BY <1>3, <1>4, <2>1 DEF Seen
    <3>2. [NoUser EXCEPT !.admins = @ + 1] = Complete
      <4>1. NoUser.admins + 1 = 1
        BY DEF NoUser
      <4>2. ASSUME NEW d, d = [NoUser EXCEPT !.admins = 1] PROVE d = Complete
        <5>1. d \in Database
          BY <4>2, DatabaseFacts DEF Database
        <5>2. d.exists = TRUE /\ d.tables = Tables /\ d.admins = 1
          BY <4>2 DEF NoUser
        <5>3. Complete.exists = TRUE /\ Complete.tables = Tables /\ Complete.admins = 1
          BY DEF Complete
        <5> QED
          BY <5>1, <5>2, <5>3, DatabaseFacts, SameDatabase
      <4> QED
        BY <4>1, <4>2
    <3>3. disk' = [disk EXCEPT ![dbFile] = Complete] /\ txn' = NULL
      BY <3>1, <3>2 DEF Write
    <3>4. DiskTypeOK' /\ MainTypeOK'
      BY <1>1, <1>4, <3>3, DatabaseFacts DEF IInv, TypeOK, DiskTypeOK, MainTypeOK, Phases
    <3>5. Stage'
      BY <1>1, <1>4, <2>1, <3>3 DEF Stage
    <3>6. \A f \in DOMAIN disk' : f \in DOMAIN disk /\ disk'[f] = IF f = dbFile THEN Complete ELSE disk[f]
      BY <3>3
    <3>7. Complete.exists /\ Complete.tables = Tables /\ Complete.admins = 1
      BY DEF Complete
    <3>8. AbsentIsEmpty' /\ SchemaIsWhole' /\ DefaultUserOnce'
      BY <3>6, <3>7, DatabaseFacts DEF IInv, AbsentIsEmpty, SchemaIsWhole, DefaultUserOnce
    <3>9. CompleteUnlessSpoilt'
      BY <1>2, <1>4, <3>6 DEF IInv, CompleteUnlessSpoilt
    <3> QED
      BY <1>1, <1>4, <3>4, <3>5, <3>8, <3>9, InsideStep
  <2>2. CASE ~created
    <3>1. txn # NULL
      BY <1>3, <1>4, <2>2 DEF Seen, Empty
    <3>2. disk' = disk /\ txn' = [txn EXCEPT !.admins = @ + 1]
      BY <1>4, <3>1 DEF Write, Seen
    <3>3. txn' \in Database
      <4>1. txn \in Database
        BY <3>1 DEF IInv, TypeOK, DiskTypeOK
      <4> QED
        BY <3>2, <4>1 DEF Database
    <3>4. DiskTypeOK' /\ MainTypeOK'
      BY <1>1, <1>4, <3>2, <3>3 DEF IInv, TypeOK, DiskTypeOK, MainTypeOK, Phases
    <3>5. Db' = Empty
      BY <1>2, <1>3, <2>2, <3>2 DEF Db
    <3>6. Stage'
      BY <1>1, <1>4, <2>2, <3>5 DEF Stage
    <3>7. Creating'
      BY <1>1, <1>4, <2>2 DEF Creating
    <3> QED
      BY <1>1, <1>2, <1>4, <3>2, <3>4, <3>6, <3>7, SameDisk, InsideStep
  <2> QED
    BY <2>1, <2>2
<1>5. CASE spoilt' = spoilt \cup {dbFile} /\ phase' = "noadmin" /\ UNCHANGED <<disk, txn>>
  <2>1. DiskTypeOK' /\ MainTypeOK'
    BY <1>1, <1>2, <1>5 DEF IInv, TypeOK, DiskTypeOK, MainTypeOK, Phases
  <2>2. Db' = Db
    BY <1>2, <1>5 DEF Db
  <2>3. Stage'
    BY <1>1, <1>2, <1>3, <1>5, <2>2 DEF Stage
  <2> QED
    BY <1>1, <1>2, <1>5, <2>1, <2>3, SameDisk, InsideStep
<1> QED
  BY <1>4, <1>5 DEF InsertAdmin, Goto

LEMMA VerdictStep == IInv /\ (AdminFailed \/ Verdict) => IInv'
<1> SUFFICES ASSUME IInv, AdminFailed \/ Verdict, ~Exit PROVE IInv'
  BY ExitStep
<1>1. /\ \/ phase = "noadmin" /\ phase' = "verdict"
         \/ phase = "verdict" /\ phase' = "display" /\ created
      /\ UNCHANGED <<disk, memory, starts, spoilt>>
  BY DEF AdminFailed, Verdict, At, Goto
<1>2. dbFile' = dbFile /\ Db' = Db
  BY <1>1 DEF dbFile, Db, memory, settings
<1>3. DiskTypeOK' /\ MainTypeOK'
  BY <1>1 DEF IInv, TypeOK, DiskTypeOK, MainTypeOK, Phases, memory, creation
<1>4. Stage'
  BY <1>1, <1>2 DEF IInv, Stage, memory, creation
<1>5. ~Creating
  BY <1>1 DEF Creating
<1> QED
  BY <1>1, <1>2, <1>3, <1>4, <1>5, SameDisk, InsideStep DEF memory

-----------------------------------------------------------------------------
(***************************************************************************)
(* All steps                                                               *)
(***************************************************************************)
LEMMA StutterStep == IInv /\ UNCHANGED vars => IInv'
<1> SUFFICES ASSUME IInv, UNCHANGED vars PROVE IInv'
  OBVIOUS
<1> USE DEF IInv, vars, memory, options, settings, creation, network
<1>1. dbFile' = dbFile /\ Db' = Db /\ (Creating' <=> Creating)
  BY DEF dbFile, Db, Creating
<1>2. TypeOK' /\ InputTyped' /\ Trying'
  BY DEF TypeOK, DiskTypeOK, ConfigTypeOK, MainTypeOK, NetworkTypeOK, InputTyped, Trying, NoSocketLeft
<1>3. Stage'
  BY <1>1 DEF Stage, HalfWay, Ran
<1>4. AbsentIsEmpty' /\ SchemaIsWhole' /\ DefaultUserOnce' /\ CompleteUnlessSpoilt'
  BY <1>1, SameDisk
<1> QED
  BY <1>2, <1>3, <1>4

LEMMA Invariance == Spec => []IInv
<1>1. IInv /\ [Next]_vars => IInv'
  <2> SUFFICES ASSUME IInv, [Next]_vars PROVE IInv'
    OBVIOUS
  <2>1. CASE \E opts \in CommandLines : Start(opts)
    BY <2>1, StartStep
  <2>2. CASE ParseOption \/ OpenConfig \/ ReadLine \/ ConfigRead
    BY <2>2, ParseOptionStep, OpenConfigStep, ReadLineStep, ConfigReadStep
  <2>3. CASE FindFile \/ OpenFile \/ Announce \/ Statement \/ StatementFails \/ SchemaDone
    BY <2>3, FindFileStep, OpenFileStep, AnnounceStep, StatementStep, StatementFailsStep,
       SchemaDoneStep
  <2>4. CASE InsertAdmin \/ AdminFailed \/ Verdict
    BY <2>4, InsertAdminStep, VerdictStep
  <2>5. CASE InitDisplay \/ Resolve \/ OpenSocket \/ Bind \/ NoAddress \/ Listen
    BY <2>5, NetworkStep
  <2>6. CASE LogFails \/ Killed
    BY <2>6, ExitStep DEF LogFails, Killed
  <2>7. CASE UNCHANGED vars
    BY <2>7, StutterStep
  <2> QED
    BY <2>1, <2>2, <2>3, <2>4, <2>5, <2>6, <2>7 DEF Next, Main
<1> QED
  BY InitInv, <1>1, PTL DEF Spec

\* The state stays typed: every field of the configuration that a part of the
\* program reads as a number is one, and the port is one of 16 bits.
THEOREM TypeCorrect == Spec => []TypeOK
<1>1. IInv => TypeOK
  BY DEF IInv
<1> QED
  BY Invariance, <1>1, PTL

\* The transaction of create_db does what it is for: wherever starts are cut
\* short, no database is left with a part of its tables.
THEOREM WholeSchema == Spec => []SchemaIsWhole
<1>1. IInv => SchemaIsWhole
  BY DEF IInv
<1> QED
  BY Invariance, <1>1, PTL

\* No sequence of starts and failures gives a database two default users, or
\* one without tables any.
THEOREM OneDefaultUser == Spec => []DefaultUserOnce
<1>1. IInv => DefaultUserOnce
  BY DEF IInv
<1> QED
  BY Invariance, <1>1, PTL

\* The only ways to an incomplete database are an end of the process, or the
\* failure of a statement, while init_db was creating it.
THEOREM DatabasesComplete == Spec => []CompleteUnlessSpoilt
<1>1. IInv => CompleteUnlessSpoilt
  BY DEF IInv
<1> QED
  BY Invariance, <1>1, PTL

\* The loop over the addresses of the host closes every socket it does not use.
THEOREM NoSocketLeak == Spec => []NoSocketLeft
<1>1. IInv => NoSocketLeft
  BY DEF IInv, Trying
<1> QED
  BY Invariance, <1>1, PTL

-----------------------------------------------------------------------------
(***************************************************************************)
(* What the server is configured with: the invariant that ties what main   *)
(* has read of its arguments and of the file to what it keeps of them.     *)
(***************************************************************************)
\* The sequence r is what remains to be read of s, and how much was read.
Remains(r, s) == Len(r) <= Len(s) /\ \A i \in 1..Len(r) : r[i] = s[Len(s) - Len(r) + i]
Read(s, r) == Len(s) - Len(r)

\* Where among the first n arguments, or lines, this one is.
OptionPlaces(name, n)     == {i \in 1..n : given[i].name = name}
KeyPlaces(k, lines, n)    == {i \in 1..n : lines[i].key = k}

\* The value v is that of the last one; none, if there is none.
LastOption(v, name, n, none) ==
  \/ OptionPlaces(name, n) = {} /\ v = none
  \/ \E i \in OptionPlaces(name, n) :
       v = given[i].value /\ \A j \in OptionPlaces(name, n) : j <= i

LastLine(v, k, lines, n) ==
  \/ KeyPlaces(k, lines, n) = {} /\ v = Zeroed[k]
  \/ \E i \in KeyPlaces(k, lines, n) :
       v = Field(k, lines[i].value) /\ \A j \in KeyPlaces(k, lines, n) : j <= i

ArgumentsRead ==
  /\ given \in Seq(Options) /\ Remains(argv, given)
  /\ LastOption(arg.config, "--config", Read(given, argv), DefaultPath)
  /\ LastOption(arg.port, "--port", Read(given, argv), 0)

Lines == ContentsOf[arg.config]

\* The first n lines have been read, and the fields of the structure set, that
\* of the port excepted if a --port replaced it.
LinesRead(n, replaced) ==
  /\ \A i \in 1..n : Skipped(Lines[i]) \/ Valid(Lines[i])
  /\ \A k \in Stored : (k = "ServerPort" /\ replaced) \/ LastLine(config[k], k, Lines, n)

AfterConfig == {"access", "open", "announce", "schema", "noschema", "insert", "noadmin", "verdict",
                "display", "resolve", "bind", "socket", "listen", "serving"}

ConfigInv ==
  /\ ArgumentsRead
  /\ phase = "down" => given = <<>> /\ argv = <<>>
  /\ phase \in {"down", "args"} => config = Zeroed
  /\ phase \notin {"down", "args"} => argv = <<>> /\ Lines # NULL
  /\ phase = "config" => Remains(input, Lines) /\ LinesRead(Read(Lines, input), FALSE)
  /\ phase \in AfterConfig =>
       /\ LinesRead(Len(Lines), arg.port # 0) /\ ~BothLists
       /\ arg.port # 0 => config["ServerPort"] = arg.port
  /\ phase \in {"resolve", "bind", "socket", "listen", "serving"} =>
       config["LCDCols"] # 0 /\ config["LCDRows"] # 0
  /\ phase \in {"listen", "serving"} => listening \in Bound

\* Reading the first of what remains.
LEMMA ReadFirst ==
  ASSUME NEW S, NEW s \in Seq(S), NEW r \in Seq(S), Remains(r, s), r # <<>>
  PROVE  /\ Read(s, r) \in Nat /\ Read(s, Tail(r)) = Read(s, r) + 1
         /\ Head(r) = s[Read(s, r) + 1] /\ Head(r) \in S
         /\ Remains(Tail(r), s)
<1> DEFINE n == Len(s)
           m == Len(r)
<1>1. n \in Nat /\ m \in Nat /\ m >= 1 /\ m <= n /\ Len(Tail(r)) = m - 1
  BY EmptySeq DEF Remains
<1>2. Head(r) = r[1] /\ r[1] = s[n - m + 1] /\ r[1] \in S
  BY <1>1 DEF Remains
<1>3. \A i \in 1..(m - 1) : Tail(r)[i] = r[i + 1]
  OBVIOUS
<1>4. ASSUME NEW i \in 1..(m - 1) PROVE Tail(r)[i] = s[n - (m - 1) + i]
  <2>1. i + 1 \in 1..m /\ n - m + (i + 1) = n - (m - 1) + i
    BY <1>1
  <2>2. r[i + 1] = s[n - m + (i + 1)]
    BY <2>1 DEF Remains
  <2> QED
    BY <1>3, <2>1, <2>2
<1>5. n - m \in Nat /\ n - (m - 1) = n - m + 1
  BY <1>1
<1> HIDE DEF n, m
<1>6. Remains(Tail(r), s)
  BY <1>1, <1>4 DEF Remains, n, m
<1> QED
  BY <1>1, <1>2, <1>5, <1>6 DEF Read, n, m

LEMMA NextOption ==
  ASSUME NEW n \in Nat, NEW name, NEW none, NEW v, LastOption(v, name, n, none)
  PROVE  /\ given[n + 1].name # name => LastOption(v, name, n + 1, none)
         /\ given[n + 1].name = name => LastOption(given[n + 1].value, name, n + 1, none)
<1>1. \A i \in 1..(n + 1) : i \in 1..n \/ i = n + 1
  OBVIOUS
<1>2. \A i \in 1..n : i \in 1..(n + 1) /\ i <= n + 1
  OBVIOUS
<1>3. CASE given[n + 1].name # name
  <2>1. OptionPlaces(name, n + 1) = OptionPlaces(name, n)
    BY <1>1, <1>2, <1>3 DEF OptionPlaces
  <2> QED
    BY <1>3, <2>1 DEF LastOption
<1>4. CASE given[n + 1].name = name
  <2>1. n + 1 \in OptionPlaces(name, n + 1) /\ \A j \in OptionPlaces(name, n + 1) : j <= n + 1
    BY <1>4 DEF OptionPlaces
  <2> QED
    BY <1>4, <2>1 DEF LastOption
<1> QED
  BY <1>3, <1>4

LEMMA NextLine ==
  ASSUME NEW n \in Nat, NEW k, NEW lines, NEW v, LastLine(v, k, lines, n)
  PROVE  /\ lines[n + 1].key # k => LastLine(v, k, lines, n + 1)
         /\ lines[n + 1].key = k => LastLine(Field(k, lines[n + 1].value), k, lines, n + 1)
<1>1. \A i \in 1..(n + 1) : i \in 1..n \/ i = n + 1
  OBVIOUS
<1>2. \A i \in 1..n : i \in 1..(n + 1) /\ i <= n + 1
  OBVIOUS
<1>3. CASE lines[n + 1].key # k
  <2>1. KeyPlaces(k, lines, n + 1) = KeyPlaces(k, lines, n)
    BY <1>1, <1>2, <1>3 DEF KeyPlaces
  <2> QED
    BY <1>3, <2>1 DEF LastLine
<1>4. CASE lines[n + 1].key = k
  <2>1. n + 1 \in KeyPlaces(k, lines, n + 1) /\ \A j \in KeyPlaces(k, lines, n + 1) : j <= n + 1
    BY <1>4 DEF KeyPlaces
  <2> QED
    BY <1>4, <2>1 DEF LastLine
<1> QED
  BY <1>3, <1>4

\* Before the first argument, and the first line.
LEMMA NothingRead ==
  ASSUME NEW S, NEW s \in Seq(S)
  PROVE  Remains(s, s) /\ Read(s, s) = 0
<1>1. Len(s) \in Nat
  OBVIOUS
<1>2. \A i \in 1..Len(s) : Len(s) - Len(s) + i = i
  BY <1>1
<1> QED
  BY <1>1, <1>2 DEF Remains, Read

LEMMA NoArguments ==
  /\ \A name : OptionPlaces(name, 0) = {}
  /\ \A k, lines : KeyPlaces(k, lines, 0) = {}
BY DEF OptionPlaces, KeyPlaces

LEMMA ExitConfig == Exit => ConfigInv'
<1> SUFFICES ASSUME Exit PROVE ConfigInv'
  OBVIOUS
<1>1. /\ phase' = "down" /\ given' = <<>> /\ argv' = <<>> /\ arg' = NoArg /\ config' = Zeroed
  BY DEF Exit
<1>2. Read(given', argv') = 0 /\ Remains(argv', given') /\ given' \in Seq(Options)
  <2>1. <<>> \in Seq(Options)
    OBVIOUS
  <2>2. Remains(<<>>, <<>>) /\ Read(<<>>, <<>>) = 0
    BY <2>1, NothingRead
  <2> QED
    BY <1>1, <2>1, <2>2
<1>3. OptionPlaces("--config", 0)' = {} /\ OptionPlaces("--port", 0)' = {}
  BY DEF OptionPlaces
<1>4. ArgumentsRead'
  BY <1>1, <1>2, <1>3 DEF ArgumentsRead, LastOption, NoArg
<1> QED
  BY <1>1, <1>4 DEF ConfigInv, AfterConfig

LEMMA InitConfig == Init => ConfigInv
<1> SUFFICES ASSUME Init PROVE ConfigInv
  OBVIOUS
<1>1. Read(given, argv) = 0 /\ Remains(argv, given) /\ given \in Seq(Options)
  <2>1. given = <<>> /\ argv = <<>> /\ <<>> \in Seq(Options)
    BY DEF Init
  <2> QED
    BY <2>1, NothingRead
<1>2. ArgumentsRead
  BY <1>1, NoArguments DEF Init, ArgumentsRead, LastOption, NoArg
<1> QED
  BY <1>2 DEF Init, ConfigInv, AfterConfig

LEMMA StartConfig == ASSUME IInv, ConfigInv, NEW opts \in CommandLines, Start(opts) PROVE ConfigInv'
<1>1. /\ phase = "down" /\ phase' = "args" /\ given' = opts /\ argv' = opts
      /\ arg' = arg /\ config' = config
  BY DEF Start, At, Goto, settings
<1>2. opts \in Seq(Options)
  BY ConstantsOK
<1>3. Read(given', argv') = 0 /\ Remains(argv', given')
  BY <1>1, <1>2, NothingRead
<1>4. Read(given, argv) = 0
  BY <1>1 DEF ConfigInv, Read
<1>5. arg.config = DefaultPath /\ arg.port = 0
  BY <1>4, NoArguments DEF ConfigInv, ArgumentsRead, LastOption
<1>6. OptionPlaces("--config", 0)' = {} /\ OptionPlaces("--port", 0)' = {}
  BY DEF OptionPlaces
<1>7. ArgumentsRead'
  BY <1>1, <1>2, <1>3, <1>5, <1>6 DEF ArgumentsRead, LastOption
<1> QED
  BY <1>1, <1>7 DEF ConfigInv, AfterConfig

LEMMA ParseOptionConfig == ASSUME IInv, ConfigInv, ParseOption PROVE ConfigInv'
<1> SUFFICES ASSUME ~Exit PROVE ConfigInv'
  BY ExitConfig
<1> DEFINE o == Head(argv)
           n == Read(given, argv)
<1>1. /\ phase = "args" /\ argv # <<>> /\ argv' = Tail(argv)
      /\ arg' = CASE o.name = "--config" -> [arg EXCEPT !.config = o.value]
                    [] o.name = "--port"   -> [arg EXCEPT !.port = o.value]
                    [] OTHER               -> arg
      /\ UNCHANGED <<phase, given, config>>
  BY DEF ParseOption, At, settings
<1>2. argv \in Seq(Options) /\ given \in Seq(Options) /\ Remains(argv, given)
  BY DEF IInv, InputTyped, ConfigInv, ArgumentsRead
<1>3. n \in Nat /\ Read(given', argv') = n + 1 /\ o = given[n + 1] /\ Remains(argv', given')
  BY <1>1, <1>2, ReadFirst
<1>4. /\ LastOption(arg.config, "--config", n, DefaultPath)
      /\ LastOption(arg.port, "--port", n, 0)
  BY DEF ConfigInv, ArgumentsRead
<1> HIDE DEF n, o
<1>5. /\ LastOption(arg'.config, "--config", n + 1, DefaultPath)
      /\ LastOption(arg'.port, "--port", n + 1, 0)
  <2>1. arg = [config |-> arg.config, port |-> arg.port]
    BY DEF IInv, InputTyped
  <2>2. CASE o.name = "--config"
    <3>1. arg'.config = o.value /\ arg'.port = arg.port
      BY <1>1, <2>1, <2>2 DEF o
    <3> QED
      BY <1>3, <1>4, <2>2, <3>1, NextOption
  <2>3. CASE o.name = "--port"
    <3>1. arg'.config = arg.config /\ arg'.port = o.value
      BY <1>1, <2>1, <2>3 DEF o
    <3> QED
      BY <1>3, <1>4, <2>3, <3>1, NextOption
  <2>4. CASE o.name \notin {"--config", "--port"}
    <3>1. arg' = arg
      BY <1>1, <2>4 DEF o
    <3> QED
      BY <1>3, <1>4, <2>4, <3>1, NextOption
  <2> QED
    BY <2>2, <2>3, <2>4
<1>6. ArgumentsRead'
  BY <1>1, <1>2, <1>3, <1>5 DEF ArgumentsRead, LastOption, OptionPlaces
<1> QED
  BY <1>1, <1>6 DEF ConfigInv, AfterConfig

LEMMA OpenConfigConfig == ASSUME IInv, ConfigInv, OpenConfig PROVE ConfigInv'
<1> SUFFICES ASSUME ~Exit PROVE ConfigInv'
  BY ExitConfig
<1>1. /\ phase = "args" /\ phase' = "config" /\ argv = <<>> /\ Lines # NULL /\ input' = Lines
      /\ UNCHANGED <<given, argv, arg, config>>
  BY DEF OpenConfig, At, Goto, options, Lines
<1>2. ArgumentsRead' /\ Lines' = Lines
  BY <1>1 DEF ConfigInv, ArgumentsRead, LastOption, OptionPlaces, Lines
<1>3. Lines \in Seq(Entries)
  BY <1>1, ConstantsOK DEF Lines, IInv, InputTyped
<1>4. Remains(input', Lines') /\ Read(Lines', input') = 0
  BY <1>1, <1>2, <1>3, NothingRead
<1>5. LinesRead(0, FALSE)'
  BY <1>1, <1>2, NoArguments DEF ConfigInv, LinesRead, LastLine
<1> QED
  BY <1>1, <1>2, <1>4, <1>5 DEF ConfigInv, AfterConfig

LEMMA ReadLineConfig == ASSUME IInv, ConfigInv, ReadLine PROVE ConfigInv'
<1> SUFFICES ASSUME ~Exit PROVE ConfigInv'
  BY ExitConfig
<1> DEFINE l == Head(input)
           n == Read(Lines, input)
<1>1. /\ phase = "config" /\ input # <<>> /\ (Skipped(l) \/ Valid(l)) /\ input' = Tail(input)
      /\ config' = IF Skipped(l) THEN config ELSE Assign(config, l)
      /\ UNCHANGED <<phase, given, argv, arg>>
  BY DEF ReadLine, At, options
<1>2. ArgumentsRead' /\ Lines' = Lines
  BY <1>1 DEF ConfigInv, ArgumentsRead, LastOption, OptionPlaces, Lines
<1>3. Lines \in Seq(Entries) /\ input \in Seq(Entries) /\ Remains(input, Lines) /\ LinesRead(n, FALSE)
  <2>1. Lines # NULL /\ Remains(input, Lines) /\ LinesRead(n, FALSE)
    BY <1>1 DEF ConfigInv
  <2> QED
    BY <2>1, ConstantsOK DEF Lines, IInv, InputTyped
<1>4. /\ n \in Nat /\ Read(Lines', input') = n + 1 /\ l = Lines[n + 1] /\ Remains(input', Lines')
  BY <1>1, <1>2, <1>3, ReadFirst
<1> HIDE DEF n, l
<1>5. LinesRead(Read(Lines, input), FALSE)'
  <2>1. ASSUME NEW i \in 1..(n + 1) PROVE Skipped(Lines[i]) \/ Valid(Lines[i])
    <3>1. i \in 1..n \/ i = n + 1
      BY <1>4
    <3> QED
      BY <1>1, <1>3, <1>4, <3>1 DEF LinesRead
  <2>2. ASSUME NEW k \in Stored PROVE LastLine(config'[k], k, Lines, n + 1)
    <3>1. LastLine(config[k], k, Lines, n)
      BY <1>3 DEF LinesRead
    <3>2. CASE l.key # k
      <4>1. config'[k] = config[k]
        BY <1>1, <3>2 DEF Assign, IInv, TypeOK, ConfigTypeOK
      <4> QED
        BY <1>4, <3>1, <3>2, <4>1, NextLine
    <3>3. CASE l.key = k
      <4>1. ~Skipped(l)
        BY <3>3 DEF Skipped, Stored, NumberKeys, NameKeys, ByteKeys
      <4>2. config' = [config EXCEPT ![k] = Field(k, l.value)]
        BY <1>1, <3>3, <4>1 DEF Assign
      <4>3. config'[k] = Field(k, l.value)
        BY <4>2 DEF IInv, TypeOK, ConfigTypeOK
      <4> QED
        BY <1>4, <3>1, <3>3, <4>3, NextLine
    <3> QED
      BY <3>2, <3>3
  <2> QED
    BY <1>2, <1>4, <2>1, <2>2 DEF LinesRead, LastLine
<1> QED
  BY <1>1, <1>2, <1>4, <1>5 DEF ConfigInv, AfterConfig

LEMMA ConfigReadConfig == ASSUME IInv, ConfigInv, ConfigRead PROVE ConfigInv'
<1> SUFFICES ASSUME ~Exit PROVE ConfigInv'
  BY ExitConfig
<1>1. /\ phase = "config" /\ phase' = "access" /\ input = <<>> /\ ~BothLists
      /\ config' = IF arg.port # 0 THEN [config EXCEPT !["ServerPort"] = arg.port] ELSE config
      /\ UNCHANGED <<given, argv, arg>>
  BY DEF ConfigRead, At, Goto, options
<1>2. ArgumentsRead' /\ Lines' = Lines
  BY <1>1 DEF ConfigInv, ArgumentsRead, LastOption, OptionPlaces, Lines
<1>3. Lines # NULL /\ LinesRead(Len(Lines), FALSE) /\ argv = <<>>
  <2>1. Lines # NULL /\ LinesRead(Read(Lines, input), FALSE) /\ argv = <<>>
    BY <1>1 DEF ConfigInv
  <2>2. Len(Lines) \in Nat
    BY <2>1, ConstantsOK DEF Lines, IInv, InputTyped
  <2>3. Read(Lines, input) = Len(Lines)
    BY <1>1, <2>2 DEF Read
  <2> QED
    BY <2>1, <2>3
<1>4. config \in [Stored -> Int \cup Names \cup {NULL}] /\ "ServerPort" \in Stored
  BY DEF IInv, TypeOK, ConfigTypeOK, Stored, NumberKeys
<1>5. /\ \A k \in Stored : k # "ServerPort" \/ arg.port = 0 => config'[k] = config[k]
      /\ arg.port # 0 => config'["ServerPort"] = arg.port
  BY <1>1, <1>4
<1>6. LinesRead(Len(Lines), arg.port # 0)'
  BY <1>1, <1>2, <1>3, <1>5 DEF LinesRead, LastLine
<1>7. ~BothLists'
  <2>1. {"BlackList", "WhiteList"} \subseteq Stored
    BY DEF Stored, NameKeys
  <2> QED
    BY <1>1, <1>5, <2>1 DEF BothLists
<1> QED
  BY <1>1, <1>2, <1>3, <1>5, <1>6, <1>7 DEF ConfigInv, AfterConfig

\* The rest of main keeps the configuration as it is.
LEMMA SameConfig ==
  ASSUME ConfigInv, UNCHANGED <<options, config>>, phase \in AfterConfig, phase' \in AfterConfig,
         phase' \in {"resolve", "bind", "socket", "listen", "serving"} =>
           config["LCDCols"] # 0 /\ config["LCDRows"] # 0,
         phase' \in {"listen", "serving"} => listening' \in Bound
  PROVE  ConfigInv'
<1>1. UNCHANGED <<given, argv, arg, config>>
  BY DEF options
<1>2. ArgumentsRead' /\ Lines' = Lines /\ Bound' = Bound /\ BothLists' = BothLists
  BY <1>1 DEF ConfigInv, ArgumentsRead, LastOption, OptionPlaces, Lines, Bound, BothLists
<1>3. LinesRead(Len(Lines), arg.port # 0)'
  BY <1>1, <1>2 DEF ConfigInv, LinesRead, LastLine
<1> QED
  BY <1>1, <1>2, <1>3 DEF ConfigInv, AfterConfig

LEMMA NetworkConfig ==
  ASSUME ConfigInv, InitDisplay \/ Resolve \/ OpenSocket \/ Bind \/ NoAddress \/ Listen
  PROVE  ConfigInv'
<1> SUFFICES ASSUME ~Exit PROVE ConfigInv'
  BY ExitConfig
<1>1. /\ phase \in {"display", "resolve", "bind", "socket", "listen"}
      /\ phase' \in {"resolve", "bind", "socket", "listen", "serving"}
      /\ UNCHANGED <<options, config>>
      /\ phase = "display" => config["LCDCols"] # 0 /\ config["LCDRows"] # 0
      /\ phase' \in {"listen", "serving"} =>
           listening' \in Bound \/ (phase = "listen" /\ listening' = listening)
  <2>1. CASE InitDisplay
    BY <2>1 DEF InitDisplay, At, Goto, memory, settings
  <2>2. CASE Resolve \/ OpenSocket
    BY <2>2 DEF Resolve, OpenSocket, At, Goto, settings
  <2>3. CASE Bind
    BY <2>3 DEF Bind, At, Goto, settings
  <2>4. CASE Listen
    BY <2>4 DEF Listen, At, Goto, memory, settings, network
  <2> QED
    BY <2>1, <2>2, <2>3, <2>4 DEF NoAddress
<1>2. phase \in AfterConfig /\ phase' \in AfterConfig
  BY <1>1 DEF AfterConfig
<1>3. config["LCDCols"] # 0 /\ config["LCDRows"] # 0
  BY <1>1 DEF ConfigInv
<1>4. phase' \in {"listen", "serving"} => listening' \in Bound
  BY <1>1 DEF ConfigInv
<1> QED
  BY <1>1, <1>2, <1>3, <1>4, SameConfig

LEMMA DatabaseConfig ==
  ASSUME ConfigInv, \/ FindFile \/ OpenFile \/ Announce \/ Statement \/ StatementFails
                    \/ SchemaDone \/ InsertAdmin \/ AdminFailed \/ Verdict
  PROVE  ConfigInv'
<1> SUFFICES ASSUME ~Exit PROVE ConfigInv'
  BY ExitConfig
<1>1. /\ phase \in {"access", "open", "announce", "schema", "noschema", "insert", "noadmin", "verdict"}
      /\ phase' \in {"open", "announce", "schema", "noschema", "insert", "noadmin", "verdict", "display"}
      /\ UNCHANGED <<options, config>>
  <2>1. CASE FindFile \/ Announce
    BY <2>1 DEF FindFile, Announce, At, Goto, settings
  <2>2. CASE OpenFile
    BY <2>2 DEF OpenFile, At, Goto, memory, settings
  <2>3. CASE Statement \/ StatementFails
    BY <2>3 DEF Statement, StatementFails, At, Goto, settings
  <2>4. CASE SchemaDone \/ AdminFailed
    BY <2>4 DEF SchemaDone, AdminFailed, At, Goto, memory, settings
  <2>5. CASE InsertAdmin
    BY <2>5 DEF InsertAdmin, At, Goto, settings
  <2>6. CASE Verdict
    BY <2>6 DEF Verdict, At, Goto, memory, settings
  <2> QED
    BY <2>1, <2>2, <2>3, <2>4, <2>5, <2>6
<1> QED
  BY <1>1, SameConfig DEF AfterConfig

LEMMA StutterConfig == ASSUME ConfigInv, UNCHANGED vars PROVE ConfigInv'
<1>1. UNCHANGED <<phase, given, argv, arg, input, config, listening>>
  BY DEF vars, memory, options, settings, network
<1>2. ArgumentsRead' /\ Lines' = Lines /\ Bound' = Bound /\ BothLists' = BothLists
  BY <1>1 DEF ConfigInv, ArgumentsRead, LastOption, OptionPlaces, Lines, Bound, BothLists
<1>3. \A n : \A b \in BOOLEAN : LinesRead(n, b)' <=> LinesRead(n, b)
  BY <1>1, <1>2 DEF LinesRead, LastLine
<1> QED
  BY <1>1, <1>2, <1>3 DEF ConfigInv

LEMMA ConfigStep == ASSUME IInv, ConfigInv, [Next]_vars PROVE ConfigInv'
BY ExitConfig, StartConfig, ParseOptionConfig, OpenConfigConfig, ReadLineConfig, ConfigReadConfig,
   NetworkConfig, DatabaseConfig, StutterConfig
DEF Next, Main, LogFails, Killed

LEMMA SmallPort == ASSUME NEW n \in 1..(PortSpan - 1) PROVE Htons(n) = n
BY ConstantsOK DEF Htons

\* The last of some places is the one CHOOSE finds.
LEMMA LastPlace ==
  ASSUME NEW S \in SUBSET Nat, NEW i \in S, \A j \in S : j <= i
  PROVE  (CHOOSE m \in S : \A j \in S : j <= m) = i
<1>1. ASSUME NEW m \in S, \A j \in S : j <= m PROVE m = i
  <2>1. m <= i /\ i <= m /\ m \in Nat /\ i \in Nat
    BY <1>1
  <2> QED
    BY <2>1
<1> QED
  BY <1>1

LEMMA LastLineIsLastOf ==
  ASSUME NEW k, NEW lines \in Seq(Entries), NEW v, LastLine(v, k, lines, Len(lines))
  PROVE  v = LastOf(k, lines)
<1> DEFINE S == {i \in DOMAIN lines : lines[i].key = k}
<1>1. S = KeyPlaces(k, lines, Len(lines)) /\ S \in SUBSET Nat
  BY DEF KeyPlaces
<1>2. CASE S = {}
  BY <1>1, <1>2 DEF LastLine, LastOf
<1>3. CASE S # {}
  <2>1. PICK i \in S : v = Field(k, lines[i].value) /\ \A j \in S : j <= i
    BY <1>1, <1>3 DEF LastLine
  <2>2. (CHOOSE m \in S : \A j \in S : j <= m) = i
    BY <1>1, <2>1, LastPlace
  <2>3. LastOf(k, lines) = Field(k, lines[i].value)
    BY <1>3, <2>2 DEF LastOf
  <2> QED
    BY <2>1, <2>3
<1> QED
  BY <1>2, <1>3

\* What the arguments as a whole asked for.
LEMMA LastOptionIsChosen ==
  ASSUME NEW name, NEW v, NEW none, given \in Seq(Options),
         LastOption(v, name, Len(given), none)
  PROVE  LET S == {i \in DOMAIN given : given[i].name = name}
         IN  v = IF S = {} THEN none ELSE given[CHOOSE i \in S : \A j \in S : j <= i].value
<1> DEFINE S == {i \in DOMAIN given : given[i].name = name}
<1>1. S = OptionPlaces(name, Len(given)) /\ S \in SUBSET Nat
  BY DEF OptionPlaces
<1>2. CASE S = {}
  BY <1>1, <1>2 DEF LastOption
<1>3. CASE S # {}
  <2>1. PICK i \in S : v = given[i].value /\ \A j \in S : j <= i
    BY <1>1, <1>3 DEF LastOption
  <2>2. (CHOOSE m \in S : \A j \in S : j <= m) = i
    BY <1>1, <2>1, LastPlace
  <2> QED
    BY <1>3, <2>1, <2>2
<1> QED
  BY <1>2, <1>3

\* While a server is up, every field of its record config holds what the last
\* line for its keyword says in the file its last --config names, and it listens
\* on the port that was asked for, whatever files and arguments there are and
\* however often it was started before.
THEOREM ServedAsConfigured == Spec => []ServesAsConfigured
<1>1. ASSUME IInv, ConfigInv, At("serving") PROVE ServesAsConfigured
  <2> DEFINE paths == {i \in DOMAIN given : given[i].name = "--config"}
             path  == IF paths = {} THEN DefaultPath
                      ELSE given[CHOOSE i \in paths : \A j \in paths : j <= i].value
             ports == {i \in DOMAIN given : given[i].name = "--port"}
             last  == CHOOSE i \in ports : \A j \in ports : j <= i
  <2>1. given \in Seq(Options) /\ argv = <<>> /\ Read(given, argv) = Len(given)
    BY <1>1 DEF At, ConfigInv, ArgumentsRead, Read
  <2>2. path = arg.config /\ arg.port = IF ports = {} THEN 0 ELSE given[last].value
    <3>1. /\ LastOption(arg.config, "--config", Len(given), DefaultPath)
          /\ LastOption(arg.port, "--port", Len(given), 0)
      BY <1>1, <2>1 DEF ConfigInv, ArgumentsRead
    <3>2. arg.config = path
      BY <2>1, <3>1, LastOptionIsChosen
    <3>3. arg.port = IF ports = {} THEN 0 ELSE given[last].value
      BY <2>1, <3>1, LastOptionIsChosen
    <3> QED
      BY <3>2, <3>3
  <2>3. /\ LinesRead(Len(Lines), arg.port # 0) /\ ~BothLists /\ Lines # NULL
        /\ arg.port # 0 => config["ServerPort"] = arg.port
        /\ config["LCDCols"] # 0 /\ config["LCDRows"] # 0 /\ listening \in Bound
    BY <1>1 DEF At, ConfigInv, AfterConfig
  <2>4. Lines \in Seq(Entries)
    BY <1>1, <2>3, ConstantsOK DEF Lines, IInv, InputTyped
  <2>5. \A i \in DOMAIN Lines : Skipped(Lines[i]) \/ Valid(Lines[i])
    BY <2>3, <2>4 DEF LinesRead
  <2>6. \A k \in Stored : \/ k = "ServerPort" /\ arg.port # 0
                         \/ config[k] = LastOf(k, Lines)
    BY <2>3, <2>4, LastLineIsLastOf DEF LinesRead
  <2>7. \A k \in Stored \ {"ServerPort"} : config[k] = LastOf(k, Lines)
    BY <2>6
  <2>8. LastOf("BlackList", Lines) = NULL \/ LastOf("WhiteList", Lines) = NULL
    BY <2>3, <2>7 DEF BothLists, Stored, NameKeys
  <2>9. LastOf("LCDCols", Lines) # 0 /\ LastOf("LCDRows", Lines) # 0
    BY <2>3, <2>7 DEF Stored, NumberKeys
  <2>10. AskedPort = config["ServerPort"]
    <3>1. AskedPort = IF ports # {} /\ given[last].value # 0 THEN given[last].value
                      ELSE LastOf("ServerPort", Lines)
      BY DEF AskedPort, Lines
    <3>2. AskedPort = IF arg.port # 0 THEN arg.port ELSE LastOf("ServerPort", Lines)
      BY <2>2, <3>1
    <3>3. "ServerPort" \in Stored
      BY DEF Stored, NumberKeys
    <3> QED
      BY <2>3, <2>6, <3>2, <3>3
  <2>11. AskedPort \in 1..(PortSpan - 1) => listening = AskedPort
    BY <2>3, <2>10, SmallPort, ConstantsOK DEF Bound
  <2> HIDE DEF path, paths
  <2>12. Lines = ContentsOf[path]
    BY <2>2 DEF Lines
  <2> QED
    BY <2>5, <2>7, <2>8, <2>9, <2>11, <2>12 DEF ServesAsConfigured, path, paths
<1>2. IInv /\ ConfigInv => ServesAsConfigured
  BY <1>1 DEF ServesAsConfigured
<1> QED
  BY <1>2, Invariance, InitConfig, ConfigStep, PTL DEF Spec

-----------------------------------------------------------------------------
(***************************************************************************)
(* The refinement: what main and a process that ends do to the database    *)
(* files are steps of Databases, or none.                                  *)
(***************************************************************************)
\* What is spoilt stays as it was left, and is never what init_db works on.
SpoiltLeft ==
  /\ \A f \in Names : f \in spoilt => disk[f] \in Unfinished
  /\ Creating /\ phase # "verdict" /\ dbFile \in Names => dbFile \notin spoilt

\* A new file and one without its user are unfinished; a complete one is not.
LEMMA UnfinishedFacts ==
  /\ Empty \in Unfinished /\ NoUser \in Unfinished
  /\ Absent \notin Unfinished /\ Complete \notin Unfinished
<1>1. Empty \in Unfinished /\ NoUser \in Unfinished
  BY DEF Empty, NoUser, Unfinished
<1>2. \A d \in Unfinished : d.exists = TRUE /\ d.admins = 0
  BY DEF Unfinished
<1> QED
  BY <1>1, <1>2 DEF Absent, Complete

\* A file that is being made lacks its tables or its user.
LEMMA BeingMade == IInv /\ Creating => Db \in Unfinished
<1> SUFFICES ASSUME IInv, Creating PROVE Db \in {Empty, NoUser}
  BY UnfinishedFacts
<1>1. CASE phase = "schema"
  BY <1>1 DEF IInv, Stage, HalfWay
<1>2. CASE phase \in {"announce", "noschema", "insert"}
  BY <1>2 DEF IInv, Stage
<1>3. CASE phase = "verdict" /\ ~created
  BY <1>3 DEF IInv, Stage
<1> QED
  BY <1>1, <1>2, <1>3 DEF Creating

\* Databases as they stand in this state and the next.
LEMMA StandingIs ==
  /\ Standing = [f \in Names |-> IF Creating /\ f = dbFile /\ f \notin spoilt THEN NULL ELSE disk[f]]
  /\ Standing' = [f \in Names |-> IF Creating' /\ f = dbFile' /\ f \notin spoilt' THEN NULL
                                  ELSE disk'[f]]
BY DEF Standing

\* One database at most changes how it stands.
LEMMA OneChanges ==
  ASSUME NEW g \in Names, NEW x, \A f \in Names \ {g} : Standing'[f] = Standing[f], Standing'[g] = x
  PROVE  Standing' = [Standing EXCEPT ![g] = x]
<1>1. Standing' = [f \in Names |-> Standing'[f]] /\ Standing = [f \in Names |-> Standing[f]]
  BY StandingIs
<1> QED
  BY <1>1

LEMMA NoneChanges ==
  ASSUME \A f \in Names : Standing'[f] = Standing[f]
  PROVE  [Databases!Next]_Standing
<1>1. Standing' = [f \in Names |-> Standing'[f]] /\ Standing = [f \in Names |-> Standing[f]]
  BY StandingIs
<1> QED
  BY <1>1

\* A step outside of init_db.
LEMMA QuietDatabases ==
  ASSUME SpoiltLeft, UNCHANGED <<disk, spoilt>>, ~Creating, ~Creating'
  PROVE  SpoiltLeft' /\ [Databases!Next]_Standing
<1>1. \A f \in Names : Standing'[f] = Standing[f]
  BY StandingIs
<1>2. SpoiltLeft'
  BY DEF SpoiltLeft
<1> QED
  BY <1>1, <1>2, NoneChanges

\* A step of init_db within the making of a database.
LEMMA WorkingDatabases ==
  ASSUME SpoiltLeft, Creating, phase # "verdict", Creating', dbFile' = dbFile, spoilt' = spoilt,
         \A f \in Names \ {dbFile} : disk'[f] = disk[f]
  PROVE  SpoiltLeft' /\ [Databases!Next]_Standing
<1>1. dbFile \in Names => dbFile \notin spoilt
  BY DEF SpoiltLeft
<1>2. \A f \in Names : Standing'[f] = Standing[f]
  BY <1>1, StandingIs
<1>3. SpoiltLeft'
  BY <1>1 DEF SpoiltLeft
<1> QED
  BY <1>2, <1>3, NoneChanges

LEMMA ExitDatabases == ASSUME IInv, SpoiltLeft, Exit PROVE SpoiltLeft' /\ [Databases!Next]_Standing
<1>1. \A f \in Names : f # NULL /\ disk'[f] = disk[f]
  BY ConstantsOK DEF Exit, IInv, TypeOK, DiskTypeOK
<1>2. ~Creating'
  BY DEF Exit, Creating
<1>3. \A f \in Names : f \in spoilt' <=> f \in spoilt \/ (Creating /\ f = dbFile)
  BY <1>1 DEF Exit
<1>4. SpoiltLeft'
  <2>1. ASSUME NEW f \in Names, f \in spoilt' PROVE disk'[f] \in Unfinished
    BY <1>1, <1>3, <2>1, BeingMade DEF SpoiltLeft, Db
  <2> QED
    BY <1>2, <2>1 DEF SpoiltLeft
<1>5. CASE Creating /\ dbFile \in Names /\ dbFile \notin spoilt
  <2>1. \A f \in Names \ {dbFile} : Standing'[f] = Standing[f]
    BY <1>1, <1>2, StandingIs
  <2>2. Standing[dbFile] = NULL /\ Standing'[dbFile] = Db
    BY <1>1, <1>2, <1>5, StandingIs DEF Db
  <2>3. Standing' = [Standing EXCEPT ![dbFile] = Db]
    BY <1>5, <2>1, <2>2, OneChanges
  <2>4. Databases!Abandon(dbFile)
    BY <1>5, <2>2, <2>3, BeingMade DEF Databases!Abandon
  <2> QED
    BY <1>4, <1>5, <2>4 DEF Databases!Next
<1>6. CASE ~(Creating /\ dbFile \in Names /\ dbFile \notin spoilt)
  <2>1. \A f \in Names : Standing'[f] = Standing[f]
    BY <1>1, <1>2, <1>6, StandingIs
  <2> QED
    BY <1>4, <2>1, NoneChanges
<1> QED
  BY <1>5, <1>6

\* sqlite3_open makes a file that was not there.
LEMMA OpenFileDatabases ==
  ASSUME IInv, SpoiltLeft, OpenFile PROVE SpoiltLeft' /\ [Databases!Next]_Standing
<1> SUFFICES ASSUME ~Exit PROVE SpoiltLeft' /\ [Databases!Next]_Standing
  BY ExitDatabases
<1>1. /\ phase = "open" /\ phase' = (IF isNew THEN "announce" ELSE "display")
      /\ disk' = [disk EXCEPT ![dbFile].exists = TRUE]
      /\ UNCHANGED <<memory, starts, spoilt>>
  BY DEF OpenFile, At, Goto
<1>2. /\ dbFile' = dbFile /\ dbFile \in Names \cup {NULL}
      /\ disk \in [Names \cup {NULL} -> Database]
  BY <1>1, DbName DEF dbFile, memory, settings, IInv, TypeOK, DiskTypeOK
<1>3. Db \in Database /\ (isNew <=> ~Db.exists) /\ ~Creating
  BY <1>1, <1>2 DEF Db, IInv, Stage, Creating
<1>4. \A f \in Names \ {dbFile} : disk'[f] = disk[f]
  BY <1>1, <1>2
<1>5. CASE isNew
  <2>1. Db = Absent
    BY <1>2, <1>3, <1>5 DEF Db, IInv, AbsentIsEmpty
  <2>2. Creating'
    BY <1>1, <1>5 DEF Creating
  <2>3. dbFile \in Names => dbFile \notin spoilt
    BY <2>1, UnfinishedFacts DEF SpoiltLeft, Db
  <2>4. SpoiltLeft'
    BY <1>1, <1>2, <1>4, <2>3 DEF SpoiltLeft
  <2>5. CASE dbFile \in Names
    <3>1. \A f \in Names \ {dbFile} : Standing'[f] = Standing[f]
      BY <1>1, <1>2, <1>3, <1>4, StandingIs
    <3>2. Standing[dbFile] = Absent /\ Standing'[dbFile] = NULL
      BY <1>1, <1>2, <1>3, <2>1, <2>2, <2>3, <2>5, StandingIs DEF Db
    <3>3. \A f \in Names : Standing[f] # NULL
      BY <1>2, <1>3, ConstantsOK, StandingIs
    <3>4. Databases!Make(dbFile)
      BY <2>5, <3>1, <3>2, <3>3, OneChanges DEF Databases!Make
    <3> QED
      BY <2>4, <2>5, <3>4 DEF Databases!Next
  <2>6. CASE dbFile \notin Names
    BY <1>1, <1>2, <1>3, <1>4, <2>4, <2>6, StandingIs, NoneChanges
  <2> QED
    BY <2>5, <2>6
<1>6. CASE ~isNew
  <2>1. disk' = disk
    BY <1>1, <1>2, <1>3, <1>6 DEF Db, Database
  <2>2. ~Creating'
    BY <1>1, <1>6 DEF Creating
  <2> QED
    BY <1>1, <1>3, <2>1, <2>2, QuietDatabases
<1> QED
  BY <1>5, <1>6

\* A statement writes to the database of this start and to no other.
LEMMA WriteElsewhere ==
  ASSUME IInv
  PROVE  /\ \A d : Write(d) => \A f \in Names \ {dbFile} : disk'[f] = disk[f]
         /\ \A d : disk' = [disk EXCEPT ![dbFile] = d] => \A f \in Names \ {dbFile} : disk'[f] = disk[f]
<1>1. disk \in [Names \cup {NULL} -> Database]
  BY DEF IInv, TypeOK, DiskTypeOK
<1>2. ASSUME NEW d, disk' = [disk EXCEPT ![dbFile] = d]
      PROVE  \A f \in Names \ {dbFile} : disk'[f] = disk[f]
  BY <1>1, <1>2
<1> QED
  BY <1>2 DEF Write

\* A statement of create_db works on the one database.
LEMMA SchemaDatabases ==
  ASSUME IInv, SpoiltLeft, Announce \/ Statement \/ StatementFails \/ SchemaDone
  PROVE  SpoiltLeft' /\ [Databases!Next]_Standing
<1>1. /\ phase \in {"announce", "schema", "noschema"} /\ phase' \in {"schema", "noschema", "insert"}
      /\ spoilt' = spoilt /\ config' = config
  BY DEF Announce, Statement, StatementFails, SchemaDone, At, Goto, memory, settings
<1>2. \A f \in Names \ {dbFile} : disk'[f] = disk[f]
  <2>1. CASE Statement
    BY <2>1, WriteElsewhere DEF Statement
  <2> QED
    BY <1>1, <2>1 DEF Announce, StatementFails, SchemaDone
<1> QED
  BY <1>1, <1>2, WorkingDatabases DEF Creating, dbFile

\* The default user completes the database, or is not to be had.
LEMMA InsertAdminDatabases ==
  ASSUME IInv, SpoiltLeft, InsertAdmin PROVE SpoiltLeft' /\ [Databases!Next]_Standing
<1>1. phase = "insert" /\ created' = created /\ dbFile' = dbFile /\ Creating
  BY DEF InsertAdmin, At, Creating, dbFile, settings
<1>2. /\ created => txn = NULL /\ Db = NoUser
      /\ ~created => Db = Empty
  BY <1>1 DEF IInv, Stage
<1>3. dbFile \in Names => dbFile \notin spoilt
  BY <1>1 DEF SpoiltLeft
<1>4. CASE /\ "users" \in Seen.tables
           /\ Write([Seen EXCEPT !.admins = @ + 1])
           /\ phase' = "verdict" /\ UNCHANGED spoilt
  <2>1. CASE ~created
    <3>1. txn # NULL
      BY <1>2, <1>4, <2>1 DEF Seen, Empty
    <3>2. disk' = disk /\ Creating'
      BY <1>1, <1>4, <2>1, <3>1 DEF Write, Creating
    <3> QED
      BY <1>1, <1>4, <3>2, WorkingDatabases
  <2>2. CASE created
    <3>1. ~Creating' /\ \A f \in Names \ {dbFile} : disk'[f] = disk[f]
      BY <1>1, <1>4, <2>2, WriteElsewhere DEF Creating
    <3>2. SpoiltLeft'
      BY <1>3, <1>4, <3>1 DEF SpoiltLeft
    <3>3. CASE dbFile \in Names
      <4>1. \A f \in Names \ {dbFile} : Standing'[f] = Standing[f]
        BY <3>1, <1>4, StandingIs
      <4>2. Standing[dbFile] = NULL /\ Standing'[dbFile] = Complete
        <5>1. InsertAdmin => IInv'
          BY InsertAdminStep
        <5>2. disk'[dbFile].exists
          BY <1>2, <1>4, <2>2, <3>3 DEF Write, Seen, NoUser, IInv, TypeOK, DiskTypeOK
        <5>3. dbFile \in DOMAIN disk' /\ dbFile \notin spoilt'
          BY <1>3, <1>4, <3>3, <5>1 DEF IInv, TypeOK, DiskTypeOK
        <5>4. disk'[dbFile] = Complete
          BY <3>1, <5>1, <5>2, <5>3 DEF IInv, CompleteUnlessSpoilt
        <5> QED
          BY <1>1, <1>3, <3>1, <3>3, <5>4, StandingIs
      <4>3. Databases!Finish(dbFile)
        BY <3>3, <4>1, <4>2, OneChanges DEF Databases!Finish
      <4> QED
        BY <3>2, <3>3, <4>3 DEF Databases!Next
    <3>4. CASE dbFile \notin Names
      BY <1>1, <1>4, <3>1, <3>2, <3>4, StandingIs, NoneChanges
    <3> QED
      BY <3>3, <3>4
  <2> QED
    BY <2>1, <2>2
<1>5. CASE spoilt' = spoilt \cup {dbFile} /\ phase' = "noadmin" /\ UNCHANGED <<disk, txn>>
  <2>1. ~Creating'
    BY <1>5 DEF Creating
  <2>2. SpoiltLeft'
    BY <1>1, <1>5, <2>1, BeingMade DEF SpoiltLeft, Db
  <2>3. CASE dbFile \in Names
    <3>1. \A f \in Names \ {dbFile} : Standing'[f] = Standing[f]
      BY <1>5, <2>1, StandingIs
    <3>2. Standing[dbFile] = NULL /\ Standing'[dbFile] = Db
      BY <1>1, <1>3, <1>5, <2>1, <2>3, StandingIs DEF Db
    <3>3. Databases!Abandon(dbFile)
      BY <1>1, <2>3, <3>1, <3>2, OneChanges, BeingMade DEF Databases!Abandon
    <3> QED
      BY <2>2, <2>3, <3>3 DEF Databases!Next
  <2>4. CASE dbFile \notin Names
    BY <1>1, <1>5, <2>1, <2>2, <2>4, StandingIs, NoneChanges
  <2> QED
    BY <2>3, <2>4
<1> QED
  BY <1>4, <1>5 DEF InsertAdmin, Goto

LEMMA VerdictDatabases ==
  ASSUME IInv, SpoiltLeft, AdminFailed \/ Verdict PROVE SpoiltLeft' /\ [Databases!Next]_Standing
<1> SUFFICES ASSUME ~Exit PROVE SpoiltLeft' /\ [Databases!Next]_Standing
  BY ExitDatabases
<1>1. UNCHANGED <<disk, spoilt>> /\ dbFile' = dbFile /\ ~Creating
  BY DEF AdminFailed, Verdict, At, Creating, dbFile, memory, settings
<1>2. CASE Verdict
  <2>1. ~Creating'
    BY <1>2 DEF Verdict, Goto, Creating
  <2> QED
    BY <1>1, <2>1, QuietDatabases
<1>3. CASE AdminFailed
  <2>1. dbFile \in spoilt /\ phase' = "verdict"
    BY <1>3 DEF AdminFailed, At, Goto, IInv, Stage
  <2>2. \A f \in Names : Standing'[f] = Standing[f]
    BY <1>1, <2>1, StandingIs
  <2>3. SpoiltLeft'
    BY <1>1, <2>1 DEF SpoiltLeft
  <2> QED
    BY <2>2, <2>3, NoneChanges
<1> QED
  BY <1>2, <1>3

\* main before init_db and after it.
LEMMA OutsideDatabases ==
  ASSUME IInv, SpoiltLeft,
         \/ \E opts \in CommandLines : Start(opts)
         \/ ParseOption \/ OpenConfig \/ ReadLine \/ ConfigRead \/ FindFile
         \/ InitDisplay \/ Resolve \/ OpenSocket \/ Bind \/ NoAddress \/ Listen
  PROVE  SpoiltLeft' /\ [Databases!Next]_Standing
<1> SUFFICES ASSUME ~Exit PROVE SpoiltLeft' /\ [Databases!Next]_Standing
  BY ExitDatabases
<1>1. CASE \/ \E opts \in CommandLines : Start(opts)
           \/ ParseOption \/ OpenConfig \/ ReadLine \/ ConfigRead \/ FindFile
  <2>1. /\ phase \in {"down", "args", "config", "access"}
        /\ phase' \in {"args", "config", "access", "open"}
        /\ UNCHANGED <<disk, spoilt>>
    BY <1>1 DEF Start, ParseOption, OpenConfig, ReadLine, ConfigRead, FindFile, At, Goto
  <2> QED
    BY <2>1, QuietDatabases DEF Creating
<1>2. CASE InitDisplay \/ Resolve \/ OpenSocket \/ Bind \/ NoAddress \/ Listen
  <2>1. /\ phase \in {"display", "resolve", "bind", "socket", "listen"}
        /\ phase' \in {"resolve", "bind", "socket", "listen", "serving"}
        /\ UNCHANGED <<disk, spoilt>>
    BY <1>2 DEF InitDisplay, Resolve, OpenSocket, Bind, NoAddress, Listen, At, Goto
  <2> QED
    BY <2>1, QuietDatabases DEF Creating
<1> QED
  BY <1>1, <1>2

\* Whatever is started, fails or is ended: each database file is made once, one
\* at a time, and what the start that made it left, complete or not, no later
\* start changes.
THEOREM DatabasesRefinement == Spec => ImplementsDatabases
<1>1. Init => SpoiltLeft /\ Databases!Init
  <2> SUFFICES ASSUME Init PROVE SpoiltLeft /\ Databases!Init
    OBVIOUS
  <2>1. ~Creating /\ spoilt = {}
    BY DEF Init, Creating
  <2> QED
    BY <2>1 DEF Init, SpoiltLeft, Standing, Databases!Init
<1>2. ASSUME IInv, SpoiltLeft, [Next]_vars PROVE SpoiltLeft' /\ [Databases!Next]_Standing
  <2>1. CASE \/ Announce \/ Statement \/ StatementFails \/ SchemaDone
             \/ OpenFile \/ InsertAdmin \/ AdminFailed \/ Verdict
    BY <1>2, <2>1, SchemaDatabases, OpenFileDatabases, InsertAdminDatabases, VerdictDatabases
  <2>2. CASE \/ \E opts \in CommandLines : Start(opts)
             \/ ParseOption \/ OpenConfig \/ ReadLine \/ ConfigRead \/ FindFile
             \/ InitDisplay \/ Resolve \/ OpenSocket \/ Bind \/ NoAddress \/ Listen
    BY <1>2, <2>2, OutsideDatabases
  <2>3. CASE LogFails \/ Killed
    BY <1>2, <2>3, ExitDatabases DEF LogFails, Killed
  <2>4. CASE UNCHANGED vars
    <3>1. /\ UNCHANGED <<disk, spoilt, phase>> /\ dbFile' = dbFile /\ (Creating' <=> Creating)
      BY <2>4 DEF vars, memory, settings, creation, dbFile, Creating
    <3>2. \A f \in Names : Standing'[f] = Standing[f]
      BY <3>1, StandingIs
    <3>3. SpoiltLeft'
      BY <1>2, <3>1 DEF SpoiltLeft
    <3> QED
      BY <3>2, <3>3, NoneChanges
  <2> QED
    BY <1>2, <2>1, <2>2, <2>3, <2>4 DEF Next, Main
<1> QED
  BY <1>1, <1>2, Invariance, PTL DEF Spec, ImplementsDatabases, Databases!Spec

=============================================================================

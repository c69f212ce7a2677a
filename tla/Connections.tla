---------------------------- MODULE Connections ----------------------------
(***************************************************************************)
(* Connections and their threads: the accept loop of start_server          *)
(* (src/src/server/server.c) and the handler thread it starts for each     *)
(* connection (client_handler, handle_client and remove_client of          *)
(* src/src/server/handle_client.c).                                        *)
(*                                                                         *)
(* A client_t keeps the NUMBER of its descriptor, and never forgets it.    *)
(* What the number refers to is the kernel's business: close frees it and  *)
(* accept takes the lowest free one.  Calls on a socket are therefore two  *)
(* things here, the look-up of the number and the work on the connection   *)
(* found, which for recv are two steps: a thread blocked in recv stays on  *)
(* the connection it found, whatever happens to the number.                *)
(*                                                                         *)
(* Abstractions: a connection and the client_t made for it have one name;  *)
(* a line is BYE or some other command, answered with a reply or none;     *)
(* a recv delivers whole lines; descriptors other than those of            *)
(* connections are left out.                                               *)
(***************************************************************************)
EXTENDS Integers, Sequences

CONSTANTS
  Conns,       \* connections, each made once
  MaxFds,      \* descriptors the process may have open for connections
  ArraySize,   \* the entries of the array clients: 100
  Configured,  \* values config.serverConfig.maxClients may have
  NULL,
  MaxLines     \* bound: lines a peer sends

ASSUME ConstantsOK ==
  /\ MaxFds \in Nat /\ ArraySize \in Nat /\ MaxLines \in Nat
  /\ Configured \subseteq Int
  /\ NULL \notin Conns

Fds   == 1..MaxFds
Slots == 1..ArraySize
Lines == {"BYE", "CMD"}

VARIABLES
  maxClients, \* config.serverConfig.maxClients, which nothing bounds
  process,  \* "up"; "dead": SIGPIPE, exit, or start_server returned; or "wild":
            \* a loop has left the array, and anything may happen
  \* The network and the kernel
  peer,     \* what the other end of each connection has done
  left,     \* lines the peer may still send
  inbox,    \* lines sent and not yet received
  backlog,  \* connections made and not yet accepted, oldest first
  fdtab,    \* the connection each descriptor refers to, or NULL
  \* The program
  mpc,      \* where the accept loop is
  mcli,     \* its cli, or NULL
  mutex,    \* the owner of clients_mutex, or NULL
  clients,  \* the array clients
  socket,   \* cli->socket; 0 before the client_t exists
  pc,       \* where each handler thread is
  wait,     \* the connection its recv is working on, or NULL
  got,      \* the lines received and not yet processed
  \* History
  said,     \* clients whose BYE was processed
  late,     \* clients added to the array after their thread had ended
  touched   \* pairs <<c, k>>: the thread of c, or main for c, read or wrote k

net    == <<peer, left, inbox, backlog>>
accept == <<mpc, mcli>>
ghosts == <<said, late, touched>>
vars   == <<maxClients, process, net, fdtab, accept, mutex, clients, socket, pc, wait, got, ghosts>>

Init ==
  /\ maxClients \in Configured
  /\ process = "up"
  /\ peer  = [k \in Conns |-> "away"]
  /\ left  = [k \in Conns |-> MaxLines]
  /\ inbox = [k \in Conns |-> <<>>]
  /\ backlog = <<>>
  /\ fdtab = [fd \in Fds |-> NULL]
  /\ mpc = "accept" /\ mcli = NULL
  /\ mutex = NULL
  /\ clients = [i \in Slots |-> NULL]
  /\ socket = [c \in Conns |-> 0]
  /\ pc   = [c \in Conns |-> "none"]
  /\ wait = [c \in Conns |-> NULL]
  /\ got  = [c \in Conns |-> <<>>]
  /\ said = {} /\ late = {} /\ touched = {}

Goto(c, l) == pc' = [pc EXCEPT ![c] = l]

(***************************************************************************)
(* The peers                                                               *)
(***************************************************************************)
Connect(k) ==
  /\ peer[k] = "away"
  /\ peer' = [peer EXCEPT ![k] = "open"]
  /\ backlog' = Append(backlog, k)
  /\ UNCHANGED <<maxClients, process, left, inbox, fdtab, accept, mutex, clients, socket, pc, wait, got, ghosts>>

SendLine(k, l) ==
  /\ peer[k] = "open" /\ left[k] > 0
  /\ inbox' = [inbox EXCEPT ![k] = Append(@, l)]
  /\ left' = [left EXCEPT ![k] = @ - 1]
  /\ UNCHANGED <<maxClients, process, peer, backlog, fdtab, accept, mutex, clients, socket, pc, wait, got, ghosts>>

\* The peer closes, with FIN, or, if it has left replies unread, with RST.
PeerClose(k) ==
  /\ peer[k] = "open"
  /\ \E how \in {"closed", "refusing"} : peer' = [peer EXCEPT ![k] = how]
  /\ UNCHANGED <<maxClients, process, left, inbox, backlog, fdtab, accept, mutex, clients, socket, pc, wait, got, ghosts>>

\* The RST arrives: the peer's own, or the answer to data it was sent.
Reset(k) ==
  /\ peer[k] = "refusing"
  /\ peer' = [peer EXCEPT ![k] = "reset"]
  /\ UNCHANGED <<maxClients, process, left, inbox, backlog, fdtab, accept, mutex, clients, socket, pc, wait, got, ghosts>>

(***************************************************************************)
(* System calls on cli->socket                                             *)
(***************************************************************************)
\* What the number stored in client c refers to now.
Target(c) == IF socket[c] \in Fds THEN fdtab[socket[c]] ELSE NULL

BugClose(fd) == fdtab  \* mutant: remove_client forgets the descriptor

Close(fd) == [fdtab EXCEPT ![fd] = NULL]

\* send(cli->socket, ...): its result is ignored.  On no descriptor it fails;
\* a peer that is gone answers the data with RST; and once the RST is in,
\* SIGPIPE ends the process, which neither ignores it nor passes MSG_NOSIGNAL
\* (only the error left by an RST that came without a FIN is reported first).
Send(c) ==
  LET k == Target(c) IN
  \/ k = NULL /\ UNCHANGED <<process, peer, touched>>
  \/ /\ k # NULL
     /\ touched' = touched \cup {<<c, k>>}
     /\ \/ peer[k] = "reset" /\ process' \in {process, "dead"} /\ UNCHANGED peer
        \/ peer[k] # "reset" /\ UNCHANGED <<process, peer>>
        \/ /\ peer[k] = "closed" /\ UNCHANGED process
           /\ peer' = [peer EXCEPT ![k] = "refusing"]

(***************************************************************************)
(* start_server                                                            *)
(***************************************************************************)
\* accept, malloc, pthread_create.  With no descriptor left accept fails; if the
\* failure can be logged (LogFails), the loop tries again.
Accept ==
  /\ process = "up" /\ mpc = "accept" /\ backlog # <<>>
  /\ LET c == Head(backlog) IN
     \E fd \in Fds :
       /\ fdtab[fd] = NULL /\ \A e \in Fds : fdtab[e] = NULL => fd <= e
       /\ fdtab' = [fdtab EXCEPT ![fd] = c]
       /\ socket' = [socket EXCEPT ![c] = fd]
       /\ mcli' = c
       /\ Goto(c, "recv")
  /\ backlog' = Tail(backlog)
  /\ mpc' = "add"
  /\ UNCHANGED <<maxClients, process, peer, left, inbox, mutex, clients, wait, got, ghosts>>

\* pthread_create fails: start_server returns, and main with it.
ThreadFails ==
  /\ process = "up" /\ mpc = "accept" /\ backlog # <<>>
  /\ \E fd \in Fds : fdtab[fd] = NULL
  /\ process' = "dead"
  /\ UNCHANGED <<maxClients, net, fdtab, accept, mutex, clients, socket, pc, wait, got, ghosts>>

\* A line for the log, of accept, add_client or a command: the file is opened
\* for each, and the process exits if it cannot be (for want of a descriptor).
LogFails ==
  /\ process = "up"
  /\ \/ mpc = "accept" /\ backlog # <<>>
     \/ mpc = "add" /\ mutex = NULL
     \/ \E c \in Conns : pc[c] = "run" /\ got[c] # <<>>
  /\ process' = "dead"
  /\ UNCHANGED <<maxClients, net, fdtab, accept, mutex, clients, socket, pc, wait, got, ghosts>>

\* The entries the loops over the array look at while they are in it; behind
\* the last of them they stop, or, if maxClients is larger, run off the array.
Searched == {i \in Slots : i <= maxClients}
RunsOff  == process' = IF maxClients > ArraySize THEN "wild" ELSE process

\* What add_client does to the histories.
Added == late' = IF pc[mcli] = "ended" THEN late \cup {mcli} ELSE late

BugAddClient ==  \* mutant: the break is missing
  /\ process = "up" /\ mpc = "add" /\ mutex = NULL
  /\ clients' = [i \in Slots |-> IF clients[i] = NULL THEN mcli ELSE clients[i]]
  /\ Added
  /\ mpc' = "ident"
  /\ UNCHANGED <<maxClients, process, net, fdtab, mcli, mutex, socket, pc, wait, got, said, touched>>

BugAddClientBound ==  \* mutant: <= for < in the loop over the entries
  /\ process = "up" /\ mpc = "add" /\ mutex = NULL
  /\ LET looked == {i \in Slots : i <= maxClients + 1} IN
     \/ \E i \in looked :
          /\ clients[i] = NULL /\ \A j \in looked : clients[j] = NULL => i <= j
          /\ clients' = [clients EXCEPT ![i] = mcli] /\ UNCHANGED process
     \/ /\ \A i \in looked : clients[i] # NULL
        /\ process' = IF maxClients + 1 > ArraySize THEN "wild" ELSE process
        /\ UNCHANGED clients
  /\ Added
  /\ mpc' = "ident"
  /\ UNCHANGED <<maxClients, net, fdtab, mcli, mutex, socket, pc, wait, got, said, touched>>

\* add_client, under the mutex: the first free entry; no free entry is no obstacle.
AddClient ==
  /\ process = "up" /\ mpc = "add" /\ mutex = NULL
  /\ \/ \E i \in Searched :
          /\ clients[i] = NULL /\ \A j \in Searched : clients[j] = NULL => i <= j
          /\ clients' = [clients EXCEPT ![i] = mcli] /\ UNCHANGED process
     \/ (\A i \in Searched : clients[i] # NULL) /\ RunsOff /\ UNCHANGED clients
  /\ Added
  /\ mpc' = "ident"
  /\ UNCHANGED <<maxClients, net, fdtab, mcli, mutex, socket, pc, wait, got, said, touched>>

\* send_server_ident, and back to accept.
SendIdent ==
  /\ process = "up" /\ mpc = "ident"
  /\ Send(mcli)
  /\ mpc' = "accept" /\ mcli' = NULL
  /\ UNCHANGED <<maxClients, left, inbox, backlog, fdtab, mutex, clients, socket, pc, wait, got, said, late>>

(***************************************************************************)
(* handle_client                                                           *)
(***************************************************************************)
At(c, l) == process = "up" /\ pc[c] = l

\* recv looks the descriptor up, and works on the connection it finds ...
BeginRecv(c) ==
  /\ At(c, "recv") /\ Target(c) # NULL
  /\ wait' = [wait EXCEPT ![c] = Target(c)]
  /\ Goto(c, "blocked")
  /\ UNCHANGED <<maxClients, process, net, fdtab, accept, mutex, clients, socket, got, ghosts>>

\* ... or none: EBADF ends the loop.
BadDescriptor(c) ==
  /\ At(c, "recv") /\ Target(c) = NULL
  /\ Goto(c, "remove")
  /\ UNCHANGED <<maxClients, process, net, fdtab, accept, mutex, clients, socket, wait, got, ghosts>>

\* It returns some of the lines that have come in, ...
Deliver(c) ==
  /\ At(c, "blocked")
  /\ LET k == wait[c] IN
     /\ \E n \in 1..Len(inbox[k]) :
          /\ got' = [got EXCEPT ![c] = SubSeq(inbox[k], 1, n)]
          /\ inbox' = [inbox EXCEPT ![k] = SubSeq(@, n + 1, Len(@))]
     /\ touched' = touched \cup {<<c, k>>}
  /\ wait' = [wait EXCEPT ![c] = NULL]
  /\ Goto(c, "run")
  /\ UNCHANGED <<maxClients, process, peer, left, backlog, fdtab, accept, mutex, clients, socket, said, late>>

BugEndOfInput(c) ==  \* mutant: the end of the input is handled like a BYE
  /\ At(c, "blocked")
  /\ inbox[wait[c]] = <<>> /\ peer[wait[c]] # "open"
  /\ wait' = [wait EXCEPT ![c] = NULL]
  /\ Goto(c, "bye")
  /\ UNCHANGED <<maxClients, process, net, fdtab, accept, mutex, clients, socket, got, ghosts>>

\* ... and once the peer is gone and all was read, 0 or an error.
EndOfInput(c) ==
  /\ At(c, "blocked")
  /\ inbox[wait[c]] = <<>> /\ peer[wait[c]] # "open"
  /\ wait' = [wait EXCEPT ![c] = NULL]
  /\ Goto(c, "remove")
  /\ UNCHANGED <<maxClients, process, net, fdtab, accept, mutex, clients, socket, got, ghosts>>

\* A command other than BYE: whatever it does, it replies, or (MSG_NEXT without
\* a current message, DELETE_USER) does not.
RunCommand(c) ==
  /\ At(c, "run") /\ got[c] # <<>> /\ Head(got[c]) = "CMD"
  /\ Send(c) \/ UNCHANGED <<process, peer, touched>>
  /\ got' = [got EXCEPT ![c] = Tail(@)]
  /\ UNCHANGED <<maxClients, left, inbox, backlog, fdtab, accept, mutex, clients, socket, pc, wait,
                 said, late>>

\* handle_disconnect_client: a farewell, then remove_client.
RunBye(c) ==
  /\ At(c, "run") /\ got[c] # <<>> /\ Head(got[c]) = "BYE"
  /\ Send(c)
  /\ got' = [got EXCEPT ![c] = Tail(@)]
  /\ said' = said \cup {c}
  /\ Goto(c, "bye")
  /\ UNCHANGED <<maxClients, left, inbox, backlog, fdtab, accept, mutex, clients, socket, wait, late>>

LinesDone(c) ==
  /\ At(c, "run") /\ got[c] = <<>>
  /\ Goto(c, "recv")
  /\ UNCHANGED <<maxClients, process, net, fdtab, accept, mutex, clients, socket, wait, got, ghosts>>

(***************************************************************************)
(* remove_client, called for BYE and at the end of client_handler          *)
(***************************************************************************)
\* Lock, and close the descriptor: cli->socket keeps its number.
CloseSocket(c) ==
  /\ process = "up" /\ pc[c] \in {"bye", "remove"} /\ mutex = NULL
  /\ mutex' = c
  /\ fdtab' = Close(socket[c])
  /\ Goto(c, IF pc[c] = "bye" THEN "byeslot" ELSE "slot")
  /\ UNCHANGED <<maxClients, process, net, accept, clients, socket, wait, got, ghosts>>

AfterSlot(c) == IF pc[c] = "byeslot" THEN "run" ELSE "ended"

BugClearSlot(c) ==  \* mutant: returns with the mutex when c has no slot
  /\ process = "up" /\ pc[c] \in {"byeslot", "slot"} /\ mutex = c
  /\ clients' = [i \in Slots |-> IF clients[i] = c THEN NULL ELSE clients[i]]
  /\ mutex' = IF \E i \in Slots : clients[i] = c THEN NULL ELSE c
  /\ Goto(c, AfterSlot(c))
  /\ UNCHANGED <<maxClients, process, net, fdtab, accept, socket, wait, got, ghosts>>

BugClearFirst(c) ==  \* mutant: the search stops at the first entry in use
  /\ process = "up" /\ pc[c] \in {"byeslot", "slot"} /\ mutex = c
  /\ \/ \E i \in Searched :
          /\ clients[i] # NULL /\ \A j \in Searched : clients[j] # NULL => i <= j
          /\ clients' = [clients EXCEPT ![i] = IF @ = c THEN NULL ELSE @]
     \/ (\A i \in Searched : clients[i] = NULL) /\ UNCHANGED clients
  /\ mutex' = NULL
  /\ Goto(c, AfterSlot(c))
  /\ UNCHANGED <<maxClients, process, net, fdtab, accept, socket, wait, got, ghosts>>

\* Clear the first entry that holds c, unlock.  BYE goes on with the next line.
ClearSlot(c) ==
  /\ process = "up" /\ pc[c] \in {"byeslot", "slot"} /\ mutex = c
  /\ \/ \E i \in Searched :
          /\ clients[i] = c /\ \A j \in Searched : clients[j] = c => i <= j
          /\ clients' = [clients EXCEPT ![i] = NULL] /\ UNCHANGED process
     \/ (\A i \in Searched : clients[i] # c) /\ RunsOff /\ UNCHANGED clients
  /\ mutex' = NULL
  /\ Goto(c, AfterSlot(c))
  /\ UNCHANGED <<maxClients, net, fdtab, accept, socket, wait, got, ghosts>>

-----------------------------------------------------------------------------
Peer(k) == Connect(k) \/ (\E l \in Lines : SendLine(k, l)) \/ PeerClose(k) \/ Reset(k)

Serve == Accept \/ AddClient \/ SendIdent

Handle(c) ==
  \/ BeginRecv(c) \/ BadDescriptor(c) \/ Deliver(c) \/ EndOfInput(c)
  \/ RunCommand(c) \/ RunBye(c) \/ LinesDone(c)
  \/ CloseSocket(c) \/ ClearSlot(c)

Next ==
  \/ \E k \in Conns : Peer(k)
  \/ Serve \/ ThreadFails \/ LogFails
  \/ \E c \in Conns : Handle(c)

Spec == Init /\ [][Next]_vars

\* Each thread runs while it can, and a mutex that is free is not refused for
\* ever.  The peers owe nothing: they may stay silent and connected.
FairSpec == Spec /\ WF_vars(Serve) /\ \A c \in Conns : WF_vars(Handle(c))

-----------------------------------------------------------------------------
(***************************************************************************)
(* Properties                                                              *)
(***************************************************************************)
NetTypeOK ==
  /\ peer \in [Conns -> {"away", "open", "closed", "refusing", "reset"}]
  /\ left \in [Conns -> 0..MaxLines]
  /\ inbox \in [Conns -> Seq(Lines)]
  /\ backlog \in Seq(Conns)
KernelTypeOK == fdtab \in [Fds -> Conns \cup {NULL}] /\ socket \in [Conns -> {0} \cup Fds]
MainTypeOK ==
  /\ process \in {"up", "dead", "wild"} /\ maxClients \in Configured
  /\ mpc \in {"accept", "add", "ident"}
  /\ mcli \in IF mpc = "accept" THEN {NULL} ELSE Conns
ArrayTypeOK == mutex \in Conns \cup {NULL} /\ clients \in [Slots -> Conns \cup {NULL}]
ThreadTypeOK ==
  /\ pc \in [Conns -> {"none", "recv", "blocked", "run", "bye", "byeslot",
                       "remove", "slot", "ended"}]
  /\ wait \in [Conns -> Conns \cup {NULL}]
  /\ \A c \in Conns : pc[c] = "blocked" => wait[c] \in Conns
  /\ got \in [Conns -> Seq(Lines)]
HistoryTypeOK == said \subseteq Conns /\ late \subseteq Conns /\ touched \subseteq Conns \X Conns

\* The loops of add_client and remove_client leave the array only if maxClients
\* is larger than it is; config.c takes any number.
ArrayKept == process = "wild" => maxClients > ArraySize

\* Types, and the bounds of the array: a recv under way works on a connection,
\* and nothing but a maxClients larger than the array takes a loop out of it.
TypeOK ==
  /\ NetTypeOK /\ KernelTypeOK /\ MainTypeOK /\ ArrayTypeOK /\ ThreadTypeOK /\ HistoryTypeOK
  /\ ArrayKept

Alive(c) == pc[c] \notin {"none", "ended"}

\* Every open descriptor belongs to a handler thread that has not ended, whose
\* client_t holds its number and so will close it: the server leaks none, in
\* spite of the closes that hit a descriptor of somebody else.
DescriptorHasThread ==
  \A fd \in Fds : fdtab[fd] # NULL => socket[fdtab[fd]] = fd /\ Alive(fdtab[fd])

\* As long as nobody has said BYE, the threads keep to their own connections:
\* each reads the lines and writes the replies of the client it was made for.
IsolatedUntilBye == said = {} => \A p \in touched : p[1] = p[2]

\* A client occupies one slot of the array at most, so that remove_client,
\* which stops at the first, leaves none behind.
OneSlotEach == \A i, j \in Slots : clients[i] # NULL /\ clients[i] = clients[j] => i = j

\* A client whose thread has ended occupies an entry only if it was added after
\* that: remove_client, called in time, finds the entry wherever it is.
SlotsCleared == \A i \in Slots : clients[i] # NULL /\ pc[clients[i]] = "ended" => clients[i] \in late

Gone(k) == peer[k] \notin {"away", "open"}

\* When every peer is gone, every thread comes to its end and every descriptor
\* is closed (unless the process ends, or goes wild, first): no thread waits for ever for the
\* mutex, or in a recv on a descriptor that was closed under it.
Drains ==
  (\A k \in Conns : Gone(k))
    ~> \/ process # "up"
       \/ (\A fd \in Fds : fdtab[fd] = NULL) /\ (\A c \in Conns : pc[c] = "ended")

\* handle_client.c:70, "Lukk cli->socket hvis det er gyldig" (close cli->socket
\* if it is valid): remove_client never closes the connection of another client.
ClosesOwn ==
  [][\A c \in Conns : mutex = NULL /\ mutex' = c => Target(c) \in {c, NULL}]_vars

=============================================================================

------------------------- MODULE Connections_proofs -------------------------
(***************************************************************************)
(* Theorems about Connections, for any number of connections, descriptors  *)
(* and slots.                                                              *)
(***************************************************************************)
EXTENDS Connections, SequenceTheorems, TLAPS

\* A connection is accepted once: it joins the backlog once, and no thread has
\* been made for it while it waits there.
AcceptedOnce ==
  /\ \A i \in 1..Len(backlog) : pc[backlog[i]] = "none" /\ peer[backlog[i]] # "away"
  /\ \A i, j \in 1..Len(backlog) : backlog[i] = backlog[j] => i = j
  /\ \A c \in Conns : pc[c] # "none" => peer[c] # "away"

\* An open descriptor belongs to a thread that has not closed it yet.
Owned ==
  \A fd \in Fds : fdtab[fd] # NULL =>
    socket[fdtab[fd]] = fd /\ pc[fdtab[fd]] \notin {"none", "slot", "ended"}

\* The slots hold accepted clients, the one main is about to add not among them.
Registered ==
  \A i \in Slots : clients[i] # NULL =>
    pc[clients[i]] # "none" /\ ~(mpc = "add" /\ mcli = clients[i])

\* The client main is dealing with has its thread.
MainHasThread == mpc # "accept" => pc[mcli] # "none"

\* Before the first BYE: a thread that is not past its remove_client has its
\* own connection behind its descriptor, and main has that of mcli or none.
Isolated ==
  said = {} =>
    /\ \A c \in Conns : pc[c] \in {"recv", "blocked", "run", "remove"} => Target(c) = c
    /\ \A c \in Conns : pc[c] \notin {"bye", "byeslot"}
    /\ \A c \in Conns : pc[c] = "blocked" => wait[c] = c
    /\ mpc # "accept" => Target(mcli) \in {mcli, NULL}
    /\ \A p \in touched : p[1] = p[2]

\* Main adds to the entries it searches, so all that is in the array is there.
InReach == \A i \in Slots : clients[i] # NULL => i \in Searched

-----------------------------------------------------------------------------
(***************************************************************************)
(* Types                                                                   *)
(***************************************************************************)
LEMMA TypeInit == Init => TypeOK
<1> SUFFICES ASSUME Init PROVE TypeOK
  OBVIOUS
<1>1. NetTypeOK
  BY ConstantsOK DEF Init, NetTypeOK
<1>2. KernelTypeOK /\ MainTypeOK /\ ArrayTypeOK /\ ThreadTypeOK /\ HistoryTypeOK
  BY DEF Init, KernelTypeOK, MainTypeOK, ArrayTypeOK, ThreadTypeOK, HistoryTypeOK
<1>3. ArrayKept
  BY DEF Init, ArrayKept
<1> QED
  BY <1>1, <1>2, <1>3 DEF TypeOK

\* What a send may change.
LEMMA SendType ==
  ASSUME TypeOK, NEW c \in Conns, Send(c)
  PROVE  /\ peer' \in [Conns -> {"away", "open", "closed", "refusing", "reset"}]
         /\ process' \in {process, "dead"}
         /\ touched' \subseteq Conns \X Conns
         /\ touched' \subseteq touched \cup {<<c, Target(c)>>}
         /\ \A k \in Conns : peer'[k] = "away" <=> peer[k] = "away"
<1> USE DEF TypeOK, NetTypeOK, KernelTypeOK, MainTypeOK, HistoryTypeOK
<1>1. CASE Target(c) = NULL
  BY <1>1 DEF Send
<1>2. CASE Target(c) # NULL
  <2>1. Target(c) \in Conns
    BY <1>2 DEF Target
  <2>2. touched' = touched \cup {<<c, Target(c)>>}
    BY <1>2 DEF Send
  <2>3. \/ peer' = peer
        \/ peer' = [peer EXCEPT ![Target(c)] = "refusing"] /\ peer[Target(c)] = "closed"
    BY <1>2 DEF Send
  <2>4. process' \in {process, "dead"}
    BY <1>2 DEF Send
  <2>5. /\ peer' \in [Conns -> {"away", "open", "closed", "refusing", "reset"}]
        /\ \A k \in Conns : peer'[k] = "away" <=> peer[k] = "away"
    <3>1. CASE peer' = peer
      BY <3>1
    <3>2. CASE peer' = [peer EXCEPT ![Target(c)] = "refusing"] /\ peer[Target(c)] = "closed"
      BY <2>1, <3>2
    <3> QED
      BY <2>3, <3>1, <3>2
  <2>6. touched' \subseteq Conns \X Conns
    BY <2>1, <2>2
  <2> QED
    BY <2>2, <2>4, <2>5, <2>6
<1> QED
  BY <1>1, <1>2

LEMMA NetType == ASSUME TypeOK, [Next]_vars PROVE NetTypeOK'
<1> USE DEF TypeOK, NetTypeOK
<1>1. CASE UNCHANGED net
  BY <1>1 DEF net
<1>2. ASSUME NEW k \in Conns, Connect(k) PROVE NetTypeOK'
  BY <1>2 DEF Connect
<1>3. ASSUME NEW k \in Conns, NEW l \in Lines, SendLine(k, l) PROVE NetTypeOK'
  <2>1. left[k] - 1 \in 0..MaxLines
    BY <1>3, ConstantsOK DEF SendLine
  <2>2. Append(inbox[k], l) \in Seq(Lines)
    OBVIOUS
  <2> QED
    BY <1>3, <2>1, <2>2 DEF SendLine
<1>4. ASSUME NEW k \in Conns, PeerClose(k) \/ Reset(k) PROVE NetTypeOK'
  BY <1>4 DEF PeerClose, Reset
<1>5. CASE Accept
  BY <1>5 DEF Accept
<1>6. CASE SendIdent
  <2>1. mcli \in Conns
    BY <1>6 DEF SendIdent, MainTypeOK
  <2> QED
    BY <1>6, <2>1, SendType DEF SendIdent
<1>7. ASSUME NEW c \in Conns, Deliver(c) PROVE NetTypeOK'
  <2> DEFINE k == wait[c]
  <2>1. k \in Conns
    BY <1>7 DEF Deliver, At, ThreadTypeOK
  <2>2. PICK n \in 1..Len(inbox[k]) : inbox' = [inbox EXCEPT ![k] = SubSeq(@, n + 1, Len(@))]
    BY <1>7 DEF Deliver
  <2>3. SubSeq(inbox[k], n + 1, Len(inbox[k])) \in Seq(Lines)
    BY <2>1, <2>2
  <2> QED
    BY <1>7, <2>1, <2>2, <2>3 DEF Deliver
<1>8. ASSUME NEW c \in Conns, RunCommand(c) \/ RunBye(c) PROVE NetTypeOK'
  BY <1>8, SendType DEF RunCommand, RunBye
<1>9. \/ UNCHANGED net \/ Accept \/ SendIdent
      \/ \E k \in Conns : Connect(k) \/ (\E l \in Lines : SendLine(k, l)) \/ PeerClose(k) \/ Reset(k)
      \/ \E c \in Conns : Deliver(c) \/ RunCommand(c) \/ RunBye(c)
  BY DEF vars, Next, Peer, Serve, Handle, ThreadFails, LogFails, AddClient, BeginRecv, BadDescriptor,
     EndOfInput, LinesDone, CloseSocket, ClearSlot
<1> QED
  BY <1>1, <1>2, <1>3, <1>4, <1>5, <1>6, <1>7, <1>8, <1>9

\* Descriptors: opened by accept, closed by remove_client.
LEMMA KernelSteps ==
  ASSUME [Next]_vars
  PROVE  UNCHANGED <<fdtab, socket>> \/ Accept \/ \E c \in Conns : CloseSocket(c)
BY DEF vars, Next, Peer, Serve, Handle, Connect, SendLine, PeerClose, Reset, ThreadFails, LogFails,
   AddClient, SendIdent, BeginRecv, BadDescriptor, Deliver, EndOfInput, RunCommand, RunBye,
   LinesDone, ClearSlot

LEMMA KernelType == ASSUME TypeOK, [Next]_vars PROVE KernelTypeOK'
<1> USE DEF TypeOK, KernelTypeOK
<1>1. CASE UNCHANGED <<fdtab, socket>>
  BY <1>1
<1>2. CASE Accept
  <2>1. Head(backlog) \in Conns
    BY <1>2 DEF Accept, NetTypeOK
  <2> QED
    BY <1>2, <2>1 DEF Accept
<1>3. ASSUME NEW c \in Conns, CloseSocket(c) PROVE KernelTypeOK'
  BY <1>3 DEF CloseSocket, Close
<1> QED
  BY <1>1, <1>2, <1>3, KernelSteps

LEMMA MainType == ASSUME TypeOK, [Next]_vars PROVE MainTypeOK'
<1> USE DEF TypeOK, MainTypeOK
<1>1. CASE UNCHANGED <<accept, maxClients>> /\ process' \in {process, "dead", "wild"}
  BY <1>1 DEF accept
<1>2. CASE Accept
  <2>1. Head(backlog) \in Conns
    BY <1>2 DEF Accept, NetTypeOK
  <2> QED
    BY <1>2, <2>1 DEF Accept
<1>3. CASE AddClient
  <2>1. process' \in {process, "wild"}
    BY <1>3 DEF AddClient, RunsOff
  <2> QED
    BY <1>3, <2>1 DEF AddClient
<1>4. CASE SendIdent
  <2>1. mcli \in Conns
    BY <1>4 DEF SendIdent
  <2> QED
    BY <1>4, <2>1, SendType DEF SendIdent
<1>5. ASSUME NEW c \in Conns, RunCommand(c) \/ RunBye(c) PROVE MainTypeOK'
  BY <1>5, SendType DEF RunCommand, RunBye, accept
<1>6. \/ UNCHANGED <<accept, maxClients>> /\ process' \in {process, "dead", "wild"}
      \/ Accept \/ AddClient \/ SendIdent \/ \E c \in Conns : RunCommand(c) \/ RunBye(c)
  BY DEF vars, Next, Peer, Serve, Handle, Connect, SendLine, PeerClose, Reset, ThreadFails, LogFails,
     BeginRecv, BadDescriptor, Deliver, EndOfInput, LinesDone, CloseSocket, ClearSlot, RunsOff
<1> QED
  BY <1>1, <1>2, <1>3, <1>4, <1>5, <1>6

\* Only the two loops over the array can leave it, and only behind its last entry.
LEMMA ArrayKeptStep == ASSUME TypeOK, [Next]_vars PROVE ArrayKept'
<1> USE DEF ArrayKept
<1>1. maxClients' = maxClients
  BY DEF vars, Next, Peer, Serve, Handle, Connect, SendLine, PeerClose, Reset, ThreadFails, LogFails,
     Accept, AddClient, SendIdent, BeginRecv, BadDescriptor, Deliver, EndOfInput, RunCommand,
     RunBye, LinesDone, CloseSocket, ClearSlot
<1>2. SendIdent => mcli \in Conns
  BY DEF SendIdent, TypeOK, MainTypeOK
<1>3. \/ process' \in {process, "dead"} \/ RunsOff
      \/ SendIdent \/ \E c \in Conns : RunCommand(c) \/ RunBye(c)
  BY DEF vars, Next, Peer, Serve, Handle, Connect, SendLine, PeerClose, Reset, ThreadFails, LogFails,
     Accept, AddClient, BeginRecv, BadDescriptor, Deliver, EndOfInput, LinesDone, CloseSocket,
     ClearSlot
<1>4. SendIdent \/ (\E c \in Conns : RunCommand(c) \/ RunBye(c)) => process' \in {process, "dead"}
  BY <1>2, SendType DEF SendIdent, RunCommand, RunBye
<1> QED
  BY <1>1, <1>3, <1>4 DEF RunsOff, TypeOK

LEMMA ArraySteps ==
  ASSUME [Next]_vars
  PROVE  \/ UNCHANGED <<mutex, clients>> \/ AddClient
         \/ \E c \in Conns : CloseSocket(c) \/ ClearSlot(c)
BY DEF vars, Next, Peer, Serve, Handle, Connect, SendLine, PeerClose, Reset, ThreadFails, LogFails,
   Accept, SendIdent, BeginRecv, BadDescriptor, Deliver, EndOfInput, RunCommand, RunBye, LinesDone

LEMMA ArrayType == ASSUME TypeOK, [Next]_vars PROVE ArrayTypeOK'
<1> USE DEF TypeOK, ArrayTypeOK
<1>1. CASE UNCHANGED <<mutex, clients>>
  BY <1>1
<1>2. CASE AddClient
  BY <1>2 DEF AddClient, MainTypeOK, Searched
<1>3. ASSUME NEW c \in Conns, CloseSocket(c) \/ ClearSlot(c) PROVE ArrayTypeOK'
  BY <1>3 DEF CloseSocket, ClearSlot
<1> QED
  BY <1>1, <1>2, <1>3, ArraySteps

\* The handler threads.
LEMMA ThreadType == ASSUME TypeOK, [Next]_vars PROVE ThreadTypeOK'
<1> USE DEF TypeOK, ThreadTypeOK
<1>1. CASE UNCHANGED <<pc, wait, got>>
  BY <1>1
<1>2. CASE Accept
  BY <1>2 DEF Accept, Goto, NetTypeOK
<1>3. ASSUME NEW c \in Conns, BeginRecv(c) PROVE ThreadTypeOK'
  <2>1. Target(c) \in Conns
    BY <1>3 DEF BeginRecv, Target, KernelTypeOK
  <2> QED
    BY <1>3, <2>1 DEF BeginRecv, Goto
<1>4. ASSUME NEW c \in Conns, Deliver(c) PROVE ThreadTypeOK'
  <2> DEFINE k == wait[c]
  <2>1. k \in Conns /\ inbox[k] \in Seq(Lines)
    BY <1>4 DEF Deliver, At, NetTypeOK
  <2>2. PICK n \in 1..Len(inbox[k]) : got' = [got EXCEPT ![c] = SubSeq(inbox[k], 1, n)]
    BY <1>4 DEF Deliver
  <2>3. SubSeq(inbox[k], 1, n) \in Seq(Lines)
    BY <2>1, <2>2
  <2>4. got' \in [Conns -> Seq(Lines)]
    BY <2>2, <2>3
  <2> QED
    BY <1>4, <2>4 DEF Deliver, Goto
<1>5. ASSUME NEW c \in Conns, BadDescriptor(c) \/ EndOfInput(c) PROVE ThreadTypeOK'
  BY <1>5 DEF BadDescriptor, EndOfInput, Goto
<1>6. ASSUME NEW c \in Conns, RunCommand(c) \/ RunBye(c) PROVE ThreadTypeOK'
  <2>1. Tail(got[c]) \in Seq(Lines)
    BY <1>6 DEF RunCommand, RunBye
  <2>2. CASE RunCommand(c)
    BY <2>1, <2>2 DEF RunCommand
  <2>3. CASE RunBye(c)
    BY <2>1, <2>3 DEF RunBye, Goto
  <2> QED
    BY <1>6, <2>2, <2>3
<1>7. ASSUME NEW c \in Conns, LinesDone(c) \/ CloseSocket(c) \/ ClearSlot(c) PROVE ThreadTypeOK'
  BY <1>7 DEF LinesDone, CloseSocket, ClearSlot, AfterSlot, Goto
<1>8. \/ UNCHANGED <<pc, wait, got>> \/ Accept
      \/ \E c \in Conns : \/ BeginRecv(c) \/ BadDescriptor(c) \/ Deliver(c) \/ EndOfInput(c)
                          \/ RunCommand(c) \/ RunBye(c) \/ LinesDone(c)
                          \/ CloseSocket(c) \/ ClearSlot(c)
  BY DEF vars, Next, Peer, Serve, Handle, Connect, SendLine, PeerClose, Reset, ThreadFails, LogFails,
     AddClient, SendIdent
<1> QED
  BY <1>1, <1>2, <1>3, <1>4, <1>5, <1>6, <1>7, <1>8

LEMMA HistorySteps ==
  ASSUME [Next]_vars
  PROVE  \/ UNCHANGED ghosts \/ SendIdent \/ AddClient
         \/ \E c \in Conns : Deliver(c) \/ RunCommand(c) \/ RunBye(c)
BY DEF vars, ghosts, Next, Peer, Serve, Handle, Connect, SendLine, PeerClose, Reset,
   ThreadFails, LogFails, Accept, BeginRecv, BadDescriptor, EndOfInput, LinesDone,
   CloseSocket, ClearSlot

LEMMA HistoryType == ASSUME TypeOK, [Next]_vars PROVE HistoryTypeOK'
<1> USE DEF TypeOK, HistoryTypeOK
<1>1. CASE UNCHANGED ghosts
  BY <1>1 DEF ghosts
<1>2. CASE SendIdent
  BY <1>2, SendType DEF SendIdent, MainTypeOK
<1>3. ASSUME NEW c \in Conns, Deliver(c) PROVE HistoryTypeOK'
  BY <1>3 DEF Deliver, At, ThreadTypeOK
<1>4. ASSUME NEW c \in Conns, RunCommand(c) \/ RunBye(c) PROVE HistoryTypeOK'
  BY <1>4, SendType DEF RunCommand, RunBye
<1>5. CASE AddClient
  BY <1>5 DEF AddClient, Added, MainTypeOK
<1> QED
  BY <1>1, <1>2, <1>3, <1>4, <1>5, HistorySteps

LEMMA TypeStep == ASSUME TypeOK, [Next]_vars PROVE TypeOK'
BY NetType, KernelType, MainType, ArrayType, ThreadType, HistoryType, ArrayKeptStep DEF TypeOK

-----------------------------------------------------------------------------
(***************************************************************************)
(* The descriptors                                                         *)
(***************************************************************************)
\* A thread is made by Accept, for the oldest connection of the backlog; every
\* other step keeps those that are not made that way, and those that are.
LEMMA ThreadsMade ==
  ASSUME TypeOK, [Next]_vars, ~Accept, NEW c \in Conns
  PROVE  pc'[c] = "none" <=> pc[c] = "none"
<1>1. CASE pc' = pc
  BY <1>1
<1>2. ASSUME NEW d \in Conns, Handle(d) PROVE pc'[c] = "none" <=> pc[c] = "none"
  <2>1. pc[d] # "none"
    BY <1>2 DEF Handle, BeginRecv, BadDescriptor, Deliver, EndOfInput, RunCommand, RunBye,
       LinesDone, CloseSocket, ClearSlot, At
  <2>2. pc' = pc \/ \E l : l # "none" /\ pc' = [pc EXCEPT ![d] = l]
    BY <1>2 DEF Handle, BeginRecv, BadDescriptor, Deliver, EndOfInput, RunCommand, RunBye,
       LinesDone, CloseSocket, ClearSlot, AfterSlot, Goto
  <2> QED
    BY <2>1, <2>2 DEF TypeOK, ThreadTypeOK
<1>3. pc' = pc \/ \E d \in Conns : Handle(d)
  BY DEF vars, Next, Peer, Serve, Connect, SendLine, PeerClose, Reset, ThreadFails, LogFails, AddClient,
     SendIdent
<1> QED
  BY <1>1, <1>2, <1>3

LEMMA PeersKept ==
  ASSUME TypeOK, [Next]_vars, NEW c \in Conns, peer[c] # "away"
  PROVE  peer'[c] # "away"
<1> USE DEF TypeOK, NetTypeOK
<1>1. CASE peer' = peer
  BY <1>1
<1>2. ASSUME NEW k \in Conns, Connect(k) \/ PeerClose(k) \/ Reset(k) PROVE peer'[c] # "away"
  BY <1>2 DEF Connect, PeerClose, Reset
<1>3. ASSUME NEW d \in Conns, Send(d) PROVE peer'[c] # "away"
  BY <1>3, SendType
<1>4. SendIdent => mcli \in Conns
  BY DEF SendIdent, MainTypeOK
<1>5. \/ peer' = peer \/ SendIdent \/ \E d \in Conns : Send(d)
      \/ \E k \in Conns : Connect(k) \/ PeerClose(k) \/ Reset(k)
  BY DEF vars, net, Next, Peer, Serve, Handle, SendLine, ThreadFails, LogFails, Accept, AddClient,
     BeginRecv, BadDescriptor, Deliver, EndOfInput, RunCommand, RunBye, LinesDone,
     CloseSocket, ClearSlot
<1> QED
  BY <1>1, <1>2, <1>3, <1>4, <1>5 DEF SendIdent

LEMMA AcceptedOnceStep == ASSUME TypeOK, AcceptedOnce, [Next]_vars PROVE AcceptedOnce'
<1> USE DEF AcceptedOnce
<1>1. CASE Accept
  <2> DEFINE c == Head(backlog)
  <2>1. backlog \in Seq(Conns) /\ backlog # <<>>
    BY <1>1 DEF Accept, TypeOK, NetTypeOK
  <2>2. Len(backlog') = Len(backlog) - 1 /\ Len(backlog) \in Nat /\ Len(backlog) # 0
    BY <1>1, <2>1 DEF Accept
  <2>3. \A i \in 1..Len(backlog') : backlog'[i] = backlog[i + 1]
    BY <1>1, <2>1 DEF Accept
  <2>4. c = backlog[1] /\ c \in Conns
    BY <2>1
  <2>5. pc' = [pc EXCEPT ![c] = "recv"] /\ peer' = peer
    BY <1>1 DEF Accept, Goto
  <2>6. \A i, j \in 1..Len(backlog') : backlog'[i] = backlog'[j] => i = j
    BY <2>2, <2>3
  <2>7. \A i \in 1..Len(backlog') : backlog'[i] # c
    BY <2>2, <2>3, <2>4
  <2>8. \A i \in 1..Len(backlog') : pc'[backlog'[i]] = "none" /\ peer'[backlog'[i]] # "away"
    <3> SUFFICES ASSUME NEW i \in 1..Len(backlog')
                 PROVE  pc'[backlog'[i]] = "none" /\ peer'[backlog'[i]] # "away"
      OBVIOUS
    <3>1. i + 1 \in 1..Len(backlog) /\ backlog'[i] = backlog[i + 1] /\ backlog'[i] # c
      BY <2>2, <2>3, <2>7
    <3>2. backlog[i + 1] \in Conns /\ pc[backlog[i + 1]] = "none" /\ peer[backlog[i + 1]] # "away"
      BY <2>1, <3>1
    <3> QED
      BY <2>5, <3>1, <3>2 DEF TypeOK, ThreadTypeOK
  <2>9. \A d \in Conns : pc'[d] # "none" => peer'[d] # "away"
    BY <2>2, <2>4, <2>5 DEF TypeOK, ThreadTypeOK
  <2> QED
    BY <2>6, <2>8, <2>9
<1>2. ASSUME NEW k \in Conns, Connect(k) PROVE AcceptedOnce'
  <2>1. backlog \in Seq(Conns) /\ Len(backlog) \in Nat
    BY DEF TypeOK, NetTypeOK
  <2>2. /\ Len(backlog') = Len(backlog) + 1
        /\ \A i \in 1..Len(backlog) : backlog'[i] = backlog[i]
        /\ backlog'[Len(backlog) + 1] = k
    BY <1>2, <2>1 DEF Connect
  <2>3. \A i \in 1..Len(backlog) : backlog[i] # k
    BY <1>2 DEF Connect
  <2>4. peer' = [peer EXCEPT ![k] = "open"] /\ pc' = pc /\ pc[k] = "none"
    BY <1>2 DEF Connect
  <2>5. \A i \in 1..Len(backlog') : i \in 1..Len(backlog) \/ i = Len(backlog) + 1
    BY <2>1, <2>2
  <2>6. \A i, j \in 1..Len(backlog') : backlog'[i] = backlog'[j] => i = j
    BY <2>2, <2>3, <2>5
  <2>7. \A i \in 1..Len(backlog') : pc'[backlog'[i]] = "none" /\ peer'[backlog'[i]] # "away"
    <3> SUFFICES ASSUME NEW i \in 1..Len(backlog')
                 PROVE  pc'[backlog'[i]] = "none" /\ peer'[backlog'[i]] # "away"
      OBVIOUS
    <3>1. CASE i \in 1..Len(backlog)
      <4>1. backlog[i] \in Conns /\ backlog'[i] = backlog[i] /\ backlog[i] # k
        BY <2>1, <2>2, <2>3, <3>1
      <4>2. pc[backlog[i]] = "none" /\ peer[backlog[i]] # "away"
        BY <3>1
      <4> QED
        BY <2>4, <4>1, <4>2 DEF TypeOK, NetTypeOK
    <3>2. CASE i = Len(backlog) + 1
      BY <2>2, <2>4, <3>2 DEF TypeOK, NetTypeOK
    <3> QED
      BY <2>5, <3>1, <3>2
  <2>8. \A d \in Conns : pc'[d] # "none" => peer'[d] # "away"
    BY <2>4 DEF TypeOK, NetTypeOK
  <2> QED
    BY <2>6, <2>7, <2>8
<1>3. CASE ~Accept /\ backlog' = backlog
  <2>1. \A i \in 1..Len(backlog) : backlog[i] \in Conns
    BY DEF TypeOK, NetTypeOK
  <2> QED
    BY <1>3, <2>1, ThreadsMade, PeersKept
<1>4. Accept \/ backlog' = backlog \/ \E k \in Conns : Connect(k)
  BY DEF vars, net, Next, Peer, Serve, Handle, SendLine, PeerClose, Reset, ThreadFails, LogFails,
     AddClient, SendIdent, BeginRecv, BadDescriptor, Deliver, EndOfInput, RunCommand, RunBye,
     LinesDone, CloseSocket, ClearSlot
<1> QED
  BY <1>1, <1>2, <1>3, <1>4

\* Accept gives a descriptor to a connection that has none; a thread that
\* passes remove_client has lost its descriptor, to itself or to another.
LEMMA OwnedStep == ASSUME TypeOK, AcceptedOnce, Owned, [Next]_vars PROVE Owned'
<1> SUFFICES ASSUME NEW fd \in Fds, fdtab'[fd] # NULL
             PROVE  /\ socket'[fdtab'[fd]] = fd
                    /\ pc'[fdtab'[fd]] \notin {"none", "slot", "ended"}
  BY DEF Owned
<1> USE DEF TypeOK, KernelTypeOK, ThreadTypeOK
<1>1. CASE Accept
  <2> DEFINE c == Head(backlog)
  <2>1. c \in Conns /\ pc[c] = "none"
    BY <1>1 DEF Accept, AcceptedOnce, NetTypeOK
  <2>2. PICK e \in Fds : /\ fdtab' = [fdtab EXCEPT ![e] = c]
                         /\ socket' = [socket EXCEPT ![c] = e]
    BY <1>1 DEF Accept
  <2>3. pc' = [pc EXCEPT ![c] = "recv"]
    BY <1>1 DEF Accept, Goto
  <2>4. CASE fd = e
    BY <2>1, <2>2, <2>3, <2>4
  <2>5. CASE fd # e
    <3>1. fdtab'[fd] = fdtab[fd] /\ fdtab[fd] \in Conns
      BY <2>2, <2>5
    <3>2. fdtab[fd] # c
      BY <2>1, <3>1 DEF Owned
    <3> QED
      BY <2>2, <2>3, <3>1, <3>2 DEF Owned
  <2> QED
    BY <2>4, <2>5
<1>2. ASSUME NEW c \in Conns, CloseSocket(c)
      PROVE  /\ socket'[fdtab'[fd]] = fd
             /\ pc'[fdtab'[fd]] \notin {"none", "slot", "ended"}
  <2>1. fdtab' = [fdtab EXCEPT ![socket[c]] = NULL] /\ socket' = socket
    BY <1>2 DEF CloseSocket, Close
  <2>2. fd # socket[c] /\ fdtab'[fd] = fdtab[fd]
    BY <2>1
  <2>3. fdtab[fd] # c
    BY <2>2 DEF Owned
  <2>4. pc'[fdtab[fd]] = pc[fdtab[fd]]
    BY <1>2, <2>2, <2>3 DEF CloseSocket, Goto
  <2> QED
    BY <2>1, <2>2, <2>4 DEF Owned
<1>3. CASE UNCHANGED <<fdtab, socket>> /\ ~Accept
  <2> DEFINE k == fdtab[fd]
  <2>1. k \in Conns /\ socket[k] = fd /\ pc[k] \notin {"none", "slot", "ended"}
    BY <1>3 DEF Owned
  <2>2. CASE pc' = pc
    BY <1>3, <2>1, <2>2
  <2>3. ASSUME NEW d \in Conns, Handle(d), ~CloseSocket(d)
        PROVE  pc'[k] \notin {"none", "slot", "ended"}
    <3>1. CASE ClearSlot(d)
      <4>1. pc[d] = "slot" => d # k
        BY <2>1
      <4> QED
        BY <2>1, <3>1, <4>1 DEF ClearSlot, AfterSlot, Goto
    <3>2. CASE ~ClearSlot(d)
      <4>1. \E l \in {"blocked", "remove", "run", "bye", "recv"} :
               pc' = pc \/ pc' = [pc EXCEPT ![d] = l]
        BY <2>3, <3>2 DEF Handle, BeginRecv, BadDescriptor, Deliver, EndOfInput, RunCommand,
           RunBye, LinesDone, Goto
      <4> QED
        BY <2>1, <4>1
    <3> QED
      BY <3>1, <3>2
  <2>4. ASSUME NEW d \in Conns, CloseSocket(d) PROVE pc'[k] \notin {"none", "slot", "ended"}
    <3>1. fdtab'[socket[d]] = NULL \/ socket[d] \notin Fds
      BY <2>4 DEF CloseSocket, Close
    <3>2. d # k
      BY <1>3, <2>1, <3>1
    <3> QED
      BY <2>1, <2>4, <3>2 DEF CloseSocket, Goto
  <2>5. pc' = pc \/ \E d \in Conns : Handle(d)
    BY <1>3 DEF vars, Next, Peer, Serve, Connect, SendLine, PeerClose, Reset, ThreadFails, LogFails,
       AddClient, SendIdent
  <2> QED
    BY <1>3, <2>1, <2>2, <2>3, <2>4, <2>5
<1> QED
  BY <1>1, <1>2, <1>3, KernelSteps

-----------------------------------------------------------------------------
(***************************************************************************)
(* The slots                                                               *)
(***************************************************************************)
LEMMA SlotsStep ==
  ASSUME TypeOK, AcceptedOnce, MainHasThread, Registered, OneSlotEach, [Next]_vars
  PROVE  Registered' /\ OneSlotEach'
<1> USE DEF TypeOK, ArrayTypeOK, MainTypeOK
<1>1. CASE AddClient
  <2>1. \A i \in Slots : clients[i] # NULL => clients[i] # mcli
    BY <1>1 DEF AddClient, Registered
  <2>2. mcli \in Conns /\ mpc' = "ident" /\ pc' = pc
    BY <1>1 DEF AddClient
  <2>3. CASE clients' = clients
    BY <2>2, <2>3 DEF Registered, OneSlotEach
  <2>4. ASSUME NEW i \in Slots, clients[i] = NULL, clients' = [clients EXCEPT ![i] = mcli]
        PROVE  Registered' /\ OneSlotEach'
    <3>1. pc[mcli] # "none"
      BY <1>1 DEF AddClient, MainHasThread
    <3> QED
      BY <2>1, <2>2, <2>4, <3>1 DEF Registered, OneSlotEach
  <2> QED
    BY <1>1, <2>3, <2>4 DEF AddClient
<1>2. CASE Accept
  <2> DEFINE c == Head(backlog)
  <2>1. c \in Conns /\ pc[c] = "none"
    BY <1>2 DEF Accept, AcceptedOnce, NetTypeOK
  <2>2. clients' = clients /\ mcli' = c /\ pc' = [pc EXCEPT ![c] = "recv"]
    BY <1>2 DEF Accept, Goto
  <2> QED
    BY <2>1, <2>2 DEF Registered, OneSlotEach, ThreadTypeOK
<1>3. CASE ~Accept /\ ~AddClient
  <2>1. \A i \in Slots : clients'[i] # NULL => clients'[i] = clients[i]
    BY <1>3, ArraySteps DEF CloseSocket, ClearSlot
  <2>2. mpc' = "add" => mpc = "add" /\ mcli' = mcli
    BY <1>3 DEF vars, accept, Next, Peer, Serve, Handle, Connect, SendLine, PeerClose, Reset,
       ThreadFails, LogFails, SendIdent, BeginRecv, BadDescriptor, Deliver, EndOfInput, RunCommand,
       RunBye, LinesDone, CloseSocket, ClearSlot
  <2>3. \A c \in Conns : pc[c] # "none" => pc'[c] # "none"
    BY <1>3, ThreadsMade
  <2> QED
    BY <2>1, <2>2, <2>3 DEF Registered, OneSlotEach
<1> QED
  BY <1>1, <1>2, <1>3

\* Main adds within the entries it searches, and maxClients never changes.
LEMMA InReachStep == ASSUME TypeOK, InReach, [Next]_vars PROVE InReach'
<1> USE DEF TypeOK, ArrayTypeOK, InReach
<1>1. Searched' = Searched
  BY DEF Searched, vars, Next, Peer, Serve, Handle, Connect, SendLine, PeerClose, Reset, ThreadFails,
     LogFails, Accept, AddClient, SendIdent, BeginRecv, BadDescriptor, Deliver, EndOfInput,
     RunCommand, RunBye, LinesDone, CloseSocket, ClearSlot
<1>2. CASE AddClient
  BY <1>1, <1>2 DEF AddClient
<1>3. CASE ~AddClient
  <2>1. \A i \in Slots : clients'[i] # NULL => clients'[i] = clients[i]
    BY <1>3, ArraySteps DEF CloseSocket, ClearSlot
  <2> QED
    BY <1>1, <2>1
<1> QED
  BY <1>2, <1>3

\* A thread ends when its remove_client has cleared the one entry it may have.
LEMMA SlotsClearedStep ==
  ASSUME TypeOK, InReach, OneSlotEach, SlotsCleared, [Next]_vars PROVE SlotsCleared'
<1> USE DEF TypeOK, ArrayTypeOK, ThreadTypeOK, MainTypeOK, SlotsCleared
<1>1. late \subseteq late'
  BY HistorySteps DEF ghosts, SendIdent, AddClient, Added, Deliver, RunCommand, RunBye
<1>2. CASE AddClient
  <2>1. mcli \in Conns /\ pc' = pc
    BY <1>2 DEF AddClient
  <2>2. pc[mcli] = "ended" => mcli \in late'
    BY <1>2 DEF AddClient, Added
  <2>3. \A i \in Slots : clients'[i] = clients[i] \/ clients'[i] = mcli
    BY <1>2 DEF AddClient
  <2> QED
    BY <1>1, <2>1, <2>2, <2>3
<1>3. ASSUME NEW c \in Conns, ClearSlot(c) PROVE SlotsCleared'
  <2>1. pc' = [pc EXCEPT ![c] = "run"] \/ pc' = [pc EXCEPT ![c] = "ended"]
    BY <1>3 DEF ClearSlot, AfterSlot, Goto
  <2>2. \A i \in Slots : clients'[i] # NULL => clients'[i] = clients[i] /\ clients[i] # c
    <3>1. CASE clients' = clients /\ \A i \in Searched : clients[i] # c
      BY <3>1, ConstantsOK DEF InReach
    <3>2. ASSUME NEW i \in Slots, clients[i] = c, clients' = [clients EXCEPT ![i] = NULL]
          PROVE  \A j \in Slots : clients'[j] # NULL => clients'[j] = clients[j] /\ clients[j] # c
      BY <3>2, ConstantsOK DEF OneSlotEach
    <3> QED
      BY <1>3, <3>1, <3>2 DEF ClearSlot, Searched
  <2> QED
    BY <1>1, <2>1, <2>2
<1>4. CASE ~AddClient /\ \A c \in Conns : ~ClearSlot(c)
  <2>1. clients' = clients
    BY <1>4, ArraySteps DEF CloseSocket
  <2>2. \/ pc' = pc
        \/ \E c \in Conns, l \in {"recv", "blocked", "run", "bye", "byeslot", "remove", "slot"} :
             pc' = [pc EXCEPT ![c] = l]
    <3>1. CASE Accept
      <4>1. Head(backlog) \in Conns
        BY <3>1 DEF Accept, NetTypeOK
      <4> QED
        BY <3>1, <4>1 DEF Accept, Goto
    <3>2. ASSUME NEW c \in Conns, Handle(c)
          PROVE  pc' = pc \/ \E l \in {"recv", "blocked", "run", "bye", "byeslot", "remove", "slot"} :
                                pc' = [pc EXCEPT ![c] = l]
      <4>1. CASE CloseSocket(c)
        BY <4>1 DEF CloseSocket, Goto
      <4>2. CASE ~CloseSocket(c)
        BY <1>4, <3>2, <4>2 DEF Handle, BeginRecv, BadDescriptor, Deliver, EndOfInput, RunCommand,
           RunBye, LinesDone, Goto
      <4> QED
        BY <4>1, <4>2
    <3>3. pc' = pc \/ Accept \/ \E c \in Conns : Handle(c)
      BY <1>4 DEF vars, Next, Peer, Serve, Connect, SendLine, PeerClose, Reset, ThreadFails, LogFails,
         SendIdent
    <3> QED
      BY <3>1, <3>2, <3>3
  <2> QED
    BY <1>1, <2>1, <2>2
<1> QED
  BY <1>2, <1>3, <1>4

LEMMA MainHasThreadStep == ASSUME TypeOK, AcceptedOnce, MainHasThread, [Next]_vars PROVE MainHasThread'
<1> USE DEF TypeOK, MainTypeOK, ThreadTypeOK
<1>1. CASE Accept
  <2>1. Head(backlog) \in Conns
    BY <1>1 DEF Accept, NetTypeOK
  <2> QED
    BY <1>1, <2>1 DEF Accept, Goto, MainHasThread
<1>2. CASE ~Accept /\ mcli' = mcli /\ (mpc' # "accept" => mpc # "accept")
  BY <1>2, ThreadsMade DEF MainHasThread
<1>3. CASE SendIdent
  BY <1>3 DEF SendIdent, MainHasThread
<1>4. Accept \/ SendIdent \/ (mcli' = mcli /\ (mpc' # "accept" => mpc # "accept"))
  BY DEF vars, accept, Next, Peer, Serve, Handle, Connect, SendLine, PeerClose, Reset,
     ThreadFails, LogFails, AddClient, BeginRecv, BadDescriptor, Deliver, EndOfInput, RunCommand,
     RunBye, LinesDone, CloseSocket, ClearSlot
<1> QED
  BY <1>1, <1>2, <1>3, <1>4

-----------------------------------------------------------------------------
(***************************************************************************)
(* Isolation                                                               *)
(***************************************************************************)
\* Accept hands out a free descriptor, so it takes nobody's.
LEMMA IsolatedAccept == ASSUME TypeOK, AcceptedOnce, Isolated, Accept PROVE Isolated'
<1> USE DEF TypeOK, KernelTypeOK, ThreadTypeOK, MainTypeOK
<1>1. PICK c \in Conns : c = Head(backlog) /\ pc[c] = "none"
  BY DEF Accept, AcceptedOnce, NetTypeOK
<1>2. PICK e \in Fds : /\ fdtab[e] = NULL
                       /\ fdtab' = [fdtab EXCEPT ![e] = c]
                       /\ socket' = [socket EXCEPT ![c] = e]
  BY <1>1 DEF Accept
<1>3. pc' = [pc EXCEPT ![c] = "recv"] /\ mcli' = c /\ wait' = wait /\ touched' = touched /\ said' = said
  BY <1>1 DEF Accept, Goto, ghosts
<1>4. Target(c)' = c /\ Target(mcli)' = mcli'
  BY <1>2, <1>3 DEF Target
<1>5. ASSUME NEW d \in Conns, d # c, Target(d) = d PROVE Target(d)' = d
  <2>1. socket[d] # e /\ socket'[d] = socket[d]
    BY <1>2, <1>5, ConstantsOK DEF Target
  <2> QED
    BY <1>2, <1>5, <2>1 DEF Target
<1> SUFFICES ASSUME said = {} PROVE Isolated'
  BY <1>3 DEF Isolated
<1>6. \A d \in Conns : pc'[d] \in {"recv", "blocked", "run", "remove"} => Target(d)' = d
  BY <1>3, <1>4, <1>5 DEF Isolated
<1>7. \A d \in Conns : pc'[d] \notin {"bye", "byeslot"} /\ (pc'[d] = "blocked" => wait'[d] = d)
  BY <1>3 DEF Isolated
<1>8. \A p \in touched' : p[1] = p[2]
  BY <1>3 DEF Isolated
<1> QED
  BY <1>4, <1>6, <1>7, <1>8 DEF Isolated

\* Without a BYE, remove_client closes the descriptor of its own client.
LEMMA IsolatedClose ==
  ASSUME TypeOK, Isolated, NEW c \in Conns, CloseSocket(c) PROVE Isolated'
<1> USE DEF TypeOK, KernelTypeOK, ThreadTypeOK
<1> SUFFICES ASSUME said = {} PROVE Isolated'
  BY DEF CloseSocket, ghosts, Isolated
<1>1. pc[c] = "remove" /\ Target(c) = c
  BY DEF CloseSocket, Isolated
<1>2. fdtab' = [fdtab EXCEPT ![socket[c]] = NULL] /\ socket' = socket
  BY DEF CloseSocket, Close
<1>3. pc' = [pc EXCEPT ![c] = "slot"]
  BY <1>1 DEF CloseSocket, Goto
<1>4. UNCHANGED <<wait, touched, said, mpc, mcli>>
  BY DEF CloseSocket, ghosts, accept
<1>5. ASSUME NEW d \in Conns PROVE Target(d)' \in {Target(d), NULL}
  BY <1>2 DEF Target
<1>6. ASSUME NEW d \in Conns, d # c, Target(d) = d PROVE Target(d)' = d
  <2>1. socket[d] # socket[c]
    BY <1>1, <1>6 DEF Target
  <2> QED
    BY <1>2, <1>6, <2>1 DEF Target
<1>7. \A d \in Conns : pc'[d] \in {"recv", "blocked", "run", "remove"} => Target(d)' = d
  BY <1>3, <1>6 DEF Isolated
<1>8. \A d \in Conns : pc'[d] \notin {"bye", "byeslot"} /\ (pc'[d] = "blocked" => wait'[d] = d)
  BY <1>3, <1>4 DEF Isolated
<1>9. mpc' # "accept" => Target(mcli)' \in {mcli, NULL}
  BY <1>4, <1>5 DEF Isolated, MainTypeOK
<1> QED
  BY <1>4, <1>7, <1>8, <1>9 DEF Isolated

\* The other steps leave the descriptors alone.  A thread reads and writes the
\* connection its number refers to, or the one its recv found.
LEMMA IsolatedStep ==
  ASSUME TypeOK, AcceptedOnce, Isolated, [Next]_vars PROVE Isolated'
<1> USE DEF TypeOK, ThreadTypeOK, MainTypeOK
<1> SUFFICES ASSUME ~Accept, \A c \in Conns : ~CloseSocket(c) PROVE Isolated'
  BY IsolatedAccept, IsolatedClose
<1>1. fdtab' = fdtab /\ socket' = socket
  BY KernelSteps
<1>2. \A c \in Conns : Target(c)' = Target(c)
  BY <1>1 DEF Target
<1> SUFFICES ASSUME said' = {} PROVE Isolated'
  BY DEF Isolated
<1>3. said = {}
  BY HistorySteps DEF ghosts, SendIdent, AddClient, Deliver, RunCommand, RunBye
<1>4. /\ \A c \in Conns : pc[c] \in {"recv", "blocked", "run", "remove"} => Target(c) = c
      /\ \A c \in Conns : pc[c] \notin {"bye", "byeslot"}
      /\ \A c \in Conns : pc[c] = "blocked" => wait[c] = c
      /\ mpc # "accept" => Target(mcli) \in {mcli, NULL}
      /\ \A p \in touched : p[1] = p[2]
  BY <1>3 DEF Isolated
<1>5. mpc' # "accept" => Target(mcli)' \in {mcli', NULL}
  <2>1. mpc' # "accept" => mpc # "accept" /\ mcli' = mcli
    BY DEF vars, accept, Next, Peer, Serve, Handle, Connect, SendLine, PeerClose, Reset,
       ThreadFails, LogFails, AddClient, SendIdent, BeginRecv, BadDescriptor, Deliver, EndOfInput,
       RunCommand, RunBye, LinesDone, CloseSocket, ClearSlot
  <2> QED
    BY <1>1, <1>4, <2>1 DEF Target
<1>6. \A p \in touched' : p[1] = p[2]
  <2>1. CASE UNCHANGED ghosts \/ AddClient
    BY <1>4, <2>1 DEF ghosts, AddClient
  <2>2. CASE SendIdent
    <3>1. mcli \in Conns /\ (Send(mcli) => Target(mcli) \in {mcli, NULL})
      BY <1>4, <2>2 DEF SendIdent
    <3>2. touched' = touched \/ touched' = touched \cup {<<mcli, mcli>>}
      BY <2>2, <3>1 DEF SendIdent, Send
    <3> QED
      BY <1>4, <3>2
  <2>3. ASSUME NEW c \in Conns, Deliver(c) PROVE \A p \in touched' : p[1] = p[2]
    BY <1>4, <2>3 DEF Deliver, At
  <2>4. ASSUME NEW c \in Conns, RunCommand(c) PROVE \A p \in touched' : p[1] = p[2]
    <3>1. Target(c) = c
      BY <1>4, <2>4 DEF RunCommand, At
    <3>2. touched' = touched \/ touched' = touched \cup {<<c, c>>}
      BY <2>4, <3>1 DEF RunCommand, Send
    <3> QED
      BY <1>4, <3>2
  <2>5. \A c \in Conns : ~RunBye(c)
    BY <1>3 DEF RunBye
  <2> QED
    BY <2>1, <2>2, <2>3, <2>4, <2>5, HistorySteps
<1>7. \A c \in Conns :
        /\ pc'[c] \in {"recv", "blocked", "run", "remove"} => Target(c) = c
        /\ pc'[c] \notin {"bye", "byeslot"}
        /\ pc'[c] = "blocked" => wait'[c] = c
  <2> SUFFICES ASSUME NEW c \in Conns
               PROVE  /\ pc'[c] \in {"recv", "blocked", "run", "remove"} => Target(c) = c
                      /\ pc'[c] \notin {"bye", "byeslot"}
                      /\ pc'[c] = "blocked" => wait'[c] = c
    OBVIOUS
  <2>1. CASE UNCHANGED <<pc, wait>>
    BY <1>4, <2>1
  <2>2. ASSUME NEW d \in Conns, BeginRecv(d) \/ BadDescriptor(d) \/ Deliver(d) \/ EndOfInput(d)
                                  \/ LinesDone(d)
        PROVE  /\ pc'[c] \in {"recv", "blocked", "run", "remove"} => Target(c) = c
               /\ pc'[c] \notin {"bye", "byeslot"}
               /\ pc'[c] = "blocked" => wait'[c] = c
    BY <1>4, <2>2 DEF BeginRecv, BadDescriptor, Deliver, EndOfInput, LinesDone, At, Goto
  <2>3. ASSUME NEW d \in Conns, ClearSlot(d)
        PROVE  /\ pc'[c] \in {"recv", "blocked", "run", "remove"} => Target(c) = c
               /\ pc'[c] \notin {"bye", "byeslot"}
               /\ pc'[c] = "blocked" => wait'[c] = c
    BY <1>4, <2>3 DEF ClearSlot, AfterSlot, Goto
  <2>4. ASSUME NEW d \in Conns PROVE ~RunBye(d)
    BY <1>3 DEF RunBye
  <2> QED
    BY <2>1, <2>2, <2>3, <2>4 DEF vars, Next, Peer, Serve, Handle, Connect, SendLine, PeerClose,
       Reset, ThreadFails, LogFails, AddClient, SendIdent, RunCommand
<1> QED
  BY <1>2, <1>5, <1>6, <1>7 DEF Isolated

-----------------------------------------------------------------------------
(***************************************************************************)
(* The invariant                                                           *)
(***************************************************************************)
IInv ==
  /\ TypeOK /\ AcceptedOnce /\ Owned /\ MainHasThread /\ Isolated
  /\ Registered /\ InReach /\ OneSlotEach /\ SlotsCleared

LEMMA InitInv == Init => IInv
<1> SUFFICES ASSUME Init PROVE IInv
  OBVIOUS
<1>1. TypeOK
  BY TypeInit
<1>2. AcceptedOnce /\ Owned /\ MainHasThread /\ Registered /\ InReach /\ OneSlotEach /\ SlotsCleared
  BY DEF Init, AcceptedOnce, Owned, MainHasThread, Registered, InReach, OneSlotEach, SlotsCleared
<1>3. Isolated
  BY DEF Init, Isolated
<1> QED
  BY <1>1, <1>2, <1>3 DEF IInv

LEMMA Invariance == Spec => []IInv
<1>1. IInv /\ [Next]_vars => IInv'
  BY TypeStep, AcceptedOnceStep, OwnedStep, MainHasThreadStep, SlotsStep, InReachStep,
     SlotsClearedStep, IsolatedStep DEF IInv
<1> QED
  BY InitInv, <1>1, PTL DEF Spec

\* The state stays typed, a recv always has a connection to work on, and the
\* loops of add_client and remove_client leave the array only when maxClients is
\* larger than the array, which the configuration does not prevent.
THEOREM TypeCorrect == Spec => []TypeOK
<1>1. IInv => TypeOK
  BY DEF IInv
<1> QED
  BY Invariance, <1>1, PTL

\* No descriptor is leaked: whoever closes whatever, an open one belongs to a
\* live handler thread that will close it (remove_client at its end).
THEOREM NoLeak == Spec => []DescriptorHasThread
<1>1. IInv => DescriptorHasThread
  BY DEF IInv, Owned, DescriptorHasThread, Alive
<1> QED
  BY Invariance, <1>1, PTL

\* The array never lists a client twice.
THEOREM SlotsDistinct == Spec => []OneSlotEach
<1>1. IInv => OneSlotEach
  BY DEF IInv
<1> QED
  BY Invariance, <1>1, PTL

\* remove_client leaves no entry behind: a client whose thread has ended is in
\* the array only if main added it afterwards.
THEOREM NoSlotLeftBehind == Spec => []SlotsCleared
<1>1. IInv => SlotsCleared
  BY DEF IInv
<1> QED
  BY Invariance, <1>1, PTL

\* Sessions are isolated from each other up to the first BYE: the number kept
\* in cli->socket is only ever stale after one.
THEOREM Isolation == Spec => []IsolatedUntilBye
<1>1. IInv => IsolatedUntilBye
  BY DEF IInv, Isolated, IsolatedUntilBye
<1> QED
  BY Invariance, <1>1, PTL

=============================================================================

--------------------------- MODULE TcpClientProofs --------------------------
(***************************************************************************)
(* Proofs about TcpClient for any number of calls of Connect, Send and     *)
(* ForceClose and any numbers: that status_ tells the truth, and that      *)
(* descriptors, input and messages are not lost.                           *)
(***************************************************************************)
EXTENDS TcpClient, DescriptorsProofs

(***************************************************************************)
(* The inductive invariant.                                                *)
(***************************************************************************)

\* The sockets of the client that are open.
Opened(c) == {c.table.file[n] : n \in Fds} \cap Attempts

Active(c) == c.status_ \in {"Connecting", "Connected"}

\* What holds of the client whatever it is in the middle of.
Sound(c) ==
  /\ c \in Clients
  /\ HasSocket(c) => Fd(c) \in Fds /\ Socket(c) \in Attempts
  /\ \A n \in Fds : c.table.file[n] \in Attempts => c.table.file[n] <= c.tried
  /\ \A m, n \in Fds : c.table.file[m] \in Attempts /\ m # n => c.table.file[m] # c.table.file[n]
  /\ \A m, n \in Fds : c.table.file[m] = Other => c.table.file[n] = Other
  /\ \A k \in c.input : k <= c.tried
  /\ c.table.ready \subseteq c.table.epoll
  /\ \A n \in c.table.epoll : c.table.file[n] \in Attempts /\ c.table.events_[n] = Client
  /\ c.reentered => c.closed_
  /\ c.status_ = "Disconnected" => c.closed_
  /\ c.status_ = "Init" => ~ HasSocket(c)
  /\ \A k \in Opened(c) : k \in c.over \cup c.late \/ (HasSocket(c) /\ Socket(c) = k)

\* events_ holds no number that was closed, and epoll what events_ holds.
Registered(c) == \A n \in Fds : c.table.events_[n] # NoObject => n \in c.table.epoll

\* An active client hears of its socket.
Heard(c) ==
  Active(c) => /\ HasSocket(c) /\ Fd(c) \in c.table.epoll
               /\ "IN" \in c.event_ /\ "IN" \in c.asked[Fd(c)]
               /\ c.status_ = "Connecting" => "OUT" \in c.asked[Fd(c)]

\* No attempt has overtaken another.
Clean(c) == c.over = {} /\ ~ c.reentered

Alone(c) ==
  Clean(c) =>
    /\ \A n \in c.table.epoll : Active(c) /\ n = Fd(c)
    /\ c.status_ = "Connecting" => /\ c.sock[Socket(c)] # "none"
                                   /\ c.sock[Socket(c)] = "connecting" => Socket(c) \notin c.input
    /\ c.status_ = "Connected" => c.sock[Socket(c)] \in {"up", "fin", "reset"}

\* What holds between two handlers.
Tidy(c) ==
  /\ Sound(c)
  /\ HasSocket(c) /\ c.closed_ => Socket(c) \in c.late
  /\ c.reentered \/ (Registered(c) /\ Heard(c))
  /\ Alone(c)

Reports == [fd : Fds, handler : {"OnRead", "OnWrite", "OnError"}]

Functions == [op : {"Connect", "ForceClose"}] \cup [op : {"Send"}, to : Attempts]

LoopTyped ==
  /\ batch \in Seq(Reports) /\ functions_ \in Seq(Functions)
  /\ pc \in {"EpollWait", "Dispatch", "RunFuctions"}
  /\ sends \in 0 .. MaxSends /\ closes \in 0 .. MaxCloses

BatchInv ==
  /\ pc = "Dispatch" <=> batch # << >>
  /\ Clean(client) => /\ Len(batch) <= 1
                      /\ \A i \in DOMAIN batch : /\ HasSocket(client) /\ batch[i].fd = Fd(client)
                                                 /\ client.sock[Socket(client)] # "connecting"

\* An event of the current socket is in the batch, for a handler of hs.
Coming(hs) == \E i \in DOMAIN batch : batch[i].fd = Fd(client) /\ batch[i].handler \in hs

InputInv ==
  HasSocket(client) /\ ~ client.closed_
  /\ (Socket(client) \in client.input \/ client.sock[Socket(client)] \in {"fin", "reset"})
  => \/ Fd(client) \in client.table.ready
     \/ Socket(client) \in client.swallowed
     \/ Coming({"OnRead", "OnError"})

OutcomeInv ==
  ~ client.reentered /\ client.status_ = "Connecting" =>
    \/ client.sock[Socket(client)] = "connecting"
    \/ Fd(client) \in client.table.ready
    \/ Coming({"OnRead", "OnWrite", "OnError"})

SendInv ==
  /\ client.misrouted \subseteq client.over
  /\ \A i \in DOMAIN functions_ : functions_[i].op = "Send" =>
       \/ client.closed_ \/ functions_[i].to \in client.over
       \/ HasSocket(client) /\ Socket(client) = functions_[i].to

IInv ==
  Tidy(client) /\ LoopTyped /\ BatchInv /\ InputInv /\ OutcomeInv /\ SendInv

-----------------------------------------------------------------------------
(* The fields of a client.                                                 *)

Files == Attempts \cup {Other}

LEMMA ConstantsAre ==
  /\ Objects = {Client} /\ NoObject # Client /\ NoFd \notin Fds
  /\ Fds \subseteq Nat \ {0} /\ IsFiniteSet(Fds)
  /\ Other \notin Attempts /\ NoFile \notin Attempts /\ Other # NoFile
  /\ MaxConnects \in Nat /\ Attempts = 1 .. MaxConnects
  BY DescriptorsAssumption, ClientAssumption DEF Attempts

LEMMA ClientIs ==
  ASSUME NEW c \in Clients
  PROVE  /\ c.table \in Tables(Files)
         /\ c.event_ \in Events /\ c.asked \in [Fds -> Events]
         /\ c.sock \in [Attempts -> {"none", "connecting", "refused", "up", "fin", "reset"}]
         /\ c.input \in SUBSET Attempts /\ c.tried \in 0 .. MaxConnects
         /\ c.over \in SUBSET Attempts /\ c.late \in SUBSET Attempts
         /\ c.swallowed \in SUBSET Attempts /\ c.misrouted \in SUBSET Attempts
         /\ c.status_ \in {"Init", "Connecting", "Connected", "Disconnected"}
         /\ c.closed_ \in BOOLEAN /\ c.reentered \in BOOLEAN
  BY DEF Clients, Files

\* What the table says, one value at a time.
LEMMA TableIs ==
  ASSUME NEW c \in Clients
  PROVE  /\ \A n \in Fds : c.table.file[n] \in Attempts \cup {Other, NoFile}
         /\ \A n \in Fds : c.table.events_[n] \in {Client, NoObject}
         /\ c.table.epoll \subseteq Fds /\ c.table.ready \subseteq Fds
         /\ Fd(c) \in Fds \cup {NoFd} /\ (HasSocket(c) <=> Fd(c) \in Fds)
         /\ Socket(c) = c.table.file[Fd(c)] /\ Fd(c) = c.table.fd_[Client]
<1>1. /\ c.table.file \in [Fds -> Files \cup {NoFile}]
      /\ c.table.epoll \subseteq Fds /\ c.table.ready \subseteq Fds
      /\ c.table.events_ \in [Fds -> Objects \cup {NoObject}]
      /\ c.table.fd_ \in [Objects -> Fds \cup {NoFd}]
  BY ClientIs, FieldsOfTable
<1> QED
  BY <1>1, ConstantsAre DEF Files, HasSocket, Socket, Fd, IsOpen, FileOf

\* What a step leaves alone.
SameFlags(c, d) == d.status_ = c.status_ /\ d.closed_ = c.closed_
SameAsks(c, d)  == d.event_ = c.event_ /\ d.asked = c.asked
SameNet(c, d)   == d.sock = c.sock /\ d.input = c.input
SamePast(c, d)  ==
  /\ d.tried = c.tried /\ d.over = c.over /\ d.late = c.late
  /\ d.swallowed = c.swallowed /\ d.misrouted = c.misrouted /\ d.reentered = c.reentered
SameNumbers(c, d) == d.table.file = c.table.file /\ d.table.fd_ = c.table.fd_

LEMMA NumbersSame ==
  ASSUME NEW c \in Clients, NEW d \in Clients, SameNumbers(c, d)
  PROVE  /\ Fd(d) = Fd(c) /\ Socket(d) = Socket(c) /\ (HasSocket(d) <=> HasSocket(c))
         /\ Opened(d) = Opened(c)
  BY DEF SameNumbers, Fd, Socket, HasSocket, Opened, FileOf, IsOpen

LEMMA WithTable ==
  ASSUME NEW c \in Clients, NEW t \in Tables(Files), NEW d, d = [c EXCEPT !.table = t]
  PROVE  /\ d \in Clients /\ d.table = t
         /\ SameFlags(c, d) /\ SameAsks(c, d) /\ SameNet(c, d) /\ SamePast(c, d)
  BY DEF Clients, Files, SameFlags, SameAsks, SameNet, SamePast

LEMMA WithStatus ==
  ASSUME NEW c \in Clients, NEW s \in {"Init", "Connecting", "Connected", "Disconnected"},
         NEW d, d = [c EXCEPT !.status_ = s]
  PROVE  /\ d \in Clients /\ d.table = c.table /\ d.status_ = s /\ d.closed_ = c.closed_
         /\ SameAsks(c, d) /\ SameNet(c, d) /\ SamePast(c, d)
  BY DEF Clients, SameAsks, SameNet, SamePast

\* Poke.
LEMMA PokeIs ==
  ASSUME NEW c \in Clients, NEW n \in Fds, NEW d, d = Poke(c, n)
  PROVE  /\ d \in Clients /\ SameNumbers(c, d)
         /\ SameFlags(c, d) /\ SameAsks(c, d) /\ SameNet(c, d) /\ SamePast(c, d)
         /\ d.table.epoll = c.table.epoll /\ d.table.events_ = c.table.events_
         /\ c.table.ready \subseteq d.table.ready
         /\ \A m \in d.table.ready : m \in c.table.ready \/ m \in c.table.epoll
         /\ n \in c.table.epoll /\ Mask(c, n) # {} => n \in d.table.ready
<1> DEFINE t == c.table
           u == Edge(t, n)
<1>0. t \in Tables(Files)
  BY ClientIs
<1>1. CASE Mask(c, n) = {} \/ n \notin t.epoll
  <2>1. u = t \/ Mask(c, n) = {}
    BY <1>1 DEF Edge
  <2>2. d = c \/ d = [c EXCEPT !.table = t]
    BY <2>1 DEF Poke
  <2>3. d = c
    BY <2>2 DEF Clients
  <2> QED
    BY <1>1, <2>3 DEF SameNumbers, SameFlags, SameAsks, SameNet, SamePast
<1>2. CASE Mask(c, n) # {} /\ n \in t.epoll
  <2>1. d = [c EXCEPT !.table = u]
    BY <1>2 DEF Poke
  <2>2. u = [t EXCEPT !.ready = t.ready \cup {n}]
    BY <1>2 DEF Edge
  <2>3. /\ u \in Tables(Files) /\ u.file = t.file /\ u.fd_ = t.fd_ /\ u.epoll = t.epoll
        /\ u.events_ = t.events_ /\ u.ready = t.ready \cup {n}
    BY <1>0, <2>2 DEF Tables
  <2> HIDE DEF u
  <2>4. /\ d \in Clients /\ d.table = u
        /\ SameFlags(c, d) /\ SameAsks(c, d) /\ SameNet(c, d) /\ SamePast(c, d)
    BY <2>1, <2>3, WithTable
  <2> QED
    BY <1>2, <2>3, <2>4 DEF SameNumbers
<1> QED
  BY <1>1, <1>2

-----------------------------------------------------------------------------
(* Leaving the loop and closing.                                           *)

\* From c to d, an active client leaves events_ and epoll.
Left(c, d) ==
  /\ \A m \in Fds : d.table.events_[m] = IF Active(c) /\ m = Fd(c) THEN NoObject
                                         ELSE c.table.events_[m]
  /\ \A m \in Fds : m \in d.table.epoll <=> m \in c.table.epoll /\ ~ (Active(c) /\ m = Fd(c))
  /\ d.table.ready \subseteq d.table.epoll

LEMMA LeaveLoopIs ==
  ASSUME NEW c, Sound(c), NEW d, d = LeaveLoop(c)
  PROVE  /\ d \in Clients /\ SameNumbers(c, d) /\ Left(c, d)
         /\ SameFlags(c, d) /\ SameAsks(c, d) /\ SameNet(c, d) /\ SamePast(c, d)
<1> DEFINE t == c.table
           u == DelEvent(t, Client)
<1>0. /\ c \in Clients /\ t \in Tables(Files) /\ Client \in Objects
      /\ t.ready \subseteq t.epoll /\ t.epoll \subseteq Fds
      /\ \A n \in t.epoll : t.events_[n] = Client
      /\ Fd(c) = t.fd_[Client] /\ (IsOpen(t, Client) <=> Fd(c) \in Fds)
  BY ClientIs, TableIs, ConstantsAre DEF Sound, HasSocket
<1>1. CASE ~ Active(c)
  <2>1. d = c
    BY <1>1 DEF LeaveLoop, Active
  <2> QED
    BY <1>0, <1>1, <2>1 DEF Left, SameNumbers, SameFlags, SameAsks, SameNet, SamePast
<1>2. CASE Active(c)
  <2>1. d = [c EXCEPT !.table = u]
    BY <1>2 DEF LeaveLoop, Active
  <2>2. /\ u \in Tables(Files) /\ u.file = t.file /\ u.fd_ = t.fd_
        /\ \/ ~ IsOpen(t, Client) /\ u = t
           \/ IsOpen(t, Client) /\ t.events_[t.fd_[Client]] = NoObject /\ u = t
           \/ /\ IsOpen(t, Client) /\ t.fd_[Client] \in Fds
              /\ u.events_ = [t.events_ EXCEPT ![t.fd_[Client]] = NoObject]
              /\ u.epoll = t.epoll \ {t.fd_[Client]} /\ u.ready = t.ready \ {t.fd_[Client]}
    <3> HIDE DEF t
    <3>1. t \in Tables(Files) /\ Client \in Objects
      BY <1>0
    <3> QED
      BY <3>1, DelEventIs
  <2>3. DOMAIN t.events_ = Fds
    BY <1>0, FieldsOfTable
  <2> HIDE DEF u
  <2>4. /\ d \in Clients /\ d.table = u
        /\ SameFlags(c, d) /\ SameAsks(c, d) /\ SameNet(c, d) /\ SamePast(c, d)
    BY <1>0, <2>1, <2>2, WithTable
  <2>5. /\ \A m \in Fds : u.events_[m] = IF m = Fd(c) THEN NoObject ELSE t.events_[m]
        /\ \A m \in Fds : m \in u.epoll <=> m \in t.epoll /\ m # Fd(c)
        /\ u.ready \subseteq u.epoll
    <3>1. CASE ~ IsOpen(t, Client) /\ u = t
      BY <1>0, <3>1
    <3>2. CASE IsOpen(t, Client) /\ t.events_[t.fd_[Client]] = NoObject /\ u = t
      BY <1>0, <3>2, ConstantsAre
    <3>3. CASE /\ IsOpen(t, Client) /\ t.fd_[Client] \in Fds
               /\ u.events_ = [t.events_ EXCEPT ![t.fd_[Client]] = NoObject]
               /\ u.epoll = t.epoll \ {t.fd_[Client]} /\ u.ready = t.ready \ {t.fd_[Client]}
      BY <1>0, <2>3, <3>3
    <3> QED
      BY <2>2, <3>1, <3>2, <3>3
  <2> QED
    BY <1>2, <2>2, <2>4, <2>5 DEF Left, SameNumbers
<1> QED
  BY <1>1, <1>2

\* From c to d, the client is disconnected, and its socket still open.
Shut(c, d) ==
  /\ d \in Clients /\ SameNumbers(c, d) /\ Left(c, d)
  /\ SameAsks(c, d) /\ SameNet(c, d) /\ SamePast(c, d)
  /\ d.status_ = "Disconnected" /\ d.closed_

LEMMA OnCloseAgainShuts ==
  ASSUME NEW c, Sound(c), c.closed_
  PROVE  Shut(c, OnCloseAgain(c))
<1> DEFINE d == LeaveLoop(c)
           e == OnCloseAgain(c)
<1>1. /\ d \in Clients /\ SameNumbers(c, d) /\ Left(c, d)
      /\ SameFlags(c, d) /\ SameAsks(c, d) /\ SameNet(c, d) /\ SamePast(c, d)
  BY LeaveLoopIs
<1>2. e = [d EXCEPT !.status_ = "Disconnected"]
  BY DEF OnCloseAgain
<1> HIDE DEF d, e
<1>3. /\ e \in Clients /\ e.table = d.table /\ e.status_ = "Disconnected"
      /\ e.closed_ = d.closed_
      /\ SameAsks(d, e) /\ SameNet(d, e) /\ SamePast(d, e)
  BY <1>1, <1>2, WithStatus
<1>4. Shut(c, e)
  BY <1>1, <1>3 DEF Shut, SameNumbers, Left, SameFlags, SameAsks, SameNet, SamePast
<1> QED
  BY <1>4 DEF e

LEMMA OnCloseShuts ==
  ASSUME NEW c, Sound(c), NEW f, f = [OnCloseAgain(c) EXCEPT !.closed_ = TRUE]
  PROVE  Shut(c, f)
<1> DEFINE d == LeaveLoop(c)
           e == OnCloseAgain(c)
<1>1. /\ d \in Clients /\ SameNumbers(c, d) /\ Left(c, d)
      /\ SameFlags(c, d) /\ SameAsks(c, d) /\ SameNet(c, d) /\ SamePast(c, d)
  BY LeaveLoopIs
<1>2. e = [d EXCEPT !.status_ = "Disconnected"] /\ f = [e EXCEPT !.closed_ = TRUE]
  BY DEF OnCloseAgain
<1> HIDE DEF d, e
<1>3. /\ e \in Clients /\ e.table = d.table /\ e.status_ = "Disconnected"
      /\ SameAsks(d, e) /\ SameNet(d, e) /\ SamePast(d, e)
  BY <1>1, <1>2, WithStatus
<1>4. /\ f \in Clients /\ f.table = e.table /\ f.status_ = e.status_ /\ f.closed_
      /\ SameAsks(e, f) /\ SameNet(e, f) /\ SamePast(e, f)
  BY <1>2, <1>3 DEF Clients, SameAsks, SameNet, SamePast
<1> QED
  BY <1>1, <1>3, <1>4 DEF Shut, SameNumbers, Left, SameAsks, SameNet, SamePast

LEMMA ShutIsSound ==
  ASSUME NEW c, Sound(c), NEW d, Shut(c, d)
  PROVE  Sound(d) /\ (Registered(c) => Registered(d))
<1>1. /\ Fd(d) = Fd(c) /\ Socket(d) = Socket(c) /\ (HasSocket(d) <=> HasSocket(c))
      /\ Opened(d) = Opened(c)
  BY NumbersSame DEF Sound, Shut
<1>2. d.table.file = c.table.file /\ d.tried = c.tried /\ d.input = c.input
      /\ d.over = c.over /\ d.late = c.late /\ d.closed_ /\ d.status_ = "Disconnected"
  BY DEF Shut, SameNumbers, SameNet, SamePast
<1>3. /\ d.table.ready \subseteq d.table.epoll
      /\ \A n \in d.table.epoll : d.table.file[n] \in Attempts /\ d.table.events_[n] = Client
  <2>1. d.table.epoll \subseteq Fds
    BY TableIs DEF Shut
  <2> QED
    BY <1>2, <2>1 DEF Shut, Left, Sound
<1>4. Sound(d)
  BY <1>1, <1>2, <1>3 DEF Sound, Shut
<1>5. Registered(c) => Registered(d)
  BY DEF Registered, Shut, Left
<1> QED
  BY <1>4, <1>5

\* Event::Close of a sound client.
LEMMA CloseSocketIs ==
  ASSUME NEW c, Sound(c), NEW d, d = CloseSocket(c)
  PROVE  /\ d \in Clients /\ ~ HasSocket(d)
         /\ SameFlags(c, d) /\ SameAsks(c, d) /\ SamePast(c, d)
         /\ d.input \subseteq c.input
         /\ d.table.events_ = c.table.events_
         /\ \A n \in Fds : d.table.file[n] = IF n = Fd(c) THEN NoFile ELSE c.table.file[n]
         /\ \A n \in Fds : n \in d.table.epoll <=> n \in c.table.epoll /\ n # Fd(c)
         /\ d.table.ready \subseteq d.table.epoll
<1> DEFINE t == c.table
           u == Close(t, Client)
<1>0. /\ c \in Clients /\ t \in Tables(Files) /\ Client \in Objects /\ NoFd \notin Fds
      /\ t.ready \subseteq t.epoll /\ t.epoll \subseteq Fds
      /\ Fd(c) = t.fd_[Client] /\ (IsOpen(t, Client) <=> Fd(c) \in Fds)
      /\ Fd(c) \in Fds \cup {NoFd} /\ Socket(c) = t.file[Fd(c)]
      /\ DOMAIN t.file = Fds /\ DOMAIN t.fd_ = Objects
  BY ClientIs, TableIs, ConstantsAre, FieldsOfTable DEF Sound, HasSocket
<1>1. CASE ~ HasSocket(c)
  <2>1. d = c
    BY <1>1 DEF CloseSocket
  <2> QED
    BY <1>0, <1>1, <2>1 DEF HasSocket, SameFlags, SameAsks, SamePast
<1>2. CASE HasSocket(c)
  <2>1. d = [c EXCEPT !.table = u, !.sock[Socket(c)] = "none",
                      !.input = c.input \ {Socket(c)}]
    BY <1>2 DEF CloseSocket
  <2>2. /\ u \in Tables(Files)
        /\ u.file = [t.file EXCEPT ![Fd(c)] = NoFile]
        /\ u.fd_ = [t.fd_ EXCEPT ![Client] = NoFd]
        /\ u.epoll = t.epoll \ {Fd(c)} /\ u.ready = t.ready \ {Fd(c)}
        /\ u.events_ = t.events_
    <3>1. IsOpen(t, Client) /\ Fd(c) = t.fd_[Client]
      BY <1>0, <1>2 DEF HasSocket
    <3> HIDE DEF t
    <3>2. t \in Tables(Files) /\ Client \in Objects
      BY <1>0
    <3> QED
      BY <3>1, <3>2, CloseIs
  <2> HIDE DEF u
  <2>3. Socket(c) \in Attempts
    BY <1>2 DEF Sound
  <2>4. /\ d \in Clients /\ d.table = u
        /\ SameFlags(c, d) /\ SameAsks(c, d) /\ SamePast(c, d)
        /\ d.input = c.input \ {Socket(c)}
    <3> DEFINE s == [c.sock EXCEPT ![Socket(c)] = "none"]
               i == c.input \ {Socket(c)}
    <3>1. d = [c EXCEPT !.table = u, !.sock = s, !.input = i]
      BY <2>1
    <3>2. /\ s \in [Attempts -> {"none", "connecting", "refused", "up", "fin", "reset"}]
          /\ i \in SUBSET Attempts
      BY <1>0, <2>3, ClientIs
    <3> HIDE DEF s, i
    <3> HIDE DEF t, u
    <3>3. d \in Clients
      BY <1>0, <2>2, <3>1, <3>2 DEF Clients, Files
    <3>4. d.table = u /\ d.input = i
      BY <1>0, <3>1 DEF Clients
    <3>5. SameFlags(c, d) /\ SameAsks(c, d) /\ SamePast(c, d)
      BY <1>0, <3>1 DEF Clients, SameFlags, SameAsks, SamePast
    <3> QED
      BY <3>3, <3>4, <3>5 DEF i
  <2>5. ~ HasSocket(d)
    BY <1>0, <2>2, <2>4 DEF HasSocket, IsOpen
  <2> QED
    BY <1>0, <2>2, <2>4, <2>5
<1> QED
  BY <1>1, <1>2

LEMMA CloseSocketSound ==
  ASSUME NEW c, Sound(c), c.closed_, NEW d, d = CloseSocket(c)
  PROVE  Sound(d)
<1>1. /\ d \in Clients /\ ~ HasSocket(d)
      /\ SameFlags(c, d) /\ SameAsks(c, d) /\ SamePast(c, d)
      /\ d.input \subseteq c.input
      /\ d.table.events_ = c.table.events_
      /\ \A n \in Fds : d.table.file[n] = IF n = Fd(c) THEN NoFile ELSE c.table.file[n]
      /\ \A n \in Fds : n \in d.table.epoll <=> n \in c.table.epoll /\ n # Fd(c)
      /\ d.table.ready \subseteq d.table.epoll
  BY CloseSocketIs
<1>2. d.table.epoll \subseteq Fds /\ Socket(c) = c.table.file[Fd(c)]
  BY <1>1, TableIs DEF Sound
<1>3. \A k \in Opened(d) : k \in Opened(c) /\ ~ (HasSocket(c) /\ Socket(c) = k)
  <2> SUFFICES ASSUME NEW k \in Opened(d)
               PROVE  k \in Opened(c) /\ ~ (HasSocket(c) /\ Socket(c) = k)
    OBVIOUS
  <2>1. PICK n \in Fds : d.table.file[n] = k /\ k \in Attempts
    BY DEF Opened
  <2>2. n # Fd(c) /\ c.table.file[n] = k
    BY <1>1, <2>1, ConstantsAre
  <2>3. k \in Opened(c)
    BY <2>1, <2>2 DEF Opened
  <2>4. HasSocket(c) => Socket(c) # k
    BY <1>2, <2>1, <2>2 DEF Sound
  <2> QED
    BY <2>3, <2>4
<1>4. \A k \in Opened(d) : k \in d.over \cup d.late \/ (HasSocket(d) /\ Socket(d) = k)
  BY <1>1, <1>3 DEF Sound, SamePast
<1>f. \A n \in Fds : d.table.file[n] # NoFile =>
        d.table.file[n] = c.table.file[n] /\ n # Fd(c)
  BY <1>1
<1>5. /\ \A n \in Fds : d.table.file[n] \in Attempts => d.table.file[n] <= d.tried
      /\ \A m, n \in Fds : d.table.file[m] \in Attempts /\ m # n
                             => d.table.file[m] # d.table.file[n]
  <2>1. \A n \in Fds : d.table.file[n] \in Attempts =>
          d.table.file[n] = c.table.file[n] /\ c.table.file[n] \in Attempts
    BY <1>f, ConstantsAre
  <2>2. \A m, n \in Fds : d.table.file[m] \in Attempts /\ m # n
                           => d.table.file[m] # d.table.file[n]
    <3> SUFFICES ASSUME NEW m \in Fds, NEW n \in Fds, m # n,
                        d.table.file[m] \in Attempts, d.table.file[n] = d.table.file[m]
                 PROVE  FALSE
      OBVIOUS
    <3> QED
      BY <2>1 DEF Sound
  <2> QED
    BY <1>1, <2>1, <2>2 DEF Sound, SamePast
<1>7. \A n \in d.table.epoll : d.table.file[n] \in Attempts /\ d.table.events_[n] = Client
  BY <1>1, <1>2 DEF Sound
<1>8. \A k \in d.input : k <= d.tried
  BY <1>1 DEF Sound, SamePast
<1>6. \A m, n \in Fds : d.table.file[m] = Other => d.table.file[n] = Other
  <2> SUFFICES ASSUME NEW m \in Fds, NEW n \in Fds, d.table.file[m] = Other
               PROVE  d.table.file[n] = Other
    OBVIOUS
  <2>1. c.table.file[m] = Other
    BY <1>1, ConstantsAre
  <2>2. ~ HasSocket(c)
    BY <1>2, <2>1, ConstantsAre DEF Sound
  <2>3. Fd(c) \notin Fds
    BY <2>2, TableIs DEF Sound
  <2> QED
    BY <1>1, <2>1, <2>3 DEF Sound
<1> QED
  BY <1>1, <1>4, <1>5, <1>6, <1>7, <1>8 DEF Sound, SameFlags, SamePast

-----------------------------------------------------------------------------
(* A new attempt.                                                          *)

\* From c to d: what a new attempt remembers of the one before.
Counted(c, d) ==
  /\ d.tried = c.tried + 1
  /\ d.over = c.over \cup (IF HasSocket(c) THEN {Socket(c)} ELSE {})
  /\ d.late = c.late \cup (IF c.closed_ THEN {d.tried} ELSE {})
  /\ d.swallowed = c.swallowed /\ d.misrouted = c.misrouted /\ d.reentered = c.reentered

\* From c to d, no descriptor was left.
NoNumber(c, d) ==
  /\ d \in Clients /\ Counted(c, d) /\ SameFlags(c, d) /\ d.input = c.input
  /\ ~ HasSocket(d)
  /\ d.table.file = c.table.file /\ d.table.epoll = c.table.epoll
  /\ d.table.ready = c.table.ready /\ d.table.events_ = c.table.events_

LEMMA NewAttemptIs ==
  ASSUME NEW c, Sound(c), c.tried < MaxConnects, NEW d, d = NewAttempt(c)
  PROVE  /\ d \in Clients /\ Counted(c, d) /\ SameFlags(c, d) /\ SameAsks(c, d)
         /\ SameNet(c, d) /\ d.tried \in Attempts
         /\ d.table = IF Free(c.table) = {} THEN [c.table EXCEPT !.fd_[Client] = NoFd]
                      ELSE OpenAs(c.table, Client, d.tried)
<1> DEFINE t == c.table
           k == c.tried + 1
           u == IF Free(t) = {} THEN [t EXCEPT !.fd_[Client] = NoFd] ELSE OpenAs(t, Client, k)
           over == c.over \cup (IF HasSocket(c) THEN {Socket(c)} ELSE {})
           late == c.late \cup (IF c.closed_ THEN {k} ELSE {})
<1>0. /\ c \in Clients /\ t \in Tables(Files) /\ Client \in Objects
      /\ c.tried \in 0 .. MaxConnects /\ c.over \subseteq Attempts /\ c.late \subseteq Attempts
  BY ClientIs, ConstantsAre DEF Sound
<1>1. k \in Attempts
  BY <1>0, ConstantsAre
<1>2. d = [c EXCEPT !.tried = k, !.table = u, !.over = over, !.late = late]
  BY DEF NewAttempt
<1>3. over \in SUBSET Attempts /\ late \in SUBSET Attempts
  BY <1>0, <1>1 DEF Sound
<1>4. u \in Tables(Files)
  <2>1. CASE Free(t) = {}
    <3>1. u = [t EXCEPT !.fd_[Client] = NoFd]
      BY <2>1
    <3> QED
      BY <1>0, <3>1 DEF Tables
  <2>2. CASE Free(t) # {}
    <3> DEFINE n == Min(Free(t))
    <3>1. u = OpenAs(t, Client, k) /\ k \in Files
      BY <1>1, <2>2 DEF Files
    <3> HIDE DEF u, t, k, n
    <3>2. n = Min(Free(t))
      BY DEF n
    <3> QED
      BY <1>0, <2>2, <3>1, <3>2, OpenAsIs
  <2> QED
    BY <2>1, <2>2
<1>5. u = IF Free(t) = {} THEN [t EXCEPT !.fd_[Client] = NoFd] ELSE OpenAs(t, Client, k)
  OBVIOUS
<1>6. k \in 0 .. MaxConnects
  BY <1>1, ConstantsAre
<1> HIDE DEF u
<1>7. /\ d \in Clients /\ d.table = u /\ d.tried = k /\ d.over = over /\ d.late = late
      /\ SameFlags(c, d) /\ SameAsks(c, d) /\ SameNet(c, d)
      /\ d.swallowed = c.swallowed /\ d.misrouted = c.misrouted /\ d.reentered = c.reentered
  <2> HIDE DEF over, late, k, t
  <2>1. d \in Clients
    BY <1>0, <1>2, <1>3, <1>4, <1>6 DEF Clients, Files
  <2>2. d.table = u /\ d.tried = k /\ d.over = over /\ d.late = late
    BY <1>0, <1>2 DEF Clients
  <2>3. SameFlags(c, d) /\ SameAsks(c, d) /\ SameNet(c, d)
    BY <1>0, <1>2 DEF Clients, SameFlags, SameAsks, SameNet
  <2>4. d.swallowed = c.swallowed /\ d.misrouted = c.misrouted /\ d.reentered = c.reentered
    BY <1>0, <1>2 DEF Clients
  <2> QED
    BY <2>1, <2>2, <2>3, <2>4
<1> QED
  BY <1>1, <1>5, <1>7 DEF Counted

LEMMA NoNumberIs ==
  ASSUME NEW c, Sound(c), c.tried < MaxConnects, Free(c.table) = {},
         NEW d, d = NewAttempt(c)
  PROVE  NoNumber(c, d)
<1> DEFINE t == c.table
           u == [t EXCEPT !.fd_[Client] = NoFd]
<1>0. t \in Tables(Files) /\ Client \in Objects
  BY ClientIs, ConstantsAre DEF Sound
<1>1. /\ d \in Clients /\ Counted(c, d) /\ SameFlags(c, d) /\ SameNet(c, d) /\ d.table = u
  BY NewAttemptIs
<1>2. /\ u.file = t.file /\ u.epoll = t.epoll /\ u.ready = t.ready /\ u.events_ = t.events_
      /\ u.fd_[Client] = NoFd
  BY <1>0 DEF Tables
<1> HIDE DEF u
<1>3. ~ HasSocket(d)
  BY <1>1, <1>2 DEF HasSocket, IsOpen
<1> QED
  BY <1>1, <1>2, <1>3 DEF NoNumber, SameNet

\* EnableWrite once it knows what to ask for.
Ask(c, e) == Poke([c EXCEPT !.event_ = e, !.asked[Fd(c)] = e], Fd(c))

Asked(c, d, e) ==
  /\ d \in Clients /\ SameNumbers(c, d)
  /\ SameFlags(c, d) /\ SameNet(c, d) /\ SamePast(c, d)
  /\ d.event_ = e /\ d.asked[Fd(c)] = e
  /\ d.table.epoll = c.table.epoll /\ d.table.events_ = c.table.events_
  /\ c.table.ready \subseteq d.table.ready
  /\ \A m \in d.table.ready : m \in c.table.ready \/ m \in c.table.epoll

LEMMA AskIs ==
  ASSUME NEW c \in Clients, HasSocket(c), NEW e \in Events, NEW d, d = Ask(c, e)
  PROVE  Asked(c, d, e)
<1> DEFINE n == Fd(c)
           a == [c.asked EXCEPT ![n] = e]
           b == [c EXCEPT !.event_ = e, !.asked = a]
<1>1. n \in Fds /\ d = Poke(b, n)
  BY TableIs DEF Ask
<1>2. a \in [Fds -> Events] /\ a[n] = e
  BY <1>1, ClientIs
<1>3. n = Fd(c) /\ b = [c EXCEPT !.event_ = e, !.asked = a]
  OBVIOUS
<1> HIDE DEF n, a, b
<1>4. /\ b \in Clients /\ b.table = c.table /\ b.event_ = e /\ b.asked = a
      /\ SameFlags(c, b) /\ SameNet(c, b) /\ SamePast(c, b)
  BY <1>2, <1>3 DEF Clients, SameFlags, SameNet, SamePast
<1>5. /\ d \in Clients /\ SameNumbers(b, d)
      /\ SameFlags(b, d) /\ SameAsks(b, d) /\ SameNet(b, d) /\ SamePast(b, d)
      /\ d.table.epoll = b.table.epoll /\ d.table.events_ = b.table.events_
      /\ b.table.ready \subseteq d.table.ready
      /\ \A m \in d.table.ready : m \in b.table.ready \/ m \in b.table.epoll
  BY <1>1, <1>4, PokeIs
<1> QED
  BY <1>2, <1>3, <1>4, <1>5 DEF Asked, SameNumbers, SameFlags, SameAsks, SameNet, SamePast

\* From c to d, the new attempt has a socket, and is in the loop unless its
\* number was never taken out of events_.
Numbered(c, d) ==
  /\ d \in Clients /\ Counted(c, d) /\ d.closed_ = c.closed_ /\ d.input = c.input
  /\ Active(d) /\ HasSocket(d) /\ Fd(d) \in Fds /\ c.table.file[Fd(d)] = NoFile
  /\ \A m \in Fds : d.table.file[m] = IF m = Fd(d) THEN d.tried ELSE c.table.file[m]
  /\ \A m \in Fds : d.table.events_[m] = IF m = Fd(d) THEN Client ELSE c.table.events_[m]
  /\ \A m \in Fds : m \in d.table.epoll <=>
       m \in c.table.epoll \/ (m = Fd(d) /\ c.table.events_[Fd(d)] = NoObject)
  /\ d.table.ready \subseteq d.table.epoll
  /\ c.table.events_[Fd(d)] = NoObject =>
       "IN" \in d.event_ /\ "IN" \in d.asked[Fd(d)] /\ "OUT" \in d.asked[Fd(d)]

\* Register after NewAttempt, on the table and on what is asked of epoll.
Registers(s, d) ==
  /\ d \in Clients /\ d.table = AddEvent(s.table, Client, FALSE)
  /\ SameFlags(s, d) /\ SameNet(s, d) /\ SamePast(s, d)
  /\ s.table.events_[Fd(s)] = NoObject => d.event_ = kEventRead

LEMMA RegisterIs ==
  ASSUME NEW c, Sound(c), NEW s \in Clients, Free(c.table) # {}, NEW k \in Attempts,
         s.table = OpenAs(c.table, Client, k), NEW d, d = Register(s)
  PROVE  Registers(s, d)
<1> DEFINE t == s.table
           u == AddEvent(t, Client, FALSE)
           n == Min(Free(c.table))
<1>0. c \in Clients /\ c.table \in Tables(Files) /\ Client \in Objects /\ k \in Files
      /\ DOMAIN c.table.fd_ = Objects /\ NoFd \notin Fds
  <2>1. c \in Clients /\ k \in Files
    BY DEF Sound, Files
  <2>2. c.table \in Tables(Files)
    BY <2>1, ClientIs
  <2>3. c.table.fd_ \in [Objects -> Fds \cup {NoFd}]
    BY <2>2, FieldsOfTable
  <2> QED
    BY <2>1, <2>2, <2>3, ConstantsAre
<1>1. n \in Fds /\ t \in Tables(Files) /\ NumberGiven(c.table, t, Client, k, n)
  <2> HIDE DEF t, n
  <2>1. n = Min(Free(c.table)) /\ t = OpenAs(c.table, Client, k)
    BY DEF t, n
  <2> QED
    BY <1>0, <2>1, OpenAsIs
<1>2. t.fd_[Client] = n /\ Fd(s) = n /\ IsOpen(t, Client)
  BY <1>0, <1>1 DEF NumberGiven, Fd, IsOpen
<1>3. CASE t.events_[Fd(s)] # NoObject
  <2>1. d = s /\ u = t
    BY <1>2, <1>3 DEF Register, AddEvent
  <2> QED
    BY <1>3, <2>1 DEF Registers, SameFlags, SameNet, SamePast
<1>4. CASE t.events_[Fd(s)] = NoObject
  <2> DEFINE a == [s.asked EXCEPT ![n] = kEventRead]
  <2>1. d = [s EXCEPT !.table = u, !.event_ = kEventRead, !.asked = a]
    BY <1>2, <1>4 DEF Register
  <2>2. a \in [Fds -> Events] /\ kEventRead \in Events
    BY <1>1, ClientIs DEF Events, kEventRead
  <2>3. u \in Tables(Files)
    <3> DEFINE now == FALSE
    <3>1. now \in BOOLEAN /\ u = AddEvent(t, Client, now)
      OBVIOUS
    <3> HIDE DEF now, t, u, n
    <3> QED
      BY <1>0, <1>1, <1>2, <3>1, AddEventIs
  <2> HIDE DEF u, a
  <2>4. /\ d \in Clients /\ d.table = u /\ d.event_ = kEventRead
        /\ SameFlags(s, d) /\ SameNet(s, d) /\ SamePast(s, d)
    BY <2>1, <2>2, <2>3 DEF Clients, Files, SameFlags, SameNet, SamePast
  <2> QED
    BY <2>4 DEF u, Registers
<1> QED
  BY <1>3, <1>4

LEMMA ConnectingIs ==
  ASSUME NEW c, Sound(c), c.tried < MaxConnects, Free(c.table) # {},
         NEW how \in {"connecting", "up", "none"}, NEW d, d = Connecting(c, how)
  PROVE  Numbered(c, d) /\ d.status_ = "Connecting" /\ d.sock[d.tried] = how
<1> DEFINE b == NewAttempt(c)
           k == b.tried
           n == Min(Free(c.table))
           net == [b.sock EXCEPT ![k] = how]
           s == [Started(b) EXCEPT !.sock[b.tried] = how]
           r == Register(s)
<1>1. /\ b \in Clients /\ Counted(c, b) /\ SameFlags(c, b) /\ SameNet(c, b) /\ k \in Attempts
      /\ b.table = OpenAs(c.table, Client, k)
  <2>1. b = NewAttempt(c)
    OBVIOUS
  <2> HIDE DEF b
  <2> QED
    BY <2>1, NewAttemptIs
<1>2. s = [b EXCEPT !.status_ = "Connecting", !.sock = net] /\ r = Register(s)
      /\ d = EnableWrite(r, TRUE) /\ n = Min(Free(c.table)) /\ k = b.tried
  BY DEF Started, Connecting
<1>3. /\ net \in [Attempts -> {"none", "connecting", "refused", "up", "fin", "reset"}]
      /\ net[k] = how
  BY <1>1, ClientIs
<1> HIDE DEF b, k, n, net, s, r
<1>4. /\ s \in Clients /\ s.table = b.table /\ s.status_ = "Connecting" /\ s.sock = net
      /\ s.closed_ = b.closed_ /\ s.input = b.input /\ SamePast(b, s)
  BY <1>1, <1>2, <1>3 DEF Clients, SamePast
<1>5. /\ r \in Clients /\ r.table = AddEvent(s.table, Client, FALSE)
      /\ SameFlags(s, r) /\ SameNet(s, r) /\ SamePast(s, r)
      /\ s.table.events_[Fd(s)] = NoObject => r.event_ = kEventRead
  <2>1. s.table = OpenAs(c.table, Client, k) /\ r = Register(s)
    BY <1>1, <1>2, <1>4
  <2>2. Registers(s, r)
    BY <1>1, <1>4, <2>1, RegisterIs
  <2> QED
    BY <2>2 DEF Registers
<1>6. n \in Fds /\ NumberOpened(c.table, r.table, Client, k, n)
  <2>1. r.table = AddEvent(OpenAs(c.table, Client, k), Client, FALSE)
    BY <1>1, <1>4, <1>5
  <2> DEFINE now == FALSE
             t == c.table
             u == r.table
  <2>2. /\ now \in BOOLEAN /\ u = AddEvent(OpenAs(t, Client, k), Client, now)
        /\ n = Min(Free(t)) /\ Free(t) # {}
    BY <1>2, <2>1
  <2>3. t \in Tables(Files) /\ Client \in Objects /\ k \in Files
    BY <1>1, ClientIs, ConstantsAre DEF Sound, Files
  <2> HIDE DEF now, t, u
  <2>4. n \in Fds /\ NumberOpened(t, u, Client, k, n)
    BY <2>2, <2>3, OpenedIs
  <2> QED
    BY <2>4 DEF t, u
<1>7. /\ Fd(r) = n /\ HasSocket(r) /\ r.table.events_[n] # NoObject
  <2>1. r.table.fd_[Client] = n
    BY <1>6, ConstantsAre DEF NumberOpened
  <2>2. r.table.events_[n] # NoObject
    BY <1>6, ConstantsAre DEF NumberOpened
  <2> QED
    BY <1>6, <2>1, <2>2, ConstantsAre DEF Fd, HasSocket, IsOpen
<1> DEFINE e == r.event_ \cup kEventWrite
<1>8. d = Ask(r, e)
  BY <1>2, <1>7 DEF EnableWrite, Ask
<1>9. e \in Events /\ {"OUT"} \subseteq e
  BY <1>5, ClientIs DEF Events, kEventWrite
<1>10. s.table.events_[Fd(s)] = NoObject => "IN" \in e
  BY <1>5 DEF kEventRead
<1> HIDE DEF e
<1>11. /\ d \in Clients /\ SameNumbers(r, d)
       /\ SameFlags(r, d) /\ SameNet(r, d) /\ SamePast(r, d)
       /\ d.event_ = e /\ d.asked[Fd(r)] = e
       /\ d.table.epoll = r.table.epoll /\ d.table.events_ = r.table.events_
       /\ \A m \in d.table.ready : m \in r.table.ready \/ m \in r.table.epoll
  <2>1. Asked(r, d, e)
    BY <1>5, <1>7, <1>8, <1>9, AskIs
  <2> QED
    BY <2>1 DEF Asked
<1>12. Fd(d) = n /\ HasSocket(d)
  BY <1>5, <1>7, <1>11, NumbersSame
<1>13. /\ Counted(c, d) /\ d.closed_ = c.closed_ /\ d.input = c.input
       /\ d.status_ = "Connecting" /\ d.tried = k /\ d.sock[k] = how
  <2>1. SamePast(b, r) /\ SamePast(r, d) /\ SameFlags(r, d) /\ SameNet(r, d)
    BY <1>4, <1>5, <1>11 DEF SamePast
  <2>2. SamePast(b, d)
    BY <2>1 DEF SamePast
  <2>3. d.closed_ = b.closed_ /\ d.input = b.input /\ d.status_ = "Connecting" /\ d.sock = net
    BY <1>4, <1>5, <2>1 DEF SameFlags, SameNet
  <2>4. Counted(c, d)
    BY <1>1, <2>2 DEF Counted, SamePast
  <2>5. d.closed_ = c.closed_ /\ d.input = c.input
    BY <1>1, <2>3 DEF SameFlags, SameNet
  <2> QED
    BY <1>2, <1>3, <2>2, <2>3, <2>4, <2>5 DEF SamePast
<1>14. c.table.events_[n] = NoObject =>
         "IN" \in d.event_ /\ "IN" \in d.asked[n] /\ "OUT" \in d.asked[n]
  <2>1. Fd(s) = n /\ s.table.events_[n] = c.table.events_[n]
    <3> DEFINE t == c.table
               u == b.table
    <3>1. t \in Tables(Files) /\ Client \in Objects /\ k \in Files
      BY <1>1, ClientIs, ConstantsAre DEF Sound, Files
    <3>2. u = OpenAs(t, Client, k) /\ n = Min(Free(t)) /\ Free(t) # {}
      BY <1>1, <1>2
    <3> HIDE DEF t, u
    <3>3. NumberGiven(t, u, Client, k, n)
      BY <3>1, <3>2, OpenAsIs
    <3>4. u.fd_[Client] = n /\ u.events_ = t.events_
      BY <3>1, <3>3, FieldsOfTable DEF NumberGiven
    <3> QED
      BY <1>4, <3>4 DEF Fd, t, u
  <2> QED
    BY <1>7, <1>9, <1>10, <1>11, <2>1
<1>15. /\ c.table.file[n] = NoFile
       /\ \A m \in Fds : d.table.file[m] = IF m = n THEN k ELSE c.table.file[m]
       /\ \A m \in Fds : m \in d.table.epoll <=>
            m \in c.table.epoll \/ (m = n /\ c.table.events_[n] = NoObject)
  BY <1>6, <1>11 DEF NumberOpened, SameNumbers
<1>16. \A m \in Fds : d.table.events_[m] = IF m = n THEN Client ELSE c.table.events_[m]
  <2>1. \A m \in Fds : c.table.events_[m] \in {Client, NoObject}
    BY TableIs DEF Sound
  <2> QED
    BY <1>6, <1>11, <2>1 DEF NumberOpened
<1>17. d.table.ready \subseteq d.table.epoll
  <2>1. c.table.ready \subseteq c.table.epoll /\ c.table.epoll \subseteq Fds
        /\ r.table.ready \subseteq Fds
    BY <1>5, TableIs DEF Sound
  <2>2. r.table.ready \subseteq r.table.epoll
    BY <1>6, <2>1 DEF NumberOpened
  <2> QED
    BY <1>11, <2>2
<1> QED
  BY <1>6, <1>11, <1>12, <1>13, <1>14, <1>15, <1>16, <1>17 DEF Numbered, Active

LEMMA NoNumberSound ==
  ASSUME NEW c, Sound(c), NEW d, NoNumber(c, d)
  PROVE  Sound(d) /\ (Registered(c) => Registered(d))
<1>1. /\ d \in Clients /\ ~ HasSocket(d)
      /\ d.table.file = c.table.file /\ d.table.epoll = c.table.epoll
      /\ d.table.ready = c.table.ready /\ d.table.events_ = c.table.events_
      /\ d.tried = c.tried + 1 /\ d.input = c.input /\ c.tried \in Nat
      /\ d.status_ = c.status_ /\ d.closed_ = c.closed_ /\ d.reentered = c.reentered
  BY ClientIs, ConstantsAre DEF NoNumber, Counted, SameFlags, Sound
<1>2. \A k \in Opened(d) : k \in d.over \cup d.late
  <2>1. Opened(d) = Opened(c)
    BY <1>1 DEF Opened
  <2> QED
    BY <2>1 DEF NoNumber, Counted, Sound
<1>3. Attempts \subseteq Nat
  BY ConstantsAre
<1>4. /\ \A n \in Fds : d.table.file[n] \in Attempts => d.table.file[n] <= d.tried
      /\ \A k \in d.input : k <= d.tried
  <2>1. d.input \subseteq Attempts
    BY <1>1, ClientIs
  <2> QED
    BY <1>1, <1>3, <2>1 DEF Sound
<1>5. Sound(d)
  BY <1>1, <1>2, <1>4 DEF Sound
<1> QED
  BY <1>1, <1>5 DEF Registered

LEMMA NumberedSound ==
  ASSUME NEW c, Sound(c), NEW d, Numbered(c, d)
  PROVE  Sound(d) /\ Socket(d) = d.tried /\ (Registered(c) => Registered(d))
<1> DEFINE n == Fd(d)
           k == d.tried
<1>0. n = Fd(d) /\ k = d.tried
  OBVIOUS
<1>1. /\ d \in Clients /\ HasSocket(d) /\ n \in Fds /\ c.table.file[n] = NoFile
      /\ \A m \in Fds : d.table.file[m] = IF m = n THEN k ELSE c.table.file[m]
      /\ \A m \in Fds : d.table.events_[m] = IF m = n THEN Client ELSE c.table.events_[m]
      /\ \A m \in Fds : m \in d.table.epoll <=>
           m \in c.table.epoll \/ (m = n /\ c.table.events_[n] = NoObject)
      /\ d.table.ready \subseteq d.table.epoll
      /\ d.closed_ = c.closed_ /\ d.reentered = c.reentered
      /\ d.tried = c.tried + 1 /\ d.input = c.input /\ Active(d)
  BY DEF Numbered, Counted
<1>2. c.tried \in Nat /\ k \in Attempts /\ Attempts \subseteq Nat /\ d.input \subseteq Attempts
      /\ d.table.epoll \subseteq Fds /\ Socket(d) = d.table.file[n]
      /\ d.status_ # "Init" /\ d.status_ # "Disconnected"
  <2>1. c.tried \in 0 .. MaxConnects /\ d.tried \in 0 .. MaxConnects
    BY <1>1, ClientIs DEF Sound
  <2> QED
    BY <1>1, <2>1, ClientIs, TableIs, ConstantsAre DEF Active
<1> HIDE DEF n, k
<1>3. Socket(d) = k
  BY <1>1, <1>2
<1>4. \A m \in Fds : d.table.file[m] \in Attempts => d.table.file[m] <= d.tried
  <2>1. k <= d.tried
    BY <1>0, <1>2
  <2>2. ASSUME NEW m \in Fds, c.table.file[m] \in Attempts
        PROVE  c.table.file[m] <= d.tried
    <3>1. c.table.file[m] <= c.tried /\ c.table.file[m] \in Nat
      BY <1>2, <2>2 DEF Sound
    <3> QED
      BY <1>1, <1>2, <3>1
  <2> QED
    BY <1>1, <2>1, <2>2
<1>5. \A m \in Fds : m # n => c.table.file[m] # k
  BY <1>0, <1>1, <1>2 DEF Sound
<1>6. \A l, m \in Fds : d.table.file[l] \in Attempts /\ l # m => d.table.file[l] # d.table.file[m]
  <2> SUFFICES ASSUME NEW l \in Fds, NEW m \in Fds, l # m,
                      d.table.file[l] \in Attempts, d.table.file[l] = d.table.file[m]
               PROVE  FALSE
    OBVIOUS
  <2>1. CASE l = n
    BY <1>1, <1>5, <2>1
  <2>2. CASE m = n
    BY <1>1, <1>5, <2>2
  <2>3. CASE l # n /\ m # n
    BY <1>1, <2>3 DEF Sound
  <2> QED
    BY <2>1, <2>2, <2>3
<1>7. \A l, m \in Fds : d.table.file[l] = Other => d.table.file[m] = Other
  <2>1. \A l \in Fds : c.table.file[l] # Other
    BY <1>1, ConstantsAre DEF Sound
  <2> QED
    BY <1>1, <1>2, <2>1, ConstantsAre
<1>8. \A m \in d.table.epoll : d.table.file[m] \in Attempts /\ d.table.events_[m] = Client
  <2> SUFFICES ASSUME NEW m \in d.table.epoll
               PROVE  d.table.file[m] \in Attempts /\ d.table.events_[m] = Client
    OBVIOUS
  <2>1. m \in Fds
    BY <1>2
  <2>2. CASE m = n
    BY <1>1, <1>2, <2>1, <2>2
  <2>3. CASE m # n
    BY <1>1, <2>1, <2>3 DEF Sound
  <2> QED
    BY <2>2, <2>3
<1>9. \A j \in Opened(d) : j \in d.over \cup d.late \/ (HasSocket(d) /\ Socket(d) = j)
  <2> SUFFICES ASSUME NEW j \in Opened(d), j # k
               PROVE  j \in d.over \cup d.late
    BY <1>1, <1>3
  <2>1. PICK m \in Fds : d.table.file[m] = j /\ j \in Attempts
    BY DEF Opened
  <2>2. j \in Opened(c)
    BY <1>1, <2>1 DEF Opened
  <2>3. j \in c.over \cup c.late \/ (HasSocket(c) /\ Socket(c) = j)
    BY <2>2 DEF Sound
  <2> QED
    BY <2>3 DEF Numbered, Counted
<1>10. ASSUME NEW j \in d.input
       PROVE  j <= d.tried
  <2>1. j <= c.tried /\ j \in Nat
    BY <1>1, <1>2 DEF Sound
  <2> QED
    BY <1>1, <1>2, <2>1
<1>11. Sound(d)
  BY <1>0, <1>1, <1>2, <1>3, <1>4, <1>6, <1>7, <1>8, <1>9, <1>10 DEF Sound
<1>12. Registered(c) => Registered(d)
  <2> SUFFICES ASSUME Registered(c), NEW m \in Fds, d.table.events_[m] # NoObject
               PROVE  m \in d.table.epoll
    BY DEF Registered
  <2>1. n \notin c.table.epoll
    BY <1>1, ConstantsAre DEF Sound
  <2>2. c.table.events_[n] = NoObject
    BY <1>1, <2>1 DEF Registered
  <2> QED
    BY <1>1, <2>2 DEF Registered
<1> QED
  BY <1>0, <1>3, <1>11, <1>12

-----------------------------------------------------------------------------
(* Closing, whoever asks for it.                                           *)

\* What OnClose needs to leave a tidy client.
Closable(c) ==
  /\ Sound(c)
  /\ HasSocket(c) /\ c.closed_ => Socket(c) \in c.late
  /\ c.reentered \/ Registered(c)
  /\ Clean(c) => \A n \in c.table.epoll : Active(c) /\ n = Fd(c)

\* From c to d, the client was closed.
Ended(c, d) ==
  /\ Tidy(d) /\ d.closed_ /\ c.over \subseteq d.over /\ d.misrouted = c.misrouted
  /\ c.reentered => d.reentered
  /\ d.reentered \/ d.status_ = "Disconnected"

LEMMA TidyIsClosable ==
  ASSUME NEW c, Tidy(c)
  PROVE  Closable(c)
  BY DEF Tidy, Closable, Alone

\* An attempt that does not overtake another begins with nothing in epoll.
LEMMA NothingLeft ==
  ASSUME NEW c, Tidy(c), NEW d, Counted(c, d), Clean(d)
  PROVE  Clean(c) /\ c.table.epoll = {}
<1>1. Clean(c) /\ ~ HasSocket(c)
  BY DEF Clean, Counted
<1> QED
  BY <1>1 DEF Tidy, Alone, Heard, Clean

LEMMA NoNumberClosable ==
  ASSUME NEW c, Tidy(c), NEW d, NoNumber(c, d)
  PROVE  Closable(d)
<1>1. Sound(c) /\ (c.reentered \/ Registered(c))
  BY DEF Tidy
<1>2. Sound(d) /\ (Registered(c) => Registered(d)) /\ ~ HasSocket(d)
  BY <1>1, NoNumberSound DEF NoNumber
<1>3. Clean(d) => d.table.epoll = {}
  BY NothingLeft DEF NoNumber
<1> QED
  BY <1>1, <1>2, <1>3 DEF Closable, NoNumber, Counted

LEMMA NumberedClosable ==
  ASSUME NEW c, Tidy(c), NEW d, Numbered(c, d)
  PROVE  Closable(d) /\ (d.reentered \/ Heard(d))
<1>1. Sound(c) /\ (c.reentered \/ Registered(c))
  BY DEF Tidy
<1>2. Sound(d) /\ (Registered(c) => Registered(d)) /\ HasSocket(d) /\ Socket(d) = d.tried
      /\ Fd(d) \in Fds /\ d.table.epoll \subseteq Fds
  BY <1>1, NumberedSound, TableIs DEF Numbered
<1>3. Clean(d) => \A n \in d.table.epoll : Active(d) /\ n = Fd(d)
  <2>1. Clean(d) => c.table.epoll = {}
    BY NothingLeft DEF Numbered
  <2> QED
    BY <1>2, <2>1 DEF Numbered
<1>4. c.closed_ /\ d.closed_ => Socket(d) \in d.late
  BY <1>2 DEF Numbered, Counted
<1>5. d.closed_ = c.closed_ /\ d.reentered = c.reentered
  BY DEF Numbered, Counted
<1>6. Registered(c) => Heard(d)
  <2> SUFFICES ASSUME Registered(c)
               PROVE  Heard(d)
    OBVIOUS
  <2>1. Fd(d) \notin c.table.epoll
    BY <1>1, <1>2, ConstantsAre DEF Sound, Numbered
  <2>2. c.table.events_[Fd(d)] = NoObject
    BY <1>2, <2>1 DEF Registered
  <2> QED
    BY <1>2, <2>2 DEF Numbered, Heard
<1> QED
  BY <1>1, <1>2, <1>3, <1>4, <1>5, <1>6 DEF Closable

\* What OnClose calls before Event::Close, close_cb_ included, leaves a
\* sound client that is closed.
Called(c, d) ==
  /\ Sound(d) /\ d.closed_ /\ c.over \subseteq d.over /\ d.misrouted = c.misrouted
  /\ d.reentered

LEMMA GoesOnIs ==
  ASSUME NEW c, Sound(c), c.tried < MaxConnects, NEW d, d \in ConnectGoesOn(c)
  PROVE  /\ Numbered(c, d)
         /\ \/ d.status_ = "Connecting" /\ d.sock[Socket(d)] = "connecting"
            \/ d.status_ = "Connected" /\ d.sock[Socket(d)] = "up"
<1>1. Free(c.table) # {}
  BY DEF ConnectGoesOn
<1>2. CASE d = Connecting(c, "connecting")
  <2> DEFINE how == "connecting"
  <2>1. how \in {"connecting", "up", "none"} /\ d = Connecting(c, how)
    BY <1>2
  <2>2. how = "connecting"
    OBVIOUS
  <2> HIDE DEF how
  <2>3. Numbered(c, d) /\ d.status_ = "Connecting" /\ d.sock[d.tried] = how
    BY <1>1, <2>1, ConnectingIs
  <2>4. Socket(d) = d.tried
    BY <2>3, NumberedSound
  <2> QED
    BY <2>2, <2>3, <2>4
<1>3. CASE d = [Connecting(c, "up") EXCEPT !.status_ = "Connected"]
  <2> DEFINE how == "up"
             e == Connecting(c, how)
             s == "Connected"
  <2>1. /\ how \in {"connecting", "up", "none"} /\ e = Connecting(c, how) /\ how = "up"
        /\ s \in {"Init", "Connecting", "Connected", "Disconnected"} /\ s = "Connected"
        /\ d = [e EXCEPT !.status_ = s]
    BY <1>3
  <2> HIDE DEF how, e, s
  <2>2. Numbered(c, e) /\ e.sock[e.tried] = how
    BY <1>1, <2>1, ConnectingIs
  <2>3. /\ d \in Clients /\ d.table = e.table /\ d.status_ = s /\ d.closed_ = e.closed_
        /\ SameAsks(e, d) /\ SameNet(e, d) /\ SamePast(e, d)
    BY <2>1, <2>2, WithStatus DEF Numbered
  <2>4. Fd(d) = Fd(e) /\ (HasSocket(d) <=> HasSocket(e)) /\ Active(d)
    BY <2>1, <2>3 DEF Fd, HasSocket, Active
  <2>5. Counted(c, d)
    BY <2>2, <2>3 DEF Numbered, Counted, SamePast
  <2>6. Numbered(c, d)
    BY <2>2, <2>3, <2>4, <2>5 DEF Numbered, SameAsks, SameNet, SamePast
  <2>7. Socket(d) = d.tried
    BY <2>6, NumberedSound
  <2> QED
    BY <2>1, <2>2, <2>3, <2>6, <2>7 DEF SameNet, SamePast
<1> QED
  BY <1>1, <1>2, <1>3 DEF ConnectGoesOn

LEMMA FailsIs ==
  ASSUME NEW c, Sound(c), c.tried < MaxConnects, NEW d, d = ConnectFails(c)
  PROVE  NoNumber(c, d) \/ Numbered(c, d)
<1>1. CASE Free(c.table) = {}
  BY <1>1, NoNumberIs DEF ConnectFails
<1>2. CASE Free(c.table) # {}
  <2> DEFINE how == "none"
  <2>1. how \in {"connecting", "up", "none"} /\ d = Connecting(c, how)
    BY <1>2 DEF ConnectFails
  <2> HIDE DEF how
  <2> QED
    BY <1>2, <2>1, ConnectingIs
<1> QED
  BY <1>1, <1>2

\* A sound client stays sound when its numbers do not change.
LEMMA StaysSound ==
  ASSUME NEW c, Sound(c), NEW d \in Clients, SameNumbers(c, d),
         d.table.epoll = c.table.epoll, d.table.events_ = c.table.events_,
         d.table.ready \subseteq d.table.epoll, \A k \in d.input : k <= d.tried,
         d.tried = c.tried, d.over = c.over, d.late = c.late,
         d.reentered => d.closed_, d.status_ = "Disconnected" => d.closed_,
         d.status_ = "Init" => ~ HasSocket(c)
  PROVE  Sound(d)
<1>1. /\ Fd(d) = Fd(c) /\ Socket(d) = Socket(c) /\ (HasSocket(d) <=> HasSocket(c))
      /\ Opened(d) = Opened(c) /\ d.table.file = c.table.file
  BY NumbersSame DEF Sound, SameNumbers
<1>2. /\ HasSocket(d) => Fd(d) \in Fds /\ Socket(d) \in Attempts
      /\ \A k \in Opened(d) : k \in d.over \cup d.late \/ (HasSocket(d) /\ Socket(d) = k)
      /\ \A n \in d.table.epoll : d.table.file[n] \in Attempts /\ d.table.events_[n] = Client
  BY <1>1 DEF Sound
<1>3. /\ \A n \in Fds : d.table.file[n] \in Attempts => d.table.file[n] <= d.tried
      /\ \A m, n \in Fds : d.table.file[m] \in Attempts /\ m # n
                             => d.table.file[m] # d.table.file[n]
      /\ \A m, n \in Fds : d.table.file[m] = Other => d.table.file[n] = Other
  BY <1>1 DEF Sound
<1> QED
  BY <1>1, <1>2, <1>3 DEF Sound

LEMMA ReenteredIs ==
  ASSUME NEW g, Sound(g), g.closed_, NEW d, d = [g EXCEPT !.reentered = TRUE]
  PROVE  Called(g, d)
<1>1. /\ d \in Clients /\ d.table = g.table /\ d.reentered
      /\ SameFlags(g, d) /\ SameNet(g, d)
      /\ d.tried = g.tried /\ d.over = g.over /\ d.late = g.late /\ d.misrouted = g.misrouted
  BY DEF Sound, Clients, SameFlags, SameNet
<1>2. SameNumbers(g, d) /\ d.table.ready \subseteq d.table.epoll
      /\ \A k \in d.input : k <= d.tried
  BY <1>1 DEF Sound, SameNumbers, SameNet
<1>3. Sound(d)
  <2>1. d.closed_ /\ (d.status_ = "Init" => ~ HasSocket(g))
    BY <1>1 DEF Sound, SameFlags
  <2> QED
    BY <1>1, <1>2, <2>1, StaysSound
<1> QED
  BY <1>1, <1>3 DEF Called, SameFlags

LEMMA CloseCallbackIs ==
  ASSUME NEW c, Sound(c), c.closed_, NEW d \in CloseCallback(c)
  PROVE  d = c \/ Called(c, d)
<1>1. c.tried # MaxConnects => c.tried < MaxConnects
  BY ClientIs, ConstantsAre DEF Sound
<1>2. ASSUME c.tried < MaxConnects, NEW g \in ConnectGoesOn(c), d = [g EXCEPT !.reentered = TRUE]
      PROVE  Called(c, d)
  <2>1. Numbered(c, g)
    BY <1>2, GoesOnIs
  <2>2. Sound(g) /\ g.closed_ /\ c.over \subseteq g.over /\ g.misrouted = c.misrouted
    BY <2>1, NumberedSound DEF Numbered, Counted
  <2>3. Called(g, d)
    BY <1>2, <2>2, ReenteredIs
  <2> QED
    BY <2>2, <2>3 DEF Called
<1>3. ASSUME c.tried < MaxConnects, NEW g, g = OnCloseAgain(ConnectFails(c)),
             d = [g EXCEPT !.reentered = TRUE]
      PROVE  Called(c, d)
  <2> DEFINE f == ConnectFails(c)
  <2>1. f = ConnectFails(c) /\ g = OnCloseAgain(f)
    BY <1>3
  <2> HIDE DEF f
  <2>2. NoNumber(c, f) \/ Numbered(c, f)
    BY <1>3, <2>1, FailsIs
  <2>3. Sound(f) /\ f.closed_ /\ c.over \subseteq f.over /\ f.misrouted = c.misrouted
    BY <2>2, NoNumberSound, NumberedSound DEF NoNumber, Numbered, Counted, SameFlags
  <2>4. Shut(f, g)
    BY <2>1, <2>3, OnCloseAgainShuts
  <2>5. Sound(g) /\ g.closed_ /\ f.over = g.over /\ f.misrouted = g.misrouted
    BY <2>3, <2>4, ShutIsSound DEF Shut, SamePast
  <2>6. Called(g, d)
    BY <1>3, <2>5, ReenteredIs
  <2> QED
    BY <2>3, <2>5, <2>6 DEF Called
<1> QED
  BY <1>1, <1>2, <1>3 DEF CloseCallback

LEMMA OnCloseEnds ==
  ASSUME NEW c, Closable(c), NEW d \in OnClose(c)
  PROVE  Ended(c, d)
<1>0. /\ Sound(c) /\ (HasSocket(c) /\ c.closed_ => Socket(c) \in c.late)
      /\ (c.reentered \/ Registered(c))
      /\ (Clean(c) => \A n \in c.table.epoll : Active(c) /\ n = Fd(c))
  BY DEF Closable
\* A closed client leaves the loop.
<1>1. ASSUME NEW e, Shut(c, e)
      PROVE  /\ Sound(e) /\ (e.reentered \/ Registered(e)) /\ ~ Active(e)
             /\ e.closed_ /\ e.over = c.over /\ e.late = c.late /\ e.misrouted = c.misrouted
             /\ e.reentered = c.reentered /\ Fd(e) = Fd(c) /\ Socket(e) = Socket(c)
             /\ (HasSocket(e) <=> HasSocket(c)) /\ e.status_ = "Disconnected"
             /\ Clean(e) => e.table.epoll = {}
  <2>1. Sound(e) /\ (Registered(c) => Registered(e)) /\ e.status_ = "Disconnected" /\ e.closed_
        /\ SamePast(c, e) /\ e.table.epoll \subseteq Fds
    BY <1>0, <1>1, ShutIsSound, TableIs DEF Shut
  <2>2. Fd(e) = Fd(c) /\ Socket(e) = Socket(c) /\ (HasSocket(e) <=> HasSocket(c))
    BY <1>0, <1>1, NumbersSame DEF Shut, Sound
  <2>3. Clean(e) => e.table.epoll = {}
    BY <1>0, <1>1, <2>1 DEF Clean, SamePast, Shut, Left
  <2> QED
    BY <1>0, <2>1, <2>2, <2>3 DEF SamePast, Active
<1>2. CASE c.closed_
  <2>1. d = OnCloseAgain(c)
    BY <1>2 DEF OnClose
  <2>2. Shut(c, d)
    BY <1>0, <1>2, <2>1, OnCloseAgainShuts
  <2>3. /\ Sound(d) /\ (d.reentered \/ Registered(d)) /\ ~ Active(d)
        /\ d.closed_ /\ d.over = c.over /\ d.late = c.late /\ d.misrouted = c.misrouted
        /\ d.reentered = c.reentered /\ Socket(d) = Socket(c)
        /\ (HasSocket(d) <=> HasSocket(c)) /\ d.status_ = "Disconnected"
        /\ Clean(d) => d.table.epoll = {}
    BY <1>1, <2>2
  <2>4. Tidy(d)
    BY <1>0, <1>2, <2>3 DEF Tidy, Heard, Alone, Active
  <2> QED
    BY <2>3, <2>4 DEF Ended
<1>3. CASE ~ c.closed_
  <2> DEFINE e == [OnCloseAgain(c) EXCEPT !.closed_ = TRUE]
  <2>1. PICK g \in CloseCallback(e) : d = CloseSocket(g)
    BY <1>3 DEF OnClose
  <2>2. e = [OnCloseAgain(c) EXCEPT !.closed_ = TRUE]
    OBVIOUS
  <2> HIDE DEF e
  <2>3. Shut(c, e)
    BY <1>0, <2>2, OnCloseShuts
  <2>4. /\ Sound(e) /\ (e.reentered \/ Registered(e)) /\ ~ Active(e)
        /\ e.closed_ /\ e.over = c.over /\ e.misrouted = c.misrouted
        /\ e.reentered = c.reentered /\ Fd(e) = Fd(c)
        /\ (HasSocket(e) <=> HasSocket(c)) /\ e.status_ = "Disconnected"
        /\ Clean(e) => e.table.epoll = {}
    BY <1>1, <2>3
  <2>5. g = e \/ Called(e, g)
    BY <2>4, CloseCallbackIs
  <2>6. Sound(g) /\ g.closed_
    BY <2>4, <2>5 DEF Called
  <2>7. /\ ~ HasSocket(d) /\ SameFlags(g, d) /\ SamePast(g, d) /\ Sound(d)
        /\ d.table.events_ = g.table.events_ /\ d.table.epoll \subseteq Fds
        /\ \A n \in Fds : n \in d.table.epoll <=> n \in g.table.epoll /\ n # Fd(g)
    BY <2>1, <2>6, CloseSocketIs, CloseSocketSound, TableIs
  <2>8. CASE Called(e, g)
    BY <2>4, <2>7, <2>8 DEF Called, Ended, Tidy, Alone, Clean, SameFlags, SamePast
  <2>9. CASE g = e
    <3>1. d.status_ = "Disconnected" /\ d.closed_ /\ d.over = c.over /\ d.misrouted = c.misrouted
          /\ d.reentered = c.reentered
      BY <2>4, <2>7, <2>9 DEF SameFlags, SamePast
    <3>2. Registered(e) => Registered(d)
      <4> SUFFICES ASSUME Registered(e), NEW n \in Fds, d.table.events_[n] # NoObject
                   PROVE  n \in d.table.epoll
        BY DEF Registered
      <4>1. n \in e.table.epoll /\ e.table.events_[n] # NoObject
        BY <2>7, <2>9 DEF Registered
      <4>2. CASE HasSocket(c)
        <5>1. Active(c)
          BY <1>0, <1>3, <4>2, ClientIs DEF Sound, Active
        <5>2. n # Fd(c)
          BY <2>3, <4>1, <5>1 DEF Shut, Left
        <5> QED
          BY <2>4, <2>7, <2>9, <4>1, <5>2
      <4>3. CASE ~ HasSocket(c)
        <5>1. n # Fd(c)
          BY <1>0, <4>3, TableIs DEF Sound
        <5> QED
          BY <2>4, <2>7, <2>9, <4>1, <5>1
      <4> QED
        BY <4>2, <4>3
    <3>3. Clean(d) => d.table.epoll = {}
      BY <2>4, <2>7, <2>9, <3>1 DEF Clean
    <3>4. Tidy(d)
      BY <2>4, <2>7, <3>1, <3>2, <3>3 DEF Tidy, Heard, Alone, Active
    <3> QED
      BY <3>1, <3>4 DEF Ended
  <2> QED
    BY <2>5, <2>8, <2>9
<1> QED
  BY <1>2, <1>3

-----------------------------------------------------------------------------
(* The peer.                                                               *)

\* From c to b, the peer has done something with the socket k.
Touched(c, b, k) ==
  /\ b \in Clients /\ b.table = c.table /\ SameFlags(c, b) /\ SameAsks(c, b) /\ SamePast(c, b)
  /\ \A j \in Attempts : j # k => b.sock[j] = c.sock[j] /\ (j \in b.input <=> j \in c.input)
  /\ c.sock[k] \in {"connecting", "up"} /\ b.sock[k] \in {"up", "refused", "fin", "reset"}
  /\ c.sock[k] = "up" => b.sock[k] \in {"up", "fin", "reset"}

LEMMA PeerStep ==
  ASSUME IInv, NEW k \in OpenSockets, NEW b, Touched(client, b, k), Changes(k, b)
  PROVE  IInv'
<1> DEFINE c == client
           d == client'
           n == CHOOSE m \in Fds : b.table.file[m] = k
<1>0. /\ Tidy(c) /\ Sound(c) /\ c \in Clients /\ k \in Attempts
  BY DEF IInv, Tidy, Sound, OpenSockets
<1>1. n \in Fds /\ c.table.file[n] = k
  <2>1. \E m \in Fds : b.table.file[m] = k
    BY DEF OpenSockets, Touched
  <2> QED
    BY <2>1 DEF Touched
<1>2. /\ d = Poke(b, n) /\ UNCHANGED <<batch, functions_, pc, sends, closes>>
  BY DEF Changes
<1> HIDE DEF n
<1>3. /\ d \in Clients /\ SameNumbers(b, d)
      /\ SameFlags(b, d) /\ SameAsks(b, d) /\ SameNet(b, d) /\ SamePast(b, d)
      /\ d.table.epoll = b.table.epoll /\ d.table.events_ = b.table.events_
      /\ b.table.ready \subseteq d.table.ready
      /\ \A m \in d.table.ready : m \in b.table.ready \/ m \in b.table.epoll
      /\ n \in b.table.epoll /\ Mask(b, n) # {} => n \in d.table.ready
  <2>1. b \in Clients
    BY DEF Touched
  <2> HIDE DEF d
  <2> QED
    BY <1>1, <1>2, <2>1, PokeIs
<1>4. /\ SameNumbers(c, d) /\ SameFlags(c, d) /\ SameAsks(c, d) /\ SamePast(c, d)
      /\ d.table.epoll = c.table.epoll /\ d.table.events_ = c.table.events_
      /\ c.table.ready \subseteq d.table.ready /\ d.table.ready \subseteq d.table.epoll
      /\ d.sock = b.sock /\ d.input = b.input
  BY <1>0, <1>3 DEF Touched, Sound, SameNumbers, SameFlags, SameAsks, SameNet, SamePast
<1> HIDE DEF c, d
<1>5. Fd(d) = Fd(c) /\ Socket(d) = Socket(c) /\ (HasSocket(d) <=> HasSocket(c))
  BY <1>0, <1>3, <1>4, NumbersSame
<1>6. Sound(d)
  <2>1. k <= c.tried
    BY <1>0, <1>1 DEF Sound
  <2>2. \A j \in d.input : j <= d.tried
    <3>1. d.input \subseteq Attempts
      BY <1>3, ClientIs
    <3> QED
      BY <1>0, <1>4, <2>1, <3>1 DEF Touched, Sound, SamePast, c
  <2>3. /\ d.tried = c.tried /\ d.over = c.over /\ d.late = c.late
        /\ d.reentered => d.closed_
        /\ d.status_ = "Disconnected" => d.closed_
        /\ d.status_ = "Init" => ~ HasSocket(c)
    BY <1>0, <1>4 DEF Sound, SameFlags, SamePast
  <2> QED
    BY <1>0, <1>3, <1>4, <2>2, <2>3, StaysSound
\* The client hears of its socket.
<1>7. ASSUME Active(c), ~ c.reentered, HasSocket(c), Socket(c) = k
      PROVE  n = Fd(c) /\ n \in c.table.epoll /\ "IN" \in c.asked[n]
             /\ (c.status_ = "Connecting" => "OUT" \in c.asked[n])
             /\ b.asked = c.asked /\ b.table = c.table /\ c.table.file[n] = k
  <2>1. Heard(c)
    BY <1>0, <1>7 DEF Tidy
  <2>2. n = Fd(c)
    BY <1>0, <1>1, <1>7, TableIs DEF Sound, c
  <2> QED
    BY <1>1, <1>7, <2>1, <2>2 DEF Heard, Touched, SameAsks, c
<1>8. ASSUME Active(c), ~ c.reentered, HasSocket(c), Socket(c) = k,
             k \in d.input \/ d.sock[k] \in {"fin", "reset"}
      PROVE  Fd(d) \in d.table.ready
  <2>1. "IN" \in Mask(b, n)
    BY <1>4, <1>7, <1>8 DEF Mask, Failed
  <2> QED
    BY <1>3, <1>5, <1>7, <1>8, <2>1
<1>9. ASSUME c.status_ = "Connecting", ~ c.reentered, HasSocket(c), Socket(c) = k
      PROVE  Fd(d) \in d.table.ready
  <2>1. Active(c)
    BY <1>9 DEF Active
  <2>2. "OUT" \in Mask(b, n)
    BY <1>7, <1>9, <2>1 DEF Mask, Touched
  <2> QED
    BY <1>3, <1>5, <1>7, <1>9, <2>1, <2>2
<1>10. Tidy(d)
  <2>1. Registered(c) => Registered(d)
    BY <1>4 DEF Registered
  <2>2. Heard(c) => Heard(d)
    BY <1>4, <1>5 DEF Heard, Active, SameFlags, SameAsks
  <2>3. ASSUME Clean(d)
        PROVE  /\ \A m \in d.table.epoll : Active(d) /\ m = Fd(d)
               /\ d.status_ = "Connecting" =>
                    /\ d.sock[Socket(d)] # "none"
                    /\ d.sock[Socket(d)] = "connecting" => Socket(d) \notin d.input
               /\ d.status_ = "Connected" => d.sock[Socket(d)] \in {"up", "fin", "reset"}
    <3>1. Clean(c) /\ Alone(c) /\ Heard(c)
      BY <1>0, <1>4, <2>3 DEF Clean, SamePast, Tidy
    <3>2. \A m \in d.table.epoll : Active(d) /\ m = Fd(d)
      BY <1>4, <1>5, <3>1 DEF Alone, Active, SameFlags
    <3>3. Active(d) => HasSocket(c) /\ Socket(c) \in Attempts
      BY <1>0, <1>4, <3>1 DEF Heard, Active, SameFlags, Sound
    <3>4. Active(d) => \/ /\ d.sock[Socket(c)] = c.sock[Socket(c)]
                          /\ Socket(c) \in d.input => Socket(c) \in c.input
                       \/ Socket(c) = k
      BY <1>4, <3>3 DEF Touched, c
    <3>5. /\ c.status_ = "Connecting" =>
               /\ c.sock[Socket(c)] # "none"
               /\ c.sock[Socket(c)] = "connecting" => Socket(c) \notin c.input
          /\ c.status_ = "Connected" => c.sock[Socket(c)] \in {"up", "fin", "reset"}
      BY <3>1 DEF Alone
    <3>6. /\ b.sock[k] \notin {"none", "connecting"}
          /\ c.sock[k] = "up" => d.sock[k] \in {"up", "fin", "reset"}
          /\ c.sock[k] \in {"connecting", "up"}
      BY <1>4 DEF Touched, c
    <3>7. d.status_ = c.status_ /\ d.sock = b.sock
      BY <1>4 DEF SameFlags
    <3>8. d.status_ = "Connecting" =>
               /\ d.sock[Socket(d)] # "none"
               /\ d.sock[Socket(d)] = "connecting" => Socket(d) \notin d.input
      BY <1>5, <3>4, <3>5, <3>6, <3>7 DEF Active
    <3>9. d.status_ = "Connected" => d.sock[Socket(d)] \in {"up", "fin", "reset"}
      BY <1>5, <3>4, <3>5, <3>6, <3>7 DEF Active
    <3> QED
      BY <3>2, <3>8, <3>9
  <2> QED
    BY <1>0, <1>4, <1>5, <1>6, <2>1, <2>2, <2>3 DEF Tidy, Alone, SameFlags, SamePast
<1>11. BatchInv' /\ LoopTyped'
  <2>1. LoopTyped'
    BY <1>2 DEF IInv, LoopTyped
  <2>2. pc' = "Dispatch" <=> batch' # << >>
    BY <1>2 DEF IInv, BatchInv
  <2>3. ASSUME Clean(d)
        PROVE  /\ Len(batch') <= 1
               /\ \A i \in DOMAIN batch' : /\ HasSocket(d) /\ batch'[i].fd = Fd(d)
                                           /\ d.sock[Socket(d)] # "connecting"
    <3>1. Clean(c)
      BY <1>4, <2>3 DEF Clean, SamePast
    <3>2. /\ Len(batch) <= 1
          /\ \A i \in DOMAIN batch : /\ HasSocket(c) /\ batch[i].fd = Fd(c)
                                     /\ c.sock[Socket(c)] # "connecting"
      BY <3>1 DEF IInv, BatchInv, c
    <3>3. HasSocket(c) => Socket(c) \in Attempts
      BY <1>0 DEF Sound
    <3>4. HasSocket(c) => d.sock[Socket(c)] = c.sock[Socket(c)] \/ d.sock[Socket(c)] # "connecting"
      BY <1>4, <3>3 DEF Touched, c
    <3> QED
      BY <1>2, <1>5, <3>2, <3>4
  <2> QED
    BY <2>1, <2>2, <2>3 DEF BatchInv, d
<1>12. InputInv'
  <2> SUFFICES ASSUME HasSocket(d), ~ d.closed_,
                      Socket(d) \in d.input \/ d.sock[Socket(d)] \in {"fin", "reset"}
               PROVE  \/ Fd(d) \in d.table.ready
                      \/ Socket(d) \in d.swallowed
                      \/ \E i \in DOMAIN batch' :
                           batch'[i].fd = Fd(d) /\ batch'[i].handler \in {"OnRead", "OnError"}
    BY DEF InputInv, Coming, d
  <2>1. HasSocket(c) /\ ~ c.closed_ /\ ~ c.reentered /\ Active(c) /\ Socket(c) \in Attempts
    <3>1. HasSocket(c) /\ ~ c.closed_
      BY <1>4, <1>5 DEF SameFlags
    <3> QED
      BY <1>0, <3>1, ClientIs DEF Sound, Active
  <2>2. CASE Socket(c) = k
    BY <1>5, <1>8, <2>1, <2>2
  <2>3. CASE Socket(c) # k
    <3>1. Socket(c) \in c.input \/ c.sock[Socket(c)] \in {"fin", "reset"}
      BY <1>4, <1>5, <2>1, <2>3 DEF Touched, c
    <3>2. \/ Fd(c) \in c.table.ready
          \/ Socket(c) \in c.swallowed
          \/ \E i \in DOMAIN batch :
               batch[i].fd = Fd(c) /\ batch[i].handler \in {"OnRead", "OnError"}
      BY <2>1, <3>1 DEF IInv, InputInv, Coming, c
    <3> QED
      BY <1>2, <1>4, <1>5, <3>2 DEF SamePast
  <2> QED
    BY <2>2, <2>3
<1>13. OutcomeInv'
  <2> SUFFICES ASSUME ~ d.reentered, d.status_ = "Connecting"
               PROVE  \/ d.sock[Socket(d)] = "connecting"
                      \/ Fd(d) \in d.table.ready
                      \/ \E i \in DOMAIN batch' :
                           /\ batch'[i].fd = Fd(d)
                           /\ batch'[i].handler \in {"OnRead", "OnWrite", "OnError"}
    BY DEF OutcomeInv, Coming, d
  <2>1. ~ c.reentered /\ c.status_ = "Connecting" /\ HasSocket(c) /\ Socket(c) \in Attempts
    BY <1>0, <1>4 DEF SamePast, SameFlags, Tidy, Heard, Active, Sound
  <2>2. CASE Socket(c) = k
    BY <1>9, <2>1, <2>2
  <2>3. CASE Socket(c) # k
    <3>1. d.sock[Socket(c)] = c.sock[Socket(c)]
      BY <1>4, <2>1, <2>3 DEF Touched, c
    <3>2. \/ c.sock[Socket(c)] = "connecting"
          \/ Fd(c) \in c.table.ready
          \/ \E i \in DOMAIN batch :
               /\ batch[i].fd = Fd(c)
               /\ batch[i].handler \in {"OnRead", "OnWrite", "OnError"}
      BY <2>1 DEF IInv, OutcomeInv, Coming, c
    <3> QED
      BY <1>2, <1>4, <1>5, <3>1, <3>2
  <2> QED
    BY <2>2, <2>3
<1>14. SendInv'
  <2>1. SendInv
    BY DEF IInv
  <2>2. d.misrouted = c.misrouted /\ d.over = c.over /\ d.closed_ = c.closed_
    BY <1>4 DEF SamePast, SameFlags
  <2> QED
    BY <1>2, <1>5, <2>1, <2>2 DEF SendInv, c, d
<1> QED
  BY <1>10, <1>11, <1>12, <1>13, <1>14 DEF IInv, d

LEMMA PeersStep ==
  ASSUME IInv, NEW k \in Attempts, PeerAnswers(k) \/ PeerSends(k) \/ PeerEnds(k)
  PROVE  IInv'
<1> DEFINE c == client
<1>1. /\ c \in Clients
      /\ c.sock \in [Attempts -> {"none", "connecting", "refused", "up", "fin", "reset"}]
      /\ c.input \subseteq Attempts
  BY ClientIs DEF IInv, Tidy, Sound
<1>2. ASSUME NEW how \in {"up", "refused", "fin", "reset"}, c.sock[k] \in {"connecting", "up"},
             c.sock[k] = "up" => how \in {"fin", "reset"}
      PROVE  Touched(c, [c EXCEPT !.sock[k] = how], k)
  <2> DEFINE net == [c.sock EXCEPT ![k] = how]
             b == [c EXCEPT !.sock = net]
  <2>1. /\ net \in [Attempts -> {"none", "connecting", "refused", "up", "fin", "reset"}]
        /\ net[k] = how /\ \A j \in Attempts : j # k => net[j] = c.sock[j]
    BY <1>1, <1>2
  <2>2. b = [c EXCEPT !.sock = net] /\ b = [c EXCEPT !.sock[k] = how]
    OBVIOUS
  <2> HIDE DEF net, b, c
  <2>3. /\ b \in Clients /\ b.table = c.table /\ b.sock = net /\ b.input = c.input
        /\ SameFlags(c, b) /\ SameAsks(c, b) /\ SamePast(c, b)
    BY <1>1, <2>1, <2>2 DEF Clients, SameFlags, SameAsks, SamePast
  <2>4. Touched(c, b, k)
    BY <1>2, <2>1, <2>3 DEF Touched
  <2> QED
    BY <2>2, <2>4
<1>3. CASE PeerAnswers(k)
  <2>1. PICK how \in {"up", "refused"} : Changes(k, [c EXCEPT !.sock[k] = how])
    BY <1>3 DEF PeerAnswers
  <2>2. c.sock[k] = "connecting" /\ k \in OpenSockets
    BY <1>3 DEF PeerAnswers
  <2>3. Touched(c, [c EXCEPT !.sock[k] = how], k)
    BY <1>2, <2>2
  <2> QED
    BY <2>1, <2>2, <2>3, PeerStep
<1>4. CASE PeerEnds(k)
  <2>1. PICK how \in {"fin", "reset"} : Changes(k, [c EXCEPT !.sock[k] = how])
    BY <1>4 DEF PeerEnds
  <2>2. c.sock[k] = "up" /\ k \in OpenSockets
    BY <1>4 DEF PeerEnds
  <2>3. Touched(c, [c EXCEPT !.sock[k] = how], k)
    BY <1>2, <2>2
  <2> QED
    BY <2>1, <2>2, <2>3, PeerStep
<1>5. CASE PeerSends(k)
  <2> DEFINE b == [c EXCEPT !.input = c.input \cup {k}]
  <2>1. Changes(k, b) /\ c.sock[k] = "up" /\ k \in OpenSockets
    BY <1>5 DEF PeerSends
  <2>2. b = [c EXCEPT !.input = c.input \cup {k}]
    OBVIOUS
  <2> HIDE DEF b, c
  <2>3. /\ b \in Clients /\ b.table = c.table /\ b.sock = c.sock /\ b.input = c.input \cup {k}
        /\ SameFlags(c, b) /\ SameAsks(c, b) /\ SamePast(c, b)
    BY <1>1, <2>2 DEF Clients, SameFlags, SameAsks, SamePast
  <2>4. Touched(c, b, k)
    BY <2>1, <2>3 DEF Touched
  <2> QED
    BY <2>1, <2>4, PeerStep DEF c
<1> QED
  BY <1>3, <1>4, <1>5

LEMMA OtherClosesStep == IInv /\ OtherCloses => IInv'
<1> SUFFICES ASSUME IInv, OtherCloses
             PROVE  IInv'
  OBVIOUS
<1> DEFINE c == client
           d == client'
           t == c.table
           u == d.table
           files == [n \in Fds |-> NoFile]
<1>0. c \in Clients /\ Tidy(c) /\ Sound(c) /\ t \in Tables(Files)
  BY ClientIs DEF IInv, Tidy, Sound
<1>1. /\ d = [c EXCEPT !.table = [t EXCEPT !.file = files]]
      /\ UNCHANGED <<batch, functions_, pc, sends, closes>>
  BY DEF OtherCloses
<1>2. PICK m \in Fds : t.file[m] = Other
  BY DEF OtherCloses
<1>3. /\ d \in Clients /\ u.file = files /\ u.epoll = t.epoll /\ u.ready = t.ready
      /\ u.events_ = t.events_ /\ u.fd_ = t.fd_
      /\ SameFlags(c, d) /\ SameAsks(c, d) /\ SameNet(c, d) /\ SamePast(c, d)
  <2> DEFINE v == [t EXCEPT !.file = files]
  <2>1. files \in [Fds -> Files \cup {NoFile}] /\ d = [c EXCEPT !.table = v]
        /\ v = [t EXCEPT !.file = files]
    BY <1>1
  <2> HIDE DEF v, files, t, d
  <2>2. /\ v \in Tables(Files) /\ v.file = files /\ v.epoll = t.epoll /\ v.ready = t.ready
        /\ v.events_ = t.events_ /\ v.fd_ = t.fd_
    BY <1>0, <2>1 DEF Tables
  <2>3. /\ d \in Clients /\ d.table = v
        /\ SameFlags(c, d) /\ SameAsks(c, d) /\ SameNet(c, d) /\ SamePast(c, d)
    BY <1>0, <2>1, <2>2, WithTable
  <2> QED
    BY <2>2, <2>3
<1>4. \A n \in Fds : t.file[n] = Other /\ u.file[n] = NoFile
  BY <1>0, <1>2, <1>3 DEF Sound
<1> HIDE DEF files, u, d, t, c
<1>5. ~ HasSocket(c) /\ c.table.epoll = {}
  <2>1. \A n \in Fds : t.file[n] \notin Attempts
    BY <1>4, ConstantsAre
  <2> QED
    BY <1>0, <2>1, TableIs DEF Sound, t
<1>6. ~ HasSocket(d)
  BY <1>3, <1>5 DEF HasSocket, IsOpen, u, t
<1>7. d.table.epoll = {} /\ d.table.ready = {}
  BY <1>0, <1>3, <1>5 DEF Sound, u, t
<1>8. Sound(d)
  <2>1. \A n \in Fds : d.table.file[n] = NoFile
    BY <1>4 DEF u
  <2>2. Opened(d) = {}
    BY <2>1, ConstantsAre DEF Opened
  <2>3. /\ \A k \in d.input : k <= d.tried
        /\ d.reentered => d.closed_
        /\ d.status_ = "Disconnected" => d.closed_
    BY <1>0, <1>3 DEF Sound, SameFlags, SameNet, SamePast
  <2> QED
    BY <1>3, <1>6, <1>7, <2>1, <2>2, <2>3, ConstantsAre DEF Sound
<1>9. ~ d.reentered => Registered(c) /\ ~ Active(c)
  BY <1>0, <1>3, <1>5 DEF SamePast, Tidy, Heard
<1>10. ~ d.reentered => Registered(d) /\ ~ Active(d)
  BY <1>3, <1>5, <1>7, <1>9 DEF Registered, Active, SameFlags, u, t
<1>11. Tidy(d)
  BY <1>6, <1>7, <1>8, <1>10 DEF Tidy, Heard, Alone, Clean, Active
<1>12. LoopTyped' /\ BatchInv'
  <2>1. LoopTyped /\ BatchInv
    BY DEF IInv
  <2>2. Clean(c) <=> Clean(d)
    BY <1>3 DEF Clean, SamePast
  <2>3. Clean(d) => batch = << >>
    <3>1. Clean(c) => \A i \in DOMAIN batch : FALSE
      BY <1>5, <2>1 DEF BatchInv, c
    <3>2. batch \in Seq(Reports)
      BY <2>1 DEF LoopTyped
    <3>3. batch # << >> => 1 \in DOMAIN batch
      BY <3>2
    <3> QED
      BY <2>2, <3>1, <3>3
  <2> QED
    BY <1>1, <2>1, <2>2, <2>3 DEF LoopTyped, BatchInv, d
<1>13. InputInv'
  BY <1>6 DEF InputInv, d
<1>14. OutcomeInv'
  BY <1>10 DEF OutcomeInv, Active, d
<1>15. SendInv'
  <2>1. SendInv
    BY DEF IInv
  <2> QED
    BY <1>1, <1>3, <1>5, <2>1 DEF SendInv, SameFlags, SamePast, c, d
<1> QED
  BY <1>11, <1>12, <1>13, <1>14, <1>15 DEF IInv, d

-----------------------------------------------------------------------------
(* Other threads.                                                          *)

LEMMA AppendTyped ==
  ASSUME NEW S, NEW s \in Seq(S), NEW x \in S, NEW u, u = Append(s, x)
  PROVE  u \in Seq(S) /\ \A i \in DOMAIN u : (i \in DOMAIN s /\ u[i] = s[i]) \/ u[i] = x
  OBVIOUS

LEMMA QueueStep ==
  ASSUME IInv, NEW f \in Functions, Queue(f),
         sends' \in 0 .. MaxSends, closes' \in 0 .. MaxCloses,
         f.op = "Send" => HasSocket(client) /\ Socket(client) = f.to
  PROVE  IInv'
<1>1. functions_' = Append(functions_, f) /\ UNCHANGED <<client, batch, pc>>
  BY DEF Queue
<1>2. functions_ \in Seq(Functions)
  BY DEF IInv, LoopTyped
<1> DEFINE u == functions_'
<1>3. u = Append(functions_, f)
  BY <1>1
<1> HIDE DEF u
<1>4. u \in Seq(Functions)
      /\ \A i \in DOMAIN u : (i \in DOMAIN functions_ /\ u[i] = functions_[i]) \/ u[i] = f
  BY <1>2, <1>3, AppendTyped
<1>5. LoopTyped'
  BY <1>1, <1>4 DEF IInv, LoopTyped, u
<1>6. SendInv'
  <2>1. SendInv
    BY DEF IInv
  <2>2. ASSUME NEW i \in DOMAIN u, u[i].op = "Send"
        PROVE  \/ client.closed_ \/ u[i].to \in client.over
               \/ HasSocket(client) /\ Socket(client) = u[i].to
    <3>1. CASE i \in DOMAIN functions_ /\ u[i] = functions_[i]
      BY <2>1, <2>2, <3>1 DEF SendInv
    <3>2. CASE u[i] = f
      BY <2>2, <3>2
    <3> QED
      BY <1>4, <3>1, <3>2
  <2> QED
    BY <1>1, <2>1, <2>2 DEF SendInv, u
<1> QED
  BY <1>1, <1>5, <1>6 DEF IInv, BatchInv, InputInv, OutcomeInv, Coming

LEMMA CallStep == IInv /\ (CallConnect \/ CallSend \/ CallForceClose) => IInv'
<1> SUFFICES ASSUME IInv, CallConnect \/ CallSend \/ CallForceClose
             PROVE  IInv'
  OBVIOUS
<1>0. sends \in 0 .. MaxSends /\ closes \in 0 .. MaxCloses
      /\ MaxSends \in Nat /\ MaxCloses \in Nat
  BY ClientAssumption DEF IInv, LoopTyped
<1>1. CASE CallConnect
  <2> DEFINE f == [op |-> "Connect"]
  <2>1. f \in Functions /\ f.op # "Send" /\ Queue(f)
    BY <1>1 DEF Functions, CallConnect
  <2>2. sends' \in 0 .. MaxSends /\ closes' \in 0 .. MaxCloses
    BY <1>0, <1>1 DEF CallConnect
  <2> HIDE DEF f
  <2> QED
    BY <2>1, <2>2, QueueStep
<1>2. CASE CallForceClose
  <2> DEFINE f == [op |-> "ForceClose"]
  <2>1. f \in Functions /\ f.op # "Send" /\ Queue(f)
    BY <1>2 DEF Functions, CallForceClose
  <2>2. sends' \in 0 .. MaxSends /\ closes' \in 0 .. MaxCloses
    BY <1>0, <1>2 DEF CallForceClose
  <2> HIDE DEF f
  <2> QED
    BY <2>1, <2>2, QueueStep
<1>3. CASE CallSend
  <2> DEFINE f == [op |-> "Send", to |-> Socket(client)]
  <2>1. HasSocket(client) /\ Socket(client) \in Attempts
    BY <1>3 DEF CallSend, IInv, Tidy, Sound
  <2>2. f \in Functions /\ f.to = Socket(client) /\ Queue(f)
    BY <1>3, <2>1 DEF Functions, CallSend
  <2>3. sends' \in 0 .. MaxSends /\ closes' \in 0 .. MaxCloses
    BY <1>0, <1>3 DEF CallSend
  <2> HIDE DEF f
  <2> QED
    BY <2>1, <2>2, <2>3, QueueStep
<1> QED
  BY <1>1, <1>2, <1>3

-----------------------------------------------------------------------------
(* The loop.                                                               *)

\* A client that is neither closed nor idle is registered and hears.
LEMMA OpenHears ==
  ASSUME NEW c, Tidy(c), HasSocket(c), ~ c.closed_
  PROVE  Active(c) /\ Heard(c) /\ ~ c.reentered /\ Fd(c) \in c.table.epoll
         /\ "IN" \in c.asked[Fd(c)]
<1>1. Sound(c) /\ c \in Clients
  BY DEF Tidy, Sound
<1>2. Active(c) /\ ~ c.reentered
  BY <1>1, ClientIs DEF Sound, Active
<1> QED
  BY <1>2 DEF Tidy, Heard

Report(n) == [fd |-> n, handler |-> Handler(Mask(client, n))]

LEMMA EpollReturnsStep == IInv /\ EpollReturns => IInv'
<1> SUFFICES ASSUME IInv, EpollReturns
             PROVE  IInv'
  OBVIOUS
<1> DEFINE c == client
           d == client'
           t == c.table
           true == {n \in t.ready : Mask(c, n) # {}}
           S == {Report(n) : n \in true}
           rest == {n \in true : "ET" \notin c.asked[n]}
<1>0. c \in Clients /\ Tidy(c) /\ Sound(c) /\ t \in Tables(Files)
      /\ t.ready \subseteq t.epoll /\ t.epoll \subseteq Fds
      /\ LoopTyped /\ BatchInv /\ InputInv /\ OutcomeInv /\ SendInv
  BY ClientIs, TableIs DEF IInv, Tidy, Sound
<1>1. /\ pc = "EpollWait" /\ batch' \in SetToSeqs(S)
      /\ d = [c EXCEPT !.table = [t EXCEPT !.ready = rest]]
      /\ pc' = IF true = {} THEN "RunFuctions" ELSE "Dispatch"
      /\ UNCHANGED <<functions_, sends, closes>>
  BY DEF EpollReturns, Report
<1>2. batch = << >>
  BY <1>0, <1>1 DEF BatchInv
<1>3. /\ d \in Clients /\ d.table.file = t.file /\ d.table.fd_ = t.fd_
      /\ d.table.epoll = t.epoll /\ d.table.events_ = t.events_ /\ d.table.ready = rest
      /\ SameFlags(c, d) /\ SameAsks(c, d) /\ SameNet(c, d) /\ SamePast(c, d)
  <2> DEFINE v == [t EXCEPT !.ready = rest]
  <2>1. rest \subseteq Fds /\ d = [c EXCEPT !.table = v] /\ v = [t EXCEPT !.ready = rest]
    BY <1>0, <1>1
  <2> HIDE DEF v, rest, t, d
  <2>2. /\ v \in Tables(Files) /\ v.file = t.file /\ v.fd_ = t.fd_ /\ v.epoll = t.epoll
        /\ v.events_ = t.events_ /\ v.ready = rest
    BY <1>0, <2>1 DEF Tables
  <2>3. /\ d \in Clients /\ d.table = v
        /\ SameFlags(c, d) /\ SameAsks(c, d) /\ SameNet(c, d) /\ SamePast(c, d)
    BY <1>0, <2>1, <2>2, WithTable
  <2> QED
    BY <2>2, <2>3
<1>4. rest \subseteq t.ready /\ true \subseteq t.ready
  OBVIOUS
<1>5. \A n \in true : n \in Fds /\ Report(n) \in Reports /\ Report(n).fd = n
                      /\ ("IN" \in Mask(c, n) => Report(n).handler \in {"OnRead", "OnError"})
  BY <1>0, <1>4 DEF Report, Reports, Handler
<1>6. IsFiniteSet(S)
  <2> DEFINE g == [n \in true |-> Report(n)]
  <2>1. IsFiniteSet(true)
    <3>1. true \subseteq Fds /\ IsFiniteSet(Fds)
      BY <1>0, <1>4, ConstantsAre
    <3> QED
      BY <3>1, FS_Subset
  <2>2. g \in Surjection(true, S)
    BY DEF Surjection
  <2> QED
    BY <2>1, <2>2, FS_Surjection
<1> DEFINE list == batch'
<1>7. /\ list \in Seq(S)
      /\ \A i, j \in 1 .. Len(list) : i # j => list[i] # list[j]
      /\ \A x \in S : \E i \in 1 .. Len(list) : list[i] = x
  <2>1. list \in SetToSeqs(S)
    BY <1>1
  <2> HIDE DEF list, S
  <2> QED
    BY <1>6, <2>1, SeqsOfSet
<1>8. \A n \in true : Report(n) \in S
  OBVIOUS
<1>9. \A x \in S : x.fd \in true /\ x = Report(x.fd) /\ x \in Reports
  BY <1>5
<1> HIDE DEF S, true, rest, list
<1>10. /\ list \in Seq(Reports) /\ DOMAIN list = 1 .. Len(list)
       /\ \A i \in DOMAIN list : list[i].fd \in true /\ list[i] = Report(list[i].fd)
       /\ \A n \in true : \E i \in DOMAIN list : list[i] = Report(n)
  <2>1. list \in Seq(Reports) /\ DOMAIN list = 1 .. Len(list)
    BY <1>7, <1>9
  <2>2. \A i \in DOMAIN list : list[i] \in S
    BY <1>7
  <2> QED
    BY <1>7, <1>8, <1>9, <2>1, <2>2
<1>11. list # << >> <=> true # {}
  <2>1. list # << >> => 1 \in DOMAIN list
    BY <1>10
  <2>2. true # {} => list # << >>
    BY <1>10
  <2> QED
    BY <1>10, <2>1, <2>2
<1> HIDE DEF c, d, t
<1>12. Fd(d) = Fd(c) /\ Socket(d) = Socket(c) /\ (HasSocket(d) <=> HasSocket(c))
  BY <1>3 DEF Fd, Socket, HasSocket, FileOf, IsOpen, t
<1>13. Tidy(d)
  <2>1. Sound(d)
    <3>1. SameNumbers(c, d) /\ d.table.epoll = c.table.epoll
          /\ d.table.events_ = c.table.events_ /\ d.table.ready \subseteq d.table.epoll
      BY <1>0, <1>3, <1>4 DEF SameNumbers, t
    <3>2. /\ \A k \in d.input : k <= d.tried
          /\ d.tried = c.tried /\ d.over = c.over /\ d.late = c.late
          /\ d.reentered => d.closed_
          /\ d.status_ = "Disconnected" => d.closed_
          /\ d.status_ = "Init" => ~ HasSocket(c)
      BY <1>0, <1>3 DEF Sound, SameFlags, SameNet, SamePast
    <3> QED
      BY <1>0, <1>3, <3>1, <3>2, StaysSound
  <2>2. Registered(c) => Registered(d)
    BY <1>3 DEF Registered, t
  <2>3. Heard(c) => Heard(d)
    BY <1>3, <1>12 DEF Heard, Active, SameFlags, SameAsks, t
  <2>4. Alone(d)
    BY <1>0, <1>3, <1>12 DEF Tidy, Alone, Clean, Active, SameFlags, SameNet, SamePast, t
  <2> QED
    BY <1>0, <1>3, <1>12, <2>1, <2>2, <2>3, <2>4 DEF Tidy, SameFlags, SamePast
<1>14. LoopTyped'
  BY <1>0, <1>1, <1>10 DEF LoopTyped, list
<1>15. ASSUME Clean(c), NEW n \in true
       PROVE  HasSocket(c) /\ n = Fd(c) /\ c.sock[Socket(c)] # "connecting"
  <2>1. n \in t.epoll /\ n \in Fds /\ Mask(c, n) # {}
    BY <1>0, <1>4, <1>15 DEF true
  <2>2. Active(c) /\ n = Fd(c) /\ HasSocket(c) /\ Socket(c) = c.table.file[n]
    BY <1>0, <1>15, <2>1, TableIs DEF Tidy, Alone, t
  <2>3. /\ c.status_ = "Connecting" =>
             (c.sock[Socket(c)] = "connecting" => Socket(c) \notin c.input)
        /\ c.status_ = "Connected" => c.sock[Socket(c)] \in {"up", "fin", "reset"}
    BY <1>0, <1>15 DEF Tidy, Alone
  <2>4. ASSUME c.sock[Socket(c)] = "connecting"
        PROVE  Mask(c, n) = {}
    <3>1. Socket(c) \notin c.input
      BY <2>2, <2>3, <2>4 DEF Active
    <3> QED
      BY <2>2, <2>4, <3>1 DEF Mask, Failed
  <2> QED
    BY <2>1, <2>2, <2>4
<1>16. BatchInv'
  <2>1. pc' = "Dispatch" <=> list # << >>
    BY <1>1, <1>11
  <2>2. ASSUME Clean(d)
        PROVE  /\ Len(list) <= 1
               /\ \A i \in DOMAIN list : /\ HasSocket(d) /\ list[i].fd = Fd(d)
                                         /\ d.sock[Socket(d)] # "connecting"
    <3>1. Clean(c)
      BY <1>3, <2>2 DEF Clean, SamePast
    <3>2. \A i \in DOMAIN list : HasSocket(c) /\ list[i].fd = Fd(c)
                                 /\ c.sock[Socket(c)] # "connecting"
      BY <1>10, <1>15, <3>1
    <3>3. \A i, j \in DOMAIN list : list[i] = list[j]
      <4>1. \A i \in DOMAIN list : list[i] = Report(Fd(c))
        BY <1>10, <3>2
      <4> QED
        BY <4>1
    <3>4. Len(list) <= 1
      <4>1. Len(list) \in Nat
        BY <1>10
      <4>2. ~ (Len(list) >= 2)
        <5> SUFFICES ASSUME Len(list) >= 2
                     PROVE  FALSE
          OBVIOUS
        <5>1. 1 \in 1 .. Len(list) /\ 2 \in 1 .. Len(list)
          BY <4>1
        <5> QED
          BY <1>7, <1>10, <3>3, <5>1
      <4> QED
        BY <4>1, <4>2
    <3> QED
      BY <1>3, <1>12, <3>2, <3>4 DEF SameNet
  <2> QED
    BY <2>1, <2>2 DEF BatchInv, d, list
<1>17. InputInv'
  <2> SUFFICES ASSUME HasSocket(d), ~ d.closed_,
                      Socket(d) \in d.input \/ d.sock[Socket(d)] \in {"fin", "reset"}
               PROVE  \/ Fd(d) \in d.table.ready
                      \/ Socket(d) \in d.swallowed
                      \/ \E i \in DOMAIN list :
                           list[i].fd = Fd(d) /\ list[i].handler \in {"OnRead", "OnError"}
    BY DEF InputInv, Coming, d, list
  <2>1. /\ HasSocket(c) /\ ~ c.closed_
        /\ Socket(c) \in c.input \/ c.sock[Socket(c)] \in {"fin", "reset"}
    BY <1>3, <1>12 DEF SameFlags, SameNet
  <2>2. Fd(c) \in c.table.ready \/ Socket(c) \in c.swallowed
    BY <1>0, <1>2, <2>1 DEF InputInv, Coming, c
  <2>3. CASE Fd(c) \in c.table.ready
    <3>1. "IN" \in c.asked[Fd(c)] /\ Socket(c) = c.table.file[Fd(c)]
      BY <1>0, <2>1, OpenHears, TableIs
    <3>2. "IN" \in Mask(c, Fd(c))
      BY <2>1, <3>1 DEF Mask, Failed
    <3>3. Fd(c) \in true
      BY <2>3, <3>2 DEF true, t
    <3>4. PICK i \in DOMAIN list : list[i] = Report(Fd(c))
      BY <1>10, <3>3
    <3> QED
      BY <1>5, <1>12, <3>2, <3>3, <3>4
  <2>4. CASE Socket(c) \in c.swallowed
    BY <1>3, <1>12, <2>4 DEF SamePast
  <2> QED
    BY <2>2, <2>3, <2>4
<1>18. OutcomeInv'
  <2> SUFFICES ASSUME ~ d.reentered, d.status_ = "Connecting", d.sock[Socket(d)] # "connecting"
               PROVE  \E i \in DOMAIN list :
                        /\ list[i].fd = Fd(d)
                        /\ list[i].handler \in {"OnRead", "OnWrite", "OnError"}
    BY DEF OutcomeInv, Coming, d, list
  <2>1. ~ c.reentered /\ c.status_ = "Connecting" /\ c.sock[Socket(c)] # "connecting"
    BY <1>3, <1>12 DEF SameFlags, SameNet, SamePast
  <2>2. Fd(c) \in c.table.ready
    BY <1>0, <1>2, <2>1 DEF OutcomeInv, Coming, c
  <2>3. "OUT" \in c.asked[Fd(c)] /\ Socket(c) = c.table.file[Fd(c)]
    BY <1>0, <2>1, TableIs DEF Tidy, Heard, Active
  <2>4. "OUT" \in Mask(c, Fd(c))
    BY <2>1, <2>3 DEF Mask
  <2>5. Fd(c) \in true
    BY <2>2, <2>4 DEF true, t
  <2>6. PICK i \in DOMAIN list : list[i] = Report(Fd(c))
    BY <1>10, <2>5
  <2> QED
    BY <1>5, <1>12, <2>5, <2>6 DEF Reports
<1>19. SendInv'
  <2>1. d.misrouted = c.misrouted /\ d.over = c.over /\ d.closed_ = c.closed_
    BY <1>3 DEF SamePast, SameFlags
  <2> QED
    BY <1>0, <1>1, <1>12, <2>1 DEF SendInv, c, d
<1> QED
  BY <1>13, <1>14, <1>16, <1>17, <1>18, <1>19 DEF IInv, d

\* From c to d, the client began an attempt, which has a socket.
Begun(c, d) ==
  /\ Tidy(d) /\ d.closed_ = c.closed_ /\ d.misrouted = c.misrouted
  /\ c.over \subseteq d.over /\ (HasSocket(c) => Socket(c) \in d.over)
  /\ d.reentered = c.reentered /\ HasSocket(d) /\ Socket(d) \notin d.input
  /\ \/ d.status_ = "Connecting" /\ d.sock[Socket(d)] = "connecting"
     \/ d.status_ = "Connected" /\ d.sock[Socket(d)] = "up"

LEMMA BegunIs ==
  ASSUME NEW c, Tidy(c), c.tried < MaxConnects, NEW d \in ConnectGoesOn(c)
  PROVE  Begun(c, d)
<1>1. Sound(c)
  BY DEF Tidy
<1>2. /\ Numbered(c, d)
      /\ \/ d.status_ = "Connecting" /\ d.sock[Socket(d)] = "connecting"
         \/ d.status_ = "Connected" /\ d.sock[Socket(d)] = "up"
  BY <1>1, GoesOnIs
<1>3. Closable(d) /\ (d.reentered \/ Heard(d)) /\ Sound(d) /\ Socket(d) = d.tried
  BY <1>1, <1>2, NumberedClosable, NumberedSound
<1>4. Socket(d) \notin d.input
  <2>1. d.tried = c.tried + 1 /\ d.input = c.input /\ c.tried \in Nat
    <3>1. c.tried \in 0 .. MaxConnects
      BY <1>1, ClientIs DEF Sound
    <3> QED
      BY <1>2, <3>1, ConstantsAre DEF Numbered, Counted
  <2>2. c.tried + 1 \notin c.input
    BY <1>1, <2>1 DEF Sound
  <2> QED
    BY <1>3, <2>1, <2>2
<1>5. Tidy(d)
  <2>1. Alone(d)
    BY <1>2, <1>3, <1>4 DEF Alone, Closable
  <2> QED
    BY <1>3, <2>1 DEF Tidy, Closable
<1> QED
  BY <1>2, <1>4, <1>5 DEF Begun, Numbered, Counted

LEMMA EndedTwice ==
  ASSUME NEW a, NEW b, NEW c, Begun(a, b) \/ Ended(a, b), Ended(b, c)
  PROVE  Ended(a, c)
  BY DEF Begun, Ended

LEMMA BegunTwice ==
  ASSUME NEW a, NEW b, NEW c, Begun(a, b), Begun(b, c)
  PROVE  Begun(a, c)
  BY DEF Begun

\* What Connect does to a tidy client, wherever it is called.
LEMMA ConnectIs ==
  ASSUME NEW c, Tidy(c), c.tried < MaxConnects, NEW d \in ConnectInLoop(c)
  PROVE  Begun(c, d) \/ Ended(c, d)
<1>1. CASE d \in ConnectGoesOn(c)
  BY <1>1, BegunIs
<1>2. CASE d \in OnClose(ConnectFails(c))
  <2> DEFINE g == ConnectFails(c)
  <2>1. g = ConnectFails(c) /\ d \in OnClose(g) /\ Sound(c)
    BY <1>2 DEF Tidy
  <2> HIDE DEF g
  <2>2. NoNumber(c, g) \/ Numbered(c, g)
    BY <2>1, FailsIs
  <2>3. Closable(g)
    BY <2>2, NoNumberClosable, NumberedClosable
  <2>4. Ended(g, d)
    BY <2>1, <2>3, OnCloseEnds
  <2>5. c.over \subseteq g.over /\ g.misrouted = c.misrouted /\ g.reentered = c.reentered
    BY <2>2 DEF NoNumber, Numbered, Counted
  <2> QED
    BY <2>4, <2>5 DEF Ended
<1> QED
  BY <1>1, <1>2 DEF ConnectInLoop

\* What connected_cb_ and message_cb_ do to a tidy client.
LEMMA CallbackIs ==
  ASSUME NEW c, Tidy(c), NEW d \in Callback(c)
  PROVE  d = c \/ Begun(c, d) \/ Ended(c, d)
<1>1. c.tried # MaxConnects => c.tried < MaxConnects
  BY ClientIs, ConstantsAre DEF Tidy, Sound
<1>2. CASE d \in OnClose(c)
  BY <1>2, TidyIsClosable, OnCloseEnds
<1>3. CASE c.tried # MaxConnects /\ d \in ConnectInLoop(c)
  BY <1>1, <1>3, ConnectIs
<1> QED
  BY <1>2, <1>3 DEF Callback

LEMMA ConnectFunctionIs ==
  ASSUME NEW c, Tidy(c), c.tried < MaxConnects, NEW d \in ConnectFunction(c)
  PROVE  Begun(c, d) \/ Ended(c, d)
<1>1. CASE d \in OnClose(ConnectFails(c))
  BY <1>1, ConnectIs DEF ConnectInLoop
<1>2. ASSUME NEW e \in ConnectGoesOn(c), d = e \/ d \in Callback(e)
      PROVE  Begun(c, d) \/ Ended(c, d)
  <2>1. Begun(c, e)
    BY BegunIs
  <2>2. d = e \/ Begun(e, d) \/ Ended(e, d)
    BY <1>2, <2>1, CallbackIs DEF Begun
  <2> QED
    BY <2>1, <2>2, BegunTwice, EndedTwice
<1> QED
  BY <1>1, <1>2 DEF ConnectFunction

-----------------------------------------------------------------------------
(* The handlers.                                                           *)

\* What the messages and the rest of the batch know of the client.
Alike(c, d) ==
  /\ SameNumbers(c, d) /\ d.closed_ = c.closed_ /\ d.over = c.over
  /\ d.misrouted = c.misrouted /\ d.reentered = c.reentered

\* A step in which the client, perhaps with its flags changed, begins an
\* attempt.
LEMMA BegunStep ==
  ASSUME IInv, NEW b \in Clients, Alike(client, b), Begun(b, client'), LoopTyped',
         pc' = "Dispatch" <=> batch' # << >>, Clean(client) => batch' = << >>,
         \A i \in DOMAIN functions_' : \E j \in DOMAIN functions_ : functions_'[i] = functions_[j]
  PROVE  IInv'
<1> DEFINE c == client
           d == client'
<1>0. c \in Clients /\ SendInv
  BY DEF IInv, Tidy, Sound
<1>1. Begun(b, d) /\ Alike(c, b)
  OBVIOUS
<1> HIDE DEF c, d
<1>2. /\ Tidy(d) /\ d.closed_ = c.closed_ /\ d.misrouted = c.misrouted
      /\ c.over \subseteq d.over /\ (HasSocket(c) => Socket(c) \in d.over)
      /\ d.reentered = c.reentered /\ HasSocket(d) /\ Socket(d) \notin d.input
      /\ \/ d.status_ = "Connecting" /\ d.sock[Socket(d)] = "connecting"
         \/ d.status_ = "Connected" /\ d.sock[Socket(d)] = "up"
  <2>1. Socket(b) = Socket(c) /\ (HasSocket(b) <=> HasSocket(c))
    BY <1>0, <1>1, NumbersSame DEF Alike
  <2> QED
    BY <1>1, <2>1 DEF Begun, Alike
<1>3. Clean(d) => batch' = << >>
  BY <1>2 DEF Clean, c
<1>4. BatchInv'
  BY <1>3 DEF BatchInv, d
<1>5. InputInv' /\ OutcomeInv'
  BY <1>2 DEF InputInv, OutcomeInv, d
<1>6. SendInv'
  <2>1. ASSUME NEW i \in DOMAIN functions_', functions_'[i].op = "Send"
        PROVE  d.closed_ \/ functions_'[i].to \in d.over
    <3>1. PICK j \in DOMAIN functions_ : functions_'[i] = functions_[j]
      BY <2>1
    <3>2. \/ c.closed_ \/ functions_[j].to \in c.over
          \/ HasSocket(c) /\ Socket(c) = functions_[j].to
      BY <1>0, <2>1, <3>1 DEF SendInv, c
    <3> QED
      BY <1>2, <3>1, <3>2
  <2>2. d.misrouted \subseteq d.over
    BY <1>0, <1>2 DEF SendInv, c
  <2> QED
    BY <2>1, <2>2 DEF SendInv, d
<1> QED
  BY <1>2, <1>4, <1>5, <1>6 DEF IInv, d

\* A step that closes the client.
LEMMA EndedStep ==
  ASSUME IInv, Ended(client, client'), LoopTyped', pc' = "Dispatch" <=> batch' # << >>,
         Clean(client) => batch' = << >>
  PROVE  IInv'
<1> DEFINE c == client
           d == client'
<1>1. /\ Tidy(d) /\ d.closed_ /\ c.over \subseteq d.over /\ d.misrouted = c.misrouted
      /\ c.reentered => d.reentered
      /\ d.reentered \/ d.status_ = "Disconnected"
  BY DEF Ended
<1>2. Clean(d) => batch' = << >>
  BY <1>1 DEF Clean
<1> HIDE DEF c, d
<1>3. BatchInv'
  BY <1>2 DEF BatchInv, d
<1>4. InputInv' /\ OutcomeInv'
  BY <1>1 DEF InputInv, OutcomeInv, d
<1>5. SendInv'
  <2>1. SendInv
    BY DEF IInv
  <2>2. d.misrouted \subseteq d.over
    BY <1>1, <2>1 DEF SendInv, c
  <2> QED
    BY <1>1, <2>2 DEF SendInv, d
<1> QED
  BY <1>1, <1>3, <1>4, <1>5 DEF IInv, d

\* What is left of the batch.
Rest ==
  /\ batch' \in Seq(Reports) /\ batch[1] \in Reports /\ 1 \in DOMAIN batch
  /\ pc' \in {"Dispatch", "RunFuctions"} /\ (pc' = "Dispatch" <=> batch' # << >>)
  /\ \A i \in DOMAIN batch : i # 1 => \E j \in DOMAIN batch' : batch'[j] = batch[i]
  /\ Clean(client) => batch' = << >>

LEMMA DispatchRest ==
  ASSUME IInv, Dispatch
  PROVE  Rest /\ LoopTyped'
<1>1. /\ batch \in Seq(Reports) /\ batch # << >> /\ batch' = Tail(batch)
      /\ pc' = IF Len(batch) = 1 THEN "RunFuctions" ELSE "Dispatch"
      /\ UNCHANGED <<functions_, sends, closes>>
  BY DEF IInv, LoopTyped, BatchInv, Dispatch
<1>2. Len(batch) \in Nat /\ Len(batch) # 0 /\ batch' \in Seq(Reports)
      /\ Len(batch') = Len(batch) - 1 /\ DOMAIN batch = 1 .. Len(batch)
      /\ DOMAIN batch' = 1 .. Len(batch')
  BY <1>1
<1>3. \A j \in DOMAIN batch' : batch'[j] = batch[j + 1]
  BY <1>1, <1>2
<1>4. \A i \in DOMAIN batch : i # 1 => i - 1 \in DOMAIN batch' /\ (i - 1) + 1 = i
  BY <1>1, <1>2
<1>5. \A i \in DOMAIN batch : i # 1 => \E j \in DOMAIN batch' : batch'[j] = batch[i]
  BY <1>3, <1>4
<1>6. Len(batch) = 1 <=> batch' = << >>
  <2> DEFINE s == batch'
  <2>1. s \in Seq(Reports)
    BY <1>2
  <2> HIDE DEF s
  <2>2. Len(s) = 0 <=> s = << >>
    BY <2>1
  <2> QED
    BY <1>2, <2>2 DEF s
<1>7. Clean(client) => batch' = << >>
  BY <1>2, <1>6 DEF IInv, BatchInv
<1>8. batch[1] \in Reports /\ 1 \in DOMAIN batch
  BY <1>1, <1>2
<1> QED
  BY <1>1, <1>2, <1>5, <1>6, <1>7, <1>8 DEF Rest, LoopTyped, IInv

\* A step of Dispatch that leaves the client open.
LEMMA RestStep ==
  ASSUME IInv, Rest, LoopTyped', functions_' = functions_, Tidy(client'),
         SameNumbers(client, client'), client'.closed_ = client.closed_,
         client'.over = client.over, client'.misrouted = client.misrouted,
         client'.reentered = client.reentered, InputInv', OutcomeInv'
  PROVE  IInv'
<1> DEFINE c == client
           d == client'
<1>1. Fd(d) = Fd(c) /\ Socket(d) = Socket(c) /\ (HasSocket(d) <=> HasSocket(c))
  <2>1. c \in Clients /\ d \in Clients /\ SameNumbers(c, d)
    BY DEF IInv, Tidy, Sound
  <2> HIDE DEF c, d
  <2> QED
    BY <2>1, NumbersSame
<1>2. BatchInv'
  <2>1. Clean(d) => batch' = << >>
    BY DEF Clean, Rest
  <2> QED
    BY <2>1 DEF BatchInv, Rest
<1>3. SendInv'
  <2>1. SendInv
    BY DEF IInv
  <2> HIDE DEF c, d
  <2> QED
    BY <1>1, <2>1 DEF SendInv, c, d
<1> QED
  BY <1>2, <1>3 DEF IInv

\* An event nobody takes.
LEMMA IgnoredStep ==
  ASSUME IInv, Rest, LoopTyped', functions_' = functions_, client' = client,
         HasSocket(client) /\ ~ client.closed_ => batch[1].fd # Fd(client)
                                                  \/ batch[1].handler = "OnWrite",
         client.status_ = "Connecting" /\ ~ client.reentered => batch[1].fd # Fd(client)
  PROVE  IInv'
<1> DEFINE c == client
<1>1. Tidy(c) /\ InputInv /\ OutcomeInv
  BY DEF IInv
<1>2. InputInv'
  <2> SUFFICES ASSUME HasSocket(c), ~ c.closed_, Coming({"OnRead", "OnError"})
               PROVE  \E j \in DOMAIN batch' :
                        batch'[j].fd = Fd(c) /\ batch'[j].handler \in {"OnRead", "OnError"}
    BY <1>1 DEF InputInv, Coming
  <2>1. PICK i \in DOMAIN batch : batch[i].fd = Fd(c) /\ batch[i].handler \in {"OnRead", "OnError"}
    BY DEF Coming
  <2>2. i # 1
    BY <2>1
  <2> QED
    BY <2>1, <2>2 DEF Rest
<1>3. OutcomeInv'
  <2> SUFFICES ASSUME c.status_ = "Connecting", ~ c.reentered,
                      Coming({"OnRead", "OnWrite", "OnError"})
               PROVE  \E j \in DOMAIN batch' :
                        /\ batch'[j].fd = Fd(c)
                        /\ batch'[j].handler \in {"OnRead", "OnWrite", "OnError"}
    BY <1>1 DEF OutcomeInv, Coming
  <2>1. PICK i \in DOMAIN batch :
          batch[i].fd = Fd(c) /\ batch[i].handler \in {"OnRead", "OnWrite", "OnError"}
    BY DEF Coming
  <2>2. i # 1
    BY <2>1
  <2> QED
    BY <2>1, <2>2 DEF Rest
<1>4. SameNumbers(client, client')
  BY DEF SameNumbers
<1> QED
  BY <1>1, <1>2, <1>3, <1>4, RestStep

\* The end of a connect.
LEMMA EstablishStep ==
  ASSUME IInv, Rest, LoopTyped', functions_' = functions_, client.status_ = "Connecting",
         batch[1].fd \in Fds, client' \in Establish(client)
  PROVE  IInv'
<1> DEFINE c == client
           new == IF HasSocket(c) /\ "IN" \in Mask(c, Fd(c)) THEN {Socket(c)} ELSE {}
<1>0. Tidy(c) /\ Sound(c) /\ c \in Clients /\ BatchInv /\ InputInv
  BY DEF IInv, Tidy, Sound
<1>1. CASE CheckError(c)
  <2>1. client' \in OnClose(c)
    BY <1>1 DEF Establish
  <2>2. Ended(c, client')
    BY <1>0, <2>1, TidyIsClosable, OnCloseEnds
  <2> QED
    BY <2>2, EndedStep DEF Rest
<1>2. CASE ~ CheckError(c)
  <2> DEFINE swallowed == c.swallowed \cup new
             d == [c EXCEPT !.status_ = "Connected", !.swallowed = swallowed]
  <2>0. client' \in Callback(d)
    BY <1>2 DEF Establish
  <2>1. d = [c EXCEPT !.status_ = "Connected", !.swallowed = swallowed]
    OBVIOUS
  <2>2. swallowed \in SUBSET Attempts
    <3>1. c.swallowed \subseteq Attempts
      BY <1>0, ClientIs
    <3> QED
      BY <1>0, <3>1 DEF Sound
  <2> HIDE DEF swallowed, d, c
  <2>3. /\ d \in Clients /\ d.table = c.table /\ d.status_ = "Connected"
        /\ d.closed_ = c.closed_ /\ SameAsks(c, d) /\ SameNet(c, d)
        /\ d.tried = c.tried /\ d.over = c.over /\ d.late = c.late
        /\ d.misrouted = c.misrouted /\ d.reentered = c.reentered /\ d.swallowed = swallowed
    BY <1>0, <2>1, <2>2 DEF Clients, SameAsks, SameNet
  <2>4. /\ SameNumbers(c, d) /\ Fd(d) = Fd(c) /\ Socket(d) = Socket(c)
        /\ (HasSocket(d) <=> HasSocket(c)) /\ Active(d) /\ Active(c)
    BY <2>3 DEF SameNumbers, Fd, Socket, HasSocket, Active, c
  <2>5. Sound(d)
    <3>1. d.table.ready \subseteq d.table.epoll /\ (\A k \in d.input : k <= d.tried)
          /\ (d.reentered => d.closed_)
      BY <1>0, <2>3 DEF Sound, SameNet
    <3> QED
      BY <1>0, <2>3, <2>4, <3>1, StaysSound
  <2>6. Heard(c) => Heard(d)
    BY <2>3, <2>4 DEF Heard, SameAsks
  <2>7. ASSUME Clean(d)
        PROVE  /\ \A n \in d.table.epoll : Active(d) /\ n = Fd(d)
               /\ d.sock[Socket(d)] \in {"up", "fin", "reset"}
    <3>1. Clean(c)
      BY <2>3, <2>7 DEF Clean
    <3>2. \A n \in c.table.epoll : Active(c) /\ n = Fd(c)
      BY <1>0, <3>1 DEF Tidy, Alone
    <3>3. HasSocket(c) /\ Socket(c) \in Attempts
      BY <1>0, <2>4, <3>1 DEF Tidy, Heard, Clean, Sound
    <3>4. c.sock[Socket(c)] # "none"
      BY <1>0, <3>1 DEF Tidy, Alone, c
    <3>5. c.sock[Socket(c)] # "connecting"
      BY <1>0, <3>1 DEF BatchInv, Rest, c
    <3>6. c.sock[Socket(c)] # "refused"
      BY <1>2, <3>3 DEF CheckError, Failed, c
    <3>7. c.sock[Socket(c)] \in {"none", "connecting", "refused", "up", "fin", "reset"}
      BY <1>0, <3>3, ClientIs
    <3> QED
      BY <2>3, <2>4, <3>2, <3>4, <3>5, <3>6, <3>7 DEF SameNet
  <2>8. Tidy(d)
    <3>1. Registered(c) => Registered(d)
      BY <2>3 DEF Registered
    <3>2. Alone(d)
      BY <2>3, <2>7 DEF Alone
    <3> QED
      BY <1>0, <2>3, <2>4, <2>5, <2>6, <3>1, <3>2 DEF Tidy
  <2>9. client' = d => InputInv'
    <3> SUFFICES ASSUME HasSocket(d), ~ d.closed_,
                        Socket(d) \in d.input \/ d.sock[Socket(d)] \in {"fin", "reset"}
                 PROVE  Socket(d) \in d.swallowed
      BY DEF InputInv
    <3>1. /\ HasSocket(c) /\ ~ c.closed_
          /\ Socket(c) \in c.input \/ c.sock[Socket(c)] \in {"fin", "reset"}
      BY <2>3, <2>4 DEF SameNet
    <3>2. "IN" \in c.asked[Fd(c)] /\ Socket(c) = c.table.file[Fd(c)]
      BY <1>0, <3>1, OpenHears, TableIs
    <3>3. "IN" \in Mask(c, Fd(c))
      BY <3>1, <3>2 DEF Mask, Failed
    <3> QED
      BY <2>3, <2>4, <3>1, <3>3 DEF swallowed, c
  <2>10. client' = d => OutcomeInv'
    BY <2>3 DEF OutcomeInv
  <2>11. Alike(c, d)
    BY <2>3, <2>4 DEF Alike
  <2>12. client' = d \/ Begun(d, client') \/ Ended(d, client')
    BY <2>0, <2>8, CallbackIs
  <2>13. Ended(d, client') => Ended(c, client')
    BY <2>3 DEF Ended
  <2>14. CASE client' = d
    BY <2>3, <2>4, <2>8, <2>9, <2>10, <2>14, RestStep DEF c
  <2>15. CASE Begun(d, client')
    BY <2>3, <2>11, <2>15, BegunStep DEF Rest, c
  <2>16. CASE Ended(d, client')
    BY <2>13, <2>16, EndedStep DEF Rest, c
  <2> QED
    BY <2>12, <2>14, <2>15, <2>16
<1> QED
  BY <1>1, <1>2

\* TcpConnection::OnRead.
LEMMA ReadAllStep ==
  ASSUME IInv, Rest, LoopTyped', functions_' = functions_,
         client.status_ = "Connected", ~ client.closed_, client' \in ReadAll(client)
  PROVE  IInv'
<1> DEFINE c == client
           d == [c EXCEPT !.input = c.input \ {Socket(c)}]
<1>0. Tidy(c) /\ Sound(c) /\ c \in Clients
  BY DEF IInv, Tidy, Sound
<1>1. PICK e \in Callback(d) \cup {d} : client' \in ReadEnds(e)
  BY DEF ReadAll
<1>2. /\ d \in Clients /\ d.table = c.table /\ SameFlags(c, d) /\ SameAsks(c, d)
      /\ SamePast(c, d) /\ d.sock = c.sock /\ d.input = c.input \ {Socket(c)}
  <2> DEFINE input == c.input \ {Socket(c)}
  <2>1. input \in SUBSET Attempts /\ d = [c EXCEPT !.input = input]
    BY <1>0, ClientIs
  <2> HIDE DEF input
  <2>2. /\ d \in Clients /\ d.table = c.table /\ SameFlags(c, d) /\ SameAsks(c, d)
        /\ SamePast(c, d) /\ d.sock = c.sock /\ d.input = input
    BY <1>0, <2>1 DEF Clients, SameFlags, SameAsks, SamePast
  <2> QED
    BY <2>2 DEF input
<1> HIDE DEF d, c
<1>3. /\ SameNumbers(c, d) /\ Fd(d) = Fd(c) /\ Socket(d) = Socket(c)
      /\ (HasSocket(d) <=> HasSocket(c)) /\ (Active(d) <=> Active(c))
  BY <1>2 DEF SameNumbers, Fd, Socket, HasSocket, Active, SameFlags
<1>4. Sound(d)
  <2>1. d.table.ready \subseteq d.table.epoll /\ (\A k \in d.input : k <= d.tried)
        /\ (d.reentered => d.closed_) /\ (d.status_ = "Disconnected" => d.closed_)
        /\ (d.status_ = "Init" => ~ HasSocket(c))
    BY <1>0, <1>2 DEF Sound, SameFlags, SamePast
  <2> QED
    BY <1>0, <1>2, <1>3, <2>1, StaysSound DEF SamePast
<1>5. Tidy(d)
  <2>1. Registered(c) => Registered(d)
    BY <1>2 DEF Registered
  <2>2. Heard(c) => Heard(d)
    BY <1>2, <1>3 DEF Heard, SameAsks, SameFlags
  <2>3. Alone(d)
    BY <1>0, <1>2, <1>3 DEF Tidy, Alone, Clean, SameFlags, SamePast
  <2> QED
    BY <1>0, <1>2, <1>3, <1>4, <2>1, <2>2, <2>3 DEF Tidy, SameFlags, SamePast
<1>6. Alike(c, d) /\ (\A b : Ended(d, b) => Ended(c, b))
  BY <1>2, <1>3 DEF Alike, SameFlags, SamePast, Ended
<1>7. e = d \/ Begun(d, e) \/ Ended(d, e)
  BY <1>1, <1>5, CallbackIs
<1>8. client' = e \/ client' \in OnClose(e)
  BY <1>1 DEF ReadEnds
<1>9. CASE Ended(d, e)
  <2>1. client' \in OnClose(e) => Ended(e, client')
    BY <1>9, TidyIsClosable, OnCloseEnds DEF Ended
  <2>2. Ended(c, client')
    BY <1>6, <1>8, <1>9, <2>1, EndedTwice
  <2> QED
    BY <2>2, EndedStep DEF Rest, c
<1>10. CASE Begun(d, e)
  <2>1. client' = e
    BY <1>1, <1>10 DEF ReadEnds, Begun
  <2> QED
    BY <1>2, <1>6, <1>10, <2>1, BegunStep DEF Rest, c
<1>11. CASE e = d /\ client' \in OnClose(d)
  <2>1. Ended(c, client')
    BY <1>5, <1>6, <1>11, TidyIsClosable, OnCloseEnds
  <2> QED
    BY <2>1, EndedStep DEF Rest, c
<1>12. CASE e = d /\ client' \notin OnClose(d)
  <2>1. client' = d /\ d.sock[Socket(d)] \notin {"fin", "reset"}
    BY <1>1, <1>8, <1>12 DEF ReadEnds
  <2>2. Socket(d) \notin d.input
    BY <1>2, <1>3
  <2>3. InputInv'
    BY <2>1, <2>2 DEF InputInv
  <2>4. OutcomeInv'
    BY <1>2, <2>1 DEF OutcomeInv, SameFlags, c
  <2> QED
    BY <1>2, <1>3, <1>5, <2>1, <2>3, <2>4, RestStep DEF SameFlags, SamePast, c
<1> QED
  BY <1>7, <1>8, <1>9, <1>10, <1>11, <1>12

\* TcpConnection::OnWrite.
LEMMA WriteStep ==
  ASSUME IInv, Rest, LoopTyped', functions_' = functions_, batch[1].handler = "OnWrite",
         client.status_ = "Connected", client' = EnableWrite(client, FALSE)
  PROVE  IInv'
<1> DEFINE c == client
           d == client'
           e == c.event_ \ kEventWrite
<1>0. Tidy(c) /\ Sound(c) /\ c \in Clients /\ InputInv
  BY DEF IInv, Tidy, Sound
<1>1. CASE ~ HasSocket(c) \/ c.table.events_[Fd(c)] = NoObject
  <2>1. client' = client
    BY <1>1 DEF EnableWrite
  <2> QED
    BY <2>1, IgnoredStep
<1>2. CASE HasSocket(c) /\ c.table.events_[Fd(c)] # NoObject
  <2>1. d = Ask(c, e) /\ e \in Events /\ ("IN" \in c.event_ => "IN" \in e)
    <3>1. c.event_ \in Events
      BY <1>0, ClientIs
    <3> QED
      BY <1>2, <3>1 DEF EnableWrite, Ask, Events, kEventWrite
  <2> HIDE DEF e, d, c
  <2>2. Asked(c, d, e)
    BY <1>0, <1>2, <2>1, AskIs
  <2>3. /\ d \in Clients /\ SameNumbers(c, d)
        /\ SameFlags(c, d) /\ SameNet(c, d) /\ SamePast(c, d)
        /\ d.event_ = e /\ d.asked[Fd(c)] = e
        /\ d.table.epoll = c.table.epoll /\ d.table.events_ = c.table.events_
        /\ c.table.ready \subseteq d.table.ready /\ d.table.ready \subseteq d.table.epoll
    BY <1>0, <2>2 DEF Asked, Sound
  <2>4. Fd(d) = Fd(c) /\ Socket(d) = Socket(c) /\ (HasSocket(d) <=> HasSocket(c))
        /\ Opened(d) = Opened(c) /\ (Active(d) <=> Active(c))
        /\ d.closed_ = c.closed_ /\ d.status_ = "Connected"
    BY <1>0, <2>3, NumbersSame DEF Active, SameFlags, c
  <2>5. Sound(d)
    <3>1. (\A k \in d.input : k <= d.tried) /\ (d.reentered => d.closed_)
          /\ d.tried = c.tried /\ d.over = c.over /\ d.late = c.late
      BY <1>0, <2>3 DEF Sound, SameFlags, SameNet, SamePast
    <3> QED
      BY <1>0, <2>3, <2>4, <3>1, StaysSound
  <2>6. Tidy(d)
    <3>1. Registered(c) => Registered(d)
      BY <2>3 DEF Registered
    <3>2. Heard(c) => Heard(d)
      BY <2>1, <2>3, <2>4 DEF Heard
    <3>3. Alone(d)
      BY <1>0, <2>3, <2>4 DEF Tidy, Alone, Clean, SameFlags, SameNet, SamePast
    <3> QED
      BY <1>0, <2>3, <2>4, <2>5, <3>1, <3>2, <3>3 DEF Tidy, SamePast
  <2>7. InputInv'
    <3> SUFFICES ASSUME HasSocket(d), ~ d.closed_,
                        Socket(d) \in d.input \/ d.sock[Socket(d)] \in {"fin", "reset"}
                 PROVE  \/ Fd(d) \in d.table.ready
                        \/ Socket(d) \in d.swallowed
                        \/ \E j \in DOMAIN batch' :
                             batch'[j].fd = Fd(d) /\ batch'[j].handler \in {"OnRead", "OnError"}
      BY DEF InputInv, Coming, d
    <3>1. /\ HasSocket(c) /\ ~ c.closed_
          /\ Socket(c) \in c.input \/ c.sock[Socket(c)] \in {"fin", "reset"}
      BY <2>3, <2>4 DEF SameNet
    <3>2. \/ Fd(c) \in c.table.ready
          \/ Socket(c) \in c.swallowed
          \/ \E i \in DOMAIN batch :
               batch[i].fd = Fd(c) /\ batch[i].handler \in {"OnRead", "OnError"}
      BY <1>0, <3>1 DEF InputInv, Coming, c
    <3>3. CASE Fd(c) \in c.table.ready
      BY <2>3, <2>4, <3>3
    <3>4. CASE Socket(c) \in c.swallowed
      BY <2>3, <2>4, <3>4 DEF SamePast
    <3>5. CASE \E i \in DOMAIN batch :
                 batch[i].fd = Fd(c) /\ batch[i].handler \in {"OnRead", "OnError"}
      <4>1. PICK i \in DOMAIN batch :
              batch[i].fd = Fd(c) /\ batch[i].handler \in {"OnRead", "OnError"}
        BY <3>5
      <4>2. i # 1
        BY <4>1
      <4> QED
        BY <2>4, <4>1, <4>2 DEF Rest
    <3> QED
      BY <3>2, <3>3, <3>4, <3>5
  <2>8. OutcomeInv'
    BY <2>4 DEF OutcomeInv, d
  <2> QED
    BY <2>3, <2>4, <2>6, <2>7, <2>8, RestStep DEF SamePast, c, d
<1> QED
  BY <1>1, <1>2

LEMMA DispatchStep == IInv /\ Dispatch => IInv'
<1> SUFFICES ASSUME IInv, Dispatch
             PROVE  IInv'
  OBVIOUS
<1> DEFINE e == batch[1]
<1>0. Rest /\ LoopTyped' /\ functions_' = functions_ /\ Tidy(client) /\ Sound(client)
  BY DispatchRest DEF Dispatch, IInv, Tidy
<1>1. Head(batch) = e /\ e \in Reports /\ e.fd \in Fds
  BY <1>0 DEF Rest, Reports
<1>2. CASE client.table.events_[e.fd] = NoObject /\ client' = client
  <2>1. Active(client) /\ Heard(client) => e.fd # Fd(client)
    BY <1>0, <1>2, ConstantsAre DEF Heard, Sound
  <2>2. HasSocket(client) /\ ~ client.closed_ => e.fd # Fd(client)
    BY <1>0, <2>1, OpenHears
  <2>3. client.status_ = "Connecting" /\ ~ client.reentered => e.fd # Fd(client)
    BY <1>0, <2>1 DEF Tidy, Active
  <2> QED
    BY <1>0, <1>2, <2>2, <2>3, IgnoredStep
<1>3. CASE client' \in Handle(e.handler, client)
  <2>1. CASE e.handler = "OnError"
    <3> DEFINE d == client'
    <3>1. d \in OnClose(client)
      BY <1>3, <2>1 DEF Handle
    <3> HIDE DEF d
    <3>2. Ended(client, d)
      BY <1>0, <3>1, TidyIsClosable, OnCloseEnds
    <3> QED
      BY <1>0, <3>2, EndedStep DEF Rest, d
  <2>2. CASE client.status_ = "Connecting" /\ e.handler \in {"OnRead", "OnWrite"}
    <3>1. client' \in Establish(client)
      BY <1>3, <2>2 DEF Handle, OnRead, OnWrite
    <3> QED
      BY <1>0, <1>1, <2>2, <3>1, EstablishStep
  <2>3. CASE client.status_ = "Connected" /\ ~ client.closed_ /\ e.handler = "OnRead"
    <3>1. client' \in ReadAll(client)
      BY <1>3, <2>3 DEF Handle, OnRead
    <3> QED
      BY <1>0, <2>3, <3>1, ReadAllStep
  <2>4. CASE client.status_ = "Connected" /\ ~ client.closed_ /\ e.handler = "OnWrite"
    <3>1. client' = EnableWrite(client, FALSE)
      BY <1>3, <2>4 DEF Handle, OnWrite
    <3> QED
      BY <1>0, <2>4, <3>1, WriteStep
  <2>5. CASE /\ client.status_ # "Connecting" /\ (client.status_ # "Connected" \/ client.closed_)
             /\ e.handler \in {"OnRead", "OnWrite"}
    <3>1. client' = client
      BY <1>3, <2>5 DEF Handle, OnRead, OnWrite
    <3>2. ~ (HasSocket(client) /\ ~ client.closed_)
      BY <1>0, <2>5, OpenHears DEF Active
    <3> QED
      BY <1>0, <2>5, <3>1, <3>2, IgnoredStep
  <2>6. e.handler \in {"OnRead", "OnWrite", "OnError"}
    BY <1>1 DEF Reports
  <2> QED
    BY <2>1, <2>2, <2>3, <2>4, <2>5, <2>6
<1> QED
  BY <1>1, <1>2, <1>3 DEF Dispatch

-----------------------------------------------------------------------------
(* RunFuctions.                                                            *)

\* A function that leaves the client as it is.
LEMMA NothingStep ==
  ASSUME IInv, LoopTyped', pc' = pc, batch' = batch,
         \A i \in DOMAIN functions_' : \E j \in DOMAIN functions_ : functions_'[i] = functions_[j],
         client' = client
  PROVE  IInv'
<1>1. SendInv'
  <2>1. SendInv
    BY DEF IInv
  <2> QED
    BY <2>1 DEF SendInv
<1> QED
  BY <1>1 DEF IInv, BatchInv, InputInv, OutcomeInv, Coming

LEMMA RunFuctionsStep == IInv /\ RunFuctions => IInv'
<1> SUFFICES ASSUME IInv, RunFuctions
             PROVE  IInv'
  OBVIOUS
<1> DEFINE f == Head(functions_)
           c == client
           d == client'
<1>0. Tidy(c) /\ Sound(c) /\ c \in Clients /\ SendInv
  BY DEF IInv, Tidy, Sound
<1>1. /\ functions_ \in Seq(Functions) /\ functions_ # << >>
      /\ functions_' = Tail(functions_) /\ UNCHANGED <<batch, pc, sends, closes>>
      /\ pc = "RunFuctions"
  BY DEF IInv, LoopTyped, RunFuctions
<1>2. batch = << >>
  BY <1>1 DEF IInv, BatchInv
<1>3. /\ functions_' \in Seq(Functions) /\ f = functions_[1] /\ 1 \in DOMAIN functions_
      /\ \A i \in DOMAIN functions_' : \E j \in DOMAIN functions_ : functions_'[i] = functions_[j]
  <2>1. /\ functions_' \in Seq(Functions) /\ Len(functions_') = Len(functions_) - 1
        /\ f = functions_[1] /\ Len(functions_) \in Nat /\ Len(functions_) # 0
    BY <1>1
  <2>2. \A i \in 1 .. Len(functions_') :
          functions_'[i] = functions_[i + 1] /\ i + 1 \in 1 .. Len(functions_)
    BY <1>1, <2>1
  <2>3. DOMAIN functions_' = 1 .. Len(functions_') /\ DOMAIN functions_ = 1 .. Len(functions_)
    BY <1>1, <2>1
  <2> QED
    BY <2>1, <2>2, <2>3
<1>4. LoopTyped'
  BY <1>1, <1>3 DEF IInv, LoopTyped
<1>5. ASSUME Ended(c, d)
      PROVE  IInv'
  <2>1. pc' = "Dispatch" <=> batch' # << >>
    BY <1>1 DEF IInv, BatchInv
  <2> QED
    BY <1>1, <1>2, <1>4, <1>5, <2>1, EndedStep
<1>6. CASE c.tried < MaxConnects /\ d \in ConnectFunction(c)
  <2>1. Alike(c, c) /\ (pc' = "Dispatch" <=> batch' # << >>)
    BY <1>1 DEF Alike, SameNumbers, IInv, BatchInv
  <2>2. d \in ConnectFunction(c)
    BY <1>6
  <2>3. Begun(c, d) \/ Ended(c, d)
    <3> HIDE DEF c, d
    <3> QED
      BY <1>0, <1>6, <2>2, ConnectFunctionIs
  <2> QED
    BY <1>0, <1>1, <1>2, <1>3, <1>4, <1>5, <2>1, <2>3, BegunStep
<1>7. CASE f.op = "Connect" /\ c.tried = MaxConnects /\ d = c
  BY <1>1, <1>3, <1>4, <1>7, NothingStep
<1>8. CASE d \in OnClose(c)
  <2> HIDE DEF c, d
  <2>1. Ended(c, d)
    BY <1>0, <1>8, TidyIsClosable, OnCloseEnds
  <2> QED
    BY <1>5, <2>1
<1>9. CASE f.op = "Send" /\ d = SendInLoop(f.to, c)
  <2>1. CASE ~ c.closed_ /\ HasSocket(c) /\ Socket(c) # f.to
    <3> DEFINE misrouted == c.misrouted \cup {f.to}
    <3>1. d = [c EXCEPT !.misrouted = misrouted]
      BY <1>9, <2>1 DEF SendInLoop
    <3>2. f.to \in c.over /\ f.to \in Attempts
      <4>1. f.to \in c.over
        BY <1>0, <1>3, <1>9, <2>1 DEF SendInv
      <4> QED
        BY <1>0, <4>1, ClientIs
    <3>3. misrouted \in SUBSET Attempts
      BY <1>0, <3>2, ClientIs
    <3> HIDE DEF misrouted, c, d
    <3>4. /\ d \in Clients /\ d.table = c.table /\ SameFlags(c, d) /\ SameAsks(c, d)
          /\ SameNet(c, d) /\ d.tried = c.tried /\ d.over = c.over /\ d.late = c.late
          /\ d.swallowed = c.swallowed /\ d.reentered = c.reentered /\ d.misrouted = misrouted
      BY <1>0, <3>1, <3>3 DEF Clients, SameFlags, SameAsks, SameNet
    <3>5. /\ SameNumbers(c, d) /\ Fd(d) = Fd(c) /\ Socket(d) = Socket(c)
          /\ (HasSocket(d) <=> HasSocket(c)) /\ (Active(d) <=> Active(c))
      BY <3>4 DEF SameNumbers, Fd, Socket, HasSocket, Active, SameFlags
    <3>6. Sound(d)
      <4>1. d.table.ready \subseteq d.table.epoll /\ (\A k \in d.input : k <= d.tried)
            /\ (d.reentered => d.closed_) /\ (d.status_ = "Disconnected" => d.closed_)
            /\ (d.status_ = "Init" => ~ HasSocket(c))
        BY <1>0, <3>4 DEF Sound, SameFlags, SameNet
      <4> QED
        BY <1>0, <3>4, <3>5, <4>1, StaysSound
    <3>7. Tidy(d)
      <4>1. Registered(c) => Registered(d)
        BY <3>4 DEF Registered
      <4>2. Heard(c) => Heard(d)
        BY <3>4, <3>5 DEF Heard, SameAsks, SameFlags
      <4>3. Alone(d)
        BY <1>0, <3>4, <3>5 DEF Tidy, Alone, Clean, SameFlags, SameNet
      <4> QED
        BY <1>0, <3>4, <3>5, <3>6, <4>1, <4>2, <4>3 DEF Tidy, SameFlags
    <3>8. BatchInv' /\ InputInv' /\ OutcomeInv'
      <4>1. BatchInv /\ InputInv /\ OutcomeInv
        BY DEF IInv
      <4>2. InputInv'
        BY <1>1, <3>4, <3>5, <4>1 DEF InputInv, Coming, SameFlags, SameNet, c, d
      <4>3. OutcomeInv'
        BY <1>1, <3>4, <3>5, <4>1 DEF OutcomeInv, Coming, SameFlags, SameNet, c, d
      <4>4. BatchInv'
        BY <1>1, <1>2, <4>1 DEF BatchInv
      <4> QED
        BY <4>2, <4>3, <4>4
    <3>9. SendInv'
      <4>1. d.misrouted \subseteq d.over
        BY <1>0, <3>2, <3>4 DEF SendInv, misrouted, c
      <4>2. d.closed_ = c.closed_ /\ d.over = c.over
        BY <3>4 DEF SameFlags
      <4>3. ASSUME NEW i \in DOMAIN functions_', functions_'[i].op = "Send"
            PROVE  \/ d.closed_ \/ functions_'[i].to \in d.over
                   \/ HasSocket(d) /\ Socket(d) = functions_'[i].to
        <5>1. PICK j \in DOMAIN functions_ : functions_'[i] = functions_[j]
          BY <1>3, <4>3
        <5>2. \/ c.closed_ \/ functions_[j].to \in c.over
              \/ HasSocket(c) /\ Socket(c) = functions_[j].to
          BY <1>0, <4>3, <5>1 DEF SendInv, c
        <5> QED
          BY <3>5, <4>2, <5>1, <5>2
      <4> QED
        BY <4>1, <4>3 DEF SendInv, d
    <3> QED
      BY <1>4, <3>7, <3>8, <3>9 DEF IInv, d
  <2>2. CASE ~ (~ c.closed_ /\ HasSocket(c) /\ Socket(c) # f.to)
    <3>1. d = c
      BY <1>9, <2>2 DEF SendInLoop
    <3> QED
      BY <1>1, <1>3, <1>4, <3>1, NothingStep
  <2> QED
    BY <2>1, <2>2
<1> QED
  BY <1>6, <1>7, <1>8, <1>9 DEF RunFuctions

LEMMA RunFuctionsEndsStep == IInv /\ RunFuctionsEnds => IInv'
<1> SUFFICES ASSUME IInv, RunFuctionsEnds
             PROVE  IInv'
  OBVIOUS
<1>1. pc = "RunFuctions" /\ pc' = "EpollWait"
      /\ UNCHANGED <<client, batch, functions_, sends, closes>>
  BY DEF RunFuctionsEnds
<1>2. LoopTyped' /\ BatchInv'
  BY <1>1 DEF IInv, LoopTyped, BatchInv
<1> QED
  BY <1>1, <1>2 DEF IInv, InputInv, OutcomeInv, Coming, SendInv

-----------------------------------------------------------------------------
(* The invariant.                                                          *)

LEMMA InitIInv == Init => IInv
<1> SUFFICES ASSUME Init
             PROVE  IInv
  OBVIOUS
<1> DEFINE c == client
<1>1. PICK f \in {NoFile, Other} :
        c = [table |-> [EmptyTable EXCEPT !.file = [n \in Fds |-> f]],
             status_ |-> "Init", closed_ |-> FALSE, event_ |-> {},
             asked |-> [n \in Fds |-> {}], sock |-> [k \in Attempts |-> "none"],
             input |-> {}, tried |-> 0, over |-> {}, late |-> {},
             swallowed |-> {}, misrouted |-> {}, reentered |-> FALSE]
  BY DEF Init
<1>2. batch = << >> /\ functions_ = << >> /\ pc = "EpollWait" /\ sends = 0 /\ closes = 0
  BY DEF Init
<1> DEFINE t == [EmptyTable EXCEPT !.file = [n \in Fds |-> f]]
<1>3. /\ t \in Tables(Files) /\ t.file = [n \in Fds |-> f] /\ t.epoll = {} /\ t.ready = {}
      /\ t.events_ = [n \in Fds |-> NoObject] /\ t.fd_ = [o \in Objects |-> NoFd]
  BY DEF Tables, EmptyTable, Files
<1>4. /\ c.table = t /\ c.status_ = "Init" /\ c.closed_ = FALSE /\ c.input = {} /\ c.tried = 0
      /\ c.over = {} /\ c.late = {} /\ c.misrouted = {} /\ c.reentered = FALSE
  BY <1>1
<1>5. c \in Clients
  <2>1. [n \in Fds |-> {}] \in [Fds -> Events] /\ {} \in Events
    BY DEF Events
  <2>2. [k \in Attempts |-> "none"] \in [Attempts -> {"none", "connecting", "refused", "up",
                                                      "fin", "reset"}]
    OBVIOUS
  <2>3. 0 \in 0 .. MaxConnects /\ FALSE \in BOOLEAN /\ {} \in SUBSET Attempts
    BY ConstantsAre
  <2> DEFINE asked == [n \in Fds |-> {}]
             sock == [k \in Attempts |-> "none"]
  <2>4. c = [table |-> t, status_ |-> "Init", closed_ |-> FALSE, event_ |-> {},
             asked |-> asked, sock |-> sock,
             input |-> {}, tried |-> 0, over |-> {}, late |-> {},
             swallowed |-> {}, misrouted |-> {}, reentered |-> FALSE]
    BY <1>1
  <2> HIDE DEF t, asked, sock, c
  <2>5. /\ t \in Tables(Attempts \cup {Other}) /\ asked \in [Fds -> Events]
        /\ sock \in [Attempts -> {"none", "connecting", "refused", "up", "fin", "reset"}]
    BY <1>3, <2>1, <2>2 DEF Files, asked, sock
  <2> QED
    BY <2>1, <2>3, <2>4, <2>5 DEF Clients
<1> HIDE DEF t, c
<1>6. ~ HasSocket(c)
  BY <1>3, <1>4, ConstantsAre DEF HasSocket, IsOpen
<1>7. Opened(c) = {} /\ \A n \in Fds : c.table.file[n] = f
  BY <1>3, <1>4, ConstantsAre DEF Opened
<1>8. Sound(c)
  <2>1. f \notin Attempts /\ c.status_ # "Disconnected"
    BY <1>4, ConstantsAre
  <2> QED
    BY <1>3, <1>4, <1>5, <1>6, <1>7, <2>1 DEF Sound
<1>9. Tidy(c)
  BY <1>3, <1>4, <1>6, <1>8 DEF Tidy, Registered, Heard, Alone, Active
<1>10. LoopTyped /\ BatchInv
  BY <1>2, ClientAssumption DEF LoopTyped, BatchInv
<1>11. InputInv /\ OutcomeInv
  BY <1>4, <1>6 DEF InputInv, OutcomeInv, c
<1>12. SendInv
  <2>1. client.misrouted \subseteq client.over
    BY <1>4 DEF c
  <2>2. DOMAIN functions_ = {}
    BY <1>2
  <2> QED
    BY <2>1, <2>2 DEF SendInv
<1> QED
  BY <1>9, <1>10, <1>11, <1>12 DEF IInv, c

LEMMA NextIInv == IInv /\ [Next]_vars => IInv'
<1> SUFFICES ASSUME IInv, [Next]_vars
             PROVE  IInv'
  OBVIOUS
<1>1. CASE \E k \in Attempts : PeerAnswers(k) \/ PeerSends(k) \/ PeerEnds(k)
  BY <1>1, PeersStep
<1>2. CASE OtherCloses
  BY <1>2, OtherClosesStep
<1>3. CASE CallConnect \/ CallSend \/ CallForceClose
  BY <1>3, CallStep
<1>4. CASE LoopStep
  BY <1>4, EpollReturnsStep, DispatchStep, RunFuctionsStep, RunFuctionsEndsStep DEF LoopStep
<1>5. CASE UNCHANGED vars
  BY <1>5 DEF vars, IInv, LoopTyped, BatchInv, InputInv, OutcomeInv, Coming, SendInv
<1> QED
  BY <1>1, <1>2, <1>3, <1>4, <1>5 DEF Next

LEMMA Invariance == Spec => []IInv
  BY InitIInv, NextIInv, PTL DEF Spec

-----------------------------------------------------------------------------
(* The theorems.                                                           *)

(***************************************************************************)
(* status_ tells the truth, whatever it says, with the exceptions the      *)
(* property names (TcpClinet.cpp:34-124): the client hears of its socket   *)
(* as long as it is active and no attempt overtook another.                *)
(***************************************************************************)
THEOREM StatusIsTrueTheorem == Spec => []StatusIsTrue
<1>1. IInv => StatusIsTrue
  <2> SUFFICES ASSUME IInv
               PROVE  StatusIsTrue
    OBVIOUS
  <2> DEFINE c == client
  <2>0. Tidy(c) /\ Sound(c) /\ c \in Clients
    BY DEF IInv, Tidy, Sound
  <2> HIDE DEF c
  <2>1. ConnectedIsConnected
    <3> SUFFICES ASSUME c.status_ = "Connected", Clean(c)
                 PROVE  HasSocket(c) /\ c.sock[Socket(c)] \in {"up", "fin", "reset"}
      BY DEF ConnectedIsConnected, Clean, c
    <3>1. HasSocket(c)
      BY <2>0 DEF Tidy, Heard, Active, Clean
    <3>2. c.sock[Socket(c)] \in {"up", "fin", "reset"}
      BY <2>0 DEF Tidy, Alone
    <3> QED
      BY <3>1, <3>2
  <2>2. OutcomesAreSeen
    <3> SUFFICES ASSUME pc = "EpollWait", c.status_ = "Connecting", ~ c.reentered
                 PROVE  /\ HasSocket(c) /\ Hears(c.table, Client, Socket(c))
                        /\ "OUT" \in c.asked[Fd(c)]
                        /\ c.sock[Socket(c)] = "connecting" \/ Fd(c) \in c.table.ready
      BY DEF OutcomesAreSeen, c
    <3>1. HasSocket(c) /\ Fd(c) \in c.table.epoll /\ "OUT" \in c.asked[Fd(c)]
      BY <2>0 DEF Tidy, Heard, Active
    <3>2. Hears(c.table, Client, Socket(c))
      BY <2>0, <3>1 DEF Hears, Sound, HasSocket, Socket, Fd
    <3>3. c.sock[Socket(c)] = "connecting" \/ Fd(c) \in c.table.ready
      <4>1. batch = << >> /\ OutcomeInv
        BY DEF IInv, BatchInv
      <4> QED
        BY <4>1 DEF OutcomeInv, Coming, c
    <3> QED
      BY <3>1, <3>2, <3>3
  <2>3. DisconnectedLeavesLoop
    <3> SUFFICES ASSUME c.status_ = "Disconnected", Clean(c)
                 PROVE  c.table.epoll = {} /\ \A n \in Fds : c.table.events_[n] = NoObject
      BY DEF DisconnectedLeavesLoop, Clean, c
    <3>1. c.table.epoll = {}
      BY <2>0 DEF Tidy, Alone, Active
    <3> QED
      BY <2>0, <3>1 DEF Tidy, Clean, Registered
  <2> QED
    BY <2>1, <2>2, <2>3 DEF StatusIsTrue
<1> QED
  BY <1>1, Invariance, PTL

(***************************************************************************)
(* An open socket of a client is its current one, or that of an attempt    *)
(* which was overtaken or came after a close (OnClose, Event::Close).      *)
(***************************************************************************)
THEOREM AttemptsGiveDescriptorsBackTheorem == Spec => []AttemptsGiveDescriptorsBack
<1>1. IInv => AttemptsGiveDescriptorsBack
  <2> SUFFICES ASSUME IInv
               PROVE  AttemptsGiveDescriptorsBack
    OBVIOUS
  <2>1. Tidy(client) /\ Sound(client)
    BY DEF IInv, Tidy
  <2>2. Opened(client) = OpenSockets
    BY DEF Opened, OpenSockets
  <2>3. client.status_ = "Disconnected" /\ HasSocket(client) => Socket(client) \in client.late
    BY <2>1 DEF Tidy, Sound
  <2> QED
    BY <2>1, <2>2, <2>3 DEF AttemptsGiveDescriptorsBack, Sound
<1> QED
  BY <1>1, Invariance, PTL

(***************************************************************************)
(* Input of a connected client is on the ready list when the loop sleeps   *)
(* (OnRead, UpdateConnectionStatus), or came with the connect, or came to  *)
(* a client that was closed before.                                        *)
(***************************************************************************)
THEOREM NoInputIsLostTheorem == Spec => []NoInputIsLost
<1>1. IInv => NoInputIsLost
  <2> SUFFICES ASSUME IInv, pc = "EpollWait", HasSocket(client),
                      Socket(client) \in client.input
                        \/ client.sock[Socket(client)] \in {"fin", "reset"}
               PROVE  \/ Fd(client) \in client.table.ready
                      \/ Socket(client) \in client.swallowed \cup client.late
    BY DEF NoInputIsLost
  <2>1. batch = << >> /\ InputInv /\ Tidy(client)
    BY DEF IInv, BatchInv
  <2>2. CASE client.closed_
    BY <2>1, <2>2 DEF Tidy
  <2>3. CASE ~ client.closed_
    BY <2>1, <2>3 DEF InputInv, Coming
  <2> QED
    BY <2>2, <2>3
<1> QED
  BY <1>1, Invariance, PTL

(***************************************************************************)
(* Only an attempt that overtakes a connected one takes its messages       *)
(* (Send, SendInLoop), however many functions the loop has queued between  *)
(* the call of Send and the write.                                         *)
(***************************************************************************)
THEOREM MessagesKeepTheirConnectionTheorem == Spec => []MessagesKeepTheirConnection
<1>1. IInv => MessagesKeepTheirConnection
  BY DEF IInv, SendInv, MessagesKeepTheirConnection
<1> QED
  BY <1>1, Invariance, PTL
=============================================================================

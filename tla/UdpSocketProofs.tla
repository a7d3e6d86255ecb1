--------------------------- MODULE UdpSocketProofs --------------------------
(***************************************************************************)
(* Proofs about UdpSocket for messages, datagrams and buffers of any size  *)
(* and any number of descriptors, messages and openings: the order of what *)
(* is sent, that nothing waits unseen, and what closing leaves behind.     *)
(***************************************************************************)
EXTENDS UdpSocket, DescriptorsProofs

(***************************************************************************)
(* The inductive invariant.                                                *)
(***************************************************************************)

\* Table t is in order when the object has opened the sockets 1 .. k.
Good(t, k) ==
  /\ t \in Tables(Opens \cup {Foreign})
  /\ IsOpen(t, Socket) => FileOf(t, Socket) \in Opens
  /\ IsOpen(t, Neighbour) => FileOf(t, Neighbour) = Foreign
  /\ \A n \in Fds : t.file[n] \in Opens => t.file[n] <= k
  /\ \A m, n \in Fds : t.file[m] \in Opens /\ m # n => t.file[m] # t.file[n]
  /\ t.ready \subseteq t.epoll
  /\ \A n \in t.epoll : t.file[n] # NoFile /\ t.events_[n] # NoObject

\* events_ holds no number that was closed, and epoll what events_ holds.
Registered(t) ==
  \A n \in Fds : t.events_[n] # NoObject => n \in t.epoll

Opened == opens - Pending({"Open"})

Reports == [fd : Fds, handler : {"OnRead", "OnWrite", "OnError"}]

Functions == [op : {"Open", "Stop", "ForceClose", "Neighbour"}]
               \cup [op : {"Send", "SendList"}, size : Sizes]

KernelTyped ==
  /\ arrived \in [Opens -> Seq(Lengths)] /\ sndbuf \in [Opens -> 0 .. SndCap]
  /\ refused \subseteq Opens

FlagsTyped ==
  closed_ \in BOOLEAN /\ connected_ \in BOOLEAN /\ unclean \subseteq {"close", "start"}

AskedTyped == asked \in [Opens -> SUBSET {"IN", "OUT", "ET"}]

SendTyped ==
  /\ buffer_list_ \in Seq(Messages) /\ wire \in Seq(1 .. MaxSends) /\ missed \in BOOLEAN

ReadTyped == held \in 0 .. BufferSize /\ left \in BOOLEAN /\ cut \in BOOLEAN

LoopTyped ==
  /\ kind \in Kinds /\ timer \in BOOLEAN /\ again \in BOOLEAN
  /\ batch \in Seq(Reports) /\ functions_ \in Seq(Functions)
  /\ pc \in {"EpollWait", "Dispatch", "OnRead", "OnWrite", "RunFuctions"}
  /\ opens \in 0 .. MaxOpens /\ sends \in 0 .. MaxSends /\ received \in 0 .. MaxIn

TypeInv ==
  KernelTyped /\ FlagsTyped /\ AskedTyped /\ SendTyped /\ ReadTyped /\ LoopTyped

\* What is queued was counted.
CountInv == Pending({"Open"}) <= opens /\ Pending({"Send", "SendList"}) <= sends

\* What the flags say of the table.
FlagInv ==
  /\ unclean # {} => closed_
  /\ kind = "client" => ~ closed_ /\ (connected_ <=> IsUp)
  /\ kind = "server" => ~ connected_
  /\ unclean # {} \/ Registered(table)
  /\ IsUp /\ ~ closed_ => table.events_[table.fd_[Socket]] = Socket

KernelInv ==
  /\ IsUp => "IN" \in asked[Current]
  /\ \A k \in Opens \ Sockets : arrived[k] = << >>

OrderInv ==
  /\ \A i, j \in DOMAIN wire : i < j => wire[i] < wire[j]
  /\ \A i, j \in DOMAIN buffer_list_ : i < j => buffer_list_[i][1] < buffer_list_[j][1]
  /\ \A i \in DOMAIN wire, j \in DOMAIN buffer_list_ : wire[i] < buffer_list_[j][1]
  /\ \A i \in DOMAIN wire : wire[i] <= Taken
  /\ \A i \in DOMAIN buffer_list_ : buffer_list_[i][1] <= Taken

BatchInv == pc \in {"EpollWait", "RunFuctions"} => batch = << >>

HeldInv == (held # 0 => left) /\ (cut => left)

\* An event of the current socket is in the batch, for h or for OnError.
Coming(h) == \E i \in DOMAIN batch :
                batch[i].fd = table.fd_[Socket] /\ batch[i].handler \in {h, "OnError"}

ReadInv ==
  IsUp /\ arrived[Current] # << >> =>
    table.fd_[Socket] \in table.ready \/ (left /\ Writable = 0) \/ again
    \/ pc = "OnRead" \/ Coming("OnRead")

WriteInv ==
  buffer_list_ # << >> /\ IsUp /\ ~ closed_ =>
    missed \/ ("OUT" \in asked[Current] /\
    (Room(Current) = 0 \/ table.fd_[Socket] \in table.ready
    \/ pc = "OnWrite" \/ Coming("OnWrite")))

LocalInv == TypeInv /\ CountInv /\ OrderInv /\ BatchInv /\ HeldInv

IInv ==
  /\ LocalInv /\ Good(table, Opened)
  /\ FlagInv /\ KernelInv /\ ReadInv /\ WriteInv /\ OthersHear /\ NoDescriptorLeaks

-----------------------------------------------------------------------------
(* How many functions of a kind are queued.                                *)

Count(s, ops) == Cardinality({i \in DOMAIN s : s[i].op \in ops})

LEMMA CountIs ==
  ASSUME NEW S, NEW s \in Seq(S), NEW ops
  PROVE  IsFiniteSet({i \in DOMAIN s : s[i].op \in ops}) /\ Count(s, ops) \in Nat
<1> DEFINE D == {i \in DOMAIN s : s[i].op \in ops}
<1>1. Len(s) \in Nat /\ DOMAIN s = 1 .. Len(s)
  OBVIOUS
<1>2. IsFiniteSet(1 .. Len(s))
  BY <1>1, FS_Interval
<1>3. D \in SUBSET (1 .. Len(s))
  BY <1>1
<1>4. IsFiniteSet(D)
  BY <1>2, <1>3, FS_Subset
<1>5. Cardinality(D) \in Nat
  BY <1>4, FS_CardinalityType
<1> QED
  BY <1>4, <1>5 DEF Count

LEMMA CountAppended ==
  ASSUME NEW S, NEW s \in Seq(S), NEW f \in S, NEW ops
  PROVE  Count(Append(s, f), ops) = Count(s, ops) + (IF f.op \in ops THEN 1 ELSE 0)
<1> DEFINE u == Append(s, f)
           D == {i \in DOMAIN s : s[i].op \in ops}
           E == {i \in DOMAIN u : u[i].op \in ops}
           n == Len(s) + 1
<1>1. IsFiniteSet(D) /\ Count(s, ops) \in Nat
  BY CountIs
<1>2. n \notin D /\ E = IF f.op \in ops THEN D \cup {n} ELSE D
  OBVIOUS
<1>3. Count(s, ops) = Cardinality(D) /\ Count(u, ops) = Cardinality(E)
  BY DEF Count
<1> HIDE DEF D, E, n, u
<1>4. Cardinality(D \cup {n}) = Cardinality(D) + 1
  BY <1>1, <1>2, FS_AddElement
<1>5. Count(u, ops) = Count(s, ops) + (IF f.op \in ops THEN 1 ELSE 0)
  BY <1>1, <1>2, <1>3, <1>4
<1> QED
  BY <1>5 DEF u

LEMMA CountPopped ==
  ASSUME NEW S, NEW s \in Seq(S), s # << >>, NEW ops
  PROVE  Count(s, ops) = Count(Tail(s), ops) + (IF Head(s).op \in ops THEN 1 ELSE 0)
<1> DEFINE u == Tail(s)
           D == {i \in DOMAIN u : u[i].op \in ops}
           E == {i \in DOMAIN s : s[i].op \in ops}
           E1 == {i + 1 : i \in D}
           g == [i \in D |-> i + 1]
<1>1. u \in Seq(S) /\ IsFiniteSet(D) /\ Count(u, ops) \in Nat
  <2>1. u \in Seq(S)
    OBVIOUS
  <2> QED
    BY <2>1, CountIs
<1>2. 1 \notin E1 /\ E = IF Head(s).op \in ops THEN E1 \cup {1} ELSE E1
  <2>1. /\ \A i \in DOMAIN u : i \in Nat \ {0} /\ i + 1 \in DOMAIN s /\ u[i] = s[i + 1]
        /\ \A i \in DOMAIN s : i = 1 \/ (i - 1 \in DOMAIN u /\ i - 1 + 1 = i)
        /\ 1 \in DOMAIN s /\ Head(s) = s[1]
    OBVIOUS
  <2>2. \A i \in D : i \in Nat \ {0} /\ i + 1 \in E
    BY <2>1
  <2>3. \A i \in E : i = 1 \/ (i - 1 \in D /\ i - 1 + 1 = i)
    BY <2>1
  <2>4. 1 \in E <=> Head(s).op \in ops
    BY <2>1
  <2> HIDE DEF D, E, u
  <2>5. 1 \notin E1 /\ E1 \subseteq E
    BY <2>2
  <2>6. E \subseteq E1 \cup {1}
    BY <2>3
  <2> QED
    BY <2>4, <2>5, <2>6
<1>3. Count(u, ops) = Cardinality(D) /\ Count(s, ops) = Cardinality(E)
  BY DEF Count
<1>4. \A i \in D : i \in Nat
  OBVIOUS
<1> HIDE DEF D, E, u
<1>5. g \in Bijection(D, E1)
  BY <1>4 DEF Bijection, Injection, Surjection, IsInjective
<1> HIDE DEF E1, g
<1>6. IsFiniteSet(E1) /\ Cardinality(E1) = Cardinality(D)
  BY <1>1, <1>5, FS_Bijection DEF ExistsBijection
<1>7. Cardinality(E1 \cup {1}) = Cardinality(E1) + 1
  BY <1>2, <1>6, FS_AddElement
<1>8. Count(s, ops) = Count(u, ops) + (IF Head(s).op \in ops THEN 1 ELSE 0)
  BY <1>1, <1>2, <1>3, <1>6, <1>7
<1> QED
  BY <1>8 DEF u

-----------------------------------------------------------------------------
(* What the operations do to a table that is in order.                     *)

LEMMA ConstantsAre ==
  /\ Socket \in Objects /\ Neighbour \in Objects /\ Socket # Neighbour
  /\ \A o \in Objects : o = Socket \/ o = Neighbour
  /\ NoFd \notin Fds /\ NoObject # Socket /\ NoObject # Neighbour
  /\ \A k \in Opens : k # Foreign /\ k # NoFile
  /\ Foreign # NoFile
  BY DescriptorsAssumption, SocketAssumption

\* What Tables says, one value at a time.
Typed(t) ==
  /\ \A n \in Fds : t.file[n] \in Opens \cup {Foreign, NoFile}
  /\ \A n \in Fds : t.events_[n] \in Objects \cup {NoObject}
  /\ t.fd_[Socket] \in Fds \cup {NoFd} /\ t.fd_[Neighbour] \in Fds \cup {NoFd}
  /\ t.epoll \subseteq Fds /\ t.ready \subseteq Fds

LEMMA TablesTyped ==
  ASSUME NEW t \in Tables(Opens \cup {Foreign})
  PROVE  /\ Typed(t) /\ \A o \in Objects : IsOpen(t, o) <=> t.fd_[o] \in Fds
         /\ DOMAIN t.file = Fds /\ DOMAIN t.events_ = Fds /\ DOMAIN t.fd_ = Objects
<1>1. /\ t.file \in [Fds -> (Opens \cup {Foreign}) \cup {NoFile}]
      /\ t.epoll \subseteq Fds /\ t.ready \subseteq Fds
      /\ t.events_ \in [Fds -> Objects \cup {NoObject}]
      /\ t.fd_ \in [Objects -> Fds \cup {NoFd}]
  BY FieldsOfTable
<1> QED
  BY <1>1, ConstantsAre DEF Typed, IsOpen

\* The object and its neighbour have different numbers.
LEMMA NumbersDiffer ==
  ASSUME NEW t, NEW k, Good(t, k), IsOpen(t, Neighbour)
  PROVE  t.fd_[Neighbour] # t.fd_[Socket] /\ t.fd_[Neighbour] \in Fds
<1>1. Typed(t) /\ \A o \in Objects : IsOpen(t, o) <=> t.fd_[o] \in Fds
  BY TablesTyped DEF Good
<1> QED
  BY <1>1, ConstantsAre DEF Good, FileOf

\* Table u is t without some of what t says of the object's number.
Shrunk(t, u) ==
  /\ u.fd_[Socket] \in {t.fd_[Socket], NoFd} /\ u.fd_[Neighbour] = t.fd_[Neighbour]
  /\ \A n \in Fds : n # t.fd_[Socket] =>
       /\ u.file[n] = t.file[n] /\ u.events_[n] = t.events_[n]
       /\ n \in u.epoll <=> n \in t.epoll
       /\ n \in u.ready <=> n \in t.ready
  /\ \A n \in Fds : u.file[n] \in {t.file[n], NoFile}
  /\ u.fd_[Socket] \in Fds => u.file[u.fd_[Socket]] = t.file[u.fd_[Socket]]

LEMMA ShrunkTwice ==
  ASSUME NEW t, NEW u, NEW v, Shrunk(t, u), Shrunk(u, v)
  PROVE  Shrunk(t, v)
  BY ConstantsAre DEF Shrunk

\* DelEvent.
LEMMA DelEventGood ==
  ASSUME NEW t, NEW k, Good(t, k), NEW u, u = DelEvent(t, Socket)
  PROVE  /\ Good(u, k) /\ Shrunk(t, u) /\ u.fd_ = t.fd_ /\ u.file = t.file
         /\ Registered(t) => Registered(u)
         /\ IsOpen(u, Socket) => u.events_[u.fd_[Socket]] = NoObject
<1> DEFINE n == t.fd_[Socket]
<1>0. t \in Tables(Opens \cup {Foreign}) /\ Socket \in Objects
  BY ConstantsAre DEF Good
<1>t. /\ Typed(t) /\ \A o \in Objects : IsOpen(t, o) <=> t.fd_[o] \in Fds
      /\ DOMAIN t.events_ = Fds
  BY <1>0, TablesTyped
<1>1. /\ u \in Tables(Opens \cup {Foreign}) /\ u.file = t.file /\ u.fd_ = t.fd_
      /\ \/ ~ IsOpen(t, Socket) /\ u = t
         \/ IsOpen(t, Socket) /\ t.events_[n] = NoObject /\ u = t
         \/ /\ IsOpen(t, Socket) /\ n \in Fds
            /\ u.events_ = [t.events_ EXCEPT ![n] = NoObject]
            /\ u.epoll = t.epoll \ {n} /\ u.ready = t.ready \ {n}
  BY <1>0, DelEventIs
<1>2. /\ \A m \in Fds : u.events_[m] = IF m = n THEN NoObject ELSE t.events_[m]
      /\ u.epoll = t.epoll \ {n} /\ u.ready = t.ready \ {n}
  <2>1. CASE ~ IsOpen(t, Socket) /\ u = t
    BY <1>0, <1>t, <2>1 DEF Typed
  <2>2. CASE IsOpen(t, Socket) /\ t.events_[n] = NoObject /\ u = t
    BY <1>0, <1>t, <2>2 DEF Good
  <2>3. CASE /\ IsOpen(t, Socket) /\ n \in Fds
             /\ u.events_ = [t.events_ EXCEPT ![n] = NoObject]
             /\ u.epoll = t.epoll \ {n} /\ u.ready = t.ready \ {n}
    BY <1>t, <2>3
  <2> QED
    BY <1>1, <2>1, <2>2, <2>3
<1>3. Good(u, k)
  BY <1>1, <1>2, <1>t DEF Good, Typed, IsOpen, FileOf
<1>4. Shrunk(t, u)
  BY <1>1, <1>2 DEF Shrunk
<1>5. Registered(t) => Registered(u)
  BY <1>2 DEF Registered
<1>6. IsOpen(u, Socket) => u.events_[u.fd_[Socket]] = NoObject
  BY <1>0, <1>1, <1>2, <1>t DEF IsOpen
<1> QED
  BY <1>1, <1>3, <1>4, <1>5, <1>6

\* Close.
LEMMA CloseGood ==
  ASSUME NEW t, NEW k, Good(t, k), NEW u, u = Close(t, Socket)
  PROVE  /\ Good(u, k) /\ Shrunk(t, u) /\ ~ IsOpen(u, Socket)
         /\ \A m \in Fds : u.file[m] = IF m = t.fd_[Socket] THEN NoFile ELSE t.file[m]
         /\ Registered(t) /\ (IsOpen(t, Socket) => t.events_[t.fd_[Socket]] = NoObject)
              => Registered(u)
<1> DEFINE n == t.fd_[Socket]
<1>0. t \in Tables(Opens \cup {Foreign}) /\ Socket \in Objects
  BY ConstantsAre DEF Good
<1>t. /\ Typed(t) /\ \A o \in Objects : IsOpen(t, o) <=> t.fd_[o] \in Fds
      /\ DOMAIN t.file = Fds /\ DOMAIN t.fd_ = Objects
  BY <1>0, TablesTyped
<1>1. /\ u \in Tables(Opens \cup {Foreign})
      /\ \A m \in Fds : u.file[m] = IF m = n THEN NoFile ELSE t.file[m]
      /\ u.fd_[Socket] = NoFd /\ u.fd_[Neighbour] = t.fd_[Neighbour]
      /\ u.epoll = t.epoll \ {n} /\ u.ready = t.ready \ {n} /\ u.events_ = t.events_
  <2>1. CASE ~ IsOpen(t, Socket)
    <3>1. u = t /\ n = NoFd
      BY <2>1 DEF Close, IsOpen
    <3> QED
      BY <1>0, <1>t, <3>1, ConstantsAre DEF Typed
  <2>2. CASE IsOpen(t, Socket)
    <3>1. /\ n \in Fds /\ u \in Tables(Opens \cup {Foreign})
          /\ u.file = [t.file EXCEPT ![n] = NoFile]
          /\ u.fd_ = [t.fd_ EXCEPT ![Socket] = NoFd]
          /\ u.epoll = t.epoll \ {n} /\ u.ready = t.ready \ {n} /\ u.events_ = t.events_
      BY <1>0, <2>2, CloseIs
    <3> QED
      BY <1>0, <1>t, <3>1, ConstantsAre
  <2> QED
    BY <2>1, <2>2
<1>2. Good(u, k)
  <2>1. IsOpen(u, Neighbour) => FileOf(u, Neighbour) = Foreign
    <3>1. IsOpen(t, Neighbour) => /\ t.fd_[Neighbour] # n /\ t.fd_[Neighbour] \in Fds
                                  /\ FileOf(t, Neighbour) = Foreign
      BY NumbersDiffer DEF Good
    <3> QED
      BY <1>1, <3>1 DEF IsOpen, FileOf
  <2>2. /\ ~ IsOpen(u, Socket)
        /\ \A m \in Fds : u.file[m] \in Opens => u.file[m] <= k
        /\ \A m, l \in Fds : u.file[m] \in Opens /\ m # l => u.file[m] # u.file[l]
        /\ u.ready \subseteq u.epoll
    BY <1>1, ConstantsAre DEF Good, IsOpen
  <2>3. \A m \in u.epoll : u.file[m] # NoFile /\ u.events_[m] # NoObject
    BY <1>1, <1>t DEF Good, Typed
  <2> QED
    BY <1>1, <2>1, <2>2, <2>3 DEF Good
<1>3. Shrunk(t, u) /\ ~ IsOpen(u, Socket)
  BY <1>1, ConstantsAre DEF Shrunk, IsOpen
<1>4. Registered(t) /\ (IsOpen(t, Socket) => t.events_[t.fd_[Socket]] = NoObject)
        => Registered(u)
  BY <1>0, <1>1, <1>t DEF Registered
<1> QED
  BY <1>1, <1>2, <1>3, <1>4

\* socket() has failed: fd_ is -1.
LEMMA LostGood ==
  ASSUME NEW t, NEW k, Good(t, k), NEW u, u = [t EXCEPT !.fd_[Socket] = NoFd]
  PROVE  /\ Good(u, k) /\ Shrunk(t, u) /\ ~ IsOpen(u, Socket) /\ u.file = t.file
         /\ Registered(t) => Registered(u)
<1>0. t \in Tables(Opens \cup {Foreign}) /\ Socket \in Objects
  BY ConstantsAre DEF Good
<1>1. /\ u \in Tables(Opens \cup {Foreign}) /\ u.file = t.file /\ u.events_ = t.events_
      /\ u.epoll = t.epoll /\ u.ready = t.ready
      /\ u.fd_[Socket] = NoFd /\ u.fd_[Neighbour] = t.fd_[Neighbour]
  BY <1>0, ConstantsAre DEF Tables
<1>2. Good(u, k)
  BY <1>1 DEF Good, IsOpen, FileOf
<1>3. Shrunk(t, u) /\ ~ IsOpen(u, Socket)
  BY <1>1, ConstantsAre DEF Shrunk, IsOpen
<1> QED
  BY <1>1, <1>2, <1>3 DEF Registered

\* A restart in the middle of OnClose leaves the old socket open, and the
\* number of the new one, at most, in events_.
LEMMA RestartedGood ==
  ASSUME NEW t, NEW k, Good(t, k), NEW p \in Opens, NEW u, u = Restarted(t, p)
  PROVE  Good(u, k) /\ ~ IsOpen(u, Socket)
<1>0. t \in Tables(Opens \cup {Foreign}) /\ Socket \in Objects /\ p \in Opens \cup {Foreign}
  BY ConstantsAre DEF Good
<1>1. CASE Free(t) = {}
  BY <1>1, LostGood DEF Restarted
<1>2. CASE Free(t) # {}
  <2> DEFINE v == AddEvent(OpenAs(t, Socket, p), Socket, FALSE)
             n == Min(Free(t))
  <2>1. u = Close(v, Socket)
    BY <1>2 DEF Restarted
  <2>2. n \in Fds /\ v \in Tables(Opens \cup {Foreign}) /\ NumberOpened(t, v, Socket, p, n)
    BY <1>0, <1>2, OpenedIs
  <2> HIDE DEF v, n
  <2>3. /\ Typed(t) /\ \A o \in Objects : IsOpen(t, o) <=> t.fd_[o] \in Fds
        /\ \A o \in Objects : IsOpen(v, o) <=> v.fd_[o] \in Fds
        /\ DOMAIN v.file = Fds /\ DOMAIN v.fd_ = Objects
    BY <1>0, <2>2, TablesTyped
  <2>4. /\ t.file[n] = NoFile
        /\ \A m \in Fds : v.file[m] = IF m = n THEN p ELSE t.file[m]
        /\ \A o \in Objects : v.fd_[o] = IF o = Socket THEN n ELSE t.fd_[o]
        /\ \A m \in Fds : m # n => v.events_[m] = t.events_[m]
        /\ \A m \in Fds : m # n => (m \in v.epoll <=> m \in t.epoll)
        /\ \A m \in v.ready : m # n => m \in t.ready
        /\ v.ready \subseteq Fds /\ v.epoll \subseteq Fds
    BY <2>2, TablesTyped DEF NumberOpened, Typed
  <2>5. IsOpen(v, Socket) /\ v.fd_[Socket] = n
    BY <2>2, <2>3, <2>4, ConstantsAre
  <2>6. /\ u \in Tables(Opens \cup {Foreign})
        /\ u.file = [v.file EXCEPT ![n] = NoFile]
        /\ u.fd_ = [v.fd_ EXCEPT ![Socket] = NoFd]
        /\ u.epoll = v.epoll \ {n} /\ u.ready = v.ready \ {n} /\ u.events_ = v.events_
    BY <1>0, <2>1, <2>2, <2>5, CloseIs
  <2>7. /\ \A m \in Fds : u.file[m] = t.file[m]
        /\ u.fd_[Socket] = NoFd /\ u.fd_[Neighbour] = t.fd_[Neighbour]
        /\ \A m \in u.epoll : m \in t.epoll /\ u.events_[m] = t.events_[m] /\ m \in Fds
        /\ \A m \in u.ready : m \in t.ready /\ m \in Fds /\ m # n
    BY <2>3, <2>4, <2>6, ConstantsAre
  <2>8. u.ready \subseteq u.epoll
    BY <2>4, <2>6, <2>7 DEF Good
  <2>9. IsOpen(u, Neighbour) => FileOf(u, Neighbour) = Foreign
    BY <2>3, <2>7, ConstantsAre DEF Good, IsOpen, FileOf
  <2> QED
    BY <2>6, <2>7, <2>8, <2>9 DEF Good, IsOpen
<1> QED
  BY <1>1, <1>2

-----------------------------------------------------------------------------
(* Closing.                                                                *)

\* What a step keeps of the invariant, but for LocalInv; Opened counts the
\* sockets opened before the step.
TableKept ==
  /\ Good(table', Opened) /\ FlagInv' /\ KernelInv' /\ ReadInv' /\ WriteInv'
  /\ OthersHear' /\ NoDescriptorLeaks'

\* What OnClose leaves, whatever it is told to close.
ClosedNow ==
  /\ Good(table', Opened)
  /\ Shrunk(table, table') \/ ("start" \in unclean' /\ ~ IsUp')
  /\ FlagsTyped' /\ FlagInv'
  /\ closed_' \/ ~ IsUp'
  /\ again \/ again' \/ ~ IsUp'
  /\ again \/ again' \/ "start" \in unclean' \/ \A n \in Fds : table'.file[n] \notin Opens

\* What the program knows before a close: the sockets that are open.
LEMMA SocketsAre ==
  ASSUME NoDescriptorLeaks, ~ again, Good(table, Opened)
  PROVE  /\ IsUp => ~ closed_ /\ table.fd_[Socket] \in Fds
         /\ "start" \in unclean
              \/ \A n \in Fds : table.file[n] \in Opens => IsUp /\ n = table.fd_[Socket]
<1>1. \A o \in Objects : IsOpen(table, o) <=> table.fd_[o] \in Fds
  BY TablesTyped DEF Good
<1>2. IsUp => table.fd_[Socket] \in Fds
  BY <1>1, ConstantsAre DEF IsUp
<1>3. /\ IsUp => ~ closed_
      /\ "start" \in unclean \/ IF IsUp THEN Sockets = {Current} ELSE Sockets = {}
  BY DEF NoDescriptorLeaks
<1>4. \A n \in Fds : table.file[n] \in Opens => table.file[n] \in Sockets
  BY DEF Sockets
<1>5. ASSUME "start" \notin unclean, NEW n \in Fds, table.file[n] \in Opens
      PROVE  IsUp /\ n = table.fd_[Socket]
  <2>1. IsUp /\ table.file[n] = Current
    BY <1>3, <1>4, <1>5
  <2> QED
    BY <1>2, <1>5, <2>1 DEF Good, Current, FileOf
<1> QED
  BY <1>2, <1>3, <1>5

LEMMA OnCloseIs ==
  ASSUME IInv, NEW t,
         \/ t = table \/ t = DelEvent(table, Socket)
         \/ t = [table EXCEPT !.fd_[Socket] = NoFd] /\ (IsUp => again'),
         OnClose(t), UNCHANGED kind
  PROVE  ClosedNow
<1>0. /\ Good(table, Opened) /\ FlagInv /\ NoDescriptorLeaks
      /\ kind = "client" \/ kind = "server"
      /\ closed_ \in BOOLEAN /\ connected_ \in BOOLEAN /\ unclean \subseteq {"close", "start"}
  BY SocketAssumption DEF IInv, LocalInv, TypeInv, LoopTyped, FlagsTyped
<1> DEFINE k == Opened
<1> HIDE DEF k
<1>1. /\ Good(t, k) /\ Shrunk(table, t) /\ t.file = table.file
      /\ Registered(table) => Registered(t)
      /\ IsOpen(t, Socket) => IsUp /\ t.fd_[Socket] = table.fd_[Socket]
      /\ again' \/ (IsUp => t.fd_[Socket] = table.fd_[Socket])
      /\ \/ t = table \/ (IsOpen(t, Socket) => t.events_[t.fd_[Socket]] = NoObject)
  <2>1. CASE t = table
    BY <1>0, <2>1 DEF Shrunk, IsUp, k
  <2>2. CASE t = DelEvent(table, Socket)
    <3>1. /\ Good(t, k) /\ Shrunk(table, t) /\ t.fd_ = table.fd_ /\ t.file = table.file
          /\ Registered(table) => Registered(t)
          /\ IsOpen(t, Socket) => t.events_[t.fd_[Socket]] = NoObject
      BY <1>0, <2>2, DelEventGood DEF k
    <3>2. IsOpen(t, Socket) => IsUp
      BY <3>1 DEF IsUp, IsOpen
    <3> QED
      BY <3>1, <3>2
  <2>3. CASE t = [table EXCEPT !.fd_[Socket] = NoFd] /\ (IsUp => again')
    <3>1. /\ Good(t, k) /\ Shrunk(table, t) /\ ~ IsOpen(t, Socket) /\ t.file = table.file
          /\ Registered(table) => Registered(t)
      BY <1>0, <2>3, LostGood DEF k
    <3> QED
      BY <2>3, <3>1
  <2> QED
    BY <2>1, <2>2, <2>3
<1>2. ASSUME NEW v, Good(v, k), Shrunk(table, v), ~ IsOpen(v, Socket),
             \A n \in Fds : v.file[n] = IF n = t.fd_[Socket] THEN NoFile ELSE table.file[n]
      PROVE  again \/ again' \/ "start" \in unclean \/ \A n \in Fds : v.file[n] \notin Opens
  <2>1. SUFFICES ASSUME ~ again, ~ again', "start" \notin unclean, NEW n \in Fds, v.file[n] \in Opens PROVE FALSE
    OBVIOUS
  <2>2. table.file[n] \in Opens /\ n # t.fd_[Socket]
    BY <1>2, <2>1, ConstantsAre
  <2>3. IsUp /\ n = table.fd_[Socket]
    BY <1>0, <2>1, <2>2, SocketsAre
  <2> QED
    BY <1>1, <2>1, <2>2, <2>3
<1>3. CASE kind = "server" /\ closed_
  <2>1. table' = t /\ closed_' = TRUE /\ connected_' = connected_ /\ unclean' = unclean
    BY <1>0, <1>3 DEF OnClose, ServerOnClose
  <2>2. /\ again \/ again' \/ ~ IsUp
        /\ again \/ again' \/ "start" \in unclean \/ \A n \in Fds : table.file[n] \notin Opens
    BY <1>0, <1>3, SocketsAre
  <2>3. ~ IsUp => ~ IsOpen(t, Socket)
    BY <1>1
  <2>4. FlagInv'
    BY <1>0, <1>1, <1>3, <2>1 DEF FlagInv
  <2> QED
    BY <1>0, <1>1, <2>1, <2>2, <2>3, <2>4 DEF ClosedNow, FlagsTyped, IsUp, k
<1>4. CASE kind = "server" /\ ~ closed_
  <2>0. closed_' = TRUE /\ connected_' = connected_ /\ unclean = {} /\ Registered(t)
    BY <1>0, <1>1, <1>4 DEF OnClose, ServerOnClose, FlagInv
  <2>1. ASSUME NEW v, Good(v, k), Shrunk(table, v), v.file = table.file,
               v.fd_[Socket] = t.fd_[Socket], table' = Close(v, Socket),
               unclean' \subseteq {"close", "start"},
               unclean' # {} \/ (Registered(v) /\ (IsOpen(v, Socket) =>
                                                  v.events_[v.fd_[Socket]] = NoObject))
        PROVE  ClosedNow
    <3>1. /\ Good(table', k) /\ Shrunk(v, table') /\ ~ IsUp'
          /\ \A m \in Fds : table'.file[m] = IF m = v.fd_[Socket] THEN NoFile ELSE v.file[m]
          /\ Registered(v) /\ (IsOpen(v, Socket) => v.events_[v.fd_[Socket]] = NoObject)
               => Registered(table')
      BY <2>1, CloseGood DEF IsUp
    <3>2. Shrunk(table, table')
      BY <2>1, <3>1, ShrunkTwice
    <3>3. again \/ again' \/ \A n \in Fds : table'.file[n] \notin Opens
      BY <1>2, <2>0, <2>1, <3>1, <3>2 DEF IsUp
    <3>4. FlagInv'
      BY <1>0, <1>4, <2>0, <2>1, <3>1 DEF FlagInv
    <3> QED
      BY <1>0, <2>0, <2>1, <3>1, <3>2, <3>3, <3>4 DEF ClosedNow, FlagsTyped, k
  <2>2. CASE /\ table' = Close(t, Socket)
             /\ unclean' = IF IsOpen(t, Socket) /\ t.events_[t.fd_[Socket]] = Socket
                           THEN unclean \cup {"close"} ELSE unclean
    <3>1. IsOpen(t, Socket) /\ t.events_[t.fd_[Socket]] # NoObject
            => t.events_[t.fd_[Socket]] = Socket
      BY <1>0, <1>1, <1>4 DEF FlagInv
    <3> QED
      BY <1>1, <2>0, <2>1, <2>2, <3>1
  <2>3. CASE table' = Close(DelEvent(t, Socket), Socket) /\ unclean' = unclean
    <3> DEFINE v == DelEvent(t, Socket)
    <3>1. /\ Good(v, k) /\ Shrunk(t, v) /\ v.fd_ = t.fd_ /\ v.file = t.file
          /\ Registered(t) => Registered(v)
          /\ IsOpen(v, Socket) => v.events_[v.fd_[Socket]] = NoObject
      BY <1>1, DelEventGood
    <3>2. table' = Close(v, Socket)
      BY <2>3
    <3> HIDE DEF v
    <3>3. Shrunk(table, v)
      BY <1>1, <3>1, ShrunkTwice
    <3> QED
      BY <1>1, <2>0, <2>1, <2>3, <3>1, <3>2, <3>3
  <2>4. CASE /\ \E p \in Opens : table' = Restarted(t, p)
             /\ unclean' = unclean \cup {"start"}
    <3>1. Good(table', k) /\ ~ IsUp'
      BY <1>1, <2>4, RestartedGood DEF IsUp
    <3>2. FlagInv'
      BY <1>0, <1>4, <2>0, <2>4, <3>1 DEF FlagInv
    <3> QED
      BY <1>0, <2>0, <2>4, <3>1, <3>2 DEF ClosedNow, FlagsTyped, k
  <2> QED
    BY <1>4, <2>2, <2>3, <2>4 DEF OnClose, ServerOnClose
<1>5. CASE kind = "client" /\ connected_
  <2> DEFINE v == DelEvent(t, Socket)
  <2>1. /\ table' = Close(v, Socket) /\ connected_' = FALSE
        /\ closed_' = closed_ /\ unclean' = unclean
    BY <1>5 DEF OnClose, ClientOnClose
  <2>2. /\ Good(v, k) /\ Shrunk(t, v) /\ v.fd_ = t.fd_ /\ v.file = t.file
        /\ Registered(t) => Registered(v)
        /\ IsOpen(v, Socket) => v.events_[v.fd_[Socket]] = NoObject
    BY <1>1, DelEventGood
  <2> HIDE DEF v
  <2>3. /\ Good(table', k) /\ Shrunk(v, table') /\ ~ IsUp'
        /\ \A m \in Fds : table'.file[m] = IF m = v.fd_[Socket] THEN NoFile ELSE v.file[m]
        /\ Registered(v) /\ (IsOpen(v, Socket) => v.events_[v.fd_[Socket]] = NoObject)
             => Registered(table')
    BY <2>1, <2>2, CloseGood DEF IsUp
  <2>4. Shrunk(table, table')
    <3>1. Shrunk(table, v)
      BY <1>1, <2>2, ShrunkTwice
    <3> QED
      BY <2>3, <3>1, ShrunkTwice
  <2>5. again \/ again' \/ "start" \in unclean \/ \A n \in Fds : table'.file[n] \notin Opens
    BY <1>1, <1>2, <2>2, <2>3, <2>4 DEF IsUp
  <2>6. FlagInv'
    BY <1>0, <1>1, <1>5, <2>1, <2>2, <2>3 DEF FlagInv
  <2> QED
    BY <1>0, <2>1, <2>3, <2>4, <2>5, <2>6 DEF ClosedNow, FlagsTyped, k
<1>6. CASE kind = "client" /\ ~ connected_
  <2>1. table' = t /\ closed_' = closed_ /\ connected_' = FALSE /\ unclean' = unclean
    BY <1>6 DEF OnClose, ClientOnClose
  <2>2. ~ IsUp /\ ~ IsOpen(t, Socket)
    BY <1>0, <1>1, <1>6 DEF FlagInv
  <2>3. again \/ again' \/ "start" \in unclean \/ \A n \in Fds : table.file[n] \notin Opens
    BY <1>0, <2>2, SocketsAre
  <2>4. FlagInv'
    BY <1>0, <1>1, <1>6, <2>1, <2>2 DEF FlagInv, IsUp
  <2> QED
    BY <1>0, <1>1, <2>1, <2>2, <2>3, <2>4 DEF ClosedNow, FlagsTyped, IsUp, k
<1> QED
  BY <1>0, <1>3, <1>4, <1>5, <1>6

\* After OnClose the kernel has forgotten the sockets that were closed.
LEMMA OnCloseKeeps ==
  ASSUME IInv, NEW t,
         \/ t = table \/ t = DelEvent(table, Socket)
         \/ t = [table EXCEPT !.fd_[Socket] = NoFd] /\ (IsUp => again'),
         OnClose(t), UNCHANGED <<kind, asked>>, again => again'
  PROVE  TableKept /\ KernelTyped' /\ FlagsTyped'
<1>0. /\ Good(table, Opened) /\ KernelInv /\ OthersHear /\ FlagInv
      /\ arrived \in [Opens -> Seq(Lengths)] /\ sndbuf \in [Opens -> 0 .. SndCap]
      /\ refused \subseteq Opens
      /\ SndCap \in Nat
  BY SocketAssumption DEF IInv, LocalInv, TypeInv, KernelTyped
<1>1. ClosedNow
  BY OnCloseIs
<1>2. /\ Good(table', Opened) /\ FlagsTyped' /\ FlagInv'
      /\ Shrunk(table, table') \/ ("start" \in unclean' /\ ~ IsUp')
  BY <1>1 DEF ClosedNow
<1>3. /\ Typed(table) /\ Typed(table')
      /\ \A o \in Objects : IsOpen(table, o) <=> table.fd_[o] \in Fds
      /\ \A o \in Objects : IsOpen(table', o) <=> table'.fd_[o] \in Fds
  BY <1>0, <1>2, TablesTyped DEF Good
<1>4. /\ arrived' = [p \in Opens |-> IF p \in {table'.file[n] : n \in Fds} THEN arrived[p]
                                     ELSE << >>]
      /\ sndbuf' = [p \in Opens |-> IF p \in {table'.file[n] : n \in Fds} THEN sndbuf[p]
                                    ELSE 0]
      /\ refused' = refused \cap {table'.file[n] : n \in Fds}
  BY DEF OnClose
<1>5. KernelTyped'
  BY <1>0, <1>4 DEF KernelTyped
<1>6. KernelInv'
  <2>1. IsUp' => IsUp /\ Current' = Current
    BY <1>2, <1>3, ConstantsAre DEF Shrunk, IsUp, Current, FileOf, IsOpen
  <2>2. \A p \in Opens \ Sockets' : arrived'[p] = << >>
    BY <1>4 DEF Sockets
  <2> QED
    BY <1>0, <2>1, <2>2 DEF KernelInv
<1>7. OthersHear'
  <2>1. SUFFICES ASSUME IsOpen(table', Neighbour), unclean' = {}
                 PROVE  Hears(table', Neighbour, Foreign)
    BY DEF OthersHear
  <2>2. IsOpen(table, Neighbour) /\ table'.fd_[Neighbour] = table.fd_[Neighbour]
    BY <1>2, <2>1 DEF Shrunk, IsOpen
  <2>3. unclean = {}
    BY <2>1 DEF OnClose, ServerOnClose, ClientOnClose
  <2>4. Hears(table, Neighbour, Foreign)
    BY <1>0, <2>2, <2>3 DEF OthersHear
  <2>5. table.fd_[Neighbour] # table.fd_[Socket] /\ table.fd_[Neighbour] \in Fds
    BY <1>0, <2>2, NumbersDiffer
  <2> QED
    BY <1>2, <2>1, <2>2, <2>4, <2>5 DEF Shrunk, Hears, FileOf
<1>8. ReadInv' /\ WriteInv' /\ NoDescriptorLeaks'
  <2>1. /\ again' \/ ~ IsUp'
        /\ again' \/ "start" \in unclean' \/ \A n \in Fds : table'.file[n] \notin Opens
    BY <1>1 DEF ClosedNow
  <2>2. closed_' \/ ~ IsUp'
    BY <1>1 DEF ClosedNow
  <2>3. again' \/ (~ IsUp' /\ ("start" \in unclean' \/ Sockets' = {}))
    BY <2>1 DEF Sockets
  <2>4. ReadInv'
    BY <2>1 DEF ReadInv
  <2>5. WriteInv'
    BY <2>2 DEF WriteInv
  <2>6. NoDescriptorLeaks'
    BY <2>3 DEF NoDescriptorLeaks
  <2> QED
    BY <2>4, <2>5, <2>6
<1> QED
  BY <1>2, <1>5, <1>6, <1>7, <1>8 DEF TableKept

-----------------------------------------------------------------------------
(* Opening.                                                                *)

LEMMA GoodMore ==
  ASSUME NEW t, NEW j \in Int, NEW k \in Int, Good(t, j), j <= k
  PROVE  Good(t, k)
<1>1. \A n \in Fds : t.file[n] \in Opens => t.file[n] \in Int
  BY DEF Opens
<1> QED
  BY <1>1 DEF Good

\* What the object, or its neighbour, finds after it got number n.
LEMMA OpenedGood ==
  ASSUME NEW t, NEW j \in Int, Good(t, j), Free(t) # {}, NEW o \in Objects,
         NEW f, NEW k \in Int, j <= k,
         \/ o = Socket /\ f \in Opens /\ f = k /\ j < k
         \/ o = Neighbour /\ f = Foreign,
         NEW n, n = Min(Free(t)), NEW now \in BOOLEAN,
         NEW u, u = AddEvent(OpenAs(t, o, f), o, now)
  PROVE  /\ n \in Fds /\ NumberOpened(t, u, o, f, n) /\ Good(u, k)
         /\ Registered(t) => Registered(u) /\ Hears(u, o, f)
<1>0. t \in Tables(Opens \cup {Foreign}) /\ f \in Opens \cup {Foreign}
  BY DEF Good
<1>1. n \in Fds /\ u \in Tables(Opens \cup {Foreign}) /\ NumberOpened(t, u, o, f, n)
  BY <1>0, OpenedIs
<1>2. /\ t.file[n] = NoFile
      /\ \A m \in Fds : u.file[m] = IF m = n THEN f ELSE t.file[m]
      /\ \A q \in Objects : u.fd_[q] = IF q = o THEN n ELSE t.fd_[q]
      /\ \A m \in Fds : u.events_[m] = IF m = n /\ t.events_[n] = NoObject THEN o
                                       ELSE t.events_[m]
      /\ \A m \in Fds : m \in u.epoll <=> m \in t.epoll \/ (m = n /\ t.events_[n] = NoObject)
      /\ \A m \in u.ready : m \in t.ready \/ (m = n /\ t.events_[n] = NoObject)
  BY <1>1 DEF NumberOpened
<1>3. /\ Typed(t) /\ Typed(u)
      /\ \A q \in Objects : IsOpen(t, q) <=> t.fd_[q] \in Fds
      /\ \A q \in Objects : IsOpen(u, q) <=> u.fd_[q] \in Fds
  BY <1>0, <1>1, TablesTyped
<1>4. \A q \in Objects : IsOpen(t, q) => t.fd_[q] # n
  BY <1>0, <1>2, ConstantsAre DEF Good, FileOf
<1>5. Good(u, k)
  <2>1. /\ IsOpen(u, Socket) => FileOf(u, Socket) \in Opens
        /\ IsOpen(u, Neighbour) => FileOf(u, Neighbour) = Foreign
    BY <1>1, <1>2, <1>3, <1>4, ConstantsAre DEF Good, FileOf
  <2>2. \A m \in Fds : t.file[m] \in Opens => t.file[m] \in Int /\ t.file[m] <= j
    BY DEF Good, Opens
  <2>3. \A m \in Fds : u.file[m] \in Opens => u.file[m] <= k
    <3> SUFFICES ASSUME NEW m \in Fds, u.file[m] \in Opens PROVE u.file[m] <= k
      OBVIOUS
    <3>1. CASE m # n
      <4>1. u.file[m] = t.file[m] /\ t.file[m] \in Int /\ t.file[m] <= j
        BY <1>2, <2>2, <3>1
      <4> QED
        BY <4>1
    <3>2. CASE m = n
      BY <1>2, <3>2, ConstantsAre
    <3> QED
      BY <3>1, <3>2
  <2>4. \A m, l \in Fds : u.file[m] \in Opens /\ m # l => u.file[m] # u.file[l]
    <3>1. \A m \in Fds : f \in Opens => t.file[m] # f
      BY <2>2, ConstantsAre
    <3> QED
      BY <1>2, <3>1 DEF Good
  <2>5. u.ready \subseteq u.epoll
    BY <1>1, <1>2, <1>3 DEF Good, Typed
  <2>6. \A m \in u.epoll : u.file[m] # NoFile /\ u.events_[m] # NoObject
    <3>1. f # NoFile /\ o # NoObject
      BY ConstantsAre
    <3> QED
      BY <1>1, <1>2, <1>3, <3>1 DEF Good, Typed
  <2> QED
    BY <1>1, <2>1, <2>3, <2>4, <2>5, <2>6 DEF Good
<1>6. ASSUME Registered(t) PROVE Registered(u) /\ Hears(u, o, f)
  <2>1. t.events_[n] = NoObject
    BY <1>1, <1>2, <1>6 DEF Good, Registered
  <2>2. Registered(u)
    BY <1>1, <1>2, <1>6, <2>1 DEF Registered
  <2>3. Hears(u, o, f)
    BY <1>1, <1>2, <1>3, <2>1 DEF Hears, FileOf
  <2> QED
    BY <2>2, <2>3
<1> QED
  BY <1>1, <1>5, <1>6

\* UdpServer::Open, UdpClient::ConnectInLoop.
LEMMA OpenKeeps ==
  ASSUME IInv, NEW k \in Opens, k = Opened + 1, Opened \in Nat, Open(k),
         UNCHANGED <<kind, buffer_list_>>
  PROVE  /\ Good(table', k) /\ FlagInv' /\ KernelInv' /\ ReadInv' /\ WriteInv'
         /\ OthersHear' /\ NoDescriptorLeaks'
         /\ KernelTyped' /\ FlagsTyped' /\ AskedTyped' /\ missed' \in BOOLEAN /\ again' \in BOOLEAN
<1>0. /\ Good(table, Opened) /\ KernelInv /\ OthersHear /\ FlagInv /\ NoDescriptorLeaks
      /\ KernelTyped /\ FlagsTyped /\ AskedTyped /\ SendTyped /\ LoopTyped
      /\ kind = "client" \/ kind = "server"
  BY SocketAssumption DEF IInv, LocalInv, TypeInv, LoopTyped
<1>1. /\ again' = (again \/ IsUp \/ closed_)
      /\ missed' = (missed \/ buffer_list_ # << >>)
      /\ again' \in BOOLEAN /\ missed' \in BOOLEAN
  BY <1>0 DEF Open, LoopTyped, SendTyped, FlagsTyped
<1>k. k \in Int /\ Opened \in Int /\ Opened <= k /\ Opened < k
  BY DEF Opens
<1>2. CASE Free(table) = {}
  <2> DEFINE t == [table EXCEPT !.fd_[Socket] = NoFd]
  <2>1. OnClose(t) /\ UNCHANGED asked /\ t = [table EXCEPT !.fd_[Socket] = NoFd]
    BY <1>2 DEF Open
  <2> HIDE DEF t
  <2>2. (IsUp => again') /\ (again => again')
    BY <1>1
  <2>3. TableKept /\ KernelTyped' /\ FlagsTyped'
    BY <2>1, <2>2, OnCloseKeeps
  <2>4. Good(table', k)
    BY <1>k, <2>3, GoodMore DEF TableKept
  <2>5. AskedTyped'
    BY <1>0, <2>1 DEF AskedTyped
  <2> QED
    BY <1>1, <2>3, <2>4, <2>5 DEF TableKept
<1>3. CASE Free(table) # {}
  <2> DEFINE n == Min(Free(table))
             j == Opened
             now == FALSE
  <2>1. /\ table' = AddEvent(OpenAs(table, Socket, k), Socket, now)
        /\ asked' = [asked EXCEPT ![k] = kEventRead]
        /\ connected_' = (kind = "client")
        /\ UNCHANGED <<closed_, unclean, arrived, sndbuf, refused>>
    BY <1>3 DEF Open, kernelVars
  <2>2. /\ n = Min(Free(table)) /\ now \in BOOLEAN
        /\ j \in Int /\ j <= k /\ j < k /\ Good(table, j)
    BY <1>0, <1>k
  <2> HIDE DEF n, j, now
  <2>3. /\ n \in Fds /\ NumberOpened(table, table', Socket, k, n) /\ Good(table', k)
        /\ Registered(table) => Registered(table') /\ Hears(table', Socket, k)
    BY <1>3, <1>k, <2>1, <2>2, ConstantsAre, OpenedGood
  <2>4. /\ table.file[n] = NoFile
        /\ \A m \in Fds : table'.file[m] = IF m = n THEN k ELSE table.file[m]
        /\ \A q \in Objects : table'.fd_[q] = IF q = Socket THEN n ELSE table.fd_[q]
        /\ \A m \in Fds : m # n => table'.events_[m] = table.events_[m]
        /\ \A m \in Fds : m # n => (m \in table'.epoll <=> m \in table.epoll)
    BY <2>3 DEF NumberOpened
  <2>5. IsUp' /\ Current' = k
    BY <2>3, <2>4, ConstantsAre DEF IsUp, Current, IsOpen, FileOf
  <2>6. FlagInv'
    <3>1. ~ closed_ => table'.events_[table'.fd_[Socket]] = Socket
      BY <1>0, <2>3 DEF FlagInv, Hears
    <3> QED
      BY <1>0, <2>1, <2>3, <2>5, <3>1 DEF FlagInv
  <2>7. AskedTyped' /\ KernelInv'
    <3>1. "IN" \in asked'[k] /\ AskedTyped'
      BY <1>0, <2>1 DEF AskedTyped, kEventRead
    <3>2. \A i \in Opens \ Sockets' : i \notin Sockets
      <4>1. \A m \in Fds : table.file[m] \in Opens => table'.file[m] = table.file[m]
        BY <2>4, ConstantsAre
      <4> QED
        BY <4>1 DEF Sockets
    <3> QED
      BY <1>0, <2>1, <2>5, <3>1, <3>2 DEF KernelInv
  <2>8. ReadInv'
    <3>1. k \notin Sockets
      <4>1. \A m \in Fds : table.file[m] \in Opens => table.file[m] \in Int /\ table.file[m] <= j
        BY <2>2 DEF Good, Opens
      <4> QED
        BY <2>2, <1>k, <4>1 DEF Sockets
    <3> QED
      BY <1>0, <2>1, <2>5, <3>1 DEF KernelInv, ReadInv
  <2>9. WriteInv'
    BY <1>1 DEF WriteInv
  <2>10. OthersHear'
    <3>1. SUFFICES ASSUME IsOpen(table', Neighbour), unclean = {}
                   PROVE  Hears(table', Neighbour, Foreign)
      BY <2>1 DEF OthersHear
    <3>2. IsOpen(table, Neighbour) /\ table'.fd_[Neighbour] = table.fd_[Neighbour]
      BY <2>4, <3>1, ConstantsAre DEF IsOpen
    <3>3. Hears(table, Neighbour, Foreign) /\ table.fd_[Neighbour] \in Fds
      BY <1>0, <3>1, <3>2, NumbersDiffer DEF OthersHear
    <3>4. table.fd_[Neighbour] # n
      BY <2>4, <3>3, ConstantsAre DEF Hears, FileOf
    <3> QED
      BY <2>4, <3>1, <3>2, <3>3, <3>4 DEF Hears, FileOf
  <2>11. NoDescriptorLeaks'
    <3>0. ~ closed_ => "start" \notin unclean
      BY <1>0 DEF FlagInv
    <3>1. SUFFICES ASSUME ~ again, ~ IsUp, ~ closed_
                   PROVE  Sockets' = {Current'} /\ ~ closed_' /\ (kind' = "client" => connected_')
      BY <1>1, <2>5 DEF NoDescriptorLeaks
    <3>2. \A m \in Fds : table.file[m] \notin Opens
      BY <1>0, <3>0, <3>1, SocketsAre
    <3>3. Sockets' = {k}
      BY <2>3, <2>4, <3>2 DEF Sockets
    <3> QED
      BY <2>1, <2>5, <3>1, <3>3
  <2> QED
    BY <1>0, <1>1, <2>1, <2>3, <2>6, <2>7, <2>8, <2>9, <2>10, <2>11 DEF KernelTyped, FlagsTyped
<1> QED
  BY <1>2, <1>3

-----------------------------------------------------------------------------
(* Edges and sending.                                                      *)

\* Only the ready list of the table changes.
ReadyOnly(u) ==
  /\ u \in Tables(Opens \cup {Foreign})
  /\ u.file = table.file /\ u.fd_ = table.fd_ /\ u.epoll = table.epoll
  /\ u.events_ = table.events_
  /\ u.ready \subseteq u.epoll

LEMMA ReadyOnlyKeeps ==
  ASSUME IInv, ReadyOnly(table'), UNCHANGED <<kind, closed_, connected_, unclean, again>>
  PROVE  /\ Good(table', Opened) /\ FlagInv' /\ OthersHear' /\ NoDescriptorLeaks'
         /\ IsUp' <=> IsUp
         /\ Current' = Current /\ Sockets' = Sockets
         /\ table'.fd_[Socket] = table.fd_[Socket]
<1>1. Good(table, Opened) /\ FlagInv /\ OthersHear /\ NoDescriptorLeaks
  BY DEF IInv
<1>2. /\ \A o \in Objects : IsOpen(table', o) <=> IsOpen(table, o)
      /\ \A o \in Objects : FileOf(table', o) = FileOf(table, o)
      /\ IsUp' <=> IsUp
      /\ Current' = Current /\ Sockets' = Sockets
  BY ConstantsAre DEF ReadyOnly, IsOpen, FileOf, IsUp, Current, Sockets
<1>3. Good(table', Opened)
  BY <1>1, <1>2, ConstantsAre DEF Good, ReadyOnly
<1>4. FlagInv'
  BY <1>1, <1>2 DEF FlagInv, ReadyOnly, Registered
<1>5. OthersHear'
  BY <1>1, <1>2, ConstantsAre DEF OthersHear, ReadyOnly, Hears
<1>6. NoDescriptorLeaks'
  BY <1>1, <1>2 DEF NoDescriptorLeaks
<1> QED
  BY <1>2, <1>3, <1>4, <1>5, <1>6 DEF ReadyOnly

\* What is known of the current socket.
LEMMA CurrentIs ==
  ASSUME IInv
  PROVE  /\ IsUp => /\ Current \in Opens /\ Current \in Sockets
                    /\ table.fd_[Socket] \in Fds /\ Current = table.file[table.fd_[Socket]]
         /\ IsUp /\ ~ closed_ => /\ table.fd_[Socket] \in table.epoll
                                 /\ table.events_[table.fd_[Socket]] = Socket
<1>0. Good(table, Opened) /\ FlagInv /\ FlagsTyped
  BY DEF IInv, LocalInv, TypeInv
<1>1. \A o \in Objects : IsOpen(table, o) <=> table.fd_[o] \in Fds
  BY <1>0, TablesTyped DEF Good
<1>2. IsUp => /\ Current \in Opens /\ table.fd_[Socket] \in Fds
              /\ Current = table.file[table.fd_[Socket]]
  BY <1>0, <1>1, ConstantsAre DEF Good, IsUp, Current, FileOf
<1>3. IsUp => Current \in Sockets
  BY <1>2 DEF Sockets
<1>4. IsUp /\ ~ closed_ => /\ table.fd_[Socket] \in table.epoll
                           /\ table.events_[table.fd_[Socket]] = Socket
  BY <1>0, <1>2, ConstantsAre DEF FlagInv, Registered
<1> QED
  BY <1>2, <1>3, <1>4

\* Event::EnableWrite.
Watching ==
  /\ AskedTyped' /\ \A k \in Opens : asked[k] \subseteq asked'[k]
  /\ table.ready \subseteq table'.ready
  /\ IsUp /\ ~ closed_ => /\ "OUT" \in asked'[Current]
                          /\ Room(Current) = 0 \/ table.fd_[Socket] \in table'.ready

LEMMA EnableWriteIs ==
  ASSUME IInv, EnableWrite
  PROVE  ReadyOnly(table') /\ Watching
<1> DEFINE n == table.fd_[Socket]
<1>0. /\ Good(table, Opened) /\ AskedTyped /\ table \in Tables(Opens \cup {Foreign})
      /\ table.ready \subseteq table.epoll /\ table.epoll \subseteq Fds
      /\ table.ready \subseteq Fds
  BY TablesTyped DEF IInv, LocalInv, TypeInv, Good, Typed
<1>1. /\ IsUp => Current \in Opens
      /\ IsUp /\ ~ closed_ => n \in table.epoll /\ table.events_[n] # NoObject
  BY CurrentIs, ConstantsAre
<1>2. CASE ~ IsUp \/ table.events_[n] = NoObject
  <2>1. UNCHANGED <<asked, table>>
    BY <1>2 DEF EnableWrite
  <2>2. ReadyOnly(table')
    BY <1>0, <2>1 DEF ReadyOnly
  <2> QED
    BY <1>0, <1>1, <1>2, <2>1, <2>2 DEF Watching, AskedTyped
<1>3. CASE ~ (~ IsUp \/ table.events_[n] = NoObject)
  <2>1. /\ asked' = [asked EXCEPT ![Current] = @ \cup kEventWrite]
        /\ table' = IF arrived[Current] # << >> \/ Room(Current) > 0 \/ Current \in refused'
                    THEN Edge(table, n) ELSE table
    BY <1>3 DEF EnableWrite
  <2>2. AskedTyped' /\ \A k \in Opens : asked[k] \subseteq asked'[k]
    BY <1>0, <1>1, <1>3, <2>1 DEF AskedTyped, kEventWrite
  <2>3. "OUT" \in asked'[Current]
    BY <1>0, <1>1, <1>3, <2>1 DEF AskedTyped, kEventWrite
  <2>4. /\ ReadyOnly(table') /\ table.ready \subseteq table'.ready
        /\ Room(Current) > 0 /\ n \in table.epoll => n \in table'.ready
    <3>1. CASE /\ arrived[Current] # << >> \/ Room(Current) > 0 \/ Current \in refused'
               /\ n \in table.epoll
      <4>1. table' = [table EXCEPT !.ready = table.ready \cup {n}]
        BY <2>1, <3>1 DEF Edge
      <4> QED
        BY <1>0, <3>1, <4>1 DEF ReadyOnly, Tables
    <3>2. CASE ~ (/\ arrived[Current] # << >> \/ Room(Current) > 0 \/ Current \in refused'
                  /\ n \in table.epoll)
      <4>1. table' = table
        BY <2>1, <3>2 DEF Edge
      <4> QED
        BY <1>0, <3>2, <4>1 DEF ReadyOnly
    <3> QED
      BY <3>1, <3>2
  <2>5. IsUp => Room(Current) = 0 \/ Room(Current) > 0
    <3>1. KernelTyped /\ SndCap \in Nat
      BY SocketAssumption DEF IInv, LocalInv, TypeInv
    <3> QED
      BY <1>1, <3>1 DEF KernelTyped, Room
  <2> QED
    BY <1>1, <2>2, <2>3, <2>4, <2>5 DEF Watching
<1> QED
  BY <1>2, <1>3

\* The next message is at the end of the wire or of the list.
LEMMA OrderKept ==
  ASSUME IInv, Taken' = Taken + 1, NEW d, d[1] = Taken + 1,
         \/ wire' = Append(wire, d[1]) /\ buffer_list_ = << >> /\ buffer_list_' = << >>
         \/ wire' = wire /\ buffer_list_' = Append(buffer_list_, d)
  PROVE  OrderInv'
<1> DEFINE k == Taken
<1>0. /\ OrderInv /\ wire \in Seq(1 .. MaxSends) /\ buffer_list_ \in Seq(Messages)
      /\ sends \in Nat /\ k \in Int
  <2>1. TypeInv /\ OrderInv /\ functions_ \in Seq(Functions) /\ sends \in Nat
    BY SocketAssumption DEF IInv, LocalInv, TypeInv, LoopTyped
  <2>2. Pending({"Send", "SendList"}) \in Nat
    BY <2>1, CountIs DEF Count, Pending
  <2> QED
    BY <2>1, <2>2 DEF Taken, TypeInv, SendTyped
<1>1. /\ \A i \in DOMAIN wire : wire[i] \in Int
      /\ \A i \in DOMAIN buffer_list_ : buffer_list_[i][1] \in Int
  BY <1>0, SocketAssumption DEF Messages
<1>2. /\ \A i, j \in DOMAIN wire : i < j => wire[i] < wire[j]
      /\ \A i, j \in DOMAIN buffer_list_ : i < j => buffer_list_[i][1] < buffer_list_[j][1]
      /\ \A i \in DOMAIN wire, j \in DOMAIN buffer_list_ : wire[i] < buffer_list_[j][1]
      /\ \A i \in DOMAIN wire : wire[i] <= k
      /\ \A i \in DOMAIN buffer_list_ : buffer_list_[i][1] <= k
  BY <1>0 DEF OrderInv
<1>3. Taken' = k + 1 /\ d[1] = k + 1
  OBVIOUS
<1> HIDE DEF k
<1>4. CASE wire' = Append(wire, d[1]) /\ buffer_list_ = << >> /\ buffer_list_' = << >>
  <2>1. \A i \in DOMAIN wire' : \/ i \in DOMAIN wire /\ wire'[i] = wire[i]
                                \/ i = Len(wire) + 1 /\ wire'[i] = k + 1
    BY <1>0, <1>3, <1>4
  <2>2. \A i, j \in DOMAIN wire' : i < j => wire'[i] < wire'[j]
    <3>1. \A i \in DOMAIN wire : i \in Int /\ i <= Len(wire) /\ Len(wire) \in Int
      BY <1>0
    <3> QED
      BY <1>0, <1>1, <1>2, <2>1, <3>1
  <2>3. \A i \in DOMAIN wire' : wire'[i] <= Taken'
    BY <1>0, <1>1, <1>2, <1>3, <2>1
  <2>4. DOMAIN buffer_list_' = {}
    BY <1>4
  <2> QED
    BY <2>2, <2>3, <2>4 DEF OrderInv
<1>5. CASE wire' = wire /\ buffer_list_' = Append(buffer_list_, d)
  <2> DEFINE u == buffer_list_'
             s == buffer_list_
  <2>1. \A i \in DOMAIN u : \/ i \in DOMAIN s /\ u[i] = s[i]
                            \/ i = Len(s) + 1 /\ u[i] = d
    BY <1>0, <1>5
  <2>2. \A i, j \in DOMAIN u : i < j => u[i][1] < u[j][1]
    <3>1. \A i \in DOMAIN s : i \in Int /\ i <= Len(s) /\ Len(s) \in Int
      BY <1>0
    <3> QED
      BY <1>0, <1>1, <1>2, <1>3, <2>1, <3>1
  <2>3. /\ \A i \in DOMAIN u : u[i][1] <= Taken'
        /\ \A i \in DOMAIN wire, j \in DOMAIN u : wire[i] < u[j][1]
        /\ \A i \in DOMAIN wire : wire[i] <= Taken'
    <3>1. \A i \in DOMAIN wire : wire[i] < k + 1
      BY <1>0, <1>1, <1>2
    <3>2. \A i \in DOMAIN s : s[i][1] <= k + 1
      BY <1>0, <1>1, <1>2
    <3> QED
      BY <1>0, <1>1, <1>2, <1>3, <2>1, <3>1, <3>2, SMTT(30)
  <2> QED
    BY <1>2, <1>5, <2>2, <2>3 DEF OrderInv
<1> QED
  BY <1>4, <1>5

\* What sending leaves: what waits is asked for.
SentNow ==
  /\ ReadyOnly(table') /\ WriteInv' /\ OrderInv'
  /\ AskedTyped' /\ \A k \in Opens : asked[k] \subseteq asked'[k]
  /\ table.ready \subseteq table'.ready
  /\ sndbuf' \in [Opens -> 0 .. SndCap] /\ refused' \subseteq Opens /\ SendTyped'

LEMMA AppendTyped ==
  ASSUME NEW S, NEW s \in Seq(S), NEW x \in S, NEW u, u = Append(s, x)
  PROVE  u \in Seq(S)
  OBVIOUS

\* UdpSocket::SendInLoop, of one datagram and of a list.
LEMMA SendInLoopIs ==
  ASSUME IInv, NEW s \in Sizes, NEW d, d = <<Taken + 1, s>>,
         SendInLoop(d) \/ SendListInLoop(d),
         UNCHANGED <<kind, closed_, connected_, unclean, again>>,
         Taken + 1 \in 1 .. MaxSends, Taken' = Taken + 1
  PROVE  SentNow
<1>0. /\ sndbuf \in [Opens -> 0 .. SndCap] /\ refused \subseteq Opens /\ SndCap \in Nat
      /\ AskedTyped /\ table \in Tables(Opens \cup {Foreign})
      /\ table.ready \subseteq table.epoll
      /\ buffer_list_ \in Seq(Messages) /\ wire \in Seq(1 .. MaxSends)
  BY SocketAssumption DEF IInv, LocalInv, TypeInv, KernelTyped, SendTyped, Good
<1>1. d \in Messages /\ d[1] = Taken + 1 /\ d[1] \in 1 .. MaxSends /\ d[2] = s
  BY DEF Messages
<1>2. CanSend(d) => (IsUp => Current \notin refused)
  BY DEF CanSend, Fails
<1>c. IsUp => Current \in Opens
  BY CurrentIs
<1>d. SendTo(d) => sndbuf' = [sndbuf EXCEPT ![Current] = @ + 1]
  BY DEF SendTo
<1>e. CanSend(d) => IsUp /\ Room(Current) > 0
  BY DEF CanSend, Fails
<1>f. SendTo(d) /\ CanSend(d) => sndbuf' \in [Opens -> 0 .. SndCap]
  <2> SUFFICES ASSUME SendTo(d), CanSend(d) PROVE sndbuf' \in [Opens -> 0 .. SndCap]
    OBVIOUS
  <2>1. /\ Current \in Opens /\ SndCap - sndbuf[Current] > 0
        /\ sndbuf' = [sndbuf EXCEPT ![Current] = @ + 1]
    BY <1>c, <1>d, <1>e DEF Room
  <2> QED
    BY <1>0, <2>1
<1>g. IsUp => Room(Current) = SndCap - sndbuf[Current] /\ Room(Current) \in Int
  BY <1>0, <1>c DEF Room
<1>3. CASE /\ buffer_list_ = << >> /\ CanSend(d) /\ d[2] > 0
           /\ SendTo(d) /\ missed' = FALSE
           /\ UNCHANGED <<refused, buffer_list_, asked, table>>
  <2>1. wire' = Append(wire, d[1])
    BY <1>3 DEF SendTo
  <2>2. OrderInv'
    BY <1>1, <1>3, <2>1, OrderKept
  <2>3. ReadyOnly(table') /\ AskedTyped' /\ SendTyped'
    <3>1. wire' \in Seq(1 .. MaxSends)
      BY <1>0, <1>1, <2>1, AppendTyped
    <3>2. SendTyped'
      BY <1>0, <1>3, <3>1 DEF SendTyped
    <3> QED
      BY <1>0, <1>3, <3>2 DEF ReadyOnly, AskedTyped
  <2>4. WriteInv'
    BY <1>3 DEF WriteInv
  <2> QED
    BY <1>0, <1>3, <1>f, <2>2, <2>3, <2>4 DEF SentNow
<1>4. CASE /\ buffer_list_' = Append(buffer_list_, d) /\ missed' = FALSE /\ EnableWrite
           /\ wire' = wire /\ refused' \subseteq Opens
           /\ \/ sndbuf' = sndbuf
              \/ CanSend(d) /\ sndbuf' \in [Opens -> 0 .. SndCap]
  <2>1. ReadyOnly(table') /\ Watching
    BY <1>4, EnableWriteIs
  <2>2. OrderInv'
    BY <1>1, <1>4, OrderKept
  <2>3. SendTyped'
    <3>1. buffer_list_' \in Seq(Messages)
      BY <1>0, <1>1, <1>4, AppendTyped
    <3> QED
      BY <1>0, <1>4, <3>1 DEF SendTyped
  <2>4. (IsUp' <=> IsUp) /\ Current' = Current /\ table'.fd_[Socket] = table.fd_[Socket]
    BY <2>1, ReadyOnlyKeeps
  <2>5. WriteInv'
    <3>1. SUFFICES ASSUME IsUp, ~ closed_
                   PROVE  "OUT" \in asked'[Current'] /\
                          (Room(Current)' = 0 \/ table'.fd_[Socket] \in table'.ready)
      BY <2>4 DEF WriteInv
    <3>2. /\ "OUT" \in asked'[Current]
          /\ Room(Current) = 0 \/ table.fd_[Socket] \in table'.ready
      BY <2>1, <3>1 DEF Watching
    <3>3. CASE table.fd_[Socket] \in table'.ready
      BY <2>4, <3>2, <3>3
    <3>4. CASE Room(Current) = 0
      <4>1. ~ CanSend(d)
        BY <1>e, <3>4
      <4>2. sndbuf' = sndbuf
        BY <1>4, <4>1
      <4>3. Room(Current)' = Room(Current)
        BY <2>4, <4>2 DEF Room
      <4> QED
        BY <2>4, <3>2, <3>4, <4>3
    <3> QED
      BY <3>2, <3>3, <3>4
  <2> QED
    BY <1>0, <1>4, <2>1, <2>2, <2>3, <2>5 DEF SentNow, Watching
<1>5. CASE SendInLoop(d)
  <2>1. ASSUME buffer_list_ # << >> \/ ~ CanSend(d) \/ d[2] = 0,
               IF buffer_list_ = << >> /\ CanSend(d) THEN SendTo(d) /\ UNCHANGED refused
               ELSE IF buffer_list_ = << >> THEN SendFails ELSE UNCHANGED <<sndbuf, wire, refused>>
        PROVE  /\ wire' = wire /\ refused' \subseteq Opens
               /\ sndbuf' = sndbuf \/ (CanSend(d) /\ sndbuf' \in [Opens -> 0 .. SndCap])
    <3>1. CASE buffer_list_ = << >> /\ CanSend(d)
      BY <1>0, <1>f, <2>1, <3>1 DEF SendTo
    <3>2. CASE ~ (buffer_list_ = << >> /\ CanSend(d))
      BY <1>0, <2>1, <3>2 DEF SendFails
    <3> QED
      BY <3>1, <3>2
  <2> QED
    BY <1>3, <1>4, <1>5, <2>1 DEF SendInLoop
<1>6. CASE SendListInLoop(d)
  BY <1>0, <1>4, <1>6 DEF SendListInLoop
<1> QED
  BY <1>5, <1>6

-----------------------------------------------------------------------------
(* The kernel and the other threads.                                       *)

\* The numbers of sockets opened and of messages taken.
LEMMA NumbersTyped ==
  ASSUME IInv
  PROVE  Opened \in 0 .. MaxOpens /\ Taken \in 0 .. MaxSends
<1>1. /\ functions_ \in Seq(Functions) /\ opens \in 0 .. MaxOpens /\ sends \in 0 .. MaxSends
      /\ Pending({"Open"}) <= opens /\ Pending({"Send", "SendList"}) <= sends
      /\ MaxOpens \in Nat /\ MaxSends \in Nat
  BY SocketAssumption DEF IInv, LocalInv, TypeInv, LoopTyped, CountInv
<1>2. Pending({"Open"}) \in Nat /\ Pending({"Send", "SendList"}) \in Nat
  BY <1>1, CountIs DEF Count, Pending
<1> QED
  BY <1>1, <1>2 DEF Opened, Taken

\* A step of the kernel adds to the ready list.
LEMMA EdgeKeeps ==
  ASSUME IInv, ReadyOnly(table'), table.ready \subseteq table'.ready,
         UNCHANGED <<kind, asked, closed_, connected_, timer, sendVars, readVars, loopVars,
                     opens, sends, again, unclean>>,
         received' \in 0 .. MaxIn, KernelTyped',
         \A p \in Opens : arrived'[p] = arrived[p] \/ p \in Sockets,
         IsUp => \/ arrived'[Current] = arrived[Current]
                 \/ again \/ table.fd_[Socket] \in table'.ready,
         IsUp /\ ~ closed_ /\ "OUT" \in asked[Current] /\ Room(Current) = 0 =>
           sndbuf'[Current] = sndbuf[Current] \/ table.fd_[Socket] \in table'.ready
  PROVE  IInv'
<1>1. /\ Good(table', Opened) /\ FlagInv' /\ OthersHear' /\ NoDescriptorLeaks'
      /\ IsUp' <=> IsUp
      /\ Current' = Current /\ Sockets' = Sockets
      /\ table'.fd_[Socket] = table.fd_[Socket]
  BY ReadyOnlyKeeps
<1>2. Opened' = Opened /\ Taken' = Taken /\ CountInv'
  BY DEF IInv, LocalInv, CountInv, Opened, Taken, Pending, loopVars
<1>3. TypeInv'
  BY DEF IInv, LocalInv, TypeInv, FlagsTyped, AskedTyped, SendTyped, ReadTyped, LoopTyped,
         sendVars, readVars, loopVars
<1>4. OrderInv' /\ BatchInv' /\ HeldInv'
  BY <1>2 DEF IInv, LocalInv, OrderInv, BatchInv, HeldInv, sendVars, readVars, loopVars
<1>5. KernelInv'
  BY <1>1 DEF IInv, KernelInv
<1>6. (Coming("OnRead")' <=> Coming("OnRead")) /\ (Coming("OnWrite")' <=> Coming("OnWrite"))
  BY <1>1 DEF Coming, loopVars
<1>7. ReadInv'
  BY <1>1, <1>6 DEF IInv, ReadInv, Writable, readVars, loopVars
<1>8. WriteInv'
  <2>1. SUFFICES ASSUME buffer_list_ # << >>, IsUp, ~ closed_, ~ missed
                 PROVE  "OUT" \in asked[Current] /\
                        (Room(Current)' = 0 \/ table.fd_[Socket] \in table'.ready
                         \/ pc = "OnWrite" \/ Coming("OnWrite"))
    BY <1>1, <1>6 DEF WriteInv, sendVars, loopVars
  <2>2. "OUT" \in asked[Current] /\
        (Room(Current) = 0 \/ table.fd_[Socket] \in table.ready
         \/ pc = "OnWrite" \/ Coming("OnWrite"))
    BY <2>1 DEF IInv, WriteInv
  <2>3. sndbuf'[Current] = sndbuf[Current] => Room(Current)' = Room(Current)
    BY <1>1 DEF Room
  <2> QED
    BY <2>1, <2>2, <2>3
<1> QED
  BY <1>1, <1>2, <1>3, <1>4, <1>5, <1>7, <1>8 DEF IInv, LocalInv

\* Every socket of the object that hears of an edge is on the ready list.
LEMMA EdgeOfKeeps ==
  ASSUME IInv, NEW k \in Opens, NEW u, u = EdgeOf(table, k)
  PROVE  /\ ReadyOnly(u) /\ table.ready \subseteq u.ready
         /\ IsUp /\ ~ closed_ /\ k = Current => table.fd_[Socket] \in u.ready
         /\ IsUp /\ k = Current => again \/ table.fd_[Socket] \in u.ready
<1>1. table \in Tables(Opens \cup {Foreign}) /\ table.ready \subseteq table.epoll
  BY DEF IInv, Good
<1>2. /\ u \in Tables(Opens \cup {Foreign})
      /\ u.file = table.file /\ u.fd_ = table.fd_ /\ u.epoll = table.epoll
      /\ u.events_ = table.events_
      /\ u.ready = table.ready \cup {n \in table.epoll : table.file[n] = k}
  BY <1>1, EdgeOfIs
<1>3. IsUp /\ ~ closed_ /\ k = Current => table.fd_[Socket] \in u.ready
  BY <1>2, CurrentIs
<1>4. IsUp => again \/ ~ closed_
  BY DEF IInv, NoDescriptorLeaks
<1> QED
  BY <1>1, <1>2, <1>3, <1>4 DEF ReadyOnly

LEMMA ArrivesKeeps ==
  ASSUME IInv, NEW k \in Opens, Arrives(k)
  PROVE  IInv'
<1>1. KernelTyped /\ received \in 0 .. MaxIn /\ MaxIn \in Nat
  BY SocketAssumption DEF IInv, LocalInv, TypeInv, LoopTyped
<1>2. PICK n \in Lengths : arrived' = [arrived EXCEPT ![k] = Append(@, n)]
  BY DEF Arrives
<1>3. /\ ReadyOnly(table') /\ table.ready \subseteq table'.ready
      /\ IsUp /\ k = Current => again \/ table.fd_[Socket] \in table'.ready
  BY EdgeOfKeeps DEF Arrives
<1>4. /\ received' \in 0 .. MaxIn /\ UNCHANGED <<sndbuf, refused>> /\ k \in Sockets
      /\ UNCHANGED <<kind, asked, closed_, connected_, timer, sendVars, readVars, loopVars,
                     opens, sends, again, unclean>>
  BY <1>1 DEF Arrives, KernelStep
<1>5. KernelTyped' /\ \A p \in Opens : p # k => arrived'[p] = arrived[p]
  BY <1>1, <1>2, <1>4 DEF KernelTyped
<1>6. IsUp => Current \in Opens
  BY CurrentIs
<1> QED
  BY <1>3, <1>4, <1>5, <1>6, EdgeKeeps

LEMMA RefusedKeeps ==
  ASSUME IInv, NEW k \in Opens, Refused(k)
  PROVE  IInv'
<1>1. KernelTyped /\ received \in 0 .. MaxIn
  BY DEF IInv, LocalInv, TypeInv, LoopTyped
<1>2. ReadyOnly(table') /\ table.ready \subseteq table'.ready
  BY EdgeOfKeeps DEF Refused
<1>3. /\ received' \in 0 .. MaxIn /\ UNCHANGED <<arrived, sndbuf>>
      /\ refused' = refused \cup {k}
      /\ UNCHANGED <<kind, asked, closed_, connected_, timer, sendVars, readVars, loopVars,
                     opens, sends, again, unclean>>
  BY <1>1 DEF Refused, KernelStep
<1>4. KernelTyped'
  BY <1>1, <1>3 DEF KernelTyped
<1> QED
  BY <1>2, <1>3, <1>4, EdgeKeeps

LEMMA DrainsKeeps ==
  ASSUME IInv, NEW k \in Opens, Drains(k)
  PROVE  IInv'
<1>1. /\ KernelTyped /\ received \in 0 .. MaxIn /\ SndCap \in Nat
      /\ table \in Tables(Opens \cup {Foreign}) /\ table.ready \subseteq table.epoll
  BY SocketAssumption DEF IInv, LocalInv, TypeInv, LoopTyped, Good
<1>2. /\ received' \in 0 .. MaxIn /\ UNCHANGED <<arrived, refused>>
      /\ sndbuf' = [sndbuf EXCEPT ![k] = 0]
      /\ UNCHANGED <<kind, asked, closed_, connected_, timer, sendVars, readVars, loopVars,
                     opens, sends, again, unclean>>
  BY <1>1 DEF Drains, KernelStep
<1>3. KernelTyped' /\ \A p \in Opens : p # k => sndbuf'[p] = sndbuf[p]
  BY <1>1, <1>2 DEF KernelTyped
<1>4. IsUp => Current \in Opens
  BY CurrentIs
<1>5. CASE Room(k) = 0 /\ "OUT" \in asked[k]
  <2>1. table' = EdgeOf(table, k)
    BY <1>5 DEF Drains
  <2>2. /\ ReadyOnly(table') /\ table.ready \subseteq table'.ready
        /\ IsUp /\ ~ closed_ /\ k = Current => table.fd_[Socket] \in table'.ready
    BY <2>1, EdgeOfKeeps
  <2> QED
    BY <1>2, <1>3, <1>4, <2>2, EdgeKeeps
<1>6. CASE ~ (Room(k) = 0 /\ "OUT" \in asked[k])
  <2>1. table' = table
    BY <1>6 DEF Drains
  <2>2. ReadyOnly(table')
    BY <1>1, <2>1 DEF ReadyOnly
  <2> QED
    BY <1>2, <1>3, <1>4, <1>6, <2>1, <2>2, EdgeKeeps
<1> QED
  BY <1>5, <1>6

\* A function is queued, and counted.
LEMMA QueueKeeps ==
  ASSUME IInv, NEW f \in Functions, Queue(f),
         opens' \in 0 .. MaxOpens, sends' \in 0 .. MaxSends,
         opens' = opens + (IF f.op \in {"Open"} THEN 1 ELSE 0),
         sends' = sends + (IF f.op \in {"Send", "SendList"} THEN 1 ELSE 0)
  PROVE  IInv'
<1>0. /\ functions_ \in Seq(Functions) /\ functions_' = Append(functions_, f)
      /\ opens \in Nat /\ sends \in Nat /\ CountInv
  BY DEF Queue, IInv, LocalInv, TypeInv, LoopTyped
<1>1. UNCHANGED <<kind, table, asked, closed_, connected_, timer, arrived, sndbuf, refused,
                  buffer_list_, wire, missed, held, left, cut, batch, pc, received, again, unclean>>
  BY DEF Queue, objectVars, kernelVars, sendVars, readVars
<1>2. /\ Pending({"Open"}) \in Nat /\ Pending({"Send", "SendList"}) \in Nat
      /\ Pending({"Open"})' = Pending({"Open"}) + (IF f.op \in {"Open"} THEN 1 ELSE 0)
      /\ Pending({"Send", "SendList"})'
           = Pending({"Send", "SendList"}) + (IF f.op \in {"Send", "SendList"} THEN 1 ELSE 0)
  <2>1. \A ops : Pending(ops) = Count(functions_, ops) /\ Pending(ops)' = Count(functions_', ops)
    BY DEF Pending, Count
  <2>2. Count(functions_, {"Open"}) \in Nat /\ Count(functions_, {"Send", "SendList"}) \in Nat
    BY <1>0, CountIs
  <2>3. /\ Count(functions_', {"Open"})
             = Count(functions_, {"Open"}) + (IF f.op \in {"Open"} THEN 1 ELSE 0)
        /\ Count(functions_', {"Send", "SendList"})
             = Count(functions_, {"Send", "SendList"})
               + (IF f.op \in {"Send", "SendList"} THEN 1 ELSE 0)
    BY <1>0, CountAppended
  <2> QED
    BY <2>1, <2>2, <2>3
<1>3. Opened' = Opened /\ Taken' = Taken /\ CountInv'
  BY <1>0, <1>2 DEF Opened, Taken, CountInv
<1>4. TypeInv'
  <2>1. functions_' \in Seq(Functions)
    BY <1>0, AppendTyped
  <2> QED
    BY <1>1, <2>1 DEF IInv, LocalInv, TypeInv, KernelTyped, FlagsTyped, AskedTyped, SendTyped,
                      ReadTyped, LoopTyped
<1>5. OrderInv' /\ BatchInv' /\ HeldInv'
  BY <1>1, <1>3 DEF IInv, LocalInv, OrderInv, BatchInv, HeldInv
<1>6. Good(table', Opened') /\ FlagInv' /\ KernelInv' /\ OthersHear' /\ NoDescriptorLeaks'
  BY <1>1, <1>3 DEF IInv, FlagInv, KernelInv, OthersHear, NoDescriptorLeaks, IsUp, Current, Sockets
<1>7. ReadInv' /\ WriteInv'
  BY <1>1 DEF IInv, ReadInv, WriteInv, IsUp, Current, Coming, Writable, Room
<1> QED
  BY <1>3, <1>4, <1>5, <1>6, <1>7 DEF IInv, LocalInv

LEMMA CallsKeep ==
  ASSUME IInv, CallOpen \/ CallSend \/ CallStop \/ CallForceClose \/ NeighbourOpens
  PROVE  IInv'
<1>0. /\ opens \in 0 .. MaxOpens /\ sends \in 0 .. MaxSends
      /\ MaxOpens \in Nat /\ MaxSends \in Nat
  BY SocketAssumption DEF IInv, LocalInv, TypeInv, LoopTyped
<1>1. \A op \in {"Open", "Stop", "ForceClose", "Neighbour"} :
        /\ [op |-> op] \in Functions /\ [op |-> op].op = op
  BY DEF Functions
<1>2. \A op \in {"Send", "SendList"}, n \in Sizes :
        /\ [op |-> op, size |-> n] \in Functions /\ [op |-> op, size |-> n].op = op
  BY DEF Functions
<1>3. CASE CallOpen
  <2> DEFINE f == [op |-> "Open"]
  <2>1. f \in Functions /\ f.op = "Open" /\ Queue(f) /\ opens' = opens + 1
        /\ opens < MaxOpens /\ sends' = sends
    BY <1>1, <1>3 DEF CallOpen
  <2> HIDE DEF f
  <2> QED
    BY <1>0, <2>1, QueueKeeps
<1>4. CASE CallSend
  <2>1. PICK op \in {"Send", "SendList"}, n \in Sizes : Queue([op |-> op, size |-> n])
    BY <1>4 DEF CallSend
  <2> DEFINE f == [op |-> op, size |-> n]
  <2>2. f \in Functions /\ f.op = op /\ Queue(f) /\ sends' = sends + 1
        /\ sends < MaxSends /\ opens' = opens
    BY <1>2, <1>4, <2>1 DEF CallSend
  <2> HIDE DEF f
  <2> QED
    BY <1>0, <2>1, <2>2, QueueKeeps
<1>5. CASE CallStop \/ CallForceClose \/ NeighbourOpens
  <2>1. PICK op \in {"Stop", "ForceClose", "Neighbour"} :
          Queue([op |-> op]) /\ opens' = opens /\ sends' = sends
    BY <1>5 DEF CallStop, CallForceClose, NeighbourOpens
  <2> DEFINE f == [op |-> op]
  <2>2. f \in Functions /\ f.op = op /\ Queue(f)
    BY <1>1, <2>1
  <2> HIDE DEF f
  <2> QED
    BY <1>0, <2>1, <2>2, QueueKeeps
<1> QED
  BY <1>3, <1>4, <1>5

-----------------------------------------------------------------------------
(* The loop goes on.                                                       *)

LEMMA LoopKeeps ==
  ASSUME IInv,
         UNCHANGED <<objectVars, kernelVars, sendVars, readVars, functions_, bounds, again, unclean>>,
         batch' \in Seq(Reports),
         pc' \in {"EpollWait", "Dispatch", "OnRead", "OnWrite", "RunFuctions"},
         BatchInv', ReadInv', WriteInv'
  PROVE  IInv'
<1>1. UNCHANGED <<kind, table, asked, closed_, connected_, timer, arrived, sndbuf, refused,
                  buffer_list_, wire, missed, held, left, cut, functions_, opens, sends, received,
                  again, unclean>>
  BY DEF objectVars, kernelVars, sendVars, readVars, bounds
<1>3. Opened' = Opened /\ Taken' = Taken /\ CountInv'
  BY <1>1 DEF IInv, LocalInv, CountInv, Opened, Taken, Pending
<1>4. TypeInv'
  BY <1>1 DEF IInv, LocalInv, TypeInv, KernelTyped, FlagsTyped, AskedTyped, SendTyped,
              ReadTyped, LoopTyped
<1>5. OrderInv' /\ HeldInv'
  BY <1>1, <1>3 DEF IInv, LocalInv, OrderInv, HeldInv
<1>6. Good(table', Opened') /\ FlagInv' /\ KernelInv' /\ OthersHear' /\ NoDescriptorLeaks'
  BY <1>1, <1>3 DEF IInv, FlagInv, KernelInv, OthersHear, NoDescriptorLeaks, IsUp, Current, Sockets
<1> QED
  BY <1>3, <1>4, <1>5, <1>6 DEF IInv, LocalInv

LEMMA EndsKeep ==
  ASSUME IInv, DispatchEnds \/ RunFuctionsEnds
  PROVE  IInv'
<1>1. /\ UNCHANGED <<objectVars, kernelVars, sendVars, readVars, functions_, bounds, again, unclean>>
      /\ UNCHANGED batch /\ pc \in {"Dispatch", "RunFuctions"}
      /\ pc' \in {"EpollWait", "RunFuctions"}
  BY DEF DispatchEnds, RunFuctionsEnds
<1>2. batch = << >> /\ batch \in Seq(Reports)
  BY DEF DispatchEnds, RunFuctionsEnds, IInv, LocalInv, BatchInv, TypeInv, LoopTyped
<1>3. \A h : ~ Coming(h)
  BY <1>2 DEF Coming
<1>4. ReadInv' /\ WriteInv'
  BY <1>1, <1>3 DEF IInv, ReadInv, WriteInv, IsUp, Current, Writable, Room, objectVars, kernelVars,
                    sendVars, readVars
<1>5. BatchInv' /\ batch' \in Seq(Reports)
  BY <1>1, <1>2 DEF BatchInv
<1> QED
  BY <1>1, <1>4, <1>5, LoopKeeps

\* Every report of epoll_wait() is in the batch.
Reported ==
  LET true == {n \in table.ready : table.file[n] \in Opens /\ Mask(table.file[n]) # {}} IN
  {[fd |-> n, handler |-> Handler(Mask(table.file[n]))] : n \in true}

LEMMA ReportedIs ==
  ASSUME IInv, EpollReturns
  PROVE  /\ batch' \in Seq(Reports)
         /\ \A n \in table.ready : table.file[n] \in Opens /\ Mask(table.file[n]) # {} =>
              \E i \in DOMAIN batch' : /\ batch'[i].fd = n
                                       /\ batch'[i].handler = Handler(Mask(table.file[n]))
<1>1. table.ready \subseteq Fds /\ IsFiniteSet(Fds)
  BY TablesTyped, DescriptorsAssumption DEF IInv, Good, Typed
<1> DEFINE true == {n \in table.ready : table.file[n] \in Opens /\ Mask(table.file[n]) # {}}
           r == [n \in Fds |-> [fd |-> n, handler |-> Handler(Mask(table.file[n]))]]
           D == {r[n] : n \in Fds}
<1>2. Reported \in SUBSET D /\ \A n \in Fds : r[n] \in Reports /\ r[n].fd = n
  <2>1. \A m : Handler(m) \in {"OnRead", "OnWrite", "OnError"}
    BY DEF Handler
  <2> QED
    BY <1>1, <2>1 DEF Reported, Reports
<1>3. \A n \in true : r[n] \in Reported /\ r[n].handler = Handler(Mask(table.file[n]))
  BY <1>1 DEF Reported
<1>4. Reported \subseteq Reports
  BY <1>2
<1>s. r \in Surjection(Fds, D)
  BY DEF Surjection
<1> HIDE DEF r
<1>5. IsFiniteSet(D)
  BY <1>1, <1>s, FS_Surjection
<1>6. IsFiniteSet(Reported)
  BY <1>2, <1>5, FS_Subset
<1>7. batch' \in SetToSeqs(Reported)
  BY DEF EpollReturns, Reported
<1> DEFINE b == batch'
<1>8. /\ b \in Seq(Reported)
      /\ \A x \in Reported : \E i \in 1 .. Len(b) : b[i] = x
  <2>1. b \in SetToSeqs(Reported)
    BY <1>7
  <2> HIDE DEF b
  <2> QED
    BY <1>6, <2>1, SeqsOfSet
<1>9. b \in Seq(Reports) /\ DOMAIN b = 1 .. Len(b)
  BY <1>4, <1>8
<1>10. \A n \in true : n \in Fds
  BY <1>1
<1> HIDE DEF D, true, b
<1>11. \A n \in true : \E i \in DOMAIN b : b[i].fd = n /\ b[i].handler = Handler(Mask(table.file[n]))
  BY <1>2, <1>3, <1>8, <1>9, <1>10
<1> QED
  BY <1>9, <1>11 DEF true, b

LEMMA EpollReturnsKeeps ==
  ASSUME IInv, EpollReturns
  PROVE  IInv'
<1>0. /\ table \in Tables(Opens \cup {Foreign}) /\ KernelTyped /\ SndCap \in Nat
      /\ FlagsTyped
  BY SocketAssumption DEF IInv, LocalInv, TypeInv, Good
<1>1. /\ UNCHANGED <<kind, asked, closed_, connected_, timer, arrived, sndbuf, refused,
                     buffer_list_, wire, held, left, cut, functions_, opens, sends, received,
                     again, unclean>>
      /\ pc = "EpollWait" /\ pc' = "Dispatch"
      /\ missed' = (missed \/ \E n \in table.ready :
                       /\ table.file[n] \in Opens /\ Mask(table.file[n]) # {}
                       /\ {"IN", "OUT"} \subseteq Mask(table.file[n]))
      /\ table' = [table EXCEPT !.ready = {}]
  BY DEF EpollReturns, kernelVars, readVars, bounds
<1>2. ReadyOnly(table') /\ table'.ready = {}
  BY <1>0, <1>1 DEF ReadyOnly, Tables
<1>3. /\ Good(table', Opened) /\ FlagInv' /\ OthersHear' /\ NoDescriptorLeaks'
      /\ IsUp' <=> IsUp
      /\ Current' = Current /\ Sockets' = Sockets
      /\ table'.fd_[Socket] = table.fd_[Socket]
  BY <1>1, <1>2, ReadyOnlyKeeps
<1>4. Opened' = Opened /\ Taken' = Taken /\ CountInv'
  BY <1>1 DEF IInv, LocalInv, CountInv, Opened, Taken, Pending
<1>5. TypeInv'
  <2>1. batch' \in Seq(Reports)
    BY ReportedIs
  <2>2. missed' \in BOOLEAN
    BY <1>1 DEF IInv, LocalInv, TypeInv, SendTyped
  <2> QED
    BY <1>1, <2>1, <2>2 DEF IInv, LocalInv, TypeInv, KernelTyped, FlagsTyped, AskedTyped, SendTyped,
                            ReadTyped, LoopTyped
<1>6. OrderInv' /\ BatchInv' /\ HeldInv' /\ KernelInv'
  BY <1>1, <1>3, <1>4 DEF IInv, LocalInv, OrderInv, BatchInv, HeldInv, KernelInv
<1>7. ASSUME IsUp, table.fd_[Socket] \in table.ready, NEW e \in Mask(Current)
      PROVE  /\ Handler(Mask(Current)) = "OnError" => Coming("OnRead")' /\ Coming("OnWrite")'
             /\ Handler(Mask(Current)) = "OnRead" => Coming("OnRead")'
             /\ Handler(Mask(Current)) = "OnWrite" => Coming("OnWrite")'
             /\ {"IN", "OUT"} \subseteq Mask(Current) => missed'
  <2>1. Current \in Opens /\ table.file[table.fd_[Socket]] = Current
    BY <1>7, CurrentIs
  <2>2. \E i \in DOMAIN batch' : /\ batch'[i].fd = table.fd_[Socket]
                                 /\ batch'[i].handler = Handler(Mask(Current))
    BY <1>7, <2>1, ReportedIs
  <2>3. {"IN", "OUT"} \subseteq Mask(Current) => missed'
    BY <1>1, <1>7, <2>1
  <2> QED
    BY <1>3, <2>2, <2>3 DEF Coming
<1>8. \A h : ~ Coming(h)
  BY <1>1 DEF IInv, LocalInv, BatchInv, Coming
<1>9. ReadInv'
  <2>1. SUFFICES ASSUME IsUp, arrived[Current] # << >>, ~ (left /\ Writable = 0), ~ again
                 PROVE  Coming("OnRead")'
    BY <1>1, <1>3 DEF ReadInv, Writable
  <2>2. table.fd_[Socket] \in table.ready /\ "IN" \in asked[Current]
    BY <1>1, <1>8, <2>1 DEF IInv, ReadInv, KernelInv
  <2>3. "IN" \in Mask(Current)
    BY <2>1, <2>2 DEF Mask
  <2>4. Handler(Mask(Current)) \in {"OnRead", "OnError"}
    BY <2>3 DEF Handler
  <2> QED
    BY <1>7, <2>1, <2>2, <2>3, <2>4
<1>10. WriteInv'
  <2>1. SUFFICES ASSUME buffer_list_ # << >>, IsUp, ~ closed_, ~ missed'
                 PROVE  "OUT" \in asked[Current] /\ (Room(Current) = 0 \/ Coming("OnWrite")')
    BY <1>1, <1>3 DEF WriteInv, Room
  <2>2. ~ missed
    BY <1>1, <2>1
  <2>3. /\ "OUT" \in asked[Current]
        /\ Room(Current) = 0 \/ table.fd_[Socket] \in table.ready
    BY <1>1, <1>8, <2>1, <2>2 DEF IInv, WriteInv
  <2>4. Room(Current) = 0 \/ Room(Current) > 0
    BY <1>0, <2>1, CurrentIs DEF KernelTyped, Room
  <2>5. CASE table.fd_[Socket] \in table.ready /\ Room(Current) > 0
    <3>1. "OUT" \in Mask(Current)
      BY <2>3, <2>5 DEF Mask
    <3>2. "IN" \notin Mask(Current)
      BY <1>7, <2>1, <2>5, <3>1
    <3>3. Handler(Mask(Current)) \in {"OnWrite", "OnError"}
      BY <3>2 DEF Handler
    <3> QED
      BY <1>7, <2>1, <2>3, <2>5, <3>1, <3>3
  <2> QED
    BY <2>3, <2>4, <2>5
<1> QED
  BY <1>2, <1>3, <1>4, <1>5, <1>6, <1>9, <1>10 DEF IInv, LocalInv

\* A step that calls OnClose keeps the invariant.
LEMMA ClosedKeeps ==
  ASSUME IInv, NEW t, t = table \/ t = DelEvent(table, Socket), OnClose(t),
         UNCHANGED <<kind, asked, buffer_list_, wire, missed, opens, sends, received, again>>,
         timer' \in BOOLEAN, ReadTyped', HeldInv',
         batch' \in Seq(Reports), functions_' \in Seq(Functions),
         pc' \in {"EpollWait", "Dispatch", "OnRead", "OnWrite", "RunFuctions"}, BatchInv',
         Opened' = Opened, Taken' = Taken, CountInv'
  PROVE  IInv'
<1>1. TableKept /\ KernelTyped' /\ FlagsTyped'
  BY OnCloseKeeps
<1>2. TypeInv'
  BY <1>1 DEF IInv, LocalInv, TypeInv, AskedTyped, SendTyped, LoopTyped
<1>3. OrderInv'
  BY DEF IInv, LocalInv, OrderInv
<1> QED
  BY <1>1, <1>2, <1>3 DEF IInv, LocalInv, TableKept

LEMMA NothingQueued ==
  ASSUME IInv, UNCHANGED <<functions_, opens, sends>>
  PROVE  Opened' = Opened /\ Taken' = Taken /\ CountInv' /\ functions_' \in Seq(Functions)
  BY DEF IInv, LocalInv, TypeInv, LoopTyped, CountInv, Opened, Taken, Pending

LEMMA ComingNext ==
  ASSUME batch \in Seq(Reports), batch # << >>, batch' = Tail(batch),
         table'.fd_[Socket] = table.fd_[Socket], NEW h, Coming(h)
  PROVE  \/ Coming(h)'
         \/ Head(batch).fd = table.fd_[Socket] /\ Head(batch).handler \in {h, "OnError"}
<1>1. PICK i \in DOMAIN batch :
        batch[i].fd = table.fd_[Socket] /\ batch[i].handler \in {h, "OnError"}
  BY DEF Coming
<1>2. CASE i = 1
  BY <1>1, <1>2
<1>3. CASE i # 1
  <2>1. i - 1 \in DOMAIN batch' /\ batch'[i - 1] = batch[i]
    BY <1>1, <1>3
  <2> QED
    BY <1>1, <2>1 DEF Coming
<1> QED
  BY <1>2, <1>3

LEMMA DispatchKeeps ==
  ASSUME IInv, Dispatch
  PROVE  IInv'
<1> DEFINE e == Head(batch)
           n == table.fd_[Socket]
<1>0. /\ batch \in Seq(Reports) /\ batch # << >> /\ batch' = Tail(batch) /\ pc = "Dispatch"
      /\ UNCHANGED <<kind, asked, timer, sendVars, readVars, functions_, bounds, again>>
  BY DEF Dispatch, IInv, LocalInv, TypeInv, LoopTyped
<1>1. batch' \in Seq(Reports) /\ e \in Reports
  BY <1>0
<1>2. e.handler \in {"OnRead", "OnWrite", "OnError"}
  BY <1>1 DEF Reports
<1>3. IsUp => again \/ ~ closed_
  BY DEF IInv, NoDescriptorLeaks
<1>4. IsUp /\ ~ closed_ => table.events_[n] = Socket
  BY CurrentIs
<1>5. CASE /\ UNCHANGED <<table, closed_, connected_, kernelVars, unclean>>
           /\ pc' \in {"Dispatch", "OnRead", "OnWrite"}
           /\ \/ table.events_[e.fd] # Socket /\ pc' = pc
              \/ e.handler # "OnError" /\ pc' = e.handler
  <2>1. \A h : Coming(h) => Coming(h)' \/ (e.fd = n /\ e.handler \in {h, "OnError"})
    BY <1>0, <1>5, ComingNext
  <2>2. BatchInv'
    BY <1>5 DEF BatchInv
  <2>3. /\ (IsUp' <=> IsUp) /\ Current' = Current /\ Writable' = Writable
        /\ Room(Current)' = Room(Current)
        /\ UNCHANGED <<table, closed_, arrived, buffer_list_, missed, left, asked, again>>
    BY <1>0, <1>5 DEF IsUp, Current, Writable, Room, kernelVars, sendVars, readVars
  <2>4. ReadInv'
    <3>1. SUFFICES ASSUME IsUp, arrived[Current] # << >>, n \notin table.ready,
                          ~ (left /\ Writable = 0), ~ again
                   PROVE  pc' = "OnRead" \/ Coming("OnRead")'
      BY <2>3 DEF ReadInv
    <3>2. Coming("OnRead")
      BY <1>0, <3>1 DEF IInv, ReadInv
    <3> QED
      BY <1>3, <1>4, <1>5, <2>1, <3>1, <3>2
  <2>5. WriteInv'
    <3>1. SUFFICES ASSUME buffer_list_ # << >>, IsUp, ~ closed_, ~ missed
                   PROVE  "OUT" \in asked[Current] /\
                          (Room(Current) = 0 \/ n \in table.ready \/ pc' = "OnWrite"
                           \/ Coming("OnWrite")')
      BY <2>3 DEF WriteInv
    <3>2. "OUT" \in asked[Current] /\
          (Room(Current) = 0 \/ n \in table.ready \/ Coming("OnWrite"))
      BY <1>0, <3>1 DEF IInv, WriteInv
    <3> QED
      BY <1>4, <1>5, <2>1, <3>1, <3>2
  <2>6. UNCHANGED <<objectVars, kernelVars, sendVars, readVars, functions_, bounds, again, unclean>>
    BY <1>0, <1>5 DEF objectVars
  <2> QED
    BY <1>1, <1>5, <2>2, <2>4, <2>5, <2>6, LoopKeeps
<1>6. CASE OnClose(table) /\ pc' = pc
  <2>1. Opened' = Opened /\ Taken' = Taken /\ CountInv' /\ functions_' \in Seq(Functions)
    BY <1>0, NothingQueued DEF bounds
  <2>2. ReadTyped' /\ HeldInv' /\ BatchInv'
    BY <1>0, <1>6 DEF IInv, LocalInv, TypeInv, ReadTyped, HeldInv, BatchInv, readVars
  <2>3. timer' \in BOOLEAN
    BY <1>0 DEF IInv, LocalInv, TypeInv, LoopTyped
  <2>4. UNCHANGED <<kind, asked, buffer_list_, wire, missed, opens, sends, received, again>>
    BY <1>0 DEF sendVars, bounds
  <2> QED
    BY <1>0, <1>1, <1>6, <2>1, <2>2, <2>3, <2>4, ClosedKeeps
<1> QED
  BY <1>0, <1>2, <1>5, <1>6 DEF Dispatch

-----------------------------------------------------------------------------
(* The handlers.                                                           *)

\* A handler returns, and has closed the socket or left it alone.
LEMMA HandlerEndsKeep ==
  ASSUME IInv, pc \in {"OnRead", "OnWrite", "RunFuctions"}, batch' = batch,
         pc' \in {"Dispatch", "EpollWait"}, pc' = "EpollWait" => pc = "RunFuctions",
         UNCHANGED <<kind, asked, sendVars, readVars, functions_, bounds, again>>,
         timer' \in BOOLEAN, OnClose(table) \/ OnClose(DelEvent(table, Socket))
  PROVE  IInv'
<1>1. Opened' = Opened /\ Taken' = Taken /\ CountInv' /\ functions_' \in Seq(Functions)
  BY NothingQueued DEF bounds
<1>2. ReadTyped' /\ HeldInv' /\ BatchInv' /\ batch' \in Seq(Reports)
  BY DEF IInv, LocalInv, TypeInv, ReadTyped, LoopTyped, HeldInv, BatchInv, readVars
<1>3. UNCHANGED <<kind, asked, buffer_list_, wire, missed, opens, sends, received, again>>
  BY DEF sendVars, bounds
<1> QED
  BY <1>1, <1>2, <1>3, ClosedKeeps

LEMMA OnReadEndsKeeps ==
  ASSUME IInv, OnReadEnds
  PROVE  IInv'
<1>0. /\ pc = "OnRead" /\ pc' = "Dispatch" /\ UNCHANGED batch
      /\ UNCHANGED <<kind, asked, timer, sendVars, readVars, functions_, bounds, again>>
      /\ timer' \in BOOLEAN /\ batch' \in Seq(Reports)
      /\ HeldInv /\ held \in Nat /\ BufferSize \in Nat \ {0}
  BY SocketAssumption DEF OnReadEnds, IInv, LocalInv, TypeInv, LoopTyped, ReadTyped
<1>1. CASE /\ \/ closed_ \/ Writable = 0
              \/ IsUp /\ Current \notin refused /\ arrived[Current] = << >>
           /\ UNCHANGED <<table, closed_, connected_, kernelVars, unclean>>
  <2>1. /\ (IsUp' <=> IsUp) /\ Current' = Current /\ Writable' = Writable
        /\ Room(Current)' = Room(Current)
        /\ Coming("OnRead")' <=> Coming("OnRead")
        /\ Coming("OnWrite")' <=> Coming("OnWrite")
        /\ UNCHANGED <<table, closed_, arrived, buffer_list_, missed, left, asked, again>>
    BY <1>0, <1>1 DEF IsUp, Current, Writable, Room, Coming, kernelVars, sendVars, readVars
  <2>2. Writable = 0 => left
    BY <1>0 DEF Writable, HeldInv
  <2>3. IsUp => again \/ ~ closed_
    BY DEF IInv, NoDescriptorLeaks
  <2>4. ReadInv'
    BY <1>1, <2>1, <2>2, <2>3 DEF ReadInv
  <2>5. WriteInv'
    BY <1>0, <2>1 DEF IInv, WriteInv
  <2>6. BatchInv'
    BY <1>0 DEF BatchInv
  <2>7. UNCHANGED <<objectVars, kernelVars, sendVars, readVars, functions_, bounds, again, unclean>>
    BY <1>0, <1>1 DEF objectVars
  <2> QED
    BY <1>0, <2>4, <2>5, <2>6, <2>7, LoopKeeps
<1>2. CASE OnClose(table)
  BY <1>0, <1>2, HandlerEndsKeep
<1> QED
  BY <1>1, <1>2 DEF OnReadEnds

\* SendInLoop in a callback: message Taken + 1 is taken.
LEMMA SentKeeps ==
  ASSUME IInv, sends < MaxSends, sends' = sends + 1,
         \E s \in Sizes : SendInLoop(<<Taken + 1, s>>),
         UNCHANGED <<kind, closed_, connected_, unclean, again, functions_, opens>>
  PROVE  /\ SentNow /\ sends' \in 0 .. MaxSends
         /\ Opened' = Opened /\ Taken' = Taken + 1 /\ CountInv'
         /\ Good(table', Opened) /\ FlagInv' /\ OthersHear' /\ NoDescriptorLeaks'
         /\ IsUp' <=> IsUp
         /\ Current' = Current /\ Sockets' = Sockets /\ table'.fd_[Socket] = table.fd_[Socket]
<1>1. /\ sends \in Nat /\ MaxSends \in Nat /\ Taken \in Nat /\ Taken <= sends
      /\ Pending({"Send", "SendList"}) \in Nat /\ CountInv
      /\ sends' \in 0 .. MaxSends
  <2>1. /\ sends \in Nat /\ MaxSends \in Nat /\ functions_ \in Seq(Functions) /\ CountInv
        /\ Taken \in 0 .. MaxSends
    BY NumbersTyped, SocketAssumption DEF IInv, LocalInv, TypeInv, LoopTyped
  <2>2. Pending({"Send", "SendList"}) \in Nat
    BY <2>1, CountIs DEF Count, Pending
  <2> QED
    BY <2>1, <2>2 DEF Taken
<1>2. /\ Opened' = Opened /\ Taken' = Taken + 1 /\ CountInv'
      /\ Taken + 1 \in 1 .. MaxSends
  BY <1>1 DEF Opened, Taken, Pending, CountInv
<1>3. PICK s \in Sizes : SendInLoop(<<Taken + 1, s>>)
  OBVIOUS
<1>4. SentNow
  BY <1>2, <1>3, SendInLoopIs
<1> QED
  BY <1>1, <1>2, <1>4, ReadyOnlyKeeps DEF SentNow

LEMMA OnWriteEndsKeeps ==
  ASSUME IInv, OnWriteEnds
  PROVE  IInv'
<1>0. /\ pc = "OnWrite" /\ pc' = "Dispatch" /\ UNCHANGED batch
      /\ UNCHANGED <<kind, timer, readVars, functions_, opens, received, again>>
      /\ timer' \in BOOLEAN /\ batch' \in Seq(Reports)
  BY DEF OnWriteEnds, IInv, LocalInv, TypeInv, LoopTyped
<1>1. CASE /\ closed_ \/ buffer_list_ = << >> \/ Room(Current) = 0
           /\ UNCHANGED <<asked, table, closed_, connected_, kernelVars, sendVars, sends, unclean>>
  <2>1. /\ (IsUp' <=> IsUp) /\ Current' = Current /\ Writable' = Writable
        /\ Room(Current)' = Room(Current)
        /\ Coming("OnRead")' <=> Coming("OnRead")
        /\ Coming("OnWrite")' <=> Coming("OnWrite")
        /\ UNCHANGED <<table, closed_, arrived, buffer_list_, missed, left, asked, again>>
    BY <1>0, <1>1 DEF IsUp, Current, Writable, Room, Coming, kernelVars, sendVars, readVars
  <2>4. ReadInv'
    BY <1>0, <2>1 DEF IInv, ReadInv
  <2>5. WriteInv'
    BY <1>1, <2>1 DEF IInv, WriteInv
  <2>6. BatchInv'
    BY <1>0 DEF BatchInv
  <2>7. UNCHANGED <<objectVars, kernelVars, sendVars, readVars, functions_, bounds, again, unclean>>
    BY <1>0, <1>1 DEF objectVars, bounds
  <2> QED
    BY <1>0, <2>4, <2>5, <2>6, <2>7, LoopKeeps
<1>2. CASE /\ OnClose(table) \/ OnClose(DelEvent(table, Socket))
           /\ UNCHANGED <<asked, sendVars, sends>>
  BY <1>0, <1>2, HandlerEndsKeep DEF bounds
<1>3. CASE /\ sends < MaxSends /\ sends' = sends + 1
           /\ \E s \in Sizes : SendInLoop(<<Taken + 1, s>>)
           /\ UNCHANGED <<closed_, connected_, arrived, unclean>>
  <2>1. /\ SentNow /\ sends' \in 0 .. MaxSends
        /\ Opened' = Opened /\ Taken' = Taken + 1 /\ CountInv'
        /\ Good(table', Opened) /\ FlagInv' /\ OthersHear' /\ NoDescriptorLeaks'
        /\ IsUp' <=> IsUp
        /\ Current' = Current /\ Sockets' = Sockets /\ table'.fd_[Socket] = table.fd_[Socket]
    BY <1>0, <1>3, SentKeeps
  <2>2. TypeInv'
    BY <1>0, <1>3, <2>1 DEF IInv, LocalInv, TypeInv, KernelTyped, FlagsTyped, ReadTyped,
                            LoopTyped, SentNow, readVars
  <2>3. BatchInv' /\ HeldInv'
    BY <1>0 DEF IInv, LocalInv, BatchInv, HeldInv, readVars
  <2>4. KernelInv'
    BY <1>3, <2>1, CurrentIs DEF IInv, KernelInv, SentNow
  <2>5. ReadInv'
    <3>1. (Coming("OnRead")' <=> Coming("OnRead")) /\ Writable' = Writable /\ left' = left
      BY <1>0, <2>1 DEF Coming, Writable, readVars
    <3>2. table.fd_[Socket] \in table.ready => table'.fd_[Socket] \in table'.ready
      BY <2>1 DEF SentNow
    <3> QED
      BY <1>0, <1>3, <2>1, <3>1, <3>2 DEF IInv, ReadInv
  <2> QED
    BY <2>1, <2>2, <2>3, <2>4, <2>5 DEF IInv, LocalInv, SentNow
<1> QED
  BY <1>0, <1>1, <1>2, <1>3 DEF OnWriteEnds, CloseCalled

LEMMA OnTimeoutKeeps ==
  ASSUME IInv, OnTimeout
  PROVE  IInv'
<1>1. /\ pc = "RunFuctions" /\ pc' = "EpollWait" /\ UNCHANGED batch
      /\ UNCHANGED <<kind, asked, sendVars, readVars, functions_, bounds, again>>
      /\ timer' \in BOOLEAN /\ OnClose(table)
  BY DEF OnTimeout
<1> QED
  BY <1>1, HandlerEndsKeep

LEMMA OnWriteKeeps ==
  ASSUME IInv, OnWrite
  PROVE  IInv'
<1> DEFINE d == Head(buffer_list_)
           bl == buffer_list_
<1>0. /\ pc = "OnWrite" /\ ~ closed_ /\ bl # << >> /\ CanSend(d) /\ SendTo(d)
      /\ \/ d[2] > 0 /\ bl' = Tail(bl)
         \/ d[2] = 0 /\ bl' = bl
      /\ UNCHANGED <<kind, table, asked, closed_, connected_, timer, arrived, refused, missed,
                     held, left, cut, batch, functions_, pc, opens, sends, received,
                     again, unclean>>
  BY DEF OnWrite, objectVars, readVars, loopVars, bounds
<1>1. /\ TypeInv /\ OrderInv /\ wire \in Seq(1 .. MaxSends) /\ bl \in Seq(Messages)
      /\ sndbuf \in [Opens -> 0 .. SndCap] /\ SndCap \in Nat /\ MaxSends \in Nat
  BY SocketAssumption DEF IInv, LocalInv, TypeInv, SendTyped, KernelTyped
<1>2. IsUp /\ Current \in Opens /\ Room(Current) > 0
  BY <1>0, CurrentIs DEF CanSend, Fails
<1>3. sndbuf' \in [Opens -> 0 .. SndCap]
  BY <1>0, <1>1, <1>2 DEF SendTo, Room
<1>4. Opened' = Opened /\ Taken' = Taken /\ CountInv'
  BY <1>0, NothingQueued
<1>5. d \in Messages /\ d = bl[1] /\ 1 \in DOMAIN bl /\ d[1] \in 1 .. MaxSends
  BY <1>0, <1>1 DEF Messages
<1>6. OrderInv' /\ bl' \in Seq(Messages) /\ wire' \in Seq(1 .. MaxSends)
  <2>1. CASE d[2] = 0 /\ bl' = bl
    <3>1. wire' = wire
      BY <1>0, <2>1 DEF SendTo
    <3> QED
      BY <1>1, <1>4, <2>1, <3>1 DEF OrderInv
  <2>2. CASE d[2] > 0 /\ bl' = Tail(bl)
    <3> DEFINE x == d[1]
               k == Taken
    <3>1. wire' = Append(wire, x) /\ x \in 1 .. MaxSends
      BY <1>0, <1>5, <2>2 DEF SendTo
    <3>2. wire' \in Seq(1 .. MaxSends)
      BY <1>1, <3>1, AppendTyped
    <3>3. bl' \in Seq(Messages)
      BY <1>0, <1>1, <2>2
    <3>4. /\ \A i \in DOMAIN wire : wire[i] \in Int /\ i \in Int /\ i <= Len(wire)
          /\ \A i \in DOMAIN bl : bl[i][1] \in Int
      BY <1>1 DEF Messages
    <3>5. /\ \A i, j \in DOMAIN wire : i < j => wire[i] < wire[j]
          /\ \A i, j \in DOMAIN bl : i < j => bl[i][1] < bl[j][1]
          /\ \A i \in DOMAIN wire, j \in DOMAIN bl : wire[i] < bl[j][1]
          /\ \A i \in DOMAIN wire : wire[i] <= k
          /\ \A i \in DOMAIN bl : bl[i][1] <= k
      BY <1>1 DEF OrderInv
    <3>6. \A i \in DOMAIN bl' : /\ i + 1 \in DOMAIN bl /\ bl'[i] = bl[i + 1]
                                /\ i \in Int /\ 1 < i + 1
      BY <1>0, <1>1, <2>2
    <3>7. bl[1][1] = x
      BY <1>5
    <3> HIDE DEF x, k, d
    <3>8. \A i \in DOMAIN wire' : \/ i \in DOMAIN wire /\ wire'[i] = wire[i]
                                  \/ i = Len(wire) + 1 /\ wire'[i] = x
      BY <1>1, <3>1
    <3>9. \A i \in DOMAIN wire : wire[i] < x
      BY <1>5, <3>5, <3>7
    <3>10. \A i \in DOMAIN bl' : x < bl'[i][1] /\ bl'[i][1] <= k
      <4> SUFFICES ASSUME NEW i \in DOMAIN bl' PROVE x < bl'[i][1] /\ bl'[i][1] <= k
        OBVIOUS
      <4>1. bl[1][1] < bl[i + 1][1] /\ bl[i + 1][1] <= k
        BY <1>5, <3>5, <3>6
      <4> QED
        BY <3>6, <3>7, <4>1
    <3>11. \A i, j \in DOMAIN wire' : i < j => wire'[i] < wire'[j]
      <4>1. Len(wire) \in Int
        BY <1>1
      <4> QED
        BY <3>4, <3>5, <3>8, <3>9, <4>1
    <3>12. \A i, j \in DOMAIN bl' : i < j => bl'[i][1] < bl'[j][1]
      <4> SUFFICES ASSUME NEW i \in DOMAIN bl', NEW j \in DOMAIN bl', i < j
                   PROVE  bl'[i][1] < bl'[j][1]
        OBVIOUS
      <4>1. bl[i + 1][1] < bl[j + 1][1]
        BY <3>5, <3>6
      <4> QED
        BY <3>6, <4>1
    <3>13. x <= k
      BY <1>5, <3>5, <3>7
    <3>14. \A i \in DOMAIN wire', j \in DOMAIN bl' : wire'[i] < bl'[j][1]
      <4>1. \A j \in DOMAIN bl' : bl'[j][1] \in Int
        BY <3>4, <3>6
      <4> QED
        BY <3>1, <3>4, <3>8, <3>9, <3>10, <4>1
    <3>15. \A i \in DOMAIN wire' : wire'[i] <= k
      BY <3>5, <3>8, <3>13
    <3>16. Taken' = k
      BY <1>4 DEF k
    <3> QED
      BY <3>2, <3>3, <3>10, <3>11, <3>12, <3>14, <3>15, <3>16 DEF OrderInv
  <2> QED
    BY <1>0, <2>1, <2>2
<1>7. TypeInv' /\ BatchInv' /\ HeldInv'
  BY <1>0, <1>3, <1>6 DEF IInv, LocalInv, TypeInv, KernelTyped, FlagsTyped, AskedTyped, SendTyped,
                          ReadTyped, LoopTyped, BatchInv, HeldInv
<1>8. Good(table', Opened') /\ FlagInv' /\ KernelInv' /\ OthersHear' /\ NoDescriptorLeaks'
  BY <1>0, <1>4 DEF IInv, FlagInv, KernelInv, OthersHear, NoDescriptorLeaks, IsUp, Current, Sockets
<1>9. ReadInv' /\ WriteInv'
  BY <1>0, <1>2 DEF IInv, ReadInv, WriteInv, IsUp, Current, Coming, Writable
<1> QED
  BY <1>4, <1>6, <1>7, <1>8, <1>9 DEF IInv, LocalInv

\* msg_buffer_ takes a datagram.
LEMMA ReceivedIs ==
  ASSUME IInv, NEW n \in Nat, Received(n), cut' = (cut \/ n \in Writable + 1 .. BufferSize)
  PROVE  ReadTyped' /\ HeldInv'
<1>1. /\ held \in 0 .. BufferSize /\ BufferSize \in Nat /\ cut \in BOOLEAN /\ left \in BOOLEAN
      /\ held # 0 => left
      /\ cut => left
  BY SocketAssumption DEF IInv, LocalInv, TypeInv, ReadTyped, HeldInv
<1>2. n \in Writable + 1 .. BufferSize => held # 0
  BY <1>1 DEF Writable
<1>3. Writable \in Nat /\ Smaller(n, Writable) \in Nat /\ Smaller(n, Writable) <= Writable
  BY <1>1 DEF Writable, Smaller
<1>4. held' \in 0 .. BufferSize /\ (held' # 0 => left') /\ (left => left') /\ left' \in BOOLEAN
  <2>1. \/ held' = 0 /\ left' = left
        \/ held' = held + Smaller(n, Writable) /\ left' = TRUE
    BY DEF Received
  <2>2. held' \in 0 .. BufferSize
    <3>1. held' = 0 \/ held' = held + Smaller(n, Writable)
      BY <2>1
    <3> QED
      BY <1>1, <1>3, <3>1 DEF Writable
  <2>3. (held' # 0 => left') /\ (left => left') /\ left' \in BOOLEAN
    BY <1>1, <2>1, Zenon
  <2> QED
    BY <2>2, <2>3
<1>5. cut' \in BOOLEAN /\ (cut' => left)
  BY <1>1, <1>2
<1> QED
  BY <1>4, <1>5 DEF ReadTyped, HeldInv

LEMMA RecvfromKeeps ==
  ASSUME IInv, Recvfrom
  PROVE  IInv'
<1> DEFINE n == Head(arrived[Current])
<1>0. /\ pc = "OnRead" /\ ~ closed_ /\ IsUp /\ arrived[Current] # << >>
      /\ cut' = (cut \/ n \in Writable + 1 .. BufferSize) /\ Received(n)
      /\ UNCHANGED <<kind, timer, batch, functions_, pc, opens, received, again>>
  BY DEF Recvfrom, loopVars
<1>1. KernelTyped /\ Current \in Opens /\ Current \in Sockets
  BY <1>0, CurrentIs DEF IInv, LocalInv, TypeInv
<1>2. n \in Nat
  <2> DEFINE s == arrived[Current]
  <2>1. s \in Seq(Lengths) /\ s # << >>
    BY <1>0, <1>1 DEF KernelTyped
  <2> HIDE DEF s
  <2>2. Head(s) \in Lengths
    BY <2>1
  <2> QED
    BY <2>2, SocketAssumption DEF s
<1>3. ReadTyped' /\ HeldInv' /\ BatchInv'
  <2> HIDE DEF n
  <2>1. ReadTyped' /\ HeldInv'
    BY <1>0, <1>2, ReceivedIs
  <2> QED
    BY <1>0, <2>1 DEF BatchInv
<1>4. ASSUME arrived' = [arrived EXCEPT ![Current] = Tail(@)]
      PROVE  /\ arrived' \in [Opens -> Seq(Lengths)]
             /\ \A p \in Opens \ Sockets : arrived'[p] = << >>
  <2>1. Tail(arrived[Current]) \in Seq(Lengths)
    BY <1>0, <1>1 DEF KernelTyped
  <2>2. arrived' \in [Opens -> Seq(Lengths)]
    BY <1>1, <1>4, <2>1 DEF KernelTyped
  <2>3. \A p \in Opens : p # Current => arrived'[p] = arrived[p]
    BY <1>1, <1>4 DEF KernelTyped
  <2> QED
    BY <1>1, <2>2, <2>3 DEF IInv, KernelInv
<1>5. CASE /\ arrived' = [arrived EXCEPT ![Current] = Tail(@)]
           /\ UNCHANGED <<asked, table, closed_, connected_, sndbuf, refused, sendVars, sends,
                          unclean>>
  <2>1. Opened' = Opened /\ Taken' = Taken /\ CountInv'
    BY <1>0, <1>5, NothingQueued
  <2>2. TypeInv'
    BY <1>0, <1>3, <1>4, <1>5 DEF IInv, LocalInv, TypeInv, KernelTyped, FlagsTyped, AskedTyped,
                                  SendTyped, LoopTyped, sendVars
  <2>3. OrderInv'
    BY <1>5, <2>1 DEF IInv, LocalInv, OrderInv, sendVars
  <2>4. Good(table', Opened') /\ FlagInv' /\ KernelInv' /\ OthersHear' /\ NoDescriptorLeaks'
    BY <1>0, <1>4, <1>5, <2>1 DEF IInv, FlagInv, KernelInv, OthersHear, NoDescriptorLeaks, IsUp,
                                  Current, Sockets
  <2>5. ReadInv' /\ WriteInv'
    BY <1>0, <1>5 DEF IInv, ReadInv, WriteInv, IsUp, Current, Coming, Room, sendVars
  <2> QED
    BY <1>3, <2>1, <2>2, <2>3, <2>4, <2>5 DEF IInv, LocalInv
<1>6. CASE /\ arrived' = [arrived EXCEPT ![Current] = Tail(@)]
           /\ sends < MaxSends /\ sends' = sends + 1
           /\ \E s \in Sizes : SendInLoop(<<Taken + 1, s>>)
           /\ UNCHANGED <<closed_, connected_, unclean>>
  <2>1. /\ SentNow /\ sends' \in 0 .. MaxSends
        /\ Opened' = Opened /\ Taken' = Taken + 1 /\ CountInv'
        /\ Good(table', Opened) /\ FlagInv' /\ OthersHear' /\ NoDescriptorLeaks'
        /\ IsUp' <=> IsUp
        /\ Current' = Current /\ Sockets' = Sockets
    BY <1>0, <1>6, SentKeeps
  <2>2. TypeInv'
    BY <1>0, <1>3, <1>4, <1>6, <2>1 DEF IInv, LocalInv, TypeInv, KernelTyped, FlagsTyped,
                                        LoopTyped, SentNow
  <2>3. KernelInv'
    BY <1>1, <1>4, <1>6, <2>1 DEF IInv, KernelInv, SentNow
  <2>4. ReadInv'
    BY <1>0 DEF ReadInv
  <2> QED
    BY <1>3, <2>1, <2>2, <2>3, <2>4 DEF IInv, LocalInv, SentNow
<1>7. CASE CloseCalled /\ UNCHANGED <<asked, sendVars, sends>>
  <2>1. Opened' = Opened /\ Taken' = Taken /\ CountInv' /\ functions_' \in Seq(Functions)
    BY <1>0, <1>7, NothingQueued
  <2>2. timer' \in BOOLEAN /\ batch' \in Seq(Reports)
    BY <1>0 DEF IInv, LocalInv, TypeInv, LoopTyped
  <2>3. UNCHANGED <<kind, asked, buffer_list_, wire, missed, opens, sends, received, again>>
    BY <1>0, <1>7 DEF sendVars
  <2>4. OnClose(table) \/ OnClose(DelEvent(table, Socket))
    BY <1>7 DEF CloseCalled
  <2> QED
    BY <1>0, <1>3, <2>1, <2>2, <2>3, <2>4, ClosedKeeps
<1> QED
  BY <1>5, <1>6, <1>7 DEF Recvfrom

-----------------------------------------------------------------------------
(* The functions that other threads have asked for.                        *)

\* The next function is taken out.
LEMMA PoppedIs ==
  ASSUME IInv, functions_ # << >>, functions_' = Tail(functions_), UNCHANGED <<opens, sends>>,
         NEW op, op = Head(functions_).op
  PROVE  /\ functions_' \in Seq(Functions) /\ Head(functions_) \in Functions
         /\ CountInv'
         /\ Opened' = Opened + (IF op \in {"Open"} THEN 1 ELSE 0)
         /\ Taken' = Taken + (IF op \in {"Send", "SendList"} THEN 1 ELSE 0)
         /\ Opened' \in 0 .. MaxOpens /\ Taken' \in 0 .. MaxSends
<1>0. /\ functions_ \in Seq(Functions) /\ opens \in 0 .. MaxOpens /\ sends \in 0 .. MaxSends
      /\ MaxOpens \in Nat /\ MaxSends \in Nat /\ CountInv
  BY SocketAssumption DEF IInv, LocalInv, TypeInv, LoopTyped
<1>1. functions_' \in Seq(Functions) /\ Head(functions_) \in Functions
  BY <1>0
<1>2. \A ops : Pending(ops) = Count(functions_, ops) /\ Pending(ops)' = Count(functions_', ops)
  BY DEF Pending, Count
<1>3. /\ Count(functions_, {"Open"}) \in Nat /\ Count(functions_, {"Send", "SendList"}) \in Nat
      /\ Count(functions_', {"Open"}) \in Nat /\ Count(functions_', {"Send", "SendList"}) \in Nat
  BY <1>0, <1>1, CountIs
<1>4. /\ Count(functions_, {"Open"})
           = Count(functions_', {"Open"}) + (IF op \in {"Open"} THEN 1 ELSE 0)
      /\ Count(functions_, {"Send", "SendList"})
           = Count(functions_', {"Send", "SendList"})
             + (IF op \in {"Send", "SendList"} THEN 1 ELSE 0)
  BY <1>0, CountPopped
<1> DEFINE p == Pending({"Open"})
           q == Pending({"Send", "SendList"})
           p1 == Pending({"Open"})'
           q1 == Pending({"Send", "SendList"})'
           i == IF op \in {"Open"} THEN 1 ELSE 0
           j == IF op \in {"Send", "SendList"} THEN 1 ELSE 0
<1>5. /\ p \in Nat /\ q \in Nat /\ p1 \in Nat /\ q1 \in Nat /\ i \in {0, 1} /\ j \in {0, 1}
      /\ p = p1 + i /\ q = q1 + j /\ p <= opens /\ q <= sends
  BY <1>0, <1>2, <1>3, <1>4 DEF CountInv
<1>6. /\ CountInv' <=> p1 <= opens' /\ q1 <= sends'
      /\ Opened = opens - p /\ Opened' = opens' - p1
      /\ Taken = sends - q /\ Taken' = sends' - q1
  BY DEF CountInv, Opened, Taken
<1> HIDE DEF p, q, p1, q1, i, j
<1>7. CountInv'
  <2>1. opens' = opens /\ sends' = sends /\ opens \in Nat /\ sends \in Nat
    BY <1>0
  <2>2. p1 <= opens' /\ q1 <= sends'
    BY <1>5, <2>1
  <2> QED
    BY <1>6, <2>2
<1>8. /\ Opened' = Opened + i /\ Taken' = Taken + j
      /\ Opened' \in 0 .. MaxOpens /\ Taken' \in 0 .. MaxSends
  <2>1. /\ opens' = opens /\ sends' = sends
        /\ opens \in 0 .. MaxOpens /\ sends \in 0 .. MaxSends
        /\ MaxOpens \in Nat /\ MaxSends \in Nat
    BY <1>0
  <2>2. /\ Opened = opens - p /\ Opened' = opens' - p1
        /\ Taken = sends - q /\ Taken' = sends' - q1
    BY <1>6
  <2> QED
    BY <1>5, <2>1, <2>2
<1> QED
  BY <1>1, <1>7, <1>8 DEF i, j

\* The neighbour gets a number, or not.
LEMMA NeighbourIs ==
  ASSUME IInv,
         table' = IF IsOpen(table, Neighbour) \/ Free(table) = {} THEN table
                  ELSE AddEvent(OpenAs(table, Neighbour, Foreign), Neighbour, FALSE),
         UNCHANGED <<kind, closed_, connected_, unclean, again>>
  PROVE  /\ Good(table', Opened) /\ FlagInv' /\ OthersHear' /\ NoDescriptorLeaks'
         /\ IsUp' <=> IsUp
         /\ (IsUp => Current' = Current) /\ Sockets' = Sockets
         /\ table.ready \subseteq table'.ready
         /\ table'.fd_[Socket] = table.fd_[Socket]
<1>0. Good(table, Opened) /\ FlagInv /\ OthersHear /\ NoDescriptorLeaks
  BY DEF IInv
<1>1. CASE IsOpen(table, Neighbour) \/ Free(table) = {}
  <2>1. table' = table
    BY <1>1
  <2> QED
    BY <1>0, <2>1 DEF FlagInv, OthersHear, NoDescriptorLeaks, IsUp, Current, Sockets
<1>2. CASE ~ IsOpen(table, Neighbour) /\ Free(table) # {}
  <2> DEFINE n == Min(Free(table))
             j == Opened
             now == FALSE
             o == Neighbour
             f == Foreign
  <2>1. /\ table' = AddEvent(OpenAs(table, o, f), o, now)
        /\ n = Min(Free(table)) /\ now \in BOOLEAN
        /\ j \in Int /\ j <= j /\ Good(table, j) /\ o = Neighbour /\ f = Foreign /\ o \in Objects
    <3>1. Opened \in 0 .. MaxOpens /\ MaxOpens \in Nat
      BY NumbersTyped, SocketAssumption
    <3>2. j \in Int /\ j <= j
      BY <3>1
    <3> QED
      BY <1>0, <1>2, <3>2, ConstantsAre
  <2> HIDE DEF n, j, now, o, f
  <2>2. /\ n \in Fds /\ NumberOpened(table, table', o, f, n) /\ Good(table', j)
        /\ Registered(table) => Registered(table') /\ Hears(table', o, f)
    BY <1>2, <2>1, OpenedGood
  <2>3. /\ table.file[n] = NoFile
        /\ \A m \in Fds : table'.file[m] = IF m = n THEN Foreign ELSE table.file[m]
        /\ table'.fd_[Socket] = table.fd_[Socket]
        /\ \A m \in Fds : table.events_[m] # NoObject => table'.events_[m] = table.events_[m]
        /\ table.ready \subseteq table'.ready
    BY <2>1, <2>2, ConstantsAre DEF NumberOpened
  <2>4. IsUp => table.fd_[Socket] \in Fds /\ Current \in Opens /\ Current = table.file[table.fd_[Socket]]
    BY CurrentIs
  <2>5. (IsUp' <=> IsUp) /\ (IsUp => Current' = Current)
    BY <2>3, <2>4, ConstantsAre DEF IsUp, IsOpen, Current, FileOf
  <2>6. Sockets' = Sockets
    <3>1. \A m \in Fds, k \in Opens : table'.file[m] = k <=> table.file[m] = k
      BY <2>3, ConstantsAre
    <3> QED
      BY <3>1 DEF Sockets
  <2>7. FlagInv'
    <3>1. IsUp /\ ~ closed_ => table'.events_[table'.fd_[Socket]] = Socket
      BY <2>3, <2>4, ConstantsAre, CurrentIs
    <3> QED
      BY <1>0, <2>2, <2>5, <3>1 DEF FlagInv
  <2>8. OthersHear'
    BY <1>0, <2>1, <2>2 DEF OthersHear, FlagInv
  <2>9. NoDescriptorLeaks'
    BY <1>0, <2>5, <2>6 DEF NoDescriptorLeaks
  <2> QED
    BY <2>2, <2>3, <2>5, <2>6, <2>7, <2>8, <2>9 DEF j
<1> QED
  BY <1>1, <1>2

LEMMA RunFuctionsKeeps ==
  ASSUME IInv, RunFuctions
  PROVE  IInv'
<1> DEFINE f == Head(functions_)
           op == f.op
<1>0. /\ pc = "RunFuctions" /\ functions_ # << >> /\ functions_' = Tail(functions_)
      /\ UNCHANGED <<kind, timer, held, left, cut, batch, pc, opens, sends, received>>
  BY DEF RunFuctions, readVars, bounds
<1>1. /\ functions_' \in Seq(Functions) /\ f \in Functions /\ CountInv'
      /\ Opened' = Opened + (IF op \in {"Open"} THEN 1 ELSE 0)
      /\ Taken' = Taken + (IF op \in {"Send", "SendList"} THEN 1 ELSE 0)
      /\ Opened' \in 0 .. MaxOpens /\ Taken' \in 0 .. MaxSends
  BY <1>0, PoppedIs
<1>2. Opened \in 0 .. MaxOpens /\ Taken \in 0 .. MaxSends /\ MaxOpens \in Nat /\ MaxSends \in Nat
  BY NumbersTyped, SocketAssumption
<1>3. /\ again' \in BOOLEAN => LoopTyped'
      /\ ReadTyped' /\ BatchInv' /\ HeldInv'
  BY <1>0, <1>1 DEF IInv, LocalInv, TypeInv, LoopTyped, ReadTyped, BatchInv, HeldInv
<1>4. timer' \in BOOLEAN /\ batch' \in Seq(Reports) /\ again \in BOOLEAN
  BY <1>0 DEF IInv, LocalInv, TypeInv, LoopTyped
<1>5. CASE op = "Open" /\ Open(opens - Pending({"Open"}) + 1) /\ UNCHANGED <<buffer_list_, wire>>
  <2> DEFINE k == Opened + 1
  <2>1. Opened' = k /\ Taken' = Taken /\ k \in Opens
    BY <1>1, <1>2, <1>5 DEF Opens
  <2>2. Open(k) /\ k = Opened + 1 /\ Opened \in Nat
    BY <1>2, <1>5 DEF Opened
  <2> HIDE DEF k
  <2>3. /\ Good(table', k) /\ FlagInv' /\ KernelInv' /\ ReadInv' /\ WriteInv'
        /\ OthersHear' /\ NoDescriptorLeaks'
        /\ KernelTyped' /\ FlagsTyped' /\ AskedTyped' /\ missed' \in BOOLEAN /\ again' \in BOOLEAN
    BY <1>0, <1>5, <2>1, <2>2, OpenKeeps
  <2>4. TypeInv'
    BY <1>3, <1>5, <2>3 DEF IInv, LocalInv, TypeInv, SendTyped
  <2>5. OrderInv'
    BY <1>5, <2>1 DEF IInv, LocalInv, OrderInv
  <2> QED
    BY <1>1, <1>3, <2>1, <2>3, <2>4, <2>5 DEF IInv, LocalInv
<1>6. CASE /\ op \in {"Stop", "ForceClose"}
           /\ OnClose(DelEvent(table, Socket)) \/ OnClose(table)
           /\ UNCHANGED <<asked, again, sendVars>>
  <2>1. Opened' = Opened /\ Taken' = Taken
    BY <1>1, <1>2, <1>6
  <2>2. UNCHANGED <<kind, asked, buffer_list_, wire, missed, opens, sends, received, again>>
    BY <1>0, <1>6 DEF sendVars
  <2>3. ReadTyped' /\ HeldInv' /\ BatchInv' /\ pc' = "RunFuctions"
    BY <1>0, <1>3, <1>4, <2>2
  <2> QED
    BY <1>1, <1>4, <1>6, <2>1, <2>2, <2>3, ClosedKeeps
<1>7. CASE /\ \/ op = "Send" /\ SendInLoop(<<Taken + 1, f.size>>)
              \/ op = "SendList" /\ SendListInLoop(<<Taken + 1, f.size>>)
           /\ UNCHANGED <<closed_, connected_, arrived, again, unclean>>
  <2>1. Opened' = Opened /\ Taken' = Taken + 1 /\ Taken + 1 \in 1 .. MaxSends
    BY <1>1, <1>2, <1>7
  <2>2. f.size \in Sizes
    BY <1>1, <1>7 DEF Functions
  <2>3. SentNow
    BY <1>0, <1>7, <2>1, <2>2, SendInLoopIs
  <2>4. /\ Good(table', Opened) /\ FlagInv' /\ OthersHear' /\ NoDescriptorLeaks'
        /\ IsUp' <=> IsUp
        /\ Current' = Current /\ Sockets' = Sockets
        /\ table'.fd_[Socket] = table.fd_[Socket]
    BY <1>0, <1>7, <2>3, ReadyOnlyKeeps DEF SentNow
  <2>5. TypeInv'
    BY <1>3, <1>4, <1>7, <2>3 DEF IInv, LocalInv, TypeInv, KernelTyped, FlagsTyped, SentNow
  <2>6. KernelInv'
    BY <1>7, <2>3, <2>4, CurrentIs DEF IInv, KernelInv, SentNow
  <2>7. ReadInv'
    BY <1>0, <1>7, <2>3, <2>4 DEF IInv, ReadInv, SentNow, Coming, Writable
  <2> QED
    BY <1>1, <1>3, <1>4, <1>7, <2>1, <2>3, <2>4, <2>5, <2>6, <2>7 DEF IInv, LocalInv, SentNow
<1>8. CASE /\ op = "Neighbour"
           /\ table' = IF IsOpen(table, Neighbour) \/ Free(table) = {} THEN table
                       ELSE AddEvent(OpenAs(table, Neighbour, Foreign), Neighbour, FALSE)
           /\ UNCHANGED <<asked, closed_, connected_, kernelVars, sendVars, again, unclean>>
  <2>1. Opened' = Opened /\ Taken' = Taken
    BY <1>1, <1>2, <1>8
  <2>2. /\ Good(table', Opened) /\ FlagInv' /\ OthersHear' /\ NoDescriptorLeaks'
        /\ IsUp' <=> IsUp
        /\ (IsUp => Current' = Current) /\ Sockets' = Sockets
        /\ table.ready \subseteq table'.ready
        /\ table'.fd_[Socket] = table.fd_[Socket]
    BY <1>0, <1>8, NeighbourIs
  <2>3. UNCHANGED <<asked, closed_, connected_, arrived, sndbuf, refused, buffer_list_, wire, missed,
                    again, unclean>>
    BY <1>8 DEF kernelVars, sendVars
  <2>4. TypeInv'
    BY <1>3, <1>4, <2>3 DEF IInv, LocalInv, TypeInv, KernelTyped, FlagsTyped, AskedTyped, SendTyped
  <2>5. OrderInv' /\ KernelInv'
    BY <2>1, <2>2, <2>3 DEF IInv, LocalInv, OrderInv, KernelInv
  <2>6. ReadInv'
    BY <1>0, <2>2, <2>3 DEF IInv, ReadInv, Coming, Writable
  <2>7. WriteInv'
    BY <1>0, <2>2, <2>3 DEF IInv, WriteInv, Coming, Room
  <2> QED
    BY <1>1, <1>3, <1>4, <2>1, <2>2, <2>3, <2>4, <2>5, <2>6, <2>7 DEF IInv, LocalInv
<1> QED
  BY <1>5, <1>6, <1>7, <1>8 DEF RunFuctions, Stop

-----------------------------------------------------------------------------
(* The theorems.                                                           *)

LEMMA InitIInv ==
  ASSUME Init
  PROVE  IInv
<1>1. /\ kind \in {"client", "server"} /\ kind \in Kinds /\ table = EmptyTable
      /\ closed_ = FALSE /\ connected_ = FALSE /\ functions_ = << >> /\ batch = << >>
      /\ arrived = [k \in Opens |-> << >>] /\ opens = 0 /\ sends = 0
      /\ wire = << >> /\ buffer_list_ = << >>
      /\ unclean = {} /\ cut = FALSE /\ held = 0
  BY SocketAssumption DEF Init
<1>2. /\ ~ IsOpen(table, Socket) /\ ~ IsOpen(table, Neighbour)
      /\ \A n \in Fds : table.file[n] = NoFile /\ table.events_[n] = NoObject
      /\ table.epoll = {} /\ table.ready = {}
      /\ table \in Tables(Opens \cup {Foreign})
  BY <1>1, ConstantsAre DEF EmptyTable, Tables, IsOpen
<1>3. Pending({"Open"}) = 0 /\ Pending({"Send", "SendList"}) = 0
  <2>1. \A ops : {i \in DOMAIN functions_ : functions_[i].op \in ops} = {}
    BY <1>1
  <2> QED
    BY <2>1, FS_EmptySet DEF Pending
<1>4. TypeInv
  <2>1. KernelTyped
    <3>1. /\ arrived = [k \in Opens |-> << >>] /\ sndbuf = [k \in Opens |-> 0] /\ refused = {}
          /\ SndCap \in Nat /\ << >> \in Seq(Lengths)
      BY SocketAssumption DEF Init
    <3> QED
      BY <3>1 DEF KernelTyped
  <2>b. /\ closed_ \in BOOLEAN /\ connected_ \in BOOLEAN
        /\ missed \in BOOLEAN /\ left \in BOOLEAN /\ cut \in BOOLEAN
        /\ timer \in BOOLEAN /\ again \in BOOLEAN
    BY Zenon DEF Init
  <2>c. /\ asked = [k \in Opens |-> {}] /\ pc = "EpollWait" /\ received = 0
    BY Zenon DEF Init
  <2>2. FlagsTyped /\ AskedTyped /\ SendTyped
    BY <1>1, <2>b, <2>c DEF FlagsTyped, AskedTyped, SendTyped
  <2>3. ReadTyped
    BY <1>1, <2>b, SocketAssumption DEF ReadTyped
  <2>4. LoopTyped
    BY <1>1, <2>b, <2>c, SocketAssumption DEF LoopTyped
  <2> QED
    BY <2>1, <2>2, <2>3, <2>4 DEF TypeInv
<1>5. CountInv /\ OrderInv /\ BatchInv /\ HeldInv
  BY <1>1, <1>3 DEF CountInv, OrderInv, BatchInv, HeldInv
<1>6. Good(table, Opened)
  BY <1>2, ConstantsAre DEF Good
<1>7. ~ IsUp /\ Sockets = {}
  BY <1>2, ConstantsAre DEF IsUp, Sockets
<1>8. FlagInv
  BY <1>1, <1>2, <1>7 DEF FlagInv, Registered
<1>9. KernelInv /\ ReadInv /\ WriteInv /\ OthersHear /\ NoDescriptorLeaks
  BY <1>1, <1>2, <1>7 DEF KernelInv, ReadInv, WriteInv, OthersHear, NoDescriptorLeaks
<1> QED
  BY <1>4, <1>5, <1>6, <1>8, <1>9 DEF IInv, LocalInv

LEMMA StutterKeeps ==
  ASSUME IInv, UNCHANGED vars
  PROVE  IInv'
<1>1. /\ UNCHANGED <<objectVars, kernelVars, sendVars, readVars, functions_, bounds, again, unclean>>
      /\ UNCHANGED <<batch, pc>>
  BY DEF vars, loopVars
<1>2. ReadInv' /\ WriteInv'
  BY <1>1 DEF IInv, ReadInv, WriteInv, IsUp, Current, Coming, Writable, Room, objectVars,
              kernelVars, sendVars, readVars
<1>3. BatchInv' /\ batch' \in Seq(Reports)
      /\ pc' \in {"EpollWait", "Dispatch", "OnRead", "OnWrite", "RunFuctions"}
  BY <1>1 DEF IInv, LocalInv, TypeInv, LoopTyped, BatchInv
<1> QED
  BY <1>1, <1>2, <1>3, LoopKeeps

(***************************************************************************)
(* The invariant holds in every state of every behaviour.                  *)
(***************************************************************************)
THEOREM InductiveInvariant == Spec => []IInv
<1>1. Init => IInv
  BY InitIInv
<1>2. ASSUME IInv, [Next]_vars PROVE IInv'
  <2>1. CASE \E k \in Opens : Arrives(k) \/ Refused(k) \/ Drains(k)
    BY <1>2, <2>1, ArrivesKeeps, RefusedKeeps, DrainsKeeps
  <2>2. CASE CallOpen \/ CallSend \/ CallStop \/ CallForceClose \/ NeighbourOpens
    BY <1>2, <2>2, CallsKeep
  <2>3. CASE EpollReturns
    BY <1>2, <2>3, EpollReturnsKeeps
  <2>4. CASE Dispatch
    BY <1>2, <2>4, DispatchKeeps
  <2>5. CASE DispatchEnds \/ RunFuctionsEnds
    BY <1>2, <2>5, EndsKeep
  <2>6. CASE Recvfrom
    BY <1>2, <2>6, RecvfromKeeps
  <2>7. CASE OnReadEnds
    BY <1>2, <2>7, OnReadEndsKeeps
  <2>8. CASE OnWrite
    BY <1>2, <2>8, OnWriteKeeps
  <2>9. CASE OnWriteEnds
    BY <1>2, <2>9, OnWriteEndsKeeps
  <2>10. CASE RunFuctions
    BY <1>2, <2>10, RunFuctionsKeeps
  <2>11. CASE OnTimeout
    BY <1>2, <2>11, OnTimeoutKeeps
  <2>12. CASE UNCHANGED vars
    BY <1>2, <2>12, StutterKeeps
  <2> QED
    BY <1>2, <2>1, <2>2, <2>3, <2>4, <2>5, <2>6, <2>7, <2>8, <2>9, <2>10, <2>11, <2>12 DEF Next
<1> QED
  BY <1>1, <1>2, PTL DEF Spec

(***************************************************************************)
(* Messages leave in the order of SendInLoop, each at most once.           *)
(***************************************************************************)
THEOREM EachOnceInOrderTheorem == Spec => []EachOnceInOrder
<1>1. IInv => EachOnceInOrder
  BY DEF IInv, LocalInv, OrderInv, EachOnceInOrder
<1> QED
  BY <1>1, InductiveInvariant, PTL

(***************************************************************************)
(* What waits is written: a list that is not empty is on the ready list    *)
(* when the loop is about to sleep, but for the exceptions named.          *)
(***************************************************************************)
THEOREM WaitingIsWrittenTheorem == Spec => []WaitingIsWritten
<1>1. IInv => WaitingIsWritten
  BY DEF IInv, LocalInv, BatchInv, WriteInv, WaitingIsWritten, Coming
<1> QED
  BY <1>1, InductiveInvariant, PTL

(***************************************************************************)
(* What arrives is received, and whole, but for the exceptions named.      *)
(***************************************************************************)
THEOREM InputIsReceivedTheorem == Spec => []InputIsReceived
<1>1. IInv => ArrivingIsRead
  BY DEF IInv, LocalInv, BatchInv, ReadInv, ArrivingIsRead, Coming
<1>2. IInv => DatagramsAreWhole
  BY DEF IInv, LocalInv, HeldInv, DatagramsAreWhole
<1> QED
  BY <1>1, <1>2, InductiveInvariant, PTL DEF InputIsReceived

(***************************************************************************)
(* An object that opens a descriptor after this socket was closed hears of *)
(* its own, whatever closed the socket, but for a server's OnClose and a   *)
(* server that close_callback_ starts again.                               *)
(***************************************************************************)
THEOREM OthersHearTheorem == Spec => []OthersHear
<1>1. IInv => OthersHear
  BY DEF IInv
<1> QED
  BY <1>1, InductiveInvariant, PTL

(***************************************************************************)
(* An open socket is the current one, and one that is closed is not        *)
(* current, unless it was opened a second time or close_callback_ starts   *)
(* the server again.                                                       *)
(***************************************************************************)
THEOREM NoDescriptorLeaksTheorem == Spec => []NoDescriptorLeaks
<1>1. IInv => NoDescriptorLeaks
  BY DEF IInv
<1> QED
  BY <1>1, InductiveInvariant, PTL
=============================================================================

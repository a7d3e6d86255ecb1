----------------------------- MODULE DnsService ----------------------------
(***************************************************************************)
(* The DnsService (DnsService.cpp): a table of hosts and their addresses,  *)
(* a worker thread that looks all hosts up again and again, and a program  *)
(* that adds hosts, asks for addresses, and starts and stops the worker.   *)
(*                                                                         *)
(* An address is <<h, n>>, the n-th address of host h.  Every function     *)
(* that takes lock_ does nothing else that can wait, so each is one step.  *)
(* getaddrinfo() is a choice among what it may answer.                     *)
(***************************************************************************)
EXTENDS Integers, Sequences, FiniteSets

CONSTANTS
  Hosts, NoHost,
  V6Only,     \* hosts that have no IPv4 address
  Flaky,      \* hosts whose lookup may fail
  Retries,    \* the values SetDnsServiceParams gives to retry_
  Width,      \* bits of a size_t: 64
  MaxIndex    \* the greatest int: 2^31 - 1

\* An int fits into a size_t.
ASSUME DnsAssumption ==
  /\ NoHost \notin Hosts /\ V6Only \subseteq Hosts /\ Flaky \subseteq Hosts
  /\ Retries \subseteq Int
  /\ Width \in Nat \ {0} /\ 2 ^ Width \in Nat
  /\ MaxIndex \in Nat /\ MaxIndex < 2 ^ Width

VARIABLES
  host_info_,  \* a sequence of addresses for each host that was added
  running_,
  retry_,
  thread_,     \* "none", "joinable": the std::thread
  caller,      \* "idle", or "join" inside Stop
  pc,          \* where the worker is
  left,        \* the hosts of this round it has still to look up
  host,        \* the host it looks up
  tried,       \* i of the inner loop
  list,        \* the vector of the inner loop
  res,         \* what the last answer left at the place of res on the stack
  failed,      \* hosts whose lookup has failed (history)
  died         \* the process has ended

tableVars  == <<host_info_>>
workerVars == <<pc, left, host, tried, list, res, failed>>
callerVars == <<running_, thread_, caller>>
dnsVars == <<tableVars, workerVars, callerVars, retry_, died>>

Addresses(h) == {<<h, n>> : n \in 1 .. 3}

\* The addresses GetHostInfo takes from an answer: only the IPv4 ones.
Answers(h) ==
  IF h \in V6Only THEN {<< >>} ELSE {<< <<h, 1>> >>, << <<h, 2>>, <<h, 3>>, <<h, 1>> >>}

Lists == {<< >>} \cup UNION {Answers(h) : h \in Hosts}
Added == DOMAIN host_info_

DnsTypeOK ==
  /\ Added \subseteq Hosts /\ host_info_ \in [Added -> Lists]
  /\ running_ \in BOOLEAN /\ died \in BOOLEAN /\ retry_ \in Retries
  /\ thread_ \in {"none", "joinable"} /\ caller \in {"idle", "join"}
  /\ pc \in {"none", "OnWork", "Hosts", "Lookup", "UpdateHost", "sleep", "interval", "ended"}
  /\ left \subseteq Added
  /\ host \in Added \cup {NoHost} /\ (pc \in {"Lookup", "UpdateHost", "sleep"} => host # NoHost)
  /\ tried \in Nat /\ list \in Lists /\ res \in Lists /\ failed \subseteq Hosts
  /\ (pc = "UpdateHost" => list # << >>)
  /\ (thread_ = "none" <=> pc = "none")

DnsInit ==
  /\ host_info_ = << >> /\ running_ = FALSE /\ retry_ \in Retries
  /\ thread_ = "none" /\ caller = "idle"
  /\ pc = "none" /\ left = {} /\ host = NoHost /\ tried = 0
  /\ list = << >> /\ res = << >> /\ failed = {} /\ died = FALSE
-----------------------------------------------------------------------------
(* The program.                                                            *)

Update(h, l) == [g \in Added \cup {h} |-> IF g = h THEN l ELSE host_info_[g]]

AddHost(h) ==
  /\ ~ died /\ h \notin Added
  /\ host_info_' = Update(h, << >>)
  /\ UNCHANGED <<workerVars, callerVars, retry_, died>>

SetDnsServiceParams ==
  /\ ~ died /\ retry_' \in Retries
  /\ UNCHANGED <<tableVars, workerVars, callerVars, died>>

\* A second Start assigns to a std::thread that is joinable: terminate().
Start ==
  /\ ~ died /\ caller = "idle"
  /\ running_' = TRUE
  /\ \/ thread_ = "none" /\ thread_' = "joinable" /\ pc' = "OnWork" /\ UNCHANGED died
     \/ thread_ = "joinable" /\ died' = TRUE /\ UNCHANGED <<thread_, pc>>
  /\ UNCHANGED <<tableVars, caller, left, host, tried, list, res, failed, retry_>>

Stop ==
  /\ ~ died /\ caller = "idle"
  /\ running_' = FALSE
  /\ caller' = IF thread_ = "joinable" THEN "join" ELSE "idle"
  /\ UNCHANGED <<tableVars, workerVars, thread_, retry_, died>>

Join ==
  /\ ~ died /\ caller = "join" /\ pc = "ended"
  /\ caller' = "idle" /\ thread_' = "none" /\ pc' = "none"
  /\ UNCHANGED <<tableVars, running_, left, host, tried, list, res, failed, retry_, died>>

\* index % list.size(): index becomes a size_t.
Slot(index, size) == (index % 2 ^ Width) % size

\* GetHostAddress(host, index) of a host with addresses.
GetHostAddress(h, index) == host_info_[h][Slot(index, Len(host_info_[h])) + 1]
-----------------------------------------------------------------------------
(* The worker.                                                             *)

WorkerStep == ~ died /\ UNCHANGED <<callerVars, retry_>>

\* Mutant of OnWork: running_ is not looked at again.
OnWorkAlways ==
  /\ pc = "OnWork" /\ WorkerStep
  /\ left' = Added /\ pc' = "Hosts"
  /\ UNCHANGED <<tableVars, host, tried, list, res, failed, died>>

\* while(running_), and the copy that GetHosts makes.
OnWork ==
  /\ pc = "OnWork" /\ WorkerStep
  /\ \/ running_ /\ left' = Added /\ pc' = "Hosts"
     \/ ~ running_ /\ pc' = "ended" /\ UNCHANGED left
  /\ UNCHANGED <<tableVars, host, tried, list, res, failed, died>>

NextHost ==
  /\ pc = "Hosts" /\ WorkerStep
  /\ \/ /\ left # {}
        /\ host' \in left /\ left' = left \ {host'}
        /\ tried' = 0 /\ pc' = "Lookup"
     \/ left = {} /\ pc' = "interval" /\ UNCHANGED <<left, host, tried>>
  /\ UNCHANGED <<tableVars, list, res, failed, died>>

\* Mutant of Pushed: the vector is declared outside of the loops.
PushedOn(addresses) == list \o addresses

\* What the new vector holds when GetHostInfo has pushed addresses into it.
Pushed(addresses) == addresses

Found(l) == l # << >>

\* for(i < retry_): GetHostInfo.  An error other than -1 is not noticed and
\* res not written: what is read is a null pointer, the answer before, which
\* was never freed, or garbage.
Lookup ==
  /\ pc = "Lookup" /\ tried < retry_ /\ WorkerStep
  /\ \/ /\ res' \in Answers(host) /\ list' = Pushed(res')
        /\ pc' = IF Found(list') THEN "UpdateHost" ELSE "sleep"
        /\ UNCHANGED <<failed, died>>
     \/ /\ host \in Flaky /\ failed' = failed \cup {host}
        /\ \E seen \in {<< >>, res} : list' = Pushed(seen)
        /\ pc' = IF Found(list') THEN "UpdateHost" ELSE "sleep"
        /\ UNCHANGED <<res, died>>
     \/ /\ host \in Flaky /\ died' = TRUE
        /\ UNCHANGED <<pc, list, res, failed>>
  /\ UNCHANGED <<tableVars, left, host, tried>>

NoMoreTries ==
  /\ pc = "Lookup" /\ tried >= retry_ /\ WorkerStep
  /\ pc' = "Hosts"
  /\ UNCHANGED <<tableVars, left, host, tried, list, res, failed, died>>

\* Mutant of UpdateHost: the break ends the round.
UpdateHostLeaves ==
  /\ pc = "UpdateHost" /\ WorkerStep
  /\ host_info_' = Update(host, list) /\ list' = host_info_[host]
  /\ pc' = "interval"
  /\ UNCHANGED <<left, host, tried, res, failed, died>>

\* UpdateHost swaps the vectors, and the loop is left.
UpdateHost ==
  /\ pc = "UpdateHost" /\ WorkerStep
  /\ host_info_' = Update(host, list) /\ list' = host_info_[host]
  /\ pc' = "Hosts"
  /\ UNCHANGED <<left, host, tried, res, failed, died>>

Sleep ==
  /\ pc = "sleep" /\ WorkerStep
  /\ tried' = tried + 1 /\ pc' = "Lookup"
  /\ UNCHANGED <<tableVars, left, host, list, res, failed, died>>

Interval ==
  /\ pc = "interval" /\ WorkerStep
  /\ pc' = "OnWork"
  /\ UNCHANGED <<tableVars, left, host, tried, list, res, failed, died>>

Worker == OnWork \/ NextHost \/ Lookup \/ NoMoreTries \/ UpdateHost \/ Sleep \/ Interval
-----------------------------------------------------------------------------
DnsNext ==
  \/ \E h \in Hosts : AddHost(h)
  \/ SetDnsServiceParams \/ Start \/ Stop \/ Join
  \/ Worker

\* Both threads are scheduled; when the program does something is its own
\* business.
Fairness == WF_dnsVars(Worker) /\ WF_dnsVars(Join)

DnsSpec == DnsInit /\ [][DnsNext]_dnsVars /\ Fairness
-----------------------------------------------------------------------------
(* Properties.                                                             *)

(***************************************************************************)
(* A host has addresses of its own only (OnWork, GetHostInfo, UpdateHost): *)
(* nothing of another host's answer, or of the vector swapped out, gets    *)
(* into its list.  The exception: a lookup of it failed and res still      *)
(* pointed to the answer for another host.                                 *)
(***************************************************************************)
OwnAddresses ==
  \A h \in Added \ failed :
    /\ \A i \in DOMAIN host_info_[h] : host_info_[h][i] \in Addresses(h)
    /\ \A i, j \in DOMAIN host_info_[h] : i # j => host_info_[h][i] # host_info_[h][j]

(***************************************************************************)
(* Every index finds an address (GetHostAddress), also a negative one, and *)
(* the next index the next address, but from -1 to 0.                      *)
(***************************************************************************)
Indices == -MaxIndex - 1 .. MaxIndex

EachIndexFinds ==
  \A h \in Added : host_info_[h] # << >> =>
    LET size == Len(host_info_[h]) IN
    \A i \in Indices :
      /\ Slot(i, size) \in 0 .. size - 1
      /\ i + 1 \in Indices \ {0} =>
           LET next == (Slot(i, size) + 1) % size IN
           GetHostAddress(h, i + 1) = host_info_[h][next + 1]

(***************************************************************************)
(* What GetHostAddress finds is right, for every host and every index      *)
(* (DnsService.cpp:24-53, 84-140): see the two parts.                      *)
(***************************************************************************)
LookupsAreRight == OwnAddresses /\ EachIndexFinds

(***************************************************************************)
(* Stop returns (Stop, OnWork): the worker notices running_ at the end of  *)
(* its round, whatever the lookups bring and whoever changes retry_.  The  *)
(* exception: the process ends over a failed lookup.                       *)
(***************************************************************************)
StopReturns == caller = "join" ~> caller = "idle" \/ died

(***************************************************************************)
(* A host that was added is resolved (AddHost, OnWork), though the worker  *)
(* goes through a copy of the table, and other hosts fail: when its lookup *)
(* gives IPv4 addresses and the service is running with retry_ above 0.    *)
(***************************************************************************)
AddedIsResolved ==
  \A h \in Hosts \ (V6Only \cup Flaky) :
    h \in Added ~> (h \in Added /\ host_info_[h] # << >>) \/ ~ running_ \/ retry_ <= 0 \/ died
=============================================================================

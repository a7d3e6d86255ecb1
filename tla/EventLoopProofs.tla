-------------------------- MODULE EventLoopProofs --------------------------
(***************************************************************************)
(* Proofs about EventLoop for any number of loops, posting threads and     *)
(* functions, any scripts and any size of the pipe: that functions_ is     *)
(* only touched under its lock_, that no wake-up is lost, that no thread   *)
(* waits for a mutex it holds, and that the loops implement the queues of  *)
(* LoopQueue.                                                              *)
(***************************************************************************)
EXTENDS EventLoop, TLAPS

\* Where the lock_guard of RunInLoop, and that of RunFuctions, is in force.
InGuard == {"WakeUp", "Unlock"}
InRun   == {"Front", "Call", "Lock", "WakeUp", "Unlock", "Pop"}

\* A thread that runs a function, or hands one over, has one.
ArgInv ==
  \A th \in Threads : pc[th] \in InGuard \cup {"Lock", "Call"} => arg[th] \in Tasks

\* A thread inside the guard of RunInLoop for loop m holds lock_[m].
GuardInv ==
  \A th \in Threads : pc[th] \in InGuard => lock_[Target[arg[th]]] = th

\* A loop inside RunFuctions holds its own lock_.
RunInv ==
  \A l \in Loops : pc[l] \in InRun => lock_[l] = l

\* Nobody else holds it.
OwnerInv ==
  \A m \in Loops, th \in Threads :
    lock_[m] = th => \/ pc[th] \in InGuard /\ Target[arg[th]] = m
                     \/ th = m /\ pc[m] \in InRun

\* A loop hands functions over to other loops only.
OtherInv ==
  \A l \in Loops : pc[l] \in InGuard \cup {"Lock"} => Target[arg[l]] # l

LockInv == GuardInv /\ RunInv /\ OwnerInv /\ OtherInv

\* The function that runs is still in the queue.
FrontInv ==
  \A l \in Loops : pc[l] \in InRun \ {"Front"} => functions_[l] # << >>

\* A word in the pipe is announced, unless OnRead is about to read it.
EdgeInv ==
  \A l \in Loops : pipe[l] > 0 /\ pc[l] # "OnRead" => ready[l]

Waker(l) == \E th \in Threads : pc[th] = "WakeUp" /\ Target[arg[th]] = l

\* Functions that came after the last RunFuctions left a word in the pipe.
WordInv ==
  \A l \in Loops :
    pc[l] \in {"Start", "While", "EpollWait", "OnTimer"} /\ functions_[l] # << >>
      => pipe[l] > 0 \/ Waker(l)

IInv == TypeOK /\ ArgInv /\ LockInv /\ FrontInv /\ EdgeInv /\ WordInv
-----------------------------------------------------------------------------
\* The invariant holds before any thread has moved (the EventLoop constructor).
LEMMA InitIInv == Init => IInv
<1> USE ConstantAssumption DEF Init
<1>1. Init => TypeOK
  BY DEF TypeOK, Threads, LoopPC, PosterPC
<1>2. Init => ArgInv
  BY DEF ArgInv, InGuard, Threads
<1>4. Init => LockInv
  <2>1. Init => \A th \in Threads : pc[th] \in {"Start", "Idle"}
    BY DEF Threads
  <2>2. Init => \A m \in Loops, th \in Threads : lock_[m] # th
    BY DEF Threads
  <2> QED
    BY <2>1, <2>2 DEF LockInv, GuardInv, RunInv, OwnerInv, OtherInv, InGuard, InRun, Threads
<1>5. Init => FrontInv
  BY DEF FrontInv, InRun, Threads
<1>3. Init => EdgeInv /\ WordInv
  BY DEF EdgeInv, WordInv
<1> QED
  BY <1>1, <1>2, <1>3, <1>4, <1>5 DEF IInv

\* Every step of RunInLoop, of Quit and of an iteration of Loop() preserves it.
LEMMA NextIInv == IInv /\ [Next]_vars => IInv'
<1> SUFFICES ASSUME IInv, [Next]_vars PROVE IInv'
  OBVIOUS
<1> USE ConstantAssumption DEF IInv, LockInv, Threads, Goto, InGuard, InRun
<1>1. ASSUME NEW th \in Threads, Push(th) PROVE IInv'
  <2>1. TypeOK'
    BY <1>1 DEF Push, TypeOK, ArgInv, FrontInv, LoopPC, PosterPC
  <2>2. ArgInv'
    BY <1>1 DEF Push, TypeOK, ArgInv, LoopPC
  <2>3. GuardInv'
    BY <1>1 DEF Push, TypeOK, ArgInv, GuardInv, RunInv, OtherInv
  <2>4. RunInv'
    BY <1>1 DEF Push, TypeOK, ArgInv, GuardInv, RunInv, OtherInv, PosterPC
  <2>5. OwnerInv'
    BY <1>1 DEF Push, TypeOK, ArgInv, OwnerInv, GuardInv, RunInv, OtherInv, PosterPC
  <2>6. OtherInv'
    BY <1>1 DEF Push, TypeOK, ArgInv, OtherInv, PosterPC
  <2>7. FrontInv'
    BY <1>1 DEF Push, TypeOK, FrontInv, RunInv, GuardInv, OtherInv, PosterPC
  <2>8. EdgeInv'
    BY <1>1 DEF Push, TypeOK, ArgInv, EdgeInv
  <2>9. WordInv'
    BY <1>1 DEF Push, TypeOK, WordInv, ArgInv, Waker
  <2> QED
    BY <2>1, <2>2, <2>3, <2>4, <2>5, <2>6, <2>7, <2>8, <2>9
<1>2. ASSUME NEW th \in Threads, CreatePipe(th) PROVE IInv'
  <2>1. TypeOK'
    BY <1>2 DEF CreatePipe, TypeOK, LoopPC
  <2>2. ArgInv' /\ LockInv' /\ FrontInv'
    BY <1>2 DEF CreatePipe, TypeOK, ArgInv, GuardInv, RunInv, OwnerInv, OtherInv, FrontInv
  <2>3. EdgeInv' /\ WordInv'
    BY <1>2 DEF CreatePipe, TypeOK, EdgeInv, WordInv, Waker
  <2> QED
    BY <2>1, <2>2, <2>3
<1>3. ASSUME NEW th \in Threads, WritePipe(th) PROVE IInv'
  <2>11. Target[arg[th]] \in Loops
    BY <1>3 DEF WritePipe, TypeOK, ArgInv
  <2>12. /\ pipe' \in [Loops -> 0 .. PipeCap]
         /\ ready' \in [Loops -> BOOLEAN]
    <3>1. CASE pipe[Target[arg[th]]] < PipeCap
      <4>1. pipe[Target[arg[th]]] + 1 \in 0 .. PipeCap
        BY <2>11, <3>1 DEF TypeOK
      <4>2. PipeFilled(Target[arg[th]])
        BY <1>3, <3>1 DEF WritePipe
      <4> QED
        BY <2>11, <4>1, <4>2 DEF PipeFilled, TypeOK
    <3>2. CASE pipe[Target[arg[th]]] = PipeCap
      BY <1>3, <3>2 DEF WritePipe, TypeOK
    <3> QED
      BY <1>3, <3>1, <3>2 DEF WritePipe
  <2>1. TypeOK'
    BY <1>3, <2>12 DEF WritePipe, TypeOK, LoopPC, PosterPC
  <2>2. ArgInv'
    BY <1>3 DEF WritePipe, PipeFilled, TypeOK, ArgInv, LoopPC
  <2>3. GuardInv'
    BY <1>3 DEF WritePipe, PipeFilled, TypeOK, ArgInv, GuardInv, RunInv, OtherInv
  <2>4. RunInv'
    BY <1>3 DEF WritePipe, PipeFilled, TypeOK, ArgInv, GuardInv, RunInv, OtherInv, PosterPC
  <2>5. OwnerInv'
    BY <1>3 DEF WritePipe, PipeFilled, TypeOK, ArgInv, OwnerInv, GuardInv, RunInv, OtherInv, PosterPC
  <2>6. OtherInv'
    BY <1>3 DEF WritePipe, PipeFilled, TypeOK, ArgInv, OtherInv, PosterPC
  <2>7. FrontInv'
    BY <1>3 DEF WritePipe, PipeFilled, TypeOK, FrontInv, RunInv, GuardInv, OtherInv, PosterPC
  <2>13. /\ pipe'[Target[arg[th]]] > 0
         /\ \A l \in Loops : l # Target[arg[th]] => pipe'[l] = pipe[l] /\ ready'[l] = ready[l]
         /\ pipe[Target[arg[th]]] = 0 => ready'[Target[arg[th]]]
         /\ ready[Target[arg[th]]] => ready'[Target[arg[th]]]
    <3>1. CASE pipe[Target[arg[th]]] < PipeCap
      BY <1>3, <2>11, <3>1 DEF WritePipe, PipeFilled, TypeOK
    <3>2. CASE pipe[Target[arg[th]]] = PipeCap
      BY <1>3, <2>11, <3>2 DEF WritePipe, TypeOK
    <3> QED
      BY <1>3, <3>1, <3>2 DEF WritePipe
  <2>8. EdgeInv'
    <3> SUFFICES ASSUME NEW l \in Loops, pipe'[l] > 0, pc'[l] # "OnRead"
                 PROVE  ready'[l]
      BY DEF EdgeInv
    <3>1. pc[l] # "OnRead"
      BY <1>3 DEF WritePipe, TypeOK
    <3>2. CASE l # Target[arg[th]]
      BY <2>13, <3>1, <3>2 DEF EdgeInv
    <3>3. CASE l = Target[arg[th]] /\ pipe[l] = 0
      BY <2>13, <3>3
    <3>4. CASE l = Target[arg[th]] /\ pipe[l] > 0
      BY <2>13, <3>1, <3>4 DEF EdgeInv
    <3> QED
      BY <3>2, <3>3, <3>4 DEF TypeOK
  <2>9. WordInv'
    BY ZenonT(40), <1>3, <2>11, <2>13 DEF WritePipe, WordInv, Waker, TypeOK
  <2> QED
    BY <2>1, <2>2, <2>3, <2>4, <2>5, <2>6, <2>7, <2>8, <2>9
<1>4. ASSUME NEW th \in Threads, Unlock(th) PROVE IInv'
  <2>1. TypeOK'
    BY <1>4 DEF Unlock, TypeOK, ArgInv, FrontInv, LoopPC, PosterPC
  <2>2. ArgInv'
    BY <1>4 DEF Unlock, TypeOK, ArgInv, LoopPC
  <2>3. GuardInv'
    BY <1>4 DEF Unlock, TypeOK, ArgInv, GuardInv, RunInv, OtherInv
  <2>4. RunInv'
    BY <1>4 DEF Unlock, TypeOK, ArgInv, GuardInv, RunInv, OtherInv, PosterPC
  <2>5. OwnerInv'
    BY <1>4 DEF Unlock, TypeOK, ArgInv, OwnerInv, GuardInv, RunInv, OtherInv, PosterPC
  <2>6. OtherInv'
    BY <1>4 DEF Unlock, TypeOK, ArgInv, OtherInv, PosterPC
  <2>7. FrontInv'
    BY <1>4 DEF Unlock, TypeOK, FrontInv, RunInv, GuardInv, OtherInv, PosterPC
  <2>8. EdgeInv'
    BY <1>4 DEF Unlock, TypeOK, ArgInv, EdgeInv
  <2>9. WordInv'
    BY <1>4 DEF Unlock, TypeOK, WordInv, ArgInv, Waker
  <2> QED
    BY <2>1, <2>2, <2>3, <2>4, <2>5, <2>6, <2>7, <2>8, <2>9
<1>5. ASSUME NEW p \in Posters, Post(p) PROVE IInv'
  <2>1. TypeOK'
    BY <1>5 DEF Post, TypeOK, ArgInv, FrontInv, LoopPC, PosterPC
  <2>2. ArgInv'
    BY <1>5 DEF Post, TypeOK, ArgInv, LoopPC
  <2>3. GuardInv'
    BY <1>5 DEF Post, TypeOK, ArgInv, GuardInv, RunInv, OtherInv
  <2>4. RunInv'
    BY <1>5 DEF Post, TypeOK, ArgInv, GuardInv, RunInv, OtherInv, PosterPC
  <2>5. OwnerInv'
    BY <1>5 DEF Post, TypeOK, ArgInv, OwnerInv, GuardInv, RunInv, OtherInv, PosterPC
  <2>6. OtherInv'
    BY <1>5 DEF Post, TypeOK, ArgInv, OtherInv, PosterPC
  <2>7. FrontInv'
    <3>1. \A l \in Loops : pc'[l] = pc[l] /\ functions_'[l] = functions_[l]
      BY <1>5 DEF Post, TypeOK
    <3> QED
      BY <3>1 DEF FrontInv
  <2>8. EdgeInv'
    BY <1>5 DEF Post, TypeOK, ArgInv, EdgeInv
  <2>9. WordInv'
    BY <1>5 DEF Post, TypeOK, WordInv, ArgInv, Waker
  <2> QED
    BY <2>1, <2>2, <2>3, <2>4, <2>5, <2>6, <2>7, <2>8, <2>9
<1>6. ASSUME NEW l \in Loops, Quit(l) PROVE IInv'
  <2>1. TypeOK'
    BY <1>6 DEF Quit, TypeOK, LoopPC
  <2>2. ArgInv' /\ LockInv' /\ FrontInv'
    BY <1>6 DEF Quit, TypeOK, ArgInv, GuardInv, RunInv, OwnerInv, OtherInv, FrontInv
  <2>3. EdgeInv' /\ WordInv'
    BY <1>6 DEF Quit, TypeOK, EdgeInv, WordInv, Waker
  <2> QED
    BY <2>1, <2>2, <2>3
<1>7. ASSUME NEW l \in Loops, StartLoop(l) PROVE IInv'
  <2>1. TypeOK'
    BY <1>7 DEF StartLoop, TypeOK, LoopPC
  <2>2. ArgInv' /\ LockInv' /\ FrontInv'
    BY <1>7 DEF StartLoop, TypeOK, ArgInv, GuardInv, RunInv, OwnerInv, OtherInv, FrontInv
  <2>3. EdgeInv' /\ WordInv'
    BY <1>7 DEF StartLoop, TypeOK, EdgeInv, WordInv, Waker
  <2> QED
    BY <2>1, <2>2, <2>3
<1>8. ASSUME NEW l \in Loops, TestLooping(l) PROVE IInv'
  <2>1. TypeOK'
    BY <1>8 DEF TestLooping, TypeOK, LoopPC
  <2>2. ArgInv' /\ LockInv' /\ FrontInv'
    BY <1>8 DEF TestLooping, TypeOK, ArgInv, GuardInv, RunInv, OwnerInv, OtherInv, FrontInv
  <2>3. EdgeInv' /\ WordInv'
    BY <1>8 DEF TestLooping, TypeOK, EdgeInv, WordInv, Waker
  <2> QED
    BY <2>1, <2>2, <2>3
<1>9. ASSUME NEW l \in Loops, EpollReturns(l) PROVE IInv'
  <2>1. TypeOK'
    BY <1>9 DEF EpollReturns, TypeOK, LoopPC
  <2>2. ArgInv' /\ LockInv' /\ FrontInv'
    BY <1>9 DEF EpollReturns, TypeOK, ArgInv, GuardInv, RunInv, OwnerInv, OtherInv, FrontInv
  <2>3. EdgeInv' /\ WordInv'
    BY <1>9 DEF EpollReturns, TypeOK, EdgeInv, WordInv, Waker
  <2> QED
    BY <2>1, <2>2, <2>3
<1>10. ASSUME NEW l \in Loops, EpollTimesOut(l) PROVE IInv'
  <2>1. TypeOK'
    BY <1>10 DEF EpollTimesOut, TypeOK, LoopPC
  <2>2. ArgInv' /\ LockInv' /\ FrontInv'
    BY <1>10 DEF EpollTimesOut, TypeOK, ArgInv, GuardInv, RunInv, OwnerInv, OtherInv, FrontInv
  <2>3. EdgeInv' /\ WordInv'
    BY <1>10 DEF EpollTimesOut, TypeOK, EdgeInv, WordInv, Waker
  <2> QED
    BY <2>1, <2>2, <2>3
<1>11. ASSUME NEW l \in Loops, EpollFails(l) PROVE IInv'
  <2>1. TypeOK'
    BY <1>11 DEF EpollFails, TypeOK, LoopPC
  <2>2. ArgInv' /\ LockInv' /\ FrontInv'
    BY <1>11 DEF EpollFails, TypeOK, ArgInv, GuardInv, RunInv, OwnerInv, OtherInv, FrontInv
  <2>3. EdgeInv' /\ WordInv'
    BY <1>11 DEF EpollFails, TypeOK, EdgeInv, WordInv, Waker
  <2> QED
    BY <2>1, <2>2, <2>3
<1>12. ASSUME NEW l \in Loops, OnRead(l) PROVE IInv'
  <2>1. /\ pc[l] = "OnRead"
        /\ pc' \in [Threads -> LoopPC \cup PosterPC]
        /\ pc'[l] \in {"OnRead", "RunFuctions"}
        /\ \A th \in Threads \ {l} : pc'[th] = pc[th]
        /\ pipe' \in [Loops -> 0 .. PipeCap]
        /\ \A m \in Loops \ {l} : pipe'[m] = pipe[m]
        /\ pc'[l] = "RunFuctions" => pipe'[l] = 0
    <3>1. CASE pipe[l] > 0
      <4>1. pipe[l] - 1 \in 0 .. PipeCap
        BY <3>1 DEF TypeOK
      <4>2. pc[l] = "OnRead" /\ pc' = pc /\ pipe' = [pipe EXCEPT ![l] = @ - 1]
        BY <1>12, <3>1 DEF OnRead
      <4>3. pipe' \in [Loops -> 0 .. PipeCap] /\ \A m \in Loops \ {l} : pipe'[m] = pipe[m]
        BY <4>1, <4>2 DEF TypeOK
      <4> QED
        BY <4>2, <4>3 DEF TypeOK
    <3>2. CASE pipe[l] = 0
      <4>1. /\ pc[l] = "OnRead" /\ pc' = [pc EXCEPT ![l] = "RunFuctions"]
            /\ pipe' = pipe
        BY <1>12, <3>2 DEF OnRead
      <4> QED
        BY <3>2, <4>1 DEF TypeOK, LoopPC
    <3> QED
      BY <3>1, <3>2 DEF TypeOK
  <2>2. UNCHANGED <<looping_, functions_, lock_, pipe_event_, ready, arg, script, ran>>
    BY <1>12 DEF OnRead
  <2>3. TypeOK'
    BY <2>1, <2>2 DEF TypeOK, LoopPC, PosterPC
  <2>4. ArgInv'
    BY <2>1, <2>2 DEF TypeOK, ArgInv
  <2>5. LockInv'
    BY <2>1, <2>2 DEF TypeOK, GuardInv, RunInv, OwnerInv, OtherInv
  <2>6. FrontInv'
    BY <2>1, <2>2 DEF TypeOK, FrontInv
  <2>7. EdgeInv'
    <3> SUFFICES ASSUME NEW m \in Loops, pipe'[m] > 0, pc'[m] # "OnRead"
                 PROVE  ready[m]
      BY <2>2 DEF EdgeInv
    <3>1. m # l
      BY <2>1 DEF TypeOK
    <3> QED
      BY <2>1, <3>1 DEF EdgeInv, TypeOK
  <2>8. WordInv'
    <3> SUFFICES ASSUME NEW m \in Loops, functions_[m] # << >>,
                        pc'[m] \in {"Start", "While", "EpollWait", "OnTimer"}
                 PROVE  pipe'[m] > 0 \/ Waker(m)'
      BY <2>2 DEF WordInv
    <3>1. m # l /\ pc'[m] = pc[m] /\ pipe'[m] = pipe[m]
      BY <2>1 DEF TypeOK
    <3>2. Waker(m) => Waker(m)'
      BY <2>1, <2>2 DEF Waker, TypeOK
    <3> QED
      BY <3>1, <3>2 DEF WordInv
  <2> QED
    BY <2>3, <2>4, <2>5, <2>6, <2>7, <2>8
<1>13. ASSUME NEW l \in Loops, LockFunctions(l) PROVE IInv'
  <2>1. TypeOK'
    BY <1>13 DEF LockFunctions, TypeOK, ArgInv, FrontInv, LoopPC, PosterPC
  <2>2. ArgInv'
    BY <1>13 DEF LockFunctions, TypeOK, ArgInv, LoopPC
  <2>3. GuardInv'
    BY <1>13 DEF LockFunctions, TypeOK, ArgInv, GuardInv, RunInv, OtherInv
  <2>4. RunInv'
    BY <1>13 DEF LockFunctions, TypeOK, ArgInv, GuardInv, RunInv, OtherInv, PosterPC
  <2>5. OwnerInv'
    BY <1>13 DEF LockFunctions, TypeOK, ArgInv, OwnerInv, GuardInv, RunInv, OtherInv, PosterPC
  <2>6. OtherInv'
    BY <1>13 DEF LockFunctions, TypeOK, ArgInv, OtherInv, PosterPC
  <2>7. FrontInv'
    BY <1>13 DEF LockFunctions, TypeOK, FrontInv, RunInv, GuardInv, OtherInv, PosterPC
  <2>8. EdgeInv'
    BY <1>13 DEF LockFunctions, TypeOK, ArgInv, EdgeInv
  <2>9. WordInv'
    BY <1>13 DEF LockFunctions, TypeOK, WordInv, ArgInv, Waker
  <2> QED
    BY <2>1, <2>2, <2>3, <2>4, <2>5, <2>6, <2>7, <2>8, <2>9
<1>14. ASSUME NEW l \in Loops, Front(l) PROVE IInv'
  <2>1. TypeOK'
    BY <1>14 DEF Front, TypeOK, ArgInv, FrontInv, LoopPC, PosterPC
  <2>2. ArgInv'
    BY <1>14 DEF Front, TypeOK, ArgInv, LoopPC
  <2>3. GuardInv'
    BY <1>14 DEF Front, TypeOK, ArgInv, GuardInv, RunInv, OtherInv
  <2>4. RunInv'
    BY <1>14 DEF Front, TypeOK, ArgInv, GuardInv, RunInv, OtherInv, PosterPC
  <2>5. OwnerInv'
    BY <1>14 DEF Front, TypeOK, ArgInv, OwnerInv, GuardInv, RunInv, OtherInv, PosterPC
  <2>6. OtherInv'
    BY <1>14 DEF Front, TypeOK, ArgInv, OtherInv, PosterPC
  <2>7. FrontInv'
    BY <1>14 DEF Front, TypeOK, FrontInv, RunInv, GuardInv, OtherInv, PosterPC
  <2>8. EdgeInv'
    BY <1>14 DEF Front, TypeOK, ArgInv, EdgeInv
  <2>9. WordInv'
    BY <1>14 DEF Front, TypeOK, WordInv, ArgInv, Waker
  <2> QED
    BY <2>1, <2>2, <2>3, <2>4, <2>5, <2>6, <2>7, <2>8, <2>9
<1>15. ASSUME NEW l \in Loops, Call(l) PROVE IInv'
  <2>1. /\ pc[l] = "Call" /\ pc'[l] \in {"Call", "Lock", "Pop"}
        /\ pc' \in [Threads -> LoopPC \cup PosterPC]
        /\ arg' \in [Threads -> Tasks \cup {NoTask}]
        /\ \A th \in Threads \ {l} : pc'[th] = pc[th] /\ arg'[th] = arg[th]
        /\ pc'[l] # "Pop" => arg'[l] \in Tasks
        /\ pc'[l] = "Lock" => Target[arg'[l]] # l
    <3>1. l \in Threads /\ pc[l] = "Call" /\ arg[l] \in Tasks
      BY <1>15 DEF Call, ArgInv
    <3>2. /\ pc \in [Threads -> LoopPC \cup PosterPC]
          /\ arg \in [Threads -> Tasks \cup {NoTask}]
      BY DEF TypeOK
    <3>3. Then[arg[l]] \in Tasks \cup {NoTask}
      BY <3>1
    <3>4. {"Call", "Lock", "Pop"} \subseteq LoopPC
      BY DEF LoopPC
    <3>5. CASE Then[arg[l]] = NoTask
      <4>1. pc' = [pc EXCEPT ![l] = "Pop"] /\ arg' = arg
        BY <1>15, <3>5 DEF Call
      <4> QED
        BY <3>1, <3>2, <3>4, <4>1
    <3>6. CASE Then[arg[l]] # NoTask
      <4>1. PICK u \in Tasks : u = Then[arg[l]]
        BY <3>3, <3>6
      <4>2. arg' = [arg EXCEPT ![l] = u]
        BY <1>15, <3>6, <4>1 DEF Call
      <4>3. pc' = [pc EXCEPT ![l] = IF Target[u] = l THEN "Call" ELSE "Lock"]
        BY <1>15, <3>6, <4>1 DEF Call, IsInLoopThread
      <4> QED
        BY <3>1, <3>2, <3>4, <4>2, <4>3
    <3> QED
      BY <3>5, <3>6
  <2>2. UNCHANGED <<looping_, functions_, lock_, pipe_event_, pipe, ready, script, ran>>
    BY <1>15 DEF Call
  <2>3. TypeOK'
    BY <2>1, <2>2 DEF TypeOK, LoopPC, PosterPC
  <2>4. ArgInv'
    BY <2>1, <2>2 DEF ArgInv
  <2>5. LockInv'
    BY <2>1, <2>2 DEF TypeOK, GuardInv, RunInv, OwnerInv, OtherInv
  <2>6. FrontInv' /\ EdgeInv'
    BY <2>1, <2>2 DEF FrontInv, EdgeInv
  <2>7. WordInv'
    <3> SUFFICES ASSUME NEW m \in Loops, functions_[m] # << >>,
                        pc'[m] \in {"Start", "While", "EpollWait", "OnTimer"}
                 PROVE  pipe[m] > 0 \/ Waker(m)'
      BY <2>2 DEF WordInv
    <3>1. pc'[m] = pc[m]
      BY <2>1
    <3>2. Waker(m) => Waker(m)'
      BY <2>1 DEF Waker
    <3> QED
      BY <3>1, <3>2 DEF WordInv
  <2> QED
    BY <2>3, <2>4, <2>5, <2>6, <2>7
<1>16. ASSUME NEW l \in Loops, Pop(l) PROVE IInv'
  <2>1. TypeOK'
    BY <1>16 DEF Pop, TypeOK, ArgInv, FrontInv, LoopPC, PosterPC
  <2>2. ArgInv'
    BY <1>16 DEF Pop, TypeOK, ArgInv, LoopPC
  <2>3. GuardInv'
    BY <1>16 DEF Pop, TypeOK, ArgInv, GuardInv, RunInv, OtherInv
  <2>4. RunInv'
    BY <1>16 DEF Pop, TypeOK, ArgInv, GuardInv, RunInv, OtherInv, PosterPC
  <2>5. OwnerInv'
    BY <1>16 DEF Pop, TypeOK, ArgInv, OwnerInv, GuardInv, RunInv, OtherInv, PosterPC
  <2>6. OtherInv'
    BY <1>16 DEF Pop, TypeOK, ArgInv, OtherInv, PosterPC
  <2>7. FrontInv'
    BY <1>16 DEF Pop, TypeOK, FrontInv, RunInv, GuardInv, OtherInv, PosterPC
  <2>8. EdgeInv'
    BY <1>16 DEF Pop, TypeOK, ArgInv, EdgeInv
  <2>9. WordInv'
    BY <1>16 DEF Pop, TypeOK, WordInv, ArgInv, Waker
  <2> QED
    BY <2>1, <2>2, <2>3, <2>4, <2>5, <2>6, <2>7, <2>8, <2>9
<1>17. ASSUME NEW l \in Loops, UnlockFunctions(l) PROVE IInv'
  <2>1. TypeOK'
    BY <1>17 DEF UnlockFunctions, TypeOK, ArgInv, FrontInv, LoopPC, PosterPC
  <2>2. ArgInv'
    BY <1>17 DEF UnlockFunctions, TypeOK, ArgInv, LoopPC
  <2>3. GuardInv'
    BY <1>17 DEF UnlockFunctions, TypeOK, ArgInv, GuardInv, RunInv, OtherInv
  <2>4. RunInv'
    BY <1>17 DEF UnlockFunctions, TypeOK, ArgInv, GuardInv, RunInv, OtherInv, PosterPC
  <2>5. OwnerInv'
    BY <1>17 DEF UnlockFunctions, TypeOK, ArgInv, OwnerInv, GuardInv, RunInv, OtherInv, PosterPC
  <2>6. OtherInv'
    BY <1>17 DEF UnlockFunctions, TypeOK, ArgInv, OtherInv, PosterPC
  <2>7. FrontInv'
    BY <1>17 DEF UnlockFunctions, TypeOK, FrontInv, RunInv, GuardInv, OtherInv, PosterPC
  <2>8. EdgeInv'
    BY <1>17 DEF UnlockFunctions, TypeOK, ArgInv, EdgeInv
  <2>9. WordInv'
    BY <1>17 DEF UnlockFunctions, TypeOK, WordInv, ArgInv, Waker
  <2> QED
    BY <2>1, <2>2, <2>3, <2>4, <2>5, <2>6, <2>7, <2>8, <2>9
<1>18. ASSUME NEW l \in Loops, OnTimer(l) PROVE IInv'
  <2>1. TypeOK'
    BY <1>18 DEF OnTimer, TypeOK, LoopPC
  <2>2. ArgInv' /\ LockInv' /\ FrontInv'
    BY <1>18 DEF OnTimer, TypeOK, ArgInv, GuardInv, RunInv, OwnerInv, OtherInv, FrontInv
  <2>3. EdgeInv' /\ WordInv'
    BY <1>18 DEF OnTimer, TypeOK, EdgeInv, WordInv, Waker
  <2> QED
    BY <2>1, <2>2, <2>3
<1>19. CASE UNCHANGED vars
  BY <1>19 DEF vars, TypeOK, ArgInv, GuardInv, RunInv, OwnerInv, OtherInv, FrontInv, EdgeInv, WordInv, Waker
<1> QED
  BY <1>1, <1>2, <1>3, <1>4, <1>5, <1>6, <1>7, <1>8, <1>9, <1>10, <1>11, <1>12, <1>13, <1>14, <1>15, <1>16, <1>17, <1>18, <1>19 DEF Next, Handover, Iteration

\* The locking and wake-up discipline of EventLoop.cpp is never left.
THEOREM Inductive == SafeSpec => []IInv
<1> QED
  BY InitIInv, NextIInv, PTL DEF SafeSpec

(***************************************************************************)
(* lock_ does its work: functions_ and the pipe of a loop are never in the *)
(* hands of two threads, and the function RunFuctions has called is still  *)
(* in the queue when it is popped.                                         *)
(***************************************************************************)
THEOREM QueueIsGuardedTheorem == SafeSpec => []QueueIsGuarded
<1>1. IInv => QueueIsGuarded
  <2> SUFFICES ASSUME IInv, NEW l \in Loops
               PROVE  /\ \A th1, th2 \in Threads : Handing(th1, l) /\ Handing(th2, l) => th1 = th2
                      /\ Running(l) => \A th \in Threads : ~ Handing(th, l)
                      /\ Running(l) /\ pc[l] # "Front" => functions_[l] # << >>
    BY DEF QueueIsGuarded
  <2>1. \A th \in Threads : Handing(th, l) => lock_[l] = th
    BY DEF IInv, LockInv, GuardInv, InGuard, Handing
  <2>2. Running(l) => lock_[l] = l
    BY DEF IInv, LockInv, RunInv, InRun, Running
  <2>3. ~ Handing(l, l)
    BY DEF IInv, LockInv, OtherInv, InGuard, Handing
  <2>4. Running(l) /\ pc[l] # "Front" => functions_[l] # << >>
    BY DEF IInv, FrontInv, InRun, Running
  <2> QED
    BY <2>1, <2>2, <2>3, <2>4
<1> QED
  BY <1>1, Inductive, PTL

(***************************************************************************)
(* RunInLoop never loses a wake-up: a function that waits while its loop   *)
(* goes to sleep in epoll_wait has a pending edge on the pipe, or a thread *)
(* that is about to write to it.                                           *)
(***************************************************************************)
THEOREM WakeupTheorem == SafeSpec => []NoLostWakeup
<1>1. IInv => NoLostWakeup
  <2> SUFFICES ASSUME IInv, NEW l \in Loops,
                      pc[l] \in {"While", "EpollWait"}, functions_[l] # << >>
               PROVE  (pipe[l] > 0 /\ ready[l]) \/ Waker(l)
    BY DEF NoLostWakeup, Waker
  <2>1. pipe[l] > 0 => ready[l]
    BY DEF IInv, EdgeInv
  <2> QED
    BY <2>1 DEF IInv, WordInv
<1> QED
  BY <1>1, Inductive, PTL

(***************************************************************************)
(* No thread asks for a lock_ it holds, although RunFuctions holds lock_   *)
(* while it calls functions that call RunInLoop.                           *)
(***************************************************************************)
THEOREM SelfDeadlockTheorem == SafeSpec => []NoSelfDeadlock
<1>1. IInv => NoSelfDeadlock
  <2> SUFFICES ASSUME IInv, NEW th \in Threads
               PROVE  /\ pc[th] = "Lock" => lock_[Target[arg[th]]] # th
                      /\ pc[th] = "RunFuctions" => lock_[th] # th
    BY DEF NoSelfDeadlock
  <2>1. ASSUME pc[th] = "Lock" PROVE lock_[Target[arg[th]]] # th
    <3>1. Target[arg[th]] \in Loops
      BY <2>1, ConstantAssumption DEF IInv, ArgInv
    <3>2. Target[arg[th]] # th
      BY <2>1, <3>1 DEF IInv, LockInv, OtherInv, Threads
    <3> QED
      BY <2>1, <3>1, <3>2 DEF IInv, LockInv, OwnerInv, InGuard
  <2>2. ASSUME pc[th] = "RunFuctions" PROVE lock_[th] # th
    <3>1. th \in Loops
      BY <2>2 DEF IInv, TypeOK, PosterPC, Threads
    <3> QED
      BY <2>2, <3>1 DEF IInv, LockInv, OwnerInv, InGuard, InRun
  <2> QED
    BY <2>1, <2>2
<1> QED
  BY <1>1, Inductive, PTL

(***************************************************************************)
(* The loops implement the abstract queues: a push is Hand, a pop is Run,  *)
(* and every other step leaves queue and history alone.                    *)
(***************************************************************************)
THEOREM Refinement == SafeSpec => Queue!SafeSpec
<1>1. Init => Queue!Init
  BY DEF Init, Queue!Init
<1>2. IInv /\ [Next]_vars => [Queue!Next]_(Queue!vars)
  <2> SUFFICES ASSUME IInv, [Next]_vars PROVE [Queue!Next]_(Queue!vars)
    OBVIOUS
  <2>1. ASSUME NEW th \in Threads, Push(th) PROVE \E t \in Tasks : Queue!Hand(t)
    <3>1. arg[th] \in Tasks
      BY <2>1 DEF Push, IInv, ArgInv
    <3>2. Queue!Hand(arg[th])
      BY <2>1 DEF Push, Queue!Hand
    <3> QED
      BY <3>1, <3>2
  <2>2. ASSUME NEW l \in Loops, Pop(l) PROVE Queue!Run(l)
    <3>1. functions_[l] # << >>
      BY <2>2 DEF Pop, IInv, FrontInv, InRun
    <3> QED
      BY <2>2, <3>1 DEF Pop, Queue!Run
  <2>3. ASSUME NEW th \in Threads, CreatePipe(th) \/ WritePipe(th) \/ Unlock(th)
        PROVE  UNCHANGED <<functions_, ran>>
    BY <2>3 DEF CreatePipe, WritePipe, Unlock
  <2>4. ASSUME NEW p \in Posters, Post(p) PROVE UNCHANGED <<functions_, ran>>
    BY <2>4 DEF Post
  <2>5. ASSUME NEW l \in Loops, Iteration(l) \/ EpollFails(l) \/ Quit(l), ~ Pop(l)
        PROVE  UNCHANGED <<functions_, ran>>
    BY <2>5 DEF Iteration, StartLoop, TestLooping, EpollReturns, EpollTimesOut, EpollFails,
                OnRead, LockFunctions, Front, Call, UnlockFunctions, OnTimer, Quit
  <2>6. CASE UNCHANGED vars
    BY <2>6 DEF vars, Queue!vars
  <2> QED
    BY <2>1, <2>2, <2>3, <2>4, <2>5, <2>6 DEF Next, Handover, Queue!Next, Queue!vars
<1> QED
  BY <1>1, <1>2, Inductive, PTL DEF SafeSpec, Queue!SafeSpec
=============================================================================

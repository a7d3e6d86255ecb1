----------------------------- MODULE EventLoop -----------------------------
(***************************************************************************)
(* The event loops of src/network/net/EventLoop.cpp seen by the threads    *)
(* that share them: functions handed over with RunInLoop, the mutex lock_, *)
(* the wake-up pipe (PipeEvent.cpp) and its edge-triggered registration,   *)
(* the iterations of Loop(), and Quit().                                   *)
(*                                                                         *)
(* A loop and the thread that runs its Loop() have the same name.  A       *)
(* function (Func) is a member of Tasks; the only thing a function does    *)
(* that matters here is to call RunInLoop itself, on any loop: Then[t] is  *)
(* the function t passes on, NoTask when it passes none.  Socket events    *)
(* and timers are the subject of other modules: OnTimer is one step here.  *)
(***************************************************************************)
EXTENDS Naturals, Sequences

CONSTANTS
  Loops,      \* the EventLoop objects, and the threads that run them
  Posters,    \* the other threads that hold an EventLoop pointer
  Tasks,      \* the functions passed to RunInLoop
  Target,     \* Target[t]: the loop RunInLoop(t) is called on
  Then,       \* Then[t]: the function t passes to RunInLoop when it runs
  Script,     \* Script[p]: the functions poster p hands over, in order
  Quitters,   \* the loops some thread stops with Quit()
  PipeCap,    \* how many 8-byte words the wake-up pipe holds
  NoTask, NoThread

Threads == Loops \cup Posters

ASSUME ConstantAssumption ==
  /\ Loops \cap Posters = {}
  /\ NoThread \notin Threads
  /\ NoTask \notin Tasks
  /\ Target \in [Tasks -> Loops]
  /\ Then \in [Tasks -> Tasks \cup {NoTask}]
  /\ Script \in [Posters -> Seq(Tasks)]
  /\ Quitters \subseteq Loops
  /\ PipeCap \in Nat \ {0}

VARIABLES
  looping_,     \* looping_[l]: the flag Loop() tests
  functions_,   \* functions_[l]: the queue of functions
  lock_,        \* lock_[l]: the thread that holds the mutex, or NoThread
  pipe_event_,  \* pipe_event_[l]: the pipe exists and is in events_ and epoll
  pipe,         \* pipe[l]: the number of words in the pipe
  ready,        \* ready[l]: the pipe is on the ready list of epoll (an edge)
  pc,           \* pc[th]: where thread th is
  arg,          \* arg[th]: the function th runs (loops) or hands over
  script,       \* script[p]: what poster p has still to hand over
  ran           \* ran[l]: the queued functions loop l has run (history)

vars == <<looping_, functions_, lock_, pipe_event_, pipe, ready, pc, arg,
          script, ran>>

LoopPC   == {"Start", "While", "EpollWait", "OnRead", "RunFuctions", "Front",
             "Call", "Lock", "WakeUp", "Unlock", "Pop", "OnTimer", "Returned"}
PosterPC == {"Idle", "Lock", "WakeUp", "Unlock"}

TypeOK ==
  /\ looping_    \in [Loops -> BOOLEAN]
  /\ functions_  \in [Loops -> Seq(Tasks)]
  /\ lock_       \in [Loops -> Threads \cup {NoThread}]
  /\ pipe_event_ \in [Loops -> BOOLEAN]
  /\ pipe        \in [Loops -> 0 .. PipeCap]
  /\ ready       \in [Loops -> BOOLEAN]
  /\ pc          \in [Threads -> LoopPC \cup PosterPC]
  /\ \A l \in Loops : pc[l] \in LoopPC
  /\ \A p \in Posters : pc[p] \in PosterPC
  /\ arg         \in [Threads -> Tasks \cup {NoTask}]
  /\ script      \in [Posters -> Seq(Tasks)]
  /\ ran         \in [Loops -> Seq(Tasks)]

Init ==
  /\ looping_    = [l \in Loops |-> FALSE]
  /\ functions_  = [l \in Loops |-> << >>]
  /\ lock_       = [l \in Loops |-> NoThread]
  /\ pipe_event_ = [l \in Loops |-> FALSE]
  /\ pipe        = [l \in Loops |-> 0]
  /\ ready       = [l \in Loops |-> FALSE]
  /\ pc          = [th \in Threads |-> IF th \in Loops THEN "Start" ELSE "Idle"]
  /\ arg         = [th \in Threads |-> NoTask]
  /\ script      = Script
  /\ ran         = [l \in Loops |-> << >>]

Goto(th, label) == pc' = [pc EXCEPT ![th] = label]
-----------------------------------------------------------------------------
(* RunInLoop called by a thread that is not the loop's own.                *)

\* A poster calls RunInLoop with the next function of its script.
Post(p) ==
  /\ pc[p] = "Idle" /\ script[p] # << >>
  /\ arg'    = [arg EXCEPT ![p] = Head(script[p])]
  /\ script' = [script EXCEPT ![p] = Tail(@)]
  /\ Goto(p, "Lock")
  /\ UNCHANGED <<looping_, functions_, lock_, pipe_event_, pipe, ready, ran>>

\* Mutant of Push: a loop that is not looping yet accepts nothing.
PushIfLooping(th) ==
  LET m == Target[arg[th]] IN
  /\ pc[th] = "Lock" /\ lock_[m] = NoThread
  /\ IF looping_[m]
     THEN /\ lock_'      = [lock_ EXCEPT ![m] = th]
          /\ functions_' = [functions_ EXCEPT ![m] = Append(@, arg[th])]
          /\ Goto(th, "WakeUp")
     ELSE /\ Goto(th, IF th \in Loops THEN "Pop" ELSE "Idle")
          /\ UNCHANGED <<lock_, functions_>>
  /\ UNCHANGED <<looping_, pipe_event_, pipe, ready, arg, script, ran>>

\* lock_guard and functions_.push.
Push(th) ==
  LET m == Target[arg[th]] IN
  /\ pc[th] = "Lock" /\ lock_[m] = NoThread
  /\ lock_'      = [lock_ EXCEPT ![m] = th]
  /\ functions_' = [functions_ EXCEPT ![m] = Append(@, arg[th])]
  /\ Goto(th, "WakeUp")
  /\ UNCHANGED <<looping_, pipe_event_, pipe, ready, arg, script, ran>>

\* Mutant of CreatePipe: the first call of WakeUp creates the pipe and returns.
CreatePipeOnly(th) ==
  LET m == Target[arg[th]] IN
  /\ pc[th] = "WakeUp" /\ ~ pipe_event_[m]
  /\ pipe_event_' = [pipe_event_ EXCEPT ![m] = TRUE]
  /\ Goto(th, "Unlock")
  /\ UNCHANGED <<looping_, functions_, lock_, pipe, ready, arg, script, ran>>

\* WakeUp, first call: the pipe is created and passed to AddEvent.
CreatePipe(th) ==
  LET m == Target[arg[th]] IN
  /\ pc[th] = "WakeUp" /\ ~ pipe_event_[m]
  /\ pipe_event_' = [pipe_event_ EXCEPT ![m] = TRUE]
  /\ UNCHANGED <<looping_, functions_, lock_, pipe, ready, pc, arg, script, ran>>

\* A word arrives in the pipe of loop m: an empty pipe becoming readable is
\* an edge; a further word may or may not be reported as another one.
PipeFilled(m) ==
  /\ pipe' = [pipe EXCEPT ![m] = @ + 1]
  /\ \/ ready' = [ready EXCEPT ![m] = TRUE]
     \/ pipe[m] > 0 /\ UNCHANGED ready

\* PipeEvent::Write: a full pipe (EAGAIN) is ignored.
WritePipe(th) ==
  LET m == Target[arg[th]] IN
  /\ pc[th] = "WakeUp" /\ pipe_event_[m]
  /\ \/ pipe[m] < PipeCap /\ PipeFilled(m)
     \/ pipe[m] = PipeCap /\ UNCHANGED <<pipe, ready>>
  /\ Goto(th, "Unlock")
  /\ UNCHANGED <<looping_, functions_, lock_, pipe_event_, arg, script, ran>>

\* The lock_guard of RunInLoop ends; a loop thread was inside a function of
\* its own RunFuctions and goes on there.
Unlock(th) ==
  /\ pc[th] = "Unlock"
  /\ lock_' = [lock_ EXCEPT ![Target[arg[th]]] = NoThread]
  /\ Goto(th, IF th \in Loops THEN "Pop" ELSE "Idle")
  /\ UNCHANGED <<looping_, functions_, pipe_event_, pipe, ready, arg, script, ran>>

\* Quit, called by any thread.
Quit(l) ==
  /\ l \in Quitters /\ looping_[l]
  /\ looping_' = [looping_ EXCEPT ![l] = FALSE]
  /\ UNCHANGED <<functions_, lock_, pipe_event_, pipe, ready, pc, arg, script, ran>>
-----------------------------------------------------------------------------
(* One iteration of Loop().                                                *)

StartLoop(l) ==
  /\ pc[l] = "Start"
  /\ looping_' = [looping_ EXCEPT ![l] = TRUE]
  /\ Goto(l, "While")
  /\ UNCHANGED <<functions_, lock_, pipe_event_, pipe, ready, arg, script, ran>>

TestLooping(l) ==
  /\ pc[l] = "While"
  /\ Goto(l, IF looping_[l] THEN "EpollWait" ELSE "Returned")
  /\ UNCHANGED <<looping_, functions_, lock_, pipe_event_, pipe, ready, arg, script, ran>>

\* epoll_wait reports the pipe: the edge is consumed.
EpollReturns(l) ==
  /\ pc[l] = "EpollWait" /\ ready[l] /\ pipe[l] > 0
  /\ ready' = [ready EXCEPT ![l] = FALSE]
  /\ Goto(l, "OnRead")
  /\ UNCHANGED <<looping_, functions_, lock_, pipe_event_, pipe, arg, script, ran>>

\* Mutant of EpollTimesOut: epoll_wait without a timeout.
EpollNoTimeout(l) ==
  /\ pc[l] = "EpollWait" /\ ready[l] /\ pipe[l] > 0
  /\ Goto(l, "RunFuctions")
  /\ UNCHANGED <<looping_, functions_, lock_, pipe_event_, pipe, ready, arg, script, ran>>

\* epoll_wait returns 0 after its timeout of 1000 ms.
EpollTimesOut(l) ==
  /\ pc[l] = "EpollWait"
  /\ Goto(l, "RunFuctions")
  /\ UNCHANGED <<looping_, functions_, lock_, pipe_event_, pipe, ready, arg, script, ran>>

\* epoll_wait fails (EINTR): the rest of the iteration is skipped.
EpollFails(l) ==
  /\ pc[l] = "EpollWait"
  /\ Goto(l, "While")
  /\ UNCHANGED <<looping_, functions_, lock_, pipe_event_, pipe, ready, arg, script, ran>>

\* PipeEvent::OnRead: words are read until the pipe is empty.
OnRead(l) ==
  /\ pc[l] = "OnRead"
  /\ \/ /\ pipe[l] > 0
        /\ pipe' = [pipe EXCEPT ![l] = @ - 1]
        /\ UNCHANGED pc
     \/ /\ pipe[l] = 0
        /\ Goto(l, "RunFuctions")
        /\ UNCHANGED pipe
  /\ UNCHANGED <<looping_, functions_, lock_, pipe_event_, ready, arg, script, ran>>

\* RunFuctions takes lock_ and keeps it while it runs the functions.
LockFunctions(l) ==
  /\ pc[l] = "RunFuctions" /\ lock_[l] = NoThread
  /\ lock_' = [lock_ EXCEPT ![l] = l]
  /\ Goto(l, "Front")
  /\ UNCHANGED <<looping_, functions_, pipe_event_, pipe, ready, arg, script, ran>>

\* Mutant of Front: the function is called without lock_.
FrontUnlocks(l) ==
  /\ pc[l] = "Front" /\ functions_[l] # << >>
  /\ arg'  = [arg EXCEPT ![l] = Head(functions_[l])]
  /\ lock_' = [lock_ EXCEPT ![l] = NoThread]
  /\ Goto(l, "Call")
  /\ UNCHANGED <<looping_, functions_, pipe_event_, pipe, ready, script, ran>>

Front(l) ==
  /\ pc[l] = "Front" /\ functions_[l] # << >>
  /\ arg' = [arg EXCEPT ![l] = Head(functions_[l])]
  /\ Goto(l, "Call")
  /\ UNCHANGED <<looping_, functions_, lock_, pipe_event_, pipe, ready, script, ran>>

\* Mutant of IsInLoopThread: RunInLoop always queues.
IsInLoopThreadNever(th, u) == FALSE

\* IsInLoopThread, asked by the thread that calls RunInLoop(u).
IsInLoopThread(th, u) == Target[u] = th

\* f(): a function that calls RunInLoop on its own loop runs the next one
\* there and then; on another loop it hands it over, still holding lock_[l].
Call(l) ==
  LET u == Then[arg[l]] IN
  /\ pc[l] = "Call"
  /\ \/ u = NoTask /\ Goto(l, "Pop") /\ UNCHANGED arg
     \/ /\ u # NoTask
        /\ arg' = [arg EXCEPT ![l] = u]
        /\ Goto(l, IF IsInLoopThread(l, u) THEN "Call" ELSE "Lock")
  /\ UNCHANGED <<looping_, functions_, lock_, pipe_event_, pipe, ready, script, ran>>

\* Mutant of Pop: the function that has run stays at the front.
PopForgotten(l) ==
  /\ pc[l] = "Pop"
  /\ ran' = [ran EXCEPT ![l] = Append(@, Head(functions_[l]))]
  /\ Goto(l, "OnTimer")
  /\ lock_' = [lock_ EXCEPT ![l] = NoThread]
  /\ UNCHANGED <<looping_, functions_, pipe_event_, pipe, ready, arg, script>>

Pop(l) ==
  /\ pc[l] = "Pop"
  /\ ran'        = [ran EXCEPT ![l] = Append(@, Head(functions_[l]))]
  /\ functions_' = [functions_ EXCEPT ![l] = Tail(@)]
  /\ Goto(l, "Front")
  /\ UNCHANGED <<looping_, lock_, pipe_event_, pipe, ready, arg, script>>

\* functions_ is empty: RunFuctions returns and releases lock_.
UnlockFunctions(l) ==
  /\ pc[l] = "Front" /\ functions_[l] = << >>
  /\ lock_' = [lock_ EXCEPT ![l] = NoThread]
  /\ Goto(l, "OnTimer")
  /\ UNCHANGED <<looping_, functions_, pipe_event_, pipe, ready, arg, script, ran>>

OnTimer(l) ==
  /\ pc[l] = "OnTimer"
  /\ Goto(l, "While")
  /\ UNCHANGED <<looping_, functions_, lock_, pipe_event_, pipe, ready, arg, script, ran>>
-----------------------------------------------------------------------------
Handover(th) == Push(th) \/ CreatePipe(th) \/ WritePipe(th) \/ Unlock(th)

Iteration(l) ==
  \/ StartLoop(l) \/ TestLooping(l)
  \/ EpollReturns(l) \/ EpollTimesOut(l)
  \/ OnRead(l)
  \/ LockFunctions(l) \/ Front(l) \/ Call(l) \/ Pop(l) \/ UnlockFunctions(l)
  \/ OnTimer(l)

Next ==
  \/ \E th \in Threads : Handover(th)
  \/ \E p \in Posters : Post(p)
  \/ \E l \in Loops : Iteration(l) \/ EpollFails(l) \/ Quit(l)

(***************************************************************************)
(* Every thread that can run does run.  A mutex that is free again and     *)
(* again is eventually granted to a thread waiting for it, and signals do  *)
(* not interrupt every epoll_wait: strong fairness for these steps.        *)
(* Nothing makes epoll_wait fail or a thread call Quit: no fairness there. *)
(***************************************************************************)
Fairness ==
  /\ \A th \in Threads :
       SF_vars(Push(th)) /\ WF_vars(CreatePipe(th) \/ WritePipe(th) \/ Unlock(th))
  /\ \A p \in Posters : WF_vars(Post(p))
  /\ \A l \in Loops :
       /\ WF_vars(Iteration(l))
       /\ SF_vars(EpollReturns(l) \/ EpollTimesOut(l))
       /\ SF_vars(LockFunctions(l))

SafeSpec == Init /\ [][Next]_vars

Spec == SafeSpec /\ Fairness
-----------------------------------------------------------------------------
(* Properties.                                                             *)

(***************************************************************************)
(* RunFuctions takes the front of functions_, calls it and only then pops  *)
(* it (EventLoop.cpp:211-216), while the function and other threads call   *)
(* RunInLoop (187-191): a loop's functions_ and its wake-up pipe are never *)
(* in the hands of two threads, and what is popped is what was called,     *)
(* whatever the functions hand over in between.                            *)
(***************************************************************************)
Handing(th, l) == pc[th] \in {"WakeUp", "Unlock"} /\ Target[arg[th]] = l

Running(l) == pc[l] \in {"Front", "Call", "Lock", "WakeUp", "Unlock", "Pop"}

QueueIsGuarded ==
  \A l \in Loops :
    /\ \A th1, th2 \in Threads : Handing(th1, l) /\ Handing(th2, l) => th1 = th2
    /\ Running(l) => \A th \in Threads : ~ Handing(th, l)
    /\ Running(l) /\ pc[l] # "Front" => functions_[l] # << >>

(***************************************************************************)
(* No wake-up is lost (RunInLoop, EventLoop.cpp:188-191, against OnRead    *)
(* and RunFuctions): when a loop is about to sleep or sleeps in epoll_wait *)
(* while functions wait for it, the pipe holds a word and its edge is      *)
(* pending, or a thread inside RunInLoop is still about to write; so the   *)
(* functions never wait for the 1000 ms timeout.                           *)
(***************************************************************************)
NoLostWakeup ==
  \A l \in Loops :
    pc[l] \in {"While", "EpollWait"} /\ functions_[l] # << >> =>
      \/ pipe[l] > 0 /\ ready[l]
      \/ \E th \in Threads : pc[th] = "WakeUp" /\ Target[arg[th]] = l

(***************************************************************************)
(* lock_ is not recursive and RunFuctions holds it while it calls the      *)
(* functions (EventLoop.cpp:210-215): no thread ever waits for a lock_     *)
(* that it holds itself.                                                   *)
(***************************************************************************)
NoSelfDeadlock ==
  \A th \in Threads :
    /\ pc[th] = "Lock" => lock_[Target[arg[th]]] # th
    /\ pc[th] = "RunFuctions" => lock_[th] # th

(***************************************************************************)
(* RunInLoop keeps its promise to other threads: the functions of a loop   *)
(* run in the order of the queue, each once, and all of them if nobody     *)
(* quits the loop (EventLoop.cpp:181-217).                                 *)
(***************************************************************************)
Queue == INSTANCE LoopQueue WITH queue <- functions_

RunsInOrder == Queue!Spec

(***************************************************************************)
(* Quit ends Loop() (EventLoop.cpp:86-89): once looping_ is false in a     *)
(* loop that has begun, Loop() returns, although Quit wakes nobody up.     *)
(***************************************************************************)
QuitEndsLoop ==
  \A l \in Loops :
    (~ looping_[l] /\ pc[l] # "Start") ~> (pc[l] = "Returned")

(***************************************************************************)
(* "run function in loop thread" (EventLoop.h:31): a function that         *)
(* RunInLoop was given for a loop is eventually run by the loop, unless    *)
(* the loop is told to quit.                                               *)
(***************************************************************************)
HandedFunctionRuns ==
  \A t \in Tasks :
    (\E th \in Threads : pc[th] = "Lock" /\ arg[th] = t) ~>
      \/ \E i \in DOMAIN ran[Target[t]] : ran[Target[t]][i] = t
      \/ pc[Target[t]] = "Returned"
=============================================================================

-------------------------- MODULE EventLoopThread --------------------------
(***************************************************************************)
(* How a thread with an event loop is started and stopped:                 *)
(* src/network/net/EventLoopThread.cpp.  The constructor starts the thread *)
(* in the initialiser of thread_; StartEventLoop waits on condition_ until *)
(* Run() lets it go, publishes loop_ and enters Loop(); Run() waits for    *)
(* promise_loop_; the destructor calls Run(), Quit() and join().           *)
(*                                                                         *)
(* thread_ is declared before running_, lock_, condition_, once_ and       *)
(* promise_loop_ (EventLoopThread.h:23-29): the thread may use them before *)
(* they are initialised.  What they hold then is taken to be zero bytes,   *)
(* but for running_, which may hold anything, and for lock_, which may     *)
(* look taken.                                                             *)
(***************************************************************************)
CONSTANTS
  Callers,      \* the threads that call Run()
  Owner,        \* the thread that constructs and destroys the object
  Thread,       \* the thread of StartEventLoop
  Nobody

ASSUME ThreadAssumption ==
  /\ Owner \notin Callers /\ {Thread, Nobody} \cap (Callers \cup {Owner}) = {}
  /\ Thread # Nobody
  /\ {"no", "done"} \cap (Callers \cup {Owner}) = {}

VARIABLES
  built,      \* the members after thread_ are initialised
  running_,   \* the flag StartEventLoop waits for
  lock_,      \* the holder of the mutex, or Nobody
  waiting,    \* the thread sleeps in condition_: "no", "yes", or "lost" when
              \* condition_ was initialised over the sleeper
  once_,      \* the thread inside call_once, "no" before and "done" after it
  promise_,   \* promise_loop_ has its value
  loop_,      \* loop_ points to the EventLoop
  looping_,   \* the flag of the EventLoop
  overwritten,\* lock_ or condition_ was initialised while the thread held the one
              \* and had not slept yet, or slept in the other (history)
  pc

threadVars ==
  <<built, running_, lock_, waiting, once_, promise_, loop_, looping_, overwritten, pc>>

Runners == Callers \cup {Owner}

\* What running_ holds before it is initialised is anything.
ThreadInit ==
  /\ built = FALSE
  /\ running_ \in BOOLEAN
  /\ lock_ = Nobody
  /\ waiting = "no"
  /\ once_ = "no"
  /\ promise_ = FALSE
  /\ loop_ = FALSE
  /\ looping_ = FALSE
  /\ overwritten = FALSE
  /\ pc = [th \in Runners \cup {Thread} |->
             CASE th = Owner -> "Construct" [] th = Thread -> "Enter" [] OTHER -> "Idle"]

Goto(th, label) == pc' = [pc EXCEPT ![th] = label]

\* The constructor initialises the members that follow thread_.
Construct ==
  /\ pc[Owner] = "Construct"
  /\ built' = TRUE
  /\ running_' = FALSE /\ lock_' = Nobody /\ once_' = "no" /\ promise_' = FALSE
  /\ waiting' = IF waiting = "no" THEN "no" ELSE "lost"
  /\ overwritten' = (waiting # "no" \/ pc[Thread] \in {"Wait", "GoToSleep"})
  /\ Goto(Owner, "Idle")
  /\ UNCHANGED <<loop_, looping_>>
-----------------------------------------------------------------------------
(* Run(), by its callers and by the destructor.                            *)

\* Run() is called on an object that is constructed and not being destroyed.
CallRun(c) ==
  /\ pc[c] = "Idle" /\ pc[Owner] = "Idle"
  /\ Goto(c, "Once")
  /\ UNCHANGED <<overwritten, built, running_, lock_, waiting, once_, promise_, loop_, looping_>>

\* Where a thread goes on when Run() returns to it.
AfterRun(th) == IF th = Owner THEN "TestLoop" ELSE "Ran"

\* call_once: the first thread runs the function, the others wait for it.
CallOnce(th) ==
  /\ pc[th] = "Once"
  /\ \/ once_ = "no" /\ once_' = th /\ Goto(th, "Notify")
     \/ once_ = "done" /\ Goto(th, AfterRun(th)) /\ UNCHANGED once_
  /\ UNCHANGED <<overwritten, built, running_, lock_, waiting, promise_, loop_, looping_>>

\* Mutant of Notify: running_ is set and condition_ notified without lock_.
NotifyUnlocked(th) ==
  /\ pc[th] = "Notify"
  /\ running_' = TRUE
  /\ waiting'  = IF waiting = "yes" THEN "no" ELSE waiting
  /\ Goto(th, "Get")
  /\ UNCHANGED <<overwritten, built, lock_, once_, promise_, loop_, looping_>>

\* running_ is set under lock_, and condition_ wakes its sleeper.
Notify(th) ==
  /\ pc[th] = "Notify" /\ lock_ = Nobody
  /\ running_' = TRUE
  /\ waiting'  = IF waiting = "yes" THEN "no" ELSE waiting
  /\ Goto(th, "Get")
  /\ UNCHANGED <<overwritten, built, lock_, once_, promise_, loop_, looping_>>

\* f.get(), then call_once and Run() return.
Get(th) ==
  /\ pc[th] = "Get" /\ promise_
  /\ once_' = "done"
  /\ Goto(th, AfterRun(th))
  /\ UNCHANGED <<overwritten, built, running_, lock_, waiting, promise_, loop_, looping_>>
-----------------------------------------------------------------------------
(* The destructor.                                                         *)

\* Mutant of Destroy: the destructor does not call Run().
DestroyWithoutRun ==
  /\ pc[Owner] = "Idle" /\ \A c \in Callers : pc[c] \in {"Idle", "Ran"}
  /\ Goto(Owner, "TestLoop")
  /\ UNCHANGED <<overwritten, built, running_, lock_, waiting, once_, promise_, loop_, looping_>>

\* It is called when no other thread is inside Run().
Destroy ==
  /\ pc[Owner] = "Idle" /\ \A c \in Callers : pc[c] \in {"Idle", "Ran"}
  /\ Goto(Owner, "Once")
  /\ UNCHANGED <<overwritten, built, running_, lock_, waiting, once_, promise_, loop_, looping_>>

TestLoop ==
  /\ pc[Owner] = "TestLoop"
  /\ Goto(Owner, IF loop_ THEN "Quit" ELSE "Join")
  /\ UNCHANGED <<overwritten, built, running_, lock_, waiting, once_, promise_, loop_, looping_>>

Quit ==
  /\ pc[Owner] = "Quit"
  /\ looping_' = FALSE
  /\ Goto(Owner, "Join")
  /\ UNCHANGED <<overwritten, built, running_, lock_, waiting, once_, promise_, loop_>>

Join ==
  /\ pc[Owner] = "Join" /\ pc[Thread] = "Done"
  /\ Goto(Owner, "Gone")
  /\ UNCHANGED <<overwritten, built, running_, lock_, waiting, once_, promise_, loop_, looping_>>
-----------------------------------------------------------------------------
(* StartEventLoop.                                                         *)

\* lock_ is taken.  Before it is initialised it may look as if another thread
\* had it; nobody wakes the thread up then.
Enter ==
  /\ pc[Thread] = "Enter"
  /\ \/ lock_ = Nobody /\ lock_' = Thread /\ Goto(Thread, "Wait")
     \/ ~ built /\ Goto(Thread, "Stuck") /\ UNCHANGED lock_
  /\ UNCHANGED <<overwritten, built, running_, waiting, once_, promise_, loop_, looping_>>

\* condition_.wait: the predicate ...
Wait ==
  /\ pc[Thread] = "Wait"
  /\ Goto(Thread, IF running_ THEN "SetLoop" ELSE "GoToSleep")
  /\ UNCHANGED <<overwritten, built, running_, lock_, waiting, once_, promise_, loop_, looping_>>

\* ... and sleeping in condition_ with lock_ released.
GoToSleep ==
  /\ pc[Thread] = "GoToSleep"
  /\ lock_' = Nobody /\ waiting' = "yes"
  /\ Goto(Thread, "Sleep")
  /\ UNCHANGED <<overwritten, built, running_, once_, promise_, loop_, looping_>>

\* Woken up, lock_ is taken again and the predicate is tested again.
Wake ==
  /\ pc[Thread] = "Sleep" /\ waiting = "no" /\ lock_ = Nobody
  /\ lock_' = Thread
  /\ Goto(Thread, "Wait")
  /\ UNCHANGED <<overwritten, built, running_, waiting, once_, promise_, loop_, looping_>>

\* The operating system may wake a sleeper for no reason.
SpuriousWakeup ==
  /\ pc[Thread] = "Sleep" /\ waiting # "no"
  /\ waiting' = "no"
  /\ UNCHANGED <<overwritten, built, running_, lock_, once_, promise_, loop_, looping_, pc>>

\* Mutant of SetLoop: the promise is kept first.
SetLoopLate ==
  /\ pc[Thread] = "SetLoop"
  /\ promise_' = TRUE
  /\ Goto(Thread, "SetValue")
  /\ UNCHANGED <<overwritten, built, running_, lock_, waiting, once_, loop_, looping_>>

SetLoop ==
  /\ pc[Thread] = "SetLoop"
  /\ loop_' = TRUE
  /\ Goto(Thread, "SetValue")
  /\ UNCHANGED <<overwritten, built, running_, lock_, waiting, once_, promise_, looping_>>

\* set_value on a promise that is not initialised yet ends the program.
SetValue ==
  /\ pc[Thread] = "SetValue"
  /\ \/ built /\ promise_' = TRUE /\ Goto(Thread, "Loop")
     \/ ~ built /\ Goto(Thread, "Crashed") /\ UNCHANGED promise_
  /\ UNCHANGED <<overwritten, built, running_, lock_, waiting, once_, loop_, looping_>>

\* Loop() sets looping_ ...
Loop ==
  /\ pc[Thread] = "Loop"
  /\ looping_' = TRUE
  /\ Goto(Thread, "While")
  /\ UNCHANGED <<overwritten, built, running_, lock_, waiting, once_, promise_, loop_>>

\* ... and returns when it is reset; lock_ was held all the time.
Return ==
  /\ pc[Thread] = "While" /\ ~ looping_
  /\ loop_' = FALSE
  /\ lock_' = Nobody
  /\ Goto(Thread, "Done")
  /\ UNCHANGED <<overwritten, built, running_, waiting, once_, promise_, looping_>>
-----------------------------------------------------------------------------
Run(th) == CallOnce(th) \/ Notify(th) \/ Get(th)

Destructor == TestLoop \/ Quit \/ Join

StartEventLoop ==
  Enter \/ Wait \/ GoToSleep \/ Wake \/ SetLoop \/ SetValue \/ Loop \/ Return

ThreadNext ==
  \/ Construct
  \/ \E c \in Callers : CallRun(c)
  \/ \E th \in Runners : Run(th)
  \/ Destroy \/ Destructor
  \/ StartEventLoop \/ SpuriousWakeup

(***************************************************************************)
(* Threads that can run do run, and a mutex that is free again and again   *)
(* is granted.  Nobody has to call Run() or the destructor, and nothing    *)
(* makes a spurious wake-up happen.                                        *)
(***************************************************************************)
Fairness ==
  /\ WF_threadVars(Construct)
  /\ \A th \in Runners : WF_threadVars(Run(th)) /\ SF_threadVars(Notify(th))
  /\ WF_threadVars(Destructor)
  /\ WF_threadVars(StartEventLoop) /\ SF_threadVars(Enter) /\ SF_threadVars(Wake)

ThreadSpec == ThreadInit /\ [][ThreadNext]_threadVars /\ Fairness
-----------------------------------------------------------------------------
(* Properties.                                                             *)

(***************************************************************************)
(* Loop() is usable after Run() (EventLoopThread.cpp:20-45): every thread  *)
(* whose Run() has returned, also one that came second to call_once, finds *)
(* loop_ set, until the destructor has made Loop() return.                 *)
(***************************************************************************)
RunYieldsLoop ==
  \A c \in Callers : pc[c] = "Ran" => loop_ \/ pc[Thread] = "Done"

(***************************************************************************)
(* loop_ points to a local variable of StartEventLoop and never outlives   *)
(* it (EventLoopThread.cpp:38-44).                                         *)
(***************************************************************************)
NoDanglingLoop ==
  loop_ => pc[Thread] \in {"SetValue", "Loop", "While", "Crashed"}

(***************************************************************************)
(* loop_ is there when it should be and only then                          *)
(* (EventLoopThread.cpp:20-45): see the two parts.                         *)
(***************************************************************************)
LoopIsThere == RunYieldsLoop /\ NoDanglingLoop

\* The thread has used members that were initialised afterwards.
Overwritten == overwritten \/ pc[Thread] \in {"Stuck", "Crashed"}

(***************************************************************************)
(* "等待线程运行起来" (EventLoopThread.h:22): Run() returns, having waited *)
(* for the thread to run (EventLoopThread.cpp:20-45), unless the thread    *)
(* was early in one of four ways: lock_ looked taken before it was         *)
(* initialised; the thread held lock_, or slept in condition_, when they   *)
(* were initialised; or it found running_ set and kept promise_loop_       *)
(* before that was initialised.  A thread that comes later, or finds       *)
(* running_ set and is overtaken by the constructor, misses nothing.       *)
(***************************************************************************)
RunReturnsOrOverwritten ==
  \A th \in Runners : pc[th] = "Once" ~> pc[th] \in {"Ran", "TestLoop"} \/ Overwritten

(***************************************************************************)
(* The destructor returns (EventLoopThread.cpp:8-19) except in one case:   *)
(* its Quit() came after set_value and before Loop() set looping_, and     *)
(* join() waits for a loop that nobody will stop.                          *)
(***************************************************************************)
DestructorReturns ==
  pc[Owner] = "TestLoop" ~> \/ pc[Owner] = "Gone"
                            \/ pc[Owner] = "Join" /\ looping_
=============================================================================

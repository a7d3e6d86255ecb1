----------------------------- MODULE LoopQueue -----------------------------
(***************************************************************************)
(* What EventLoop::RunInLoop promises to a thread that is not the loop's   *)
(* own ("run function in loop thread", src/network/net/EventLoop.h:31):    *)
(* every loop has a queue of functions; a function that is handed over     *)
(* joins the end of the queue of its loop, and the loop runs the functions *)
(* of its queue one at a time, in order, each once.  A loop that nobody    *)
(* stops runs every function it was given.                                 *)
(***************************************************************************)
EXTENDS Naturals, Sequences

CONSTANTS Loops,     \* the loops
          Tasks,     \* the functions
          Target,    \* Target[t] is the loop function t is meant for
          Quitters   \* the loops that may be stopped with Quit()

VARIABLES queue,     \* queue[l]: the functions waiting for loop l
          ran        \* ran[l]: the functions loop l has run, in order

vars == <<queue, ran>>

Init ==
  /\ queue = [l \in Loops |-> << >>]
  /\ ran   = [l \in Loops |-> << >>]

Hand(t) ==
  /\ queue' = [queue EXCEPT ![Target[t]] = Append(@, t)]
  /\ UNCHANGED ran

Run(l) ==
  /\ queue[l] # << >>
  /\ ran'   = [ran EXCEPT ![l] = Append(@, Head(queue[l]))]
  /\ queue' = [queue EXCEPT ![l] = Tail(@)]

Next == (\E t \in Tasks : Hand(t)) \/ (\E l \in Loops : Run(l))

SafeSpec == Init /\ [][Next]_vars

Spec == SafeSpec /\ \A l \in Loops \ Quitters : WF_vars(Run(l))
=============================================================================

---------------------------- MODULE MCEventLoop ----------------------------
(***************************************************************************)
(* Instances of EventLoop for TLC: two loops, two posting threads and the  *)
(* functions below.                                                        *)
(***************************************************************************)
EXTENDS EventLoop, TLC

CONSTANTS l1, l2, p1, p2, \* loops and posters
          hop,            \* runs in l1 and hands "land" over to l2
          land,           \* runs in l2
          nest,           \* runs in l2 and runs "land" there and then
          back,           \* runs in l2 and hands "rest" over to l1
          rest            \* runs in l1

MCTarget == (hop :> l1) @@ (land :> l2) @@ (nest :> l2) @@ (back :> l2) @@ (rest :> l1)

MCThen == (hop :> land) @@ (land :> NoTask) @@ (nest :> land)
             @@ (back :> rest) @@ (rest :> NoTask)

\* Functions are handed over in one direction only, from l1 to l2.
ScriptOneWay == (p1 :> <<hop>>) @@ (p2 :> <<nest>>)

\* Functions are handed over in both directions.
ScriptBothWays == (p1 :> <<hop>>) @@ (p2 :> <<back>>)
=============================================================================

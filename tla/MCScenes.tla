------------------------------- MODULE MCScenes -------------------------------
EXTENDS SimulationScenes, TLC

CONSTANTS b1, b2, p1, p2, r1, r2

\* With two mishaps at most, so many of them used up: one Project with one Robot and three
\* operations, or two and a mishap, or two without Robots and both; and two Projects
\* that share a Robot, or that compete for the Runtimes only, with a mishap.
AloneOrTwo ==
  {[cast |-> <<{b1}, {b1}>>, calls |-> (p1 :> 3 @@ p2 :> 0), mishaps |-> 2],
   [cast |-> <<{b1}, {b1}>>, calls |-> (p1 :> 2 @@ p2 :> 0), mishaps |-> 1],
   [cast |-> <<{}, {}>>, calls |-> (p1 :> 2 @@ p2 :> 0), mishaps |-> 0],
   [cast |-> <<{b1, b2}, {b1}>>, calls |-> (p1 :> 1 @@ p2 :> 1), mishaps |-> 1],
   [cast |-> <<{}, {}>>, calls |-> (p1 :> 2 @@ p2 :> 1), mishaps |-> 1]}
=============================================================================

-------------------------- MODULE MCCandidateBuilder --------------------------
(* A short and a long segment.  The open line has a corridor at each end,  *)
(* the loop has one in the short segment.                                  *)
EXTENDS DispatchCandidateBuilder, TLC

MCTickLength == (0 :> 1) @@ (1 :> 3)
MCCrossingSegment == [x \in Crossing |-> IF x = "x" THEN 0 ELSE 1]

LineLow == [c \in Corridor |-> IF c = "a" THEN 0 ELSE 3]
LineHigh == [c \in Corridor |-> IF c = "a" THEN 1 ELSE 4]
LoopLow == [c \in Corridor |-> 1]
LoopHigh == [c \in Corridor |-> 2]

Trains == Permutations(RouteTrain)
=============================================================================

------------------------ MODULE DynamicPriorityPolicy ------------------------
(***************************************************************************)
(* The release policy of one corridor resource                             *)
(* (src/server/src/DynamicPriorityPolicy.cpp): hard constraints first,     *)
(* then starvation, then the dynamic score.                                *)
(*                                                                         *)
(* The score is a weighted sum of doubles (headway urgency, waiting time,  *)
(* fairness credit, rolling-plan priority, consecutive penalty).  Nothing  *)
(* here tells scores apart, so the score pass may select any eligible      *)
(* candidate and the starvation pass any of the longest-waiting ones.      *)
(***************************************************************************)
EXTENDS Integers

CONSTANTS
    LineOf,           \* candidate.line_id, by train
    MaximumWait,      \* config_.maximum_wait_ms
    MaxConsecutive,   \* config_.max_consecutive_release; 0 switches it off
    MinimumHeadway,   \* corridor.minimum_headway_ms
    Capacity          \* corridor.capacity

ASSUME PolicyAssumptions ==
    /\ MaximumWait \in Nat \ {0}
    /\ MaxConsecutive \in Nat
    /\ MinimumHeadway \in Nat \ {0}
    /\ Capacity \in Nat \ {0}

\* Game time may run backwards after a reload: the difference saturates at 0
\* instead of wrapping around.
ElapsedSince(now, then) == IF now >= then THEN now - then ELSE 0

\* Faulty variant: an entry at the very limit of the capacity is let in.
CapacityOffByOne(pending, inside, entered, now) ==
    /\ ~pending
    /\ inside <= Capacity
    /\ entered # 0 => ElapsedSince(now, entered) >= MinimumHeadway

\* Faulty variant: the headway is not enforced.
HeadwayIgnored(pending, inside, entered, now) ==
    /\ ~pending
    /\ inside < Capacity

\* The hard constraints of a resource: no command waiting for its ACK, room
\* left, and the headway since the last confirmed entry (0 means none yet).
HardConstraintsMet(pending, inside, entered, now) ==
    /\ ~pending
    /\ inside < Capacity
    /\ entered # 0 => ElapsedSince(now, entered) >= MinimumHeadway

\* Candidates with a usable arrival time and fresh telemetry.
Feasible(C, now) ==
    {c \in C : c.arrived # 0 /\ c.arrived <= now /\ c.fresh}

Starved(c, now) == ElapsedSince(now, c.arrived) >= MaximumWait

\* The line's run of releases is over while another line is waiting.
LimitReached(c, F, lastLine, run) ==
    /\ MaxConsecutive > 0
    /\ LineOf[c.train] = lastLine
    /\ run >= MaxConsecutive
    /\ \E d \in F : LineOf[d.train] # lastLine

\* The candidates decide() may select out of C.
Selectable(C, lastLine, run, now) ==
    LET F == Feasible(C, now)
        S == {c \in F : Starved(c, now)}
    IN  IF S # {}
          THEN {c \in S : \A d \in S : c.arrived <= d.arrived}
          ELSE {c \in F : ~LimitReached(c, F, lastLine, run)}
=============================================================================

---------------------- MODULE MCRailwayDispatchService ----------------------
(***************************************************************************)
(* Instances of RailwayDispatchService.  Trains t1 and t2 meet head-on or  *)
(* follow each other in corridor a, t1 through crossing movement m; with a *)
(* second corridor b, t1 may also approach that one.                       *)
(***************************************************************************)
EXTENDS RailwayDispatchService, TLC

CONSTANTS t1, t2, m, x, a, b, red, blue

MCIntersectionOf == m :> x
MCDeclared == {}
MCClearanceTime == m :> 0
MCLineOf == t1 :> red @@ t2 :> blue

Offer(c, d, t, M) ==
    [resource |-> <<c, d>>, train |-> t, movements |-> M, arrived |-> 1, fresh |-> TRUE]

OneCorridor == {Offer(a, "FORWARD", t1, {m}), Offer(a, "REVERSE", t2, {m})}
TwoCorridors == {Offer(a, "FORWARD", t1, {m}), Offer(b, "FORWARD", t1, {}),
                 Offer(a, "FORWARD", t2, {})}

PlanOrderA == << <<a, "FORWARD">>, <<a, "REVERSE">> >>
PlanOrderAB == PlanOrderA \o << <<b, "FORWARD">>, <<b, "REVERSE">> >>

AllRestorable ==
    [train : Train, movements : SUBSET Movement, at : Time, planned : {FALSE}]
=============================================================================

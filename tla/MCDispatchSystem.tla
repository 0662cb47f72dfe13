---------------------------- MODULE MCDispatchSystem ----------------------------
(* One corridor; t1 and t3 go through it forwards, t2 in reverse.          *)
EXTENDS DispatchSystem, TLC

CONSTANTS t1, t2, t3, a, red, blue

Empty == <<>>
NoPairs == {}
MCLineOf == [t \in Train |-> IF t = t2 THEN blue ELSE red]
MCWay == [t \in Train |-> <<a, IF t = t2 THEN "REVERSE" ELSE "FORWARD">>]
MCCandidate == {[resource |-> MCWay[t], train |-> t, movements |-> {}, arrived |-> 1,
                 fresh |-> TRUE] : t \in Train}
MCPlanOrder == << <<a, "FORWARD">>, <<a, "REVERSE">> >>
MCTrainOrder == SelectSeq(<<t1, t2, t3>>, LAMBDA t : t \in Train)

Running(T, F) == [trains |-> T, faults |-> F]
SafetyScenarios == {Running({t1, t2}, {"ackLost", "restart", "database"}),
                    Running({t1, t3}, {"vanish"}),
                    Running({t1}, {"vanish", "routes", "restart"})}
ProgressScenario == {Running({t1, t2}, {"ackLost"})}
ClearedLostScenario == {Running({t1, t3}, {"clearedLost"})}
AllRestorable == [train : Train, movements : {{}}, at : Time, planned : {FALSE}]
=============================================================================

-------------------------- MODULE MCDispatchManager --------------------------
(***************************************************************************)
(* Instance of DispatchManager: one corridor a and a crossing x on which   *)
(* t1 and t2 need conflicting movements; t2 meets t1 head-on or follows    *)
(* it, and t3 follows t1.                                                  *)
(***************************************************************************)
EXTENDS DispatchManager, TLC

CONSTANTS t1, t2, t3, m1, m2, x, a, red, blue

MCIntersectionOf == m1 :> x @@ m2 :> x
\* Only m1 lists m2 in conflict_movement_ids.
MCDeclared == {<<m1, m2>>}
\* m1 uses the default clearance, m2 a longer one of its own.
MCClearanceTime == m1 :> 0 @@ m2 :> 2
MCLineOf == t1 :> red @@ t2 :> blue @@ t3 :> red

Offer(d, t, M) ==
    [resource |-> <<a, d>>, train |-> t, movements |-> M, arrived |-> 1, fresh |-> TRUE]

MCCandidate == {
    Offer("FORWARD", t1, {m1}),
    Offer("FORWARD", t2, {}),
    Offer("REVERSE", t2, {m2}),
    Offer("FORWARD", t3, {})}

MCRestorable ==
    [train : {t1}, movements : {{m1}}, at : {1}, planned : {FALSE}]
    \cup [train : {t2}, movements : {{}}, at : {1, 2}, planned : {FALSE}]
=============================================================================

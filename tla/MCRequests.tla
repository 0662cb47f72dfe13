------------------------------ MODULE MCRequests ------------------------------
(***************************************************************************)
(* What a request meets on its way: the sending thread of the mod, the     *)
(* parser of its connection, the idle timers, the vehicle endpoints with   *)
(* their cache, the pool of database connections, and the vehicle table on *)
(* disk.  They share no state here, so a behaviour of this run exercises   *)
(* one of them and leaves the others alone.                                *)
(*                                                                         *)
(* The requests come with and without a body, with two lengths, with both  *)
(* connection headers, with an unusable header, a length that is too large *)
(* and illegal request lines; ShortLines are missing words altogether.     *)
(***************************************************************************)
EXTENDS HttpParser, TimerManager, VehicleApi, VehicleStore, DBConnectionPool, TelemetrySender

P(k, n) == [k |-> k, n |-> n]
Message(head, bytes) ==
    <<P("request", 3)>> \o head \o <<P("end", 0)>> \o [i \in 1..bytes |-> P("body", 0)]

WellFormed ==
    {Message(<<>>, 0), Message(<<P("length", 2)>>, 2), Message(<<P("close", 0), P("length", 1)>>, 1),
     Message(<<P("length", 1), P("length", 3), P("other", 0)>>, 3),
     Message(<<P("close", 0), P("keep", 0)>>, 0), Message(<<P("length", 6)>>, 6),
     Message(<<P("length", 9)>>, 9), <<P("request10", 3), P("end", 0)>>,
     <<P("request10", 3), P("keep", 0), P("end", 0)>>}
Rejected ==
    {Message(<<P("bad", 0)>>, 0), Message(<<P("length", 10)>>, 1), Message(<<P("request", 3)>>, 0),
     <<P("request", 4), P("end", 0)>>}
ShortLines == {<<P("end", 0)>>, <<P("request", 0), P("end", 0)>>, <<P("request", 1), P("end", 0)>>}

MCShape == WellFormed \cup Rejected

VARIABLE part

requestsVars == <<part, parserVars, timerVars, apiVars, storeVars, dbPoolVars, senderVars>>

\* The settings of a part do not matter while it is left alone.
AnySettings ==
    /\ part # "parser" => script = [i \in 1..Requests |-> Message(<<>>, 0)]
    /\ part # "vehicles" => available = 0

RequestsInit ==
    /\ part \in {"sender", "parser", "timers", "vehicles", "store", "database"}
    /\ ParserInit /\ TimerInit /\ ApiInit /\ StoreInit /\ PoolInit /\ SenderInit
    /\ AnySettings

RequestsNext ==
    /\ \/ /\ part = "sender" /\ SenderNext
          /\ UNCHANGED <<parserVars, timerVars, apiVars, storeVars, dbPoolVars>>
       \/ /\ part = "parser" /\ ParserNext
          /\ UNCHANGED <<timerVars, apiVars, storeVars, dbPoolVars, senderVars>>
       \/ /\ part = "timers" /\ TimerNext
          /\ UNCHANGED <<parserVars, apiVars, storeVars, dbPoolVars, senderVars>>
       \/ /\ part = "vehicles" /\ ApiNext
          /\ UNCHANGED <<parserVars, timerVars, storeVars, dbPoolVars, senderVars>>
       \/ /\ part = "store" /\ StoreNext
          /\ UNCHANGED <<parserVars, timerVars, apiVars, dbPoolVars, senderVars>>
       \/ /\ part = "database" /\ PoolNext
          /\ UNCHANGED <<parserVars, timerVars, apiVars, storeVars, senderVars>>
    /\ UNCHANGED part

\* Only the sender has a property that needs fairness, and it has nothing to
\* do while another part is exercised.
RequestsSpec == RequestsInit /\ [][RequestsNext]_requestsVars /\ SenderFairness
=============================================================================

------------------------------- MODULE HttpParser -------------------------------
(***************************************************************************)
(* The requests of one keep-alive connection (HttpConn::process, parse).   *)
(* TCP delivers a request in arbitrary pieces; every piece makes a worker  *)
(* parse the whole buffer again, until the request is complete.  The       *)
(* fields of the object outlive the request.                               *)
(*                                                                         *)
(* The byte stream is a sequence of pieces [k, n]: a request line of n     *)
(* words ("request", or "request10" for HTTP/1.0), header lines ("length"  *)
(* with value n, "close", "keep", "other", "bad" without a colon), the     *)
(* empty line ("end") and body bytes ("body").  A fourth word of a request *)
(* line, or an unknown version, makes it illegal; both are n = 4.          *)
(* The client sends its next request after the answer, as the mod and      *)
(* browsers do.  Values in the object's fields are abstracted to the       *)
(* number of the request they come from, 0 for none.                       *)
(***************************************************************************)
EXTENDS Naturals, Sequences, SequencesExt

CONSTANTS
    Shape,        \* the requests a client may send
    Requests,     \* how many it sends
    MaxBuffer     \* MAX_READ_BUFFER_SIZE

Kinds == {"request", "request10", "length", "close", "keep", "other", "bad", "end", "body"}
Piece == [k : Kinds, n : Nat]

\* The place of the empty line, 0 without one, and the length announced by
\* the first k lines: the last one counts.
EndOfHead(s) == SelectInSeq(s, LAMBDA piece : piece.k = "end")
LengthLines(s, k) == {j \in 1..k : s[j].k = "length"}
LastLength(s, k) ==
    IF LengthLines(s, k) = {} THEN 0
    ELSE LET last == CHOOSE j \in LengthLines(s, k) : \A l \in LengthLines(s, k) : l <= j
         IN  s[last].n

\* A client sends a request line first and, in the end, all of the body it
\* has announced, unless that is refused.  One that stops before is one whose
\* last pieces never arrive.
SentInFull(s) ==
    /\ EndOfHead(s) # 0 /\ s[1].k \in {"request", "request10", "end"}
    /\ \/ LastLength(s, EndOfHead(s)) <= Len(s) - EndOfHead(s)
       \/ \E j \in LengthLines(s, EndOfHead(s)) : s[j].n > MaxBuffer

ASSUME ParserAssumptions ==
    /\ Shape \subseteq Seq(Piece) /\ \A s \in Shape : SentInFull(s)
    /\ Requests \in Nat /\ MaxBuffer \in Nat

VARIABLES
    script,     \* the requests of this client
    current,    \* the number of the request under way
    arrived,    \* pieces of it that have arrived: the read buffer
    fresh,      \* they have not been parsed since the last arrival
    fields,     \* method_, path_, version_: the request each comes from
    keepAlive,  \* keep_alive_
    response,   \* response_: for each request its answer, once there is one
    status      \* of the connection: open, writing, closed

parserVars == <<script, current, arrived, fresh, fields, keepAlive, response, status>>

NoAnswer == [code |-> 0, from |-> 0, body |-> 0]
BadRequest == [code |-> 400, from |-> 0, body |-> 0]
\* An answer of buildResponse: the request line and the body it was made from.
Ok(from, body) == [code |-> 200, from |-> from, body |-> body]

ParserInit ==
    /\ script \in [1..Requests -> Shape]
    /\ current = 1 /\ arrived = 0 /\ fresh = FALSE
    /\ fields = [method |-> 0, path |-> 0, version |-> 0]
    /\ keepAlive = FALSE
    /\ response = [i \in 1..Requests |-> NoAnswer] /\ status = "open"

-----------------------------------------------------------------------------
(* parse, as functions on its state.                                       *)

\* Extraction from a line that has no more words leaves a string as it was.
ParseRequestLine(f, n) ==
    [method |-> IF n >= 1 THEN current ELSE f.method,
     path |-> IF n >= 2 THEN current ELSE f.path,
     version |-> IF n >= 3 THEN current ELSE f.version]

IsHttp10(version) == version # 0 /\ script[version][1].k = "request10"

RequestLineOk(f, n) == f.method # 0 /\ f.path # 0 /\ f.version # 0 /\ n <= 3

\* parseHeader.
ParseHeader(p, line) ==
    CASE line.k \in {"bad", "request", "request10"} -> [p EXCEPT !.state = "ERROR"]
      [] line.k = "length" /\ line.n > MaxBuffer -> [p EXCEPT !.state = "ERROR"]
      [] line.k = "length" /\ line.n <= MaxBuffer -> [p EXCEPT !.length = line.n]
      [] line.k = "close" -> [p EXCEPT !.keep = FALSE]
      [] line.k = "keep" -> [p EXCEPT !.keep = TRUE]
      [] OTHER -> p

\* One round of the loop over the lines of the head.
ParseLine(p, line) ==
    IF p.state = "REQUEST_LINE"
      THEN LET f == ParseRequestLine(p.fields, line.n)
           IN  [p EXCEPT !.fields = f, !.keep = ~IsHttp10(f.version),
                         !.state = IF RequestLineOk(f, line.n) THEN "HEADERS" ELSE "ERROR"]
    ELSE IF p.state = "HEADERS" THEN ParseHeader(p, line)
    ELSE p

Buffer == SubSeq(script[current], 1, arrived)

\* Faulty variant: the body is used before all of it is there.
ParseEarly(p, bytes) ==
    IF p.state = "ERROR" THEN p
    ELSE [p EXCEPT !.state = "FINISH", !.body = IF bytes < p.length THEN bytes ELSE p.length]

\* What follows the head: the body, once it is complete.
ParseBody(p, bytes) ==
    IF p.state = "ERROR" THEN p
    ELSE IF bytes < p.length THEN [p EXCEPT !.state = "BODY"]
    ELSE [p EXCEPT !.state = "FINISH", !.body = p.length]

\* parse.  Without the empty line nothing is looked at; an empty head has no
\* line that could be checked.
Start(keep) == [state |-> "REQUEST_LINE", fields |-> fields, keep |-> keep, length |-> 0, body |-> 0]

ParseLines(lines) ==
    LET after[k \in 0..lines] ==
            IF k = 0 THEN Start(TRUE) ELSE ParseLine(after[k - 1], Buffer[k])
    IN  after[lines]

Parse ==
    LET pos == EndOfHead(Buffer)
    IN  IF pos = 0 THEN Start(keepAlive) ELSE ParseBody(ParseLines(pos - 1), Len(Buffer) - pos)

-----------------------------------------------------------------------------
\* TcpConn::read.  A buffer that gets full ends the connection, even when
\* the last byte of the request has just filled it.
Receive(n) ==
    /\ status = "open" /\ current <= Requests
    /\ arrived + n <= Len(script[current]) /\ arrived + n <= MaxBuffer
    /\ arrived' = arrived + n
    /\ IF arrived' >= MaxBuffer THEN status' = "closed" /\ UNCHANGED fresh
                                ELSE fresh' = TRUE /\ UNCHANGED status
    /\ UNCHANGED <<script, current, fields, keepAlive, response>>

\* process and buildResponse; an incomplete request waits for more.
Process ==
    /\ status = "open" /\ fresh
    /\ fresh' = FALSE
    /\ LET p == Parse
       IN  /\ fields' = p.fields
           /\ \/ /\ p.state = "ERROR"
                 /\ response' = [response EXCEPT ![current] = BadRequest]
                 /\ keepAlive' = FALSE /\ status' = "writing"
              \/ /\ p.state = "FINISH"
                 /\ response' = [response EXCEPT ![current] = Ok(p.fields.path, p.body)]
                 /\ keepAlive' = p.keep /\ status' = "writing"
              \/ /\ p.state \notin {"ERROR", "FINISH"}
                 /\ keepAlive' = p.keep
                 /\ UNCHANGED <<response, status>>
    /\ UNCHANGED <<script, current, arrived>>

\* The answer is written: the connection is closed, or the buffer is
\* emptied for the next request.
Write ==
    /\ status = "writing"
    /\ \/ keepAlive /\ status' = "open" /\ current' = current + 1 /\ arrived' = 0
       \/ ~keepAlive /\ status' = "closed" /\ UNCHANGED <<current, arrived>>
    /\ UNCHANGED <<script, fresh, fields, keepAlive, response>>

ParserNext == Process \/ Write \/ \E n \in 1..MaxBuffer : Receive(n)

ParserSpec == ParserInit /\ [][ParserNext]_parserVars

-----------------------------------------------------------------------------
(* Properties.                                                             *)

\* The request as it was sent, looked at as a whole.
HeadEnd(i) == EndOfHead(script[i])
Malformed(i) ==
    \/ HeadEnd(i) = 1 \/ script[i][1].n # 3
    \/ \E j \in 2..HeadEnd(i) : script[i][j].k \in {"bad", "request", "request10"}
    \/ \E j \in LengthLines(script[i], HeadEnd(i)) : script[i][j].n > MaxBuffer
BodyLength(i) == LastLength(script[i], HeadEnd(i))

\* Type invariant of the parser; nothing is answered out of turn.
ParserTypeOK ==
    /\ script \in [1..Requests -> Shape] /\ current \in 1..(Requests + 1)
    /\ arrived \in 0..MaxBuffer /\ fresh \in BOOLEAN /\ keepAlive \in BOOLEAN
    /\ fields \in [method : 0..Requests, path : 0..Requests, version : 0..Requests]
    /\ response \in [1..Requests -> [code : {0, 200, 400}, from : 0..Requests, body : Nat]]
    /\ status \in {"open", "writing", "closed"}
    /\ current <= Requests => arrived <= Len(script[current])
    /\ \A i \in 1..Requests : i > current => response[i] = NoAnswer

\* However a well-formed request is cut into pieces and whatever was sent
\* before it on the connection: its answer is made from its own request line
\* and its whole body.  A request that fits the buffer is not left without
\* an answer once it is completely there and parsed.
AnswersOwnRequest ==
    \A i \in 1..Requests :
        /\ (response[i] # NoAnswer /\ ~Malformed(i)) => response[i] = Ok(i, BodyLength(i))
        /\ (i = current /\ Len(script[i]) < MaxBuffer /\ arrived = Len(script[i]) /\ ~fresh)
              => response[i] # NoAnswer

-----------------------------------------------------------------------------
(* A statement of the source that the code does not keep.                  *)

\* parseRequestLine "returns false when the format is illegal" (HttpConn.h):
\* a request whose request line is not one gets the answer 400.
IllegalLinesRejected ==
    \A i \in 1..Requests : (response[i] # NoAnswer /\ Malformed(i)) => response[i] = BadRequest
=============================================================================

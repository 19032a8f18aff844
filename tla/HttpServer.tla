----------------------------- MODULE HttpServer -----------------------------
(***************************************************************************)
(* HttpServer, HttpContext, HttpRequest and HttpResponse (pallette/http):  *)
(* one connection, whose client sends requests back to back and whose      *)
(* bytes arrive in pieces of any size.  The input is a sequence of cells:  *)
(* a request line, a header line, a CRLF or a byte of a body; a piece that *)
(* ends inside a line is one that ends before its CRLF.                    *)
(***************************************************************************)
EXTENDS Integers, Sequences

CONSTANTS
    Methods,        \* methods the client uses
    Lengths,        \* Content-Length headers: numbers, NoLength, NotANumber
    MaxRequests     \* bound: requests sent

NoLength == -1      \* there is none
NotANumber == -2    \* its value is no number
CRLF == [cell |-> "CRLF"]

HttpRequests ==
    {r \in [method : Methods, version : {"1.0", "1.1", "2.0"}, length : Lengths,
            connection : {"none", "close", "Keep-Alive"}] :
        /\ r.method # "POST" => r.length = NoLength
        /\ r.version # "1.1" => r.connection # "close"
        /\ r.version = "1.1" => r.connection # "Keep-Alive"}

BodySize(r) == IF r.length \in Nat THEN r.length ELSE 0

\* The bytes of a request
Encode(r) ==
    LET header(field, value) == IF value = "none" THEN <<>>
                                ELSE <<[cell |-> field, value |-> value], CRLF>>
    IN  <<[cell |-> "line", method |-> r.method, version |-> r.version], CRLF>>
        \o header("Connection", r.connection)
        \o (IF r.length = NoLength THEN <<>>
            ELSE <<[cell |-> "Content-Length", value |-> r.length], CRLF>>)
        \o <<CRLF>> \o [i \in 1..BodySize(r) |-> [cell |-> "byte"]]

VARIABLES
    context,        \* the HttpContext: state_ and request_
    input,          \* the connection's input buffer
    flight,         \* bytes sent and not yet read
    sentRequests,   \* history: the requests of the client
    delivered,      \* history: how many of them have arrived in full
    answered,       \* history: the requests answered
    httpState       \* kConnected, or shutdown() was called; or the process aborted

httpVars == <<context, input, flight, sentRequests, delivered, answered, httpState>>

NewContext == [state |-> "EXPECT_REQUEST_LINE", method |-> "INVALID", version |-> "UNKNOWN",
               length |-> NoLength, connection |-> "none", body |-> 0]

HttpInit ==
    /\ context = NewContext
    /\ input = <<>> /\ flight = <<>>
    /\ sentRequests = <<>> /\ delivered = 0 /\ answered = <<>>
    /\ httpState = "connected"

-----------------------------------------------------------------------------
(* Wrong variants of definitions below, one plausible slip each.            *)

\* reset() leaves the headers of the request in place.
KeepHeaders(c) == [NewContext EXCEPT !.length = c.length, !.connection = c.connection]

-----------------------------------------------------------------------------
(* parseRequest(): a loop over p = [context, input, ok, more, abort].       *)

\* findSubString(): the cells before the first CRLF, if there is one
HasLine(p) == \E i \in DOMAIN p.input : p.input[i] = CRLF
Line(p) == SubSeq(p.input, 1,
             (CHOOSE i \in DOMAIN p.input :
                 p.input[i] = CRLF /\ \A j \in 1..(i - 1) : p.input[j] # CRLF) - 1)
AfterLine(p) == SubSeq(p.input, Len(Line(p)) + 2, Len(p.input))

NoMore(p) == [p EXCEPT !.more = FALSE]

\* HttpRequest::setMethod(), which asserts that no method was set yet
KnownMethods == {"GET", "POST", "HEAD", "PUT", "DELETE"}

\* processRequestLine(): the method is set before the rest is looked at.
RequestLine(p) ==
    LET line == Line(p)
        known == /\ line # <<>> /\ line[1].cell = "line"
                 /\ line[1].method \in KnownMethods
        good == known /\ line[1].version \in {"1.0", "1.1"}
        started == [p EXCEPT !.context.method = IF known THEN line[1].method ELSE "INVALID"]
    IN  CASE ~HasLine(p) -> NoMore(p)
          [] HasLine(p) /\ p.context.method # "INVALID" ->
                NoMore([p EXCEPT !.abort = TRUE])
          [] HasLine(p) /\ p.context.method = "INVALID" /\ ~good ->
                NoMore([started EXCEPT !.ok = FALSE])
          [] OTHER -> [started EXCEPT !.context.version = line[1].version,
                                      !.context.state = "EXPECT_HEADERS",
                                      !.input = AfterLine(p)]

\* A line with a colon is a header, any other line ends them.
HeaderLine(p) ==
    LET line == Line(p)
        isHeader == \E i \in DOMAIN line : line[i].cell \in {"Connection", "Content-Length"}
        rest == [p EXCEPT !.input = AfterLine(p)]
    IN  CASE ~HasLine(p) -> NoMore(p)
          [] HasLine(p) /\ isHeader ->
                (CASE line[1].cell = "Connection" ->
                        [rest EXCEPT !.context.connection = line[1].value]
                   [] line[1].cell = "Content-Length" ->
                        [rest EXCEPT !.context.length = line[1].value]
                   [] OTHER -> rest)
          [] HasLine(p) /\ ~isHeader ->
                (CASE p.context.method = "GET" ->
                        NoMore([rest EXCEPT !.context.state = "GOT_ALL"])
                   [] p.context.method = "POST" ->
                        [rest EXCEPT !.context.state = "EXPECT_BODY"]
                   [] OTHER -> rest)

TakeBody(p) ==
    LET n == p.context.length
    IN  IF Len(p.input) < n THEN NoMore(p)
        ELSE NoMore([p EXCEPT !.context.state = "GOT_ALL", !.context.body = n,
                              !.input = SubSeq(@, n + 1, Len(@))])

\* Content-Length is read with std::stoi, which throws on anything else.
Body(p) ==
    CASE p.context.length = NoLength -> NoMore(p)
      [] p.context.length = NotANumber -> NoMore([p EXCEPT !.abort = TRUE])
      [] OTHER -> TakeBody(p)

RECURSIVE ParseRequest(_)
ParseRequest(p) ==
    IF ~p.more THEN p
    ELSE ParseRequest(CASE p.context.state = "EXPECT_REQUEST_LINE" -> RequestLine(p)
                        [] p.context.state = "EXPECT_HEADERS" -> HeaderLine(p)
                        [] p.context.state = "EXPECT_BODY" -> Body(p))

-----------------------------------------------------------------------------
(* HttpServer.                                                              *)

\* onRequest(): whether the connection is to be closed after the response
WantsClose(c) ==
    c.connection = "close" \/ (c.version = "1.0" /\ c.connection # "Keep-Alive")

\* HttpResponse::appendToBuffer(): the end of a response is given by its
\* Content-Length or by the end of the connection.
ResponseEnd(close) == IF close THEN "close" ELSE "Content-Length"

\* HttpResponse::setCloseConnection(): the callback leaves the flag as
\* onRequest() initialised it, sets it or clears it.
CloseFlag(c, callback) ==
    CASE callback = "leaves it" -> WantsClose(c)
      [] callback = "sets it"   -> TRUE
      [] callback = "clears it" -> FALSE

\* reset()
ResetContext(c) == NewContext

\* onMessage(): one parse, one request at most.  send() drops what comes after
\* shutdown().  The response ends as the flag stands after the callback.
OnMessage(bytes) ==
    LET p == ParseRequest([context |-> context, input |-> input \o bytes,
                           ok |-> TRUE, more |-> TRUE, abort |-> FALSE])
    IN  /\ input' = p.input
        /\ CASE p.abort -> /\ httpState' = "aborted"
                           /\ UNCHANGED <<context, answered>>
             [] ~p.abort /\ ~p.ok -> /\ httpState' = "disconnecting"
                                     /\ context' = p.context
                                     /\ UNCHANGED answered
             [] ~p.abort /\ p.ok /\ p.context.state # "GOT_ALL" ->
                    context' = p.context /\ UNCHANGED <<httpState, answered>>
             [] OTHER -> \E callback \in {"leaves it", "sets it", "clears it"} :
                    LET close == CloseFlag(p.context, callback) IN
                    /\ answered' = IF httpState = "connected"
                                   THEN Append(answered, [method |-> p.context.method,
                                          version |-> p.context.version,
                                          length |-> p.context.length,
                                          connection |-> p.context.connection,
                                          body |-> p.context.body,
                                          callback |-> callback,
                                          end |-> ResponseEnd(close)])
                                   ELSE answered
                    /\ context' = ResetContext(p.context)
                    /\ httpState' = IF close THEN "disconnecting" ELSE httpState

SendRequest(r) ==
    /\ Len(sentRequests) < MaxRequests
    /\ sentRequests' = Append(sentRequests, r)
    /\ flight' = flight \o Encode(r)
    /\ UNCHANGED <<context, input, delivered, answered, httpState>>

\* Lengths of the requests 1..k on the wire
WireSize[k \in 0..MaxRequests] ==
    IF k = 0 \/ k > Len(sentRequests) THEN 0 ELSE WireSize[k - 1] + Len(Encode(sentRequests[k]))

ReadSocket(n) ==
    /\ httpState # "aborted"
    /\ flight' = SubSeq(flight, n + 1, Len(flight))
    /\ delivered' = LET arrived == WireSize[Len(sentRequests)] - Len(flight')
                    IN  CHOOSE k \in 0..Len(sentRequests) :
                           /\ WireSize[k] <= arrived
                           /\ k = Len(sentRequests) \/ WireSize[k + 1] > arrived
    /\ OnMessage(SubSeq(flight, 1, n))
    /\ UNCHANGED sentRequests

HttpNext ==
    \/ \E r \in HttpRequests : SendRequest(r)
    \/ \E n \in DOMAIN flight : ReadSocket(n)

-----------------------------------------------------------------------------
\* Requests the parser can complete
Complete(r) == r.version # "2.0" /\ (r.method = "GET" \/ (r.method = "POST" /\ r.length \in Nat))

\* However the bytes are cut, the answers are those to the requests of the
\* client, in order, each read with its own headers and body; when nothing is
\* left over every request that arrived is answered; a response without a
\* Content-Length is the last one and the connection is shut down; and the
\* process stops only on a Content-Length that is no number, or on bytes that
\* follow a request line refused for its version.
HttpAnswersInOrder ==
    /\ Len(answered) <= delivered
    /\ \A i \in DOMAIN answered :
          LET a == answered[i]
              r == sentRequests[i]
          IN  /\ Complete(r)
              /\ <<a.method, a.version, a.length, a.connection>>
                    = <<r.method, r.version, r.length, r.connection>>
              /\ a.body = BodySize(r)
              /\ a.end = ResponseEnd(CloseFlag(r, a.callback))
              /\ a.end = "close" => i = Len(answered) /\ httpState # "connected"
    /\ (httpState = "connected" /\ input = <<>> /\ context = NewContext)
           => Len(answered) = delivered
    /\ httpState = "aborted" =>
          \E i \in DOMAIN sentRequests :
              sentRequests[i].version = "2.0" \/ sentRequests[i].length = NotANumber

=============================================================================

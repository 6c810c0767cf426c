----------------------------- MODULE HttpServer -----------------------------
(***************************************************************************)
(* The HTTP layer over one client connection: the request parser           *)
(* (http/HttpContext), the handler chain Access, Static, PostRead, Proxy,  *)
(* Default (http/HttpHandler, http/HttpProxyHandler), the response filters *)
(* (http/HttpFilter) and, for every forwarded request, an HttpProxy with   *)
(* its TcpClient, Connector (maxRetry 0) and response parser.              *)
(*                                                                         *)
(* Everything runs in the connection's loop, so one callback runs at a     *)
(* time: pc is "idle" between callbacks, and each turn of a loop inside a  *)
(* callback (parseRequest, onRequest, parseResponse) is a step.            *)
(*                                                                         *)
(* A byte stream is a sequence of units: a line with its CRLF, or one body *)
(* byte.  A path is the sequence of its characters.                        *)
(*                                                                         *)
(* Peers do as they please: a client may send its next request, or a part  *)
(* of it, at any time, may not send a body it announced, and may leave; an *)
(* upstream may send anything, more than its reply or less, and close.     *)
(***************************************************************************)
EXTENDS Integers, Sequences, FiniteSets, FiniteSetsExt

CONSTANTS StaticLocations, ProxyLocations,  \* statics_, proxies_
          Found,       \* the <<location, path>> for which a static file exists
          Streams,     \* what the client may send, as a whole
          Replies,     \* what an upstream may answer, as a whole
          MaxProxies   \* bound: HttpProxy objects made

ASSUME HttpAssumption == MaxProxies \in Nat

Proxy == 1..MaxProxies
Locations == StaticLocations \cup ProxyLocations

VARIABLES
  rest, input,      \* the client's bytes not yet received; inputBuffer_
  state, request,   \* HttpContext::state_, request_
  conn,             \* the client TcpConnection's state_
  clientConnMap,    \* does clientConnMap hold the connection?
  proxy, current,   \* the upstream side; the proxy whose callback runs
  pc,
  asked, answers,   \* history: request lines taken, responses sent
  aborted,          \* the assert that failed: "setMethod", "clientConnMap"
  overrun           \* history: bytes came while a request was with an
                    \* upstream, or from an upstream that had been answered for

client == <<rest, conn>>
context == <<state, request>>
vars == <<rest, input, state, request, conn, clientConnMap, proxy, current,
          pc, asked, answers, aborted, overrun>>

NoRequest == [method |-> "kInvalid", path |-> <<>>, end |-> 0, length |-> 0,
              close |-> FALSE, id |-> 0]
NoProxy == [state |-> "none", id |-> 0, rest |-> <<>>, input |-> <<>>,
            parse |-> "kExpectStatusLine", length |-> 0]

Init ==
  /\ rest \in Streams
  /\ input = <<>>
  /\ state = "kExpectRequestLine"
  /\ request = NoRequest
  /\ conn = "kConnected"
  /\ clientConnMap = FALSE
  /\ proxy = [p \in Proxy |-> NoProxy]
  /\ current = 0
  /\ pc = "idle"
  /\ asked = <<>>
  /\ answers = <<>>
  /\ aborted = "none"
  /\ overrun = FALSE

-----------------------------------------------------------------------------
(* Streams of lines and body bytes *)

Kind(u) == u[1]
Byte == <<"byte">>
Drop(s, n) == SubSeq(s, n + 1, Len(s))

\* findCRLF: the unit that ends the first line, 0 if there is none.  Bytes in
\* front of it belong to that line.
Crlf(s) ==
  LET ends == {i \in DOMAIN s : s[i] # Byte} IN IF ends = {} THEN 0 ELSE Min(ends)

\* What parseHeaders makes of the first line: a header it looks at, another
\* header, the empty line, or a line without a colon.
HeaderKind(s) ==
  LET k == Kind(s[Crlf(s)]) IN
  CASE k \in {"length", "close"} -> IF Crlf(s) = 1 THEN k ELSE "other"
    [] k = "blank"               -> IF Crlf(s) = 1 THEN k ELSE "bad"
    [] OTHER                     -> "bad"

\* Streams are sequences, and so are the paths in them.
IsSequence(s) == s \in Seq(Range(s))
PathsOf(s) == {s[i][3] : i \in {j \in DOMAIN s : Kind(s[j]) = "line"}}

ASSUME StreamAssumption ==
  \A s \in Streams : IsSequence(s) /\ \A path \in PathsOf(s) : IsSequence(path)

-----------------------------------------------------------------------------
(* Responses *)

\* Mutant: the context goes back to the request line, the request stays.
RespondNoSwap(kind, from) ==
  /\ answers' = IF conn = "kConnected"
                THEN Append(answers, [id |-> request.id, from |-> from, kind |-> kind])
                ELSE answers
  /\ conn' = IF conn = "kConnected" /\ request.close THEN "kDisconnecting" ELSE conn
  /\ state' = "kExpectRequestLine"
  /\ UNCHANGED request

\* HttpHeadersFilter, HttpWriteFilter, and the reset of the context: send()
\* and shutdown() do nothing unless the connection is kConnected.
Respond(kind, from) ==
  /\ answers' = IF conn = "kConnected"
                THEN Append(answers, [id |-> request.id, from |-> from, kind |-> kind])
                ELSE answers
  /\ conn' = IF conn = "kConnected" /\ request.close THEN "kDisconnecting" ELSE conn
  /\ request' = NoRequest
  /\ state' = "kExpectRequestLine"

\* onBadMessage: 400 and shutdown; the context is not reset.
BadMessage(id) ==
  /\ answers' = IF conn = "kConnected"
                THEN Append(answers, [id |-> id, from |-> id, kind |-> "400"])
                ELSE answers
  /\ conn' = IF conn = "kConnected" THEN "kDisconnecting" ELSE conn
  /\ pc' = "idle"

-----------------------------------------------------------------------------
(* HttpServer::onMessage and HttpContext::parseRequest *)

\* A segment of n units arrives and messageCallback_ starts to parse, whatever
\* the context is doing.
Receive(n) ==
  /\ pc = "idle"
  /\ conn # "kDisconnected"
  /\ input' = input \o SubSeq(rest, 1, n)
  /\ rest' = Drop(rest, n)
  /\ pc' = "request"
  /\ overrun' = (overrun \/ state = "kGotAll")
  /\ UNCHANGED <<context, conn, clientConnMap, proxy, current, asked, answers, aborted>>

\* The client goes away: handleClose.  Pending proxies are not told.
Leave ==
  /\ pc = "idle"
  /\ conn # "kDisconnected"
  /\ conn' = "kDisconnected"
  /\ UNCHANGED <<rest, input, context, clientConnMap, proxy, current, pc,
                 asked, answers, aborted, overrun>>

\* No complete line: kParseAgain, the callback returns.
ParseAgain ==
  /\ pc = "request"
  /\ state \in {"kExpectRequestLine", "kExpectHeaders"}
  /\ Crlf(input) = 0
  /\ pc' = "idle"
  /\ UNCHANGED <<client, input, context, clientConnMap, proxy, current, asked,
                 answers, aborted, overrun>>

\* parseRequestLine.  setMethod asserts that method_ is still kInvalid; it is
\* called for every line with a space.  A bad line stays in the buffer, and
\* its method in the request.
ParseRequestLine ==
  /\ pc = "request"
  /\ state = "kExpectRequestLine"
  /\ Crlf(input) > 0
  /\ LET u == input[Crlf(input)]
         whole == Crlf(input) = 1 /\ Kind(u) = "line"
         method == IF whole THEN u[2] ELSE "kInvalid"
         good == whole /\ method # "kInvalid" /\ u[4]
         id == Len(asked) + 1
     IN  /\ aborted' = IF Kind(u) # "blank" /\ request.method # "kInvalid"
                       THEN "setMethod" ELSE aborted
         /\ asked' = Append(asked, [method |-> IF good THEN method ELSE "kInvalid",
                                    path |-> IF good THEN u[3] ELSE <<>>,
                                    late |-> FALSE])
         /\ \/ /\ good
               /\ request' = [request EXCEPT !.method = method, !.path = u[3],
                                             !.end = Len(u[3]), !.id = id]
               /\ input' = Drop(input, Crlf(input))
               /\ state' = "kExpectHeaders"
               /\ UNCHANGED <<conn, answers, pc>>
            \/ /\ ~good
               /\ request' = [request EXCEPT !.method = IF Kind(u) = "blank" THEN @ ELSE method]
               /\ BadMessage(id)
               /\ UNCHANGED <<input, state>>
  /\ UNCHANGED <<rest, clientConnMap, proxy, current, overrun>>

\* parseHeaders; a line that is bad is consumed.  The empty line leads through
\* kExpectBody, which reads nothing, to kGotAll.
ParseHeader ==
  /\ pc = "request"
  /\ state = "kExpectHeaders"
  /\ Crlf(input) > 0
  /\ LET kind == HeaderKind(input) IN
       /\ request' = CASE kind = "length" -> [request EXCEPT !.length = input[1][2]]
                       [] kind = "close"  -> [request EXCEPT !.close = TRUE]
                       [] OTHER           -> request
       /\ state' = IF kind = "blank" THEN "kGotAll" ELSE state
       /\ IF kind = "bad" THEN BadMessage(request.id) ELSE UNCHANGED <<answers, conn, pc>>
  /\ input' = Drop(input, Crlf(input))
  /\ UNCHANGED <<rest, clientConnMap, proxy, current, asked, aborted, overrun>>

\* kParseOK: onRequest.
ParseDone ==
  /\ pc = "request"
  /\ state = "kGotAll"
  /\ pc' = "handle"
  /\ UNCHANGED <<client, input, context, clientConnMap, proxy, current, asked,
                 answers, aborted, overrun>>

-----------------------------------------------------------------------------
(* HttpServer::onRequest: one pass through the handler chain per step *)

\* HttpAccessHandler: the first n characters of the path, then what is left of
\* it at each earlier slash, until a location is found; 0 when none is.
MatchLength(path, n) ==
  LET match[k \in 0..n] ==
        LET slashes == {i \in 1..(k - 1) : path[i] = "/"} IN
        IF SubSeq(path, 1, k) \in Locations THEN k
        ELSE IF slashes = {} THEN 0
        ELSE match[Max(slashes)]
  IN  match[n]

Matched == MatchLength(request.path, request.end)
Location == SubSeq(request.path, 1, Matched)
AsFile(method, location) == method \in {"kGet", "kHead"} /\ location \in StaticLocations
IsFile == AsFile(request.method, Location)

Done(kind) ==
  /\ Respond(kind, request.id)
  /\ pc' = "idle"
  /\ UNCHANGED <<rest, clientConnMap, proxy, current, asked, aborted, overrun>>

Handling == pc = "handle" /\ request.path # <<>>

\* An empty path: kHandleAgain, and nothing has changed.
HandleEmptyPath ==
  /\ pc = "handle"
  /\ request.path = <<>>
  /\ UNCHANGED vars

\* HttpAccessHandler finds no location.
HandleNoLocation ==
  /\ Handling
  /\ Matched = 0
  /\ Done("404")
  /\ UNCHANGED input

\* HttpStaticHandler has the file; open or mmap may fail unless it is a HEAD.
HandleStatic ==
  /\ Handling
  /\ Matched > 0
  /\ IsFile
  /\ <<Location, request.path>> \in Found
  /\ \E kind \in IF request.method = "kGet" THEN {"200", "404", "500"} ELSE {"200"} :
       Done(kind)
  /\ UNCHANGED input

\* HttpPostReadHandler: the body of a POST is not all in the buffer.
Late == request.method = "kPost" /\ request.length > Len(input)
MarkLate(history, i) == [history EXCEPT ![i].late = TRUE]

\* Mutant: the position is that of the location's end, which matches again.
HandleAgainSame ==
  /\ Handling
  /\ Matched > 0
  /\ \/ IsFile /\ <<Location, request.path>> \notin Found
     \/ Late
  /\ request' = [request EXCEPT !.end = Matched]
  /\ asked' = IF Late THEN MarkLate(asked, request.id) ELSE asked
  /\ UNCHANGED <<client, input, state, clientConnMap, proxy, current, pc,
                 answers, aborted, overrun>>

\* kHandleAgain: the static handler has no file, or the body of a POST is not
\* all in the buffer.  The next pass looks for a shorter location; for the
\* POST it will not help, as nothing is received between passes.
HandleAgain ==
  /\ Handling
  /\ Matched > 0
  /\ \/ IsFile /\ <<Location, request.path>> \notin Found
     \/ Late
  /\ request' = [request EXCEPT !.end = Matched - 1]
  /\ asked' = IF Late THEN MarkLate(asked, request.id) ELSE asked
  /\ UNCHANGED <<client, input, state, clientConnMap, proxy, current, pc,
                 answers, aborted, overrun>>

\* HttpPostReadHandler: the Content-Length (-1) is not a number.
HandleBadLength ==
  /\ Handling
  /\ Matched > 0
  /\ request.method = "kPost"
  /\ request.length = -1
  /\ Done("400")
  /\ UNCHANGED input

\* HttpPostReadHandler has let the request pass, having taken the body of a POST.
BodyTaken ==
  /\ Handling
  /\ Matched > 0
  /\ ~IsFile
  /\ request.method = "kPost" => request.length \in 0..Len(input)
  /\ input' = IF request.method = "kPost" THEN Drop(input, request.length) ELSE input

\* HttpDefaultHandler.
HandleDefault ==
  /\ BodyTaken
  /\ Location \notin ProxyLocations
  /\ Done("404")

\* Mutant: kForwarded is taken for kHandleDone, and the request answered.
ForwardAndAnswer(outcome) ==
  /\ BodyTaken
  /\ Location \in ProxyLocations
  /\ \E p \in Proxy, reply \in Replies :
       /\ \A q \in Proxy : (proxy[q].state = "none") <=> (q >= p)
       /\ proxy' = [proxy EXCEPT ![p] = [NoProxy EXCEPT !.state = outcome, !.rest = reply,
                                                        !.id = request.id]]
  /\ pc' = "idle"
  /\ Respond("503", request.id)
  /\ clientConnMap' = (outcome # "failed")
  /\ UNCHANGED <<rest, current, asked, aborted, overrun>>

\* HttpProxyHandler::handle with Connector::connect.  A refused connection
\* calls onForwardFailed before connect() returns; any other error closes the
\* socket and calls nobody.
Forward(outcome) ==
  /\ BodyTaken
  /\ Location \in ProxyLocations
  /\ \E p \in Proxy, reply \in Replies :
       /\ \A q \in Proxy : (proxy[q].state = "none") <=> (q >= p)
       /\ proxy' = [proxy EXCEPT ![p] = [NoProxy EXCEPT !.state = outcome, !.rest = reply,
                                                        !.id = request.id]]
  /\ pc' = "idle"
  /\ IF outcome = "failed"
     THEN Respond("503", request.id) /\ clientConnMap' = FALSE
     ELSE /\ request' = [request EXCEPT !.end = Matched - 1]
          /\ clientConnMap' = TRUE
          /\ UNCHANGED <<conn, answers, state>>
  /\ UNCHANGED <<rest, current, asked, aborted, overrun>>

-----------------------------------------------------------------------------
(* The upstream side *)

\* Connector::handleWrite, TcpClient::newConnection: the request is sent.
Connected(p) ==
  /\ pc = "idle"
  /\ proxy[p].state = "connecting"
  /\ proxy' = [proxy EXCEPT ![p].state = "connected"]
  /\ UNCHANGED <<client, input, context, clientConnMap, current, pc, asked,
                 answers, aborted, overrun>>

\* Mutant: the entry of clientConnMap is not erased.
ProxyAnswerKept(p, kind) ==
  /\ aborted' = IF clientConnMap THEN aborted ELSE "clientConnMap"
  /\ Respond(kind, proxy[p].id)
  /\ UNCHANGED clientConnMap

\* doProxyResponse, onBadUpstreamResponse and onForwardFailed: find the client
\* (asserted), answer through proxyResponseCallback, erase the entry.
ProxyAnswer(p, kind) ==
  /\ aborted' = IF clientConnMap THEN aborted ELSE "clientConnMap"
  /\ Respond(kind, proxy[p].id)
  /\ clientConnMap' = FALSE

\* handleWrite or handleError with an error, retry with maxRetry_ 0, and
\* onForwardFailed.
ConnectFailed(p) ==
  /\ pc = "idle"
  /\ proxy[p].state = "connecting"
  /\ proxy' = [proxy EXCEPT ![p].state = "failed"]
  /\ ProxyAnswer(p, "503")
  /\ UNCHANGED <<rest, input, current, pc, asked, overrun>>

\* A segment from the upstream; the connection is read after shutdown() too.
ReplyArrives(p, n) ==
  /\ pc = "idle"
  /\ proxy[p].state \in {"connected", "shut"}
  /\ proxy' = [proxy EXCEPT ![p].input = @ \o SubSeq(proxy[p].rest, 1, n),
                            ![p].rest = Drop(@, n)]
  /\ current' = p
  /\ pc' = "response"
  /\ overrun' = (overrun \/ proxy[p].state = "shut")
  /\ UNCHANGED <<client, input, context, clientConnMap, asked, answers, aborted>>

\* TcpClient::removeConnection; nobody tells the client, whose request is lost
\* if it was not answered yet.
UpstreamCloses(p) ==
  /\ pc = "idle"
  /\ proxy[p].state \in {"connected", "shut"}
  /\ proxy' = [proxy EXCEPT ![p].state = IF @ = "connected" THEN "lost" ELSE "closed"]
  /\ UNCHANGED <<client, input, context, clientConnMap, current, pc, asked,
                 answers, aborted, overrun>>

\* What a callback of proxy p answers, closing its write side.
Shut(p, kind) ==
  /\ ProxyAnswer(p, kind)
  /\ pc' = "idle"

\* parseResponse: a line that is missing ends the callback; a bad one is
\* consumed and answered with 500.
ParseReplyLine(p) ==
  LET r == proxy[p]
      i == Crlf(r.input)
      kind == IF r.parse = "kExpectHeaders" THEN HeaderKind(r.input)
              ELSE IF i = 1 THEN Kind(r.input[1]) ELSE "bad"
      taken == [r EXCEPT !.input = Drop(@, i)]
  IN  /\ r.parse \in {"kExpectStatusLine", "kExpectHeaders"}
      /\ \/ /\ i = 0
            /\ pc' = "idle"
            /\ UNCHANGED <<proxy, context, conn, clientConnMap, answers, aborted>>
         \/ /\ i > 0
            /\ kind \in IF r.parse = "kExpectStatusLine" THEN {"status"}
                        ELSE {"length", "close", "other", "blank"}
            /\ proxy' = [proxy EXCEPT ![p] =
                 [taken EXCEPT !.parse = IF kind = "status" THEN "kExpectHeaders"
                                         ELSE IF kind = "blank" THEN "kExpectBody" ELSE @,
                               !.length = IF kind = "length" THEN r.input[1][2] ELSE @]]
            /\ UNCHANGED <<context, conn, clientConnMap, answers, pc, aborted>>
         \/ /\ i > 0
            /\ kind \notin IF r.parse = "kExpectStatusLine" THEN {"status"}
                           ELSE {"length", "close", "other", "blank"}
            /\ proxy' = [proxy EXCEPT ![p] = [taken EXCEPT !.state = "shut"]]
            /\ Shut(p, "500")

\* parseBody: with less than Content-Length in the buffer the loop of
\* parseResponse goes round again, and nothing has changed.
ParseReplyBody(p) ==
  LET r == proxy[p] IN
  /\ r.parse = "kExpectBody"
  /\ \/ /\ r.length \in 0..Len(r.input)
        /\ proxy' = [proxy EXCEPT ![p].parse = "kGotAll", ![p].input = Drop(@, r.length)]
        /\ UNCHANGED <<context, conn, clientConnMap, answers, pc, aborted>>
     \/ /\ r.length = -1
        /\ proxy' = [proxy EXCEPT ![p].state = "shut"]
        /\ Shut(p, "500")
     \/ /\ r.length > Len(r.input)
        /\ UNCHANGED <<proxy, context, conn, clientConnMap, answers, pc, aborted>>

\* kParseOK: doProxyResponse.  The state is not reset.
ProxyResponse(p) ==
  /\ proxy[p].parse = "kGotAll"
  /\ proxy' = [proxy EXCEPT ![p].state = "shut"]
  /\ Shut(p, "upstream")

ParseResponse ==
  /\ pc = "response"
  /\ ParseReplyLine(current) \/ ParseReplyBody(current) \/ ProxyResponse(current)
  /\ UNCHANGED <<rest, input, current, asked, overrun>>

-----------------------------------------------------------------------------
ParseRequest == ParseAgain \/ ParseRequestLine \/ ParseHeader \/ ParseDone

HandleRequest ==
  \/ HandleEmptyPath \/ HandleNoLocation \/ HandleStatic \/ HandleAgain
  \/ HandleBadLength \/ HandleDefault
  \/ \E outcome \in {"connecting", "failed", "dead"} : Forward(outcome)

Running == aborted = "none"

\* The callback that is running goes on.
Callback == Running /\ (ParseRequest \/ HandleRequest \/ ParseResponse)

Upstream(p) ==
  Running /\ (Connected(p) \/ ConnectFailed(p) \/ \E n \in DOMAIN proxy[p].rest : ReplyArrives(p, n))

Next ==
  \/ Callback
  \/ Running /\ (Leave \/ \E n \in DOMAIN rest : Receive(n))
  \/ \E p \in Proxy : Upstream(p) \/ (Running /\ UpstreamCloses(p))

\* The loop goes on with a callback it has begun; an upstream accepts or
\* refuses, and sends what it has to send.
Spec ==
  /\ Init
  /\ [][Next]_vars
  /\ WF_vars(Callback)
  /\ \A p \in Proxy : WF_vars(Upstream(p))

-----------------------------------------------------------------------------
\* setMethod's assert fails only in a connection that the server has shut down,
\* after a request line it refused and kept; the assert of doProxyResponse,
\* onBadUpstreamResponse and onForwardFailed, that the client is still in
\* clientConnMap, only after an overrun.
NoAssertFails ==
  /\ aborted = "setMethod" => conn = "kDisconnecting"
  /\ aborted = "clientConnMap" => overrun

\* The lengths of the prefixes of a path that are locations and can serve it:
\* GET and HEAD pass over static locations that have no such file.
Serving(method, path) ==
  {k \in DOMAIN path :
     LET location == SubSeq(path, 1, k) IN
     /\ location \in Locations
     /\ AsFile(method, location) => <<location, path>> \in Found}

\* The prefixes the walk is meant to look at: the path itself, and what ends
\* in a slash.
Stops(path) == {k \in DOMAIN path : k = Len(path) \/ path[k] = "/"}

\* The location that serves a request is the longest of those, or a longer one
\* the walk meets because it takes a character off the location it leaves.
Chosen(method, path) ==
  {k \in Serving(method, path) : \A j \in Serving(method, path) \cap Stops(path) : j <= k}

\* What a location answers.
Offers(method, location) ==
  IF AsFile(method, location) THEN {"200", "404", "500"}
  ELSE IF location \in ProxyLocations THEN {"upstream", "503", "500"}
  ELSE {"404"}

\* What a request may be answered with.
Permitted(method, path) ==
  (UNION {Offers(method, SubSeq(path, 1, k)) : k \in Chosen(method, path)})
    \cup {kind \in {"404"} : Serving(method, path) \cap Stops(path) = {}}

\* Responses leave in the order of the requests, one for each; the result of a
\* proxy goes to the request it was made for, although the handlers find the
\* request through the connection alone.
AnsweredInOrder == \A i \in DOMAIN answers : answers[i].id = i /\ answers[i].from = i

\* The answer fits the request: a line or a header may be refused; a POST whose
\* body was late finds no location; any other request is answered by the
\* location that should serve it.
Fits(a, kind) ==
  \/ kind = "400"
  \/ a.method # "kInvalid" /\ kind \in IF a.late THEN {"404"} ELSE Permitted(a.method, a.path)

\* Until an overrun, responses leave in order, and the walk of HttpAccessHandler
\* from slash to slash, repeated by onRequest on kHandleAgain, ends at the
\* location that should serve the request.
AnsweredRight ==
  overrun \/ /\ AnsweredInOrder
             /\ \A i \in DOMAIN answers : Fits(asked[answers[i].id], answers[i].kind)

\* The proxy has a request it has not answered.
Working(p) == proxy[p].state \in {"connecting", "connected", "dead", "lost"}

\* Until an overrun, the client is in clientConnMap exactly as long as a proxy
\* works for the request in its context, or has given up without telling: no
\* entry outlives its answer (it would keep the closed connection alive), and
\* none is erased under a proxy.
EntryPending ==
  overrun \/ (clientConnMap <=> \E p \in Proxy : /\ Working(p)
                                                 /\ state = "kGotAll"
                                                 /\ proxy[p].id = request.id)

\* The callback never returns: onRequest on an empty path, parseResponse on a
\* body that is not all there.
Spinning ==
  \/ pc = "handle" /\ request.path = <<>>
  \/ /\ pc = "response"
     /\ proxy[current].parse = "kExpectBody"
     /\ proxy[current].length > Len(proxy[current].input)

\* Nobody will answer: the connect() failed otherwise than by refusal, or the
\* upstream closed, or has nothing more to send, before its reply was whole.
Forsaken(i) ==
  \E p \in Proxy :
    /\ proxy[p].id = i
    /\ \/ proxy[p].state \in {"dead", "lost"}
       \/ proxy[p].state = "connected" /\ proxy[p].rest = <<>> /\ pc = "idle"

\* A request read to the end of its headers on an open connection is answered,
\* by a handler, by the upstream or by onForwardFailed, unless the client
\* leaves, the loop spins, the upstream fails to reply or an assert fails.
RequestAnswered ==
  \A i \in 1..2 :
    (state = "kGotAll" /\ request.id = i /\ conn = "kConnected") ~>
      (Len(answers) >= i \/ conn = "kDisconnected" \/ Spinning \/ Forsaken(i) \/ ~Running)
=============================================================================

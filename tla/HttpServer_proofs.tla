-------------------------- MODULE HttpServer_proofs --------------------------
(***************************************************************************)
(* One client connection and its proxies, for any locations, any streams   *)
(* of the client, cut into any segments, any replies of the upstreams and  *)
(* any number of proxies: which assertions can fail and when, that until   *)
(* an overrun an entry of clientConnMap lives exactly as long as its proxy *)
(* works, and that responses leave in the order of the requests.           *)
(*                                                                         *)
(* The inductive invariant HInv has a part that always holds, Steady, and  *)
(* a part that an overrun breaks: whose turn it is (Turn), and that at     *)
(* most one proxy works, for the request in the context, and never while   *)
(* parseRequest or onRequest runs (Proxies).                               *)
(***************************************************************************)
EXTENDS HttpServer, SequenceTheorems, WellFoundedInduction, TLAPS

-----------------------------------------------------------------------------
(* Sequences                                                               *)

\* A sequence has a length and a domain.
LEMMA SeqFacts ==
  ASSUME NEW s, IsSequence(s)
  PROVE  /\ Len(s) \in Nat /\ DOMAIN s = 1..Len(s)
         /\ s = <<>> <=> Len(s) = 0
BY EmptySeq, LenProperties, Zenon DEF IsSequence

\* What is a sequence over some set is a sequence.
LEMMA SeqIsSeq ==
  ASSUME NEW S, NEW s \in Seq(S)
  PROVE  IsSequence(s)
BY SeqOfRange, Zenon DEF IsSequence

\* Append.
LEMMA SeqAppend ==
  ASSUME NEW s, IsSequence(s), NEW x
  PROVE  /\ IsSequence(Append(s, x)) /\ Len(Append(s, x)) = Len(s) + 1
         /\ \A i \in 1..Len(s) : Append(s, x)[i] = s[i]
         /\ Append(s, x)[Len(s) + 1] = x
<1> DEFINE S == Range(s) \cup {x}
<1>1. s \in Seq(S) /\ x \in S
  BY SeqMonotonic, Zenon DEF IsSequence
<1> HIDE DEF S
<1>2. /\ Append(s, x) \in Seq(S) /\ Len(Append(s, x)) = Len(s) + 1
      /\ \A i \in 1..Len(s) : Append(s, x)[i] = s[i]
      /\ Append(s, x)[Len(s) + 1] = x
  BY <1>1, AppendProperties
<1> QED BY <1>2, SeqIsSeq, Zenon

\* A request in the history is marked.
LEMMA SeqSet ==
  ASSUME NEW s, IsSequence(s), NEW i
  PROVE  /\ IsSequence(MarkLate(s, i)) /\ Len(MarkLate(s, i)) = Len(s)
         /\ \A j \in 1..Len(s) : j # i => MarkLate(s, i)[j] = s[j]
         /\ i \in 1..Len(s) => MarkLate(s, i)[i] = [s[i] EXCEPT !.late = TRUE]
<1> DEFINE t == MarkLate(s, i)
<1>1. Len(s) \in Nat /\ DOMAIN s = 1..Len(s)
  BY SeqFacts, Zenon
<1>2. /\ t = [j \in 1..Len(s) |-> t[j]]
      /\ \A j \in 1..Len(s) : j # i => t[j] = s[j]
      /\ i \in 1..Len(s) => t[i] = [s[i] EXCEPT !.late = TRUE]
  BY <1>1, Zenon DEF MarkLate
<1> HIDE DEF t
<1> DEFINE S == {t[j] : j \in 1..Len(s)}
<1>3. t \in [1..Len(s) -> S] /\ DOMAIN t = 1..Len(s)
  BY <1>2, Zenon
<1> HIDE DEF S
<1>4. t \in Seq(S)
  BY <1>1, <1>3, SeqDef, Zenon
<1>5. DOMAIN t = 1..Len(t) /\ Len(t) \in Nat
  BY <1>4, LenProperties, Zenon
<1>6. Len(t) = Len(s)
  BY <1>1, <1>3, <1>5
<1> QED BY <1>2, <1>4, <1>6, SeqIsSeq, Zenon DEF t

-----------------------------------------------------------------------------
(* The invariant                                                           *)

Fields == {"method", "path", "end", "length", "close", "id"}
PFields == {"state", "id", "rest", "input", "parse", "length"}

Types ==
  /\ state \in {"kExpectRequestLine", "kExpectHeaders", "kGotAll"}
  /\ conn \in {"kConnected", "kDisconnecting", "kDisconnected"}
  /\ pc \in {"idle", "request", "handle", "response"}
  /\ aborted \in {"none", "setMethod", "clientConnMap"}
  /\ clientConnMap \in BOOLEAN /\ overrun \in BOOLEAN
  /\ DOMAIN request = Fields
  /\ IsSequence(asked) /\ IsSequence(answers)

ProxyTypes ==
  /\ proxy = [p \in Proxy |-> proxy[p]]
  /\ \A p \in Proxy : DOMAIN proxy[p] = PFields
  /\ pc = "response" => current \in Proxy

\* What holds whatever the peers do: a method is left in the context of a
\* request line only by a refusal, which shuts the connection down.
Steady ==
  /\ state = "kExpectRequestLine" /\ request.method # "kInvalid" => conn # "kConnected"
  /\ pc \in {"request", "handle"} => conn # "kDisconnected"
  /\ pc = "handle" => state = "kGotAll"
  /\ state # "kExpectRequestLine" => request.id = Len(asked)
  /\ NoAssertFails

\* Whose turn it is: while the connection is open, a request is in the context
\* exactly when one more was asked than answered.
Turn ==
  /\ conn = "kConnected" =>
       Len(asked) = Len(answers) + (IF state = "kExpectRequestLine" THEN 0 ELSE 1)
  /\ AnsweredInOrder

\* At most one proxy works, for the request in the context, and none while a
\* request is parsed or handled.
Proxies ==
  /\ \A p \in Proxy : Working(p) => clientConnMap /\ state = "kGotAll" /\ proxy[p].id = request.id
  /\ \A p, q \in Proxy : Working(p) /\ Working(q) => p = q
  /\ clientConnMap => \E p \in Proxy : Working(p)
  /\ pc \in {"request", "handle"} => ~clientConnMap
  /\ pc = "response" => proxy[current].state = "connected"

HInv == Types /\ ProxyTypes /\ Steady /\ (overrun \/ (Turn /\ Proxies))

-----------------------------------------------------------------------------
(* What several steps have in common                                       *)

\* No proxy works and none begins to: the upstream side is as before.
LEMMA QuietProxies ==
  ASSUME Proxies, ~clientConnMap, UNCHANGED proxy, ~clientConnMap', pc' # "response"
  PROVE  Proxies'
<1>1. \A p \in Proxy : ~Working(p) /\ ~Working(p)'
  BY Zenon DEF Proxies, Working
<1> QED BY <1>1, Zenon DEF Proxies

\* An answer appended to the answers.
LEMMA InOrder ==
  ASSUME IsSequence(answers), AnsweredInOrder, NEW id, NEW from, NEW kind,
         id = Len(answers) + 1, from = Len(answers) + 1,
         answers' = Append(answers, [id |-> id, from |-> from, kind |-> kind])
  PROVE  IsSequence(answers') /\ Len(answers') = Len(answers) + 1 /\ AnsweredInOrder'
<1> DEFINE a == [id |-> id, from |-> from, kind |-> kind]
<1>1. a.id = id /\ a.from = from
  OBVIOUS
<1> HIDE DEF a
<1>2. /\ IsSequence(answers') /\ Len(answers') = Len(answers) + 1
      /\ \A i \in 1..Len(answers) : answers'[i] = answers[i]
      /\ answers'[Len(answers) + 1] = a
  BY SeqAppend DEF a
<1>3. Len(answers) \in Nat /\ DOMAIN answers = 1..Len(answers)
  BY SeqFacts, Zenon
<1>4. DOMAIN answers' = 1..(Len(answers) + 1)
  BY <1>2, SeqFacts, Zenon
<1>5. ASSUME NEW i \in DOMAIN answers' PROVE answers'[i].id = i /\ answers'[i].from = i
  <2>1. CASE i \in 1..Len(answers)
    BY <1>2, <1>3, <2>1, Zenon DEF AnsweredInOrder
  <2>2. CASE i = Len(answers) + 1
    BY <1>1, <1>2, <2>2, Zenon
  <2> QED BY <1>3, <1>4, <2>1, <2>2, SMTT(30)
<1> QED BY <1>2, <1>5, Zenon DEF AnsweredInOrder

\* The context is reset, whatever was in it.
LEMMA RespondSteady ==
  ASSUME Types, Steady, NEW kind, NEW from, Respond(kind, from), pc' = "idle",
         UNCHANGED <<asked, overrun>>, clientConnMap' \in BOOLEAN,
         aborted' = aborted \/ (aborted' = "clientConnMap" /\ overrun)
  PROVE  Types' /\ Steady'
<1>1. /\ state' = "kExpectRequestLine" /\ request' = NoRequest
      /\ conn' = IF conn = "kConnected" /\ request.close THEN "kDisconnecting" ELSE conn
      /\ answers' = IF conn = "kConnected"
                    THEN Append(answers, [id |-> request.id, from |-> from, kind |-> kind])
                    ELSE answers
  BY Zenon DEF Respond
<1>2. DOMAIN request' = Fields /\ request'.method = "kInvalid"
  BY <1>1, Zenon DEF NoRequest, Fields
<1>3. IsSequence(answers')
  <2> DEFINE a == [id |-> request.id, from |-> from, kind |-> kind]
  <2> HIDE DEF a
  <2>1. IsSequence(Append(answers, a))
    BY SeqAppend, Zenon DEF Types
  <2> QED BY <1>1, <2>1, Zenon DEF Types, a
<1>4. conn' \in {"kConnected", "kDisconnecting", "kDisconnected"}
  BY <1>1, Zenon DEF Types
<1>5. Types'
  BY <1>1, <1>2, <1>3, <1>4, Zenon DEF Types
<1>6. NoAssertFails'
  BY <1>1, Zenon DEF Steady, NoAssertFails
<1>7. Steady'
  BY <1>1, <1>2, <1>6, Zenon DEF Steady
<1> QED BY <1>5, <1>7, Zenon

\* A request is answered in its turn.
LEMMA RespondTurn ==
  ASSUME Types, Steady, Turn, state = "kGotAll", NEW kind, Respond(kind, request.id),
         UNCHANGED asked
  PROVE  Turn'
<1>1. CASE conn = "kConnected"
  <2>1. Len(asked) = Len(answers) + 1 /\ request.id = Len(asked)
    BY <1>1, Zenon DEF Turn, Steady
  <2>2. answers' = Append(answers, [id |-> request.id, from |-> request.id, kind |-> kind])
    BY <1>1, Zenon DEF Respond
  <2>3. Len(answers') = Len(answers) + 1 /\ AnsweredInOrder'
    BY <2>1, <2>2, InOrder, Zenon DEF Types, Turn
  <2>4. state' = "kExpectRequestLine"
    BY Zenon DEF Respond
  <2>5. Len(asked') = Len(answers') + 0
    BY <2>1, <2>3, SeqFacts, SMTT(30) DEF Types
  <2> QED BY <2>3, <2>4, <2>5, Zenon DEF Turn
<1>2. CASE conn # "kConnected"
  <2>1. answers' = answers /\ conn' = conn
    BY <1>2, Zenon DEF Respond
  <2> QED BY <1>2, <2>1, Zenon DEF Turn, AnsweredInOrder
<1> QED BY <1>1, <1>2, Zenon

\* The proxy that works has answered, and works no more.
LEMMA ProxyGone ==
  ASSUME Proxies, NEW p \in Proxy, Working(p), ~clientConnMap', ~Working(p)', pc' = "idle",
         \A q \in Proxy : q # p => proxy'[q] = proxy[q]
  PROVE  Proxies'
<1>1. \A q \in Proxy : ~Working(q)'
  BY Zenon DEF Proxies, Working
<1> QED BY <1>1, Zenon DEF Proxies

\* The state of one proxy changes, and nothing else of it.
LEMMA ProxySet ==
  ASSUME ProxyTypes, NEW p \in Proxy, NEW new, DOMAIN new = PFields,
         proxy' = [proxy EXCEPT ![p] = new], pc' = "response" => current' \in Proxy
  PROVE  ProxyTypes' /\ proxy'[p] = new /\ \A q \in Proxy : q # p => proxy'[q] = proxy[q]
<1>1. /\ proxy' = [q \in Proxy |-> proxy'[q]] /\ proxy'[p] = new
      /\ \A q \in Proxy : q # p => proxy'[q] = proxy[q]
  BY Zenon DEF ProxyTypes
<1> QED BY <1>1, Zenon DEF ProxyTypes

-----------------------------------------------------------------------------
(* The client's steps                                                      *)

\* A segment arrives.  Under a request it is an overrun.
LEMMA ReceiveStep ==
  ASSUME HInv, NEW n, Receive(n)
  PROVE  HInv'
<1> USE DEF HInv
<1>1. /\ pc = "idle" /\ conn # "kDisconnected" /\ pc' = "request"
      /\ overrun' = (overrun \/ state = "kGotAll")
      /\ UNCHANGED <<state, request, conn, clientConnMap, proxy, current, asked, answers, aborted>>
  BY Zenon DEF Receive, context
<1>2. Types' /\ ProxyTypes'
  BY <1>1, Zenon DEF Types, ProxyTypes
<1>3. Steady'
  BY <1>1, Zenon DEF Steady, NoAssertFails
<1>4. ASSUME ~overrun' PROVE Turn' /\ Proxies'
  <2>1. Turn /\ Proxies /\ state # "kGotAll"
    BY <1>1, <1>4, Zenon
  <2>2. ~clientConnMap
    BY <2>1, Zenon DEF Proxies
  <2>3. Turn'
    BY <1>1, <2>1, Zenon DEF Turn, AnsweredInOrder
  <2>4. Proxies'
    BY <1>1, <2>1, <2>2, QuietProxies, Zenon
  <2> QED BY <2>3, <2>4, Zenon
<1> QED BY <1>2, <1>3, <1>4, Zenon

\* The client goes away: its turn is over, and a proxy works on.
LEMMA LeaveStep ==
  ASSUME HInv, Leave, Running
  PROVE  HInv'
<1> USE DEF HInv
<1>1. /\ pc = "idle" /\ conn' = "kDisconnected" /\ aborted = "none"
      /\ UNCHANGED <<state, request, clientConnMap, proxy, current, pc,
                     asked, answers, aborted, overrun>>
  BY Zenon DEF Leave, context, Running
<1>2. Types' /\ ProxyTypes'
  BY <1>1, Zenon DEF Types, ProxyTypes
<1>3. Steady'
  BY <1>1, Zenon DEF Steady, NoAssertFails
<1>4. Turn => Turn'
  BY <1>1, Zenon DEF Turn, AnsweredInOrder
<1>5. Proxies => Proxies'
  BY <1>1, Zenon DEF Proxies, Working
<1> QED BY <1>1, <1>2, <1>3, <1>4, <1>5, Zenon

\* No complete line.
LEMMA ParseAgainStep ==
  ASSUME HInv, ParseAgain
  PROVE  HInv'
<1> USE DEF HInv
<1>1. /\ pc = "request" /\ pc' = "idle"
      /\ UNCHANGED <<conn, state, request, clientConnMap, proxy, current,
                     asked, answers, aborted, overrun>>
  BY Zenon DEF ParseAgain, context, client
<1>2. Types' /\ ProxyTypes'
  BY <1>1, Zenon DEF Types, ProxyTypes
<1>3. Steady'
  BY <1>1, Zenon DEF Steady, NoAssertFails
<1>4. Turn => Turn'
  BY <1>1, Zenon DEF Turn, AnsweredInOrder
<1>5. Proxies => Proxies'
  BY <1>1, Zenon DEF Proxies, Working
<1> QED BY <1>1, <1>2, <1>3, <1>4, <1>5, Zenon

\* The headers are read.
LEMMA ParseDoneStep ==
  ASSUME HInv, ParseDone
  PROVE  HInv'
<1> USE DEF HInv
<1>1. /\ pc = "request" /\ state = "kGotAll" /\ pc' = "handle"
      /\ UNCHANGED <<conn, state, request, clientConnMap, proxy, current,
                     asked, answers, aborted, overrun>>
  BY Zenon DEF ParseDone, context, client
<1>2. Types' /\ ProxyTypes'
  BY <1>1, Zenon DEF Types, ProxyTypes
<1>3. Steady'
  BY <1>1, Zenon DEF Steady, NoAssertFails
<1>4. Turn => Turn'
  BY <1>1, Zenon DEF Turn, AnsweredInOrder
<1>5. Proxies => Proxies'
  BY <1>1, Zenon DEF Proxies, Working
<1> QED BY <1>1, <1>2, <1>3, <1>4, <1>5, Zenon

\* The request line.  An open connection's context was reset, so method_ is
\* kInvalid: the assert fails only if the connection is shut down.
LEMMA ParseRequestLineStep ==
  ASSUME HInv, Running, ParseRequestLine
  PROVE  HInv'
<1> USE DEF HInv
<1> DEFINE c == Crlf(input)
           u == input[c]
           whole == c = 1 /\ Kind(u) = "line"
           method == IF whole THEN u[2] ELSE "kInvalid"
           good == whole /\ method # "kInvalid" /\ u[4]
           id == Len(asked) + 1
           a == [method |-> IF good THEN method ELSE "kInvalid",
                 path |-> IF good THEN u[3] ELSE <<>>, late |-> FALSE]
<1>1. /\ pc = "request" /\ state = "kExpectRequestLine"
      /\ aborted' = IF Kind(u) # "blank" /\ request.method # "kInvalid"
                    THEN "setMethod" ELSE aborted
      /\ asked' = Append(asked, a)
      /\ UNCHANGED <<rest, clientConnMap, proxy, current, overrun>>
  BY Zenon DEF ParseRequestLine
<1>2. \/ /\ good
         /\ request' = [request EXCEPT !.method = method, !.path = u[3],
                                       !.end = Len(u[3]), !.id = id]
         /\ state' = "kExpectHeaders"
         /\ UNCHANGED <<conn, answers, pc>>
      \/ /\ ~good
         /\ request' = [request EXCEPT !.method = IF Kind(u) = "blank" THEN @ ELSE method]
         /\ BadMessage(id)
         /\ UNCHANGED <<input, state>>
  BY Zenon DEF ParseRequestLine
<1>3. Len(asked) \in Nat /\ Len(answers) \in Nat
  BY SeqFacts, Zenon DEF Types
<1>4. IsSequence(asked') /\ Len(asked') = Len(asked) + 1
  <2> HIDE DEF a
  <2> QED BY <1>1, SeqAppend, Zenon DEF Types
<1> HIDE DEF a, c
<1>5. conn # "kDisconnected" /\ aborted = "none"
  BY <1>1, Zenon DEF Steady, Running
<1>6. aborted' # "none" => aborted' = "setMethod" /\ conn = "kDisconnecting"
  BY <1>1, <1>5, Zenon DEF Steady, Types
<1>7. CASE good
  <2>1. /\ state' = "kExpectHeaders" /\ pc' = "request"
        /\ request' = [request EXCEPT !.method = method, !.path = u[3],
                                      !.end = Len(u[3]), !.id = id]
        /\ UNCHANGED <<conn, answers>>
    BY <1>1, <1>2, <1>7, Zenon
  <2> HIDE DEF good, method
  <2>2. DOMAIN request' = Fields /\ request'.id = Len(asked')
    BY <1>4, <2>1, Zenon DEF Types, Fields
  <2>3. Types'
    BY <1>1, <1>4, <1>6, <2>1, <2>2, Zenon DEF Types
  <2>4. ProxyTypes'
    BY <1>1, <2>1, Zenon DEF ProxyTypes
  <2>5. NoAssertFails'
    BY <1>5, <1>6, <2>1, Zenon DEF NoAssertFails
  <2>6. Steady'
    BY <1>5, <2>1, <2>2, <2>5, Zenon DEF Steady
  <2>7. Turn => Turn'
    <3>1. Len(asked) = Len(answers) + 0 => Len(asked') = Len(answers') + 1
      BY <1>3, <1>4, <2>1, SMTT(30)
    <3> QED BY <1>1, <2>1, <3>1, Zenon DEF Turn, AnsweredInOrder
  <2>8. Proxies => Proxies'
    <3>1. Proxies => ~clientConnMap
      BY <1>1, Zenon DEF Proxies
    <3> QED BY <1>1, <2>1, <3>1, QuietProxies, Zenon
  <2> QED BY <1>1, <2>3, <2>4, <2>6, <2>7, <2>8, Zenon
<1>8. CASE ~good
  <2>1. /\ request' = [request EXCEPT !.method = IF Kind(u) = "blank" THEN @ ELSE method]
        /\ BadMessage(id) /\ UNCHANGED <<input, state>>
    BY <1>2, <1>8, Zenon
  <2>2. /\ answers' = IF conn = "kConnected"
                      THEN Append(answers, [id |-> id, from |-> id, kind |-> "400"])
                      ELSE answers
        /\ conn' = "kDisconnecting" /\ pc' = "idle"
    BY <1>5, <2>1, Zenon DEF BadMessage, Types
  <2>3. DOMAIN request' = Fields
    BY <2>1, Zenon DEF Types
  <2>4. IsSequence(answers')
    <3> DEFINE b == [id |-> id, from |-> id, kind |-> "400"]
    <3> HIDE DEF b
    <3>1. IsSequence(Append(answers, b))
      BY SeqAppend, Zenon DEF Types
    <3> QED BY <2>2, <3>1, Zenon DEF Types, b
  <2>5. Types'
    BY <1>1, <1>4, <1>6, <2>1, <2>2, <2>3, <2>4, Zenon DEF Types
  <2>6. ProxyTypes'
    BY <1>1, <2>2, Zenon DEF ProxyTypes
  <2>7. NoAssertFails'
    BY <1>5, <1>6, <2>2, Zenon DEF NoAssertFails
  <2>8. Steady'
    BY <1>1, <2>1, <2>2, <2>7, Zenon DEF Steady
  <2>9. Turn => Turn'
    <3>1. ASSUME Turn, conn = "kConnected" PROVE AnsweredInOrder'
      <4>1. Len(asked) = Len(answers) + 0
        BY <1>1, <3>1, Zenon DEF Turn
      <4>2. id = Len(answers) + 1
        BY <1>3, <4>1, SMTT(30)
      <4> QED BY <2>2, <3>1, <4>2, InOrder, Zenon DEF Types, Turn
    <3>2. ASSUME Turn, conn # "kConnected" PROVE AnsweredInOrder'
      BY <2>2, <3>2, Zenon DEF Turn, AnsweredInOrder
    <3> QED BY <2>2, <3>1, <3>2, Zenon DEF Turn
  <2>10. Proxies => Proxies'
    <3>1. Proxies => ~clientConnMap
      BY <1>1, Zenon DEF Proxies
    <3> QED BY <1>1, <2>2, <3>1, QuietProxies, Zenon
  <2> QED BY <1>1, <2>5, <2>6, <2>8, <2>9, <2>10, Zenon
<1> QED BY <1>7, <1>8, Zenon

\* A header line.
LEMMA ParseHeaderStep ==
  ASSUME HInv, Running, ParseHeader
  PROVE  HInv'
<1> USE DEF HInv
<1> DEFINE kind == HeaderKind(input)
<1>1. /\ pc = "request" /\ state = "kExpectHeaders"
      /\ state' = IF kind = "blank" THEN "kGotAll" ELSE state
      /\ UNCHANGED <<clientConnMap, proxy, current, asked, aborted, overrun>>
  BY Zenon DEF ParseHeader
<1>2. request' = CASE kind = "length" -> [request EXCEPT !.length = input[1][2]]
                   [] kind = "close"  -> [request EXCEPT !.close = TRUE]
                   [] OTHER           -> request
  BY Zenon DEF ParseHeader
<1>3. IF kind = "bad" THEN BadMessage(request.id) ELSE UNCHANGED <<answers, conn, pc>>
  BY Zenon DEF ParseHeader
<1> HIDE DEF kind
<1>4. DOMAIN request' = Fields /\ request'.id = request.id
  BY <1>2, Zenon DEF Types, Fields
<1>5. /\ conn # "kDisconnected" /\ request.id = Len(asked) /\ aborted = "none"
      /\ state' \in {"kExpectHeaders", "kGotAll"}
  BY <1>1, Zenon DEF Steady, Running
<1>6. CASE kind = "bad"
  <2>1. /\ answers' = IF conn = "kConnected"
                      THEN Append(answers, [id |-> request.id, from |-> request.id, kind |-> "400"])
                      ELSE answers
        /\ conn' = "kDisconnecting" /\ pc' = "idle"
    BY <1>3, <1>5, <1>6, Zenon DEF BadMessage, Types
  <2>2. IsSequence(answers')
    <3> DEFINE b == [id |-> request.id, from |-> request.id, kind |-> "400"]
    <3> HIDE DEF b
    <3>1. IsSequence(Append(answers, b))
      BY SeqAppend, Zenon DEF Types
    <3> QED BY <2>1, <3>1, Zenon DEF Types, b
  <2>3. Types'
    BY <1>1, <1>4, <1>5, <2>1, <2>2, Zenon DEF Types
  <2>4. ProxyTypes'
    BY <1>1, <2>1, Zenon DEF ProxyTypes
  <2>5. NoAssertFails'
    BY <1>1, <1>5, Zenon DEF NoAssertFails
  <2>6. Steady'
    BY <1>1, <1>4, <1>5, <2>1, <2>5, Zenon DEF Steady
  <2>7. Turn => Turn'
    <3>1. ASSUME Turn, conn = "kConnected" PROVE AnsweredInOrder'
      <4>1. request.id = Len(answers) + 1
        BY <1>1, <1>5, <3>1, Zenon DEF Turn
      <4> QED BY <2>1, <3>1, <4>1, InOrder, Zenon DEF Types, Turn
    <3>2. ASSUME Turn, conn # "kConnected" PROVE AnsweredInOrder'
      BY <2>1, <3>2, Zenon DEF Turn, AnsweredInOrder
    <3> QED BY <2>1, <3>1, <3>2, Zenon DEF Turn
  <2>8. Proxies => Proxies'
    <3>1. Proxies => ~clientConnMap
      BY <1>1, Zenon DEF Proxies
    <3> QED BY <1>1, <2>1, <3>1, QuietProxies, Zenon
  <2> QED BY <1>1, <2>3, <2>4, <2>6, <2>7, <2>8, Zenon
<1>7. CASE kind # "bad"
  <2>1. UNCHANGED <<answers, conn, pc>>
    BY <1>3, <1>7, Zenon
  <2>2. Types'
    BY <1>1, <1>4, <1>5, <2>1, ZenonT(30) DEF Types
  <2>3. ProxyTypes'
    BY <1>1, <2>1, Zenon DEF ProxyTypes
  <2>4. NoAssertFails'
    BY <1>1, <1>5, Zenon DEF NoAssertFails
  <2>5. Steady'
    BY <1>1, <1>4, <1>5, <2>1, <2>4, Zenon DEF Steady
  <2>6. Turn => Turn'
    BY <1>1, <1>5, <2>1, Zenon DEF Turn, AnsweredInOrder
  <2>7. Proxies => Proxies'
    <3>1. Proxies => ~clientConnMap
      BY <1>1, Zenon DEF Proxies
    <3> QED BY <1>1, <2>1, <3>1, QuietProxies, Zenon
  <2> QED BY <1>1, <2>2, <2>3, <2>5, <2>6, <2>7, Zenon
<1> QED BY <1>6, <1>7, Zenon

-----------------------------------------------------------------------------
(* The handlers                                                            *)

\* A handler has answered.
LEMMA DoneStep ==
  ASSUME HInv, pc = "handle", NEW kind, Done(kind)
  PROVE  HInv'
<1> USE DEF HInv
<1>1. /\ Respond(kind, request.id) /\ pc' = "idle"
      /\ UNCHANGED <<clientConnMap, proxy, current, asked, aborted, overrun>>
  BY Zenon DEF Done
<1>2. clientConnMap' \in BOOLEAN /\ state = "kGotAll"
  BY <1>1, Zenon DEF Types, Steady
<1>3. Types' /\ Steady'
  BY <1>1, <1>2, RespondSteady, Zenon
<1>4. ProxyTypes'
  BY <1>1, Zenon DEF ProxyTypes
<1>5. Turn => Turn'
  BY <1>1, <1>2, RespondTurn, Zenon
<1>6. Proxies => Proxies'
  <2>1. Proxies => ~clientConnMap
    BY Zenon DEF Proxies
  <2> QED BY <1>1, <2>1, QuietProxies, Zenon
<1> QED BY <1>1, <1>3, <1>4, <1>5, <1>6, Zenon

\* The four ways to be done.
LEMMA HandleDoneStep ==
  ASSUME HInv, HandleNoLocation \/ HandleStatic \/ HandleBadLength \/ HandleDefault
  PROVE  HInv'
<1>1. pc = "handle" /\ \E kind \in {"200", "400", "404", "500"} : Done(kind)
  BY Zenon DEF HandleNoLocation, HandleStatic, HandleBadLength, HandleDefault, BodyTaken, Handling
<1> QED BY <1>1, DoneStep, Zenon

\* Another pass: of the history, only what is known of this request changes.
LEMMA HandleAgainStep ==
  ASSUME HInv, HandleAgain
  PROVE  HInv'
<1> USE DEF HInv
<1>1. /\ pc = "handle" /\ request' = [request EXCEPT !.end = Matched - 1]
      /\ asked' = IF Late THEN MarkLate(asked, request.id) ELSE asked
      /\ UNCHANGED <<conn, state, clientConnMap, proxy, current, pc, answers, aborted, overrun>>
  BY Zenon DEF HandleAgain, Handling, client
<1>2. DOMAIN request' = Fields /\ request'.id = request.id /\ state = "kGotAll"
  BY <1>1, Zenon DEF Types, Fields, Steady
<1>3. IsSequence(asked') /\ Len(asked') = Len(asked)
  <2>1. CASE Late
    BY <1>1, <2>1, SeqSet, Zenon DEF Types
  <2>2. CASE ~Late
    BY <1>1, <2>2, Zenon DEF Types
  <2> QED BY <2>1, <2>2, Zenon
<1>4. Types'
  BY <1>1, <1>2, <1>3, Zenon DEF Types
<1>5. ProxyTypes'
  BY <1>1, Zenon DEF ProxyTypes
<1>6. Steady'
  BY <1>1, <1>2, <1>3, Zenon DEF Steady, NoAssertFails
<1>7. Turn => Turn'
  BY <1>1, <1>3, Zenon DEF Turn, AnsweredInOrder
<1>8. Proxies => Proxies'
  <2>1. Proxies => ~clientConnMap
    BY <1>1, Zenon DEF Proxies
  <2> QED BY <1>1, <2>1, QuietProxies, Zenon
<1> QED BY <1>1, <1>4, <1>5, <1>6, <1>7, <1>8, Zenon

\* The request is forwarded, or refused at once.
LEMMA ForwardStep ==
  ASSUME HInv, Running, NEW outcome \in {"connecting", "failed", "dead"}, Forward(outcome)
  PROVE  HInv'
<1> USE DEF HInv
<1>1. /\ pc = "handle" /\ pc' = "idle" /\ UNCHANGED <<current, asked, aborted, overrun>>
  BY Zenon DEF Forward, BodyTaken, Handling
<1>2. PICK p \in Proxy, reply \in Replies :
        proxy' = [proxy EXCEPT ![p] = [NoProxy EXCEPT !.state = outcome, !.rest = reply,
                                                      !.id = request.id]]
  BY Zenon DEF Forward
<1>3. IF outcome = "failed"
      THEN Respond("503", request.id) /\ clientConnMap' = FALSE
      ELSE /\ request' = [request EXCEPT !.end = Matched - 1]
           /\ clientConnMap' = TRUE
           /\ UNCHANGED <<conn, answers, state>>
  BY Zenon DEF Forward
<1>4. state = "kGotAll" /\ aborted = "none"
  BY <1>1, Zenon DEF Steady, Running
<1> DEFINE new == [NoProxy EXCEPT !.state = outcome, !.rest = reply, !.id = request.id]
<1>5. DOMAIN new = PFields /\ new.state = outcome /\ new.id = request.id
  BY Zenon DEF NoProxy, PFields
<1>6. proxy' = [proxy EXCEPT ![p] = new]
  BY <1>2, Zenon
<1> HIDE DEF new
<1>7. ProxyTypes' /\ proxy'[p] = new /\ \A q \in Proxy : q # p => proxy'[q] = proxy[q]
  BY <1>1, <1>5, <1>6, ProxySet, Zenon
<1>8. ASSUME Proxies PROVE \A q \in Proxy : ~Working(q)
  BY <1>1, <1>8, Zenon DEF Proxies
<1>9. CASE outcome = "failed"
  <2>1. Respond("503", request.id) /\ ~clientConnMap' /\ clientConnMap' \in BOOLEAN
    BY <1>3, <1>9, Zenon
  <2>2. Types' /\ Steady'
    BY <1>1, <2>1, RespondSteady, Zenon
  <2>3. Turn => Turn'
    BY <1>1, <1>4, <2>1, RespondTurn, Zenon
  <2>4. ASSUME Proxies PROVE Proxies'
    <3>1. \A q \in Proxy : ~Working(q)'
      BY <1>5, <1>7, <1>8, <1>9, <2>4, Zenon DEF Working
    <3> QED BY <1>1, <2>1, <3>1, Zenon DEF Proxies
  <2> QED BY <1>1, <1>7, <2>2, <2>3, <2>4, Zenon
<1>10. CASE outcome # "failed"
  <2>1. /\ request' = [request EXCEPT !.end = Matched - 1] /\ clientConnMap' = TRUE
        /\ UNCHANGED <<conn, answers, state>>
    BY <1>3, <1>10, Zenon
  <2>2. DOMAIN request' = Fields /\ request'.id = request.id
    BY <2>1, Zenon DEF Types, Fields
  <2>3. Types'
    BY <1>1, <2>1, <2>2, Zenon DEF Types
  <2>4. Steady'
    BY <1>1, <1>4, <2>1, <2>2, Zenon DEF Steady, NoAssertFails
  <2>5. Turn => Turn'
    BY <1>1, <2>1, Zenon DEF Turn, AnsweredInOrder
  <2>6. ASSUME Proxies PROVE Proxies'
    <3>1. \A q \in Proxy : q # p => ~Working(q)'
      BY <1>7, <1>8, <2>6, Zenon DEF Working
    <3>2. Working(p)' /\ proxy'[p].id = request'.id
      BY <1>5, <1>7, <1>10, <2>2, Zenon DEF Working
    <3> QED BY <1>1, <1>4, <2>1, <3>1, <3>2, Zenon DEF Proxies
  <2> QED BY <1>1, <1>7, <2>3, <2>4, <2>5, <2>6, Zenon
<1> QED BY <1>9, <1>10, Zenon

-----------------------------------------------------------------------------
(* The upstream side                                                       *)

\* A proxy goes from one working state to another, or stays what it was, and
\* nothing else happens to client or context.
LEMMA WorksOn ==
  ASSUME HInv, NEW p \in Proxy, NEW new, DOMAIN new = PFields, new.id = proxy[p].id,
         proxy' = [proxy EXCEPT ![p] = new],
         UNCHANGED <<conn, state, request, clientConnMap, asked, answers, aborted>>,
         overrun' \in BOOLEAN, overrun => overrun',
         pc \in {"idle", "response"}, pc' \in {"idle", "response"},
         pc' = "response" => current' = p,
         ~overrun' => /\ Working(p) <=> new.state \in {"connecting", "connected", "dead", "lost"}
                      /\ pc' = "response" => new.state = "connected"
  PROVE  HInv'
<1> USE DEF HInv
<1>1. ProxyTypes' /\ proxy'[p] = new /\ \A q \in Proxy : q # p => proxy'[q] = proxy[q]
  BY ProxySet, Zenon
<1>2. Types'
  BY Zenon DEF Types
<1>3. NoAssertFails'
  BY Zenon DEF Steady, NoAssertFails
<1>4. Steady'
  BY <1>3, Zenon DEF Steady
<1>5. ASSUME ~overrun' PROVE Turn' /\ Proxies'
  <2>1. Turn /\ Proxies
    BY <1>5, Zenon
  <2>2. Turn'
    BY <2>1, Zenon DEF Turn, AnsweredInOrder
  <2>3. \A q \in Proxy : (Working(q)' <=> Working(q)) /\ proxy'[q].id = proxy[q].id
    BY <1>1, <1>5, Zenon DEF Working
  <2>4. pc' = "response" => proxy'[current'].state = "connected"
    BY <1>1, <1>5, Zenon
  <2>5. Proxies'
    BY <2>1, <2>3, <2>4, Zenon DEF Proxies
  <2> QED BY <2>2, <2>5, Zenon
<1> QED BY <1>1, <1>2, <1>4, <1>5, Zenon

\* The upstream accepts, sends, or closes.
LEMMA UpstreamStep ==
  ASSUME HInv, NEW p \in Proxy,
         Connected(p) \/ UpstreamCloses(p) \/ \E n \in DOMAIN proxy[p].rest : ReplyArrives(p, n)
  PROVE  HInv'
<1> USE DEF HInv
<1>0. /\ DOMAIN proxy = Proxy /\ DOMAIN proxy[p] = PFields
      /\ overrun \in BOOLEAN
  BY Zenon DEF ProxyTypes, Types
<1>1. CASE Connected(p)
  <2> DEFINE new == [proxy[p] EXCEPT !.state = "connected"]
  <2>1. DOMAIN new = PFields /\ new.id = proxy[p].id /\ new.state = "connected"
    BY <1>0, Zenon DEF PFields
  <2>2. /\ pc = "idle" /\ proxy[p].state = "connecting" /\ proxy' = [proxy EXCEPT ![p] = new]
        /\ UNCHANGED <<conn, state, request, clientConnMap, asked, answers, aborted, overrun, pc>>
    BY <1>1, Zenon DEF Connected, context, client
  <2> HIDE DEF new
  <2>3. Working(p)
    BY <2>2, Zenon DEF Working
  <2> QED BY <1>0, <2>1, <2>2, <2>3, WorksOn, Zenon
<1>2. CASE UpstreamCloses(p)
  <2> DEFINE new == [proxy[p] EXCEPT !.state = IF @ = "connected" THEN "lost" ELSE "closed"]
  <2>1. /\ DOMAIN new = PFields /\ new.id = proxy[p].id
        /\ new.state = IF proxy[p].state = "connected" THEN "lost" ELSE "closed"
    BY <1>0, Zenon DEF PFields
  <2>2. /\ pc = "idle" /\ proxy[p].state \in {"connected", "shut"}
        /\ proxy' = [proxy EXCEPT ![p] = new]
        /\ UNCHANGED <<conn, state, request, clientConnMap, asked, answers, aborted, overrun, pc>>
    BY <1>2, Zenon DEF UpstreamCloses, context, client
  <2> HIDE DEF new
  <2>3. Working(p) <=> new.state \in {"connecting", "connected", "dead", "lost"}
    BY <2>1, <2>2, Zenon DEF Working
  <2> QED BY <1>0, <2>1, <2>2, <2>3, WorksOn, Zenon
<1>3. ASSUME NEW n \in DOMAIN proxy[p].rest, ReplyArrives(p, n) PROVE HInv'
  <2> DEFINE new == [proxy[p] EXCEPT !.input = @ \o SubSeq(proxy[p].rest, 1, n),
                                     !.rest = Drop(@, n)]
  <2>1. DOMAIN new = PFields /\ new.id = proxy[p].id /\ new.state = proxy[p].state
    BY <1>0, Zenon DEF PFields
  <2>2. /\ pc = "idle" /\ proxy[p].state \in {"connected", "shut"} /\ pc' = "response"
        /\ current' = p /\ overrun' = (overrun \/ proxy[p].state = "shut")
        /\ UNCHANGED <<conn, state, request, clientConnMap, asked, answers, aborted>>
    BY <1>3, Zenon DEF ReplyArrives, context, client
  <2>3. proxy' = [proxy EXCEPT ![p] = new]
    BY <1>0, <1>3, Zenon DEF ReplyArrives, PFields
  <2> HIDE DEF new
  <2>4. overrun' \in BOOLEAN /\ (overrun => overrun')
    BY <1>0, <2>2, Zenon
  <2>5. ~overrun' => proxy[p].state = "connected" /\ Working(p)
    BY <2>2, Zenon DEF Working
  <2> QED BY <2>1, <2>2, <2>3, <2>4, <2>5, WorksOn, ZenonT(30)
<1> QED BY <1>1, <1>2, <1>3, Zenon

\* A proxy answers, and works no more.  If it was not working, there was an
\* overrun.
LEMMA ProxyAnswerStep ==
  ASSUME HInv, Running, NEW p \in Proxy, NEW new, DOMAIN new = PFields,
         new.state \in {"failed", "shut"}, proxy' = [proxy EXCEPT ![p] = new],
         NEW kind, ProxyAnswer(p, kind), pc' = "idle", UNCHANGED <<asked, overrun>>,
         ~overrun => Working(p)
  PROVE  HInv'
<1> USE DEF HInv
<1>1. ProxyTypes' /\ proxy'[p] = new /\ \A q \in Proxy : q # p => proxy'[q] = proxy[q]
  BY ProxySet, Zenon
<1>2. /\ Respond(kind, proxy[p].id) /\ ~clientConnMap' /\ clientConnMap' \in BOOLEAN
      /\ aborted' = IF clientConnMap THEN aborted ELSE "clientConnMap"
  BY Zenon DEF ProxyAnswer
<1>3. ~overrun => clientConnMap /\ state = "kGotAll" /\ proxy[p].id = request.id
  BY Zenon DEF Proxies
<1>4. aborted' = aborted \/ (aborted' = "clientConnMap" /\ overrun)
  BY <1>2, <1>3, Zenon
<1>5. Types' /\ Steady'
  BY <1>2, <1>4, RespondSteady, Zenon
<1>6. ASSUME ~overrun PROVE Turn' /\ Proxies'
  <2>1. Turn'
    BY <1>2, <1>3, <1>6, RespondTurn, Zenon
  <2>2. ~Working(p)'
    BY <1>1, Zenon DEF Working
  <2>3. Proxies'
    BY <1>1, <1>2, <1>6, <2>2, ProxyGone, Zenon
  <2> QED BY <2>1, <2>3, Zenon
<1> QED BY <1>1, <1>5, <1>6, Zenon

\* The connection is refused.
LEMMA ConnectFailedStep ==
  ASSUME HInv, Running, NEW p \in Proxy, ConnectFailed(p)
  PROVE  HInv'
<1> DEFINE new == [proxy[p] EXCEPT !.state = "failed"]
<1>1. DOMAIN proxy = Proxy /\ DOMAIN proxy[p] = PFields
  BY Zenon DEF HInv, ProxyTypes
<1>2. DOMAIN new = PFields /\ new.state = "failed"
  BY <1>1, Zenon DEF PFields
<1>3. /\ pc' = "idle" /\ Working(p) /\ proxy' = [proxy EXCEPT ![p] = new]
      /\ ProxyAnswer(p, "503") /\ UNCHANGED <<asked, overrun>>
  BY Zenon DEF ConnectFailed, Working
<1> HIDE DEF new
<1> QED BY <1>2, <1>3, ProxyAnswerStep, Zenon

\* What parseResponse does with a line, a body, or a whole response: it goes
\* on, or returns, with the proxy as it was; or it answers.
LEMMA ParseResponseCases ==
  ASSUME HInv, NEW p \in Proxy, pc = "response", current = p,
         ParseReplyLine(p) \/ ParseReplyBody(p) \/ ProxyResponse(p)
  PROVE  \E new : /\ DOMAIN new = PFields /\ new.id = proxy[p].id
                  /\ proxy' = [proxy EXCEPT ![p] = new]
                  /\ \/ /\ new.state = proxy[p].state /\ pc' \in {"idle", "response"}
                        /\ UNCHANGED <<context, conn, clientConnMap, answers, aborted>>
                     \/ new.state = "shut" /\ \E kind \in {"500", "upstream"} : Shut(p, kind)
<1> DEFINE r == proxy[p]
<1>0. DOMAIN proxy = Proxy /\ DOMAIN r = PFields
  BY Zenon DEF HInv, ProxyTypes
<1>1. proxy = [proxy EXCEPT ![p] = r]
  <2>1. proxy = [q \in Proxy |-> proxy[q]]
    BY Zenon DEF HInv, ProxyTypes
  <2> QED BY <2>1, Zenon
<1>2. CASE ParseReplyLine(p)
  <2> DEFINE i == Crlf(r.input)
             kind == IF r.parse = "kExpectHeaders" THEN HeaderKind(r.input)
                     ELSE IF i = 1 THEN Kind(r.input[1]) ELSE "bad"
             taken == [r EXCEPT !.input = Drop(@, i)]
             on == [taken EXCEPT !.parse = IF kind = "status" THEN "kExpectHeaders"
                                           ELSE IF kind = "blank" THEN "kExpectBody" ELSE @,
                                 !.length = IF kind = "length" THEN r.input[1][2] ELSE @]
             bad == [taken EXCEPT !.state = "shut"]
  <2>1. \/ /\ pc' = "idle" /\ UNCHANGED <<proxy, context, conn, clientConnMap, answers, aborted>>
        \/ /\ proxy' = [proxy EXCEPT ![p] = on]
           /\ UNCHANGED <<context, conn, clientConnMap, answers, pc, aborted>>
        \/ proxy' = [proxy EXCEPT ![p] = bad] /\ Shut(p, "500")
    BY <1>2, ZenonT(60) DEF ParseReplyLine
  <2>2. DOMAIN taken = PFields /\ taken.id = r.id /\ taken.state = r.state
    BY <1>0, Zenon DEF PFields
  <2> HIDE DEF taken, kind
  <2>3. DOMAIN on = PFields /\ on.id = r.id /\ on.state = r.state
    BY <2>2, Zenon DEF PFields
  <2>4. DOMAIN bad = PFields /\ bad.id = r.id /\ bad.state = "shut"
    BY <2>2, Zenon DEF PFields
  <2> HIDE DEF on, bad
  <2> QED BY <1>0, <1>1, <2>1, <2>3, <2>4, ZenonT(60)
<1>3. CASE ParseReplyBody(p)
  <2> DEFINE on == [r EXCEPT !.parse = "kGotAll", !.input = Drop(@, r.length)]
             bad == [r EXCEPT !.state = "shut"]
  <2>1. \/ /\ proxy' = [proxy EXCEPT ![p] = on]
           /\ UNCHANGED <<context, conn, clientConnMap, answers, pc, aborted>>
        \/ proxy' = [proxy EXCEPT ![p] = bad] /\ Shut(p, "500")
        \/ UNCHANGED <<proxy, context, conn, clientConnMap, answers, pc, aborted>>
    BY <1>0, <1>3, ZenonT(60) DEF ParseReplyBody, PFields
  <2>2. DOMAIN on = PFields /\ on.id = r.id /\ on.state = r.state
    BY <1>0, Zenon DEF PFields
  <2>3. DOMAIN bad = PFields /\ bad.id = r.id /\ bad.state = "shut"
    BY <1>0, Zenon DEF PFields
  <2> HIDE DEF on, bad
  <2> QED BY <1>0, <1>1, <2>1, <2>2, <2>3, ZenonT(60)
<1>4. CASE ProxyResponse(p)
  <2> DEFINE bad == [r EXCEPT !.state = "shut"]
  <2>1. proxy' = [proxy EXCEPT ![p] = bad] /\ Shut(p, "upstream")
    BY <1>4, Zenon DEF ProxyResponse
  <2>2. DOMAIN bad = PFields /\ bad.id = r.id /\ bad.state = "shut"
    BY <1>0, Zenon DEF PFields
  <2> HIDE DEF bad
  <2> QED BY <2>1, <2>2, ZenonT(60)
<1> QED BY <1>2, <1>3, <1>4, Zenon

\* The response parser takes a step.
LEMMA ParseResponseStep ==
  ASSUME HInv, Running, ParseResponse
  PROVE  HInv'
<1> USE DEF HInv
<1>1. /\ pc = "response" /\ current \in Proxy /\ UNCHANGED <<current, asked, overrun>>
      /\ overrun \in BOOLEAN
  BY Zenon DEF ParseResponse, ProxyTypes, Types
<1>2. PICK p \in Proxy : p = current
  BY <1>1, Zenon
<1>3. ParseReplyLine(p) \/ ParseReplyBody(p) \/ ProxyResponse(p)
  BY <1>2, Zenon DEF ParseResponse
<1>4. ~overrun => proxy[p].state = "connected" /\ Working(p)
  BY <1>1, <1>2, Zenon DEF Proxies, Working
<1>5. PICK new : /\ DOMAIN new = PFields /\ new.id = proxy[p].id
                 /\ proxy' = [proxy EXCEPT ![p] = new]
                 /\ \/ /\ new.state = proxy[p].state /\ pc' \in {"idle", "response"}
                       /\ UNCHANGED <<context, conn, clientConnMap, answers, aborted>>
                    \/ new.state = "shut" /\ \E kind \in {"500", "upstream"} : Shut(p, kind)
  BY <1>1, <1>2, <1>3, ParseResponseCases, Zenon
<1>6. CASE /\ new.state = proxy[p].state /\ pc' \in {"idle", "response"}
           /\ UNCHANGED <<context, conn, clientConnMap, answers, aborted>>
  <2>1. UNCHANGED <<conn, state, request, clientConnMap, asked, answers, aborted>>
    BY <1>1, <1>6, Zenon DEF context
  <2>2. Working(p) <=> new.state \in {"connecting", "connected", "dead", "lost"}
    BY <1>6, Zenon DEF Working
  <2> QED BY <1>1, <1>2, <1>4, <1>5, <1>6, <2>1, <2>2, WorksOn, ZenonT(30)
<1>7. CASE new.state = "shut" /\ \E kind \in {"500", "upstream"} : Shut(p, kind)
  BY <1>1, <1>4, <1>5, <1>7, ProxyAnswerStep, Zenon DEF Shut
<1> QED BY <1>5, <1>6, <1>7, Zenon

-----------------------------------------------------------------------------
(* The theorems                                                            *)

\* A new connection satisfies the invariant.
LEMMA InitHInv ==
  ASSUME Init
  PROVE  HInv
<1>1. Types
  <2>1. IsSequence(<<>>)
    BY EmptySeq, SeqIsSeq, Zenon
  <2>2. DOMAIN NoRequest = Fields
    BY Zenon DEF NoRequest, Fields
  <2> QED BY <2>1, <2>2, Zenon DEF Init, Types
<1>2. ProxyTypes
  <2>1. DOMAIN NoProxy = PFields
    BY Zenon DEF NoProxy, PFields
  <2>2. pc = "idle" /\ proxy = [p \in Proxy |-> NoProxy]
    BY Zenon DEF Init
  <2> HIDE DEF NoProxy
  <2> QED BY <2>1, <2>2, Zenon DEF ProxyTypes
<1>3. Steady
  <2>1. NoRequest.method = "kInvalid"
    BY Zenon DEF NoRequest
  <2> QED BY <2>1, Zenon DEF Init, Steady, NoAssertFails
<1>4. Turn
  <2>1. asked = <<>> /\ answers = <<>> /\ state = "kExpectRequestLine"
    BY Zenon DEF Init
  <2>2. Len(<<>>) = 0 /\ \A i \in DOMAIN << >> : FALSE
    BY EmptySeq
  <2>3. Len(asked) = Len(answers) + 0
    BY <2>1, <2>2
  <2> QED BY <2>1, <2>2, <2>3 DEF Turn, AnsweredInOrder
<1>5. Proxies
  <2>1. NoProxy.state = "none"
    BY Zenon DEF NoProxy
  <2>2. pc = "idle" /\ proxy = [p \in Proxy |-> NoProxy] /\ clientConnMap = FALSE
    BY Zenon DEF Init
  <2> HIDE DEF NoProxy
  <2>3. \A p \in Proxy : ~Working(p)
    BY <2>1, <2>2, Zenon DEF Working
  <2> QED BY <2>2, <2>3, Zenon DEF Proxies
<1> QED BY <1>1, <1>2, <1>3, <1>4, <1>5, Zenon DEF HInv

\* Nothing happens.
LEMMA StutterHInv ==
  ASSUME HInv, UNCHANGED vars
  PROVE  HInv'
BY ZenonT(60) DEF vars, HInv, Types, ProxyTypes, Steady, NoAssertFails, Turn, AnsweredInOrder,
       Proxies, Working

\* Every step preserves the invariant.
LEMMA StepHInv ==
  ASSUME HInv, [Next]_vars
  PROVE  HInv'
<1>1. CASE Running /\ ParseRequest
  BY <1>1, ParseAgainStep, ParseRequestLineStep, ParseHeaderStep, ParseDoneStep, ZenonT(60) DEF ParseRequest
<1>2. CASE Running /\ HandleRequest
  <2>1. CASE HandleEmptyPath
    BY <2>1, StutterHInv, Zenon DEF HandleEmptyPath
  <2>2. CASE \E outcome \in {"connecting", "failed", "dead"} : Forward(outcome)
    BY <1>2, <2>2, ForwardStep, Zenon
  <2> QED BY <1>2, <2>1, <2>2, HandleDoneStep, HandleAgainStep, ZenonT(60) DEF HandleRequest
<1>3. CASE Running /\ ParseResponse
  BY <1>3, ParseResponseStep, Zenon
<1>4. CASE Running /\ (Leave \/ \E n \in DOMAIN rest : Receive(n))
  BY <1>4, LeaveStep, ReceiveStep, Zenon
<1>5. CASE \E p \in Proxy : Upstream(p) \/ (Running /\ UpstreamCloses(p))
  BY <1>5, UpstreamStep, ConnectFailedStep, Zenon DEF Upstream
<1>6. CASE UNCHANGED vars
  BY <1>6, StutterHInv, Zenon
<1> QED BY <1>1, <1>2, <1>3, <1>4, <1>5, <1>6, ZenonT(60) DEF Next, Callback

\* The invariant holds throughout.
LEMMA HInvariant == Spec => []HInv
<1>1. Init => HInv
  BY InitHInv, Zenon
<1>2. HInv /\ [Next]_vars => HInv'
  BY StepHInv, Zenon
<1> QED BY <1>1, <1>2, PTL DEF Spec

\* Whatever clients and upstreams send, and whenever they close: setMethod's
\* assert fails only in a connection that is shut down, after a request line
\* that was refused and kept, and the asserts of doProxyResponse,
\* onBadUpstreamResponse and onForwardFailed fail only after an overrun, bytes
\* of the client behind a forwarded request or of an upstream behind its reply.
THEOREM AssertionsHold == Spec => []NoAssertFails
<1>1. HInv => NoAssertFails
  BY Zenon DEF HInv, Steady
<1> QED BY <1>1, HInvariant, PTL

\* Until an overrun, the client is in clientConnMap exactly as long as a proxy
\* works for the request in its context, or has given up without telling.
THEOREM EntryHolds == Spec => []EntryPending
<1>1. HInv => EntryPending
  BY ZenonT(30) DEF HInv, Proxies, EntryPending
<1> QED BY <1>1, HInvariant, PTL

\* Until an overrun, the n-th response answers the n-th request line, and an
\* upstream's result answers the request its proxy was made for.
THEOREM InOrderAlways == Spec => [](overrun \/ AnsweredInOrder)
<1>1. HInv => overrun \/ AnsweredInOrder
  BY Zenon DEF HInv, Turn
<1> QED BY <1>1, HInvariant, PTL
=============================================================================

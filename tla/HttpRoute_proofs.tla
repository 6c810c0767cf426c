-------------------------- MODULE HttpRoute_proofs --------------------------
(***************************************************************************)
(* Proof that, until an overrun, every request is answered by the location *)
(* it is for, for any locations and files and any streams of the client    *)
(* and of the upstreams.                                                   *)
(*                                                                         *)
(* The walk from slash to slash (MatchLength) is shown to find the longest *)
(* location it can stop at.  RInv carries it through the request's life:   *)
(* the last request asked is the one in the context, no stop that could    *)
(* serve it is longer than where the walk stands, a proxy works for it     *)
(* only if it may, and the answers given so far fit.                       *)
(***************************************************************************)
EXTENDS HttpServer_proofs

-----------------------------------------------------------------------------
(* Sequences                                                               *)

\* Concatenation.
LEMMA SeqConcat ==
  ASSUME NEW s, IsSequence(s), NEW t, IsSequence(t)
  PROVE  /\ IsSequence(s \o t) /\ Len(s \o t) = Len(s) + Len(t)
         /\ \A i \in 1..Len(s) : (s \o t)[i] = s[i]
         /\ \A i \in 1..Len(t) : (s \o t)[Len(s) + i] = t[i]
<1> DEFINE S == Range(s) \cup Range(t)
<1>1. s \in Seq(S) /\ t \in Seq(S)
  BY SeqMonotonic, Zenon DEF IsSequence
<1> HIDE DEF S
<1> DEFINE c == s \o t
<1>2. /\ c \in Seq(S) /\ Len(c) = Len(s) + Len(t)
      /\ \A i \in 1..(Len(s) + Len(t)) : c[i] = IF i <= Len(s) THEN s[i] ELSE t[i - Len(s)]
  BY <1>1, ConcatProperties, Zenon
<1> HIDE DEF c
<1>3. Len(s) \in Nat /\ Len(t) \in Nat
  BY SeqFacts, Zenon
<1>4. ASSUME NEW i \in 1..Len(s) PROVE c[i] = s[i]
  BY <1>2, <1>3
<1>5. ASSUME NEW i \in 1..Len(t) PROVE c[Len(s) + i] = t[i]
  <2>1. /\ Len(s) + i \in 1..(Len(s) + Len(t)) /\ ~(Len(s) + i <= Len(s))
        /\ (Len(s) + i) - Len(s) = i
    BY <1>3
  <2> QED BY <1>2, <2>1, Zenon
<1> QED BY <1>2, <1>4, <1>5, SeqIsSeq, Zenon DEF c

\* The first n elements and the rest.
LEMMA SeqSplit ==
  ASSUME NEW s, IsSequence(s), NEW n \in 0..Len(s)
  PROVE  /\ IsSequence(Drop(s, n)) /\ Len(Drop(s, n)) = Len(s) - n
         /\ \A i \in 1..(Len(s) - n) : Drop(s, n)[i] = s[n + i]
         /\ IsSequence(SubSeq(s, 1, n)) /\ Len(SubSeq(s, 1, n)) = n
         /\ \A i \in 1..n : SubSeq(s, 1, n)[i] = s[i]
<1> DEFINE S == Range(s)
           d == Drop(s, n)
           t == SubSeq(s, 1, n)
<1>1. s \in Seq(S) /\ Len(s) \in Nat /\ n \in Nat /\ n <= Len(s)
  BY SeqFacts DEF IsSequence
<1> HIDE DEF S
<1>2. \A i \in 1..Len(s) : s[i] \in S
  BY <1>1, ElementOfSeq, Zenon
<1>3. t \in Seq(S) /\ Len(t) = n /\ \A i \in 1..n : t[i] = s[i]
  <2>1. /\ t \in Seq(S) /\ Len(t) = IF 1 <= n THEN n - 1 + 1 ELSE 0
        /\ \A i \in 1..(n - 1 + 1) : t[i] = s[1 + i - 1]
    BY <1>1, <1>2, SubSeqProperties
  <2> HIDE DEF t
  <2> QED BY <1>1, <2>1
<1>4. d \in Seq(S) /\ Len(d) = Len(s) - n /\ \A i \in 1..(Len(s) - n) : d[i] = s[n + i]
  <2>1. PICK k \in Int : k = n + 1
    BY <1>1
  <2>2. \A i \in k..Len(s) : s[i] \in S
    BY <1>1, <1>2, <2>1
  <2>3. d = SubSeq(s, k, Len(s))
    BY <2>1, Zenon DEF Drop
  <2> HIDE DEF d
  <2>4. /\ d \in Seq(S) /\ Len(d) = IF k <= Len(s) THEN Len(s) - k + 1 ELSE 0
        /\ \A i \in 1..(Len(s) - k + 1) : d[i] = s[k + i - 1]
    BY <1>1, <2>2, <2>3, SubSeqProperties, SMTT(120)
  <2>5. Len(d) = Len(s) - n
    BY <1>1, <2>1, <2>4
  <2>6. ASSUME NEW i \in 1..(Len(s) - n) PROVE d[i] = s[n + i]
    <3>1. i \in 1..(Len(s) - k + 1) /\ k + i - 1 = n + i
      BY <1>1, <2>1
    <3> QED BY <2>4, <3>1, Zenon
  <2> QED BY <2>4, <2>5, <2>6, Zenon
<1> HIDE DEF t, d
<1> QED BY <1>3, <1>4, SeqIsSeq, Zenon DEF t, d

\* A non-empty set of naturals has a least element.
LEMMA NatMin ==
  ASSUME NEW T \in SUBSET Nat, T # {}
  PROVE  \E m \in T : \A k \in T : m <= k
<1> DEFINE R == {ss \in Nat \X Nat : ss[1] < ss[2]}
<1>1. IsWellFoundedOn(R, Nat)
  BY NatLessThanWellFounded, Zenon DEF OpToRel
<1> HIDE DEF R
<1>2. PICK m \in T : \A k \in T : ~(<<k, m>> \in R)
  BY <1>1, WFMin, Zenon
<1>3. \A k \in T : ~(k < m)
  BY <1>2, Zenon DEF R
<1> QED BY <1>3, SMT

\* findCRLF finds a unit of the stream, or none.
LEMMA CrlfFacts ==
  ASSUME NEW s, IsSequence(s)
  PROVE  Crlf(s) \in 0..Len(s)
<1> DEFINE ends == {i \in DOMAIN s : s[i] # Byte}
<1>1. Len(s) \in Nat /\ DOMAIN s = 1..Len(s)
  BY SeqFacts, Zenon
<1>2. Crlf(s) = IF ends = {} THEN 0 ELSE Min(ends)
  BY Zenon DEF Crlf
<1>3. CASE ends = {}
  BY <1>1, <1>2, <1>3
<1>4. CASE ends # {}
  <2>1. ends \in SUBSET Nat
    BY <1>1
  <2>2. \E m \in ends : \A k \in ends : m <= k
    BY <1>4, <2>1, NatMin, Zenon
  <2>3. Min(ends) \in ends
    <3> HIDE DEF ends
    <3> QED BY <2>2, Zenon DEF Min
  <2>4. Crlf(s) \in ends
    BY <1>2, <1>4, <2>3, Zenon
  <2> QED BY <1>1, <2>4
<1> QED BY <1>3, <1>4, Zenon

-----------------------------------------------------------------------------
(* The walk finds the longest location it can stop at.                     *)

\* A non-empty set of numbers up to n has a greatest element, and Max finds it.
LEMMA MaxFacts ==
  ASSUME NEW n \in Nat, NEW S \in SUBSET (0..n), S # {}
  PROVE  Max(S) \in S /\ \A k \in S : k <= Max(S)
<1> DEFINE T == {n - k : k \in S}
<1>1. T \in SUBSET Nat /\ T # {}
  <2>1. \A k \in S : n - k \in Nat
    OBVIOUS
  <2>2. T \in SUBSET Nat
    BY <2>1, Zenon
  <2>3. PICK k : k \in S
    OBVIOUS
  <2> QED BY <2>2, <2>3, Zenon
<1>2. PICK m \in T : \A k \in T : m <= k
  BY <1>1, NatMin, Zenon
<1>3. PICK x \in S : m = n - x
  BY <1>2, Zenon
<1>4. \A k \in S : x >= k
  BY <1>2, <1>3
<1>5. \E y \in S : \A k \in S : y >= k
  BY <1>4, Zenon
<1>6. Max(S) \in S /\ \A k \in S : Max(S) >= k
  BY <1>5, Zenon DEF Max
<1> QED BY <1>6, Zenon

\* ... whichever element is the greatest.
LEMMA MaxIs ==
  ASSUME NEW S \in SUBSET Nat, NEW m \in S, \A k \in S : k <= m
  PROVE  Max(S) = m
<1>1. \A k \in S : m >= k
  OBVIOUS
<1>2. Max(S) \in S /\ \A k \in S : Max(S) >= k
  BY <1>1, Zenon DEF Max
<1>3. Max(S) \in Nat /\ m \in Nat /\ Max(S) >= m /\ Max(S) <= m
  BY <1>2, Zenon
<1> QED BY <1>3

\* The locations the walk can find in the first n characters of a path, by length:
\* all n of them, or those up to a slash.
Hits(path, n) ==
  {k \in 1..n : (k = n \/ path[k] = "/") /\ SubSeq(path, 1, k) \in Locations}

Slashes(path, n) == {i \in 1..(n - 1) : path[i] = "/"}

\* The longest of them.
Longest(path, n) == IF Hits(path, n) = {} THEN 0 ELSE Max(Hits(path, n))

\* One turn of the do-while of HttpAccessHandler, from the longest location of
\* the shorter prefixes to that of n characters.
LEMMA WalkTurn ==
  ASSUME NEW path, NEW n \in Nat
  PROVE  /\ Slashes(path, n) # {} => Max(Slashes(path, n)) \in 0..(n - 1)
         /\ Longest(path, n) = IF SubSeq(path, 1, n) \in Locations THEN n
                               ELSE IF Slashes(path, n) = {} THEN 0
                               ELSE Longest(path, Max(Slashes(path, n)))
<1> DEFINE sl == Slashes(path, n)
           m == Max(sl)
           H == Hits(path, n)
<1>1. sl \in SUBSET (0..n) /\ H \in SUBSET (0..n) /\ H \in SUBSET Nat
  BY DEF Slashes, Hits
<1>2. sl # {} => m \in sl /\ \A k \in sl : k <= m
  BY <1>1, MaxFacts, Zenon
<1>3. sl # {} => m \in 1..(n - 1) /\ path[m] = "/"
  BY <1>2, Zenon DEF Slashes
<1>4. CASE SubSeq(path, 1, n) \in Locations
  <2>1. CASE n = 0
    BY <1>3, <1>4, <2>1 DEF Longest, Hits
  <2>2. CASE n # 0
    <3>1. n \in H /\ \A k \in H : k <= n
      BY <1>4, <2>2 DEF Hits
    <3> HIDE DEF H
    <3>2. Max(H) = n
      BY <1>1, <3>1, MaxIs, Zenon
    <3>3. Longest(path, n) = n
      BY <3>1, <3>2, Zenon DEF Longest, H
    <3> QED BY <1>3, <1>4, <3>3
  <2> QED BY <2>1, <2>2, Zenon
<1>5. CASE SubSeq(path, 1, n) \notin Locations /\ sl = {}
  <2>1. H = {}
    BY <1>5 DEF Hits, Slashes
  <2> QED BY <1>5, <2>1, Zenon DEF Longest
<1>6. CASE SubSeq(path, 1, n) \notin Locations /\ sl # {}
  <2>1. PICK x \in Nat : x = m
    BY <1>3, <1>6
  <2>2. x \in 1..(n - 1) /\ path[x] = "/" /\ \A k \in 1..(n - 1) : path[k] = "/" => k <= x
    BY <1>2, <1>3, <1>6, <2>1, ZenonT(30) DEF Slashes
  <2> HIDE DEF sl, m
  <2>3. H = Hits(path, x)
    BY <1>6, <2>2 DEF Hits
  <2>4. Longest(path, n) = Longest(path, x)
    BY <2>3, Zenon DEF Longest, H
  <2> QED BY <1>6, <2>1, <2>2, <2>4 DEF sl, m
<1> QED BY <1>4, <1>5, <1>6, Zenon

\* The walk finds the longest: Longest solves the recursion of MatchLength,
\* and nothing else does.
LEMMA WalkFinds ==
  ASSUME NEW path, NEW n \in Nat
  PROVE  MatchLength(path, n) = Longest(path, n)
<1> DEFINE turn(f, k) == IF SubSeq(path, 1, k) \in Locations THEN k
                         ELSE IF Slashes(path, k) = {} THEN 0
                         ELSE f[Max(Slashes(path, k))]
           g == [k \in 0..n |-> Longest(path, k)]
<1>1. g = [k \in 0..n |-> turn(g, k)]
  <2>1. ASSUME NEW k \in 0..n PROVE Longest(path, k) = turn(g, k)
    <3>1. k \in Nat
      OBVIOUS
    <3>2. /\ Slashes(path, k) # {} => Max(Slashes(path, k)) \in 0..(k - 1)
          /\ Longest(path, k) = IF SubSeq(path, 1, k) \in Locations THEN k
                                ELSE IF Slashes(path, k) = {} THEN 0
                                ELSE Longest(path, Max(Slashes(path, k)))
      BY <3>1, WalkTurn, Zenon
    <3>3. Slashes(path, k) # {} => g[Max(Slashes(path, k))] = Longest(path, Max(Slashes(path, k)))
      BY <3>2
    <3> HIDE DEF g
    <3> QED BY <3>2, <3>3, Zenon
  <2> QED BY <2>1, Zenon
<1> DEFINE match == CHOOSE f : f = [k \in 0..n |-> turn(f, k)]
<1>2. match = [k \in 0..n |-> turn(match, k)]
  <2> HIDE DEF g
  <2> QED BY <1>1, Zenon
<1>3. MatchLength(path, n) = match[n]
  BY Zenon DEF MatchLength, Slashes
<1> HIDE DEF match, g
<1>4. match = g
  <2> SUFFICES ASSUME match # g PROVE FALSE
    OBVIOUS
  <2> DEFINE D == {k \in 0..n : match[k] # g[k]}
  <2>1. D \in SUBSET Nat
    OBVIOUS
  <2>2. D # {}
    <3>1. /\ match = [k \in 0..n |-> match[k]]
          /\ g = [k \in 0..n |-> g[k]]
      BY <1>1, <1>2, Zenon
    <3> QED BY <3>1, Zenon
  <2>3. PICK d \in D : \A k \in D : d <= k
    BY <2>1, <2>2, NatMin, Zenon
  <2>4. d \in 0..n /\ d \in Nat /\ match[d] # g[d]
    BY <2>3
  <2>5. match[d] = turn(match, d) /\ g[d] = turn(g, d)
    BY <1>1, <1>2, <2>4, Zenon
  <2>6. Slashes(path, d) # {} => Max(Slashes(path, d)) \in 0..(d - 1)
    BY <2>4, WalkTurn, Zenon
  <2>7. Slashes(path, d) # {} => match[Max(Slashes(path, d))] = g[Max(Slashes(path, d))]
    BY <2>3, <2>4, <2>6
  <2>8. turn(match, d) = turn(g, d)
    BY <2>7, Zenon
  <2> QED BY <2>4, <2>5, <2>8
<1>5. g[n] = Longest(path, n)
  BY DEF g
<1> QED BY <1>3, <1>4, <1>5, ZenonT(30)

\* What the handlers find at the end of the walk may serve the request, if no
\* stop that is longer than the walk's beginning may.
LEMMA Routes ==
  ASSUME NEW method, NEW path, IsSequence(path), NEW end \in 0..Len(path),
         NEW m, m = MatchLength(path, end), NEW l, l = SubSeq(path, 1, m)
  PROVE  /\ m \in 0..end
         /\ (\A k \in Serving(method, path) \cap Stops(path) : k <= end) =>
              /\ m = 0 => "404" \in Permitted(method, path)
              /\ m > 0 /\ AsFile(method, l) /\ <<l, path>> \notin Found =>
                   \A k \in Serving(method, path) \cap Stops(path) : k <= m - 1
              /\ m > 0 /\ (AsFile(method, l) => <<l, path>> \in Found) =>
                   Offers(method, l) \subseteq Permitted(method, path)
<1> DEFINE H == Hits(path, end)
           V == Serving(method, path) \cap Stops(path)
<1>1. Len(path) \in Nat /\ DOMAIN path = 1..Len(path) /\ end \in Nat
  BY SeqFacts
<1>2. m = IF H = {} THEN 0 ELSE Max(H)
  BY <1>1, WalkFinds, Zenon DEF Longest
<1>3. H \in SUBSET (0..end)
  BY <1>1 DEF Hits
<1>4. H # {} => m \in H /\ \A k \in H : k <= m
  BY <1>1, <1>2, <1>3, MaxFacts, ZenonT(60)
<1>5. H # {} => m \in 1..end /\ l \in Locations
  BY <1>4, Zenon DEF Hits
<1>6. H # {} => m \in DOMAIN path /\ m > 0
  BY <1>1, <1>5
<1>7. m \in 0..end
  BY <1>1, <1>2, <1>5
<1>8. ASSUME \A k \in V : k <= end, NEW k \in V PROVE k \in H
  <2>1. k \in DOMAIN path /\ SubSeq(path, 1, k) \in Locations /\ (k = Len(path) \/ path[k] = "/")
    BY Zenon DEF Serving, Stops
  <2>2. k <= end
    BY <1>8, Zenon
  <2>3. k \in 1..end /\ (k = end \/ path[k] = "/")
    BY <1>1, <2>1, <2>2
  <2> QED BY <2>1, <2>3, Zenon DEF Hits
<1> SUFFICES ASSUME \A k \in V : k <= end
             PROVE  /\ m = 0 => "404" \in Permitted(method, path)
                    /\ m > 0 /\ AsFile(method, l) /\ <<l, path>> \notin Found =>
                         \A k \in V : k <= m - 1
                    /\ m > 0 /\ (AsFile(method, l) => <<l, path>> \in Found) =>
                         Offers(method, l) \subseteq Permitted(method, path)
  BY <1>7, Zenon
<1>9. ASSUME m = 0 PROVE "404" \in Permitted(method, path)
  <2>1. H = {}
    BY <1>6, <1>9
  <2>2. Serving(method, path) \cap Stops(path) = {}
    BY <1>8, <2>1, Zenon
  <2> QED BY <2>2, Zenon DEF Permitted
<1>10. ASSUME m > 0 PROVE H # {} /\ \A k \in V : k <= m
  <2>1. H # {}
    BY <1>2, <1>10
  <2> QED BY <1>4, <1>8, <2>1, Zenon
<1>11. ASSUME m > 0, AsFile(method, l), <<l, path>> \notin Found, NEW k \in V PROVE k <= m - 1
  <2>1. m \notin V
    BY <1>11, Zenon DEF Serving
  <2>2. k <= m /\ k # m
    BY <1>10, <1>11, <2>1, Zenon
  <2>3. k \in Nat /\ m \in Nat
    <3>1. k \in DOMAIN path
      BY Zenon DEF Stops
    <3> QED BY <1>1, <1>7, <3>1
  <2> QED BY <2>2, <2>3
<1>12. ASSUME m > 0, AsFile(method, l) => <<l, path>> \in Found
       PROVE  Offers(method, l) \subseteq Permitted(method, path)
  <2>1. m \in Serving(method, path)
    BY <1>5, <1>6, <1>10, <1>12, Zenon DEF Serving
  <2>2. m \in Chosen(method, path)
    BY <1>10, <1>12, <2>1, Zenon DEF Chosen
  <2> QED BY <2>2, Zenon DEF Permitted
<1> QED BY <1>9, <1>11, <1>12, Zenon

-----------------------------------------------------------------------------
(* The invariant                                                           *)

\* The paths in a stream are sequences.
Readable(s) ==
  IsSequence(s) /\ \A i \in DOMAIN s : Kind(s[i]) = "line" => IsSequence(s[i][3])

\* The request in the context is the last one asked, and late only while it is
\* handled.
InContext ==
  state # "kExpectRequestLine" =>
    /\ request.id \in 1..Len(asked)
    /\ DOMAIN asked[request.id] = {"method", "path", "late"}
    /\ asked[request.id].method = request.method /\ asked[request.id].path = request.path
    /\ request.method # "kInvalid"
    /\ IsSequence(request.path)
    /\ asked[request.id].late \in BOOLEAN
    /\ asked[request.id].late => pc = "handle" /\ Late

\* The walk has passed over no stop that can serve the request, unless it is
\* late.
Walked ==
  state # "kExpectRequestLine" /\ ~clientConnMap =>
    /\ request.end \in 0..Len(request.path)
    /\ \/ asked[request.id].late
       \/ \A k \in Serving(request.method, request.path) \cap Stops(request.path) :
            k <= request.end

\* A forwarded request may be answered by a proxy.
Forwarded ==
  clientConnMap =>
    /\ ~asked[request.id].late
    /\ {"upstream", "503", "500"} \subseteq Permitted(request.method, request.path)

\* The answers fit; a request that is in the context was answered only if it
\* was refused.
AnswersFit ==
  \A i \in DOMAIN answers :
    /\ i \in 1..Len(asked)
    /\ Fits(asked[i], answers[i].kind)
    /\ state # "kExpectRequestLine" /\ i = request.id => answers[i].kind = "400"

Right == InContext /\ Walked /\ Forwarded /\ AnswersFit
RInv == Readable(input) /\ Readable(rest) /\ (overrun \/ Right)

-----------------------------------------------------------------------------
(* Streams                                                                 *)

\* Units are taken off the front.
LEMMA ReadableSplit ==
  ASSUME NEW s, Readable(s), NEW n \in 0..Len(s)
  PROVE  Readable(Drop(s, n)) /\ Readable(SubSeq(s, 1, n))
<1>1. Len(s) \in Nat /\ DOMAIN s = 1..Len(s) /\ n \in Nat
  BY SeqFacts DEF Readable
<1> DEFINE d == Drop(s, n)
           t == SubSeq(s, 1, n)
<1>2. /\ IsSequence(d) /\ Len(d) = Len(s) - n
      /\ \A i \in 1..(Len(s) - n) : d[i] = s[n + i]
      /\ IsSequence(t) /\ Len(t) = n
      /\ \A i \in 1..n : t[i] = s[i]
  BY SeqSplit, Zenon DEF Readable
<1> HIDE DEF d, t
<1>3. DOMAIN d = 1..(Len(s) - n) /\ DOMAIN t = 1..n
  BY <1>2, SeqFacts, Zenon
<1>4. \A i \in DOMAIN d : n + i \in DOMAIN s /\ d[i] = s[n + i]
  BY <1>1, <1>2, <1>3
<1>5. \A i \in DOMAIN t : i \in DOMAIN s /\ t[i] = s[i]
  BY <1>1, <1>2, <1>3
<1> QED BY <1>2, <1>4, <1>5, ZenonT(60) DEF Readable, d, t

\* A segment is put behind what is there.
LEMMA ReadableConcat ==
  ASSUME NEW s, Readable(s), NEW t, Readable(t)
  PROVE  Readable(s \o t)
<1> DEFINE c == s \o t
<1>1. Len(s) \in Nat /\ DOMAIN s = 1..Len(s) /\ Len(t) \in Nat /\ DOMAIN t = 1..Len(t)
  BY SeqFacts, Zenon DEF Readable
<1>2. /\ IsSequence(c) /\ Len(c) = Len(s) + Len(t)
      /\ \A i \in 1..Len(s) : c[i] = s[i]
      /\ \A i \in 1..Len(t) : c[Len(s) + i] = t[i]
  BY SeqConcat DEF Readable
<1> HIDE DEF c
<1>3. DOMAIN c = 1..(Len(s) + Len(t))
  BY <1>2, SeqFacts, Zenon
<1>4. ASSUME NEW i \in DOMAIN c, Kind(c[i]) = "line" PROVE IsSequence(c[i][3])
  <2>1. CASE i \in 1..Len(s)
    BY <1>1, <1>2, <1>4, <2>1, Zenon DEF Readable
  <2>2. CASE i \notin 1..Len(s)
    <3>1. PICK j \in Int : i = Len(s) + j
      <4>1. i - Len(s) \in Int /\ i = Len(s) + (i - Len(s))
        BY <1>1, <1>3
      <4> QED BY <4>1, Zenon
    <3>2. j \in DOMAIN t
      BY <1>1, <1>3, <2>2, <3>1
    <3> QED BY <1>1, <1>2, <1>4, <3>1, <3>2, Zenon DEF Readable
  <2> QED BY <2>1, <2>2, Zenon
<1> QED BY <1>2, <1>4, Zenon DEF Readable, c

-----------------------------------------------------------------------------
(* What several steps have in common                                       *)

\* Nothing that routing depends on changes, and no request is late, or stops
\* being handled.
LEMMA QuietRoutes ==
  ASSUME Right, UNCHANGED <<input, state, request, asked, answers, clientConnMap>>,
         pc = "handle" => pc' = "handle"
  PROVE  Right'
<1>1. InContext'
  BY Zenon DEF Right, InContext, Late
<1>2. Walked' /\ Forwarded' /\ AnswersFit'
  BY Zenon DEF Right, Walked, Forwarded, AnswersFit
<1> QED BY <1>1, <1>2, Zenon DEF Right

\* One more answer, that fits the last request asked.
LEMMA AnswerFits ==
  ASSUME IsSequence(answers), IsSequence(asked), AnswersFit, NEW id, NEW from, NEW kind,
         answers' = Append(answers, [id |-> id, from |-> from, kind |-> kind]),
         NEW n, n = Len(answers) + 1, n \in 1..Len(asked'), Fits(asked'[n], kind),
         state' # "kExpectRequestLine" => kind = "400",
         \A i \in 1..Len(asked) : i \in 1..Len(asked') /\ (i # n => asked'[i] = asked[i]),
         state' # "kExpectRequestLine" => state # "kExpectRequestLine" /\ request'.id = request.id
  PROVE  AnswersFit'
<1> DEFINE a == [id |-> id, from |-> from, kind |-> kind]
<1>1. a.kind = kind
  OBVIOUS
<1> HIDE DEF a
<1>2. /\ IsSequence(answers') /\ Len(answers') = Len(answers) + 1
      /\ \A i \in 1..Len(answers) : answers'[i] = answers[i]
      /\ answers'[Len(answers) + 1] = a
  BY SeqAppend DEF a
<1>3. Len(answers) \in Nat /\ DOMAIN answers = 1..Len(answers)
  BY SeqFacts, Zenon
<1>4. DOMAIN answers' = 1..(Len(answers) + 1)
  BY <1>2, SeqFacts, Zenon
<1>5. ASSUME NEW i \in DOMAIN answers'
      PROVE  /\ i \in 1..Len(asked')
             /\ Fits(asked'[i], answers'[i].kind)
             /\ state' # "kExpectRequestLine" /\ i = request'.id => answers'[i].kind = "400"
  <2>1. CASE i \in 1..Len(answers)
    <3>1. i \in DOMAIN answers /\ i # n /\ answers'[i] = answers[i]
      BY <1>2, <1>3, <2>1
    <3>2. /\ i \in 1..Len(asked) /\ Fits(asked[i], answers[i].kind)
          /\ state # "kExpectRequestLine" /\ i = request.id => answers[i].kind = "400"
      BY <3>1, Zenon DEF AnswersFit
    <3> QED BY <3>1, <3>2, Zenon
  <2>2. CASE i = n
    BY <1>1, <1>2, <2>2, Zenon
  <2> QED BY <1>3, <1>4, <2>1, <2>2
<1> QED BY <1>5, Zenon DEF AnswersFit

\* The request in the context is answered with what fits, and the context is
\* reset.
LEMMA RespondRoutes ==
  ASSUME HInv, ~overrun, Right, state = "kGotAll", NEW kind, Respond(kind, request.id),
         Fits(asked[request.id], kind), UNCHANGED asked, ~clientConnMap'
  PROVE  Right'
<1> USE DEF HInv
<1>1. state' = "kExpectRequestLine" /\ request' = NoRequest
  BY Zenon DEF Respond
<1>2. InContext' /\ Walked' /\ Forwarded'
  BY <1>1, Zenon DEF InContext, Walked, Forwarded
<1>3. AnswersFit'
  <2>1. CASE conn = "kConnected"
    <3>1. answers' = Append(answers, [id |-> request.id, from |-> request.id, kind |-> kind])
      BY <2>1, Zenon DEF Respond
    <3>2. request.id = Len(answers) + 1 /\ request.id \in 1..Len(asked)
      BY <2>1, Zenon DEF Turn, Steady, Right, InContext
    <3> QED BY <1>1, <3>1, <3>2, AnswerFits, ZenonT(30) DEF Types, Right
  <2>2. CASE conn # "kConnected"
    <3>1. answers' = answers
      BY <2>2, Zenon DEF Respond
    <3> QED BY <1>1, <3>1, Zenon DEF Right, AnswersFit
  <2> QED BY <2>1, <2>2, Zenon
<1> QED BY <1>2, <1>3, Zenon DEF Right

\* What was asked, field by field.
LEMMA Record ==
  ASSUME NEW m, NEW p, NEW l, NEW r, r = [method |-> m, path |-> p, late |-> l]
  PROVE  /\ DOMAIN r = {"method", "path", "late"}
         /\ r.method = m /\ r.path = p /\ r.late = l
BY Zenon

\* What was asked is late.
LEMMA RecordLate ==
  ASSUME NEW r, DOMAIN r = {"method", "path", "late"}, NEW s, s = [r EXCEPT !.late = TRUE]
  PROVE  /\ DOMAIN s = {"method", "path", "late"}
         /\ s.method = r.method /\ s.path = r.path /\ s.late = TRUE
BY Zenon

\* What the handlers know of the request.
LEMMA HandlingFacts ==
  ASSUME HInv, ~overrun, Right, pc = "handle"
  PROVE  LET a == asked[request.id] IN
         /\ state = "kGotAll" /\ ~clientConnMap /\ request.method # "kInvalid"
         /\ request.id \in 1..Len(asked)
         /\ a.method = request.method /\ a.path = request.path /\ a.late \in BOOLEAN
         /\ DOMAIN a = {"method", "path", "late"}
         /\ a.late => Late
         /\ Matched \in 0..request.end /\ request.end \in 0..Len(request.path)
         /\ Len(request.path) \in Nat
         /\ ~a.late =>
              /\ Matched = 0 => "404" \in Permitted(request.method, request.path)
              /\ Matched > 0 /\ IsFile /\ <<Location, request.path>> \notin Found =>
                   \A k \in Serving(request.method, request.path) \cap Stops(request.path) :
                     k <= Matched - 1
              /\ Matched > 0 /\ (IsFile => <<Location, request.path>> \in Found) =>
                   Offers(request.method, Location) \subseteq Permitted(request.method, request.path)
<1> USE DEF HInv
<1>1. state = "kGotAll" /\ ~clientConnMap
  BY Zenon DEF Steady, Proxies
<1> DEFINE a == asked[request.id]
<1>2. /\ request.id \in 1..Len(asked) /\ request.method # "kInvalid" /\ IsSequence(request.path)
      /\ DOMAIN a = {"method", "path", "late"}
      /\ a.method = request.method /\ a.path = request.path
      /\ a.late \in BOOLEAN /\ (a.late => Late)
  BY <1>1, Zenon DEF Right, InContext
<1>3. /\ request.end \in 0..Len(request.path)
      /\ a.late \/ \A k \in Serving(request.method, request.path) \cap Stops(request.path) :
                     k <= request.end
  BY <1>1, Zenon DEF Right, Walked
<1>4. Len(request.path) \in Nat
  BY <1>2, SeqFacts, Zenon
<1> HIDE DEF a
<1>5. /\ Matched \in 0..request.end
      /\ ~a.late =>
           /\ Matched = 0 => "404" \in Permitted(request.method, request.path)
           /\ Matched > 0 /\ IsFile /\ <<Location, request.path>> \notin Found =>
                \A k \in Serving(request.method, request.path) \cap Stops(request.path) :
                  k <= Matched - 1
           /\ Matched > 0 /\ (IsFile => <<Location, request.path>> \in Found) =>
                Offers(request.method, Location) \subseteq Permitted(request.method, request.path)
  <2>1. Matched = MatchLength(request.path, request.end) /\ Location = SubSeq(request.path, 1, Matched)
    BY Zenon DEF Matched, Location
  <2>2. IsFile = AsFile(request.method, Location)
    BY Zenon DEF IsFile
  <2> QED BY <1>2, <1>3, <2>1, <2>2, Routes, ZenonT(60)
<1> QED BY <1>1, <1>2, <1>3, <1>4, <1>5, ZenonT(30) DEF a

\* A handler answers with what fits.
LEMMA DoneRoutes ==
  ASSUME HInv, ~overrun, Right, pc = "handle", NEW kind, Done(kind),
         Fits(asked[request.id], kind)
  PROVE  Right'
<1>1. Respond(kind, request.id) /\ UNCHANGED <<asked, clientConnMap>>
  BY Zenon DEF Done
<1>2. state = "kGotAll" /\ ~clientConnMap
  BY Zenon DEF HInv, Steady, Proxies
<1> QED BY <1>1, <1>2, RespondRoutes, Zenon

-----------------------------------------------------------------------------
(* The steps                                                               *)

\* A segment arrives.
LEMMA ReceiveRoutes ==
  ASSUME HInv, RInv, NEW n \in DOMAIN rest, Receive(n)
  PROVE  RInv'
<1>1. /\ input' = input \o SubSeq(rest, 1, n) /\ rest' = Drop(rest, n) /\ pc = "idle"
      /\ overrun' = (overrun \/ state = "kGotAll")
      /\ UNCHANGED <<state, request, asked, answers, clientConnMap>>
  BY Zenon DEF Receive, context
<1>2. n \in 0..Len(rest)
  <2>1. DOMAIN rest = 1..Len(rest) /\ Len(rest) \in Nat
    BY SeqFacts, Zenon DEF RInv, Readable
  <2> QED BY <2>1
<1>3. Readable(rest') /\ Readable(SubSeq(rest, 1, n))
  BY <1>1, <1>2, ReadableSplit, Zenon DEF RInv
<1>4. Readable(input')
  BY <1>1, <1>3, ReadableConcat, Zenon DEF RInv
<1>5. ASSUME ~overrun' PROVE Right'
  <2>1. Right
    BY <1>1, <1>5, Zenon DEF RInv
  <2>2. InContext'
    BY <1>1, <2>1, Zenon DEF Right, InContext
  <2>3. Walked' /\ Forwarded' /\ AnswersFit'
    BY <1>1, <2>1, Zenon DEF Right, Walked, Forwarded, AnswersFit
  <2> QED BY <2>2, <2>3, Zenon DEF Right
<1> QED BY <1>3, <1>4, <1>5, Zenon DEF RInv

\* The request line: a new request is asked, its walk begins at its end, and
\* if it is refused it is answered.
LEMMA ParseRequestLineRoutes ==
  ASSUME HInv, RInv, ParseRequestLine
  PROVE  RInv'
<1> USE DEF HInv
<1> DEFINE c == Crlf(input)
           u == input[c]
           whole == c = 1 /\ Kind(u) = "line"
           method == IF whole THEN u[2] ELSE "kInvalid"
           good == whole /\ method # "kInvalid" /\ u[4]
           id == Len(asked) + 1
           a == [method |-> IF good THEN method ELSE "kInvalid",
                 path |-> IF good THEN u[3] ELSE <<>>, late |-> FALSE]
<1>1. /\ pc = "request" /\ state = "kExpectRequestLine" /\ c > 0
      /\ asked' = Append(asked, a)
      /\ UNCHANGED <<rest, clientConnMap, overrun>>
  BY Zenon DEF ParseRequestLine
<1>2. \/ /\ good
         /\ request' = [request EXCEPT !.method = method, !.path = u[3],
                                       !.end = Len(u[3]), !.id = id]
         /\ input' = Drop(input, c)
         /\ state' = "kExpectHeaders"
         /\ UNCHANGED <<conn, answers, pc>>
      \/ /\ ~good
         /\ request' = [request EXCEPT !.method = IF Kind(u) = "blank" THEN @ ELSE method]
         /\ BadMessage(id)
         /\ UNCHANGED <<input, state>>
  BY Zenon DEF ParseRequestLine
<1>3. Len(asked) \in Nat /\ Len(answers) \in Nat /\ DOMAIN input = 1..Len(input)
      /\ Len(input) \in Nat /\ DOMAIN answers = 1..Len(answers)
  BY SeqFacts, Zenon DEF Types, RInv, Readable
<1>4. c \in 0..Len(input)
  BY CrlfFacts, ZenonT(30) DEF RInv, Readable
<1>5. c \in DOMAIN input
  BY <1>1, <1>3, <1>4
<1>6. /\ DOMAIN a = {"method", "path", "late"} /\ a.late = FALSE
      /\ good => a.method = method /\ a.path = u[3]
  BY Zenon
<1> HIDE DEF a, c
<1>7. /\ Len(asked') = id /\ asked'[id] = a /\ id \in 1..Len(asked')
      /\ \A i \in 1..Len(asked) : i \in 1..Len(asked') /\ i # id /\ asked'[i] = asked[i]
  <2>1. /\ Len(asked') = Len(asked) + 1 /\ asked'[Len(asked) + 1] = a
        /\ \A i \in 1..Len(asked) : asked'[i] = asked[i]
    BY <1>1, SeqAppend, ZenonT(60) DEF Types
  <2> QED BY <1>3, <2>1
<1>8. Readable(input') /\ Readable(rest')
  <2>1. Readable(Drop(input, c))
    BY <1>4, ReadableSplit, Zenon DEF RInv
  <2> QED BY <1>1, <1>2, <2>1, Zenon DEF RInv
<1>9. ASSUME ~overrun', good PROVE Right'
  <2>0. Right /\ ~clientConnMap'
    BY <1>1, <1>9, Zenon DEF RInv, Proxies
  <2>1. /\ state' = "kExpectHeaders" /\ pc' = "request" /\ answers' = answers
        /\ request' = [request EXCEPT !.method = method, !.path = u[3],
                                      !.end = Len(u[3]), !.id = id]
    BY <1>1, <1>2, <1>9, Zenon
  <2>2. method # "kInvalid" /\ Kind(u) = "line"
    BY <1>9, Zenon
  <2>3. IsSequence(u[3])
    BY <1>5, <2>2, Zenon DEF RInv, Readable
  <2>4. /\ DOMAIN asked'[id] = {"method", "path", "late"} /\ asked'[id].late = FALSE
        /\ asked'[id].method = method /\ asked'[id].path = u[3]
    BY <1>6, <1>7, <1>9, Zenon
  <2> HIDE DEF good, method
  <2>5. /\ request'.id = id /\ request'.method = method /\ request'.path = u[3]
        /\ request'.end = Len(u[3])
    BY <2>1, Zenon DEF Types, Fields
  <2>7. InContext'
    BY <1>7, <2>2, <2>3, <2>4, <2>5, Zenon DEF InContext
  <2>8. Walked'
    <3>1. Len(u[3]) \in Nat /\ DOMAIN u[3] = 1..Len(u[3])
      BY <2>3, SeqFacts, Zenon
    <3>2. request'.end \in 0..Len(request'.path)
      BY <2>5, <3>1
    <3>3. \A k \in Stops(u[3]) : k <= Len(u[3])
      BY <3>1 DEF Stops
    <3>4. \A k \in Serving(request'.method, request'.path) \cap Stops(request'.path) :
            k <= request'.end
      BY <2>5, <3>3, Zenon
    <3> QED BY <3>2, <3>4, Zenon DEF Walked
  <2>9. Forwarded'
    BY <2>0, Zenon DEF Forwarded
  <2>10. AnswersFit'
    BY <1>7, <2>0, <2>1, <2>5, ZenonT(30) DEF Right, AnswersFit
  <2> QED BY <2>7, <2>8, <2>9, <2>10, Zenon DEF Right
<1>10. ASSUME ~overrun', ~good PROVE Right'
  <2>0. Right /\ Turn /\ ~clientConnMap'
    BY <1>1, <1>10, Zenon DEF RInv, Proxies
  <2>1. /\ BadMessage(id) /\ state' = "kExpectRequestLine"
    BY <1>1, <1>2, <1>10, Zenon
  <2>2. InContext' /\ Walked' /\ Forwarded'
    BY <2>0, <2>1, Zenon DEF InContext, Walked, Forwarded
  <2>3. AnswersFit'
    <3>1. CASE conn = "kConnected"
      <4>1. answers' = Append(answers, [id |-> id, from |-> id, kind |-> "400"])
        BY <2>1, <3>1, Zenon DEF BadMessage
      <4>2. Len(asked) = Len(answers) + 0
        BY <1>1, <2>0, <3>1, Zenon DEF Turn
      <4>3. id = Len(answers) + 1
        BY <1>3, <4>2
      <4>4. Fits(asked'[id], "400")
        BY Zenon DEF Fits
      <4> QED BY <1>7, <2>0, <2>1, <4>1, <4>3, <4>4, AnswerFits, ZenonT(30) DEF Types, Right
    <3>2. CASE conn # "kConnected"
      <4>1. answers' = answers
        BY <2>1, <3>2, Zenon DEF BadMessage
      <4> QED BY <1>7, <2>0, <2>1, <4>1, Zenon DEF Right, AnswersFit
    <3> QED BY <3>1, <3>2, Zenon
  <2> QED BY <2>2, <2>3, Zenon DEF Right
<1> QED BY <1>8, <1>9, <1>10, Zenon DEF RInv

\* A header: the walk has not begun.
LEMMA ParseHeaderRoutes ==
  ASSUME HInv, RInv, ParseHeader
  PROVE  RInv'
<1> USE DEF HInv
<1> DEFINE kind == HeaderKind(input)
<1>1. /\ pc = "request" /\ state = "kExpectHeaders"
      /\ state' = IF kind = "blank" THEN "kGotAll" ELSE state
      /\ input' = Drop(input, Crlf(input))
      /\ UNCHANGED <<rest, clientConnMap, asked, overrun>>
  BY Zenon DEF ParseHeader
<1>2. request' = CASE kind = "length" -> [request EXCEPT !.length = input[1][2]]
                   [] kind = "close"  -> [request EXCEPT !.close = TRUE]
                   [] OTHER           -> request
  BY Zenon DEF ParseHeader
<1>3. IF kind = "bad" THEN BadMessage(request.id) ELSE UNCHANGED <<answers, conn, pc>>
  BY Zenon DEF ParseHeader
<1> HIDE DEF kind
<1>4. /\ request'.id = request.id /\ request'.method = request.method
      /\ request'.path = request.path /\ request'.end = request.end
  BY <1>2, Zenon DEF Types, Fields
<1>5. Crlf(input) \in 0..Len(input)
  BY CrlfFacts, Zenon DEF RInv, Readable
<1>6. Readable(input') /\ Readable(rest')
  BY <1>1, <1>5, ReadableSplit, ZenonT(60) DEF RInv
<1>7. ASSUME ~overrun' PROVE Right'
  <2>0. Right /\ Turn
    BY <1>1, <1>7, Zenon DEF RInv
  <2>1. state' # "kExpectRequestLine" /\ state # "kExpectRequestLine"
    BY <1>1, Zenon
  <2>2. ~asked[request.id].late
    BY <1>1, <2>0, <2>1, Zenon DEF Right, InContext
  <2>3. InContext'
    BY <1>1, <1>4, <2>0, <2>1, <2>2, Zenon DEF Right, InContext
  <2>4. Walked'
    BY <1>1, <1>4, <2>0, <2>1, Zenon DEF Right, Walked
  <2>5. Forwarded'
    BY <1>1, <1>4, <2>0, Zenon DEF Right, Forwarded
  <2>6. AnswersFit'
    <3>1. CASE kind = "bad" /\ conn = "kConnected"
      <4>1. answers' = Append(answers, [id |-> request.id, from |-> request.id, kind |-> "400"])
        BY <1>3, <3>1, Zenon DEF BadMessage
      <4>2. request.id = Len(answers) + 1 /\ request.id \in 1..Len(asked)
        BY <1>1, <2>0, <3>1, Zenon DEF Turn, Steady, Right, InContext
      <4>3. Fits(asked'[request.id], "400")
        BY Zenon DEF Fits
      <4> QED BY <1>1, <1>4, <2>0, <2>1, <4>1, <4>2, <4>3, AnswerFits, ZenonT(30) DEF Types, Right
    <3>2. CASE ~(kind = "bad" /\ conn = "kConnected")
      <4>1. answers' = answers
        BY <1>3, <3>2, Zenon DEF BadMessage
      <4> QED BY <1>1, <1>4, <2>0, <2>1, <4>1, Zenon DEF Right, AnswersFit
    <3> QED BY <3>1, <3>2, Zenon
  <2> QED BY <2>3, <2>4, <2>5, <2>6, Zenon DEF Right
<1> QED BY <1>6, <1>7, Zenon DEF RInv

\* A handler is done without reading the input.
LEMMA HandleDoneRoutes ==
  ASSUME HInv, RInv, HandleNoLocation \/ HandleStatic \/ HandleBadLength
  PROVE  RInv'
<1>1. /\ pc = "handle" /\ UNCHANGED <<rest, input, overrun>>
      /\ \E kind \in {"200", "400", "404", "500"} : Done(kind)
  BY Zenon DEF HandleNoLocation, HandleStatic, HandleBadLength, Handling, Done
<1>2. ASSUME ~overrun PROVE Right'
  <2>0. Right
    BY <1>2, Zenon DEF RInv
  <2> DEFINE a == asked[request.id]
             P == Permitted(request.method, request.path)
  <2>1. /\ request.method # "kInvalid" /\ a.method = request.method /\ a.path = request.path
        /\ a.late \in BOOLEAN /\ (a.late => Late)
        /\ ~a.late => /\ Matched = 0 => "404" \in P
                      /\ Matched > 0 /\ (IsFile => <<Location, request.path>> \in Found) =>
                           Offers(request.method, Location) \subseteq P
    BY <1>1, <1>2, <2>0, HandlingFacts, Zenon
  <2>2. CASE HandleNoLocation
    <3>1. Done("404") /\ Matched = 0
      BY <2>2, Zenon DEF HandleNoLocation
    <3>2. Fits(a, "404")
      BY <2>1, <3>1, Zenon DEF Fits
    <3> QED BY <1>1, <1>2, <2>0, <3>1, <3>2, DoneRoutes, Zenon
  <2>3. CASE HandleStatic
    <3>1. /\ Matched > 0 /\ IsFile /\ <<Location, request.path>> \in Found
          /\ \E kind \in {"200", "404", "500"} : Done(kind)
      BY <2>3, Zenon DEF HandleStatic
    <3>2. ~a.late
      BY <2>1, <3>1, Zenon DEF Late, IsFile, AsFile
    <3>3. {"200", "404", "500"} \subseteq P
      BY <2>1, <3>1, <3>2, Zenon DEF Offers, IsFile
    <3>4. PICK kind \in {"200", "404", "500"} : Done(kind)
      BY <3>1, Zenon
    <3>5. Fits(a, kind)
      BY <2>1, <3>2, <3>3, Zenon DEF Fits
    <3> QED BY <1>1, <1>2, <2>0, <3>4, <3>5, DoneRoutes, Zenon
  <2>4. CASE HandleBadLength
    <3>1. Done("400") /\ Fits(a, "400")
      BY <2>4, Zenon DEF HandleBadLength, Fits
    <3> QED BY <1>1, <1>2, <2>0, <3>1, DoneRoutes, Zenon
  <2> QED BY <2>2, <2>3, <2>4, Zenon
<1> QED BY <1>1, <1>2, Zenon DEF RInv

\* Another pass: the walk leaves a location that cannot serve the request, or
\* the request is late, and stays so.
LEMMA HandleAgainRoutes ==
  ASSUME HInv, RInv, HandleAgain
  PROVE  RInv'
<1> USE DEF HInv
<1>1. /\ pc = "handle" /\ Matched > 0
      /\ (IsFile /\ <<Location, request.path>> \notin Found) \/ Late
      /\ request' = [request EXCEPT !.end = Matched - 1]
      /\ asked' = IF Late THEN MarkLate(asked, request.id) ELSE asked
      /\ UNCHANGED <<rest, input, state, clientConnMap, pc, answers, overrun>>
  BY Zenon DEF HandleAgain, Handling, client
<1>2. /\ request'.id = request.id /\ request'.method = request.method
      /\ request'.path = request.path /\ request'.end = Matched - 1
      /\ request'.length = request.length
  BY <1>1, Zenon DEF Types, Fields
<1>3. ASSUME ~overrun PROVE Right'
  <2>0. Right
    BY <1>3, Zenon DEF RInv
  <2> DEFINE a == asked[request.id]
             V == Serving(request.method, request.path) \cap Stops(request.path)
  <2>1. /\ state = "kGotAll" /\ ~clientConnMap /\ request.method # "kInvalid"
        /\ request.id \in 1..Len(asked) /\ a.late \in BOOLEAN
        /\ DOMAIN a = {"method", "path", "late"}
        /\ a.method = request.method /\ a.path = request.path
        /\ a.late => Late
        /\ Matched \in 0..request.end /\ request.end \in 0..Len(request.path)
        /\ Len(request.path) \in Nat
        /\ ~a.late => (IsFile /\ <<Location, request.path>> \notin Found =>
                         \A k \in V : k <= Matched - 1)
    BY <1>1, <1>3, <2>0, HandlingFacts, Zenon
  <2>2. IsSequence(request.path)
    BY <2>0, <2>1, Zenon DEF Right, InContext
  <2>3. request'.end \in 0..Len(request'.path)
    BY <1>1, <1>2, <2>1
  <2>4. Late' <=> Late
    BY <1>1, <1>2, Zenon DEF Late
  <2>5. CASE Late
    <3>0. asked' = MarkLate(asked, request.id) /\ IsSequence(asked)
      BY <1>1, <2>5, Zenon DEF Types
    <3>1. /\ Len(asked') = Len(asked)
          /\ \A j \in 1..Len(asked) : j # request.id => asked'[j] = asked[j]
          /\ asked'[request.id] = [asked[request.id] EXCEPT !.late = TRUE]
      <4>1. request.id \in 1..Len(asked)
        BY <2>1, Zenon
      <4>2. Len(asked') = Len(asked)
        BY <3>0, SeqSet, Zenon
      <4>3. \A j \in 1..Len(asked) :
              j # request.id => MarkLate(asked, request.id)[j] = asked[j]
        <5>1. PICK i : i = request.id
          BY Zenon
        <5>2. \A j \in 1..Len(asked) : j # i => MarkLate(asked, i)[j] = asked[j]
          BY <3>0, SeqSet, ZenonT(60)
        <5> QED BY <5>1, <5>2, Zenon
      <4>4. MarkLate(asked, request.id)[request.id] = [asked[request.id] EXCEPT !.late = TRUE]
        BY <3>0, <4>1, SeqSet, Zenon
      <4> QED BY <3>0, <4>2, <4>3, <4>4, Zenon
    <3>2. /\ DOMAIN asked'[request.id] = {"method", "path", "late"}
          /\ asked'[request.id].method = request.method
          /\ asked'[request.id].path = request.path
          /\ asked'[request.id].late = TRUE
      BY <2>1, <3>1, RecordLate, Zenon
    <3>4. InContext'
      BY <1>1, <1>2, <2>1, <2>2, <2>4, <2>5, <3>1, <3>2, Zenon DEF InContext
    <3>5. Walked' /\ Forwarded'
      BY <1>1, <1>2, <2>1, <2>3, <3>2, Zenon DEF Walked, Forwarded
    <3>6. AnswersFit'
      <4>1. ASSUME NEW i \in DOMAIN answers'
            PROVE  /\ i \in 1..Len(asked')
                   /\ Fits(asked'[i], answers'[i].kind)
                   /\ state' # "kExpectRequestLine" /\ i = request'.id => answers'[i].kind = "400"
        <5>1. /\ i \in 1..Len(asked) /\ Fits(asked[i], answers[i].kind)
              /\ i = request.id => answers[i].kind = "400"
          BY <1>1, <2>0, <2>1, Zenon DEF Right, AnswersFit
        <5>2. Fits(asked'[i], answers'[i].kind)
          BY <1>1, <3>1, <5>1, ZenonT(60) DEF Fits
        <5> QED BY <1>1, <1>2, <3>1, <5>1, <5>2, Zenon
      <4> QED BY <4>1, Zenon DEF AnswersFit
    <3> QED BY <3>4, <3>5, <3>6, Zenon DEF Right
  <2>6. CASE ~Late
    <3>1. asked' = asked /\ ~a.late /\ IsFile /\ <<Location, request.path>> \notin Found
      BY <1>1, <2>1, <2>6, Zenon
    <3>2. InContext'
      BY <1>1, <1>2, <2>0, <2>4, <3>1, ZenonT(60) DEF Right, InContext
    <3>3. \A k \in V : k <= request'.end
      BY <1>2, <2>1, <3>1, Zenon
    <3>4. Walked' /\ Forwarded'
      BY <1>1, <1>2, <2>1, <2>3, <3>3, Zenon DEF Walked, Forwarded
    <3>5. AnswersFit'
      BY <1>1, <1>2, <2>0, <3>1, Zenon DEF Right, AnswersFit
    <3> QED BY <3>2, <3>4, <3>5, Zenon DEF Right
  <2> QED BY <2>5, <2>6, Zenon
<1> QED BY <1>1, <1>3, Zenon DEF RInv

\* The body is taken off the input: the request was not late.
LEMMA BodyTakenFacts ==
  ASSUME HInv, RInv, BodyTaken
  PROVE  /\ pc = "handle" /\ Matched > 0 /\ ~IsFile /\ Readable(input')
         /\ ~overrun => /\ Right /\ ~asked[request.id].late
                        /\ Offers(request.method, Location)
                             \subseteq Permitted(request.method, request.path)
<1>1. /\ pc = "handle" /\ Matched > 0 /\ ~IsFile
      /\ request.method = "kPost" => request.length \in 0..Len(input)
      /\ input' = IF request.method = "kPost" THEN Drop(input, request.length) ELSE input
  BY Zenon DEF BodyTaken, Handling
<1>2. Readable(input')
  BY <1>1, ReadableSplit, Zenon DEF RInv
<1>3. ~Late
  <2>1. SUFFICES ASSUME request.method = "kPost", request.length > Len(input) PROVE FALSE
    BY Zenon DEF Late
  <2>2. Len(input) \in Nat
    BY SeqFacts, Zenon DEF RInv, Readable
  <2> QED BY <1>1, <2>1, <2>2
<1>4. ASSUME ~overrun
      PROVE  /\ Right /\ ~asked[request.id].late
             /\ Offers(request.method, Location) \subseteq Permitted(request.method, request.path)
  <2>1. Right
    BY <1>4, Zenon DEF RInv
  <2>2. asked[request.id].late => Late
    BY <1>1, <1>4, <2>1, HandlingFacts, Zenon
  <2> QED BY <1>1, <1>3, <1>4, <2>1, <2>2, HandlingFacts, Zenon
<1> QED BY <1>1, <1>2, <1>4, Zenon

\* Nobody serves what the walk has found.
LEMMA HandleDefaultRoutes ==
  ASSUME HInv, RInv, HandleDefault
  PROVE  RInv'
<1>1. /\ BodyTaken /\ Location \notin ProxyLocations /\ Done("404")
      /\ UNCHANGED <<rest, overrun>>
  BY Zenon DEF HandleDefault, Done
<1>2. /\ pc = "handle" /\ ~IsFile /\ Readable(input')
      /\ ~overrun => /\ Right /\ ~asked[request.id].late
                     /\ Offers(request.method, Location)
                          \subseteq Permitted(request.method, request.path)
  BY <1>1, BodyTakenFacts, Zenon
<1>3. ASSUME ~overrun PROVE Right'
  <2>1. "404" \in Permitted(request.method, request.path)
    BY <1>1, <1>2, <1>3, Zenon DEF Offers, IsFile
  <2>2. /\ request.method # "kInvalid" /\ asked[request.id].method = request.method
        /\ asked[request.id].path = request.path
    BY <1>2, <1>3, HandlingFacts, Zenon
  <2>3. Fits(asked[request.id], "404")
    BY <1>2, <1>3, <2>1, <2>2, Zenon DEF Fits
  <2> QED BY <1>1, <1>2, <1>3, <2>3, DoneRoutes, Zenon
<1> QED BY <1>1, <1>2, <1>3, Zenon DEF RInv

\* The request is forwarded, or refused at once.
LEMMA ForwardRoutes ==
  ASSUME HInv, RInv, NEW outcome, Forward(outcome)
  PROVE  RInv'
<1> USE DEF HInv
<1>1. /\ BodyTaken /\ Location \in ProxyLocations /\ pc' = "idle"
      /\ UNCHANGED <<rest, asked, overrun>>
  BY Zenon DEF Forward
<1>2. IF outcome = "failed"
      THEN Respond("503", request.id) /\ clientConnMap' = FALSE
      ELSE /\ request' = [request EXCEPT !.end = Matched - 1]
           /\ clientConnMap' = TRUE
           /\ UNCHANGED <<conn, answers, state>>
  BY Zenon DEF Forward
<1>3. /\ pc = "handle" /\ ~IsFile /\ Readable(input')
      /\ ~overrun => /\ Right /\ ~asked[request.id].late
                     /\ Offers(request.method, Location)
                          \subseteq Permitted(request.method, request.path)
  BY <1>1, BodyTakenFacts, Zenon
<1>4. ASSUME ~overrun PROVE Right'
  <2>1. {"upstream", "503", "500"} \subseteq Permitted(request.method, request.path)
    BY <1>1, <1>3, <1>4, Zenon DEF Offers, IsFile
  <2>2. /\ state = "kGotAll" /\ request.method # "kInvalid"
        /\ asked[request.id].method = request.method /\ asked[request.id].path = request.path
    BY <1>3, <1>4, HandlingFacts, Zenon
  <2>3. CASE outcome = "failed"
    <3>1. Respond("503", request.id) /\ ~clientConnMap'
      BY <1>2, <2>3, Zenon
    <3>2. Fits(asked[request.id], "503")
      BY <1>3, <1>4, <2>1, <2>2, Zenon DEF Fits
    <3> QED BY <1>1, <1>3, <1>4, <2>2, <3>1, <3>2, RespondRoutes, Zenon
  <2>4. CASE outcome # "failed"
    <3>1. /\ request' = [request EXCEPT !.end = Matched - 1] /\ clientConnMap' = TRUE
          /\ UNCHANGED <<answers, state>>
      BY <1>2, <2>4, Zenon
    <3>2. /\ request'.id = request.id /\ request'.method = request.method
          /\ request'.path = request.path
      BY <3>1, Zenon DEF Types, Fields
    <3>3. InContext'
      BY <1>1, <1>3, <1>4, <3>1, <3>2, Zenon DEF Right, InContext
    <3>4. Walked'
      BY <3>1, Zenon DEF Walked
    <3>5. Forwarded'
      BY <1>1, <1>3, <1>4, <2>1, <3>2, Zenon DEF Forwarded
    <3>6. AnswersFit'
      BY <1>1, <1>3, <1>4, <3>1, <3>2, Zenon DEF Right, AnswersFit
    <3> QED BY <3>3, <3>4, <3>5, <3>6, Zenon DEF Right
  <2> QED BY <2>3, <2>4, Zenon
<1> QED BY <1>1, <1>3, <1>4, Zenon DEF RInv

\* A proxy answers with what a forwarded request may be answered.
LEMMA ProxyAnswerRoutes ==
  ASSUME HInv, RInv, NEW p \in Proxy, ~overrun => Working(p),
         NEW kind \in {"upstream", "503", "500"}, ProxyAnswer(p, kind),
         UNCHANGED <<rest, input, asked, overrun>>
  PROVE  RInv'
<1> USE DEF HInv
<1>1. ASSUME ~overrun PROVE Right'
  <2>0. Right
    BY <1>1, Zenon DEF RInv
  <2>1. clientConnMap /\ state = "kGotAll" /\ proxy[p].id = request.id
    BY <1>1, Zenon DEF Proxies
  <2>2. /\ ~asked[request.id].late
        /\ {"upstream", "503", "500"} \subseteq Permitted(request.method, request.path)
    BY <2>0, <2>1, Zenon DEF Right, Forwarded
  <2>3. /\ request.method # "kInvalid"
        /\ asked[request.id].method = request.method /\ asked[request.id].path = request.path
    BY <2>0, <2>1, Zenon DEF Right, InContext
  <2>5. Fits(asked[request.id], kind)
    BY <2>2, <2>3, Zenon DEF Fits
  <2>6. Respond(kind, request.id) /\ ~clientConnMap'
    BY <2>1, Zenon DEF ProxyAnswer
  <2> QED BY <1>1, <2>0, <2>1, <2>5, <2>6, RespondRoutes, Zenon
<1> QED BY <1>1, Zenon DEF RInv

\* The response parser goes on, or answers.
LEMMA ParseResponseRoutes ==
  ASSUME HInv, RInv, ParseResponse
  PROVE  RInv'
<1> USE DEF HInv
<1>1. /\ pc = "response" /\ current \in Proxy /\ UNCHANGED <<rest, input, asked, overrun>>
  BY Zenon DEF ParseResponse, ProxyTypes
<1>2. PICK p \in Proxy : p = current
  BY <1>1, Zenon
<1>3. ~overrun => Working(p)
  BY <1>1, <1>2, Zenon DEF Proxies, Working
<1>4. ParseReplyLine(p) \/ ParseReplyBody(p) \/ ProxyResponse(p)
  BY <1>2, Zenon DEF ParseResponse
<1>5. \/ UNCHANGED <<context, conn, clientConnMap, answers, aborted>>
      \/ \E kind \in {"500", "upstream"} : Shut(p, kind)
  BY <1>1, <1>2, <1>4, ParseResponseCases, Zenon
<1>6. CASE UNCHANGED <<context, conn, clientConnMap, answers, aborted>>
  <2>1. UNCHANGED <<input, state, request, asked, answers, clientConnMap>> /\ pc # "handle"
    BY <1>1, <1>6, Zenon DEF context
  <2>2. Right => Right'
    BY <2>1, QuietRoutes, Zenon
  <2> QED BY <1>1, <2>2, Zenon DEF RInv
<1>7. CASE \E kind \in {"500", "upstream"} : Shut(p, kind)
  <2>1. PICK kind \in {"upstream", "503", "500"} : ProxyAnswer(p, kind)
    BY <1>7, Zenon DEF Shut
  <2> QED BY <1>1, <1>3, <2>1, ProxyAnswerRoutes, Zenon
<1> QED BY <1>5, <1>6, <1>7, Zenon

\* The steps that routing does not depend on.
LEMMA OtherRoutes ==
  ASSUME HInv, RInv,
         \/ ParseAgain \/ ParseDone \/ HandleEmptyPath \/ Leave \/ UNCHANGED vars
         \/ \E p \in Proxy : \/ Connected(p) \/ UpstreamCloses(p)
                             \/ \E n \in DOMAIN proxy[p].rest : ReplyArrives(p, n)
  PROVE  RInv'
<1>1. CASE \/ ParseAgain \/ ParseDone \/ HandleEmptyPath \/ Leave \/ UNCHANGED vars
           \/ \E p \in Proxy : Connected(p) \/ UpstreamCloses(p)
  <2>1. UNCHANGED <<rest, input, state, request, asked, answers, clientConnMap, overrun>>
    BY <1>1, Zenon DEF ParseAgain, ParseDone, HandleEmptyPath, Leave, Connected, UpstreamCloses,
           vars, context, client
  <2>2. pc = "handle" => pc' = "handle"
    BY <1>1, Zenon DEF ParseAgain, ParseDone, HandleEmptyPath, Leave, Connected, UpstreamCloses, vars
  <2>3. Right => Right'
    BY <2>1, <2>2, QuietRoutes, Zenon
  <2> QED BY <2>1, <2>3, Zenon DEF RInv
<1>2. CASE \E p \in Proxy : \E n \in DOMAIN proxy[p].rest : ReplyArrives(p, n)
  <2>1. /\ UNCHANGED <<rest, input, state, request, asked, answers, clientConnMap>>
        /\ pc = "idle"
    BY <1>2, Zenon DEF ReplyArrives, context, client
  <2>2. ~overrun' => ~overrun
    BY <1>2, Zenon DEF ReplyArrives
  <2>3. Right => Right'
    BY <2>1, QuietRoutes, Zenon
  <2> QED BY <2>1, <2>2, <2>3, Zenon DEF RInv
<1> QED BY <1>1, <1>2, Zenon

-----------------------------------------------------------------------------
(* Routing is right                                                        *)

\* Every step keeps the invariant of routing.
LEMMA StepRInv ==
  ASSUME HInv, RInv, [Next]_vars
  PROVE  RInv'
<1>1. CASE ParseRequest
  BY <1>1, ParseRequestLineRoutes, ParseHeaderRoutes, OtherRoutes, ZenonT(60) DEF ParseRequest
<1>2. CASE HandleRequest
  <2>1. CASE HandleEmptyPath
    BY <2>1, OtherRoutes, ZenonT(60)
  <2>2. CASE HandleNoLocation \/ HandleStatic \/ HandleBadLength
    BY <2>2, HandleDoneRoutes, Zenon
  <2>3. CASE HandleAgain \/ HandleDefault
    BY <2>3, HandleAgainRoutes, HandleDefaultRoutes, Zenon
  <2>4. CASE \E outcome \in {"connecting", "failed", "dead"} : Forward(outcome)
    BY <2>4, ForwardRoutes, Zenon
  <2> QED BY <1>2, <2>1, <2>2, <2>3, <2>4, ZenonT(60) DEF HandleRequest
<1>3. CASE ParseResponse
  BY <1>3, ParseResponseRoutes, ZenonT(30)
<1>4. CASE \E n \in DOMAIN rest : Receive(n)
  BY <1>4, ReceiveRoutes, Zenon
<1>5. CASE \E p \in Proxy : ConnectFailed(p)
  <2>1. PICK p \in Proxy : ConnectFailed(p)
    BY <1>5, ZenonT(30)
  <2>2. Working(p) /\ ProxyAnswer(p, "503") /\ UNCHANGED <<rest, input, asked, overrun>>
    BY <2>1, ZenonT(30) DEF ConnectFailed, Working
  <2> QED BY <2>2, ProxyAnswerRoutes, ZenonT(60)
<1>6. CASE \/ Leave \/ UNCHANGED vars
           \/ \E p \in Proxy : \/ Connected(p) \/ UpstreamCloses(p)
                               \/ \E n \in DOMAIN proxy[p].rest : ReplyArrives(p, n)
  BY <1>6, OtherRoutes, Zenon
<1> QED BY <1>1, <1>2, <1>3, <1>4, <1>5, <1>6, ZenonT(60) DEF Next, Callback, Upstream

\* A new connection satisfies the invariant of routing.
LEMMA InitRInv ==
  ASSUME Init
  PROVE  RInv
<1>1. /\ rest \in Streams /\ input = <<>> /\ state = "kExpectRequestLine"
      /\ clientConnMap = FALSE /\ answers = <<>>
  BY Zenon DEF Init
<1>2. Readable(rest)
  BY <1>1, StreamAssumption, Zenon DEF Readable, PathsOf
<1>3. DOMAIN input = {} /\ DOMAIN answers = {}
  BY <1>1
<1>4. Readable(input)
  BY <1>1, <1>3, EmptySeq, SeqIsSeq, Zenon DEF Readable
<1>5. Right
  BY <1>1, <1>3, Zenon DEF Right, InContext, Walked, Forwarded, AnswersFit
<1> QED BY <1>2, <1>4, <1>5, Zenon DEF RInv

\* Whatever the peers send, until an overrun the n-th response answers the n-th
\* request line, and is what the location calls for that should serve its path:
\* the walk of HttpAccessHandler from slash to slash, taken up again by
\* onRequest on every kHandleAgain, passes over no stop that can serve the
\* request.  A POST whose body was not all there is answered with 404.
THEOREM RoutedRight == Spec => []AnsweredRight
<1>1. Init => RInv
  BY InitRInv, ZenonT(30)
<1>2. HInv /\ RInv /\ [Next]_vars => RInv'
  BY StepRInv, ZenonT(30)
<1>3. HInv /\ RInv => AnsweredRight
  BY Zenon DEF HInv, Turn, RInv, Right, AnswersFit, AnsweredInOrder, AnsweredRight
<1> QED BY <1>1, <1>2, <1>3, HInvariant, PTL DEF Spec
=============================================================================

-------------------------- MODULE MC_ServerConfig --------------------------
(* Files for ServerConfig: each part of the file is complete, or wrong in one  *)
(* of the ways the loader meets, and lists and entries may be shared.          *)
EXTENDS ServerConfig

MCNumber == ("8" :> 8) @@ ("80" :> 80) @@ ("0x50" :> 80) @@ ("-80" :> -80) @@ ("70000" :> 70000)
              @@ ("-1" :> -1) @@ ("0" :> 0)

MCCommandLines == {<<>>, <<"c">>, <<"h">>, <<"c", "?">>, <<"?", "c">>, <<"c", "h">>}

S(text) == Scalar(text)
Pairs(kvs) == Mapping(FlattenSeq([k \in DOMAIN kvs |-> <<S(kvs[k][1]), kvs[k][2]>>]))

(* A mapping with one of its pairs left out or given another value. *)
Spoilt(kvs) ==
  {Pairs(kvs)} \cup {Pairs(RemoveAt(kvs, k)) : k \in DOMAIN kvs}
    \cup {Pairs([kvs EXCEPT ![k][2] = v]) : k \in DOMAIN kvs, v \in {S("x"), List(<<S("x")>>)}}

MainPairs == <<<<"max_workers", S("8")>>, <<"keepalive_timeout", S("0")>>,
               <<"worker_connections", S("80")>>>>
LoggerPairs == <<<<"name", S("access")>>, <<"path", S("a")>>, <<"roll_size", S("8")>>>>
UpstreamPairs == <<<<"name", S("u")>>, <<"server", S("h")>>, <<"max_fails", S("8")>>,
                   <<"fail_timeout", S("8")>>>>
ProxyPairs == <<<<"location", S("/p")>>, <<"proxy_pass", S("u")>>,
                <<"proxy_set_header", List(<<S("X"), S("Y")>>)>>>>
StaticPairs == <<<<"location", S("/s")>>, <<"alias", S("d")>>>>
ServerPairs(port) == <<<<"listen", S(port)>>, <<"workers", S("8")>>, <<"root_path", S("r")>>>>

NotLists == {Null, S("x"), Mapping(<<>>), Mapping(<<S("x"), S("x")>>)}
NotEntries == {Null, S("x"), List(<<>>)}

Logger2 == Pairs(<<<<"name", S("error")>>, <<"path", S("b")>>>>)
Logs == NotLists \cup {List(<<l>>) : l \in Spoilt(LoggerPairs) \cup NotEntries}
          \cup {List(<<Pairs(LoggerPairs), Logger2>>), List(<<>>)}
Mains == NotEntries \cup Spoilt(MainPairs)
           \cup {Pairs(Append(MainPairs, <<"log", log>>)) : log \in Logs}

Upstream2 == Pairs([UpstreamPairs EXCEPT ![1][2] = S("v")])
Upstreams == NotLists \cup {List(<<u>>) : u \in Spoilt(UpstreamPairs) \cup NotEntries}
               \cup {List(<<Pairs(UpstreamPairs), Upstream2>>)}

Proxies == NotLists \cup {List(<<p>>) : p \in Spoilt(ProxyPairs) \cup NotEntries}
             \cup {List(<<Pairs(ProxyPairs), Pairs([ProxyPairs EXCEPT ![1][2] = S("/q"), ![2][2] = S("v")])>>)}
Statics == NotLists \cup {List(<<s>>) : s \in Spoilt(StaticPairs) \cup NotEntries}
             \cup {List(<<Pairs(StaticPairs), Pairs([StaticPairs EXCEPT ![1][2] = S("/p")])>>)}

GoodMain == Pairs(Append(MainPairs, <<"log", List(<<Pairs(LoggerPairs), Logger2>>)>>))
GoodUpstream == List(<<Pairs(UpstreamPairs), Upstream2>>)
Index == <<"index", List(<<S("i")>>)>>
GoodServer == Pairs(ServerPairs("8") \o <<Index, <<"proxy", List(<<Pairs(ProxyPairs)>>)>>,
                                          <<"static", List(<<Pairs(StaticPairs)>>)>>>>)
GoodStatic == <<"static", List(<<Pairs(StaticPairs)>>)>>

Servers ==
  Spoilt(ServerPairs("80")) \cup NotEntries
    \cup {Pairs(ServerPairs(port)) : port \in {"0", "0x50", "-80", "70000"}}
    \cup {Pairs([ServerPairs("80") EXCEPT ![2][2] = S("-1")])}
    \cup {Pairs(Append(ServerPairs("80"), <<"proxy", p>>)) : p \in Proxies}
    \cup {Pairs(ServerPairs("80") \o <<<<"static", s>>, Index>>) : s \in Statics}
    \cup {Pairs(Append(ServerPairs("80"), <<"index", S("x")>>))}

File(main, upstream, servers) ==
  Pairs(<<<<"main", main>>, <<"upstream", upstream>>, <<"server", servers>>>>)

ServerLists ==
  NotLists \cup {List(<<s>>) : s \in Servers} \cup {List(<<GoodServer, s>>) : s \in Servers}
    \cup {List(<<s, GoodServer>>) : s \in Servers}

(* A list of texts and an entry shared by an alias, which is harmless, and the *)
(* sections main and upstream, which is not.                                   *)
Sharing ==
  {File(GoodMain, GoodUpstream,
        List(<<Pairs(Append(ServerPairs("80"), <<"index", Anchored(1, List(<<S("i")>>))>>)),
               Pairs(ServerPairs("8") \o <<<<"index", Alias(1)>>,
                       <<"proxy", List(<<Pairs([ProxyPairs EXCEPT ![3][2] = Alias(1)])>>)>>>>)>>)),
   File(Anchored(1, Pairs(MainPairs \o StaticPairs)), GoodUpstream,
        List(<<Pairs(Append(ServerPairs("80"), <<"static", List(<<Alias(1)>>)>>))>>)),
   File(GoodMain, Anchored(1, List(<<Pairs(UpstreamPairs \o StaticPairs)>>)),
        List(<<Pairs(Append(ServerPairs("80"), <<"static", Alias(1)>>))>>)),
   File(GoodMain, List(<<Anchored(1, Pairs(UpstreamPairs \o StaticPairs))>>),
        List(<<Pairs(Append(ServerPairs("80"), <<"static", List(<<Alias(1)>>)>>))>>))}

MCFiles ==
  {File(m, GoodUpstream, List(<<GoodServer>>)) : m \in Mains}
    \cup {File(GoodMain, u, List(<<GoodServer>>)) : u \in Upstreams}
    \cup {File(GoodMain, u, l) : u \in {GoodUpstream, Null}, l \in ServerLists}
    \cup {Pairs(<<<<"main", m>>, <<"server", l>>>>) : m \in {GoodMain, Pairs(MainPairs)}, l \in ServerLists}
    \cup {Pairs(<<<<"server", List(<<GoodServer>>)>>>>), Pairs(<<<<"main", GoodMain>>>>)}
    \cup NotEntries \cup Sharing
============================================================================

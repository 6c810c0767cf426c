---------------------------- MODULE ServerConfig ----------------------------
(***************************************************************************)
(* From the command line to listening servers: main.cpp, parse_command_      *)
(* parameter, ServerConfig::loadConfig over the nodes yaml-cpp has built     *)
(* from the file, and the part of YAML::Node it uses.                        *)
(*                                                                         *)
(* A node of the file is named by its index in graph.nodes and reaches its   *)
(* data through ref, its m_pRef: assigning to a YAML::Node that is bound     *)
(* already redirects the node it is bound to (AssignNode, set_ref), so       *)
(* loadConfig, which uses one variable for main, upstream and server,        *)
(* rewrites the document while it reads it.                                  *)
(*                                                                         *)
(* The file is a term, whose scalars are texts; a process that calls exit or *)
(* dies of an exception nobody catches or of an assert is "refused".         *)
(***************************************************************************)
EXTENDS YamlBuilder, TLC

CONSTANTS
  CommandLines,   \* the options given, in order: "c" (with a file), "h", "?" (unknown)
  Files,          \* the documents a file may hold
  Number          \* the integer that a text denotes, a function over the numeric texts

VARIABLES
  pc,       \* where the main thread is
  args,     \* its options
  file,     \* the term of the file
  input,    \* the events the parser has still to give
  graph,    \* the nodes NodeBuilder made of it
  ref,      \* m_pRef of every node
  node,     \* the variable `node' of loadConfig
  todo,     \* what is left of the innermost loop over a list
  entries,  \* what is left of the list of servers
  entry,    \* server_node
  server,   \* the variable `server' of loadConfig
  conf,     \* the members of ServerConfig
  started   \* the ports of the servers started, in order

docVars == <<args, file, input, graph, ref>>
vars == <<pc, args, file, input, graph, ref, node, todo, entries, entry, server, conf, started>>
----------------------------------------------------------------------------
(* The terms of a file *)

Scalar(text) == [kind |-> "Scalar", anchor |-> NullAnchor, text |-> text, items |-> <<>>]
Null == [Scalar("") EXCEPT !.kind = "Null"]
List(items) == [Scalar("") EXCEPT !.kind = "Sequence", !.items = items]
Mapping(items) == [Scalar("") EXCEPT !.kind = "Map", !.items = items]
Anchored(anchor, term) == [term EXCEPT !.anchor = anchor]
Alias(anchor) == [Scalar("") EXCEPT !.kind = "Alias", !.anchor = anchor]

(* The events of a parser that reads the term. *)
RECURSIVE Events(_)
Events(term) ==
  LET Event(kind) == <<[kind |-> kind, anchor |-> term.anchor, text |-> term.text]>>
  IN  IF term.kind \notin {"Sequence", "Map"} THEN Event(term.kind)
      ELSE Event(term.kind) \o FlattenSeq([k \in DOMAIN term.items |-> Events(term.items[k])])
                            \o Event(IF term.kind = "Map" THEN "MapEnd" ELSE "SequenceEnd")

OnEvent(b, e) ==
  CASE e.kind = "Scalar" -> OnScalar(b, <<>>, e.anchor, e.text)
    [] e.kind = "Null" -> OnNull(b, e.anchor)
    [] e.kind = "Alias" -> OnAlias(b, e.anchor)
    [] e.kind = "Sequence" -> OnSequenceStart(b, <<>>, e.anchor, "Block")
    [] e.kind = "SequenceEnd" -> OnSequenceEnd(b)
    [] e.kind = "Map" -> OnMapStart(b, <<>>, e.anchor, "Block")
    [] e.kind = "MapEnd" -> OnMapEnd(b)
----------------------------------------------------------------------------
(* YAML::Node *)

Zombie == 0      \* the node of a key that is not there, or of an element of a map
Throws == -1     \* an exception instead of a node

Data(n) == graph.nodes[ref[n]]

(* operator== on nodes. *)
Is(m, n) == ref[m] = ref[n]

(* The const operator[] with a text: only a scalar and a zombie throw. *)
Get(n, key) ==
  LET kids == Data(n).kids
      found == {k \in DOMAIN kids : k % 2 = 1 /\ Data(kids[k]).type = "Scalar"
                                              /\ Data(kids[k]).value = key}
  IN  CASE n = Zombie -> Throws
        [] n # Zombie /\ Data(n).type = "Scalar" -> Throws
        [] n # Zombie /\ Data(n).type = "Map" /\ found # {} ->
             kids[(CHOOSE k \in found : \A l \in found : k <= l) + 1]
        [] OTHER -> Zombie

(* Mutant: what is not a list has one element, itself not a node. *)
ElementsOfAny(n) == IF Data(n).type = "Sequence" THEN Data(n).kids ELSE <<Zombie>>

(* The elements of a range-for: those of a map are pairs, zombies as nodes. *)
Elements(n) ==
  CASE Data(n).type = "Sequence" -> Data(n).kids
    [] Data(n).type = "Map" -> [k \in 1..(Len(Data(n).kids) \div 2) |-> Zombie]
    [] OTHER -> <<>>

(* Node::as<T>: <<value>>, or <<>> for an exception. *)
AsText(n) == IF Data(n).type = "Scalar" THEN <<Data(n).value>> ELSE <<>>

AsInt(n) ==
  IF Data(n).type = "Scalar" /\ Data(n).value \in DOMAIN Number
  THEN <<Number[Data(n).value]>> ELSE <<>>

(* A uint16_t takes the negative of a number that fits, as operator>> does. *)
AsPort(n) ==
  LET v == AsInt(n)[1]
  IN  IF AsInt(n) # <<>> /\ v \in -65535..65535 THEN <<v % 2^16>> ELSE <<>>

AsTexts(n) ==
  LET kids == Data(n).kids
  IN  IF Data(n).type = "Sequence" /\ \A k \in DOMAIN kids : AsText(kids[k]) # <<>>
      THEN <<[k \in DOMAIN kids |-> AsText(kids[k])[1]]>> ELSE <<>>

As(T, n) ==
  CASE T = "text" -> AsText(n) [] T = "int" -> AsInt(n)
    [] T = "port" -> AsPort(n) [] T = "texts" -> AsTexts(n)

(* YamlLoader::getVal: <<value>>, or <<>> if the process ends. *)
GetVal(n, key, T) ==
  LET v == Get(n, key) IN IF v \in {Throws, Zombie} THEN <<>> ELSE As(T, v)

GetOptional(n, key, T, val) ==
  IF Get(n, key) = Zombie THEN <<val>> ELSE GetVal(n, key, T)

(* YamlLoader::getNode: without the key, the node itself where it is optional. *)
GetNode(n, key) == IF Get(n, key) = Zombie THEN n ELSE Get(n, key)
----------------------------------------------------------------------------
(* loadConfig *)

NoConf ==
  [main |-> [maxWorker |-> 4, keepAliveTimeout |-> 65, maxWorkerConnections |-> 768],
   loggersConfig |-> <<>>, upstreams |-> <<>>, proxies |-> <<>>, statics |-> <<>>,
   locations |-> {}, servers |-> <<>>]

NoServer ==
  [listenPort |-> 0, workers |-> 0, rootPath |-> "", indexFiles |-> <<>>,
   proxyLocations |-> <<>>, staticLocations |-> <<>>]

(* map[key] = value *)
Put(map, key, value) == (key :> value) @@ map

Init ==
  /\ pc = "args" /\ args \in CommandLines /\ file \in Files
  /\ input = <<>> /\ graph = NewBuilder /\ ref = <<>> /\ node = Zombie
  /\ todo = <<>> /\ entries = <<>> /\ entry = Zombie
  /\ server = NoServer /\ conf = NoConf /\ started = <<>>

(* exit(EXIT_FAILURE), an exception, a failed assert. *)
Refuse ==
  /\ pc' = "refused"
  /\ UNCHANGED <<docVars, node, todo, entries, entry, server, conf, started>>

(* parse_command_parameter: -h ends the process, the last option decides. *)
ParseCommandParameter ==
  /\ pc = "args"
  /\ IF "h" \in ToSet(args) \/ args = <<>> \/ Last(args) # "c" THEN Refuse
     ELSE /\ pc' = "load"
          /\ UNCHANGED <<docVars, node, todo, entries, entry, server, conf, started>>

(* A file that cannot be opened or parsed. *)
LoadFails == pc = "load" /\ Refuse

(* YAML::LoadFile: NodeBuilder takes the events of the parser. *)
LoadFile ==
  /\ pc = "load" /\ pc' = "parse"
  /\ input' = Events(file)
  /\ UNCHANGED <<args, file, graph, ref, node, todo, entries, entry, server, conf, started>>

BuildNode ==
  /\ pc = "parse" /\ input # <<>>
  /\ graph' = OnEvent(graph, Head(input))
  /\ input' = Tail(input)
  /\ UNCHANGED <<pc, args, file, ref, node, todo, entries, entry, server, conf, started>>

Loaded ==
  /\ pc = "parse" /\ input = <<>>
  /\ ref' = [n \in DOMAIN graph.nodes |-> n]
  /\ pc' = "main"
  /\ UNCHANGED <<args, file, input, graph, node, todo, entries, entry, server, conf, started>>

(* `node = rhs': an unbound variable is bound; otherwise the node it is      *)
(* bound to gets the data of rhs for good, and the variable is rebound.      *)
AssignNode(rhs) ==
  /\ node' = rhs
  /\ ref' = IF node = Zombie \/ Is(node, rhs) THEN ref ELSE [ref EXCEPT ![node] = ref[rhs]]

ReadMain ==
  LET n == Get(graph.root, "main")
      maxWorker == GetVal(n, "max_workers", "int")
      keepAlive == GetVal(n, "keepalive_timeout", "int")
      connections == GetVal(n, "worker_connections", "int")
      log == GetNode(n, "log")
  IN  /\ pc = "main"
      /\ IF n \in {Throws, Zombie} \/ <<>> \in {maxWorker, keepAlive, connections}
         THEN Refuse
         ELSE /\ AssignNode(n)
              /\ conf' = [conf EXCEPT !.main = [maxWorker |-> maxWorker[1],
                                                keepAliveTimeout |-> keepAlive[1],
                                                maxWorkerConnections |-> connections[1]]]
              /\ todo' = IF Is(log, n) THEN <<>> ELSE Elements(log)
              /\ pc' = "loggers"
              /\ UNCHANGED <<args, file, input, graph, entries, entry, server, started>>

(* One turn of the loop over log, and addLoggerInfo. *)
ReadLogger ==
  LET n == Head(todo)
      name == GetVal(n, "name", "text")
      path == GetVal(n, "path", "text")
      rollSize == GetOptional(n, "roll_size", "int", 0)
  IN  /\ pc = "loggers" /\ todo # <<>>
      /\ IF <<>> \in {name, path} \/ rollSize = <<>> THEN Refuse
         ELSE /\ conf' = [conf EXCEPT !.loggersConfig =
                            Put(@, name[1], [path |-> path[1], rollSize |-> rollSize[1]])]
              /\ todo' = Tail(todo)
              /\ UNCHANGED <<pc, docVars, node, entries, entry, server, started>>

BindUpstream ==
  LET n == GetNode(graph.root, "upstream")
  IN  /\ pc = "loggers" /\ todo = <<>>
      /\ AssignNode(n)
      /\ todo' = IF Is(n, graph.root) THEN <<>> ELSE Elements(n)
      /\ pc' = "upstreams"
      /\ UNCHANGED <<args, file, input, graph, entries, entry, server, conf, started>>

(* One turn of the loop over upstream, and addUpstream. *)
ReadUpstream ==
  LET n == Head(todo)
      name == GetVal(n, "name", "text")
      address == GetVal(n, "server", "text")
      maxFails == GetVal(n, "max_fails", "int")
      failTime == GetVal(n, "fail_timeout", "int")
  IN  /\ pc = "upstreams" /\ todo # <<>>
      /\ IF <<>> \in {name, address} \/ <<>> \in {maxFails, failTime} THEN Refuse
         ELSE /\ conf' = [conf EXCEPT !.upstreams =
                            Put(@, name[1], [address |-> address[1], maxFails |-> maxFails[1],
                                             failTimeSecond |-> failTime[1]])]
              /\ todo' = Tail(todo)
              /\ UNCHANGED <<pc, docVars, node, entries, entry, server, started>>

BindServer ==
  LET n == Get(graph.root, "server")
  IN  /\ pc = "upstreams" /\ todo = <<>>
      /\ IF n \in {Throws, Zombie} THEN Refuse
         ELSE /\ AssignNode(n)
              /\ entries' = Elements(n)
              /\ pc' = "servers"
              /\ UNCHANGED <<args, file, input, graph, todo, entry, server, conf, started>>

(* The list under an optional key of a server; a key that leads back to the  *)
(* server itself counts as missing.                                          *)
Section(n, key) ==
  LET list == GetNode(n, key) IN IF Is(list, n) THEN <<>> ELSE Elements(list)

(* Mutant: the lists of locations are declared with the variable server. *)
ServerReadKeepsLocations(listen, workers, rootPath, index) ==
  [server EXCEPT !.listenPort = listen, !.workers = workers, !.rootPath = rootPath,
                 !.indexFiles = index]

(* The variable server outlives the turn of the loop, but not its locations. *)
ServerRead(listen, workers, rootPath, index) ==
  [server EXCEPT !.listenPort = listen, !.workers = workers, !.rootPath = rootPath,
                 !.indexFiles = index, !.proxyLocations = <<>>, !.staticLocations = <<>>]

(* The head of one turn of the loop over server. *)
ReadServer ==
  LET n == Head(entries)
      listen == GetVal(n, "listen", "port")
      workers == GetVal(n, "workers", "int")
      rootPath == GetVal(n, "root_path", "text")
      index == GetOptional(n, "index", "texts", server.indexFiles)
  IN  /\ pc = "servers" /\ entries # <<>>
      /\ IF <<>> \in {listen, workers} \/ rootPath = <<>> \/ index = <<>> THEN Refuse
         ELSE /\ server' = ServerRead(listen[1], workers[1], rootPath[1], index[1])
              /\ entry' = n /\ entries' = Tail(entries)
              /\ todo' = Section(n, "proxy")
              /\ pc' = "proxies"
              /\ UNCHANGED <<docVars, node, conf, started>>

(* Mutant: the upstream is not looked up. *)
ExistUpstreamUnchecked(name) == TRUE

ExistUpstreamInfo(name) == name \in DOMAIN conf.upstreams

(* One turn of the loop over proxy: addProxy, then the upstream is looked up. *)
ReadProxy ==
  LET n == Head(todo)
      location == GetVal(n, "location", "text")
      upstream == GetVal(n, "proxy_pass", "text")
      headers == GetOptional(n, "proxy_set_header", "texts", <<>>)
  IN  /\ pc = "proxies" /\ todo # <<>>
      /\ IF \/ <<>> \in {location, upstream} \/ headers = <<>>
            \/ ~ExistUpstreamInfo(upstream[1])
         THEN Refuse
         ELSE /\ conf' = [conf EXCEPT !.proxies = Put(@, location[1],
                                        [upstreamName |-> upstream[1], setHeaders |-> headers[1]]),
                                      !.locations = @ \cup {location[1]}]
              /\ server' = [server EXCEPT !.proxyLocations = Append(@, location[1])]
              /\ todo' = Tail(todo)
              /\ UNCHANGED <<pc, docVars, node, entries, entry, started>>

ProxiesRead ==
  /\ pc = "proxies" /\ todo = <<>>
  /\ todo' = Section(entry, "static")
  /\ pc' = "statics"
  /\ UNCHANGED <<docVars, node, entries, entry, server, conf, started>>

(* One turn of the loop over static, and addStatic. *)
ReadStatic ==
  LET n == Head(todo)
      location == GetVal(n, "location", "text")
      alias == GetVal(n, "alias", "text")
  IN  /\ pc = "statics" /\ todo # <<>>
      /\ IF <<>> \in {location, alias} THEN Refuse
         ELSE /\ conf' = [conf EXCEPT !.statics = Put(@, location[1], alias[1]),
                                      !.locations = @ \cup {location[1]}]
              /\ server' = [server EXCEPT !.staticLocations = Append(@, location[1])]
              /\ todo' = Tail(todo)
              /\ UNCHANGED <<pc, docVars, node, entries, entry, started>>

AddServer ==
  /\ pc = "statics" /\ todo = <<>>
  /\ conf' = [conf EXCEPT !.servers = Put(@, server.listenPort, server)]
  /\ pc' = "servers"
  /\ UNCHANGED <<docVars, node, todo, entries, entry, server, started>>
----------------------------------------------------------------------------
(* main *)

(* Without a server there is nothing to do. *)
ConfigLoaded ==
  /\ pc = "servers" /\ entries = <<>>
  /\ IF conf.servers = <<>> THEN Refuse
     ELSE /\ pc' = "start"
          /\ UNCHANGED <<docVars, node, todo, entries, entry, server, conf, started>>

Waiting == DOMAIN conf.servers \ ToSet(started)

(* One server, in the order of the ports; setThreadNum asserts. *)
StartServer ==
  LET port == CHOOSE p \in Waiting : \A q \in Waiting : p <= q
  IN  /\ pc = "start" /\ Waiting # {}
      /\ IF conf.servers[port].workers < 0 THEN Refuse
         ELSE /\ started' = Append(started, port)
              /\ UNCHANGED <<pc, docVars, node, todo, entries, entry, server, conf>>

Run ==
  /\ pc = "start" /\ Waiting = {}
  /\ pc' = "running"
  /\ UNCHANGED <<docVars, node, todo, entries, entry, server, conf, started>>

Next ==
  \/ ParseCommandParameter \/ LoadFails \/ LoadFile \/ BuildNode \/ Loaded
  \/ ReadMain \/ ReadLogger \/ BindUpstream \/ ReadUpstream \/ BindServer \/ ReadServer \/ ReadProxy
  \/ ProxiesRead \/ ReadStatic \/ AddServer \/ ConfigLoaded \/ StartServer \/ Run

Spec == Init /\ [][Next]_vars
----------------------------------------------------------------------------
(* What a file means, read off its term. *)

RECURSIVE SubTerms(_)
SubTerms(term) == {term} \cup UNION {SubTerms(item) : item \in ToSet(term.items)}

Deref(term) ==
  IF term.kind # "Alias" THEN term
  ELSE CHOOSE s \in SubTerms(file) : s.kind # "Alias" /\ s.anchor = term.anchor

KeysOf(term, key) ==
  {k \in DOMAIN term.items : k % 2 = 1 /\ Deref(term.items[k]) = Scalar(key)}
Has(term, key) == term.kind = "Map" /\ KeysOf(term, key) # {}
Written(term, key) == term.items[(CHOOSE k \in KeysOf(term, key) : TRUE) + 1]
Field(term, key) == Deref(Written(term, key))

EntriesOf(term, key) ==
  IF Has(term, key) /\ Field(term, key).kind = "Sequence"
  THEN [k \in DOMAIN Field(term, key).items |-> Deref(Field(term, key).items[k])] ELSE <<>>

Text(term, key) == Field(term, key).text
IntOf(term, key) == Number[Text(term, key)]
Texts(term, key) == [k \in DOMAIN EntriesOf(term, key) |-> EntriesOf(term, key)[k].text]

AreTexts(term, keys) == \A k \in keys : Has(term, k) /\ Field(term, k).kind = "Scalar"
AreInts(term, keys) == AreTexts(term, keys) /\ \A k \in keys : Text(term, k) \in DOMAIN Number
MayBeTexts(term, key) ==
  Has(term, key) => /\ Field(term, key).kind = "Sequence"
                    /\ \A t \in ToSet(EntriesOf(term, key)) : t.kind = "Scalar"

(* A list that is missing, null or a scalar is empty; it must not be a map. *)
AreAll(term, key, Ok(_)) ==
  /\ Has(term, key) => Field(term, key).kind # "Map" \/ Field(term, key).items = <<>>
  /\ \A e \in ToSet(EntriesOf(term, key)) : Ok(e)

LoggerOk(e) == AreTexts(e, {"name", "path"}) /\ (Has(e, "roll_size") => AreInts(e, {"roll_size"}))
UpstreamOk(e) == AreTexts(e, {"name", "server"}) /\ AreInts(e, {"max_fails", "fail_timeout"})
ProxyOk(e) ==
  /\ AreTexts(e, {"location", "proxy_pass"}) /\ MayBeTexts(e, "proxy_set_header")
  /\ \E u \in ToSet(EntriesOf(file, "upstream")) : Text(u, "name") = Text(e, "proxy_pass")
StaticOk(e) == AreTexts(e, {"location", "alias"})
ServerOk(e) ==
  /\ AreInts(e, {"listen", "workers"}) /\ AreTexts(e, {"root_path"}) /\ MayBeTexts(e, "index")
  /\ IntOf(e, "listen") \in -65535..65535 /\ IntOf(e, "workers") >= 0
  /\ AreAll(e, "proxy", ProxyOk) /\ AreAll(e, "static", StaticOk)

WellFormed ==
  /\ Has(file, "main") /\ Has(file, "server")
  /\ AreInts(Field(file, "main"), {"max_workers", "keepalive_timeout", "worker_connections"})
  /\ AreAll(Field(file, "main"), "log", LoggerOk)
  /\ AreAll(file, "upstream", UpstreamOk)
  /\ AreAll(file, "server", ServerOk) /\ EntriesOf(file, "server") # <<>>

Locations(e, key) ==
  [k \in DOMAIN EntriesOf(e, key) |-> Text(EntriesOf(e, key)[k], "location")]

(* Of two entries with the same key the later one counts. *)
LastByKey(list, Key(_), Value(_)) ==
  [key \in {Key(list[k]) : k \in DOMAIN list} |->
     LET same == {k \in DOMAIN list : Key(list[k]) = key}
     IN  Value(list[CHOOSE k \in same : \A l \in same : l <= k])]

Meant ==
  LET main == Field(file, "main")
      servers == EntriesOf(file, "server")
      proxies == FlattenSeq([k \in DOMAIN servers |-> EntriesOf(servers[k], "proxy")])
      statics == FlattenSeq([k \in DOMAIN servers |-> EntriesOf(servers[k], "static")])
      Name(e) == Text(e, "name")
      Location(e) == Text(e, "location")
      Port(e) == IntOf(e, "listen") % 2^16
  IN  [main |-> [maxWorker |-> IntOf(main, "max_workers"),
                 keepAliveTimeout |-> IntOf(main, "keepalive_timeout"),
                 maxWorkerConnections |-> IntOf(main, "worker_connections")],
       loggersConfig |-> LastByKey(EntriesOf(main, "log"), Name, LAMBDA e :
         [path |-> Text(e, "path"),
          rollSize |-> IF Has(e, "roll_size") THEN IntOf(e, "roll_size") ELSE 0]),
       upstreams |-> LastByKey(EntriesOf(file, "upstream"), Name, LAMBDA e :
         [address |-> Text(e, "server"), maxFails |-> IntOf(e, "max_fails"),
          failTimeSecond |-> IntOf(e, "fail_timeout")]),
       proxies |-> LastByKey(proxies, Location, LAMBDA e :
         [upstreamName |-> Text(e, "proxy_pass"), setHeaders |-> Texts(e, "proxy_set_header")]),
       statics |-> LastByKey(statics, Location, LAMBDA e : Text(e, "alias")),
       locations |-> {Location(e) : e \in ToSet(proxies \o statics)},
       servers |-> LastByKey(servers, Port, LAMBDA e :
         [listenPort |-> Port(e), workers |-> IntOf(e, "workers"),
          rootPath |-> Text(e, "root_path"), indexFiles |-> Texts(e, "index"),
          proxyLocations |-> Locations(e, "proxy"),
          staticLocations |-> Locations(e, "static")])]

(* No alias names the section main or upstream, which loadConfig redirects. *)
SectionsUnshared ==
  \A key \in {"main", "upstream"} : Has(file, key) =>
    \A s \in SubTerms(file) : s.kind = "Alias" => s.anchor # Written(file, key).anchor

(* A server without index does not follow one that has it. *)
IndexGiven ==
  LET servers == EntriesOf(file, "server")
  IN  \A k, l \in DOMAIN servers : k < l /\ Has(servers[k], "index") => Has(servers[l], "index")
----------------------------------------------------------------------------
(* The configuration the servers run with is the one the file describes,     *)
(* although loadConfig redirects nodes of the document as it goes (AssignNode) *)
(* and keeps one Server object through its loop; and a file that lacks what   *)
(* it needs is not run with.                                                  *)
LoadedAsWritten ==
  pc = "running" /\ SectionsUnshared /\ IndexGiven => WellFormed /\ conf = Meant

(* A file that describes a configuration completely is never refused by       *)
(* getVal, getNode, the conversions or the asserts on the way to loop().      *)
GoodFileStarts ==
  pc = "refused" /\ graph # NewBuilder /\ SectionsUnshared => ~WellFormed

(* Once loadConfig has returned, whatever the file, every location HttpAccess- *)
(* Handler may match leads to a proxy or a directory, and every proxy to an    *)
(* upstream: the asserts of proxyInfo and staticPath hold and upstreamInfo     *)
(* does not make up an empty upstream.                                         *)
RoutesResolve ==
  pc \in {"start", "running"} =>
    /\ conf.locations = DOMAIN conf.proxies \cup DOMAIN conf.statics
    /\ \A l \in DOMAIN conf.proxies : conf.proxies[l].upstreamName \in DOMAIN conf.upstreams
    /\ \A p \in DOMAIN conf.servers :
         /\ ToSet(conf.servers[p].proxyLocations) \subseteq DOMAIN conf.proxies
         /\ ToSet(conf.servers[p].staticLocations) \subseteq DOMAIN conf.statics
============================================================================

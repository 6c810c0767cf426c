---------------------------- MODULE MC_HttpServer ----------------------------
(* Two requests in a row from a small set, cut into segments and pipelined   *)
(* at will.  "/", "/s/" and "/bc" are static, "/a/" and "/b" are proxied.    *)
(* "/f" and "/s/g" name the same file under "/"; nothing is found elsewhere. *)
(* A GET of "/bc" meets "/b" on its walk, as no slash is between them.       *)
EXTENDS HttpServer

Root == <<"/">>
Sub == <<"/", "s", "/">>
App == <<"/", "a", "/">>
Long == <<"/", "b", "c">>
Short == <<"/", "b">>
File == <<"/", "f">>
SubFile == <<"/", "s", "/", "g">>
Missing == <<"/", "s", "/", "n">>
AppPath == <<"/", "a", "/", "x">>

MCStatic == {Root, Sub, Long}
MCProxy == {App, Short}
MCFound == {<<Root, File>>, <<Root, SubFile>>}

Line(method, path) == <<"line", method, path, TRUE>>
Blank == <<"blank">>

\* The requests: each with the units it is sent as.
Requests == {
  <<Line("kGet", File), <<"close">>, Blank>>,
  <<Line("kHead", SubFile), Blank>>,
  <<Line("kGet", Missing), Blank>>,
  <<Line("kGet", Long), Blank>>,
  <<Line("kGet", AppPath), Blank>>,
  <<Line("kPost", AppPath), <<"length", 1>>, Blank, Byte>>,
  <<Line("kPost", File), <<"length", 1>>, Blank, Byte>>,
  <<Line("kPost", AppPath), <<"length", -1>>, Blank>>,
  <<Line("kGet", <<"f">>), Blank>>,
  <<Line("kGet", <<>>), Blank>>,
  <<Line("kGet", File), <<"noColon">>>>,
  <<<<"line", "kGet", File, FALSE>>>>}

MCStreams == {a \o b : a, b \in Requests}

\* Complete replies, one with more behind it, one cut short, an unreadable
\* status line, an unreadable length.
MCReplies == {
  <<<<"status">>, Blank>>,
  <<<<"status">>, Blank, Byte>>,
  <<<<"status">>, <<"length", 1>>, Blank, Byte>>,
  <<<<"status">>>>,
  <<<<"noStatus">>>>,
  <<<<"status">>, <<"length", -1>>, Blank>>}
==============================================================================

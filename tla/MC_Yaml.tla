------------------------------ MODULE MC_Yaml ------------------------------
(***************************************************************************)
(* The clients and the texts of the yaml run.                               *)
(***************************************************************************)
EXTENDS Yaml

(* A client that writes sequences and maps of one scalar.  The others differ *)
(* from it in what they are about.                                           *)
Plainly ==
  [calls |-> {"Scalar", "Begin"}, max |-> 6, as |-> "string", scalars |-> {<<"a">>},
   formats |-> {"none"}, styles |-> {"none"}, tags |-> {}, globals |-> {},
   encodings |-> {Utf8}]

BlockOrFlow == [Plainly EXCEPT !.styles = {"Block", "Flow"}]

(* Nesting, shared nodes and cycles. *)
Structure == [BlockOrFlow EXCEPT !.calls = @ \cup {"Anchor"}]

Comments == [BlockOrFlow EXCEPT !.calls = @ \cup {"Comment", "Newline"}, !.max = 5]

Documents == [Plainly EXCEPT !.calls = @ \cup {"Doc", "Null"}, !.max = 5]

TagWritten(type, tag) ==
  [written |-> [type |-> type, prefix |-> <<>>, content |-> <<"t">>], meant |-> tag]

Tagged ==
  [BlockOrFlow EXCEPT !.calls = @ \cup {"Tag", "Anchor"}, !.max = 5,
     !.tags = { TagWritten("Verbatim", <<"t">>), TagWritten("PrimaryHandle", <<"!", "t">>),
                TagWritten("NamedHandle", YamlPrefix \o <<"t">>) }]

Setters ==
  [BlockOrFlow EXCEPT !.calls = @ \cup {"Global"}, !.max = 5, !.formats = {"none", "LongKey"},
     !.globals = { [name |-> "Seq", value |-> "Flow"], [name |-> "mapKey", value |-> "LongKey"],
                   [name |-> "indent", value |-> 4] }]

(* Scalars that are no plain scalars, or look as if they were not. *)
Quotable ==
  { <<>>, <<"~">>, <<" ">>, <<"a", " ">>, <<"-">>, <<"-", " ", "a">>, <<"?", "a">>, <<"a", ":">>,
    <<"a", ":", " ", "b">>, <<"a", " ", "#">>, <<"#">>, <<"[", "a">>, <<"a", ",", "b">>, <<"'">>,
    <<"\"">>, <<"\\">>, <<"a", "\n", "b">>, <<"\n">>, <<"\t">>, <<"\r", "a">>, <<"BEL">>,
    <<"BOM">>, <<"NBSP">>, <<"E_ACUTE">>, <<"EURO">>, <<"SMILEY">>, <<"%">>, <<"!", "a">>,
    <<"&", "a">>, <<"*", "a">>, <<"|">>, <<"BACKQUOTE">>, <<"NEL">>, <<"LS">> }

Quoted(str, format) ==
  [BlockOrFlow EXCEPT !.max = 4, !.scalars = {str}, !.formats = {format}]

Literals ==
  [Plainly EXCEPT !.scalars = {<<"a", "\n">>, <<"a", "\n", "\n", " ", "b", "\n">>},
                  !.formats = {"Literal"}]

Typed(type, values, formats) ==
  [BlockOrFlow EXCEPT !.max = 3, !.as = type, !.scalars = values, !.formats = formats]

Bools ==
  [Typed("bool", BOOLEAN, {"UpperCase", "CamelCase", "LowerCase"}) EXCEPT
     !.calls = @ \cup {"Global"},
     !.globals = { [name |-> "boolFmt", value |-> "OnOffBool"],
                   [name |-> "boolFmt", value |-> "YesNoBool"],
                   [name |-> "boolLength", value |-> "ShortBool"] }]

Encoded2 ==
  [Plainly EXCEPT !.calls = {"Scalar"}, !.max = 1,
     !.scalars = {"a", "E_ACUTE", "SMILEY"} \X {"a", "E_ACUTE", "EURO", "SMILEY"},
     !.encodings = {[charSet |-> c, bom |-> TRUE] : c \in CharSets} \cup {Utf8}]

MCFamilies ==
  { Structure, Comments, Documents, Tagged, Setters, Literals, Bools, Encoded2,
    Typed("int", {-128, -1, 0, 7, 8, 127}, {"none", "Hex", "Oct"}),
    Typed("char", {"a", " ", "\"", "\t", "\n", "NUL", "BEL", "#", "-"}, {"none"}),
    Typed("binary", {<<>>, <<0>>, <<255, 1>>, <<77, 97, 110>>, <<4, 200, 0, 63>>}, {"none"}) }
  \cup {Quoted(str, f) : str \in Quotable,
                         f \in {"none", "SingleQuoted", "DoubleQuoted", "EscapeNonAscii"}}
----------------------------------------------------------------------------
(* Every text of up to MaxLexemes of these, and some that take longer. *)
MaxLexemes == 3

Lexemes ==
  { <<"a">>, <<":", " ">>, <<"-", " ">>, <<"\n">>, <<" ", " ">>, <<"[">>, <<"]">>, <<",", " ">>,
    <<"{">>, <<"}">>, <<"?", " ">>, <<"&", "x", " ">>, <<"*", "x">>, <<"-", "-", "-", " ">>,
    <<".", ".", ".">>, <<"!", "t", " ">>, <<"'", "a">>, <<"\"">>, <<"|", "\n">>, <<">", "\n">>,
    <<"#">>, <<"!", " ">>, <<"\t">> }

Yaml12 == <<"%", "Y", "A", "M", "L", " ", "1", ".", "2", "\n">>
TagOf(handle) == <<"%", "T", "A", "G", " ">> \o handle \o <<" ", "t", "\n">>

Longer ==
  { [k \in 1..7 |-> "["],                                   \* deeper than MaxDepth
    Yaml12 \o <<"a">>, Yaml12 \o Yaml12, TagOf(<<"!", "e", "!">>) \o TagOf(<<"!", "e", "!">>),
    <<"%", "Y", "\n", "a">>, <<"%", "Y", "A", "M", "L", "\n">>, <<"%", "T", "A", "G", "\n">>,
    <<"%", "Y", "A", "M", "L", " ", "x", "\n">>, <<"%", "Y", "A", "M", "L", " ", "2", ".", "0", "\n">>,
    TagOf(<<"!", "e", "!">>) \o <<"-", "-", "-", " ", "!", "e", "!", "a", " ", "b">>,
    <<"!", "<", "t", ">", " ", "a">>, <<"!", "!", "s", " ", "a">>, <<"!", "<", "t">>,
    <<"[", "?", " ", "a", " ", ":", " ", "b", "]">>, <<"[", "a", ":", " ", "b", "]">>,
    <<"[", ":", " ", "b", "]">>, <<"[", "?", " ", "a", "]">>, <<"{", "?", " ", "a", "}">>,
    <<"{", "a", ":", " ", "b", ",", "c", "}">>, <<"{", ":", " ", "a", "}">>,
    <<"[", "a", " ", "\n", "-", "-", "-">>, <<"{", "\"", "a", "\"", ":", "b", "}">>,
    <<"&", "x", " ", "[", "*", "x", "]">>, <<"&", "x", " ", "&", "y", " ", "a">>,
    <<"!", "t", " ", "!", "t", " ", "a">>, <<"*", "y">>, <<"&", "[">>, <<"*", " ">>,
    <<">", "-", "\n", " ", "a", "\n", " ", " ", "b", "\n", "\n", " ", "c", "\n">>,
    <<"|", "+", "1", "\n", " ", "a", "\n", "\n">>, <<"|", "0", "\n">>, <<"|", "a">>,
    <<">", "\n", " ", "a", "\n", " ", "b", "\n", "c">>, <<"\"", "a", "\\", "\n", " ", "b", "\"">>,
    <<"\"", "\\", "x", "4", "1", "\\", "L", "\"">>, <<"\"", "\\", "q", "\"">>,
    <<"\"", "\\", "U", "0", "0", "1", "1", "0", "0", "0", "0", "\"">>,
    <<"a", "\n", " ", "b", ":", " ", "c">>, <<"-", " ", "a", "\n", "b">>,
    <<"a", ":", " ", "-", " ", "b">>, <<"a", ":", "\n", "-", " ", "b", "\n", "c", ":", " ", "d">>,
    <<"?", " ", "-", " ", "a", "\n", ":", " ", "-", " ", "b">>, <<"'", "i", "t", "'", "'", "s", "'">>,
    <<"a", "\n", "\t", "b">>, <<"\t", "a", ":", " ", "b">>, <<"a", ":", " ", "'", "b", "\n", "c", "'">> }

MCTexts ==
  UNION {{Concat(ls) : ls \in [1..k -> Lexemes]} : k \in 0..MaxLexemes} \cup Longer
============================================================================

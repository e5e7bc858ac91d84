----------------------------- MODULE MCStartUp -----------------------------
(* StartUp for command lines of up to three arguments, files of up to three *)
(* lines, values quoted in every way, URLs of every make, and environments. *)
EXTENDS StartUp, TLC

Argument(text, flag, value) == [text |-> text, flag |-> flag, value |-> value]
FileFlag == Argument("-config=f", "config", "f")
PeerFlag == Argument("-peer=http://a", "peer", "http://a")
Arguments ==
  {FileFlag, PeerFlag,
   Argument("-peer", "peer", None), Argument("--peer= ", "peer", " "),
   Argument("-peer=http://k@a/", "peer", "http://k@a/"),
   Argument("-peer=ftp://a", "peer", "ftp://a"),
   Argument("-api-key=x", "api-key", "x"), Argument("-api-key", "api-key", None),
   Argument("-listen=nowhere", "listen", "nowhere"), Argument("-listen=:53", "listen", ":53"),
   Argument("-domain=d", "domain", "d"),
   Argument("-h", "h", None), Argument("-bogus", "bogus", None),
   Argument("HTTPs://@a", "", None)}
MCListens == {":5353", ":53", "d"}
MCPorts   == {"53"}
MCAddress == Chars("10.0.0.1")

\* URLs put together from their parts, which are what they mean.
Users == {<<"", None>>, <<"@", "">>, <<"k@", "k">>, <<"k:p@", "k">>, <<"k@l@", "k@l">>}
Paths == {<<"", "">>, <<"/", "">>, <<"/x//", "/x">>, <<"/@y", "/@y">>}
Parts == [scheme : {"http", "HTTPs", "ftp"}, user : Users, host : {"a", "HOP", "HOPE"},
          port : {"", ":9080"}, path : Paths]
NoUrl == [good |-> FALSE, scheme |-> "", key |-> None, host |-> "", port |-> "", path |-> ""]
Written(p) == p.scheme \o "://" \o p.user[1] \o p.host \o p.port \o p.path[1]
Url(p) == [good |-> p.scheme # "ftp", scheme |-> p.scheme, key |-> p.user[2],
           host |-> p.host, port |-> p.port, path |-> p.path[2]]
Built == [text \in {Written(p) : p \in Parts} |-> Url(CHOOSE p \in Parts : Written(p) = text)]
           @@ [text \in {"http:/a", "http://", "http://k@", "http:///x"} |-> NoUrl]
MCUrls == Built @@ [text \in {arg.text : arg \in Arguments} |-> NoUrl]

Meaning(text, is) == 
  [text |-> Chars(text), is |-> is, key |-> <<>>, value |-> <<>>, stray |-> FALSE]
Pair(text, key, value) ==
  [text |-> Chars(text), is |-> "pair", key |-> Chars(key), value |-> Chars(value),
   stray |-> FALSE]
CnamesLine == Meaning("cnames: # the table", "cnames")
Lines ==
  {CnamesLine, Meaning("cnames: {}", "cnames"), Meaning("cnames: x", "bad"),
   Meaning("'other': 1", "other"), Meaning("bare", "bad"), Meaning("---", "nothing"),
   Meaning(" # cnames:", "nothing"), Meaning("\tb: y", "bad"), Meaning("  b y", "loose"),
   Pair("  a: x", "a", "x"), Pair("  A. : y.", "a", "y."), Pair(" \"*.a\" : x:z", "*.a", "x:z"),
   Pair("  a:", "a", ""), Pair("  .: x", ".", "x")}

\* A value in quotes, or bare when YAML lets it be.
Replaced(v, c, by) == FlattenSeq([i \in DOMAIN v |-> IF v[i] = c THEN by ELSE <<v[i]>>])
Single(v) == <<"'">> \o Replaced(v, "'", <<"'", "'">>) \o <<"'">>
Double(v) ==
  <<"\"">> \o Replaced(Replaced(v, "\\", <<"\\", "\\">>), "\"", <<"\\", "\"">>) \o <<"\"">>
Values   == BoundedSeq({"a", "'", "\"", "#", " ", "\\"}, 3)
Bares    == {v \in Values : v # <<>> => /\ Head(v) \notin Quotes \cup {"#", " "} /\ Last(v) # " "
                                        /\ ~\E i \in 1..Len(v) - 1 : v[i] = " " /\ v[i + 1] = "#"}
Comments == {<<>>, Chars(" # 'c")}
Holding(quoted, v, stray, comment) ==
  [text |-> Chars("  a: ") \o quoted \o comment, is |-> "pair", key |-> Chars("a"), value |-> v,
   stray |-> stray]
DoubleQuoted == {Holding(Double(v), v, Contains(v, "\""), comment) :
                   v \in Values, comment \in Comments}
Quoted == DoubleQuoted
            \cup {Holding(Single(v), v, FALSE, comment) : v \in Values, comment \in Comments}
            \cup {Holding(v, v, \E quote \in Quotes : Contains(v, quote), comment) :
                    v \in Bares, comment \in Comments}

Started == <<FileFlag, PeerFlag>>
Small   == <<CnamesLine, Pair("  a: x", "a", "x")>>
Files   == BoundedSeq(Lines, 3)
             \cup {<<CnamesLine, line>> : line \in Quoted}

\* The resident's environment.
NoEnv == [name \in {"ER_PORT_DNS", "HOPDNS_PEER", "HOPDNS_PEERS", "HOPDNS_DOMAIN",
                    "HOPDNS_API_KEY", "HOP_API_KEY"} |-> None]
Host(args, file) ==
  [daemon |-> "host", args |-> args, file |-> file, env |-> NoEnv, asked |-> <<>>]
Resident(env, asked) ==
  [daemon |-> "resident", args |-> <<>>, file |-> <<>>, env |-> env @@ NoEnv, asked |-> asked]
Listed(urls, comma) == FoldLeft(LAMBDA list, url : list \o comma \o url, "", urls)
Peers  == BoundedSeq({"http://HOP:9080", "http://k@a/", "ftp://a"}, 3)
Keys   == {[name \in {} |-> ""], "HOPDNS_API_KEY" :> "x", "HOP_API_KEY" :> "y",
           "HOPDNS_API_KEY" :> "" @@ "HOP_API_KEY" :> "y"}
Residents ==
  {Resident(name :> Listed(urls, comma) @@ keys, urls) :
     name \in {"HOPDNS_PEER", "HOPDNS_PEERS"}, urls \in Peers, comma \in {",", " , "}, keys \in Keys}
  \cup {Resident("HOPDNS_PEER" :> url, <<url>>) : url \in DOMAIN Built}
  \cup {Resident("ER_PORT_DNS" :> port, <<"http://HOP:9080">>) : port \in {"53", "0"}}
  \cup {Resident("HOPDNS_PEER" :> "" @@ "HOPDNS_PEERS" :> "http://k@a/", <<>>)}

MCCases == {Host(args, Small) : args \in BoundedSeq(Arguments, 3)}
             \cup {Host(Started, file) : file \in Files}
             \cup {Host(<<PeerFlag, Argument("-peer", "peer", None),
                          Argument(url, "", None)>>, <<>>) : url \in DOMAIN Built}
             \cup Residents

=============================================================================

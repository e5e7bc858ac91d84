------------------------------- MODULE StartUp -------------------------------
(***************************************************************************)
(* From the command line to a daemon that serves: main of                  *)
(* src/src/bin/hopdns.rs, Flags::parse, Config::parse and Peer::parse of   *)
(* src/src/config.rs, CNAMEs::new of src/src/cnames.rs and Daemon::start   *)
(* of src/src/host.rs.  And from the environment to a resident of HopOS    *)
(* that serves: resident and start_peers of src/src/bin/hopdns-hopos.rs.   *)
(* One step per argument, per line of the file and per peer; reservations  *)
(* of memory and calls of the system may fail.                             *)
(*                                                                         *)
(* Data.  An argument is a record of its text, the flag it names ("" when  *)
(* it is no flag) and the value behind an equals sign (None when there is  *)
(* none).  A line of the file and a URL are sequences of characters.  What *)
(* their writer means by them (`is`, `key` and `value` of a line, Urls and *)
(* `asked` of the peers) stands next to them for the properties, and no    *)
(* action looks at it.  `stray` says that a line has a quote that stands   *)
(* for itself: one escaped in double quotes, or one within bare text.      *)
(***************************************************************************)
EXTENDS PeerUrl, FiniteSets

CONSTANTS
  Cases,      \* the daemons to start: records [daemon, args, file, env, asked]
  Urls,       \* what a URL means: text -> [good, scheme, key, host, port, path]
  Listens,    \* the texts that parse_listen takes
  Ports,      \* the texts that are ports, and not 0
  HopAddress, \* the slot address of Hop on the resident's node
  MaxPeers    \* hopdns-hopos.rs: MAX_PEERS, 4 in the code

ASSUME PeersAssumption == MaxPeers \in Nat

\* Lists of arguments, of lines and of peers; the rest is only looked at.
ASSUME CasesAssumption ==
  \A c \in Cases :
    /\ c.daemon \in {"host", "resident"}
    /\ c.args \in Seq([text : STRING, flag : STRING, value : STRING])
    /\ c.file \in Seq([text : Seq(STRING), is : {"nothing", "cnames", "other", "pair", "loose", "bad"},
                       key : Seq(STRING), value : Seq(STRING), stray : BOOLEAN])
    /\ c.asked \in Seq(STRING)

None == "none"
Known == {"listen", "peer", "domain", "api-key", "config"}

VARIABLES
  case,      \* the command line and the file, or the environment
  pc,        \* "flags" or "env", "config", "server", "peers", "serving" or
             \* "exited"
  next,      \* the next argument, line or peer
  flags,     \* config::Flags
  section,   \* config::Section: "top", "cnames" or "other"
  entries,   \* Config::cnames
  cnames,    \* the tables of CNAMEs, each a function
  watchers,  \* the peers that have a watcher, each with its place in the list
  exit       \* the exit code, None before, and what it blames; `short` says
             \* that memory was short, which the code does not always tell

vars == <<case, pc, next, flags, section, entries, cnames, watchers, exit>>

IsHost == case.daemon = "host"
Args   == case.args
Defaults == [listen |-> ":5353", domain |-> "hop.local", key |-> "", config |-> None,
             peers |-> <<>>]
NoNames == [name \in {} |-> <<>>]

Init ==
  /\ case \in Cases
  /\ pc = IF IsHost THEN "flags" ELSE "env"
  /\ next = 1
  /\ flags = Defaults
  /\ section = "top"
  /\ entries = <<>>
  /\ cnames = [exact |-> NoNames, wild |-> NoNames]
  /\ watchers = <<>>
  /\ exit = [code |-> None, what |-> None, at |-> 0, short |-> FALSE]

Leave(why) ==
  /\ pc' = "exited"
  /\ exit' = why
  /\ UNCHANGED <<case, next, flags, section, entries, cnames, watchers>>

Exit(code, what, at)  == Leave([code |-> code, what |-> what, at |-> at, short |-> FALSE])
Short(code, what, at) == Leave([code |-> code, what |-> what, at |-> at, short |-> TRUE])

-----------------------------------------------------------------------------
(* Flags::parse and main                                                   *)

Arg == Args[next]

\* Whether the flag takes the next argument as its value, whatever it is.
TakesNext == Arg.value = None
Value == IF TakesNext THEN Args[next + 1].text ELSE Arg.value

\* The last value of a flag counts; each peer does, but a blank one.
SetFlag(name, value) ==
  CASE name = "listen"  -> [flags EXCEPT !.listen = value]
    [] name = "domain"  -> [flags EXCEPT !.domain = value]
    [] name = "api-key" -> [flags EXCEPT !.key = value]
    [] name = "config"  -> [flags EXCEPT !.config = value]
    [] name = "peer"    -> [flags EXCEPT !.peers =
                              LET peer == Trim(Chars(value))
                              IN  IF peer = <<>> THEN @ ELSE Append(@, peer)]

ReadFlag ==
  /\ pc = "flags" /\ next <= Len(Args)
  /\ Arg.flag \in Known /\ ~(TakesNext /\ next = Len(Args))
  /\ flags' = SetFlag(Arg.flag, Value)
  /\ next' = next + (IF TakesNext THEN 2 ELSE 1)
  /\ UNCHANGED <<case, pc, section, entries, cnames, watchers, exit>>

\* The argument that is wrong, if one is.
Wrong ==
  IF Arg.flag = "" THEN "unexpected"
  ELSE IF Arg.flag \notin Known \cup {"h", "help"} THEN "unknown"
  ELSE IF Arg.flag \in Known /\ TakesNext /\ next = Len(Args) THEN "missing"
  ELSE None

RefuseFlag ==
  /\ pc = "flags" /\ next <= Len(Args) /\ Wrong # None
  /\ Exit(2, Wrong, next)

Help ==
  /\ pc = "flags" /\ next <= Len(Args) /\ Arg.flag \in {"h", "help"}
  /\ Exit(0, "help", 0)

NoPeer ==
  /\ pc = "flags" /\ next > Len(Args) /\ flags.peers = <<>>
  /\ Exit(2, "nopeer", 0)

FlagsDone ==
  /\ pc = "flags" /\ next > Len(Args) /\ flags.peers # <<>>
  /\ pc' = IF flags.config = None THEN "server" ELSE "config"
  /\ next' = 1
  /\ UNCHANGED <<case, flags, section, entries, cnames, watchers, exit>>

-----------------------------------------------------------------------------
(* load_config, Config::parse and CNAMEs::new                              *)

Line    == TrimEnd(StripComment(case.file[next].text))
AtLine  == pc = "config" /\ next <= Len(case.file)
Nothing == Trim(Line) = <<>> \/ Line = Chars("---")
IsTop   == ~Nothing /\ Head(Line) \notin Space
IsUnder == ~Nothing /\ Head(Line) = " "
Split   == SplitKey(TrimStart(Line))
Datum   == IF Split = Bad THEN NoText ELSE Unquote(Trim(Split.rest))
IsCnames == Split # Bad /\ Split.key = Chars("cnames")

\* Mutant: a key that hopdns does not know leaves the section as it was.
SectionStays(old) == IF IsCnames THEN "cnames" ELSE old

SectionOf(old) == IF IsCnames THEN "cnames" ELSE "other"

\* Why a line refuses the file.
BadTop   == Split = Bad \/ (IsCnames /\ Trim(Split.rest) \notin {<<>>, Chars("{}")})
BadUnder == section = "top" \/ (section = "cnames" /\ Datum = NoText)
BadLine  == ~Nothing /\ (Head(Line) = Tab \/ (IsTop /\ BadTop) \/ (IsUnder /\ BadUnder))

ReadLine ==
  /\ AtLine /\ ~BadLine
  /\ section' = IF IsTop THEN SectionOf(section) ELSE section
  /\ entries' = IF IsUnder /\ section = "cnames"
                THEN Append(entries, [key |-> Split.key, value |-> Datum]) ELSE entries
  /\ next' = next + 1
  /\ UNCHANGED <<case, pc, flags, cnames, watchers, exit>>

RefuseLine == AtLine /\ BadLine /\ Exit(1, "yaml", next)

Put(map, name, target) == [n \in DOMAIN map \cup {name} |-> IF n = name THEN target ELSE map[n]]

\* CNAMEs::new, for one entry: *.<parent> is a wildcard, and an empty name or
\* target is passed over.
Enter(tables, entry) ==
  LET name == KeyOf(entry.key)
      star == IsPrefix(<<"*", ".">>, name) /\ Len(name) > 2
  IN  IF name = <<>> \/ Trim(entry.value) = <<>> THEN tables
      ELSE IF star
      THEN [tables EXCEPT !.wild = Put(@, SubSeq(name, 3, Len(name)), Fqdn(entry.value))]
      ELSE [tables EXCEPT !.exact = Put(@, name, Fqdn(entry.value))]

FileDone ==
  /\ pc = "config" /\ next > Len(case.file)
  /\ cnames' = FoldLeft(Enter, cnames, entries)
  /\ pc' = "server"
  /\ UNCHANGED <<case, next, flags, section, entries, watchers, exit>>

\* The file cannot be read.
NoFile == pc = "config" /\ next = 1 /\ Exit(1, "read", 0)

-----------------------------------------------------------------------------
(* The resident: its environment instead of flags, and no file.            *)

Env(name) == case.env[name]
EnvOr(name, old, default) ==
  IF Env(name) # None THEN Env(name) ELSE IF Env(old) # None THEN Env(old) ELSE default

PortOf(env) == IF env \in Ports THEN env ELSE "5353"

\* Each peer takes one of the MaxPeers mailboxes; the rest is left out.
ReadEnv ==
  /\ pc = "env"
  /\ LET peers == PeerList(Chars(EnvOr("HOPDNS_PEER", "HOPDNS_PEERS", "http://HOP:9080")))
     IN  flags' = [listen |-> PortOf(Env("ER_PORT_DNS")),
                   domain |-> EnvOr("HOPDNS_DOMAIN", "HOPDNS_DOMAIN", "hop.local"),
                   key    |-> EnvOr("HOPDNS_API_KEY", "HOP_API_KEY", ""),
                   config |-> None,
                   peers  |-> SubSeq(peers, 1, Min({MaxPeers, Len(peers)}))]
  /\ pc' = "server"
  /\ UNCHANGED <<case, next, section, entries, cnames, watchers, exit>>

NoNetwork == pc = "env" /\ Exit(1, "network", 0)

-----------------------------------------------------------------------------
(* Server::new, the socket, and a watcher per peer                         *)

Bind ==
  /\ pc = "server" /\ (IsHost => flags.listen \in Listens)
  /\ pc' = "peers"
  /\ next' = 1
  /\ UNCHANGED <<case, flags, section, entries, cnames, watchers, exit>>

\* The address is no address, or the system refuses the socket.
NoSocket == pc = "server" /\ Exit(1, "bind", 0)

AtPeer == pc = "peers" /\ next <= Len(flags.peers)
Raw    == flags.peers[next]
Peer   == ParsePeer(IF IsHost THEN Raw ELSE WithHostAlias(Raw, Chars("HOP"), HopAddress),
                    Chars(flags.key))

Watch ==
  /\ AtPeer /\ Peer # BadPeer
  /\ watchers' = Append(watchers, [at |-> next, endpoint |-> Peer.endpoint, key |-> Peer.key])
  /\ next' = next + 1
  /\ UNCHANGED <<case, pc, flags, section, entries, cnames, exit>>

\* No peer, no client or no thread: the watchers that run end with main.
NoWatcher == AtPeer /\ IsHost /\ Exit(1, "peer", next)

\* The resident goes on without the peer, whatever was wrong with it.
SkipPeer ==
  /\ AtPeer /\ ~IsHost
  /\ exit' = [exit EXCEPT !.short = @ \/ Peer # BadPeer]
  /\ next' = next + 1
  /\ UNCHANGED <<case, pc, flags, section, entries, cnames, watchers>>

Serve ==
  /\ pc = "peers" /\ next > Len(flags.peers)
  /\ pc' = "serving"
  /\ UNCHANGED <<case, next, flags, section, entries, cnames, watchers, exit>>

\* The socket fails for good: serve() of the host returns, that of the
\* resident tries again.
NoSocketLeft == pc = "serving" /\ IsHost /\ Exit(1, "recv", 0)

\* A reservation fails: main reports it like any other error, but unquote()
\* has no text to give and so its line is blamed.
NoMemory ==
  \/ /\ pc \in {"flags", "config", "server"} \/ (pc = "peers" /\ IsHost)
     /\ Short(IF pc = "flags" THEN 2 ELSE 1, "memory", 0)
  \/ /\ AtLine /\ IsUnder /\ section = "cnames" /\ Split # Bad
     /\ Short(1, "yaml", next)

Next ==
  \/ ReadFlag \/ RefuseFlag \/ Help \/ NoPeer \/ FlagsDone
  \/ ReadLine \/ RefuseLine \/ FileDone \/ NoFile
  \/ ReadEnv \/ NoNetwork
  \/ Bind \/ NoSocket \/ Watch \/ NoWatcher \/ SkipPeer \/ Serve \/ NoSocketLeft
  \/ NoMemory

Spec == Init /\ [][Next]_vars

-----------------------------------------------------------------------------
(* Properties                                                              *)

\* Where a flag stands: at every argument that is not the value of the one
\* before it.
FlagPlaces ==
  LET isFlag[p \in DOMAIN Args] == p = 1 \/ ~(isFlag[p - 1] /\ Args[p - 1].value = None)
  IN  {p \in DOMAIN Args : isFlag[p]}

ValueAt(p) == IF Args[p].value = None THEN Args[p + 1].text ELSE Args[p].value

\* What the command line gives a flag, in order; a blank peer is none.
Given(name) ==
  LET IsGiven(p) == /\ p \in FlagPlaces /\ Args[p].flag = name
                    /\ name = "peer" => Trim(Chars(ValueAt(p))) # <<>>
      given[n \in 0..Len(Args)] ==
        IF n = 0 THEN <<>>
        ELSE IF IsGiven(n) THEN Append(given[n - 1], ValueAt(n)) ELSE given[n - 1]
  IN  given[Len(Args)]

LastOr(texts, default) == IF texts = <<>> THEN default ELSE Last(texts)

\* The peers that were asked for, and the key for those without their own.
Asked == IF IsHost THEN Given("peer")
                   ELSE SubSeq(case.asked, 1, Min({MaxPeers, Len(case.asked)}))
AskedKey == IF IsHost THEN LastOr(Given("api-key"), "")
            ELSE EnvOr("HOPDNS_API_KEY", "HOP_API_KEY", "")

\* The peer that a URL means; HOP is the resident's own Hop.
MeantPeer(text, key) ==
  LET url  == Urls[text]
      host == IF url.host = "HOP" /\ ~IsHost THEN HopAddress ELSE Chars(url.host)
  IN  [endpoint |-> Chars(url.scheme \o "://") \o host \o Chars(url.port \o url.path),
       key |-> Chars(IF url.key = None THEN key ELSE url.key)]
Meant(i) == [at |-> i, endpoint |-> MeantPeer(Asked[i], AskedKey).endpoint,
             key |-> MeantPeer(Asked[i], AskedKey).key]

\* What the readers of the file find a line to be.
Found ==
  IF Nothing THEN "nothing"
  ELSE IF Head(Line) = Tab THEN "bad"
  ELSE IF IsTop THEN (IF BadTop THEN "bad" ELSE IF IsCnames THEN "cnames" ELSE "other")
  ELSE IF Datum = NoText THEN "loose" ELSE "pair"

LineIsRead ==
  LET line == case.file[next]
  IN  /\ line.is = Found
      /\ Found = "pair" => KeyOf(Split.key) = KeyOf(line.key) /\ Datum = line.value

\* The comments of strip_comment() and unquote() claim that of every line.
\* Where it is not so: strip_comment() takes every quote for the end of the
\* text that such a quote began or for the begin of one, so that after a stray
\* quote a # may be taken for a comment in the text, or a comment for text.
Tangled(line) == line.stray /\ Contains(line.text, "#")
Clear == \A j \in DOMAIN case.file : ~Tangled(case.file[j])

\* Every text is read as its writer means it: a line of the file with its
\* quotes and its comment, unless it has both a stray quote and a #; the URL
\* of a peer with the key that goes with it; and the resident's list of peers.
ReadAsMeant ==
  /\ AtLine /\ ~Tangled(case.file[next]) => LineIsRead
  /\ AtPeer => \A i \in DOMAIN Asked :
       Raw = Trim(Chars(Asked[i])) =>
         /\ Urls[Asked[i]].good <=> Peer # BadPeer
         /\ Urls[Asked[i]].good => Peer = MeantPeer(Asked[i], flags.key)
  /\ pc = "env" => PeerList(Chars(EnvOr("HOPDNS_PEER", "HOPDNS_PEERS", "http://HOP:9080")))
                     = [i \in DOMAIN case.asked |-> Trim(Chars(case.asked[i]))]

\* A daemon that serves has a watcher for each good peer it was given, in
\* order, at the endpoint that the URL means and signing with the key of that
\* URL, else with the last -api-key wherever it stands.  One bad peer of
\* several is no daemon at all on the host; the resident goes on without it,
\* and without those for which something was short.
ServesAsAsked ==
  LET good == {i \in DOMAIN Asked : Urls[Asked[i]].good}
  IN  pc = "serving" =>
        /\ \A i \in DOMAIN watchers : watchers[i].at \in good /\ watchers[i] = Meant(watchers[i].at)
        /\ \A i, j \in DOMAIN watchers : i < j => watchers[i].at < watchers[j].at
        /\ ~exit.short => Len(watchers) = Cardinality(good)
        /\ IsHost => /\ good = DOMAIN Asked
                     /\ flags.listen = LastOr(Given("listen"), Defaults.listen)
                     /\ flags.domain = LastOr(Given("domain"), Defaults.domain)

\* What a file means: a pair belongs to the last key at the margin above it.
Owner(j) ==
  LET above == {k \in 1..j - 1 : case.file[k].is \in {"cnames", "other"}}
  IN  IF above = {} THEN "top" ELSE case.file[CHOOSE k \in above : \A l \in above : l <= k].is

Refused(j) ==
  \/ case.file[j].is = "bad"
  \/ case.file[j].is \in {"pair", "loose"} /\ Owner(j) = "top"
  \/ case.file[j].is = "loose" /\ Owner(j) = "cnames"

\* An exit blames the first argument or line that is wrong, and that one is:
\* the value of a flag is never taken for a flag, nor a key of another
\* section for a name.  (Memory must not have run out; and no line of the file
\* is tangled.)
BlamesFirst ==
  LET arg == Args[exit.at]
  IN  /\ exit.what = "yaml" /\ ~exit.short /\ Clear =>
           Refused(exit.at) /\ \A j \in 1..exit.at - 1 : ~Refused(j)
      /\ exit.what \in {"unexpected", "unknown", "missing"} =>
           /\ exit.at \in FlagPlaces
           /\ \A p \in FlagPlaces : p < exit.at => Args[p].flag \in Known
           /\ exit.what = "missing" <=> (arg.flag \in Known)
           /\ exit.what = "missing" => arg.value = None /\ exit.at = Len(Args)

\* The tables hold what the file means: each name of a pair under cnames once,
\* in whatever case and with or without its dot, with its last target; and a
\* file of which any line is refused gives no table.  (No line is tangled.)
TablesAsWritten ==
  LET Name(j)   == KeyOf(case.file[j].key)
      meant == {j \in DOMAIN case.file : case.file[j].is = "pair" /\ Owner(j) = "cnames"
                                         /\ Name(j) # <<>> /\ Trim(case.file[j].value) # <<>>}
      Target(j) == Fqdn(case.file[j].value)
      Star(name) == <<"*", ".">> \o name
      Hits(map, Full(_)) ==
        \A name \in DOMAIN map : \E j \in meant :
          /\ Name(j) = Full(name) /\ map[name] = Target(j)
          /\ \A k \in meant : Name(k) = Name(j) => k <= j
  IN  pc \in {"server", "peers", "serving"} /\ Clear =>
        /\ flags.config # None => \A j \in DOMAIN case.file : ~Refused(j)
        /\ Hits(cnames.exact, LAMBDA name : name) /\ Hits(cnames.wild, Star)
        /\ flags.config # None =>
             {Name(j) : j \in meant}
               = DOMAIN cnames.exact \cup {Star(name) : name \in DOMAIN cnames.wild}
=============================================================================

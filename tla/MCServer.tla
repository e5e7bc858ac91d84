------------------------------ MODULE MCServer ------------------------------
(* Server for hop.local with two clusters: one that is named like a service *)
(* and one whose name has a dot.  An address is a number.                   *)
EXTENDS Server
MCDomain  == <<"hop", "local">>
Web       == <<"web">>
Prod      == <<"prod">>
EuProd    == <<"eu", "prod">>
WebOnly   == {Web}
WebProd   == {Web, Prod}
MCClusters == {Prod, EuProd}
MCOrder   == <<EuProd, Prod, Web>>

\* Two lists of 40 that share five: 30 fit without EDNS, 74 with.
MCLists   == {<<>>, [i \in 1..40 |-> i], [i \in 1..40 |-> i + 35]}
OneList   == {<<>>, <<1>>}

\* Names near the limit of 255 bytes, and a zone of 184.
L    == "abcdefghijklmnopqrstuvwxyzabcdefghijklmnopqrstuvwxyzabcdefgh"
Deep == <<L, L, L>>

\* Static names: in the domain, one that hides a service, one whose target
\* cannot be written, above the domain, elsewhere, and a long one.
Unwritable == <<"bad">> \o MCDomain
Statics   == {<<"mail">> \o MCDomain, Prod \o Prod \o MCDomain, Unwritable,
              <<"x", "local">>, <<"mail", "example", "com">>, <<L>> \o Deep}
Apps      == <<"apps">> \o MCDomain
Stars     == {Apps, <<"x">> \o Apps}
NoStatics == {}
Prefixed  == {<<>>, Web, Prod, Web \o Prod, Prod \o Prod, EuProd,
              Web \o EuProd, <<"mail">>, <<"bad">>, <<"apps">>, <<"x", "apps">>,
              <<"y", "apps">>, <<"y", "x", "apps">>}
MCNames   == {p \o MCDomain : p \in Prefixed}
               \cup {<<"mail", "example", "com">>, <<"example", "com">>, <<"com">>,
                     <<"local">>, <<"x", "local">>, <<"org">>,
                     <<L>> \o Deep, <<"y">> \o Deep, Deep}

\* Lengths on the wire: a byte before each label, and one at the end.
Length(name) == FoldLeft(LAMBDA n, label : n + 1 + Len(label), 1, name)
MCNameLen    == [name \in MCNames \cup Zones \cup {Domain} |-> Length(name)]
MCTargetLen  == [entry \in Entries |->
                   IF entry[2] = Unwritable THEN NoLen ELSE IF entry[2] = <<L>> \o Deep THEN 255 ELSE 20]

\* Datagrams: plain questions, questions that bring records, broken ones.
Question(name, type, class) ==
  [header |-> "whole", flags |-> {"RD"}, opcode |-> 0, qd |-> 1, name |-> "host",
   labels |-> name, tail |-> "whole", type |-> type, class |-> class,
   count |-> 0, records |-> <<>>]
Opt(size) == [what |-> "opt", size |-> size]
Other     == [what |-> "other"]
Broken    == [what |-> "broken"]
Plain     == Question(Web \o MCDomain, "A", "IN")
With(question, n, records) == [question EXCEPT !.count = n, !.records = records]

PlainOf(names) == {Question(name, type, "IN") : name \in names, type \in Types}
Plains    == PlainOf(MCNames)
Classes   == {Question(name, "A", class) : name \in MCNames, class \in {"ANY", "CH"}}
Edns      == {With(Plain, 1, <<Opt(100)>>), With(Plain, 1, <<Opt(1232)>>),
              With(Plain, 1, <<Opt(4096)>>), With(Plain, 2, <<Other, Opt(1232)>>),
              With(Plain, 2, <<Opt(1232), Other>>), With(Plain, 1, <<Other, Opt(1232)>>),
              With(Plain, 2, <<Broken, Opt(1232)>>), With(Plain, 3, <<Opt(1232)>>),
              With(Plain, 2, <<Opt(1232), Opt(512)>>)}
               \cup {With(q, 1, <<Opt(1232)>>) : q \in PlainOf({<<L>> \o Deep, <<"y">> \o Deep})}
Bad       == {[Plain EXCEPT !.header = "short"], [Plain EXCEPT !.flags = {"QR"}],
              [Plain EXCEPT !.opcode = 5], [Plain EXCEPT !.qd = 0], [Plain EXCEPT !.qd = 2],
              [Plain EXCEPT !.tail = "cut"], [Plain EXCEPT !.name = "cut"],
              [Plain EXCEPT !.name = "pointer"], [Plain EXCEPT !.name = "long"],
              [Plain EXCEPT !.name = "nohost"]}
MCDatagrams == Plains \cup Classes \cup Edns \cup Bad
=============================================================================

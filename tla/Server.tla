------------------------------- MODULE Server -------------------------------
(***************************************************************************)
(* What a datagram is answered: `handle`, `answer` and `service` of        *)
(* src/src/server.rs, with parse_query of src/src/wire.rs (module Query),  *)
(* the CNAME table of src/src/cnames.rs and the cache of src/src/cache.rs, *)
(* a table of tables (module Table).  The one thread that answers also     *)
(* applies the updates, so a question sees the cache between two of them.  *)
(*                                                                         *)
(* Data.  A name is the sequence of its labels, in lower case and without  *)
(* the root: that is what name_text() makes of it, and a suffix of labels  *)
(* is what in_zone() compares.  A cluster's name may hold dots, so a       *)
(* cluster too is a sequence of labels.  What a name takes on the wire is  *)
(* given by NameLen, so that the room for records is counted in bytes, as  *)
(* module Reply does it record by record.                                  *)
(***************************************************************************)
EXTENDS Query, Table

CONSTANTS
  Domain,    \* the daemon's own zone
  Exact,     \* the CNAMEs without a star: a set of names
  Wild,      \* the parents of the CNAMEs with one: *.<parent>
  Clusters,  \* the clusters
  JobNames,  \* job names, each a sequence of labels
  Order,     \* the names of clusters and jobs in the order of their bytes
  Lists,     \* the address lists a refresh may bring
  Datagrams, \* the datagrams that arrive
  NameLen,   \* the length on the wire of a name asked and of a zone
  TargetLen  \* and of the target of an entry of the CNAME table

\* A name, but for that of the root.
IsName(name) == name \in Seq(STRING) \ {<<>>}

ASSUME ServerAssumption ==
  /\ IsName(Domain)
  /\ \A name \in Exact \cup Wild \cup ToSet(Order) : IsName(name)
  /\ \A list \in Lists : list \in Seq(ToSet(list)) /\ IsInjective(list)
  /\ Order \in Seq(ToSet(Order)) /\ IsInjective(Order)
  /\ Clusters \cup JobNames \subseteq ToSet(Order)

VARIABLES
  cache,    \* the clusters' rows, each with the rows of its jobs
  answer    \* the datagram just handled, the header of its answer and what
            \* it is told, else NoAnswer

vars == <<cache, answer>>

\* The key of a name; one that no row can have comes before them all.
Key(name) == SelectInSeq(Order, LAMBDA other : other = name)

\* Cache::has_cluster, and a cluster's table
Knows(c)  == Has(cache, Key(c))
JobsOf(c) == IF Knows(c) THEN Get(cache, Key(c)) ELSE <<>>

\* Cache::merged: the lists of a job, in the order of the clusters.
ListsOf(job) ==
  [i \in DOMAIN cache |->
     IF Has(cache[i].value, Key(job)) THEN Get(cache[i].value, Key(job)) ELSE <<>>]

\* Cache::has_job
HasJob(job) == \E i \in DOMAIN cache : Has(cache[i].value, Key(job))

-----------------------------------------------------------------------------
(* The CNAME table.  A target is named by the entry it belongs to.         *)

\* fn in_zone
InZone(name, zone) == IsSuffix(zone, name)

\* Mutant: a star matches its own parent.
ParentsAndSelf(name) == [i \in 1..Len(name) |-> SubSeq(name, i, Len(name))]

\* The proper parents of a name, nearest first.
Parents(name) == [i \in 1..Len(name) - 1 |-> SubSeq(name, i + 1, Len(name))]

None == <<>>

\* CNAMEs::lookup: the exact entry, else the first parent with a star.
CnameOf(name) ==
  IF name \in Exact THEN <<"exact", name>>
  ELSE LET hit == SelectInSeq(Parents(name), LAMBDA parent : parent \in Wild)
       IN  IF hit = 0 THEN None ELSE <<"wild", Parents(name)[hit]>>

\* CNAMEs::zones: the parent of an exact name, and that of a star.
Zones == ({Tail(name) : name \in Exact} \cup Wild) \ {<<>>}

\* CNAMEs::zone_of: the longest of them that holds the name.
ZoneOf(name) ==
  LET over == {zone \in Zones : InZone(name, zone)}
  IN  IF over = {} THEN None
      ELSE CHOOSE zone \in over : \A other \in over : Len(other) <= Len(zone)

\* The entries of the table.
Entries == {<<"exact", name>> : name \in Exact} \cup {<<"wild", parent>> : parent \in Wild}

\* A target that put_name() refuses: an empty label, one over 63 bytes, or a
\* name over NAME_MAX.
NoLen == 0

-----------------------------------------------------------------------------
(* Answers.  "none" is no answer at all.                                   *)

Say(rcode, cname, ips, soa) ==
  [rcode |-> rcode, cname |-> cname, ips |-> ips, soa |-> soa]

Only(rcode) == Say(rcode, None, <<>>, None)

\* Reply::room for the answer to a question for a name of `len` bytes: the
\* limit, less the header, the question and the reserve for the OPT record.
Room(len, offer) ==
  Clamped(offer) - HeaderLen - (len + 4) - (IF offer = NoEdns THEN 0 ELSE OptLen)

\* answer_a until one does not fit.
FirstFit(list, places) == SubSeq(list, 1, Min({Len(list), places}))

\* fn write_merged: each address once, as many as fit in the message and in
\* the row that remembers them.
WriteMerged(job, room) ==
  LET ips == FlattenSeq(ListsOf(job))
      seen[n \in 0..Len(ips)] ==
        IF n = 0 THEN <<>>
        ELSE LET before == seen[n - 1]
             IN  IF Contains(before, ips[n]) THEN before ELSE Append(before, ips[n])
  IN  FirstFit(seen[Len(ips)], AtMost(room \div ASize, MaxAnswers))

\* answer_cname: a target that cannot be written, or does not fit, is an
\* error, and the answer a SERVFAIL.
Alias(entry, room) ==
  IF TargetLen[entry] # NoLen /\ CnameSize(TargetLen[entry]) <= room
  THEN Say("NOERROR", entry, <<>>, None)
  ELSE Only("SERVFAIL")

\* authority_soa in an answer without records: one that does not fit in the
\* scratch row or in the message is an error, and the answer a SERVFAIL.
Negative(rcode, zone, room) ==
  IF SoaSize(NameLen[zone]) <= AtMost(SoaScratch, room)
  THEN Say(rcode, None, <<>>, zone)
  ELSE Only("SERVFAIL")

\* fn service: the zone itself, a service of every cluster (or a cluster's
\* name), or a service of one cluster.
Apex(name)   == name = Domain
Prefix(name) == SubSeq(name, 1, Len(name) - Len(Domain))
Merged(name) == ~Apex(name) /\ Len(Prefix(name)) = 1
Single(name) == ~Apex(name) /\ Len(Prefix(name)) > 1

\* Cache::get_cluster, as a set of at most one list.
OfCluster(name) ==
  LET jobs == JobsOf(Tail(Prefix(name)))
      job  == Key(<<Head(name)>>)
  IN  IF Has(jobs, job) THEN {Get(jobs, job)} ELSE {}

\* Mutant: a cluster's name exists only as a service.
ExistsAsService(name) ==
  \/ Apex(name)
  \/ Single(name) /\ OfCluster(name) # {}
  \/ Merged(name) /\ HasJob(Prefix(name))

Exists(name) ==
  \/ Apex(name)
  \/ Single(name) /\ OfCluster(name) # {}
  \/ Merged(name) /\ (HasJob(Prefix(name)) \/ Knows(Prefix(name)))

Records(name, room) ==
  IF Merged(name) THEN WriteMerged(Prefix(name), room)
  ELSE IF Single(name) /\ OfCluster(name) # {}
       THEN FirstFit(CHOOSE list \in OfCluster(name) : TRUE, room \div ASize)
  ELSE <<>>

\* Mutant: a name without records of the type does not exist.
ServiceByRecords(name, type, room) ==
  LET ips == IF type \in {"A", "ANY"} THEN Records(name, room) ELSE <<>>
  IN  IF ips # <<>> THEN Say("NOERROR", None, ips, None)
      ELSE Negative("NXDOMAIN", Domain, room)

\* Mutant: only an NXDOMAIN carries the SOA.
ServiceBareNoData(name, type, room) ==
  LET ips == IF type \in {"A", "ANY"} THEN Records(name, room) ELSE <<>>
  IN  IF ips # <<>> \/ Exists(name) THEN Say("NOERROR", None, ips, None)
      ELSE Negative("NXDOMAIN", Domain, room)

Service(name, type, room) ==
  LET ips == IF type \in {"A", "ANY"} THEN Records(name, room) ELSE <<>>
  IN  IF ips # <<>> THEN Say("NOERROR", None, ips, None)
      ELSE Negative(IF Exists(name) THEN "NOERROR" ELSE "NXDOMAIN", Domain, room)

\* fn answer
Answer(name, type, class, room) ==
  IF class \notin {"IN", "ANY"} THEN Only("REFUSED")
  ELSE IF CnameOf(name) # None THEN Alias(CnameOf(name), room)
  ELSE IF InZone(name, Domain) THEN Service(name, type, room)
  ELSE IF ZoneOf(name) # None THEN Negative("NXDOMAIN", ZoneOf(name), room)
  ELSE Only("REFUSED")

\* fn handle.  Reply::start has room for every question: 259 bytes at most.
HandleOf(d) ==
  LET q == ParseQuery(d)
  IN  CASE q.what = "drop"  -> Only("none")
        [] q.what = "bare"  -> Only(q.rcode)
        [] q.what = "query" ->
             IF q.name = "nohost" THEN Only("REFUSED")
             ELSE Answer(q.labels, q.type, q.class, Room(NameLen[q.labels], q.edns))

\* Mutant: only the bits of the question are copied.
HeadWithoutQr(d) ==
  [flags  |-> {"AA"} \cup (d.flags \cap {"RD", "CD"}),
   opcode |-> d.opcode,
   qd     |-> IF ParseQuery(d).what = "query" THEN 1 ELSE 0]

\* The header of an answer, as Reply::bare and Reply::start write it: the
\* bits, the opcode of the question, and whether the question is repeated.
HeadOf(d) ==
  [flags  |-> {"QR", "AA"} \cup (d.flags \cap {"RD", "CD"}),
   opcode |-> d.opcode,
   qd     |-> IF ParseQuery(d).what = "query" THEN 1 ELSE 0]

\* A datagram is a record of its parts (module Query).
Flags == {"QR", "AA", "TC", "RD", "RA", "AD", "CD"}
ASSUME DatagramsAssumption ==
  \A d \in Datagrams :
    d \in [header : {"short", "whole"}, flags : SUBSET Flags, opcode : Nat, qd : Nat,
           name : {"cut", "pointer", "long", "nohost", "host"}, labels : Seq(STRING),
           tail : {"cut", "whole"}, type : {"A", "ANY", "AAAA"}, class : {"IN", "ANY", "CH"},
           count : Nat,
           records : Seq([what : {"broken", "other"}] \cup [what : {"opt"}, size : Nat])]

\* The questions for a host name, and the names they ask.
Hosts == {d \in Datagrams : ParseQuery(d).what = "query" /\ d.name = "host"}
Names == {d.labels : d \in Hosts}

\* skip_plain_name() takes names of 1 to NAME_MAX bytes.
ASSUME LengthsAssumption ==
  /\ \A name \in Names : NameLen[name] \in 1..ReplyNameMax
  /\ \A zone \in Zones \cup {Domain} : NameLen[zone] \in Nat
  /\ \A entry \in Entries : TargetLen[entry] \in 0..ReplyNameMax

-----------------------------------------------------------------------------
NoDatagram == [header |-> "short", flags |-> {}, opcode |-> 0, qd |-> 1, name |-> "cut",
               labels |-> None, tail |-> "cut", type |-> "A", class |-> "IN",
               count |-> 0, records |-> <<>>]
NoAnswer   == [to |-> NoDatagram, head |-> HeadOf(NoDatagram), said |-> Only("none")]

Init ==
  /\ cache = <<>>
  /\ answer = NoAnswer

\* Update::Replace, Cache::update: a full refresh has rows for jobs with
\* addresses only.
Replace(c) ==
  /\ answer = NoAnswer
  /\ \E known \in SUBSET JobNames : \E lists \in [known -> Lists \ {<<>>}] :
       LET rows[n \in 0..Len(Order)] ==
             IF n = 0 THEN <<>>
             ELSE IF Order[n] \in known THEN Insert(rows[n - 1], Key(Order[n]), lists[Order[n]])
             ELSE rows[n - 1]
       IN  cache' = Insert(cache, Key(c), rows[Len(Order)])
  /\ UNCHANGED answer

\* Mutant: the cluster's table is always a new one.
SetJobAlone(c, job, list) ==
  /\ answer = NoAnswer
  /\ cache' = Insert(cache, Key(c), Insert(<<>>, Key(job), list))
  /\ UNCHANGED answer

\* Update::Set, Cache::set: in the cluster's table, or in a new one.
SetJob(c, job, list) ==
  /\ answer = NoAnswer
  /\ cache' = Insert(cache, Key(c), Insert(JobsOf(c), Key(job), list))
  /\ UNCHANGED answer

\* Cache::clear, which the crate offers and its daemons do not call.
Clear(c) ==
  /\ answer = NoAnswer
  /\ cache' = RemoveKey(cache, Key(c))
  /\ UNCHANGED answer

\* Server::handle
Handle(d) ==
  /\ answer = NoAnswer
  /\ answer' = [to |-> d, head |-> HeadOf(d), said |-> HandleOf(d)]
  /\ UNCHANGED cache

\* The end of a turn of the loop: the answer, if there is one, is sent.
SendTo ==
  /\ answer # NoAnswer
  /\ answer' = NoAnswer
  /\ UNCHANGED cache

Next ==
  \/ \E c \in Clusters : Replace(c) \/ Clear(c)
  \/ \E c \in Clusters, job \in JobNames, list \in Lists : SetJob(c, job, list)
  \/ \E d \in Datagrams : Handle(d)
  \/ SendTo

Spec == Init /\ [][Next]_vars

-----------------------------------------------------------------------------
(* Properties *)

Types   == {"A", "ANY", "AAAA"}
Sizes   == {NoEdns, UdpMax, EdnsMax}
Asked   == answer.to \in Hosts
Name    == answer.to.labels

\* What a question for a name is told that offers that size.
Told(name, type, class, offer) ==
  Answer(name, type, class, Room(NameLen[name], offer)).rcode

\* The cache is in order, cluster by cluster and job by job, and holds what
\* refreshes bring; no answer is longer than the largest message allows.
TypeOK ==
  /\ Sorted(cache) /\ Keys(cache) \subseteq {Key(c) : c \in Clusters}
  /\ \A i \in DOMAIN cache :
       LET jobs == cache[i].value
       IN  /\ Sorted(jobs) /\ Keys(jobs) \subseteq {Key(job) : job \in JobNames}
           /\ \A j \in DOMAIN jobs : jobs[j].value \in Lists
  /\ answer = NoAnswer \/ answer.to \in Datagrams
  /\ Len(answer.said.ips) <= MaxAnswers

\* The sorted tables implement the map from clusters and jobs to lists: a
\* refresh of one job leaves the others, and those of other clusters, alone.
Known(rows) == {Order[key] : key \in Keys(rows)}
Map == INSTANCE ClusterMap WITH
  Jobs <- JobNames,
  map  <- [c \in Known(cache) |->
             LET jobs == AsMap(cache)[Key(c)]
             IN  [job \in Known(jobs) |-> AsMap(jobs)[Key(job)]]]
CacheIsMap ==
  /\ Map!Spec
  /\ [][\A c \in Clusters, job \in JobNames, list \in Lists :
         SetJob(c, job, list) => Map!SetJob(c, job, list)]_cache

\* An NXDOMAIN says that nothing exists at the name or below it (RFC 8020):
\* within the domain, no service of a cluster whose name is one label is
\* answered below it.  It is why a cluster's name between a service and the
\* domain is NOERROR.  Two kinds of names are out of its reach: those above
\* the domain, which a zone of static names answers, and those below a part
\* of a cluster's name that holds a dot (NxdomainMeansNothingBelow).
NxdomainHidesNoService ==
  answer.said.rcode = "NXDOMAIN" /\ InZone(Name, Domain) =>
    \A name \in Names, type \in Types :
      IsSuffix(Name, name) /\ CnameOf(name) = None /\ Len(name) <= Len(Domain) + 2
        => Told(name, type, "IN", EdnsMax) # "NOERROR"

\* The same of every name: clusters whose name holds a dot and static CNAMEs
\* included.
NxdomainMeansNothingBelow ==
  answer.said.rcode = "NXDOMAIN" =>
    \A name \in Names, type \in Types :
      IsSuffix(Name, name) => Told(name, type, "IN", EdnsMax) # "NOERROR"

\* What the asker offers: the size in the first OPT of the announced records,
\* when all before it can be read.
Offers(d) ==
  {d.records[i].size : i \in {i \in DOMAIN d.records :
     /\ i <= d.count /\ d.records[i].what = "opt"
     /\ \A j \in 1..i - 1 : d.records[j].what = "other"}}

\* The merged answer is the union over the clusters, each address once; if
\* the union does not fit in what the asker takes, the answer is full.
MergedIsUnion ==
  LET said   == answer.said
      all    == UNION {ToSet(list) : list \in ToSet(ListsOf(Prefix(Name)))}
      offers == Offers(answer.to)
      limit  == Max({UdpMax} \cup {Min({size, EdnsMax}) : size \in offers})
      used   == HeaderLen + NameLen[Name] + 4 + (IF offers = {} THEN 0 ELSE OptLen)
  IN  Asked /\ InZone(Name, Domain) /\ Merged(Name) /\ CnameOf(Name) = None
      /\ answer.to.class # "CH" /\ answer.to.type # "AAAA"
        => /\ IsInjective(said.ips)
           /\ ToSet(said.ips) \subseteq all
           /\ Len(said.ips) = Min({Cardinality(all), (limit - used) \div 16})

\* Whether a name exists does not depend on the type asked or on the room
\* for an answer: a resolver that asks AAAA first must not learn from it that
\* the name is not there.  Nor does the code itself, where a zone's name is
\* short enough for its SOA to fit in every answer (62 bytes); for a longer
\* one, and for a CNAME, an asker with too little room gets a SERVFAIL.
RcodeIgnoresType ==
  LET zone == IF InZone(Name, Domain) THEN Domain ELSE ZoneOf(Name)
      said == answer.said.rcode
  IN  Asked =>
        \A type \in Types, offer \in Sizes :
          LET other == Told(Name, type, answer.to.class, offer)
          IN  /\ {said, other} # {"NOERROR", "NXDOMAIN"}
              /\ CnameOf(Name) = None /\ (zone = None \/ NameLen[zone] <= 62)
                   => other = said

\* A static CNAME wins from a service, the exact entry from a star, and the
\* longest star from the shorter ones; a star does not match its own parent.
\* The winner that cannot be told is a SERVFAIL, never another answer.
CnameIsNearest ==
  LET over  == {parent \in Wild : IsStrictSuffix(parent, Name)}
      entry == IF Name \in Exact THEN <<"exact", Name>>
               ELSE IF over = {} THEN None
               ELSE <<"wild", CHOOSE p \in over : \A q \in over : IsSuffix(q, p)>>
      said  == answer.said
  IN  Asked /\ answer.to.class # "CH" =>
        IF entry = None
        THEN said.cname = None
        ELSE said = Alias(entry, Room(NameLen[Name], FindOpt(answer.to)))

\* Every negative answer of a zone of ours carries the SOA of a zone that
\* holds the name (RFC 2308), and no other answer does.
NegativeHasSoa ==
  LET said == answer.said
  IN  /\ said.soa # None <=>
           said.rcode \in {"NOERROR", "NXDOMAIN"} /\ said.cname = None /\ said.ips = <<>>
      /\ said.soa # None => InZone(Name, said.soa)

\* What a server sends is no question to a server, which keeps two of them
\* from answering each other for ever: the header that is written for an
\* answer, an error included, is one that is dropped unanswered when read,
\* whatever the opcode and the question that reached the first.
Sent   == [answer.to EXCEPT !.header = "whole", !.flags = answer.head.flags,
                            !.opcode = answer.head.opcode, !.qd = answer.head.qd]
NoEcho == answer.said.rcode # "none" => HandleOf(Sent).rcode = "none"
=============================================================================

-------------------------------- MODULE Query --------------------------------
(***************************************************************************)
(* What the server reads in a datagram: parse_query and find_opt of        *)
(* src/src/wire.rs.                                                        *)
(*                                                                         *)
(* Data.  A datagram is a record of what its parts hold:                   *)
(*   header   "short" (under 12 bytes) or "whole"                          *)
(*   flags    the bits that are set: "QR" on an answer, "AA", "TC", "RD",  *)
(*            "RA", "AD", "CD"                                             *)
(*   opcode   0 for QUERY                                                  *)
(*   qd       QDCOUNT                                                      *)
(*   name     "cut", "pointer" (or a reserved form), "long", "nohost" (a   *)
(*            label that no host name has), or "host"                      *)
(*   labels   the labels of a host name, in lower case                     *)
(*   tail     whether type and class are there: "cut" or "whole"           *)
(*   type, class                                                           *)
(*   count    ANCOUNT + NSCOUNT + ARCOUNT                                  *)
(*   records  what follows: each "broken", "other", or an "opt" with the   *)
(*            size it offers                                               *)
(***************************************************************************)
EXTENDS AnswerSizes, FiniteSetsExt, SequencesExt

\* Mutant: only the last record of the datagram is looked at.
FindOptLast(d) ==
  IF d.records # <<>> /\ Last(d.records).what = "opt" THEN Last(d.records).size ELSE NoEdns

\* fn find_opt: the first of the announced records that is an OPT; one that
\* cannot be read ends the search, and the question still stands.
FindOpt(d) ==
  LET seen == SubSeq(d.records, 1, Min({d.count, Len(d.records)}))
      stop == SelectInSeq(seen, LAMBDA r : r.what # "other")
  IN  IF stop # 0 /\ seen[stop].what = "opt" THEN seen[stop].size ELSE NoEdns

Drop        == [what |-> "drop"]
Bare(rcode) == [what |-> "bare", rcode |-> rcode]

\* fn parse_query
ParseQuery(d) ==
  IF d.header = "short" \/ "QR" \in d.flags THEN Drop
  ELSE IF d.opcode # 0 THEN Bare("NOTIMP")
  ELSE IF d.qd # 1 \/ d.name \in {"cut", "pointer", "long"} \/ d.tail = "cut"
  THEN Bare("FORMERR")
  ELSE [what |-> "query", name |-> d.name, labels |-> d.labels,
        type |-> d.type, class |-> d.class, edns |-> FindOpt(d)]
=============================================================================

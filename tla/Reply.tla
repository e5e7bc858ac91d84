-------------------------------- MODULE Reply --------------------------------
(***************************************************************************)
(* The size of a DNS answer: `Reply` of src/src/wire.rs as the server      *)
(* fills it (src/src/server.rs: handle, answer, service).  An answer is a  *)
(* header, the question, A records or one CNAME, at most one SOA and, when *)
(* the question spoke EDNS, the OPT record that finish() adds.  Only the   *)
(* lengths matter here; which answer a name gets is module Server.         *)
(***************************************************************************)
EXTENDS AnswerSizes

CONSTANTS
  BufLen,     \* the length of the buffer that handle() is given
  Questions,  \* lengths of a question: its name, type and class
  Offers,     \* what a question offers by EDNS, NoEdns among them
  Zones,      \* lengths on the wire of a zone's name
  Targets     \* lengths on the wire of a CNAME's target

\* parse_query() takes names of 1 to NAME_MAX bytes; an offer is a u16.
ASSUME BufferAssumption == BufLen \in Nat /\ BufLen >= UdpMax
ASSUME LengthsAssumption ==
  /\ Questions \subseteq 5..(ReplyNameMax + 4)
  /\ Zones \subseteq 1..ReplyNameMax
  /\ Targets \subseteq 1..ReplyNameMax
ASSUME OffersAssumption == Offers \subseteq Nat \cup {NoEdns}

VARIABLES
  pc,        \* "free", "open" (records may follow), "done" (only finish()
             \* follows) or "sent"
  kind,      \* "bare", "refused", "cname" or "service"
  question,  \* the length of the question, 0 without one
  zone,      \* of the SOA, if one is written
  target,    \* of the CNAME, if one is written
  edns,      \* whether finish() adds an OPT record
  limit, len, an, ns, ar,
  rcode      \* "servfail", or whatever the caller set

reply == <<kind, question, zone, target, edns, limit>>
replyVars == <<pc, reply, len, an, ns, ar, rcode>>

ReplyInit ==
  /\ pc = "free" /\ kind = "bare"
  /\ question = 0 /\ zone = 0 /\ target = 0
  /\ edns = FALSE /\ limit = 0 /\ len = 0
  /\ an = 0 /\ ns = 0 /\ ar = 0
  /\ rcode = "set"

Reserve == IF edns THEN OptLen ELSE 0
\* Mutant: the room is measured before the record.
HasRoomLate(n) == len + Reserve <= limit
\* Mutant: no room is kept for the OPT record.
HasRoomNoReserve(n) == len + n <= limit
HasRoom(n) == len + n + Reserve <= limit

-----------------------------------------------------------------------------
\* Reply::bare: a datagram that does not parse gets a code and no question.
StartBare ==
  /\ pc = "free"
  /\ pc' = "done" /\ kind' = "bare"
  /\ limit' = AtMost(UdpMax, BufLen) /\ len' = HeaderLen
  /\ question' = 0 /\ zone' = 0 /\ target' = 0 /\ edns' = FALSE
  /\ an' = 0 /\ ns' = 0 /\ ar' = 0 /\ rcode' = "set"

\* Reply::start, for a name below the zone that answers it.
Start(k, q, offer, z, t) ==
  LET room == AtMost(Clamped(offer), BufLen)
      opt  == IF offer = NoEdns THEN 0 ELSE OptLen
  IN  /\ pc = "free"
      /\ k = "service" => z + 4 <= q
      /\ HeaderLen + q + opt <= room          \* else handle() says nothing
      /\ pc' = IF k = "refused" THEN "done" ELSE "open"
      /\ kind' = k /\ question' = q
      /\ zone' = (IF k = "service" THEN z ELSE 0)
      /\ target' = (IF k = "cname" THEN t ELSE 0)
      /\ edns' = (offer # NoEdns) /\ limit' = room /\ len' = HeaderLen + q
      /\ an' = 0 /\ ns' = 0 /\ ar' = 0 /\ rcode' = "set"

\* Reply::answer_a; when it does not fit the server stops.
AnswerA ==
  /\ pc = "open" /\ kind = "service" /\ HasRoom(ASize)
  /\ len' = len + ASize /\ an' = an + 1
  /\ UNCHANGED <<pc, reply, ns, ar, rcode>>

\* The list has ended, or the answer is full.
AnswersEnd ==
  /\ pc = "open" /\ kind = "service" /\ an > 0
  /\ pc' = "done"
  /\ UNCHANGED <<reply, len, an, ns, ar, rcode>>

\* Reply::answer_cname; an error makes the answer a SERVFAIL.
AnswerCname ==
  /\ pc = "open" /\ kind = "cname"
  /\ pc' = "done"
  /\ IF HasRoom(CnameSize(target))
     THEN /\ len' = len + CnameSize(target) /\ an' = 1 /\ UNCHANGED rcode
     ELSE rcode' = "servfail" /\ UNCHANGED <<len, an>>
  /\ UNCHANGED <<reply, ns, ar>>

\* Reply::authority_soa, without answers; an error makes it a SERVFAIL.
AuthoritySoa ==
  /\ pc = "open" /\ kind = "service" /\ an = 0
  /\ pc' = "done"
  /\ IF SoaSize(zone) <= SoaScratch /\ HasRoom(SoaSize(zone))
     THEN /\ len' = len + SoaSize(zone) /\ ns' = 1 /\ UNCHANGED rcode
     ELSE rcode' = "servfail" /\ UNCHANGED <<len, ns>>
  /\ UNCHANGED <<reply, an, ar>>

\* Reply::finish adds the OPT record where the buffer has room for it.
Finish ==
  /\ pc = "done"
  /\ pc' = "sent"
  /\ IF edns /\ len + OptLen <= BufLen
     THEN len' = len + OptLen /\ ar' = 1
     ELSE UNCHANGED <<len, ar>>
  /\ UNCHANGED <<reply, an, ns, rcode>>

\* The next datagram starts a Reply of its own.
Again ==
  /\ pc = "sent"
  /\ pc' = "free" /\ kind' = "bare"
  /\ question' = 0 /\ zone' = 0 /\ target' = 0
  /\ edns' = FALSE /\ limit' = 0 /\ len' = 0
  /\ an' = 0 /\ ns' = 0 /\ ar' = 0
  /\ rcode' = "set"

ReplyNext ==
  \/ StartBare
  \/ \E k \in {"refused", "cname", "service"}, q \in Questions, offer \in Offers,
        z \in Zones, t \in Targets : Start(k, q, offer, z, t)
  \/ AnswerA \/ AnswersEnd \/ AnswerCname \/ AuthoritySoa
  \/ Finish \/ Again

ReplySpec == ReplyInit /\ [][ReplyNext]_replyVars

-----------------------------------------------------------------------------
(* Properties *)

\* Every variable keeps its type.
ReplyTypeOK ==
  /\ pc \in {"free", "open", "done", "sent"}
  /\ kind \in {"bare", "refused", "cname", "service"}
  /\ question \in Questions \cup {0}
  /\ zone \in Zones \cup {0}
  /\ target \in Targets \cup {0}
  /\ edns \in BOOLEAN
  /\ limit \in 0..EdnsMax /\ len \in 0..EdnsMax
  /\ an \in Nat /\ ns \in {0, 1} /\ ar \in {0, 1}
  /\ rcode \in {"set", "servfail"}

\* The invariant of Reply: the message stays within what the asker accepts
\* and within the buffer, the OPT record that is still to come included.
WithinLimit ==
  /\ limit <= BufLen
  /\ len + (IF pc \in {"open", "done"} THEN Reserve ELSE 0) <= limit

\* A question with EDNS is answered with EDNS (RFC 6891): the reserve is kept
\* until finish(), however full the answer is.
EdnsAnswered == pc = "sent" => (ar = 1 <=> edns)

\* write_merged() remembers MAX_ANSWERS addresses: no answer holds more, so
\* that list never cuts an answer short.
RowSuffices == an <= MaxAnswers

\* An answer without records is negative: as long as the zone's name is
\* short, it carries the SOA that lets a resolver keep it for five seconds
\* only, whatever the question.
ShortZoneHasSoa ==
  pc = "sent" /\ kind = "service" /\ an = 0 /\ zone <= 62
    => ns = 1 /\ rcode = "set"
=============================================================================

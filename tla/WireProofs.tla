----------------------------- MODULE WireProofs -----------------------------
(***************************************************************************)
(* Theorems about the wire format, the two halves of src/src/wire.rs.      *)
(*                                                                         *)
(* The size of an answer (Reply): for every question, EDNS offer, zone and *)
(* target, and every buffer of at least 512 bytes.                         *)
(*                                                                         *)
(* The readers of a name (NameWalk): for messages of every length and      *)
(* every NameMax.  The loop of read_name stays inside the message and its  *)
(* text inside a buffer for names, and each of its turns but the last      *)
(* descends in the order (NameMax minus the length of the text, position), *)
(* which is well founded: so it ends.  And it agrees with the readers that *)
(* walk the same bytes: with skip_name on where a name ends, and with      *)
(* skip_plain_name and name_text on the names of a query.                  *)
(***************************************************************************)
EXTENDS Reply, NameWalk, SequenceTheorems, FiniteSetTheorems, WellFoundedInduction, TLAPS

-----------------------------------------------------------------------------
(* The size of an answer                                                   *)

\* Which records a reply can hold in which phase, and what is known of its
\* limit: what the invariants need besides themselves.
Phases ==
  /\ pc # "free" => limit >= UdpMax
  /\ pc = "open" => kind \in {"cname", "service"} /\ ns = 0 /\ rcode = "set"
  /\ pc \in {"open", "done"} => ar = 0
  /\ pc = "sent" => (ar = 1 <=> edns)
  /\ kind = "bare" => ~edns /\ question = 0 /\ an = 0 /\ ns = 0
  /\ kind = "refused" => an = 0 /\ ns = 0
  /\ kind = "cname" => ns = 0 /\ an \in {0, 1} /\ (pc = "open" => an = 0)
  /\ ns = 1 => an = 0
  /\ kind # "bare" => question \in Questions
  /\ pc = "free" => kind = "bare"
  /\ pc \in {"done", "sent"} /\ kind = "service" /\ an = 0 /\ zone <= 62
       => ns = 1 /\ rcode = "set"

\* The counts in the header are those of the records written.
Counted ==
  pc # "free" =>
    len = HeaderLen + question
          + (IF kind = "cname" THEN (IF an = 1 THEN CnameSize(target) ELSE 0)
                               ELSE ASize * an)
          + (IF ns = 1 THEN SoaSize(zone) ELSE 0)
          + (IF ar = 1 THEN OptLen ELSE 0)

\* The inductive invariant.
ReplyIInv == ReplyTypeOK /\ WithinLimit /\ Counted /\ Phases

\* The constants as numbers.
LEMMA Sizes ==
  /\ HeaderLen = 12 /\ UdpMax = 512 /\ EdnsMax = 1232 /\ ReplyNameMax = 255
  /\ OptLen = 11 /\ ASize = 16 /\ NoEdns = -1 /\ SoaScratch = 788
BY DEF HeaderLen, UdpMax, EdnsMax, ReplyNameMax, OptLen, ASize, NoEdns, SoaScratch

\* The row of write_merged() has 75 places.
LEMMA RowLength == MaxAnswers = 75
BY DEF MaxAnswers, EdnsMax, HeaderLen

\* The ranges of the constants.
LEMMA Ranges ==
  /\ BufLen \in Nat /\ BufLen >= 512
  /\ \A q \in Questions : q \in Nat /\ 5 <= q /\ q <= 259
  /\ \A offer \in Offers : offer \in Int
  /\ \A z \in Zones : z \in Nat
  /\ \A t \in Targets : t \in Nat
<1>1. BufLen \in Nat /\ BufLen >= 512
  BY BufferAssumption DEF UdpMax
<1>2. /\ \A q \in Questions : q \in Nat /\ 5 <= q /\ q <= 259
      /\ \A z \in Zones : z \in Nat
      /\ \A t \in Targets : t \in Nat
  BY LengthsAssumption DEF ReplyNameMax
<1>3. \A offer \in Offers : offer \in Int
  BY OffersAssumption DEF NoEdns
<1> QED  BY <1>1, <1>2, <1>3

\* What a question accepts lies between 512 and 1232 bytes.
LEMMA Clamping ==
  ASSUME NEW offer \in Offers
  PROVE  /\ AtMost(Clamped(offer), BufLen) \in 512..1232
         /\ AtMost(Clamped(offer), BufLen) <= BufLen
<1>1. offer \in Int
  BY Ranges
<1>2. Clamped(offer) \in 512..1232
  BY <1>1 DEF Clamped, AtMost, UdpMax, EdnsMax
<1> QED  BY <1>2, Ranges DEF AtMost

\* The empty answer satisfies the invariant.
LEMMA InitIInv == ReplyInit => ReplyIInv
<1> SUFFICES ASSUME ReplyInit PROVE ReplyIInv
  OBVIOUS
<1>1. ReplyTypeOK
  <2>1. edns \in BOOLEAN
    BY DEF ReplyInit
  <2>2. limit \in 0..EdnsMax /\ len \in 0..EdnsMax
    BY DEF ReplyInit, EdnsMax
  <2> QED  BY <2>1, <2>2 DEF ReplyInit, ReplyTypeOK
<1>2. WithinLimit
  BY Ranges DEF ReplyInit, WithinLimit
<1>3. Counted /\ Phases
  BY DEF ReplyInit, Counted, Phases
<1> QED  BY <1>1, <1>2, <1>3 DEF ReplyIInv

\* So it does after a step that begins a new answer.
LEMMA InitAgain == ReplyInit' => ReplyIInv'
<1>1. ReplyInit => ReplyIInv
  BY InitIInv
<1> QED  BY <1>1, PTL

\* An answer that begins has room for its header, its question and the OPT record.
LEMMA StartStep ==
  ASSUME ReplyIInv,
         NEW k \in {"refused", "cname", "service"}, NEW q \in Questions,
         NEW offer \in Offers, NEW z \in Zones, NEW t \in Targets,
         Start(k, q, offer, z, t)
  PROVE  ReplyIInv'
<1> DEFINE room == AtMost(Clamped(offer), BufLen)
<1>1. room \in 512..1232 /\ room <= BufLen
  BY Clamping
<1>2. q \in Nat /\ q >= 5
  BY Ranges
<1>3. /\ limit' = room /\ len' = HeaderLen + q /\ question' = q /\ kind' = k
      /\ edns' = (offer # NoEdns) /\ an' = 0 /\ ns' = 0 /\ ar' = 0
      /\ rcode' = "set"
      /\ pc' = (IF k = "refused" THEN "done" ELSE "open")
      /\ HeaderLen + q + (IF offer = NoEdns THEN 0 ELSE OptLen) <= room
      /\ zone' \in Zones \cup {0} /\ target' \in Targets \cup {0}
  BY DEF Start
<1> HIDE DEF room
<1>4. ReplyTypeOK'
  BY <1>1, <1>2, <1>3, Sizes DEF ReplyTypeOK
<1>5. WithinLimit'
  BY ZenonT(40), <1>1, <1>2, <1>3, Sizes DEF WithinLimit, Reserve
<1>6. Counted'
  BY <1>2, <1>3, Sizes DEF Counted
<1>7. Phases'
  BY <1>1, <1>3, Sizes DEF Phases
<1> QED  BY <1>4, <1>5, <1>6, <1>7 DEF ReplyIInv

\* Every method of Reply keeps the invariant.
LEMMA NextIInv == ReplyIInv /\ [ReplyNext]_replyVars => ReplyIInv'
<1> SUFFICES ASSUME ReplyIInv, [ReplyNext]_replyVars PROVE ReplyIInv'
  OBVIOUS
<1>0. /\ question \in Nat /\ zone \in Nat /\ target \in Nat /\ an \in Nat
      /\ len \in Nat /\ limit \in Nat
      /\ (kind # "bare" => 5 <= question /\ question <= 259)
  BY Ranges DEF ReplyIInv, ReplyTypeOK, Phases
<1>1. CASE StartBare
  <2>1. limit' = 512 /\ len' = 12
    BY <1>1, Ranges, Sizes DEF StartBare, AtMost
  <2>2. ReplyTypeOK'
    <3>1. limit' \in 0..EdnsMax /\ len' \in 0..EdnsMax
      BY <2>1, Sizes
    <3> QED  BY <1>1, <3>1 DEF StartBare, ReplyTypeOK
  <2>3. WithinLimit'
    BY <1>1, <2>1, Ranges DEF StartBare, WithinLimit, Reserve
  <2>4. Counted' /\ Phases'
    BY <1>1, <2>1, Sizes DEF StartBare, Counted, Phases
  <2> QED  BY <2>2, <2>3, <2>4 DEF ReplyIInv
<1>2. ASSUME NEW k \in {"refused", "cname", "service"}, NEW q \in Questions,
             NEW offer \in Offers, NEW z \in Zones, NEW t \in Targets,
             Start(k, q, offer, z, t)
      PROVE  ReplyIInv'
  BY <1>2, StartStep
<1>3. CASE AnswerA
  <2>1. ReplyTypeOK' /\ WithinLimit'
    BY <1>0, <1>3, Sizes DEF AnswerA, HasRoom, Reserve, reply, ReplyIInv, ReplyTypeOK, WithinLimit
  <2>2. Counted'
    BY <1>0, <1>3, Sizes DEF AnswerA, reply, ReplyIInv, Counted, Phases
  <2>3. Phases'
    BY <1>0, <1>3 DEF AnswerA, reply, ReplyIInv, Phases
  <2> QED  BY <2>1, <2>2, <2>3 DEF ReplyIInv
<1>4. CASE AnswersEnd
  BY <1>0, <1>4
  DEF AnswersEnd, reply, ReplyIInv, ReplyTypeOK, WithinLimit, Counted, Phases, Reserve
<1>5. CASE AnswerCname
  <2>1. CASE HasRoom(CnameSize(target))
    <3>1. ReplyTypeOK' /\ WithinLimit'
      BY <1>0, <1>5, <2>1, Sizes
      DEF AnswerCname, HasRoom, CnameSize, Reserve, reply, ReplyIInv, ReplyTypeOK, WithinLimit
    <3>2. Counted'
      BY <1>0, <1>5, <2>1, Sizes DEF AnswerCname, CnameSize, reply, ReplyIInv, Counted, Phases
    <3>3. Phases'
      BY <1>0, <1>5, <2>1 DEF AnswerCname, reply, ReplyIInv, Phases
    <3> QED  BY <3>1, <3>2, <3>3 DEF ReplyIInv
  <2>2. CASE ~HasRoom(CnameSize(target))
    BY <1>0, <1>5, <2>2
    DEF AnswerCname, reply, ReplyIInv, ReplyTypeOK, WithinLimit, Counted, Phases, Reserve
  <2> QED  BY <2>1, <2>2
<1>6. CASE AuthoritySoa
  <2>1. CASE SoaSize(zone) <= SoaScratch /\ HasRoom(SoaSize(zone))
    <3>1. ReplyTypeOK' /\ WithinLimit'
      BY <1>0, <1>6, <2>1, Sizes
      DEF AuthoritySoa, HasRoom, SoaSize, Reserve, reply, ReplyIInv, ReplyTypeOK, WithinLimit
    <3>2. Counted'
      BY <1>0, <1>6, <2>1, Sizes DEF AuthoritySoa, SoaSize, reply, ReplyIInv, Counted, Phases
    <3>3. Phases'
      BY <1>0, <1>6, <2>1 DEF AuthoritySoa, reply, ReplyIInv, Phases
    <3> QED  BY <3>1, <3>2, <3>3 DEF ReplyIInv
  <2>2. CASE ~(SoaSize(zone) <= SoaScratch /\ HasRoom(SoaSize(zone)))
    <3>1. zone > 62
      <4>1. len = HeaderLen + question
        BY <1>0, <1>6, Sizes DEF AuthoritySoa, ReplyIInv, Counted, Phases
      <4>2. limit >= 512
        BY <1>6, Sizes DEF AuthoritySoa, ReplyIInv, Phases
      <4>3. question <= 259
        BY <1>0, <1>6 DEF AuthoritySoa
      <4> QED
        BY <1>0, <2>2, <4>1, <4>2, <4>3, Sizes DEF HasRoom, SoaSize, Reserve
    <3> QED
      BY <1>0, <1>6, <2>2, <3>1
      DEF AuthoritySoa, reply, ReplyIInv, ReplyTypeOK, WithinLimit, Counted, Phases, Reserve
  <2> QED  BY <2>1, <2>2
<1>7. CASE Finish
  <2>1. edns => len + OptLen <= limit /\ limit <= BufLen
    BY <1>7, Sizes DEF Finish, ReplyIInv, WithinLimit, Reserve
  <2>2. len' = (IF edns THEN len + OptLen ELSE len) /\ ar' = (IF edns THEN 1 ELSE 0)
    BY <1>0, <1>7, <2>1, Ranges, Sizes DEF Finish, ReplyIInv, Phases
  <2>3. ReplyTypeOK' /\ WithinLimit'
    BY <1>0, <1>7, <2>1, <2>2, Sizes DEF Finish, reply, ReplyIInv, ReplyTypeOK, WithinLimit, Reserve
  <2>4. Counted'
    <3> DEFINE written ==
          HeaderLen + question
          + (IF kind = "cname" THEN (IF an = 1 THEN CnameSize(target) ELSE 0)
                               ELSE ASize * an)
          + (IF ns = 1 THEN SoaSize(zone) ELSE 0)
    <3>1. written \in Int
      BY <1>0, Sizes DEF CnameSize, SoaSize
    <3>2. ar = 0 /\ pc = "done"
      BY <1>7 DEF Finish, ReplyIInv, Phases
    <3>3. len = written + 0
      BY <3>2 DEF ReplyIInv, Counted
    <3>4. written' = written
      BY <1>7 DEF Finish, reply
    <3> HIDE DEF written
    <3>5. len' = written' + (IF ar' = 1 THEN OptLen ELSE 0)
      BY <1>0, <2>2, <3>1, <3>3, <3>4, Sizes
    <3> QED  BY <3>5 DEF Counted, written
  <2>5. Phases'
    BY <1>7, <2>2 DEF Finish, reply, ReplyIInv, Phases
  <2> QED  BY <2>3, <2>4, <2>5 DEF ReplyIInv
<1>8. CASE Again
  <2>1. ReplyInit'
    BY <1>8 DEF Again, ReplyInit
  <2> QED  BY <2>1, InitAgain
<1>9. CASE UNCHANGED replyVars
  BY <1>9 DEF replyVars, reply, ReplyIInv, ReplyTypeOK, WithinLimit, Counted, Phases, Reserve
<1> QED
  BY <1>1, <1>2, <1>3, <1>4, <1>5, <1>6, <1>7, <1>8, <1>9 DEF ReplyNext

\* The inductive invariant holds in every reachable state.
THEOREM Invariant == ReplySpec => []ReplyIInv
BY InitIInv, NextIInv, PTL DEF ReplySpec

\* The message keeps within what the asker accepts and within the buffer.
THEOREM LimitTheorem == ReplySpec => [](ReplyTypeOK /\ WithinLimit)
<1>1. ReplyIInv => ReplyTypeOK /\ WithinLimit
  BY DEF ReplyIInv
<1> QED  BY <1>1, Invariant, PTL

\* The counts in the header are those of the records written.
THEOREM CountTheorem == ReplySpec => []Counted
<1>1. ReplyIInv => Counted
  BY DEF ReplyIInv
<1> QED  BY <1>1, Invariant, PTL

\* A question with EDNS is answered with EDNS.
THEOREM EdnsTheorem == ReplySpec => []EdnsAnswered
<1>1. ReplyIInv => EdnsAnswered
  BY DEF ReplyIInv, Phases, EdnsAnswered
<1> QED  BY <1>1, Invariant, PTL

\* No answer holds more records than write_merged() can remember.
THEOREM RowTheorem == ReplySpec => []RowSuffices
<1>1. ReplyIInv => RowSuffices
  <2> SUFFICES ASSUME ReplyIInv PROVE an <= 75
    BY RowLength DEF RowSuffices
  <2>1. an \in Nat /\ zone \in Nat /\ len \in Nat /\ len <= 1232
    BY Ranges, Sizes DEF ReplyIInv, ReplyTypeOK
  <2>2. CASE kind # "service" \/ pc = "free"
    BY <2>1, <2>2 DEF ReplyIInv, ReplyTypeOK, Phases
  <2>3. CASE kind = "service" /\ pc # "free"
    <3>1. question >= 5 /\ question \in Nat
      BY <2>3, Ranges DEF ReplyIInv, Phases
    <3>2. len >= 12 + question + 16 * an
      BY <2>1, <2>3, <3>1, Sizes DEF ReplyIInv, Counted, SoaSize, ReplyTypeOK
    <3> QED  BY <2>1, <3>1, <3>2
  <2> QED  BY <2>2, <2>3
<1> QED  BY <1>1, Invariant, PTL

\* A negative answer carries its SOA, as long as the zone's name takes at
\* most 62 bytes: for every question, with or without EDNS.
THEOREM SoaTheorem == ReplySpec => []ShortZoneHasSoa
<1>1. ReplyIInv => ShortZoneHasSoa
  BY DEF ReplyIInv, Phases, ShortZoneHasSoa
<1> QED  BY <1>1, Invariant, PTL

-----------------------------------------------------------------------------
(* The readers of a name                                                   *)

\* The length of a label's text is a number.
LEMMA TextLenIsNat ==
  ASSUME NEW m, NEW p \in Int, NEW n \in Nat
  PROVE  TextLen(m, p, n) \in Nat
<1> DEFINE Wide == {i \in p..p + n - 1 : Byte(m, i) >= 128}
<1>1. IsFiniteSet(p..p + n - 1)
  BY FS_Interval
<1>2. IsFiniteSet(Wide)
  BY <1>1, FS_Subset
<1>3. Cardinality(Wide) \in Nat
  BY <1>2, FS_CardinalityType
<1> QED
  BY <1>3 DEF TextLen

\* The target of a pointer is a number.
LEMMA TargetIsNat ==
  ASSUME NEW high \in 0..255, NEW low \in 0..255
  PROVE  (high % 64) * 256 + low \in Nat
<1>1. high % 64 \in 0..63
  OBVIOUS
<1> QED
  BY <1>1

\* The bytes of a message, and what a label and a pointer make of a position.
LEMMA Bytes ==
  ASSUME TypeOK
  PROVE  /\ msg \in Seq(0..255) /\ Len(msg) \in Nat /\ pos \in Nat
         /\ Holds(msg, pos, 1) => Here \in 0..255 /\ pos + 1 \in 0..Len(msg)
         /\ AtLabel => pos + 1 + Here \in 0..Len(msg) /\ Here \in 1..LabelMax
         /\ AtPointer => Target(msg, pos) \in Nat /\ pos + 2 \in 0..Len(msg)
<1>1. msg \in Seq(0..255) /\ Len(msg) \in Nat /\ pos \in 0..Len(msg)
  BY MessagesAssumption DEF TypeOK
<1>2. \A i \in 1..Len(msg) : msg[i] \in 0..255
  BY <1>1, ElementOfSeq
<1>3. Holds(msg, pos, 1) => Here \in 0..255 /\ pos + 1 \in 0..Len(msg)
  BY <1>1, <1>2 DEF Holds, Here, Byte
<1>4. AtLabel => pos + 1 + Here \in 0..Len(msg) /\ Here \in 1..LabelMax
  BY <1>1, <1>3 DEF AtLabel, Holds, IsLabel, LabelMax
<1>5. ASSUME AtPointer
      PROVE  Target(msg, pos) \in Nat /\ pos + 2 \in 0..Len(msg)
  <2>1. pos + 2 \in 0..Len(msg)
    BY <1>1, <1>5 DEF AtPointer, Holds
  <2>2. msg[pos + 1] \in 0..255 /\ msg[pos + 1 + 1] \in 0..255
    BY <1>1, <1>2, <2>1
  <2>3. Target(msg, pos) \in Nat
    BY <2>2, TargetIsNat DEF Target, Byte
  <2> QED
    BY <2>1, <2>3
<1> QED
  BY <1>1, <1>3, <1>4, <1>5

\* A label that is read makes the text longer.
LEMMA LongerIsNat ==
  ASSUME TypeOK, result = "reading", AtLabel
  PROVE  length \in 0..NameMax /\ Longer \in Nat /\ Longer > length
<1>1. length \in 0..NameMax
  BY DEF TypeOK
<1>2. Here \in 1..63 /\ pos \in Nat
  BY Bytes DEF AtLabel, LabelMax
<1>3. TextLen(msg, pos + 1, Here) \in Nat
  <2>1. Here \in Nat /\ pos + 1 \in Int
    BY <1>2
  <2> QED
    BY <2>1, TextLenIsNat
<1> QED
  BY <1>1, <1>3, NameMaxAssumption DEF Longer

\* The reader never looks outside the message (read_name's get() and be16()
\* refuse where the model's guards do), and its text never outgrows NameMax.
THEOREM Inside == Spec => []TypeOK
<1>1. Init => TypeOK
  <2> SUFFICES ASSUME Init PROVE TypeOK
    OBVIOUS
  <2>1. msg \in Seq(0..255)
    BY MessagesAssumption DEF Init
  <2> QED
    BY <2>1, NameMaxAssumption DEF Init, TypeOK
<1>2. TypeOK /\ [Next]_vars => TypeOK'
  <2> SUFFICES ASSUME TypeOK, [Next]_vars PROVE TypeOK'
    OBVIOUS
  <2> USE DEF TypeOK
  <2>1. CASE Root
    <3>1. pos + 1 \in 0..Len(msg)
      BY <2>1, Bytes DEF Root, AtRoot
    <3> QED
      BY <2>1, <3>1 DEF Root, Reading
  <2>2. CASE Label
    <3>1. Longer \in Nat /\ Longer <= NameMax
      BY <2>2, LongerIsNat DEF Label, Reading, Fits
    <3>2. pos + 1 + Here \in 0..Len(msg)
      BY <2>2, Bytes DEF Label
    <3> QED
      BY <2>2, <3>1, <3>2, NameMaxAssumption DEF Label, Reading
  <2>3. CASE Pointer
    <3>1. Target(msg, pos) \in Nat /\ Target(msg, pos) < pos /\ pos + 2 \in 0..Len(msg)
      BY <2>3, Bytes DEF Pointer, PointsBack
    <3>2. Target(msg, pos) \in 0..Len(msg)
      BY <3>1, Bytes
    <3> QED
      BY <2>3, <3>1, <3>2 DEF Pointer, Reading
  <2>4. CASE Malformed
    BY <2>4 DEF Malformed, Reading
  <2>5. CASE NoMemory
    BY <2>5 DEF NoMemory, Reading
  <2>6. CASE UNCHANGED vars
    BY <2>6 DEF vars
  <2> QED
    BY <2>1, <2>2, <2>3, <2>4, <2>5, <2>6 DEF Next
<1> QED
  BY <1>1, <1>2, PTL DEF Spec

\* Each turn that goes on makes the text longer or goes back in the message:
\* with Inside, the reason why the decoder ends on every input.
THEOREM Descending == Spec => Descends
<1>1. TypeOK /\ [Next]_vars
        => [result' = "reading" => length' > length \/ (length' = length /\ pos' < pos)]_vars
  <2> SUFFICES ASSUME TypeOK, Next, result' = "reading"
               PROVE  length' > length \/ (length' = length /\ pos' < pos)
    OBVIOUS
  <2>1. CASE Label
    BY <2>1, LongerIsNat DEF Label, Reading
  <2>2. CASE Pointer
    BY <2>2 DEF Pointer, PointsBack
  <2>3. CASE Root \/ Malformed \/ NoMemory
    BY <2>3 DEF Root, Malformed, NoMemory
  <2> QED
    BY <2>1, <2>2, <2>3 DEF Next
<1> QED
  BY <1>1, Inside, PTL DEF Spec, Descends
-----------------------------------------------------------------------------
(* What the recursive readers compute: each is some function that obeys    *)
(* its equation, so what is to be shown is that there is one.              *)

\* Induction over an interval, said of a set.
LEMMA Induct ==
  ASSUME NEW n \in Nat, NEW S, 0 \in S, \A i \in 1..n : i - 1 \in S => i \in S
  PROVE  0..n \subseteq S
<1> DEFINE T == {i \in 0..n : i \notin S}
<1>1. SUFFICES ASSUME T # {} PROVE FALSE
  OBVIOUS
<1>2. T \subseteq Nat /\ T # {}
  BY <1>1
<1>3. PICK m \in T : \A k \in T : ~(<<k, m>> \in OpToRel(<, Nat))
  BY <1>2, WFMin, NatLessThanWellFounded
<1>4. \A k \in T : ~(k < m)
  BY <1>2, <1>3 DEF OpToRel
<1>5. m \in 1..n /\ m - 1 \notin T
  BY <1>4
<1> QED
  BY <1>5

\* A value per place, taken from another place where that one lies further.
Follows(D, rank, next, base, h) ==
  h = [d \in D |-> IF rank[d] < rank[next[d]] THEN h[next[d]] ELSE base[d]]

\* Such values exist where no place lies further than n: it is so from the
\* last places on, one rank at a time.
LEMMA FollowsExists ==
  ASSUME NEW D, NEW n \in Nat, NEW rank, NEW next, NEW base,
         \A d \in D : rank[d] \in 0..n /\ next[d] \in D
  PROVE  \E h : Follows(D, rank, next, base, h)
<1> DEFINE Last(k) == {d \in D : rank[d] >= n - k}
           S == {k \in 0..n : \E h : Follows(Last(k), rank, next, base, h)}
<1>1. 0 \in S
  <2>1. Follows(Last(0), rank, next, base, [d \in Last(0) |-> base[d]])
    BY DEF Follows
  <2> QED
    BY <2>1
<1>2. ASSUME NEW k \in 1..n, k - 1 \in S
      PROVE  k \in S
  <2>1. PICK h : Follows(Last(k - 1), rank, next, base, h)
    BY <1>2
  <2> DEFINE g == [d \in Last(k) |->
                    IF d \in Last(k - 1) THEN h[d]
                    ELSE IF rank[d] < rank[next[d]] THEN h[next[d]] ELSE base[d]]
  <2>2. \A d \in Last(k - 1) :
          h[d] = IF rank[d] < rank[next[d]] THEN h[next[d]] ELSE base[d]
    BY <2>1 DEF Follows
  <2>3. \A d \in Last(k) : rank[d] < rank[next[d]] => next[d] \in Last(k - 1)
    OBVIOUS
  <2>4. Last(k - 1) \subseteq Last(k)
    OBVIOUS
  <2> HIDE DEF Last
  <2>5. \A d \in Last(k) :
          g[d] = IF rank[d] < rank[next[d]] THEN g[next[d]] ELSE base[d]
    BY <2>2, <2>3, <2>4
  <2>6. Follows(Last(k), rank, next, base, g)
    BY <2>5 DEF Follows
  <2> QED
    BY <2>6
<1>3. 0..n \subseteq S
  <2> HIDE DEF S
  <2> QED
    BY <1>1, <1>2, Induct
<1>4. D = Last(n)
  OBVIOUS
<1>5. PICK h : Follows(Last(n), rank, next, base, h)
  <2>1. n \in 0..n
    OBVIOUS
  <2> HIDE DEF Last
  <2> QED
    BY <1>3, <2>1
<1> QED
  BY <1>4, <1>5

\* A label, all of it in the message.
Whole(m, p) == Holds(m, p, 1) /\ IsLabel(Byte(m, p)) /\ Holds(m, p, 1 + Byte(m, p))

\* A byte of a message, and where a label of it ends.
LEMMA BytesOf ==
  ASSUME NEW m \in Seq(0..255)
  PROVE  /\ Len(m) \in Nat
         /\ \A p \in 0..Len(m) :
              /\ Holds(m, p, 1) => p + 1 \in 0..Len(m) /\ Byte(m, p) \in 0..255
              /\ Whole(m, p) => /\ Byte(m, p) \in 1..63 /\ Byte(m, p) # 0
                                /\ p + 1 + Byte(m, p) \in 0..Len(m)
<1>1. Len(m) \in Nat /\ \A i \in 1..Len(m) : m[i] \in 0..255
  BY ElementOfSeq
<1>2. ASSUME NEW p \in 0..Len(m), Holds(m, p, 1)
      PROVE  p + 1 \in 1..Len(m) /\ Byte(m, p) \in 0..255
  <2>1. p + 1 \in 1..Len(m)
    BY <1>1, <1>2 DEF Holds
  <2>2. m[p + 1] \in 0..255
    BY <1>1, <2>1
  <2> QED
    BY <2>1, <2>2 DEF Byte
<1>3. ASSUME NEW p \in 0..Len(m), Whole(m, p)
      PROVE  Byte(m, p) \in 1..63 /\ Byte(m, p) # 0 /\ p + 1 + Byte(m, p) \in 0..Len(m)
  <2> DEFINE b == Byte(m, p)
  <2>1. b \in 1..63 /\ p + (1 + b) <= Len(m)
    BY <1>3 DEF Whole, Holds, IsLabel, LabelMax
  <2> HIDE DEF b
  <2>2. p + 1 + b \in 0..Len(m) /\ b # 0
    BY <1>1, <2>1
  <2> QED
    BY <2>1, <2>2 DEF b
<1> QED
  BY <1>1, <1>2, <1>3

\* Values per position that are taken from behind a label where one stands.
LEMMA WalkExists ==
  ASSUME NEW m \in Seq(0..255), NEW base
  PROVE  \E h : h = [p \in 0..Len(m) |->
                      IF Whole(m, p) THEN h[p + 1 + Byte(m, p)] ELSE base[p]]
<1> DEFINE D == 0..Len(m)
           rank == [p \in D |-> p]
           next == [p \in D |-> IF Whole(m, p) THEN p + 1 + Byte(m, p) ELSE p]
<1>1. Len(m) \in Nat /\ \A p \in D : rank[p] \in 0..Len(m) /\ next[p] \in D
  BY BytesOf
<1>2. \A p \in D :
        /\ rank[p] < rank[next[p]] <=> Whole(m, p)
        /\ Whole(m, p) => next[p] = p + 1 + Byte(m, p)
  <2> TAKE p \in D
  <2>1. CASE Whole(m, p)
    <3>1. next[p] = p + 1 + Byte(m, p) /\ rank[p] = p
      BY <2>1
    <3>2. Byte(m, p) \in 1..63 /\ next[p] \in D
      BY <2>1, <3>1, BytesOf
    <3>3. rank[next[p]] = next[p]
      BY <3>2
    <3>4. p \in Nat
      BY BytesOf
    <3> DEFINE b == Byte(m, p)
    <3>5. b \in 1..63
      BY <3>2
    <3> HIDE DEF D, next, rank, b
    <3>6. p + 1 + b > p
      BY <3>4, <3>5
    <3>7. rank[p] < rank[next[p]]
      BY <3>1, <3>3, <3>4, <3>6 DEF b
    <3> QED
      BY <2>1, <3>1, <3>7
  <2>2. CASE ~Whole(m, p)
    <3>1. next[p] = p /\ rank[p] = p /\ p \in Nat
      BY <2>2, BytesOf
    <3> HIDE DEF D, next, rank
    <3> QED
      BY <2>2, <3>1
  <2> QED
    BY <2>1, <2>2
<1> HIDE DEF rank, next
<1>3. PICK h : Follows(D, rank, next, base, h)
  <2> HIDE DEF D
  <2> QED
    BY <1>1, FollowsExists
<1>4. h = [p \in D |-> IF rank[p] < rank[next[p]] THEN h[next[p]] ELSE base[p]]
  BY <1>3 DEF Follows
<1>5. \A p \in D : h[p] = IF Whole(m, p) THEN h[p + 1 + Byte(m, p)] ELSE base[p]
  BY <1>2, <1>4
<1> QED
  BY <1>4, <1>5

\* skip_name, as a function of where it starts.
Skips(m, h) ==
  h = [p \in 0..Len(m) |->
        IF ~Holds(m, p, 1) THEN None
        ELSE IF Byte(m, p) = 0 THEN p + 1
        ELSE IF IsLabel(Byte(m, p)) /\ Holds(m, p, 1 + Byte(m, p)) THEN h[p + 1 + Byte(m, p)]
        ELSE IF IsPointer(Byte(m, p)) /\ Holds(m, p, 2) THEN p + 2
        ELSE None]

\* skip_name, one label at a time.
LEMMA SkipNameIs ==
  ASSUME NEW m \in Seq(0..255), NEW p \in 0..Len(m)
  PROVE  SkipName(m, p) =
           IF ~Holds(m, p, 1) THEN None
           ELSE IF Byte(m, p) = 0 THEN p + 1
           ELSE IF Whole(m, p) THEN SkipName(m, p + 1 + Byte(m, p))
           ELSE IF IsPointer(Byte(m, p)) /\ Holds(m, p, 2) THEN p + 2
           ELSE None
<1> DEFINE h == CHOOSE g : Skips(m, g)
<1>1. \A q : SkipName(m, q) = h[q]
  BY Zenon DEF SkipName, Skips
<1>2. Skips(m, h)
  <2> DEFINE base == [q \in 0..Len(m) |->
                       IF ~Holds(m, q, 1) THEN None
                       ELSE IF Byte(m, q) = 0 THEN q + 1
                       ELSE IF IsPointer(Byte(m, q)) /\ Holds(m, q, 2) THEN q + 2
                       ELSE None]
  <2>1. PICK g : g = [q \in 0..Len(m) |->
                       IF Whole(m, q) THEN g[q + 1 + Byte(m, q)] ELSE base[q]]
    <3> HIDE DEF base
    <3> QED
      BY WalkExists
  <2>2. \A q \in 0..Len(m) : Whole(m, q) => Byte(m, q) # 0
    BY BytesOf
  <2>3. Skips(m, g)
    BY <2>1, <2>2 DEF Skips, Whole
  <2> QED
    BY <2>3
<1> HIDE DEF h
<1>3. h[p] = IF ~Holds(m, p, 1) THEN None
             ELSE IF Byte(m, p) = 0 THEN p + 1
             ELSE IF IsLabel(Byte(m, p)) /\ Holds(m, p, 1 + Byte(m, p)) THEN h[p + 1 + Byte(m, p)]
             ELSE IF IsPointer(Byte(m, p)) /\ Holds(m, p, 2) THEN p + 2
             ELSE None
  BY <1>2 DEF Skips
<1> QED
  BY <1>1, <1>3 DEF Whole

\* skip_plain_name, as a function of where it is, for a name from start on.
Plains(m, start, h) ==
  h = [p \in 0..Len(m) |->
        IF ~Holds(m, p, 1) THEN None
        ELSE IF Byte(m, p) = 0 THEN (IF p + 1 - start <= NameMax THEN p + 1 ELSE None)
        ELSE IF IsLabel(Byte(m, p)) /\ Holds(m, p, 1 + Byte(m, p)) THEN h[p + 1 + Byte(m, p)]
        ELSE None]

PlainFrom(m, start, p) == (CHOOSE h : Plains(m, start, h))[p]

\* A turn of its loop.
PlainTurn(m, start, p) ==
  IF ~Holds(m, p, 1) THEN None
  ELSE IF Byte(m, p) = 0 THEN (IF p + 1 - start <= NameMax THEN p + 1 ELSE None)
  ELSE IF Whole(m, p) THEN PlainFrom(m, start, p + 1 + Byte(m, p))
  ELSE None

\* skip_plain_name, one label at a time.
LEMMA PlainIs ==
  ASSUME NEW m \in Seq(0..255), NEW start
  PROVE  /\ SkipPlainName(m, start) = PlainFrom(m, start, start)
         /\ \A p \in 0..Len(m) : PlainFrom(m, start, p) = PlainTurn(m, start, p)
<1> DEFINE h == CHOOSE g : Plains(m, start, g)
<1>1. SkipPlainName(m, start) = h[start] /\ \A q : PlainFrom(m, start, q) = h[q]
  BY Zenon DEF SkipPlainName, PlainFrom, Plains
<1>2. Plains(m, start, h)
  <2> DEFINE base == [q \in 0..Len(m) |->
                       IF ~Holds(m, q, 1) THEN None
                       ELSE IF Byte(m, q) = 0 THEN (IF q + 1 - start <= NameMax THEN q + 1 ELSE None)
                       ELSE None]
  <2>1. PICK g : g = [q \in 0..Len(m) |->
                       IF Whole(m, q) THEN g[q + 1 + Byte(m, q)] ELSE base[q]]
    <3> HIDE DEF base
    <3> QED
      BY WalkExists
  <2>2. \A q \in 0..Len(m) : Whole(m, q) => Byte(m, q) # 0
    BY BytesOf
  <2>3. Plains(m, start, g)
    BY <2>1, <2>2 DEF Plains, Whole
  <2> QED
    BY <2>3
<1> HIDE DEF h
<1>3. \A p \in 0..Len(m) :
        h[p] = IF ~Holds(m, p, 1) THEN None
               ELSE IF Byte(m, p) = 0 THEN (IF p + 1 - start <= NameMax THEN p + 1 ELSE None)
               ELSE IF IsLabel(Byte(m, p)) /\ Holds(m, p, 1 + Byte(m, p)) THEN h[p + 1 + Byte(m, p)]
               ELSE None
  BY <1>2 DEF Plains
<1> QED
  BY <1>1, <1>3 DEF Whole, PlainTurn

\* name_text, as a function of where it is and of how much text it has.
Texts(m, h) ==
  h = [p \in 0..Len(m) |->
        [n \in 0..NameMax |->
           LET size == Byte(m, p)
               more == n + size + (IF n > 0 THEN 1 ELSE 0)
           IN  IF ~Holds(m, p, 1) THEN Cut
               ELSE IF size = 0 THEN n
               ELSE IF ~Holds(m, p, 1 + size) THEN Cut
               ELSE IF \E i \in p + 1..p + size : ~IsHost(Byte(m, i)) THEN NoHost
               ELSE IF more > NameMax THEN Full
               ELSE h[p + 1 + size][more]]]

TextFrom(m, p, n) == (CHOOSE h : Texts(m, h))[p][n]

\* The text behind one more label, and whether name_text goes on with it.
More(m, p, n) == n + Byte(m, p) + (IF n > 0 THEN 1 ELSE 0)
IsText(m, p)  == \A i \in p + 1..p + Byte(m, p) : IsHost(Byte(m, i))

GoesOn(m, p, n) ==
  /\ Holds(m, p, 1) /\ Byte(m, p) # 0 /\ Holds(m, p, 1 + Byte(m, p))
  /\ IsText(m, p) /\ More(m, p, n) <= NameMax

Stops(m, p, n) ==
  IF ~Holds(m, p, 1) THEN Cut
  ELSE IF Byte(m, p) = 0 THEN n
  ELSE IF ~Holds(m, p, 1 + Byte(m, p)) THEN Cut
  ELSE IF ~IsText(m, p) THEN NoHost
  ELSE Full

\* Where name_text goes on, it is further in the message, in its buffer.
LEMMA GoesOnTo ==
  ASSUME NEW m \in Seq(0..255), NEW p \in 0..Len(m), NEW n \in 0..NameMax, GoesOn(m, p, n)
  PROVE  /\ p + 1 + Byte(m, p) \in 0..Len(m) /\ p < p + 1 + Byte(m, p)
         /\ More(m, p, n) \in 0..NameMax
<1> DEFINE b == Byte(m, p)
<1>1. b \in 1..255
  <2>1. b \in 0..255 /\ b # 0
    BY BytesOf DEF GoesOn
  <2> HIDE DEF b
  <2> QED
    BY <2>1
<1>2. p + (1 + b) <= Len(m) /\ Len(m) \in Nat /\ More(m, p, n) <= NameMax
  BY BytesOf DEF GoesOn, Holds
<1>3. More(m, p, n) = n + b + (IF n > 0 THEN 1 ELSE 0)
  BY DEF More
<1> HIDE DEF b
<1>4. p + 1 + b \in 0..Len(m) /\ p < p + 1 + b
  BY <1>1, <1>2
<1>5. More(m, p, n) \in 0..NameMax
  BY <1>1, <1>2, <1>3, NameMaxAssumption
<1> QED
  BY <1>4, <1>5 DEF b

\* What name_text makes of a position: the body of its loop.
Body(m, h, p, n) ==
  LET size == Byte(m, p)
      more == n + size + (IF n > 0 THEN 1 ELSE 0)
  IN  IF ~Holds(m, p, 1) THEN Cut
      ELSE IF size = 0 THEN n
      ELSE IF ~Holds(m, p, 1 + size) THEN Cut
      ELSE IF \E i \in p + 1..p + size : ~IsHost(Byte(m, i)) THEN NoHost
      ELSE IF more > NameMax THEN Full
      ELSE h[p + 1 + size][more]

\* A turn of that loop goes on or stops.
LEMMA BodyIs ==
  ASSUME NEW m \in Seq(0..255)
  PROVE  \A h : \A p \in 0..Len(m), n \in 0..NameMax :
           Body(m, h, p, n) = IF GoesOn(m, p, n) THEN h[p + 1 + Byte(m, p)][More(m, p, n)]
                              ELSE Stops(m, p, n)
<1> SUFFICES ASSUME NEW h, NEW p \in 0..Len(m), NEW n \in 0..NameMax
             PROVE  Body(m, h, p, n) =
                      IF GoesOn(m, p, n) THEN h[p + 1 + Byte(m, p)][More(m, p, n)]
                      ELSE Stops(m, p, n)
  OBVIOUS
<1> DEFINE b == Byte(m, p)
           more == n + b + (IF n > 0 THEN 1 ELSE 0)
           odd == \E i \in p + 1..p + b : ~IsHost(Byte(m, i))
<1>1. IsText(m, p) <=> ~odd
  BY DEF IsText
<1>2. More(m, p, n) = more
  BY DEF More
<1>3. Holds(m, p, 1) => (more <= NameMax <=> ~(more > NameMax))
  <2> SUFFICES ASSUME Holds(m, p, 1) PROVE more <= NameMax <=> ~(more > NameMax)
    OBVIOUS
  <2>1. b \in 0..255
    BY BytesOf
  <2> HIDE DEF b
  <2> QED
    BY <2>1, NameMaxAssumption
<1>4. Body(m, h, p, n) =
        IF ~Holds(m, p, 1) THEN Cut
        ELSE IF b = 0 THEN n
        ELSE IF ~Holds(m, p, 1 + b) THEN Cut
        ELSE IF odd THEN NoHost
        ELSE IF more > NameMax THEN Full
        ELSE h[p + 1 + b][more]
  BY DEF Body
<1>5. GoesOn(m, p, n) <=> Holds(m, p, 1) /\ b # 0 /\ Holds(m, p, 1 + b) /\ ~odd /\ more <= NameMax
  BY <1>1, <1>2 DEF GoesOn
<1>6. Stops(m, p, n) = IF ~Holds(m, p, 1) THEN Cut
                       ELSE IF b = 0 THEN n
                       ELSE IF ~Holds(m, p, 1 + b) THEN Cut
                       ELSE IF odd THEN NoHost
                       ELSE Full
  BY <1>1 DEF Stops
<1> HIDE DEF odd, more
<1> QED
  BY <1>2, <1>3, <1>4, <1>5, <1>6

\* There is a function name_text computes: it only ever goes further.
LEMMA TextsExists ==
  ASSUME NEW m \in Seq(0..255)
  PROVE  \E h : Texts(m, h)
<1> DEFINE D == (0..Len(m)) \X (0..NameMax)
           rank == [d \in D |-> d[1]]
           next == [d \in D |-> IF GoesOn(m, d[1], d[2])
                                THEN <<d[1] + 1 + Byte(m, d[1]), More(m, d[1], d[2])>> ELSE d]
           base == [d \in D |-> Stops(m, d[1], d[2])]
<1>1. ASSUME NEW p \in 0..Len(m), NEW n \in 0..NameMax
      PROVE  /\ <<p, n>> \in D /\ rank[<<p, n>>] = p /\ base[<<p, n>>] = Stops(m, p, n)
             /\ next[<<p, n>>] = IF GoesOn(m, p, n)
                                 THEN <<p + 1 + Byte(m, p), More(m, p, n)>> ELSE <<p, n>>
  OBVIOUS
<1>2. \A d \in D : d[1] \in 0..Len(m) /\ d[2] \in 0..NameMax /\ d = <<d[1], d[2]>>
  OBVIOUS
<1> HIDE DEF D, rank, next, base
<1>3. ASSUME NEW p \in 0..Len(m), NEW n \in 0..NameMax
      PROVE  /\ rank[<<p, n>>] \in 0..Len(m) /\ next[<<p, n>>] \in D
             /\ rank[<<p, n>>] < rank[next[<<p, n>>]] <=> GoesOn(m, p, n)
  <2>1. CASE GoesOn(m, p, n)
    <3>1. /\ p + 1 + Byte(m, p) \in 0..Len(m) /\ p < p + 1 + Byte(m, p)
          /\ More(m, p, n) \in 0..NameMax
      BY <2>1, GoesOnTo
    <3>2. next[<<p, n>>] \in D /\ rank[next[<<p, n>>]] = p + 1 + Byte(m, p)
      BY <1>1, <2>1, <3>1
    <3> QED
      BY <1>1, <2>1, <3>1, <3>2
  <2>2. CASE ~GoesOn(m, p, n)
    <3>1. next[<<p, n>>] = <<p, n>> /\ rank[<<p, n>>] = p
      BY <1>1, <2>2
    <3>2. ~(p < p)
      BY BytesOf
    <3> QED
      BY <1>1, <2>2, <3>1, <3>2
  <2> QED
    BY <2>1, <2>2
<1>4. PICK g : Follows(D, rank, next, base, g)
  <2>1. Len(m) \in Nat /\ \A d \in D : rank[d] \in 0..Len(m) /\ next[d] \in D
    BY <1>2, <1>3, BytesOf
  <2> QED
    BY <2>1, FollowsExists
<1>5. ASSUME NEW p \in 0..Len(m), NEW n \in 0..NameMax
      PROVE  g[<<p, n>>] = IF GoesOn(m, p, n) THEN g[<<p + 1 + Byte(m, p), More(m, p, n)>>]
                           ELSE Stops(m, p, n)
  <2>1. g[<<p, n>>] = IF rank[<<p, n>>] < rank[next[<<p, n>>]] THEN g[next[<<p, n>>]]
                      ELSE base[<<p, n>>]
    BY <1>1, <1>4 DEF Follows
  <2> QED
    BY <1>1, <1>3, <2>1
<1> DEFINE h == [p \in 0..Len(m) |-> [n \in 0..NameMax |-> g[<<p, n>>]]]
<1>6. ASSUME NEW p \in 0..Len(m), NEW n \in 0..NameMax
      PROVE  h[p][n] = IF GoesOn(m, p, n) THEN h[p + 1 + Byte(m, p)][More(m, p, n)]
                       ELSE Stops(m, p, n)
  <2>1. CASE GoesOn(m, p, n)
    BY <1>5, <2>1, GoesOnTo
  <2>2. CASE ~GoesOn(m, p, n)
    BY <1>5, <2>2
  <2> QED
    BY <2>1, <2>2
<1>7. h = [p \in 0..Len(m) |-> [n \in 0..NameMax |-> h[p][n]]]
  OBVIOUS
<1> HIDE DEF h
<1>8. \A p \in 0..Len(m), n \in 0..NameMax : h[p][n] = Body(m, h, p, n)
  BY <1>6, BodyIs
<1>9. h = [p \in 0..Len(m) |-> [n \in 0..NameMax |-> Body(m, h, p, n)]]
  <2>1. \A p \in 0..Len(m) :
          [n \in 0..NameMax |-> h[p][n]] = [n \in 0..NameMax |-> Body(m, h, p, n)]
    BY <1>8
  <2> QED
    BY <1>7, <2>1
<1> QED
  BY Zenon, <1>9 DEF Texts, Body

\* name_text, one label at a time.
LEMMA TextIs ==
  ASSUME NEW m \in Seq(0..255)
  PROVE  /\ \A start : NameText(m, start) = TextFrom(m, start, 0)
         /\ \A p \in 0..Len(m), n \in 0..NameMax :
              TextFrom(m, p, n) =
                IF GoesOn(m, p, n) THEN TextFrom(m, p + 1 + Byte(m, p), More(m, p, n))
                ELSE Stops(m, p, n)
<1> DEFINE h == CHOOSE g : Texts(m, g)
<1>1. /\ \A start : NameText(m, start) = h[start][0]
      /\ \A p, n : TextFrom(m, p, n) = h[p][n]
  BY Zenon DEF NameText, TextFrom, Texts
<1>2. Texts(m, h)
  BY TextsExists
<1> HIDE DEF h
<1>3. \A p \in 0..Len(m), n \in 0..NameMax : h[p][n] = Body(m, h, p, n)
  <2>1. h = [p \in 0..Len(m) |-> [n \in 0..NameMax |-> Body(m, h, p, n)]]
    BY Zenon, <1>2 DEF Texts, Body
  <2> QED
    BY <2>1
<1>4. \A p \in 0..Len(m), n \in 0..NameMax :
        h[p][n] = IF GoesOn(m, p, n) THEN h[p + 1 + Byte(m, p)][More(m, p, n)]
                  ELSE Stops(m, p, n)
  BY <1>3, BodyIs
<1> QED
  BY <1>1, <1>4
-----------------------------------------------------------------------------
(* Plain names.                                                            *)

\* What is so of a position when it is so of all behind it is so of all.
LEMMA Downward ==
  ASSUME NEW n \in Nat, NEW S, \A p \in 0..n : (\A q \in p + 1..n : q \in S) => p \in S
  PROVE  0..n \subseteq S
<1> DEFINE U == {k \in 0..n : \A p \in n - k..n : p \in S}
<1>1. 0 \in U
  OBVIOUS
<1>2. ASSUME NEW k \in 1..n, k - 1 \in U
      PROVE  k \in U
  <2>1. \A q \in (n - k) + 1..n : q \in S
    BY <1>2
  <2>2. n - k \in 0..n
    OBVIOUS
  <2>3. n - k \in S
    BY <2>1, <2>2
  <2> QED
    BY <2>1, <2>3
<1>3. 0..n \subseteq U
  <2> HIDE DEF U
  <2> QED
    BY <1>1, <1>2, Induct
<1>4. n \in 0..n
  OBVIOUS
<1> QED
  BY <1>3, <1>4

\* A plain name ends behind where it is read, within NameMax of its start.
LEMMA PlainBounds ==
  ASSUME NEW m \in Seq(0..255), NEW start \in 0..Len(m)
  PROVE  \A p \in 0..Len(m) :
           PlainFrom(m, start, p) # None =>
             /\ PlainFrom(m, start, p) \in p + 1..Len(m)
             /\ PlainFrom(m, start, p) - start <= NameMax
<1> DEFINE F(p) == PlainFrom(m, start, p)
           S == {p \in 0..Len(m) : F(p) # None => F(p) \in p + 1..Len(m) /\ F(p) - start <= NameMax}
<1>1. Len(m) \in Nat
  BY BytesOf
<1>2. ASSUME NEW p \in 0..Len(m), \A q \in p + 1..Len(m) : q \in S
      PROVE  p \in S
  <2> SUFFICES ASSUME F(p) # None
               PROVE  F(p) \in p + 1..Len(m) /\ F(p) - start <= NameMax
    OBVIOUS
  <2> HIDE DEF F
  <2>1. F(p) = IF ~Holds(m, p, 1) THEN None
               ELSE IF Byte(m, p) = 0 THEN (IF p + 1 - start <= NameMax THEN p + 1 ELSE None)
               ELSE IF Whole(m, p) THEN F(p + 1 + Byte(m, p))
               ELSE None
    <3>1. PlainFrom(m, start, p) = PlainTurn(m, start, p)
      BY PlainIs
    <3> QED
      BY <3>1 DEF F, PlainTurn
  <2>2. CASE Holds(m, p, 1) /\ Byte(m, p) = 0
    <3>1. F(p) = p + 1 /\ p + 1 - start <= NameMax
      BY <2>1, <2>2
    <3>2. p + 1 <= Len(m)
      BY <2>2 DEF Holds
    <3> QED
      BY <1>1, <3>1, <3>2
  <2>3. CASE Whole(m, p)
    <3> DEFINE b == Byte(m, p)
               q == p + 1 + b
    <3>1. b \in 1..63 /\ b # 0 /\ q \in 0..Len(m)
      BY <2>3, BytesOf
    <3>2. F(p) = F(q)
      BY <2>1, <2>3, <3>1 DEF Whole
    <3> HIDE DEF b
    <3>3. q \in p + 1..Len(m)
      BY <1>1, <3>1
    <3>4. F(q) \in q + 1..Len(m) /\ F(q) - start <= NameMax
      BY <1>2, <3>2, <3>3
    <3>5. q > p /\ q \in Nat
      BY <1>1, <3>1
    <3> HIDE DEF q
    <3> QED
      BY <1>1, <3>2, <3>4, <3>5
  <2> QED
    BY <2>1, <2>2, <2>3
<1>3. 0..Len(m) \subseteq S
  <2> HIDE DEF S
  <2> QED
    BY <1>1, <1>2, Downward
<1> QED
  BY <1>3

\* The text of a plain name fits, and is all there.
LEMMA PlainTextFits ==
  ASSUME NEW m \in Seq(0..255), NEW start \in 0..Len(m), SkipPlainName(m, start) # None
  PROVE  NameText(m, start) \notin {Full, Cut}
<1> DEFINE Room(p, n) == n = 0 \/ n + 1 <= p - start
           S == {p \in 0..Len(m) :
                   p >= start /\ PlainFrom(m, start, p) # None =>
                     \A n \in 0..NameMax :
                       Room(p, n) => TextFrom(m, p, n) \notin {Full, Cut}}
<1>1. Len(m) \in Nat
  BY BytesOf
<1>2. ASSUME NEW p \in 0..Len(m), \A q \in p + 1..Len(m) : q \in S
      PROVE  p \in S
  <2> SUFFICES ASSUME p >= start, PlainFrom(m, start, p) # None,
                      NEW n \in 0..NameMax, Room(p, n)
               PROVE  TextFrom(m, p, n) \notin {Full, Cut}
    OBVIOUS
  <2>1. PlainFrom(m, start, p) = IF ~Holds(m, p, 1) THEN None
               ELSE IF Byte(m, p) = 0 THEN (IF p + 1 - start <= NameMax THEN p + 1 ELSE None)
               ELSE IF Whole(m, p) THEN PlainFrom(m, start, p + 1 + Byte(m, p))
               ELSE None
    <3>1. PlainFrom(m, start, p) = PlainTurn(m, start, p)
      BY PlainIs
    <3> QED
      BY <3>1 DEF PlainTurn
  <2>2. TextFrom(m, p, n) = IF GoesOn(m, p, n) THEN TextFrom(m, p + 1 + Byte(m, p), More(m, p, n))
                            ELSE Stops(m, p, n)
    BY TextIs
  <2>3. CASE Holds(m, p, 1) /\ Byte(m, p) = 0
    <3>1. TextFrom(m, p, n) = n
      BY <2>2, <2>3 DEF GoesOn, Stops
    <3> QED
      BY <3>1 DEF Full, Cut
  <2>4. CASE Whole(m, p)
    <3> DEFINE b == Byte(m, p)
               q == p + 1 + b
               more == More(m, p, n)
    <3>1. b \in 1..63 /\ b # 0 /\ q \in 0..Len(m) /\ more = n + b + (IF n > 0 THEN 1 ELSE 0)
      BY <2>4, BytesOf DEF More
    <3>2. PlainFrom(m, start, q) # None
      BY <2>1, <2>4, <3>1 DEF Whole
    <3> DEFINE last == PlainFrom(m, start, q)
    <3>3. last \in q + 1..Len(m) /\ last - start <= NameMax
      BY <3>1, <3>2, PlainBounds
    <3>4. GoesOn(m, p, n) <=> IsText(m, p) /\ more <= NameMax
      BY <2>4, <3>1 DEF GoesOn, Whole
    <3>5. ~IsText(m, p) => Stops(m, p, n) = NoHost
      BY <2>4, <3>1 DEF Stops, Whole
    <3> HIDE DEF b, last, more
    <3>6. /\ q \in p + 1..Len(m) /\ q >= start
          /\ more \in Nat /\ more + 1 <= q - start /\ more <= NameMax
      BY <1>1, <3>1, <3>3, NameMaxAssumption
    <3> HIDE DEF q
    <3>7. TextFrom(m, q, more) \notin {Full, Cut}
      <4>1. q \in S /\ Room(q, more) /\ more \in 0..NameMax
        BY <1>2, <3>6, NameMaxAssumption
      <4> HIDE DEF Room
      <4> QED
        BY <3>2, <3>6, <4>1
    <3>8. CASE IsText(m, p)
      BY <2>2, <3>4, <3>6, <3>7, <3>8 DEF b, q, more
    <3>9. CASE ~IsText(m, p)
      BY <2>2, <3>4, <3>5, <3>9 DEF Full, Cut, NoHost
    <3> QED
      BY <3>8, <3>9
  <2> QED
    BY <2>1, <2>3, <2>4
<1>3. 0..Len(m) \subseteq S
  <2> HIDE DEF S
  <2> QED
    BY <1>1, <1>2, Downward
<1>4. PlainFrom(m, start, start) # None /\ NameText(m, start) = TextFrom(m, start, 0)
  BY PlainIs, TextIs
<1>5. start >= start /\ 0 \in 0..NameMax
  BY <1>1, NameMaxAssumption
<1> QED
  BY <1>3, <1>4, <1>5
-----------------------------------------------------------------------------
(* read_name next to the readers that keep no text.                        *)

\* What a turn of the loop finds, in the words of the other readers.
LEMMA Turns ==
  TypeOK => /\ AtLabel <=> Whole(msg, pos)
            /\ AtRoot <=> Holds(msg, pos, 1) /\ Byte(msg, pos) = 0
            /\ AtPointer <=> Holds(msg, pos, 2) /\ IsPointer(Byte(msg, pos))
            /\ AtPointer => Holds(msg, pos, 1) /\ Byte(msg, pos) # 0 /\ ~Whole(msg, pos)
<1>1. AtLabel <=> Whole(msg, pos)
  BY DEF AtLabel, Whole, Here
<1>2. AtRoot <=> Holds(msg, pos, 1) /\ Byte(msg, pos) = 0
  BY DEF AtRoot, Here
<1>3. AtPointer <=> Holds(msg, pos, 2) /\ IsPointer(Byte(msg, pos))
  BY DEF AtPointer, Here
<1>4. ASSUME TypeOK, AtPointer
      PROVE  Holds(msg, pos, 1) /\ Byte(msg, pos) # 0 /\ ~Whole(msg, pos)
  <2> DEFINE b == Byte(msg, pos)
  <2>1. b \in 192..255
    BY <1>3, <1>4 DEF IsPointer
  <2>2. ~IsLabel(b)
    <3> HIDE DEF b
    <3> QED
      BY <2>1 DEF IsLabel, LabelMax
  <2>3. b # 0
    <3> HIDE DEF b
    <3> QED
      BY <2>1
  <2>4. Holds(msg, pos, 1)
    BY <1>3, <1>4, Bytes DEF Holds
  <2> QED
    BY <2>2, <2>3, <2>4 DEF Whole
<1> QED
  BY <1>1, <1>2, <1>3, <1>4

\* The end that skip_name gives is known behind the first pointer, and is the
\* one from the present position on before it.
EndOK ==
  /\ result = "ok" => end = SkipName(msg, at)
  /\ result = "reading" =>
       IF end = None THEN SkipName(msg, pos) = SkipName(msg, at)
       ELSE end = SkipName(msg, at)

\* read_name and skip_name agree on where a name ends, pointers or not: the
\* records behind the name are read from where they are skipped to.
THEOREM SameEndTheorem == Spec => []SameEnd
<1>1. Init => EndOK
  BY DEF Init, EndOK
<1>2. TypeOK /\ TypeOK' /\ EndOK /\ [Next]_vars => EndOK'
  <2> SUFFICES ASSUME TypeOK, TypeOK', EndOK, [Next]_vars PROVE EndOK'
    OBVIOUS
  <2>1. msg \in Seq(0..255) /\ pos \in 0..Len(msg) /\ pos \in Nat
    BY Bytes DEF TypeOK
  <2>2. SkipName(msg, pos) =
          IF ~Holds(msg, pos, 1) THEN None
          ELSE IF Byte(msg, pos) = 0 THEN pos + 1
          ELSE IF Whole(msg, pos) THEN SkipName(msg, pos + 1 + Byte(msg, pos))
          ELSE IF IsPointer(Byte(msg, pos)) /\ Holds(msg, pos, 2) THEN pos + 2
          ELSE None
    BY <2>1, SkipNameIs
  <2>3. CASE Root
    <3>1. SkipName(msg, pos) = pos + 1
      BY <2>2, <2>3, Turns DEF Root
    <3> QED
      BY <2>3, <3>1 DEF Root, Reading, EndOK
  <2>4. CASE Label
    <3>1. Whole(msg, pos)
      BY <2>4, Turns DEF Label
    <3>2. Holds(msg, pos, 1) /\ Byte(msg, pos) # 0
      BY <2>1, <3>1, BytesOf DEF Whole
    <3>3. SkipName(msg, pos) = SkipName(msg, pos')
      BY <2>2, <2>4, <3>1, <3>2 DEF Label, Here
    <3> QED
      BY <2>4, <3>3 DEF Label, Reading, EndOK
  <2>5. CASE Pointer
    <3>1. SkipName(msg, pos) = pos + 2
      BY <2>2, <2>5, Turns DEF Pointer
    <3>2. pos + 2 # None
      BY <2>1 DEF None
    <3> QED
      BY <2>5, <3>1, <3>2 DEF Pointer, Reading, EndOK
  <2>6. CASE Malformed \/ NoMemory
    BY <2>6 DEF Malformed, NoMemory, EndOK
  <2>7. CASE UNCHANGED vars
    BY <2>7 DEF vars, EndOK
  <2> QED
    BY <2>3, <2>4, <2>5, <2>6, <2>7 DEF Next
<1>3. EndOK => SameEnd
  BY DEF EndOK, SameEnd
<1> QED
  BY <1>1, <1>2, <1>3, Inside, PTL DEF Spec
-----------------------------------------------------------------------------
(* read_name next to the readers of plain names.                           *)

\* The names PlainIsRead speaks of: plain, and of bytes below 128.
IsPlain ==
  LET last == SkipPlainName(msg, at)
  IN  last # None /\ \A p \in at..last - 1 : Byte(msg, p) < 128

\* The text of name_text where read_name has read length: no dot behind the last
\* label.
SoFar == IF length = 0 THEN 0 ELSE length - 1

\* In a plain name the text read so far is as long as the bytes it came from,
\* and both other readers come by the present position.
WalkOK ==
  IsPlain =>
    /\ result # "malformed"
    /\ result = "ok" => end = SkipPlainName(msg, at) /\ NameText(msg, at) \in {length - 1, NoHost}
    /\ result = "reading" =>
         /\ end = None /\ at <= pos /\ length = pos - at /\ length # 1
         /\ PlainFrom(msg, at, pos) = SkipPlainName(msg, at)
         /\ NameText(msg, at) \in {TextFrom(msg, pos, SoFar), NoHost}

\* A label of a plain name fits in the text, and so does name_text's.
LEMMA PlainLabel ==
  TypeOK /\ WalkOK /\ IsPlain /\ result = "reading" /\ AtLabel =>
    /\ pos + 1 + Here \in 0..Len(msg) /\ Here \in 1..63
    /\ Longer = length + Here + 1 /\ Longer <= NameMax
    /\ PlainFrom(msg, at, pos + 1 + Here) = PlainFrom(msg, at, pos)
    /\ More(msg, pos, SoFar) = length + Here
<1> SUFFICES ASSUME TypeOK, WalkOK, IsPlain, result = "reading", AtLabel
             PROVE  /\ pos + 1 + Here \in 0..Len(msg) /\ Here \in 1..63
                    /\ Longer = length + Here + 1 /\ Longer <= NameMax
                    /\ PlainFrom(msg, at, pos + 1 + Here) = PlainFrom(msg, at, pos)
                    /\ More(msg, pos, SoFar) = length + Here
  OBVIOUS
<1> DEFINE last == SkipPlainName(msg, at)
           q == pos + 1 + Here
<1>1. /\ msg \in Seq(0..255) /\ Len(msg) \in Nat
      /\ at \in 0..Len(msg) /\ pos \in 0..Len(msg)
  BY Bytes DEF TypeOK
<1>2. at <= pos /\ length = pos - at /\ length # 1 /\ PlainFrom(msg, at, pos) = last /\ last # None
  BY DEF WalkOK, IsPlain
<1>3. Whole(msg, pos) /\ Here = Byte(msg, pos)
  BY Turns DEF Here
<1>4. Here \in 1..63 /\ Here # 0 /\ q \in 0..Len(msg)
  BY <1>1, <1>3, BytesOf
<1>5. PlainFrom(msg, at, q) = last
  <2>1. PlainFrom(msg, at, pos) =
          IF ~Holds(msg, pos, 1) THEN None
          ELSE IF Byte(msg, pos) = 0 THEN (IF pos + 1 - at <= NameMax THEN pos + 1 ELSE None)
          ELSE IF Whole(msg, pos) THEN PlainFrom(msg, at, pos + 1 + Byte(msg, pos))
          ELSE None
    <3>1. PlainFrom(msg, at, pos) = PlainTurn(msg, at, pos)
      BY <1>1, PlainIs
    <3> QED
      BY <3>1 DEF PlainTurn
  <2> QED
    BY <1>2, <1>3, <1>4, <2>1 DEF Whole
<1>6. last \in q + 1..Len(msg) /\ last - at <= NameMax
  BY <1>1, <1>2, <1>4, <1>5, PlainBounds
<1>7. TextLen(msg, pos + 1, Here) = Here
  <2> DEFINE Wide == {i \in pos + 1..pos + 1 + Here - 1 : Byte(msg, i) >= 128}
  <2>1. \A i \in at..last - 1 : Byte(msg, i) < 128
    BY DEF IsPlain
  <2>2. \A i \in pos + 1..pos + 1 + Here - 1 : i \in at..last - 1 /\ i \in 0..Len(msg) /\ i < Len(msg)
    <3> HIDE DEF last
    <3> QED
      BY <1>1, <1>2, <1>4, <1>6
  <2>3. \A i \in 0..Len(msg) : i < Len(msg) => Byte(msg, i) \in 0..255
    <3>1. \A i \in 0..Len(msg) : i < Len(msg) => Holds(msg, i, 1)
      BY <1>1 DEF Holds
    <3> QED
      BY <1>1, <3>1, BytesOf
  <2>4. Wide = {}
    <3> SUFFICES ASSUME NEW i \in pos + 1..pos + 1 + Here - 1, Byte(msg, i) >= 128
                 PROVE  FALSE
      OBVIOUS
    <3> DEFINE b == Byte(msg, i)
    <3>1. b < 128 /\ b \in 0..255
      BY <2>1, <2>2, <2>3
    <3>2. b >= 128
      OBVIOUS
    <3> HIDE DEF b
    <3> QED
      BY <3>1, <3>2
  <2>5. Cardinality(Wide) = 0
    BY <2>4, FS_EmptySet
  <2> QED
    BY <1>4, <2>5 DEF TextLen
<1>8. Longer = length + Here + 1
  BY <1>7 DEF Longer
<1>9. Longer <= NameMax
  <2> HIDE DEF last
  <2> QED
    BY <1>1, <1>2, <1>4, <1>6, <1>8, NameMaxAssumption
<1>10. More(msg, pos, SoFar) = length + Here
  <2>1. More(msg, pos, SoFar) = SoFar + Here + (IF SoFar > 0 THEN 1 ELSE 0)
    BY <1>3 DEF More
  <2> QED
    BY <1>1, <1>2, <1>4, <2>1 DEF SoFar
<1> QED
  BY <1>2, <1>4, <1>5, <1>8, <1>9, <1>10

\* What parse_query takes for a name read_name takes too, to the same end and
\* with the text that name_text gives; and that text fits and is all there.
THEOREM PlainTheorem == Spec => []PlainIsRead
<1>1. Init /\ TypeOK => WalkOK
  <2> SUFFICES ASSUME Init, TypeOK, IsPlain PROVE WalkOK
    BY DEF WalkOK
  <2>1. msg \in Seq(0..255) /\ at \in 0..Len(msg) /\ at \in Nat
    BY Bytes DEF Init, TypeOK
  <2>2. PlainFrom(msg, at, pos) = SkipPlainName(msg, at)
    BY <2>1, PlainIs DEF Init
  <2>3. NameText(msg, at) = TextFrom(msg, pos, SoFar)
    BY <2>1, TextIs DEF Init, SoFar
  <2>4. at <= pos /\ length = pos - at /\ length # 1 /\ end = None /\ result = "reading"
    BY <2>1 DEF Init
  <2> QED
    BY <2>2, <2>3, <2>4 DEF WalkOK
<1>2. TypeOK /\ WalkOK /\ [Next]_vars => WalkOK'
  <2> SUFFICES ASSUME TypeOK, WalkOK, [Next]_vars, IsPlain' PROVE WalkOK'
    BY DEF WalkOK
  <2>1. /\ msg \in Seq(0..255) /\ Len(msg) \in Nat
        /\ at \in 0..Len(msg) /\ pos \in 0..Len(msg)
    BY Bytes DEF TypeOK
  <2>2. UNCHANGED <<msg, at>>
    BY DEF Next, Root, Label, Pointer, Malformed, NoMemory, Reading, vars
  <2>3. IsPlain
    BY <2>2 DEF IsPlain
  <2> DEFINE last == SkipPlainName(msg, at)
  <2>4. result = "reading" =>
          /\ end = None /\ at <= pos /\ length = pos - at /\ length # 1 /\ last # None
          /\ PlainFrom(msg, at, pos) = last
          /\ NameText(msg, at) \in {TextFrom(msg, pos, SoFar), NoHost}
    BY <2>3 DEF WalkOK, IsPlain
  <2>5. PlainFrom(msg, at, pos) =
          IF ~Holds(msg, pos, 1) THEN None
          ELSE IF Byte(msg, pos) = 0 THEN (IF pos + 1 - at <= NameMax THEN pos + 1 ELSE None)
          ELSE IF Whole(msg, pos) THEN PlainFrom(msg, at, pos + 1 + Byte(msg, pos))
          ELSE None
    <3>1. PlainFrom(msg, at, pos) = PlainTurn(msg, at, pos)
      BY <2>1, PlainIs
    <3> QED
      BY <3>1 DEF PlainTurn
  <2>6. result = "reading" => SoFar \in 0..NameMax
    <3>1. result = "reading" => length \in 0..NameMax
      BY DEF TypeOK
    <3> QED
      BY <3>1, NameMaxAssumption DEF SoFar
  <2>7. result = "reading" =>
          TextFrom(msg, pos, SoFar) =
            IF GoesOn(msg, pos, SoFar)
              THEN TextFrom(msg, pos + 1 + Byte(msg, pos), More(msg, pos, SoFar))
              ELSE Stops(msg, pos, SoFar)
    BY <2>1, <2>6, TextIs
  <2>8. CASE Root
    <3>1. Holds(msg, pos, 1) /\ Byte(msg, pos) = 0 /\ result = "reading"
      BY <2>8, Turns DEF Root, Reading
    <3>2. last = pos + 1
      BY <2>4, <2>5, <3>1
    <3>3. TextFrom(msg, pos, SoFar) = SoFar
      BY <2>7, <3>1 DEF GoesOn, Stops
    <3>4. length' - 1 = SoFar
      BY <2>1, <2>4, <2>8, <3>1 DEF Root, SoFar
    <3>5. end' = last /\ result' = "ok"
      BY <2>4, <2>8, <3>1, <3>2 DEF Root
    <3>6. NameText(msg, at) \in {length' - 1, NoHost}
      BY <2>4, <3>1, <3>3, <3>4
    <3> QED
      BY <2>2, <3>5, <3>6 DEF WalkOK
  <2>9. CASE Label
    <3>1. result = "reading" /\ AtLabel
      BY <2>9 DEF Label, Reading
    <3> DEFINE q == pos + 1 + Here
    <3>2. /\ Here \in 1..63 /\ q \in 0..Len(msg)
          /\ Longer = length + Here + 1 /\ Longer <= NameMax
          /\ PlainFrom(msg, at, q) = last
          /\ More(msg, pos, SoFar) = length + Here
      BY <2>3, <2>4, <3>1, PlainLabel
    <3>3. pos' = q /\ length' = Longer /\ end' = None /\ result' = "reading"
      BY <2>4, <2>9, <3>1 DEF Label
    <3>4. Whole(msg, pos) /\ Here = Byte(msg, pos)
      BY <3>1, Turns DEF Here
    <3>5. at <= pos' /\ length' = pos' - at /\ length' # 1 /\ SoFar' = More(msg, pos, SoFar)
      <4>1. SoFar' = IF length' = 0 THEN 0 ELSE length' - 1
        BY DEF SoFar
      <4>2. length \in Nat
        BY <2>1, <2>4, <3>1
      <4> HIDE DEF last
      <4> QED
        BY <2>1, <2>4, <3>1, <3>2, <3>3, <4>1, <4>2
    <3>6. TextFrom(msg, pos, SoFar) \in {TextFrom(msg, q, SoFar'), NoHost}
      <4>1. More(msg, pos, SoFar) <= NameMax
        <5>1. length \in Nat /\ NameMax \in Nat
          BY <2>1, <2>4, <3>1, NameMaxAssumption
        <5> QED
          BY <3>2, <5>1
      <4>2. Byte(msg, pos) # 0
        BY <2>1, <3>4, BytesOf
      <4>3. CASE IsText(msg, pos)
        <5>1. GoesOn(msg, pos, SoFar)
          BY <3>4, <4>1, <4>2, <4>3 DEF GoesOn, Whole
        <5> QED
          BY <2>7, <3>1, <3>4, <3>5, <5>1
      <4>4. CASE ~IsText(msg, pos)
        <5>1. ~GoesOn(msg, pos, SoFar) /\ Stops(msg, pos, SoFar) = NoHost
          BY <3>4, <4>2, <4>4 DEF GoesOn, Stops, Whole
        <5> QED
          BY <2>7, <3>1, <5>1
      <4> QED
        BY <4>3, <4>4
    <3>7. NameText(msg, at) \in {TextFrom(msg, q, SoFar'), NoHost}
      BY <2>4, <3>1, <3>6
    <3> QED
      BY <2>2, <3>2, <3>3, <3>5, <3>7 DEF WalkOK
  <2>10. CASE Pointer
    <3>1. Holds(msg, pos, 1) /\ Byte(msg, pos) # 0 /\ ~Whole(msg, pos) /\ result = "reading"
      BY <2>10, Turns DEF Pointer, Reading
    <3> QED
      BY <2>4, <2>5, <3>1
  <2>11. CASE Malformed
    <3>1. result = "reading" /\ ~AtRoot /\ ~(AtLabel /\ Fits)
      BY <2>11 DEF Malformed, Reading
    <3>2. Whole(msg, pos)
      BY <2>4, <2>5, <3>1, Turns
    <3>3. AtLabel /\ ~Fits
      BY <3>1, <3>2, Turns
    <3> QED
      BY <2>3, <3>1, <3>3, PlainLabel DEF Fits
  <2>12. CASE NoMemory
    <3>1. result' = "nomemory"
      BY <2>12 DEF NoMemory
    <3> QED
      BY <3>1 DEF WalkOK
  <2>13. CASE UNCHANGED vars
    BY <2>3, <2>13 DEF vars, WalkOK, IsPlain, SoFar
  <2> QED
    BY <2>8, <2>9, <2>10, <2>11, <2>12, <2>13 DEF Next
<1>3. TypeOK /\ WalkOK => PlainIsRead
  <2> SUFFICES ASSUME TypeOK, WalkOK, SkipPlainName(msg, at) # None PROVE PlainIsRead
    BY DEF PlainIsRead
  <2>1. msg \in Seq(0..255) /\ at \in 0..Len(msg)
    BY Bytes DEF TypeOK
  <2>2. NameText(msg, at) \notin {Full, Cut}
    BY <2>1, PlainTextFits
  <2> QED
    BY <2>2 DEF WalkOK, IsPlain, PlainIsRead
<1> QED
  BY <1>1, <1>2, <1>3, Inside, PTL DEF Spec
=============================================================================

----------------------------- MODULE AnswerSizes -----------------------------
(***************************************************************************)
(* The lengths in bytes that src/src/wire.rs and src/src/server.rs work    *)
(* with: of a message, of what an asker accepts, and of each record.       *)
(***************************************************************************)
EXTENDS Integers

HeaderLen    == 12     \* HEADER_LEN
UdpMax       == 512    \* UDP_MAX
EdnsMax      == 1232   \* EDNS_MAX
ReplyNameMax == 255    \* NAME_MAX
OptLen       == 11     \* OPT_LEN
\* Mutant: the row sized for a question of a usual length.
MaxAnswersUsual == (EdnsMax - HeaderLen - 21) \div 16
MaxAnswers == (EdnsMax - HeaderLen - 5) \div 16   \* MAX_ANSWERS

NoEdns == -1           \* a question that offers no size

AtMost(a, b) == IF a < b THEN a ELSE b

\* Mutant: an offer below 512 bytes is taken at its word.
ClampedAbove(offer) == IF offer = NoEdns THEN UdpMax ELSE AtMost(offer, EdnsMax)

\* What the asker accepts, clamped to what hopdns sends.
Clamped(offer) ==
  IF offer = NoEdns \/ offer < UdpMax THEN UdpMax ELSE AtMost(offer, EdnsMax)

\* A record for the name asked points back at the question.
ASize        == 16
CnameSize(n) == 12 + n
\* The owner, the fixed part, ns.<zone>, hostmaster.<zone> and five numbers.
SoaSize(z)   == z + 10 + (3 + z) + (11 + z) + 20
SoaScratch   == 3 * (ReplyNameMax + 1) + 20
=============================================================================

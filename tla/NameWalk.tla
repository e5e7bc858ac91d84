------------------------------ MODULE NameWalk ------------------------------
(***************************************************************************)
(* The readers of a name in src/src/wire.rs: read_name as a machine, one   *)
(* step per turn of its loop, next to skip_name, skip_plain_name and       *)
(* name_text, which walk the same bytes.  The message is any sequence of   *)
(* bytes, for it comes from the network.                                   *)
(*                                                                         *)
(* A byte 0 is the root, 1..63 the length of a label, 192..255 with the    *)
(* byte behind it a pointer, and the others are reserved.  Positions count *)
(* from 0, as in the code, and all those outside the message are one.      *)
(***************************************************************************)
EXTENDS Integers, Sequences, FiniteSets

CONSTANTS
  Messages,   \* the messages, each a sequence of bytes
  NameMax     \* wire::NAME_MAX, 255 in the code

ASSUME NameMaxAssumption  == NameMax \in Nat
ASSUME MessagesAssumption == Messages \subseteq Seq(0..255)

VARIABLES
  msg,      \* the message
  at,       \* where the name starts
  pos,      \* where the loop is
  length,   \* the length of the text so far, with a dot behind each label
  end,      \* the position behind the first pointer, None before it
  result    \* "reading", "ok", "malformed" or "nomemory"

vars == <<msg, at, pos, length, end, result>>

LabelMax == 63
None     == -1
NoHost   == -2
Full     == -3
Cut      == -4

Byte(m, p)      == m[p + 1]
Holds(m, p, n)  == p + n <= Len(m)   \* n bytes from p on
IsLabel(byte)   == byte \in 1..LabelMax
IsPointer(byte) == byte \in 192..255
IsHost(byte)    == byte \in 33..126 /\ byte # 46
Target(m, p)    == (Byte(m, p) % 64) * 256 + Byte(m, p + 1)

\* The text of the n bytes from p on: a byte from 128 on takes two in UTF-8.
TextLen(m, p, n) == n + Cardinality({i \in p..p + n - 1 : Byte(m, i) >= 128})

-----------------------------------------------------------------------------
(* The readers that keep no text: the end of the name, or None.            *)

\* fn skip_name
SkipName(m, start) ==
  LET skip[p \in 0..Len(m)] ==
        IF ~Holds(m, p, 1) THEN None
        ELSE IF Byte(m, p) = 0 THEN p + 1
        ELSE IF IsLabel(Byte(m, p)) /\ Holds(m, p, 1 + Byte(m, p)) THEN skip[p + 1 + Byte(m, p)]
        ELSE IF IsPointer(Byte(m, p)) /\ Holds(m, p, 2) THEN p + 2
        ELSE None
  IN  skip[start]

\* Mutant: the length of the whole is not looked at.
SkipPlainAnyLength(m, start) ==
  LET skip[p \in 0..Len(m)] ==
        IF ~Holds(m, p, 1) THEN None
        ELSE IF Byte(m, p) = 0 THEN p + 1
        ELSE IF IsLabel(Byte(m, p)) /\ Holds(m, p, 1 + Byte(m, p)) THEN skip[p + 1 + Byte(m, p)]
        ELSE None
  IN  skip[start]

\* fn skip_plain_name: no pointers, and NameMax bytes at most.
SkipPlainName(m, start) ==
  LET skip[p \in 0..Len(m)] ==
        IF ~Holds(m, p, 1) THEN None
        ELSE IF Byte(m, p) = 0 THEN (IF p + 1 - start <= NameMax THEN p + 1 ELSE None)
        ELSE IF IsLabel(Byte(m, p)) /\ Holds(m, p, 1 + Byte(m, p)) THEN skip[p + 1 + Byte(m, p)]
        ELSE None
  IN  skip[start]

\* fn name_text, of a name without pointers: the length of the text.  It has
\* none when a label is no host name's (NoHost), when the buffer of NameMax is
\* full (Full), or when the name is not all there (Cut).
NameText(m, start) ==
  LET text[p \in 0..Len(m)] ==   \* from p on, behind n bytes of text
        [n \in 0..NameMax |->
           LET size == Byte(m, p)
               more == n + size + (IF n > 0 THEN 1 ELSE 0)
           IN  IF ~Holds(m, p, 1) THEN Cut
               ELSE IF size = 0 THEN n
               ELSE IF ~Holds(m, p, 1 + size) THEN Cut
               ELSE IF \E i \in p + 1..p + size : ~IsHost(Byte(m, i)) THEN NoHost
               ELSE IF more > NameMax THEN Full
               ELSE text[p + 1 + size][more]]
  IN  text[start][0]

-----------------------------------------------------------------------------
(* fn read_name                                                            *)

Init ==
  /\ msg \in Messages
  /\ at \in 0..Len(msg)
  /\ pos = at
  /\ length = 0
  /\ end = None
  /\ result = "reading"

Reading == result = "reading" /\ UNCHANGED <<msg, at>>

Here       == Byte(msg, pos)
AtRoot     == Holds(msg, pos, 1) /\ Here = 0
AtLabel    == Holds(msg, pos, 1) /\ IsLabel(Here) /\ Holds(msg, pos, 1 + Here)
AtPointer  == Holds(msg, pos, 2) /\ IsPointer(Here)
Longer     == length + TextLen(msg, pos + 1, Here) + 1

\* Mutant: a pointer may point at itself.
PointsHere == Target(msg, pos) <= pos

PointsBack == Target(msg, pos) < pos

\* Mutant: nothing bounds the text.
FitsAlways == TRUE

Fits == Longer <= NameMax

\* The root ends the name; the text of an empty name is a dot.
Root ==
  /\ Reading /\ AtRoot
  /\ result' = "ok"
  /\ length' = IF length = 0 THEN 1 ELSE length
  /\ end' = IF end = None THEN pos + 1 ELSE end
  /\ UNCHANGED pos

Label ==
  /\ Reading /\ AtLabel /\ Fits
  /\ length' = Longer
  /\ pos' = pos + 1 + Here
  /\ UNCHANGED <<end, result>>

\* Mutant: the name ends behind the last of its pointers.
PointerLast ==
  /\ Reading /\ AtPointer /\ PointsBack
  /\ end' = pos + 2
  /\ pos' = Target(msg, pos)
  /\ UNCHANGED <<length, result>>

\* The name ends behind the first of its pointers.
Pointer ==
  /\ Reading /\ AtPointer /\ PointsBack
  /\ end' = IF end = None THEN pos + 2 ELSE end
  /\ pos' = Target(msg, pos)
  /\ UNCHANGED <<length, result>>

Malformed ==
  /\ Reading
  /\ ~(AtRoot \/ (AtLabel /\ Fits) \/ (AtPointer /\ PointsBack))
  /\ result' = "malformed"
  /\ UNCHANGED <<pos, length, end>>

\* A reservation for more text fails.
NoMemory ==
  /\ Reading /\ ((AtRoot /\ length = 0) \/ AtLabel)
  /\ result' = "nomemory"
  /\ UNCHANGED <<pos, length, end>>

Next == Root \/ Label \/ Pointer \/ Malformed \/ NoMemory

Spec     == Init /\ [][Next]_vars
FairSpec == Spec /\ WF_vars(Next)

-----------------------------------------------------------------------------
(* Properties *)

\* The loop stays inside the message, and its text within a buffer for names.
TypeOK ==
  /\ msg \in Messages
  /\ at \in 0..Len(msg) /\ pos \in 0..Len(msg)
  /\ length \in 0..NameMax \/ (result = "ok" /\ length = 1)
  /\ end \in {None} \cup 0..Len(msg)
  /\ result \in {"reading", "ok", "malformed", "nomemory"}

\* Each turn makes the text longer or goes back in the message.  That a
\* pointer points back is not enough: a label behind the target leads to the
\* same pointer again, and only the length of the text ends such a loop.
Descends ==
  [][result' = "reading" => length' > length \/ (length' = length /\ pos' < pos)]_vars

\* The reader ends on every message, a loop of pointers included.
Terminates == <>(result # "reading")

\* read_name and skip_name agree on where a name ends: else the records
\* behind it would be read from another place than they were skipped to.
SameEnd == result = "ok" => end = SkipName(msg, at)

\* What parse_query takes for a name, read_name takes too, to the same end
\* and with the text that name_text gives; a label with a byte from 128 on
\* may make the text of read_name too long.
PlainIsRead ==
  LET last == SkipPlainName(msg, at)
  IN  last # None =>
        /\ NameText(msg, at) \notin {Full, Cut}
        /\ (\A p \in at..last - 1 : Byte(msg, p) < 128) =>
             /\ result # "malformed"
             /\ result = "ok" => end = last /\ NameText(msg, at) \in {length - 1, NoHost}
=============================================================================

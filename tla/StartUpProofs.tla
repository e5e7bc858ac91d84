---------------------------- MODULE StartUpProofs ----------------------------
(***************************************************************************)
(* Theorems about the start-up, for every command line, file and           *)
(* environment and every MaxPeers.  What a single text means is a constant *)
(* of the model, so the theorems are about runs in which each text is read *)
(* as its writer meant it (ReadAsMeant, which TLC checks text by text; it  *)
(* says nothing of a tangled line, and neither do the properties of a file *)
(* that has one).  They say that then the whole is right: the argument or  *)
(* line that is blamed, the tables of CNAMEs, the watchers and their keys. *)
(*                                                                         *)
(* Three invariants, the first needed by the others.  BlameInv: where a    *)
(* flag stands and which section a line is in.  TableInv: the entries read *)
(* so far, folded into tables, are what the lines so far mean.  ServeInv:  *)
(* the flags and the watchers so far are those of the arguments and peers  *)
(* so far.                                                                 *)
(***************************************************************************)
EXTENDS StartUp, SequenceTheorems, FiniteSetTheorems, WellFoundedInduction, TLAPS

\* Induction over an interval, said of a set.
LEMMA Induct ==
  ASSUME NEW n \in Nat, NEW S, 0 \in S, \A i \in 1..n : i - 1 \in S => i \in S
  PROVE  0..n \subseteq S
<1> DEFINE T == {i \in 0..n : i \notin S}
<1>1. SUFFICES ASSUME T # {} PROVE FALSE
  OBVIOUS
<1>2. T \subseteq Nat /\ T # {}
  BY <1>1
<1>3. PICK m \in T : \A k \in T : ~(<<k, m>> \in OpToRel(<, Nat))
  BY <1>2, WFMin, NatLessThanWellFounded
<1>4. \A k \in T : ~(k < m)
  BY <1>2, <1>3 DEF OpToRel
<1>5. m \in 1..n /\ m - 1 \notin T
  BY <1>4
<1> QED
  BY <1>5

-----------------------------------------------------------------------------
(* Where a flag stands.                                                    *)

\* isFlag of FlagPlaces, for the first n arguments.
Places(args, n, h) ==
  h = [p \in 1..n |-> p = 1 \/ ~(h[p - 1] /\ args[p - 1].value = None)]

\* The recursion of FlagPlaces has a solution.
LEMMA PlacesExists ==
  ASSUME NEW args, NEW n \in Nat
  PROVE  \E h : Places(args, n, h)
<1> DEFINE S == {k \in 0..n : \E h : Places(args, k, h)}
<1>1. 0 \in S
  <2>1. Places(args, 0, [p \in 1..0 |-> TRUE])
    BY DEF Places
  <2> QED
    BY <2>1
<1>2. ASSUME NEW k \in 1..n, k - 1 \in S
      PROVE  k \in S
  <2>1. PICK h : Places(args, k - 1, h)
    BY <1>2
  <2> DEFINE g == [p \in 1..k |->
                     IF p \in 1..k - 1 THEN h[p]
                     ELSE p = 1 \/ ~(h[p - 1] /\ args[p - 1].value = None)]
  <2>2. \A p \in 1..k - 1 : h[p] = (p = 1 \/ ~(h[p - 1] /\ args[p - 1].value = None))
    BY <2>1 DEF Places
  <2>3. \A p \in 1..k - 1 : g[p] = h[p]
    OBVIOUS
  <2>4. \A p \in 1..k : p # 1 => p - 1 \in 1..k - 1
    OBVIOUS
  <2>5. \A p \in 1..k : g[p] = (p = 1 \/ ~(h[p - 1] /\ args[p - 1].value = None))
    BY <2>2
  <2>6. \A p \in 1..k : g[p] = (p = 1 \/ ~(g[p - 1] /\ args[p - 1].value = None))
    BY <2>3, <2>4, <2>5
  <2>7. g = [p \in 1..k |-> g[p]]
    OBVIOUS
  <2> HIDE DEF g
  <2>8. Places(args, k, g)
    BY <2>6, <2>7 DEF Places
  <2> QED
    BY <2>8
<1>3. 0..n \subseteq S
  <2> HIDE DEF S
  <2> QED
    BY <1>1, <1>2, Induct
<1>4. n \in 0..n
  OBVIOUS
<1> QED
  BY <1>3, <1>4

\* The first argument stands where a flag does, and so does each but the value
\* of the flag before it.
LEMMA FlagPlacesIs ==
  ASSUME NEW S, Args \in Seq(S)
  PROVE  /\ FlagPlaces \subseteq 1..Len(Args)
         /\ \A p \in 1..Len(Args) :
              p \in FlagPlaces <=> p = 1 \/ ~(p - 1 \in FlagPlaces /\ Args[p - 1].value = None)
<1> DEFINE h == CHOOSE g : g = [p \in DOMAIN Args |-> p = 1 \/ ~(g[p - 1] /\ Args[p - 1].value = None)]
<1>1. FlagPlaces = {p \in DOMAIN Args : h[p]}
  BY Zenon DEF FlagPlaces
<1>2. DOMAIN Args = 1..Len(Args) /\ Len(Args) \in Nat
  OBVIOUS
<1>3. h = [p \in DOMAIN Args |-> p = 1 \/ ~(h[p - 1] /\ Args[p - 1].value = None)]
  <2>1. \E g : g = [p \in DOMAIN Args |-> p = 1 \/ ~(g[p - 1] /\ Args[p - 1].value = None)]
    <3>1. PICK g : Places(Args, Len(Args), g)
      BY <1>2, PlacesExists
    <3>2. g = [p \in DOMAIN Args |-> p = 1 \/ ~(g[p - 1] /\ Args[p - 1].value = None)]
      BY Zenon, <1>2, <3>1 DEF Places
    <3> QED
      BY Zenon, <3>2
  <2> QED
    BY Zenon, <2>1
<1> HIDE DEF h
<1>4. \A p \in 1..Len(Args) : h[p] <=> p = 1 \/ ~(h[p - 1] /\ Args[p - 1].value = None)
  BY <1>2, <1>3
<1>5. \A p \in 1..Len(Args) : p \in FlagPlaces <=> h[p]
  BY <1>1, <1>2
<1>6. \A p \in 1..Len(Args) : p # 1 => p - 1 \in 1..Len(Args)
  BY <1>2
<1> QED
  BY <1>1, <1>2, <1>4, <1>5, <1>6
-----------------------------------------------------------------------------
(* An exit blames the first thing that is wrong.                           *)

\* A case has lists of arguments, of lines and of peers.
LEMMA Lists ==
  case \in Cases =>
    /\ Args \in Seq([text : STRING, flag : STRING, value : STRING])
    /\ Len(Args) \in Nat /\ Len(case.file) \in Nat /\ Len(case.asked) \in Nat
    /\ DOMAIN Args = 1..Len(Args) /\ DOMAIN case.file = 1..Len(case.file)
    /\ DOMAIN case.asked = 1..Len(case.asked)
    /\ \A j \in 1..Len(case.file) :
         /\ case.file[j].is \in {"nothing", "cnames", "other", "pair", "loose", "bad"}
         /\ case.file[j].key \in Seq(STRING)
<1> SUFFICES ASSUME case \in Cases
             PROVE  /\ Args \in Seq([text : STRING, flag : STRING, value : STRING])
                    /\ Len(Args) \in Nat /\ Len(case.file) \in Nat /\ Len(case.asked) \in Nat
                    /\ DOMAIN Args = 1..Len(Args) /\ DOMAIN case.file = 1..Len(case.file)
                    /\ DOMAIN case.asked = 1..Len(case.asked)
                    /\ \A j \in 1..Len(case.file) :
                         /\ case.file[j].is \in {"nothing", "cnames", "other", "pair", "loose", "bad"}
                         /\ case.file[j].key \in Seq(STRING)
  OBVIOUS
<1> DEFINE Arg1 == [text : STRING, flag : STRING, value : STRING]
           Line1 == [text : Seq(STRING), is : {"nothing", "cnames", "other", "pair", "loose", "bad"},
                     key : Seq(STRING), value : Seq(STRING), stray : BOOLEAN]
<1>1. Args \in Seq(Arg1) /\ case.file \in Seq(Line1) /\ case.asked \in Seq(STRING)
  BY CasesAssumption DEF Args
<1>2. \A l \in Line1 : /\ l.is \in {"nothing", "cnames", "other", "pair", "loose", "bad"}
                       /\ l.key \in Seq(STRING)
  OBVIOUS
<1> HIDE DEF Arg1, Line1
<1>3. \A j \in 1..Len(case.file) : case.file[j] \in Line1
  BY <1>1, ElementOfSeq
<1>4. /\ Len(Args) \in Nat /\ Len(case.file) \in Nat /\ Len(case.asked) \in Nat
      /\ DOMAIN Args = 1..Len(Args) /\ DOMAIN case.file = 1..Len(case.file)
      /\ DOMAIN case.asked = 1..Len(case.asked)
  BY <1>1
<1> QED
  BY <1>1, <1>2, <1>3, <1>4 DEF Arg1

\* The keys at the margin above a line, and what the last of them is.
Above(j) == {k \in 1..j - 1 : case.file[k].is \in {"cnames", "other"}}
LastOf(above) ==
  IF above = {} THEN "top" ELSE case.file[CHOOSE k \in above : \A l \in above : l <= k].is

\* One line further down, its owner is that line or the same as before.
LEMMA OwnerStep ==
  \A n \in Nat \ {0} :
    Owner(n + 1) = IF case.file[n].is \in {"cnames", "other"} THEN case.file[n].is ELSE Owner(n)
<1> TAKE n \in Nat \ {0}
<1>1. Owner(n) = LastOf(Above(n)) /\ Owner(n + 1) = LastOf(Above(n + 1))
  BY Zenon DEF Owner, LastOf, Above
<1>2. CASE case.file[n].is \in {"cnames", "other"}
  <2>1. n \in Above(n + 1) /\ \A l \in Above(n + 1) : l <= n /\ l \in Nat
    BY <1>2 DEF Above
  <2> DEFINE k == CHOOSE k \in Above(n + 1) : \A l \in Above(n + 1) : l <= k
  <2>2. k \in Above(n + 1) /\ \A l \in Above(n + 1) : l <= k
    BY <2>1
  <2> HIDE DEF k
  <2>3. k = n
    BY <2>1, <2>2
  <2>4. LastOf(Above(n + 1)) = case.file[k].is
    BY <2>1 DEF LastOf, k
  <2> QED
    BY <1>1, <1>2, <2>3, <2>4
<1>3. CASE case.file[n].is \notin {"cnames", "other"}
  <2>1. Above(n + 1) = Above(n)
    BY <1>3 DEF Above
  <2> QED
    BY <1>1, <1>3, <2>1
<1> QED
  BY <1>2, <1>3

\* No line has an owner above the first.
LEMMA OwnerTop == Owner(1) = "top"
<1>1. Above(1) = {}
  BY DEF Above
<1> QED
  BY <1>1 DEF Owner, Above

\* A line of a file without tangled lines is read as it is meant.
LEMMA ClearLine ==
  case \in Cases /\ AtLine /\ next \in Nat \ {0} /\ Clear /\ ReadAsMeant => LineIsRead
<1> SUFFICES ASSUME case \in Cases, AtLine, next \in Nat \ {0}, Clear, ReadAsMeant
             PROVE  LineIsRead
  OBVIOUS
<1>1. next \in DOMAIN case.file
  BY Lists DEF AtLine
<1> QED
  BY <1>1 DEF Clear, ReadAsMeant

\* A line that is read as it is meant is refused by the code just when it is
\* refused by its meaning, and leads to the section of the next.
LEMMA LineIs ==
  case \in Cases /\ AtLine /\ next \in Nat \ {0} /\ section = Owner(next) /\ LineIsRead =>
    /\ BadLine <=> Refused(next)
    /\ ~BadLine => Owner(next + 1) = IF IsTop THEN SectionOf(section) ELSE section
    /\ ~BadLine => (IsUnder /\ section = "cnames" <=>
                      case.file[next].is = "pair" /\ Owner(next) = "cnames")
<1> SUFFICES ASSUME case \in Cases, AtLine, next \in Nat \ {0}, section = Owner(next), LineIsRead
             PROVE  /\ BadLine <=> Refused(next)
                    /\ ~BadLine => Owner(next + 1) = IF IsTop THEN SectionOf(section) ELSE section
                    /\ ~BadLine => (IsUnder /\ section = "cnames" <=>
                                      case.file[next].is = "pair" /\ Owner(next) = "cnames")
  OBVIOUS
<1> DEFINE is == case.file[next].is
<1>1. is = Found
  BY DEF LineIsRead
<1>2. Owner(next + 1) = IF is \in {"cnames", "other"} THEN is ELSE section
  BY OwnerStep
<1>3. Refused(next) <=> \/ is = "bad"
                        \/ is \in {"pair", "loose"} /\ section = "top"
                        \/ is = "loose" /\ section = "cnames"
  BY DEF Refused
<1>0. is = case.file[next].is
  OBVIOUS
<1> HIDE DEF is
<1>4. CASE Nothing
  <2>1. is = "nothing" /\ ~IsTop /\ ~IsUnder /\ ~BadLine
    BY <1>1, <1>4 DEF Found, IsTop, IsUnder, BadLine
  <2> QED
    BY <1>0, <1>2, <1>3, <2>1
<1>5. CASE ~Nothing /\ Head(Line) = Tab
  <2>1. is = "bad" /\ BadLine
    BY <1>1, <1>5 DEF Found, BadLine
  <2> QED
    BY <1>3, <2>1
<1>6. CASE ~Nothing /\ Head(Line) # Tab /\ IsTop
  <2>1. ~IsUnder
    BY <1>6 DEF IsTop, IsUnder, Space
  <2>2. is = IF BadTop THEN "bad" ELSE IF IsCnames THEN "cnames" ELSE "other"
    BY <1>1, <1>6 DEF Found
  <2>3. BadLine <=> BadTop
    BY <1>6, <2>1 DEF BadLine
  <2>4. SectionOf(section) = IF IsCnames THEN "cnames" ELSE "other"
    BY DEF SectionOf
  <2>5. is \in {"bad", "cnames", "other"} /\ (is = "bad" <=> BadTop)
    BY <2>2
  <2>6. BadLine <=> Refused(next)
    BY <1>3, <2>3, <2>5
  <2>7. ~BadTop => is \in {"cnames", "other"} /\ is = SectionOf(section)
    BY <2>2, <2>4
  <2> QED
    BY <1>0, <1>2, <1>6, <2>1, <2>3, <2>5, <2>6, <2>7
<1>7. CASE ~Nothing /\ Head(Line) # Tab /\ ~IsTop
  <2>1. IsUnder
    BY <1>7 DEF IsTop, IsUnder, Space
  <2>2. is = IF Datum = NoText THEN "loose" ELSE "pair"
    BY <1>1, <1>7 DEF Found
  <2>3. BadLine <=> section = "top" \/ (section = "cnames" /\ Datum = NoText)
    BY <1>7, <2>1 DEF BadLine, BadUnder
  <2>4. is \in {"loose", "pair"} /\ (is = "loose" <=> Datum = NoText)
    BY <2>2
  <2>5. BadLine <=> Refused(next)
    BY <1>3, <2>3, <2>4
  <2> QED
    BY <1>0, <1>2, <1>3, <1>7, <2>1, <2>4, <2>5
<1> QED
  BY <1>4, <1>5, <1>6, <1>7

\* FlagPlaces, Owner and Refused of a list of arguments or of lines.
PlacesOf(args) ==
  LET isFlag[p \in DOMAIN args] == p = 1 \/ ~(isFlag[p - 1] /\ args[p - 1].value = None)
  IN  {p \in DOMAIN args : isFlag[p]}
OwnerOf(file, j) ==
  LET above == {k \in 1..j - 1 : file[k].is \in {"cnames", "other"}}
  IN  IF above = {} THEN "top" ELSE file[CHOOSE k \in above : \A l \in above : l <= k].is
RefusedOf(file, j) ==
  \/ file[j].is = "bad"
  \/ file[j].is \in {"pair", "loose"} /\ OwnerOf(file, j) = "top"
  \/ file[j].is = "loose" /\ OwnerOf(file, j) = "cnames"

\* What is meant by a case is the same as long as the case is.
LEMMA SameCase ==
  case' = case =>
    /\ Args' = Args /\ FlagPlaces' = FlagPlaces /\ IsHost' = IsHost /\ (Clear' <=> Clear)
    /\ \A j : Owner(j)' = Owner(j) /\ Refused(j)' = Refused(j)
<1> SUFFICES ASSUME case' = case
             PROVE  /\ Args' = Args /\ FlagPlaces' = FlagPlaces /\ IsHost' = IsHost
                    /\ (Clear' <=> Clear)
                    /\ \A j : Owner(j)' = Owner(j) /\ Refused(j)' = Refused(j)
  OBVIOUS
<1>1. Args' = Args /\ IsHost' = IsHost /\ (Clear' <=> Clear)
  BY DEF Args, IsHost, Clear
<1>2. FlagPlaces = PlacesOf(Args)
  BY Zenon DEF FlagPlaces, PlacesOf
<1>3. FlagPlaces' = PlacesOf(Args')
  BY Zenon DEF FlagPlaces, PlacesOf
<1>4. ASSUME NEW j
      PROVE  Owner(j)' = Owner(j) /\ Refused(j)' = Refused(j)
  <2>1. Owner(j) = OwnerOf(case.file, j) /\ Owner(j)' = OwnerOf(case'.file, j)
    BY Zenon DEF Owner, OwnerOf
  <2>2. Refused(j) = RefusedOf(case.file, j) /\ Refused(j)' = RefusedOf(case'.file, j)
    BY Zenon, <2>1 DEF Refused, RefusedOf
  <2> QED
    BY Zenon, <2>1, <2>2
<1> QED
  BY Zenon, <1>1, <1>2, <1>3, <1>4
\* Until the daemon exits, nothing is blamed.
Running ==
  pc # "exited" => exit = [code |-> None, what |-> None, at |-> 0, short |-> exit.short]

\* The flags up to here are known, and here stands a flag.
FlagsOK ==
  pc = "flags" =>
    /\ section = "top"
    /\ next \in 1..Len(Args) + 1
    /\ next <= Len(Args) => next \in FlagPlaces
    /\ \A p \in FlagPlaces : p < next => Args[p].flag \in Known

\* Without tangled lines: those up to here are not refused, and the section is
\* that of this line.
FileOK ==
  pc = "config" =>
    /\ next \in 1..Len(case.file) + 1
    /\ Clear => section = Owner(next) /\ \A j \in 1..next - 1 : ~Refused(j)

\* The parse of the flags and of the file is on its way, and blames nobody yet
\* or the right one.
BlameInv ==
  /\ case \in Cases
  /\ pc \in {"flags", "env", "config", "server", "peers", "serving", "exited"}
  /\ Running /\ FlagsOK /\ FileOK
  /\ BlamesFirst

\* An exit that blames neither an argument nor a line.
LEMMA BlamesNone ==
  exit.what \notin {"yaml", "unexpected", "unknown", "missing"} => BlamesFirst
BY DEF BlamesFirst

\* The start blames nobody.
LEMMA BlameInit == Init => BlameInv
<1> SUFFICES ASSUME Init PROVE BlameInv
  OBVIOUS
<1>1. exit.what \notin {"yaml", "unexpected", "unknown", "missing"} /\ Running
  BY DEF Init, Running, None
<1>2. case \in Cases /\ pc \in {"flags", "env"} /\ next = 1 /\ section = "top"
  BY DEF Init
<1>3. FlagPlaces \subseteq 1..Len(Args) /\ Len(Args) \in Nat
      /\ (1 <= Len(Args) => 1 \in FlagPlaces)
  BY <1>2, Lists, FlagPlacesIs
<1>4. FlagsOK
  BY <1>2, <1>3 DEF FlagsOK
<1>5. FileOK
  BY <1>2 DEF FileOK
<1> QED
  BY <1>1, <1>2, <1>4, <1>5, BlamesNone DEF BlameInv

\* The next argument to read, after one that is a known flag.
LEMMA NextFlag == BlameInv /\ ReadFlag => FlagsOK'
<1> SUFFICES ASSUME BlameInv, ReadFlag PROVE FlagsOK'
  OBVIOUS
<1>1. /\ pc = "flags" /\ next <= Len(Args) /\ Args[next].flag \in Known
      /\ ~(Args[next].value = None /\ next = Len(Args))
      /\ next' = next + (IF Args[next].value = None THEN 2 ELSE 1)
      /\ section' = section /\ case' = case
  BY DEF ReadFlag, Arg, TakesNext
<1>2. /\ section = "top" /\ next \in 1..Len(Args) + 1 /\ next \in FlagPlaces
      /\ \A p \in FlagPlaces : p < next => Args[p].flag \in Known
  BY <1>1 DEF BlameInv, FlagsOK
<1>3. /\ FlagPlaces \subseteq 1..Len(Args) /\ Len(Args) \in Nat
      /\ \A p \in 1..Len(Args) :
           p \in FlagPlaces <=> p = 1 \/ ~(p - 1 \in FlagPlaces /\ Args[p - 1].value = None)
  BY Lists, FlagPlacesIs DEF BlameInv
<1>4. Args' = Args /\ FlagPlaces' = FlagPlaces
  BY <1>1, SameCase
<1>5. CASE Args[next].value = None
  <2>1. next + 1 \in 1..Len(Args) /\ next + 1 \notin FlagPlaces
    <3>1. next + 1 \in 1..Len(Args) /\ (next + 1) - 1 = next /\ next + 1 # 1
      BY <1>1, <1>2, <1>3, <1>5
    <3> QED
      BY <1>2, <1>3, <1>5, <3>1
  <2>2. next' = next + 2 /\ next + 2 \in 1..Len(Args) + 1
    BY <1>1, <1>2, <1>3, <1>5, <2>1
  <2>3. next + 2 <= Len(Args) => next + 2 \in FlagPlaces
    <3>1. (next + 2) - 1 = next + 1 /\ (next + 2 <= Len(Args) => next + 2 \in 1..Len(Args))
      BY <1>2, <1>3
    <3> QED
      BY <1>3, <2>1, <3>1
  <2>4. \A p \in FlagPlaces : p < next + 2 => p < next \/ p = next
    BY <1>2, <1>3, <2>1
  <2> QED
    BY <1>1, <1>2, <1>4, <2>2, <2>3, <2>4 DEF FlagsOK
<1>6. CASE Args[next].value # None
  <2>1. next' = next + 1 /\ next + 1 \in 1..Len(Args) + 1
    BY <1>1, <1>2, <1>3, <1>6
  <2>2. next + 1 <= Len(Args) => next + 1 \in FlagPlaces
    <3>1. (next + 1) - 1 = next /\ (next + 1 <= Len(Args) => next + 1 \in 1..Len(Args))
      BY <1>2, <1>3
    <3> QED
      BY <1>3, <1>6, <3>1
  <2>3. \A p \in FlagPlaces : p < next + 1 => p < next \/ p = next
    BY <1>2, <1>3
  <2> QED
    BY <1>1, <1>2, <1>4, <2>1, <2>2, <2>3 DEF FlagsOK
<1> QED
  BY <1>5, <1>6

\* The next line to read, after one that is not refused.
LEMMA NextLine == BlameInv /\ ReadAsMeant /\ ReadLine => FileOK'
<1> SUFFICES ASSUME BlameInv, ReadAsMeant, ReadLine PROVE FileOK'
  OBVIOUS
<1>1. /\ AtLine /\ ~BadLine /\ next' = next + 1 /\ case' = case
      /\ section' = IF IsTop THEN SectionOf(section) ELSE section
  BY DEF ReadLine
<1>2. /\ pc = "config" /\ next <= Len(case.file) /\ next \in 1..Len(case.file) + 1
      /\ Clear => section = Owner(next) /\ \A j \in 1..next - 1 : ~Refused(j)
      /\ case \in Cases /\ Len(case.file) \in Nat
  BY <1>1, Lists DEF BlameInv, FileOK, AtLine
<1>3. next \in Nat \ {0}
  BY <1>2
<1>4. Clear => ~Refused(next) /\ section' = Owner(next + 1)
  BY <1>1, <1>2, <1>3, ClearLine, LineIs
<1>5. (Clear' <=> Clear) /\ \A j : Owner(j)' = Owner(j) /\ Refused(j)' = Refused(j)
  BY <1>1, SameCase
<1>6. next' \in 1..Len(case'.file) + 1
  BY <1>1, <1>2
<1>7. Clear => section' = Owner(next)'
  <2>1. (Owner(next))' = OwnerOf(case'.file, next')
    BY Zenon DEF Owner, OwnerOf
  <2>2. Owner(next + 1) = OwnerOf(case.file, next + 1)
    BY Zenon DEF Owner, OwnerOf
  <2> QED
    BY <1>1, <1>4, <2>1, <2>2
<1>8. Clear => \A j \in 1..next' - 1 : ~Refused(j)'
  <2>1. \A j \in 1..next' - 1 : j = next \/ j \in 1..next - 1
    BY <1>1, <1>2
  <2> QED
    BY <1>2, <1>4, <1>5, <2>1
<1> QED
  BY <1>5, <1>6, <1>7, <1>8 DEF FileOK
\* The argument that an exit blames is the first that is wrong.
LEMMA BlameFlag == BlameInv /\ RefuseFlag => BlamesFirst'
<1> SUFFICES ASSUME BlameInv, RefuseFlag PROVE BlamesFirst'
  OBVIOUS
<1>1. /\ pc = "flags" /\ next <= Len(Args) /\ Wrong # None /\ case' = case
      /\ exit' = [code |-> 2, what |-> Wrong, at |-> next, short |-> FALSE]
  BY DEF RefuseFlag, Exit, Leave
<1>2. next \in FlagPlaces /\ \A p \in FlagPlaces : p < next => Args[p].flag \in Known
  BY <1>1 DEF BlameInv, FlagsOK
<1>3. Args' = Args /\ FlagPlaces' = FlagPlaces
  BY <1>1, SameCase
<1>4. exit'.what = Wrong /\ exit'.at = next
  BY <1>1
<1>5. Wrong # "yaml"
  BY DEF Wrong, None
<1>6. /\ Wrong = "missing" <=> Args[next].flag \in Known
      /\ Wrong = "missing" => Args[next].value = None /\ next = Len(Args)
  BY <1>1 DEF Wrong, None, Known, Arg, TakesNext
<1> QED
  BY <1>2, <1>3, <1>4, <1>5, <1>6 DEF BlamesFirst

\* The line that an exit blames is the first that is refused.
LEMMA BlameLine == BlameInv /\ ReadAsMeant /\ RefuseLine => BlamesFirst'
<1> SUFFICES ASSUME BlameInv, ReadAsMeant, RefuseLine PROVE BlamesFirst'
  OBVIOUS
<1>1. /\ AtLine /\ BadLine /\ case' = case
      /\ exit'.what = "yaml" /\ exit'.at = next
  BY DEF RefuseLine, Exit, Leave
<1>2. /\ next \in Nat \ {0} /\ case \in Cases
      /\ Clear => section = Owner(next) /\ \A j \in 1..next - 1 : ~Refused(j)
  BY <1>1, Lists DEF BlameInv, FileOK, AtLine
<1>3. Clear => Refused(next)
  BY <1>1, <1>2, ClearLine, LineIs
<1>4. (Clear' <=> Clear) /\ \A j : Refused(j)' = Refused(j)
  BY <1>1, SameCase
<1>5. Clear => Refused(exit.at)'
  <2>1. Refused(exit.at)' = RefusedOf(case'.file, exit'.at)
    BY Zenon DEF Refused, Owner, RefusedOf, OwnerOf
  <2>2. Refused(next) = RefusedOf(case.file, next)
    BY Zenon DEF Refused, Owner, RefusedOf, OwnerOf
  <2> QED
    BY <1>1, <1>3, <2>1, <2>2
<1>6. Clear => \A j \in 1..exit'.at - 1 : ~Refused(j)'
  BY <1>1, <1>2, <1>4
<1> QED
  BY <1>1, <1>4, <1>5, <1>6 DEF BlamesFirst

\* An exit that blames neither an argument nor a line keeps the invariant.
LEMMA BlameLeave ==
  ASSUME BlameInv, NEW code, NEW what, NEW at, NEW short,
         Leave([code |-> code, what |-> what, at |-> at, short |-> short]),
         what \notin {"yaml", "unexpected", "unknown", "missing"} \/ (what = "yaml" /\ short = TRUE)
  PROVE  BlameInv'
<1>1. pc' = "exited" /\ case' = case /\ exit'.what = what /\ exit'.short = short
  BY DEF Leave
<1>2. BlamesFirst'
  BY <1>1 DEF BlamesFirst
<1>3. Running' /\ FlagsOK' /\ FileOK'
  BY <1>1 DEF Running, FlagsOK, FileOK
<1> QED
  BY <1>1, <1>2, <1>3 DEF BlameInv

\* A step of the start-up keeps the invariant.
LEMMA BlameNext == BlameInv /\ ReadAsMeant /\ [Next]_vars => BlameInv'
<1> SUFFICES ASSUME BlameInv, ReadAsMeant, [Next]_vars PROVE BlameInv'
  OBVIOUS
<1> USE DEF None
<1>1. case \in Cases /\ Running /\ FlagsOK /\ FileOK /\ BlamesFirst
  BY DEF BlameInv
<1>2. ASSUME case' = case, pc # "exited", pc' # "exited", exit' = exit,
             pc' \in {"flags", "config", "server", "peers", "serving"}, FlagsOK', FileOK'
      PROVE  BlameInv'
  <2>1. exit = [code |-> None, what |-> None, at |-> 0, short |-> exit.short]
    BY <1>1, <1>2 DEF Running
  <2>2. exit'.what = None
    BY <1>2, <2>1
  <2>3. BlamesFirst' /\ Running'
    BY <1>2, <2>1, <2>2 DEF BlamesFirst, Running
  <2> QED
    BY <1>1, <1>2, <2>3 DEF BlameInv
<1>3. CASE ReadFlag
  <2>1. case' = case /\ pc = "flags" /\ pc' = "flags" /\ exit' = exit
    BY <1>3 DEF ReadFlag
  <2>2. FlagsOK'
    BY <1>3, NextFlag
  <2>3. FileOK'
    BY <2>1 DEF FileOK
  <2> QED
    BY <1>2, <2>1, <2>2, <2>3
<1>4. CASE RefuseFlag
  <2>1. pc' = "exited" /\ case' = case
    BY <1>4 DEF RefuseFlag, Exit, Leave
  <2>2. Running' /\ FlagsOK' /\ FileOK'
    BY <2>1 DEF Running, FlagsOK, FileOK
  <2> QED
    BY <1>1, <1>4, <2>1, <2>2, BlameFlag DEF BlameInv
<1>5. CASE Help \/ NoPeer \/ NoFile \/ NoNetwork \/ NoSocket \/ NoWatcher \/ NoSocketLeft
  <2>1. CASE Help
    BY <2>1, BlameLeave DEF Help, Exit
  <2>2. CASE NoPeer
    BY <2>2, BlameLeave DEF NoPeer, Exit
  <2>3. CASE NoFile
    BY <2>3, BlameLeave DEF NoFile, Exit
  <2>4. CASE NoNetwork
    BY <2>4, BlameLeave DEF NoNetwork, Exit
  <2>5. CASE NoSocket
    BY <2>5, BlameLeave DEF NoSocket, Exit
  <2>6. CASE NoWatcher
    BY <2>6, BlameLeave DEF NoWatcher, Exit
  <2>7. CASE NoSocketLeft
    BY <2>7, BlameLeave DEF NoSocketLeft, Exit
  <2> QED
    BY <1>5, <2>1, <2>2, <2>3, <2>4, <2>5, <2>6, <2>7
<1>6. CASE FlagsDone
  <2>1. /\ case' = case /\ pc = "flags" /\ pc' \in {"server", "config"} /\ exit' = exit
        /\ next' = 1 /\ section' = section
    BY <1>6 DEF FlagsDone
  <2>2. section' = "top" /\ Len(case.file) \in Nat
    BY <1>1, <2>1, Lists DEF FlagsOK
  <2>3. Owner(next)' = "top"
    <3>1. Owner(next)' = OwnerOf(case'.file, next')
      BY Zenon DEF Owner, OwnerOf
    <3>2. Owner(1) = OwnerOf(case.file, 1)
      BY Zenon DEF Owner, OwnerOf
    <3> QED
      BY <2>1, <3>1, <3>2, OwnerTop
  <2>4. FileOK' /\ FlagsOK'
    BY <2>1, <2>2, <2>3 DEF FileOK, FlagsOK
  <2> QED
    BY <1>2, <2>1, <2>4
<1>7. CASE ReadLine
  <2>1. case' = case /\ pc = "config" /\ pc' = "config" /\ exit' = exit
    BY <1>7 DEF ReadLine, AtLine
  <2>2. FlagsOK'
    BY <2>1 DEF FlagsOK
  <2> QED
    BY <1>2, <1>7, <2>1, <2>2, NextLine
<1>8. CASE RefuseLine
  <2>1. pc' = "exited" /\ case' = case
    BY <1>8 DEF RefuseLine, Exit, Leave
  <2>2. Running' /\ FlagsOK' /\ FileOK'
    BY <2>1 DEF Running, FlagsOK, FileOK
  <2> QED
    BY <1>1, <1>8, <2>1, <2>2, BlameLine DEF BlameInv
<1>9. CASE FileDone \/ ReadEnv \/ Bind \/ Watch \/ Serve
  <2>1. /\ case' = case /\ pc # "exited" /\ pc' \in {"server", "peers", "serving"}
        /\ exit' = exit
    BY <1>9 DEF FileDone, ReadEnv, Bind, Watch, Serve, AtPeer
  <2>2. FlagsOK' /\ FileOK'
    BY <2>1 DEF FlagsOK, FileOK
  <2> QED
    BY <1>2, <2>1, <2>2
<1>10. CASE SkipPeer
  <2>1. case' = case /\ pc = "peers" /\ pc' = "peers" /\ \E b : exit' = [exit EXCEPT !.short = b]
    BY <1>10 DEF SkipPeer, AtPeer
  <2>2. exit = [code |-> None, what |-> None, at |-> 0, short |-> exit.short]
    BY <1>1, <2>1 DEF Running
  <2>3. exit' = [code |-> None, what |-> None, at |-> 0, short |-> exit'.short]
    BY <2>1, <2>2
  <2>4. exit'.what = None
    BY <2>3
  <2>5. BlamesFirst' /\ Running' /\ FlagsOK' /\ FileOK'
    BY <2>1, <2>3, <2>4 DEF BlamesFirst, Running, FlagsOK, FileOK
  <2> QED
    BY <1>1, <2>1, <2>5 DEF BlameInv
<1>11. CASE NoMemory
  <2>1. \/ Short(IF pc = "flags" THEN 2 ELSE 1, "memory", 0)
        \/ Short(1, "yaml", next)
    BY <1>11 DEF NoMemory
  <2>2. CASE Short(IF pc = "flags" THEN 2 ELSE 1, "memory", 0)
    BY <2>2, BlameLeave DEF Short
  <2>3. CASE Short(1, "yaml", next)
    BY <2>3, BlameLeave DEF Short
  <2> QED
    BY <2>1, <2>2, <2>3
<1>12. CASE UNCHANGED vars
  <2>1. case' = case /\ pc' = pc /\ next' = next /\ section' = section /\ exit' = exit
    BY <1>12 DEF vars
  <2>2. /\ Args' = Args /\ FlagPlaces' = FlagPlaces /\ (Clear' <=> Clear)
        /\ \A j : Owner(j)' = Owner(j) /\ Refused(j)' = Refused(j)
    BY <2>1, SameCase
  <2>3. Owner(next)' = Owner(next)
    <3>1. Owner(next) = OwnerOf(case.file, next) /\ Owner(next)' = OwnerOf(case'.file, next')
      BY Zenon DEF Owner, OwnerOf
    <3> QED
      BY <2>1, <3>1
  <2>4. Refused(exit.at)' = Refused(exit.at)
    <3>1. /\ Refused(exit.at) = RefusedOf(case.file, exit.at)
          /\ Refused(exit.at)' = RefusedOf(case'.file, exit'.at)
      BY Zenon DEF Refused, RefusedOf, Owner, OwnerOf
    <3> QED
      BY <2>1, <3>1
  <2>5. Running' /\ FlagsOK' /\ FileOK'
    BY <1>1, <2>1, <2>2, <2>3 DEF Running, FlagsOK, FileOK
  <2>6. BlamesFirst'
    BY <1>1, <2>1, <2>2, <2>4 DEF BlamesFirst
  <2> QED
    BY <2>1, <2>5, <2>6 DEF BlameInv
<1> QED
  BY <1>3, <1>4, <1>5, <1>6, <1>7, <1>8, <1>9, <1>10, <1>11, <1>12 DEF Next

\* main and Config::parse: when every line that is not tangled is read as its
\* writer means it, and no line of the file is tangled, an exit blames the first
\* argument or line that is wrong, also where a flag takes the next argument
\* and where sections follow each other.
THEOREM BlamesTheorem == Spec /\ []ReadAsMeant => []BlamesFirst
<1>1. Init => BlameInv
  BY BlameInit
<1>2. BlameInv /\ ReadAsMeant /\ [Next]_vars => BlameInv'
  BY BlameNext
<1>3. BlameInv => BlamesFirst
  BY DEF BlameInv
<1> QED
  BY <1>1, <1>2, <1>3, PTL DEF Spec
-----------------------------------------------------------------------------
(* The tables hold what the file means.                                    *)

Empty == [exact |-> NoNames, wild |-> NoNames]

\* The tables of a list of entries.
TablesOf(list) == FoldLeft(Enter, Empty, list)

\* The greatest of a set of numbers up to k that has k.
LEMMA TopOf ==
  ASSUME NEW k \in Nat \ {0}, NEW s, s \subseteq 1..k, k \in s
  PROVE  Max(s) = k
<1>1. k \in s /\ \A y \in s : k >= y
  OBVIOUS
<1>2. \A x \in s : (\A y \in s : x >= y) => x = k
  OBVIOUS
<1> QED
  BY <1>1, <1>2 DEF Max

\* The fold of TablesOf, for the entries up to n.
FoldOf(list, n, h) ==
  h = [s \in SUBSET (1..n) |->
         IF s = {} THEN Empty ELSE Enter(h[s \ {Max(s)}], list[Max(s)])]

\* The recursion of the fold has a solution.
LEMMA FoldExists ==
  ASSUME NEW list, NEW n \in Nat
  PROVE  \E h : FoldOf(list, n, h)
<1> DEFINE S == {k \in 0..n : \E h : FoldOf(list, k, h)}
<1>1. 0 \in S
  <2> DEFINE h == [s \in SUBSET (1..0) |-> Empty]
  <2>1. h = [s \in SUBSET (1..0) |->
               IF s = {} THEN Empty ELSE Enter(h[s \ {Max(s)}], list[Max(s)])]
    <3>1. \A s \in SUBSET (1..0) : s = {}
      OBVIOUS
    <3> QED
      BY <3>1
  <2> HIDE DEF h
  <2>2. FoldOf(list, 0, h)
    BY <2>1 DEF FoldOf
  <2> QED
    BY <2>2
<1>2. ASSUME NEW k \in 1..n, k - 1 \in S
      PROVE  k \in S
  <2>1. PICK h : FoldOf(list, k - 1, h)
    BY <1>2
  <2> DEFINE Step(f, s) == IF s = {} THEN Empty ELSE Enter(f[s \ {Max(s)}], list[Max(s)])
             g == [s \in SUBSET (1..k) |-> IF s \in SUBSET (1..k - 1) THEN h[s] ELSE Step(h, s)]
  <2>2. \A s \in SUBSET (1..k - 1) : h[s] = Step(h, s)
    BY <2>1 DEF FoldOf
  <2>3. ASSUME NEW s \in SUBSET (1..k), s # {}
        PROVE  s \ {Max(s)} \in SUBSET (1..k - 1)
    <3>0. s \subseteq 1..k /\ k \in Nat \ {0}
      OBVIOUS
    <3>1. CASE k \in s
      <4>1. Max(s) = k
        BY <3>0, <3>1, TopOf
      <4> QED
        BY <3>0, <4>1
    <3>2. CASE k \notin s
      <4>1. s \subseteq 1..k - 1
        BY <3>0, <3>2
      <4> QED
        BY <4>1
    <3> QED
      BY <3>1, <3>2
  <2>4. SUBSET (1..k - 1) \subseteq SUBSET (1..k)
    OBVIOUS
  <2>5. \A s \in SUBSET (1..k - 1) : g[s] = h[s]
    BY <2>4
  <2>6. \A s \in SUBSET (1..k) : g[s] = Step(h, s)
    BY <2>2, <2>4
  <2>7. g = [s \in SUBSET (1..k) |-> g[s]]
    OBVIOUS
  <2> HIDE DEF g
  <2>8. \A s \in SUBSET (1..k) : s # {} => g[s \ {Max(s)}] = h[s \ {Max(s)}]
    BY <2>3, <2>5
  <2>9. \A s \in SUBSET (1..k) : g[s] = Step(g, s)
    BY <2>6, <2>8
  <2>10. FoldOf(list, k, g)
    BY Zenon, <2>7, <2>9 DEF FoldOf
  <2> QED
    BY <2>10
<1>3. 0..n \subseteq S
  <2> HIDE DEF S
  <2> QED
    BY <1>1, <1>2, Induct
<1>4. n \in 0..n
  OBVIOUS
<1> QED
  BY <1>3, <1>4

\* The tables after each entry of a list.
Turns(list, turn) ==
  /\ turn[0] = Empty
  /\ \A k \in 1..Len(list) : turn[k] = Enter(turn[k - 1], list[k])
  /\ TablesOf(list) = turn[Len(list)]

\* One entry after the other is entered.
LEMMA FoldTurns ==
  ASSUME NEW S, NEW list \in Seq(S)
  PROVE  \E turn : Turns(list, turn)
<1> DEFINE n == Len(list)
           h == CHOOSE g : g = [s \in SUBSET DOMAIN list |->
                   IF s = {} THEN Empty ELSE Enter(g[s \ {Max(s)}], list[Max(s)])]
           turn == [k \in 0..n |-> h[1..k]]
<1>1. n \in Nat /\ DOMAIN list = 1..n
  OBVIOUS
<1>2. TablesOf(list) = h[DOMAIN list]
  BY Zenon DEF TablesOf, FoldLeft, MapThenFoldSet
<1>3. h = [s \in SUBSET DOMAIN list |->
             IF s = {} THEN Empty ELSE Enter(h[s \ {Max(s)}], list[Max(s)])]
  <2>1. PICK g : FoldOf(list, n, g)
    BY <1>1, FoldExists
  <2>2. g = [s \in SUBSET DOMAIN list |->
               IF s = {} THEN Empty ELSE Enter(g[s \ {Max(s)}], list[Max(s)])]
    BY Zenon, <1>1, <2>1 DEF FoldOf
  <2> QED
    BY Zenon, <2>2
<1> HIDE DEF h
<1>4. turn[0] = Empty
  <2>1. 1..0 = {} /\ 0 \in 0..n
    BY <1>1
  <2> QED
    BY <1>3, <2>1
<1>5. ASSUME NEW k \in 1..n
      PROVE  turn[k] = Enter(turn[k - 1], list[k])
  <2>1. /\ 1..k \in SUBSET DOMAIN list /\ 1..k # {} /\ k \in 0..n /\ k - 1 \in 0..n
        /\ (1..k) \ {k} = 1..k - 1
    BY <1>1
  <2>2. Max(1..k) = k
    BY TopOf
  <2>3. h[1..k] = Enter(h[(1..k) \ {Max(1..k)}], list[Max(1..k)])
    BY <1>3, <2>1
  <2> QED
    BY <2>1, <2>2, <2>3
<1>6. TablesOf(list) = turn[n]
  BY <1>1, <1>2
<1> HIDE DEF turn
<1>7. Turns(list, turn)
  BY <1>4, <1>5, <1>6 DEF Turns
<1> QED
  BY <1>7

\* An entry more is entered last.
LEMMA FoldAppend ==
  ASSUME NEW S, NEW list \in Seq(S), NEW entry \in S
  PROVE  TablesOf(Append(list, entry)) = Enter(TablesOf(list), entry)
<1> DEFINE n == Len(list)
           longer == Append(list, entry)
<1>1. PICK one : Turns(list, one)
  BY FoldTurns
<1>2. /\ longer \in Seq(S) /\ Len(longer) = n + 1 /\ n \in Nat /\ longer[n + 1] = entry
      /\ \A k \in 1..n : longer[k] = list[k]
  BY AppendProperties
<1>3. PICK two : Turns(longer, two)
  BY <1>2, FoldTurns
<1>4. one[n] = two[n]
  <2> DEFINE T == {k \in 0..n : one[k] = two[k]}
  <2>1. 0 \in T
    BY <1>1, <1>2, <1>3 DEF Turns
  <2>2. \A k \in 1..n : k - 1 \in T => k \in T
    BY <1>1, <1>2, <1>3 DEF Turns
  <2> HIDE DEF T
  <2>3. 0..n \subseteq T
    BY <1>2, <2>1, <2>2, Induct
  <2> QED
    BY <1>2, <2>3 DEF T
<1>5. two[n + 1] = Enter(two[n], entry)
  <2>1. n + 1 \in 1..Len(longer) /\ (n + 1) - 1 = n
    BY <1>2
  <2> QED
    BY <1>2, <1>3, <2>1 DEF Turns
<1>6. TablesOf(longer) = two[n + 1] /\ TablesOf(list) = one[n]
  BY <1>1, <1>2, <1>3 DEF Turns
<1> QED
  BY <1>4, <1>5, <1>6

\* Without entries the tables are empty.
LEMMA FoldEmpty == TablesOf(<<>>) = Empty
<1>1. <<>> \in Seq({}) /\ Len(<<>>) = 0
  OBVIOUS
<1>2. PICK turn : Turns(<<>>, turn)
  BY <1>1, FoldTurns
<1> QED
  BY <1>1, <1>2 DEF Turns

\* Some number of a set is the least.
LEMMA Least ==
  ASSUME NEW T, T \subseteq Nat, T # {}
  PROVE  Min(T) \in T /\ \A k \in T : Min(T) <= k
<1>1. PICK m \in T : \A k \in T : ~(<<k, m>> \in OpToRel(<, Nat))
  BY WFMin, NatLessThanWellFounded
<1>2. \A k \in T : ~(k < m)
  BY <1>1 DEF OpToRel
<1>3. \A k \in T : m <= k
  BY <1>2
<1> QED
  BY <1>3 DEF Min

\* Some number of a set that is bounded is the greatest.
LEMMA Greatest ==
  ASSUME NEW n \in Nat, NEW T, T \subseteq 0..n, T # {}
  PROVE  Max(T) \in T /\ \A k \in T : k <= Max(T)
<1> DEFINE U == {n - k : k \in T}
<1>1. U \subseteq Nat /\ U # {}
  <2>1. \A k \in T : k \in Nat /\ n - k \in Nat
    OBVIOUS
  <2> QED
    BY <2>1
<1>2. Min(U) \in U /\ \A u \in U : Min(U) <= u
  <2> HIDE DEF U
  <2> QED
    BY <1>1, Least
<1>3. PICK m \in T : Min(U) = n - m
  BY <1>2
<1>4. \A k \in T : n - k \in U
  OBVIOUS
<1> HIDE DEF U
<1>5. \A k \in T : m >= k
  BY <1>2, <1>3, <1>4
<1> QED
  BY <1>5 DEF Max

\* The last place in a text where a test holds is a place, or 0.
LEMMA TrimEndSeq ==
  ASSUME NEW S, NEW text \in Seq(S)
  PROVE  TrimEnd(text) \in Seq(S)
<1> DEFINE I == {i \in 1..Len(text) : text[i] \notin Space}
           last == IF I # {} THEN Max(I) ELSE 0
<1>1. TrimEnd(text) = SubSeq(text, 1, last)
  BY DEF TrimEnd, SelectLastInSeq
<1>2. last \in 0..Len(text)
  <2>1. CASE I = {}
    BY <2>1
  <2>2. CASE I # {}
    <3>1. I \subseteq 1..Len(text) /\ Len(text) \in Nat
      OBVIOUS
    <3>2. I \subseteq 0..Len(text)
      BY <3>1
    <3> HIDE DEF I
    <3>3. Max(I) \in I
      BY <2>2, <3>1, <3>2, Greatest
    <3>4. Max(I) \in 0..Len(text)
      BY <3>2, <3>3
    <3> QED
      BY <2>2, <3>4
  <2> QED
    BY <2>1, <2>2
<1> HIDE DEF last
<1>3. Len(text) \in Nat /\ \A i \in 1..last : text[i] \in S
  BY <1>2
<1> QED
  BY <1>1, <1>2, <1>3, SubSeqProperties

\* A text without what it starts and ends with is a text.
LEMMA TrimSeq ==
  ASSUME NEW S, NEW text \in Seq(S)
  PROVE  Trim(text) \in Seq(S)
<1> DEFINE t == TrimEnd(text)
           I == {i \in 1..Len(t) : t[i] \notin Space}
           first == IF I # {} THEN Min(I) ELSE 0
<1>1. t \in Seq(S)
  BY TrimEndSeq
<1>2. Trim(text) = IF first = 0 THEN <<>> ELSE SubSeq(t, first, Len(t))
  BY DEF Trim, TrimStart, SelectInSeq
<1> HIDE DEF t
<1>3. Len(t) \in Nat /\ first \in 0..Len(t)
  <2>1. Len(t) \in Nat /\ I \subseteq Nat
    BY <1>1
  <2>2. CASE I = {}
    BY <2>1, <2>2
  <2>3. CASE I # {}
    <3>1. I \subseteq 1..Len(t)
      OBVIOUS
    <3> HIDE DEF I
    <3>2. Min(I) \in I
      BY <2>1, <2>3, Least
    <3>3. Min(I) \in 1..Len(t)
      BY Zenon, <3>1, <3>2
    <3>4. Min(I) \in 0..Len(t)
      BY <2>1, <3>3
    <3> QED
      BY <2>3, <3>4
  <2> QED
    BY <2>2, <2>3
<1> HIDE DEF first
<1>4. first # 0 => \A i \in first..Len(t) : t[i] \in S
  BY <1>1, <1>3
<1>5. first # 0 => SubSeq(t, first, Len(t)) \in Seq(S)
  BY <1>3, <1>4, SubSeqProperties
<1> QED
  BY <1>2, <1>5

\* The key of a name is a text.
LEMMA KeySeq ==
  ASSUME NEW S, NEW name \in Seq(S)
  PROVE  \E R : KeyOf(name) \in Seq(R)
<1> DEFINE t == Trim(name)
           bare == IF EndsWith(t, ".") THEN Front(t) ELSE t
<1>1. KeyOf(name) = [i \in DOMAIN bare |-> Lower(bare[i])]
  BY DEF KeyOf
<1>2. t \in Seq(S)
  BY TrimSeq
<1> HIDE DEF t
<1>3. bare \in Seq(S)
  <2>1. t # <<>> => Front(t) \in Seq(S)
    <3>1. Len(t) \in Nat /\ \A i \in 1..Len(t) - 1 : t[i] \in S
      BY <1>2
    <3> QED
      BY <3>1, SubSeqProperties DEF Front
  <2> QED
    BY <1>2, <2>1 DEF EndsWith
<1> HIDE DEF bare
<1>4. PICK n \in Nat : DOMAIN bare = 1..n
  BY <1>3
<1> DEFINE R == {Lower(bare[i]) : i \in 1..n}
<1>5. KeyOf(name) \in [1..n -> R]
  BY <1>1, <1>4
<1> HIDE DEF R
<1>6. KeyOf(name) \in Seq(R)
  BY <1>4, <1>5, SeqDef
<1> QED
  BY <1>6

\* What CNAMEs::new takes for a wildcard, and the name behind its star.
IsStar(name)  == IsPrefix(<<"*", ".">>, name) /\ Len(name) > 2
Behind(name)  == SubSeq(name, 3, Len(name))
Starred(name) == <<"*", ".">> \o name

\* A wildcard is a star in front of its parent.
LEMMA StarBehind ==
  ASSUME NEW S, NEW name \in Seq(S), IsStar(name)
  PROVE  Starred(Behind(name)) = name
<1> DEFINE R == S \cup {"*", "."}
           two == <<"*", ".">>
<1>1. two \in Seq(R) /\ name \in Seq(R) /\ Len(two) = 2 /\ Len(name) \in Nat /\ Len(name) > 2
  BY DEF IsStar
<1>2. SubSeq(two, 1, 2) = SubSeq(name, 1, 2)
  BY <1>1 DEF IsStar, IsPrefix
<1>3. name[1] = two[1] /\ name[2] = two[2]
  <2>1. SubSeq(two, 1, 2)[1] = two[1] /\ SubSeq(two, 1, 2)[2] = two[2]
    BY <1>1
  <2>2. SubSeq(name, 1, 2)[1] = name[1] /\ SubSeq(name, 1, 2)[2] = name[2]
    BY <1>1
  <2> QED
    BY <1>2, <2>1, <2>2
<1>4. /\ Behind(name) \in Seq(R) /\ Len(Behind(name)) = Len(name) - 2
      /\ \A i \in 1..Len(name) - 2 : Behind(name)[i] = name[i + 2]
  <2>1. \A i \in 3..Len(name) : name[i] \in R
    BY <1>1
  <2>2. /\ Behind(name) \in Seq(R)
        /\ Len(Behind(name)) = IF 3 <= Len(name) THEN Len(name) - 3 + 1 ELSE 0
        /\ \A i \in 1..Len(name) - 3 + 1 : Behind(name)[i] = name[3 + i - 1]
    BY <1>1, <2>1, SubSeqProperties DEF Behind
  <2> QED
    BY <1>1, <2>2
<1> HIDE DEF R
<1>5. /\ Starred(Behind(name)) \in Seq(R) /\ Len(Starred(Behind(name))) = Len(name)
      /\ \A i \in 1..Len(name) :
           Starred(Behind(name))[i] = IF i <= 2 THEN two[i] ELSE Behind(name)[i - 2]
  <2> HIDE DEF two
  <2>1. Starred(Behind(name)) = two \o Behind(name)
    BY DEF Starred, two
  <2>2. /\ two \o Behind(name) \in Seq(R) /\ Len(two \o Behind(name)) = 2 + Len(Behind(name))
        /\ \A i \in 1..2 + Len(Behind(name)) : (two \o Behind(name))[i] =
             IF i <= 2 THEN two[i] ELSE Behind(name)[i - 2]
    <3> HIDE DEF two
    <3>1. \A s \in Seq(R) : /\ two \o s \in Seq(R) /\ Len(two \o s) = Len(two) + Len(s)
                             /\ \A i \in 1..Len(two) + Len(s) : (two \o s)[i] =
                                  IF i <= Len(two) THEN two[i] ELSE s[i - Len(two)]
      BY <1>1, ConcatProperties
    <3> QED
      BY <1>1, <1>4, <3>1
  <2> QED
    BY <1>1, <1>4, <2>1, <2>2
<1>6. \A i \in 1..Len(name) : Starred(Behind(name))[i] = name[i]
  <2> TAKE i \in 1..Len(name)
  <2>1. CASE i = 1 \/ i = 2
    BY <1>1, <1>3, <1>5, <2>1
  <2>2. CASE i > 2
    BY <1>1, <1>4, <1>5, <2>2
  <2> QED
    BY <1>1, <2>1, <2>2
<1> QED
  BY <1>1, <1>5, <1>6, SeqEqual
\* A pair under cnames with a name and a target, up to a line of a file.
NameAt(file, j)   == KeyOf(file[j].key)
TargetAt(file, j) == Fqdn(file[j].value)
PairAt(file, j)   == file[j].is = "pair" /\ OwnerOf(file, j) = "cnames"
MeantTo(file, n)  ==
  {j \in 1..n - 1 : PairAt(file, j) /\ NameAt(file, j) # <<>> /\ Trim(file[j].value) # <<>>}

\* The last pair up to a line with a name and a target.
LastPair(file, n, name, target, j) ==
  /\ NameAt(file, j) = name /\ target = TargetAt(file, j)
  /\ \A k \in MeantTo(file, n) : NameAt(file, k) = name => k <= j

\* The tables that the lines up to n mean.
Exacts(file, t, n) ==
  \A name \in DOMAIN t.exact :
    ~IsStar(name) /\ \E j \in MeantTo(file, n) : LastPair(file, n, name, t.exact[name], j)
Wilds(file, t, n) ==
  \A name \in DOMAIN t.wild :
    /\ IsStar(Starred(name)) /\ Behind(Starred(name)) = name
    /\ \E j \in MeantTo(file, n) : LastPair(file, n, Starred(name), t.wild[name], j)
AsMeant(file, t, n) ==
  /\ t = [exact |-> t.exact, wild |-> t.wild]
  /\ Exacts(file, t, n) /\ Wilds(file, t, n)
  /\ \A j \in MeantTo(file, n) : NameAt(file, j) \in DOMAIN t.exact
                                    \cup {Starred(name) : name \in DOMAIN t.wild}

\* A line that is no pair, or one without a name or a target, means nothing.
LEMMA MeansNothing ==
  ASSUME NEW file, NEW n \in Nat \ {0}, NEW t, AsMeant(file, t, n),
         ~(PairAt(file, n) /\ NameAt(file, n) # <<>> /\ Trim(file[n].value) # <<>>)
  PROVE  AsMeant(file, t, n + 1)
<1>1. MeantTo(file, n + 1) = MeantTo(file, n)
  BY DEF MeantTo
<1>2. \A name, target, j :
        LastPair(file, n + 1, name, target, j) <=> LastPair(file, n, name, target, j)
  BY <1>1 DEF LastPair
<1> QED
  BY <1>1, <1>2 DEF AsMeant, Exacts, Wilds

\* A pair is entered as it is meant, in the place of another of its name.
LEMMA MeansPair ==
  ASSUME NEW file, NEW n \in Nat \ {0}, NEW t, AsMeant(file, t, n),
         NEW S, file[n].key \in Seq(S),
         PairAt(file, n), NEW entry,
         KeyOf(entry.key) = NameAt(file, n), entry.value = file[n].value
  PROVE  AsMeant(file, Enter(t, entry), n + 1)
<1> DEFINE name   == NameAt(file, n)
           target == TargetAt(file, n)
           to     == Enter(t, entry)
<1>1. CASE ~(name # <<>> /\ Trim(file[n].value) # <<>>)
  <2>1. to = t
    BY <1>1 DEF Enter
  <2> QED
    BY <1>1, <2>1, MeansNothing
<1>2. CASE name # <<>> /\ Trim(file[n].value) # <<>>
  <2>0. /\ t = [exact |-> t.exact, wild |-> t.wild]
        /\ \A x \in DOMAIN t.exact :
             ~IsStar(x) /\ \E j \in MeantTo(file, n) : LastPair(file, n, x, t.exact[x], j)
        /\ \A x \in DOMAIN t.wild :
             /\ IsStar(Starred(x)) /\ Behind(Starred(x)) = x
             /\ \E j \in MeantTo(file, n) : LastPair(file, n, Starred(x), t.wild[x], j)
        /\ \A j \in MeantTo(file, n) : NameAt(file, j) \in DOMAIN t.exact
                                          \cup {Starred(x) : x \in DOMAIN t.wild}
    BY DEF AsMeant, Exacts, Wilds
  <2>1. MeantTo(file, n + 1) = MeantTo(file, n) \cup {n}
    BY <1>2 DEF MeantTo
  <2>2. \A j \in MeantTo(file, n) : j \in Nat /\ j < n
    BY DEF MeantTo
  <2>3. LastPair(file, n + 1, name, target, n)
    BY <2>1, <2>2 DEF LastPair
  <2>4. ASSUME NEW x, x # name, NEW y, NEW j \in MeantTo(file, n), LastPair(file, n, x, y, j)
        PROVE  j \in MeantTo(file, n + 1) /\ LastPair(file, n + 1, x, y, j)
    BY <2>1, <2>4 DEF LastPair
  <2>5. /\ IsStar(name) => to = [t EXCEPT !.wild = Put(t.wild, Behind(name), target)]
        /\ ~IsStar(name) => to = [t EXCEPT !.exact = Put(t.exact, name, target)]
    BY <1>2 DEF Enter, IsStar, Behind, NameAt, TargetAt
  <2>6. \E R : name \in Seq(R)
    BY KeySeq DEF NameAt
  <2>7. n \in MeantTo(file, n + 1)
    BY <2>1
  <2> HIDE DEF name, target, to
  <2>8. CASE IsStar(name)
    <3> DEFINE wild == Put(t.wild, Behind(name), target)
    <3>1. to = [exact |-> t.exact, wild |-> wild]
      BY <2>0, <2>5, <2>8
    <3>2. /\ DOMAIN wild = DOMAIN t.wild \cup {Behind(name)} /\ wild[Behind(name)] = target
          /\ \A x \in DOMAIN t.wild : x # Behind(name) => wild[x] = t.wild[x]
      BY DEF Put
    <3>3. Starred(Behind(name)) = name
      BY <2>6, <2>8, StarBehind
    <3> HIDE DEF wild
    <3>4. to.exact = t.exact /\ to.wild = wild
      BY <3>1
    <3>5. Exacts(file, to, n + 1)
      <4>1. \A x \in DOMAIN t.exact : x # name
        BY <2>0, <2>8
      <4> QED
        BY <2>0, <2>4, <3>4, <4>1 DEF Exacts
    <3>6. Wilds(file, to, n + 1)
      <4>1. \A x \in DOMAIN t.wild : x # Behind(name) => Starred(x) # name
        BY <2>0, <3>3
      <4>2. ASSUME NEW x \in DOMAIN wild
            PROVE  /\ IsStar(Starred(x)) /\ Behind(Starred(x)) = x
                   /\ \E j \in MeantTo(file, n + 1) :
                        LastPair(file, n + 1, Starred(x), wild[x], j)
        <5>1. CASE x = Behind(name)
          BY <2>3, <2>7, <2>8, <3>2, <3>3, <5>1
        <5>2. CASE x # Behind(name)
          BY <2>0, <2>4, <3>2, <4>1, <5>2
        <5> QED
          BY <5>1, <5>2
      <4> QED
        BY <3>4, <4>2 DEF Wilds
    <3>7. \A j \in MeantTo(file, n + 1) :
            NameAt(file, j) \in DOMAIN to.exact \cup {Starred(x) : x \in DOMAIN to.wild}
      BY <2>0, <2>1, <3>2, <3>3, <3>4 DEF name
    <3>8. to = [exact |-> to.exact, wild |-> to.wild]
      BY <3>1, <3>4
    <3> QED
      BY Zenon, <3>5, <3>6, <3>7, <3>8 DEF AsMeant, to
  <2>9. CASE ~IsStar(name)
    <3> DEFINE exact == Put(t.exact, name, target)
    <3>1. to = [exact |-> exact, wild |-> t.wild]
      BY <2>0, <2>5, <2>9
    <3>2. /\ DOMAIN exact = DOMAIN t.exact \cup {name} /\ exact[name] = target
          /\ \A x \in DOMAIN t.exact : x # name => exact[x] = t.exact[x]
      BY DEF Put
    <3> HIDE DEF exact
    <3>3. to.exact = exact /\ to.wild = t.wild
      BY <3>1
    <3>4. Exacts(file, to, n + 1)
      <4>1. ASSUME NEW x \in DOMAIN exact
            PROVE  /\ ~IsStar(x)
                   /\ \E j \in MeantTo(file, n + 1) : LastPair(file, n + 1, x, exact[x], j)
        <5>1. CASE x = name
          BY <2>3, <2>7, <2>9, <3>2, <5>1
        <5>2. CASE x # name
          BY <2>0, <2>4, <3>2, <5>2
        <5> QED
          BY <5>1, <5>2
      <4> QED
        BY <3>3, <4>1 DEF Exacts
    <3>5. Wilds(file, to, n + 1)
      <4>1. \A x \in DOMAIN t.wild : Starred(x) # name
        BY <2>0, <2>9
      <4> QED
        BY <2>0, <2>4, <3>3, <4>1 DEF Wilds
    <3>6. \A j \in MeantTo(file, n + 1) :
            NameAt(file, j) \in DOMAIN to.exact \cup {Starred(x) : x \in DOMAIN to.wild}
      BY <2>0, <2>1, <3>2, <3>3 DEF name
    <3>7. to = [exact |-> to.exact, wild |-> to.wild]
      BY <3>1, <3>3
    <3> QED
      BY Zenon, <3>4, <3>5, <3>6, <3>7 DEF AsMeant, to
  <2> QED
    BY <2>8, <2>9
<1> QED
  BY <1>1, <1>2

\* TablesAsWritten, of a file, of whether there is one, and of the tables.
MeantIn(file) ==
  {j \in DOMAIN file : PairAt(file, j) /\ NameAt(file, j) # <<>> /\ Trim(file[j].value) # <<>>}
Written(file, config, t) ==
  /\ config # None => \A j \in DOMAIN file : ~RefusedOf(file, j)
  /\ \A name \in DOMAIN t.exact : \E j \in MeantIn(file) :
       /\ NameAt(file, j) = name /\ t.exact[name] = TargetAt(file, j)
       /\ \A k \in MeantIn(file) : NameAt(file, k) = NameAt(file, j) => k <= j
  /\ \A name \in DOMAIN t.wild : \E j \in MeantIn(file) :
       /\ NameAt(file, j) = Starred(name) /\ t.wild[name] = TargetAt(file, j)
       /\ \A k \in MeantIn(file) : NameAt(file, k) = NameAt(file, j) => k <= j
  /\ config # None =>
       {NameAt(file, j) : j \in MeantIn(file)}
         = DOMAIN t.exact \cup {Starred(name) : name \in DOMAIN t.wild}

\* TablesAsWritten says so of the daemon's file and tables.
LEMMA WrittenIs ==
  TablesAsWritten <=> (pc \in {"server", "peers", "serving"} /\ Clear =>
                         Written(case.file, flags.config, cnames))
BY Zenon DEF TablesAsWritten, Written, MeantIn, PairAt, NameAt, TargetAt, Starred,
             Refused, RefusedOf, Owner, OwnerOf

\* The tables at the end of a file are as written.
LEMMA MeansWritten ==
  ASSUME NEW file, NEW t, Len(file) \in Nat, DOMAIN file = 1..Len(file),
         AsMeant(file, t, Len(file) + 1), \A j \in 1..Len(file) : ~RefusedOf(file, j), NEW config
  PROVE  Written(file, config, t)
<1> DEFINE n == Len(file) + 1
<1>1. MeantTo(file, n) = MeantIn(file)
  BY DEF MeantTo, MeantIn
<1>2. \A name \in DOMAIN t.exact : \E j \in MeantIn(file) :
        /\ NameAt(file, j) = name /\ t.exact[name] = TargetAt(file, j)
        /\ \A k \in MeantIn(file) : NameAt(file, k) = NameAt(file, j) => k <= j
  BY <1>1 DEF AsMeant, Exacts, LastPair
<1>3. \A name \in DOMAIN t.wild : \E j \in MeantIn(file) :
        /\ NameAt(file, j) = Starred(name) /\ t.wild[name] = TargetAt(file, j)
        /\ \A k \in MeantIn(file) : NameAt(file, k) = NameAt(file, j) => k <= j
  BY <1>1 DEF AsMeant, Wilds, LastPair
<1>4. {NameAt(file, j) : j \in MeantIn(file)}
         = DOMAIN t.exact \cup {Starred(name) : name \in DOMAIN t.wild}
  <2>1. \A j \in MeantIn(file) :
          NameAt(file, j) \in DOMAIN t.exact \cup {Starred(name) : name \in DOMAIN t.wild}
    BY <1>1 DEF AsMeant
  <2> QED
    BY <1>2, <1>3, <2>1
<1> QED
  BY <1>2, <1>3, <1>4 DEF Written

\* Without entries, no line is meant yet, nor is any without a file.
LEMMA EmptyMeans ==
  ASSUME NEW file
  PROVE  AsMeant(file, Empty, 1) /\ Written(file, None, Empty)
<1>1. DOMAIN Empty.exact = {} /\ DOMAIN Empty.wild = {} /\ MeantTo(file, 1) = {}
  BY DEF Empty, NoNames, MeantTo
<1>2. Empty = [exact |-> Empty.exact, wild |-> Empty.wild]
  BY DEF Empty
<1> QED
  BY <1>1, <1>2 DEF AsMeant, Exacts, Wilds, Written

\* The tables so far.
TableInv ==
  /\ \E S : entries \in Seq(S)
  /\ pc \in {"flags", "env"} => entries = <<>> /\ cnames = Empty
  /\ pc = "config" => cnames = Empty /\ (Clear => AsMeant(case.file, TablesOf(entries), next))
  /\ pc \in {"server", "peers", "serving"} /\ Clear => Written(case.file, flags.config, cnames)

\* The tables start empty.
LEMMA TableInit == Init => TableInv
<1> SUFFICES ASSUME Init PROVE TableInv
  OBVIOUS
<1>1. entries \in Seq({}) /\ entries = <<>> /\ cnames = Empty /\ pc \in {"flags", "env"}
  BY DEF Init, Empty
<1> QED
  BY <1>1 DEF TableInv

\* A line enters what it means.
LEMMA TableLine == BlameInv /\ TableInv /\ ReadAsMeant /\ ReadLine => TableInv'
<1> SUFFICES ASSUME BlameInv, TableInv, ReadAsMeant, ReadLine PROVE TableInv'
  OBVIOUS
<1> DEFINE pair == [key |-> Split.key, value |-> Datum]
<1>1. /\ AtLine /\ ~BadLine /\ next' = next + 1 /\ pc = "config" /\ next <= Len(case.file)
      /\ case' = case /\ pc' = pc /\ cnames' = cnames
      /\ entries' = IF IsUnder /\ section = "cnames" THEN Append(entries, pair) ELSE entries
  BY DEF ReadLine, AtLine
<1>2. /\ case \in Cases /\ next \in 1..Len(case.file) + 1
      /\ Clear => section = Owner(next)
  BY <1>1 DEF BlameInv, FileOK
<1>3. next \in 1..Len(case.file)
  BY <1>1, <1>2, Lists
<1>4. (Clear => AsMeant(case.file, TablesOf(entries), next)) /\ cnames = Empty
  BY <1>1 DEF TableInv
<1>5. PICK S : entries \in Seq(S)
  BY DEF TableInv
<1>6. Clear => LineIsRead /\ (IsUnder /\ section = "cnames" <=> PairAt(case.file, next))
  <2>1. Owner(next) = OwnerOf(case.file, next)
    BY Zenon DEF Owner, OwnerOf
  <2> QED
    BY <1>1, <1>2, <1>3, <2>1, ClearLine, LineIs DEF PairAt
<1>0. Clear' <=> Clear
  BY <1>1, SameCase
<1>7. CASE IsUnder /\ section = "cnames"
  <2>1. Clear => KeyOf(Split.key) = KeyOf(case.file[next].key) /\ Datum = case.file[next].value
    BY <1>6, <1>7 DEF LineIsRead, PairAt
  <2>2. case.file[next].key \in Seq(STRING)
    BY <1>2, <1>3, Lists
  <2>3. Clear => AsMeant(case.file, Enter(TablesOf(entries), pair), next + 1)
    <3>1. pair.key = Split.key /\ pair.value = Datum
      OBVIOUS
    <3> HIDE DEF pair
    <3> QED
      BY <1>3, <1>4, <1>6, <1>7, <2>1, <2>2, <3>1, MeansPair DEF NameAt
  <2>4. /\ TablesOf(Append(entries, pair)) = Enter(TablesOf(entries), pair)
        /\ Append(entries, pair) \in Seq(S \cup {pair})
    <3>1. entries \in Seq(S \cup {pair}) /\ pair \in S \cup {pair}
      BY <1>5
    <3> HIDE DEF pair
    <3> QED
      BY <3>1, FoldAppend, AppendProperties
  <2>5. entries' = Append(entries, pair)
    BY <1>1, <1>7
  <2> HIDE DEF pair
  <2>6. Clear => AsMeant(case'.file, TablesOf(entries'), next')
    BY <1>1, <2>3, <2>4, <2>5
  <2> QED
    BY <1>0, <1>1, <1>4, <2>4, <2>5, <2>6 DEF TableInv
<1>8. CASE ~(IsUnder /\ section = "cnames")
  <2>1. Clear => AsMeant(case.file, TablesOf(entries), next + 1)
    BY <1>3, <1>4, <1>6, <1>8, MeansNothing
  <2>2. entries' = entries
    BY <1>1, <1>8
  <2> QED
    BY <1>0, <1>1, <1>4, <1>5, <2>1, <2>2 DEF TableInv
<1> QED
  BY <1>7, <1>8

\* A step of the start-up keeps the tables as they are meant.
LEMMA TableNext == BlameInv /\ TableInv /\ ReadAsMeant /\ [Next]_vars => TableInv'
<1> SUFFICES ASSUME BlameInv, TableInv, ReadAsMeant, [Next]_vars PROVE TableInv'
  OBVIOUS
<1>1. ASSUME pc' = "exited", entries' = entries
      PROVE  TableInv'
  BY <1>1 DEF TableInv
<1>2. ASSUME UNCHANGED <<case, entries, cnames>>, flags'.config = flags.config,
             pc' \in {"server", "peers", "serving"}, pc \in {"server", "peers", "serving"}
      PROVE  TableInv'
  BY <1>2, SameCase DEF TableInv
<1>3. \A why : Leave(why) => pc' = "exited" /\ entries' = entries
  BY DEF Leave
<1>4. CASE ReadFlag
  BY <1>4 DEF ReadFlag, TableInv
<1>5. CASE FlagsDone
  <2>1. /\ pc = "flags" /\ next' = 1 /\ UNCHANGED <<case, flags, entries, cnames>>
        /\ pc' = IF flags.config = None THEN "server" ELSE "config"
    BY <1>5 DEF FlagsDone
  <2>2. entries' = <<>> /\ cnames' = Empty
    BY <2>1 DEF TableInv
  <2>3. AsMeant(case'.file, TablesOf(entries'), next')
    BY <2>1, <2>2, EmptyMeans, FoldEmpty
  <2>4. pc' = "server" => Written(case'.file, flags'.config, cnames')
    BY <2>1, <2>2, EmptyMeans
  <2>5. entries' \in Seq({})
    BY <2>2
  <2> QED
    BY <2>1, <2>2, <2>3, <2>4, <2>5 DEF TableInv
<1>6. CASE ReadLine
  BY <1>6, TableLine
<1>7. CASE FileDone
  <2>1. /\ pc = "config" /\ next > Len(case.file) /\ pc' = "server"
        /\ UNCHANGED <<case, flags, entries>> /\ cnames' = FoldLeft(Enter, cnames, entries)
    BY <1>7 DEF FileDone
  <2>2. cnames = Empty /\ (Clear => AsMeant(case.file, TablesOf(entries), next))
    BY <2>1 DEF TableInv
  <2>3. cnames' = TablesOf(entries)
    BY Zenon, <2>1, <2>2 DEF TablesOf
  <2>4. /\ case \in Cases /\ next \in 1..Len(case.file) + 1
        /\ Clear => \A j \in 1..next - 1 : ~Refused(j)
    BY <2>1 DEF BlameInv, FileOK
  <2>5. Len(case.file) \in Nat /\ DOMAIN case.file = 1..Len(case.file)
    BY <2>4, Lists
  <2>6. next = Len(case.file) + 1
    BY <2>1, <2>4, <2>5
  <2>7. \A j : Refused(j) <=> RefusedOf(case.file, j)
    BY Zenon DEF Refused, RefusedOf, Owner, OwnerOf
  <2>8. Clear => \A j \in 1..Len(case.file) : ~RefusedOf(case.file, j)
    BY <2>4, <2>5, <2>6, <2>7
  <2>9. Clear => Written(case.file, flags.config, TablesOf(entries))
    BY <2>2, <2>5, <2>6, <2>8, MeansWritten
  <2> QED
    BY <2>1, <2>3, <2>9, SameCase DEF TableInv
<1>8. CASE ReadEnv
  <2>1. /\ pc = "env" /\ pc' = "server" /\ UNCHANGED <<case, entries, cnames>>
        /\ flags'.config = None
    BY <1>8 DEF ReadEnv
  <2>2. cnames = Empty
    BY <2>1 DEF TableInv
  <2> QED
    BY <2>1, <2>2, EmptyMeans DEF TableInv
<1>9. CASE Bind \/ Watch \/ SkipPeer \/ Serve
  BY <1>2, <1>9 DEF Bind, Watch, SkipPeer, Serve, AtPeer
<1>10. CASE RefuseFlag \/ Help \/ NoPeer \/ RefuseLine \/ NoFile \/ NoNetwork \/ NoSocket
              \/ NoWatcher \/ NoSocketLeft \/ NoMemory
  <2>1. \E why : Leave(why)
    BY <1>10 DEF RefuseFlag, Help, NoPeer, RefuseLine, NoFile, NoNetwork, NoSocket, NoWatcher,
                 NoSocketLeft, NoMemory, Exit, Short
  <2> QED
    BY <1>1, <1>3, <2>1
<1>11. CASE UNCHANGED vars
  BY <1>11, SameCase DEF vars, TableInv
<1> QED
  BY <1>4, <1>5, <1>6, <1>7, <1>8, <1>9, <1>10, <1>11 DEF Next

\* Config::parse and CNAMEs::new: when every line that is not tangled is read as
\* its writer means it, and no line of the file is tangled, the tables hold each
\* name under cnames once, with its last target, and a file with a refused line
\* gives none.
THEOREM TablesTheorem == Spec /\ []ReadAsMeant => []TablesAsWritten
<1>1. Init => BlameInv /\ TableInv
  BY BlameInit, TableInit
<1>2. BlameInv /\ TableInv /\ ReadAsMeant /\ [Next]_vars => (BlameInv /\ TableInv)'
  BY BlameNext, TableNext
<1>3. BlameInv /\ TableInv => TablesAsWritten
  BY WrittenIs DEF TableInv
<1> QED
  BY <1>1, <1>2, <1>3, PTL DEF Spec
-----------------------------------------------------------------------------
(* A daemon that serves watches the peers it was asked to watch.           *)

\* ValueAt, and what makes it count for a flag, of a list of arguments.
ValueOf(args, p) == IF args[p].value = None THEN args[p + 1].text ELSE args[p].value
Counts(args, name, p) ==
  /\ p \in PlacesOf(args) /\ args[p].flag = name
  /\ name = "peer" => Trim(Chars(ValueOf(args, p))) # <<>>

\* given of Given, for the first n arguments.
GivenBy(args, name, n, h) ==
  h = [k \in 0..n |-> IF k = 0 THEN <<>>
                      ELSE IF Counts(args, name, k) THEN Append(h[k - 1], ValueOf(args, k))
                      ELSE h[k - 1]]

\* The recursion of Given has a solution.
LEMMA GivenExists ==
  ASSUME NEW args, NEW name, NEW n \in Nat
  PROVE  \E h : GivenBy(args, name, n, h)
<1> DEFINE Step(f, k) == IF k = 0 THEN <<>>
                         ELSE IF Counts(args, name, k) THEN Append(f[k - 1], ValueOf(args, k))
                         ELSE f[k - 1]
           S == {k \in 0..n : \E h : GivenBy(args, name, k, h)}
<1>1. 0 \in S
  <2> DEFINE h == [k \in 0..0 |-> <<>>]
  <2>1. \A k \in 0..0 : h[k] = Step(h, k)
    OBVIOUS
  <2>2. h = [k \in 0..0 |-> h[k]]
    OBVIOUS
  <2> HIDE DEF h
  <2>3. GivenBy(args, name, 0, h)
    BY Zenon, <2>1, <2>2 DEF GivenBy
  <2> QED
    BY <2>3
<1>2. ASSUME NEW k \in 1..n, k - 1 \in S
      PROVE  k \in S
  <2>1. PICK h : GivenBy(args, name, k - 1, h)
    BY <1>2
  <2> DEFINE g == [i \in 0..k |-> IF i \in 0..k - 1 THEN h[i] ELSE Step(h, i)]
  <2>2. \A i \in 0..k - 1 : h[i] = Step(h, i)
    BY Zenon, <2>1 DEF GivenBy
  <2>3. 0..k - 1 \subseteq 0..k /\ \A i \in 0..k : i # 0 => i - 1 \in 0..k - 1
    OBVIOUS
  <2>4. \A i \in 0..k - 1 : g[i] = h[i]
    BY <2>3
  <2>5. \A i \in 0..k : g[i] = Step(h, i)
    BY <2>2
  <2>6. g = [i \in 0..k |-> g[i]]
    OBVIOUS
  <2> HIDE DEF g
  <2>7. \A i \in 0..k : g[i] = Step(g, i)
    BY <2>3, <2>4, <2>5
  <2>8. GivenBy(args, name, k, g)
    BY Zenon, <2>6, <2>7 DEF GivenBy
  <2> QED
    BY <2>8
<1>3. 0..n \subseteq S
  <2> HIDE DEF S
  <2> QED
    BY <1>1, <1>2, Induct
<1>4. n \in 0..n
  OBVIOUS
<1> QED
  BY <1>3, <1>4

\* What the first n arguments give a flag.
GivenTo(args, name, n) ==
  (CHOOSE h : h = [k \in 0..Len(args) |->
     IF k = 0 THEN <<>>
     ELSE IF Counts(args, name, k) THEN Append(h[k - 1], ValueOf(args, k)) ELSE h[k - 1]])[n]

\* An argument more gives its value, or nothing.
LEMMA GivenToIs ==
  ASSUME NEW args, NEW name, Len(args) \in Nat
  PROVE  /\ GivenTo(args, name, 0) = <<>>
         /\ \A k \in 1..Len(args) :
              GivenTo(args, name, k) =
                IF Counts(args, name, k) THEN Append(GivenTo(args, name, k - 1), ValueOf(args, k))
                ELSE GivenTo(args, name, k - 1)
<1> DEFINE Is(h) == h = [k \in 0..Len(args) |->
             IF k = 0 THEN <<>>
             ELSE IF Counts(args, name, k) THEN Append(h[k - 1], ValueOf(args, k)) ELSE h[k - 1]]
           g == CHOOSE h : Is(h)
<1>1. \A n : GivenTo(args, name, n) = g[n]
  BY Zenon DEF GivenTo
<1>2. Is(g)
  <2>1. PICK h : GivenBy(args, name, Len(args), h)
    BY GivenExists
  <2>2. Is(h)
    BY Zenon, <2>1 DEF GivenBy
  <2> HIDE DEF Is
  <2> QED
    BY Zenon, <2>2
<1> HIDE DEF g
<1>3. \A k \in 0..Len(args) : g[k] =
        IF k = 0 THEN <<>>
        ELSE IF Counts(args, name, k) THEN Append(g[k - 1], ValueOf(args, k)) ELSE g[k - 1]
  BY Zenon, <1>2
<1>4. 0 \in 0..Len(args) /\ \A k \in 1..Len(args) : k \in 0..Len(args) /\ k # 0
  OBVIOUS
<1>5. g[0] = <<>>
  BY Zenon, <1>3, <1>4
<1>6. \A k \in 1..Len(args) : g[k] =
        IF Counts(args, name, k) THEN Append(g[k - 1], ValueOf(args, k)) ELSE g[k - 1]
  BY Zenon, <1>3, <1>4
<1> QED
  BY Zenon, <1>1, <1>5, <1>6

\* What is given is a list of values.
LEMMA GivenSeq ==
  ASSUME NEW args, NEW name, Len(args) \in Nat
  PROVE  \A n \in 0..Len(args) :
           GivenTo(args, name, n) \in Seq({ValueOf(args, p) : p \in 1..Len(args)})
<1> DEFINE V == {ValueOf(args, p) : p \in 1..Len(args)}
           S == {k \in 0..Len(args) : GivenTo(args, name, k) \in Seq(V)}
<1>1. 0 \in S
  <2>1. GivenTo(args, name, 0) = <<>>
    BY Zenon, GivenToIs
  <2> HIDE DEF V
  <2>2. <<>> \in Seq(V)
    OBVIOUS
  <2>3. 0 \in 0..Len(args)
    OBVIOUS
  <2> QED
    BY Zenon, <2>1, <2>2, <2>3
<1>2. ASSUME NEW k \in 1..Len(args), k - 1 \in S
      PROVE  k \in S
  <2>1. ValueOf(args, k) \in V /\ GivenTo(args, name, k - 1) \in Seq(V)
    BY <1>2
  <2> HIDE DEF V
  <2>2. Append(GivenTo(args, name, k - 1), ValueOf(args, k)) \in Seq(V)
    BY <2>1, AppendProperties
  <2>3. GivenTo(args, name, k) =
          IF Counts(args, name, k) THEN Append(GivenTo(args, name, k - 1), ValueOf(args, k))
          ELSE GivenTo(args, name, k - 1)
    BY Zenon, GivenToIs
  <2> QED
    BY <2>1, <2>2, <2>3
<1> HIDE DEF S
<1>3. 0..Len(args) \subseteq S
  BY <1>1, <1>2, Induct
<1> QED
  BY <1>3 DEF S

\* Given is what all arguments give.
LEMMA GivenIs == \A name : Given(name) = GivenTo(Args, name, Len(Args))
BY Zenon DEF Given, GivenTo, Counts, ValueOf, ValueAt, FlagPlaces, PlacesOf
\* The peers of a list of URLs: each without the blanks around it.
Trimmed(texts) == [i \in DOMAIN texts |-> Trim(Chars(texts[i]))]

\* A URL more is a peer more.
LEMMA TrimmedAppend ==
  ASSUME NEW S, NEW texts \in Seq(S), NEW text \in S
  PROVE  Trimmed(Append(texts, text)) = Append(Trimmed(texts), Trim(Chars(text)))
<1> DEFINE T == {Trim(Chars(t)) : t \in S}
           one == Trimmed(Append(texts, text))
           two == Append(Trimmed(texts), Trim(Chars(text)))
           n == Len(texts)
<1>1. /\ n \in Nat /\ DOMAIN texts = 1..n
      /\ Append(texts, text) \in Seq(S) /\ Len(Append(texts, text)) = n + 1
      /\ \A i \in 1..n : Append(texts, text)[i] = texts[i]
      /\ Append(texts, text)[n + 1] = text
  BY AppendProperties
<1>2. DOMAIN Append(texts, text) = 1..n + 1
  BY <1>1
<1>3. Trim(Chars(text)) \in T /\ \A i \in 1..n : Trim(Chars(texts[i])) \in T
  BY <1>1
<1> HIDE DEF T
<1>4. Trimmed(texts) \in [1..n -> T]
  BY <1>1, <1>3 DEF Trimmed
<1>5. Trimmed(texts) \in Seq(T) /\ Len(Trimmed(texts)) = n
  <2>1. Trimmed(texts) \in Seq(T)
    BY <1>1, <1>4, SeqDef
  <2> QED
    BY <1>1, <1>4, <2>1
<1>6. /\ two \in Seq(T) /\ Len(two) = n + 1 /\ two[n + 1] = Trim(Chars(text))
      /\ \A i \in 1..n : two[i] = Trimmed(texts)[i]
  BY <1>3, <1>5, AppendProperties
<1>7. one = [i \in 1..n + 1 |-> Trim(Chars(Append(texts, text)[i]))]
  BY <1>2 DEF Trimmed
<1>8. \A i \in 1..n : Trimmed(texts)[i] = Trim(Chars(texts[i]))
  BY <1>1 DEF Trimmed
<1> HIDE DEF one, two
<1>9. two = [i \in 1..n + 1 |-> two[i]]
  BY <1>1, <1>6
<1>10. \A i \in 1..n + 1 : two[i] = Trim(Chars(Append(texts, text)[i]))
  <2> TAKE i \in 1..n + 1
  <2>1. CASE i = n + 1
    BY <1>1, <1>6, <2>1
  <2>2. CASE i \in 1..n
    BY <1>1, <1>6, <1>8, <2>2
  <2> QED
    BY <1>1, <2>1, <2>2
<1>11. one = two
  BY <1>7, <1>9, <1>10
<1> QED
  BY <1>11 DEF one, two

\* The first of the peers are the peers of the first of the URLs.
LEMMA TrimmedSub ==
  ASSUME NEW S, NEW texts \in Seq(S), NEW k \in 0..Len(texts)
  PROVE  SubSeq(Trimmed(texts), 1, k) = Trimmed(SubSeq(texts, 1, k))
<1> DEFINE T == {Trim(Chars(t)) : t \in S}
           n == Len(texts)
<1>1. n \in Nat /\ k \in Nat /\ k <= n /\ DOMAIN texts = 1..n /\ \A i \in 1..n : texts[i] \in S
  OBVIOUS
<1>2. /\ SubSeq(texts, 1, k) \in Seq(S) /\ Len(SubSeq(texts, 1, k)) = k
      /\ \A i \in 1..k : SubSeq(texts, 1, k)[i] = texts[i]
  <2>1. \A i \in 1..k : texts[i] \in S
    BY <1>1
  <2>2. /\ SubSeq(texts, 1, k) \in Seq(S)
        /\ Len(SubSeq(texts, 1, k)) = IF 1 <= k THEN k - 1 + 1 ELSE 0
        /\ \A i \in 1..k - 1 + 1 : SubSeq(texts, 1, k)[i] = texts[1 + i - 1]
    BY <1>1, <2>1, SubSeqProperties
  <2> QED
    BY <1>1, <2>2
<1>3. \A i \in 1..n : Trim(Chars(texts[i])) \in T
  BY <1>1
<1> HIDE DEF T
<1>4. \A i \in 1..n : Trimmed(texts)[i] = Trim(Chars(texts[i])) /\ Trimmed(texts)[i] \in T
  BY <1>1, <1>3 DEF Trimmed
<1> DEFINE sub == SubSeq(Trimmed(texts), 1, k)
<1>5. sub \in Seq(T) /\ Len(sub) = k /\ \A i \in 1..k : sub[i] = Trimmed(texts)[i]
  <2>1. \A i \in 1..k : Trimmed(texts)[i] \in T
    BY <1>1, <1>4
  <2>2. /\ sub \in Seq(T) /\ Len(sub) = IF 1 <= k THEN k - 1 + 1 ELSE 0
        /\ \A i \in 1..k - 1 + 1 : sub[i] = Trimmed(texts)[1 + i - 1]
    BY <1>1, <2>1, SubSeqProperties
  <2> HIDE DEF sub
  <2> QED
    BY <1>1, <2>2
<1> HIDE DEF sub
<1>6. sub = [i \in 1..k |-> sub[i]]
  BY <1>5
<1>7. \A i \in 1..k : sub[i] = Trim(Chars(SubSeq(texts, 1, k)[i]))
  BY <1>1, <1>2, <1>4, <1>5
<1>8. DOMAIN SubSeq(texts, 1, k) = 1..k
  BY <1>2
<1>9. Trimmed(SubSeq(texts, 1, k)) = [i \in 1..k |-> Trim(Chars(SubSeq(texts, 1, k)[i]))]
  BY <1>8 DEF Trimmed
<1>10. sub = Trimmed(SubSeq(texts, 1, k))
  BY <1>6, <1>7, <1>9
<1> QED
  BY <1>10 DEF sub

\* The last of a list that has one more is that one.
LEMMA LastOrAppend ==
  ASSUME NEW S, NEW texts \in Seq(S), NEW text \in S, NEW default
  PROVE  LastOr(Append(texts, text), default) = text
BY AppendProperties DEF LastOr, Last

\* The lesser of two numbers.
LEMMA MinOfTwo ==
  ASSUME NEW m \in Nat, NEW n \in Nat
  PROVE  Min({m, n}) \in 0..n
<1>1. Min({m, n}) \in {m, n} /\ \A k \in {m, n} : Min({m, n}) <= k
  BY Least
<1> HIDE DEF Min
<1> QED
  BY <1>1

\* The good peers of those that were asked for.
Good == {i \in DOMAIN Asked : Urls[Asked[i]].good}

\* What was asked for is a list.
LEMMA AskedSeq == case \in Cases => \E S : Asked \in Seq(S)
<1> SUFFICES ASSUME case \in Cases PROVE \E S : Asked \in Seq(S)
  OBVIOUS
<1>1. CASE IsHost
  <2>1. Len(Args) \in Nat /\ Len(Args) \in 0..Len(Args)
    BY Lists
  <2> DEFINE V == {ValueOf(Args, p) : p \in 1..Len(Args)}
  <2>2. GivenTo(Args, "peer", Len(Args)) \in Seq(V)
    BY <2>1, GivenSeq
  <2> QED
    BY <1>1, <2>2, GivenIs DEF Asked
<1>2. CASE ~IsHost
  <2> DEFINE k == Min({MaxPeers, Len(case.asked)})
  <2>1. case.asked \in Seq(STRING) /\ Len(case.asked) \in Nat
    BY CasesAssumption
  <2>2. k \in 0..Len(case.asked)
    BY <2>1, MinOfTwo, PeersAssumption
  <2> HIDE DEF k
  <2>3. \A i \in 1..k : case.asked[i] \in STRING
    BY <2>1, <2>2
  <2>4. SubSeq(case.asked, 1, k) \in Seq(STRING)
    BY <2>2, <2>3, SubSeqProperties
  <2> QED
    BY <1>2, <2>4 DEF Asked, k
<1> QED
  BY <1>1, <1>2

\* AskedKey, Asked and Meant of a case.
EnvIn(c, name, old, default) ==
  IF c.env[name] # None THEN c.env[name] ELSE IF c.env[old] # None THEN c.env[old] ELSE default
GivenIn(c, name) == GivenTo(c.args, name, Len(c.args))
AskedIn(c) == IF c.daemon = "host" THEN GivenIn(c, "peer")
              ELSE SubSeq(c.asked, 1, Min({MaxPeers, Len(c.asked)}))
AskedKeyIn(c) == IF c.daemon = "host" THEN LastOr(GivenIn(c, "api-key"), "")
                 ELSE EnvIn(c, "HOPDNS_API_KEY", "HOP_API_KEY", "")
MeantBy(c, i) ==
  LET url  == Urls[AskedIn(c)[i]]
      host == IF url.host = "HOP" /\ ~(c.daemon = "host") THEN HopAddress ELSE Chars(url.host)
  IN  [at |-> i,
       endpoint |-> Chars(url.scheme \o "://") \o host \o Chars(url.port \o url.path),
       key |-> Chars(IF url.key = None THEN AskedKeyIn(c) ELSE url.key)]

\* What was asked for is said by the case.
AskedStands ==
  /\ Asked = AskedIn(case) /\ AskedKey = AskedKeyIn(case)
  /\ \A name : Given(name) = GivenIn(case, name)
  /\ \A i : Meant(i) = MeantBy(case, i)

\* It is said so in every state.
LEMMA AskedIs == AskedStands
<1>1. \A name : Given(name) = GivenIn(case, name)
  BY Zenon, GivenIs DEF GivenIn, Args
<1>2. Asked = AskedIn(case)
  BY Zenon, <1>1 DEF Asked, AskedIn, IsHost
<1>3. AskedKey = AskedKeyIn(case)
  BY Zenon, <1>1 DEF AskedKey, AskedKeyIn, IsHost, EnvOr, Env, EnvIn
<1>4. \A i : Meant(i) = MeantBy(case, i)
  <2> TAKE i
  <2>1. MeantPeer(Asked[i], AskedKey) =
          [endpoint |-> MeantBy(case, i).endpoint, key |-> MeantBy(case, i).key]
    BY <1>2, <1>3 DEF MeantPeer, MeantBy, IsHost
  <2>2. MeantBy(case, i) = [at |-> i, endpoint |-> MeantBy(case, i).endpoint,
                             key |-> MeantBy(case, i).key]
    BY DEF MeantBy
  <2> HIDE DEF MeantBy
  <2> QED
    BY <2>1, <2>2 DEF Meant
<1> QED
  BY <1>1, <1>2, <1>3, <1>4 DEF AskedStands

\* What was asked for stays the same as long as the case does.
LEMMA SameAsked ==
  case' = case =>
    /\ Asked' = Asked /\ AskedKey' = AskedKey /\ Good' = Good
    /\ \A name : Given(name)' = Given(name)
    /\ \A i : Meant(i)' = Meant(i)
<1>1. /\ Asked' = AskedIn(case') /\ AskedKey' = AskedKeyIn(case')
      /\ \A name : Given(name)' = GivenIn(case', name)
      /\ \A i : Meant(i)' = MeantBy(case', i)
  <2>1. AskedStands'
    BY AskedIs, PTL
  <2> QED
    BY <2>1 DEF AskedStands
<1>2. Asked' = Asked => Good' = Good
  BY DEF Good
<1> QED
  BY <1>1, <1>2, AskedIs DEF AskedStands
\* The flags after the first n arguments.
GivenFlags(n) ==
  flags = [listen |-> LastOr(GivenTo(Args, "listen", n), Defaults.listen),
           domain |-> LastOr(GivenTo(Args, "domain", n), Defaults.domain),
           key    |-> LastOr(GivenTo(Args, "api-key", n), ""),
           config |-> flags.config,
           peers  |-> Trimmed(GivenTo(Args, "peer", n))]

\* The flags, or what stands for them in the environment, are what was asked.
FlagsAsAsked ==
  /\ flags.peers = Trimmed(Asked) /\ flags.key = AskedKey
  /\ IsHost => /\ flags.listen = LastOr(Given("listen"), Defaults.listen)
               /\ flags.domain = LastOr(Given("domain"), Defaults.domain)

\* The peers of a set that stand before a place.
Before(peers, n) == {i \in peers : i < n}

\* The watchers of the peers up to here.
WatchersOK ==
  /\ next \in 1..Len(flags.peers) + 1
  /\ pc = "serving" => next = Len(flags.peers) + 1
  /\ \E S : watchers \in Seq(S)
  /\ \A i \in DOMAIN watchers : /\ watchers[i].at \in Good /\ watchers[i].at < next
                                /\ watchers[i] = Meant(watchers[i].at)
  /\ \A i, j \in DOMAIN watchers : i < j => watchers[i].at < watchers[j].at
  /\ ~exit.short => Len(watchers) = Cardinality(Before(Good, next))
  /\ IsHost => \A i \in 1..next - 1 : i \in Good

\* The flags so far are those given so far, and the watchers so far those of
\* the peers so far.
ServeInv ==
  /\ pc = "env" => ~IsHost
  /\ pc \in {"flags", "config"} => IsHost
  /\ pc = "flags" => GivenFlags(next - 1)
  /\ pc \in {"config", "server", "peers", "serving"} => FlagsAsAsked
  /\ pc \in {"flags", "env", "config", "server"} => watchers = <<>> /\ exit.short = FALSE
  /\ pc \in {"peers", "serving"} => WatchersOK

\* At the start nothing is given.
LEMMA ServeInit == Init => ServeInv
<1> SUFFICES ASSUME Init PROVE ServeInv
  OBVIOUS
<1>1. /\ case \in Cases /\ next = 1 /\ flags = Defaults /\ watchers = <<>>
      /\ exit.short = FALSE /\ pc = IF IsHost THEN "flags" ELSE "env"
  BY DEF Init
<1>2. \A name : GivenTo(Args, name, 0) = <<>>
  BY <1>1, Lists, GivenToIs
<1>3. Trimmed(<<>>) = <<>> /\ \A d : LastOr(<<>>, d) = d
  BY DEF Trimmed, LastOr
<1>4. GivenFlags(0)
  BY <1>1, <1>2, <1>3 DEF GivenFlags, Defaults
<1> QED
  BY <1>1, <1>4 DEF ServeInv

\* What the next argument gives.
LEMMA ArgGives ==
  BlameInv /\ ReadFlag =>
    \A name : GivenTo(Args, name, next' - 1) =
      IF Arg.flag = name /\ (name = "peer" => Trim(Chars(Value)) # <<>>)
      THEN Append(GivenTo(Args, name, next - 1), Value) ELSE GivenTo(Args, name, next - 1)
<1> SUFFICES ASSUME BlameInv, ReadFlag, NEW name
             PROVE  GivenTo(Args, name, next' - 1) =
                      IF Arg.flag = name /\ (name = "peer" => Trim(Chars(Value)) # <<>>)
                      THEN Append(GivenTo(Args, name, next - 1), Value)
                      ELSE GivenTo(Args, name, next - 1)
  OBVIOUS
<1>1. /\ pc = "flags" /\ next <= Len(Args)
      /\ ~(Args[next].value = None /\ next = Len(Args))
      /\ next' = next + (IF Args[next].value = None THEN 2 ELSE 1)
  BY DEF ReadFlag, Arg, TakesNext
<1>2. /\ FlagPlaces \subseteq 1..Len(Args) /\ Len(Args) \in Nat
      /\ \A p \in 1..Len(Args) :
           p \in FlagPlaces <=> p = 1 \/ ~(p - 1 \in FlagPlaces /\ Args[p - 1].value = None)
  BY Lists, FlagPlacesIs DEF BlameInv
<1>3. next \in 1..Len(Args) /\ next \in FlagPlaces
  BY <1>1, <1>2 DEF BlameInv, FlagsOK
<1>4. FlagPlaces = PlacesOf(Args)
  BY Zenon DEF FlagPlaces, PlacesOf
<1>5. Value = ValueOf(Args, next)
  BY DEF Value, ValueOf, Arg, TakesNext
<1>6. Counts(Args, name, next) <=> Arg.flag = name /\ (name = "peer" => Trim(Chars(Value)) # <<>>)
  BY <1>3, <1>4, <1>5 DEF Counts, Arg
<1>7. GivenTo(Args, name, next) = IF Counts(Args, name, next)
                                  THEN Append(GivenTo(Args, name, next - 1), Value)
                                  ELSE GivenTo(Args, name, next - 1)
  BY <1>2, <1>3, <1>5, GivenToIs
<1>8. GivenTo(Args, name, next' - 1) = GivenTo(Args, name, next)
  <2>1. CASE Args[next].value = None
    <3>1. next + 1 \in 1..Len(Args) /\ (next + 1) - 1 = next /\ next + 1 # 1 /\ next' - 1 = next + 1
      BY <1>1, <1>2, <1>3, <2>1
    <3>2. next + 1 \notin PlacesOf(Args)
      BY <1>2, <1>3, <1>4, <2>1, <3>1
    <3>3. GivenTo(Args, name, next + 1) = GivenTo(Args, name, (next + 1) - 1)
      BY <1>2, <3>1, <3>2, GivenToIs DEF Counts
    <3> QED
      BY <3>1, <3>3
  <2>2. CASE Args[next].value # None
    BY <1>1, <1>3, <2>2
  <2> QED
    BY <2>1, <2>2
<1> QED
  BY <1>6, <1>7, <1>8

\* The fields of the flags, one of which is set.
LEMMA SetField ==
  ASSUME NEW f, NEW l, NEW d, NEW k, NEW c, NEW p, NEW v,
         f = [listen |-> l, domain |-> d, key |-> k, config |-> c, peers |-> p]
  PROVE  /\ [f EXCEPT !.listen = v] = [listen |-> v, domain |-> d, key |-> k, config |-> c, peers |-> p]
         /\ [f EXCEPT !.domain = v] = [listen |-> l, domain |-> v, key |-> k, config |-> c, peers |-> p]
         /\ [f EXCEPT !.key = v] = [listen |-> l, domain |-> d, key |-> v, config |-> c, peers |-> p]
         /\ [f EXCEPT !.config = v] = [listen |-> l, domain |-> d, key |-> k, config |-> v, peers |-> p]
         /\ [f EXCEPT !.peers = v] = [listen |-> l, domain |-> d, key |-> k, config |-> c, peers |-> v]
OBVIOUS

\* A flag is set to what the argument gives it.
LEMMA FlagGives == BlameInv /\ ServeInv /\ ReadFlag => GivenFlags(next - 1)'
<1> SUFFICES ASSUME BlameInv, ServeInv, ReadFlag PROVE GivenFlags(next - 1)'
  OBVIOUS
<1> DEFINE given(name) == GivenTo(Args, name, next - 1)
           after(name) == GivenTo(Args, name, next' - 1)
           V == {ValueOf(Args, p) : p \in 1..Len(Args)} \cup {Value}
<1>1. /\ pc = "flags" /\ next <= Len(Args) /\ Arg.flag \in Known
      /\ flags' = SetFlag(Arg.flag, Value) /\ case' = case
  BY DEF ReadFlag
<1>2. GivenFlags(next - 1)
  BY <1>1 DEF ServeInv
<1>3. /\ next \in 1..Len(Args) + 1 /\ Len(Args) \in Nat
  BY <1>1, Lists DEF BlameInv, FlagsOK
<1>4. next - 1 \in 0..Len(Args)
  BY <1>3
<1>5. \A name : given(name) \in Seq(V) /\ Value \in V
  <2> TAKE name
  <2> DEFINE U == {ValueOf(Args, p) : p \in 1..Len(Args)}
  <2>1. given(name) \in Seq(U)
    BY <1>3, <1>4, GivenSeq
  <2> HIDE DEF U, given
  <2>2. given(name) \in Seq(U \cup {Value})
    BY <2>1
  <2> QED
    BY <2>2 DEF U
<1>6. \A name : after(name) =
        IF Arg.flag = name /\ (name = "peer" => Trim(Chars(Value)) # <<>>)
        THEN Append(given(name), Value) ELSE given(name)
  BY ArgGives
<1>7. PICK config : flags = [listen |-> LastOr(given("listen"), Defaults.listen),
                             domain |-> LastOr(given("domain"), Defaults.domain),
                             key |-> LastOr(given("api-key"), ""), config |-> config,
                             peers |-> Trimmed(given("peer"))]
  BY Zenon, <1>2 DEF GivenFlags
<1> HIDE DEF given, after, V
<1>8. \A name, d : LastOr(Append(given(name), Value), d) = Value
  BY <1>5, LastOrAppend
<1>9. Trimmed(Append(given("peer"), Value)) = Append(Trimmed(given("peer")), Trim(Chars(Value)))
  BY <1>5, TrimmedAppend
<1>10. flags' = [listen |-> LastOr(after("listen"), Defaults.listen),
                 domain |-> LastOr(after("domain"), Defaults.domain),
                 key |-> LastOr(after("api-key"), ""), config |-> flags'.config,
                 peers |-> Trimmed(after("peer"))]
  <2>1. CASE Arg.flag = "listen"
    <3>1. flags' = [flags EXCEPT !.listen = Value]
      BY <1>1, <2>1 DEF SetFlag
    <3>2. /\ after("listen") = Append(given("listen"), Value) /\ after("domain") = given("domain")
          /\ after("api-key") = given("api-key") /\ after("peer") = given("peer")
      BY <1>6, <2>1
    <3>3. flags' = [listen |-> Value,
                    domain |-> LastOr(given("domain"), Defaults.domain),
                    key |-> LastOr(given("api-key"), ""), config |-> config,
                    peers |-> Trimmed(given("peer"))]
      BY Zenon, <1>7, <3>1, SetField
    <3>4. flags'.config = config
      BY <3>3
    <3> QED
      BY <1>8, <3>2, <3>3, <3>4
  <2>2. CASE Arg.flag = "domain"
    <3>1. flags' = [flags EXCEPT !.domain = Value]
      BY <1>1, <2>2 DEF SetFlag
    <3>2. /\ after("listen") = given("listen") /\ after("domain") = Append(given("domain"), Value)
          /\ after("api-key") = given("api-key") /\ after("peer") = given("peer")
      BY <1>6, <2>2
    <3>3. flags' = [listen |-> LastOr(given("listen"), Defaults.listen),
                    domain |-> Value,
                    key |-> LastOr(given("api-key"), ""), config |-> config,
                    peers |-> Trimmed(given("peer"))]
      BY Zenon, <1>7, <3>1, SetField
    <3>4. flags'.config = config
      BY <3>3
    <3> QED
      BY <1>8, <3>2, <3>3, <3>4
  <2>3. CASE Arg.flag = "api-key"
    <3>1. flags' = [flags EXCEPT !.key = Value]
      BY <1>1, <2>3 DEF SetFlag
    <3>2. /\ after("listen") = given("listen") /\ after("domain") = given("domain")
          /\ after("api-key") = Append(given("api-key"), Value) /\ after("peer") = given("peer")
      BY <1>6, <2>3
    <3>3. flags' = [listen |-> LastOr(given("listen"), Defaults.listen),
                    domain |-> LastOr(given("domain"), Defaults.domain),
                    key |-> Value, config |-> config,
                    peers |-> Trimmed(given("peer"))]
      BY Zenon, <1>7, <3>1, SetField
    <3>4. flags'.config = config
      BY <3>3
    <3> QED
      BY <1>8, <3>2, <3>3, <3>4
  <2>4. CASE Arg.flag = "config"
    <3>1. flags' = [flags EXCEPT !.config = Value]
      BY <1>1, <2>4 DEF SetFlag
    <3>2. /\ after("listen") = given("listen") /\ after("domain") = given("domain")
          /\ after("api-key") = given("api-key") /\ after("peer") = given("peer")
      BY <1>6, <2>4
    <3>3. flags' = [listen |-> LastOr(given("listen"), Defaults.listen),
                    domain |-> LastOr(given("domain"), Defaults.domain),
                    key |-> LastOr(given("api-key"), ""), config |-> Value,
                    peers |-> Trimmed(given("peer"))]
      BY Zenon, <1>7, <3>1, SetField
    <3>4. flags'.config = Value
      BY <3>3
    <3> QED
      BY <3>2, <3>3, <3>4
  <2>5. CASE Arg.flag = "peer"
    <3>1. flags' = [flags EXCEPT !.peers = IF Trim(Chars(Value)) = <<>> THEN flags.peers
                                           ELSE Append(flags.peers, Trim(Chars(Value)))]
      BY <1>1, <2>5 DEF SetFlag
    <3>2. /\ after("listen") = given("listen") /\ after("domain") = given("domain")
          /\ after("api-key") = given("api-key")
          /\ after("peer") = IF Trim(Chars(Value)) # <<>> THEN Append(given("peer"), Value)
                             ELSE given("peer")
      BY <1>6, <2>5
    <3>3. flags' = [listen |-> LastOr(given("listen"), Defaults.listen),
                    domain |-> LastOr(given("domain"), Defaults.domain),
                    key |-> LastOr(given("api-key"), ""), config |-> config,
                    peers |-> IF Trim(Chars(Value)) = <<>> THEN flags.peers
                               ELSE Append(flags.peers, Trim(Chars(Value)))]
      BY Zenon, <1>7, <3>1, SetField
    <3>4. flags'.config = config
      BY <3>3
    <3>5. flags.peers = Trimmed(given("peer"))
      BY <1>7
    <3> QED
      BY <1>9, <3>2, <3>3, <3>4, <3>5
  <2> QED
    BY <1>1, <2>1, <2>2, <2>3, <2>4, <2>5 DEF Known
<1>11. Args' = Args
  BY <1>1, SameCase
<1> QED
  BY <1>10, <1>11 DEF GivenFlags, after

\* What is known of the list of peers of a daemon that starts its watchers.
LEMMA PeersAre ==
  case \in Cases /\ FlagsAsAsked =>
    /\ Len(Asked) \in Nat /\ DOMAIN Asked = 1..Len(Asked)
    /\ Len(flags.peers) = Len(Asked)
    /\ \A i \in 1..Len(Asked) : flags.peers[i] = Trim(Chars(Asked[i]))
<1> SUFFICES ASSUME case \in Cases, FlagsAsAsked
             PROVE  /\ Len(Asked) \in Nat /\ DOMAIN Asked = 1..Len(Asked)
                    /\ Len(flags.peers) = Len(Asked)
                    /\ \A i \in 1..Len(Asked) : flags.peers[i] = Trim(Chars(Asked[i]))
  OBVIOUS
<1>1. PICK S : Asked \in Seq(S)
  BY AskedSeq
<1>2. Len(Asked) \in Nat /\ DOMAIN Asked = 1..Len(Asked)
  BY <1>1
<1>3. flags.peers = [i \in 1..Len(Asked) |-> Trim(Chars(Asked[i]))]
  BY <1>2 DEF FlagsAsAsked, Trimmed
<1> QED
  BY <1>2, <1>3

\* A peer is good just when its URL is, and then it is what that means.
LEMMA PeerIs ==
  case \in Cases /\ FlagsAsAsked /\ WatchersOK /\ AtPeer /\ ReadAsMeant =>
    /\ next \in 1..Len(Asked)
    /\ next \in Good <=> Peer # BadPeer
    /\ next \in Good => [at |-> next, endpoint |-> Peer.endpoint, key |-> Peer.key] = Meant(next)
<1> SUFFICES ASSUME case \in Cases, FlagsAsAsked, WatchersOK, AtPeer, ReadAsMeant
             PROVE  /\ next \in 1..Len(Asked)
                    /\ next \in Good <=> Peer # BadPeer
                    /\ next \in Good =>
                         [at |-> next, endpoint |-> Peer.endpoint, key |-> Peer.key] = Meant(next)
  OBVIOUS
<1>1. /\ Len(Asked) \in Nat /\ DOMAIN Asked = 1..Len(Asked) /\ Len(flags.peers) = Len(Asked)
      /\ \A i \in 1..Len(Asked) : flags.peers[i] = Trim(Chars(Asked[i]))
  BY PeersAre
<1>2. next \in 1..Len(Asked)
  BY <1>1 DEF WatchersOK, AtPeer
<1>3. Raw = Trim(Chars(Asked[next]))
  BY <1>1, <1>2 DEF Raw
<1>4. /\ Urls[Asked[next]].good <=> Peer # BadPeer
      /\ Urls[Asked[next]].good => Peer = MeantPeer(Asked[next], flags.key)
  BY <1>1, <1>2, <1>3 DEF ReadAsMeant
<1>5. flags.key = AskedKey
  BY DEF FlagsAsAsked
<1>6. next \in Good <=> Urls[Asked[next]].good
  BY <1>1, <1>2 DEF Good
<1> QED
  BY <1>2, <1>4, <1>5, <1>6 DEF Meant

\* The peers up to here, with this one or without it.
LEMMA BeforeNext ==
  ASSUME NEW N \in Nat, NEW G, G \subseteq 1..N, NEW n \in Nat
  PROVE  /\ n \in G => Cardinality(Before(G, n + 1)) = Cardinality(Before(G, n)) + 1
         /\ n \notin G => Before(G, n + 1) = Before(G, n)
         /\ Before(G, N + 1) = G
<1>1. \A i \in G : i \in Int /\ i < N + 1
  OBVIOUS
<1>2. \A i : i \in Int => (i < n + 1 <=> i < n \/ i = n)
  OBVIOUS
<1>3. n < n + 1 /\ ~(n < n)
  OBVIOUS
<1>4. \A m, i : i \in Before(G, m) <=> i \in G /\ i < m
  BY Zenon DEF Before
<1>5. n \in G => Before(G, n + 1) = Before(G, n) \cup {n}
  BY Zenon, <1>1, <1>2, <1>3, <1>4
<1>6. n \notin G => Before(G, n + 1) = Before(G, n)
  BY Zenon, <1>1, <1>2, <1>4
<1>7. Before(G, N + 1) = G
  BY Zenon, <1>1, <1>4
<1>8. Cardinality(Before(G, n) \cup {n}) = Cardinality(Before(G, n)) + 1
  <2>1. Before(G, n) \subseteq 1..N /\ n \notin Before(G, n)
    BY Zenon, <1>3, <1>4
  <2>2. IsFiniteSet(1..N)
    BY FS_Interval
  <2>3. IsFiniteSet(Before(G, n))
    BY <2>1, <2>2, FS_Subset
  <2> QED
    BY <2>1, <2>3, FS_AddElement
<1> QED
  BY <1>5, <1>6, <1>7, <1>8

\* A watcher is started for a good peer.
LEMMA WatchKeeps ==
  BlameInv /\ FlagsAsAsked /\ WatchersOK /\ ReadAsMeant /\ Watch => WatchersOK'
<1> SUFFICES ASSUME BlameInv, FlagsAsAsked, WatchersOK, ReadAsMeant, Watch
             PROVE  WatchersOK'
  OBVIOUS
<1> DEFINE watcher == [at |-> next, endpoint |-> Peer.endpoint, key |-> Peer.key]
           n == Len(watchers)
<1>1. /\ AtPeer /\ Peer # BadPeer /\ next' = next + 1 /\ watchers' = Append(watchers, watcher)
      /\ UNCHANGED <<case, pc, flags, exit>> /\ pc = "peers" /\ next <= Len(flags.peers)
  BY DEF Watch, AtPeer
<1>2. case \in Cases
  BY DEF BlameInv
<1>3. next \in 1..Len(Asked) /\ next \in Good /\ watcher = Meant(next)
  BY <1>1, <1>2, PeerIs
<1>4. Len(Asked) \in Nat /\ DOMAIN Asked = 1..Len(Asked) /\ Len(flags.peers) = Len(Asked)
  BY <1>2, PeersAre
<1>5. Good \subseteq 1..Len(Asked)
  BY <1>4 DEF Good
<1>6. PICK S : watchers \in Seq(S)
  BY DEF WatchersOK
<1>7. Good' = Good /\ IsHost' = IsHost /\ \A i : Meant(i)' = Meant(i)
  BY <1>1, SameAsked, SameCase
<1>8. watcher.at = next
  OBVIOUS
<1> HIDE DEF watcher
<1>9. /\ watchers' \in Seq(S \cup {watcher}) /\ Len(watchers') = n + 1 /\ n \in Nat
      /\ DOMAIN watchers' = 1..n + 1 /\ DOMAIN watchers = 1..n
      /\ \A i \in 1..n : watchers'[i] = watchers[i]
      /\ watchers'[n + 1] = watcher
  <2>1. watchers \in Seq(S \cup {watcher}) /\ watcher \in S \cup {watcher}
    BY <1>6
  <2>2. /\ watchers' \in Seq(S \cup {watcher}) /\ Len(watchers') = n + 1
        /\ \A i \in 1..n : watchers'[i] = watchers[i]
        /\ watchers'[n + 1] = watcher
    BY <1>1, <2>1, AppendProperties
  <2> QED
    BY <1>6, <2>2
<1>10. /\ \A i \in 1..n : /\ watchers[i].at \in Good /\ watchers[i].at < next
                          /\ watchers[i] = Meant(watchers[i].at)
       /\ \A i, j \in 1..n : i < j => watchers[i].at < watchers[j].at
  BY <1>9 DEF WatchersOK
<1>11. \A i \in 1..n + 1 : i \in 1..n \/ i = n + 1
  BY <1>9
<1>12. next' \in 1..Len(flags'.peers) + 1 /\ pc' # "serving"
  BY <1>1, <1>3, <1>4
<1>13. \A i \in 1..n + 1 :
         /\ watchers'[i].at \in Good /\ watchers'[i].at < next'
         /\ watchers'[i] = Meant(watchers'[i].at)
  <2> TAKE i \in 1..n + 1
  <2>1. CASE i \in 1..n
    <3>1. /\ watchers[i].at \in Good /\ watchers[i].at < next
          /\ watchers[i] = Meant(watchers[i].at) /\ watchers'[i] = watchers[i]
      BY <1>9, <1>10, <2>1
    <3>2. \A at \in 1..Len(Asked) : at < next => at < next'
      BY <1>1, <1>3, <1>4
    <3> QED
      BY <1>5, <3>1, <3>2
  <2>2. CASE i = n + 1
    BY <1>1, <1>3, <1>8, <1>9, <2>2
  <2> QED
    BY <1>11, <2>1, <2>2
<1>14. \A i, j \in 1..n + 1 : i < j => watchers'[i].at < watchers'[j].at
  <2> TAKE i, j \in 1..n + 1
  <2>1. CASE i \in 1..n /\ j \in 1..n
    BY <1>9, <1>10, <2>1
  <2>2. CASE i \in 1..n /\ j = n + 1
    BY <1>8, <1>9, <1>10, <2>2
  <2>3. CASE i = n + 1
    BY <1>9, <2>3
  <2> QED
    BY <1>11, <2>1, <2>2, <2>3
<1>15. ~exit'.short => Len(watchers') = Cardinality(Before(Good, next'))
  <2>1. ~exit'.short => n = Cardinality(Before(Good, next))
    BY <1>1 DEF WatchersOK
  <2>2. Cardinality(Before(Good, next + 1)) = Cardinality(Before(Good, next)) + 1
    <3>1. next \in Nat /\ next \in Good
      BY <1>3
    <3>2. next \in Good => Cardinality(Before(Good, next + 1)) = Cardinality(Before(Good, next)) + 1
      BY Zenon, <1>4, <1>5, <3>1, BeforeNext
    <3> QED
      BY <3>1, <3>2
  <2> QED
    BY <1>1, <1>9, <2>1, <2>2
<1>16. IsHost => \A i \in 1..next' - 1 : i \in Good
  <2>1. \A i \in 1..next' - 1 : i \in 1..next - 1 \/ i = next
    BY <1>1, <1>3
  <2> QED
    BY <1>3, <2>1 DEF WatchersOK
<1>17. \A i : Meant(watchers[i].at)' = Meant(watchers'[i].at)
  <2>1. AskedStands /\ AskedStands'
    BY AskedIs, PTL
  <2> QED
    BY <1>1, <2>1 DEF AskedStands
<1> QED
  BY <1>7, <1>9, <1>12, <1>13, <1>14, <1>15, <1>16, <1>17 DEF WatchersOK

\* A peer that the resident leaves out.
LEMMA SkipKeeps ==
  BlameInv /\ FlagsAsAsked /\ WatchersOK /\ ReadAsMeant /\ SkipPeer => WatchersOK'
<1> SUFFICES ASSUME BlameInv, FlagsAsAsked, WatchersOK, ReadAsMeant, SkipPeer
             PROVE  WatchersOK'
  OBVIOUS
<1>1. /\ AtPeer /\ ~IsHost /\ next' = next + 1 /\ exit' = [exit EXCEPT !.short = @ \/ Peer # BadPeer]
      /\ UNCHANGED <<case, pc, flags, watchers>> /\ pc = "peers" /\ next <= Len(flags.peers)
  BY DEF SkipPeer, AtPeer
<1>2. case \in Cases
  BY DEF BlameInv
<1>3. next \in 1..Len(Asked) /\ (next \in Good <=> Peer # BadPeer)
  BY <1>1, <1>2, PeerIs
<1>4. Len(Asked) \in Nat /\ DOMAIN Asked = 1..Len(Asked) /\ Len(flags.peers) = Len(Asked)
  BY <1>2, PeersAre
<1>5. Good \subseteq 1..Len(Asked)
  BY <1>4 DEF Good
<1>6. Good' = Good /\ IsHost' = IsHost /\ \A i : Meant(i)' = Meant(i)
  BY <1>1, SameAsked, SameCase
<1>7. exit'.short = (exit.short \/ Peer # BadPeer)
  <2>1. exit = [code |-> None, what |-> None, at |-> 0, short |-> exit.short]
    BY <1>1 DEF BlameInv, Running
  <2>2. PICK short : exit = [code |-> None, what |-> None, at |-> 0, short |-> short]
    BY <2>1
  <2> QED
    BY <1>1, <2>2
<1>8. next' \in 1..Len(flags'.peers) + 1 /\ pc' # "serving"
  BY <1>1, <1>3, <1>4
<1>9. \A i \in DOMAIN watchers : /\ watchers[i].at \in Good /\ watchers[i].at < next'
                                 /\ watchers[i] = Meant(watchers[i].at)
  BY <1>1, <1>3, <1>5 DEF WatchersOK
<1>10. ~exit'.short => Len(watchers) = Cardinality(Before(Good, next'))
  <2>1. ~exit'.short => ~exit.short /\ next \notin Good
    BY <1>3, <1>7
  <2>2. next \notin Good => Before(Good, next + 1) = Before(Good, next)
    <3>1. next \in Nat
      BY <1>3
    <3>2. \A i \in Good : i \in Int
      BY <1>4, <1>5
    <3>3. \A i : i \in Int => (i < next + 1 <=> i < next \/ i = next)
      BY <3>1
    <3> QED
      BY Zenon, <3>2, <3>3 DEF Before
  <2> QED
    BY <1>1, <2>1, <2>2 DEF WatchersOK
<1>11. \A i : Meant(watchers[i].at)' = Meant(watchers'[i].at)
  <2>1. AskedStands /\ AskedStands'
    BY AskedIs, PTL
  <2> QED
    BY <1>1, <2>1 DEF AskedStands
<1>12. \E S : watchers \in Seq(S)
  BY DEF WatchersOK
<1>13. \A i, j \in DOMAIN watchers : i < j => watchers[i].at < watchers[j].at
  BY DEF WatchersOK
<1> QED
  BY <1>1, <1>6, <1>8, <1>9, <1>10, <1>11, <1>12, <1>13 DEF WatchersOK

\* What the resident takes from its environment is what was asked.
LEMMA EnvGives ==
  case \in Cases /\ ~IsHost /\ pc = "env" /\ ReadAsMeant /\ ReadEnv => FlagsAsAsked'
<1> SUFFICES ASSUME case \in Cases, ~IsHost, pc = "env", ReadAsMeant, ReadEnv
             PROVE  FlagsAsAsked'
  OBVIOUS
<1> DEFINE peers == PeerList(Chars(EnvOr("HOPDNS_PEER", "HOPDNS_PEERS", "http://HOP:9080")))
           n == Len(case.asked)
           k == Min({MaxPeers, n})
<1>1. /\ flags'.peers = SubSeq(peers, 1, Min({MaxPeers, Len(peers)}))
      /\ flags'.key = EnvOr("HOPDNS_API_KEY", "HOP_API_KEY", "") /\ case' = case
  BY DEF ReadEnv
<1>2. case.asked \in Seq(STRING) /\ n \in Nat /\ DOMAIN case.asked = 1..n
  BY CasesAssumption
<1>3. peers = Trimmed(case.asked)
  BY Zenon DEF ReadAsMeant, Trimmed
<1> HIDE DEF peers
<1>4. Len(peers) = n
  BY <1>2, <1>3 DEF Trimmed
<1>5. k \in 0..n
  BY <1>2, MinOfTwo, PeersAssumption
<1>6. Asked = SubSeq(case.asked, 1, k) /\ AskedKey = EnvOr("HOPDNS_API_KEY", "HOP_API_KEY", "")
  BY DEF Asked, AskedKey
<1>7. SubSeq(Trimmed(case.asked), 1, k) = Trimmed(SubSeq(case.asked, 1, k))
  <2> HIDE DEF k
  <2> QED
    BY <1>2, <1>5, TrimmedSub
<1>8. flags'.peers = Trimmed(Asked)
  BY <1>1, <1>3, <1>4, <1>6, <1>7
<1>9. Asked' = Asked /\ AskedKey' = AskedKey /\ IsHost' = IsHost
  BY <1>1, SameAsked, SameCase
<1> HIDE DEF k, n
<1> QED
  BY <1>1, <1>6, <1>8, <1>9 DEF FlagsAsAsked

\* A step that changes neither the case nor the flags keeps them as asked.
LEMMA FlagsStay == case' = case /\ flags' = flags /\ FlagsAsAsked => FlagsAsAsked'
<1> SUFFICES ASSUME case' = case, flags' = flags, FlagsAsAsked PROVE FlagsAsAsked'
  OBVIOUS
<1>1. Asked' = Asked /\ AskedKey' = AskedKey /\ IsHost' = IsHost
  BY SameAsked, SameCase
<1>2. Given("listen")' = Given("listen") /\ Given("domain")' = Given("domain")
  BY SameAsked
<1> QED
  BY <1>1, <1>2 DEF FlagsAsAsked

\* A step that changes neither the watchers nor the next peer keeps them good.
LEMMA WatchersStay ==
  /\ UNCHANGED <<case, next, flags, watchers, exit>> /\ WatchersOK
  /\ pc' = "serving" => next = Len(flags.peers) + 1
  => WatchersOK'
<1> SUFFICES ASSUME UNCHANGED <<case, next, flags, watchers, exit>>, WatchersOK,
                    pc' = "serving" => next = Len(flags.peers) + 1
             PROVE  WatchersOK'
  OBVIOUS
<1>1. Good' = Good /\ IsHost' = IsHost /\ \A i : Meant(i)' = Meant(i)
  BY SameAsked, SameCase
<1>2. \A i : Meant(watchers[i].at)' = Meant(watchers[i].at)
  <2>1. AskedStands /\ AskedStands'
    BY AskedIs, PTL
  <2> QED
    BY <2>1 DEF AskedStands
<1> QED
  BY <1>1, <1>2 DEF WatchersOK

\* A daemon that is to start its watchers.
NoneYet ==
  /\ case \in Cases /\ FlagsAsAsked
  /\ next = 1 /\ watchers = <<>> /\ pc # "serving"

\* Before the first peer there is no watcher.
LEMMA NoneWatched == NoneYet => WatchersOK
<1> SUFFICES ASSUME NoneYet PROVE WatchersOK
  OBVIOUS
<1>1. watchers \in Seq({}) /\ DOMAIN watchers = {} /\ Len(watchers) = 0
  BY DEF NoneYet
<1>2. Len(Asked) \in Nat /\ DOMAIN Asked = 1..Len(Asked) /\ Len(flags.peers) = Len(Asked)
  BY PeersAre DEF NoneYet
<1>3. Before(Good, next) = {}
  <2>1. \A i \in Good : i \in Int /\ ~(i < 1)
    BY <1>2 DEF Good
  <2> QED
    BY Zenon, <2>1 DEF Before, NoneYet
<1>4. Cardinality(Before(Good, next)) = 0
  BY <1>3, FS_EmptySet
<1>5. next = 1 /\ next \in 1..Len(flags.peers) + 1 /\ pc # "serving"
  BY <1>2 DEF NoneYet
<1>6. \A i \in 1..next - 1 : i \in Good
  BY <1>5
<1>7. \A i, j \in DOMAIN watchers : i < j => watchers[i].at < watchers[j].at
  BY Zenon, <1>1
<1>8. \A i \in DOMAIN watchers : /\ watchers[i].at \in Good /\ watchers[i].at < next
                                 /\ watchers[i] = Meant(watchers[i].at)
  BY Zenon, <1>1
<1>9. \E S : watchers \in Seq(S)
  BY <1>1
<1> QED
  BY <1>1, <1>4, <1>5, <1>6, <1>7, <1>8, <1>9 DEF WatchersOK

\* A step of the start-up keeps the watchers as they were asked for.
LEMMA ServeNext == BlameInv /\ ServeInv /\ ReadAsMeant /\ [Next]_vars => ServeInv'
<1> SUFFICES ASSUME BlameInv, ServeInv, ReadAsMeant, [Next]_vars PROVE ServeInv'
  OBVIOUS
<1>0. case \in Cases
  BY DEF BlameInv
<1>1. \A why : Leave(why) => pc' = "exited"
  BY DEF Leave
<1>2. pc' = "exited" => ServeInv'
  BY DEF ServeInv
<1>3. case' = case => IsHost' = IsHost
  BY SameCase
<1>4. CASE ReadFlag
  <2>1. /\ pc = "flags" /\ pc' = "flags" /\ UNCHANGED <<case, watchers, exit>>
    BY <1>4 DEF ReadFlag
  <2>2. GivenFlags(next - 1)'
    BY <1>4, FlagGives
  <2> QED
    BY <1>3, <2>1, <2>2 DEF ServeInv
<1>5. CASE FlagsDone
  <2>1. /\ pc = "flags" /\ pc' \in {"server", "config"} /\ next > Len(Args)
        /\ UNCHANGED <<case, flags, watchers, exit>>
    BY <1>5 DEF FlagsDone
  <2>2. next \in 1..Len(Args) + 1 /\ Len(Args) \in Nat /\ IsHost
    BY <1>0, <2>1, Lists DEF BlameInv, FlagsOK, ServeInv
  <2>3. next - 1 = Len(Args)
    BY <2>1, <2>2
  <2>4. GivenFlags(Len(Args))
    BY <2>1, <2>3 DEF ServeInv
  <2>5. PICK config :
          flags = [listen |-> LastOr(Given("listen"), Defaults.listen),
                   domain |-> LastOr(Given("domain"), Defaults.domain),
                   key |-> LastOr(Given("api-key"), ""), config |-> config,
                   peers |-> Trimmed(Given("peer"))]
    BY Zenon, <2>4, GivenIs DEF GivenFlags
  <2>6. FlagsAsAsked
    BY <2>2, <2>5 DEF FlagsAsAsked, Asked, AskedKey
  <2>7. FlagsAsAsked'
    BY <2>1, <2>6, FlagsStay
  <2> QED
    BY <1>3, <2>1, <2>2, <2>7 DEF ServeInv
<1>6. CASE ReadLine \/ FileDone
  <2>1. /\ pc = "config" /\ pc' \in {"config", "server"}
        /\ UNCHANGED <<case, flags, watchers, exit>>
    BY <1>6 DEF ReadLine, FileDone, AtLine
  <2>2. FlagsAsAsked'
    BY <2>1, FlagsStay DEF ServeInv
  <2> QED
    BY <1>3, <2>1, <2>2 DEF ServeInv
<1>7. CASE ReadEnv
  <2>1. pc = "env" /\ pc' = "server" /\ UNCHANGED <<case, watchers, exit>> /\ ~IsHost
    BY <1>7 DEF ReadEnv, ServeInv
  <2>2. FlagsAsAsked'
    BY <1>0, <1>7, <2>1, EnvGives
  <2> QED
    BY <1>3, <2>1, <2>2 DEF ServeInv
<1>8. CASE Bind
  <2>1. /\ pc = "server" /\ pc' = "peers" /\ next' = 1
        /\ UNCHANGED <<case, flags, watchers, exit>>
    BY <1>8 DEF Bind
  <2>2. FlagsAsAsked' /\ watchers' = <<>>
    BY <2>1, FlagsStay DEF ServeInv
  <2>3. NoneYet'
    BY <1>0, <2>1, <2>2 DEF NoneYet
  <2>4. (NoneYet => WatchersOK)'
    BY NoneWatched, PTL
  <2> QED
    BY <2>1, <2>2, <2>3, <2>4 DEF ServeInv
<1>9. CASE Watch \/ SkipPeer
  <2>1. pc = "peers" /\ pc' = "peers" /\ UNCHANGED <<case, flags>>
    BY <1>9 DEF Watch, SkipPeer, AtPeer
  <2>2. FlagsAsAsked /\ WatchersOK
    BY <2>1 DEF ServeInv
  <2>3. FlagsAsAsked'
    BY <2>1, <2>2, FlagsStay
  <2>4. WatchersOK'
    BY <1>9, <2>2, WatchKeeps, SkipKeeps
  <2> QED
    BY <2>1, <2>3, <2>4 DEF ServeInv
<1>10. CASE Serve
  <2>1. /\ pc = "peers" /\ pc' = "serving" /\ next > Len(flags.peers)
        /\ UNCHANGED <<case, next, flags, watchers, exit>>
    BY <1>10 DEF Serve
  <2>2. FlagsAsAsked /\ WatchersOK
    BY <2>1 DEF ServeInv
  <2>3. next = Len(flags.peers) + 1
    <3>1. Len(flags.peers) \in Nat /\ next \in 1..Len(flags.peers) + 1
      BY <1>0, <2>2, PeersAre DEF WatchersOK
    <3> QED
      BY <2>1, <3>1
  <2>4. FlagsAsAsked' /\ WatchersOK'
    BY <2>1, <2>2, <2>3, FlagsStay, WatchersStay
  <2> QED
    BY <2>1, <2>4 DEF ServeInv
<1>11. CASE RefuseFlag \/ Help \/ NoPeer \/ RefuseLine \/ NoFile \/ NoNetwork \/ NoSocket
              \/ NoWatcher \/ NoSocketLeft \/ NoMemory
  <2>1. \E why : Leave(why)
    BY <1>11 DEF RefuseFlag, Help, NoPeer, RefuseLine, NoFile, NoNetwork, NoSocket, NoWatcher,
                 NoSocketLeft, NoMemory, Exit, Short
  <2> QED
    BY <1>1, <1>2, <2>1
<1>12. CASE UNCHANGED vars
  <2>1. UNCHANGED <<case, pc, next, flags, watchers, exit>>
    BY <1>12 DEF vars
  <2>2. FlagsAsAsked => FlagsAsAsked'
    BY <2>1, FlagsStay
  <2>3. WatchersOK => WatchersOK'
    <3>1. WatchersOK /\ pc = "serving" => next = Len(flags.peers) + 1
      BY DEF WatchersOK
    <3> QED
      BY <2>1, <3>1, WatchersStay
  <2>4. GivenFlags(next - 1) => GivenFlags(next - 1)'
    <3>1. Args' = Args
      BY <2>1, SameCase
    <3> QED
      BY <2>1, <3>1 DEF GivenFlags
  <2> QED
    BY <1>3, <2>1, <2>2, <2>3, <2>4 DEF ServeInv
<1> QED
  BY <1>4, <1>5, <1>6, <1>7, <1>8, <1>9, <1>10, <1>11, <1>12 DEF Next

\* Flags::parse, Daemon::start and start_peers: when every text is read as its
\* writer means it, a daemon that serves watches the good peers that it was
\* given, in order, and each at the endpoint and with the key that were meant.
THEOREM ServesTheorem == Spec /\ []ReadAsMeant => []ServesAsAsked
<1>1. Init => BlameInv /\ ServeInv
  BY BlameInit, ServeInit
<1>2. BlameInv /\ ServeInv /\ ReadAsMeant /\ [Next]_vars => (BlameInv /\ ServeInv)'
  BY BlameNext, ServeNext
<1>3. BlameInv /\ ServeInv => ServesAsAsked
  <2> SUFFICES ASSUME BlameInv, ServeInv, pc = "serving"
               PROVE  /\ \A i \in DOMAIN watchers :
                           watchers[i].at \in Good /\ watchers[i] = Meant(watchers[i].at)
                      /\ \A i, j \in DOMAIN watchers : i < j => watchers[i].at < watchers[j].at
                      /\ ~exit.short => Len(watchers) = Cardinality(Good)
                      /\ IsHost => /\ Good = DOMAIN Asked
                                   /\ flags.listen = LastOr(Given("listen"), Defaults.listen)
                                   /\ flags.domain = LastOr(Given("domain"), Defaults.domain)
    BY Zenon DEF ServesAsAsked, Good
  <2>1. case \in Cases /\ FlagsAsAsked /\ WatchersOK
    BY DEF BlameInv, ServeInv
  <2>2. /\ Len(Asked) \in Nat /\ DOMAIN Asked = 1..Len(Asked) /\ next = Len(Asked) + 1
    BY <2>1, PeersAre DEF WatchersOK
  <2>3. Good \subseteq 1..Len(Asked)
    BY <2>2 DEF Good
  <2>4. Before(Good, next) = Good
    BY <2>2, <2>3, BeforeNext
  <2>5. IsHost => Good = DOMAIN Asked
    <3>1. IsHost => \A i \in 1..next - 1 : i \in Good
      BY <2>1 DEF WatchersOK
    <3>2. next - 1 = Len(Asked)
      BY <2>2
    <3>3. IsHost => \A i \in 1..Len(Asked) : i \in Good
      BY <3>1, <3>2
    <3> QED
      BY Zenon, <2>2, <2>3, <3>3
  <2> QED
    BY <2>1, <2>4, <2>5 DEF WatchersOK, FlagsAsAsked
<1> QED
  BY <1>1, <1>2, <1>3, PTL DEF Spec
=============================================================================

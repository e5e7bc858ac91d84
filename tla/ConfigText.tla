----------------------------- MODULE ConfigText -----------------------------
(***************************************************************************)
(* How a line of the configuration file is read: strip_comment, split_key  *)
(* and unquote of src/src/config.rs, and the two forms of a name in        *)
(* src/src/cnames.rs.  What a quote, a backslash or a # means depends on   *)
(* what stands before it, so here a text is the sequence of its characters *)
(* (of ASCII).                                                             *)
(***************************************************************************)
EXTENDS Integers, SequencesExt

Chars(string) == [i \in 1..Len(string) |-> SubSeq(string, i, i)]

Bad    == [key |-> <<>>, rest |-> <<>>]   \* split_key finds no key
NoText == <<"no text">>                   \* unquote finds no value
Tab    == "\t"
Space  == {" ", Tab}
Quotes == {"\"", "'"}

StartsWith(text, c) == text # <<>> /\ Head(text) = c
EndsWith(text, c)   == text # <<>> /\ Last(text) = c

TrimStart(text) ==
  LET i == SelectInSeq(text, LAMBDA c : c \notin Space)
  IN  IF i = 0 THEN <<>> ELSE SubSeq(text, i, Len(text))
TrimEnd(text) == SubSeq(text, 1, SelectLastInSeq(text, LAMBDA c : c \notin Space))
Trim(text)    == TrimStart(TrimEnd(text))

\* Mutant: a # needs no space before it.
StripAnyHash(line) ==
  LET i == SelectInSeq(line, LAMBDA c : c = "#")
  IN  IF i = 0 THEN line ELSE SubSeq(line, 1, i - 1)

\* fn strip_comment: the state is the quote that is open and whether a space
\* came last; the first # outside quotes and after a space ends the line.
StripComment(line) ==
  LET Read(state, c) ==
        [quote |-> IF state.quote = c THEN "" ELSE
                   IF state.quote = "" /\ c \in Quotes THEN c ELSE state.quote,
         space |-> c \in Space,
         stop  |-> state.stop \/ (c = "#" /\ state.quote = "" /\ state.space),
         kept  |-> state.kept]
      Keep(state, c) ==
        LET next == Read(state, c)
        IN  IF next.stop THEN next ELSE [next EXCEPT !.kept = Append(@, c)]
  IN  FoldLeft(Keep, [quote |-> "", space |-> TRUE, stop |-> FALSE, kept |-> <<>>], line).kept

\* fn split_key: the key, without its quotes, and what follows the colon.
SplitKey(line) ==
  LET quoted == line # <<>> /\ Head(line) \in Quotes
      close  == SelectInSeq(Tail(line), LAMBDA c : c = Head(line)) + 1
      colons == {i \in DOMAIN line : line[i] = ":" /\ (i = Len(line) \/ line[i + 1] = " ")}
      colon  == CHOOSE i \in colons : \A j \in colons : i <= j
      key    == IF quoted THEN SubSeq(line, 2, close - 1) ELSE TrimEnd(SubSeq(line, 1, colon - 1))
      after  == IF quoted THEN TrimStart(SubSeq(line, close + 1, Len(line)))
                          ELSE SubSeq(line, colon, Len(line))
  IN  IF line = <<>> \/ (quoted /\ close = 1) \/ (~quoted /\ colons = {}) THEN Bad
      ELSE IF ~StartsWith(after, ":") \/ key = <<>> \/ ~(Len(after) = 1 \/ after[2] = " ") THEN Bad
      ELSE [key |-> key, rest |-> Tail(after)]

\* The escapes of a double-quoted value; one that nothing follows is no text.
Unescape(body) ==
  LET Read(state, c) ==
        IF state.escape
        THEN [escape |-> FALSE,
              out |-> Append(state.out, CASE c = "n" -> "\n" [] c = "t" -> Tab [] OTHER -> c)]
        ELSE IF c = "\\" THEN [state EXCEPT !.escape = TRUE]
        ELSE [state EXCEPT !.out = Append(@, c)]
      end == FoldLeft(Read, [escape |-> FALSE, out |-> <<>>], body)
  IN  IF end.escape THEN NoText ELSE end.out

\* '' for ' in a single-quoted value, from left to right.
Undouble(body) ==
  LET Read(state, c) ==
        IF c = "'" /\ state.half THEN [state EXCEPT !.half = FALSE]
        ELSE [half |-> c = "'", out |-> Append(state.out, c)]
  IN  FoldLeft(Read, [half |-> FALSE, out |-> <<>>], body).out

\* fn unquote
Unquote(v) ==
  LET body == SubSeq(v, 2, Len(v) - 1)
  IN  IF v # <<>> /\ Head(v) \in Quotes
      THEN IF Len(v) = 1 \/ Last(v) # Head(v) THEN NoText
           ELSE IF Head(v) = "'" THEN Undouble(body) ELSE Unescape(body)
      ELSE IF v # <<>> /\ Head(v) \in {"{", "[", "&", "|", ">"} THEN NoText
      ELSE v

-----------------------------------------------------------------------------
(* Names *)

Smalls   == Chars("abcdefghijklmnopqrstuvwxyz")
Capitals == Chars("ABCDEFGHIJKLMNOPQRSTUVWXYZ")

\* char::to_ascii_lowercase
Lower(c) == IF Contains(Capitals, c) THEN Smalls[SelectInSeq(Capitals, LAMBDA d : d = c)] ELSE c

\* fn key_of
KeyOf(name) ==
  LET t == Trim(name)
      bare == IF EndsWith(t, ".") THEN Front(t) ELSE t
  IN  [i \in DOMAIN bare |-> Lower(bare[i])]

\* fn fqdn
Fqdn(name) == IF EndsWith(Trim(name), ".") THEN Trim(name) ELSE Append(Trim(name), ".")
=============================================================================

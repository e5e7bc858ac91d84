------------------------------- MODULE PeerUrl -------------------------------
(***************************************************************************)
(* How a peer is read from its URL: Peer::parse, with_host_alias and       *)
(* peer_list of src/src/config.rs, over sequences of characters.           *)
(***************************************************************************)
EXTENDS ConfigText

BadPeer == [endpoint |-> <<>>, key |-> <<>>]

\* The text up to the first of some marks, and the place of the last of one.
UpTo(text, marks) ==
  LET i == SelectInSeq(text, LAMBDA c : c \in marks)
  IN  IF i = 0 THEN text ELSE SubSeq(text, 1, i - 1)
LastAt(text, mark) == SelectLastInSeq(text, LAMBDA c : c = mark)
From(text, i) == SubSeq(text, i, Len(text))

\* The length of scheme:// in front of a text, 0 without one.
SchemeLen(text) ==
  LET ends == {i \in 3..Len(text) : SubSeq(text, i - 2, i) = Chars("://")}
  IN  IF ends = {} THEN 0 ELSE Min(ends)
Scheme(text) == [i \in 1..SchemeLen(text) - 3 |-> Lower(text[i])]

\* Mutant: the key of the command line wins.
DefaultKey(user, default) == IF default # <<>> THEN default ELSE UpTo(user, {":"})

\* The key in what stands before the @: the user, without a password.
UserKey(user, default) == UpTo(user, {":"})

\* Peer::parse: the endpoint, and the key, which is empty for none.  What
\* stands before the last @ wins from the default, also when it is empty.
ParsePeer(raw, default) ==
  LET url       == Trim(raw)
      rest      == From(url, SchemeLen(url) + 1)
      authority == UpTo(rest, {"/"})
      at        == LastAt(authority, "@")
      host      == From(authority, at + 1)
      path      == From(rest, Len(authority) + 1)
  IN  IF SchemeLen(url) = 0 \/ Scheme(url) \notin {Chars("http"), Chars("https")} \/ host = <<>>
      THEN BadPeer
      ELSE [endpoint |-> SubSeq(url, 1, SchemeLen(url)) \o host
                           \o SubSeq(path, 1, SelectLastInSeq(path, LAMBDA c : c # "/")),
            key |-> IF at = 0 THEN default ELSE UserKey(SubSeq(authority, 1, at - 1), default)]

\* fn with_host_alias: the address in the place of the alias, if that is the
\* host.
WithHostAlias(raw, alias, ip) ==
  LET url       == Trim(raw)
      rest      == From(url, SchemeLen(url) + 1)
      authority == UpTo(rest, {"/", "?", "#"})
      at        == LastAt(authority, "@")
      host      == UpTo(From(authority, at + 1), {":"})
  IN  IF SchemeLen(url) = 0 \/ host # alias THEN url
      ELSE SubSeq(url, 1, SchemeLen(url) + at) \o ip \o From(rest, at + Len(host) + 1)

\* fn peer_list: what stands between the commas, without the blanks.
PeerList(list) ==
  LET Read(pieces, c) ==
        IF c = "," THEN Append(pieces, <<>>)
        ELSE [pieces EXCEPT ![Len(pieces)] = Append(@, c)]
      pieces == FoldLeft(Read, << <<>> >>, list)
  IN  SelectSeq([i \in DOMAIN pieces |-> Trim(pieces[i])], LAMBDA peer : peer # <<>>)
=============================================================================

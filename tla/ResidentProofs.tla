---------------------------- MODULE ResidentProofs ----------------------------
(***************************************************************************)
(* Theorems about the tasks of the resident, for every set of peers, every *)
(* length of the mailboxes and every number of messages: the types, and    *)
(* that both kinds of mailbox, with post() in front, are channels that     *)
(* lose, double and overtake nothing.                                      *)
(*                                                                         *)
(* The types are inductive with one fact added: who holds a message to     *)
(* post has made one.  The refinements need the types only.                *)
(***************************************************************************)
EXTENDS Resident, SequenceTheorems, WellFoundedInduction, TLAPS

-----------------------------------------------------------------------------
(* Lemmas about From.                                                      *)

\* Induction over an interval, said of a set.
LEMMA Induct ==
  ASSUME NEW n \in Nat, NEW S, 0 \in S, \A i \in 1..n : i - 1 \in S => i \in S
  PROVE  0..n \subseteq S
<1> DEFINE T == {i \in 0..n : i \notin S}
<1>1. SUFFICES ASSUME T # {} PROVE FALSE
  OBVIOUS
<1>2. T \subseteq Nat /\ T # {}
  BY <1>1
<1>3. PICK m \in T : \A k \in T : ~(<<k, m>> \in OpToRel(<, Nat))
  BY <1>2, WFMin, NatLessThanWellFounded
<1>4. \A k \in T : ~(k < m)
  BY <1>2, <1>3 DEF OpToRel
<1>5. m \in 1..n /\ m - 1 \notin T
  BY <1>4
<1> QED
  BY <1>5

\* h holds, per position, what From has gathered up to there.
Gathers(p, mail, n, h) ==
  h = [i \in 0..n |->
         IF i = 0 THEN <<>>
         ELSE IF mail[i][1] = p THEN Append(h[i - 1], mail[i][2]) ELSE h[i - 1]]

\* The same, position by position.
LEMMA GathersStep ==
  \A p, mail, n, h :
    Gathers(p, mail, n, h) =>
      \A i \in 0..n :
        h[i] = IF i = 0 THEN <<>>
               ELSE IF mail[i][1] = p THEN Append(h[i - 1], mail[i][2]) ELSE h[i - 1]
  BY DEF Gathers

\* The recursion of From has a solution.
LEMMA GathersExists ==
  ASSUME NEW p, NEW mail, NEW n \in Nat
  PROVE  \E h : Gathers(p, mail, n, h)
<1> DEFINE S == {k \in 0..n : \E h : Gathers(p, mail, k, h)}
<1>1. 0 \in S
  <2>1. Gathers(p, mail, 0, [i \in 0..0 |-> <<>>])
    BY DEF Gathers
  <2> QED
    BY <2>1
<1>2. ASSUME NEW k \in 1..n, k - 1 \in S
      PROVE  k \in S
  <2>1. PICK h : Gathers(p, mail, k - 1, h)
    BY <1>2
  <2> DEFINE last == IF mail[k][1] = p THEN Append(h[k - 1], mail[k][2]) ELSE h[k - 1]
             g    == [i \in 0..k |-> IF i = k THEN last ELSE h[i]]
  <2>2. \A i \in 0..k - 1 :
          h[i] = IF i = 0 THEN <<>>
                 ELSE IF mail[i][1] = p THEN Append(h[i - 1], mail[i][2]) ELSE h[i - 1]
    BY <2>1 DEF Gathers
  <2>3. \A i \in 0..k :
          g[i] = IF i = 0 THEN <<>>
                 ELSE IF mail[i][1] = p THEN Append(g[i - 1], mail[i][2]) ELSE g[i - 1]
    BY <2>2
  <2>4. Gathers(p, mail, k, g)
    BY <2>3 DEF Gathers
  <2> QED
    BY <2>4
<1>3. 0..n \subseteq S
  <2> HIDE DEF S
  <2> QED
    BY <1>1, <1>2, Induct
<1> QED
  BY <1>3

\* On a common beginning two solutions are the same.
LEMMA GathersSame ==
  \A p, mail, more, h, g :
    \A m, n \in Nat :
      /\ m <= n /\ Gathers(p, mail, m, h) /\ Gathers(p, more, n, g)
      /\ \A i \in 1..m : mail[i] = more[i]
      => \A i \in 0..m : h[i] = g[i]
<1> SUFFICES ASSUME NEW p, NEW mail, NEW more, NEW h, NEW g, NEW m \in Nat, NEW n \in Nat,
                    m <= n, Gathers(p, mail, m, h), Gathers(p, more, n, g),
                    \A i \in 1..m : mail[i] = more[i]
             PROVE  \A i \in 0..m : h[i] = g[i]
  OBVIOUS
<1> DEFINE S == {i \in 0..m : h[i] = g[i]}
<1>1. \A i \in 0..m :
        h[i] = IF i = 0 THEN <<>>
               ELSE IF mail[i][1] = p THEN Append(h[i - 1], mail[i][2]) ELSE h[i - 1]
  BY GathersStep
<1>2. \A i \in 0..n :
        g[i] = IF i = 0 THEN <<>>
               ELSE IF more[i][1] = p THEN Append(g[i - 1], more[i][2]) ELSE g[i - 1]
  BY GathersStep
<1>3. 0 \in S
  BY <1>1, <1>2
<1>4. \A i \in 1..m : i - 1 \in S => i \in S
  BY <1>1, <1>2
<1>5. 0..m \subseteq S
  <2> HIDE DEF S
  <2> QED
    BY <1>3, <1>4, Induct
<1> QED
  BY <1>5

\* From is the last of what is gathered.
LEMMA FromGathers ==
  ASSUME NEW p, NEW mail, Len(mail) \in Nat
  PROVE  \E h : Gathers(p, mail, Len(mail), h) /\ From(p, mail) = h[Len(mail)]
<1> DEFINE h == CHOOSE g : Gathers(p, mail, Len(mail), g)
<1>1. From(p, mail) = h[Len(mail)]
  BY Zenon DEF From, Gathers
<1>2. Gathers(p, mail, Len(mail), h)
  BY GathersExists
<1> QED
  BY <1>1, <1>2

\* Nothing comes from an empty mailbox.
LEMMA FromEmpty ==
  ASSUME NEW p
  PROVE  From(p, <<>>) = <<>>
<1>1. PICK h : Gathers(p, <<>>, Len(<<>>), h) /\ From(p, <<>>) = h[Len(<<>>)]
  BY FromGathers
<1> QED
  BY <1>1 DEF Gathers

\* What is appended comes last, and from its sender only.
LEMMA FromAppend ==
  ASSUME NEW p, NEW U, NEW mail \in Seq(U), NEW u \in U
  PROVE  From(p, Append(mail, u)) =
           IF u[1] = p THEN Append(From(p, mail), u[2]) ELSE From(p, mail)
<1> DEFINE more == Append(mail, u)
           n == Len(mail)
<1>1. n \in Nat /\ Len(more) = n + 1 /\ more[n + 1] = u /\ \A i \in 1..n : mail[i] = more[i]
  OBVIOUS
<1> HIDE DEF more, n
<1>2. PICK h : Gathers(p, mail, n, h) /\ From(p, mail) = h[n]
  BY <1>1, FromGathers DEF n
<1>3. PICK g : Gathers(p, more, n + 1, g) /\ From(p, more) = g[n + 1]
  BY <1>1, FromGathers
<1>4. h[n] = g[n]
  <2>1. n + 1 \in Nat /\ n <= n + 1 /\ n \in 0..n
    BY <1>1
  <2>2. \A i \in 0..n : h[i] = g[i]
    BY <1>1, <1>2, <1>3, <2>1, GathersSame
  <2> QED
    BY <2>1, <2>2
<1>5. g[n + 1] = IF more[n + 1][1] = p THEN Append(g[n], more[n + 1][2]) ELSE g[n]
  <2>1. n + 1 \in Nat /\ n + 1 \in 0..n + 1 /\ n + 1 # 0 /\ (n + 1) - 1 = n
    BY <1>1
  <2> QED
    BY <1>3, <2>1, GathersStep
<1> QED
  BY <1>1, <1>2, <1>3, <1>4, <1>5 DEF more

\* What comes from a mailbox are its messages.
LEMMA FromType ==
  ASSUME NEW p, NEW P, NEW M, NEW mail \in Seq(P \X M)
  PROVE  From(p, mail) \in Seq(M)
<1> DEFINE n == Len(mail)
<1>1. n \in Nat /\ \A i \in 1..n : mail[i][2] \in M
  OBVIOUS
<1> HIDE DEF n
<1>2. PICK h : Gathers(p, mail, n, h) /\ From(p, mail) = h[n]
  BY <1>1, FromGathers DEF n
<1> DEFINE S == {i \in 0..n : h[i] \in Seq(M)}
<1>3. 0 \in S
  BY <1>1, <1>2 DEF Gathers
<1>4. ASSUME NEW i \in 1..n, i - 1 \in S
      PROVE  i \in S
  <2>1. h[i] = IF mail[i][1] = p THEN Append(h[i - 1], mail[i][2]) ELSE h[i - 1]
    BY <1>1, <1>2, GathersStep
  <2>2. i - 1 \in 0..n /\ h[i - 1] \in Seq(M) /\ mail[i][2] \in M
    BY <1>1, <1>4
  <2>3. Append(h[i - 1], mail[i][2]) \in Seq(M)
    BY <2>2
  <2>4. h[i] \in Seq(M)
    BY <2>1, <2>2, <2>3
  <2> QED
    BY <1>1, <2>4
<1>5. 0..n \subseteq S
  <2> HIDE DEF S
  <2> QED
    BY <1>1, <1>3, <1>4, Induct
<1> QED
  BY <1>1, <1>2, <1>5

-----------------------------------------------------------------------------
(* The invariant.                                                          *)

\* TypeOK says the ranges; these are the functions.
Functions ==
  /\ heard \in [Peers -> 0..MaxReports] /\ made \in [Peers -> 0..MaxUpdates]
  /\ inbox \in [Peers -> Seq(1..MaxReports)]
  /\ taken \in [Peers -> Seq(1..MaxReports)]
  /\ applied \in [Peers -> Seq(1..MaxUpdates)]

\* Who holds a message has made one; a task that waits was spawned.
Holders ==
  \A p \in Peers :
    /\ reader[p] \in {"post", "sleep"} => heard[p] # 0
    /\ watcher[p] \in {"post", "sleep"} => made[p] # 0

IInv == TypeOK /\ Functions /\ Holders

\* The program starts in the invariant.
LEMMA InitIInv == Init => IInv
<1> SUFFICES ASSUME Init PROVE IInv
  OBVIOUS
<1>1. TypeOK
  BY ResidentBounds, CapAssumption DEF Init, TypeOK
<1>2. Functions
  BY ResidentBounds DEF Init, Functions
<1>3. Holders
  BY DEF Init, Holders
<1> QED
  BY <1>1, <1>2, <1>3 DEF IInv

\* What a reader does keeps it.
LEMMA ReaderKeeps ==
  ASSUME IInv, NEW p \in Peers, Hear(p) \/ ReadStep(p)
  PROVE  IInv'
<1> USE ResidentBounds, CapAssumption DEF IInv, TypeOK, Functions, Holders, readers,
        watchers, box, serving
<1>1. CASE Hear(p)
  <2>1. heard[p] + 1 \in 1..MaxReports
    BY <1>1 DEF Hear
  <2>2. Functions'
    BY <1>1, <2>1 DEF Hear
  <2>3. Holders'
    BY <1>1, <2>1 DEF Hear
  <2>4. TypeOK'
    BY <1>1, <2>1, <2>2 DEF Hear
  <2> QED
    BY <2>2, <2>3, <2>4
<1>2. CASE PostReport(p)
  <2>1. heard[p] \in 1..MaxReports
    BY <1>2 DEF PostReport
  <2>2. CASE Len(inbox[p]) < InboxCap
    <3>1. /\ Append(inbox[p], heard[p]) \in Seq(1..MaxReports)
          /\ Len(Append(inbox[p], heard[p])) <= InboxCap
      BY <2>1, <2>2
    <3>2. /\ inbox' = [inbox EXCEPT ![p] = Append(inbox[p], heard[p])]
          /\ reader' = [reader EXCEPT ![p] = "listen"]
      BY <1>2, <2>2 DEF PostReport
    <3>3. Functions' /\ Holders'
      BY <1>2, <3>1, <3>2 DEF PostReport
    <3>4. \A q \in Peers : inbox'[q] \in Seq(1..MaxReports) /\ Len(inbox'[q]) <= InboxCap
      BY <3>1, <3>2
    <3>5. reader' \in [Peers -> {"listen", "post", "sleep"}]
      BY <3>2
    <3>6. TypeOK'
      BY <1>2, <3>4, <3>5 DEF PostReport
    <3> QED
      BY <3>3, <3>6
  <2>3. CASE ~(Len(inbox[p]) < InboxCap)
    <3>1. reader' = [reader EXCEPT ![p] = "sleep"] /\ UNCHANGED inbox
      BY <1>2, <2>3 DEF PostReport
    <3>2. Functions' /\ Holders'
      BY <1>2, <2>1, <3>1 DEF PostReport
    <3>3. TypeOK'
      BY <1>2, <3>1 DEF PostReport
    <3> QED
      BY <3>2, <3>3
  <2> QED
    BY <2>2, <2>3
<1>3. CASE ReaderWakes(p)
  BY <1>3 DEF ReaderWakes
<1> QED
  BY <1>1, <1>2, <1>3 DEF ReadStep

\* What a watcher does keeps it.
LEMMA WatcherKeeps ==
  ASSUME IInv, NEW p \in Peers, WatchStep(p) \/ DeadlineComes(p)
  PROVE  IInv'
<1> USE ResidentBounds, CapAssumption DEF IInv, TypeOK, Functions, Holders, readers,
        watchers, box, serving
<1>1. CASE DiscoveryEnds(p)
  BY <1>1 DEF DiscoveryEnds
<1>2. CASE TakeReport(p)
  <2>1. /\ Append(taken[p], Head(inbox[p])) \in Seq(1..MaxReports)
        /\ Tail(inbox[p]) \in Seq(1..MaxReports) /\ Len(Tail(inbox[p])) <= InboxCap
    BY <1>2 DEF TakeReport
  <2>2. /\ taken' = [taken EXCEPT ![p] = Append(taken[p], Head(inbox[p]))]
        /\ inbox' = [inbox EXCEPT ![p] = Tail(inbox[p])]
    BY <1>2 DEF TakeReport
  <2>3. watcher' \in [Peers -> {"discover", "wait", "refresh", "post", "sleep"}]
    BY <1>2 DEF TakeReport
  <2>4. \A q \in Peers : inbox'[q] \in Seq(1..MaxReports) /\ Len(inbox'[q]) <= InboxCap
    BY <2>1, <2>2
  <2>5. \A q \in Peers :
          /\ taken'[q] \in Seq(1..MaxReports)
          /\ started[q] # "both" => watcher'[q] = "discover" /\ taken'[q] = <<>>
    BY ZenonT(40), <1>2, <2>1, <2>2 DEF TakeReport
  <2>6. TypeOK'
    BY <1>2, <2>3, <2>4, <2>5 DEF TakeReport
  <2>7. Functions' /\ Holders'
    BY SMTT(30), <1>2, <2>1, <2>2 DEF TakeReport
  <2> QED
    BY <2>6, <2>7
<1>3. CASE DeadlineComes(p)
  <2>1. PICK next \in {"discover", "refresh"} : watcher' = [watcher EXCEPT ![p] = next]
    BY <1>3 DEF DeadlineComes
  <2>2. TypeOK'
    BY <1>3, <2>1 DEF DeadlineComes
  <2>3. Functions' /\ Holders'
    BY <1>3, <2>1 DEF DeadlineComes
  <2> QED
    BY <2>2, <2>3
<1>4. CASE Fetch(p)
  <2>1. made[p] + 1 \in 1..MaxUpdates
    BY <1>4 DEF Fetch
  <2>2. made' = [made EXCEPT ![p] = made[p] + 1] /\ watcher' = [watcher EXCEPT ![p] = "post"]
    BY <1>4 DEF Fetch
  <2>3. made' \in [Peers -> 0..MaxUpdates] /\ made'[p] # 0
    BY <2>1, <2>2
  <2>4. Functions'
    BY <1>4, <2>3 DEF Fetch
  <2>5. Holders'
    BY <1>4, <2>2, <2>3 DEF Fetch
  <2>6. TypeOK'
    BY <1>4, <2>2, <2>3 DEF Fetch
  <2> QED
    BY <2>4, <2>5, <2>6
<1>5. CASE FetchFails(p)
  BY <1>5 DEF FetchFails
<1>6. CASE PostUpdate(p)
  <2>1. made[p] \in 1..MaxUpdates
    BY <1>6 DEF PostUpdate
  <2>2. CASE Len(updates) < UpdatesCap
    <3>1. /\ Append(updates, <<p, made[p]>>) \in Seq(Peers \X (1..MaxUpdates))
          /\ Len(Append(updates, <<p, made[p]>>)) <= UpdatesCap
      BY <2>1, <2>2
    <3>2. updates' = Append(updates, <<p, made[p]>>)
      BY <1>6, <2>2 DEF PostUpdate
    <3>3. PICK next \in {"wait", "refresh"} : watcher' = [watcher EXCEPT ![p] = next]
      BY <1>6, <2>2 DEF PostUpdate
    <3>4. TypeOK'
      BY <1>6, <3>1, <3>2, <3>3 DEF PostUpdate
    <3>5. Functions' /\ Holders'
      BY <1>6, <3>3 DEF PostUpdate
    <3> QED
      BY <3>4, <3>5
  <2>3. CASE ~(Len(updates) < UpdatesCap)
    <3>1. watcher' = [watcher EXCEPT ![p] = "sleep"] /\ UNCHANGED updates
      BY <1>6, <2>3 DEF PostUpdate
    <3>2. Functions' /\ Holders'
      BY <1>6, <2>1, <3>1 DEF PostUpdate
    <3>3. TypeOK'
      BY <1>6, <3>1 DEF PostUpdate
    <3> QED
      BY <3>2, <3>3
  <2> QED
    BY <2>2, <2>3
<1>7. CASE WatcherWakes(p)
  BY <1>7 DEF WatcherWakes
<1> QED
  BY <1>1, <1>2, <1>3, <1>4, <1>5, <1>6, <1>7 DEF WatchStep

\* What the server does keeps it.
LEMMA ServerKeeps ==
  ASSUME IInv, ServeStep \/ Ask
  PROVE  IInv'
<1> USE ResidentBounds, CapAssumption DEF IInv, TypeOK, Functions, Holders, readers,
        watchers, box, serving
<1>1. CASE Apply
  <2>1. \A p \in Peers : From(p, updates) \in Seq(1..MaxUpdates)
    BY FromType
  <2>2. \A p \in Peers : applied[p] \o From(p, updates) \in Seq(1..MaxUpdates)
    BY <2>1, ConcatProperties
  <2>3. /\ applied' = [p \in Peers |-> applied[p] \o From(p, updates)]
        /\ updates' = <<>>
    BY <1>1 DEF Apply
  <2>4. applied' \in [Peers -> Seq(1..MaxUpdates)]
    BY <2>2, <2>3
  <2>5. /\ updates' \in Seq(Peers \X (1..MaxUpdates)) /\ Len(updates') <= UpdatesCap
    BY <2>3
  <2>6. TypeOK'
    BY <1>1, <2>4, <2>5 DEF Apply
  <2>7. Functions' /\ Holders'
    BY <1>1, <2>4 DEF Apply
  <2> QED
    BY <2>6, <2>7
<1>2. CASE Answered
  BY <1>2 DEF Answered
<1>3. CASE Ask
  BY <1>3 DEF Ask
<1> QED
  BY <1>1, <1>2, <1>3 DEF ServeStep

\* So every step does.
LEMMA NextIInv == IInv /\ [Next]_vars => IInv'
<1> SUFFICES ASSUME IInv, [Next]_vars PROVE IInv'
  OBVIOUS
<1>1. CASE Next
  BY <1>1, ReaderKeeps, WatcherKeeps, ServerKeeps DEF Next
<1>2. CASE UNCHANGED vars
  BY <1>2 DEF vars, readers, watchers, box, serving, IInv, TypeOK, Functions, Holders
<1> QED
  BY <1>1, <1>2

\* The invariant holds always.
LEMMA Always == Spec => []IInv
BY InitIInv, NextIInv, PTL DEF Spec

\* No mailbox is ever longer than its bound, and a task that start_peers
\* could not spawn does nothing.
THEOREM TypeCorrect == Spec => []TypeOK
<1>1. IInv => TypeOK
  BY DEF IInv
<1> QED
  BY Always, <1>1, PTL

-----------------------------------------------------------------------------
(* The inboxes, with post() in front, are channels.                        *)

\* What a reader has sent and its watcher has not taken.
Pending(p) == inbox[p] \o Held(reader[p], heard[p])

\* The first n of a sequence, and the others.
Taken(s, n) == SubSeq(s, 1, n)
Left(s, n)  == SubSeq(s, n + 1, Len(s))

\* A beginning of the front of a queue can be taken from the queue.
LEMMA TakenFromFront ==
  \A S : \A s, t \in Seq(S) : \A n \in 0..Len(s) :
    /\ n \in 0..Len(s \o t)
    /\ Taken(s \o t, n) = Taken(s, n)
    /\ Left(s \o t, n) = Left(s, n) \o t
<1> SUFFICES ASSUME NEW S, NEW s \in Seq(S), NEW t \in Seq(S), NEW n \in 0..Len(s)
             PROVE  /\ n \in 0..Len(s \o t)
                    /\ SubSeq(s \o t, 1, n) = SubSeq(s, 1, n)
                    /\ SubSeq(s \o t, n + 1, Len(s \o t)) = SubSeq(s, n + 1, Len(s)) \o t
  BY DEF Taken, Left
<1>1. Len(s) \in Nat /\ Len(t) \in Nat /\ Len(s \o t) = Len(s) + Len(t) /\ s \o t \in Seq(S)
  OBVIOUS
<1>2. n \in 0..Len(s \o t)
  BY <1>1
<1>3. SubSeq(s \o t, 1, n) = SubSeq(s, 1, n)
  BY <1>1, SubSeqOfConcat1
<1> DEFINE rest == SubSeq(s, n + 1, Len(s))
           all  == s \o t
           lhs  == SubSeq(all, n + 1, Len(all))
           rhs  == rest \o t
<1>4. /\ rest \in Seq(S) /\ Len(rest) = Len(s) - n
      /\ \A i \in 1..Len(s) - n : rest[i] = s[n + i]
  OBVIOUS
<1>5. /\ lhs \in Seq(S) /\ Len(lhs) = Len(s) + Len(t) - n
      /\ \A i \in 1..Len(s) + Len(t) - n : lhs[i] = all[n + i]
  BY <1>1
<1>6. \A i \in 1..Len(s) + Len(t) : all[i] = IF i <= Len(s) THEN s[i] ELSE t[i - Len(s)]
  OBVIOUS
<1> HIDE DEF rest, all, lhs
<1>7. /\ rhs \in Seq(S) /\ Len(rhs) = Len(s) + Len(t) - n
      /\ \A i \in 1..Len(s) + Len(t) - n :
           rhs[i] = IF i <= Len(s) - n THEN rest[i] ELSE t[i - (Len(s) - n)]
  BY <1>1, <1>4
<1> HIDE DEF rhs
<1>8. \A i \in 1..Len(s) + Len(t) - n : lhs[i] = rhs[i]
  <2> TAKE i \in 1..Len(s) + Len(t) - n
  <2>1. Len(s) \in Nat /\ Len(t) \in Nat
    BY <1>1
  <2>2. i \in Nat /\ i >= 1 /\ n \in Nat /\ n + i \in 1..Len(s) + Len(t)
    BY <2>1
  <2>3. lhs[i] = IF n + i <= Len(s) THEN s[n + i] ELSE t[n + i - Len(s)]
    <3>1. lhs[i] = all[n + i]
      BY <1>5
    <3>2. all[n + i] = IF n + i <= Len(s) THEN s[n + i] ELSE t[n + i - Len(s)]
      BY <1>6, <2>2
    <3> QED
      BY <3>1, <3>2
  <2>4. CASE n + i <= Len(s)
    <3>1. i \in 1..Len(s) - n
      BY <2>1, <2>2, <2>4
    <3>2. rhs[i] = rest[i] /\ rest[i] = s[n + i]
      BY <1>4, <1>7, <3>1
    <3> QED
      BY <2>3, <2>4, <3>2
  <2>5. CASE ~(n + i <= Len(s))
    <3>1. ~(i <= Len(s) - n) /\ i - (Len(s) - n) = n + i - Len(s)
      BY <2>1, <2>2, <2>5
    <3>2. rhs[i] = t[i - (Len(s) - n)]
      BY <1>7, <3>1
    <3> QED
      BY <2>3, <2>5, <3>1, <3>2
  <2> QED
    BY <2>4, <2>5
<1>9. lhs = rhs
  BY <1>1, <1>5, <1>7, <1>8, SeqEqual
<1>10. SubSeq(s \o t, n + 1, Len(s \o t)) = SubSeq(s, n + 1, Len(s)) \o t
  BY Zenon, <1>9 DEF lhs, rhs, rest, all
<1> QED
  BY <1>2, <1>3, <1>10

\* The numbers of the messages are natural numbers.
LEMMA Numbers ==
  ASSUME IInv, NEW p \in Peers
  PROVE  /\ inbox[p] \in Seq(Nat) /\ taken[p] \in Seq(Nat) /\ applied[p] \in Seq(Nat)
         /\ From(p, updates) \in Seq(Nat) /\ heard[p] \in Nat /\ made[p] \in Nat
         /\ Held(reader[p], heard[p]) \in Seq(Nat) /\ Held(watcher[p], made[p]) \in Seq(Nat)
<1>1. /\ 1..MaxReports \subseteq Nat /\ 1..MaxUpdates \subseteq Nat
      /\ 0..MaxReports \subseteq Nat /\ 0..MaxUpdates \subseteq Nat
  BY ResidentBounds
<1>2. /\ inbox[p] \in Seq(1..MaxReports) /\ taken[p] \in Seq(1..MaxReports)
      /\ applied[p] \in Seq(1..MaxUpdates) /\ heard[p] \in 0..MaxReports
      /\ made[p] \in 0..MaxUpdates /\ updates \in Seq(Peers \X (1..MaxUpdates))
  BY DEF IInv, TypeOK
<1>3. From(p, updates) \in Seq(1..MaxUpdates)
  BY <1>2, FromType
<1>4. heard[p] \in Nat /\ made[p] \in Nat
  BY <1>1, <1>2
<1>5. Seq(1..MaxReports) \subseteq Seq(Nat) /\ Seq(1..MaxUpdates) \subseteq Seq(Nat)
  BY <1>1, SeqMonotonic
<1>6. Held(reader[p], heard[p]) \in Seq(Nat) /\ Held(watcher[p], made[p]) \in Seq(Nat)
  BY <1>4 DEF Held
<1> QED
  BY <1>2, <1>3, <1>4, <1>5, <1>6

\* Nothing is on its way at first.
LEMMA ReportsInit == Init => Reports!Init
  BY ConcatEmptySeq DEF Init, Reports!Init, Held

\* A reader that hears sends; a post, and a sleep, is nothing to a channel.
LEMMA ReaderSends ==
  ASSUME IInv, NEW p \in Peers, Hear(p) \/ ReadStep(p)
  PROVE  [Reports!Next]_(Reports!vars)
<1>0. /\ \A q \in Peers : inbox[q] \in Seq(1..MaxReports) /\ heard[q] \in 0..MaxReports
      /\ reader \in [Peers -> {"listen", "post", "sleep"}] /\ DOMAIN inbox = Peers
      /\ DOMAIN heard = Peers
  BY DEF IInv, TypeOK, Functions
<1>1. CASE Hear(p)
  <2>1. /\ Pending(p) = inbox[p] /\ Pending(p)' = Append(inbox[p], heard'[p])
        /\ \A q \in Peers \ {p} : Pending(q)' = Pending(q)
    <3>1. /\ inbox' = inbox /\ reader[p] = "listen" /\ reader'[p] = "post"
          /\ \A q \in Peers \ {p} : reader'[q] = reader[q] /\ heard'[q] = heard[q]
      BY <1>0, <1>1 DEF Hear
    <3>2. heard'[p] = heard[p] + 1
      BY <1>0, <1>1 DEF Hear
    <3> QED
      BY <1>0, <3>1, <3>2, ConcatEmptySeq, AppendIsConcat DEF Pending, Held
  <2>2. /\ Len(Pending(p)') = Len(Pending(p)) + 1
        /\ SubSeq(Pending(p)', 1, Len(Pending(p))) = Pending(p)
    <3>1. heard'[p] \in Nat
      BY <1>0, <1>1, ResidentBounds DEF Hear
    <3> QED
      BY <1>0, <2>1, <3>1
  <2>3. taken' = taken
    BY <1>1 DEF Hear
  <2>4. Reports!Send
    BY <2>1, <2>2, <2>3 DEF Reports!Send, Pending
  <2> QED
    BY <2>4 DEF Reports!Next
<1>2. CASE PostReport(p)
  <2>1. \A q \in Peers : Pending(q)' = Pending(q)
    <3>1. /\ heard' = heard
          /\ \A q \in Peers \ {p} : reader'[q] = reader[q] /\ inbox'[q] = inbox[q]
      BY <1>0, <1>2 DEF PostReport
    <3>2. CASE Len(inbox[p]) < InboxCap
      <4>1. /\ inbox'[p] = Append(inbox[p], heard[p]) /\ reader'[p] = "listen"
            /\ reader[p] = "post"
        BY <1>0, <1>2, <3>2 DEF PostReport
      <4>2. Pending(p) = inbox[p] \o <<heard[p]>> /\ Pending(p)' = Append(inbox[p], heard[p]) \o <<>>
        BY <4>1 DEF Pending, Held
      <4>3. inbox[p] \in Seq(Nat) /\ heard[p] \in Nat
        BY Numbers
      <4>4. Pending(p)' = Pending(p)
        BY SMTT(30), <4>2, <4>3
      <4> QED
        BY <3>1, <4>4 DEF Pending
    <3>3. CASE ~(Len(inbox[p]) < InboxCap)
      <4>1. inbox' = inbox /\ reader'[p] = "sleep" /\ reader[p] = "post"
        BY <1>0, <1>2, <3>3 DEF PostReport
      <4> QED
        BY <1>0, <3>1, <4>1 DEF Pending, Held
    <3> QED
      BY <3>2, <3>3
  <2>2. taken' = taken
    BY <1>2 DEF PostReport
  <2> QED
    BY <2>1, <2>2 DEF Reports!vars, Pending
<1>3. CASE ReaderWakes(p)
  <2>1. /\ inbox' = inbox /\ heard' = heard /\ reader[p] = "sleep" /\ reader'[p] = "post"
        /\ \A q \in Peers \ {p} : reader'[q] = reader[q]
    BY <1>0, <1>3 DEF ReaderWakes
  <2>2. \A q \in Peers : Pending(q)' = Pending(q)
    BY <2>1 DEF Pending, Held
  <2>3. taken' = taken
    BY <1>3 DEF ReaderWakes
  <2> QED
    BY <2>2, <2>3 DEF Reports!vars, Pending
<1> QED
  BY <1>1, <1>2, <1>3 DEF ReadStep

\* A watcher that takes a report receives the oldest.
LEMMA WatcherReceives ==
  ASSUME IInv, NEW p \in Peers, TakeReport(p)
  PROVE  Reports!Receive
<1>0. DOMAIN inbox = Peers /\ DOMAIN taken = Peers
  BY DEF IInv, Functions
<1>1. /\ inbox[p] # <<>> /\ inbox'[p] = Tail(inbox[p])
      /\ taken'[p] = Append(taken[p], Head(inbox[p]))
      /\ \A q \in Peers \ {p} : inbox'[q] = inbox[q] /\ taken'[q] = taken[q]
      /\ reader' = reader /\ heard' = heard
  BY <1>0 DEF TakeReport
<1>2. ASSUME NEW q \in Peers
      PROVE  \E n \in 0..Len(Pending(q)) :
               /\ Pending(q)' = SubSeq(Pending(q), n + 1, Len(Pending(q)))
               /\ taken'[q] = taken[q] \o SubSeq(Pending(q), 1, n)
  <2> DEFINE rest == Held(reader[q], heard[q])
             n    == IF q = p THEN 1 ELSE 0
  <2>1. inbox[q] \in Seq(Nat) /\ taken[q] \in Seq(Nat) /\ rest \in Seq(Nat)
    BY Numbers
  <2>2. Pending(q) = inbox[q] \o rest /\ Pending(q)' = inbox'[q] \o rest
    BY <1>1 DEF Pending
  <2> HIDE DEF rest
  <2>3. n \in 0..Len(inbox[q])
    BY <1>1, <2>1
  <2>4. inbox'[q] = Left(inbox[q], n)
    <3>1. CASE q = p
      <4>1. inbox'[p] = Tail(inbox[p]) /\ inbox[p] # <<>> /\ inbox[p] \in Seq(Nat)
        BY <1>1, <2>1, <3>1
      <4>2. Tail(inbox[p]) = SubSeq(inbox[p], 2, Len(inbox[p]))
        BY <4>1, TailIsSubSeq
      <4>3. n + 1 = 2
        BY <3>1
      <4> QED
        BY <3>1, <4>1, <4>2, <4>3 DEF Left
    <3>2. CASE q # p
      BY <1>1, <2>1, <3>2, SubSeqFull DEF Left
    <3> QED
      BY <3>1, <3>2
  <2>5. taken'[q] = taken[q] \o Taken(inbox[q], n)
    <3>1. CASE q = p
      <4>1. SubSeq(inbox[p], 1, 1) = <<Head(inbox[p])>>
        <5>1. Len(inbox[p]) \in Nat \ {0}
          BY <1>1, <2>1, <3>1, EmptySeq
        <5>2. SubSeq(inbox[p], 1, 1) = <<inbox[p][1]>>
          <6> DEFINE s == inbox[p]
          <6>1. s \in Seq(Nat) /\ Len(s) \in Nat \ {0}
            BY <2>1, <3>1, <5>1
          <6> HIDE DEF s
          <6>2. SubSeq(s, 1, 1) \in Seq(Nat) /\ Len(SubSeq(s, 1, 1)) = 1 /\ SubSeq(s, 1, 1)[1] = s[1]
            BY <6>1
          <6>3. s[1] \in Nat /\ <<s[1]>> \in Seq(Nat) /\ Len(<<s[1]>>) = 1 /\ <<s[1]>>[1] = s[1]
            BY <6>1
          <6> DEFINE a == SubSeq(s, 1, 1)
                     b == <<s[1]>>
          <6>4. a \in Seq(Nat) /\ b \in Seq(Nat) /\ Len(a) = Len(b) /\ \A i \in 1..Len(a) : a[i] = b[i]
            BY <6>2, <6>3
          <6>5. a = b
            <7> HIDE DEF a, b
            <7> QED
              BY <6>4, SeqEqual
          <6> QED
            BY <6>5 DEF s
        <5> QED
          BY <5>1, <5>2
      <4>2. Head(inbox[p]) \in Nat
        BY <1>1, <2>1, <3>1
      <4> QED
        BY <1>1, <2>1, <3>1, <4>1, <4>2, AppendIsConcat DEF Taken
    <3>2. CASE q # p
      <4>1. SubSeq(inbox[q], 1, 0) = <<>>
        BY <2>1
      <4> QED
        BY <1>1, <2>1, <3>2, <4>1, ConcatEmptySeq DEF Taken
    <3> QED
      BY <3>1, <3>2
  <2> HIDE DEF n
  <2>6. /\ n \in 0..Len(inbox[q] \o rest)
        /\ Taken(inbox[q] \o rest, n) = Taken(inbox[q], n)
        /\ Left(inbox[q] \o rest, n) = Left(inbox[q], n) \o rest
    BY Zenon, <2>1, <2>3, TakenFromFront
  <2>7. /\ n \in 0..Len(Pending(q))
        /\ Pending(q)' = Left(Pending(q), n)
        /\ taken'[q] = taken[q] \o Taken(Pending(q), n)
    BY Zenon, <2>2, <2>4, <2>5, <2>6
  <2> QED
    BY Zenon, <2>7 DEF Taken, Left
<1> QED
  BY <1>0, <1>2 DEF Reports!Receive, Pending

\* What no reader and no inbox sees is nothing to the channels.
LEMMA ReportsIdle ==
  ASSUME UNCHANGED <<inbox, reader, heard, taken>>
  PROVE  UNCHANGED Reports!vars
  BY DEF Reports!vars, Held

\* Every step is one of the channels.
LEMMA ReportsNext == IInv /\ [Next]_vars => [Reports!Next]_(Reports!vars)
<1> SUFFICES ASSUME IInv, [Next]_vars PROVE [Reports!Next]_(Reports!vars)
  OBVIOUS
<1>1. ASSUME NEW p \in Peers, WatchStep(p) \/ DeadlineComes(p)
      PROVE  [Reports!Next]_(Reports!vars)
  <2>1. CASE TakeReport(p)
    BY <2>1, WatcherReceives DEF Reports!Next
  <2>2. CASE ~TakeReport(p)
    BY <1>1, <2>2, ReportsIdle DEF WatchStep, DiscoveryEnds, DeadlineComes, Fetch,
       FetchFails, PostUpdate, WatcherWakes, readers
  <2> QED
    BY <2>1, <2>2
<1>2. CASE ServeStep \/ Ask \/ UNCHANGED vars
  BY <1>2, ReportsIdle DEF ServeStep, Ask, Apply, Answered, vars, readers
<1> QED
  BY <1>1, <1>2, ReaderSends DEF Next

\* What a reader heard reaches its watcher in that order, each report once,
\* however full the inbox is and however often post() has to wait.
THEOREM ReportsTheorem == Spec => ReportsInOrder
BY Always, ReportsInit, ReportsNext, PTL DEF Spec, ReportsInOrder, Reports!Spec

-----------------------------------------------------------------------------
(* So is what the server sees of UPDATES, peer by peer.                    *)

\* What a watcher has made and the server has not applied.
Coming(p) == From(p, updates) \o Held(watcher[p], made[p])

\* Nothing has been made at first.
LEMMA UpdatesInit == Init => Updates!Init
  BY ConcatEmptySeq, FromEmpty DEF Init, Updates!Init, Held

\* A fetch that succeeds sends.
LEMMA FetchSends ==
  ASSUME IInv, NEW p \in Peers, Fetch(p)
  PROVE  Updates!Send
<1>1. /\ watcher[p] = "refresh" /\ watcher'[p] = "post" /\ made'[p] = made[p] + 1
      /\ \A q \in Peers \ {p} : watcher'[q] = watcher[q] /\ made'[q] = made[q]
      /\ updates' = updates /\ applied' = applied
  BY DEF IInv, TypeOK, Functions, Fetch, box
<1>2. From(p, updates) \in Seq(Nat) /\ made[p] \in Nat
  BY Numbers
<1>3. /\ Coming(p) = From(p, updates) \o <<>>
      /\ Coming(p)' = From(p, updates) \o <<made[p] + 1>>
  BY <1>1 DEF Coming, Held
<1>4. Coming(p) = From(p, updates) /\ Coming(p)' = Append(From(p, updates), made[p] + 1)
  <2> DEFINE his == From(p, updates)
  <2>1. his \in Seq(Nat) /\ made[p] + 1 \in Nat
    BY <1>2
  <2> HIDE DEF his
  <2>2. his \o <<>> = his /\ his \o <<made[p] + 1>> = Append(his, made[p] + 1)
    BY <2>1
  <2> QED
    BY <1>3, <2>2 DEF his
<1>5. /\ Len(Coming(p)') = Len(Coming(p)) + 1
      /\ SubSeq(Coming(p)', 1, Len(Coming(p))) = Coming(p)
  <2> DEFINE his == From(p, updates)
  <2>1. his \in Seq(Nat) /\ made[p] + 1 \in Nat
    BY <1>2
  <2> HIDE DEF his
  <2>2. /\ Len(Append(his, made[p] + 1)) = Len(his) + 1
        /\ SubSeq(Append(his, made[p] + 1), 1, Len(his)) = his
    BY <2>1
  <2> QED
    BY <1>4, <2>2 DEF his
<1>6. \A q \in Peers \ {p} : Coming(q)' = Coming(q)
  BY <1>1 DEF Coming
<1> QED
  BY <1>1, <1>5, <1>6 DEF Updates!Send, Coming

\* A post is nothing to a channel: the message moves from the task's hand to
\* the end of the mailbox.
LEMMA PostIsQuiet ==
  ASSUME IInv, NEW p \in Peers, PostUpdate(p)
  PROVE  UNCHANGED Updates!vars
<1>1. /\ made' = made /\ applied' = applied /\ watcher[p] = "post"
      /\ \A q \in Peers \ {p} : watcher'[q] = watcher[q]
  BY DEF IInv, TypeOK, PostUpdate
<1>2. /\ updates \in Seq(Peers \X (1..MaxUpdates)) /\ DOMAIN watcher = Peers
  BY DEF IInv, TypeOK
<1>3. made[p] \in 1..MaxUpdates
  BY ResidentBounds, <1>1 DEF IInv, TypeOK, Holders
<1>4. CASE Len(updates) < UpdatesCap
  <2>1. /\ updates' = Append(updates, <<p, made[p]>>)
        /\ watcher'[p] \in {"wait", "refresh"}
    BY <1>2, <1>4 DEF PostUpdate
  <2>2. <<p, made[p]>> \in Peers \X (1..MaxUpdates)
    BY <1>3
  <2>3. \A q \in Peers :
          From(q, Append(updates, <<p, made[p]>>)) =
            IF p = q THEN Append(From(q, updates), made[p]) ELSE From(q, updates)
    BY <1>2, <2>2, FromAppend
  <2>4. \A q \in Peers \ {p} : Coming(q)' = Coming(q)
    BY <1>1, <2>1, <2>3 DEF Coming
  <2>5. Coming(p) = From(p, updates) \o <<made[p]>> /\ Coming(p)' = Append(From(p, updates), made[p]) \o <<>>
    BY <1>1, <2>1, <2>3 DEF Coming, Held
  <2>6. Coming(p)' = Coming(p)
    <3> DEFINE his == From(p, updates)
    <3>1. his \in Seq(Nat) /\ made[p] \in Nat
      BY Numbers
    <3> HIDE DEF his
    <3>2. Append(his, made[p]) \o <<>> = his \o <<made[p]>>
      BY <3>1
    <3> QED
      BY <2>5, <3>2 DEF his
  <2> QED
    BY <1>1, <2>4, <2>6 DEF Updates!vars, Coming
<1>5. CASE ~(Len(updates) < UpdatesCap)
  <2>1. updates' = updates /\ watcher'[p] = "sleep"
    BY <1>2, <1>5 DEF PostUpdate
  <2>2. \A q \in Peers : Coming(q)' = Coming(q)
    BY <1>1, <2>1 DEF Coming, Held
  <2> QED
    BY <1>1, <2>2 DEF Updates!vars, Coming
<1> QED
  BY <1>4, <1>5

\* All that is in the mailbox is received; a message in hand stays.
LEMMA ApplyReceives ==
  ASSUME IInv, Apply
  PROVE  Updates!Receive
<1>1. /\ \A p \in Peers : applied'[p] = applied[p] \o From(p, updates)
      /\ updates' = <<>> /\ watcher' = watcher /\ made' = made
  BY DEF Apply, watchers
<1>2. ASSUME NEW p \in Peers
      PROVE  \E n \in 0..Len(Coming(p)) :
               /\ Coming(p)' = SubSeq(Coming(p), n + 1, Len(Coming(p)))
               /\ applied'[p] = applied[p] \o SubSeq(Coming(p), 1, n)
  <2> DEFINE his  == From(p, updates)
             rest == Held(watcher[p], made[p])
             n    == Len(his)
  <2>1. his \in Seq(Nat) /\ rest \in Seq(Nat)
    BY Numbers
  <2>2. Coming(p) = his \o rest /\ Coming(p)' = <<>> \o rest
    BY <1>1, FromEmpty DEF Coming
  <2>3. applied'[p] = applied[p] \o his
    BY <1>1
  <2> HIDE DEF his, rest
  <2>4. n \in 0..Len(his) /\ Taken(his, n) = his /\ Left(his, n) = <<>>
    BY <2>1, SubSeqFull DEF Taken, Left
  <2> HIDE DEF n
  <2>5. /\ n \in 0..Len(his \o rest)
        /\ Taken(his \o rest, n) = Taken(his, n)
        /\ Left(his \o rest, n) = Left(his, n) \o rest
    BY ZenonT(40), <2>1, <2>4, TakenFromFront
  <2>6. /\ n \in 0..Len(Coming(p))
        /\ Coming(p)' = Left(Coming(p), n)
        /\ applied'[p] = applied[p] \o Taken(Coming(p), n)
    BY Zenon, <2>2, <2>3, <2>4, <2>5
  <2> QED
    BY Zenon, <2>6 DEF Taken, Left
<1> QED
  BY <1>2 DEF Updates!Receive, Coming

\* Whoever waits, discovers or refreshes holds no message.
LEMMA WatcherIsQuiet ==
  ASSUME IInv, NEW p \in Peers,
         DiscoveryEnds(p) \/ TakeReport(p) \/ FetchFails(p) \/ WatcherWakes(p) \/ DeadlineComes(p)
  PROVE  UNCHANGED Updates!vars
<1>1. /\ made' = made /\ applied' = applied /\ updates' = updates
      /\ \A q \in Peers \ {p} : watcher'[q] = watcher[q]
  BY DEF IInv, TypeOK, DiscoveryEnds, TakeReport, FetchFails, WatcherWakes, DeadlineComes, box
<1>2. \/ watcher[p] = "sleep" /\ watcher'[p] = "post"
      \/ watcher[p] \in {"discover", "wait", "refresh"} /\ watcher'[p] \in {"discover", "wait", "refresh"}
  BY DEF IInv, TypeOK, DiscoveryEnds, TakeReport, FetchFails, WatcherWakes, DeadlineComes
<1>3. Held(watcher'[p], made[p]) = Held(watcher[p], made[p])
  BY <1>2 DEF Held
<1>4. \A q \in Peers : Coming(q)' = Coming(q)
  BY <1>1, <1>3 DEF Coming
<1> QED
  BY <1>1, <1>4 DEF Updates!vars, Coming

\* What touches no watcher and no update is nothing to the channels.
LEMMA UpdatesIdle ==
  ASSUME UNCHANGED <<updates, watcher, made, applied>>
  PROVE  UNCHANGED Updates!vars
  BY DEF Updates!vars, Held

\* Every step is one of the channels.
LEMMA UpdatesNext == IInv /\ [Next]_vars => [Updates!Next]_(Updates!vars)
<1> SUFFICES ASSUME IInv, [Next]_vars PROVE [Updates!Next]_(Updates!vars)
  OBVIOUS
<1>1. ASSUME NEW p \in Peers, WatchStep(p) \/ DeadlineComes(p)
      PROVE  [Updates!Next]_(Updates!vars)
  BY <1>1, FetchSends, PostIsQuiet, WatcherIsQuiet DEF WatchStep, Updates!Next
<1>2. ASSUME NEW p \in Peers, Hear(p) \/ ReadStep(p)
      PROVE  [Updates!Next]_(Updates!vars)
  BY <1>2, UpdatesIdle DEF Hear, ReadStep, PostReport, ReaderWakes, watchers, box
<1>3. CASE Apply
  BY <1>3, ApplyReceives DEF Updates!Next
<1>4. CASE Answered \/ Ask \/ UNCHANGED vars
  BY <1>4, UpdatesIdle DEF Answered, Ask, vars, watchers, box
<1> QED
  BY <1>1, <1>2, <1>3, <1>4 DEF Next, ServeStep

\* What a watcher made is applied in that order, each update once, however
\* full the mailbox is, whoever else posts there and however long an answer
\* keeps the server.
THEOREM UpdatesTheorem == Spec => UpdatesInOrder
BY Always, UpdatesInit, UpdatesNext, PTL DEF Spec, UpdatesInOrder, Updates!Spec
=============================================================================

------------------------------- MODULE Resident -------------------------------
(***************************************************************************)
(* The tasks of the HopOS resident (src/src/bin/hopdns-hopos.rs) and the   *)
(* mailboxes between them.  Each peer has a reader task that posts what it *)
(* hears in the inbox of its watcher task; the watchers post updates in    *)
(* one mailbox for the server task.  A mailbox is bounded: post() keeps    *)
(* its message while there is no room, sleeps and tries again.  One        *)
(* executor runs the tasks, so a step here is what a task does between two *)
(* awaits.                                                                 *)
(*                                                                         *)
(* Data.  A message is its number among its sender's messages.  What the   *)
(* watcher does with a report is module Watcher; here a report, or a       *)
(* deadline, may start a refresh, and a refresh posts any number of        *)
(* updates.                                                                *)
(***************************************************************************)
EXTENDS Integers, SequencesExt

CONSTANTS
  Peers,       \* the peers of HOPDNS_PEERS that have an inbox (MAX_PEERS)
  InboxCap,    \* the length of an inbox
  UpdatesCap,  \* the length of UPDATES
  MaxReports,  \* bound: reports that one reader hears
  MaxUpdates,  \* bound: updates that one watcher makes
  MaxQueries   \* bound: questions asked

ASSUME CapAssumption == InboxCap \in Nat \ {0} /\ UpdatesCap \in Nat \ {0}
ASSUME ResidentBounds ==
  MaxReports \in Nat /\ MaxUpdates \in Nat /\ MaxQueries \in Nat

VARIABLES
  started,  \* per peer, what start_peers could spawn: "both", "reader" (also
            \* when the watcher ends at once, on Watcher::new), "none"
  reader,   \* per peer: "listen", "post" (about to try), "sleep"
  watcher,  \* per peer: "discover", "wait", "refresh", "post", "sleep"
  heard,    \* per peer, reports heard so far
  made,     \* per peer, updates made so far
  inbox,    \* per peer, the mailbox HEARD
  updates,  \* the mailbox UPDATES: pairs of a peer and a message
  taken,    \* per peer, the reports the watcher has taken
  applied,  \* per peer, its updates that the server has applied
  server,   \* "select" or "answer"
  queries   \* questions so far

readers  == <<reader, heard, inbox>>
watchers == <<watcher, made>>
box      == <<updates, applied>>
serving  == <<server, queries>>
vars     == <<started, readers, taken, watchers, box, serving>>

Init ==
  /\ started \in [Peers -> {"both", "reader", "none"}]
  /\ reader = [p \in Peers |-> "listen"]
  /\ watcher = [p \in Peers |-> "discover"]
  /\ heard = [p \in Peers |-> 0]
  /\ made = [p \in Peers |-> 0]
  /\ inbox = [p \in Peers |-> <<>>]
  /\ updates = <<>>
  /\ taken = [p \in Peers |-> <<>>]
  /\ applied = [p \in Peers |-> <<>>]
  /\ server = "select"
  /\ queries = 0

-----------------------------------------------------------------------------
(* The reader task: read_events.                                           *)

\* The stream gives an event or breaks; either is a report.
Hear(p) ==
  /\ started[p] # "none"
  /\ reader[p] = "listen" /\ heard[p] < MaxReports
  /\ heard' = [heard EXCEPT ![p] = @ + 1]
  /\ reader' = [reader EXCEPT ![p] = "post"]
  /\ UNCHANGED <<started, inbox, taken, watchers, box, serving>>

\* Mutant: what does not fit is dropped.
PostReportOrDrop(p) ==
  /\ reader[p] = "post"
  /\ inbox' = [inbox EXCEPT ![p] = IF Len(@) < InboxCap THEN Append(@, heard[p]) ELSE @]
  /\ reader' = [reader EXCEPT ![p] = "listen"]
  /\ UNCHANGED <<started, heard, taken, watchers, box, serving>>

\* Mutant: the test for room is off by one.
PostReportOneMore(p) ==
  /\ reader[p] = "post" /\ Len(inbox[p]) <= InboxCap
  /\ inbox' = [inbox EXCEPT ![p] = Append(@, heard[p])]
  /\ reader' = [reader EXCEPT ![p] = "listen"]
  /\ UNCHANGED <<started, heard, taken, watchers, box, serving>>

\* fn post: the message goes in, or the task keeps it and sleeps.
PostReport(p) ==
  /\ reader[p] = "post"
  /\ IF Len(inbox[p]) < InboxCap
     THEN /\ inbox' = [inbox EXCEPT ![p] = Append(@, heard[p])]
          /\ reader' = [reader EXCEPT ![p] = "listen"]
     ELSE reader' = [reader EXCEPT ![p] = "sleep"] /\ UNCHANGED inbox
  /\ UNCHANGED <<started, heard, taken, watchers, box, serving>>

ReaderWakes(p) ==
  /\ reader[p] = "sleep"
  /\ reader' = [reader EXCEPT ![p] = "post"]
  /\ UNCHANGED <<started, heard, inbox, taken, watchers, box, serving>>

-----------------------------------------------------------------------------
(* The watcher task: watch and refresh.                                    *)

\* agent.status() ends, with a name or without; reports wait meanwhile.
DiscoveryEnds(p) ==
  /\ started[p] = "both" /\ watcher[p] = "discover"
  /\ \E next \in {"wait", "refresh"} : watcher' = [watcher EXCEPT ![p] = next]
  /\ UNCHANGED <<started, readers, taken, made, box, serving>>

\* inbox.recv(); next() may then ask for a refresh.
TakeReport(p) ==
  /\ started[p] = "both"
  /\ watcher[p] = "wait" /\ inbox[p] # <<>>
  /\ taken' = [taken EXCEPT ![p] = Append(@, Head(inbox[p]))]
  /\ inbox' = [inbox EXCEPT ![p] = Tail(@)]
  /\ \E next \in {"wait", "refresh"} : watcher' = [watcher EXCEPT ![p] = next]
  /\ UNCHANGED <<started, reader, heard, made, box, serving>>

\* exec.until(t); select polls the mailbox first.
DeadlineComes(p) ==
  /\ started[p] = "both"
  /\ watcher[p] = "wait" /\ inbox[p] = <<>>
  /\ \E next \in {"discover", "refresh"} : watcher' = [watcher EXCEPT ![p] = next]
  /\ UNCHANGED <<started, readers, taken, made, box, serving>>

\* A request is answered and its update made, or the refresh ends there.
Fetch(p) ==
  /\ watcher[p] = "refresh" /\ made[p] < MaxUpdates
  /\ made' = [made EXCEPT ![p] = @ + 1]
  /\ watcher' = [watcher EXCEPT ![p] = "post"]
  /\ UNCHANGED <<started, readers, taken, box, serving>>

FetchFails(p) ==
  /\ watcher[p] = "refresh"
  /\ watcher' = [watcher EXCEPT ![p] = "wait"]
  /\ UNCHANGED <<started, readers, taken, made, box, serving>>

\* fn post; the refresh goes on with its next job, or is over.
PostUpdate(p) ==
  /\ watcher[p] = "post"
  /\ IF Len(updates) < UpdatesCap
     THEN /\ updates' = Append(updates, <<p, made[p]>>)
          /\ \E next \in {"wait", "refresh"} : watcher' = [watcher EXCEPT ![p] = next]
     ELSE watcher' = [watcher EXCEPT ![p] = "sleep"] /\ UNCHANGED updates
  /\ UNCHANGED <<started, readers, taken, made, applied, serving>>

\* Mutant: a watcher sleeps until the mailbox is empty and its inbox too.
WatcherWakesLate(p) ==
  /\ watcher[p] = "sleep" /\ updates = <<>> /\ inbox[p] = <<>>
  /\ watcher' = [watcher EXCEPT ![p] = "post"]
  /\ UNCHANGED <<started, readers, taken, made, box, serving>>

WatcherWakes(p) ==
  /\ watcher[p] = "sleep"
  /\ watcher' = [watcher EXCEPT ![p] = "post"]
  /\ UNCHANGED <<started, readers, taken, made, box, serving>>

-----------------------------------------------------------------------------
(* The server task: serve.                                                 *)

\* The messages of one peer in a mailbox, in their order.
From(p, mail) ==
  LET his[i \in 0..Len(mail)] ==
        IF i = 0 THEN <<>>
        ELSE IF mail[i][1] = p THEN Append(his[i - 1], mail[i][2]) ELSE his[i - 1]
  IN  his[Len(mail)]

\* Mutant: only the update that woke the server is applied.
ApplyFirst ==
  /\ server = "select" /\ updates # <<>>
  /\ applied' = [p \in Peers |-> applied[p] \o From(p, <<Head(updates)>>)]
  /\ updates' = <<>>
  /\ UNCHANGED <<started, readers, taken, watchers, serving>>

\* All that is in the mailbox is applied without an await between.
Apply ==
  /\ server = "select" /\ updates # <<>>
  /\ applied' = [p \in Peers |-> applied[p] \o From(p, updates)]
  /\ updates' = <<>>
  /\ UNCHANGED <<started, readers, taken, watchers, serving>>

\* A question, or a recv that fails; the updates wait until its answer has
\* been sent, or until the server has slept.
Ask ==
  /\ server = "select" /\ queries < MaxQueries
  /\ server' = "answer" /\ queries' = queries + 1
  /\ UNCHANGED <<started, readers, taken, watchers, box>>

Answered ==
  /\ server = "answer"
  /\ server' = "select"
  /\ UNCHANGED <<started, readers, taken, watchers, box, queries>>

ReadStep(p)  == PostReport(p) \/ ReaderWakes(p)
WatchStep(p) ==
  \/ DiscoveryEnds(p) \/ TakeReport(p) \/ Fetch(p) \/ FetchFails(p)
  \/ PostUpdate(p) \/ WatcherWakes(p)
ServeStep    == Apply \/ Answered

Next ==
  \/ \E p \in Peers : Hear(p) \/ ReadStep(p) \/ WatchStep(p) \/ DeadlineComes(p)
  \/ ServeStep \/ Ask

\* The executor polls every task that is awake, timers fire, a request ends
\* and an answer is sent.  That anything is heard or asked is not assumed.
Fairness ==
  /\ \A p \in Peers : WF_vars(ReadStep(p)) /\ WF_vars(WatchStep(p))
  /\ WF_vars(ServeStep)

Spec == Init /\ [][Next]_vars /\ Fairness

-----------------------------------------------------------------------------
(* Properties *)

\* Every variable keeps its type, the mailboxes their bounds, and a task that
\* was not spawned does nothing.
TypeOK ==
  /\ started \in [Peers -> {"both", "reader", "none"}]
  /\ reader \in [Peers -> {"listen", "post", "sleep"}]
  /\ watcher \in [Peers -> {"discover", "wait", "refresh", "post", "sleep"}]
  /\ \A p \in Peers :
       /\ heard[p] \in 0..MaxReports /\ made[p] \in 0..MaxUpdates
       /\ inbox[p] \in Seq(1..MaxReports) /\ Len(inbox[p]) <= InboxCap
       /\ taken[p] \in Seq(1..MaxReports) /\ applied[p] \in Seq(1..MaxUpdates)
       /\ started[p] # "both" => watcher[p] = "discover" /\ taken[p] = <<>>
       /\ started[p] = "none" => heard[p] = 0
  /\ updates \in Seq(Peers \X (1..MaxUpdates)) /\ Len(updates) <= UpdatesCap
  /\ server \in {"select", "answer"} /\ queries \in 0..MaxQueries

\* The message a sender still holds counts as sent: seen from the receiver
\* the bounded mailboxes, with post() in front, are the channels of the host
\* daemon.  Nothing is lost, doubled or overtaken, however full they are.
Held(state, n) == IF state \in {"post", "sleep"} THEN <<n>> ELSE <<>>

Reports == INSTANCE Channels WITH
  Senders <- Peers,
  queue   <- [p \in Peers |-> inbox[p] \o Held(reader[p], heard[p])],
  arrived <- taken
Updates == INSTANCE Channels WITH
  Senders <- Peers,
  queue   <- [p \in Peers |-> From(p, updates) \o Held(watcher[p], made[p])],
  arrived <- applied
ReportsInOrder == Reports!Spec
UpdatesInOrder == Updates!Spec

\* Reader, watcher and server never wait for each other in a circle: what is
\* heard is taken and what is made is applied, also while the other peer's
\* reader has no watcher and its inbox stays full.
AllArrives ==
  \A p \in Peers : started[p] = "both" =>
    <>[](Len(taken[p]) = heard[p] /\ Len(applied[p]) = made[p])
=============================================================================

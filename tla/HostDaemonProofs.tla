--------------------------- MODULE HostDaemonProofs ---------------------------
(***************************************************************************)
(* Theorems about the daemon, for every number of peers, clusters, jobs,   *)
(* changes, faults and shortages.                                          *)
(*                                                                         *)
(* The invariant has four layers.  Base: the types, with every watcher's   *)
(* record well-formed (WatcherOK) and the refresh in hand matching the     *)
(* place of its thread.  PingFollowsBreak.  NoForgottenChange, which needs *)
(* StaleIsNoticed: a refresh whose agents are out of date, and which may   *)
(* therefore send an old answer, has a successor on its way.  And Ordered: *)
(* what a cluster's only peer has read, sent and had applied is a chain.   *)
(***************************************************************************)
EXTENDS HostDaemon, WatcherOpsProofs, SequenceTheorems, WellFoundedInduction, TLAPS

-----------------------------------------------------------------------------
(* The invariant.                                                          *)

\* A version is a number of changes so far.
Bounded ==
  \A c \in Clusters :
    /\ hop[c].agents <= changes
    /\ \A job \in Jobs : hop[c].tasks[job] <= changes

\* Where a thread is says what it holds; a peer that is not configured has
\* none; what it read is no newer than the cluster.
HandsOK ==
  \A p \in Peers :
    /\ pc[p] # "stopped" => p \in Configured
    /\ pc[p] \notin {"agents", "tasks"} => hand[p] = NoHand
    /\ pc[p] = "tasks" =>
         /\ hand[p].agents # NotRead
         /\ hand[p].what = "jobs" => hand[p].job \in hand[p].todo
    /\ hand[p].agents # NotRead => hand[p].agents <= hop[clusterOf[p]].agents

Hands ==
  [what : {"none", "full", "jobs"}, todo : SUBSET Jobs, job : Jobs \cup {NoName},
   agents : Versions \cup {NotRead}, age : Ticks]

Base ==
  /\ TypeOK
  /\ \A p \in Peers : WatcherOK(w[p])
  /\ Bounded
  /\ HandsOK

\* Something will make the watcher fetch the job once more.
Noticed(p, job) == conn[p] # "up" \/ OnItsWay(p, job) \/ Listed(p, job)

Reading(p, job) == hand[p].what = "full" \/ job \in hand[p].todo

StaleIsNoticed ==
  \A p \in Configured, job \in Live :
    Reading(p, job) /\ hand[p].agents \notin {NotRead, hop[clusterOf[p]].agents}
      => Noticed(p, job)

\* The updates on their way with a cell of the job.
About(c, job) ==
  {i \in DOMAIN updates : updates[i].cluster = c /\ job \in DOMAIN updates[i].cells}

NoOlder(old, new) == old[1] <= new[1] /\ old[2] <= new[2]

Sole(p) == {q \in Peers : clusterOf[q] = clusterOf[p]} = {p}

\* What the next answer to p holds of a job is at least this.
NextRead(p, job) ==
  LET c == clusterOf[p]
  IN  <<IF hand[p].agents = NotRead THEN hop[c].agents ELSE hand[p].agents,
        hop[c].tasks[job]>>

Chain(p, c, job) ==
  /\ NoOlder(cache[c][job], NextRead(p, job))
  /\ \A i \in About(c, job) :
       /\ NoOlder(cache[c][job], updates[i].cells[job])
       /\ NoOlder(updates[i].cells[job], NextRead(p, job))
       /\ \A k \in About(c, job) :
            i < k => NoOlder(updates[i].cells[job], updates[k].cells[job])

Ordered ==
  \A p \in Configured, job \in Jobs : Sole(p) => Chain(p, clusterOf[p], job)

IInv ==
  /\ Base
  /\ PingFollowsBreak
  /\ shortages = 0 => StaleIsNoticed
  /\ NoForgottenChange
  /\ Ordered

-----------------------------------------------------------------------------
(* Lemmas about the operators of the model.                                *)

\* A set of positions has a last one.
LEMMA LastPosition ==
  ASSUME NEW n \in Nat, NEW S \in SUBSET (1..n), S # {}
  PROVE  /\ Max(S) \in S
         /\ \A i \in S : i <= Max(S)
<1> DEFINE T == {n - i : i \in S}
<1>0. \A i \in S : i \in Nat /\ n - i \in Nat
  OBVIOUS
<1>1. T \subseteq Nat /\ T # {}
  BY <1>0
<1>2. PICK m \in T : \A k \in T : ~(<<k, m>> \in OpToRel(<, Nat))
  BY <1>1, WFMin, NatLessThanWellFounded
<1>3. \A k \in T : ~(k < m)
  BY <1>1, <1>2 DEF OpToRel
<1>4. PICK x \in S : m = n - x
  OBVIOUS
<1>5. \A i \in S : x >= i
  <2> TAKE i \in S
  <2>1. n - i \in T
    OBVIOUS
  <2>2. ~(n - i < n - x)
    BY <2>1, <1>3, <1>4
  <2> QED  BY <1>0, <2>2
<1>6. \E y \in S : \A i \in S : y >= i
  BY <1>5
<1>7. Max(S) \in S /\ \A i \in S : Max(S) >= i
  BY <1>6 DEF Max
<1> QED  BY <1>0, <1>7

\* The bounds and the clusters of a scenario.
LEMMA ScenarioFacts ==
  ASSUME TypeOK
  PROVE  /\ scenario.changes \in Nat /\ scenario.faults \in Nat /\ scenario.shortages \in Nat
         /\ clusterOf \in [Peers -> Clusters \cup {Nowhere}]
         /\ Live \subseteq Jobs
         /\ \A p \in Configured : p \in Peers /\ clusterOf[p] \in Clusters
         /\ Watched \subseteq Clusters
BY ScenariosAssumption DEF TypeOK, clusterOf, Live, Configured, Watched

\* Every report is one the watcher knows, and a break is none of the others.
LEMMA ReportFacts ==
  /\ \A r \in Reports : r.topic \in Topics \cup {"broken"} /\ r.job \in Jobs \cup {NoName}
  /\ \A r \in Reports \ {Broken} : r.topic \in Topics
  /\ Ping \in Reports \ {Broken} /\ Status \in Reports \ {Broken}
  /\ AgentSeen \in Reports \ {Broken} /\ Broken \in Reports
  /\ \A job \in Jobs : Report("job", job) \in Reports \ {Broken}
<1>1. /\ Ping.topic = "ping" /\ Status.topic = "status" /\ AgentSeen.topic = "agent"
      /\ Broken.topic = "broken"
      /\ Ping.job = NoName /\ Status.job = NoName /\ AgentSeen.job = NoName
      /\ Broken.job = NoName
      /\ \A job : Report("job", job).topic = "job" /\ Report("job", job).job = job
  BY DEF Ping, Status, AgentSeen, Broken, Report
<1>2. \A r \in Reports \ {Broken} :
        r \in {Ping, Status, AgentSeen} \/ \E job \in Jobs : r = Report("job", job)
  BY DEF Reports
<1>3. \A r \in Reports \ {Broken} : r.topic \in Topics /\ r.job \in Jobs \cup {NoName}
  BY <1>1, <1>2 DEF Topics
<1>4. Broken \in Reports /\ {Ping, Status, AgentSeen} \subseteq Reports
      /\ \A job \in Jobs : Report("job", job) \in Reports
  BY DEF Reports
<1>5. \A r : r \in {Ping, Status, AgentSeen} \/ (\E job : r = Report("job", job))
             => r # Broken
  BY <1>1
<1> QED  BY <1>1, <1>3, <1>4, <1>5

\* A message sent goes to the end of its channel.
LEMMA SendFacts ==
  ASSUME TypeOK, NEW p \in Peers, NEW r \in Reports, Send(p, r)
  PROVE  /\ inbox' \in [Peers -> Seq(Reports)]
         /\ inbox'[p] = Append(inbox[p], r)
         /\ \A q \in Peers : q # p => inbox'[q] = inbox[q]
<1>1. inbox[p] \in Seq(Reports)
  BY DEF TypeOK
<1>2. Append(inbox[p], r) \in Seq(Reports)
  BY <1>1, AppendProperties
<1> QED  BY <1>2 DEF Send, TypeOK

\* A report goes to the end of every stream that has room, and marks the
\* others.
LEMMA TellFacts ==
  ASSUME TypeOK, NEW c, NEW r \in Reports \ {Broken}, Tell(c, r)
  PROVE  /\ wire' \in [Peers -> Seq(Reports \ {Broken})]
         /\ \A p \in Peers : Len(wire'[p]) <= WireCap
         /\ missed' \in [Peers -> BOOLEAN]
         /\ \A p \in Peers :
              \/ clusterOf[p] = c /\ conn[p] = "up" /\ wire'[p] = Append(wire[p], r)
                   /\ missed'[p] = missed[p]
              \/ clusterOf[p] = c /\ conn[p] = "up" /\ wire'[p] = wire[p] /\ missed'[p]
              \/ ~(clusterOf[p] = c /\ conn[p] = "up")
                   /\ wire'[p] = wire[p] /\ missed'[p] = missed[p]
<1>0. /\ wire' = [p \in Peers |->
             IF clusterOf[p] = c /\ conn[p] = "up" /\ Len(wire[p]) < WireCap
             THEN Append(wire[p], r) ELSE wire[p]]
      /\ missed' = [p \in Peers |-> missed[p] \/
             (clusterOf[p] = c /\ conn[p] = "up" /\ ~(Len(wire[p]) < WireCap))]
  BY DEF Tell
<1>1. ASSUME NEW p \in Peers
      PROVE  /\ wire'[p] \in Seq(Reports \ {Broken})
             /\ Len(wire'[p]) <= WireCap
             /\ missed'[p] \in BOOLEAN
             /\ \/ clusterOf[p] = c /\ conn[p] = "up" /\ wire'[p] = Append(wire[p], r)
                     /\ missed'[p] = missed[p]
                \/ clusterOf[p] = c /\ conn[p] = "up" /\ wire'[p] = wire[p] /\ missed'[p]
                \/ ~(clusterOf[p] = c /\ conn[p] = "up")
                     /\ wire'[p] = wire[p] /\ missed'[p] = missed[p]
  <2>1. /\ wire[p] \in Seq(Reports \ {Broken}) /\ Len(wire[p]) <= WireCap
        /\ missed[p] \in BOOLEAN
    BY DEF TypeOK
  <2>2. /\ Append(wire[p], r) \in Seq(Reports \ {Broken})
        /\ Len(Append(wire[p], r)) = Len(wire[p]) + 1 /\ Len(wire[p]) \in Nat
    BY <2>1, AppendProperties, LenProperties
  <2>3. CASE clusterOf[p] = c /\ conn[p] = "up" /\ Len(wire[p]) < WireCap
    BY <1>0, <2>1, <2>2, <2>3, ScenariosAssumption
  <2>4. CASE ~(clusterOf[p] = c /\ conn[p] = "up" /\ Len(wire[p]) < WireCap)
    BY <1>0, <2>1, <2>4
  <2> QED  BY <2>3, <2>4
<1>2. wire' \in [Peers -> Seq(Reports \ {Broken})]
  BY <1>0, <1>1
<1>3. missed' \in [Peers -> BOOLEAN]
  BY <1>0, <1>1
<1> QED  BY <1>1, <1>2, <1>3

-----------------------------------------------------------------------------
(* Base.                                                                   *)

\* Before anything ran the base holds.
LEMMA InitBase == Init => Base
<1> SUFFICES ASSUME Init PROVE Base
  OBVIOUS
<1>1. scenario \in Scenarios /\ 0 \in Versions
      /\ scenario.faults \in Nat /\ scenario.shortages \in Nat
  BY ScenariosAssumption DEF Init, Versions
<1>2. \A p \in Peers : wire[p] = <<>> /\ Len(wire[p]) <= WireCap
  BY ScenariosAssumption DEF Init
<1>3. NoHand \in [what : {"none", "full", "jobs"}, todo : SUBSET Jobs,
                  job : Jobs \cup {NoName}, agents : Versions \cup {NotRead}, age : Ticks]
  BY Instants DEF NoHand
<1>4. /\ hop \in [Clusters -> [agents : Versions, tasks : [Jobs -> Versions]]]
      /\ cache \in [Clusters -> [Jobs -> Cells \cup {Absent}]]
      /\ changes \in Versions /\ faults \in 0..scenario.faults
      /\ shortages \in 0..scenario.shortages
  BY <1>1 DEF Init
<1>5. /\ wire \in [Peers -> Seq(Reports \ {Broken})] /\ inbox \in [Peers -> Seq(Reports)]
      /\ updates \in Seq(Updates)
  BY EmptySeq DEF Init
<1>6. TypeOK
  BY <1>1, <1>2, <1>3, <1>4, <1>5, NewOK DEF Init, TypeOK, WatcherOK
<1>7. Bounded
  BY DEF Init, Bounded
<1>8. HandsOK
  BY DEF Init, HandsOK, NoHand
<1> QED  BY <1>6, <1>7, <1>8, NewOK DEF Init, Base

\* A change: a version of hop goes up, with the changes so far.
LEMMA ChangeBase ==
  ASSUME Base, NEW c \in Clusters, NEW r \in Reports \ {Broken}, Tell(c, r),
         changes < scenario.changes, changes' = changes + 1,
         \/ hop' = [hop EXCEPT ![c].agents = @ + 1]
         \/ \E job \in Jobs : hop' = [hop EXCEPT ![c].tasks[job] = @ + 1],
         UNCHANGED <<scenario, conn, inbox, watcher, updates, cache, trouble>>
  PROVE  /\ Base'
         /\ \A d \in Clusters :
              /\ hop[d].agents <= hop'[d].agents
              /\ \A job \in Jobs : hop[d].tasks[job] <= hop'[d].tasks[job]
<1> USE DEF Base
<1>1. scenario.changes \in Nat /\ Versions' = Versions /\ changes' \in Versions
      /\ changes \in Nat
  BY ScenarioFacts DEF Versions, TypeOK
<1>2. /\ hop' \in [Clusters -> [agents : Versions, tasks : [Jobs -> Versions]]]
      /\ Bounded'
      /\ \A d \in Clusters :
           /\ hop[d].agents <= hop'[d].agents
           /\ \A job \in Jobs : hop[d].tasks[job] <= hop'[d].tasks[job]
  <2>0. \A d \in Clusters :
          /\ hop[d].agents \in 0..changes /\ hop[d].tasks \in [Jobs -> 0..changes]
          /\ hop[d] \in [agents : Versions, tasks : [Jobs -> Versions]]
    BY <1>1 DEF TypeOK, Bounded, Versions
  <2>1. ASSUME NEW d \in Clusters
        PROVE  /\ hop'[d] \in [agents : 0..(changes + 1), tasks : [Jobs -> 0..(changes + 1)]]
               /\ hop[d].agents <= hop'[d].agents
               /\ \A job \in Jobs : hop[d].tasks[job] <= hop'[d].tasks[job]
    <3>1. CASE hop'[d] = hop[d]
      BY <1>1, <2>0, <3>1
    <3>2. CASE hop'[d] = [hop[d] EXCEPT !.agents = @ + 1]
      <4>1. hop'[d].agents = hop[d].agents + 1 /\ hop'[d].tasks = hop[d].tasks
        BY <2>0, <3>2
      <4> QED  BY <1>1, <2>0, <3>2, <4>1
    <3>3. ASSUME NEW job \in Jobs, hop'[d] = [hop[d] EXCEPT !.tasks[job] = @ + 1]
          PROVE  <2>1!2
      <4>1. /\ hop'[d].agents = hop[d].agents
            /\ hop'[d].tasks = [hop[d].tasks EXCEPT ![job] = @ + 1]
        BY <2>0, <3>3
      <4>2. \A other \in Jobs :
              hop'[d].tasks[other] = IF other = job THEN hop[d].tasks[job] + 1
                                     ELSE hop[d].tasks[other]
        BY <2>0, <4>1
      <4> QED  BY <1>1, <2>0, <3>3, <4>1, <4>2
    <3> QED  BY ZenonT(40), <3>1, <3>2, <3>3 DEF TypeOK
  <2>2. hop' \in [Clusters -> [agents : Versions, tasks : [Jobs -> Versions]]]
    <3>1. 0..(changes + 1) \subseteq Versions
      BY <1>1 DEF Versions
    <3>2. \A d \in Clusters : hop'[d] \in [agents : Versions, tasks : [Jobs -> Versions]]
      BY <2>1, <3>1
    <3> QED  BY <3>2 DEF TypeOK
  <2>3. Bounded'
    BY <1>1, <2>1 DEF Bounded
  <2>4. \A d \in Clusters :
           /\ hop[d].agents <= hop'[d].agents
           /\ \A job \in Jobs : hop[d].tasks[job] <= hop'[d].tasks[job]
    BY <2>1
  <2> QED  BY <2>2, <2>3, <2>4
<1>3. TypeOK'
  BY <1>1, <1>2, TellFacts DEF TypeOK, Cells, Updates, watcher, trouble
<1>4. HandsOK'
  <2> SUFFICES ASSUME NEW p \in Peers, hand[p].agents # NotRead
               PROVE  hand[p].agents <= hop'[clusterOf[p]].agents
    BY DEF HandsOK, watcher, Configured, clusterOf
  <2>1. clusterOf[p] \in Clusters
    BY ScenarioFacts DEF HandsOK, NoHand
  <2>2. /\ hand[p].agents \in Nat /\ hop[clusterOf[p]].agents \in Nat
        /\ hop'[clusterOf[p]].agents \in Nat
    BY <1>1, <1>2, <2>1 DEF TypeOK, Versions
  <2> QED  BY <1>2, <2>1, <2>2 DEF HandsOK
<1> QED  BY <1>2, <1>3, <1>4 DEF watcher

\* Steps that leave the clusters alone, by the part of the state they change:
\* the streams, ...
LEMMA StreamBase ==
  ASSUME Base, UNCHANGED <<world, watcher, updates, cache, shortages>>,
         conn' \in [Peers -> {"none", "down", "up", "cut"}],
         wire' \in [Peers -> Seq(Reports \ {Broken})],
         \A p \in Peers : Len(wire'[p]) <= WireCap,
         missed' \in [Peers -> BOOLEAN],
         inbox' \in [Peers -> Seq(Reports)],
         faults' = faults \/ (faults < scenario.faults /\ faults' = faults + 1)
  PROVE  Base'
<1>1. scenario.faults \in Nat
  BY ScenarioFacts DEF Base
<1>2. TypeOK'
  BY <1>1 DEF Base, TypeOK, world, watcher, Versions, Cells, Updates
<1>3. Bounded' /\ HandsOK'
  BY DEF Base, Bounded, HandsOK, world, watcher, Configured, clusterOf
<1> QED  BY <1>2, <1>3 DEF Base, watcher

\* ... the watcher thread of one peer, ...
LEMMA WatcherBase ==
  ASSUME Base, NEW p \in Peers, UNCHANGED <<world, wire, missed, cache>>,
         conn' \in [Peers -> {"none", "down", "up", "cut"}],
         inbox' \in [Peers -> Seq(Reports)],
         w' = [w EXCEPT ![p] = w'[p]], WatcherOK(w'[p]),
         pc' = [pc EXCEPT ![p] = pc'[p]], pc[p] # "stopped",
         pc'[p] \in {"loop", "discover", "wait", "agents", "tasks", "stopped"},
         hand' = [hand EXCEPT ![p] = hand'[p]], hand'[p] \in Hands,
         pc'[p] \notin {"agents", "tasks"} => hand'[p] = NoHand,
         pc'[p] = "tasks" =>
           hand'[p].agents # NotRead /\ (hand'[p].what = "jobs" => hand'[p].job \in hand'[p].todo),
         hand'[p].agents # NotRead => hand'[p].agents <= hop[clusterOf[p]].agents,
         updates' \in Seq(Updates),
         faults' = faults \/ (faults < scenario.faults /\ faults' = faults + 1),
         shortages' = shortages \/ Short
  PROVE  Base'
<1>1. scenario.faults \in Nat /\ scenario.shortages \in Nat
  BY ScenarioFacts DEF Base
<1>2. shortages' \in 0..scenario.shortages /\ faults' \in 0..scenario.faults
  BY <1>1 DEF Base, TypeOK, Short
<1>3. \A q \in Peers : WatcherOK(w'[q])
  BY DEF Base, TypeOK
<1>4. TypeOK'
  <2>1. Hands' = Hands /\ Updates' = Updates /\ Versions' = Versions /\ Cells' = Cells
    BY DEF world, Hands, Updates, Cells, Versions
  <2>2. hand' \in [Peers -> Hands] /\ w' \in [Peers -> WatcherState]
    BY <1>3 DEF Base, TypeOK, Hands, WatcherOK
  <2>3. pc' \in [Peers -> {"loop", "discover", "wait", "agents", "tasks", "stopped"}]
    <3> DEFINE Places == {"loop", "discover", "wait", "agents", "tasks", "stopped"}
    <3>1. pc \in [Peers -> Places] /\ pc'[p] \in Places
      BY DEF Base, TypeOK
    <3> HIDE DEF Places
    <3>2. pc' \in [Peers -> Places]
      BY <3>1
    <3> QED  BY <3>2 DEF Places
  <2> QED  BY <1>2, <2>1, <2>2, <2>3 DEF Base, TypeOK, world, Hands
<1>5. Bounded'
  BY DEF Base, Bounded, world
<1>6. HandsOK'
  BY ZenonT(40) DEF Base, HandsOK, TypeOK, world, Configured, clusterOf
<1> QED  BY <1>3, <1>4, <1>5, <1>6 DEF Base

\* ... the server thread.
LEMMA DrainBase ==
  ASSUME Base, Drain
  PROVE  Base'
<1>1. /\ scenario.shortages \in Nat
      /\ updates \in Seq(Updates) /\ updates # <<>> /\ updates' = Tail(updates)
      /\ UNCHANGED <<world, stream, inbox, watcher, faults>>
  BY ScenarioFacts DEF Base, Drain, TypeOK
<1>2. Head(updates) \in Updates /\ updates' \in Seq(Updates)
  BY <1>1, HeadTailProperties
<1>3. shortages' \in 0..scenario.shortages
  BY <1>1 DEF Drain, Suffices, Short, Base, TypeOK
<1>4. cache' \in [Clusters -> [Jobs -> Cells \cup {Absent}]]
  <2> DEFINE u == Head(updates)
  <2>1. u.cluster \in Clusters /\ \A job \in DOMAIN u.cells : u.cells[job] \in Cells
    BY <1>2 DEF Updates
  <2>2. cache \in [Clusters -> [Jobs -> Cells \cup {Absent}]]
    BY DEF Base, TypeOK
  <2>3. With(cache[u.cluster], u.cells) \in [Jobs -> Cells \cup {Absent}]
    BY <2>1, <2>2 DEF With
  <2>4. cache' = cache \/ cache' = [cache EXCEPT ![u.cluster] = With(@, u.cells)]
    BY DEF Drain
  <2> QED  BY <2>1, <2>2, <2>3, <2>4
<1>5. TypeOK'
  BY <1>1, <1>2, <1>3, <1>4 DEF Base, TypeOK, world, stream, watcher, Versions, Cells, Updates
<1>6. Bounded' /\ HandsOK'
  BY <1>1 DEF Base, Bounded, HandsOK, world, watcher, Configured, clusterOf
<1> QED  BY <1>1, <1>5, <1>6 DEF Base, watcher

\* An update sent goes last and holds what was read.
LEMMA SendUpdateFacts ==
  ASSUME Base, NEW p \in Configured, hand[p].agents # NotRead,
         NEW js \in SUBSET Jobs, SendUpdate(p, js)
  PROVE  /\ updates' \in Seq(Updates)
         /\ Len(updates) \in Nat /\ Len(updates') = Len(updates) + 1
         /\ \A i \in 1..Len(updates) : updates'[i] = updates[i]
         /\ updates'[Len(updates) + 1].cluster = clusterOf[p]
         /\ updates'[Len(updates) + 1].cells =
              [job \in js |-> <<hand[p].agents, hop[clusterOf[p]].tasks[job]>>]
<1> DEFINE u == [cluster |-> clusterOf[p],
                 cells |-> [job \in js |-> <<hand[p].agents, hop[clusterOf[p]].tasks[job]>>]]
<1>1. clusterOf[p] \in Clusters /\ p \in Peers
  BY ScenarioFacts DEF Base
<1>2. u.cells \in [js -> Cells]
  BY <1>1 DEF Base, TypeOK, Cells
<1>3. u \in Updates
  BY <1>1, <1>2 DEF Updates
<1>4. updates \in Seq(Updates) /\ updates' = Append(updates, u)
  BY DEF Base, TypeOK, SendUpdate
<1>5. u.cluster = clusterOf[p]
      /\ u.cells = [job \in js |-> <<hand[p].agents, hop[clusterOf[p]].tasks[job]>>]
  OBVIOUS
<1> HIDE DEF u
<1> QED  BY <1>3, <1>4, <1>5, AppendProperties, LenProperties

\* A thread that is in a refresh belongs to a configured peer and holds one.
LEMMA HandFacts ==
  ASSUME Base, NEW p \in Peers
  PROVE  /\ hand[p].what \in {"none", "full", "jobs"} /\ hand[p].todo \in SUBSET Jobs
         /\ hand[p].job \in Jobs \cup {NoName} /\ hand[p].agents \in Versions \cup {NotRead}
         /\ hand[p].age \in Ticks
         /\ pc[p] # "stopped" => p \in Configured /\ clusterOf[p] \in Clusters
         /\ pc[p] = "tasks" => hand[p].agents \in Versions
BY ScenarioFacts DEF Base, TypeOK, HandsOK

\* The refresh that starts holds what the watcher had listed; the one that
\* ends leaves nothing.
LEMMA HandTypes ==
  ASSUME Base
  PROVE  /\ NoHand \in Hands
         /\ \A p \in Peers :
              /\ hand[p] \in Hands
              /\ [NoHand EXCEPT !.what = Handed(w[p]), !.todo = w[p].jobs] \in Hands
<1>1. 0 \in Ticks
  BY Instants
<1> QED  BY <1>1 DEF Base, TypeOK, Hands, NoHand, Handed, WatcherState

\* The steps of a watcher thread outside a refresh.
LEMMA IdleBase ==
  ASSUME Base, NEW p \in Peers, UNCHANGED <<world, wire, missed, hand, updates, cache>>,
         conn' \in [Peers -> {"none", "down", "up", "cut"}],
         inbox' \in [Peers -> Seq(Reports)],
         NEW x, WatcherOK(x), w' = [w EXCEPT ![p] = x],
         NEW place \in {"loop", "discover", "wait", "stopped"},
         Goto(p, place), pc[p] \in {"loop", "discover", "wait"},
         faults' = faults \/ (faults < scenario.faults /\ faults' = faults + 1),
         shortages' = shortages \/ Short
  PROVE  Base'
<1>1. /\ w'[p] = x /\ pc'[p] = place /\ hand'[p] = NoHand /\ NoHand.agents = NotRead
      /\ hand' = [hand EXCEPT ![p] = hand'[p]] /\ updates' \in Seq(Updates)
  BY DEF Base, TypeOK, HandsOK, NoHand, Goto
<1>2. w' = [w EXCEPT ![p] = w'[p]] /\ pc' = [pc EXCEPT ![p] = pc'[p]]
  BY <1>1 DEF Goto
<1> QED  BY <1>1, <1>2, HandTypes, WatcherBase

\* The steps of a refresh, from its start to its end.
LEMMA RefreshBase ==
  ASSUME Base, NEW p \in Peers, UNCHANGED <<world, stream, inbox, cache>>,
         NEW x, WatcherOK(x), w' = [w EXCEPT ![p] = x],
         NEW place \in {"loop", "agents", "tasks"}, Goto(p, place), pc[p] # "stopped",
         NEW h \in Hands, hand' = [hand EXCEPT ![p] = h],
         place = "loop" => h = NoHand,
         place = "tasks" => h.agents # NotRead /\ (h.what = "jobs" => h.job \in h.todo),
         h.agents # NotRead => h.agents <= hop[clusterOf[p]].agents,
         updates' \in Seq(Updates),
         faults' = faults \/ (faults < scenario.faults /\ faults' = faults + 1),
         shortages' = shortages \/ Short
  PROVE  Base'
<1>1. w'[p] = x /\ pc'[p] = place /\ hand'[p] = h
  BY DEF Base, TypeOK, Goto
<1>2. /\ w' = [w EXCEPT ![p] = w'[p]] /\ pc' = [pc EXCEPT ![p] = pc'[p]]
      /\ hand' = [hand EXCEPT ![p] = hand'[p]]
  BY <1>1 DEF Goto
<1>3. /\ conn' \in [Peers -> {"none", "down", "up", "cut"}] /\ inbox' \in [Peers -> Seq(Reports)]
      /\ UNCHANGED <<world, wire, missed, cache>>
  BY DEF Base, TypeOK, stream
<1> QED  BY <1>1, <1>2, <1>3, WatcherBase

\* The watcher's own actions keep the base.
LEMMA WatchBase ==
  ASSUME Base, NEW p \in Peers, Watch(p)
  PROVE  Base'
<1>0. /\ w \in [Peers -> WatcherState] /\ pc \in [Peers -> {"loop", "discover", "wait",
                                                      "agents", "tasks", "stopped"}]
      /\ hand \in [Peers -> Hands] /\ updates \in Seq(Updates)
      /\ conn \in [Peers -> {"none", "down", "up", "cut"}] /\ inbox \in [Peers -> Seq(Reports)]
      /\ WatcherOK(w[p]) /\ NoHand \in Hands
      /\ NoHand.agents = NotRead
      /\ pc[p] \notin {"agents", "tasks"} => hand[p] = NoHand
      /\ hand[p].agents # NotRead => hand[p].agents <= hop[clusterOf[p]].agents
  BY HandTypes DEF Base, TypeOK, HandsOK, NoHand, Hands
<1>1. CASE StartDiscovery(p) \/ StartWait(p) \/ WaitEnds(p)
  <2>1. PICK place \in {"loop", "discover", "wait"} : Goto(p, place)
    BY <1>1 DEF StartDiscovery, StartWait, WaitEnds
  <2>2. UNCHANGED <<world, stream, inbox, w, hand, updates, cache, trouble>> /\ pc[p] \in {"loop", "wait"}
    BY <1>1 DEF StartDiscovery, StartWait, WaitEnds
  <2>3. w' = [w EXCEPT ![p] = w[p]]
    BY <1>0, <2>2
  <2> QED  BY <1>0, <2>1, <2>2, <2>3, IdleBase DEF stream, trouble
<1>2. CASE StartRefresh(p)
  <2> DEFINE h == [NoHand EXCEPT !.what = Handed(w[p]), !.todo = w[p].jobs]
  <2>1. h \in Hands /\ h.agents = NotRead
    BY HandTypes DEF NoHand
  <2>2. WatcherOK(HandedOut(w[p]))
    BY <1>0, HandedOutOK
  <2>3. hand' = [hand EXCEPT ![p] = h]
    BY <1>2 DEF StartRefresh
  <2> HIDE DEF h
  <2> QED  BY <1>0, <1>2, <2>1, <2>2, <2>3, RefreshBase DEF StartRefresh, trouble
<1>3. CASE Discover(p)
  <2>1. WatcherOK(Discovered(w[p]))
    BY <1>0, DiscoveryOK
  <2>2. UNCHANGED <<world, wire, missed, inbox, hand, updates, cache, faults>> /\ pc[p] = "discover"
        /\ conn' \in [Peers -> {"none", "down", "up", "cut"}]
        /\ (shortages' = shortages \/ Short)
    BY <1>0, <1>3 DEF Discover, Suffices
  <2>3. PICK x \in {w[p], Discovered(w[p])}, place \in {"loop", "stopped"} :
          w' = [w EXCEPT ![p] = x] /\ Goto(p, place)
    BY <1>0, <1>3 DEF Discover
  <2> QED  BY <1>0, <2>1, <2>2, <2>3, IdleBase
<1>4. CASE HearNext(p)
  <2> DEFINE r == Head(inbox[p])
  <2>1. r \in Reports /\ inbox' \in [Peers -> Seq(Reports)]
    BY <1>0, <1>4, HeadTailProperties DEF HearNext
  <2>2. WatcherOK(Lost(w[p]))
    BY <1>0, HandedOutOK
  <2>3. r # Broken => WatcherOK(Hear(w[p], r.topic, r.job))
    BY <1>0, <2>1, HearOK, ReportFacts
  <2>4. UNCHANGED <<world, stream, hand, updates, cache, faults>> /\ pc[p] = "wait"
        /\ (shortages' = shortages \/ Short) /\ Goto(p, "loop")
    BY <1>4 DEF HearNext, Suffices
  <2>5. PICK x \in {w[p], IF r = Broken THEN Lost(w[p]) ELSE Hear(w[p], r.topic, r.job)} :
          w' = [w EXCEPT ![p] = x] /\ WatcherOK(x)
    BY <1>0, <1>4, <2>2, <2>3 DEF HearNext
  <2> QED  BY <1>0, <2>1, <2>4, <2>5, IdleBase DEF stream
<1>5. CASE ReadAgents(p)
  <2>0. /\ UNCHANGED <<world, stream, inbox, w, updates, cache, trouble>> /\ pc[p] = "agents"
        /\ Goto(p, "tasks")
    BY <1>5 DEF ReadAgents
  <2>1. clusterOf[p] \in Clusters /\ hop[clusterOf[p]].agents \in Versions
    BY <2>0, HandFacts DEF Base, TypeOK
  <2>2. PICK job \in IF hand[p].what = "full" THEN {NoName} ELSE hand[p].todo :
          hand' = [hand EXCEPT ![p].agents = hop[clusterOf[p]].agents, ![p].job = job]
    BY <1>5 DEF ReadAgents
  <2> DEFINE h == [hand[p] EXCEPT !.agents = hop[clusterOf[p]].agents, !.job = job]
  <2>3. /\ h \in Hands /\ h.agents = hop[clusterOf[p]].agents /\ h.job = job
        /\ h.what = hand[p].what /\ h.todo = hand[p].todo
    BY <1>0, <2>1, HandFacts DEF Hands
  <2>4. hand' = [hand EXCEPT ![p] = h]
    BY <1>0, <2>2
  <2>5. /\ h.agents # NotRead /\ (h.what = "jobs" => h.job \in h.todo)
        /\ h.agents <= hop[clusterOf[p]].agents
    BY <2>1, <2>3, ScenarioFacts DEF Versions, NotRead, Base
  <2> HIDE DEF h
  <2> QED  BY <1>0, <2>0, <2>3, <2>4, <2>5, RefreshBase DEF trouble
<1>6. CASE FullRead(p)
  <2>0. /\ UNCHANGED <<world, stream, inbox, w, cache, faults>> /\ pc[p] = "tasks"
        /\ EndRefresh(p) /\ (shortages' = shortages \/ Short)
        /\ (updates' = updates \/ SendUpdate(p, Live))
    BY <1>6 DEF FullRead, Suffices
  <2>1. updates' \in Seq(Updates)
    BY <1>0, <2>0, SendUpdateFacts, HandFacts, ScenarioFacts DEF Base, HandsOK
  <2> QED  BY <1>0, <2>0, <2>1, RefreshBase DEF EndRefresh
<1>7. CASE JobRead(p)
  <2>0. /\ UNCHANGED <<world, stream, inbox, w, cache, trouble>> /\ pc[p] = "tasks"
        /\ hand[p].what = "jobs" /\ SendUpdate(p, {hand[p].job})
    BY <1>7 DEF JobRead
  <2>1. updates' \in Seq(Updates)
    BY <2>0, SendUpdateFacts, HandFacts DEF Base, HandsOK
  <2>2. CASE EndRefresh(p)
    BY <1>0, <2>0, <2>1, <2>2, RefreshBase DEF EndRefresh, trouble
  <2>3. CASE /\ hand' = [hand EXCEPT ![p].todo = @ \ {hand[p].job},
                                    ![p].job = NoName, ![p].agents = NotRead]
             /\ Goto(p, "agents")
    <3> DEFINE h == [hand[p] EXCEPT !.todo = @ \ {hand[p].job},
                                    !.job = NoName, !.agents = NotRead]
    <3>1. h \in Hands /\ h.agents = NotRead
      BY <1>0 DEF Hands
    <3>2. hand' = [hand EXCEPT ![p] = h]
      BY <1>0, <2>3
    <3>3. w' = [w EXCEPT ![p] = w[p]] /\ UNCHANGED <<world, stream, inbox, cache>>
          /\ faults' = faults /\ shortages' = shortages /\ pc[p] # "stopped"
      BY <1>0, <2>0 DEF trouble
    <3> HIDE DEF h
    <3> QED  BY <1>0, <2>1, <2>3, <3>1, <3>2, <3>3, RefreshBase
  <2> QED  BY <1>7, <2>2, <2>3 DEF JobRead
<1> QED  BY <1>1, <1>2, <1>3, <1>4, <1>5, <1>6, <1>7 DEF Watch

\* Every action keeps the base.
LEMMA NextBase ==
  ASSUME Base, [Next]_vars
  PROVE  Base'
<1>1. ASSUME NEW c \in Watched, NEW job \in Live, ChangeTasks(c, job) PROVE Base'
  <2>1. c \in Clusters /\ job \in Jobs /\ Report("job", job) \in Reports \ {Broken}
    BY ScenarioFacts, ReportFacts DEF Base
  <2>2. /\ changes < scenario.changes /\ changes' = changes + 1
        /\ Tell(c, Report("job", job))
        /\ \E j \in Jobs : hop' = [hop EXCEPT ![c].tasks[j] = @ + 1]
        /\ UNCHANGED <<scenario, conn, inbox, watcher, updates, cache, trouble>>
    BY <1>1, <2>1 DEF ChangeTasks
  <2> QED  BY <2>1, <2>2, ChangeBase
<1>2. ASSUME NEW c \in Watched, ChangeAgents(c) PROVE Base'
  <2>1. c \in Clusters /\ AgentSeen \in Reports \ {Broken}
    BY ScenarioFacts, ReportFacts DEF Base
  <2> QED  BY <1>2, <2>1, ChangeBase DEF ChangeAgents
<1>3. ASSUME NEW p \in Peers, AdmitMissed(p) \/ Cut(p) PROVE Base'
  <2>0. wire[p] \in Seq(Reports \ {Broken}) /\ Len(wire[p]) \in Nat /\ Len(wire[p]) <= WireCap
        /\ wire \in [Peers -> Seq(Reports \ {Broken})]
    BY LenProperties DEF Base, TypeOK
  <2>1. /\ wire' = [wire EXCEPT ![p] = wire'[p]] /\ wire'[p] \in Seq(Reports \ {Broken})
        /\ Len(wire'[p]) <= WireCap
    <3>1. CASE AdmitMissed(p)
      <4>1. Append(wire[p], Status) \in Seq(Reports \ {Broken})
            /\ Len(Append(wire[p], Status)) = Len(wire[p]) + 1
        BY <2>0, ReportFacts, AppendProperties
      <4> QED  BY <2>0, <3>1, <4>1, ScenariosAssumption DEF AdmitMissed
    <3>2. CASE Cut(p)
      <4>1. PICK n \in 0..Len(wire[p]) : wire' = [wire EXCEPT ![p] = SubSeq(@, 1, n)]
        BY <3>2 DEF Cut
      <4>2. \A i \in 1..n : wire[p][i] \in Reports \ {Broken}
        BY <2>0, ElementOfSeq
      <4>3. SubSeq(wire[p], 1, n) \in Seq(Reports \ {Broken}) /\ Len(SubSeq(wire[p], 1, n)) = n
        BY <2>0, <4>2, SubSeqProperties
      <4> QED  BY <2>0, <4>1, <4>3, ScenariosAssumption
    <3> QED  BY <1>3, <3>1, <3>2
  <2>2. \A o \in Peers : wire'[o] \in Seq(Reports \ {Broken}) /\ Len(wire'[o]) <= WireCap
    BY <2>0, <2>1 DEF Base, TypeOK
  <2>3. wire' \in [Peers -> Seq(Reports \ {Broken})]
    BY <2>0, <2>1
  <2>4. /\ conn' \in [Peers -> {"none", "down", "up", "cut"}] /\ missed' \in [Peers -> BOOLEAN]
        /\ inbox' \in [Peers -> Seq(Reports)]
        /\ UNCHANGED <<world, watcher, updates, cache, shortages>>
        /\ (faults' = faults \/ (faults < scenario.faults /\ faults' = faults + 1))
    BY <1>3 DEF AdmitMissed, Cut, trouble, Base, TypeOK
  <2> QED  BY <2>2, <2>3, <2>4, StreamBase
<1>4. ASSUME NEW p \in Peers, Read(p) PROVE Base'
  <2>0. /\ wire \in [Peers -> Seq(Reports \ {Broken})]
        /\ \A o \in Peers : Len(wire[o]) <= WireCap /\ Len(wire[o]) \in Nat
        /\ UNCHANGED <<world, missed, watcher, updates, cache, trouble>>
        /\ missed' \in [Peers -> BOOLEAN]
    BY <1>4, LenProperties DEF Read, ReadReport, ReadBreak, Connect, Base, TypeOK
  <2>1. inbox' \in [Peers -> Seq(Reports)]
    <3>1. wire[p] # <<>> => Head(wire[p]) \in Reports
      BY <2>0, HeadTailProperties
    <3> QED
      BY <1>4, <3>1, SendFacts, ReportFacts DEF Read, ReadReport, ReadBreak, Connect, Base, TypeOK
  <2>2. /\ wire' = [wire EXCEPT ![p] = wire'[p]] /\ wire'[p] \in Seq(Reports \ {Broken})
        /\ Len(wire'[p]) <= WireCap
    <3>1. CASE ReadReport(p)
      <4>1. Tail(wire[p]) \in Seq(Reports \ {Broken}) /\ Len(Tail(wire[p])) = Len(wire[p]) - 1
        BY <2>0, <3>1, HeadTailProperties DEF ReadReport
      <4>2. wire' = [wire EXCEPT ![p] = Tail(wire[p])]
        BY <3>1 DEF ReadReport
      <4> QED  BY <2>0, <4>1, <4>2, ScenariosAssumption
    <3>2. CASE ReadBreak(p)
      BY <2>0, <3>2 DEF ReadBreak
    <3>3. CASE Connect(p)
      <4>1. <<Ping>> \in Seq(Reports \ {Broken}) /\ Len(<<Ping>>) = 1
        BY ReportFacts
      <4> QED  BY <2>0, <3>3, <4>1, ScenariosAssumption DEF Connect
    <3> QED  BY <1>4, <3>1, <3>2, <3>3 DEF Read
  <2>3. \A o \in Peers : Len(wire'[o]) <= WireCap
    BY <2>0, <2>2
  <2>4. conn' \in [Peers -> {"none", "down", "up", "cut"}]
    BY <1>4 DEF Read, ReadReport, ReadBreak, Connect, Base, TypeOK
  <2>5. wire' \in [Peers -> Seq(Reports \ {Broken})]
    BY <2>0, <2>2
  <2> QED  BY <2>0, <2>1, <2>3, <2>4, <2>5, StreamBase DEF trouble
<1>5. ASSUME NEW p \in Peers, Watch(p) PROVE Base'
  BY <1>5, WatchBase
<1>6. ASSUME NEW p \in Peers, ConnectFails(p) PROVE Base'
  <2>1. /\ inbox' \in [Peers -> Seq(Reports)] /\ UNCHANGED stream
        /\ faults < scenario.faults /\ faults' = faults + 1
        /\ UNCHANGED <<world, watcher, updates, cache, shortages>>
    BY <1>6, SendFacts, ReportFacts DEF ConnectFails, Base
  <2> QED  BY <2>1, StreamBase DEF stream, Base, TypeOK
<1>7. ASSUME NEW p \in Peers, DiscoveryFails(p) PROVE Base'
  <2>1. WatcherOK(DiscoverFailed(w[p])) /\ conn' \in [Peers -> {"none", "down", "up", "cut"}]
        /\ inbox' \in [Peers -> Seq(Reports)]
    BY <1>7, DiscoveryOK DEF Base, TypeOK, DiscoveryFails, stream
  <2> QED  BY <1>7, <2>1, IdleBase DEF DiscoveryFails, stream
<1>8. ASSUME NEW p \in Peers, RefreshFails(p) PROVE Base'
  <2>1. WatcherOK(RefreshFailed(w[p], hand[p].what, hand[p].age)) /\ updates' \in Seq(Updates)
    BY <1>8, HandFacts, RefreshFailedOK DEF RefreshFails, Base, TypeOK
  <2>2. NoHand \in Hands /\ NoHand.agents = NotRead /\ pc[p] # "stopped"
    BY <1>8, HandTypes DEF NoHand, RefreshFails
  <2> QED  BY <1>8, <2>1, <2>2, RefreshBase DEF RefreshFails, EndRefresh
<1>9. CASE Drain
  BY <1>9, DrainBase
<1>10. CASE Tick
  <2>1. \A p \in Peers : WatcherOK(w'[p])
    BY <1>10, ElapseOK DEF Tick, Base
  <2>2. \A p \in Peers : /\ hand'[p] \in Hands
                            /\ \/ /\ hand'[p] = [hand[p] EXCEPT !.age = @ + 1]
                                  /\ pc[p] \in {"agents", "tasks"}
                               \/ hand'[p] = hand[p]
    <3> TAKE p \in Peers
    <3>1. hand[p] \in Hands /\ hand[p].age \in Ticks
      BY HandTypes, HandFacts
    <3>2. hand[p].age < Interval => [hand[p] EXCEPT !.age = @ + 1] \in Hands
      BY <3>1, TimesAssumption DEF Hands, Ticks
    <3> QED  BY <1>10, <3>1, <3>2 DEF Tick
  <2>3. \A p \in Peers : /\ hand'[p].what = hand[p].what /\ hand'[p].todo = hand[p].todo
                         /\ hand'[p].job = hand[p].job /\ hand'[p].agents = hand[p].agents
                         /\ (pc[p] \notin {"agents", "tasks"} => hand'[p] = hand[p])
    BY <2>2, HandTypes DEF Hands
  <2>4. w' \in [Peers -> WatcherState] /\ hand' \in [Peers -> Hands]
    BY <1>10, <2>1, <2>2 DEF Tick, WatcherOK
  <2>5. TypeOK'
    <3>1. UNCHANGED <<world, stream, inbox, pc, updates, cache, trouble>>
      BY <1>10 DEF Tick
    <3>2. Hands' = Hands /\ Updates' = Updates /\ Versions' = Versions /\ Cells' = Cells
      BY <3>1 DEF world, Hands, Updates, Cells, Versions
    <3> QED  BY <2>4, <3>1, <3>2 DEF Base, TypeOK, Hands, world, stream, trouble
  <2>6. HandsOK'
    BY <1>10, <2>3 DEF Tick, Base, HandsOK, world, Configured, clusterOf
  <2>7. Bounded'
    BY <1>10 DEF Tick, Base, Bounded, world
  <2> QED  BY <2>1, <2>5, <2>6, <2>7 DEF Base
<1>11. CASE UNCHANGED vars
  BY <1>11, StreamBase DEF vars, stream, trouble, Base, TypeOK
<1> QED
  BY <1>1, <1>2, <1>3, <1>4, <1>5, <1>6, <1>7, <1>8, <1>9, <1>10, <1>11
  DEF Next, Fault

-----------------------------------------------------------------------------
(* PingFollowsBreak.                                                       *)

\* The property, of one peer.
PingAfter(p, i) ==
  \/ conn[p] \in {"none", "down", "cut"}
  \/ \E k \in DOMAIN inbox[p] : k > i /\ inbox[p][k] = Ping
  \/ \E k \in DOMAIN wire[p] : wire[p][k] = Ping

Follows(p) == \A i \in DOMAIN inbox[p] : inbox[p][i] = Broken => PingAfter(p, i)

\* What a step can do to the stream and the inbox of one peer.
StreamStep(p) ==
  \/ /\ conn'[p] = conn[p] /\ wire'[p] = wire[p] /\ inbox'[p] = inbox[p]
     /\ missed[p] => missed'[p]
  \/ /\ conn'[p] = conn[p] /\ inbox'[p] = inbox[p]
     /\ \E r \in Reports \ {Broken} :
          wire'[p] = Append(wire[p], r) /\ (missed[p] => missed'[p] \/ r = Status)
  \/ conn'[p] \in {"none", "down", "cut"}
  \/ ReadReport(p)
  \/ Connect(p)
  \/ HearNext(p)

\* Every step is one of these to every peer.
LEMMA EveryStreamStep ==
  ASSUME Base, [Next]_vars, NEW p \in Peers
  PROVE  StreamStep(p)
<1> USE DEF StreamStep
<1>0. conn[p] \in {"none", "down", "up", "cut"}
  BY DEF Base, TypeOK
<1>1. ASSUME NEW c, NEW r \in Reports \ {Broken}, Tell(c, r), UNCHANGED <<conn, inbox>>
      PROVE  StreamStep(p)
  BY <1>1, TellFacts DEF Base
<1>2. CASE \E c \in Watched : ChangeAgents(c) \/ \E job \in Live : ChangeTasks(c, job)
  BY <1>1, <1>2, ReportFacts, ScenarioFacts DEF ChangeAgents, ChangeTasks, Base
<1>3. ASSUME NEW q \in Peers, AdmitMissed(q) PROVE StreamStep(p)
  BY <1>3, ReportFacts DEF AdmitMissed, Base, TypeOK
<1>4. ASSUME NEW q \in Peers, Read(q) PROVE StreamStep(p)
  <2>1. CASE q = p
    BY <1>4, <2>1 DEF Read, ReadBreak, Base, TypeOK
  <2>2. CASE q # p
    BY <1>4, <2>2 DEF Read, ReadReport, ReadBreak, Connect, Send, Base, TypeOK
  <2> QED  BY <2>1, <2>2
<1>5. ASSUME NEW q \in Peers, Watch(q) PROVE StreamStep(p)
  <2>1. CASE HearNext(q)
    <3>1. CASE q = p
      BY <2>1, <3>1
    <3>2. CASE q # p
      BY <2>1, <3>2 DEF HearNext, stream, Base, TypeOK
    <3> QED  BY <3>1, <3>2
  <2>2. CASE Discover(q)
    BY <2>2 DEF Discover, Base, TypeOK
  <2>3. CASE UNCHANGED <<stream, inbox>>
    BY <2>3 DEF stream
  <2> QED
    BY <1>5, <2>1, <2>2, <2>3
    DEF Watch, StartDiscovery, StartRefresh, StartWait, WaitEnds, ReadAgents, FullRead, JobRead
<1>6. ASSUME NEW q \in Peers, Fault(q) PROVE StreamStep(p)
  <2>1. CASE Cut(q)
    BY <2>1 DEF Cut, Base, TypeOK
  <2>2. CASE ConnectFails(q)
    BY <2>2 DEF ConnectFails, Send, stream, Base, TypeOK
  <2>3. CASE DiscoveryFails(q) \/ RefreshFails(q)
    BY <2>3 DEF DiscoveryFails, RefreshFails, stream
  <2> QED  BY <1>6, <2>1, <2>2, <2>3 DEF Fault
<1>7. CASE Drain \/ Tick \/ UNCHANGED vars
  BY <1>7 DEF Drain, Tick, vars, stream
<1> QED  BY <1>2, <1>3, <1>4, <1>5, <1>6, <1>7 DEF Next

\* Every action keeps a ping behind every break: of the actions, only those that
\* break a stream, open one, read a report or hand one to the watcher matter.
LEMMA NextPing ==
  ASSUME Base, [Next]_vars, PingFollowsBreak
  PROVE  PingFollowsBreak'
<1> SUFFICES ASSUME NEW p \in Peers PROVE Follows(p)'
  BY DEF PingFollowsBreak, Follows, PingAfter
<1>0. /\ Follows(p) /\ inbox[p] \in Seq(Reports) /\ wire[p] \in Seq(Reports \ {Broken})
      /\ Len(inbox[p]) \in Nat /\ DOMAIN inbox[p] = 1..Len(inbox[p])
      /\ Len(wire[p]) \in Nat /\ DOMAIN wire[p] = 1..Len(wire[p])
  BY LenProperties DEF PingFollowsBreak, Follows, PingAfter, Base, TypeOK
<1>1. CASE conn'[p] = conn[p] /\ wire'[p] = wire[p] /\ inbox'[p] = inbox[p]
  BY <1>0, <1>1 DEF Follows, PingAfter
<1>2. ASSUME NEW r \in Reports \ {Broken},
             conn'[p] = conn[p], inbox'[p] = inbox[p], wire'[p] = Append(wire[p], r)
      PROVE  Follows(p)'
  <2>1. \A k \in DOMAIN wire[p] : k \in DOMAIN wire'[p] /\ wire'[p][k] = wire[p][k]
    <3>1. wire'[p] \in Seq(Reports \ {Broken}) /\ Len(wire'[p]) = Len(wire[p]) + 1
          /\ \A k \in 1..Len(wire[p]) : wire'[p][k] = wire[p][k]
      BY <1>0, <1>2, AppendProperties
    <3>2. DOMAIN wire'[p] = 1..(Len(wire[p]) + 1)
      BY <3>1, LenProperties
    <3> QED  BY <1>0, <3>1, <3>2
  <2> QED  BY <1>0, <1>2, <2>1 DEF Follows, PingAfter
<1>3. CASE conn'[p] \in {"none", "down", "cut"}
  BY <1>3 DEF Follows, PingAfter
<1>4. CASE ReadReport(p)
  <2>1. /\ conn'[p] = conn[p] /\ wire[p] # <<>> /\ wire'[p] = Tail(wire[p])
        /\ inbox'[p] = Append(inbox[p], Head(wire[p]))
    BY <1>4 DEF ReadReport, Send, Base, TypeOK
  <2>2. /\ Head(wire[p]) \in Reports \ {Broken} /\ Head(wire[p]) = wire[p][1]
        /\ wire'[p] \in Seq(Reports \ {Broken}) /\ Len(wire'[p]) = Len(wire[p]) - 1
        /\ \A k \in 1..Len(wire'[p]) : wire'[p][k] = wire[p][k + 1]
    BY <1>0, <2>1, HeadTailProperties
  <2>3. /\ Len(inbox'[p]) = Len(inbox[p]) + 1 /\ inbox'[p] \in Seq(Reports)
        /\ \A k \in 1..Len(inbox[p]) : inbox'[p][k] = inbox[p][k]
        /\ inbox'[p][Len(inbox[p]) + 1] = Head(wire[p])
    BY <1>0, <2>1, <2>2, AppendProperties
  <2>4. DOMAIN inbox'[p] = 1..(Len(inbox[p]) + 1) /\ DOMAIN wire'[p] = 1..(Len(wire[p]) - 1)
    BY <2>2, <2>3, LenProperties
  <2> SUFFICES ASSUME NEW i \in DOMAIN inbox'[p], inbox'[p][i] = Broken
               PROVE  PingAfter(p, i)'
    BY DEF Follows
  <2>5. i \in 1..Len(inbox[p]) /\ inbox[p][i] = Broken
    BY <1>0, <2>2, <2>3, <2>4
  <2>6. CASE \E k \in DOMAIN inbox[p] : k > i /\ inbox[p][k] = Ping
    BY <1>0, <2>3, <2>4, <2>6 DEF PingAfter
  <2>7. ASSUME NEW k \in DOMAIN wire[p], wire[p][k] = Ping
        PROVE  PingAfter(p, i)'
    <3>1. CASE k = 1
      <4>1. /\ Len(inbox[p]) + 1 \in DOMAIN inbox'[p] /\ Len(inbox[p]) + 1 > i
            /\ inbox'[p][Len(inbox[p]) + 1] = Ping
        BY <1>0, <2>2, <2>3, <2>4, <2>5, <2>7, <3>1
      <4> QED  BY <4>1 DEF PingAfter
    <3>2. CASE k # 1
      <4>1. k - 1 \in 1..Len(wire'[p]) /\ (k - 1) + 1 = k
        BY <1>0, <2>2, <3>2
      <4> QED  BY <1>0, <2>2, <2>4, <2>7, <4>1 DEF PingAfter
    <3> QED  BY <3>1, <3>2
  <2> QED  BY <1>0, <2>1, <2>5, <2>6, <2>7 DEF Follows, PingAfter
<1>5. CASE Connect(p)
  <2>1. wire'[p] = <<Ping>>
    BY <1>5 DEF Connect, Base, TypeOK
  <2> QED  BY <2>1 DEF Follows, PingAfter
<1>6. CASE HearNext(p)
  <2>1. /\ conn'[p] = conn[p] /\ wire'[p] = wire[p] /\ inbox[p] # <<>>
        /\ inbox'[p] = Tail(inbox[p])
    BY <1>6 DEF HearNext, stream, Base, TypeOK
  <2>2. /\ inbox'[p] \in Seq(Reports) /\ Len(inbox'[p]) = Len(inbox[p]) - 1
        /\ \A k \in 1..Len(inbox'[p]) : inbox'[p][k] = inbox[p][k + 1]
    BY <1>0, <2>1, HeadTailProperties
  <2>3. DOMAIN inbox'[p] = 1..(Len(inbox[p]) - 1)
    BY <2>2, LenProperties
  <2> SUFFICES ASSUME NEW i \in DOMAIN inbox'[p], inbox'[p][i] = Broken
               PROVE  PingAfter(p, i)'
    BY DEF Follows
  <2>4. i + 1 \in DOMAIN inbox[p] /\ inbox[p][i + 1] = Broken
    BY <1>0, <2>2, <2>3
  <2>5. ASSUME NEW k \in DOMAIN inbox[p], k > i + 1, inbox[p][k] = Ping
        PROVE  PingAfter(p, i)'
    <3>1. k - 1 \in DOMAIN inbox'[p] /\ k - 1 > i /\ (k - 1) + 1 = k
      BY <1>0, <2>3, <2>5
    <3>2. inbox'[p][k - 1] = Ping
      BY <2>2, <2>3, <2>5, <3>1
    <3> QED  BY <3>1, <3>2 DEF PingAfter
  <2> QED  BY <1>0, <2>1, <2>4, <2>5 DEF Follows, PingAfter
<1> QED  BY <1>1, <1>2, <1>3, <1>4, <1>5, <1>6, EveryStreamStep DEF StreamStep

-----------------------------------------------------------------------------
(* NoForgottenChange: the channels.                                        *)

\* The reports that make the watcher fetch the job.
Telling(job) == {Ping, Status, AgentSeen, Report("job", job)}

Tells(q, job) == \E i \in DOMAIN q : q[i] \in Telling(job)

\* What is on its way to the watcher, as a condition on the two channels.
LEMMA OnItsWayIs ==
  ASSUME NEW p, NEW job
  PROVE  OnItsWay(p, job) <=> missed[p] \/ Tells(wire[p], job) \/ Tells(inbox[p], job)
BY DEF OnItsWay, Tells, Telling

\* What is appended is in the channel, and so is all that was there.
LEMMA TellsAppend ==
  ASSUME NEW S, NEW q \in Seq(S), NEW r \in S, NEW job
  PROVE  Tells(Append(q, r), job) <=> Tells(q, job) \/ r \in Telling(job)
<1>1. /\ Len(q) \in Nat /\ DOMAIN q = 1..Len(q)
      /\ DOMAIN Append(q, r) = 1..(Len(q) + 1)
      /\ \A i \in 1..Len(q) : Append(q, r)[i] = q[i]
      /\ Append(q, r)[Len(q) + 1] = r
  BY AppendProperties, LenProperties
<1>2. ASSUME Tells(Append(q, r), job)
      PROVE  Tells(q, job) \/ r \in Telling(job)
  <2>1. PICK i \in 1..(Len(q) + 1) : Append(q, r)[i] \in Telling(job)
    BY <1>1, <1>2 DEF Tells
  <2>2. CASE i = Len(q) + 1
    BY <1>1, <2>1, <2>2
  <2>3. CASE i # Len(q) + 1
    <3>1. i \in 1..Len(q)
      BY <1>1, <2>3
    <3> QED  BY <1>1, <2>1, <3>1 DEF Tells
  <2> QED  BY <2>2, <2>3
<1>3. ASSUME Tells(q, job)
      PROVE  Tells(Append(q, r), job)
  <2>1. PICK i \in 1..Len(q) : q[i] \in Telling(job)
    BY <1>1, <1>3 DEF Tells
  <2>2. i \in 1..(Len(q) + 1)
    BY <1>1
  <2> QED  BY <1>1, <2>1, <2>2 DEF Tells
<1>4. ASSUME r \in Telling(job)
      PROVE  Tells(Append(q, r), job)
  <2>1. Len(q) + 1 \in 1..(Len(q) + 1)
    BY <1>1
  <2> QED  BY <1>1, <1>4, <2>1 DEF Tells
<1> QED  BY <1>2, <1>3, <1>4

\* What a channel holds is its head or in its tail.
LEMMA TellsTail ==
  ASSUME NEW S, NEW q \in Seq(S), q # <<>>, NEW job
  PROVE  Tells(q, job) <=> Head(q) \in Telling(job) \/ Tells(Tail(q), job)
<1>1. /\ Len(q) \in Nat \ {0} /\ DOMAIN q = 1..Len(q) /\ Head(q) = q[1]
      /\ DOMAIN Tail(q) = 1..(Len(q) - 1)
      /\ \A i \in 1..(Len(q) - 1) : Tail(q)[i] = q[i + 1]
  BY HeadTailProperties, LenProperties, EmptySeq
<1>2. ASSUME Tells(q, job), Head(q) \notin Telling(job)
      PROVE  Tells(Tail(q), job)
  <2>1. PICK i \in 1..Len(q) : q[i] \in Telling(job)
    BY <1>1, <1>2 DEF Tells
  <2>2. i - 1 \in 1..(Len(q) - 1) /\ (i - 1) + 1 = i
    BY <1>1, <1>2, <2>1
  <2>3. Tail(q)[i - 1] = q[i]
    BY <1>1, <2>2
  <2> QED  BY <1>1, <2>1, <2>2, <2>3 DEF Tells
<1>3. ASSUME Tells(Tail(q), job)
      PROVE  Tells(q, job)
  <2>1. PICK i \in 1..(Len(q) - 1) : Tail(q)[i] \in Telling(job)
    BY <1>1, <1>3 DEF Tells
  <2>2. i + 1 \in 1..Len(q) /\ q[i + 1] \in Telling(job)
    BY <1>1, <2>1
  <2> QED  BY <1>1, <2>2 DEF Tells
<1>4. ASSUME Head(q) \in Telling(job)
      PROVE  Tells(q, job)
  BY <1>1, <1>4 DEF Tells
<1> QED  BY <1>2, <1>3, <1>4

-----------------------------------------------------------------------------
(* NoForgottenChange: what the cache will hold.                            *)

\* What the cache will hold of a job, by whether an update with it is under way.
LEMMA ComingIs ==
  ASSUME NEW c, NEW job
  PROVE  Coming(c, job) =
           IF About(c, job) = {} THEN cache[c][job]
           ELSE updates[Max(About(c, job))].cells[job]
BY DEF Coming, About

\* An update that is sent decides about the jobs it holds, and only these.
LEMMA ComingAfterSend ==
  ASSUME Base, NEW p \in Configured, hand[p].agents # NotRead,
         NEW js \in SUBSET Jobs, SendUpdate(p, js), cache' = cache,
         NEW c, NEW job
  PROVE  IF c = clusterOf[p] /\ job \in js
         THEN Coming(c, job)' = <<hand[p].agents, hop[c].tasks[job]>>
         ELSE Coming(c, job)' = Coming(c, job)
<1> DEFINE n == Len(updates)
           u == updates'[n + 1]
<1>1. /\ n \in Nat /\ DOMAIN updates = 1..n /\ DOMAIN updates' = 1..(n + 1)
      /\ \A i \in 1..n : updates'[i] = updates[i]
      /\ u.cluster = clusterOf[p]
      /\ u.cells = [j \in js |-> <<hand[p].agents, hop[clusterOf[p]].tasks[j]>>]
  BY SendUpdateFacts, LenProperties DEF Base, TypeOK
<1> HIDE DEF n, u
<1>2. CASE c = clusterOf[p] /\ job \in js
  <2>1. n + 1 \in About(c, job)' /\ About(c, job)' \subseteq 1..(n + 1)
    BY <1>1, <1>2 DEF About, u, n
  <2>2. Max(About(c, job)') = n + 1
    <3> DEFINE A == About(c, job)'
    <3>1. n + 1 \in Nat /\ A \in SUBSET (1..(n + 1)) /\ A # {} /\ n + 1 \in A
      BY <1>1, <2>1
    <3> HIDE DEF A
    <3>2. Max(A) \in A /\ \A i \in A : i <= Max(A)
      BY <3>1, LastPosition
    <3>3. Max(A) \in 1..(n + 1) /\ n + 1 <= Max(A)
      BY <3>1, <3>2
    <3>4. Max(A) = n + 1
      BY <1>1, <3>3
    <3> QED  BY <3>4 DEF A
  <2>3. Coming(c, job)' = updates'[n + 1].cells[job]
    BY <2>1, <2>2, ComingIs DEF Coming, About
  <2> QED  BY <1>1, <1>2, <2>3 DEF u, n
<1>3. CASE ~(c = clusterOf[p] /\ job \in js)
  <2>1. About(c, job)' = About(c, job) /\ About(c, job) \subseteq 1..n
    BY <1>1, <1>3 DEF About, u, n
  <2>2. CASE About(c, job) = {}
    BY <1>3, <2>1, <2>2 DEF Coming, About
  <2>3. CASE About(c, job) # {}
    <3>1. Max(About(c, job)) \in 1..n
      BY <1>1, <2>1, <2>3, LastPosition
    <3>2. Coming(c, job)' = updates'[Max(About(c, job))].cells[job]
      BY <2>1, <2>3 DEF Coming, About
    <3> QED  BY <1>1, <1>3, <2>3, <3>1, <3>2, ComingIs
  <2> QED  BY <2>2, <2>3
<1> QED  BY <1>2, <1>3

\* Applying the first update in full changes nothing about what comes.
LEMMA ComingAfterDrain ==
  ASSUME Base, Drain, shortages' = shortages, NEW c \in Clusters, NEW job \in Jobs
  PROVE  Coming(c, job)' = Coming(c, job)
<1> DEFINE n == Len(updates)
           u == Head(updates)
<1>1. /\ n \in Nat \ {0} /\ DOMAIN updates = 1..n /\ DOMAIN updates' = 1..(n - 1)
      /\ \A i \in 1..(n - 1) : updates'[i] = updates[i + 1]
      /\ u = updates[1]
      /\ cache' = [cache EXCEPT ![u.cluster] = With(@, u.cells)]
      /\ cache \in [Clusters -> [Jobs -> Cells \cup {Absent}]]
  <2>1. updates \in Seq(Updates) /\ updates # <<>> /\ updates' = Tail(updates)
    BY DEF Drain, Base, TypeOK
  <2>2. cache' = [cache EXCEPT ![u.cluster] = With(@, u.cells)]
    <3>1. ~Short
      BY ScenarioFacts DEF Short, Base, TypeOK
    <3> QED  BY <3>1 DEF Drain
  <2> QED  BY <2>1, <2>2, HeadTailProperties, LenProperties, EmptySeq DEF Base, TypeOK
<1> HIDE DEF n, u
<1>2. cache'[c][job] = IF u.cluster = c /\ job \in DOMAIN u.cells
                       THEN u.cells[job] ELSE cache[c][job]
  BY <1>1 DEF With
<1>3. 1 \in About(c, job) <=> u.cluster = c /\ job \in DOMAIN u.cells
  BY <1>1 DEF About
<1>4. \A i \in 1..(n - 1) : i \in About(c, job)' <=> i + 1 \in About(c, job)
  BY <1>1 DEF About
<1>5. About(c, job) \subseteq 1..n /\ About(c, job)' \subseteq 1..(n - 1)
  BY <1>1 DEF About
<1>6. CASE About(c, job)' = {}
  <2>1. About(c, job) \subseteq {1}
    <3> SUFFICES ASSUME NEW i \in About(c, job), i # 1 PROVE FALSE
      OBVIOUS
    <3>1. i - 1 \in 1..(n - 1) /\ (i - 1) + 1 = i
      BY <1>1, <1>5
    <3> QED  BY <1>4, <1>6, <3>1
  <2>2. Coming(c, job)' = cache'[c][job]
    BY <1>6 DEF Coming, About
  <2>3. CASE About(c, job) = {}
    BY <1>2, <1>3, <2>2, <2>3, ComingIs
  <2>4. CASE About(c, job) = {1}
    <3>1. Max(About(c, job)) = 1
      BY <1>1, <1>5, <2>4, LastPosition
    <3> QED  BY <1>1, <1>2, <1>3, <2>2, <2>4, <3>1, ComingIs
  <2> QED  BY <2>1, <2>3, <2>4
<1>7. CASE About(c, job)' # {}
  <2> DEFINE m == Max(About(c, job)')
  <2>1. m \in About(c, job)' /\ \A i \in About(c, job)' : i <= m
    <3> DEFINE A == About(c, job)'
    <3>1. n - 1 \in Nat /\ A \in SUBSET (1..(n - 1)) /\ A # {}
      BY <1>1, <1>5, <1>7
    <3> HIDE DEF A
    <3>2. Max(A) \in A /\ \A i \in A : i <= Max(A)
      BY <3>1, LastPosition
    <3> QED  BY <3>2 DEF A
  <2>2. m \in 1..(n - 1) /\ m + 1 \in About(c, job)
    BY <1>4, <1>5, <2>1
  <2>3. Max(About(c, job)) = m + 1
    <3> DEFINE k == Max(About(c, job))
    <3>1. k \in About(c, job) /\ \A i \in About(c, job) : i <= k
      BY <1>1, <1>5, <2>2, LastPosition
    <3>2. m + 1 <= k /\ k \in 1..n
      BY <1>5, <2>2, <3>1
    <3>3. k - 1 \in 1..(n - 1) /\ (k - 1) + 1 = k
      BY <1>1, <2>2, <3>2
    <3>4. k - 1 \in About(c, job)'
      BY <1>4, <3>1, <3>3
    <3>5. k - 1 <= m
      BY <2>1, <3>4
    <3> QED  BY <1>1, <2>2, <3>2, <3>5
  <2>4. Coming(c, job)' = updates'[m].cells[job]
    BY <1>7 DEF Coming, About
  <2>5. Coming(c, job) = updates[m + 1].cells[job]
    BY <2>2, <2>3, ComingIs
  <2> QED  BY <1>1, <2>2, <2>4, <2>5
<1> QED  BY <1>6, <1>7

-----------------------------------------------------------------------------
(* NoForgottenChange: what a step may do to what is noticed.               *)

\* What a step can do to a watcher's list: keep it, make it longer, hand it
\* out, or drop it for a break.
LEMMA ListedStays ==
  ASSUME Base, [Next]_vars, NEW p \in Peers, NEW job \in Jobs, Listed(p, job)
  PROVE  \/ Listed(p, job)'
         \/ StartRefresh(p)
         \/ HearNext(p) /\ Head(inbox[p]) = Broken
<1>0. w \in [Peers -> WatcherState] /\ \A q \in Peers : WatcherOK(w[q])
  BY DEF Base, TypeOK
<1>1. CASE w'[p] = w[p]
  BY <1>1 DEF Listed
<1>2. ASSUME NEW q \in Peers, Watch(q)
      PROVE  \/ Listed(p, job)'
             \/ StartRefresh(p)
             \/ HearNext(p) /\ Head(inbox[p]) = Broken
  <2>1. CASE q # p
    <3>1. w'[p] = w[p]
      BY <1>0, <1>2, <2>1
      DEF Watch, StartDiscovery, StartRefresh, StartWait, Discover, HearNext, WaitEnds,
          ReadAgents, FullRead, JobRead
    <3> QED  BY <1>1, <3>1
  <2>2. CASE q = p
    <3>1. CASE Discover(p)
      <4>1. w'[p] = w[p] \/ w'[p] = Discovered(w[p])
        BY <1>0, <3>1 DEF Discover
      <4> QED  BY <1>0, <4>1, OwedAfter DEF Listed
    <3>2. CASE HearNext(p) /\ Head(inbox[p]) # Broken
      <4>1. w'[p] = w[p] \/ w'[p] = Hear(w[p], Head(inbox[p]).topic, Head(inbox[p]).job)
        BY <1>0, <3>2 DEF HearNext
      <4> QED  BY <1>0, <4>1, OwedAfter DEF Listed
    <3> QED
      BY <1>1, <1>2, <2>2, <3>1, <3>2
      DEF Watch, StartDiscovery, StartWait, WaitEnds, ReadAgents, FullRead, JobRead
  <2> QED  BY <2>1, <2>2
<1>3. ASSUME NEW q \in Peers, Fault(q)
      PROVE  Listed(p, job)'
  <2>1. \/ w'[p] = w[p] \/ w'[p] = DiscoverFailed(w[p])
        \/ w'[p] = RefreshFailed(w[p], hand[p].what, hand[p].age)
    BY <1>0, <1>3
    DEF Fault, Cut, ConnectFails, DiscoveryFails, RefreshFails, watcher
  <2> QED  BY <1>0, <2>1, OwedAfter DEF Listed
<1>4. CASE Tick
  <2>1. w'[p] = Elapse(w[p])
    BY <1>4 DEF Tick
  <2> QED  BY <1>0, <2>1, OwedAfter DEF Listed
<1>5. CASE UNCHANGED watcher
  BY <1>1, <1>5 DEF watcher
<1> QED
  BY <1>2, <1>3, <1>4, <1>5
  DEF Next, ChangeAgents, ChangeTasks, AdmitMissed, Read, ReadReport, ReadBreak, Connect,
      Drain, vars

\* A report that the watcher hears puts the job on its list.
LEMMA HearLists ==
  ASSUME NEW x, WatcherOK(x), NEW job \in Jobs, NEW r \in Telling(job)
  PROVE  LET y == Hear(x, r.topic, r.job) IN y.full \/ job \in y.jobs
<1>1. Seed(x).full /\ PendFull(x).full /\ job \in PendJob(x, job).jobs
  BY DEF Seed, PendFull, PendJob, WatcherOK, WatcherState
<1>2. HearJob(x, job).full \/ job \in HearJob(x, job).jobs
  <2>1. CASE x.full
    BY <2>1 DEF HearJob
  <2>2. CASE ~x.full
    <3>1. HearJob(x, job) \in {PendFull(x), PendJob(x, job)}
      BY <2>2 DEF HearJob
    <3> QED  BY <1>1, <3>1
  <2> QED  BY <2>1, <2>2
<1>3. CASE r \in {Ping, Status, AgentSeen}
  <2>1. r.topic \in {"ping", "status", "agent"}
    BY <1>3 DEF Ping, Status, AgentSeen, Report
  <2>2. Hear(x, r.topic, r.job) \in {Seed(x), PendFull(x)}
    BY <2>1 DEF Hear, Classify
  <2> QED  BY <1>1, <2>2
<1>4. CASE r = Report("job", job)
  <2>1. r.topic = "job" /\ r.job = job /\ job # NoName
    BY <1>4, NameAssumption DEF Report
  <2>2. Hear(x, r.topic, r.job) = HearJob(x, job)
    BY <2>1 DEF Hear, Classify
  <2> QED  BY <1>2, <2>2
<1> QED  BY <1>3, <1>4 DEF Telling

\* What is noticed stays noticed: until a refresh is handed out.
LEMMA NoticedStays ==
  ASSUME Base, Base', [Next]_vars, PingFollowsBreak, shortages' = shortages,
         NEW p \in Peers, NEW job \in Jobs, Noticed(p, job), ~StartRefresh(p)
  PROVE  Noticed(p, job)'
<1>0. /\ inbox[p] \in Seq(Reports) /\ wire[p] \in Seq(Reports \ {Broken})
      /\ w \in [Peers -> WatcherState] /\ WatcherOK(w[p])
  BY DEF Base, TypeOK
<1>1. CASE conn'[p] # "up"
  BY <1>1 DEF Noticed
<1>2. CASE Connect(p)
  <2>1. wire'[p] = <<Ping>>
    BY <1>2 DEF Connect, Base, TypeOK
  <2>2. Tells(wire[p], job)'
    BY <2>1 DEF Tells, Telling
  <2> QED  BY <2>2, OnItsWayIs DEF Noticed, OnItsWay, Tells, Telling
<1>3. CASE HearNext(p)
  <2>1. /\ inbox[p] # <<>> /\ inbox'[p] = Tail(inbox[p]) /\ wire'[p] = wire[p]
        /\ conn'[p] = conn[p] /\ missed'[p] = missed[p]
    BY <1>3 DEF HearNext, stream, Base, TypeOK
  <2>2. CASE Head(inbox[p]) # Broken
    <3>1. w'[p] = Hear(w[p], Head(inbox[p]).topic, Head(inbox[p]).job)
      BY <1>0, <1>3, <2>2, ScenarioFacts DEF HearNext, Suffices, Short, Base, TypeOK
    <3>2. CASE Head(inbox[p]) \in Telling(job)
      BY <1>0, <3>1, <3>2, HearLists DEF Noticed, Listed
    <3>3. CASE Head(inbox[p]) \notin Telling(job)
      <4>1. Tells(inbox[p], job) => Tells(inbox[p], job)'
        <5>1. Tells(inbox[p], job) => Tells(Tail(inbox[p]), job)
          BY <1>0, <2>1, <3>3, TellsTail
        <5> QED  BY <2>1, <5>1 DEF Tells
      <4>2. Listed(p, job) => Listed(p, job)'
        BY <1>0, <3>1, OwedAfter DEF Listed
      <4>3. OnItsWay(p, job) => OnItsWay(p, job)'
        BY <2>1, <4>1 DEF OnItsWay, Tells, Telling
      <4> QED  BY <2>1, <4>2, <4>3 DEF Noticed
    <3> QED  BY <3>2, <3>3
  <2>3. CASE Head(inbox[p]) = Broken
    <3>1. /\ Len(inbox[p]) \in Nat \ {0} /\ DOMAIN inbox[p] = 1..Len(inbox[p])
          /\ inbox[p][1] = Broken
      BY <1>0, <2>1, <2>3, LenProperties, EmptySeq
    <3>2. \/ conn[p] # "up"
          \/ \E k \in DOMAIN inbox[p] : k > 1 /\ inbox[p][k] = Ping
          \/ \E k \in DOMAIN wire[p] : wire[p][k] = Ping
      BY <3>1 DEF PingFollowsBreak
    <3>3. ASSUME NEW k \in DOMAIN inbox[p], inbox[p][k] = Ping
          PROVE  OnItsWay(p, job)'
      <4>1. Tells(inbox[p], job) /\ Head(inbox[p]) \notin Telling(job)
        <5>1. Broken \notin Telling(job)
          BY DEF Broken, Telling, Ping, Status, AgentSeen, Report
        <5> QED  BY <2>3, <3>3, <5>1 DEF Tells, Telling
      <4>2. Tells(Tail(inbox[p]), job)
        BY <1>0, <2>1, <4>1, TellsTail
      <4> QED  BY <2>1, <4>2 DEF OnItsWay, Tells, Telling
    <3>4. ASSUME NEW k \in DOMAIN wire[p], wire[p][k] = Ping
          PROVE  OnItsWay(p, job)'
      BY <2>1, <3>4 DEF OnItsWay
    <3> QED  BY <2>1, <3>2, <3>3, <3>4 DEF Noticed
  <2> QED  BY <2>2, <2>3
<1>4. CASE ~HearNext(p) /\ ~Connect(p) /\ conn'[p] = "up"
  <2>1. Listed(p, job) => Listed(p, job)'
    BY <1>4, ListedStays
  <2>2. CASE /\ conn'[p] = conn[p] /\ wire'[p] = wire[p] /\ inbox'[p] = inbox[p]
             /\ missed[p] => missed'[p]
    BY <2>1, <2>2 DEF Noticed, OnItsWay
  <2>3. ASSUME NEW r \in Reports \ {Broken}, conn'[p] = conn[p], inbox'[p] = inbox[p],
               wire'[p] = Append(wire[p], r), missed[p] => missed'[p] \/ r = Status
        PROVE  Noticed(p, job)'
    <3>1. Tells(wire[p], job) \/ r = Status => Tells(wire[p], job)'
      <4>1. Tells(wire[p], job) \/ r = Status => Tells(Append(wire[p], r), job)
        BY <1>0, TellsAppend DEF Telling
      <4> QED  BY <2>3, <4>1 DEF Tells
    <3>2. OnItsWay(p, job) => OnItsWay(p, job)'
      BY <2>3, <3>1 DEF OnItsWay, Tells, Telling
    <3> QED  BY <2>1, <2>3, <3>2 DEF Noticed
  <2>4. CASE ReadReport(p)
    <3>1. /\ conn'[p] = conn[p] /\ missed'[p] = missed[p] /\ wire[p] # <<>>
          /\ wire'[p] = Tail(wire[p]) /\ inbox'[p] = Append(inbox[p], Head(wire[p]))
      BY <2>4 DEF ReadReport, Send, Base, TypeOK
    <3>2. Head(wire[p]) \in Reports
      BY <1>0, <3>1, HeadTailProperties
    <3>3. Tells(wire[p], job) \/ Tells(inbox[p], job)
            => Tells(wire[p], job)' \/ Tells(inbox[p], job)'
      <4>1. Tells(wire[p], job) => Head(wire[p]) \in Telling(job) \/ Tells(Tail(wire[p]), job)
        BY <1>0, <3>1, TellsTail
      <4>2. Tells(inbox[p], job) \/ Head(wire[p]) \in Telling(job)
              => Tells(Append(inbox[p], Head(wire[p])), job)
        BY <1>0, <3>2, TellsAppend
      <4> QED  BY <3>1, <4>1, <4>2 DEF Tells
    <3>4. OnItsWay(p, job) => OnItsWay(p, job)'
      BY <3>1, <3>3 DEF OnItsWay, Tells, Telling
    <3> QED  BY <2>1, <3>1, <3>4 DEF Noticed
  <2> QED  BY <1>4, <2>2, <2>3, <2>4, EveryStreamStep DEF StreamStep
<1> QED  BY <1>1, <1>2, <1>3, <1>4

\* A change is noticed by every peer of its cluster.
LEMMA ChangeNotices ==
  ASSUME Base, NEW c \in Clusters, NEW job \in Jobs, NEW r \in Reports \ {Broken},
         Tell(c, r), r \in Telling(job), UNCHANGED conn,
         NEW p \in Peers, clusterOf[p] = c
  PROVE  Noticed(p, job)'
<1>0. wire[p] \in Seq(Reports \ {Broken})
  BY DEF Base, TypeOK
<1>1. CASE conn[p] # "up"
  BY <1>1 DEF Noticed
<1>2. CASE wire'[p] = Append(wire[p], r)
  <2>1. Tells(Append(wire[p], r), job)
    BY <1>0, TellsAppend
  <2> QED  BY <1>2, <2>1 DEF Noticed, OnItsWay, Tells, Telling
<1>3. CASE missed'[p]
  BY <1>3 DEF Noticed, OnItsWay
<1> QED  BY <1>1, <1>2, <1>3, TellFacts DEF Base

\* The clusters change in two actions only.
LEMMA HopStays ==
  ASSUME [Next]_vars
  PROVE  \/ hop' = hop
         \/ \E c \in Watched : ChangeAgents(c) \/ \E job \in Live : ChangeTasks(c, job)
BY DEF Next, AdmitMissed, Read, ReadReport, ReadBreak, Connect,
       Watch, StartDiscovery, StartRefresh, StartWait, Discover, HearNext, WaitEnds,
       ReadAgents, FullRead, JobRead, Fault, Cut, ConnectFails, DiscoveryFails, RefreshFails,
       Drain, Tick, vars, world

\* The scenario stays, and a shortage is never undone.
LEMMA ScenarioStays ==
  ASSUME Base, [Next]_vars
  PROVE  /\ scenario' = scenario
         /\ shortages' = 0 => shortages = 0
<1>1. scenario' = scenario
  BY DEF Next, ChangeAgents, ChangeTasks, AdmitMissed, Read, ReadReport, ReadBreak, Connect,
         Watch, StartDiscovery, StartRefresh, StartWait, Discover, HearNext, WaitEnds,
         ReadAgents, FullRead, JobRead, Fault, Cut, ConnectFails, DiscoveryFails,
         RefreshFails, Drain, Tick, vars, world
<1>2. shortages' = shortages \/ shortages' = shortages + 1
  BY DEF Next, ChangeAgents, ChangeTasks, AdmitMissed, Read, ReadReport, ReadBreak, Connect,
         Watch, StartDiscovery, StartRefresh, StartWait, Discover, HearNext, WaitEnds,
         ReadAgents, FullRead, JobRead, Fault, Cut, ConnectFails, DiscoveryFails,
         RefreshFails, Drain, Tick, vars, trouble, Suffices, Short
<1>3. shortages \in Nat
  BY ScenarioFacts DEF Base, TypeOK
<1> QED  BY <1>1, <1>2, <1>3

\* What a step can do to the refresh in hand.
LEMMA HandStays ==
  ASSUME Base, [Next]_vars, NEW p \in Peers
  PROVE  \/ /\ hand'[p].what = hand[p].what /\ hand'[p].todo = hand[p].todo
            /\ hand'[p].job = hand[p].job /\ hand'[p].agents = hand[p].agents
         \/ StartRefresh(p) \/ ReadAgents(p) \/ FullRead(p) \/ JobRead(p) \/ RefreshFails(p)
<1>0. hand \in [Peers -> Hands]
  BY DEF Base, TypeOK, Hands
<1>1. ASSUME NEW q \in Peers, q # p,
             StartRefresh(q) \/ ReadAgents(q) \/ FullRead(q) \/ JobRead(q) \/ RefreshFails(q)
      PROVE  hand'[p] = hand[p]
  BY <1>0, <1>1 DEF StartRefresh, ReadAgents, FullRead, JobRead, RefreshFails, EndRefresh
<1>2. CASE Tick
  <2>1. hand'[p] = hand[p] \/ hand'[p] = [hand[p] EXCEPT !.age = @ + 1]
    BY <1>2 DEF Tick
  <2> QED  BY <1>0, <2>1 DEF Hands
<1> QED
  BY <1>1, <1>2
  DEF Next, ChangeAgents, ChangeTasks, AdmitMissed, Read, ReadReport, ReadBreak, Connect,
      Watch, StartDiscovery, StartWait, Discover, HearNext, WaitEnds,
      Fault, Cut, ConnectFails, DiscoveryFails, Drain, vars, watcher

\* What the steps of a refresh leave in hand.
LEMMA HandAfterRefresh ==
  ASSUME Base, NEW p \in Peers
  PROVE  /\ StartRefresh(p) => /\ hand'[p].agents = NotRead
                               /\ w[p].full => hand'[p].what = "full"
                               /\ hand'[p].todo = w[p].jobs
         /\ ReadAgents(p) => /\ hand'[p].agents = hop[clusterOf[p]].agents
                             /\ hand'[p].what = hand[p].what /\ hand'[p].todo = hand[p].todo
         /\ FullRead(p) \/ RefreshFails(p) => hand'[p] = NoHand
         /\ JobRead(p) => \/ hand'[p] = NoHand /\ hand[p].todo = {hand[p].job}
                          \/ /\ hand'[p].what = hand[p].what
                             /\ hand'[p].todo = hand[p].todo \ {hand[p].job}
                             /\ hand'[p].agents = NotRead
         /\ NoHand.agents = NotRead /\ NoHand.what = "none" /\ NoHand.todo = {}
<1>0. hand \in [Peers -> Hands] /\ hand[p] \in Hands
  BY DEF Base, TypeOK, Hands
<1>1. NoHand.agents = NotRead /\ NoHand.what = "none" /\ NoHand.todo = {}
  BY DEF NoHand
<1>2. ASSUME StartRefresh(p)
      PROVE  /\ hand'[p].agents = NotRead
             /\ w[p].full => hand'[p].what = "full"
             /\ hand'[p].todo = w[p].jobs
  <2>1. hand'[p] = [NoHand EXCEPT !.what = Handed(w[p]), !.todo = w[p].jobs]
    BY <1>0, <1>2 DEF StartRefresh
  <2> QED  BY <2>1 DEF NoHand, Handed
<1>3. ASSUME ReadAgents(p)
      PROVE  /\ hand'[p].agents = hop[clusterOf[p]].agents
             /\ hand'[p].what = hand[p].what /\ hand'[p].todo = hand[p].todo
  BY <1>0, <1>3 DEF ReadAgents, Hands
<1>4. EndRefresh(p) => hand'[p] = NoHand
  BY <1>0 DEF EndRefresh
<1>5. ASSUME JobRead(p)
      PROVE  \/ hand'[p] = NoHand /\ hand[p].todo = {hand[p].job}
             \/ /\ hand'[p].what = hand[p].what
                /\ hand'[p].todo = hand[p].todo \ {hand[p].job}
                /\ hand'[p].agents = NotRead
  <2>1. CASE hand[p].todo = {hand[p].job}
    BY <1>4, <1>5, <2>1 DEF JobRead
  <2>2. CASE hand[p].todo # {hand[p].job}
    <3>1. hand' = [hand EXCEPT ![p].todo = @ \ {hand[p].job},
                               ![p].job = NoName, ![p].agents = NotRead]
      BY <1>5, <2>2 DEF JobRead
    <3>2. hand'[p] = [hand[p] EXCEPT !.todo = @ \ {hand[p].job},
                                     !.job = NoName, !.agents = NotRead]
      BY <1>0, <3>1
    <3> QED  BY <1>0, <3>2 DEF Hands
  <2> QED  BY <2>1, <2>2
<1> QED  BY <1>1, <1>2, <1>3, <1>4, <1>5 DEF FullRead, RefreshFails

\* When the agents of a cluster change, its peers notice for every job.
LEMMA AgentsNotice ==
  ASSUME Base, [Next]_vars, NEW p \in Peers, clusterOf[p] \in Clusters, NEW job \in Jobs,
         hop'[clusterOf[p]].agents # hop[clusterOf[p]].agents
  PROVE  Noticed(p, job)'
<1>1. PICK c \in Watched : ChangeAgents(c) \/ \E j \in Live : ChangeTasks(c, j)
  BY HopStays
<1>2. c \in Clusters /\ hop \in [Clusters -> [agents : Versions, tasks : [Jobs -> Versions]]]
  BY ScenarioFacts DEF Base, TypeOK
<1>3. ~\E j \in Live : ChangeTasks(c, j)
  <2> SUFFICES ASSUME NEW j \in Live, ChangeTasks(c, j) PROVE FALSE
    OBVIOUS
  <2>1. hop' = [hop EXCEPT ![c].tasks[j] = @ + 1]
    BY DEF ChangeTasks
  <2> QED  BY <1>2, <2>1
<1>4. ChangeAgents(c)
  BY <1>1, <1>3
<1>5. c = clusterOf[p]
  BY <1>2, <1>4 DEF ChangeAgents
<1> QED  BY <1>2, <1>4, <1>5, ChangeNotices, ReportFacts DEF ChangeAgents, Telling

\* A refresh with agents that are out of date has a successor on its way.
LEMMA NextStale ==
  ASSUME Base, Base', [Next]_vars, PingFollowsBreak, StaleIsNoticed, shortages' = shortages
  PROVE  StaleIsNoticed'
<1>0. scenario' = scenario /\ Configured' = Configured /\ Live' = Live /\ clusterOf' = clusterOf
  BY ScenarioStays DEF Configured, Live, clusterOf
<1> SUFFICES ASSUME NEW p \in Configured, NEW job \in Live, Reading(p, job)',
                    hand'[p].agents # NotRead,
                    hand'[p].agents # hop'[clusterOf[p]].agents
             PROVE  Noticed(p, job)'
  BY <1>0 DEF StaleIsNoticed
<1>1. p \in Peers /\ job \in Jobs /\ clusterOf[p] \in Clusters
  BY ScenarioFacts DEF Base
<1>2. hand \in [Peers -> Hands]
  BY DEF Base, TypeOK, Hands
<1>3. ~StartRefresh(p) /\ ~FullRead(p) /\ ~RefreshFails(p) /\ ~JobRead(p)
  BY <1>1, HandAfterRefresh
<1>4. ~ReadAgents(p)
  BY <1>1, <1>2 DEF ReadAgents, Hands, world
<1>5. /\ hand'[p].what = hand[p].what /\ hand'[p].todo = hand[p].todo
      /\ hand'[p].agents = hand[p].agents
  BY <1>1, <1>3, <1>4, HandStays
<1>6. CASE hop'[clusterOf[p]].agents = hop[clusterOf[p]].agents
  <2>1. Noticed(p, job)
    BY <1>5, <1>6 DEF StaleIsNoticed, Reading
  <2> QED  BY <1>1, <1>3, <2>1, NoticedStays
<1>7. CASE hop'[clusterOf[p]].agents # hop[clusterOf[p]].agents
  BY <1>1, <1>7, AgentsNotice
<1> QED  BY <1>6, <1>7

\* What p still owes the cache for a job.
Kept(p, job) == Noticed(p, job) \/ BeingRead(p, job)

\* What is owed stays owed until it is sent.
LEMMA KeptStays ==
  ASSUME Base, Base', [Next]_vars, PingFollowsBreak, shortages' = shortages,
         NEW p \in Configured, NEW job \in Live, Kept(p, job),
         NEW c, c = clusterOf[p]
  PROVE  Kept(p, job)' \/ Coming(c, job)' = Truth(c, job)'
<1>0. /\ p \in Peers /\ job \in Jobs /\ clusterOf[p] \in Clusters
      /\ clusterOf' = clusterOf /\ Live \subseteq Jobs
  BY ScenarioFacts, ScenarioStays DEF Base, clusterOf
<1>1. CASE StartRefresh(p)
  <2>1. ~BeingRead(p, job)
    <3>1. hand[p] = NoHand
      BY <1>0, <1>1 DEF StartRefresh, Base, HandsOK
    <3> QED  BY <3>1 DEF BeingRead, NoHand
  <2>2. Listed(p, job) => BeingRead(p, job)'
    BY <1>0, <1>1, HandAfterRefresh DEF Listed, BeingRead
  <2>3. conn[p] # "up" \/ OnItsWay(p, job) => Noticed(p, job)'
    BY <1>1 DEF StartRefresh, stream, Noticed, OnItsWay
  <2> QED  BY <2>1, <2>2, <2>3 DEF Kept, Noticed
<1>2. CASE ~StartRefresh(p) /\ Noticed(p, job)
  BY <1>0, <1>2, NoticedStays DEF Kept
<1>3. CASE ~StartRefresh(p) /\ BeingRead(p, job)
  <2>1. CASE ReadAgents(p)
    <3>1. hop' = hop
      BY <2>1 DEF ReadAgents, world
    <3> QED  BY <1>0, <1>3, <2>1, <3>1, HandAfterRefresh DEF Kept, BeingRead
  <2>2. CASE FullRead(p) \/ JobRead(p)
    <3> DEFINE js == IF hand[p].what = "full" THEN Live ELSE {hand[p].job}
    <3>0. pc[p] = "tasks" /\ hop' = hop /\ cache' = cache /\ scenario' = scenario
          /\ (FullRead(p) => hand[p].what = "full") /\ (JobRead(p) => hand[p].what = "jobs")
      BY <2>2 DEF FullRead, JobRead, world
    <3>1. SendUpdate(p, js)
      <4>1. ~Short
        BY ScenarioFacts DEF Short, Base, TypeOK
      <4> QED  BY <2>2, <3>0, <4>1 DEF FullRead, JobRead
    <3>2. hand[p].agents # NotRead /\ js \in SUBSET Jobs
      <4>1. hand[p].agents # NotRead /\ (hand[p].what = "jobs" => hand[p].job \in hand[p].todo)
            /\ hand[p].todo \subseteq Jobs
        BY <1>0, <3>0, HandFacts DEF Base, HandsOK
      <4> QED  BY <1>0, <2>2, <3>0, <4>1
    <3> HIDE DEF js
    <3>3. CASE job \in js
      <4>1. Coming(c, job)' = <<hand[p].agents, hop[c].tasks[job]>>
        BY <3>0, <3>1, <3>2, <3>3, ComingAfterSend
      <4>2. hand[p].agents = hop[clusterOf[p]].agents
        BY <1>3, <3>2 DEF BeingRead
      <4> QED  BY <1>0, <3>0, <4>1, <4>2 DEF Truth
    <3>4. CASE job \notin js
      <4>1. JobRead(p) /\ job \in hand[p].todo /\ job # hand[p].job
        BY <1>3, <2>2, <3>0, <3>4 DEF BeingRead, js
      <4>2. job \in hand'[p].todo /\ hand'[p].agents = NotRead
        BY <1>0, <4>1, HandAfterRefresh
      <4> QED  BY <4>2 DEF Kept, BeingRead
    <3> QED  BY <3>3, <3>4
  <2>3. CASE RefreshFails(p)
    <3>1. w'[p].full
      <4>1. w'[p] = RefreshFailed(w[p], hand[p].what, hand[p].age) /\ WatcherOK(w[p])
        BY <1>0, <2>3 DEF RefreshFails, Base, TypeOK
      <4> QED  BY <4>1, OwedAfter
    <3> QED  BY <3>1 DEF Kept, Noticed, Listed
  <2>4. CASE /\ hand'[p].what = hand[p].what /\ hand'[p].todo = hand[p].todo
             /\ hand'[p].agents = hand[p].agents
    <3>1. CASE hop'[clusterOf[p]].agents = hop[clusterOf[p]].agents
      BY <1>0, <1>3, <2>4, <3>1 DEF Kept, BeingRead
    <3>2. CASE hop'[clusterOf[p]].agents # hop[clusterOf[p]].agents
      <4>1. Noticed(p, job)'
        BY <1>0, <3>2, AgentsNotice
      <4> QED  BY <4>1 DEF Kept
    <3> QED  BY <3>1, <3>2
  <2> QED  BY <1>0, <1>3, <2>1, <2>2, <2>3, <2>4, HandStays
<1> QED  BY <1>1, <1>2, <1>3 DEF Kept

\* Nothing but an update that is sent changes what the cache will hold.
LEMMA ComingStays ==
  ASSUME Base, [Next]_vars, shortages' = shortages, NEW c \in Clusters, NEW job \in Jobs
  PROVE  \/ Coming(c, job)' = Coming(c, job)
         \/ \E p \in Configured :
              /\ pc[p] = "tasks" /\ clusterOf[p] = c /\ hop' = hop
              /\ Coming(c, job)' = <<hand[p].agents, hop[c].tasks[job]>>
              /\ ~StartRefresh(p)
              /\ Reading(p, job) \/ job \notin Live
<1>1. CASE UNCHANGED <<updates, cache>>
  BY <1>1 DEF Coming
<1>2. CASE Drain
  BY <1>2, ComingAfterDrain
<1>3. ASSUME NEW p \in Peers, FullRead(p) \/ JobRead(p), ~UNCHANGED <<updates, cache>>
      PROVE  \/ Coming(c, job)' = Coming(c, job)
             \/ /\ p \in Configured
                /\ pc[p] = "tasks" /\ clusterOf[p] = c /\ hop' = hop
                /\ Coming(c, job)' = <<hand[p].agents, hop[c].tasks[job]>>
                /\ ~StartRefresh(p)
                /\ Reading(p, job) \/ job \notin Live
  <2> DEFINE js == IF hand[p].what = "full" THEN Live ELSE {hand[p].job}
  <2>1. /\ pc[p] = "tasks" /\ cache' = cache /\ hop' = hop /\ SendUpdate(p, js)
        /\ (FullRead(p) => hand[p].what = "full") /\ (JobRead(p) => hand[p].what = "jobs")
    BY <1>3 DEF FullRead, JobRead, world
  <2>2. /\ p \in Configured /\ hand[p].agents # NotRead
        /\ (hand[p].what = "jobs" => hand[p].job \in hand[p].todo /\ hand[p].job \in Jobs)
    BY <2>1, HandFacts DEF Base, HandsOK
  <2>3. js \in SUBSET Jobs
    BY <1>3, <2>1, <2>2, ScenarioFacts DEF Base
  <2>4. job \in js => Reading(p, job)
    BY <1>3, <2>1, <2>2 DEF Reading
  <2>5. ~StartRefresh(p)
    BY <2>1 DEF StartRefresh
  <2> HIDE DEF js
  <2>6. IF c = clusterOf[p] /\ job \in js
        THEN Coming(c, job)' = <<hand[p].agents, hop[c].tasks[job]>>
        ELSE Coming(c, job)' = Coming(c, job)
    BY <2>1, <2>2, <2>3, ComingAfterSend
  <2> QED  BY <2>1, <2>2, <2>4, <2>5, <2>6
<1> QED
  BY <1>1, <1>2, <1>3
  DEF Next, ChangeAgents, ChangeTasks, AdmitMissed, Read, ReadReport, ReadBreak, Connect,
      Watch, StartDiscovery, StartRefresh, StartWait, Discover, HearNext, WaitEnds, ReadAgents,
      Fault, Cut, ConnectFails, DiscoveryFails, RefreshFails, Tick, vars

\* The truth about a job changes only when a peer of the cluster notices.
LEMMA TruthStays ==
  ASSUME Base, [Next]_vars, NEW c \in Clusters, NEW job \in Jobs,
         NEW p \in Peers, clusterOf[p] = c
  PROVE  Truth(c, job)' = Truth(c, job) \/ Noticed(p, job)'
<1>0. hop \in [Clusters -> [agents : Versions, tasks : [Jobs -> Versions]]]
  BY DEF Base, TypeOK
<1>1. CASE hop'[c].agents # hop[c].agents
  BY <1>1, AgentsNotice
<1>2. CASE hop'[c].agents = hop[c].agents /\ hop' # hop
  <2>1. PICK d \in Watched : ChangeAgents(d) \/ \E j \in Live : ChangeTasks(d, j)
    BY <1>2, HopStays
  <2>2. CASE ChangeAgents(d)
    <3>1. d # c
      <4> SUFFICES ASSUME d = c PROVE FALSE
        OBVIOUS
      <4>1. hop'[c].agents = hop[c].agents + 1 /\ hop[c].agents \in Int
        BY <1>0, <2>2, ScenarioFacts DEF ChangeAgents, Versions, Base
      <4> QED  BY <1>2, <4>1
    <3> QED  BY <1>0, <2>2, <3>1 DEF ChangeAgents, Truth
  <2>3. ASSUME NEW j \in Live, ChangeTasks(d, j)
        PROVE  Truth(c, job)' = Truth(c, job) \/ Noticed(p, job)'
    <3>1. CASE d = c /\ j = job
      <4>1. Report("job", job) \in Reports \ {Broken} /\ Report("job", job) \in Telling(job)
        BY ReportFacts DEF Telling
      <4>2. Tell(c, Report("job", job)) /\ UNCHANGED conn
        BY <2>3, <3>1 DEF ChangeTasks
      <4> QED  BY <4>1, <4>2, ChangeNotices
    <3>2. CASE ~(d = c /\ j = job)
      <4>1. hop'[c].tasks[job] = hop[c].tasks[job]
        BY <1>0, <2>3, <3>2 DEF ChangeTasks
      <4> QED  BY <1>2, <4>1 DEF Truth
    <3> QED  BY <3>1, <3>2
  <2> QED  BY <2>1, <2>2, <2>3
<1>3. CASE hop' = hop
  BY <1>3 DEF Truth
<1> QED  BY <1>1, <1>2, <1>3

\* Every action keeps a job's last change on its way or on the watcher's list,
\* or in what the cache will hold.
LEMMA NextForgotten ==
  ASSUME Base, Base', [Next]_vars, PingFollowsBreak, shortages = 0 => StaleIsNoticed,
         NoForgottenChange
  PROVE  NoForgottenChange'
<1>0. scenario' = scenario /\ Configured' = Configured /\ Live' = Live /\ Watched' = Watched
      /\ clusterOf' = clusterOf
  BY ScenarioStays DEF Configured, Live, Watched, clusterOf
<1> DEFINE Current(c, job) ==
      Coming(c, job) = Truth(c, job) \/ \E p \in Configured : clusterOf[p] = c /\ Kept(p, job)
<1>1. ASSUME shortages = 0, NEW c \in Watched, NEW job \in Live
      PROVE  Current(c, job)
  BY <1>1 DEF NoForgottenChange, Kept, Noticed, Watched, Configured
<1> SUFFICES ASSUME shortages' = 0, NEW c \in Watched, NEW job \in Live
             PROVE  \/ Coming(c, job)' = Truth(c, job)'
                    \/ \E p \in Configured : clusterOf[p] = c /\ Kept(p, job)'
  BY <1>0 DEF NoForgottenChange, Kept, Noticed, Configured
<1>2. shortages = 0 /\ shortages' = shortages /\ StaleIsNoticed
      /\ c \in Clusters /\ job \in Jobs
  BY ScenarioStays, ScenarioFacts DEF Base
<1>3. ASSUME NEW p \in Configured, clusterOf[p] = c, Kept(p, job)
      PROVE  Coming(c, job)' = Truth(c, job)' \/ Kept(p, job)'
  BY <1>2, <1>3, KeptStays
<1>4. CASE Coming(c, job) = Truth(c, job)
  <2>1. PICK p \in Configured : clusterOf[p] = c
    BY DEF Watched
  <2>2. p \in Peers
    BY DEF Configured
  <2>3. CASE Coming(c, job)' = Coming(c, job)
    BY <1>2, <1>4, <2>1, <2>2, <2>3, TruthStays DEF Kept
  <2>4. ASSUME NEW q \in Configured,
               pc[q] = "tasks", clusterOf[q] = c, hop' = hop, ~StartRefresh(q),
               Coming(c, job)' = <<hand[q].agents, hop[c].tasks[job]>>,
               Reading(q, job)
        PROVE  Coming(c, job)' = Truth(c, job)' \/ Kept(q, job)'
    <3>1. CASE hand[q].agents = hop[c].agents
      BY <2>4, <3>1 DEF Truth
    <3>2. CASE hand[q].agents # hop[c].agents
      <4>1. q \in Peers /\ hand[q].agents # NotRead
        BY <2>4 DEF Configured, Base, HandsOK
      <4>2. Noticed(q, job)
        BY <1>2, <2>4, <3>2, <4>1 DEF StaleIsNoticed
      <4>3. Noticed(q, job)'
        BY <1>2, <2>4, <4>1, <4>2, NoticedStays
      <4> QED  BY <4>3 DEF Kept
    <3> QED  BY <3>1, <3>2
  <2> QED  BY <1>2, <2>3, <2>4, ComingStays
<1> QED  BY <1>1, <1>2, <1>3, <1>4

-----------------------------------------------------------------------------
(* Ordered, and NeverGoesBack.                                             *)

Pairs == Int \X Int

\* The order of the pairs of versions is reflexive and transitive.
LEMMA NoOlderTransitive ==
  ASSUME NEW a \in Pairs, NEW b \in Pairs, NEW d \in Pairs
  PROVE  NoOlder(a, a) /\ (NoOlder(a, b) /\ NoOlder(b, d) => NoOlder(a, d))
BY DEF NoOlder, Pairs

\* What is cached, on its way and read next are pairs of numbers.
LEMMA PairTypes ==
  ASSUME Base, NEW p \in Configured, NEW c, c = clusterOf[p], NEW job \in Jobs
  PROVE  /\ cache[c][job] \in Pairs
         /\ NextRead(p, job) \in Pairs
         /\ About(c, job) \subseteq 1..Len(updates)
         /\ \A i \in About(c, job) : updates[i].cells[job] \in Pairs
<1>0. p \in Peers /\ c \in Clusters
  BY ScenarioFacts DEF Base
<1>1. \A v \in Versions : v \in Int
  BY DEF Versions
<1>2. Absent \in Pairs /\ \A cell \in Cells : cell \in Pairs
  <2>1. Absent \in Pairs
    BY DEF Absent, Pairs
  <2>2. \A cell \in Cells : cell \in Pairs
    BY <1>1 DEF Cells, Pairs
  <2> QED  BY <2>1, <2>2
<1>3. cache[c][job] \in Cells \cup {Absent}
  BY <1>0 DEF Base, TypeOK
<1>4. NextRead(p, job) \in Pairs
  <2>1. hop[c] \in [agents : Versions, tasks : [Jobs -> Versions]]
    BY <1>0 DEF Base, TypeOK
  <2>2. hop[c].agents \in Int /\ hop[c].tasks[job] \in Int
    BY <1>1, <2>1
  <2>3. hand[p].agents \in Versions \cup {NotRead}
    BY <1>0, HandFacts
  <2>4. NotRead \in Int
    BY DEF NotRead
  <2> QED  BY <1>1, <2>2, <2>3, <2>4 DEF NextRead, Pairs
<1>5. updates \in Seq(Updates) /\ DOMAIN updates = 1..Len(updates)
  BY LenProperties DEF Base, TypeOK
<1>6. ASSUME NEW i \in About(c, job) PROVE updates[i].cells[job] \in Cells
  <2>1. i \in 1..Len(updates) /\ job \in DOMAIN updates[i].cells
    BY <1>5 DEF About
  <2>2. updates[i] \in Updates
    BY <1>5, <2>1, ElementOfSeq
  <2>3. PICK js \in SUBSET Jobs : updates[i].cells \in [js -> Cells]
    BY <2>2 DEF Updates
  <2> QED  BY <2>1, <2>3
<1> QED  BY <1>2, <1>3, <1>4, <1>5, <1>6 DEF About

\* The same of every cluster: a state predicate, so that it can be primed.
PairsOK ==
  \A p \in Configured, c \in Clusters, job \in Jobs :
    c = clusterOf[p] =>
      /\ cache[c][job] \in Pairs
      /\ NextRead(p, job) \in Pairs
      /\ About(c, job) \subseteq 1..Len(updates)
      /\ \A i \in About(c, job) : updates[i].cells[job] \in Pairs

\* The same for every peer and every job at once.
LEMMA PairsEverywhere == Base => PairsOK
BY PairTypes DEF PairsOK

\* Versions only grow.
LEMMA HopGrows ==
  ASSUME Base, [Next]_vars, NEW c \in Clusters, NEW job \in Jobs
  PROVE  hop[c].agents <= hop'[c].agents /\ hop[c].tasks[job] <= hop'[c].tasks[job]
<1>0. /\ hop \in [Clusters -> [agents : Versions, tasks : [Jobs -> Versions]]]
      /\ Versions \subseteq Int /\ Live \subseteq Jobs /\ Watched \subseteq Clusters
  BY ScenarioFacts DEF Base, TypeOK, Versions
<1>1. hop[c].agents \in Int /\ hop[c].tasks[job] \in Int
  BY <1>0
<1>2. CASE hop' = hop
  BY <1>1, <1>2
<1>3. ASSUME NEW d \in Watched, ChangeAgents(d)
      PROVE  hop[c].agents <= hop'[c].agents /\ hop[c].tasks[job] <= hop'[c].tasks[job]
  <2>1. hop' = [hop EXCEPT ![d].agents = @ + 1]
    BY <1>3 DEF ChangeAgents
  <2>2. hop'[c].agents \in {hop[c].agents, hop[c].agents + 1} /\ hop'[c].tasks = hop[c].tasks
    BY <1>0, <2>1
  <2> QED  BY <1>1, <2>2
<1>4. ASSUME NEW d \in Watched, NEW j \in Live, ChangeTasks(d, j)
      PROVE  hop[c].agents <= hop'[c].agents /\ hop[c].tasks[job] <= hop'[c].tasks[job]
  <2>1. hop' = [hop EXCEPT ![d].tasks[j] = @ + 1]
    BY <1>4 DEF ChangeTasks
  <2>2. hop'[c].agents = hop[c].agents
        /\ hop'[c].tasks[job] \in {hop[c].tasks[job], hop[c].tasks[job] + 1}
    BY <1>0, <2>1
  <2> QED  BY <1>1, <2>2
<1> QED  BY <1>2, <1>3, <1>4, HopStays

\* What is read next only grows.
LEMMA NextReadGrows ==
  ASSUME Base, [Next]_vars, NEW p \in Configured, NEW job \in Jobs
  PROVE  NoOlder(NextRead(p, job), NextRead(p, job)')
<1> PICK c \in Clusters : c = clusterOf[p]
  BY ScenarioFacts DEF Base
<1>0. p \in Peers /\ clusterOf' = clusterOf
  BY ScenarioStays DEF Configured, clusterOf
<1>1. hop[c].agents <= hop'[c].agents /\ hop[c].tasks[job] <= hop'[c].tasks[job]
      /\ hop[c].agents \in Int /\ hop'[c].agents \in Int
  <2>1. Base'
    BY NextBase
  <2>2. hop[c].agents \in Versions /\ hop'[c].agents \in Versions'
    BY <2>1 DEF Base, TypeOK
  <2> QED  BY <2>2, HopGrows DEF Versions
<1>2. hand[p].agents # NotRead => hand[p].agents <= hop[c].agents /\ hand[p].agents \in Int
  BY <1>0, HandFacts DEF Base, HandsOK, Versions
<1>3. hand'[p].agents \in {hand[p].agents, NotRead}
      \/ (hand'[p].agents = hop[c].agents /\ hop' = hop)
  BY <1>0, HandStays, HandAfterRefresh DEF ReadAgents, world
<1> QED
  BY <1>0, <1>1, <1>2, <1>3 DEF NoOlder, NextRead

\* The updates and the cache change in two ways only: a refresh sends, the
\* server drains.
LEMMA UpdatesStay ==
  ASSUME Base, [Next]_vars
  PROVE  \/ UNCHANGED <<updates, cache>>
         \/ Drain
         \/ \E q \in Configured : \E js \in SUBSET Jobs :
              /\ hand[q].agents # NotRead /\ hop' = hop /\ cache' = cache
              /\ SendUpdate(q, js)
<1>1. ASSUME NEW q \in Peers, FullRead(q) \/ JobRead(q), ~UNCHANGED <<updates, cache>>
      PROVE  /\ q \in Configured
             /\ hand[q].agents # NotRead /\ hop' = hop /\ cache' = cache
             /\ SendUpdate(q, IF hand[q].what = "full" THEN Live ELSE {hand[q].job})
             /\ (IF hand[q].what = "full" THEN Live ELSE {hand[q].job}) \in SUBSET Jobs
  <2>1. /\ pc[q] = "tasks" /\ cache' = cache /\ hop' = hop
        /\ SendUpdate(q, IF hand[q].what = "full" THEN Live ELSE {hand[q].job})
        /\ (FullRead(q) => hand[q].what = "full") /\ (JobRead(q) => hand[q].what = "jobs")
    BY <1>1 DEF FullRead, JobRead, world
  <2>2. /\ q \in Configured /\ hand[q].agents # NotRead
        /\ (hand[q].what = "jobs" => hand[q].job \in Jobs)
    BY <2>1, HandFacts DEF Base, HandsOK
  <2> QED  BY <1>1, <2>1, <2>2, ScenarioFacts DEF Base
<1> QED
  BY <1>1
  DEF Next, ChangeAgents, ChangeTasks, AdmitMissed, Read, ReadReport, ReadBreak, Connect,
      Watch, StartDiscovery, StartRefresh, StartWait, Discover, HearNext, WaitEnds, ReadAgents,
      Fault, Cut, ConnectFails, DiscoveryFails, RefreshFails, Tick, vars

\* A cluster's only peer reads, sends and shows its answers in their order.
LEMMA NextChain ==
  ASSUME Base, [Next]_vars, NEW p \in Configured, NEW c, c = clusterOf[p], NEW job \in Jobs,
         Sole(p), Chain(p, c, job)
  PROVE  Chain(p, c, job)' /\ NoOlder(cache[c][job], cache[c][job]')
<1> DEFINE next  == NextRead(p, job)
           nextP == NextRead(p, job)'
<1>0. /\ p \in Configured' /\ c = clusterOf[p]' /\ Base' /\ p \in Peers /\ c \in Clusters
  BY ScenarioStays, ScenarioFacts, NextBase DEF Configured, clusterOf, Base
<1>1. /\ cache[c][job] \in Pairs /\ next \in Pairs
      /\ \A i \in About(c, job) : updates[i].cells[job] \in Pairs
      /\ About(c, job) \subseteq 1..Len(updates)
  BY PairTypes
<1>2. /\ cache'[c][job] \in Pairs /\ nextP \in Pairs
  <2>1. PairsOK'
    BY <1>0, PairsEverywhere, PTL
  <2> QED  BY <1>0, <2>1 DEF PairsOK, nextP
<1>3. NoOlder(next, nextP)
  BY NextReadGrows
<1> HIDE DEF next, nextP
<1>4. /\ NoOlder(cache[c][job], next)
      /\ \A i \in About(c, job) :
           /\ NoOlder(cache[c][job], updates[i].cells[job])
           /\ NoOlder(updates[i].cells[job], next)
           /\ \A k \in About(c, job) :
                i < k => NoOlder(updates[i].cells[job], updates[k].cells[job])
  BY DEF Chain, next
<1>5. /\ NoOlder(cache[c][job], nextP)
      /\ \A i \in About(c, job) : NoOlder(updates[i].cells[job], nextP)
      /\ NoOlder(cache[c][job], cache[c][job]) /\ NoOlder(nextP, nextP)
  BY <1>1, <1>2, <1>3, <1>4, NoOlderTransitive
<1>6. updates \in Seq(Updates) /\ Len(updates) \in Nat /\ DOMAIN updates = 1..Len(updates)
  BY LenProperties DEF Base, TypeOK
<1>7. CASE UNCHANGED <<updates, cache>>
  <2>1. About(c, job)' = About(c, job)
    BY <1>7 DEF About
  <2> QED  BY <1>4, <1>5, <1>7, <2>1 DEF Chain, nextP
<1>8. ASSUME NEW q \in Configured, NEW js \in SUBSET Jobs,
             hand[q].agents # NotRead, hop' = hop, cache' = cache, SendUpdate(q, js)
      PROVE  Chain(p, c, job)' /\ NoOlder(cache[c][job], cache[c][job]')
  <2> DEFINE n == Len(updates)
  <2>1. /\ n \in Nat /\ DOMAIN updates' = 1..(n + 1)
        /\ \A i \in 1..n : updates'[i] = updates[i]
        /\ updates'[n + 1].cluster = clusterOf[q]
        /\ updates'[n + 1].cells = [j \in js |-> <<hand[q].agents, hop[clusterOf[q]].tasks[j]>>]
    BY <1>8, SendUpdateFacts, LenProperties
  <2>2. /\ About(c, job)' \subseteq About(c, job) \cup {n + 1}
        /\ \A i \in About(c, job) : i \in 1..n /\ updates'[i] = updates[i]
    BY <1>1, <2>1 DEF About
  <2>3. n + 1 \in About(c, job)' => updates'[n + 1].cells[job] = next
    <3> SUFFICES ASSUME n + 1 \in About(c, job)' PROVE updates'[n + 1].cells[job] = next
      OBVIOUS
    <3>1. job \in js /\ clusterOf[q] = c
      BY <2>1 DEF About
    <3>2. q = p
      BY <3>1 DEF Sole, Configured
    <3> QED  BY <1>8, <2>1, <3>1, <3>2 DEF next, NextRead
  <2>4. cache'[c][job] = cache[c][job]
    BY <1>8
  <2>5. ASSUME NEW i \in About(c, job)'
        PROVE  /\ NoOlder(cache'[c][job], updates'[i].cells[job])
               /\ NoOlder(updates'[i].cells[job], nextP)
               /\ \A k \in About(c, job)' :
                    i < k => NoOlder(updates'[i].cells[job], updates'[k].cells[job])
    <3>1. CASE i = n + 1
      <4>1. \A k \in About(c, job)' : ~(i < k)
        BY <2>1, <2>2, <3>1
      <4> QED  BY <1>3, <1>4, <2>3, <2>4, <3>1, <4>1
    <3>2. CASE i \in About(c, job)
      BY <1>4, <1>5, <2>2, <2>3, <2>4, <3>2
    <3> QED  BY <2>2, <3>1, <3>2
  <2> QED  BY <1>5, <2>4, <2>5 DEF Chain, nextP
<1>9. CASE Drain
  <2> DEFINE n == Len(updates)
             u == Head(updates)
  <2>1. /\ n \in Nat \ {0} /\ DOMAIN updates' = 1..(n - 1)
        /\ \A i \in 1..(n - 1) : updates'[i] = updates[i + 1]
        /\ u = updates[1]
        /\ cache' = cache \/ cache' = [cache EXCEPT ![u.cluster] = With(@, u.cells)]
    BY <1>6, <1>9, HeadTailProperties, LenProperties, EmptySeq DEF Drain
  <2>2. \/ cache'[c][job] = cache[c][job]
        \/ 1 \in About(c, job) /\ cache'[c][job] = updates[1].cells[job]
    <3>1. cache \in [Clusters -> [Jobs -> Cells \cup {Absent}]]
      BY DEF Base, TypeOK
    <3>2. CASE cache' = [cache EXCEPT ![u.cluster] = With(@, u.cells)]
               /\ u.cluster = c /\ job \in DOMAIN u.cells
      BY <1>0, <1>6, <2>1, <3>1, <3>2 DEF With, About
    <3>3. CASE cache' = cache \/ ~(u.cluster = c /\ job \in DOMAIN u.cells)
      BY <1>0, <2>1, <3>1, <3>3 DEF With
    <3> QED  BY <2>1, <3>2, <3>3
  <2>3. \A i \in About(c, job)' :
          i \in Int /\ i >= 1 /\ i + 1 \in About(c, job) /\ updates'[i] = updates[i + 1]
    BY <1>6, <2>1 DEF About
  <2>4. NoOlder(cache'[c][job], nextP) /\ NoOlder(cache[c][job], cache'[c][job])
    BY <1>4, <1>5, <2>2
  <2>5. ASSUME NEW i \in About(c, job)'
        PROVE  /\ NoOlder(cache'[c][job], updates'[i].cells[job])
               /\ NoOlder(updates'[i].cells[job], nextP)
               /\ \A k \in About(c, job)' :
                    i < k => NoOlder(updates'[i].cells[job], updates'[k].cells[job])
    <3>1. /\ i + 1 \in About(c, job) /\ 1 < i + 1 /\ updates'[i] = updates[i + 1]
          /\ \A k \in About(c, job)' :
               /\ k + 1 \in About(c, job) /\ updates'[k] = updates[k + 1]
               /\ i < k => i + 1 < k + 1
      BY <2>3
    <3> QED  BY <1>4, <1>5, <2>2, <3>1
  <2> QED  BY <2>4, <2>5 DEF Chain, nextP
<1> QED  BY <1>7, <1>8, <1>9, UpdatesStay

\* What a cluster's only peer sends stays in order.
LEMMA NextOrdered ==
  ASSUME Base, [Next]_vars, Ordered
  PROVE  Ordered'
<1>0. Configured' = Configured /\ clusterOf' = clusterOf
  BY ScenarioStays DEF Configured, clusterOf
<1> SUFFICES ASSUME NEW p \in Configured, NEW job \in Jobs, Sole(p)'
             PROVE  Chain(p, clusterOf[p], job)'
  BY <1>0 DEF Ordered
<1>1. PICK c \in Clusters : c = clusterOf[p]
  BY ScenarioFacts DEF Base
<1>2. Sole(p) /\ Chain(p, c, job)
  BY <1>0, <1>1 DEF Ordered, Sole
<1>3. Chain(p, c, job)'
  BY <1>1, <1>2, NextChain
<1> QED  BY <1>0, <1>1, <1>3

-----------------------------------------------------------------------------
(* The theorems.                                                           *)

\* Before anything ran nothing is cached, nothing under way and nothing read.
LEMMA InitIInv == Init => IInv
<1> SUFFICES ASSUME Init PROVE IInv
  OBVIOUS
<1>0. Base /\ Watched \subseteq Clusters
  BY InitBase, ScenarioFacts DEF Base
<1>1. PingFollowsBreak
  BY DEF Init, PingFollowsBreak
<1>2. StaleIsNoticed
  BY DEF Init, StaleIsNoticed, Reading, NoHand, Configured
<1>3. NoForgottenChange
  <2>1. \A c \in Watched : \E p \in Peers : clusterOf[p] = c /\ conn[p] # "up"
    BY DEF Init, Watched, Configured
  <2> QED  BY <2>1 DEF NoForgottenChange
<1>4. Ordered
  <2> SUFFICES ASSUME NEW p \in Configured, NEW job \in Jobs
               PROVE  Chain(p, clusterOf[p], job)
    BY DEF Ordered
  <2>1. clusterOf[p] \in Clusters /\ p \in Peers
    BY <1>0, ScenarioFacts DEF Base
  <2>2. /\ cache[clusterOf[p]][job] = <<-1, -1>>
        /\ NextRead(p, job) = <<0, 0>>
        /\ About(clusterOf[p], job) = {}
    BY <2>1 DEF Init, NextRead, About, Absent, NoHand
  <2> QED  BY <2>2 DEF Chain, NoOlder
<1> QED  BY <1>0, <1>1, <1>2, <1>3, <1>4 DEF IInv

\* The layers together: each needs the ones below it before and after the step.
LEMMA NextIInv ==
  ASSUME IInv, [Next]_vars
  PROVE  IInv'
<1>1. Base /\ Base' /\ PingFollowsBreak /\ PingFollowsBreak'
  BY NextBase, NextPing DEF IInv
<1>2. (shortages = 0 => StaleIsNoticed)'
  BY <1>1, NextStale, ScenarioStays DEF IInv
<1>3. NoForgottenChange' /\ Ordered'
  BY <1>1, NextForgotten, NextOrdered DEF IInv
<1> QED  BY <1>1, <1>2, <1>3 DEF IInv

\* The inductive invariant holds in every state.
LEMMA Invariant == Spec => []IInv
<1>1. IInv /\ [Next]_vars => IInv'
  BY NextIInv
<1> QED  BY InitIInv, <1>1, PTL DEF Spec

\* Every variable of the daemon keeps its type: streams stay within what Hop
\* holds for a reader, and the cache holds only versions that the clusters
\* have had.
THEOREM TypeCorrect == Spec => []TypeOK
<1>1. IInv => TypeOK
  BY DEF IInv, Base
<1> QED  BY Invariant, <1>1, PTL

\* Behind every break that the watcher has yet to hear of there is a ping, or
\* the stream has yet to connect: Watcher::lost() may drop the list.
THEOREM PingTheorem == Spec => []PingFollowsBreak
<1>1. IInv => PingFollowsBreak
  BY DEF IInv
<1> QED  BY Invariant, <1>1, PTL

\* No change is forgotten while memory lasts, for any number of peers of a
\* cluster: neither by lost(), refresh_failed(), a full list, a dropped
\* report, nor by a refresh that reads agents and tasks apart.
THEOREM ForgottenTheorem == Spec => []NoForgottenChange
<1>1. IInv => NoForgottenChange
  BY DEF IInv
<1> QED  BY Invariant, <1>1, PTL

\* drain() never takes a cluster with one peer back in time.
THEOREM OrderTheorem == Spec => NeverGoesBack
<1> DEFINE A == \A c \in Clusters, job \in Jobs :
                  Cardinality({p \in Peers : clusterOf[p] = c}) = 1
                    => /\ cache[c][job][1] <= cache'[c][job][1]
                       /\ cache[c][job][2] <= cache'[c][job][2]
<1>1. IInv /\ [Next]_vars => [A]_vars
  <2> SUFFICES ASSUME IInv, [Next]_vars, NEW c \in Clusters, NEW job \in Jobs,
                      Cardinality({p \in Peers : clusterOf[p] = c}) = 1
               PROVE  NoOlder(cache[c][job], cache[c][job]')
    BY DEF NoOlder
  <2> DEFINE S == {p \in Peers : clusterOf[p] = c}
  <2>1. IsFiniteSet(S)
    BY FS_Subset, ScenariosAssumption
  <2>2. PICK p : S = {p}
    BY <2>1, FS_Singleton
  <2>3. p \in Peers /\ clusterOf[p] = c /\ c # Nowhere
    BY <2>2, ScenariosAssumption
  <2>4. p \in Configured /\ Sole(p)
    BY <2>2, <2>3 DEF Configured, Sole
  <2>5. Chain(p, c, job)
    BY <2>3, <2>4 DEF IInv, Ordered
  <2> QED  BY <2>3, <2>4, <2>5, NextChain DEF IInv
<1> QED  BY Invariant, <1>1, PTL DEF Spec, NeverGoesBack
=============================================================================

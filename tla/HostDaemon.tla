------------------------------ MODULE HostDaemon ------------------------------
(***************************************************************************)
(* The daemon of src/src/host.rs: how a change in a Hop cluster reaches    *)
(* the DNS cache.  Each peer is a Hop cluster's API, and has               *)
(*                                                                         *)
(*   - a reader thread (read_events) that owns the event stream, connects  *)
(*     and reconnects, and puts what it hears in the watcher's inbox;      *)
(*   - a watcher thread (watch, refresh) that drives a Watcher (module     *)
(*     WatcherOps), fetches the state and sends updates;                   *)
(*                                                                         *)
(* and one server thread (serve, drain) owns the cache and applies the     *)
(* updates in the order they were sent.                                    *)
(*                                                                         *)
(* Hop itself is not in the repository.  It is here as src/src/host.rs     *)
(* and src/src/watcher.rs use it: a state that changes, a stream that      *)
(* starts with `ping`, reports each change while it is connected and says  *)
(* `status` after it had to drop a report, and requests that read the      *)
(* state at some moment.                                                   *)
(*                                                                         *)
(* Data.  What a job resolves to is a function of the cluster's agents and *)
(* of the job's tasks, so the truth is a version of each, and the cache    *)
(* holds, per job, the pair of versions it was built from.                 *)
(***************************************************************************)
EXTENDS WatcherOps, SequencesExt

CONSTANTS
  Peers,      \* the peers that a command line may name
  Clusters,   \* the names discovery can give
  Scenarios,  \* what is behind the peers, and the bounds: see Scenario
  Alive,      \* the peers whose Hop answers in the end (liveness only)
  WireCap     \* reports that Hop holds for one slow reader

Nowhere == "nowhere"   \* the cluster of a peer that is not configured

\* Which cluster is behind each peer and which jobs the clusters have; and the
\* bounds: changes in the clusters, broken streams and failed requests
\* (faults), and allocations or starts of a thread that fail (shortages).
Scenario == [clusterOf : [Peers -> Clusters \cup {Nowhere}], jobs : SUBSET Jobs,
             changes : Nat, faults : Nat, shortages : Nat]

ASSUME ScenariosAssumption ==
  /\ \A s \in Scenarios :
       /\ DOMAIN s = {"clusterOf", "jobs", "changes", "faults", "shortages"}
       /\ s.clusterOf \in [Peers -> Clusters \cup {Nowhere}]
       /\ s.jobs \subseteq Jobs
       /\ {s.changes, s.faults, s.shortages} \subseteq Nat
  /\ IsFiniteSet(Peers)
  /\ Nowhere \notin Clusters
  /\ Alive \subseteq Peers
  /\ WireCap \in Nat \ {0}

VARIABLES
  scenario, \* one of Scenarios, which stays the same
  hop,      \* per cluster: the version of its agents and of each job's tasks
  conn,     \* per peer, the stream: "none" (no reader yet), "down", "up", or
            \* "cut" (broken, the reader has not met the break yet)
  wire,     \* per peer, the reports between Hop and the reader
  missed,   \* per peer, whether Hop dropped a report it still has to admit
  inbox,    \* per peer, the channel from the reader to the watcher
  w,        \* per peer, the watcher
  pc,       \* per peer, where the watcher thread is
  hand,     \* per peer, the refresh under way
  updates,  \* the channel to the server thread
  cache,    \* the cache
  changes,  \* changes so far
  faults,   \* faults so far
  shortages \* shortages so far

world   == <<scenario, hop, changes>>
stream  == <<conn, wire, missed>>
watcher == <<w, pc, hand>>
trouble == <<faults, shortages>>
vars    == <<world, stream, inbox, watcher, updates, cache, trouble>>

Report(topic, job) == [topic |-> topic, job |-> job]
Ping      == Report("ping", NoName)
Status    == Report("status", NoName)
AgentSeen == Report("agent", NoName)
Broken    == Report("broken", NoName)   \* Heard::Lost

NotRead == -1    \* no answer read yet
NoHand  == [what |-> "none", todo |-> {}, job |-> NoName, agents |-> NotRead, age |-> 0]

clusterOf  == scenario.clusterOf
Live       == scenario.jobs
Configured == {p \in Peers : clusterOf[p] # Nowhere}
Watched    == {clusterOf[p] : p \in Configured}   \* the clusters that have a peer

Absent == <<-1, -1>>   \* not in the cache: older than every version
Truth(c, job) == <<hop[c].agents, hop[c].tasks[job]>>

Init ==
  /\ scenario \in Scenarios
  /\ hop = [c \in Clusters |-> [agents |-> 0, tasks |-> [job \in Jobs |-> 0]]]
  /\ conn = [p \in Peers |-> "none"]
  /\ wire = [p \in Peers |-> <<>>]
  /\ missed = [p \in Peers |-> FALSE]
  /\ inbox = [p \in Peers |-> <<>>]
  /\ w = [p \in Peers |-> NewWatcher]
  /\ pc = [p \in Peers |-> IF p \in Configured THEN "loop" ELSE "stopped"]
  /\ hand = [p \in Peers |-> NoHand]
  /\ updates = <<>>
  /\ cache = [c \in Clusters |-> [job \in Jobs |-> Absent]]
  /\ changes = 0
  /\ faults = 0
  /\ shortages = 0

\* Memory (or a thread) is there, or it is short.
Suffices == UNCHANGED shortages
Short    == shortages < scenario.shortages /\ shortages' = shortages + 1

-----------------------------------------------------------------------------
(* Hop: changes, and the stream's far end.                                 *)

\* The streams of c that are connected report r; one that is full drops it.
Tell(c, r) ==
  LET told == {p \in Peers : clusterOf[p] = c /\ conn[p] = "up"}
      fits == {p \in told : Len(wire[p]) < WireCap}
  IN  /\ wire' = [p \in Peers |-> IF p \in fits THEN Append(wire[p], r) ELSE wire[p]]
      /\ missed' = [p \in Peers |-> missed[p] \/ p \in told \ fits]

ChangeTasks(c, job) ==
  /\ changes < scenario.changes
  /\ hop' = [hop EXCEPT ![c].tasks[job] = @ + 1]
  /\ Tell(c, Report("job", job))
  /\ changes' = changes + 1
  /\ UNCHANGED <<scenario, conn, inbox, watcher, updates, cache, trouble>>

ChangeAgents(c) ==
  /\ changes < scenario.changes
  /\ hop' = [hop EXCEPT ![c].agents = @ + 1]
  /\ Tell(c, AgentSeen)
  /\ changes' = changes + 1
  /\ UNCHANGED <<scenario, conn, inbox, watcher, updates, cache, trouble>>

AdmitMissed(p) ==
  /\ conn[p] = "up" /\ missed[p] /\ Len(wire[p]) < WireCap
  /\ wire' = [wire EXCEPT ![p] = Append(@, Status)]
  /\ missed' = [missed EXCEPT ![p] = FALSE]
  /\ UNCHANGED <<world, conn, inbox, watcher, updates, cache, trouble>>

\* The stream breaks; some of what was on its way may still arrive.
Cut(p) ==
  /\ conn[p] = "up" /\ faults < scenario.faults
  /\ conn' = [conn EXCEPT ![p] = "cut"]
  /\ \E n \in 0..Len(wire[p]) : wire' = [wire EXCEPT ![p] = SubSeq(@, 1, n)]
  /\ missed' = [missed EXCEPT ![p] = FALSE]
  /\ faults' = faults + 1
  /\ UNCHANGED <<world, inbox, watcher, updates, cache, shortages>>

-----------------------------------------------------------------------------
(* The reader thread: read_events, and hoplib's stream under it.           *)

Send(p, r) == inbox' = [inbox EXCEPT ![p] = Append(@, r)]

\* Mutant: the reader takes a ping for a sign of life and keeps it.
ReadReportKeepsPing(p) ==
  /\ conn[p] \in {"up", "cut"} /\ wire[p] # <<>>
  /\ IF Head(wire[p]) = Ping THEN UNCHANGED inbox ELSE Send(p, Head(wire[p]))
  /\ wire' = [wire EXCEPT ![p] = Tail(@)]
  /\ UNCHANGED <<world, conn, missed, watcher, updates, cache, trouble>>

ReadReport(p) ==
  /\ conn[p] \in {"up", "cut"} /\ wire[p] # <<>>
  /\ Send(p, Head(wire[p]))
  /\ wire' = [wire EXCEPT ![p] = Tail(@)]
  /\ UNCHANGED <<world, conn, missed, watcher, updates, cache, trouble>>

ReadBreak(p) ==
  /\ conn[p] = "cut" /\ wire[p] = <<>>
  /\ Send(p, Broken)
  /\ conn' = [conn EXCEPT ![p] = "down"]
  /\ UNCHANGED <<world, wire, missed, watcher, updates, cache, trouble>>

\* After the backoff the stream connects again, or fails to.
Connect(p) ==
  /\ conn[p] = "down"
  /\ conn' = [conn EXCEPT ![p] = "up"]
  /\ wire' = [wire EXCEPT ![p] = <<Ping>>]
  /\ UNCHANGED <<world, missed, inbox, watcher, updates, cache, trouble>>

ConnectFails(p) ==
  /\ conn[p] = "down" /\ faults < scenario.faults
  /\ Send(p, Broken)
  /\ faults' = faults + 1
  /\ UNCHANGED <<world, stream, watcher, updates, cache, shortages>>

-----------------------------------------------------------------------------
(* The watcher thread: watch.  pc is "loop" before next(), "discover" in   *)
(* GET /v1/status, "wait" in recv, "agents" and "tasks" in a refresh before *)
(* it has read the agents and the tasks, and "stopped" after return.       *)

Goto(p, place) == pc' = [pc EXCEPT ![p] = place]

StartDiscovery(p) ==
  /\ pc[p] = "loop" /\ MustDiscover(w[p])
  /\ Goto(p, "discover")
  /\ UNCHANGED <<world, stream, inbox, w, hand, updates, cache, trouble>>

StartRefresh(p) ==
  /\ pc[p] = "loop" /\ MustRefresh(w[p])
  /\ w' = [w EXCEPT ![p] = HandedOut(@)]
  /\ hand' = [hand EXCEPT ![p] = [NoHand EXCEPT !.what = Handed(w[p]), !.todo = w[p].jobs]]
  /\ Goto(p, "agents")
  /\ UNCHANGED <<world, stream, inbox, updates, cache, trouble>>

StartWait(p) ==
  /\ pc[p] = "loop" /\ MustWait(w[p])
  /\ Goto(p, "wait")
  /\ UNCHANGED <<world, stream, inbox, w, hand, updates, cache, trouble>>

\* The name is known and stays known; only now does the reader start.  A
\* name that cannot be copied leaves the watcher as it was; a reader that
\* cannot be started ends the watcher thread.
Discover(p) ==
  /\ pc[p] = "discover"
  /\ \/ /\ Suffices
        /\ w' = [w EXCEPT ![p] = Discovered(@)]
        /\ conn' = [conn EXCEPT ![p] = "down"]
        /\ Goto(p, "loop")
     \/ Short /\ Goto(p, "loop") /\ UNCHANGED <<w, conn>>
     \/ /\ Short
        /\ w' = [w EXCEPT ![p] = Discovered(@)]
        /\ Goto(p, "stopped")
        /\ UNCHANGED conn
  /\ UNCHANGED <<world, wire, missed, inbox, hand, updates, cache, faults>>

\* No answer, or an answer without a name.
DiscoveryFails(p) ==
  /\ pc[p] = "discover" /\ faults < scenario.faults
  /\ w' = [w EXCEPT ![p] = DiscoverFailed(@)]
  /\ Goto(p, "loop")
  /\ faults' = faults + 1
  /\ UNCHANGED <<world, stream, inbox, hand, updates, cache, shortages>>

HearNext(p) ==
  /\ pc[p] = "wait" /\ inbox[p] # <<>>
  /\ LET r == Head(inbox[p])
     IN  \/ /\ Suffices
            /\ w' = [w EXCEPT ![p] =
                 IF r = Broken THEN Lost(@) ELSE Hear(@, r.topic, r.job)]
         \/ /\ r # Broken /\ Copies(w[p], r.topic, r.job) /\ Short
            /\ UNCHANGED w
  /\ inbox' = [inbox EXCEPT ![p] = Tail(@)]
  /\ Goto(p, "loop")
  /\ UNCHANGED <<world, stream, hand, updates, cache, faults>>

WaitEnds(p) ==
  /\ pc[p] = "wait" /\ DeadlineCame(w[p])
  /\ Goto(p, "loop")
  /\ UNCHANGED <<world, stream, inbox, w, hand, updates, cache, trouble>>

-----------------------------------------------------------------------------
(* A refresh: fn refresh.  A full one asks for the agents and then for the *)
(* tasks; a job's status holds both, read by Hop one after the other.      *)

EndRefresh(p) == hand' = [hand EXCEPT ![p] = NoHand] /\ Goto(p, "loop")

ReadAgents(p) ==
  /\ pc[p] = "agents"
  /\ \E job \in IF hand[p].what = "full" THEN {NoName} ELSE hand[p].todo :
       hand' = [hand EXCEPT ![p].agents = hop[clusterOf[p]].agents, ![p].job = job]
  /\ Goto(p, "tasks")
  /\ UNCHANGED <<world, stream, inbox, w, updates, cache, trouble>>

\* An update: Replace when it holds every job, Set when it holds one.
SendUpdate(p, js) ==
  updates' = Append(updates,
    [cluster |-> clusterOf[p],
     cells |-> [job \in js |-> <<hand[p].agents, hop[clusterOf[p]].tasks[job]>>]])

FullRead(p) ==
  /\ pc[p] = "tasks" /\ hand[p].what = "full"
  /\ \/ Suffices /\ SendUpdate(p, Live)
     \/ Short /\ UNCHANGED updates       \* rebuild failed: only logged
  /\ EndRefresh(p)
  /\ UNCHANGED <<world, stream, inbox, w, cache, faults>>

JobRead(p) ==
  /\ pc[p] = "tasks" /\ hand[p].what = "jobs"
  /\ SendUpdate(p, {hand[p].job})
  /\ IF hand[p].todo = {hand[p].job}
     THEN EndRefresh(p)
     ELSE /\ hand' = [hand EXCEPT ![p].todo = @ \ {hand[p].job},
                                  ![p].job = NoName, ![p].agents = NotRead]
          /\ Goto(p, "agents")
  /\ UNCHANGED <<world, stream, inbox, w, cache, trouble>>

\* A request failed (or memory ran out for one job).  The time reported is
\* the one at which the refresh began.
RefreshFails(p) ==
  /\ pc[p] \in {"agents", "tasks"} /\ faults < scenario.faults
  /\ w' = [w EXCEPT ![p] = RefreshFailed(@, hand[p].what, hand[p].age)]
  /\ EndRefresh(p)
  /\ faults' = faults + 1
  /\ UNCHANGED <<world, stream, inbox, updates, cache, shortages>>

-----------------------------------------------------------------------------
(* The server thread: drain.  Queries are answered between two drains, by  *)
(* the same thread, so they see the cache between two of these steps.      *)

With(row, cells) ==
  [job \in Jobs |-> IF job \in DOMAIN cells THEN cells[job] ELSE row[job]]

\* Mutant: the newest update goes first.
DrainNewest ==
  /\ updates # <<>>
  /\ updates' = Front(updates)
  /\ LET u == Last(updates)
     IN  \/ Suffices /\ cache' = [cache EXCEPT ![u.cluster] = With(@, u.cells)]
         \/ Short /\ UNCHANGED cache
  /\ UNCHANGED <<world, stream, inbox, watcher, faults>>

Drain ==
  /\ updates # <<>>
  /\ updates' = Tail(updates)
  /\ LET u == Head(updates)
     IN  \/ Suffices /\ cache' = [cache EXCEPT ![u.cluster] = With(@, u.cells)]
         \/ Short /\ UNCHANGED cache     \* update dropped
  /\ UNCHANGED <<world, stream, inbox, watcher, faults>>

-----------------------------------------------------------------------------
\* The clock of every watcher thread.
Tick ==
  /\ w' = [p \in Peers |-> Elapse(w[p])]
  /\ hand' = [p \in Peers |->
       IF pc[p] \in {"agents", "tasks"} /\ hand[p].age < Interval
       THEN [hand[p] EXCEPT !.age = @ + 1]
       ELSE hand[p]]
  /\ UNCHANGED <<world, stream, inbox, pc, updates, cache, trouble>>

Watch(p) ==
  \/ StartDiscovery(p) \/ StartRefresh(p) \/ StartWait(p)
  \/ Discover(p) \/ HearNext(p) \/ WaitEnds(p)
  \/ ReadAgents(p) \/ FullRead(p) \/ JobRead(p)

Read(p) == ReadReport(p) \/ ReadBreak(p) \/ Connect(p)

Fault(p) == Cut(p) \/ ConnectFails(p) \/ DiscoveryFails(p) \/ RefreshFails(p)

Next ==
  \/ \E c \in Watched : ChangeAgents(c) \/ \E job \in Live : ChangeTasks(c, job)
  \/ \E p \in Peers : AdmitMissed(p) \/ Read(p) \/ Watch(p) \/ Fault(p)
  \/ Drain
  \/ Tick

\* For a peer that is alive both threads are scheduled, every request and
\* connection attempt ends, and Hop admits a dropped report; another peer may
\* hang at any point.  Time passes, and the server thread waits for a query
\* at most DRAIN_EVERY before it drains.
Fairness ==
  /\ \A p \in Alive : WF_vars(Watch(p)) /\ WF_vars(Read(p)) /\ WF_vars(AdmitMissed(p))
  /\ WF_vars(Drain)
  /\ WF_vars(Tick)

Spec == Init /\ [][Next]_vars /\ Fairness

-----------------------------------------------------------------------------
(* Properties *)

Versions == 0..scenario.changes
Cells    == Versions \X Versions
Reports  == {Ping, Status, AgentSeen, Broken} \cup {Report("job", job) : job \in Jobs}
Updates  == [cluster : Clusters, cells : UNION {[js -> Cells] : js \in SUBSET Jobs}]

\* Every variable keeps its type.
TypeOK ==
  /\ scenario \in Scenarios
  /\ hop \in [Clusters -> [agents : Versions, tasks : [Jobs -> Versions]]]
  /\ conn \in [Peers -> {"none", "down", "up", "cut"}]
  /\ wire \in [Peers -> Seq(Reports \ {Broken})]
  /\ \A p \in Peers : Len(wire[p]) <= WireCap
  /\ missed \in [Peers -> BOOLEAN]
  /\ inbox \in [Peers -> Seq(Reports)]
  /\ w \in [Peers -> WatcherState]
  /\ pc \in [Peers -> {"loop", "discover", "wait", "agents", "tasks", "stopped"}]
  /\ hand \in [Peers -> [what : {"none", "full", "jobs"}, todo : SUBSET Jobs,
                         job : Jobs \cup {NoName}, agents : Versions \cup {NotRead},
                         age : Ticks]]
  /\ updates \in Seq(Updates)
  /\ cache \in [Clusters -> [Jobs -> Cells \cup {Absent}]]
  /\ changes \in Versions
  /\ faults \in 0..scenario.faults
  /\ shortages \in 0..scenario.shortages

\* What the cache will hold of a job once the updates on their way are in.
Coming(c, job) ==
  LET about == {i \in DOMAIN updates :
                  updates[i].cluster = c /\ job \in DOMAIN updates[i].cells}
  IN  IF about = {} THEN cache[c][job] ELSE updates[Max(about)].cells[job]

\* A report on its way to the watcher that will make it fetch the job.
OnItsWay(p, job) ==
  \/ missed[p]
  \/ \E q \in {wire[p], inbox[p]} : \E i \in DOMAIN q :
       q[i] \in {Ping, Status, AgentSeen, Report("job", job)}

\* The job is on the watcher's list.
Listed(p, job) == w[p].full \/ job \in w[p].jobs

\* The refresh under way has yet to read the job, and the agents it has read
\* are still the cluster's.
BeingRead(p, job) ==
  /\ hand[p].what = "full" \/ job \in hand[p].todo
  /\ hand[p].agents \in {NotRead, hop[clusterOf[p]].agents}

\* No change is ever forgotten: what the cache will hold of a job is current,
\* or some peer of the cluster will still fetch it: its stream is to connect
\* (and will say ping), a report is on its way, the job is listed, or it is
\* being read.  A broken stream drops the list, a failed refresh replaces it,
\* a full list overflows, reports are dropped, the agents and the tasks are
\* read apart: none of it loses a change.  Running out of memory may.
NoForgottenChange ==
  shortages = 0 => \A c \in Watched, job \in Live :
    \/ Coming(c, job) = Truth(c, job)
    \/ \E p \in Peers :
         /\ clusterOf[p] = c
         /\ \/ conn[p] # "up"
            \/ OnItsWay(p, job)
            \/ Listed(p, job)
            \/ BeingRead(p, job)

\* Behind every break the watcher has yet to hear of, a new ping follows, so
\* dropping the list loses nothing: lost() relies on it.
PingFollowsBreak ==
  \A p \in Peers : \A i \in DOMAIN inbox[p] :
    inbox[p][i] = Broken =>
      \/ conn[p] \in {"none", "down", "cut"}
      \/ \E k \in DOMAIN inbox[p] : k > i /\ inbox[p][k] = Ping
      \/ \E k \in DOMAIN wire[p] : wire[p][k] = Ping

\* A cluster with one peer is never shown going back in time: no update on
\* its way overtakes another, and no refresh reads older state than the last.
NeverGoesBack ==
  [][\A c \in Clusters, job \in Jobs :
       Cardinality({p \in Peers : clusterOf[p] = c}) = 1
         => /\ cache[c][job][1] <= cache'[c][job][1]
            /\ cache[c][job][2] <= cache'[c][job][2]]_vars

\* Once the clusters and the network come to rest, the cache shows the truth
\* of every cluster whose peers are alive, and keeps showing it: no other
\* peer's silence holds it up.  (Memory must not have run out.)
Converges ==
  \/ <>(shortages > 0)
  \/ <>[](\A c \in Watched, job \in Live :
           (\A p \in Peers : clusterOf[p] = c => p \in Alive)
             => cache[c][job] = Truth(c, job))

\* A full refresh that ends has sent the cluster's view or is pending again:
\* nothing that the watcher crossed off its list is dropped on the way.
FullEndsSentOrPending ==
  [][\A p \in Peers :
       hand[p].what = "full" /\ hand'[p].what = "none"
         => updates' # updates \/ w'[p].full]_vars
=============================================================================

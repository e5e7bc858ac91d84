# hopdns in TLA+

hopdns is a small DNS server for Hop clusters: it watches one or more clusters
(peers) through their HTTP API and answers `<service>.<cluster>.<domain>` and
`<service>.<domain>` with the addresses of running tasks. The modules beside
this file model it, TLC checks them on small instances, and the TLA+ proof
system proves the safety properties (of the watcher, the host daemon, the
resident's mailboxes, the cluster view, the server with its cache, the answer's
size, the reader of names and the start-up) for every value of the constants;
what it cannot prove is listed below. Line numbers are those of the sources;
`PROJECT.json` maps every definition to its lines.

## The system

| part | source | state it keeps | operations |
|---|---|---|---|
| watcher | `src/watcher.rs` | cluster name, retry time, pending list (`full`, `jobs`) and its deadline | `next`, `discovered`, `discover_failed`, `event`, `lost`, `refreshed_*`, `refresh_failed` |
| watcher thread | `src/host.rs` `watch`, `refresh` | a watcher, the refresh under way | asks `next()`, does it, reports the outcome |
| reader thread | `src/host.rs` `read_events` | the event stream of one peer | connects again for ever, passes on events and breaks |
| server thread | `src/host.rs` `serve`, `drain` | the cache | applies updates between two questions, answers |
| cluster view | `src/watcher.rs` `build_jobs`, `build_job` | none | agents and tasks to addresses per job |
| cache | `src/cache.rs`, `src/table.rs` | per cluster, a sorted table of jobs with their addresses | `set`, `update`, `clear`, `merged`, `has_*` |
| server | `src/server.rs` | domain, CNAME table | `handle`: one question, one answer |
| CNAME table | `src/cnames.rs` | exact names and stars | `new`, `lookup`, `zones`, `zone_of` |
| wire | `src/wire.rs` | the answer being built | `parse_query`, the readers of names, `Reply`, decoder |
| configuration | `src/config.rs` | none | flags, peers and their URLs, config file |
| start-up | `src/bin/hopdns.rs`, `Daemon::start` | flags, tables | command line and file to a daemon that serves |
| HopOS resident | `src/bin/hopdns-hopos.rs` | bounded mailboxes | environment to the same loops, as tasks of one executor |

How they interact: a reader puts what it hears in its watcher's channel; the
watcher thread takes from it while it waits, fetches state over HTTP, and sends
an `Update` (one job's addresses, or a whole cluster) to the server thread,
which is the only one to touch the cache. Nothing is shared and nothing is
persisted: the cache is derived from the clusters.

What is hard here:

- **What may be dropped.** The watcher drops its list when the stream breaks,
  replaces it when a refresh fails and when it overflows, and hands it out
  before anything was fetched. Each is right only because of something another
  part does: a break is always followed by a `ping`, a failure makes everything
  pending again.
- **Moments.** The agents and the tasks are read by two requests, and the
  cluster moves between them; the times given to the watcher are read at one
  moment and used at another.
- **Interleavings.** Three threads per peer, several peers, two of which may
  lead to one cluster, and one that may hang.
- **Full against partial.** A view rebuilt in one go must agree with one
  repaired job by job.
- **Answers that deny.** NXDOMAIN denies everything below a name; an empty
  answer needs a SOA; both are cached by resolvers.
- **Bytes from outside.** Names that point at each other, records announced and
  not there, answers sent as questions.
- **Text under several readers.** A quote, a `#`, an `@` or a flag means
  something else depending on what stands before it, and more than one function
  looks for it.
- **Limits.** 512 bytes, 1232 bytes, the OPT record that is added last, names
  of 255 bytes, 32 pending jobs, 75 addresses.

## The modules

| module | what it models |
|---|---|
| `WatcherOps` | the methods of `Watcher` as operators on its record |
| `Watcher` | one watcher and its driver loop in a world that may do anything |
| `RefreshPlan` | the abstract promise of a watcher: a reported job stays owed until its state is sent or the stream breaks |
| `WatcherOpsProofs` | the lemmas about the methods of `Watcher`, used by the next and by `HostDaemonProofs` |
| `WatcherProofs` | the theorems about `Watcher` |
| `HostDaemon` | clusters, streams, reader, watcher and server threads, the cache |
| `HostDaemonProofs` | the theorems about `HostDaemon` |
| `Resident` | the HopOS resident's tasks and their bounded mailboxes |
| `ResidentProofs` | the theorems about `Resident` |
| `Channels` | what a mailbox promises: unbounded channels, one per sender, in order |
| `ClusterView` | `build_jobs` and `build_job`, and the cluster's row in the cache |
| `ClusterViewProofs` | the theorems about `ClusterView` |
| `Table` | the sorted rows of `src/table.rs`, with what `binary_search` promises |
| `ClusterMap` | what the cache promises: a map from clusters and jobs to lists |
| `AnswerSizes` | the lengths of a message, of what an asker accepts and of each record |
| `Query` | `parse_query` and `find_opt`: from a datagram to a question, a bare answer or nothing |
| `Server` | `handle`: every kind of datagram and name, over the CNAME table and the cache |
| `ServerProofs` | the theorems about `Server`, `Table` and `Query` |
| `Reply` | the sizes of an answer's records against its limit |
| `NameWalk` | `read_name` turn by turn, beside `skip_name`, `skip_plain_name` and `name_text` |
| `WireProofs` | the theorems about `Reply` and `NameWalk` |
| `ConfigText` | `strip_comment`, `split_key`, `unquote`, `key_of`, `fqdn` over characters |
| `PeerUrl` | `Peer::parse`, `with_host_alias`, `peer_list` over characters |
| `StartUp` | from the command line, or the resident's environment, to a daemon that serves |
| `StartUpProofs` | the theorems about `StartUp` |
| `MC...` | small instances for TLC, one module for each of the above that has a run |

`Watcher` and `HostDaemon` run the same `WatcherOps`: the first under an
arbitrary world (for the proofs), the second between a cluster and the cache
(for what the whole daemon promises). `Server` decides what is said, and
`Reply` writes any records one by one, each with its bytes; both count in
`AnswerSizes`, so the first too knows what fits and what does not. `Server` runs
`Query` on what arrives and keeps its cache in `Table`s. `StartUp` runs `PeerUrl` and `ConfigText`, and ends where
`HostDaemon` and `Resident` begin: with a list of peers that have a watcher.

### State and actions against the code

`Watcher`: `w` is the struct, except that an instant is held as the ticks left
until it (the code only compares instants with `now`), so `Tick` moves the
deadlines and an instant that has come stays at 0. The list of jobs is a set:
it has no duplicates, and its order is only the order of requests. `pc` and
`hand` are the driver's position and the refresh under way, with its age, for
`host.rs:288` evaluates `now()` before the requests and `hopdns-hopos.rs:399`
after the failure: `RefreshFails(age)` allows both. `sent` is what the last step
sent; only the refinement reads it. On HopOS the reader starts before the name is
known, so events may precede discovery here; in `HostDaemon` the reader starts
after it, as in `host.rs`. A discovery ends in three ways: a name, no name (and
a wait of `RECONNECT`), or a name that there is no memory to copy, which leaves
the watcher as it was (`watcher.rs:249`).

`HostDaemon`: what a job resolves to is a function of its cluster's agents and
the job's tasks, so the truth is a version of each and a cell of the cache is
the pair of versions it was built from. `wire` is what is between Hop and the
reader, `inbox` the channel to the watcher, `updates` the one to the server
thread. Hop is not in the repository; `ChangeTasks`, `ChangeAgents`, `Tell`,
`AdmitMissed`, `Cut` and `Connect` are what the code takes for granted of it: a
stream opens with `ping`, reports while it is connected, and says `status` after
it had to drop a report. `Short` marks each place where running out of memory
(or of threads) is handled: an unread cluster name, a reader that does not
start, a dropped event, a rebuild that is only logged, a dropped update.
A scenario says which peers there are, which clusters they lead to and how much
may happen; `Init` chooses one, so one run covers the peer alone and two peers.

`Resident`: one executor runs the tasks, so a step is what a task does between
two awaits. `post` is two actions, the attempt and the end of the 10 ms sleep;
between them the task holds its message. What the watcher does with a report is
`Watcher`; here a report or a deadline may start a refresh, and a refresh makes
any number of updates. `started` is chosen at the start: a reader may run
without its watcher (the second `spawn` failed, or `Watcher::new` did). An
update counts as applied when the server has taken it, also if memory then runs
out in `apply`.

`ClusterView`: `view` is the cluster's row; `dirty` names the jobs whose last
change has not been read yet, so the property speaks about settled jobs without
fixing an order of events and refreshes. Here a refresh reads everything at one
moment; the two moments are in `HostDaemon`.

`Server`: a name is a sequence of labels, so `in_zone`, the walk over the
parents and `split_once('.')` become suffixes and heads. `cache` is a table of
tables as in the code: rows sorted by the place of their key in `Order`, so a
row in the wrong place is not found. A datagram is a record of what
`parse_query` looks at, in the order it looks; a record behind the question is
an OPT, another or a broken one, and `count` may announce more than are there.
Lengths on the wire are given (`NameLen`, `TargetLen`), and from them `Room`
has the bytes for records, as `Reply::start` leaves them. A CNAME whose target
cannot be written or does not fit, and a SOA that does not, make a SERVFAIL
(`Alias`, `Negative`), as `handle` does of every error of `answer`. `answer`
holds the datagram, the header written for its answer (`HeadOf`, bit by bit as
`Reply::bare` composes it) and what it was told; `HandleOf` is a pure operator,
which lets a property ask what another datagram would have been told at the same
moment. `SendTo` may fail; nothing changes.

`NameWalk`: one action per branch of the loop of `read_name`; `end` is the
`Option` that the first pointer sets. A message is any sequence of bytes. The
text counts bytes: one from 128 on becomes a `char` that takes two. The readers
that keep no text are functions of the message.

`StartUp`: one step per argument, per line and per peer, so that every early
return is one. What the writer of a text means by it (`is`, `key`, `value` of a
line, `Urls`, `asked`) stands beside the text and only the properties look at
it: the code has to find it again among quotes, colons and `@`s. `stray` says of
a line that a quote in it stands for itself (escaped in double quotes, or in bare
text); a line with one and a `#` is `Tangled`, and may be misread. `exit` is the
exit code with the argument, line or peer it blames. `short` marks where memory
or a client was short and the code does not say so: `unquote()` without memory
blames the line, the resident skips the peer. Which texts are an address or a
port is a constant.

`Reply`: one action per method; the lengths of question, zone, target and offer
are chosen at `Start`, and the arithmetic is the code's. A bare answer
(FORMERR, NOTIMP) has no question.

## What is checked

| run | instance | shows |
|---|---|---|
| `MCWatcher` | 3 jobs, list of 2, Debounce 2, Interval 3 | the list and its deadline belong together, nothing is pending during a refresh, a storm postpones nothing, a pending refresh is handed out, a watcher without a name asks for it again and again, `RefreshPlan` is implemented |
| `MCHostDaemon` | 1 peer with 2 jobs, list of 1, wire of 1, 2 changes, 2 faults, 1 shortage; and 2 peers of one cluster or of two with 1 job, 1 change, 1 fault, of which only the first is fair | no change is forgotten, a ping follows every break, the cache never goes back, and it converges; a hanging peer holds up nobody else |
| `MCResident` | 2 peers, each with both tasks, the reader alone or none; inbox of 1, updates of 2, 2 reports and 2 updates each, 1 question | the bounded mailboxes implement `Channels`, the tasks never wait for each other for ever |
| `MCClusterView` | 2 jobs, 2 agents (one the own node), 1 task each, a pid that is a slot and one that is not | incremental and full refreshes agree with a rebuild from scratch |
| `MCServer` | 2 clusters, one with a dot in its name, jobs `web` and `prod` (also a cluster), 2 stars, 6 static names (one above the domain, one whose target cannot be written, one too long to fit), lists of 40; 22 names; questions of every type and class, 15 with records behind them, 10 that are no question | NXDOMAIN hides no service, existence ignores type and room, SOA exactly on negatives, the merged answer up to the offer, the nearest CNAME or SERVFAIL, no answer to an answer, and the cache implements `ClusterMap` |
| `MCReply` | lengths on both sides of every limit | limit, OPT record, the row of `write_merged`, the SOA of short zones |
| `MCNameWalk` | every message of up to 5 bytes of five kinds, and of 6 of four; names of at most 4 | the reader ends inside the message, every turn brings it nearer to its end, it ends where `skip_name` does and takes what `parse_query` takes |
| `MCStartUp` | command lines of up to 3 arguments, files of up to 3 lines, values of up to 3 characters in every quoting, URLs of every make, environments of up to 3 peers with 2 mailboxes | every URL and list of peers, and every line that is not tangled, is read as meant, the daemon serves what was asked, an exit blames the first thing that is wrong, the tables hold what the file means |
| `MCWatcherStale`, `MCHostRebuild`, `MCClusterViewKnown`, `MCServerDots` | as the runs above, some with fewer inputs; `MCServerDots` without static names | the disagreements below |

The bounds are the smallest at which the cases happen: a list of one overflows
with two jobs and a list of two with three; a wire of one drops reports; two
faults allow a broken stream followed by a failed connection or refresh; two
changes allow one between the reading of the agents and of the tasks while
another is listed; Debounce below Interval keeps the two waits apart. In `MCReply` the
questions, zones and offers sit at, just below and just above the values where
a comparison in the code turns. In `MCNameWalk` five bytes hold two labels and a
pointer into either of them, or two pointers in a chain, and names of four bytes
end a loop of pointers after two rounds. In `MCServer` two lists of 40 that share five addresses make a
union of 75: a message of 512 bytes cuts one list, one of 1232 bytes the union
but no list; and a zone of 184 bytes and a target of 255 fit in the larger
message only. In `MCStartUp` two peers and a third argument put a flag
before and behind what it applies to; two arguments can also be a flag and its
value; three characters hold a quote with something on both sides; a third peer
meets the resident's two mailboxes.

Safety is checked at every state; the `changes`, `faults` and
`shortages` of a scenario are bounds of the model, not of the code. `NoForgottenChange` and `Converges`
are stated for behaviours in which memory sufficed: the code logs and drops
otherwise, as are the exactness of `BlamesFirst` and of the number of watchers in
`ServesAsAsked`. Deadlock checking is off in three runs, where the system does
end: `MCResident` (no peer started and its question asked), `MCNameWalk` (the
name has been read) and `MCStartUp` (the daemon has left, or serves). Elsewhere time always
passes, or the server takes the next datagram. In `MCResident` a second report meets a full
inbox, and four updates of two peers meet a mailbox of two.

### Fairness

`Watcher` assumes that the driver's thread runs (`WF` of taking the next action
and of noticing a deadline) and that time passes; it does not assume that a
request ends, so `PendingIsServed` only promises the hand-out, and
`NamelessIsAsked` that a request for the name is made again once the last has
ended. `HostDaemon`
assumes for the peers in `Alive` that both threads run and that their requests
and connection attempts end, in success or, within the bound, in failure (the
HTTP client has time limits), and that Hop admits dropped reports; the server
thread drains because its socket has a read timeout of `DRAIN_EVERY`. Nothing
is assumed of other peers. `Converges` speaks of clusters all of whose peers
are alive: a peer of the same cluster that hangs between two reads may put an
old view over a new one much later. `Resident` assumes that
the executor polls every task that is awake, that sleeps and requests end and
that `select` takes a message that is there before a deadline that has come
(each deadline lies ahead when it is set, so the mailbox is polled in between).
Questions are finite (`MaxQueries`): whether an endless stream of them keeps the
updates waiting is up to the external `select`, and nothing is claimed of it.
`NameWalk` assumes that the loop goes on (`WF` of its next step): it calls
nothing that could block. `Server`, `Reply`, `ClusterView` and `StartUp` have
safety properties only and no fairness.

### Disagreements found

Four runs expect a violation; `PROJECT.json` quotes the lines.

- `MCWatcherStale` (`FailedFullWaits`): a full refresh that fails after five
  seconds or more is tried again at once, since the time reported is the one
  before the requests.
- `MCHostRebuild` (`FullEndsSentOrPending`): a rebuild that runs out of memory
  is logged and not tried again.
- `MCClusterViewKnown` (`ListedIsKnown`): a job whose tasks all stopped is known
  after a job refresh and unknown after a full one, so the same state is NOERROR
  or NXDOMAIN.
- `MCServerDots` (`NxdomainMeansNothingBelow`): nothing limits the name that
  `/v1/status` gives a cluster to one label (`watcher.rs:242-250`), and `service()`
  splits a name at its first dot (`server.rs:160`). With a cluster `eu.prod` the
  name `web.eu.prod.hop.local` is answered, while `eu.prod.hop.local` and
  `prod.hop.local`, above it, are NXDOMAIN, which the module's own comment on
  intermediate labels excludes. The parent of a static CNAME or of a star is
  NXDOMAIN in the same way. `NxdomainHidesNoService` is the part that holds.

Three more places where the code does otherwise than a comment or the
repository's README says are part of the models. They have no run of their own:
the properties state the condition under which the code keeps the promise.

- A cluster name that there is no memory to copy sets no retry time
  (`watcher.rs:249`), so `/v1/status` is asked again at once, against
  `watcher.rs:50-51`. It is the third outcome of `EndDiscovery`.
  `NamelessIsAsked` is what holds in every case: the peer is asked again, for ever,
  until its name is known.
- The SOA of a zone of z bytes takes 3z + 44, so for a zone beyond 62 bytes a known
  name without records may be SERVFAIL for an asker without EDNS
  (`server.rs:121-123`), against the table at line 114 of the repository's README.
  `ShortZoneHasSoa` and `RcodeIgnoresType` state the sharp bound.
- `strip_comment()` does not know an escaped double quote (`config.rs:308`), so a
  `#` after a space behind one cuts the value and the file is refused, against
  `config.rs:301-302` and `:346`. Likewise a bare apostrophe keeps the comment behind
  it in the value. `ReadAsMeant` holds of every line without both (`Tangled`), and
  `BlamesFirst` and `TablesAsWritten` of every file without such a line (`Clear`).

Limits rather than disagreements, seen while modelling and proving:

- A static name above the domain, say under `local` beside `hop.local`, makes a zone
  of its own that is NXDOMAIN at its apex and wherever it has no name, the labels
  between it and the domain included (`server.rs:144-146`). `NxdomainHidesNoService`
  is about names within the domain.
- `put_soa_name()` compares the zone alone with `NAME_MAX`, so the SOA of a zone
  of 245 to 248 bytes names a `hostmaster.<zone>` of more than 255 (`wire.rs:506`).
- `unquote()` without memory gives no value, and its line is blamed.
- In `read_name` a byte from 128 on weighs two, so it may refuse a name that
  `skip_plain_name` takes; `PlainIsRead` says so.
- A bad peer of the resident still takes one of its `MAX_PEERS` mailboxes.

## What is proved

Every theorem holds for every value of the constants that satisfies the named
`ASSUME`s of its module; TLC evaluates those on every run.

`WatcherProofs`, for every set of jobs, every list length and all times with
0 < Debounce <= Interval: type correctness and the three other invariants
(`TypeCorrect`, `PendingTheorem`, `ListTheorem`, `InFlightTheorem`), an action
property (`StormTheorem`) and the refinement of
`RefreshPlan` (`PlanTheorem`). The argument: `WatcherOK` says of the record that
it is typed, its list finite and within its bound and empty beside `full`, and
that it has a deadline exactly when something is pending; one lemma per method
(`WatcherOpsProofs`) shows that the method keeps it. `IInv` adds
`NothingPendingInFlight`: without it, `refresh_failed` could meet a pending
deadline, and its early retry would contradict both `StormNeverPostpones` and
the plan. For the refinement, `Owed` counts `full` as every job, `OwedAfter`
says what each method does to it, and each action is a `Note`, `Take`,
`Publish`, `Fail` or `Lose`.

`HostDaemonProofs`, for every finite set of peers, however they share clusters,
and any number of changes, faults and shortages: `TypeCorrect`, `PingTheorem`,
`ForgottenTheorem` and the action property `OrderTheorem`. The invariant is
built in layers, each of which needs those before it:

1. `Base`: the types, `WatcherOK` of every watcher, and a hand that fits the
   place of its thread (an unread answer before the agents, a job of the list
   after them), with versions the clusters have reached.
2. `PingFollowsBreak`, from which `lost()` may drop a list.
3. `NoForgottenChange` with `StaleIsNoticed`. The property alone is not
   inductive: a refresh whose agents are already out of date still ends with an
   update that holds them, so it must be known at that moment that a report of
   the newer agents is on its way or that a refresh of the job is pending.
   `Noticed` is that, and the two are shown together: a change of the cluster
   makes every job it concerns noticed; a step keeps a job noticed until its
   refresh is in hand; and a refresh that ends either sends the truth or leaves
   the job noticed.
4. `Ordered`: what is cached of a cluster with one peer, what is under way in
   the order of the channel, and what the refresh in hand will read make a chain
   of versions that only grow. `NeverGoesBack` is its first link.

Both invariants about freshness are conditional on memory (`shortages = 0`), as
the code is; the types, the ping and the order are not.

`ResidentProofs`, for every set of peers, every length of the mailboxes and every
number of messages: `TypeCorrect`, and both refinements of `Channels`:
`ReportsTheorem` for the inboxes and `UpdatesTheorem` for the one mailbox that
all watchers share, read as one channel per watcher. The mapping appends to a
mailbox the message that its sender holds while `post` sleeps, so an attempt
that fails is a stutter and one that succeeds moves nothing. For the
types to be inductive `Functions` names the domains and `Holders` says that who
holds a message has made one.
`From`, which picks one sender's messages out of a mailbox, is a recursive
function; what it does to an appended and to a removed message is shown by
induction over the positions, said of a set (`Induct`).

`ClusterViewProofs`, for every set of jobs, agents, pids and tasks:
`TypeCorrect`, and `ExactTheorem`. The invariant compares, for every settled
job, the row with what runs; `BuiltExactly` says that `build_job` gives just
that in any one state, and `OtherJobs` that a job whose tasks and agents a
change does not touch stays settled.

`ServerProofs`, for every domain, CNAME table, set of clusters, jobs and lists,
and every datagram, eight theorems. First, about `Table` with what
`binary_search` promises: in a sorted table a key has one row (`OneRow`), `insert`
and `remove` keep it sorted (`InsertTable`, `RemoveTable`) and change at one key
the map it stands for (`MapInsert`, `MapRemove`). `CacheTheorem` follows one
operation at a time: the cache, a table of tables, implements `ClusterMap`. The
invariant is `CacheOK` (such tables) and `AnswerOK` (the answer is `HandleOf` its
datagram), so each property of an answer is shown for any datagram and any
table: `TypeCorrect`, `EchoTheorem` (the header that `HeadOf` composes, read by
`ParseQuery`), `RcodeTheorem` (a SOA of a zone of at most 62 bytes fits in every
room that a question leaves: `RoomIs`, `RcodeIs`), `UnionTheorem` (duplicates go, order and room stay: `FlattenIs`,
`KeepsAll`, `FirstFitIs`), `SoaTheorem` and `CnameTheorem` (the suffixes of a
name are nested, so a nearest one exists: `SuffixesNest`, `Longest`).
`NxdomainTheorem` is about names within the domain and services at most two
labels below it, and holds whatever clusters are called and whatever the CNAME
table holds: who asks for the label between a service and the domain asks for a
cluster that is known.

`WireProofs`, about `Reply`, for every buffer of at least 512 bytes and every
set of legal lengths: `Invariant` (of `ReplyIInv`), and from it `LimitTheorem`,
`CountTheorem`, `EdnsTheorem`, `RowTheorem` and `SoaTheorem`. The invariant keeps the room for the OPT record
while the answer is open and, with `Counted`, ties the length to the records
written (`CountTheorem`, which no run checks of its own); the row of
`write_merged` suffices because 16 times the number of answers is part of that
length.

`WireProofs`, about `NameWalk`, for every set of messages and every `NameMax`:
`Inside` (the loop stays in the message, the text in its buffer) and `Descending` (each turn
makes the text longer or goes back). `TypeOK` is inductive: a label is taken
only when its bytes are there and its text fits, a pointer only when it points
back (`Bytes`, `LongerIsNat`). `Descends` follows from it one action at a time;
with `length` at most `NameMax` it is the measure by which the loop ends, but the
step from there to `Terminates` is liveness and stays with TLC.
`SameEndTheorem` and `PlainTheorem` set the loop beside the other readers, which
are recursive functions of the message. What such a function computes is not to
be had by induction on an operator, so each is first shown to obey its equation:
a function that does exists (`FollowsExists`, one rank of positions at a time, by
induction over a set, `Induct`), so `CHOOSE` takes one (`SkipNameIs`, `PlainIs`,
`TextIs`). The invariants say what holds between two turns: before the first
pointer `skip_name` from the present position ends where it does from the start
(`EndOK`); in a plain name the text is as long as the bytes read, and
`skip_plain_name` and `name_text` come by the present position with that text
(`WalkOK`). `PlainBounds` and `PlainTextFits` go through the positions from the
last one back: the limit on the whole name is what makes every label fit.

`StartUpProofs`, for every command line, file and environment: `BlamesTheorem`,
`TablesTheorem` and `ServesTheorem`, each under `[]ReadAsMeant`. What a text
means stands in the constants of the model (`is`, `key`, `value`, `Urls`,
`asked`), so no theorem can grant that the code finds it: `ReadAsMeant` says so
of every text but a tangled line,
one text at a time, and TLC checks it over values in every quoting and URLs of
every make. The theorems start there and show, for lists of any length, that
the whole then is right (of a file, where it has no tangled line). Only the steps that read a line or a peer use the
condition; those that read arguments do not.

- `BlameInv`: `next` stands at a flag, never at the value of one (`FlagPlacesIs`
  gives the recursion of `FlagPlaces`, `NextFlag` goes one flag on), all flags
  before it are known; the section is that of the last key at the margin
  (`OwnerStep`) and no line before this one is refused.
- `TableInv`: the entries so far, entered in order, are what the lines so far
  mean (`AsMeant`): each name in a table has the target of its last pair, and
  each pair has its name in the right table. `CNAMEs::new` folds over the
  entries only when the file has been read, so `FoldTurns` and `FoldAppend` show
  that the fold of a longer list is one turn more; `StarBehind` that a
  wildcard is a star in front of its parent.
- `ServeInv`: the flags so far are those given by the arguments so far
  (`GivenFlags`, `FlagGives`), and the watchers so far those of the good peers
  so far, each `Meant`; as many as there are good peers unless something was short
  (`Before` counts them, `BeforeNext` one more).

The recursive functions `FlagPlaces`, `Given` and the community modules' fold
are handled as the readers of names are: a function that obeys the equation
exists, by induction over a set.

### Assumptions

What the `ASSUME`s say beyond the types of the constants, and why the code
grants it:

- `TimesAssumption`, `PendingAssumption`: `DEBOUNCE` is 500 ms and `RECONNECT` 5 s;
  `MAX_PENDING` is 32. `NameAssumption`: no name is not a job's name.
- `ScenariosAssumption`: the peers are those of a command line, so finitely many;
  a peer that leads nowhere leads to no cluster; Hop holds at least one report.
- `ViewAssumption`, `SilentAssumption`: an unreadable address and a missing answer
  are told apart from every address and every answer, as `None` and `Err` are.
- `ServerAssumption`: names are non-empty and differ under the order of their
  keys (`Ord` of `Name`); an address is once in a list (`push_unique`).
  `DatagramsAssumption`: a datagram has what `parse_query` looks at.
  `LengthsAssumption`: a name asked takes 1 to 255 bytes (`skip_plain_name`
  refuses another), a zone any number of them, and a target at most 255, or none
  where `put_name` refuses it.
- `CasesAssumption`: the arguments, the lines and the peers are finite lists of
  texts. `PeersAssumption`: `MAX_PEERS` is a number.

### Only model-checked

- Liveness: `PendingIsServed`, `NamelessIsAsked`, `Converges`, `AllArrives`, `Terminates`. The
  installed provers handle no fairness.
- `ReadAsMeant`: what `strip_comment`, `split_key`, `unquote`, `Peer::parse`,
  `with_host_alias` and `peer_list` make of a text, against what its writer
  means. Both sides are about characters, and the meaning is listed text by text.

## Not modelled

- `decode`, `read_record` and `encode_query` of `wire.rs` beyond the names in
  them: only the self-test and the tests read answers.
- `Cache::get_merged` and the counters: they change nothing and no daemon asks.
- `extract_ip` and `parse_listen` beyond readable or not: a few splits in front of
  the parsers of the standard library.
- The self-test of the resident, and what the kernel does for its network and
  `spawn` beyond succeeding or failing; the kernel is not in the repository.
- The Go generation under `OLD/`, the tests and the tools are read, not modelled.

## Plan

Written, in this order: `WatcherOps`, `Watcher` with `RefreshPlan`, their
proofs; `HostDaemon`; `Reply`; `ClusterView`; `Server`; `Resident`; `Table`,
`Query` and `ClusterMap` under `Server`; `NameWalk`; `ConfigText`, `PeerUrl` and
`StartUp`; then the proofs about `Reply`, `ClusterView`, `HostDaemon`,
`Resident`, `Server`, `NameWalk` and `StartUp`. Every safety property that a run
checks has its theorem, but `ReadAsMeant`. What could follow:

1. `ReadAsMeant` from a grammar of the texts in place of a list: `unquote` undoes
   the quoting of any value, `strip_comment` leaves any quoted value whole.
2. `decode` and `read_record`, when something beside the self-test reads answers.

------------------------------- MODULE Watcher -------------------------------
(***************************************************************************)
(* One watcher and the loop that drives it.  The state machine of          *)
(* src/src/watcher.rs does no I/O: a driver asks next(), performs the      *)
(* action and reports the outcome.  Both drivers (`watch` and `refresh` of *)
(* src/src/host.rs, and of src/src/bin/hopdns-hopos.rs) have this loop:    *)
(*                                                                         *)
(*    "loop"      about to call next()                                     *)
(*    "discover"  GET /v1/status is under way                              *)
(*    "refresh"   the requests of one refresh are under way                *)
(*    "wait"      waiting for an event, at most until the deadline         *)
(*                                                                         *)
(* The world is free here: any event (on HopOS the stream may be heard     *)
(* before the name is known), a broken stream or a failed request at any   *)
(* time, and ticks passing between any two steps.  Memory may run out as a *)
(* name is copied: in HearEvent that leaves the watcher as it was, which   *)
(* an ignored event does too; in EndDiscovery it is an outcome of its own. *)
(* HostDaemon puts the same watcher between a Hop cluster and the cache,   *)
(* where a shortage of memory also costs events and updates.               *)
(***************************************************************************)
EXTENDS WatcherOps

VARIABLES
  w,      \* the watcher
  pc,     \* where the driver is
  hand,   \* the refresh under way: what was handed out, the jobs not yet
          \* answered, and its age in ticks (counted up to Interval)
  sent    \* the jobs whose state the last step sent to the cache's owner

vars == <<w, pc, hand, sent>>

NoHand == [what |-> "none", jobs |-> {}, age |-> 0]

Init ==
  /\ w = NewWatcher
  /\ pc = "loop"
  /\ hand = NoHand
  /\ sent = {}

-----------------------------------------------------------------------------
\* The driver asks what to do.
StartDiscovery ==
  /\ pc = "loop"
  /\ MustDiscover(w)
  /\ pc' = "discover"
  /\ sent' = {}
  /\ UNCHANGED <<w, hand>>

StartRefresh ==
  /\ pc = "loop"
  /\ MustRefresh(w)
  /\ w' = HandedOut(w)
  /\ hand' = [what |-> Handed(w), jobs |-> w.jobs, age |-> 0]
  /\ pc' = "refresh"
  /\ sent' = {}

StartWait ==
  /\ pc = "loop"
  /\ MustWait(w)
  /\ pc' = "wait"
  /\ sent' = {}
  /\ UNCHANGED <<w, hand>>

-----------------------------------------------------------------------------
\* The answer to GET /v1/status: a name; an error or an empty name; or a name
\* that lower() has no memory to copy, which leaves the watcher as it was.
EndDiscovery ==
  /\ pc = "discover"
  /\ \/ w' = Discovered(w)
     \/ w' = DiscoverFailed(w)
     \/ UNCHANGED w
  /\ pc' = "loop"
  /\ sent' = {}
  /\ UNCHANGED hand

-----------------------------------------------------------------------------
\* The wait ends: an event, a broken stream, or the deadline.
HearEvent(topic, job) ==
  /\ pc = "wait"
  /\ w' = Hear(w, topic, job)
  /\ pc' = "loop"
  /\ sent' = {}
  /\ UNCHANGED hand

HearLost ==
  /\ pc = "wait"
  /\ w' = Lost(w)
  /\ pc' = "loop"
  /\ sent' = {}
  /\ UNCHANGED hand

WaitEnds ==
  /\ pc = "wait"
  /\ DeadlineCame(w)
  /\ pc' = "loop"
  /\ sent' = {}
  /\ UNCHANGED <<w, hand>>

-----------------------------------------------------------------------------
\* A full refresh: both requests answered and the view rebuilt.
FullDone ==
  /\ pc = "refresh" /\ hand.what = "full"
  /\ sent' = Jobs
  /\ hand' = NoHand
  /\ pc' = "loop"
  /\ UNCHANGED w

\* Mutant: the refresh ends with the first answer.
FirstJobDone(job) ==
  /\ pc = "refresh" /\ hand.what = "jobs" /\ job \in hand.jobs
  /\ sent' = {job}
  /\ hand' = NoHand /\ pc' = "loop"
  /\ UNCHANGED w

\* One job of the list answered.
JobDone(job) ==
  /\ pc = "refresh" /\ hand.what = "jobs" /\ job \in hand.jobs
  /\ sent' = {job}
  /\ IF hand.jobs = {job}
     THEN hand' = NoHand /\ pc' = "loop"
     ELSE hand' = [hand EXCEPT !.jobs = @ \ {job}] /\ UNCHANGED pc
  /\ UNCHANGED w

\* A request failed (for a job also: its rebuild).  host.rs reports the time
\* at which the refresh began, hopdns-hopos.rs the time of the failure.
RefreshFails(age) ==
  /\ pc = "refresh"
  /\ w' = RefreshFailed(w, hand.what, age)
  /\ hand' = NoHand
  /\ pc' = "loop"
  /\ sent' = {}

-----------------------------------------------------------------------------
\* A tick passes; nothing obliges the driver to be quicker than the clock.
Tick ==
  /\ w' = Elapse(w)
  /\ hand' = IF pc = "refresh" /\ hand.age < Interval
             THEN [hand EXCEPT !.age = @ + 1]
             ELSE hand
  /\ sent' = {}
  /\ UNCHANGED pc

Driver ==
  \/ StartDiscovery \/ StartRefresh \/ StartWait
  \/ EndDiscovery
  \/ WaitEnds
  \/ FullDone
  \/ \E job \in Jobs : JobDone(job)
  \/ \E age \in {0, hand.age} : RefreshFails(age)

World ==
  \/ \E topic \in Topics, job \in Jobs \cup {NoName} : HearEvent(topic, job)
  \/ HearLost
  \/ Tick

Next == Driver \/ World

\* The driver's thread (or task) is scheduled and time passes; that a
\* request ends is not assumed.
Fairness ==
  /\ WF_vars(StartDiscovery \/ StartRefresh \/ StartWait \/ WaitEnds)
  /\ WF_vars(Tick)

Spec == Init /\ [][Next]_vars /\ Fairness

-----------------------------------------------------------------------------
(* Properties *)

Hands == [what : {"none", "full", "jobs"}, jobs : SUBSET Jobs, age : Ticks]

\* Every field keeps its type.
TypeOK ==
  /\ w \in WatcherState
  /\ pc \in {"loop", "discover", "refresh", "wait"}
  /\ hand \in Hands
  /\ sent \in SUBSET Jobs

\* A refresh is pending exactly when it has a deadline: a list without a
\* deadline would wait for ever (Action::Wait(None)), a deadline without a
\* list would hand out a refresh of nothing.
PendingHasDeadline == w.due # Never <=> w.full \/ w.jobs # {}

\* A full refresh replaces the list, and the list never outgrows MAX_PENDING.
ListBounded ==
  /\ w.full => w.jobs = {}
  /\ Cardinality(w.jobs) <= MaxPending

\* While a refresh is under way nothing else is pending, so refresh_failed
\* overwrites nothing, and what is handed out is never an empty list.
NothingPendingInFlight ==
  /\ pc = "refresh" => w.due = Never /\ hand.what # "none"
  /\ hand.what = "jobs" => hand.jobs # {}
  /\ pc # "refresh" => hand = NoHand

\* DEBOUNCE counts from the first notification: no later event, failure or
\* tick moves a deadline that stands further away.
StormNeverPostpones ==
  [][w.due # Never /\ w'.due # Never => w'.due <= w.due]_vars

\* The watcher keeps its promise to the cache's owner (module RefreshPlan):
\* `full` stands for every job, whatever the list was.
Owed    == IF w.full THEN Jobs ELSE w.jobs
Serving == IF hand.what = "full" THEN Jobs ELSE hand.jobs
Plan    == INSTANCE RefreshPlan WITH owed <- Owed, serving <- Serving
PlanKept == Plan!Spec

\* A pending refresh of a known cluster is handed out, or dropped by a broken
\* stream: no run of events keeps it waiting.
PendingIsServed == (w.known /\ w.due # Never) ~> (w.due = Never)

\* A peer without a name is asked for it again and again: neither a failure,
\* nor events heard before the name is known, nor their deadline or its
\* absence, make the driver wait past retry_at.
NamelessIsAsked == []<>(w.known \/ pc = "discover")

\* After a full refresh that failed the peer waits before the next one.
FailedFullWaits ==
  [][hand.what = "full" /\ w'.full => w'.due > 0]_vars
=============================================================================

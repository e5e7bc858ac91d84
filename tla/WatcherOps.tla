----------------------------- MODULE WatcherOps -----------------------------
(***************************************************************************)
(* The state machine of one peer's watcher (src/src/watcher.rs) as         *)
(* operators on its state record: one operator per method of `Watcher`.    *)
(* The modules that run a watcher (Watcher, HostDaemon) share them.        *)
(*                                                                         *)
(* Time.  The code compares absolute instants with `now`; only the         *)
(* distances matter, so an instant is held as the ticks left until it, and *)
(* Elapse lets one tick pass.  An instant that has come stays at 0.        *)
(*                                                                         *)
(* Data.  The list `jobs` is duplicate-free and its order matters only for *)
(* the order of the requests of one refresh, so it is a set.               *)
(***************************************************************************)
EXTENDS Integers, FiniteSets

CONSTANTS
  Jobs,        \* the job names of the peer's cluster, in lower case
  MaxPending,  \* MAX_PENDING
  Debounce,    \* DEBOUNCE, in ticks
  Interval     \* RECONNECT, in ticks

\* 500 ms and 5 s: the only relation the code relies on is their order.
ASSUME TimesAssumption ==
  /\ Debounce \in Nat \ {0}
  /\ Interval \in Nat
  /\ Debounce <= Interval

\* At least one job fits on the list.
ASSUME PendingAssumption == MaxPending \in Nat \ {0}

Never == -1                       \* `due: None`
Ticks == 0..Interval              \* an instant, as ticks from now

\* cluster.is_some(), retry_at, due, full and jobs of struct Watcher.
WatcherState ==
  [known : BOOLEAN, retry : Ticks, due : Ticks \cup {Never},
   full : BOOLEAN, jobs : SUBSET Jobs]

\* Watcher::new
NewWatcher ==
  [known |-> FALSE, retry |-> 0, due |-> Never, full |-> FALSE, jobs |-> {}]

-----------------------------------------------------------------------------
(* Watcher::next: which of the three things the driver must do now.        *)

MustDiscover(w) == ~w.known /\ w.retry = 0
MustRefresh(w)  == w.known /\ w.due = 0
MustWait(w)     == ~MustDiscover(w) /\ ~MustRefresh(w)

\* Mutant: Wait(self.due) also for a peer without a name.
DeadlineCameDueOnly(w) == w.due = 0

\* The wait of Action::Wait(deadline) is over without an event.
DeadlineCame(w) == IF w.known THEN w.due = 0 ELSE w.retry = 0

\* Action::Refresh hands out all that is pending and leaves nothing behind.
Handed(w)    == IF w.full THEN "full" ELSE "jobs"
\* Mutant: the deadline stays.
HandedOutStillDue(w) == [w EXCEPT !.full = FALSE, !.jobs = {}]
HandedOut(w) == [w EXCEPT !.due = Never, !.full = FALSE, !.jobs = {}]

-----------------------------------------------------------------------------
(* Discovery.  A status answer with an empty name counts as a failure; one *)
(* that cannot be copied (lower() runs out of memory) changes nothing,     *)
(* retry_at included.                                                      *)

Discovered(w)     == [w EXCEPT !.known = TRUE]
DiscoverFailed(w) == [w EXCEPT !.retry = Interval]

-----------------------------------------------------------------------------
(* Events.  A notification is a pair of a topic and, for "job" and "task", *)
(* the job it names.                                                       *)

NoName == "no name"
ASSUME NameAssumption == NoName \notin Jobs
Topics == {"ping", "status", "agent", "job", "task", "unreadable", "other"}

\* What an event means to the cache: fn classify.
Classify(topic, job) ==
  CASE topic = "ping"                                  -> "Seed"
    [] topic \in {"status", "agent", "unreadable"}     -> "Full"
    [] topic \in {"job", "task"} /\ job # NoName       -> "Job"
    [] OTHER                                           -> "Ignore"

\* Mutant: every notification postpones the deadline.
DebouncedByLast(due) == Debounce

\* due.get_or_insert(now + debounce): the first notification sets the
\* deadline, the later ones leave it.
Debounced(due) == IF due = Never THEN Debounce ELSE due

PendFull(w) ==
  [w EXCEPT !.full = TRUE, !.jobs = {}, !.due = Debounced(w.due)]

PendJob(w, job) ==
  [w EXCEPT !.jobs = w.jobs \cup {job}, !.due = Debounced(w.due)]

Seed(w) == [w EXCEPT !.full = TRUE, !.jobs = {}, !.due = 0]

\* Mutant: the list may grow one too long.
HearJobOneMore(w, job) ==
  IF w.full
  THEN w
  ELSE IF job \notin w.jobs /\ Cardinality(w.jobs) > MaxPending
       THEN PendFull(w)
       ELSE PendJob(w, job)

\* Mutant: what does not fit on the list is dropped.
HearJobDropped(w, job) ==
  IF w.full \/ (job \notin w.jobs /\ Cardinality(w.jobs) >= MaxPending)
  THEN w
  ELSE PendJob(w, job)

HearJob(w, job) ==
  IF w.full
  THEN w
  ELSE IF job \notin w.jobs /\ Cardinality(w.jobs) >= MaxPending
       THEN PendFull(w)
       ELSE PendJob(w, job)

\* Watcher::event; running out of memory leaves w as it was.
Hear(w, topic, job) ==
  CASE Classify(topic, job) = "Seed"   -> Seed(w)
    [] Classify(topic, job) = "Full"   -> PendFull(w)
    [] Classify(topic, job) = "Job"    -> HearJob(w, job)
    [] Classify(topic, job) = "Ignore" -> w

\* The step of Watcher::event that copies the name, and so can fail.
Copies(w, topic, job) == Classify(topic, job) = "Job" /\ ~w.full

\* Mutant: the deadline outlives the list.
LostStillDue(w) == [w EXCEPT !.full = FALSE, !.jobs = {}]

\* Watcher::lost
Lost(w) == [w EXCEPT !.due = Never, !.full = FALSE, !.jobs = {}]

-----------------------------------------------------------------------------
(* Watcher::refresh_failed(now, what), where the caller's `now` lies `age` *)
(* ticks in the past.                                                      *)

Earlier(due, at) == IF due = Never \/ at < due THEN at ELSE due

\* Mutant: the wait grows with the age of the refresh.
RetryAtLater(what, age) == IF what = "full" THEN Interval + age ELSE 0

RetryAt(what, age) ==
  IF what = "full" /\ age < Interval THEN Interval - age ELSE 0

\* Mutant: a failed refresh is forgotten.
RefreshFailedForgotten(w, what, age) == w

RefreshFailed(w, what, age) ==
  [w EXCEPT !.full = TRUE, !.jobs = {},
            !.due = Earlier(w.due, RetryAt(what, age))]

-----------------------------------------------------------------------------
\* One tick passes.
TickDown(t)  == IF t > 0 THEN t - 1 ELSE t
Elapse(w)    == [w EXCEPT !.due = TickDown(w.due), !.retry = TickDown(w.retry)]
=============================================================================

-------------------------- MODULE WatcherOpsProofs --------------------------
(***************************************************************************)
(* Lemmas about the methods of Watcher (module WatcherOps), for every set  *)
(* of jobs, every list length and all waiting times: each keeps the record *)
(* well-formed (WatcherOK), and what each does to the deadline and to the  *)
(* list.                                                                   *)
(***************************************************************************)
EXTENDS WatcherOps, FiniteSetTheorems, TLAPS

\* A well-formed record: typed, the list finite and within its bound, and a
\* deadline exactly when something is pending.
WatcherOK(x) ==
  /\ x \in WatcherState
  /\ IsFiniteSet(x.jobs)
  /\ Cardinality(x.jobs) <= MaxPending
  /\ x.full => x.jobs = {}
  /\ x.due # Never <=> x.full \/ x.jobs # {}

-----------------------------------------------------------------------------
(* The methods of Watcher keep the record well-formed.                     *)

\* The empty list is finite and within every bound.
LEMMA EmptyList == IsFiniteSet({}) /\ Cardinality({}) <= MaxPending
BY FS_EmptySet, PendingAssumption

\* Interval and Debounce are instants.
LEMMA Instants == Interval \in Ticks /\ Debounce \in Ticks /\ 0 \in Ticks /\ Never \notin Ticks
BY TimesAssumption DEF Ticks, Never

\* Watcher::new
LEMMA NewOK == WatcherOK(NewWatcher)
BY EmptyList, Instants DEF WatcherOK, NewWatcher, WatcherState

\* A full refresh with a deadline, whatever was pending before.
LEMMA FullPending ==
  ASSUME NEW x, WatcherOK(x), NEW due \in Ticks
  PROVE  WatcherOK([x EXCEPT !.full = TRUE, !.jobs = {}, !.due = due])
<1> DEFINE y == [x EXCEPT !.full = TRUE, !.jobs = {}, !.due = due]
<1>1. y \in WatcherState
  BY DEF WatcherOK, WatcherState
<1>2. y.full = TRUE /\ y.jobs = {} /\ y.due = due
  BY DEF WatcherOK, WatcherState
<1> HIDE DEF y
<1>3. WatcherOK(y)
  BY <1>1, <1>2, EmptyList, Instants DEF WatcherOK
<1> QED  BY <1>3 DEF y

\* Nothing pending, and no deadline.
LEMMA NothingPending ==
  ASSUME NEW x, WatcherOK(x)
  PROVE  WatcherOK([x EXCEPT !.due = Never, !.full = FALSE, !.jobs = {}])
<1> DEFINE y == [x EXCEPT !.due = Never, !.full = FALSE, !.jobs = {}]
<1>1. y \in WatcherState
  BY DEF WatcherOK, WatcherState
<1>2. y.full = FALSE /\ y.jobs = {} /\ y.due = Never
  BY DEF WatcherOK, WatcherState
<1> HIDE DEF y
<1>3. WatcherOK(y)
  BY <1>1, <1>2, EmptyList DEF WatcherOK
<1> QED  BY <1>3 DEF y

\* next() hands out everything; lost() drops everything.
LEMMA HandedOutOK ==
  ASSUME NEW x, WatcherOK(x)
  PROVE  WatcherOK(HandedOut(x)) /\ WatcherOK(Lost(x))
BY NothingPending DEF HandedOut, Lost

\* discovered() and discover_failed()
LEMMA DiscoveryOK ==
  ASSUME NEW x, WatcherOK(x)
  PROVE  WatcherOK(Discovered(x)) /\ WatcherOK(DiscoverFailed(x))
<1>1. Discovered(x) \in WatcherState /\ DiscoverFailed(x) \in WatcherState
  BY Instants DEF WatcherOK, WatcherState, Discovered, DiscoverFailed
<1>2. /\ Discovered(x).full = x.full
      /\ Discovered(x).jobs = x.jobs
      /\ Discovered(x).due = x.due
      /\ DiscoverFailed(x).full = x.full
      /\ DiscoverFailed(x).jobs = x.jobs
      /\ DiscoverFailed(x).due = x.due
  BY DEF WatcherOK, WatcherState, Discovered, DiscoverFailed
<1> QED  BY <1>1, <1>2 DEF WatcherOK

\* The two ways event() asks for a full refresh.
LEMMA FullOK ==
  ASSUME NEW x, WatcherOK(x)
  PROVE  WatcherOK(Seed(x)) /\ WatcherOK(PendFull(x))
<1>1. Debounced(x.due) \in Ticks
  BY Instants DEF WatcherOK, WatcherState, Debounced
<1>2. WatcherOK(PendFull(x))
  BY <1>1, FullPending DEF PendFull
<1> QED  BY <1>2, FullPending, Instants DEF Seed

\* A notified job goes on the list only while the list has room.
LEMMA HearJobOK ==
  ASSUME NEW x, WatcherOK(x), NEW job \in Jobs
  PROVE  WatcherOK(HearJob(x, job))
<1>1. CASE x.full
  BY <1>1 DEF HearJob
<1>2. CASE ~x.full /\ job \notin x.jobs /\ Cardinality(x.jobs) >= MaxPending
  BY <1>2, FullOK DEF HearJob
<1>3. CASE ~x.full /\ ~(job \notin x.jobs /\ Cardinality(x.jobs) >= MaxPending)
  <2> DEFINE y == PendJob(x, job)
  <2>1. IsFiniteSet(x.jobs) /\ Cardinality(x.jobs) \in Nat /\ Cardinality(x.jobs) <= MaxPending
    BY FS_CardinalityType DEF WatcherOK
  <2>2. IsFiniteSet(x.jobs \cup {job})
    BY <2>1, FS_AddElement
  <2>3. Cardinality(x.jobs \cup {job}) <= MaxPending
    <3>1. CASE job \in x.jobs
      <4>1. x.jobs \cup {job} = x.jobs
        BY <3>1
      <4> QED  BY <2>1, <4>1
    <3>2. CASE job \notin x.jobs
      <4>1. Cardinality(x.jobs \cup {job}) = Cardinality(x.jobs) + 1
        BY <2>1, <3>2, FS_AddElement
      <4> QED  BY <1>3, <2>1, <3>2, <4>1, PendingAssumption
    <3> QED  BY <3>1, <3>2
  <2>4. Debounced(x.due) \in Ticks
    BY Instants DEF WatcherOK, WatcherState, Debounced
  <2>5. y \in WatcherState
    BY <2>4 DEF WatcherOK, WatcherState, PendJob
  <2>6. y.full = x.full /\ y.jobs = x.jobs \cup {job} /\ y.due = Debounced(x.due)
    BY DEF WatcherOK, WatcherState, PendJob
  <2>7. HearJob(x, job) = y
    BY <1>3 DEF HearJob
  <2> HIDE DEF y
  <2>8. WatcherOK(y)
    BY <1>3, <2>2, <2>3, <2>4, <2>5, <2>6, Instants DEF WatcherOK
  <2> QED  BY <2>7, <2>8
<1> QED  BY <1>1, <1>2, <1>3

\* Watcher::event
LEMMA HearOK ==
  ASSUME NEW x, WatcherOK(x), NEW topic \in Topics, NEW job \in Jobs \cup {NoName}
  PROVE  WatcherOK(Hear(x, topic, job))
<1>1. CASE Classify(topic, job) = "Job"
  <2>1. job \in Jobs
    BY <1>1 DEF Classify, Topics
  <2> QED  BY <1>1, <2>1, HearJobOK DEF Hear
<1>2. CASE Classify(topic, job) = "Seed"
  BY <1>2, FullOK DEF Hear
<1>3. CASE Classify(topic, job) = "Full"
  BY <1>3, FullOK DEF Hear
<1>4. CASE Classify(topic, job) = "Ignore"
  BY <1>4 DEF Hear
<1> QED  BY <1>1, <1>2, <1>3, <1>4 DEF Classify

\* refresh_failed()
LEMMA RefreshFailedOK ==
  ASSUME NEW x, WatcherOK(x), NEW what, NEW age \in Ticks
  PROVE  WatcherOK(RefreshFailed(x, what, age))
<1>1. RetryAt(what, age) \in Ticks
  BY TimesAssumption DEF RetryAt, Ticks
<1>2. Earlier(x.due, RetryAt(what, age)) \in Ticks
  BY <1>1 DEF Earlier, WatcherOK, WatcherState
<1> QED
  BY <1>2, FullPending DEF RefreshFailed

\* A tick passes.
LEMMA ElapseOK ==
  ASSUME NEW x, WatcherOK(x)
  PROVE  WatcherOK(Elapse(x))
<1>1. \A t \in Ticks : TickDown(t) \in Ticks
  BY TimesAssumption DEF Ticks, TickDown
<1>2. TickDown(Never) = Never
  BY DEF TickDown, Never
<1>3. TickDown(x.due) \in Ticks \cup {Never} /\ TickDown(x.retry) \in Ticks
  BY <1>1, <1>2 DEF WatcherOK, WatcherState
<1>4. TickDown(x.due) # Never <=> x.due # Never
  BY <1>1, <1>2, Instants DEF WatcherOK, WatcherState
<1>5. Elapse(x) \in WatcherState
  BY <1>3 DEF Elapse, WatcherOK, WatcherState
<1>6. /\ Elapse(x).full = x.full
      /\ Elapse(x).jobs = x.jobs
      /\ Elapse(x).due = TickDown(x.due)
  BY DEF Elapse, WatcherOK, WatcherState
<1> QED  BY <1>4, <1>5, <1>6 DEF WatcherOK

-----------------------------------------------------------------------------
(* What the methods do to the deadline and to the list.                    *)

\* The methods that can meet a pending deadline never move it away.
LEMMA DeadlineStays ==
  ASSUME NEW x, WatcherOK(x), x.due # Never
  PROVE  /\ Discovered(x).due = x.due /\ DiscoverFailed(x).due = x.due
         /\ Elapse(x).due <= x.due
         /\ \A topic, job : Hear(x, topic, job).due <= x.due
<1>1. x.due \in Nat
  BY TimesAssumption DEF WatcherOK, WatcherState, Ticks, Never
<1>2. Discovered(x).due = x.due /\ DiscoverFailed(x).due = x.due
  BY DEF Discovered, DiscoverFailed, WatcherOK, WatcherState
<1>3. Elapse(x).due <= x.due
  <2>1. Elapse(x).due = TickDown(x.due)
    BY DEF Elapse, WatcherOK, WatcherState
  <2> QED  BY <1>1, <2>1 DEF TickDown
<1>4. Seed(x).due = 0 /\ PendFull(x).due = x.due
  BY DEF Seed, PendFull, Debounced, WatcherOK, WatcherState
<1>5. ASSUME NEW job PROVE PendJob(x, job).due = x.due
  BY DEF PendJob, Debounced, WatcherOK, WatcherState
<1>6. ASSUME NEW job PROVE HearJob(x, job).due = x.due
  BY <1>4, <1>5 DEF HearJob
<1>7. ASSUME NEW topic, NEW job PROVE Hear(x, topic, job).due <= x.due
  <2>1. CASE Classify(topic, job) = "Seed"
    BY <1>1, <1>4, <2>1 DEF Hear
  <2>2. CASE Classify(topic, job) = "Full"
    BY <1>1, <1>4, <2>2 DEF Hear
  <2>3. CASE Classify(topic, job) = "Job"
    BY <1>1, <1>6, <2>3 DEF Hear
  <2>4. CASE Classify(topic, job) = "Ignore"
    BY <1>1, <2>4 DEF Hear
  <2> QED  BY <2>1, <2>2, <2>3, <2>4 DEF Classify
<1> QED  BY <1>2, <1>3, <1>7

\* What a method does to the owed jobs.
LEMMA OwedAfter ==
  ASSUME NEW x, WatcherOK(x)
  PROVE  /\ Discovered(x).full = x.full /\ Discovered(x).jobs = x.jobs
         /\ DiscoverFailed(x).full = x.full /\ DiscoverFailed(x).jobs = x.jobs
         /\ Elapse(x).full = x.full /\ Elapse(x).jobs = x.jobs
         /\ ~HandedOut(x).full /\ HandedOut(x).jobs = {}
         /\ ~Lost(x).full /\ Lost(x).jobs = {}
         /\ \A what, age : RefreshFailed(x, what, age).full
         /\ \A topic, job :
              \/ Hear(x, topic, job).full
              \/ Hear(x, topic, job).full = x.full /\ x.jobs \subseteq Hear(x, topic, job).jobs
<1>1. /\ Discovered(x).full = x.full /\ Discovered(x).jobs = x.jobs
      /\ DiscoverFailed(x).full = x.full /\ DiscoverFailed(x).jobs = x.jobs
      /\ Elapse(x).full = x.full /\ Elapse(x).jobs = x.jobs
  BY DEF Discovered, DiscoverFailed, Elapse, WatcherOK, WatcherState
<1>2. /\ ~HandedOut(x).full /\ HandedOut(x).jobs = {}
      /\ ~Lost(x).full /\ Lost(x).jobs = {}
  BY DEF HandedOut, Lost, WatcherOK, WatcherState
<1>3. \A what, age : RefreshFailed(x, what, age).full
  BY DEF RefreshFailed, WatcherOK, WatcherState
<1>4. Seed(x).full /\ PendFull(x).full
  BY DEF Seed, PendFull, WatcherOK, WatcherState
<1>5. \A job : PendJob(x, job).full = x.full /\ x.jobs \subseteq PendJob(x, job).jobs
  BY DEF PendJob, WatcherOK, WatcherState
<1>6. ASSUME NEW job
      PROVE  \/ HearJob(x, job).full
             \/ HearJob(x, job).full = x.full /\ x.jobs \subseteq HearJob(x, job).jobs
  <2>1. HearJob(x, job) \in {x, PendFull(x), PendJob(x, job)}
    BY DEF HearJob
  <2> QED  BY <1>4, <1>5, <2>1
<1>7. ASSUME NEW topic, NEW job
      PROVE  \/ Hear(x, topic, job).full
             \/ Hear(x, topic, job).full = x.full /\ x.jobs \subseteq Hear(x, topic, job).jobs
  <2>1. CASE Classify(topic, job) = "Seed"
    BY <1>4, <2>1 DEF Hear
  <2>2. CASE Classify(topic, job) = "Full"
    BY <1>4, <2>2 DEF Hear
  <2>3. CASE Classify(topic, job) = "Job"
    BY <1>6, <2>3 DEF Hear
  <2>4. CASE Classify(topic, job) = "Ignore"
    BY <2>4 DEF Hear
  <2> QED  BY <2>1, <2>2, <2>3, <2>4 DEF Classify
<1> QED  BY <1>1, <1>2, <1>3, <1>6, <1>7
=============================================================================

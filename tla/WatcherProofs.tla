---------------------------- MODULE WatcherProofs ----------------------------
(***************************************************************************)
(* Theorems about the watcher and its driver, for every set of jobs, every *)
(* list length and all waiting times.                                      *)
(*                                                                         *)
(* One inductive invariant carries them: the watcher's record is           *)
(* well-formed (WatcherOK), and nothing is pending while a refresh is      *)
(* under way.  Module WatcherOpsProofs shows, in a lemma per method of     *)
(* Watcher, that the method keeps WatcherOK; the invariant then has one    *)
(* step per action.                                                        *)
(***************************************************************************)
EXTENDS Watcher, WatcherOpsProofs, TLAPS

\* The inductive invariant.
IInv ==
  /\ TypeOK
  /\ WatcherOK(w)
  /\ NothingPendingInFlight

-----------------------------------------------------------------------------
(* The invariant.                                                          *)

\* The new watcher satisfies the invariant.
LEMMA InitIInv == Init => IInv
<1> SUFFICES ASSUME Init PROVE IInv
  OBVIOUS
<1>1. NoHand \in Hands
  BY Instants DEF NoHand, Hands
<1>2. TypeOK
  BY <1>1, NewOK DEF Init, TypeOK, WatcherOK
<1> QED
  BY <1>2, NewOK DEF Init, IInv, NothingPendingInFlight, NoHand

\* Between two refreshes the driver holds nothing; these are the steps that
\* start in, and lead to, such a state.
LEMMA IdleStep ==
  ASSUME IInv, pc # "refresh",
         pc' \in {"loop", "discover", "wait"},
         WatcherOK(w'), hand' = hand, sent' = {}
  PROVE  IInv'
BY DEF IInv, TypeOK, WatcherOK, NothingPendingInFlight, NoHand

\* The steps that end a refresh.
LEMMA EndStep ==
  ASSUME IInv, pc' = "loop", WatcherOK(w'), hand' = NoHand, sent' \in SUBSET Jobs
  PROVE  IInv'
<1>1. NoHand \in Hands
  BY Instants DEF NoHand, Hands
<1> QED  BY <1>1 DEF IInv, TypeOK, WatcherOK, NothingPendingInFlight, NoHand

\* Every action of the driver and of the world keeps the invariant.
LEMMA NextIInv == IInv /\ [Next]_vars => IInv'
<1> SUFFICES ASSUME IInv, [Next]_vars PROVE IInv'
  OBVIOUS
<1> USE DEF IInv
<1>1. CASE StartDiscovery
  BY <1>1, IdleStep DEF StartDiscovery
<1>2. CASE StartRefresh
  <2>1. WatcherOK(w') /\ w'.due = Never
    BY <1>2, HandedOutOK DEF StartRefresh, HandedOut, TypeOK, WatcherState
  <2>2. hand' \in Hands
    BY <1>2, Instants DEF StartRefresh, Hands, Handed, TypeOK, WatcherState
  <2>3. hand'.what \in {"full", "jobs"} /\ hand'.jobs = w.jobs
    BY <1>2 DEF StartRefresh, Handed
  <2>4. hand'.what = "jobs" => w.jobs # {}
    <3>1. w.due # Never
      BY <1>2 DEF StartRefresh, MustRefresh, Never
    <3> QED  BY <1>2, <3>1 DEF StartRefresh, Handed, WatcherOK
  <2> QED
    BY <1>2, <2>1, <2>2, <2>3, <2>4
    DEF StartRefresh, TypeOK, NothingPendingInFlight, WatcherOK
<1>3. CASE StartWait
  BY <1>3, IdleStep DEF StartWait
<1>4. CASE EndDiscovery
  <2>1. WatcherOK(w')
    BY <1>4, DiscoveryOK DEF EndDiscovery
  <2> QED  BY <1>4, <2>1, IdleStep DEF EndDiscovery
<1>5. CASE WaitEnds
  BY <1>5, IdleStep DEF WaitEnds
<1>6. CASE FullDone
  BY <1>6, EndStep DEF FullDone
<1>7. ASSUME NEW job \in Jobs, JobDone(job) PROVE IInv'
  <2>1. CASE hand.jobs = {job}
    BY <1>7, <2>1, EndStep DEF JobDone
  <2>2. CASE hand.jobs # {job}
    <3>1. hand' = [hand EXCEPT !.jobs = @ \ {job}] /\ pc = "refresh" /\ pc' = pc /\ w' = w
      BY <1>7, <2>2 DEF JobDone
    <3>2. hand.what = "jobs" /\ hand.jobs \in SUBSET Jobs /\ hand.jobs \ {job} # {}
      BY <1>7, <2>2 DEF JobDone, TypeOK, Hands
    <3>3. hand' \in Hands /\ hand'.what = "jobs" /\ hand'.jobs = hand.jobs \ {job}
      BY <3>1, <3>2 DEF TypeOK, Hands
    <3>4. sent' \in SUBSET Jobs
      BY <1>7 DEF JobDone
    <3> QED
      BY <3>1, <3>2, <3>3, <3>4 DEF TypeOK, NothingPendingInFlight, WatcherOK
  <2> QED  BY <2>1, <2>2
<1>8. ASSUME NEW age \in {0, hand.age}, RefreshFails(age) PROVE IInv'
  <2>1. age \in Ticks
    BY Instants DEF TypeOK, Hands
  <2> QED  BY <1>8, <2>1, EndStep, RefreshFailedOK DEF RefreshFails
<1>9. ASSUME NEW topic \in Topics, NEW job \in Jobs \cup {NoName}, HearEvent(topic, job)
       PROVE  IInv'
  BY <1>9, IdleStep, HearOK DEF HearEvent
<1>10. CASE HearLost
  BY <1>10, IdleStep, HandedOutOK DEF HearLost
<1>11. CASE Tick
  <2>1. WatcherOK(w') /\ (w.due = Never => w'.due = Never)
    <3>1. w' = Elapse(w)
      BY <1>11 DEF Tick
    <3>2. w'.due = TickDown(w.due)
      BY <3>1 DEF Elapse, TypeOK, WatcherState
    <3> QED  BY <3>1, <3>2, ElapseOK DEF TickDown, Never
  <2>2. hand' \in Hands /\ hand'.what = hand.what /\ hand'.jobs = hand.jobs
    BY <1>11, TimesAssumption DEF Tick, TypeOK, Hands, Ticks
  <2>3. pc # "refresh" => hand' = hand
    BY <1>11 DEF Tick
  <2> QED
    BY <1>11, <2>1, <2>2, <2>3 DEF Tick, TypeOK, NothingPendingInFlight, WatcherOK
<1>12. CASE UNCHANGED vars
  BY <1>12 DEF vars, TypeOK, WatcherOK, NothingPendingInFlight
<1> QED
  BY <1>1, <1>2, <1>3, <1>4, <1>5, <1>6, <1>7, <1>8, <1>9, <1>10, <1>11, <1>12
  DEF Next, Driver, World

\* The inductive invariant holds in every reachable state.
THEOREM Invariant == Spec => []IInv
BY InitIInv, NextIInv, PTL DEF Spec

\* Every field of the watcher and its driver keeps its type.
THEOREM TypeCorrect == Spec => []TypeOK
<1>1. IInv => TypeOK
  BY DEF IInv
<1> QED  BY <1>1, Invariant, PTL

\* A refresh is pending exactly when it has a deadline.
THEOREM PendingTheorem == Spec => []PendingHasDeadline
<1>1. IInv => PendingHasDeadline
  BY DEF IInv, WatcherOK, PendingHasDeadline
<1> QED  BY <1>1, Invariant, PTL

\* The list of jobs never outgrows MAX_PENDING and is empty beside `full`.
THEOREM ListTheorem == Spec => []ListBounded
<1>1. IInv => ListBounded
  BY DEF IInv, WatcherOK, ListBounded
<1> QED  BY <1>1, Invariant, PTL

\* refresh_failed() never meets a pending refresh, and no refresh is empty.
THEOREM InFlightTheorem == Spec => []NothingPendingInFlight
<1>1. IInv => NothingPendingInFlight
  BY DEF IInv
<1> QED  BY <1>1, Invariant, PTL

-----------------------------------------------------------------------------
(* What a step may never do.                                               *)

\* While a deadline is pending before and after a step, it moves no further away.
LEMMA StormStep ==
  ASSUME IInv, [Next]_vars, w.due # Never, w'.due # Never
  PROVE  w'.due <= w.due
<1>1. WatcherOK(w) /\ w.due \in Nat
  BY TimesAssumption DEF IInv, WatcherOK, WatcherState, Ticks, Never
<1>2. pc # "refresh"
  BY DEF IInv, NothingPendingInFlight
<1>3. CASE w' = w
  BY <1>1, <1>3
<1>4. CASE StartRefresh
  BY <1>1, <1>4 DEF StartRefresh, HandedOut, WatcherOK, WatcherState
<1>5. CASE EndDiscovery
  BY <1>1, <1>5, DeadlineStays DEF EndDiscovery
<1>6. ASSUME NEW topic, NEW job, HearEvent(topic, job) PROVE w'.due <= w.due
  BY <1>1, <1>6, DeadlineStays DEF HearEvent
<1>7. CASE HearLost
  BY <1>1, <1>7 DEF HearLost, Lost, WatcherOK, WatcherState
<1>8. CASE Tick
  BY <1>1, <1>8, DeadlineStays DEF Tick
<1> QED
  BY <1>2, <1>3, <1>4, <1>5, <1>6, <1>7, <1>8
  DEF Next, Driver, World, StartDiscovery, StartWait, WaitEnds, FullDone,
      JobDone, RefreshFails, vars

\* A storm of notifications, a failure or the clock never postpones a refresh.
THEOREM StormTheorem == Spec => StormNeverPostpones
<1>1. IInv /\ [Next]_vars => [w.due # Never /\ w'.due # Never => w'.due <= w.due]_vars
  BY StormStep
<1> QED  BY <1>1, Invariant, PTL DEF Spec, StormNeverPostpones

-----------------------------------------------------------------------------
(* The watcher implements RefreshPlan.                                     *)

\* A new watcher owes nothing, as the plan begins: nothing was reported yet.
LEMMA PlanInit == Init => Plan!Init
BY DEF Init, Plan!Init, NewWatcher, NoHand, Owed, Serving

\* Steps that leave the refresh under way alone and can only add to what is
\* owed are notes.
LEMMA NoteStep ==
  ASSUME TypeOK, Owed \subseteq Owed', Owed' \subseteq Jobs, Serving' = Serving, sent' = {}
  PROVE  Plan!Next
<1>1. Owed' = Owed \cup Owed'
  OBVIOUS
<1> QED  BY <1>1 DEF Plan!Next, Plan!Note

\* Each action is a step of the plan, or leaves what it speaks of alone.
LEMMA PlanStep ==
  ASSUME IInv, IInv', [Next]_vars
  PROVE  [Plan!Next]_(Plan!vars)
<1>1. /\ WatcherOK(w) /\ TypeOK /\ NothingPendingInFlight
      /\ Owed \in SUBSET Jobs /\ Owed' \in SUBSET Jobs
  BY DEF IInv, TypeOK, Owed, WatcherState
<1>2. ASSUME w' = w, hand' = hand, sent' = {} PROVE Plan!Next
  <2>1. Owed' = Owed /\ Serving' = Serving
    BY <1>2 DEF Owed, Serving
  <2> QED  BY <1>1, <1>2, <2>1, NoteStep
<1>3. CASE StartDiscovery \/ StartWait \/ WaitEnds
  BY <1>2, <1>3 DEF StartDiscovery, StartWait, WaitEnds
<1>4. CASE StartRefresh
  <2>1. Owed' = {} /\ sent' = {}
    BY <1>1, <1>4, OwedAfter DEF StartRefresh, Owed
  <2>2. Serving = {}
    BY <1>1, <1>4 DEF StartRefresh, NothingPendingInFlight, NoHand, Serving
  <2>3. Serving' = Owed
    BY <1>4 DEF StartRefresh, Handed, Serving, Owed
  <2> QED  BY <2>1, <2>2, <2>3 DEF Plan!Next, Plan!Take
<1>5. CASE EndDiscovery
  <2>1. w'.full = w.full /\ w'.jobs = w.jobs /\ hand' = hand /\ sent' = {}
    BY <1>1, <1>5, OwedAfter DEF EndDiscovery
  <2>2. Owed' = Owed /\ Serving' = Serving
    BY <2>1 DEF Owed, Serving
  <2> QED  BY <1>1, <2>1, <2>2, NoteStep
<1>6. CASE FullDone
  <2>1. Serving = Jobs /\ Serving' = {} /\ sent' = Jobs /\ Owed' = Owed
    BY <1>6 DEF FullDone, Serving, Owed, NoHand
  <2> QED  BY <2>1 DEF Plan!Next, Plan!Publish
<1>7. ASSUME NEW job \in Jobs, JobDone(job) PROVE Plan!Next
  <2>1. Owed' = Owed /\ sent' = {job} /\ Serving = hand.jobs /\ job \in Serving
    BY <1>7 DEF JobDone, Owed, Serving
  <2>2. Serving' = Serving \ {job}
    <3>1. CASE hand.jobs = {job}
      BY <1>7, <2>1, <3>1 DEF JobDone, Serving, NoHand
    <3>2. CASE hand.jobs # {job}
      <4>1. hand'.what = "jobs" /\ hand'.jobs = hand.jobs \ {job}
        BY <1>1, <1>7, <3>2 DEF JobDone, TypeOK, Hands
      <4> QED  BY <2>1, <4>1 DEF Serving
    <3> QED  BY <3>1, <3>2
  <2> QED  BY <2>1, <2>2 DEF Plan!Next, Plan!Publish
<1>8. ASSUME NEW age, RefreshFails(age) PROVE Plan!Next
  <2>1. Owed' = Jobs /\ sent' = {} /\ Serving' = {}
    BY <1>1, <1>8, OwedAfter DEF RefreshFails, Owed, Serving, NoHand
  <2>2. Serving \subseteq Jobs
    BY <1>1 DEF Serving, TypeOK, Hands
  <2>3. Owed' = Owed \cup Serving \cup Jobs
    BY <1>1, <2>1, <2>2
  <2> QED  BY <2>1, <2>3 DEF Plan!Next, Plan!Fail
<1>9. ASSUME NEW topic, NEW job, HearEvent(topic, job) PROVE Plan!Next
  <2>1. w' = Hear(w, topic, job) /\ hand' = hand /\ sent' = {}
    BY <1>9 DEF HearEvent
  <2>2. Owed \subseteq Owed' /\ Serving' = Serving
    BY <1>1, <2>1, OwedAfter DEF Owed, Serving, TypeOK, WatcherState
  <2> QED  BY <1>1, <2>1, <2>2, NoteStep
<1>10. CASE HearLost
  <2>1. Owed' = {} /\ sent' = {} /\ Serving' = Serving
    BY <1>1, <1>10, OwedAfter DEF HearLost, Owed, Serving
  <2> QED  BY <2>1 DEF Plan!Next, Plan!Lose
<1>11. CASE Tick
  <2>1. w'.full = w.full /\ w'.jobs = w.jobs /\ sent' = {}
    BY <1>1, <1>11, OwedAfter DEF Tick
  <2>2. hand'.what = hand.what /\ hand'.jobs = hand.jobs
    BY <1>1, <1>11 DEF Tick, TypeOK, Hands
  <2>3. Owed' = Owed /\ Serving' = Serving
    BY <2>1, <2>2 DEF Owed, Serving
  <2> QED  BY <1>1, <2>1, <2>3, NoteStep
<1>12. CASE UNCHANGED vars
  BY <1>12 DEF vars, Plan!vars, Owed, Serving
<1> QED
  BY <1>3, <1>4, <1>5, <1>6, <1>7, <1>8, <1>9, <1>10, <1>11, <1>12
  DEF Next, Driver, World

\* A reported job stays owed until its new state is sent or the stream
\* breaks: the watcher implements RefreshPlan.
THEOREM PlanTheorem == Spec => PlanKept
<1>1. IInv /\ IInv' /\ [Next]_vars => [Plan!Next]_(Plan!vars)
  BY PlanStep
<1> QED  BY <1>1, PlanInit, Invariant, PTL DEF Spec, PlanKept, Plan!Spec
=============================================================================

-------------------------- MODULE ClusterViewProofs --------------------------
(***************************************************************************)
(* Theorems about the view of a cluster, for every set of jobs, agents and *)
(* tasks.                                                                  *)
(*                                                                         *)
(* The invariant says of the jobs that are not dirty that their row holds  *)
(* the addresses of their running tasks.  What build_job() gives is        *)
(* compared with the running tasks once, for a single state (BuiltExactly).*)
(***************************************************************************)
EXTENDS ClusterView, TLAPS

Slotted == {SlotIp(pid) : pid \in Slots}

\* What the property says of one task: it runs and has this address.
HasAddress(a, t, ip) ==
  IF a = LocalNode /\ t.byHop /\ t.pid \in Slots THEN ip = SlotIp(t.pid)
  ELSE a \in DOMAIN agents /\ ip = agents[a]

Answered(a) == IF tasks[a] = Silent THEN {} ELSE tasks[a]

Running(job) ==
  {ip \in Addresses \cup Slotted :
     \E a \in DOMAIN tasks : \E t \in Answered(a) :
       t.job = job /\ t.running /\ HasAddress(a, t, ip)}

\* The invariant: a row whose job is not dirty holds what runs.
RowsAreExact == \A job \in Jobs \ dirty : Shown(view, job) = Running(job)

IInv == TypeOK /\ RowsAreExact

-----------------------------------------------------------------------------
(* What build_job() gives.                                                 *)

\* fn task_ip: an address of a running task is the slot's or the agent's.
LEMMA TaskIpIs ==
  ASSUME TypeOK, NEW a \in DOMAIN tasks, NEW t \in Tasks, NEW ip, ip # NoAddress
  PROVE  TaskIp(a, t) = ip
           <=> t.running /\ HasAddress(a, t, ip) /\ ip \in Addresses \cup Slotted
<1>1. t.running \in BOOLEAN /\ t.byHop \in BOOLEAN /\ t.pid \in Pids
  BY DEF Tasks
<1>2. CASE ~t.running
  BY <1>1, <1>2 DEF TaskIp
<1>3. CASE t.running /\ a = LocalNode /\ t.byHop /\ t.pid \in Slots
  BY <1>1, <1>3 DEF TaskIp, HasAddress, Slotted
<1>4. CASE t.running /\ ~(a = LocalNode /\ t.byHop /\ t.pid \in Slots)
  <2>1. TaskIp(a, t) = AgentIp(a)
    BY <1>4 DEF TaskIp
  <2>2. HasAddress(a, t, ip) <=> a \in DOMAIN agents /\ ip = agents[a]
    BY <1>4 DEF HasAddress
  <2> QED  BY <1>4, <2>1, <2>2 DEF AgentIp, TypeOK
<1> QED  BY <1>1, <1>2, <1>3, <1>4

\* fn build_job gives the addresses of the running tasks of the job.
LEMMA BuiltExactly ==
  ASSUME TypeOK, NEW job \in Jobs
  PROVE  BuildJob(job) = Running(job)
<1>1. ASSUME NEW ip \in BuildJob(job)
      PROVE  ip \in Running(job)
  <2>1. PICK x \in Placed : x[2].job = job /\ TaskIp(x[1], x[2]) = ip
    BY <1>1 DEF BuildJob
  <2>2. /\ x[1] \in DOMAIN tasks /\ x[2] \in Tasks
        /\ x[2] \in Answered(x[1])
    BY <2>1 DEF Placed, Answered
  <2>3. ip # NoAddress
    BY <1>1 DEF BuildJob
  <2> QED  BY <2>1, <2>2, <2>3, TaskIpIs DEF Running
<1>2. ASSUME NEW ip \in Running(job)
      PROVE  ip \in BuildJob(job)
  <2>0. PICK a \in DOMAIN tasks :
          \E t \in Answered(a) : t.job = job /\ t.running /\ HasAddress(a, t, ip)
    BY <1>2 DEF Running
  <2>1. PICK t \in Answered(a) : t.job = job /\ t.running /\ HasAddress(a, t, ip)
    BY <2>0
  <2>2. t \in Tasks /\ tasks[a] # Silent /\ t \in tasks[a]
    BY <2>1 DEF Answered, TypeOK
  <2>3. ip # NoAddress /\ ip \in Addresses \cup Slotted
    BY <1>2, ViewAssumption DEF Running, Slotted
  <2>4. TaskIp(a, t) = ip
    BY <2>1, <2>2, <2>3, TaskIpIs
  <2>5. <<a, t>> \in Placed
    BY <2>2 DEF Placed
  <2> QED  BY <2>1, <2>3, <2>4, <2>5 DEF BuildJob
<1> QED  BY <1>1, <1>2

\* The agents and the tasks decide which addresses run a job.
LEMMA SameRunning ==
  ASSUME NEW job \in Jobs, UNCHANGED <<agents, tasks>>
  PROVE  Running(job)' = Running(job)
BY DEF Running, Answered, HasAddress

\* A task that comes or goes changes the addresses of its own job only.
LEMMA OtherJobs ==
  ASSUME TypeOK, NEW a \in Agents, NEW t \in Tasks, StartTask(a, t) \/ StopTask(a, t),
         NEW job \in Jobs, job # t.job
  PROVE  Running(job)' = Running(job)
<1>1. /\ a \in DOMAIN tasks /\ tasks[a] # Silent /\ tasks[a] \subseteq Tasks
      /\ DOMAIN tasks' = DOMAIN tasks
      /\ \A b \in DOMAIN tasks : b # a => tasks'[b] = tasks[b]
      /\ UNCHANGED agents
  BY DEF StartTask, StopTask, TypeOK
<1>2. tasks'[a] \subseteq Tasks
  <2>1. CASE StartTask(a, t)
    BY <1>1, <2>1 DEF StartTask
  <2>2. CASE StopTask(a, t)
    <3>1. [t EXCEPT !.running = FALSE] \in Tasks
      BY DEF Tasks
    <3> QED  BY <1>1, <2>2, <3>1 DEF StopTask
  <2> QED  BY <2>1, <2>2
<1>3. tasks'[a] # Silent
  BY <1>2, SilentAssumption
<1>4. \A u : u.job = job => (u \in tasks'[a] <=> u \in tasks[a])
  <2>1. CASE StartTask(a, t)
    BY <1>1, <2>1 DEF StartTask
  <2>2. CASE StopTask(a, t)
    <3>1. [t EXCEPT !.running = FALSE].job = t.job
      BY DEF Tasks
    <3> QED  BY <1>1, <2>2, <3>1 DEF StopTask
  <2> QED  BY <2>1, <2>2
<1>5. \A b \in DOMAIN tasks : \A u : u.job = job => (u \in Answered(b)' <=> u \in Answered(b))
  BY <1>1, <1>3, <1>4 DEF Answered
<1>6. \A b \in DOMAIN tasks : \A u, ip : HasAddress(b, u, ip)' <=> HasAddress(b, u, ip)
  BY <1>1 DEF HasAddress
<1> QED  BY <1>1, <1>5, <1>6 DEF Running

-----------------------------------------------------------------------------
(* The invariant.                                                          *)

\* At the start every job is dirty.
LEMMA InitIInv == Init => IInv
BY DEF Init, IInv, TypeOK, RowsAreExact

\* Every address that build_job() gives is one of an agent or of a slot.
LEMMA BuiltAddresses ==
  ASSUME TypeOK, NEW job \in Jobs
  PROVE  BuildJob(job) \subseteq Addresses \cup Slotted
BY BuiltExactly DEF Running

\* Every action keeps the types.
LEMMA NextTypeOK ==
  ASSUME TypeOK, [Next]_vars
  PROVE  TypeOK'
<1>1. CASE RefreshFull
  BY <1>1, BuiltAddresses DEF RefreshFull, BuildJobs, TypeOK, Slotted
<1>2. ASSUME NEW job \in Jobs, RefreshJob(job)
      PROVE  TypeOK'
  BY <1>2, BuiltAddresses DEF RefreshJob, TypeOK, Slotted, Put
<1>3. ASSUME NEW a \in Agents, ChangeAgent(a)
      PROVE  TypeOK'
  BY <1>3 DEF ChangeAgent, TypeOK, Restrict, Put
<1>4. ASSUME NEW a \in Agents, ChangeAnswer(a)
      PROVE  TypeOK'
  BY <1>4 DEF ChangeAnswer, TypeOK, Restrict, Put
<1>5. ASSUME NEW a \in Agents, NEW t \in Tasks, StartTask(a, t)
      PROVE  TypeOK'
  <2>1. t.job \in Jobs
    BY DEF Tasks
  <2> QED  BY <1>5, <2>1 DEF StartTask, TypeOK
<1>6. ASSUME NEW a \in Agents, NEW t \in Tasks, StopTask(a, t)
      PROVE  TypeOK'
  <2>1. t.job \in Jobs /\ [t EXCEPT !.running = FALSE] \in Tasks
    BY DEF Tasks
  <2> QED  BY <1>6, <2>1 DEF StopTask, TypeOK
<1>7. CASE UNCHANGED vars
  BY <1>7 DEF vars, TypeOK
<1> QED  BY <1>1, <1>2, <1>3, <1>4, <1>5, <1>6, <1>7 DEF Next

\* Every action keeps the rows: a refresh makes them what build_job() gives,
\* and a change makes dirty every job whose addresses it may touch.
LEMMA NextRows ==
  ASSUME TypeOK, RowsAreExact, [Next]_vars
  PROVE  RowsAreExact'
<1>1. CASE RefreshFull
  <2>1. UNCHANGED <<agents, tasks>>
    BY <1>1 DEF RefreshFull
  <2>2. \A job \in Jobs : Shown(view, job)' = BuildJob(job)
    BY <1>1 DEF RefreshFull, Shown, BuildJobs
  <2> QED  BY <2>1, <2>2, SameRunning, BuiltExactly DEF RowsAreExact
<1>2. ASSUME NEW job \in Jobs, RefreshJob(job)
      PROVE  RowsAreExact'
  <2>1. UNCHANGED <<agents, tasks>> /\ dirty' = dirty \ {job}
    BY <1>2 DEF RefreshJob
  <2>2. \A other \in Jobs : Shown(view, other)' =
          IF other = job THEN BuildJob(job) ELSE Shown(view, other)
    BY <1>2 DEF RefreshJob, Shown, Put
  <2> QED  BY <2>1, <2>2, SameRunning, BuiltExactly DEF RowsAreExact
<1>3. ASSUME NEW a \in Agents, ChangeAgent(a) \/ ChangeAnswer(a)
      PROVE  RowsAreExact'
  BY <1>3 DEF ChangeAgent, ChangeAnswer, RowsAreExact
<1>4. ASSUME NEW a \in Agents, NEW t \in Tasks, StartTask(a, t) \/ StopTask(a, t)
      PROVE  RowsAreExact'
  <2>1. view' = view /\ dirty' = dirty \cup {t.job}
    BY <1>4 DEF StartTask, StopTask
  <2>2. ASSUME NEW job \in Jobs \ dirty'
        PROVE  Shown(view, job)' = Running(job)'
    <3>1. job \in Jobs \ dirty /\ job # t.job
      BY <2>1, <2>2
    <3> QED  BY <1>4, <2>1, <3>1, OtherJobs DEF RowsAreExact, Shown
  <2> QED  BY <2>2 DEF RowsAreExact
<1>5. CASE UNCHANGED vars
  BY <1>5, SameRunning DEF vars, RowsAreExact, Shown
<1> QED  BY <1>1, <1>2, <1>3, <1>4, <1>5 DEF Next

-----------------------------------------------------------------------------
(* The theorems.                                                           *)

\* The invariant holds in every state.
LEMMA Invariant == Spec => []IInv
<1>1. IInv /\ [Next]_vars => IInv'
  BY NextTypeOK, NextRows DEF IInv
<1> QED  BY InitIInv, <1>1, PTL DEF Spec

\* The rows of a cluster hold addresses of agents and of slots that exist
\* (TypeOK): no pid outside 1..SLOT_MAX is taken for a slot by task_ip().
THEOREM TypeCorrect == Spec => []TypeOK
<1>1. IInv => TypeOK
  BY DEF IInv
<1> QED  BY Invariant, <1>1, PTL

\* Refreshing only the jobs that events name gives the addresses that a
\* rebuild gives (IncrementalIsExact), in any order of build_job(),
\* build_jobs() and changes.
THEOREM ExactTheorem == Spec => []IncrementalIsExact
<1>1. IInv => IncrementalIsExact
  BY DEF IInv, RowsAreExact, IncrementalIsExact, Running, HasAddress, Answered, Slotted
<1> QED  BY Invariant, <1>1, PTL
=============================================================================

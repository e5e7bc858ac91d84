----------------------------- MODULE ClusterView -----------------------------
(***************************************************************************)
(* How the view of one cluster is built from what Hop answers, in one go   *)
(* (build_jobs) or one job at a time (build_job), and what the two leave   *)
(* in the cache (src/src/watcher.rs, src/src/cache.rs).                    *)
(*                                                                         *)
(* Data.  An endpoint is the address it holds, or NoAddress for one that   *)
(* extract_ip cannot read.  Agents are the rows of GET /v1/agents by id;   *)
(* the tasks of an agent are a set, or Silent when the leader got no       *)
(* answer.  Address lists hold each address once and are sets here.  Job   *)
(* names are in lower case: the code folds them on both ways.              *)
(***************************************************************************)
EXTENDS FiniteSets, Integers, Functions, TLC

CONSTANTS
  Jobs,       \* job names
  Agents,     \* agent ids
  Pids,       \* process ids of tasks
  Slots,      \* the pids that are slots: 1..SLOT_MAX
  Addresses,  \* addresses of agents
  LocalNode,  \* the resident's own node (ER_ATTR_NODE_ID), or NoNode
  NoAddress, NoNode, Silent,
  MaxTasks    \* bound: tasks of one agent

SlotIp(pid) == [slot |-> pid]

\* A row written: f with v at k.
Put(f, k, v) == [x \in DOMAIN f \cup {k} |-> IF x = k THEN v ELSE f[x]]

ASSUME ViewAssumption ==
  /\ Slots \subseteq Pids
  /\ LocalNode \in Agents \cup {NoNode}
  /\ NoAddress \notin Addresses \cup {SlotIp(pid) : pid \in Slots}

Tasks == [job : Jobs, running : BOOLEAN, byHop : BOOLEAN, pid : Pids]

\* No answer is something else than any answer.
ASSUME SilentAssumption == \A answer \in SUBSET Tasks : answer # Silent

VARIABLES
  agents,  \* the rows of /v1/agents: id to endpoint
  tasks,   \* the rows of /v1/tasks: id to its tasks
  view,    \* the cluster's row in the cache: job to addresses
  dirty    \* the jobs that changed since they were last read

vars == <<agents, tasks, view, dirty>>

-----------------------------------------------------------------------------
(* Building.                                                               *)

\* fn agent_ip: no row, or no address in its endpoint, is no address.
AgentIp(a) == IF a \in DOMAIN agents THEN agents[a] ELSE NoAddress

\* Mutant: every pid of a hop task is taken for a slot.
TaskIpAnySlot(a, t) ==
  IF ~t.running THEN NoAddress
  ELSE IF a = LocalNode /\ t.byHop THEN SlotIp(t.pid)
  ELSE AgentIp(a)

\* fn task_ip
TaskIp(a, t) ==
  IF ~t.running THEN NoAddress
  ELSE IF a = LocalNode /\ t.byHop /\ t.pid \in Slots THEN SlotIp(t.pid)
  ELSE AgentIp(a)

\* Every task answered for, with its agent.
Placed ==
  {x \in (DOMAIN tasks) \X Tasks : tasks[x[1]] # Silent /\ x[2] \in tasks[x[1]]}

\* fn build_job: the addresses of one job.
BuildJob(job) ==
  {TaskIp(x[1], x[2]) : x \in {y \in Placed : y[2].job = job}} \ {NoAddress}

\* fn build_jobs: a job without an address has no row.
BuildJobs ==
  [job \in {j \in Jobs : BuildJob(j) # {}} |-> BuildJob(job)]

-----------------------------------------------------------------------------
Init ==
  /\ agents = [a \in {} |-> NoAddress]
  /\ tasks = [a \in {} |-> {}]
  /\ view = [job \in {} |-> {}]
  /\ dirty = Jobs

\* Mutant: a full refresh adds to the row and removes nothing.
RefreshFullAdds ==
  /\ view' = BuildJobs @@ view
  /\ dirty' = {}
  /\ UNCHANGED <<agents, tasks>>

\* A full refresh: Update::Replace, Cache::update.
RefreshFull ==
  /\ view' = BuildJobs
  /\ dirty' = {}
  /\ UNCHANGED <<agents, tasks>>

\* A job refresh: Update::Set, Cache::set.
RefreshJob(job) ==
  /\ view' = Put(view, job, BuildJob(job))
  /\ dirty' = dirty \ {job}
  /\ UNCHANGED <<agents, tasks>>

\* The world: an agent comes, goes or moves, answers the leader or not (an
\* `agent` event), ...
ChangeAgent(a) ==
  /\ \/ \E ip \in Addresses \cup {NoAddress} : agents' = Put(agents, a, ip)
     \/ agents' = Restrict(agents, DOMAIN agents \ {a})
  /\ dirty' = Jobs
  /\ UNCHANGED <<tasks, view>>

ChangeAnswer(a) ==
  /\ \/ tasks' = Put(tasks, a, Silent)
     \/ tasks' = Put(tasks, a, {})
     \/ tasks' = Restrict(tasks, DOMAIN tasks \ {a})
  /\ dirty' = Jobs
  /\ UNCHANGED <<agents, view>>

\* ... and a task starts, or stops and stays listed (a `task` event).
StartTask(a, t) ==
  /\ a \in DOMAIN tasks /\ tasks[a] # Silent
  /\ Cardinality(tasks[a]) < MaxTasks
  /\ tasks' = [tasks EXCEPT ![a] = @ \cup {t}]
  /\ dirty' = dirty \cup {t.job}
  /\ UNCHANGED <<agents, view>>

StopTask(a, t) ==
  /\ a \in DOMAIN tasks /\ tasks[a] # Silent
  /\ t \in tasks[a] /\ t.running
  /\ tasks' = [tasks EXCEPT ![a] = (@ \ {t}) \cup {[t EXCEPT !.running = FALSE]}]
  /\ dirty' = dirty \cup {t.job}
  /\ UNCHANGED <<agents, view>>

Next ==
  \/ RefreshFull
  \/ \E job \in Jobs : RefreshJob(job)
  \/ \E a \in Agents : ChangeAgent(a) \/ ChangeAnswer(a)
  \/ \E a \in Agents, t \in Tasks : StartTask(a, t) \/ StopTask(a, t)

Spec == Init /\ [][Next]_vars

-----------------------------------------------------------------------------
(* Properties *)

\* Every variable keeps its type.
TypeOK ==
  /\ DOMAIN agents \subseteq Agents
  /\ \A a \in DOMAIN agents : agents[a] \in Addresses \cup {NoAddress}
  /\ DOMAIN tasks \subseteq Agents
  /\ \A a \in DOMAIN tasks : tasks[a] = Silent \/ tasks[a] \subseteq Tasks
  /\ DOMAIN view \subseteq Jobs
  /\ \A job \in DOMAIN view :
       view[job] \subseteq Addresses \cup {SlotIp(pid) : pid \in Slots}
  /\ dirty \subseteq Jobs

Shown(row, job) == IF job \in DOMAIN row THEN row[job] ELSE {}

\* Refreshing only the jobs that events name gives the same addresses as
\* rebuilding everything: a job whose last change has been read shows exactly
\* the addresses of its running tasks, whichever refreshes led there.
IncrementalIsExact ==
  \A job \in Jobs \ dirty :
    Shown(view, job) =
      {ip \in Addresses \cup {SlotIp(pid) : pid \in Slots} :
         \E a \in DOMAIN tasks : \E t \in IF tasks[a] = Silent THEN {} ELSE tasks[a] :
           /\ t.job = job /\ t.running
           /\ LET own == a = LocalNode /\ t.byHop /\ t.pid \in Slots
              IN  IF own THEN ip = SlotIp(t.pid)
                         ELSE a \in DOMAIN agents /\ ip = agents[a]}

\* A service that Hop lists stays known while it has no running task: it
\* answers NOERROR without records, not NXDOMAIN.
ListedIsKnown ==
  \A job \in Jobs \ dirty :
    (\E a \in DOMAIN tasks :
       tasks[a] # Silent /\ \E t \in tasks[a] : t.job = job)
      => job \in DOMAIN view
=============================================================================

------------------------------ MODULE Runtime -------------------------------
(***************************************************************************)
(* GraphScheduler and AppAgents around the GraphSteward.                   *)
(*                                                                         *)
(* A call on the steward is atomic (its own lock).  After the call has     *)
(* published, and outside the steward's lock, the calling thread runs      *)
(* the scheduler's callback: it waits for the scheduler's lock and goes    *)
(* through schedule() in several calls on the steward, between which       *)
(* other threads publish.  Worker threads loop over AppAgent.run_once;     *)
(* client threads (planner, operator) submit tasks and use the rest of     *)
(* the steward.                                                            *)
(***************************************************************************)
EXTENDS GraphSteward, FiniteSets

CONSTANTS
  Worker, Client,  \* threads
  AgentOf,         \* the AppAgent a worker thread serves
  Resource,        \* resource keys, "app_service:..." among them
  Capacity,        \* their capacities
  Needs,           \* the resources an agent's profile asks for: its service and its defaults
  Required,        \* required_resources of each WORK
  Malformed,       \* an identity that the registry decodes and no schema canonicalises
  MaxAsg           \* bound: assignments ever created

Thread == Worker \cup Client

ASSUME ThreadAssumption ==
  /\ Worker \cap Client = {} /\ None \notin Thread
  /\ AgentOf \in [Worker -> Agent]
  /\ MaxAsg \in Nat /\ Assignment = 1 .. MaxAsg
ASSUME ResourceAssumption ==
  /\ Capacity \in [Resource -> Nat \ {0}]
  /\ Needs \in [Agent -> (SUBSET Resource) \ {{}}]
  /\ Required \in [WorkId -> SUBSET Resource]
ASSUME MalformedAssumption == Malformed \notin Identity \cup {None}

VARIABLES
  pc,         \* what each thread does next
  mine,       \* the assignment a worker thread has picked
  candidates, \* ready WORK that schedule() still has to consider
  lock,       \* the thread in schedule(), or None
  owner,      \* GraphScheduler._assignments: the WORK of each live assignment
  leases,     \* ResourceTable._leases, as <<owner, key>>
  nextAsg     \* fresh assignment ids

scheduler == <<candidates, lock, owner, leases, nextAsg>>
rvars == <<vars, pc, mine, scheduler>>

RInit ==
  /\ Init
  /\ pc = [th \in Thread |-> "idle"]
  /\ mine = [th \in Worker |-> None]
  /\ candidates = {}
  /\ lock = None
  /\ owner = [s \in Assignment |-> None]
  /\ leases = {}
  /\ nextAsg = 1

Goto(th, from, to) == pc[th] = from /\ pc' = [pc EXCEPT ![th] = to]

-----------------------------------------------------------------------------
(* ResourceTable                                                           *)

\* What schedule() leases for a WORK of an agent: its requirements without repetition
NeedsOf(w, g) == Needs[g] \cup Required[w]

Leased(r) == {l \in leases : l[2] = r}

AvailableOneMore(rs) == \A r \in rs : Cardinality(Leased(r)) <= Capacity[r]  \* mutant of Available

\* try_acquire: all the keys or none
Available(rs) == \A r \in rs : Cardinality(Leased(r)) < Capacity[r]

ReleasedNothing(ss) == leases  \* mutant of Released

\* release_owner
Released(ss) == {l \in leases : l[1] \notin ss}

-----------------------------------------------------------------------------
(* schedule(), run by the thread whose event triggered it                  *)

FinishedOnceStarted ==  \* mutant of Finished
  {s \in Assignment : owner[s] # None /\ status[owner[s]] \in {"RUNNING", "DONE", "FAILED"}}

\* The lock is taken and the assignments of finished WORK are released.
Finished == {s \in Assignment : owner[s] # None /\ status[owner[s]] \in {"DONE", "FAILED"}}

ScheduleEnter(th) ==
  /\ Goto(th, "notify", "refresh")
  /\ lock = None
  /\ lock' = th
  /\ leases' = Released(Finished)
  /\ owner' = [s \in Assignment |-> IF s \in Finished THEN None ELSE owner[s]]
  /\ UNCHANGED <<vars, mine, candidates, nextAsg>>

ScheduleRefresh(th) ==
  /\ Goto(th, "refresh", "read")
  /\ IF NeedsRefresh THEN RefreshReadiness ELSE UNCHANGED vars
  /\ UNCHANGED <<mine, scheduler>>

ScheduleRead(th) ==
  /\ Goto(th, "read", "assign")
  /\ candidates' = {w \in WorkId : status[w] = "READY"}
  /\ UNCHANGED <<vars, mine, lock, owner, leases, nextAsg>>

\* The candidate is skipped when a resource is taken.
ScheduleSkip(th, w) ==
  /\ pc[th] = "assign"
  /\ w \in candidates
  /\ ~Available(NeedsOf(w, work[w].agent))
  /\ candidates' = candidates \ {w}
  /\ UNCHANGED <<vars, pc, mine, lock, owner, leases, nextAsg>>

ScheduleAssign(th, w) ==
  /\ pc[th] = "assign"
  /\ w \in candidates
  /\ Available(NeedsOf(w, work[w].agent))
  /\ nextAsg <= MaxAsg
  /\ Assign(w, nextAsg)
  /\ candidates' = candidates \ {w}
  /\ leases' = leases \cup {<<nextAsg, r>> : r \in NeedsOf(w, work[w].agent)}
  /\ owner' = [owner EXCEPT ![nextAsg] = w]
  /\ nextAsg' = nextAsg + 1
  /\ UNCHANGED <<pc, mine, lock>>

\* assign raises, because the candidate is no longer READY: its leases are given
\* back and the exception leaves schedule() and the call that triggered it.
ScheduleRaise(th, w) ==
  /\ Goto(th, "assign", "idle")
  /\ w \in candidates
  /\ Available(NeedsOf(w, work[w].agent))
  /\ status[w] # "READY"
  /\ candidates' = {}
  /\ lock' = None
  /\ UNCHANGED <<vars, mine, owner, leases, nextAsg>>

ScheduleLeave(th) ==
  /\ Goto(th, "assign", "idle")
  /\ candidates = {}
  /\ lock' = None
  /\ UNCHANGED <<vars, mine, candidates, owner, leases, nextAsg>>

Schedule(th) ==
  \/ ScheduleEnter(th) \/ ScheduleRefresh(th) \/ ScheduleRead(th)
  \/ \E w \in WorkId : ScheduleSkip(th, w) \/ ScheduleAssign(th, w) \/ ScheduleRaise(th, w)
  \/ ScheduleLeave(th)

-----------------------------------------------------------------------------
(* AppAgent.run_once                                                       *)

PendingStarted(g) ==  \* mutant of Pending
  {s \in Assignment : owner[s] # None /\ work[owner[s]].agent = g /\ status[owner[s]] = "RUNNING"}

\* assignments_for
Pending(g) == {s \in Assignment : owner[s] # None /\ work[owner[s]].agent = g /\ status[owner[s]] = "ASSIGNED"}

\* The oldest WORK assigned to the agent is picked ...
RunPick(th) ==
  /\ Goto(th, "idle", "claim")
  /\ lock = None
  /\ \E s \in Pending(AgentOf[th]) :
       /\ \A o \in Pending(AgentOf[th]) : owner[s] <= owner[o]
       /\ mine' = [mine EXCEPT ![th] = s]
  /\ UNCHANGED <<vars, scheduler>>

RunClaimUnchecked(th) ==  \* mutant of RunClaim
  /\ Goto(th, "claim", "execute")
  /\ lock = None
  /\ owner[mine[th]] # None
  /\ status' = [status EXCEPT ![owner[mine[th]]] = "RUNNING"]
  /\ UNCHANGED <<work, asg, outcome, art, edges, active, history, task, nextWork, nextArt, now, mine, scheduler>>

\* ... and claimed in a second call,
RunClaim(th) ==
  /\ Goto(th, "claim", "execute")
  /\ lock = None
  /\ owner[mine[th]] # None
  /\ Start(owner[mine[th]], mine[th])
  /\ UNCHANGED <<mine, scheduler>>

\* which raises when another thread of the agent was faster.
RunClaimRaise(th) ==
  /\ Goto(th, "claim", "idle")
  /\ lock = None
  /\ owner[mine[th]] # None => status[owner[mine[th]]] # "ASSIGNED"
  /\ mine' = [mine EXCEPT ![th] = None]
  /\ UNCHANGED <<vars, scheduler>>

\* The WORK the thread executes
Current(th) == CHOOSE w \in WorkId : asg[w] = mine[th]

RunCommitSilently(th) ==  \* mutant of RunCommit
  /\ Goto(th, "execute", "idle")
  /\ \E complete \in BOOLEAN, d \in Draft :
       CommitWork(Current(th), mine[th], complete, d) \/ RejectWork(Current(th), mine[th], complete)
  /\ mine' = [mine EXCEPT ![th] = None]
  /\ UNCHANGED scheduler

\* The executor's result goes to the steward; a raised exception is a failure.
RunCommit(th) ==
  /\ Goto(th, "execute", "notify")
  /\ \E complete \in BOOLEAN, d \in Draft :
       CommitWork(Current(th), mine[th], complete, d) \/ RejectWork(Current(th), mine[th], complete)
  /\ mine' = [mine EXCEPT ![th] = None]
  /\ UNCHANGED scheduler

RunFail(th) ==
  /\ Goto(th, "execute", "notify")
  /\ FailWork(Current(th), mine[th])
  /\ mine' = [mine EXCEPT ![th] = None]
  /\ UNCHANGED scheduler

RunExpand(th, g, i, age, d) ==
  /\ Goto(th, "execute", "notify")
  /\ ExpandWork(Current(th), mine[th], g, i, age, d)
  /\ mine' = [mine EXCEPT ![th] = None]
  /\ UNCHANGED scheduler

\* The steward refuses the expansion: the exception leaves run_once, and nothing
\* reports the WORK as failed.
RunExpandRaise(th, g, i) ==
  /\ Goto(th, "execute", "idle")
  /\ g \in Capable => ~ExpansionKeyDefined(i, work[Current(th)].tasks)
  /\ mine' = [mine EXCEPT ![th] = None]
  /\ UNCHANGED <<vars, scheduler>>

-----------------------------------------------------------------------------
(* Client threads                                                          *)

\* Events the scheduler's callback answers with schedule()
ClientSubmit(th) ==
  /\ Goto(th, "idle", "notify")
  /\ \E t \in Task, f \in Fragment : SubmitTask(t, f)
  /\ UNCHANGED <<mine, scheduler>>

ClientInvalidate(th) ==
  /\ Goto(th, "idle", "notify")
  /\ SweepExpired \/ \E a \in ArtId : InvalidateArtifact(a)
  /\ UNCHANGED <<mine, scheduler>>

\* Events it ignores: artifact_resolved, task_evaluated
ClientResolve(th) ==
  /\ pc[th] = "idle"
  /\ \E c \in WorkId, t \in Task, i \in Identity \cup {None}, age \in Age, g \in Agent : ResolveArtifact(c, t, i, age, g)
  /\ UNCHANGED <<pc, mine, scheduler>>

ClientEvaluate(th) ==
  /\ pc[th] = "idle"
  /\ \E t \in Task, success \in BOOLEAN : EvaluateTask(t, success)
  /\ UNCHANGED <<pc, mine, scheduler>>

-----------------------------------------------------------------------------
\* What comes of an execution
Report(th) ==
  \/ RunCommit(th) \/ RunFail(th)
  \/ \E g \in Agent, i \in Identity \cup {None}, age \in Age, d \in Draft : RunExpand(th, g, i, age, d)
  \/ \E g \in Agent, i \in Identity \cup {None, Malformed} : RunExpandRaise(th, g, i)

Run(th) == RunPick(th) \/ RunClaim(th) \/ RunClaimRaise(th) \/ Report(th)

RTick == Tick /\ UNCHANGED <<pc, mine, scheduler>>

RNext ==
  \/ \E th \in Thread : Schedule(th)
  \/ \E th \in Worker : Run(th)
  \/ \E th \in Client : ClientSubmit(th) \/ ClientInvalidate(th) \/ ClientResolve(th) \/ ClientEvaluate(th)
  \/ RTick

RSpec == RInit /\ [][RNext]_rvars

\* Every operation but direct resolution, whose event the scheduler ignores.
NotifyingNext ==
  \/ \E th \in Thread : Schedule(th)
  \/ \E th \in Worker : Run(th)
  \/ \E th \in Client : ClientSubmit(th) \/ ClientInvalidate(th) \/ ClientEvaluate(th)
  \/ RTick

NotifyingSpec == RInit /\ [][NotifyingNext]_rvars

\* Threads keep running: an event is answered, run_once is called again and
\* again, and an executor, whose steps are bounded, comes to a result.
RFairness ==
  /\ \A th \in Thread : WF_rvars(Schedule(th))
  /\ \A th \in Worker : /\ WF_rvars(RunPick(th))
                        /\ WF_rvars(RunClaim(th) \/ RunClaimRaise(th))
                        /\ WF_rvars(Report(th))

-----------------------------------------------------------------------------
(* Properties                                                              *)

RTypeOK ==
  /\ TypeOK
  /\ pc \in [Thread -> {"idle", "notify", "refresh", "read", "assign", "claim", "execute"}]
  /\ mine \in [Worker -> Assignment \cup {None}]
  /\ candidates \subseteq WorkId
  /\ lock \in Thread \cup {None}
  /\ owner \in [Assignment -> WorkId \cup {None}]
  /\ leases \subseteq Assignment \X Resource
  /\ nextAsg \in 1 .. MaxAsg + 1

Live(w) == status[w] \in {"ASSIGNED", "RUNNING"}

\* The scheduler and the steward agree on who has which WORK: WORK in an agent's
\* hands has a live assignment, and a live assignment is the one its WORK carries.
AssignmentAgreement ==
  /\ \A w \in WorkId : Live(w) => owner[asg[w]] = w
  /\ \A s \in Assignment : owner[s] # None => asg[owner[s]] = s

\* Leases are held by live assignments only, each holds all it needs, and no
\* resource is leased beyond its capacity, whatever raised on the way.
LeaseDiscipline ==
  /\ leases = UNION {{<<s, r>> : r \in NeedsOf(owner[s], work[owner[s]].agent)} : s \in {x \in Assignment : owner[x] # None}}
  /\ \A r \in Resource : Cardinality(Leased(r)) <= Capacity[r]

\* WORK that is assigned or runs at the same time never overloads a resource: the
\* display of a phone is used by one agent at a time.
ResourceExclusion ==
  \A r \in Resource : Cardinality({w \in WorkId : Live(w) /\ r \in NeedsOf(w, work[w].agent)}) <= Capacity[r]

\* A WORK is executed by at most one thread, by its assignment, and stays RUNNING
\* until that thread reports: no report of an executor is refused for ownership.
ExclusiveExecution ==
  \A th \in Worker : pc[th] = "execute" =>
    /\ Holds(Current(th), mine[th])
    /\ \A other \in Worker \ {th} : pc[other] = "execute" => Current(other) # Current(th)

\* Nobody has anything left to do.
Quiet == \A th \in Thread : pc[th] = "idle"

\* The scheduler assigns READY WORK as long as it has resources for it: when no
\* thread has anything left to do, every READY WORK lacks a resource that WORK in
\* an agent's hands uses up.
NoIdleFrontier ==
  Quiet => \A w \in WorkId : status[w] = "READY" =>
    \E r \in NeedsOf(w, work[w].agent) :
      Cardinality({v \in WorkId : Live(v) /\ r \in NeedsOf(v, work[v].agent)}) >= Capacity[r]

\* RUNNING, but the agent's call ended in an exception and nobody reports.
Abandoned(w) ==
  status[w] = "RUNNING" /\ \A th \in Worker : pc[th] = "execute" => Current(th) # w

\* Assigned WORK comes to an end: it is DONE or FAILED, unless the steward
\* refused the expansion its agent proposed.
AssignedSettles == \A w \in WorkId : status[w] = "ASSIGNED" ~> status[w] \in {"DONE", "FAILED"} \/ Abandoned(w)

\* READY WORK does not wait forever for a resource, unless abandoned WORK holds it.
ReadyServed ==
  \A w \in WorkId : status[w] = "READY" ~>
    \/ status[w] # "READY"
    \/ \E v \in WorkId : Abandoned(v) /\ NeedsOf(v, work[v].agent) \cap NeedsOf(w, work[w].agent) # {}

=============================================================================

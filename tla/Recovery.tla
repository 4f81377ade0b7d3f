------------------------------ MODULE Recovery ------------------------------
(***************************************************************************)
(* Checkpoints and restarts around the Runtime.                            *)
(*                                                                         *)
(* The graph lives in memory; export_checkpoint writes all of it, with     *)
(* the index, and restore_checkpoint puts it into an empty steward.  A     *)
(* crash ends the process: the graph, the scheduler's assignments and      *)
(* leases, and the threads with what they were executing are gone; the     *)
(* last export and the clock (time.time) are not.  Restore publishes no    *)
(* event, so nobody schedules until something else happens.  Reading a     *)
(* checkpoint back gives the fields it was written from, except the        *)
(* index, which is built again from the artifacts.                         *)
(***************************************************************************)
EXTENDS Runtime

CONSTANT MaxRestarts  \* bound: crashes

ASSUME RestartAssumption == MaxRestarts \in Nat

VARIABLES
  saved,     \* the last checkpoint exported, or None
  restarts,
  handedOut  \* history: WORK that had been assigned in the checkpoint this process restored

cvars == <<rvars, saved, restarts, handedOut>>

CInit == RInit /\ saved = None /\ restarts = 0 /\ handedOut = {}

\* export_checkpoint; a record that does not validate is not exported
ExportCheckpoint ==
  /\ ValidRecord(Exported)
  /\ saved' = Exported
  /\ UNCHANGED <<rvars, restarts, handedOut>>

\* The steward's record becomes g.
Load(g) ==
  /\ work' = g.work /\ status' = g.status /\ asg' = g.asg /\ outcome' = g.outcome
  /\ art' = g.art /\ edges' = g.edges /\ active' = g.active /\ history' = g.history /\ task' = g.task
  /\ nextWork' = g.nextWork /\ nextArt' = g.nextArt

NewRecord ==
  [work |-> [w \in WorkId |-> NoWork], status |-> [w \in WorkId |-> "ABSENT"],
   asg |-> [w \in WorkId |-> None], outcome |-> [w \in WorkId |-> None],
   art |-> [a \in ArtId |-> NoArtifact], edges |-> {},
   active |-> [k \in Key |-> None], history |-> [k \in Key |-> {}],
   task |-> [t \in Task |-> NoTask], nextWork |-> 1, nextArt |-> 1]

AssignmentsKept == owner' = owner /\ leases' = leases  \* mutant of AssignmentsLost
AssignmentsLost == owner' = [s \in Assignment |-> None] /\ leases' = {}

\* The process ends and is started again; assignment ids are random, so none is
\* used twice.
Crash ==
  /\ restarts < MaxRestarts
  /\ restarts' = restarts + 1
  /\ Load(NewRecord)
  /\ AssignmentsLost
  /\ pc' = [th \in Thread |-> "idle"] /\ mine' = [th \in Worker |-> None]
  /\ candidates' = {} /\ lock' = None
  /\ handedOut' = {}
  /\ UNCHANGED <<now, nextAsg, saved>>

HandedOut(g) == {w \in WorkId : g.status[w] \in {"ASSIGNED", "RUNNING", "DONE", "FAILED"}}

Reoffered(g) ==  \* mutant of Decoded
  [g EXCEPT !.status = [w \in WorkId |-> IF @[w] \in {"ASSIGNED", "RUNNING"} THEN "READY" ELSE @[w]]]

\* _record_from_checkpoint: nodes, edges and tasks come back as they were written,
\* also WORK that is assigned or running.
Decoded(g) == g

\* restore_checkpoint, which raises unless the steward is empty
RestoreCheckpoint ==
  /\ saved # None
  /\ ValidRecord(saved)
  /\ Exported = NewRecord
  /\ Load([Decoded(saved) EXCEPT !.active = RebuiltActive(saved.art), !.history = RebuiltHistory(saved.art)])
  /\ handedOut' = HandedOut(saved)
  /\ UNCHANGED <<now, pc, mine, scheduler, saved, restarts>>

CNext ==
  \/ RNext /\ UNCHANGED <<saved, restarts, handedOut>>
  \/ ExportCheckpoint
  \/ Crash
  \/ RestoreCheckpoint

CSpec == CInit /\ [][CNext]_cvars

-----------------------------------------------------------------------------
(* Properties                                                              *)

CTypeOK ==
  /\ RTypeOK
  /\ saved # None =>
       /\ saved.status \in [WorkId -> WorkStatus] /\ saved.asg \in [WorkId -> Assignment \cup {None}]
       /\ saved.active \in [Key -> ArtId \cup {None}] /\ saved.art \in [ArtId -> ArtRecord]
  /\ restarts \in 0 .. MaxRestarts
  /\ handedOut \subseteq WorkId

\* The scheduler and the steward agree on the WORK this process handed out, and
\* WORK that an earlier process handed out is nobody's: no live assignment, which
\* could lease resources or report a result, refers to it.
RestartAgreement ==
  /\ \A w \in WorkId \ handedOut : Live(w) => owner[asg[w]] = w
  /\ \A s \in Assignment : owner[s] # None => asg[owner[s]] = s /\ owner[s] \notin handedOut

\* WORK that the restored checkpoint has as assigned, running or finished is not
\* executed a second time, whatever happens around it: an agent's actions on the
\* phone may have happened already.
NotRepeated == \A th \in Worker : pc[th] = "execute" => Current(th) \notin handedOut

\* Threads that execute at the same time never overload a resource, although the
\* WORK a checkpoint brings back as RUNNING holds no lease.
ExecutionExclusion ==
  \A r \in Resource :
    Cardinality({th \in Worker : pc[th] = "execute" /\ r \in NeedsOf(Current(th), work[Current(th)].agent)}) <= Capacity[r]

=============================================================================

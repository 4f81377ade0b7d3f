-------------------------- MODULE SchedulingPolicy ---------------------------
(***************************************************************************)
(* The orders in which the scheduler may take the ready frontier.          *)
(*                                                                         *)
(* The policies are pure functions of a snapshot of the graph, which is    *)
(* acyclic (Acyclic of GraphSteward).  Here it is any acyclic graph that   *)
(* stays as it is, and its WORK is assigned, runs, commits or fails, and   *)
(* loses and regains usable inputs, so that every mix of statuses occurs.  *)
(* Every state is one the scheduler can read: schedule() refreshes the     *)
(* readiness first.  WORK is numbered in its created_order, which need not *)
(* follow the graph: an expansion puts new WORK in front of old.           *)
(***************************************************************************)
EXTENDS Integers, Sequences, FiniteSetsExt

CONSTANTS
  MaxWork,   \* bound: WORK nodes
  Estimate,  \* metadata["estimated_duration"], BadEstimate if it is not a number
  BadEstimate

ASSUME PolicyAssumption == MaxWork \in Nat /\ Estimate \subseteq Int \cup {BadEstimate} /\ BadEstimate \notin Int

VARIABLES
  estimate,    \* the metadata of each WORK, in created_order
  successors,  \* work_successors(): by control edges and by produced artifacts
  status,      \* WorkStatus
  unusable     \* WORK with an input that is there but does not satisfy it: expired,
               \* invalidated or too old

pvars == <<estimate, successors, status, unusable>>

WorkStatus == {"BLOCKED", "READY", "ASSIGNED", "RUNNING", "DONE", "FAILED"}

Work == DOMAIN estimate

\* The WORK that comes after w, however far
Descendants ==
  LET below[w \in Work] == UNION {{v} \cup below[v] : v \in successors[w]}
  IN  below

Predecessors(w) == {p \in Work : w \in successors[p]}

\* _refresh, given the statuses so far and the WORK whose inputs are unusable now
Refreshed(before, stale) ==
  [w \in Work |->
    IF before[w] \notin {"BLOCKED", "READY"} THEN before[w]
    ELSE IF w \notin stale /\ \A p \in Predecessors(w) : before[p] = "DONE" THEN "READY"
    ELSE "BLOCKED"]

\* Any acyclic graph, all of it new
PInit ==
  /\ estimate \in [1 .. MaxWork -> Estimate]
  /\ successors \in [1 .. MaxWork -> SUBSET (1 .. MaxWork)]
  /\ \A S \in (SUBSET (1 .. MaxWork)) \ {{}} : \E w \in S : successors[w] \cap S = {}
  /\ unusable = {}
  /\ status = Refreshed([w \in Work |-> "BLOCKED"], unusable)

\* ready_work_nodes
Candidates == {w \in Work : status[w] = "READY"}

\* _transition_assignment: other WORK stays as it is
Transition(w, expected, target) ==
  /\ status[w] = expected
  /\ status' = [status EXCEPT ![w] = target]
  /\ UNCHANGED <<estimate, successors, unusable>>

Assign(w) == Transition(w, "READY", "ASSIGNED")
Start(w) == Transition(w, "ASSIGNED", "RUNNING")

\* The end of commit_work and of fail_work: the WORK settles and _refresh follows.
Settle(w, outcome) ==
  /\ status[w] = "RUNNING"
  /\ status' = Refreshed([status EXCEPT ![w] = outcome], unusable)
  /\ UNCHANGED <<estimate, successors, unusable>>

Commit(w) == Settle(w, "DONE")
Fail(w) == Settle(w, "FAILED")  \* also a completion that commit_work rejects

\* refresh_readiness and what else recomputes it: inputs have expired or been
\* invalidated, or another artifact has taken their place.
RefreshReadiness(stale) ==
  /\ unusable' = stale
  /\ status' = Refreshed(status, stale)
  /\ UNCHANGED <<estimate, successors>>

PNext ==
  \/ \E w \in Work : Assign(w) \/ Start(w) \/ Commit(w) \/ Fail(w)
  \/ \E stale \in SUBSET {w \in Work : Predecessors(w) # {}} : RefreshReadiness(stale)

PSpec == PInit /\ [][PNext]_pvars

-----------------------------------------------------------------------------
(* The policies                                                            *)

DurationUnclamped(w) == IF estimate[w] = BadEstimate THEN 1 ELSE estimate[w]  \* mutant of Duration

\* estimated_duration
Duration(w) == IF estimate[w] = BadEstimate THEN 1 ELSE Max({0, estimate[w]})

UpwardRanksBySum ==  \* mutant of UpwardRanks
  LET rank[w \in Work] == Duration(w) + MapThenSumSet(LAMBDA v : rank[v], successors[w])
  IN  rank

\* upward_ranks: the time from the start of a WORK to the end of the last one after it
UpwardRanks ==
  LET rank[w \in Work] == Duration(w) + Max({0} \cup {rank[v] : v \in successors[w]})
  IN  rank

DescendantCountsByPath ==  \* mutant of DescendantCounts
  LET count[w \in Work] == MapThenSumSet(LAMBDA v : 1 + count[v], successors[w])
  IN  count

DescendantCounts == [w \in Work |-> Cardinality(Descendants[w])]

\* The sequences of as many candidates as there are
Orders == [1 .. Cardinality(Candidates) -> Candidates]

\* Candidates by descending score, the oldest first among equals
Ordered(score) ==
  CHOOSE s \in Orders : \A j \in DOMAIN s : \A i \in 1 .. j - 1 :
    score[s[i]] > score[s[j]] \/ (score[s[i]] = score[s[j]] /\ s[i] < s[j])

HybridReversed(cp, fo, du) ==  \* mutant of Hybrid
  Ordered([w \in Work |-> cp * UpwardRanks[w] + fo * DescendantCounts[w] + du * Duration(w)])

Fifo == CHOOSE s \in Orders : \A j \in DOMAIN s : \A i \in 1 .. j - 1 : s[i] < s[j]
CriticalPath == Ordered(UpwardRanks)
Fanout == Ordered(DescendantCounts)

\* HybridPolicy with its weights; nothing sets the waiting_age of a WORK.
Hybrid(cp, fo, du) ==
  Ordered([w \in Work |-> cp * UpwardRanks[w] + fo * DescendantCounts[w] - du * Duration(w)])

-----------------------------------------------------------------------------
(* Properties                                                              *)

\* Sequences of WORK in which each is followed by one of its successors
Paths == {s \in UNION {[1 .. k -> Work] : k \in 1 .. MaxWork} :
            \A i \in 1 .. Len(s) - 1 : s[i + 1] \in successors[s[i]]}
TotalTime(s) ==
  LET time[i \in 1 .. Len(s)] == Duration(s[i]) + (IF i = Len(s) THEN 0 ELSE time[i + 1])
  IN  time[1]

\* The rank of a WORK, computed through its successors, is the length of the longest
\* path that begins with it.
RankIsLongestPath ==
  \A w \in Work : UpwardRanks[w] = Max({TotalTime(s) : s \in {p \in Paths : p[1] = w}})

\* Descendants that several paths lead to count once.
CountIsReachability ==
  \A w \in Work : DescendantCounts[w] = Cardinality({v \in Work \ {w} : \E s \in Paths : s[1] = w /\ s[Len(s)] = v})

\* WORK that does not go on by being scheduled: it is in hand, has failed, or waits
\* for another artifact
Held == {w \in Work : status[w] \in {"ASSIGNED", "RUNNING", "FAILED"} \/ (status[w] # "DONE" /\ w \in unusable)}

\* WORK that only scheduling keeps from going on: nothing held comes before it.
Open ==
  {w \in Work : status[w] \in {"BLOCKED", "READY"} /\ w \notin Held /\ \A h \in Held : w \notin Descendants[h]}

\* The first WORK of the critical path order is critical for all that only scheduling
\* keeps back, not only among the candidates: as long as there is such WORK, there is
\* a candidate, and none of it has a longer way to go than the first one.
CriticalFirst ==
  \A w \in Open : Candidates # {} /\ UpwardRanks[w] <= UpwardRanks[CriticalPath[1]]

\* With one weight only, the hybrid order is the order of that criterion, and with
\* none it is the order of creation.
HybridGeneralises ==
  /\ Hybrid(0, 0, 0) = Fifo
  /\ Hybrid(1, 0, 0) = CriticalPath
  /\ Hybrid(0, 1, 0) = Fanout
  /\ \A v, w \in Candidates : Duration(v) < Duration(w) =>
       \E i, j \in 1 .. Len(Hybrid(0, 0, 1)) : i < j /\ Hybrid(0, 0, 1)[i] = v /\ Hybrid(0, 0, 1)[j] = w

=============================================================================

# A verification development for Mobile-AgentOS

TLA+ models of the runtime in `src/mobile_agent_os`, the TLC configurations that
check them on small instances, and proofs that TLAPS checks for every instance.

Mobile-AgentOS runs user tasks on a phone. A planner turns a user goal into a
*fragment* of a graph of `WORK` (a job for one app's agent) and `Artifact`
(a result one WORK produces and others consume). The `GraphSteward` keeps one
global graph for all tasks and lets tasks share artifacts that have the same
identity. A scheduler hands READY WORK to agents under resource limits, and each
agent executes its WORK and reports a result, a failure, or a request to expand
the graph while it runs.

## 1. Inventory

| Part | State | Operations | Talks to |
|---|---|---|---|
| `GraphSteward` (graph_space/steward.py) | the record: WORK, artifacts, edges, tasks, events, counters; the ArtifactIndex; a re-entrant lock; subscribers | submit_task_fragment, resolve_artifact, assign, start, commit_work, fail_work, expand_work, invalidate_artifact, sweep_expired, refresh_readiness, evaluate_task, rebuild_artifact_index, export/restore_checkpoint, reads | called by everybody; calls the registry, the clock and, after publishing, each subscriber |
| `ArtifactIndex` (artifact_index.py) | active node and history of each key | register, retire, rebuild, active, history | owned by the steward |
| Registry Table (registry.py) | profiles of apps, artifact schemas | canonicalize, providers, decode | read by steward, planner, UI loop |
| `GraphScheduler` (scheduling/scheduler.py) | live assignments, a lock, the resource table | on_graph_event, schedule, claim, assignments_for | subscribes to the steward; calls refresh_readiness, read, assign, start |
| `ResourceTable` (resources.py) | capacities and leases | ensure, try_acquire, release_owner | owned by the scheduler |
| Policies (policy.py) | none | FIFO, critical path, fan-out, hybrid | called by schedule() |
| `AppAgent` (execution/agent.py) | none | run_once | scheduler (assignments_for, claim), steward (commit, fail, expand) |
| `UiLoopExecutor` (ui_loop.py) | action history of one execution | execute | driver, screen model, registry |
| `AndroidUiDriver` (android/driver.py) | surface locks, display of each app, last observation | launch, observe, act, settle | ADB, accessibility client |
| `GraphPlanner` (planner) | none | plan | text model, registry |
| ADB client, UI tree, accessibility client (android/) | none | commands, parsing of their output, numbering of elements | the phone; called by the driver |
| Accessibility bridge (benchmarks/supporting_apps) | a reference to itself | answers one query: the elements of an app's window on a display | asked by the accessibility client |
| Model clients, prompts | none | HTTP, texts | outside world |
| Harnesses (verification/) | none | l2 probes planner and graph in one thread; l3 runs one thread per agent around the runtime | everything above |
| Mock apps (benchmarks/fixtures) | a form each | UI handlers | shown to the driver |

How they interact. A steward operation takes the lock, works on a deep copy of
the record, ends with a refresh of readiness, a validation, and one assignment
that publishes the copy; an exception before that publishes nothing. Then, still
on the caller's thread but outside the steward's lock, it calls the subscribers.
The scheduler's subscriber answers seven kinds of event with `schedule()`, which
holds the scheduler's lock through several separate steward calls. Agents run in
threads of their own, so between any two calls of one thread another may publish.

What is hard here:

* *expansion*: `expand_work` rewires the graph under a running WORK, while other
  tasks share its neighbours;
* *sharing*: which artifact a key leads to, at every point of the artifact's life
  (promised, concrete, too old, failed, invalidated), from several tasks;
* *freshness*: readiness depends on the clock, but is recomputed by operations only;
* *check then act across calls*: `schedule()` decides on a snapshot, `run_once`
  picks before it claims;
* *crash and restart*: the graph can be written out and restored; the scheduler's
  assignments and leases cannot, and restoring tells nobody;
* *exceptions half-way*: `assign` may raise inside `schedule()`, `expand_work` may
  refuse a proposal, and somebody must still hold or return the leases;
* *the phone*: threads share displays, one input path and the focus; Android may put
  an app on another display than it asked for; any command may fail;
* *borders*: a key computed from texts a language model wrote, an element id that has
  to mean the same to three lists with different limits, a display found by its name;
* *liveness*: work left READY with free resources, or blocked forever, an execution
  that never ends.

What makes each part correct:

* steward: the graph is acyclic, edges and nodes agree, readiness is current,
  nothing runs before its predecessors, tasks are complete only when their terminal
  WORK is, finished WORK and published artifacts are final, nothing promised is
  forgotten, and every record it leaves is one it would accept back;
* index: it is what a rebuild would compute, with one live artifact per key;
* restart: WORK that was handed out before is not executed again, and nothing is leased
  for it;
* registry: two descriptions get one key exactly if they say the same;
* scheduler and resources: leases belong to live assignments and never exceed the
  capacity, assignments agree with the graph, no READY WORK is forgotten;
* agents: one thread executes a WORK, and its report is accepted; WORK that was
  assigned comes to an end;
* policies: ranks and counts are what their names say, whatever the graph, and urgent
  WORK comes first;
* UI loop: it acts on what the model saw, ends, and returns only what the steward takes;
* driver: an app is launched once and its surface is known before it is used,
  screenshot and nodes of an observation belong together, and input reaches its app;
* bridge, UI tree, displays: a snapshot is the top of one window, an id is one element,
  a display is captured by its own surface.

The full list of hazards, each at its source line with the properties that would
catch it, is in `PROJECT.json`.

## 2. Modules

### GraphSteward

One action per public operation of the class. Since every operation holds the lock
from its first read to its publication, each is one atomic step; an operation that
raises `GraphError` changes nothing and is a step that is not enabled.

| Variable | In the code |
|---|---|
| `work`, `status`, `asg`, `outcome` | the fields of `WorkNode`; split so that a refresh can be written as a function of the rest |
| `art` | `ArtifactNode` |
| `edges` | `record.edges` |
| `active`, `history` | `ArtifactIndex._active`, `_history` |
| `task` | `TaskRecord` |
| `nextWork`, `nextArt` | `next_work`, `next_artifact` |
| `now` | what the clock returns |

`SettledWork` and `SettledTasks` are the two halves of `_refresh`, which ends every
operation that can change readiness. `Graft` is the body of a submission: which local
WORK becomes a node (`FreshWork`), where each local name leads (`GlobalArt`,
`GlobalWork`), and the graph afterwards. `Holds`, `Rejects`, `Concretized` and
`FailOutputs` are the private helpers of the reports.

What is abstracted, and why it does not matter to the properties:

* payloads, goals, metadata, evidence, events and the version number: no guard of a
  modelled operation reads them, except the completion gate. It compares drafts with
  outputs; the argument `complete` says whether every output has exactly one draft
  with a value and evidence, and both answers are explored;
* entry_work_ids: computed at submission, never read by an operation;
* identifiers: the number of a node is its identifier and its `created_order`, for
  both are handed out by the same counters in the same order. The generation of an
  artifact is its place in the history of its key, which the numbers give too;
* artifact identities are model values that are already canonical
  (`ArtifactIdentity` is about how they become so); the scope a schema
  adds (`task:<id>`) is modelled by `KeyOf`. An expansion may come with an identity that
  no schema canonicalises: `ExpansionKeyDefined` is false of it and the operation raises,
  which in `Runtime` is a step (`RunExpandRaise`, `Malformed`);
* the lock of the steward: each operation is one step. The event goes out in a later
  step (`notify` in `Runtime`), as in the code;
* one reading of the clock per operation, and a clock that does not go back. The code
  may read the clock twice in one call;
* `valid_until`, `observed_at` of a draft: a constant set of drafts. No executor of
  the repository sets them, the tests do;
* `_validate_record` (`ValidRecord`) is not a guard, except acyclicity at submission and
  resolution, the only check of it that a legal call can fail: that the rest never
  fails is what `RecordValid` shows. The code validates acyclicity after an expansion too:
  the model leaves that check out, so `Acyclic` shows that it never refuses one;
* the continuation of an expansion keeps the agent of its origin, as `AppAgent` asks.

### GraphContract

What the steward promises its clients, with the graph left out: WORK is offered, held by
one assignment and finished once; new WORK may promise artifacts; a promise is kept by
the WORK that made it when it completes, fails with it, or is withdrawn; nothing comes
back; and a key leads to the one artifact that is promised or published under it, so a
second one is made only with the end of the first. Six actions (`Grow`, `Hand`,
`Complete`, `Fail`, `Divert`, `Withdraw`) stand for the operations of the steward.
`GraphSteward` instantiates it (`Contract == INSTANCE GraphContract WITH ...`): BLOCKED and
READY are both *open*, ASSIGNED and RUNNING both *held*, and the other variables are the
producers, keys and active entries as they are. `KeepsContract` is `Contract!Spec`:
submission and resolution are `Grow`; an expansion is `Divert`; assign is `Hand`; commit is
`Complete`; failure and rejection are `Fail`; invalidation, sweep and refresh are
`Withdraw`; start, evaluation, rebuild, a repeated commit and the clock are no step.
Three of the properties a reader would ask for follow from it: held WORK is never given
to another assignment, finished WORK stays as it finished, and an artifact never comes
back or changes its producer. `Divert` also shows what the contract cannot promise: what
the diverted WORK had promised stays promised by WORK that is done (section 6).

### Runtime

Extends `GraphSteward` with threads. `pc` says where a thread is inside
`schedule()` or `run_once()`; each step is what happens between two points at which
another thread can interfere: a steward call, or taking and giving back the
scheduler's lock.

| Step | In the code |
|---|---|
| `ScheduleEnter` | the lock is taken, assignments of finished WORK and their leases are released |
| `ScheduleRefresh`, `ScheduleRead` | `refresh_readiness()`, `read()`: the candidates are a snapshot |
| `ScheduleSkip`, `ScheduleAssign`, `ScheduleRaise` | one candidate: its resources are taken; or it is assigned; or `assign` raises since it is not READY any more, the leases are returned and the exception leaves `schedule()` |
| `RunPick`, `RunClaim`, `RunClaimRaise` | `assignments_for()[0]`, then `claim` in a second call, which raises if another thread was faster |
| `RunCommit`, `RunFail`, `RunExpand`, `RunExpandRaise` | the executor's result is reported; a refused expansion leaves `run_once` as an exception |
| `ClientSubmit`, `ClientInvalidate`, `ClientResolve`, `ClientEvaluate` | calls from planner, operator and evaluation |

The nested events inside `schedule()` (`assignment_created`, and
`artifact_invalidated` from its own refresh) find the lock held by the same thread; the
lock is re-entrant and a nested `schedule()` finds nothing the outer one would not.
Two abstractions are larger than the code: the candidates may be taken in any order, so
that every policy is covered, and an executor's result may be anything. What is leased for
a WORK (`NeedsOf`) is what the profile of its agent asks for and what the WORK itself
requires; in the run `runtime` the first WORK requires the service of the other agent.

### Recovery

Extends `Runtime` with `ExportCheckpoint`, `Crash` and `RestoreCheckpoint`. A checkpoint is
the record and its index (`Exported`); `saved` is the last one. A crash may come between
any two steps of any thread: the graph, assignments, leases and every thread's place are
gone; the clock goes on, and assignment ids are random, so they stay fresh. A restore is
possible only while the steward is empty, validates the record and rebuilds the index, and
publishes no event. `handedOut` is a history variable: the WORK that was already ASSIGNED,
RUNNING or finished in the checkpoint this process restored.

`NotRepeated` is about WORK handed out when the checkpoint was taken. WORK that was handed
out after it is READY in the checkpoint and may well be executed a second time.

What the model shows a reader: the statuses ASSIGNED and RUNNING come back without an
owner, so no agent ever picks that WORK and its task stays ACTIVE; and READY WORK waits
until some other event calls `schedule()`. `AssignmentAgreement` and `NoIdleFrontier` of
`Runtime` are therefore not claimed of this module; `RestartAgreement` is what is left of
the first.

### AndroidUiDriver

Threads that call `observe` and `act` for the app they serve, the locks of the driver,
and as much of the phone as the calls can tell apart. `pc` says where a thread is in
its call; a step is a lock taken or a command sent to the phone.

| Variable | In the code |
|---|---|
| `launched`, `surface`, `shot` | `_launched`, `_actual_display_by_app`, the display behind `_actual_screenshot_by_app` |
| `events`, `observed`, `last` | length of `_surface_events` per app, `_observation_count`, the number of the observation in `_last_nodes` |
| `surfaceLock`, `displayLock`, `inputLock` | `_surface_lock`, `_locks`, `_input_lock` |
| `attempt` | `attempt` of `_await_snapshot` |
| `top`, `shown`, `focus` | the phone: app in front of a display, displays that list an app, app that owns the focused field |
| `seen`, `uses` | history: the observation a thread was given, how often its ids were used |

| Action | In the code |
|---|---|
| `EnsureLaunched`, `TakeSurface` | the check without and the check with the lock |
| `Start`, `Locate`, `Publish` | launch; where the app came up and which screenshot that is; `_surface_events`, `_launched`, and the lock is left |
| `TakeDisplay`, `Snapshot`, `SnapshotRetry`, `Screenshot` | `observe` under the display's lock |
| `TakeInput`, `Point`, `Send`, `Type` | `act` under the display's and the input lock |
| `Raise` | an exception leaves the call at any command or check, and every `with` gives its lock back |

The phone is external: an app may come up on any of its `Places`, comes to the front of
that display, and takes the focus from the app it covers; a tap gives the focus to what is
in front. Apps do not move by themselves. The package of an app is the app itself,
coordinates and texts are left out, and of the ids only which observation they are
looked up in. Between `Locate` and `Publish` no other thread reads what is written
(`LaunchedHasSurface` is what that rests on), so the two assignments are one step.

### UiLoop

Extends the driver with the loop of `UiLoopExecutor`: `Begin` an execution, `Decide` on
an observation (`Complete`, `Expand`, `Fail`, `ProtocolError`, `Perform`), `Settle`,
and `Abort` by an exception. The model may reply anything: `Completion` and `Request`
are all the replies that the gates of the loop tell apart. `KindOf`, `Matching`,
`Accepts`, `DraftOf` and `Target` are the gates. `StewardRejects` is the steward's gate for a
completion, for a WORK whose outputs nobody else touched, and `CompletionAccepted` compares
the two. Expansions have no such property: the loop decodes the identity of a request
and leaves it to `expand_work` to find its key, so that a keyless one (`Identities`) passes
the loop and is refused by the steward. A `ProtocolError` may follow any reply, not
only those that are refused, so the loop of the model does at least what the code does.
`DSpec`, the driver under callers that do what they like, is what the loop implements
(`LoopIsCaller`, proved).

### SchedulingPolicy

The policies as functions of a snapshot. A snapshot is any acyclic graph in any state: its
WORK is assigned, started, committed and failed one at a time, its inputs become
unusable and usable again (`unusable`, changed by `RefreshReadiness`), and readiness is
what `_refresh` makes of both (`Refreshed`). Each state is one `schedule()` can read, for it
refreshes first. The candidates are the READY WORK. The graph stays as it is, for the
policies look at one snapshot at a time; expansions lead to other graphs of the same kind.
Weights and durations are integers; nothing sets the waiting age. In `Runtime` the
candidates may be taken in any order, so what is checked there holds for every policy.
Ranks and descendants are recursive functions, as in the code, and an order is the one
sequence of the candidates (`Orders`) that is sorted.

`CriticalFirst` needs care. While the critical WORK is in hand the first candidate may
well have a lower rank than it, and than all that waits for it. What the policy does promise is about
WORK that scheduling alone keeps back (`Open`): WORK before which nothing is in hand, has failed or
lacks a usable input (`Held`). None of that has a longer way to go than the first candidate.

### ArtifactIdentity, UiSnapshot, DisplayTable

Pure functions at the borders of the runtime, each checked against a definition of what it
should compute, over all inputs of a small size. Each module has variables for its input
and one action that chooses it; `MCBorders` joins the three and gives one input to one of
them per behaviour.

* `ArtifactIdentity`: `decode_parameters`, `canonicalize` and `_canonical_key`. A text is a
  word, with or without blanks around it and capitals in it, which is as much as the
  normalisers tell apart; `Json` says which words are JSON scalars. Two descriptions of up
  to `MaxParameters` parameters, in any order, of two tasks.
* `UiSnapshot`: the walk of the bridge over a window, its limits, the checks of the client,
  the filter of `ui_tree` with the index each node is given, the lines of the prompt, which carry
  those indexes, and the lookup of an id in the driver. A screen is a forest of elements in any arrangement; `Children` of an
  element and the siblings `Later` than it say what the walk calls itself for, and the loop
  over the children is the second of the two calls.
* `DisplayTable`: how `list_displays` finds the SurfaceFlinger id of a logical display from
  two dumps, by unique id or by name (`Keys` of a line of the dump). `AndroidUiDriver`
  captures displays by it.

### MC modules

`MCGraphSteward` and `MCRuntime` give the constants values: a handful of fragments
(a chain, a provider with its consumer, a provider alone, two providers in a row, and
fragments that `_validate_fragment` refuses, which matter because a validation that
accepted them would be caught), one or two agents, two tasks. `MCAndroidUiDriver` lets
callers observe a bounded number of times and enter text in between, `MCUiLoop` has two
apps with a thread each and one expected artifact, `MCSchedulingPolicy` all acyclic graphs of
three nodes. `MCRecovery` has two agents on one display, a thread each.

### Proofs

`GraphStewardProofs` (types, order, outcome, readiness), `GraphStewardContractProofs` (index
and contract) and, upon it, `GraphStewardStructureProofs` and `GraphStewardExpansionProofs` (the
shape of the graph, and what an expansion does to it); `RuntimeProofs` (the composition, and
restarts), `UiProofs` (driver and loop), `SchedulingPolicyProofs` (the policies, and the lemmas
about recursive functions) and `BorderProofs` (identities, displays, screens), see section 5.

## 3. Runs

| Run | Question | Bounds |
|---|---|---|
| `steward` | does any sequence of operations, with time passing, leave index, readiness or tasks inconsistent, leave a record that validation would refuse, or break the contract? | 2 tasks, 3 WORK, 2 artifacts, 2 clock readings, a shared identity that goes stale and a task-scoped one; drafts with and without a `valid_until` |
| `expand` | is WORK offered only after all it waits for, also when expansions rewire what it waits for? do repeated expansions keep the graph acyclic, successors with the continuation, edges and scopes right, and does WORK ever owe two artifacts? | 6 WORK, 5 artifacts: an expansion of an expansion, with a second task joining; providers of two tasks that feed each other in opposite directions |
| `stranded` | is an artifact that is promised being worked on? **No**, see section 6 | as `expand` |
| `runtime` | do assignments, leases and the graph agree, are displays and services not overloaded, and do two threads that serve one agent stay out of each other's WORK? | 2 agents, 3 worker threads, 1 client thread, 2 displays, 2 instances of one service, 3 WORK, 3 assignments |
| `live` | when everybody is idle, is there READY WORK whose resources are free? does assigned WORK end, is READY WORK served? | 2 worker threads, 1 client, 2 clock readings; every operation but direct resolution (`NotifyingSpec`); with fairness |
| `resolve` | and is there with direct resolution? **There is**, see section 6 | as `live`, nothing fails |
| `recovery` | after a crash at any step and a restore of the last checkpoint: is WORK that had been handed out at the checkpoint executed again, claimed by an assignment of the new process, or the display overloaded? | 2 crashes, 2 agents with a thread each on one display, 1 task of 2 WORK, 1 artifact, 6 assignments |
| `driver` | do threads that race for launch and displays launch once, know their display, and stay out of each other's observations? | 3 threads, 2 apps, 2 displays, one app may land on the other's; 2 snapshots per observation; one observation per app, text entries without bound |
| `ui` | does the loop act on what it saw, type where it tapped, return only completions the steward accepts, and end? | 2 threads, 2 apps, 3 displays, one app may be remapped to a display of its own; 2 steps, one execution each; WORK that owes one artifact; with fairness |
| `ui_shared` | and if two apps may share a display? **Text can go astray**, see section 6 | 2 displays |
| `policy` | are ranks, counts and orders what they should be? | every acyclic graph of 3 WORK in every mix of statuses; durations 0, 1 and 3, the first from a negative estimate, the second from one that is no number |
| `borders` | do identities, snapshots and displays come out as they should? | descriptions of at most 2 parameters over 6 texts and 2 schemas; every forest of 4 elements on 2 displays, of which the bridge gives 3 and the prompt shows 2; 3 displays with 2 names |

Why the bounds are enough to make the interesting things happen: three WORK nodes hold
a shared provider and a consumer of each of two tasks; two artifacts per key give a
stale generation and its replacement; two clock readings separate "fresh" from "too
old"; six WORK nodes hold two expansions of one chain and one join from another task,
and let a WORK wait for a predecessor that expands before it is done;
two worker threads of one agent are the least that can race for an assignment, a third
serves the other agent. Two crashes let a checkpoint be taken of a graph that was itself
restored. Four elements hold two windows and a parent whose children are cut by the limit. Two threads race for
a launch while a third acts on the same display; two steps of the UI loop are an
observation after an action; two snapshots are one retry; three WORK nodes hold a
way and a short cut, the smallest graph in which paths and descendants differ, and one WORK in
hand beside a candidate and what waits for them; the theorems about the policies are for any
number. Every run is an exhaustive search of its instance.

`CHECK_DEADLOCK FALSE` stands where the system may come to rest: all WORK numbers are
used up and every task ended, the executions of the UI loop are used up, the crashes are used up, or the one input of `borders` is given. The run `driver` checks deadlock: the three kinds of lock are
always taken in an order. The runs over the whole specification of the steward do
not need it, for `RepeatCommit` and `RebuildArtifactIndex` are possible then.

`ReadinessCurrent` says that no BLOCKED WORK was overlooked. It holds for drafts that
were not observed in the future: with `observed_at` later than the clock an artifact
becomes usable by time passing alone (`Punctual` names the drafts it does hold for). `schedule()` recomputes readiness for that
reason, but nothing calls `schedule()` when time passes.

The runs `steward`, `expand` and `runtime` use symmetry of tasks (and `runtime` of the
threads of one agent); all their properties are invariants or safety of single steps, and
no initial state or fragment names a task or a thread.

### Fairness

The runs `live` and `ui` assume any. In `live`, a thread that owes an answer to
an event runs it (`Schedule`); a worker thread calls `run_once` again and again
(`RunPick`, then the claim), and an execution comes to a result (`Report`), because
the UI loop is bounded by `max_steps` and an exception of the executor is reported as
a failure. These are weak fairness per thread. Nothing is assumed of clients or of
time. The scheduler's lock is assumed to be given to a waiting thread eventually: weak
fairness of `Schedule` of one thread suffices, because each holder leaves the lock
after finitely many steps and the instances end.

In `ui`, each thread goes on with its execution (`UFairness`, weak fairness of
`Execute`): commands to the phone and calls of the model have timeouts after which they
raise, and `Raise` and `Abort` are steps of `Execute`. Nothing is assumed of the phone or
of the model, which may fail or reply nonsense each time; nor that a call begins (`Begin`).
Weak fairness suffices for the locks because the executions are bounded (`MaxRuns`), so
no thread can take a lock infinitely often while another waits.

## 4. How properties are stated

`TypeOK` is the type invariant that is checked; those of the other modules with state (`RTypeOK`,
`CTypeOK`, `DTypeOK`) are part of the proofs. The other invariants relate parts of the
state that different operations maintain; `OneOutput` is the one the executor relies on, whose
completion names one artifact; `KeepsContract` is a refinement, and says of every
step what it may not do; `ObservationCoherent` says what an observation that succeeds has
seen; three liveness properties (`AssignedSettles`, `ReadyServed`, `ExecutionEnds`) say what
must happen. Each property of each passing run is paired with a plausible bug in the code
(`mutants`), written beside the definition it would replace and marked as such, under
which TLC finds the property violated.

## 5. What is proved

For every value of the constants that satisfies the assumptions of `GraphSteward`
(sets of agents, tasks, identities, fragments, drafts and the bounds), TLAPS checks

* `TypeCorrect`: `Spec => []TypeOK`. It needs a strengthening: identifiers are handed
  out in order (`Numbered`), so that a node exists exactly if its number is below the
  counter, the producer of an existing artifact exists, and the index hands out
  existing artifacts only. Without it the producer of a reused artifact could be no
  WORK at all;
* `ControlOrderHolds`: `Spec => []ControlOrder`. The invariant is inductive with the
  type invariant. Every operation ends in a refresh, so that BLOCKED and READY WORK is
  right by construction (`RefreshKeepsOrder`), and what is left is WORK that an agent
  has or had: its predecessors change only if an expansion replaces one, and that
  one is RUNNING, so by the invariant the WORK is still BLOCKED. A submission adds
  predecessors to new WORK only: control edges may not touch a WORK whose result the
  index may answer, and this is where the rule of `_validate_fragment` is used;
* `TaskOutcomeHolds`: `Spec => []TaskOutcome`. An expansion replaces a RUNNING terminal,
  and a task that was evaluated as a success has none;
* `IndexAlwaysSound`: `Spec => []IndexSound`, the index is what a rebuild would compute.
  Inductive with two facts (`CInv`): outputs and producers name each other (`Mirrored`), and
  a node that was not created yet has neither producer nor key (`Unmade`). Every operation
  has one of three effects on artifacts: it makes new ones and puts old ones out of use
  (`Makes`), takes some out of use (`TakesAway`), or publishes promised ones
  (`Publishes`); the invariant is shown for the three effects once, and each operation to
  have one of them;
* `FinishedSettles`: `Spec => []FinishedProducerSettles`, from `Mirrored`: a FUTURE artifact
  among the outputs of a WORK that completed would have been published, of one that failed
  would have failed with it;
* `ContractKept`: `Spec => KeepsContract`. The initial states map to the initial state, and
  every operation to the action named in section 2 or to a stutter. It needs `CInv`: what
  `Grow` and `Divert` demand of the lookup is that the active artifact of a key is the only
  one in use, and `Complete` is about all that a WORK promised, not only its listed outputs;
* `ReadinessHolds`: `Spec /\ []Punctual => []ReadinessCurrent`, and `ReadinessUndated`:
  `Spec => []ReadinessCurrent` if no draft has an `observed_at`. Every operation but assign,
  start, evaluation, rebuild, a repeated commit and the clock ends in a refresh, after which
  readiness is current whatever it was before (`RefreshIsCurrent`); the others
  make no WORK ready, except the clock, which can make an artifact usable only if it was
  observed in the future. `Punctual` excludes that, and `Undated` gives `Punctual`, for the
  steward then takes the time of the commit;
* `MirrorHolds`, `AcyclicHolds`, `ContinuationHolds`, `ScopeHolds`, `OneOutputHolds` and
  `RecordAlwaysValid`: the invariants of the run `expand`, and that every record validates. One
  invariant (`SInv`) serves all six. On the shape of the graph an operation has one of three
  effects: it adds nodes and edges (`Adds`: submission, resolution), it expands a WORK
  (`ExpandsNodes`), or it leaves the shape alone (`ShapeKept`); each conjunct is
  shown for the effects, each operation to have one. What the conjuncts need of
  each other says most about the code:
  - `Acyclic` is checked by the code at submission and resolution. The model does not check
    it at an expansion, and the proof shows why it need not: WORK that waits
    by control has no output in the index, nor has anything behind its outputs
    (`Layered`), so no control edge leads from the continuation back to a provider that the
    index could hand out. It is the rule that providers take no part in control edges which
    makes it so;
  - `ContinuationInherits` needs that the origin is DONE and its checkpoint artifact has no key:
    a submission can reach finished WORK through the index only, and not by control;
  - `TaskScopePrivate` needs that a WORK has one indexed output at most (`OneKeyed`): a
    submission joins its task to the producer of what it finds, which must not be the
    producer of another task's scoped artifact as well;
  - `OneOutput` is a rule of `_validate_fragment` for one fragment. It survives sharing, for WORK
    found in the index is found by its output, and gets no other (`AddsOneOutput`);
  - `RecordValid` is the sum of them, with the counters (`Numbered`) and the index.

The lemmas follow the operations: one per operation for each of the inductive
invariants, with facts about the refresh, the index and the local maps of a fragment
stated once. They rest on the assumptions declared in `GraphSteward` only. One of these,
`OutcomeAssumption`, says that `None` is no outcome, as in the code, where outcomes are texts.

`RuntimeProofs` proves of the composition, for any number of threads, agents, resources,
capacities and nodes,

* `UsesSteward`: `RSpec => Spec`. Every step of scheduler, agents and clients is an operation
  of the steward or leaves the graph alone, so the theorems above hold of the composition;
* `RTypeCorrect`, `AgreementHolds`, `LeasesHold`, `ExclusionHolds`, `ExecutionHolds`. One
  invariant (`RInv`) serves all: every existing WORK has an agent (`Staffed`); live
  assignments and WORK in hand point at each other (`Tabled`, `Owned`); assignment ids are handed out
  in order, so no two WORK carry one (`Counted`); leases are what live assignments need and
  within capacity (`Leasing`); a thread that executes has a RUNNING WORK under its own
  assignment, which no other executing thread has (`Executing`). For the scheduler an
  operation of the steward is one of two things: it leaves all WORK in hand alone (`Calm`), or
  ends one that was RUNNING (`Ending`), and each operation is shown to be one of them.
  `ResourceExclusion` then follows by counting: WORK in hand that needs a resource maps one
  to one into its leases;
* `NoIdleHolds`: `NotifyingSpec => []NoIdleFrontier`, with every operation but direct
  resolution, of which the run `resolve` shows that it is false. The invariant (`Awaited`) says who
  will still look at a READY WORK: some thread is to read the frontier, or a schedule() under way
  has the WORK among its candidates, all of which are still READY, or the WORK was found to
  lack a resource. An `assign` that raises drops the candidates that are left; but the
  candidate it raised for was changed by another thread, and that one owes a schedule() of its
  own, because it cannot have run it while the lock was taken. Leases of finished
  WORK are given back late, but while there are any a thread is about to do it.

`RInv` is stated in two parts, `RCore` and the ownership of all WORK in hand, for a process that
restored a checkpoint has the first only. The last part of `RuntimeProofs` proves of crashes and
restores, for any number of them at any step,

* `CTypeCorrect`, `RestartAgrees`, `NothingRepeated`, `ExecutionExclusive`, `LeasesOutlive`, and
  `GraphOutlives`: all that is proved of the graph holds across restarts. The invariant
  (`RecInv`) has the invariant of the graph twice, of the state and of the
  record in the checkpoint (`Saved`, an instance of the proofs of the steward). An export and a
  restore both end in a state whose record is the saved one, where the two are the same
  (`SameRecord`); a crash ends in the initial state; every other step is one of `Runtime` and
  keeps `RCore` and the graph. WORK handed out before the crash is in nobody's table and stays so,
  because the table only takes up WORK that was waiting (`Handover`).

`UiProofs` proves of the driver, for any number of threads, apps and displays,

* `LaunchedHasSurfaceHolds`, `LaunchedOnceHolds`, `ObservationUndisturbedHolds`, from one
  inductive invariant (`LockInv`) that says what a thread at each place of its call
  holds: in the launch the surface lock of an app that is not launched, in an
  observation or action the lock of the display the app is on, in the transaction the
  input lock as well. A launched app keeps its surface, because only a launch writes
  it, so the display that was locked is still the one that is used;
* `TextReachesAppHolds`, if Android never puts two apps on one display (`ApartPlaces`,
  an assumption of this theorem only; the run `ui_shared` shows that it is needed):
  from the tap to the typing the focus is with the app that holds the input lock
  (`FocusInv`), and no launch can cover it;
* `LoopIsCaller`: `USpec => DSpec`, each step of the loop is a step of the driver, a call
  or a return; the theorems above hold of the loop by it;
* `ActsOnWhatItSawHolds`, if each app is served by one thread (`OneThreadPerApp`, as the
  harness runs them): between the observation and the lookup of the id the thread's own
  loop does not observe (`FreshInv`), and no other thread observes this app;
* `ObservationCoherentHolds`, under `ApartPlaces` as well: the screenshot id of a launched app is
  that of the display the app came up on, whatever it asked for (`ShotShown`), and there it
  stays in front;
* `ElementIdsUsedOnceHolds`, with one thread per app: between two actions the loop observes
  (`UseInv`), which resets the count;
* `CompletionAcceptedHolds`, for WORK that owes one artifact at most (`SingleOutput`, which
  `OneOutputHolds` shows of all WORK an executor can be given): an accepted completion is the one
  draft for the one output.

`SchedulingPolicyProofs` proves of the policies, for every acyclic graph of any size, all
metadata and every mix of statuses (`SnapshotShape`, `PSpec => []PInv`: the readiness is
what another refresh would make of it, whatever the last operation was),

* `RanksAreCriticalPaths` and `FanoutCountsReachable`. That a recursive definition over a graph
  has a value, and which, takes an argument by induction over data, which no installed
  prover takes as a rule. It is made with least and greatest elements instead. `Recursion`
  says that a function whose value at a node is determined by those of its successors
  exists on every acyclic graph: the largest set of nodes that is closed under successors
  and has such a function is all of them. What holds of its values is shown
  by looking at a WORK that violates it and none of whose successors does (`LastOf`).
  Ranks then bound the time of each path (`RankBounds`) and are attained by one
  (`RankAttained`); the descendants of a WORK are what paths lead to;
* `CriticalWorkFirst`: whatever comes before WORK that only scheduling keeps back is DONE or so kept
  back itself (`OpenBackwards`), and has no lower rank, because a duration is never negative; going
  back as far as possible leads to WORK whose predecessors are all DONE, which the refresh has made
  READY (`CandidateInFront`). And the candidates can be sorted, for among finitely many there is
  always a first (the existence of the order is proved too);
* `HybridIsGeneral`: scores that order the WORK alike give one order, for a sorted sequence of the
  candidates is unique.

`BorderProofs` proves of the functions at the borders, for inputs of any size,

* `SharedWhenSameHolds`, `ISpec => []SharedWhenSame`, for every schema, every set of texts and
  descriptions of any length: key and description are both functions of
  the fields, so that it is enough to compare what they say of one field at a time;
* `OwnSurfaceHolds`, `DumpSpec => []OwnSurface`: what is found under a key is the surface of the
  first line with that key (`LookupFinds`), and of a display that is told apart no other
  line has the key. It assumes (`KeyAssumption`) that no display is named like the
  unique id of another: Android makes unique ids of a kind and a number ("local:4619..."), and a
  phone on which a name had that form would be outside the theorem;
* `SnapshotIsTopHolds`, `ScreenSpec => []SnapshotIsTop`. The walk is a function by `Recursion`, on the
  graph of the calls it makes, which lead to elements of greater numbers (`WalkEquation`).
  What a call does is stated for every answer it may be handed (`Continues`): it adds shown
  elements of its scope in order, and if one is left out the limit is reached
  with those before it. Two such steps make one, if all of the first scope comes before the
  second (`ContinuesBoth`), and the scope of an element is itself, its children's and
  its later siblings', in this order (`ScopeParts`); this rests on no element being below
  two siblings (`OneBranch`);
* `PromptResolvesHolds`, `ScreenSpec => []PromptResolves`: what the client keeps of an answer is
  every element with bounds, in the order of the answer, each with its place for an index
  (`Filtered`, `NodesAreFiltered`), so that an id on a line leads back to it; and since the
  walk goes in reading order (`Continues`), what any of the three cuts leaves out comes later.
  `LimitAssumption` is about the limits only: the client asks for no more than the
  bridge gives (160 and 300 in the code), and the prompt shows at least one element.

Only model-checked:

* liveness (`AssignedSettles`, `ReadyServed`, `ExecutionEnds`), and that the run `driver` never
  deadlocks: reasoning with fairness, and facts about `ENABLED`, are out of reach of the provers.

## 6. What was found

* `stranded` (a WORK that owes an artifact and expands): `expand_work` sets the origin
  DONE with outcome "checkpoint" and leaves the FUTURE artifact it was to produce; the
  continuation gets no outputs, so nobody can publish it. The index goes on handing it
  to later tasks, which wait forever; a task whose terminal is that provider becomes
  READY_FOR_EVALUATION without its result. The README promises "in-flight producer
  coalescing", and this producer is not in flight.
* `resolve` (direct resolution): the provider that `resolve_artifact` creates is READY
  at once, but `artifact_resolved` is not among the events `on_graph_event` answers; it
  stays on the frontier, resources free, until something else happens. In the
  repository only a unit test calls `resolve_artifact` directly.

* `ui_shared` (input transaction): the input lock is to protect "the device-wide input
  transaction", but launching an app takes the surface lock only. If Android remaps the
  app to a display on which a text is being entered, it comes to the front between the tap
  and the typing, and receives the text.

Some things are no run of their own:

* the docstring of the driver says element ids are "meaningful for exactly one subsequent
  action", but `act` leaves the kept nodes as they are, and `ElementIdsUsedOnce` holds of
  the loop only because it observes before each action (run `ui`);
* the liveness properties name a case instead of hiding it: WORK whose expansion the steward
  refused is left RUNNING by `run_once`, with its leases (`Abandoned`). A reply of the
  screen model is enough for it: an identity that lacks a field, has one too many or one of the wrong
  type is decoded by the loop, which would report it as a protocol error if it could not, and
  refused by `expand_work`; so is a task-scoped identity of WORK that two tasks share;
* after a restore, WORK that was ASSIGNED or RUNNING is nobody's, and stays so;
* a field of type number keeps `1` and `1.0` apart, so one quantity can have two keys;
* two displays of one name which no unique id tells apart are both captured by the first
  one's surface; `OwnSurface` is about the displays that the dumps do tell apart.

## 7. Plan

Done, in this order: `GraphSteward` with its type invariant, order and outcome; `Runtime`;
`SchedulingPolicy`; `AndroidUiDriver` and `UiLoop` with their proofs; `GraphContract` and
the refinement, checked and proved; `Recovery`; the borders; the proofs of the index and of
`Runtime`.

Then: the proofs of the shape of the graph, of readiness, of restarts, of what was left of the
UI loop, of the identities, and that no READY WORK is forgotten; last, the proofs about recursive
definitions: policies, screens, and the table of displays. With them every invariant and action
property of every passing run is proved; what is left to TLC alone is liveness and deadlock.

Left, in this order:

1. `Runtime` with the UI loop as its executor, which would join `OneOutput` and `SingleOutput` in
   one module;
2. the order of the locks of steward and scheduler, as a module about callbacks;
3. the order of candidates of `SchedulingPolicy` inside `Runtime`, where it matters to liveness only.

### Not modelled

* model clients and prompts: HTTP adapters and texts, without state;
* the rest of `GraphPlanner._build`: it copies the fields of a reply and checks their types;
  the fragment it lets through is judged again by `_validate_fragment`, which is modelled;
* command lines of ADB and the regular expressions over its output, except how the two
  dumps are joined;
* the harnesses: l2 plans a task and calls steward and scheduler in one thread, l3 is the threads of `Runtime` and `UiLoop`;
* the mock apps: benchmark fixtures, a form each, which the runtime sees only through the
  snapshots that `UiSnapshot` draws in any shape.

------------------------------- MODULE UiLoop --------------------------------
(***************************************************************************)
(* UiLoopExecutor on top of the AndroidUiDriver.                           *)
(*                                                                         *)
(* Each thread executes WORK of its app: it observes, lets the screen      *)
(* model decide, and carries the decision out, at most MaxSteps times.     *)
(* A reply of the model that does not follow the protocol costs a step     *)
(* and does nothing else.  The model may reply anything.                   *)
(***************************************************************************)
EXTENDS AndroidUiDriver

CONSTANTS
  Contract,    \* what a WORK has to produce: sets of artifacts [id, kind]
  ArtifactKind,
  Capability, Provider,  \* Registry: the agents that provide a capability
  MaxSteps,    \* max_steps (8 in the code)
  MaxRuns      \* bound: executions of a thread

ASSUME LoopAssumption ==
  /\ MaxSteps \in Nat \ {0} /\ MaxRuns \in Nat
  /\ \A c \in Contract : IsFiniteSet(c) /\ \A o \in c : o.kind \in ArtifactKind /\ o.id # None
  /\ Provider \in [Capability -> SUBSET App]
  /\ None \notin ArtifactKind \cup Capability

VARIABLES
  step,      \* steps of the loop that are over
  runs,      \* executions begun
  contract,  \* the outputs of the WORK
  result     \* what the last execution came to

loop == <<step, runs, contract, result>>
uvars == <<dvars, loop>>

NoResult == [kind |-> "none"]
Failed == [kind |-> "failed"]
Raised == [kind |-> "raised"]

UInit ==
  /\ DInit
  /\ step = [th \in Thread |-> 0] /\ runs = [th \in Thread |-> 0]
  /\ contract = [th \in Thread |-> {}]
  /\ result = [th \in Thread |-> NoResult]

\* A new execution begins with an observation.
Begin(th) ==
  /\ Move(th, "idle", "ensure")
  /\ runs[th] < MaxRuns
  /\ runs' = [runs EXCEPT ![th] = @ + 1]
  /\ step' = [step EXCEPT ![th] = 0]
  /\ call' = [call EXCEPT ![th] = "observe"]
  /\ \E c \in Contract : contract' = [contract EXCEPT ![th] = c]
  /\ result' = [result EXCEPT ![th] = NoResult]
  /\ UNCHANGED <<attempt, seen, driver, locks, phone>>

Return(th, r) ==
  /\ pc' = [pc EXCEPT ![th] = "idle"]
  /\ result' = [result EXCEPT ![th] = r]
  /\ UNCHANGED <<call, attempt, seen, driver, locks, phone, step, runs, contract>>

\* mutant of NextStep
NextStepSameCall(th) ==
  /\ step' = [step EXCEPT ![th] = @ + 1]
  /\ pc' = [pc EXCEPT ![th] = IF step[th] + 1 < MaxSteps THEN "ensure" ELSE "idle"]
  /\ result' = [result EXCEPT ![th] = IF step[th] + 1 < MaxSteps THEN @ ELSE Failed]
  /\ UNCHANGED <<call, attempt, seen, driver, locks, phone, runs, contract>>

\* The step is over: another one, or the execution failed by max_steps.
NextStep(th) ==
  /\ step' = [step EXCEPT ![th] = @ + 1]
  /\ IF step[th] + 1 < MaxSteps
     THEN /\ pc' = [pc EXCEPT ![th] = "ensure"]
          /\ call' = [call EXCEPT ![th] = "observe"]
          /\ UNCHANGED result
     ELSE /\ pc' = [pc EXCEPT ![th] = "idle"]
          /\ result' = [result EXCEPT ![th] = Failed]
          /\ UNCHANGED call
  /\ UNCHANGED <<attempt, seen, driver, locks, phone, runs, contract>>

Deciding(th) == pc[th] = "returned" /\ call[th] = "observe"

-----------------------------------------------------------------------------
(* "complete"                                                              *)

\* A reply names a kind or not, an artifact or not, and has value and evidence or not.
Completion == [kind : ArtifactKind \cup {None}, id : {o.id : o \in UNION Contract} \cup {None}, valid : BOOLEAN]

\* The kind may be left out if only one artifact is expected.
KindOf(outs, r) == IF r.kind = None /\ Cardinality(outs) = 1 THEN (CHOOSE o \in outs : TRUE).kind ELSE r.kind
Matching(outs, r) == {o.id : o \in {x \in outs : x.kind = KindOf(outs, r)}}

AcceptsAnyKind(outs, r) ==  \* mutant of Accepts
  r.valid /\ (r.id # None => r.id \in Matching(outs, r)) /\ (r.id = None => Cardinality(Matching(outs, r)) <= 1)

Accepts(outs, r) ==
  /\ outs # {} => \E o \in outs : o.kind = KindOf(outs, r)
  /\ r.valid
  /\ r.id # None => r.id \in Matching(outs, r)
  /\ r.id = None => Cardinality(Matching(outs, r)) <= 1

DraftOf(outs, r) ==
  [kind |-> KindOf(outs, r),
   id |-> IF r.id = None /\ Cardinality(Matching(outs, r)) = 1 THEN CHOOSE i \in Matching(outs, r) : TRUE ELSE r.id,
   valid |-> r.valid]

Complete(th, r) ==
  /\ Deciding(th)
  /\ Accepts(contract[th], r)
  /\ Return(th, [kind |-> "completed", draft |-> DraftOf(contract[th], r)])

-----------------------------------------------------------------------------
(* "request_information", "request_operation"                              *)

\* What a reply says the requested artifact is: nothing; something that cannot be decoded;
\* something that can, and yet has no key, because fields are missing, unknown or of the
\* wrong type, or because it is task-scoped and the WORK is shared; or an identity
Identities == {"none", "undecodable", "keyless", "proper"}

\* A reply names a capability, a target and a need, or leaves them out.
Request == [capability : Capability \cup {None}, target : App \cup {None}, need : BOOLEAN, identity : Identities]

Providers(r) == IF r.capability = None THEN {} ELSE Provider[r.capability]

\* The agent that is asked: the one named, or the only one there is
Target(r) ==
  IF r.target # None THEN {r.target} \cap Providers(r)
  ELSE {a \in Providers(r) : Cardinality(Providers(r)) = 1}

\* The loop decodes the identity and does not look for its key: expand_work refuses the
\* expansion with a keyless one (RunExpandRaise of Runtime).
Expand(th, r) ==
  /\ Deciding(th)
  /\ r.need /\ r.identity # "undecodable"
  /\ \E a \in Target(r) :
       Return(th, [kind |-> "expansion", capability |-> r.capability, provider |-> a, identity |-> r.identity])

-----------------------------------------------------------------------------
Fail(th) == Deciding(th) /\ Return(th, Failed)

\* Any other reply is recorded as a protocol error.
ProtocolError(th) ==
  /\ Deciding(th)
  /\ NextStep(th)

\* A primitive action is handed to the driver, ...
Perform(th, c) ==
  /\ Deciding(th)
  /\ pc' = [pc EXCEPT ![th] = "ensure"]
  /\ call' = [call EXCEPT ![th] = c]
  /\ UNCHANGED <<attempt, seen, driver, locks, phone, loop>>

\* ... and when it is done the screen may settle, and the step is over.
Settle(th) ==
  /\ pc[th] = "returned" /\ call[th] # "observe"
  /\ NextStep(th)

\* An exception of the driver or the model leaves execute; the AppAgent reports it as
\* a failure.
Abort(th) ==
  /\ pc[th] = "raised" \/ Deciding(th)
  /\ Return(th, Raised)

Decide(th) ==
  \/ \E r \in Completion : Complete(th, r)
  \/ \E r \in Request : Expand(th, r)
  \/ Fail(th) \/ ProtocolError(th)
  \/ \E c \in Call \ {"observe"} : Perform(th, c)

Execute(th) ==
  \/ DriverStep(th) /\ UNCHANGED loop
  \/ Decide(th) \/ Settle(th) \/ Abort(th)

UNext == \E th \in Thread : Begin(th) \/ Execute(th)

USpec == UInit /\ [][UNext]_uvars

\* Commands to the phone and calls of the model have timeouts, and threads run.
UFairness == \A th \in Thread : WF_uvars(Execute(th))

-----------------------------------------------------------------------------
(* Properties                                                              *)

\* An element id is looked up in the nodes of the observation the model decided on,
\* which is the newest of the app.
ActsOnWhatItSaw ==
  \A th \in Thread : pc[th] = "point" /\ call[th] \in ByElement =>
    seen[th] = last[AppOf[th]] /\ seen[th] = observed[AppOf[th]]

\* _completion_rejection of the GraphSteward, for a WORK whose outputs nobody else touched
StewardRejects(outs, drafts) ==
  LET fits(o) == {d \in drafts : d.id = o.id \/ (d.id = None /\ d.kind = o.kind)}
  IN  outs # {} /\ (Cardinality(drafts) # Cardinality(outs) \/ \E o \in outs : Cardinality(fits(o)) # 1 \/ \E d \in fits(o) : ~d.valid)

\* A completion that passes the loop's own gate is not rejected by the steward, whose
\* gate is another one: commit_work does not turn the WORK into FAILED.  (An expansion
\* may be refused, for its identity.)
CompletionAccepted ==
  \A th \in Thread : result[th].kind = "completed" => ~StewardRejects(contract[th], {result[th].draft})

\* Every execution comes to a result, whatever the model replies and the phone does.
ExecutionEnds == \A th \in Thread : pc[th] # "idle" ~> pc[th] = "idle"

=============================================================================

--------------------- MODULE GraphStewardContractProofs ---------------------
(***************************************************************************)
(* The GraphSteward keeps GraphContract and a sound ArtifactIndex, for     *)
(* every value of the constants.                                           *)
(*                                                                         *)
(* What an operation does to the artifacts is of one of three kinds: it    *)
(* makes new ones, takes some out of use, or publishes promised ones.      *)
(* One lemma per kind shows what that does to the invariant.               *)
(***************************************************************************)
EXTENDS GraphStewardProofs

\* A WORK lists the artifacts it produces, and those only.
Mirrored == \A v \in WorkId, a \in ArtId : a \in work[v].outs <=> art[a].producer = v

\* An artifact that was not created yet has no producer and no key.
Unmade == \A a \in ArtId : art[a].state = "ABSENT" => art[a].producer = None /\ art[a].key = None

CInv == TInv /\ IndexSound /\ Mirrored /\ Unmade

OfUse == {"FUTURE", "CONCRETE"}

\* The artifacts as are new, the artifacts old go out of use, and the rest stays.
Makes(as, old) ==
  /\ \A a \in as : a \in ArtId /\ a >= nextArt
  /\ \A a \in as : /\ art'[a].state \in OfUse
                   /\ art'[a].producer \in WorkId
                   /\ art'[a].key # None => active[art'[a].key] \in old \cup {None} /\ active'[art'[a].key] = a
  /\ \A a \in old : a \in ArtId /\ art[a].state = "CONCRETE" /\ art'[a].state = "INVALIDATED"
  /\ \A a \in ArtId \ as : art'[a].producer = art[a].producer /\ art'[a].key = art[a].key
  /\ \A a \in ArtId \ (as \cup old) : art'[a].state = art[a].state
  /\ \A k \in Key : /\ (\A a \in as : art'[a].key # k) => active'[k] = Retired(active, old)[k]
                    /\ history'[k] = history[k] \cup {a \in as : art'[a].key = k}
  /\ \A v \in WorkId : work'[v].outs = work[v].outs \cup {a \in as : art'[a].producer = v}

\* The artifacts as, and no others, are taken out of use.
TakesAway(as) ==
  /\ \A a \in ArtId : art'[a].producer = art[a].producer /\ art'[a].key = art[a].key
  /\ \A a \in as : a \in ArtId /\ art[a].state \in OfUse /\ art'[a].state \notin OfUse \cup {"ABSENT"}
  /\ \A a \in ArtId \ as : art'[a].state = art[a].state
  /\ active' = Retired(active, as) /\ history' = history
  /\ work' = work

\* Some promised artifacts are published, or nothing happens to the artifacts.
Publishes ==
  /\ \A a \in ArtId : /\ art'[a].producer = art[a].producer /\ art'[a].key = art[a].key
                      /\ art'[a].state = art[a].state \/ (art[a].state = "FUTURE" /\ art'[a].state = "CONCRETE")
  /\ active' = active /\ history' = history
  /\ work' = work

LEMMA IndexFresh == Fresh => CInv
<1> SUFFICES ASSUME Fresh PROVE CInv
  OBVIOUS
<1>1. TInv
  BY TInvFresh
<1>2. \A a \in ArtId : art[a].state = "ABSENT" /\ art[a].producer = None /\ art[a].key = None
  BY DEF Fresh, NoArtifact
<1>3. \A k \in Key : history[k] = {} /\ active[k] = None /\ k # None
  BY NoneAssumption DEF Fresh
<1>4. IndexSound
  BY <1>2, <1>3 DEF IndexSound
<1>5. Mirrored /\ Unmade
  <2>1. \A v \in WorkId : work[v].outs = {} /\ v # None
    BY NoneAssumption DEF Fresh, NoWork, WorkId
  <2>2. Unmade
    BY <1>2 DEF Unmade
  <2>3. Mirrored
    BY <1>2, <2>1 DEF Mirrored
  <2>4. QED
    BY <2>2, <2>3
<1>6. QED
  BY <1>1, <1>4, <1>5 DEF CInv

LEMMA IndexInit == Init => CInv
BY InitIsFresh, IndexFresh

LEMMA IndexMakes ==
  ASSUME CInv, TInv', NEW as, NEW old, Makes(as, old)
  PROVE  CInv'
<1> USE NoneAssumption
<1>1. \A a \in as : art[a].state = "ABSENT" /\ art[a].producer = None /\ art[a].key = None
  BY DEF Makes, CInv, TInv, Numbered, Unmade
<1>2. \A a \in ArtId : art[a].key # None => a < nextArt /\ a \notin as
  <2>1. \A a \in ArtId : art[a].key # None => art[a].state # "ABSENT"
    BY DEF CInv, Unmade
  <2>2. nextArt \in Int /\ \A a \in ArtId : a \in Int
    BY DEF CInv, TInv, TypeOK, ArtId
  <2>3. \A a \in ArtId : art[a].state # "ABSENT" => a < nextArt
    BY <2>2 DEF CInv, TInv, Numbered
  <2>4. QED
    BY <1>1, <2>1, <2>3
<1>3. \A a \in old : a \notin as
  BY <1>1 DEF Makes
<1>4. Mirrored'
  <2> SUFFICES ASSUME NEW v \in WorkId, NEW a \in ArtId PROVE a \in work'[v].outs <=> art'[a].producer = v
    BY DEF Mirrored
  <2>1. a \in work[v].outs <=> art[a].producer = v
    BY DEF CInv, Mirrored
  <2>2. v # None
    BY DEF WorkId
  <2>3. work'[v].outs = work[v].outs \cup {b \in as : art'[b].producer = v}
    BY DEF Makes
  <2>4. a \in as => art[a].producer = None
    BY <1>1
  <2>5. a \notin as => art'[a].producer = art[a].producer
    BY DEF Makes
  <2>6. QED
    BY <2>1, <2>2, <2>3, <2>4, <2>5
<1>5. Unmade'
  <2> SUFFICES ASSUME NEW a \in ArtId, art'[a].state = "ABSENT" PROVE art'[a].producer = None /\ art'[a].key = None
    BY DEF Unmade
  <2>1. a \notin as /\ a \notin old
    BY DEF Makes, OfUse
  <2>2. art[a].state = "ABSENT" /\ art'[a].producer = art[a].producer /\ art'[a].key = art[a].key
    BY <2>1 DEF Makes
  <2>3. QED
    BY <2>2 DEF CInv, Unmade
<1>6. ASSUME NEW k \in Key
      PROVE  /\ history'[k] = {a \in ArtId : art'[a].key = k}
             /\ {a \in history'[k] : art'[a].state \in OfUse} = {active'[k]} \ {None}
             /\ active'[k] # None => \A a \in history'[k] : a <= active'[k]
  <2>1. /\ history[k] = {a \in ArtId : art[a].key = k}
        /\ {a \in history[k] : art[a].state \in OfUse} = {active[k]} \ {None}
        /\ active[k] # None => \A a \in history[k] : a <= active[k]
    BY DEF CInv, IndexSound, OfUse
  <2>2. k # None
    OBVIOUS
  <2>3. history'[k] = history[k] \cup {a \in as : art'[a].key = k}
    BY DEF Makes
  <2>4. history'[k] = {a \in ArtId : art'[a].key = k}
    <3>1. \A a \in ArtId : a \notin as => art'[a].key = art[a].key
      BY DEF Makes
    <3>2. \A a \in as : a \in ArtId /\ a \notin history[k]
      BY <1>2, <2>1, <2>2 DEF Makes
    <3>3. QED
      BY <2>1, <2>3, <3>1, <3>2
  <2>5. CASE \E a \in as : art'[a].key = k
    <3>1. PICK a \in as : art'[a].key = k
      BY <2>5
    <3>2. /\ a \in ArtId /\ a >= nextArt /\ art'[a].state \in OfUse
          /\ active[k] \in old \cup {None} /\ active'[k] = a
      BY <2>2, <3>1 DEF Makes
    <3>3. \A b \in as : art'[b].key = k => b = a
      BY <2>2, <3>2 DEF Makes
    <3>4. \A b \in history[k] : b < nextArt /\ b \notin as
      BY <1>2, <2>1, <2>2
    <3>5. \A b \in history[k] : art'[b].state \notin OfUse
      <4> SUFFICES ASSUME NEW b \in history[k], art'[b].state \in OfUse PROVE FALSE
        OBVIOUS
      <4>1. b \notin old
        BY DEF Makes, OfUse
      <4>2. art[b].state \in OfUse
        BY <2>1, <3>4, <4>1 DEF Makes
      <4>3. b = active[k] /\ b # None
        BY <2>1, <4>2
      <4>4. QED
        BY <3>2, <4>1, <4>3
    <3>6. {b \in history'[k] : art'[b].state \in OfUse} = {a}
      BY <2>3, <3>1, <3>2, <3>3, <3>5
    <3>7. a # None
      BY <3>2 DEF ArtId
    <3>8. \A b \in history'[k] : b <= a
      <4>1. nextArt \in Int /\ a \in Int /\ \A b \in history[k] : b \in Int
        BY <2>1, <3>2 DEF CInv, TInv, TypeOK, ArtId
      <4>2. \A b \in history[k] : b <= a
        <5> SUFFICES ASSUME NEW b \in history[k] PROVE b <= a
          OBVIOUS
        <5>1. b \in Int /\ nextArt \in Int /\ a \in Int /\ b < nextArt /\ a >= nextArt
          BY <3>2, <3>4, <4>1
        <5>2. QED
          BY <5>1
      <4>3. a <= a
        BY <4>1
      <4>4. QED
        BY <2>3, <3>3, <4>2, <4>3
    <3>9. QED
      BY <2>4, <3>2, <3>6, <3>7, <3>8
  <2>6. CASE \A a \in as : art'[a].key # k
    <3>1. history'[k] = history[k] /\ active'[k] = Retired(active, old)[k]
      <4>1. active'[k] = Retired(active, old)[k]
        BY <2>6 DEF Makes
      <4>2. QED
        BY <2>3, <2>6, <4>1
    <3>2. active'[k] = IF active[k] \in old THEN None ELSE active[k]
      BY <3>1 DEF Retired
    <3>3. \A b \in history[k] : art'[b].state \in OfUse <=> art[b].state \in OfUse /\ b \notin old
      BY <1>2, <2>1, <2>2 DEF Makes, OfUse
    <3>4. {b \in history[k] : art'[b].state \in OfUse} = ({active[k]} \ {None}) \ old
      BY <2>1, <3>3
    <3>5. QED
      BY <2>1, <2>4, <3>1, <3>2, <3>4
  <2>7. QED
    BY <2>5, <2>6
<1>7. IndexSound'
  BY <1>6 DEF IndexSound, OfUse
<1>8. QED
  BY <1>4, <1>5, <1>7 DEF CInv

LEMMA IndexTakesAway ==
  ASSUME CInv, TInv', NEW as, TakesAway(as)
  PROVE  CInv'
<1> USE NoneAssumption
<1>1. Mirrored' /\ Unmade'
  BY DEF CInv, Mirrored, Unmade, TakesAway, OfUse
<1>2. ASSUME NEW k \in Key
      PROVE  /\ history'[k] = {a \in ArtId : art'[a].key = k}
             /\ {a \in history'[k] : art'[a].state \in OfUse} = {active'[k]} \ {None}
             /\ active'[k] # None => \A a \in history'[k] : a <= active'[k]
  <2>1. /\ history[k] = {a \in ArtId : art[a].key = k}
        /\ {a \in history[k] : art[a].state \in OfUse} = {active[k]} \ {None}
        /\ active[k] # None => \A a \in history[k] : a <= active[k]
    BY DEF CInv, IndexSound, OfUse
  <2>2. active'[k] = (IF active[k] \in as THEN None ELSE active[k]) /\ history'[k] = history[k]
    BY DEF TakesAway, Retired
  <2>3. \A b \in history[k] : art'[b].state \in OfUse <=> art[b].state \in OfUse /\ b \notin as
    BY <2>1 DEF TakesAway
  <2>4. history'[k] = {a \in ArtId : art'[a].key = k}
    BY <2>1, <2>2 DEF TakesAway
  <2>5. QED
    BY <2>1, <2>2, <2>3, <2>4
<1>3. IndexSound'
  BY <1>2 DEF IndexSound, OfUse
<1>4. QED
  BY <1>1, <1>3 DEF CInv

LEMMA IndexPublishes ==
  ASSUME CInv, TInv', Publishes
  PROVE  CInv'
<1>1. Mirrored' /\ Unmade'
  BY DEF CInv, Mirrored, Unmade, Publishes
<1>2. ASSUME NEW k \in Key
      PROVE  /\ history'[k] = {a \in ArtId : art'[a].key = k}
             /\ {a \in history'[k] : art'[a].state \in OfUse} = {active'[k]} \ {None}
             /\ active'[k] # None => \A a \in history'[k] : a <= active'[k]
  <2>1. /\ history[k] = {a \in ArtId : art[a].key = k}
        /\ {a \in history[k] : art[a].state \in OfUse} = {active[k]} \ {None}
        /\ active[k] # None => \A a \in history[k] : a <= active[k]
    BY DEF CInv, IndexSound, OfUse
  <2>2. active'[k] = active[k] /\ history'[k] = history[k]
    BY DEF Publishes
  <2>3. \A b \in history[k] : art'[b].state \in OfUse <=> art[b].state \in OfUse
    BY <2>1 DEF Publishes, OfUse
  <2>4. history'[k] = {a \in ArtId : art'[a].key = k}
    BY <2>1, <2>2 DEF Publishes
  <2>5. QED
    BY <2>1, <2>2, <2>3, <2>4
<1>3. IndexSound'
  BY <1>2 DEF IndexSound, OfUse
<1>4. QED
  BY <1>1, <1>3 DEF CInv

-----------------------------------------------------------------------------
(* What the contract sees of a step.                                       *)

Open == {"BLOCKED", "READY"}

\* A refresh moves WORK between BLOCKED and READY only.
Kept(v) == status'[v] = status[v] \/ (status[v] \in Open /\ status'[v] \in Open)

\* The WORK ws is new, and the rest is kept.
Opens(ws) ==
  \A v \in WorkId : IF v \in ws THEN status[v] = "ABSENT" /\ status'[v] \in Open ELSE Kept(v)

\* WORK w in an agent's hands is finished as st, and the rest is kept.
Ends(w, st) ==
  /\ status[w] \in {"ASSIGNED", "RUNNING"} /\ status'[w] = st
  /\ \A v \in WorkId \ {w} : Kept(v)

LEMMA LifeValue ==
  /\ LifeOf("ABSENT") = "absent"
  /\ \A st \in Open : LifeOf(st) = "open"
  /\ LifeOf("ASSIGNED") = "held" /\ LifeOf("RUNNING") = "held"
  /\ LifeOf("DONE") = "done"
  /\ LifeOf("FAILED") = "failed"
BY DEF LifeOf, Open

LEMMA StageValue ==
  /\ StageOf("ABSENT") = "absent"
  /\ StageOf("FUTURE") = "promised"
  /\ StageOf("CONCRETE") = "published"
  /\ StageOf("INVALIDATED") = "withdrawn"
  /\ StageOf("FAILED") = "failed"
BY DEF StageOf

LEMMA LifeKept ==
  ASSUME NEW v \in WorkId, Kept(v)
  PROVE  LifeOf(status'[v]) = LifeOf(status[v])
BY LifeValue DEF Kept

LEMMA OpensLife ==
  ASSUME NEW ws \in SUBSET WorkId, Opens(ws)
  PROVE  /\ \A w \in ws : Life[w] = "absent"
         /\ Life' = Contract!Becomes(Life, ws, "open")
<1>1. \A v \in WorkId : v \in ws => LifeOf(status[v]) = "absent" /\ LifeOf(status'[v]) = "open"
  BY LifeValue DEF Opens
<1>2. \A v \in WorkId : v \notin ws => LifeOf(status'[v]) = LifeOf(status[v])
  BY LifeKept DEF Opens
<1>3. QED
  BY <1>1, <1>2 DEF Life, Contract!Becomes

LEMMA EndsLife ==
  ASSUME NEW w \in WorkId, NEW st \in {"DONE", "FAILED"}, Ends(w, st)
  PROVE  /\ Life[w] = "held"
         /\ Life' = [Life EXCEPT ![w] = IF st = "DONE" THEN "done" ELSE "failed"]
<1>1. LifeOf(status[w]) = "held" /\ LifeOf(status'[w]) = (IF st = "DONE" THEN "done" ELSE "failed")
  BY LifeValue DEF Ends
<1>2. \A v \in WorkId \ {w} : LifeOf(status'[v]) = LifeOf(status[v])
  BY LifeKept DEF Ends
<1>3. QED
  BY <1>1, <1>2 DEF Life

LEMMA KeptLife ==
  ASSUME \A v \in WorkId : Kept(v)
  PROVE  Life' = Life
BY LifeKept DEF Life

-----------------------------------------------------------------------------
(* The kinds of step, as the contract has them.                            *)

\* What is made and what is in the way: Promise of the contract.
LEMMA MakesPromise ==
  ASSUME CInv, NEW as, NEW old, Makes(as, old), NEW ws, \A a \in as : art'[a].producer \in ws
  PROVE  Contract!Promise(ws, as, old)
<1>1. \A a \in as : a \in ArtId /\ Stage[a] = "absent"
  <2> SUFFICES ASSUME NEW a \in as PROVE a \in ArtId /\ Stage[a] = "absent"
    OBVIOUS
  <2>1. a \in ArtId /\ a >= nextArt
    BY DEF Makes
  <2>2. art[a].state = "ABSENT"
    BY <2>1 DEF CInv, TInv, Numbered
  <2>3. QED
    BY <2>1, <2>2, StageValue DEF Stage
<1>2. \A a \in old : a \in ArtId /\ Stage[a] = "published"
  BY StageValue DEF Makes, Stage
<1>3. \A a \in as : art'[a].key # None => active[art'[a].key] \in old \cup {None} /\ active'[art'[a].key] = a
  BY DEF Makes
<1>4. \A a \in ArtId \ as : art'[a].producer = art[a].producer /\ art'[a].key = art[a].key
  BY DEF Makes
<1>5. \A k \in Key : (\A a \in as : art'[a].key # k) => active'[k] = Contract!Forgotten(old)[k]
  BY DEF Makes, Retired, Contract!Forgotten
<1>6. QED
  BY <1>1, <1>2, <1>3, <1>4, <1>5 DEF Contract!Promise

\* The stages after a step that makes the artifacts as
Staged(as, old) ==
  /\ Stage' = [a \in ArtId |-> IF a \in as THEN StageOf(art'[a].state)
                               ELSE IF a \in old THEN "withdrawn" ELSE Stage[a]]
  /\ \A a \in old : a \notin as

LEMMA MakesStage == ASSUME CInv, NEW as, NEW old, Makes(as, old) PROVE Staged(as, old)
<1>1. \A a \in ArtId : a \in old => StageOf(art'[a].state) = "withdrawn"
  BY StageValue DEF Makes
<1>2. \A a \in ArtId : a \notin as \cup old => StageOf(art'[a].state) = StageOf(art[a].state)
  BY DEF Makes
<1>3. \A a \in old : a \notin as
  BY DEF Makes, OfUse
<1>4. QED
  BY <1>1, <1>2, <1>3 DEF Stage, Staged

LEMMA GrowStep ==
  ASSUME CInv, NEW ws \in SUBSET WorkId, Opens(ws), NEW as, NEW old, Makes(as, old),
         \A a \in as : art'[a].state = "FUTURE" /\ art'[a].producer \in ws, asg' = asg
  PROVE  Contract!Next
<1>1. as \in SUBSET ArtId /\ old \in SUBSET ArtId
  BY DEF Makes
<1>2. Contract!Promise(ws, as, old)
  BY MakesPromise
<1>3. Staged(as, old) /\ \A a \in as : StageOf(art'[a].state) = "promised"
  BY MakesStage, StageValue
<1>4. Stage' = Contract!Becomes(Contract!Becomes(Stage, as, "promised"), old, "withdrawn")
  BY <1>3 DEF Contract!Becomes, Stage, Staged
<1>5. Contract!Grow(ws, as, old)
  BY <1>2, <1>4, OpensLife DEF Contract!Grow
<1>6. QED
  BY <1>1, <1>5 DEF Contract!Next

\* WORK w is finished and the new WORK ws goes on.
Diverts(w, ws) ==
  /\ w \notin ws /\ status[w] = "RUNNING" /\ status'[w] = "DONE"
  /\ \A v \in WorkId \ {w} : IF v \in ws THEN status[v] = "ABSENT" /\ status'[v] \in Open ELSE Kept(v)

\* Artifact c is the checkpoint of WORK w, and the WORK ws promises the artifacts as.
Checkpointed(w, c, ws, as) ==
  /\ c \notin as /\ art'[c].state = "CONCRETE" /\ art'[c].producer = w /\ art'[c].key = None
  /\ \A a \in as : art'[a].state = "FUTURE" /\ art'[a].producer \in ws

LEMMA DivertStep ==
  ASSUME CInv, NEW ws \in SUBSET WorkId, NEW w \in WorkId, Diverts(w, ws),
         NEW as, NEW old, NEW c \in ArtId, Makes(as \cup {c}, old), Checkpointed(w, c, ws, as), asg' = asg
  PROVE  Contract!Next
<1> USE DEF Diverts, Checkpointed
<1>1. as \in SUBSET ArtId /\ old \in SUBSET ArtId
  BY DEF Makes
<1>2. Contract!Promise(ws \cup {w}, as \cup {c}, old)
  <2>1. \A a \in as \cup {c} : art'[a].producer \in ws \cup {w}
    OBVIOUS
  <2>2. QED
    BY <2>1, MakesPromise
<1>3. /\ Staged(as \cup {c}, old)
      /\ \A a \in as : StageOf(art'[a].state) = "promised"
      /\ StageOf(art'[c].state) = "published"
  BY MakesStage, StageValue
<1>4. Stage' = [Contract!Becomes(Contract!Becomes(Stage, as, "promised"), old, "withdrawn") EXCEPT ![c] = "published"]
  BY <1>3 DEF Contract!Becomes, Stage, Staged
<1>5. Life[w] = "held" /\ LifeOf(status'[w]) = "done"
  BY LifeValue DEF Life
<1>6. \A x \in ws : Life[x] = "absent" /\ LifeOf(status'[x]) = "open"
  BY LifeValue DEF Life
<1>7. \A x \in WorkId \ {w} : x \notin ws => LifeOf(status'[x]) = LifeOf(status[x])
  BY LifeKept
<1>8. Life' = [Contract!Becomes(Life, ws, "open") EXCEPT ![w] = "done"]
  BY <1>5, <1>6, <1>7 DEF Life, Contract!Becomes
<1>9. Stage[c] = "absent"
  <2>1. art[c].state = "ABSENT"
    BY DEF Makes, CInv, TInv, Numbered
  <2>2. QED
    BY <2>1, StageValue DEF Stage
<1>10. \A a \in as : art'[a].producer # w
  OBVIOUS
<1>11. Contract!Divert(w, c, ws, as, old)
  BY <1>1, <1>2, <1>4, <1>5, <1>6, <1>8, <1>9, <1>10 DEF Contract!Divert
<1>12. QED
  BY <1>1, <1>11 DEF Contract!Next

LEMMA TakesAwayStage ==
  ASSUME CInv, NEW as, TakesAway(as), NEW st \in {"INVALIDATED", "FAILED"}, \A a \in as : art'[a].state = st
  PROVE  /\ as \in SUBSET ArtId /\ \A a \in as : Stage[a] \in {"promised", "published"}
         /\ Stage' = Contract!Becomes(Stage, as, IF st = "FAILED" THEN "failed" ELSE "withdrawn")
         /\ active' = Contract!Forgotten(as)
         /\ \A a \in ArtId : art'[a].producer = art[a].producer /\ art'[a].key = art[a].key
<1>1. as \in SUBSET ArtId /\ \A a \in as : Stage[a] \in {"promised", "published"}
  BY StageValue DEF TakesAway, OfUse, Stage
<1>2. \A a \in ArtId : a \in as => StageOf(art'[a].state) = (IF st = "FAILED" THEN "failed" ELSE "withdrawn")
  BY StageValue
<1>3. \A a \in ArtId : a \notin as => StageOf(art'[a].state) = StageOf(art[a].state)
  BY DEF TakesAway
<1>4. Stage' = Contract!Becomes(Stage, as, IF st = "FAILED" THEN "failed" ELSE "withdrawn")
  BY <1>2, <1>3 DEF Stage, Contract!Becomes
<1>5. QED
  BY <1>1, <1>4 DEF TakesAway, Retired, Contract!Forgotten

LEMMA WithdrawStep ==
  ASSUME CInv, NEW as, TakesAway(as), \A a \in as : art'[a].state = "INVALIDATED",
         \A v \in WorkId : Kept(v), asg' = asg
  PROVE  Contract!Next
<1>1. /\ as \in SUBSET ArtId /\ \A a \in as : Stage[a] \in {"promised", "published"}
      /\ Stage' = Contract!Becomes(Stage, as, "withdrawn")
      /\ active' = Contract!Forgotten(as)
      /\ \A a \in ArtId : art'[a].producer = art[a].producer /\ art'[a].key = art[a].key
  BY TakesAwayStage
<1>2. Contract!Withdraw(as)
  BY <1>1, KeptLife DEF Contract!Withdraw
<1>3. QED
  BY <1>1, <1>2 DEF Contract!Next

LEMMA FailStep ==
  ASSUME CInv, NEW w \in WorkId, Ends(w, "FAILED"), TakesAway(Unfinished(w)),
         \A a \in Unfinished(w) : art'[a].state = "FAILED", asg' = asg
  PROVE  Contract!Next
<1>1. Unfinished(w) = Contract!Promised(w)
  <2>1. \A a \in ArtId : a \in Unfinished(w) <=> art[a].producer = w /\ art[a].state = "FUTURE"
    BY DEF CInv, Mirrored, Unfinished
  <2>2. \A a \in ArtId : Stage[a] = "promised" <=> art[a].state = "FUTURE"
    BY StageValue DEF Stage, CInv, TInv, TypeOK, ArtRecord, ArtifactState
  <2>3. Unfinished(w) \subseteq ArtId
    BY DEF TakesAway
  <2>4. QED
    BY <2>1, <2>2, <2>3 DEF Contract!Promised
<1>2. /\ Stage' = Contract!Becomes(Stage, Contract!Promised(w), "failed")
      /\ active' = Contract!Forgotten(Contract!Promised(w))
      /\ \A a \in ArtId : art'[a].producer = art[a].producer /\ art'[a].key = art[a].key
  BY <1>1, TakesAwayStage
<1>3. Life[w] = "held" /\ Life' = [Life EXCEPT ![w] = "failed"]
  BY EndsLife
<1>4. Contract!Fail(w)
  BY <1>2, <1>3 DEF Contract!Fail
<1>5. QED
  BY <1>4 DEF Contract!Next

LEMMA CompleteStep ==
  ASSUME CInv, NEW w \in WorkId, Ends(w, "DONE"), Publishes, asg' = asg,
         \A a \in work[w].outs : art[a].state = "FUTURE" /\ art'[a].state = "CONCRETE",
         \A a \in ArtId \ work[w].outs : art'[a].state = art[a].state
  PROVE  Contract!Next
<1>1. \A a \in ArtId : a \in work[w].outs <=> art[a].producer = w
  BY DEF CInv, Mirrored
<1>2. \A a \in ArtId : art[a].producer = w => Stage[a] = "promised" /\ StageOf(art'[a].state) = "published"
  BY <1>1, StageValue DEF Stage
<1>3. \A a \in ArtId : art[a].producer # w => StageOf(art'[a].state) = StageOf(art[a].state)
  BY <1>1
<1>4. Stage' = Contract!Becomes(Stage, Contract!Promised(w), "published")
  BY <1>2, <1>3 DEF Contract!Promised, Contract!Becomes, Stage
<1>5. Life[w] = "held" /\ Life' = [Life EXCEPT ![w] = "done"]
  BY EndsLife
<1>6. Contract!Complete(w)
  BY <1>2, <1>4, <1>5 DEF Contract!Complete, Publishes
<1>7. QED
  BY <1>6 DEF Contract!Next

-----------------------------------------------------------------------------
(* Operation by operation.                                                 *)

\* A step keeps the invariant and is one of the contract, or none.
Refines == CInv' /\ (Contract!Next \/ UNCHANGED Contract!gvars)

\* Nothing the contract speaks of changes.
LEMMA NothingSeen ==
  ASSUME CInv, TInv', Publishes, asg' = asg, \A v \in WorkId : LifeOf(status'[v]) = LifeOf(status[v]),
         \A a \in ArtId : art'[a].state = art[a].state
  PROVE  Refines
<1>1. CInv'
  BY IndexPublishes
<1>2. Life' = Life /\ Stage' = Stage
  BY DEF Life, Stage
<1>3. UNCHANGED Contract!gvars
  BY <1>2 DEF Publishes, Contract!gvars
<1>4. QED
  BY <1>1, <1>3 DEF Refines

LEMMA RefinesAssign ==
  ASSUME CInv, TInv', NEW w \in WorkId, NEW s \in Assignment, Assign(w, s)
  PROVE  Refines
<1>1. /\ status[w] = "READY" /\ status' = [status EXCEPT ![w] = "ASSIGNED"] /\ asg' = [asg EXCEPT ![w] = s]
      /\ Publishes /\ art' = art /\ active' = active
  BY DEF Assign, Publishes
<1>2. CInv'
  BY <1>1, IndexPublishes
<1>3. LifeOf(status[w]) = "open" /\ LifeOf(status'[w]) = "held"
  BY <1>1, LifeValue DEF CInv, TInv, TypeOK, Open
<1>4. \A v \in WorkId \ {w} : LifeOf(status'[v]) = LifeOf(status[v])
  BY <1>1 DEF CInv, TInv, TypeOK
<1>5. Life[w] = "open" /\ Life' = [Life EXCEPT ![w] = "held"]
  BY <1>3, <1>4 DEF Life
<1>6. Stage' = Stage
  BY <1>1 DEF Stage
<1>7. Contract!Hand(w, s)
  BY <1>1, <1>5, <1>6 DEF Contract!Hand
<1>8. QED
  BY <1>2, <1>7 DEF Contract!Next, Refines

LEMMA RefinesStart ==
  ASSUME CInv, TInv', NEW w \in WorkId, NEW s \in Assignment, Start(w, s)
  PROVE  Refines
<1>1. /\ status[w] = "ASSIGNED" /\ status' = [status EXCEPT ![w] = "RUNNING"] /\ asg' = asg
      /\ Publishes /\ art' = art
  BY DEF Start, Publishes
<1>2. \A v \in WorkId : LifeOf(status'[v]) = LifeOf(status[v])
  BY <1>1, LifeValue DEF CInv, TInv, TypeOK
<1>3. QED
  BY <1>1, <1>2, NothingSeen

\* Evaluation, a repeated commit and the clock leave the graph alone; so does a
\* rebuild, because the index is sound.
LEMMA RefinesElsewhere ==
  ASSUME CInv, TInv', UNCHANGED <<work, status, asg, art, active, history>>
  PROVE  Refines
<1>1. Publishes
  BY DEF Publishes
<1>2. QED
  BY <1>1, NothingSeen

\* The index as it is is the one rebuild computes.
LEMMA RebuiltCurrent ==
  ASSUME CInv
  PROVE  RebuiltHistory(art) = history /\ RebuiltActive(art) = active
<1>1. ASSUME NEW k \in Key PROVE RebuiltHistory(art)[k] = history[k] /\ RebuiltActive(art)[k] = active[k]
  <2>1. /\ history[k] = {a \in ArtId : art[a].key = k}
        /\ {a \in history[k] : art[a].state \in OfUse} = {active[k]} \ {None}
    BY DEF CInv, IndexSound, OfUse
  <2>2. InUse(art, k) = {active[k]} \ {None}
    BY <2>1 DEF InUse, Generations, OfUse
  <2>3. active[k] \in ArtId \cup {None} /\ (active[k] = None \/ active[k] \in ArtId)
    BY DEF CInv, TInv, TypeOK
  <2>4. CASE active[k] = None
    BY <2>1, <2>2, <2>4 DEF RebuiltHistory, RebuiltActive, Generations
  <2>5. CASE active[k] # None
    <3>1. InUse(art, k) = {active[k]} /\ active[k] \in ArtId
      BY <2>2, <2>3, <2>5
    <3>2. (CHOOSE a \in ArtId : a \in InUse(art, k)) = active[k]
      BY <3>1
    <3>3. QED
      BY <2>1, <3>1, <3>2 DEF RebuiltHistory, RebuiltActive, Generations
  <2>6. QED
    BY <2>4, <2>5
<1>2. /\ history \in [Key -> SUBSET ArtId] /\ active \in [Key -> ArtId \cup {None}]
  BY DEF CInv, TInv, TypeOK
<1>3. RebuiltHistory(art) = history
  BY <1>1, <1>2 DEF RebuiltHistory
<1>4. RebuiltActive(art) = active
  BY <1>1, <1>2 DEF RebuiltActive
<1>5. QED
  BY <1>3, <1>4

LEMMA RefinesRebuild ==
  ASSUME CInv, TInv', RebuildArtifactIndex
  PROVE  Refines
<1>1. history' = history /\ active' = active
  BY RebuiltCurrent DEF RebuildArtifactIndex
<1>2. QED
  BY <1>1, RefinesElsewhere DEF RebuildArtifactIndex

LEMMA RefinesWithdraw ==
  ASSUME CInv, TInv', NEW as \in SUBSET ArtId, \A a \in as : art[a].state \in OfUse,
         work' = work, asg' = asg, history' = history,
         art' = Invalidated(art, as), active' = Retired(active, as), status' = SettledWork(status, work, art')
  PROVE  Refines
<1>1. TakesAway(as) /\ \A a \in as : art'[a].state = "INVALIDATED"
  <2>1. art \in [ArtId -> ArtRecord]
    BY DEF CInv, TInv, TypeOK
  <2>2. \A a \in ArtId : /\ art'[a].producer = art[a].producer /\ art'[a].key = art[a].key
                         /\ art'[a].state = IF a \in as THEN "INVALIDATED" ELSE art[a].state
    BY <2>1 DEF Invalidated, ArtRecord
  <2>3. QED
    BY <2>2 DEF TakesAway, OfUse
<1>2. \A v \in WorkId : Kept(v)
  <2>1. status \in [WorkId -> WorkStatus]
    BY DEF CInv, TInv, TypeOK
  <2>2. QED
    BY <2>1, SettledWorkType DEF Kept, Open
<1>3. CInv'
  BY <1>1, IndexTakesAway
<1>4. Contract!Next
  BY <1>1, <1>2, WithdrawStep
<1>5. QED
  BY <1>3, <1>4 DEF Refines

\* A finished WORK, after the refresh
LEMMA FinishEnds ==
  ASSUME CInv, NEW w \in WorkId, NEW st \in {"DONE", "FAILED"}, NEW how, status[w] = "RUNNING", work' = work,
         Finish(w, st, how)
  PROVE  Ends(w, st) /\ asg' = asg /\ history' = history
<1> DEFINE mid == [status EXCEPT ![w] = st]
<1>1. status' = SettledWork(mid, work', art')
  BY DEF Finish
<1>2. mid \in [WorkId -> WorkStatus] /\ mid[w] = st /\ \A v \in WorkId \ {w} : mid[v] = status[v]
  BY DEF CInv, TInv, TypeOK, WorkStatus
<1> HIDE DEF mid
<1>3. \A v \in WorkId : IF mid[v] \in Open THEN status'[v] \in Open ELSE status'[v] = mid[v]
  BY <1>1, <1>2, SettledWorkType DEF Open
<1>4. Ends(w, st)
  BY <1>2, <1>3 DEF Ends, Kept, Open
<1>5. QED
  BY <1>4 DEF Finish

LEMMA RefinesFail ==
  ASSUME CInv, TInv', NEW w \in WorkId, NEW s, Holds(w, s), work' = work, FailOutputs(w),
         Finish(w, "FAILED", "failed")
  PROVE  Refines
<1>1. Ends(w, "FAILED") /\ asg' = asg /\ history' = history
  BY FinishEnds DEF Holds
<1>2. art \in [ArtId -> ArtRecord] /\ Unfinished(w) \in SUBSET ArtId
  BY DEF CInv, TInv, TypeOK, WorkRecord, Unfinished
<1>3. /\ \A a \in Unfinished(w) : art[a].state = "FUTURE" /\ art'[a].state = "FAILED"
      /\ \A a \in ArtId : art'[a].producer = art[a].producer /\ art'[a].key = art[a].key
      /\ \A a \in ArtId \ Unfinished(w) : art'[a].state = art[a].state
  BY <1>2 DEF FailOutputs, ArtRecord, Unfinished
<1>4. TakesAway(Unfinished(w)) /\ \A a \in Unfinished(w) : art'[a].state = "FAILED"
  BY <1>1, <1>2, <1>3 DEF TakesAway, FailOutputs, OfUse
<1>5. CInv'
  BY <1>4, IndexTakesAway
<1>6. Contract!Next
  BY <1>1, <1>4, FailStep
<1>7. QED
  BY <1>5, <1>6 DEF Refines

\* What a completion publishes
LEMMA ConcretizedParts ==
  ASSUME TInv, NEW w \in WorkId, NEW d, NEW a \in ArtId
  PROVE  LET new == Concretized(w, d)[a]
         IN  /\ new.producer = art[a].producer /\ new.key = art[a].key
             /\ new.state = IF a \in work[w].outs THEN "CONCRETE" ELSE art[a].state
<1> DEFINE Until(k) == IF d.validUntil # None \/ k = None THEN d.validUntil
                       ELSE IF TTL[k[1]] = None THEN None ELSE SeenAt(d) + TTL[k[1]]
           u == Until(art[a].key)
           n == SeenAt(d)
<1>1. Concretized(w, d)[a] =
        IF a \in work[w].outs
        THEN [art[a] EXCEPT !.state = "CONCRETE", !.observedAt = n, !.validFrom = n, !.validUntil = u]
        ELSE art[a]
  BY DEF Concretized
<1> HIDE DEF u, n
<1>2. QED
  BY <1>1 DEF TInv, TypeOK, ArtRecord

LEMMA RefinesCommit ==
  ASSUME CInv, TInv', NEW w \in WorkId, NEW s, NEW complete \in BOOLEAN, NEW d, CommitWork(w, s, complete, d)
  PROVE  Refines
<1>1. /\ Holds(w, s) /\ ~Rejects(w, complete) /\ work' = work
      /\ art' = Concretized(w, d) /\ active' = active /\ Finish(w, "DONE", "completed")
  BY DEF CommitWork
<1>2. Ends(w, "DONE") /\ asg' = asg /\ history' = history
  BY <1>1, FinishEnds DEF Holds
<1>3. \A a \in work[w].outs : art[a].state = "FUTURE"
  BY <1>1 DEF Rejects
<1>4. /\ \A a \in ArtId : art'[a].producer = art[a].producer /\ art'[a].key = art[a].key
      /\ \A a \in ArtId : a \in work[w].outs => art'[a].state = "CONCRETE"
      /\ \A a \in ArtId \ work[w].outs : art'[a].state = art[a].state
  <2>1. art' = Concretized(w, d) /\ TInv
    BY <1>1 DEF CInv
  <2>2. QED
    BY <2>1, ConcretizedParts
<1>5. work[w].outs \subseteq ArtId
  BY DEF CInv, TInv, TypeOK, WorkRecord
<1>6. Publishes
  BY <1>1, <1>2, <1>3, <1>4 DEF Publishes
<1>7. CInv'
  BY <1>6, IndexPublishes
<1>8. Contract!Next
  BY <1>2, <1>3, <1>4, <1>5, <1>6, CompleteStep
<1>9. QED
  BY <1>7, <1>8 DEF Refines

\* The entry of the index for a key exists, has that key and is in use.
LEMMA IndexEntry ==
  ASSUME CInv, NEW k \in Key, active[k] # None
  PROVE  /\ active[k] \in ArtId /\ art[active[k]].key = k /\ art[active[k]].state \in OfUse
         /\ active[k] \in history[k]
<1>1. /\ history[k] = {a \in ArtId : art[a].key = k}
      /\ {a \in history[k] : art[a].state \in OfUse} = {active[k]} \ {None}
  BY DEF CInv, IndexSound, OfUse
<1>2. QED
  BY <1>1

\* What a request invalidates is the published artifact of its key, and only if it
\* is not reused.
LEMMA StaleEntry ==
  ASSUME CInv, NEW k \in Key \cup {None}, NEW age
  PROVE  /\ Reusable(k, age) => Stale(k, age) = {}
         /\ ~Reusable(k, age) /\ k # None => active[k] \in Stale(k, age) \cup {None}
         /\ \A a \in Stale(k, age) : /\ a \in ArtId /\ art[a].state = "CONCRETE"
                                     /\ k \in Key /\ a = active[k] /\ art[a].key = k
<1>1. Stale(k, age) = IF k # None /\ ~Reusable(k, age) /\ active[k] # None THEN {active[k]} ELSE {}
  BY DEF Stale
<1>2. ASSUME NEW a \in Stale(k, age)
      PROVE  a \in ArtId /\ art[a].state = "CONCRETE" /\ k \in Key /\ a = active[k] /\ art[a].key = k
  <2>1. k \in Key /\ ~Reusable(k, age) /\ active[k] # None /\ a = active[k]
    BY <1>1, <1>2
  <2>2. a \in ArtId /\ art[a].key = k /\ art[a].state \in OfUse
    BY <2>1, IndexEntry
  <2>3. art[active[k]].state # "FUTURE"
    BY <2>1, NoneAssumption DEF Reusable
  <2>4. QED
    BY <2>1, <2>2, <2>3 DEF OfUse
<1>3. QED
  BY <1>1, <1>2

\* WORK that was not created yet produces nothing.
LEMMA NewOuts ==
  ASSUME CInv, NEW v \in WorkId, status[v] = "ABSENT"
  PROVE  work[v].outs = {}
<1> SUFFICES ASSUME NEW b \in work[v].outs PROVE FALSE
  OBVIOUS
<1>1. b \in ArtId /\ art[b].producer = v
  BY DEF CInv, TInv, TypeOK, Mirrored, WorkRecord
<1>2. v # None /\ v \in Int /\ nextWork \in Int
  BY NoneAssumption DEF WorkId, CInv, TInv, TypeOK
<1>3. art[b].state # "ABSENT"
  BY <1>1, <1>2 DEF CInv, Unmade
<1>4. art[b].producer < nextWork /\ v >= nextWork
  BY <1>1, <1>3 DEF CInv, TInv, Numbered
<1>5. QED
  BY <1>1, <1>2, <1>4

LEMMA RefinesResolve ==
  ASSUME CInv, TInv', NEW c \in WorkId, NEW t \in Task, NEW i \in Identity \cup {None}, NEW age \in Age,
         NEW g \in Agent, ResolveArtifact(c, t, i, age, g)
  PROVE  Refines
<1> USE NoneAssumption
<1> DEFINE k == KeyOf(i, t)
           hit == Reusable(k, age)
           old == Stale(k, age)
           a == IF hit THEN active[k] ELSE nextArt
           p == IF hit THEN art[a].producer ELSE nextWork
           mid == IF hit THEN status ELSE [status EXCEPT ![p] = "BLOCKED"]
           provider == IF hit THEN [work[p] EXCEPT !.tasks = @ \cup {t}]
                       ELSE [NoWork EXCEPT !.agent = g, !.outs = {a}, !.tasks = {t}]
           asked == IF hit THEN Joined(art[a], {c}, {t})
                    ELSE [NoArtifact EXCEPT !.state = "FUTURE", !.producer = p, !.consumers = {c},
                                            !.key = k, !.tasks = {t}]
           inv == Invalidated(art, old)
           need == [art |-> a, maxAge |-> age]
           as == IF hit THEN {} ELSE {a}
           ws == IF hit THEN {} ELSE {p}
<1>1. k \in Key \cup {None}
  BY KeyOfType
<1>2. /\ ~hit => nextWork <= MaxWork /\ nextArt <= MaxArt
      /\ active' = [x \in Key |-> IF x = k THEN a ELSE active[x]]
      /\ history' = [x \in Key |-> IF x = k THEN history[x] \cup {a} ELSE history[x]]
      /\ status' = SettledWork(mid, work', art')
      /\ asg' = asg
      /\ work' = [[work EXCEPT ![p] = provider] EXCEPT ![c].inputs = @ \cup {need}]
      /\ art' = [inv EXCEPT ![a] = asked]
  BY Zenon DEF ResolveArtifact
<1>3. CInv /\ TInv
  BY DEF CInv
<1>4. hit => /\ a \in ArtId /\ a < nextArt /\ p \in WorkId /\ p < nextWork /\ k \in Key /\ a = active[k] /\ a # None
             /\ art[a].state \in {"FUTURE", "CONCRETE"} /\ art[a].producer = p
  BY <1>1, <1>3, ReusableHit DEF ArtId
<1>5. ~hit => a = nextArt /\ p = nextWork /\ a \in ArtId /\ p \in WorkId
  <2> SUFFICES ASSUME ~hit PROVE a = nextArt /\ p = nextWork /\ a \in ArtId /\ p \in WorkId
    OBVIOUS
  <2>1. nextWork \in 1 .. MaxWork + 1 /\ nextArt \in 1 .. MaxArt + 1
    BY <1>3 DEF TInv, TypeOK
  <2>2. a = nextArt /\ p = nextWork /\ nextWork <= MaxWork /\ nextArt <= MaxArt
    BY <1>2
  <2> HIDE DEF a, p
  <2>3. QED
    BY <2>1, <2>2, BoundAssumption DEF ArtId, WorkId
<1>6. /\ hit => old = {}
      /\ ~hit /\ k # None => active[k] \in old \cup {None}
      /\ \A b \in old : b \in ArtId /\ art[b].state = "CONCRETE" /\ k \in Key /\ b = active[k] /\ art[b].key = k
  BY <1>1, StaleEntry
<1> HIDE DEF k, hit, old, a, p, mid, asked, inv, provider, need
<1>7. /\ art \in [ArtId -> ArtRecord] /\ work \in [WorkId -> WorkRecord] /\ status \in [WorkId -> WorkStatus]
      /\ nextArt \in Int /\ nextWork \in Int
  BY <1>3 DEF TInv, TypeOK
<1>8. ~hit => art[a].state = "ABSENT" /\ status[p] = "ABSENT"
  BY <1>3, <1>5, <1>7 DEF TInv, Numbered
<1>9. \A b \in ArtId : /\ inv[b].producer = art[b].producer /\ inv[b].key = art[b].key
                       /\ b \notin old => inv[b] = art[b]
                       /\ b \in old => inv[b].state = "INVALIDATED"
  BY <1>7, InvalidatedType DEF inv
<1>10. a \notin old
  BY <1>6, <1>8
<1>11. /\ \A b \in ArtId \ {a} : art'[b] = inv[b]
       /\ art'[a] = asked
  BY <1>2, <1>4, <1>5, <1>7 DEF inv, Invalidated
<1>12. /\ hit => asked.state = art[a].state /\ asked.producer = art[a].producer /\ asked.key = art[a].key
       /\ ~hit => asked.state = "FUTURE" /\ asked.producer = p /\ asked.key = k
  <2>1. hit => art[a] \in ArtRecord
    BY <1>4, <1>7
  <2>2. QED
    BY <2>1 DEF asked, Joined, ArtRecord, NoArtifact
<1>13. \A v \in WorkId : work'[v].outs = IF v = p /\ ~hit THEN {a} ELSE work[v].outs
  <2>1. provider.outs = IF hit THEN work[p].outs ELSE {a}
    BY <1>4, <1>7 DEF provider, NoWork, WorkRecord
  <2>2. provider \in [agent : Agent \cup {None}, preds : SUBSET WorkId, inputs : SUBSET Requirement,
                      outs : SUBSET ArtId, tasks : SUBSET Task]
    <3>1. \A r \in WorkRecord : [r EXCEPT !.tasks = @ \cup {t}] \in WorkRecord
      BY DEF WorkRecord
    <3>2. ~hit => [NoWork EXCEPT !.agent = g, !.outs = {a}, !.tasks = {t}] \in WorkRecord
      BY <1>5 DEF NoWork, WorkRecord
    <3>3. provider \in WorkRecord
      BY <1>4, <1>7, <3>1, <3>2 DEF provider
    <3>4. QED
      BY <3>3 DEF WorkRecord
  <2>3. \A r \in WorkRecord : [r EXCEPT !.inputs = @ \cup {need}].outs = r.outs
    BY DEF WorkRecord
  <2>4. [work EXCEPT ![p] = provider] \in [WorkId -> WorkRecord]
    BY <1>7, <2>2 DEF WorkRecord
  <2>5. \A v \in WorkId : work'[v].outs = [work EXCEPT ![p] = provider][v].outs
    BY <1>2, <2>3, <2>4
  <2>6. QED
    BY <1>4, <1>5, <1>7, <2>1, <2>5
<1>14. ~hit => work[p].outs = {}
  BY <1>5, <1>8, NewOuts
<1>15. Makes(as, old)
  <2>1. \A b \in as : ~hit /\ b = a /\ b \in ArtId /\ b >= nextArt
    BY <1>5, <1>7
  <2>2. \A b \in as : /\ art'[b].state \in OfUse /\ art'[b].producer \in WorkId
                      /\ art'[b].key # None => active[art'[b].key] \in old \cup {None} /\ active'[art'[b].key] = b
    BY <1>1, <1>2, <1>5, <1>6, <1>11, <1>12, <2>1 DEF OfUse
  <2>3. \A b \in old : b \in ArtId /\ art[b].state = "CONCRETE" /\ art'[b].state = "INVALIDATED"
    BY <1>6, <1>9, <1>10, <1>11
  <2>4. \A b \in ArtId \ as : art'[b].producer = art[b].producer /\ art'[b].key = art[b].key
    BY <1>9, <1>11, <1>12
  <2>5. \A b \in ArtId \ (as \cup old) : art'[b].state = art[b].state
    BY <1>9, <1>11, <1>12
  <2>6. ASSUME NEW x \in Key
        PROVE  /\ (\A b \in as : art'[b].key # x) => active'[x] = Retired(active, old)[x]
               /\ history'[x] = history[x] \cup {b \in as : art'[b].key = x}
    <3>1. CASE x = k /\ hit
      <4>1. active'[x] = active[x] /\ active[x] \notin old /\ as = {}
        BY <1>2, <1>4, <1>6, <3>1
      <4>2. a \in history[x]
        BY <1>4, <3>1, IndexEntry
      <4>3. QED
        BY <1>2, <3>1, <4>1, <4>2 DEF Retired
    <3>2. CASE x = k /\ ~hit
      BY <1>2, <1>11, <1>12, <3>2
    <3>3. CASE x # k
      <4>1. active'[x] = active[x] /\ history'[x] = history[x] /\ \A b \in as : art'[b].key # x
        BY <1>2, <1>11, <1>12, <3>3
      <4>2. active[x] \notin old
        <5> SUFFICES ASSUME active[x] \in old PROVE FALSE
          OBVIOUS
        <5>1. active[x] \in ArtId /\ art[active[x]].key = k
          BY <1>6
        <5>2. active[x] # None
          BY <5>1 DEF ArtId
        <5>3. art[active[x]].key = x
          BY <5>2, IndexEntry
        <5>4. QED
          BY <3>3, <5>1, <5>3
      <4>3. QED
        BY <4>1, <4>2 DEF Retired
    <3>4. QED
      BY <3>1, <3>2, <3>3
  <2>7. \A v \in WorkId : work'[v].outs = work[v].outs \cup {b \in as : art'[b].producer = v}
    BY <1>11, <1>12, <1>13, <1>14
  <2> HIDE DEF as
  <2>8. QED
    BY <2>1, <2>2, <2>3, <2>4, <2>5, <2>6, <2>7 DEF Makes
<1>16. ws \in SUBSET WorkId /\ \A b \in as : art'[b].state = "FUTURE" /\ art'[b].producer \in ws
  BY <1>5, <1>11, <1>12
<1>17. Opens(ws)
  <2>1. mid \in [WorkId -> WorkStatus] /\ \A v \in WorkId : mid[v] = IF v \in ws THEN "BLOCKED" ELSE status[v]
    BY <1>5, <1>7 DEF mid, WorkStatus
  <2>2. \A v \in WorkId : IF mid[v] \in Open THEN status'[v] \in Open ELSE status'[v] = mid[v]
    BY <1>2, <2>1, SettledWorkType DEF Open
  <2>3. \A v \in ws : status[v] = "ABSENT"
    BY <1>8
  <2> HIDE DEF ws
  <2>4. QED
    BY <2>1, <2>2, <2>3 DEF Opens, Kept, Open
<1> HIDE DEF as, ws
<1>18. CInv'
  BY <1>15, IndexMakes
<1>19. Contract!Next
  BY <1>2, <1>15, <1>16, <1>17, GrowStep
<1>20. QED
  BY <1>18, <1>19 DEF Refines

LEMMA RefinesExpand ==
  ASSUME CInv, TInv', NEW w \in WorkId, NEW s \in Assignment, NEW g \in Agent, NEW i \in Identity \cup {None},
         NEW age \in Age, NEW d \in Draft, ExpandWork(w, s, g, i, age, d)
  PROVE  Refines
<1> USE NoneAssumption
<1> DEFINE ts == work[w].tasks
           k == ExpansionKey(i, ts)
           hit == Reusable(k, age)
           old == Stale(k, age)
           c == nextWork
           checkpoint == nextArt
           a == IF hit THEN active[k] ELSE nextArt + 1
           p == IF hit THEN art[a].producer ELSE nextWork + 1
           continuation == [agent |-> work[w].agent, preds |-> {w}, outs |-> {}, tasks |-> ts,
                            inputs |-> {[art |-> checkpoint, maxAge |-> None], [art |-> a, maxAge |-> age]}]
           provider == [NoWork EXCEPT !.agent = g, !.outs = {a}, !.tasks = ts]
           checkpointed == [state |-> "CONCRETE", producer |-> w, consumers |-> {c}, key |-> None, tasks |-> ts,
                            observedAt |-> SeenAt(d), validFrom |-> now, validUntil |-> d.validUntil]
           asked == [NoArtifact EXCEPT !.state = "FUTURE", !.producer = p, !.consumers = {c}, !.key = k, !.tasks = ts]
           inv == Invalidated(art, old)
           mid == [v \in WorkId |-> IF v = w THEN "DONE"
                                   ELSE IF v = c \/ (v = p /\ ~hit) THEN "BLOCKED" ELSE status[v]]
           as == IF hit THEN {} ELSE {a}
           ws == IF hit THEN {c} ELSE {c, p}
<1>1. /\ nextWork' = IF hit THEN nextWork + 1 ELSE nextWork + 2
      /\ nextArt' = IF hit THEN nextArt + 1 ELSE nextArt + 2
      /\ nextWork' <= MaxWork + 1 /\ nextArt' <= MaxArt + 1
      /\ work' = [v \in WorkId |->
           IF v = c THEN continuation
           ELSE IF v = p /\ ~hit THEN provider
           ELSE IF v = w THEN [work[w] EXCEPT !.outs = @ \cup {checkpoint}]
           ELSE IF <<"PRECEDES", w, v>> \in edges THEN [work[v] EXCEPT !.preds = Replace(@, w, c)]
           ELSE work[v]]
      /\ art' = [b \in ArtId |->
           IF b = checkpoint THEN checkpointed
           ELSE IF b = a /\ hit THEN Joined(art[a], {c}, ts)
           ELSE IF b = a THEN asked
           ELSE inv[b]]
      /\ active' = [x \in Key |-> IF x = k THEN a ELSE active[x]]
      /\ history' = [x \in Key |-> IF x = k THEN history[x] \cup {a} ELSE history[x]]
      /\ asg' = asg
      /\ status' = SettledWork(mid, work', art')
      /\ status[w] = "RUNNING"
      /\ ts # {}
  BY Zenon DEF ExpandWork, Holds
<1>2. /\ art \in [ArtId -> ArtRecord] /\ work \in [WorkId -> WorkRecord] /\ status \in [WorkId -> WorkStatus]
      /\ nextWork \in 1 .. MaxWork + 1 /\ nextArt \in 1 .. MaxArt + 1
      /\ TInv
  BY DEF CInv, TInv, TypeOK
<1>3. k \in Key \cup {None}
  <2>1. (CHOOSE t \in ts : TRUE) \in Task
    BY <1>1, <1>2 DEF WorkRecord
  <2>2. QED
    BY <2>1, KeyOfType DEF ExpansionKey
<1>4. hit => /\ a \in ArtId /\ a < nextArt /\ p \in WorkId /\ p < nextWork /\ k \in Key /\ a = active[k] /\ a # None
             /\ art[a].state \in {"FUTURE", "CONCRETE"} /\ art[a].producer = p
  BY <1>2, <1>3, ReusableHit DEF ArtId
<1>5. c = nextWork /\ checkpoint = nextArt /\ (~hit => a = nextArt + 1 /\ p = nextWork + 1)
  OBVIOUS
<1>6. /\ hit => old = {}
      /\ ~hit /\ k # None => active[k] \in old \cup {None}
      /\ \A b \in old : b \in ArtId /\ art[b].state = "CONCRETE" /\ k \in Key /\ b = active[k] /\ art[b].key = k
  BY <1>3, StaleEntry
<1> HIDE DEF ts, k, hit, old, c, checkpoint, a, p, continuation, provider, checkpointed, asked, inv, mid
<1>7. /\ c \in WorkId /\ checkpoint \in ArtId /\ a \in ArtId /\ p \in WorkId
      /\ c >= nextWork /\ checkpoint >= nextArt /\ a # checkpoint
      /\ ~hit => a >= nextArt /\ p >= nextWork /\ p # c
  <2> USE BoundAssumption DEF WorkId, ArtId
  <2>1. CASE hit
    <3>1. nextWork' = nextWork + 1 /\ nextArt' = nextArt + 1 /\ nextWork' <= MaxWork + 1 /\ nextArt' <= MaxArt + 1
      BY <1>1, <2>1
    <3>2. QED
      BY <1>2, <1>4, <1>5, <2>1, <3>1
  <2>2. CASE ~hit
    <3>1. nextWork' = nextWork + 2 /\ nextArt' = nextArt + 2 /\ nextWork' <= MaxWork + 1 /\ nextArt' <= MaxArt + 1
      BY <1>1, <2>2
    <3>2. QED
      BY <1>2, <1>5, <2>2, <3>1
  <2>3. QED
    BY <2>1, <2>2
<1>8. /\ status[c] = "ABSENT" /\ art[checkpoint].state = "ABSENT"
      /\ ~hit => status[p] = "ABSENT" /\ art[a].state = "ABSENT"
      /\ w # c /\ (~hit => w # p)
  <2>1. /\ status[c] = "ABSENT" /\ art[checkpoint].state = "ABSENT"
        /\ ~hit => status[p] = "ABSENT" /\ art[a].state = "ABSENT"
    BY <1>2, <1>7 DEF TInv, Numbered
  <2>2. QED
    BY <1>1, <2>1
<1>9. \A b \in ArtId : /\ inv[b].producer = art[b].producer /\ inv[b].key = art[b].key
                       /\ b \notin old => inv[b] = art[b]
                       /\ b \in old => inv[b].state = "INVALIDATED"
  BY <1>2, InvalidatedType DEF inv
<1>10. a \notin old /\ checkpoint \notin old
  BY <1>6, <1>8
<1>11. /\ art'[checkpoint] = checkpointed
       /\ art'[a] = IF hit THEN Joined(art[a], {c}, ts) ELSE asked
       /\ \A b \in ArtId \ {a, checkpoint} : art'[b] = inv[b]
  BY <1>1, <1>7
<1>12. /\ art'[checkpoint].state = "CONCRETE" /\ art'[checkpoint].producer = w /\ art'[checkpoint].key = None
       /\ hit => art'[a].state = art[a].state /\ art'[a].producer = art[a].producer /\ art'[a].key = art[a].key
       /\ ~hit => art'[a].state = "FUTURE" /\ art'[a].producer = p /\ art'[a].key = k
  <2>1. art[a] \in ArtRecord
    BY <1>2, <1>7
  <2>2. /\ Joined(art[a], {c}, ts).state = art[a].state /\ Joined(art[a], {c}, ts).producer = art[a].producer
        /\ Joined(art[a], {c}, ts).key = art[a].key
    BY <2>1 DEF Joined, ArtRecord
  <2>3. asked.state = "FUTURE" /\ asked.producer = p /\ asked.key = k
    BY DEF asked, NoArtifact
  <2>4. checkpointed.state = "CONCRETE" /\ checkpointed.producer = w /\ checkpointed.key = None
    BY DEF checkpointed
  <2>5. QED
    BY <1>11, <2>2, <2>3, <2>4
<1>13. \A v \in WorkId : work'[v].outs = IF v = p /\ ~hit THEN {a}
                                         ELSE IF v = w THEN work[w].outs \cup {checkpoint} ELSE work[v].outs
  <2>1. work[c].outs = {} /\ continuation.outs = {}
    BY <1>7, <1>8, NewOuts DEF continuation
  <2>2. provider.outs = {a}
    BY DEF provider, NoWork
  <2>3. \A r \in WorkRecord : /\ [r EXCEPT !.outs = @ \cup {checkpoint}].outs = r.outs \cup {checkpoint}
                              /\ [r EXCEPT !.preds = Replace(@, w, c)].outs = r.outs
    BY DEF WorkRecord
  <2>4. QED
    BY <1>1, <1>2, <1>7, <1>8, <2>1, <2>2, <2>3
<1>14. ~hit => work[p].outs = {}
  BY <1>7, <1>8, NewOuts
<1> DEFINE new == as \cup {checkpoint}
<1>15. Makes(new, old)
  <2>1. \A b \in new : b \in ArtId /\ b >= nextArt /\ (b = checkpoint \/ (b = a /\ ~hit))
    BY <1>7
  <2>2. \A b \in new : /\ art'[b].state \in OfUse /\ art'[b].producer \in WorkId
                       /\ art'[b].key # None => active[art'[b].key] \in old \cup {None} /\ active'[art'[b].key] = b
    BY <1>1, <1>3, <1>6, <1>7, <1>12, <2>1 DEF OfUse
  <2>3. \A b \in old : b \in ArtId /\ art[b].state = "CONCRETE" /\ art'[b].state = "INVALIDATED"
    BY <1>6, <1>9, <1>10, <1>11
  <2>4. \A b \in ArtId \ new : art'[b].producer = art[b].producer /\ art'[b].key = art[b].key
    BY <1>9, <1>11, <1>12
  <2>5. \A b \in ArtId \ (new \cup old) : art'[b].state = art[b].state
    BY <1>9, <1>11, <1>12
  <2>6. ASSUME NEW x \in Key
        PROVE  /\ (\A b \in new : art'[b].key # x) => active'[x] = Retired(active, old)[x]
               /\ history'[x] = history[x] \cup {b \in new : art'[b].key = x}
    <3>1. CASE x = k /\ hit
      <4>1. active'[x] = active[x] /\ active[x] \notin old /\ \A b \in new : art'[b].key # x
        BY <1>1, <1>4, <1>6, <1>12, <3>1
      <4>2. a \in history[x]
        BY <1>4, <3>1, IndexEntry
      <4>3. QED
        BY <1>1, <3>1, <4>1, <4>2 DEF Retired
    <3>2. CASE x = k /\ ~hit
      <4>1. {b \in new : art'[b].key = x} = {a}
        BY <1>12, <3>2
      <4>2. QED
        BY <1>1, <3>2, <4>1
    <3>3. CASE x # k
      <4>1. active'[x] = active[x] /\ history'[x] = history[x] /\ \A b \in new : art'[b].key # x
        BY <1>1, <1>12, <2>1, <3>3
      <4>2. active[x] \notin old
        <5> SUFFICES ASSUME active[x] \in old PROVE FALSE
          OBVIOUS
        <5>1. active[x] \in ArtId /\ art[active[x]].key = k
          BY <1>6
        <5>2. active[x] # None
          BY <5>1 DEF ArtId
        <5>3. art[active[x]].key = x
          BY <5>2, IndexEntry
        <5>4. QED
          BY <3>3, <5>1, <5>3
      <4>3. QED
        BY <4>1, <4>2 DEF Retired
    <3>4. QED
      BY <3>1, <3>2, <3>3
  <2>7. \A v \in WorkId : work'[v].outs = work[v].outs \cup {b \in new : art'[b].producer = v}
    <3> SUFFICES ASSUME NEW v \in WorkId
                 PROVE  work'[v].outs = work[v].outs \cup {b \in new : art'[b].producer = v}
      OBVIOUS
    <3>1. CASE hit
      BY <1>12, <1>13, <3>1
    <3>2. CASE ~hit
      BY <1>8, <1>12, <1>13, <1>14, <3>2
    <3>3. QED
      BY <3>1, <3>2
  <2> HIDE DEF new
  <2>8. QED
    BY <2>1, <2>2, <2>3, <2>4, <2>5, <2>6, <2>7 DEF Makes
<1>16. /\ ws \in SUBSET WorkId /\ w \notin ws /\ checkpoint \notin as
       /\ \A b \in as : art'[b].state = "FUTURE" /\ art'[b].producer \in ws
  BY <1>7, <1>8, <1>12
<1>17. /\ status'[w] = "DONE"
       /\ \A v \in WorkId \ {w} : IF v \in ws THEN status[v] = "ABSENT" /\ status'[v] \in Open ELSE Kept(v)
  <2>1. /\ mid \in [WorkId -> WorkStatus]
        /\ \A v \in WorkId : mid[v] = IF v = w THEN "DONE" ELSE IF v \in ws THEN "BLOCKED" ELSE status[v]
    BY <1>2 DEF mid, WorkStatus
  <2>2. \A v \in WorkId : IF mid[v] \in Open THEN status'[v] \in Open ELSE status'[v] = mid[v]
    BY <1>1, <2>1, SettledWorkType DEF Open
  <2>3. \A v \in ws : status[v] = "ABSENT"
    BY <1>8
  <2> HIDE DEF ws
  <2>4. QED
    BY <2>1, <2>2, <2>3 DEF Kept, Open
<1> HIDE DEF as, ws
<1>18. CInv'
  BY <1>15, IndexMakes
<1>19. Contract!Next
  <2>1. Diverts(w, ws)
    BY <1>1, <1>16, <1>17 DEF Diverts
  <2>2. Checkpointed(w, checkpoint, ws, as)
    BY <1>12, <1>16 DEF Checkpointed
  <2>3. Makes(as \cup {checkpoint}, old)
    BY <1>15
  <2>4. checkpoint \in ArtId /\ ws \in SUBSET WorkId /\ asg' = asg
    BY <1>1, <1>7, <1>16
  <2> HIDE DEF new
  <2>5. QED
    BY <2>1, <2>2, <2>3, <2>4, DivertStep
<1>20. QED
  BY <1>18, <1>19 DEF Refines

\* What a submission makes of the artifacts the fragment describes
LEMMA RefinesSubmit ==
  ASSUME CInv, TInv', NEW t \in Task, NEW f \in Fragment, SubmitTask(t, f)
  PROVE  Refines
<1> USE NoneAssumption
<1> DEFINE fresh == FreshWork(f, t)
           specs == DOMAIN f.artifacts
           keys == FragmentKeys(f, t)
           hits == Hits(f, t)
           new == specs \ hits
<1>1. PICK lastWork \in nextWork - 1 .. MaxWork, lastArt \in nextArt - 1 .. MaxArt :
        \E m \in Numberings(fresh, nextWork, lastWork), n \in Numberings(new, nextArt, lastArt) : Graft(t, f, m, n)
  BY Zenon DEF SubmitTask
<1>2. PICK m \in Numberings(fresh, nextWork, lastWork), n \in Numberings(new, nextArt, lastArt) : Graft(t, f, m, n)
  BY <1>1
<1>3. /\ ValidFragment(f)
      /\ \A i, j \in specs : keys[i] = keys[j] => i = j \/ keys[i] = None
  BY Zenon DEF SubmitTask
<1> DEFINE A == GlobalArt(f, t, n)
           W == GlobalWork(f, t, m)
           stale == UNION {Stale(keys[i], f.artifacts[i].maxAge) : i \in specs}
           created == {m[l] : l \in fresh}
           Consumers(i) == {W[l] : l \in f.artifacts[i].consumers}
           Joining(a) == UNION {Consumers(i) : i \in {j \in specs : A[j] = a}}
           Registered(x) == {i \in new : keys[i] = x}
           inv == Invalidated(art, stale)
           asked(i) == [NoArtifact EXCEPT !.state = "FUTURE", !.producer = W[f.artifacts[i].producer],
                                          !.consumers = Consumers(i), !.key = keys[i], !.tasks = {t}]
           mid == [v \in WorkId |-> IF v \in created THEN "BLOCKED" ELSE status[v]]
           outs(v) == work[v].outs \cup {A[i] : i \in {j \in new : W[f.artifacts[j].producer] = v}}
           as == {n[i] : i \in new}
           Of(b) == CHOOSE j \in new : n[j] = b
<1>4. /\ \A v \in WorkId : work'[v].outs = outs(v)
      /\ asg' = asg
      /\ art' = [a \in ArtId |->
           IF \E i \in new : n[i] = a THEN asked(Of(a))
           ELSE Joined(inv[a], Joining(a), {x \in {t} : \E i \in specs : A[i] = a})]
      /\ active' = [x \in Key |-> IF Registered(x) # {} THEN A[CHOOSE i \in Registered(x) : TRUE]
                                  ELSE Retired(active, stale)[x]]
      /\ history' = [x \in Key |-> history[x] \cup {A[i] : i \in Registered(x)}]
      /\ status' = SettledWork(mid, work', art')
  <2>1. /\ work' = [v \in WorkId |->
             [agent  |-> IF v \in created THEN f.work[CHOOSE l \in fresh : m[l] = v] ELSE work[v].agent,
              preds  |-> work[v].preds \cup {W[e[1]] : e \in {x \in f.control : W[x[2]] = v}},
              inputs |-> work[v].inputs \cup {[art |-> A[i], maxAge |-> f.artifacts[i].maxAge] :
                                                i \in {j \in specs : v \in Consumers(j)}},
              outs   |-> outs(v),
              tasks  |-> work[v].tasks \cup {x \in {t} : \E l \in DOMAIN W : W[l] = v}]]
        /\ asg' = asg
        /\ art' = [a \in ArtId |->
             IF \E i \in new : n[i] = a THEN asked(Of(a))
             ELSE Joined(inv[a], Joining(a), {x \in {t} : \E i \in specs : A[i] = a})]
        /\ active' = [x \in Key |-> IF Registered(x) # {} THEN A[CHOOSE i \in Registered(x) : TRUE]
                                    ELSE Retired(active, stale)[x]]
        /\ history' = [x \in Key |-> history[x] \cup {A[i] : i \in Registered(x)}]
        /\ status' = SettledWork(mid, work', art')
    BY <1>2, Zenon DEF Graft
  <2> HIDE DEF A, W, fresh, specs, keys, hits, new, stale, created, Consumers, Joining, Registered, inv, asked, mid, outs, Of
  <2>2. QED
    BY <2>1
<1>5. /\ art \in [ArtId -> ArtRecord] /\ work \in [WorkId -> WorkRecord] /\ status \in [WorkId -> WorkStatus]
      /\ nextWork \in 1 .. MaxWork + 1 /\ nextArt \in 1 .. MaxArt + 1
      /\ TInv
  BY DEF CInv, TInv, TypeOK
<1>6. /\ \A i \in specs : keys[i] \in Key \cup {None} /\ f.artifacts[i].producer \in DOMAIN f.work
      /\ created = nextWork .. lastWork
      /\ \A l \in DOMAIN f.work : W[l] \in WorkId
  <2>1. Located(t, f, m, n, lastWork, lastArt)
    BY <1>5, LocalMaps
  <2>2. \A i \in specs : f.artifacts[i].producer \in DOMAIN f.work
    BY <1>3, FragmentShape
  <2> HIDE DEF specs
  <2>3. QED
    BY <2>1, <2>2 DEF Located, specs
<1>7. /\ \A i \in new : n[i] \in nextArt .. lastArt
      /\ \A i, j \in new : n[i] = n[j] => i = j
  <2>1. /\ n \in [new -> nextArt .. lastArt]
        /\ \A i, j \in new : i < j => n[i] < n[j]
    BY DEF Numberings
  <2>2. \A i \in new : i \in Int
    BY FragmentAssumption
  <2>3. nextArt \in Int /\ lastArt \in Int
    BY <1>5
  <2> HIDE DEF new
  <2>4. QED
    BY <2>1, <2>2, <2>3
<1>8. \A i \in new : A[i] = n[i]
  BY DEF GlobalArt
<1>9. \A i \in new : W[f.artifacts[i].producer] \in created
  <2> SUFFICES ASSUME NEW i \in new PROVE W[f.artifacts[i].producer] \in created
    OBVIOUS
  <2>1. \A j \in hits : j \in specs /\ j # i
    BY DEF Hits
  <2>2. \A j, x \in specs : f.artifacts[j].producer = f.artifacts[x].producer => j = x
    BY <1>3, Zenon DEF ValidFragment
  <2>3. f.artifacts[i].producer \in fresh
    BY <1>6, <2>1, <2>2 DEF FreshWork
  <2>4. W[f.artifacts[i].producer] = m[f.artifacts[i].producer]
    BY <1>6, <2>3 DEF GlobalWork
  <2> HIDE DEF W, fresh
  <2>5. QED
    BY <2>3, <2>4
<1>10. \A i \in specs : /\ i \in new <=> ~Reusable(keys[i], f.artifacts[i].maxAge)
                        /\ i \in new /\ keys[i] # None => active[keys[i]] \in stale \cup {None}
  <2> SUFFICES ASSUME NEW i \in specs
               PROVE  /\ i \in new <=> ~Reusable(keys[i], f.artifacts[i].maxAge)
                      /\ i \in new /\ keys[i] # None => active[keys[i]] \in stale \cup {None}
    OBVIOUS
  <2>1. i \in new <=> ~Reusable(keys[i], f.artifacts[i].maxAge)
    BY DEF Hits
  <2>2. ~Reusable(keys[i], f.artifacts[i].maxAge) /\ keys[i] # None =>
          active[keys[i]] \in Stale(keys[i], f.artifacts[i].maxAge) \cup {None}
    BY <1>6, StaleEntry
  <2> HIDE DEF new, keys, hits
  <2>3. QED
    BY <2>1, <2>2
<1>11. \A b \in stale : b \in ArtId /\ art[b].state = "CONCRETE"
  <2> SUFFICES ASSUME NEW i \in specs, NEW b \in Stale(keys[i], f.artifacts[i].maxAge)
               PROVE  b \in ArtId /\ art[b].state = "CONCRETE"
    OBVIOUS
  <2>1. keys[i] \in Key \cup {None}
    BY <1>6
  <2> HIDE DEF keys, specs
  <2>2. QED
    BY <2>1, StaleEntry
<1> HIDE DEF A, W, fresh, specs, keys, hits, new, stale, created, Joining, Consumers, Registered, inv, asked, mid, Of, outs
<1>12. \A b \in as : /\ b \in ArtId /\ b >= nextArt /\ art[b].state = "ABSENT"
                     /\ Of(b) \in new /\ n[Of(b)] = b
  <2> SUFFICES ASSUME NEW i \in new
               PROVE  /\ n[i] \in ArtId /\ n[i] >= nextArt /\ art[n[i]].state = "ABSENT"
                      /\ Of(n[i]) \in new /\ n[Of(n[i])] = n[i]
    OBVIOUS
  <2>1. n[i] \in ArtId /\ n[i] >= nextArt
    BY <1>1, <1>5, <1>7, BoundAssumption DEF ArtId
  <2>2. art[n[i]].state = "ABSENT"
    BY <1>5, <2>1 DEF TInv, Numbered
  <2>3. Of(n[i]) \in new /\ n[Of(n[i])] = n[i]
    BY DEF Of
  <2>4. QED
    BY <2>1, <2>2, <2>3
<1>13. \A i \in new : n[i] \in as /\ Of(n[i]) = i
  <2> SUFFICES ASSUME NEW i \in new PROVE n[i] \in as /\ Of(n[i]) = i
    OBVIOUS
  <2>1. Of(n[i]) \in new /\ n[Of(n[i])] = n[i]
    BY <1>12
  <2>2. QED
    BY <1>7, <2>1
<1>14. /\ \A b \in as : /\ art'[b].state = "FUTURE" /\ art'[b].key = keys[Of(b)]
                        /\ art'[b].producer = W[f.artifacts[Of(b)].producer]
       /\ \A b \in ArtId \ as : /\ art'[b].producer = art[b].producer /\ art'[b].key = art[b].key
                                /\ art'[b].state = IF b \in stale THEN "INVALIDATED" ELSE art[b].state
  <2>1. \A b \in ArtId : inv[b] = IF b \in stale THEN [art[b] EXCEPT !.state = "INVALIDATED"] ELSE art[b]
    BY DEF inv, Invalidated
  <2>2. \A i : asked(i).state = "FUTURE" /\ asked(i).key = keys[i] /\ asked(i).producer = W[f.artifacts[i].producer]
    BY DEF asked, NoArtifact
  <2>3. \A r \in ArtRecord : \A x, y : /\ Joined(r, x, y).state = r.state /\ Joined(r, x, y).key = r.key
                                        /\ Joined(r, x, y).producer = r.producer
    BY DEF Joined, ArtRecord
  <2>4. \A b \in ArtId : inv[b] \in ArtRecord /\ inv[b].key = art[b].key /\ inv[b].producer = art[b].producer
                         /\ inv[b].state = IF b \in stale THEN "INVALIDATED" ELSE art[b].state
    <3> SUFFICES ASSUME NEW b \in ArtId
                 PROVE  /\ inv[b] \in ArtRecord /\ inv[b].key = art[b].key /\ inv[b].producer = art[b].producer
                        /\ inv[b].state = IF b \in stale THEN "INVALIDATED" ELSE art[b].state
      OBVIOUS
    <3>1. art[b] \in ArtRecord /\ (b \in stale => inv[b] = [art[b] EXCEPT !.state = "INVALIDATED"])
          /\ (b \notin stale => inv[b] = art[b])
      BY <1>5, <2>1
    <3>2. CASE b \in stale
      BY <3>1, <3>2 DEF ArtRecord, ArtifactState
    <3>3. CASE b \notin stale
      BY <3>1, <3>3
    <3>4. QED
      BY <3>2, <3>3
  <2>5. \A b \in as : art'[b] = asked(Of(b))
    BY <1>4, <1>12
  <2>6. ASSUME NEW b \in ArtId \ as PROVE \E x, y : art'[b] = Joined(inv[b], x, y)
    BY <1>4
  <2>7. \A b \in ArtId \ as : /\ art'[b].state = inv[b].state /\ art'[b].key = inv[b].key
                              /\ art'[b].producer = inv[b].producer
    BY <2>3, <2>4, <2>6
  <2> HIDE DEF as
  <2>8. \A b \in as : /\ art'[b].state = "FUTURE" /\ art'[b].key = keys[Of(b)]
                       /\ art'[b].producer = W[f.artifacts[Of(b)].producer]
    BY <2>2, <2>5, Zenon
  <2>9. \A b \in ArtId \ as : /\ art'[b].producer = art[b].producer /\ art'[b].key = art[b].key
                               /\ art'[b].state = IF b \in stale THEN "INVALIDATED" ELSE art[b].state
    BY <2>4, <2>7
  <2>10. QED
    BY <2>8, <2>9
<1>15. Makes(as, stale)
  <2>1. \A b \in as : b \in ArtId /\ b >= nextArt
    BY <1>12
  <2>2. ASSUME NEW b \in as
        PROVE  /\ art'[b].state \in OfUse /\ art'[b].producer \in WorkId
               /\ art'[b].key # None => active[art'[b].key] \in stale \cup {None} /\ active'[art'[b].key] = b
    <3> DEFINE i == Of(b)
    <3>1. i \in new /\ n[i] = b /\ i \in specs
      BY <1>12 DEF new
    <3> HIDE DEF i
    <3>2. art'[b].state = "FUTURE" /\ art'[b].key = keys[i] /\ art'[b].producer = W[f.artifacts[i].producer]
      BY <1>14 DEF i
    <3>3. art'[b].producer \in WorkId
      BY <1>6, <3>1, <3>2
    <3>4. keys[i] # None => active[keys[i]] \in stale \cup {None}
      BY <1>10, <3>1
    <3>5. ASSUME keys[i] # None PROVE active'[keys[i]] = b
      <4>1. keys[i] \in Key
        BY <1>6, <3>1, <3>5
      <4>2. \A j \in Registered(keys[i]) : j = i
        BY <1>3, <3>1, <3>5 DEF Registered, new
      <4>3. i \in Registered(keys[i])
        BY <3>1 DEF Registered
      <4>4. (CHOOSE j \in Registered(keys[i]) : TRUE) = i
        BY <4>2, <4>3
      <4>5. active'[keys[i]] = A[i]
        BY <1>4, <4>1, <4>3, <4>4
      <4>6. QED
        BY <1>8, <3>1, <4>5
    <3>6. QED
      BY <3>2, <3>3, <3>4, <3>5 DEF OfUse
  <2>3. \A b \in stale : b \in ArtId /\ art[b].state = "CONCRETE" /\ art'[b].state = "INVALIDATED"
    BY <1>11, <1>12, <1>14
  <2>4. \A b \in ArtId \ as : art'[b].producer = art[b].producer /\ art'[b].key = art[b].key
    BY <1>14
  <2>5. \A b \in ArtId \ (as \cup stale) : art'[b].state = art[b].state
    BY <1>14
  <2>6. ASSUME NEW x \in Key
        PROVE  /\ (\A b \in as : art'[b].key # x) => active'[x] = Retired(active, stale)[x]
               /\ history'[x] = history[x] \cup {b \in as : art'[b].key = x}
    <3>1. \A i \in Registered(x) : i \in new /\ n[i] \in as /\ art'[n[i]].key = x /\ A[i] = n[i]
      BY <1>8, <1>13, <1>14 DEF Registered
    <3>2. \A b \in as : art'[b].key = x => Of(b) \in Registered(x) /\ A[Of(b)] = b
      BY <1>8, <1>12, <1>14 DEF Registered
    <3> HIDE DEF as
    <3> DEFINE R == Registered(x)
    <3> HIDE DEF R
    <3>3. {A[i] : i \in Registered(x)} = {b \in as : art'[b].key = x}
      <4>1. \A b \in {A[i] : i \in R} : b \in as /\ art'[b].key = x
        <5> SUFFICES ASSUME NEW i \in R PROVE A[i] \in as /\ art'[A[i]].key = x
          OBVIOUS
        <5>1. i \in Registered(x)
          BY DEF R
        <5>2. n[i] \in as /\ art'[n[i]].key = x /\ A[i] = n[i]
          BY <3>1, <5>1
        <5>3. QED
          BY <5>2
      <4>2. \A b \in as : art'[b].key = x => b \in {A[i] : i \in R}
        BY <3>2 DEF R
      <4>3. QED
        BY <4>1, <4>2 DEF R
    <3>4. (\A b \in as : art'[b].key # x) => Registered(x) = {}
      BY <3>1
    <3>5. QED
      BY <1>4, <3>3, <3>4
  <2>7. ASSUME NEW v \in WorkId
        PROVE  work'[v].outs = work[v].outs \cup {b \in as : art'[b].producer = v}
    <3> DEFINE made == {j \in new : W[f.artifacts[j].producer] = v}
    <3>1. \A i \in made : n[i] \in as /\ art'[n[i]].producer = v /\ A[i] = n[i]
      BY <1>8, <1>13, <1>14
    <3>2. \A b \in as : art'[b].producer = v => Of(b) \in made /\ A[Of(b)] = b
      BY <1>8, <1>12, <1>14
    <3>3. work'[v].outs = work[v].outs \cup {A[i] : i \in made}
      BY <1>4 DEF outs
    <3> HIDE DEF as, made
    <3>4. {A[i] : i \in made} = {b \in as : art'[b].producer = v}
      <4>1. \A b \in {A[i] : i \in made} : b \in as /\ art'[b].producer = v
        <5> SUFFICES ASSUME NEW i \in made PROVE A[i] \in as /\ art'[A[i]].producer = v
          OBVIOUS
        <5>1. n[i] \in as /\ art'[n[i]].producer = v /\ A[i] = n[i]
          BY <3>1
        <5>2. QED
          BY <5>1
      <4>2. \A b \in as : art'[b].producer = v => b \in {A[i] : i \in made}
        BY <3>2
      <4>3. QED
        BY <4>1, <4>2
    <3>5. QED
      BY <3>3, <3>4
  <2> HIDE DEF as
  <2>8. QED
    BY <2>1, <2>2, <2>3, <2>4, <2>5, <2>6, <2>7 DEF Makes
<1>16. \A b \in as : art'[b].state = "FUTURE" /\ art'[b].producer \in created
  BY <1>9, <1>12, <1>14
<1>17. created \in SUBSET WorkId /\ \A v \in created : status[v] = "ABSENT"
  <2>1. \A v \in created : v \in WorkId /\ v >= nextWork
    BY <1>1, <1>5, <1>6, BoundAssumption DEF WorkId
  <2>2. QED
    BY <1>5, <2>1 DEF TInv, Numbered
<1>18. Opens(created)
  <2>1. mid \in [WorkId -> WorkStatus] /\ \A v \in WorkId : mid[v] = IF v \in created THEN "BLOCKED" ELSE status[v]
    BY <1>5 DEF mid, WorkStatus
  <2>2. \A v \in WorkId : IF mid[v] \in Open THEN status'[v] \in Open ELSE status'[v] = mid[v]
    BY <1>4, <2>1, SettledWorkType DEF Open
  <2>3. QED
    BY <1>17, <2>1, <2>2 DEF Opens, Kept, Open
<1> HIDE DEF as
<1>19. CInv'
  BY <1>15, IndexMakes
<1>20. Contract!Next
  BY <1>4, <1>15, <1>16, <1>17, <1>18, GrowStep
<1>21. QED
  BY <1>19, <1>20 DEF Refines

-----------------------------------------------------------------------------
(* Every step, and every behaviour.                                        *)

LEMMA RefinesNext == ASSUME CInv, [Next]_vars PROVE Refines
<1> TInv'
  BY TInvNext DEF CInv
<1>1. CASE \E t \in Task, f \in Fragment : SubmitTask(t, f)
  BY <1>1, RefinesSubmit
<1>2. CASE \E c \in WorkId, t \in Task, i \in Identity \cup {None}, age \in Age, g \in Agent :
             ResolveArtifact(c, t, i, age, g)
  BY <1>2, RefinesResolve
<1>3. CASE \E w \in WorkId, s \in Assignment : Assign(w, s) \/ Start(w, s)
  BY <1>3, RefinesAssign, RefinesStart
<1>4. CASE \E w \in WorkId, s \in Assignment, complete \in BOOLEAN, d \in Draft : CommitWork(w, s, complete, d)
  BY <1>4, RefinesCommit
<1>5. CASE \E w \in WorkId, s \in Assignment : FailWork(w, s) \/ \E complete \in BOOLEAN : RejectWork(w, s, complete)
  <2>1. PICK w \in WorkId, s \in Assignment :
          Holds(w, s) /\ work' = work /\ FailOutputs(w) /\ Finish(w, "FAILED", "failed")
    BY <1>5 DEF FailWork, RejectWork
  <2>2. QED
    BY <2>1, RefinesFail
<1>6. CASE UNCHANGED vars \/ \E w \in WorkId, s \in Assignment : RepeatCommit(w, s)
  <2>1. UNCHANGED vars
    BY <1>6 DEF RepeatCommit
  <2>2. QED
    BY <2>1, RefinesElsewhere DEF vars, graph
<1>7. CASE \E w \in WorkId, s \in Assignment, g \in Capable, i \in Identity \cup {None}, age \in Age, d \in Draft :
             ExpandWork(w, s, g, i, age, d)
  BY <1>7, RefinesExpand, AgentAssumption
<1>8. CASE \E a \in ArtId : InvalidateArtifact(a)
  <2>1. PICK a \in ArtId : InvalidateArtifact(a)
    BY <1>8
  <2>2. {a} \in SUBSET ArtId /\ \A b \in {a} : art[b].state \in OfUse
    BY <2>1 DEF InvalidateArtifact, OfUse
  <2>3. QED
    BY <2>1, <2>2, RefinesWithdraw DEF InvalidateArtifact
<1>9. CASE SweepExpired \/ RefreshReadiness
  <2>1. Expire
    BY <1>9 DEF SweepExpired, RefreshReadiness
  <2>2. Expired \in SUBSET ArtId /\ \A a \in Expired : art[a].state \in OfUse
    BY DEF Expired, OfUse
  <2>3. QED
    BY <2>1, <2>2, RefinesWithdraw DEF Expire
<1>10. CASE Tick \/ \E t \in Task, success \in BOOLEAN : EvaluateTask(t, success)
  BY <1>10, RefinesElsewhere DEF Tick, EvaluateTask, graph
<1>11. CASE RebuildArtifactIndex
  BY <1>11, RefinesRebuild
<1>12. QED
  BY <1>1, <1>2, <1>3, <1>4, <1>5, <1>6, <1>7, <1>8, <1>9, <1>10, <1>11, Zenon DEF Next, Operate

LEMMA RefinesInit == Init => Contract!Init
<1> SUFFICES ASSUME Init PROVE Contract!Init
  OBVIOUS
<1>1. \A w \in WorkId : status[w] = "ABSENT"
  BY DEF Init
<1>2. \A a \in ArtId : art[a].state = "ABSENT" /\ art[a].producer = None /\ art[a].key = None
  BY DEF Init, NoArtifact
<1>3. \A w \in WorkId : Life[w] = "absent"
  BY <1>1 DEF Life, LifeOf
<1>4. \A a \in ArtId : Stage[a] = "absent"
  BY <1>2 DEF Stage, StageOf
<1>5. Life = [w \in WorkId |-> "absent"] /\ Stage = [a \in ArtId |-> "absent"]
  BY <1>3, <1>4 DEF Life, Stage
<1>6. asg = [w \in WorkId |-> None] /\ active = [k \in Key |-> None]
  BY DEF Init
<1>7. QED
  BY <1>2, <1>5, <1>6 DEF Contract!Init

\* The ArtifactIndex stays the one rebuild would compute from the artifact nodes,
\* although the code updates it by hand in every operation: what a consumer finds
\* under a key is the only artifact of that key in use, and the newest.
THEOREM IndexAlwaysSound == Spec => []IndexSound
<1>1. CInv /\ [Next]_vars => CInv'
  BY RefinesNext DEF Refines
<1>2. CInv => IndexSound
  BY DEF CInv
<1>3. QED
  BY IndexInit, <1>1, <1>2, PTL DEF Spec

\* GraphSteward implements GraphContract: every operation is, for clients, one
\* step of the contract or none, for any fragments, identities and drafts.
THEOREM ContractKept == Spec => KeepsContract
<1>1. CInv /\ [Next]_vars => CInv' /\ [Contract!Next]_(Contract!gvars)
  BY RefinesNext DEF Refines
<1>2. QED
  BY IndexInit, RefinesInit, <1>1, PTL DEF Spec, KeepsContract, Contract!Spec

-----------------------------------------------------------------------------
(* Finished WORK leaves nothing open.                                      *)

\* In a step of the contract, WORK that is finished stays as it is and promises
\* nothing new.
Inert(w) ==
  /\ LifeOf(status'[w]) = LifeOf(status[w])
  /\ \A a \in ArtId : art'[a].producer = w /\ StageOf(art'[a].state) = "promised" =>
       art[a].producer = w /\ StageOf(art[a].state) = "promised"

LEMMA FinishedInert ==
  ASSUME Contract!Next, NEW w \in WorkId, Life[w] \in {"done", "failed"}
  PROVE  Inert(w)
<1> DEFINE Maker == [a \in ArtId |-> art[a].producer]
<1>1. /\ Life[w] = LifeOf(status[w]) /\ Life'[w] = LifeOf(status'[w])
      /\ DOMAIN Life = WorkId /\ DOMAIN Stage = ArtId
      /\ \A a \in ArtId : Stage[a] = StageOf(art[a].state) /\ Stage'[a] = StageOf(art'[a].state)
      /\ \A a \in ArtId : Maker[a] = art[a].producer /\ Maker'[a] = art'[a].producer
  BY DEF Life, Stage
<1> HIDE DEF Maker
<1>2. SUFFICES /\ Life'[w] = Life[w]
               /\ \A a \in ArtId : Maker'[a] = w /\ Stage'[a] = "promised" => Maker[a] = w /\ Stage[a] = "promised"
  BY <1>1 DEF Inert
<1>3. CASE \E ws \in SUBSET WorkId, as, old \in SUBSET ArtId : Contract!Grow(ws, as, old)
  <2>1. PICK ws \in SUBSET WorkId, as \in SUBSET ArtId, old \in SUBSET ArtId : Contract!Grow(ws, as, old)
    BY <1>3
  <2>2. /\ \A v \in ws : Life[v] = "absent"
        /\ Life' = Contract!Becomes(Life, ws, "open")
        /\ Stage' = Contract!Becomes(Contract!Becomes(Stage, as, "promised"), old, "withdrawn")
        /\ \A a \in as : Maker'[a] \in ws
        /\ \A a \in ArtId \ as : Maker'[a] = Maker[a]
    BY <2>1 DEF Contract!Grow, Contract!Promise, Maker
  <2>3. w \notin ws
    BY <2>2
  <2>4. QED
    BY <1>1, <2>2, <2>3 DEF Contract!Becomes
<1>4. CASE \E v \in WorkId, c \in ArtId, ws \in SUBSET WorkId, as, old \in SUBSET ArtId : Contract!Divert(v, c, ws, as, old)
  <2>1. PICK v \in WorkId, c \in ArtId, ws \in SUBSET WorkId, as \in SUBSET ArtId, old \in SUBSET ArtId :
          Contract!Divert(v, c, ws, as, old)
    BY <1>4
  <2>2. /\ Life[v] = "held" /\ \A x \in ws : Life[x] = "absent"
        /\ Life' = [Contract!Becomes(Life, ws, "open") EXCEPT ![v] = "done"]
        /\ Maker'[c] = v
        /\ Stage' = [Contract!Becomes(Contract!Becomes(Stage, as, "promised"), old, "withdrawn") EXCEPT ![c] = "published"]
        /\ \A a \in as : Maker'[a] \in ws \cup {v}
        /\ \A a \in ArtId \ (as \cup {c}) : Maker'[a] = Maker[a]
    BY <2>1 DEF Contract!Divert, Contract!Promise, Maker
  <2>3. w \notin ws /\ w # v
    BY <2>2
  <2>4. QED
    BY <1>1, <2>2, <2>3 DEF Contract!Becomes
<1>5. CASE \E v \in WorkId, s \in Assignment : Contract!Hand(v, s)
  BY <1>1, <1>5 DEF Contract!Hand, Maker
<1>6. CASE \E v \in WorkId : Contract!Complete(v) \/ Contract!Fail(v)
  <2>1. PICK v \in WorkId : Contract!Complete(v) \/ Contract!Fail(v)
    BY <1>6
  <2>2. /\ Life[v] = "held" /\ Maker' = Maker
        /\ \E how : Life' = [Life EXCEPT ![v] = how]
        /\ \E how \in {"published", "failed"} : Stage' = Contract!Becomes(Stage, Contract!Promised(v), how)
    BY <2>1 DEF Contract!Complete, Contract!Fail, Maker
  <2>3. w # v
    BY <2>2
  <2>4. QED
    BY <1>1, <2>2, <2>3 DEF Contract!Becomes
<1>7. CASE \E as \in SUBSET ArtId : Contract!Withdraw(as)
  <2>1. PICK as \in SUBSET ArtId : Contract!Withdraw(as)
    BY <1>7
  <2>2. Life' = Life /\ Maker' = Maker /\ Stage' = Contract!Becomes(Stage, as, "withdrawn")
    BY <2>1 DEF Contract!Withdraw, Maker
  <2>3. QED
    BY <1>1, <2>2 DEF Contract!Becomes
<1>8. QED
  BY <1>3, <1>4, <1>5, <1>6, <1>7, Zenon DEF Contract!Next

\* WORK w ends in this step, by completion or failure, with no output left FUTURE.
Settles(w) ==
  /\ status'[w] \in {"DONE", "FAILED"}
  /\ \A a \in work'[w].outs : art'[a].state # "FUTURE"

\* What a finishing WORK does to its outputs
LEMMA FinishSettles ==
  ASSUME TInv, NEW w \in WorkId, NEW st \in {"DONE", "FAILED"}, NEW how, status[w] = "RUNNING",
         work' = work, Finish(w, st, how), \A a \in work[w].outs : art'[a].state # "FUTURE", NEW v \in WorkId
  PROVE  outcome'[v] = outcome[v] \/ Settles(v)
<1>1. CASE v = w
  <2> DEFINE mid == [status EXCEPT ![w] = st]
  <2>1. status' = SettledWork(mid, work', art') /\ mid[w] = st
    BY DEF Finish, TInv, TypeOK
  <2> HIDE DEF mid
  <2>2. status'[w] = st
    BY <2>1 DEF SettledWork
  <2>3. QED
    BY <1>1, <2>2 DEF Settles
<1>2. CASE v # w
  BY <1>2 DEF Finish, TInv, TypeOK
<1>3. QED
  BY <1>1, <1>2

LEMMA OutcomeStep ==
  ASSUME TInv, [Next]_vars, NEW v \in WorkId
  PROVE  outcome'[v] \in {outcome[v], "checkpoint"} \/ Settles(v)
<1> USE DEF TInv
<1>1. CASE \E w \in WorkId, s \in Assignment, complete \in BOOLEAN, d \in Draft : CommitWork(w, s, complete, d)
  <2>1. PICK w \in WorkId, s \in Assignment : \E d \in Draft :
          Holds(w, s) /\ work' = work /\ art' = Concretized(w, d) /\ Finish(w, "DONE", "completed")
    BY <1>1 DEF CommitWork
  <2>2. work[w].outs \subseteq ArtId /\ art \in [ArtId -> ArtRecord]
    BY DEF TypeOK, WorkRecord
  <2>3. \A a \in work[w].outs : art'[a].state # "FUTURE"
    BY <2>1, <2>2, ConcretizedParts
  <2>4. QED
    BY <2>1, <2>3, FinishSettles DEF Holds
<1>2. CASE \E w \in WorkId, s \in Assignment : FailWork(w, s) \/ \E complete \in BOOLEAN : RejectWork(w, s, complete)
  <2>1. PICK w \in WorkId, s \in Assignment :
          Holds(w, s) /\ work' = work /\ FailOutputs(w) /\ Finish(w, "FAILED", "failed")
    BY <1>2 DEF FailWork, RejectWork
  <2>2. work[w].outs \subseteq ArtId /\ art \in [ArtId -> ArtRecord]
    BY DEF TypeOK, WorkRecord
  <2>3. \A a \in work[w].outs : art'[a].state # "FUTURE"
    BY <2>1, <2>2 DEF FailOutputs, Unfinished, ArtRecord
  <2>4. QED
    BY <2>1, <2>3, FinishSettles DEF Holds
<1>3. CASE \E w \in WorkId, s \in Assignment, g \in Capable, i \in Identity \cup {None}, age \in Age, d \in Draft :
             ExpandWork(w, s, g, i, age, d)
  <2>1. PICK w \in WorkId, s \in Assignment, g \in Capable, i \in Identity \cup {None}, age \in Age, d \in Draft :
          ExpandWork(w, s, g, i, age, d)
    BY <1>3
  <2>2. outcome' = [outcome EXCEPT ![w] = "checkpoint"]
    BY <2>1, Zenon DEF ExpandWork
  <2>3. QED
    BY <2>2 DEF TypeOK
<1>4. CASE outcome' = outcome
  BY <1>4
<1>5. (\E t \in Task, f \in Fragment : SubmitTask(t, f)) => outcome' = outcome
  <2> SUFFICES ASSUME NEW t \in Task, NEW f \in Fragment, SubmitTask(t, f) PROVE outcome' = outcome
    OBVIOUS
  <2>1. PICK m, n : Graft(t, f, m, n)
    BY DEF SubmitTask
  <2>2. QED
    BY <2>1, Zenon DEF Graft
<1>6. (\E c \in WorkId, t \in Task, i \in Identity \cup {None}, age \in Age, g \in Agent : ResolveArtifact(c, t, i, age, g))
        => outcome' = outcome
  <2> SUFFICES ASSUME NEW c \in WorkId, NEW t \in Task, NEW i \in Identity \cup {None}, NEW age \in Age,
                      NEW g \in Agent, ResolveArtifact(c, t, i, age, g)
               PROVE  outcome' = outcome
    OBVIOUS
  <2>1. QED
    BY Zenon DEF ResolveArtifact
<1>7. (\E w \in WorkId, s \in Assignment : Assign(w, s) \/ Start(w, s) \/ RepeatCommit(w, s)) => outcome' = outcome
  BY DEF Assign, Start, RepeatCommit, vars, graph
<1>8. UNCHANGED vars \/ Tick => outcome' = outcome
  BY DEF Tick, vars, graph
<1>9. (\E a \in ArtId : InvalidateArtifact(a)) \/ SweepExpired \/ RefreshReadiness => outcome' = outcome
  BY DEF InvalidateArtifact, SweepExpired, RefreshReadiness, Expire
<1>10. (\E t \in Task, success \in BOOLEAN : EvaluateTask(t, success)) \/ RebuildArtifactIndex => outcome' = outcome
  BY DEF EvaluateTask, RebuildArtifactIndex
<1>11. QED
  BY <1>1, <1>2, <1>3, <1>4, <1>5, <1>6, <1>7, <1>8, <1>9, <1>10, Zenon DEF Next, Operate

FInv ==
  /\ CInv
  /\ \A w \in WorkId : outcome[w] \in {"completed", "failed"} => status[w] \in {"DONE", "FAILED"}
  /\ FinishedProducerSettles

LEMMA FinishedFresh == Fresh => FInv
<1> SUFFICES ASSUME Fresh PROVE FInv
  OBVIOUS
<1>1. \A w \in WorkId : outcome[w] = None
  BY DEF Fresh
<1>2. QED
  BY <1>1, IndexFresh, OutcomeAssumption DEF FInv, FinishedProducerSettles

LEMMA FinishedStep == ASSUME FInv, [Next]_vars PROVE FInv'
<1>1. CInv' /\ (Contract!Next \/ UNCHANGED Contract!gvars)
  BY RefinesNext DEF FInv, Refines
<1>2. ASSUME NEW w \in WorkId, outcome'[w] \in {"completed", "failed"}
      PROVE  Settles(w)
  <2>1. CASE outcome'[w] # outcome[w]
    BY <1>2, <2>1, OutcomeStep DEF FInv, CInv
  <2>2. CASE outcome'[w] = outcome[w]
    <3>1. status[w] \in {"DONE", "FAILED"} /\ \A a \in work[w].outs : art[a].state # "FUTURE"
      BY <1>2, <2>2 DEF FInv, FinishedProducerSettles
    <3>2. Life[w] \in {"done", "failed"}
      BY <3>1, LifeValue DEF Life
    <3>3. Inert(w)
      <4>1. CASE Contract!Next
        BY <3>2, <4>1, FinishedInert
      <4>2. CASE UNCHANGED Contract!gvars
        <5>1. /\ Life' = Life /\ Stage' = Stage
              /\ [a \in ArtId |-> art[a].producer]' = [a \in ArtId |-> art[a].producer]
          BY <4>2 DEF Contract!gvars
        <5>2. LifeOf(status'[w]) = LifeOf(status[w])
          BY <5>1 DEF Life
        <5>3. \A a \in ArtId : art'[a].producer = art[a].producer /\ StageOf(art'[a].state) = StageOf(art[a].state)
          BY <5>1 DEF Stage
        <5>4. QED
          BY <5>2, <5>3 DEF Inert
      <4>3. QED
        BY <1>1, <4>1, <4>2
    <3>4. status'[w] \in {"DONE", "FAILED"}
      <4>1. status'[w] \in {"ABSENT", "ASSIGNED", "RUNNING", "DONE", "FAILED"} \cup Open
        BY <1>1 DEF CInv, TInv, TypeOK, WorkStatus, Open
      <4>2. LifeOf(status'[w]) \in {"done", "failed"}
        BY <3>1, <3>3, LifeValue DEF Inert
      <4>3. QED
        BY <4>1, <4>2, LifeValue
    <3>5. ASSUME NEW a \in work'[w].outs, art'[a].state = "FUTURE" PROVE FALSE
      <4>1. a \in ArtId /\ art'[a].producer = w
        BY <1>1, <3>5 DEF CInv, TInv, TypeOK, WorkRecord, Mirrored
      <4>2. art[a].producer = w /\ StageOf(art[a].state) = "promised"
        BY <3>3, <3>5, <4>1, StageValue DEF Inert
      <4>3. a \in work[w].outs /\ art[a].state \in ArtifactState
        BY <4>1, <4>2 DEF FInv, CInv, TInv, TypeOK, ArtRecord, Mirrored
      <4>4. art[a].state = "FUTURE"
        BY <4>2, <4>3, StageValue DEF ArtifactState
      <4>5. QED
        BY <3>1, <4>3, <4>4
    <3>6. QED
      BY <3>4, <3>5 DEF Settles
  <2>3. QED
    BY <2>1, <2>2
<1>3. QED
  BY <1>1, <1>2 DEF FInv, Settles, FinishedProducerSettles

\* A WORK that completed, failed or was rejected leaves no output FUTURE, and no
\* later submission, resolution or expansion gives it one.
THEOREM FinishedSettles == Spec => []FinishedProducerSettles
<1>1. Init => FInv
  BY InitIsFresh, FinishedFresh
<1>2. FInv /\ [Next]_vars => FInv'
  BY FinishedStep
<1>3. FInv => FinishedProducerSettles
  BY DEF FInv
<1>4. QED
  BY <1>1, <1>2, <1>3, PTL DEF Spec

=============================================================================

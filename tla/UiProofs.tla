------------------------------ MODULE UiProofs -------------------------------
(***************************************************************************)
(* Proofs about the AndroidUiDriver, for any number of threads, apps and   *)
(* displays, and about the UI loop as a caller of it.                      *)
(***************************************************************************)
EXTENDS UiLoop, FiniteSetTheorems, TLAPS

Launching == {"start", "locate", "publish"}
Inputting == {"point", "send", "type"}
Holding == Inputting \cup {"snapshot", "screenshot", "input"}
OnSurface == Holding \cup {"display"}

\* What holding each lock means
LaunchGuarded == \A th \in Thread : pc[th] \in Launching => surfaceLock = th /\ AppOf[th] \notin launched
SurfaceKnown == \A th \in Thread : pc[th] \in OnSurface => AppOf[th] \in launched
DisplayGuarded == \A th \in Thread : pc[th] \in Holding => displayLock[surface[AppOf[th]]] = th
InputGuarded == \A th \in Thread : pc[th] \in Inputting => inputLock = th
Located == \A th \in Thread : pc[th] = "publish" => surface[AppOf[th]] # None /\ shot[AppOf[th]] # None
EventPerLaunch == \A a \in App : events[a] = IF a \in launched THEN 1 ELSE 0

LockInv ==
  /\ DTypeOK
  /\ LaunchGuarded /\ SurfaceKnown /\ DisplayGuarded /\ InputGuarded
  /\ Located /\ LaunchedHasSurface /\ EventPerLaunch

-----------------------------------------------------------------------------
(* Types                                                                   *)

LEMMA DTypeInit == DInit => DTypeOK
  BY UiAssumption DEF DInit, DTypeOK, Call

LEMMA ReleasedType ==
  ASSUME DTypeOK, NEW th \in Thread, Released(th)
  PROVE  /\ surfaceLock' \in Thread \cup {None} /\ inputLock' \in Thread \cup {None}
         /\ displayLock' \in [Display -> Thread \cup {None}]
  BY DEF DTypeOK, Released

\* Every step of the driver and its callers keeps the types: a tap finds an app on the
\* surface, since the surface is known.
LEMMA DTypeStep == LockInv /\ [DNext]_dvars => DTypeOK'
<1> SUFFICES ASSUME LockInv, [DNext]_dvars PROVE DTypeOK'
  OBVIOUS
<1>0. DTypeOK
  BY DEF LockInv
<1> USE <1>0
<1> USE UiAssumption
<1>1. CASE UNCHANGED dvars
  BY <1>1 DEF DTypeOK, dvars, thread, driver, locks, phone
<1>2. ASSUME NEW th \in Thread, Launch(th) PROVE DTypeOK'
  <2>1. CASE EnsureLaunched(th)
    BY <2>1 DEF EnsureLaunched, DTypeOK, Move, driver, locks, phone
  <2>2. CASE TakeSurface(th)
    BY <2>2 DEF TakeSurface, DTypeOK, Move, driver, phone
  <2>3. CASE Start(th)
    BY <2>3 DEF Start, DTypeOK, Move, driver, locks
  <2>4. CASE Locate(th)
    BY <2>4 DEF Locate, DTypeOK, Move, locks, phone, ActualDisplay, ShotOf
  <2>5. CASE Publish(th)
    BY <2>5, ReleasedType DEF Publish, DTypeOK, Move, phone
  <2>6. QED
    BY <1>2, <2>1, <2>2, <2>3, <2>4, <2>5 DEF Launch
<1>3. ASSUME NEW th \in Thread, TakeDisplay(th) PROVE DTypeOK'
  BY <1>3 DEF TakeDisplay, DTypeOK, Move, phone, LockOf
<1>4. ASSUME NEW th \in Thread, Observe(th) PROVE DTypeOK'
  <2>1. CASE Snapshot(th)
    BY <2>1 DEF Snapshot, DTypeOK, Move, driver, locks, phone
  <2>2. CASE SnapshotRetry(th)
    BY <2>2 DEF SnapshotRetry, DTypeOK, driver, locks, phone
  <2>3. CASE Screenshot(th)
    BY <2>3, ReleasedType DEF Screenshot, DTypeOK, Move, phone, Retained
  <2>4. QED
    BY <1>4, <2>1, <2>2, <2>3 DEF Observe
<1>5. ASSUME NEW th \in Thread, Act(th) PROVE DTypeOK'
  <2>1. CASE TakeInput(th)
    BY <2>1 DEF TakeInput, DTypeOK, Move, driver, phone
  <2>2. CASE Point(th)
    BY <2>2 DEF Point, DTypeOK, Move, locks, phone
  <2>3. CASE Send(th)
    <3>1. AppOf[th] \in App /\ surface[AppOf[th]] \in Display
      BY <2>3 DEF LockInv, SurfaceKnown, OnSurface, Holding, Inputting, LaunchedHasSurface, DTypeOK, Send
    <3>2. top[surface[AppOf[th]]] \in App \cup {None}
      BY <3>1 DEF DTypeOK
    <3>3. focus' \in App \cup {None}
      BY <2>3, <3>2 DEF Send, DTypeOK
    <3>4. /\ surfaceLock' \in Thread \cup {None} /\ inputLock' \in Thread \cup {None}
          /\ displayLock' \in [Display -> Thread \cup {None}]
      BY <2>3, ReleasedType DEF Send, DTypeOK, locks
    <3>5. pc' = [pc EXCEPT ![th] = "type"] \/ pc' = [pc EXCEPT ![th] = "returned"]
      BY <2>3 DEF Send
    <3>6. UNCHANGED <<call, attempt, seen, driver, top, shown>>
      BY <2>3 DEF Send
    <3>7. QED
      BY <3>3, <3>4, <3>5, <3>6 DEF DTypeOK, driver
  <2>4. CASE Type(th)
    BY <2>4, ReleasedType DEF Type, DTypeOK, Move, driver, phone
  <2>5. QED
    BY <1>5, <2>1, <2>2, <2>3, <2>4 DEF Act
<1>6. ASSUME NEW th \in Thread, Raise(th) PROVE DTypeOK'
  BY <1>6, ReleasedType DEF Raise, DTypeOK, driver, phone
<1>7. ASSUME NEW th \in Thread, NEW c \in Call, Enter(th, c) PROVE DTypeOK'
  BY <1>7 DEF Enter, DTypeOK, driver, locks, phone
<1>8. ASSUME NEW th \in Thread, Leave(th) PROVE DTypeOK'
  BY <1>8 DEF Leave, DTypeOK, driver, locks, phone
<1>9. QED
  BY <1>1, <1>2, <1>3, <1>4, <1>5, <1>6, <1>7, <1>8 DEF DNext, DriverStep

-----------------------------------------------------------------------------
(* Locks                                                                   *)

LEMMA LockInit == DInit => LockInv
  BY DTypeInit DEF DInit, LockInv, LaunchGuarded, SurfaceKnown, DisplayGuarded, InputGuarded, Located,
     LaunchedHasSurface, EventPerLaunch, Launching, OnSurface, Holding, Inputting

\* Every step keeps what the locks mean.
LEMMA LockStep == LockInv /\ [DNext]_dvars => LockInv'
<1> SUFFICES ASSUME LockInv, [DNext]_dvars PROVE LockInv'
  OBVIOUS
<1> USE UiAssumption
<1> USE DEF LockInv, LaunchGuarded, SurfaceKnown, DisplayGuarded, InputGuarded, Located,
    LaunchedHasSurface, EventPerLaunch, Launching, OnSurface, Holding, Inputting
<1>0. DTypeOK'
  BY DTypeStep
<1>1. CASE UNCHANGED dvars
  BY <1>0, <1>1 DEF dvars, thread, driver, locks, phone
<1>2. ASSUME NEW th \in Thread, Launch(th) PROVE LockInv'
  <2>1. CASE EnsureLaunched(th)
    BY <1>0, <2>1 DEF EnsureLaunched, DTypeOK, Move, driver, locks, phone
  <2>2. CASE TakeSurface(th)
    BY <1>0, <2>2 DEF TakeSurface, DTypeOK, Move, Free, driver, phone
  <2>3. CASE Start(th)
    BY <1>0, <2>3 DEF Start, DTypeOK, Move, driver, locks
  <2>4. CASE Locate(th)
    BY <1>0, <2>4 DEF Locate, DTypeOK, Move, locks, phone, ActualDisplay, ShotOf
  <2>5. CASE Publish(th)
    BY <1>0, <2>5 DEF Publish, DTypeOK, Move, Released, phone
  <2>6. QED
    BY <1>2, <2>1, <2>2, <2>3, <2>4, <2>5 DEF Launch
<1>3. ASSUME NEW th \in Thread, TakeDisplay(th) PROVE LockInv'
  BY <1>0, <1>3 DEF TakeDisplay, DTypeOK, Move, Free, phone, LockOf
<1>4. ASSUME NEW th \in Thread, Observe(th) PROVE LockInv'
  <2>1. CASE Snapshot(th)
    BY <1>0, <2>1 DEF Snapshot, DTypeOK, Move, driver, locks, phone
  <2>2. CASE SnapshotRetry(th)
    BY <1>0, <2>2 DEF SnapshotRetry, DTypeOK, driver, locks, phone
  <2>3. CASE Screenshot(th)
    BY <1>0, <2>3 DEF Screenshot, DTypeOK, Move, Released, phone
  <2>4. QED
    BY <1>4, <2>1, <2>2, <2>3 DEF Observe
<1>5. ASSUME NEW th \in Thread, Act(th) PROVE LockInv'
  <2>1. CASE TakeInput(th)
    BY <1>0, <2>1 DEF TakeInput, DTypeOK, Move, Free, driver, phone
  <2>2. CASE Point(th)
    BY <1>0, <2>2 DEF Point, DTypeOK, Move, locks, phone
  <2>3. CASE Send(th)
    BY <1>0, <2>3 DEF Send, DTypeOK, Released, driver, locks
  <2>4. CASE Type(th)
    BY <1>0, <2>4 DEF Type, DTypeOK, Move, Released, driver, phone
  <2>5. QED
    BY <1>5, <2>1, <2>2, <2>3, <2>4 DEF Act
<1>6. ASSUME NEW th \in Thread, Raise(th) PROVE LockInv'
  BY <1>0, <1>6 DEF Raise, Fallible, DTypeOK, Released, driver, phone
<1>7. ASSUME NEW th \in Thread, NEW c \in Call, Enter(th, c) PROVE LockInv'
  BY <1>0, <1>7 DEF Enter, DTypeOK, driver, locks, phone
<1>8. ASSUME NEW th \in Thread, Leave(th) PROVE LockInv'
  BY <1>0, <1>8 DEF Leave, DTypeOK, driver, locks, phone
<1>9. QED
  BY <1>1, <1>2, <1>3, <1>4, <1>5, <1>6, <1>7, <1>8 DEF DNext, DriverStep

LEMMA LockInvariant == DSpec => []LockInv
<1>1. QED
  BY LockInit, LockStep, PTL DEF DSpec

\* An app that counts as launched has a display: the check of _ensure_launched without
\* the lock is safe, for launched is added last.
THEOREM LaunchedHasSurfaceHolds == DSpec => []LaunchedHasSurface
<1>1. LockInv => LaunchedHasSurface
  BY DEF LockInv
<1>2. QED
  BY <1>1, LockInvariant, PTL

\* However many threads find an app not launched, it is launched once.
THEOREM LaunchedOnceHolds == DSpec => []LaunchedOnce
<1>1. LockInv => LaunchedOnce
  BY DEF LockInv, EventPerLaunch, LaunchedOnce
<1>2. QED
  BY <1>1, LockInvariant, PTL

\* No input is sent to a display between the two halves of an observation of it.
THEOREM ObservationUndisturbedHolds == DSpec => []ObservationUndisturbed
<1>1. LockInv => ObservationUndisturbed
  <2>1. SUFFICES ASSUME LockInv, NEW th \in Thread, NEW u \in Thread,
                        pc[th] = "screenshot", pc[u] \in {"send", "type"},
                        surface[AppOf[th]] = surface[AppOf[u]]
                 PROVE  FALSE
    BY DEF ObservationUndisturbed
  <2>2. displayLock[surface[AppOf[th]]] = th /\ displayLock[surface[AppOf[u]]] = u
    BY <2>1 DEF LockInv, DisplayGuarded, Holding, Inputting
  <2>3. th # u
    BY <2>1
  <2>4. QED
    BY <2>1, <2>2, <2>3
<1>2. QED
  BY <1>1, LockInvariant, PTL

-----------------------------------------------------------------------------
(* Text entry                                                              *)

\* Android never puts two apps on one display.
ApartPlaces == \A a, b \in App : a # b => Places[a] \cap Places[b] = {}

\* Then an app stays in front of every display it was shown on, and its surface is one
\* of them; whoever is about to type has the focus.
InFront == \A a \in App : shown[a] \subseteq Places[a] /\ \A d \in shown[a] : top[d] = a
Covered == \A d \in Display : top[d] # None => d \in Places[top[d]]
SurfaceShown == \A a \in App : surface[a] # None => surface[a] \in shown[a]
FocusInv == InFront /\ Covered /\ SurfaceShown /\ TextReachesApp

LEMMA FocusInit == DInit => FocusInv
  BY UiAssumption DEF DInit, FocusInv, InFront, Covered, SurfaceShown, TextReachesApp

LEMMA FocusStep ==
  ASSUME ApartPlaces, LockInv, FocusInv, [DNext]_dvars
  PROVE  FocusInv'
<1> USE UiAssumption
<1> USE DEF FocusInv, InFront, Covered, SurfaceShown, TextReachesApp
<1>0. DTypeOK
  BY DEF LockInv
<1>1. CASE UNCHANGED dvars
  BY <1>1 DEF dvars, thread, driver, locks, phone
<1>2. ASSUME NEW th \in Thread, Launch(th) PROVE FocusInv'
  <2>1. CASE EnsureLaunched(th)
    BY <1>0, <2>1 DEF EnsureLaunched, DTypeOK, Move, driver, locks, phone
  <2>2. CASE TakeSurface(th)
    BY <1>0, <2>2 DEF TakeSurface, DTypeOK, Move, driver, phone
  <2>3. CASE Start(th)
    <3>1. PICK d \in Places[AppOf[th]] :
            /\ top' = [top EXCEPT ![d] = AppOf[th]]
            /\ shown' = [shown EXCEPT ![AppOf[th]] = @ \cup {d}]
            /\ focus' = IF focus # None /\ top[d] = focus THEN AppOf[th] ELSE focus
      BY <2>3 DEF Start
    <3>2. AppOf[th] \in App /\ d \in Display
      BY <1>0, <3>1
    <3>3. top[d] = None \/ top[d] = AppOf[th]
      BY <1>0, <3>1, <3>2 DEF ApartPlaces, DTypeOK
    <3>4. focus' = focus
      BY <3>1, <3>3
    <3>5. InFront'
      BY <1>0, <3>1, <3>2, <3>3 DEF ApartPlaces, DTypeOK
    <3>6. Covered'
      BY <1>0, <3>1, <3>2 DEF DTypeOK
    <3>7. SurfaceShown' /\ TextReachesApp'
      BY <1>0, <2>3, <3>1, <3>2, <3>4 DEF Start, Move, driver, DTypeOK
    <3>8. QED
      BY <3>5, <3>6, <3>7
  <2>4. CASE Locate(th)
    BY <1>0, <2>4 DEF Locate, DTypeOK, Move, locks, phone, ActualDisplay
  <2>5. CASE Publish(th)
    BY <1>0, <2>5 DEF Publish, DTypeOK, Move, phone
  <2>6. QED
    BY <1>2, <2>1, <2>2, <2>3, <2>4, <2>5 DEF Launch
<1>3. ASSUME NEW th \in Thread, TakeDisplay(th) PROVE FocusInv'
  BY <1>0, <1>3 DEF TakeDisplay, DTypeOK, Move, phone
<1>4. ASSUME NEW th \in Thread, Observe(th) PROVE FocusInv'
  BY <1>0, <1>4 DEF Observe, Snapshot, SnapshotRetry, Screenshot, DTypeOK, Move, driver, locks, phone
<1>5. ASSUME NEW th \in Thread, Act(th) PROVE FocusInv'
  <2>1. CASE TakeInput(th)
    BY <1>0, <2>1 DEF TakeInput, DTypeOK, Move, driver, phone
  <2>2. CASE Point(th)
    BY <1>0, <2>2 DEF Point, DTypeOK, Move, locks, phone
  <2>3. CASE Send(th)
    <3>1. AppOf[th] \in App /\ surface[AppOf[th]] # None
      BY <1>0, <2>3 DEF LockInv, SurfaceKnown, OnSurface, Holding, Inputting, LaunchedHasSurface, DTypeOK, Send
    <3>2. top[surface[AppOf[th]]] = AppOf[th]
      BY <3>1
    <3>3. call[th] \in Typing => focus' = AppOf[th]
      BY <2>3, <3>2 DEF Send, Typing
    <3>4. \A u \in Thread : pc[u] = "type" => u = th
      BY <2>3 DEF LockInv, InputGuarded, Inputting, Send
    <3>5. \A u \in Thread : pc'[u] = "type" => u = th /\ call[th] \in Typing
      BY <1>0, <2>3, <3>4 DEF Send, DTypeOK
    <3>6. TextReachesApp'
      BY <3>3, <3>5
    <3>7. (InFront /\ Covered /\ SurfaceShown)'
      BY <2>3 DEF Send, driver
    <3>8. QED
      BY <3>6, <3>7
  <2>4. CASE Type(th)
    BY <1>0, <2>4 DEF Type, DTypeOK, Move, driver, phone
  <2>5. QED
    BY <1>5, <2>1, <2>2, <2>3, <2>4 DEF Act
<1>6. ASSUME NEW th \in Thread, Raise(th) PROVE FocusInv'
  BY <1>0, <1>6 DEF Raise, DTypeOK, driver, phone
<1>7. ASSUME NEW th \in Thread, NEW c \in Call, Enter(th, c) PROVE FocusInv'
  BY <1>0, <1>7 DEF Enter, DTypeOK, driver, locks, phone
<1>8. ASSUME NEW th \in Thread, Leave(th) PROVE FocusInv'
  BY <1>0, <1>8 DEF Leave, DTypeOK, driver, locks, phone
<1>9. QED
  BY <1>1, <1>2, <1>3, <1>4, <1>5, <1>6, <1>7, <1>8 DEF DNext, DriverStep

\* If apps never share a display, the text of an input transaction reaches the app whose
\* element was tapped, whatever other threads launch, observe or tap meanwhile.
THEOREM TextReachesAppHolds ==
  ASSUME ApartPlaces
  PROVE  DSpec => []TextReachesApp
<1>1. LockInv /\ FocusInv /\ [DNext]_dvars => FocusInv'
  BY FocusStep
<1>2. FocusInv => TextReachesApp
  BY DEF FocusInv
<1>3. QED
  BY <1>1, <1>2, FocusInit, LockInvariant, PTL DEF DSpec

-----------------------------------------------------------------------------
(* Observations                                                            *)

\* A screenshot is captured from a display the app was shown on.
ShotShown == \A a \in App : shot[a] # None => shot[a] \in shown[a]

LEMMA ShotInit == DInit => ShotShown
  BY DEF DInit, ShotShown

LEMMA ShotStep ==
  ASSUME LockInv, ShotShown, [DNext]_dvars
  PROVE  ShotShown'
<1> USE UiAssumption
<1> USE DEF ShotShown
<1>0. DTypeOK
  BY DEF LockInv
<1>1. CASE shot' = shot /\ shown' = shown
  BY <1>1
<1>2. ASSUME NEW th \in Thread, Start(th) PROVE ShotShown'
  <2>1. PICK d \in Places[AppOf[th]] : shown' = [shown EXCEPT ![AppOf[th]] = @ \cup {d}]
    BY <1>2 DEF Start
  <2>2. shot' = shot
    BY <1>2 DEF Start, driver
  <2>3. QED
    BY <1>0, <2>1, <2>2 DEF DTypeOK
<1>3. ASSUME NEW th \in Thread, Locate(th) PROVE ShotShown'
  <2>1. PICK d \in ActualDisplay(AppOf[th]) : shot' = [shot EXCEPT ![AppOf[th]] = ShotOf(AppOf[th], d)]
    BY <1>3 DEF Locate
  <2>2. d \in shown[AppOf[th]]
    BY <2>1 DEF ActualDisplay
  <2>3. ShotOf(AppOf[th], d) = d
    BY DEF ShotOf
  <2>4. shown' = shown
    BY <1>3 DEF Locate, phone
  <2>5. QED
    BY <1>0, <2>1, <2>2, <2>3, <2>4 DEF DTypeOK
<1>4. ASSUME NEW th \in Thread, DriverStep(th) PROVE ShotShown'
  <2>1. Start(th) \/ Locate(th) \/ (shot' = shot /\ shown' = shown)
    BY <1>4 DEF DriverStep, Launch, EnsureLaunched, TakeSurface, Publish, TakeDisplay, Observe, Snapshot,
       SnapshotRetry, Screenshot, Act, TakeInput, Point, Send, Type, Raise, driver, phone
  <2>2. QED
    BY <2>1, <1>1, <1>2, <1>3
<1>5. ASSUME NEW th \in Thread, NEW c \in Call, Enter(th, c) PROVE ShotShown'
  BY <1>1, <1>5 DEF Enter, driver, phone
<1>6. ASSUME NEW th \in Thread, Leave(th) PROVE ShotShown'
  BY <1>1, <1>6 DEF Leave, driver, phone
<1>7. CASE UNCHANGED dvars
  BY <1>1, <1>7 DEF dvars, driver, phone
<1>8. QED
  BY <1>4, <1>5, <1>6, <1>7 DEF DNext

\* Only an observation replaces the nodes kept for an app.
LEMMA NodesReplaced ==
  ASSUME DTypeOK, DNext
  PROVE  last' = last \/ \E th \in Thread : pc[th] = "screenshot" /\ \A a \in App : a # AppOf[th] => last'[a] = last[a]
<1>1. PICK th \in Thread : DriverStep(th) \/ (\E c \in Call : Enter(th, c)) \/ Leave(th)
  BY DEF DNext
<1>2. last' = last \/ Screenshot(th)
  BY <1>1 DEF DriverStep, Launch, EnsureLaunched, TakeSurface, Start, Locate, Publish, TakeDisplay, Observe,
     Snapshot, SnapshotRetry, Act, TakeInput, Point, Send, Type, Raise, Enter, Leave, driver
<1>3. QED
  BY <1>2 DEF Screenshot, Move, DTypeOK

\* If apps never share a display, the nodes and the screenshot of an observation are of
\* one app: the nodes are only replaced while the app is in front of the display the
\* screenshot is captured from.
THEOREM ObservationCoherentHolds ==
  ASSUME ApartPlaces
  PROVE  DSpec => ObservationCoherent
<1> DEFINE Coherent == \A a \in App : last'[a] # last[a] => top[shot[a]] = a
<1>1. LockInv /\ FocusInv /\ ShotShown /\ [DNext]_dvars => [Coherent]_dvars
  <2>1. SUFFICES ASSUME LockInv, FocusInv, ShotShown, DNext, NEW a \in App, last'[a] # last[a]
                 PROVE  top[shot[a]] = a
    BY DEF dvars
  <2>2. DTypeOK
    BY <2>1 DEF LockInv
  <2>3. PICK th \in Thread : pc[th] = "screenshot" /\ AppOf[th] = a
    BY <2>1, <2>2, NodesReplaced
  <2>4. shot[a] # None
    BY <2>1, <2>3 DEF LockInv, SurfaceKnown, OnSurface, Holding, LaunchedHasSurface
  <2>5. shot[a] \in shown[a]
    BY <2>1, <2>4 DEF ShotShown
  <2>6. QED
    BY <2>1, <2>5 DEF FocusInv, InFront
<1>2. LockInv /\ FocusInv /\ [DNext]_dvars => FocusInv'
  BY FocusStep
<1>3. LockInv /\ ShotShown /\ [DNext]_dvars => ShotShown'
  BY ShotStep
<1>4. QED
  BY <1>1, <1>2, <1>3, FocusInit, ShotInit, LockInvariant, PTL DEF DSpec, ObservationCoherent

-----------------------------------------------------------------------------
(* The loop as a caller                                                    *)

\* The UI loop uses the driver as its interface allows: it begins a call only when the
\* previous one is over, so that all of the above holds for it.
THEOREM LoopIsCaller == USpec => DSpec
<1>1. UInit => DInit
  BY DEF UInit
<1>2. [UNext]_uvars => [DNext]_dvars
  <2>1. SUFFICES ASSUME UNext PROVE [DNext]_dvars
    BY DEF uvars
  <2>2. PICK th \in Thread : Begin(th) \/ Execute(th)
    BY <2>1 DEF UNext
  <2>3. CASE Begin(th)
    BY <2>3 DEF Begin, Move, Enter, Call, DNext
  <2>4. ASSUME NextStep(th), pc[th] = "returned" PROVE [DNext]_dvars
    BY <2>4 DEF NextStep, Enter, Leave, Call, DNext
  <2>5. ASSUME NEW r, Return(th, r), pc[th] \in {"returned", "raised"} PROVE [DNext]_dvars
    BY <2>5 DEF Return, Leave, DNext
  <2>6. CASE Decide(th)
    BY <2>4, <2>5, <2>6 DEF Decide, Complete, Expand, Fail, ProtocolError, Perform, Deciding, Enter, DNext
  <2>7. CASE Settle(th)
    BY <2>4, <2>7 DEF Settle
  <2>8. CASE Abort(th)
    BY <2>5, <2>8 DEF Abort, Deciding
  <2>9. QED
    BY <2>2, <2>3, <2>6, <2>7, <2>8 DEF Execute, DNext
<1>3. QED
  BY <1>1, <1>2, PTL DEF USpec, DSpec

\* One thread serves each app.
OneThreadPerApp == \A th, u \in Thread : AppOf[th] = AppOf[u] => th = u

\* A thread that was given an observation, and until the action it decided on is over,
\* knows the newest observation of its app, whose nodes the driver keeps.
Fresh(th) == seen[th] = last[AppOf[th]] /\ seen[th] = observed[AppOf[th]]
Informed(th) == IF call[th] = "observe" THEN pc[th] = "returned" ELSE pc[th] \notin {"idle", "raised"}
InCall ==
  \A th \in Thread : /\ pc[th] \in {"snapshot", "screenshot"} => call[th] = "observe"
                    /\ pc[th] \in {"input", "point", "send", "type"} => call[th] # "observe"
FreshInv == InCall /\ \A th \in Thread : Informed(th) => Fresh(th)

LEMMA FreshInit == UInit => FreshInv
  BY DEF UInit, DInit, FreshInv, InCall, Informed

LEMMA FreshStep ==
  ASSUME OneThreadPerApp, DTypeOK, FreshInv, [UNext]_uvars
  PROVE  FreshInv'
<1> USE UiAssumption
<1> USE DEF FreshInv, InCall, Fresh, Informed, OneThreadPerApp
<1>1. CASE UNCHANGED uvars
  BY <1>1 DEF uvars, dvars, thread, driver
<1>2. ASSUME NEW th \in Thread, Launch(th) PROVE FreshInv'
  <2>1. CASE EnsureLaunched(th)
    BY <2>1 DEF EnsureLaunched, Move, DTypeOK, driver
  <2>2. CASE TakeSurface(th)
    BY <2>2 DEF TakeSurface, Move, DTypeOK, driver
  <2>3. CASE Start(th)
    BY <2>3 DEF Start, Move, DTypeOK, driver
  <2>4. CASE Locate(th)
    BY <2>4 DEF Locate, Move, DTypeOK, driver
  <2>5. CASE Publish(th)
    BY <2>5 DEF Publish, Move, DTypeOK, driver
  <2>6. QED
    BY <1>2, <2>1, <2>2, <2>3, <2>4, <2>5 DEF Launch
<1>3. ASSUME NEW th \in Thread, TakeDisplay(th) PROVE FreshInv'
  BY <1>3 DEF TakeDisplay, Move, DTypeOK
<1>4. ASSUME NEW th \in Thread, Observe(th) PROVE FreshInv'
  <2>1. CASE Snapshot(th)
    BY <2>1 DEF Snapshot, Move, DTypeOK, driver
  <2>2. CASE SnapshotRetry(th)
    BY <2>2 DEF SnapshotRetry, DTypeOK, driver
  <2>3. CASE Screenshot(th)
    BY <2>3 DEF Screenshot, Retained, Move, DTypeOK
  <2>4. QED
    BY <1>4, <2>1, <2>2, <2>3 DEF Observe
<1>5. ASSUME NEW th \in Thread, Act(th) PROVE FreshInv'
  <2>1. CASE TakeInput(th)
    BY <2>1 DEF TakeInput, Move, DTypeOK, driver
  <2>2. CASE Point(th)
    BY <2>2 DEF Point, Move, DTypeOK, driver
  <2>3. CASE Send(th)
    BY <2>3 DEF Send, Move, DTypeOK, driver
  <2>4. CASE Type(th)
    BY <2>4 DEF Type, Move, DTypeOK, driver
  <2>5. QED
    BY <1>5, <2>1, <2>2, <2>3, <2>4 DEF Act
<1>6. ASSUME NEW th \in Thread, Raise(th) PROVE FreshInv'
  BY <1>6 DEF Raise, DTypeOK, driver
<1>7. ASSUME NEW th \in Thread, Begin(th) PROVE FreshInv'
  BY <1>7 DEF Begin, Move, DTypeOK, driver
<1>8. ASSUME NEW th \in Thread, NextStep(th) PROVE FreshInv'
  <2>1. \/ pc' = [pc EXCEPT ![th] = "ensure"] /\ call' = [call EXCEPT ![th] = "observe"]
        \/ pc' = [pc EXCEPT ![th] = "idle"] /\ call' = call
    BY <1>8, Zenon DEF NextStep
  <2>2. seen' = seen /\ last' = last /\ observed' = observed
    BY <1>8 DEF NextStep, driver
  <2>3. \A u \in Thread \ {th} : pc'[u] = pc[u] /\ call'[u] = call[u]
    BY <2>1 DEF DTypeOK
  <2>4. \/ pc'[th] = "ensure" /\ call'[th] = "observe"
        \/ pc'[th] = "idle"
    BY <2>1 DEF DTypeOK
  <2>5. InCall'
    BY <2>3, <2>4
  <2>6. \A u \in Thread : Informed(u)' => Fresh(u)'
    BY <2>2, <2>3, <2>4
  <2>7. QED
    BY <2>5, <2>6
<1>9. ASSUME NEW th \in Thread, NEW r, Return(th, r) PROVE FreshInv'
  BY <1>9 DEF Return, DTypeOK, driver
<1>10. ASSUME NEW th \in Thread, NEW c \in Call \ {"observe"}, Perform(th, c) PROVE FreshInv'
  BY <1>10 DEF Perform, Deciding, DTypeOK, driver
<1>11. ASSUME NEW th \in Thread, Begin(th) \/ Execute(th) PROVE FreshInv'
  <2>1. Launch(th) \/ TakeDisplay(th) \/ Observe(th) \/ Act(th) \/ Raise(th) \/ Begin(th) \/ NextStep(th)
        \/ (\E r : Return(th, r)) \/ (\E c \in Call \ {"observe"} : Perform(th, c))
    BY <1>11, Zenon DEF Execute, DriverStep, Decide, Complete, Expand, Fail, ProtocolError, Settle, Abort
  <2>2. QED
    BY <2>1, <1>2, <1>3, <1>4, <1>5, <1>6, <1>7, <1>8, <1>9, <1>10
<1>12. QED
  BY <1>1, <1>11 DEF UNext

\* With one thread per app, an element id is looked up in the nodes of the observation the
\* model decided on, which is the newest one of the app.
THEOREM ActsOnWhatItSawHolds ==
  ASSUME OneThreadPerApp
  PROVE  USpec => []ActsOnWhatItSaw
<1>1. DTypeOK /\ FreshInv /\ [UNext]_uvars => FreshInv'
  BY FreshStep
<1>2. FreshInv => ActsOnWhatItSaw
  BY DEF FreshInv, Informed, Fresh, ActsOnWhatItSaw, ByElement
<1>3. LockInv => DTypeOK
  BY DEF LockInv
<1>4. QED
  BY <1>1, <1>2, <1>3, FreshInit, LoopIsCaller, LockInvariant, PTL DEF USpec

\* Until its element is resolved, the action a thread decided on finds the nodes of its
\* observation unused.
Unspent(th) ==
  IF call[th] = "observe" THEN pc[th] = "returned"
  ELSE pc[th] \in {"ensure", "surface", "start", "locate", "publish", "display", "input", "point"}
UseInv == ElementIdsUsedOnce /\ InCall /\ \A th \in Thread : Unspent(th) => uses[AppOf[th]] = 0

LEMMA UseInit == UInit => UseInv
  BY DEF UInit, DInit, UseInv, InCall, Unspent, ElementIdsUsedOnce

LEMMA UseStep ==
  ASSUME OneThreadPerApp, DTypeOK, UseInv, [UNext]_uvars
  PROVE  UseInv'
<1> USE UiAssumption
<1> USE DEF UseInv, InCall, Unspent, OneThreadPerApp, ElementIdsUsedOnce
<1>1. CASE UNCHANGED uvars
  BY <1>1 DEF uvars, dvars, thread, driver
<1>2. ASSUME NEW th \in Thread, Launch(th) PROVE UseInv'
  BY <1>2 DEF Launch, EnsureLaunched, TakeSurface, Start, Locate, Publish, Move, DTypeOK, driver
<1>3. ASSUME NEW th \in Thread, TakeDisplay(th) PROVE UseInv'
  BY <1>3 DEF TakeDisplay, Move, DTypeOK
<1>4. ASSUME NEW th \in Thread, Observe(th) PROVE UseInv'
  <2>1. CASE Snapshot(th)
    BY <2>1 DEF Snapshot, Move, DTypeOK, driver
  <2>2. CASE SnapshotRetry(th)
    BY <2>2 DEF SnapshotRetry, DTypeOK, driver
  <2>3. CASE Screenshot(th)
    BY <2>3 DEF Screenshot, Move, DTypeOK
  <2>4. QED
    BY <1>4, <2>1, <2>2, <2>3 DEF Observe
<1>5. ASSUME NEW th \in Thread, Point(th) PROVE UseInv'
  <2>1. pc[th] = "point" /\ call[th] # "observe" /\ uses[AppOf[th]] = 0
    BY <1>5 DEF Point, Move
  <2>2. /\ uses' = uses \/ uses' = [uses EXCEPT ![AppOf[th]] = @ + 1]
        /\ call' = call /\ pc' = [pc EXCEPT ![th] = "send"]
    BY <1>5 DEF Point, Move
  <2>3. AppOf[th] \in App
    OBVIOUS
  <2>4. \A a \in App : a # AppOf[th] => uses'[a] = uses[a]
    BY <2>2 DEF DTypeOK
  <2>5. uses'[AppOf[th]] <= 1
    BY <2>1, <2>2, <2>3 DEF DTypeOK
  <2>6. ElementIdsUsedOnce'
    BY <2>4, <2>5
  <2>7. InCall'
    BY <2>1, <2>2 DEF DTypeOK
  <2>8. \A u \in Thread \ {th} : AppOf[u] \in App /\ AppOf[u] # AppOf[th] /\ pc'[u] = pc[u]
    BY <2>2 DEF DTypeOK
  <2>9. \A u \in Thread : Unspent(u)' => uses'[AppOf[u]] = 0
    BY <2>1, <2>2, <2>4, <2>8 DEF DTypeOK
  <2>10. QED
    BY <2>6, <2>7, <2>9
<1>6. ASSUME NEW th \in Thread, TakeInput(th) \/ Send(th) \/ Type(th) PROVE UseInv'
  BY <1>6 DEF TakeInput, Send, Type, Move, DTypeOK, driver
<1>7. ASSUME NEW th \in Thread, Raise(th) PROVE UseInv'
  BY <1>7 DEF Raise, DTypeOK, driver
<1>8. ASSUME NEW th \in Thread, Begin(th) PROVE UseInv'
  BY <1>8 DEF Begin, Move, DTypeOK, driver
<1>9. ASSUME NEW th \in Thread, NextStep(th) PROVE UseInv'
  <2>1. \/ pc' = [pc EXCEPT ![th] = "ensure"] /\ call' = [call EXCEPT ![th] = "observe"]
        \/ pc' = [pc EXCEPT ![th] = "idle"] /\ call' = call
    BY <1>9, Zenon DEF NextStep
  <2>2. uses' = uses
    BY <1>9 DEF NextStep, driver
  <2>3. \A u \in Thread \ {th} : pc'[u] = pc[u] /\ call'[u] = call[u]
    BY <2>1 DEF DTypeOK
  <2>4. \/ pc'[th] = "ensure" /\ call'[th] = "observe"
        \/ pc'[th] = "idle"
    BY <2>1 DEF DTypeOK
  <2>5. InCall'
    BY <2>3, <2>4
  <2>6. \A u \in Thread : Unspent(u)' => uses'[AppOf[u]] = 0
    BY <2>2, <2>3, <2>4
  <2>7. QED
    BY <2>2, <2>5, <2>6
<1>10. ASSUME NEW th \in Thread, NEW r, Return(th, r) PROVE UseInv'
  BY <1>10 DEF Return, DTypeOK, driver
<1>11. ASSUME NEW th \in Thread, NEW c \in Call \ {"observe"}, Perform(th, c) PROVE UseInv'
  BY <1>11 DEF Perform, Deciding, DTypeOK, driver
<1>12. ASSUME NEW th \in Thread, Begin(th) \/ Execute(th) PROVE UseInv'
  <2>1. Launch(th) \/ TakeDisplay(th) \/ Observe(th) \/ Point(th) \/ TakeInput(th) \/ Send(th) \/ Type(th)
        \/ Raise(th) \/ Begin(th) \/ NextStep(th)
        \/ (\E r : Return(th, r)) \/ (\E c \in Call \ {"observe"} : Perform(th, c))
    BY <1>12, Zenon DEF Execute, DriverStep, Act, Decide, Complete, Expand, Fail, ProtocolError, Settle, Abort
  <2>2. QED
    BY <2>1, <1>2, <1>3, <1>4, <1>5, <1>6, <1>7, <1>8, <1>9, <1>10, <1>11
<1>13. QED
  BY <1>1, <1>12 DEF UNext

\* With one thread per app, element ids are resolved in the nodes of an observation at
\* most once, although act does not drop the nodes it used: the loop observes again
\* after every action, also after one that raised.
THEOREM ElementIdsUsedOnceHolds ==
  ASSUME OneThreadPerApp
  PROVE  USpec => []ElementIdsUsedOnce
<1>1. DTypeOK /\ UseInv /\ [UNext]_uvars => UseInv'
  BY UseStep
<1>2. UseInv => ElementIdsUsedOnce
  BY DEF UseInv
<1>3. LockInv => DTypeOK
  BY DEF LockInv
<1>4. QED
  BY <1>1, <1>2, <1>3, UseInit, LoopIsCaller, LockInvariant, PTL DEF USpec

-----------------------------------------------------------------------------
(* Results                                                                 *)

\* An executor is given WORK that owes one artifact or none: _validate_fragment refuses
\* more, and OneOutputHolds shows that no operation of the steward leads to more.
SingleOutput == \A c \in Contract : c = {} \/ \E o \in c : c = {o}

\* An accepted completion is the draft that serves the only output.
LEMMA AcceptedServes ==
  ASSUME NEW o, NEW r, o.id # None, Accepts({o}, r)
  PROVE  DraftOf({o}, r).id = o.id /\ DraftOf({o}, r).valid
<1>1. KindOf({o}, r) = o.kind
  BY DEF Accepts
<1>2. Matching({o}, r) = {o.id}
  BY <1>1 DEF Matching
<1>3. Cardinality({o.id}) = 1
  BY FS_Singleton
<1>4. DraftOf({o}, r).id = o.id
  BY <1>2, <1>3 DEF DraftOf, Accepts
<1>5. QED
  BY <1>4 DEF DraftOf, Accepts

LEMMA ServedAccepted ==
  ASSUME NEW o, NEW d, d.id = o.id, d.valid
  PROVE  ~StewardRejects({o}, {d})
<1> DEFINE Fits(p) == {e \in {d} : e.id = p.id \/ (e.id = None /\ e.kind = p.kind)}
<1>1. Fits(o) = {d}
  OBVIOUS
<1>2. Cardinality({o}) = 1 /\ Cardinality({d}) = 1
  BY FS_Singleton
<1>3. Cardinality(Fits(o)) = 1 /\ \A e \in Fits(o) : e.valid
  BY <1>1, <1>2
<1> HIDE DEF Fits
<1>4. StewardRejects({o}, {d}) =>
         Cardinality({d}) # Cardinality({o}) \/ Cardinality(Fits(o)) # 1 \/ \E e \in Fits(o) : ~e.valid
  BY DEF StewardRejects, Fits
<1>5. QED
  BY <1>2, <1>3, <1>4

Acceptable(outs, r) == r.kind = "completed" => ~StewardRejects(outs, {r.draft})

LEMMA CompletedAcceptable ==
  ASSUME SingleOutput, NEW outs \in Contract \cup {{}}, NEW r, Accepts(outs, r)
  PROVE  Acceptable(outs, [kind |-> "completed", draft |-> DraftOf(outs, r)])
<1> DEFINE d == DraftOf(outs, r)
<1>1. CASE outs = {}
  <2>1. ~StewardRejects({}, {d})
    BY DEF StewardRejects
  <2>2. QED
    BY <1>1, <2>1 DEF Acceptable
<1>2. ASSUME outs # {} PROVE ~StewardRejects(outs, {d})
  <2>1. PICK o \in outs : outs = {o}
    BY <1>2 DEF SingleOutput
  <2>2. o.id # None
    BY <1>2, <2>1, LoopAssumption
  <2>3. d.id = o.id /\ d.valid
    BY <2>1, <2>2, AcceptedServes
  <2>4. QED
    BY <2>1, <2>3, ServedAccepted
<1>3. QED
  BY <1>1, <1>2 DEF Acceptable

ResultInv ==
  /\ contract \in [Thread -> Contract \cup {{}}]
  /\ DOMAIN result = Thread
  /\ \A th \in Thread : Acceptable(contract[th], result[th])

LEMMA ResultInit == UInit => ResultInv
  BY DEF UInit, ResultInv, Acceptable, NoResult

LEMMA ResultStep ==
  ASSUME SingleOutput, ResultInv, [UNext]_uvars
  PROVE  ResultInv'
<1>0. \A outs : Acceptable(outs, NoResult) /\ Acceptable(outs, Failed) /\ Acceptable(outs, Raised)
  BY DEF Acceptable, NoResult, Failed, Raised
<1>1. CASE UNCHANGED loop
  BY <1>1 DEF loop, ResultInv
<1>2. ASSUME NEW th \in Thread, NEW r, Return(th, r), Acceptable(contract[th], r) PROVE ResultInv'
  BY <1>2 DEF Return, ResultInv
<1>3. ASSUME NEW th \in Thread, Begin(th) PROVE ResultInv'
  BY <1>0, <1>3 DEF Begin, ResultInv
<1>4. ASSUME NEW th \in Thread, NextStep(th) PROVE ResultInv'
  <2>1. contract' = contract /\ (result' = result \/ result' = [result EXCEPT ![th] = Failed])
    BY <1>4 DEF NextStep
  <2>2. QED
    BY <1>0, <2>1 DEF ResultInv
<1>5. ASSUME NEW th \in Thread, NEW r \in Completion, Complete(th, r) PROVE ResultInv'
  <2>1. Acceptable(contract[th], [kind |-> "completed", draft |-> DraftOf(contract[th], r)])
    BY <1>5, CompletedAcceptable DEF Complete, ResultInv
  <2>2. QED
    BY <1>2, <1>5, <2>1 DEF Complete
<1>6. ASSUME NEW th \in Thread, NEW r \in Request, Expand(th, r) PROVE ResultInv'
  <2>1. PICK a \in Target(r) :
          Return(th, [kind |-> "expansion", capability |-> r.capability, provider |-> a, identity |-> r.identity])
    BY <1>6 DEF Expand
  <2>2. \A outs : Acceptable(outs, [kind |-> "expansion", capability |-> r.capability, provider |-> a,
                                   identity |-> r.identity])
    BY DEF Acceptable
  <2>3. QED
    BY <1>2, <2>1, <2>2
<1>7. ASSUME NEW th \in Thread, Begin(th) \/ Execute(th) PROVE ResultInv'
  <2>1. \/ UNCHANGED loop \/ Begin(th) \/ NextStep(th) \/ Return(th, Failed) \/ Return(th, Raised)
        \/ (\E r \in Completion : Complete(th, r)) \/ (\E r \in Request : Expand(th, r))
    BY <1>7, Zenon DEF Execute, Decide, Fail, ProtocolError, Perform, Settle, Abort
  <2>2. QED
    BY <2>1, <1>0, <1>1, <1>2, <1>3, <1>4, <1>5, <1>6
<1>8. CASE UNCHANGED uvars
  BY <1>1, <1>8 DEF uvars
<1>9. QED
  BY <1>7, <1>8 DEF UNext

\* Whatever the model replies, a completion that an execution returns is the one draft
\* that serves the output, and the steward's own gate lets it pass.
THEOREM CompletionAcceptedHolds ==
  ASSUME SingleOutput
  PROVE  USpec => []CompletionAccepted
<1>1. ResultInv /\ [UNext]_uvars => ResultInv'
  BY ResultStep
<1>2. ResultInv => CompletionAccepted
  BY DEF ResultInv, CompletionAccepted, Acceptable
<1>3. QED
  BY <1>1, <1>2, ResultInit, PTL DEF USpec

=============================================================================

--------------------------- MODULE AndroidUiDriver ---------------------------
(***************************************************************************)
(* AndroidUiDriver: observation and primitive actions of AppAgents on      *)
(* the displays of one phone.                                              *)
(*                                                                         *)
(* A thread calls observe or act for the app it serves.  Both first make   *)
(* sure that the app was launched, under the surface lock; observe then    *)
(* works under the lock of the app's display, act under that lock and      *)
(* the device-wide input lock.  A step is what happens between two         *)
(* points at which another thread or the phone can interfere: taking a     *)
(* lock, or a command to the phone.  Any command may fail, which leaves    *)
(* the call as an exception and releases its locks.                        *)
(***************************************************************************)
EXTENDS Integers, FiniteSets

CONSTANTS
  Thread, App, AppOf,  \* threads and the app each one serves
  Display,             \* logical displays
  Requested,           \* requested_display_id of each AppInstance
  OwnShot,             \* apps whose AppInstance has a screenshot_display_id
  Places,              \* displays on which Android may put an app (it may remap a request)
  MaxAttempts,         \* snapshots tried by one observation (5 in the code)
  None

ASSUME UiAssumption ==
  /\ AppOf \in [Thread -> App] /\ None \notin Thread \cup App \cup Display
  /\ Requested \in [App -> Display] /\ OwnShot \subseteq App
  /\ Places \in [App -> (SUBSET Display) \ {{}}]
  /\ MaxAttempts \in Nat \ {0}

\* What a thread may ask of the driver: an observation; a click or a text entry on
\* an element; a text entry at x, y; another action (swipe, back, click at x, y).
ByElement == {"click", "input_text"}
Typing == {"input_text", "input_text_at"}
Call == {"observe", "gesture"} \cup ByElement \cup Typing

VARIABLES
  pc, call,      \* where each thread is, in which call
  attempt,       \* snapshots it has tried
  seen,          \* number of the observation it was given last
  launched,      \* _launched
  surface, shot, \* _actual_display_by_app, display behind _actual_screenshot_by_app
  events,        \* _surface_events: how often an app occurs in it
  observed,      \* _observation_count
  last,          \* _last_nodes: number of the observation whose nodes are kept
  uses,          \* history: how often element ids were resolved in them (up to 2)
  surfaceLock, displayLock, inputLock,
  top, shown,    \* the phone: app in front of each display, displays listing an app
  focus          \* the phone: app that owns the field tapped last

thread == <<pc, call, attempt, seen>>
driver == <<launched, surface, shot, events, observed, last, uses>>
locks  == <<surfaceLock, displayLock, inputLock>>
phone  == <<top, shown, focus>>
dvars  == <<thread, driver, locks, phone>>

DInit ==
  /\ pc = [th \in Thread |-> "idle"] /\ call = [th \in Thread |-> "observe"]
  /\ attempt = [th \in Thread |-> 0] /\ seen = [th \in Thread |-> 0]
  /\ launched = {}
  /\ surface = [a \in App |-> None] /\ shot = [a \in App |-> None]
  /\ events = [a \in App |-> 0]
  /\ observed = [a \in App |-> 0] /\ last = [a \in App |-> 0] /\ uses = [a \in App |-> 0]
  /\ surfaceLock = None /\ displayLock = [d \in Display |-> None] /\ inputLock = None
  /\ top = [d \in Display |-> None] /\ shown = [a \in App |-> {}] /\ focus = None

Move(th, from, to) == pc[th] = from /\ pc' = [pc EXCEPT ![th] = to]

\* A lock is free for a thread.
Free(l) == l = None

Released(th) ==
  /\ surfaceLock' = IF surfaceLock = th THEN None ELSE surfaceLock
  /\ displayLock' = [d \in Display |-> IF displayLock[d] = th THEN None ELSE displayLock[d]]
  /\ inputLock' = IF inputLock = th THEN None ELSE inputLock

-----------------------------------------------------------------------------
(* _ensure_launched                                                        *)

\* The check without the lock
EnsureLaunched(th) ==
  /\ Move(th, "ensure", IF AppOf[th] \in launched THEN "display" ELSE "surface")
  /\ UNCHANGED <<call, attempt, seen, driver, locks, phone>>

TakeSurfaceUnchecked(th) ==  \* mutant of TakeSurface
  /\ Move(th, "surface", "start")
  /\ Free(surfaceLock)
  /\ surfaceLock' = th
  /\ UNCHANGED <<call, attempt, seen, driver, displayLock, inputLock, phone>>

\* The second check, with the lock
TakeSurface(th) ==
  /\ Move(th, "surface", IF AppOf[th] \in launched THEN "display" ELSE "start")
  /\ Free(surfaceLock)
  /\ surfaceLock' = IF AppOf[th] \in launched THEN None ELSE th
  /\ UNCHANGED <<call, attempt, seen, driver, displayLock, inputLock, phone>>

StartMarked(th) ==  \* mutant of Start
  LET a == AppOf[th]
  IN  /\ Move(th, "start", "locate")
      /\ \E d \in Places[a] :
           /\ top' = [top EXCEPT ![d] = a]
           /\ shown' = [shown EXCEPT ![a] = @ \cup {d}]
           /\ focus' = IF focus # None /\ top[d] = focus THEN a ELSE focus
      /\ launched' = launched \cup {a}
      /\ UNCHANGED <<call, attempt, seen, surface, shot, events, observed, last, uses, locks>>

\* launch_package(_on_display): the app comes to the front of a display, and takes
\* the focus from the app it covers.
Start(th) ==
  LET a == AppOf[th]
  IN  /\ Move(th, "start", "locate")
      /\ \E d \in Places[a] :
           /\ top' = [top EXCEPT ![d] = a]
           /\ shown' = [shown EXCEPT ![a] = @ \cup {d}]
           /\ focus' = IF focus # None /\ top[d] = focus THEN a ELSE focus
      /\ UNCHANGED <<call, attempt, seen, driver, locks>>

ShotAsRequested(a, d) == IF a \in OwnShot THEN Requested[a] ELSE d  \* mutant of ShotOf

\* The display a screenshot of app a on display d is taken from: the one configured
\* for the instance if the app is where it was asked to be, else that of d.
ShotOf(a, d) == IF d = Requested[a] /\ a \in OwnShot THEN Requested[a] ELSE d

\* _resolve_actual_display: the requested display if the app is listed there
ActualDisplay(a) == IF Requested[a] \in shown[a] THEN {Requested[a]} ELSE shown[a]

Locate(th) ==
  LET a == AppOf[th]
  IN  /\ Move(th, "locate", "publish")
      /\ \E d \in ActualDisplay(a) :
           /\ surface' = [surface EXCEPT ![a] = d]
           /\ shot' = [shot EXCEPT ![a] = ShotOf(a, d)]
      /\ UNCHANGED <<call, attempt, seen, launched, events, observed, last, uses, locks, phone>>

\* The app counts as launched once its surface is known.
Publish(th) ==
  LET a == AppOf[th]
  IN  /\ Move(th, "publish", "display")
      /\ launched' = launched \cup {a}
      /\ events' = [events EXCEPT ![a] = @ + 1]
      /\ Released(th)
      /\ UNCHANGED <<call, attempt, seen, surface, shot, observed, last, uses, phone>>

Launch(th) == EnsureLaunched(th) \/ TakeSurface(th) \/ Start(th) \/ Locate(th) \/ Publish(th)

-----------------------------------------------------------------------------
(* observe                                                                 *)

LockByRequest(a) == Requested[a]  \* mutant of LockOf

\* The display whose lock orders the observations and actions of an app
LockOf(a) == surface[a]

TakeDisplay(th) ==
  LET a == AppOf[th]
  IN  /\ Move(th, "display", IF call[th] = "observe" THEN "snapshot" ELSE "input")
      /\ surface[a] # None
      /\ Free(displayLock[LockOf(a)])
      /\ displayLock' = [displayLock EXCEPT ![LockOf(a)] = th]
      /\ attempt' = [attempt EXCEPT ![th] = 0]
      /\ observed' = IF call[th] = "observe" THEN [observed EXCEPT ![a] = @ + 1] ELSE observed
      /\ UNCHANGED <<call, seen, launched, surface, shot, events, last, uses, surfaceLock, inputLock, phone>>

\* The accessibility service knows a window of the app on its display, ...
Snapshot(th) ==
  /\ Move(th, "snapshot", "screenshot")
  /\ top[surface[AppOf[th]]] = AppOf[th]
  /\ UNCHANGED <<call, attempt, seen, driver, locks, phone>>

\* ... or not yet: the snapshot is tried again, a bounded number of times.
SnapshotRetry(th) ==
  /\ pc[th] = "snapshot"
  /\ attempt[th] < MaxAttempts - 1
  /\ attempt' = [attempt EXCEPT ![th] = @ + 1]
  /\ UNCHANGED <<pc, call, seen, driver, locks, phone>>

RetainedFirst(a) == IF last[a] = 0 THEN observed[a] ELSE last[a]  \* mutant of Retained

\* The nodes kept for the next action are those of this observation.
Retained(a) == observed[a]

\* The screenshot, the check of the package, and the result
Screenshot(th) ==
  LET a == AppOf[th]
  IN  /\ Move(th, "screenshot", "returned")
      /\ last' = [last EXCEPT ![a] = Retained(a)]
      /\ uses' = [uses EXCEPT ![a] = 0]
      /\ seen' = [seen EXCEPT ![th] = observed[a]]
      /\ Released(th)
      /\ UNCHANGED <<call, attempt, launched, surface, shot, events, observed, phone>>

Observe(th) == Snapshot(th) \/ SnapshotRetry(th) \/ Screenshot(th)

-----------------------------------------------------------------------------
(* act                                                                     *)

TakeInputUnlocked(th) ==  \* mutant of TakeInput
  /\ Move(th, "input", "point")
  /\ UNCHANGED <<call, attempt, seen, driver, locks, phone>>

TakeInput(th) ==
  /\ Move(th, "input", "point")
  /\ Free(inputLock)
  /\ inputLock' = th
  /\ UNCHANGED <<call, attempt, seen, driver, surfaceLock, displayLock, phone>>

\* _point_for_action: an element id is looked up in the nodes that are kept.
Point(th) ==
  LET a == AppOf[th]
  IN  /\ Move(th, "point", "send")
      /\ call[th] \in ByElement => last[a] # 0
      /\ uses' = IF call[th] \in ByElement /\ uses[a] < 2 THEN [uses EXCEPT ![a] = @ + 1] ELSE uses
      /\ UNCHANGED <<call, attempt, seen, launched, surface, shot, events, observed, last, locks, phone>>

\* A tap or gesture on the app's display; a tap moves the focus to what is there.
Send(th) ==
  /\ pc[th] = "send"
  /\ focus' \in {top[surface[AppOf[th]]]} \cup (IF call[th] = "gesture" THEN {focus} ELSE {})
  /\ IF call[th] \in Typing
     THEN pc' = [pc EXCEPT ![th] = "type"] /\ UNCHANGED locks
     ELSE pc' = [pc EXCEPT ![th] = "returned"] /\ Released(th)
  /\ UNCHANGED <<call, attempt, seen, driver, top, shown>>

\* replace_text_display: what the focused field holds is replaced by the text.
Type(th) ==
  /\ Move(th, "type", "returned")
  /\ Released(th)
  /\ UNCHANGED <<call, attempt, seen, driver, phone>>

Act(th) == TakeInput(th) \/ Point(th) \/ Send(th) \/ Type(th)

-----------------------------------------------------------------------------
\* Points at which a call can raise: a command to the phone fails or times out, the
\* surface or the last snapshot is not found, the observation shows another package,
\* the action is malformed, the element is not in the kept nodes.
Fallible == {"start", "locate", "snapshot", "screenshot", "point", "send", "type"}

RaiseKeepingLocks(th) ==  \* mutant of Raise
  /\ pc[th] \in Fallible
  /\ pc' = [pc EXCEPT ![th] = "raised"]
  /\ UNCHANGED <<call, attempt, seen, driver, locks, phone>>

\* An exception leaves the call: the with statements release its locks.
Raise(th) ==
  /\ pc[th] \in Fallible
  /\ pc' = [pc EXCEPT ![th] = "raised"]
  /\ Released(th)
  /\ UNCHANGED <<call, attempt, seen, driver, phone>>

DriverStep(th) == Launch(th) \/ TakeDisplay(th) \/ Observe(th) \/ Act(th) \/ Raise(th)

\* A caller may observe and act in any order, ...
Enter(th, c) ==
  /\ pc[th] \in {"idle", "returned", "raised"}
  /\ pc' = [pc EXCEPT ![th] = "ensure"]
  /\ call' = [call EXCEPT ![th] = c]
  /\ UNCHANGED <<attempt, seen, driver, locks, phone>>

\* ... and stop when a call is over.
Leave(th) ==
  /\ pc[th] \in {"returned", "raised"}
  /\ pc' = [pc EXCEPT ![th] = "idle"]
  /\ UNCHANGED <<call, attempt, seen, driver, locks, phone>>

DNext == \E th \in Thread : DriverStep(th) \/ (\E c \in Call : Enter(th, c)) \/ Leave(th)

DSpec == DInit /\ [][DNext]_dvars

-----------------------------------------------------------------------------
(* Properties                                                              *)

DTypeOK ==
  /\ pc \in [Thread -> {"idle", "ensure", "surface", "start", "locate", "publish", "display", "snapshot",
                        "screenshot", "input", "point", "send", "type", "returned", "raised"}]
  /\ call \in [Thread -> Call]
  /\ attempt \in [Thread -> 0 .. MaxAttempts - 1] /\ seen \in [Thread -> Nat]
  /\ launched \subseteq App
  /\ surface \in [App -> Display \cup {None}] /\ shot \in [App -> Display \cup {None}]
  /\ events \in [App -> Nat]
  /\ observed \in [App -> Nat] /\ last \in [App -> Nat] /\ uses \in [App -> 0 .. 2]
  /\ surfaceLock \in Thread \cup {None} /\ inputLock \in Thread \cup {None}
  /\ displayLock \in [Display -> Thread \cup {None}]
  /\ top \in [Display -> App \cup {None}] /\ shown \in [App -> SUBSET Display]
  /\ focus \in App \cup {None}

\* An app that counts as launched has a surface: the unlocked check of _ensure_launched
\* never lets a thread go on to a display that is not known yet.
LaunchedHasSurface == \A a \in launched : surface[a] # None /\ shot[a] # None

\* Threads that find an app not launched at the same time launch it once.
LaunchedOnce == \A a \in App : events[a] <= 1

\* Between the snapshot and the screenshot of an observation no other thread sends
\* input to that display, also when Android put several apps on one display.
ObservationUndisturbed ==
  \A th, u \in Thread :
    pc[th] = "screenshot" /\ pc[u] \in {"send", "type"} => surface[AppOf[th]] # surface[AppOf[u]]

\* The text of an input transaction reaches the app whose element was tapped.
TextReachesApp == \A th \in Thread : pc[th] = "type" => focus = AppOf[th]

\* The screenshot and the nodes of one observation are of the same app: what the
\* model sees is what it can act on.
ObservationCoherent == [][\A a \in App : last'[a] # last[a] => top[shot[a]] = a]_dvars

\* The nodes of one observation serve at most one action.
ElementIdsUsedOnce == \A a \in App : uses[a] <= 1

=============================================================================

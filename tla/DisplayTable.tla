---------------------------- MODULE DisplayTable ----------------------------
(***************************************************************************)
(* list_displays: the logical displays of a phone and the SurfaceFlinger   *)
(* id each is captured by, put together from two dumps.                    *)
(*                                                                         *)
(* The dump of the display service has an id, a name and mostly a unique   *)
(* id of every logical display; the one of SurfaceFlinger has its own id   *)
(* and a name, and a unique id if the build prints it.  They are joined    *)
(* over the unique id, else over the name.  The driver captures the        *)
(* display an app is on by the id it finds in this table.                  *)
(***************************************************************************)
EXTENDS Sequences, FiniteSets, SequencesExt

CONSTANTS LogicalDisplay, Name, NoSurface

VARIABLES
  name,    \* of each display
  tagged,  \* displays that the display service prints with a unique id
  surfaces \* the dump of SurfaceFlinger: the displays in its order, with or without a unique id

dvars == <<name, tagged, surfaces>>

\* The SurfaceFlinger id and the unique id of display d
Surface(d) == <<"surface", d>>
UniqueId(d) == <<"unique", d>>

\* No display has the unique id of another for a name.
ASSUME KeyAssumption ==
  \A d \in LogicalDisplay : Surface(d) # NoSurface /\ UniqueId(d) \notin Name

\* _parse_surfaceflinger_displays: the keys under which a line is entered
Keys(line) == {name[line.display]} \cup {u \in {UniqueId(line.display)} : line.tagged}

\* The first display of a name keeps it; a unique id is on one line at most.
Lookup(k) ==
  LET entered == {i \in DOMAIN surfaces : k \in Keys(surfaces[i])}
  IN  IF entered = {} THEN NoSurface ELSE Surface(surfaces[Min(entered)].display)

NameFirst(d) ==  \* mutant of SurfaceOf
  IF Lookup(name[d]) # NoSurface THEN Lookup(name[d])
  ELSE IF d \in tagged THEN Lookup(UniqueId(d)) ELSE NoSurface

\* _parse_logical_displays: AndroidDisplayInfo.surfaceflinger_id
SurfaceOf(d) ==
  IF d \in tagged /\ Lookup(UniqueId(d)) # NoSurface THEN Lookup(UniqueId(d)) ELSE Lookup(name[d])

-----------------------------------------------------------------------------
Unplugged == name = <<>> /\ tagged = {} /\ surfaces = <<>>

\* SurfaceFlinger lists some of the displays, in any order.
Plug ==
  /\ name = <<>>
  /\ name' \in [LogicalDisplay -> Name]
  /\ tagged' \in SUBSET LogicalDisplay
  /\ \E listed \in SUBSET LogicalDisplay, printed \in SUBSET LogicalDisplay :
       \E order \in SetToSeqs(listed) :
         surfaces' = [i \in DOMAIN order |-> [display |-> order[i], tagged |-> order[i] \in printed]]

DumpSpec == Unplugged /\ [][Plug]_dvars

-----------------------------------------------------------------------------
(* Properties                                                              *)

\* Both dumps tell the display apart from the others.
Distinguished(d) ==
  \/ d \in tagged /\ \E i \in DOMAIN surfaces : surfaces[i] = [display |-> d, tagged |-> TRUE]
  \/ \A e \in LogicalDisplay : name[e] = name[d] => e = d

\* A display that the dumps tell apart, by unique id or by name, is captured by
\* its own surface or not at all: no observation shows another app's display.
OwnSurface ==
  name # <<>> => \A d \in LogicalDisplay : Distinguished(d) => SurfaceOf(d) \in {Surface(d), NoSurface}

=============================================================================

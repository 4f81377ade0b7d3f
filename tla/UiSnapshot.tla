----------------------------- MODULE UiSnapshot -----------------------------
(***************************************************************************)
(* From the windows of a phone to the element ids a model sees.            *)
(*                                                                         *)
(* The accessibility bridge, a service on the phone, walks the window of   *)
(* one app on one display; the client checks the answer; ui_tree drops     *)
(* elements without bounds and numbers the rest; the prompt shows the      *)
(* first of them; and the driver looks an id up again.  A screen is a      *)
(* forest: every window has a root, every element a parent with a smaller  *)
(* number, and the children of an element are in order of their numbers.   *)
(***************************************************************************)
EXTENDS Integers, Sequences, FiniteSetsExt

CONSTANTS
  Display, Package, \* logical displays and apps
  MaxElement,       \* bound: elements on the screen
  SnapshotLimit,    \* elements the client asks for
  BridgeLimit,      \* elements the bridge gives at most
  PromptLimit,      \* elements the prompt shows
  Unreadable

ASSUME LimitAssumption ==
  /\ MaxElement \in Nat /\ PromptLimit \in Nat \ {0} /\ BridgeLimit \in Nat
  /\ SnapshotLimit \in 1 .. BridgeLimit

Element == 1 .. MaxElement

VARIABLES
  parent,  \* of each element; 0 of a root
  shown,   \* elements with text, a description, or that take input
  bounded, \* elements with usable bounds
  enabled, \* elements that take input now
  windows  \* of each root: its display, and its package or Unreadable

wvars == <<parent, shown, bounded, enabled, windows>>

Roots == {e \in Element : parent[e] = 0}
Children(e) == {c \in Element : parent[c] = e}
Later(e) == {c \in Element : c > e /\ parent[c] = parent[e] /\ parent[e] # 0}  \* children of the same parent

-----------------------------------------------------------------------------
(* The bridge                                                              *)

AppendChildrenFirst(limit) ==  \* mutant of AppendNodes
  LET walk[e \in Element] == [out \in Seq(Element) |->
        IF Len(out) >= limit THEN out
        ELSE LET below == IF Children(e) = {} THEN out ELSE walk[Min(Children(e))][out]
                 own == IF e \in shown /\ Len(below) < limit THEN Append(below, e) ELSE below
             IN  IF Later(e) = {} THEN own ELSE walk[Min(Later(e))][own]]
  IN  walk

\* appendNodes: the element, then its children, and then, in the loop of its
\* parent, the children after it, all until the limit is reached
AppendNodes(limit) ==
  LET walk[e \in Element] == [out \in Seq(Element) |->
        IF Len(out) >= limit THEN out
        ELSE LET own == IF e \in shown THEN Append(out, e) ELSE out
                 below == IF Children(e) = {} THEN own ELSE walk[Min(Children(e))][own]
             IN  IF Later(e) = {} THEN below ELSE walk[Min(Later(e))][below]]
  IN  walk

Error(reason) == [ok |-> FALSE, error |-> reason]
Clamped(limit) == IF limit < 1 THEN 1 ELSE IF limit > BridgeLimit THEN BridgeLimit ELSE limit

\* snapshot: the first window of the display whose root is of the package
Bridge(d, p, limit) ==
  LET there == {r \in Roots : windows[r].display = d}
      found == {r \in there : windows[r].package = p}
      first == CHOOSE r \in found : \A o \in found : r <= o
  IN  IF there = {} THEN Error("no_interactive_windows_on_display")
      ELSE IF found = {} THEN Error("expected_package_not_found")
      ELSE [ok |-> TRUE, display |-> d, package |-> p, nodes |-> AppendNodes(Clamped(limit))[first][<<>>]]

-----------------------------------------------------------------------------
(* The client                                                              *)

\* AccessibilitySnapshotClient.snapshot: the elements of an answer that is about
\* what was asked for; <<>> stands for the errors
Snapshot(d, p) ==
  LET answer == Bridge(d, p, SnapshotLimit)
  IN  IF answer.ok /\ answer.display = d /\ answer.package = p THEN answer.nodes ELSE <<>>

\* nodes_from_accessibility_snapshot: a UiNode for each element with bounds, its
\* index the number of nodes before it; without any the observation fails
Nodes(d, p) ==
  LET answer == Snapshot(d, p)
      nodes[i \in 0 .. Len(answer)] ==
        IF i = 0 THEN <<>>
        ELSE IF answer[i] \in bounded
        THEN Append(nodes[i - 1], [index |-> Len(nodes[i - 1]), element |-> answer[i]])
        ELSE nodes[i - 1]
  IN  nodes[Len(answer)]

PromptOfAnswer(d, p) ==  \* mutant of Prompt
  LET answer == Snapshot(d, p)
  IN  {[index |-> i - 1, element |-> answer[i]] : i \in {j \in DOMAIN answer : j <= PromptLimit /\ answer[j] \in bounded}}

\* prompt_snapshot: the lines the model reads, each with the id of its node
Prompt(d, p) == {Nodes(d, p)[i] : i \in {j \in DOMAIN Nodes(d, p) : j <= PromptLimit}}

\* _point_for_action: the element that an action on an id reaches
Target(d, p, id) ==
  {n.element : n \in {Nodes(d, p)[i] : i \in {j \in DOMAIN Nodes(d, p) :
                        Nodes(d, p)[j].index = id /\ Nodes(d, p)[j].element \in enabled}}}

-----------------------------------------------------------------------------
BlankScreen == parent = <<>> /\ shown = {} /\ bounded = {} /\ enabled = {} /\ windows = <<>>

Draw ==
  /\ parent = <<>>
  /\ parent' \in {f \in [Element -> 0 .. MaxElement - 1] : \A e \in Element : f[e] < e}
  /\ shown' \in SUBSET Element
  /\ bounded' \in SUBSET shown'
  /\ enabled' \in {bounded', {}}
  /\ windows' \in [{e \in Element : parent'[e] = 0} -> [display : Display, package : Package \cup {Unreadable}]]

ScreenSpec == BlankScreen /\ [][Draw]_wvars

-----------------------------------------------------------------------------
(* Properties                                                              *)

\* An element and what contains it
Ancestors ==
  LET above[e \in Element] == {e} \cup (IF parent[e] = 0 THEN {} ELSE above[parent[e]])
  IN  above

\* x comes before y for a reader: it contains y, or the branch it is on comes
\* first where the two part.
Precedes(x, y) ==
  \/ x # y /\ x \in Ancestors[y]
  \/ \E a \in Ancestors[x] \ Ancestors[y], b \in Ancestors[y] \ Ancestors[x] : parent[a] = parent[b] /\ a < b

\* A snapshot is the top of one window of the app on the display: elements of
\* that window in order, as many as were asked for, and none left out before the
\* last of them.
SnapshotIsTop ==
  parent # <<>> => \A d \in Display, p \in Package :
    LET answer == Bridge(d, p, SnapshotLimit)
        n == answer.nodes
        given == {n[i] : i \in DOMAIN n}
    IN  answer.ok =>
          \E r \in Roots :
            LET window == {e \in shown : r \in Ancestors[e]}
            IN  /\ windows[r] = [display |-> d, package |-> p]
                /\ \A i \in DOMAIN n : \A j \in DOMAIN n : i < j => Precedes(n[i], n[j])
                /\ given \subseteq window
                /\ \A e \in window \ given : Len(n) = SnapshotLimit /\ \A g \in given : Precedes(g, e)

SameWindow(x, y) == \E r \in Roots : r \in Ancestors[x] /\ r \in Ancestors[y]

\* Through all the cuts, of the bridge, of the client and of the prompt: an element
\* that the model could use and is not shown comes after all that are, and an action
\* on an id it is shown reaches the element on that line, if it is enabled, and no other.
PromptResolves ==
  parent # <<>> => \A d \in Display, p \in Package : \A line \in Prompt(d, p) :
    /\ Target(d, p, line.index) = {line.element} \cap enabled
    /\ \A e \in bounded : SameWindow(e, line.element) =>
         (\E other \in Prompt(d, p) : other.element = e) \/ Precedes(line.element, e)

=============================================================================

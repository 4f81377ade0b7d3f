---------------------------- MODULE BorderProofs -----------------------------
(***************************************************************************)
(* Proofs about the borders of the program, where texts, dumps and screens *)
(* enter it, for every input of any size.  SchedulingPolicyProofs has the  *)
(* lemmas about recursive functions; they are used for screens as well.    *)
(***************************************************************************)
EXTENDS ArtifactIdentity, DisplayTable, UiSnapshot, SchedulingPolicyProofs

-----------------------------------------------------------------------------
(* Descriptions and keys of artifacts                                      *)
(*                                                                         *)
(* Both sides of SharedWhenSame are equalities of functions of the fields: *)
(* the key maps a field to its normalised value, and what a description    *)
(* says is the graph of another such function, since no name occurs twice. *)
(* It is enough to compare them field by field.                            *)

Names(raw) == {raw[i].name : i \in DOMAIN raw}
TextOf(raw, f) == raw[CHOOSE i \in DOMAIN raw : raw[i].name = f].value
Description == [raw : UNION {[1 .. n -> Parameter] : n \in Nat}, task : Task]

\* What the schema makes of a text in one of its fields
Value(s, f, t) == IF IsText(s, f) THEN [type |-> "string", value |-> t] ELSE Loads(t)
Reads(s, f, t) ==
  /\ f \in DOMAIN s.types
  /\ IsText(s, f) \/ Loads(t) # Undefined
  /\ Accepted(s.types[f], s.rules[f], Value(s, f, t))
Normal(s, f, t) == Normalized(s.types[f], s.rules[f], Value(s, f, t))

-----------------------------------------------------------------------------
(* One field                                                               *)

\* A normaliser forgets blanks, and capitals if its rule says so, and nothing else.
LEMMA StrippedSame ==
  ASSUME NEW t \in Text, NEW u \in Text, NEW rule
  PROVE  Stripped(t, rule) = Stripped(u, rule) <=>
           t.word = u.word /\ (rule # "casefold" => t.capitals = u.capitals)
<1> DEFINE Capitals(x) == x.capitals /\ rule # "casefold"
<1>1. t.capitals \in BOOLEAN /\ u.capitals \in BOOLEAN
  BY TextAssumption
<1>2. Capitals(t) = Capitals(u) <=> (rule # "casefold" => t.capitals = u.capitals)
  BY <1>1
<1> HIDE DEF Capitals
<1>3. \A x : Stripped(x, rule) = [word |-> x.word, blanks |-> FALSE, capitals |-> Capitals(x)]
  BY DEF Stripped, Capitals
<1>4. Stripped(t, rule) = Stripped(u, rule) <=> t.word = u.word /\ Capitals(t) = Capitals(u)
  <2>1. \A w, v, b, c : [word |-> w, blanks |-> FALSE, capitals |-> b] = [word |-> v, blanks |-> FALSE, capitals |-> c]
                        <=> w = v /\ b = c
    OBVIOUS
  <2>2. /\ Stripped(t, rule) = [word |-> t.word, blanks |-> FALSE, capitals |-> Capitals(t)]
        /\ Stripped(u, rule) = [word |-> u.word, blanks |-> FALSE, capitals |-> Capitals(u)]
    BY <1>3
  <2>3. [word |-> t.word, blanks |-> FALSE, capitals |-> Capitals(t)]
          = [word |-> u.word, blanks |-> FALSE, capitals |-> Capitals(u)]
        <=> t.word = u.word /\ Capitals(t) = Capitals(u)
    BY <2>1, Zenon
  <2>4. QED
    BY <2>2, <2>3, Zenon
<1>5. QED
  BY <1>2, <1>4, Zenon

\* In one field two texts come to one value exactly if they say the same.
LEMMA NormalSame ==
  ASSUME NEW f, NEW t \in Text, NEW u \in Text, Reads(schema, f, t), Reads(schema, f, u)
  PROVE  Normal(schema, f, t) = Normal(schema, f, u) <=> Says(f, t) = Says(f, u)
<1> DEFINE rule == schema.rules[f]
<1>1. CASE schema.types[f] = "string"
  <2>1. \A x : Normal(schema, f, x) = [type |-> "string", value |-> Stripped(x, rule)]
    BY <1>1 DEF Normal, Value, IsText, Normalized
  <2>2. Normal(schema, f, t) = Normal(schema, f, u) <=> Stripped(t, rule) = Stripped(u, rule)
    BY <2>1
  <2>3. Says(f, t) = Says(f, u) <=> t.word = u.word /\ (rule # "casefold" => t.capitals = u.capitals)
    BY <1>1 DEF Says
  <2>4. QED
    BY <2>2, <2>3, StrippedSame
<1>2. CASE schema.types[f] # "string"
  <2>1. \A x : Normal(schema, f, x) = Loads(x)
    BY <1>2 DEF Normal, Value, IsText, Normalized, Reads
  <2>2. Loads(t) = Json[t.word] /\ Loads(u) = Json[u.word]
    BY <1>2 DEF Reads, IsText, Loads
  <2>3. Says(f, t) = Json[t.word] /\ Says(f, u) = Json[u.word]
    BY <1>2 DEF Says
  <2>4. QED
    BY <2>1, <2>2, <2>3
<1>3. QED
  BY <1>1, <1>2

-----------------------------------------------------------------------------
(* All fields                                                              *)

\* No name occurs twice, so that a parameter is found by its name.
LEMMA FoundByName ==
  ASSUME NEW d \in Description, Describes(d), NEW i \in DOMAIN d.raw
  PROVE  /\ d.raw[i] \in Parameter
         /\ TextOf(d.raw, d.raw[i].name) = d.raw[i].value
<1>1. d.raw[i] \in Parameter
  BY DEF Description
<1>2. \A j \in DOMAIN d.raw : d.raw[j].name = d.raw[i].name => j = i
  BY DEF Describes, Decodable
<1>3. (CHOOSE j \in DOMAIN d.raw : d.raw[j].name = d.raw[i].name) = i
  BY <1>2
<1>4. QED
  BY <1>1, <1>3 DEF TextOf

\* A description that is accepted is read field by field.
LEMMA DescribedReads ==
  ASSUME NEW d \in Description, Describes(d), NEW f \in Names(d.raw)
  PROVE  /\ TextOf(d.raw, f) \in Text
         /\ Reads(schema, f, TextOf(d.raw, f))
         /\ Decoded(schema, d.raw)[f] = Value(schema, f, TextOf(d.raw, f))
<1>1. PICK i \in DOMAIN d.raw : d.raw[i].name = f
  BY DEF Names
<1>2. d.raw[i] \in Parameter /\ TextOf(d.raw, f) = d.raw[i].value
  BY <1>1, FoundByName
<1>3. TextOf(d.raw, f) \in Text
  BY <1>2 DEF Parameter
<1>4. Decoded(schema, d.raw)[f] = Value(schema, f, TextOf(d.raw, f)) /\ DOMAIN Decoded(schema, d.raw) = Names(d.raw)
  BY DEF Decoded, Value, TextOf, Names
<1>5. Canonicalizes(schema, Decoded(schema, d.raw))
  BY DEF Describes
<1>6. f \in DOMAIN schema.types /\ Accepted(schema.types[f], schema.rules[f], Decoded(schema, d.raw)[f])
  BY <1>4, <1>5 DEF Canonicalizes
<1>7. IsText(schema, f) \/ Loads(TextOf(d.raw, f)) # Undefined
  BY <1>1, <1>2 DEF Describes, Decodable
<1>8. QED
  BY <1>3, <1>4, <1>6, <1>7 DEF Reads

Normals(d) == [f \in Names(d.raw) |-> Normal(schema, f, TextOf(d.raw, f))]

LEMMA KeyNormals ==
  ASSUME NEW d \in Description, Describes(d)
  PROVE  KeyFor(d) = [schema |-> schema.id, version |-> schema.version, parameters |-> Normals(d),
                      scope |-> IF schema.sharing = "task" THEN d.task ELSE schema.sharing]
<1> DEFINE params == Decoded(schema, d.raw)
<1>1. DOMAIN params = Names(d.raw)
  BY DEF Decoded, Names
<1>2. \A f \in Names(d.raw) : Normalized(schema.types[f], schema.rules[f], params[f]) = Normal(schema, f, TextOf(d.raw, f))
  BY DescribedReads DEF Normal
<1> HIDE DEF params
<1>3. [f \in DOMAIN params |-> Normalized(schema.types[f], schema.rules[f], params[f])] = Normals(d)
  BY <1>1, <1>2 DEF Normals
<1>4. QED
  BY <1>3 DEF KeyFor, ArtifactKey, params

LEMMA StatementsAre ==
  ASSUME NEW d \in Description, Describes(d)
  PROVE  Statements(d) = {<<f, Says(f, TextOf(d.raw, f))>> : f \in Names(d.raw)}
<1>1. \A i \in DOMAIN d.raw : TextOf(d.raw, d.raw[i].name) = d.raw[i].value
  BY FoundByName
<1>2. QED
  BY <1>1 DEF Statements, Names

LEMMA SameStatements ==
  ASSUME NEW c \in Description, NEW d \in Description, Describes(c), Describes(d)
  PROVE  Normals(c) = Normals(d) <=> Statements(c) = Statements(d)
<1> DEFINE S(e, f) == Says(f, TextOf(e.raw, f))
<1>1. /\ Statements(c) = {<<f, S(c, f)>> : f \in Names(c.raw)}
      /\ Statements(d) = {<<f, S(d, f)>> : f \in Names(d.raw)}
  BY StatementsAre
<1>2. \A f \in Names(c.raw) \cap Names(d.raw) :
        Normals(c)[f] = Normals(d)[f] <=> S(c, f) = S(d, f)
  BY DescribedReads, NormalSame DEF Normals
<1>3. DOMAIN Normals(c) = Names(c.raw) /\ DOMAIN Normals(d) = Names(d.raw)
  BY DEF Normals
<1> HIDE DEF S
<1>4. ASSUME Normals(c) = Normals(d) PROVE Statements(c) = Statements(d)
  <2>1. Names(c.raw) = Names(d.raw)
    BY <1>3, <1>4
  <2>2. \A f \in Names(c.raw) : S(c, f) = S(d, f)
    BY <1>2, <1>4, <2>1
  <2>3. QED
    BY <1>1, <2>1, <2>2
<1>5. ASSUME Statements(c) = Statements(d) PROVE Normals(c) = Normals(d)
  <2>1. ASSUME NEW f \in Names(c.raw) PROVE f \in Names(d.raw) /\ S(c, f) = S(d, f)
    <3>1. <<f, S(c, f)>> \in Statements(d)
      BY <1>1, <1>5
    <3>2. QED
      BY <1>1, <3>1
  <2>2. ASSUME NEW f \in Names(d.raw) PROVE f \in Names(c.raw)
    <3>1. <<f, S(d, f)>> \in Statements(c)
      BY <1>1, <1>5
    <3>2. QED
      BY <1>1, <3>1
  <2>3. Names(c.raw) = Names(d.raw) /\ \A f \in Names(c.raw) : Normals(c)[f] = Normals(d)[f]
    BY <1>2, <2>1, <2>2
  <2>4. QED
    BY <2>3 DEF Normals
<1>6. QED
  BY <1>4, <1>5

-----------------------------------------------------------------------------
\* Two descriptions, or none yet
IInv == schema # Undefined => \E c, d \in Description : descriptions = <<c, d>>

LEMMA DescribedStep == Describe => IInv'
<1> SUFFICES ASSUME Describe PROVE IInv'
  OBVIOUS
<1>1. PICK raw1, raw2 \in UNION {[1 .. n -> Parameter] : n \in 0 .. MaxParameters}, t, u \in Task :
        descriptions' = <<[raw |-> raw1, task |-> t], [raw |-> raw2, task |-> u]>>
  BY Zenon DEF Describe
<1>2. raw1 \in UNION {[1 .. n -> Parameter] : n \in Nat} /\ raw2 \in UNION {[1 .. n -> Parameter] : n \in Nat}
  OBVIOUS
<1>3. [raw |-> raw1, task |-> t] \in Description /\ [raw |-> raw2, task |-> u] \in Description
  BY <1>2 DEF Description
<1>4. QED
  BY <1>1, <1>3 DEF IInv

LEMMA DescribedShared == IInv => SharedWhenSame
<1> SUFFICES ASSUME IInv, schema # Undefined, \A d \in {descriptions[1], descriptions[2]} : Describes(d)
             PROVE  KeyFor(descriptions[1]) = KeyFor(descriptions[2]) <=>
                      /\ Statements(descriptions[1]) = Statements(descriptions[2])
                      /\ schema.sharing = "task" => descriptions[1].task = descriptions[2].task
  BY DEF SharedWhenSame
<1>1. PICK c, d \in Description : descriptions = <<c, d>>
  BY DEF IInv
<1>2. descriptions[1] = c /\ descriptions[2] = d /\ Describes(c) /\ Describes(d)
  BY <1>1
<1>3. KeyFor(c) = KeyFor(d) <=>
        Normals(c) = Normals(d) /\ (schema.sharing = "task" => c.task = d.task)
  <2>1. CASE schema.sharing = "task"
    BY <1>2, <2>1, KeyNormals
  <2>2. CASE schema.sharing # "task"
    BY <1>2, <2>2, KeyNormals
  <2>3. QED
    BY <2>1, <2>2
<1>4. QED
  BY <1>2, <1>3, SameStatements

\* Two descriptions that the schema accepts get one key, and so share one producer, exactly
\* when they say the same, for every schema and however many parameters there are.
THEOREM SharedWhenSameHolds == ISpec => []SharedWhenSame
<1>1. Undescribed => IInv
  BY DEF Undescribed, IInv
<1>2. IInv /\ [Describe]_ivars => IInv'
  <2>1. IInv /\ UNCHANGED ivars => IInv'
    BY DEF IInv, ivars
  <2>2. QED
    BY <2>1, DescribedStep
<1>3. QED
  BY <1>1, <1>2, DescribedShared, PTL DEF ISpec

-----------------------------------------------------------------------------
(* The table of displays                                                   *)

\* A display has a name, and a line of the dump is about a display.
DumpInv ==
  name # <<>> => /\ name \in [LogicalDisplay -> Name]
                 /\ \A i \in DOMAIN surfaces : i \in Nat /\ surfaces[i].display \in LogicalDisplay

LEMMA DumpInvInit == Unplugged => DumpInv
BY DEF Unplugged, DumpInv

LEMMA DumpInvStep == DumpInv /\ [Plug]_dvars => DumpInv'
<1> SUFFICES ASSUME DumpInv, [Plug]_dvars PROVE DumpInv'
  OBVIOUS
<1>1. CASE Plug
  <2>1. name' \in [LogicalDisplay -> Name]
    BY <1>1 DEF Plug
  <2>2. PICK listed \in SUBSET LogicalDisplay, printed \in SUBSET LogicalDisplay :
          \E order \in SetToSeqs(listed) :
            surfaces' = [i \in DOMAIN order |-> [display |-> order[i], tagged |-> order[i] \in printed]]
    BY <1>1 DEF Plug
  <2>3. PICK order \in SetToSeqs(listed) :
          surfaces' = [i \in DOMAIN order |-> [display |-> order[i], tagged |-> order[i] \in printed]]
    BY <2>2
  <2>4. order \in [1 .. Cardinality(listed) -> listed]
    BY DEF SetToSeqs
  <2>5. \A i \in DOMAIN surfaces' : i \in Nat /\ surfaces'[i].display \in LogicalDisplay
    BY <2>2, <2>3, <2>4
  <2>6. QED
    BY <2>1, <2>5 DEF DumpInv
<1>2. CASE UNCHANGED dvars
  BY <1>2 DEF dvars, DumpInv
<1>3. QED
  BY <1>1, <1>2

\* What a key is found under is the surface of a display that has the key.
LEMMA LookupFinds ==
  ASSUME DumpInv, name # <<>>, NEW k
  PROVE  IF \E i \in DOMAIN surfaces : k \in Keys(surfaces[i])
         THEN \E i \in DOMAIN surfaces : k \in Keys(surfaces[i]) /\ Lookup(k) = Surface(surfaces[i].display)
         ELSE Lookup(k) = NoSurface
<1> DEFINE entered == {i \in DOMAIN surfaces : k \in Keys(surfaces[i])}
<1>1. CASE entered = {}
  BY <1>1 DEF Lookup
<1>2. CASE entered # {}
  <2>1. entered \in SUBSET Nat
    BY DEF DumpInv
  <2>2. PICK i \in entered : \A j \in entered : i <= j
    BY <1>2, <2>1, LeastNat
  <2>3. Min(entered) \in entered
    <3> HIDE DEF entered
    <3>1. QED
      BY <2>2 DEF Min
  <2>4. Lookup(k) = Surface(surfaces[Min(entered)].display)
    BY <1>2 DEF Lookup
  <2>5. QED
    BY <2>3, <2>4
<1>3. QED
  BY <1>1, <1>2

LEMMA OwnSurfaceStep == DumpInv => OwnSurface
<1> SUFFICES ASSUME DumpInv, name # <<>>, NEW d \in LogicalDisplay, Distinguished(d)
             PROVE  SurfaceOf(d) \in {Surface(d), NoSurface}
  BY DEF OwnSurface
<1>1. /\ name \in [LogicalDisplay -> Name]
      /\ \A i \in DOMAIN surfaces : surfaces[i].display \in LogicalDisplay
  BY DEF DumpInv
<1>2. \A i \in DOMAIN surfaces : UniqueId(d) \in Keys(surfaces[i]) => surfaces[i].display = d
  BY <1>1, KeyAssumption DEF Keys, UniqueId
<1>3. Lookup(UniqueId(d)) \in {Surface(d), NoSurface}
  BY <1>2, LookupFinds
<1>4. CASE d \in tagged /\ Lookup(UniqueId(d)) # NoSurface
  BY <1>3, <1>4 DEF SurfaceOf
<1>5. CASE ~ (d \in tagged /\ Lookup(UniqueId(d)) # NoSurface)
  <2>1. \A e \in LogicalDisplay : name[e] = name[d] => e = d
    <3>1. ASSUME d \in tagged, NEW i \in DOMAIN surfaces, surfaces[i] = [display |-> d, tagged |-> TRUE] PROVE FALSE
      <4>1. UniqueId(d) \in Keys(surfaces[i])
        BY <3>1 DEF Keys
      <4>2. PICK j \in DOMAIN surfaces : UniqueId(d) \in Keys(surfaces[j]) /\ Lookup(UniqueId(d)) = Surface(surfaces[j].display)
        BY <4>1, LookupFinds
      <4>3. Lookup(UniqueId(d)) = Surface(d)
        BY <1>2, <4>2
      <4>4. QED
        BY <1>5, <3>1, <4>3, KeyAssumption
    <3>2. QED
      BY <3>1 DEF Distinguished
  <2>2. \A i \in DOMAIN surfaces : name[d] \in Keys(surfaces[i]) => surfaces[i].display = d
    BY <1>1, <2>1, KeyAssumption DEF Keys
  <2>3. Lookup(name[d]) \in {Surface(d), NoSurface}
    BY <2>2, LookupFinds
  <2>4. SurfaceOf(d) = Lookup(name[d])
    BY <1>5 DEF SurfaceOf
  <2>5. QED
    BY <2>3, <2>4
<1>6. QED
  BY <1>4, <1>5

\* Whatever the displays, their names and the order of the dump: a display that
\* the dumps tell apart is captured by its own surface or not at all.
THEOREM OwnSurfaceHolds == DumpSpec => []OwnSurface
BY DumpInvInit, DumpInvStep, OwnSurfaceStep, PTL DEF DumpSpec

-----------------------------------------------------------------------------
(* Screens                                                                 *)

\* A screen is a forest with windows at its roots.
Screen ==
  /\ parent \in [Element -> Int]
  /\ \A e \in Element : 0 <= parent[e] /\ parent[e] < e
  /\ shown \subseteq Element
  /\ bounded \subseteq shown
  /\ windows \in [Roots -> [display : Display, package : Package \cup {Unreadable}]]

ScreenInv == parent # <<>> => Screen

LEMMA ScreenInvInit == BlankScreen => ScreenInv
BY DEF BlankScreen, ScreenInv

LEMMA ScreenInvStep == ScreenInv /\ [Draw]_wvars => ScreenInv'
<1> SUFFICES ASSUME ScreenInv, [Draw]_wvars PROVE ScreenInv'
  OBVIOUS
<1>1. CASE Draw
  <2>1. parent' \in [Element -> 0 .. MaxElement - 1] /\ \A e \in Element : parent'[e] < e
    BY <1>1 DEF Draw
  <2>2. parent' \in [Element -> Int] /\ \A e \in Element : 0 <= parent'[e] /\ parent'[e] < e
    BY <2>1, LimitAssumption
  <2>3. shown' \subseteq Element /\ bounded' \subseteq shown'
    BY <1>1 DEF Draw
  <2>4. windows' \in [Roots' -> [display : Display, package : Package \cup {Unreadable}]]
    BY <1>1 DEF Draw, Roots
  <2>5. QED
    BY <2>2, <2>3, <2>4 DEF ScreenInv, Screen
<1>2. CASE UNCHANGED wvars
  BY <1>2 DEF wvars, ScreenInv, Screen, Roots
<1>3. QED
  BY <1>1, <1>2

LEMMA ElementFacts == IsFiniteSet(Element) /\ \A e \in Element : e \in Nat /\ e >= 1 /\ e <= MaxElement
<1>1. IsFiniteSet(Element)
  BY LimitAssumption, FS_Interval DEF Element
<1>2. QED
  BY <1>1, LimitAssumption DEF Element

\* The least of some elements
LEMMA FirstElement ==
  ASSUME NEW S \in SUBSET Element, S # {}
  PROVE  Min(S) \in S /\ \A e \in S : Min(S) <= e
<1>1. S \in SUBSET Nat
  BY ElementFacts
<1>2. PICK i \in S : \A j \in S : i <= j
  BY <1>1, LeastNat
<1>3. QED
  BY <1>2 DEF Min

\* Elements of greater numbers, or of smaller ones, form an acyclic graph.
LEMMA GreaterIsDag ==
  ASSUME NEW next \in [Element -> SUBSET Element], \A e \in Element : \A c \in next[e] : c > e
  PROVE  Dag(Element, next)
<1>1. ASSUME NEW S \in (SUBSET Element) \ {{}} PROVE \E w \in S : next[w] \cap S = {}
  <2>1. S \in SUBSET Element /\ S # {}
    OBVIOUS
  <2>2. S \in SUBSET Int /\ IsFiniteSet(S)
    BY <2>1, ElementFacts, FS_Subset
  <2>3. Max(S) \in S /\ \A x \in S : x <= Max(S)
    BY <2>1, <2>2, MaxProperty
  <2>4. PICK w \in S : \A x \in S : x <= w
    BY <2>3
  <2>5. ASSUME NEW c \in next[w] \cap S PROVE FALSE
    <3>1. c > w /\ c <= w /\ c \in Nat /\ w \in Nat
      BY <2>1, <2>4, ElementFacts
    <3>2. QED
      BY <3>1
  <2>6. QED
    BY <2>5
<1>2. QED
  BY <1>1, ElementFacts DEF Dag

LEMMA SmallerIsDag ==
  ASSUME NEW next \in [Element -> SUBSET Element], \A e \in Element : \A c \in next[e] : c < e
  PROVE  Dag(Element, next)
<1>1. ASSUME NEW S \in (SUBSET Element) \ {{}} PROVE \E w \in S : next[w] \cap S = {}
  <2>1. S \in SUBSET Element /\ S # {}
    OBVIOUS
  <2>2. PICK w \in S : \A x \in S : w <= x
    BY <2>1, FirstElement
  <2>3. ASSUME NEW c \in next[w] \cap S PROVE FALSE
    <3>1. c < w /\ w <= c /\ c \in Nat /\ w \in Nat
      BY <2>1, <2>2, ElementFacts
    <3>2. QED
      BY <3>1
  <2>4. QED
    BY <2>3
<1>2. QED
  BY <1>1, ElementFacts DEF Dag

-----------------------------------------------------------------------------
(* Ancestors                                                               *)

LEMMA ParentFacts ==
  ASSUME Screen, NEW e \in Element
  PROVE  parent[e] \in Nat /\ parent[e] < e /\ (parent[e] # 0 => parent[e] \in Element)
<1>1. parent[e] \in Int /\ 0 <= parent[e] /\ parent[e] < e
  BY DEF Screen
<1>2. e \in Nat /\ e <= MaxElement
  BY ElementFacts
<1>3. QED
  BY <1>1, <1>2, LimitAssumption DEF Element

LEMMA AncestorEquation ==
  ASSUME Screen
  PROVE  /\ Ancestors \in [Element -> SUBSET Element]
         /\ \A e \in Element : Ancestors[e] = {e} \cup (IF parent[e] = 0 THEN {} ELSE Ancestors[parent[e]])
<1> DEFINE Above(e, sets) == {e} \cup (IF parent[e] = 0 THEN {} ELSE sets[parent[e]])
           next == [e \in Element |-> {c \in Element : c = parent[e]}]
           F == [e \in Element |-> [g \in [next[e] -> SUBSET Element] |-> Above(e, g)]]
           Solves(f) == f = [e \in Element |-> Above(e, f)]
<1>1. \A e \in Element : parent[e] # 0 => parent[e] \in next[e]
  <2>1. \A e \in Element : parent[e] # 0 => parent[e] \in Element
    BY ParentFacts
  <2>2. QED
    BY <2>1
<1>2. ASSUME NEW e \in Element, NEW g, parent[e] # 0 => g[parent[e]] \subseteq Element
      PROVE  Above(e, g) \subseteq Element
  BY <1>2
<1>3. \A e \in Element : \A g \in [next[e] -> SUBSET Element] : F[e][g] = Above(e, g)
  OBVIOUS
<1>4. next \in [Element -> SUBSET Element] /\ \A e \in Element : \A c \in next[e] : c < e
  BY DEF Screen
<1>5. Dag(Element, next)
  BY <1>4, SmallerIsDag
<1>6. \A e \in Element : \A c \in next[e] : c = parent[e]
  OBVIOUS
<1> HIDE DEF F, next
<1>7. Makes(F, Element, next, SUBSET Element)
  <2>1. ASSUME NEW e \in Element, NEW g \in [next[e] -> SUBSET Element] PROVE F[e][g] \in SUBSET Element
    <3>1. parent[e] # 0 => g[parent[e]] \subseteq Element
      BY <1>1
    <3> HIDE DEF Above
    <3>2. QED
      BY <1>2, <1>3, <3>1
  <2>2. QED
    BY <2>1 DEF Makes
<1>8. PICK f \in [Element -> SUBSET Element] : Solution(f, F, Element, next)
  BY <1>5, <1>7, Recursion, Zenon
<1>9. ASSUME NEW e \in Element PROVE f[e] = Above(e, f)
  <2> DEFINE g == [v \in next[e] |-> f[v]]
  <2>1. next[e] \subseteq Element
    BY <1>4
  <2>2. g \in [next[e] -> SUBSET Element]
    BY <2>1
  <2>3. parent[e] # 0 => g[parent[e]] = f[parent[e]]
    BY <1>1
  <2>4. f[e] = F[e][g]
    BY <1>8 DEF Solution
  <2> HIDE DEF g
  <2>5. F[e][g] = Above(e, g)
    BY <1>3, <2>2
  <2>6. QED
    BY <2>3, <2>4, <2>5
<1>10. Solves(f)
  <2> HIDE DEF Above
  <2>1. QED
    BY <1>9
<1>11. Ancestors = CHOOSE r : Solves(r)
  BY DEF Ancestors
<1>12. Solves(Ancestors)
  <2> HIDE DEF Solves
  <2>1. QED
    BY <1>10, <1>11
<1>13. \A e \in Element : Ancestors[e] = Above(e, Ancestors)
  <2> HIDE DEF Above
  <2>1. QED
    BY <1>12
<1>14. Ancestors = [e \in Element |-> Ancestors[e]]
  <2> HIDE DEF Above
  <2>1. QED
    BY <1>12, <1>13
<1>15. \A e \in Element : Ancestors[e] \subseteq Element
  <2> DEFINE Bad == {e \in Element : ~ (Ancestors[e] \subseteq Element)}
  <2>1. ASSUME Bad # {} PROVE FALSE
    <3>1. PICK e \in Bad : next[e] \cap Bad = {}
      BY <1>5, <2>1 DEF Dag
    <3>2. parent[e] # 0 => parent[e] \in Element /\ parent[e] \notin Bad
      BY <1>1, <1>4, <3>1
    <3>3. parent[e] # 0 => Ancestors[parent[e]] \subseteq Element
      BY <3>2
    <3> HIDE DEF Above
    <3>4. Ancestors[e] \subseteq Element
      BY <1>2, <1>13, <3>3
    <3>5. QED
      BY <3>4
  <2>2. QED
    BY <2>1
<1>16. QED
  BY <1>13, <1>14, <1>15

\* An ancestor has a smaller number.
LEMMA AncestorSmaller ==
  ASSUME Screen, NEW y \in Element, NEW a \in Ancestors[y]
  PROVE  a \in Element /\ a <= y
<1> DEFINE Bad == {x \in Element : \E b \in Ancestors[x] : ~ (b <= x)}
<1>1. ASSUME Bad # {} PROVE FALSE
  <2>1. Bad \in SUBSET Element
    OBVIOUS
  <2>2. PICK x \in Bad : \A z \in Bad : x <= z
    BY <1>1, <2>1, FirstElement
  <2>3. PICK b \in Ancestors[x] : ~ (b <= x)
    OBVIOUS
  <2>4. x \in Element /\ x \in Nat
    BY ElementFacts
  <2>5. b # x /\ parent[x] # 0 /\ b \in Ancestors[parent[x]]
    BY <2>3, <2>4, AncestorEquation
  <2>6. parent[x] \in Element /\ parent[x] \in Nat /\ parent[x] < x
    BY <2>4, <2>5, ParentFacts
  <2>7. parent[x] \notin Bad
    BY <2>2, <2>4, <2>6
  <2>8. b <= parent[x] /\ b \in Nat
    BY <2>5, <2>6, <2>7, AncestorEquation, ElementFacts
  <2>9. QED
    BY <2>3, <2>4, <2>6, <2>8
<1>2. y \notin Bad
  BY <1>1
<1>3. QED
  BY <1>2, AncestorEquation

\* What an element contains is itself and what its children contain.
LEMMA ContainedByChild ==
  ASSUME Screen, NEW e \in Element, NEW y \in Element
  PROVE  e \in Ancestors[y] <=> y = e \/ \E c \in Children(e) : c \in Ancestors[y]
<1> DEFINE Right(x) == e \in Ancestors[x] <=> x = e \/ \E c \in Children(e) : c \in Ancestors[x]
           Bad == {x \in Element : ~ Right(x)}
<1>1. ASSUME Bad # {} PROVE FALSE
  <2>1. Bad \in SUBSET Element
    OBVIOUS
  <2>2. PICK x \in Bad : \A z \in Bad : x <= z
    BY <1>1, <2>1, FirstElement
  <2>3. x \in Element /\ x \in Nat /\ ~ Right(x)
    BY ElementFacts
  <2> DEFINE p == parent[x]
  <2>4. Ancestors[x] = {x} \cup (IF p = 0 THEN {} ELSE Ancestors[p])
    BY <2>3, AncestorEquation
  <2>5. x \in Children(e) <=> p = e
    BY <2>3 DEF Children
  <2>6. CASE p = 0
    <3>1. e # 0
      BY ElementFacts
    <3>2. Right(x)
      BY <2>4, <2>5, <2>6, <3>1
    <3>3. QED
      BY <2>3, <3>2
  <2>7. CASE p # 0
    <3>1. p \in Element /\ p \in Nat /\ p < x
      BY <2>3, <2>7, ParentFacts
    <3>2. Right(p)
      BY <2>2, <2>3, <3>1
    <3>3. p \in Ancestors[p]
      BY <3>1, AncestorEquation
    <3>4. Ancestors[x] = {x} \cup Ancestors[p]
      BY <2>4, <2>7
    <3> HIDE DEF p
    <3>5. Right(x)
      BY <2>5, <3>2, <3>3, <3>4
    <3>6. QED
      BY <2>3, <3>5
  <2>8. QED
    BY <2>6, <2>7
<1>2. y \notin Bad
  BY <1>1
<1>3. QED
  BY <1>2

\* No two children of one parent contain the same element.
LEMMA OneBranch ==
  ASSUME Screen, NEW y \in Element, NEW a \in Ancestors[y], NEW b \in Ancestors[y], parent[a] = parent[b]
  PROVE  a = b
<1> DEFINE Bad == {x \in Element : \E c, d \in Ancestors[x] : parent[c] = parent[d] /\ c # d}
<1>1. ASSUME Bad # {} PROVE FALSE
  <2>1. Bad \in SUBSET Element
    OBVIOUS
  <2>2. PICK x \in Bad : \A z \in Bad : x <= z
    BY <1>1, <2>1, FirstElement
  <2>3. PICK c \in Ancestors[x], d \in Ancestors[x] : parent[c] = parent[d] /\ c # d
    OBVIOUS
  <2>4. x \in Element /\ x \in Nat
    BY ElementFacts
  <2>5. parent[x] # 0
    BY <2>3, <2>4, AncestorEquation
  <2>6. Ancestors[x] = {x} \cup Ancestors[parent[x]]
    BY <2>4, <2>5, AncestorEquation
  <2>7. parent[x] \in Element /\ parent[x] \in Nat /\ parent[x] < x
    BY <2>4, <2>5, ParentFacts
  <2>8. parent[x] \notin Bad
    BY <2>2, <2>4, <2>7
  <2>9. ASSUME NEW f \in Ancestors[parent[x]], parent[f] = parent[x] PROVE FALSE
    <3>1. f \in Element /\ f <= parent[x]
      BY <2>7, AncestorSmaller
    <3>2. parent[f] < f /\ f \in Nat
      BY <3>1, ParentFacts, ElementFacts
    <3>3. QED
      BY <2>7, <2>9, <3>1, <3>2
  <2>10. ~ (c \in Ancestors[parent[x]] /\ d \in Ancestors[parent[x]])
    BY <2>3, <2>7, <2>8
  <2>11. CASE c = x
    <3>1. d \in Ancestors[parent[x]] /\ parent[d] = parent[x]
      BY <2>3, <2>6, <2>11
    <3>2. QED
      BY <2>9, <3>1
  <2>12. CASE d = x
    <3>1. c \in Ancestors[parent[x]] /\ parent[c] = parent[x]
      BY <2>3, <2>6, <2>12
    <3>2. QED
      BY <2>9, <3>1
  <2>13. QED
    BY <2>6, <2>10, <2>11, <2>12
<1>2. y \notin Bad
  BY <1>1
<1>3. QED
  BY <1>2

-----------------------------------------------------------------------------
(* The bridge                                                              *)

Answers == [Seq(Element) -> Seq(Element)]

\* One call of appendNodes and the loop after it, if walk says what the calls it makes do
Call(limit, e, walk, out) ==
  IF Len(out) >= limit THEN out
  ELSE LET own == IF e \in shown THEN Append(out, e) ELSE out
           below == IF Children(e) = {} THEN own ELSE walk[Min(Children(e))][own]
       IN  IF Later(e) = {} THEN below ELSE walk[Min(Later(e))][below]

\* the calls made for an element are for elements of greater numbers
Called(e) == {c \in Element : (Children(e) # {} /\ c = Min(Children(e))) \/ (Later(e) # {} /\ c = Min(Later(e)))}

LEMMA CalledFacts ==
  ASSUME Screen, NEW e \in Element
  PROVE  /\ Children(e) # {} => Min(Children(e)) \in Called(e) /\ Min(Children(e)) \in Children(e)
         /\ Later(e) # {} => Min(Later(e)) \in Called(e) /\ Min(Later(e)) \in Later(e)
         /\ Called(e) \subseteq Element
         /\ \A c \in Called(e) : c > e
<1>1. Children(e) \in SUBSET Element /\ Later(e) \in SUBSET Element
  BY DEF Children, Later
<1>2. Children(e) # {} => Min(Children(e)) \in Children(e)
  BY <1>1, FirstElement
<1>3. Later(e) # {} => Min(Later(e)) \in Later(e)
  BY <1>1, FirstElement
<1>4. \A c \in Children(e) : c > e
  <2>1. ASSUME NEW c \in Children(e) PROVE c > e
    <3>1. c \in Element /\ parent[c] = e
      BY DEF Children
    <3>2. e < c /\ c \in Nat /\ e \in Nat
      BY <3>1, ParentFacts, ElementFacts
    <3>3. QED
      BY <3>2
  <2>2. QED
    BY <2>1
<1>5. \A c \in Later(e) : c > e
  BY DEF Later
<1>6. QED
  BY <1>1, <1>2, <1>3, <1>4, <1>5 DEF Called

LEMMA CallAnswers ==
  ASSUME Screen, NEW limit, NEW e \in Element, NEW walk, \A c \in Called(e) : walk[c] \in Answers,
         NEW out \in Seq(Element)
  PROVE  Call(limit, e, walk, out) \in Seq(Element)
<1> DEFINE own == IF e \in shown THEN Append(out, e) ELSE out
           below == IF Children(e) = {} THEN own ELSE walk[Min(Children(e))][own]
           after == IF Later(e) = {} THEN below ELSE walk[Min(Later(e))][below]
<1>1. own \in Seq(Element)
  OBVIOUS
<1> HIDE DEF own
<1>2. below \in Seq(Element)
  BY <1>1, CalledFacts DEF Answers
<1> HIDE DEF below
<1>3. after \in Seq(Element)
  BY <1>2, CalledFacts DEF Answers
<1>4. Call(limit, e, walk, out) = IF Len(out) >= limit THEN out ELSE after
  BY DEF Call, own, below
<1>5. QED
  BY <1>3, <1>4

\* Two walks that agree on the calls make the same of an element.
LEMMA CallSame ==
  ASSUME Screen, NEW limit, NEW e \in Element, NEW walk, NEW other, \A c \in Called(e) : walk[c] = other[c],
         NEW out
  PROVE  Call(limit, e, walk, out) = Call(limit, e, other, out)
<1>1. Children(e) # {} => walk[Min(Children(e))] = other[Min(Children(e))]
  BY CalledFacts
<1>2. Later(e) # {} => walk[Min(Later(e))] = other[Min(Later(e))]
  BY CalledFacts
<1>3. QED
  BY <1>1, <1>2 DEF Call

\* appendNodes comes to an end, whatever it is called for.
LEMMA WalkEquation ==
  ASSUME Screen, NEW limit
  PROVE  /\ AppendNodes(limit) \in [Element -> Answers]
         /\ \A e \in Element : \A out \in Seq(Element) :
              AppendNodes(limit)[e][out] = Call(limit, e, AppendNodes(limit), out)
<1> DEFINE next == [e \in Element |-> Called(e)]
           F == [e \in Element |-> [g \in [next[e] -> Answers] |-> [out \in Seq(Element) |-> Call(limit, e, g, out)]]]
           Solves(f) == f = [e \in Element |-> [out \in Seq(Element) |-> Call(limit, e, f, out)]]
<1>1. next \in [Element -> SUBSET Element] /\ \A e \in Element : next[e] = Called(e)
  BY CalledFacts
<1>2. \A e \in Element : \A g \in [next[e] -> Answers] : F[e][g] = [out \in Seq(Element) |-> Call(limit, e, g, out)]
  OBVIOUS
<1> HIDE DEF F, next
<1>3. Dag(Element, next)
  <2>1. \A e \in Element : \A c \in next[e] : c > e
    BY <1>1, CalledFacts
  <2>2. QED
    BY <1>1, <2>1, GreaterIsDag
<1>4. ASSUME NEW e \in Element, NEW g, \A c \in Called(e) : g[c] \in Answers
      PROVE  [out \in Seq(Element) |-> Call(limit, e, g, out)] \in Answers
  <2>1. \A out \in Seq(Element) : Call(limit, e, g, out) \in Seq(Element)
    BY <1>4, CallAnswers
  <2>2. QED
    BY <2>1 DEF Answers
<1>5. Makes(F, Element, next, Answers)
  <2>1. ASSUME NEW e \in Element, NEW g \in [next[e] -> Answers] PROVE F[e][g] \in Answers
    <3>1. \A c \in Called(e) : g[c] \in Answers
      BY <1>1
    <3>2. [out \in Seq(Element) |-> Call(limit, e, g, out)] \in Answers
      BY <1>4, <3>1
    <3>3. F[e][g] = [out \in Seq(Element) |-> Call(limit, e, g, out)]
      BY <1>2
    <3>4. QED
      BY <3>2, <3>3, Zenon
  <2>2. QED
    BY <2>1 DEF Makes
<1>6. PICK f \in [Element -> Answers] : Solution(f, F, Element, next)
  BY <1>3, <1>5, Recursion, Zenon
<1>7. ASSUME NEW e \in Element PROVE f[e] = [out \in Seq(Element) |-> Call(limit, e, f, out)]
  <2> DEFINE g == [v \in next[e] |-> f[v]]
  <2>1. g \in [next[e] -> Answers]
    BY <1>1
  <2>2. \A c \in Called(e) : g[c] = f[c]
    BY <1>1
  <2>3. f[e] = F[e][g]
    BY <1>6 DEF Solution
  <2> HIDE DEF g
  <2>4. F[e][g] = [out \in Seq(Element) |-> Call(limit, e, g, out)]
    BY <1>2, <2>1
  <2>5. \A out : Call(limit, e, g, out) = Call(limit, e, f, out)
    BY <2>2, CallSame
  <2>6. QED
    BY <2>3, <2>4, <2>5
<1>8. Solves(f)
  BY <1>7
<1>9. AppendNodes(limit) = CHOOSE r : Solves(r)
  BY DEF AppendNodes, Call
<1>10. Solves(AppendNodes(limit))
  <2> HIDE DEF Solves
  <2>1. QED
    BY <1>8, <1>9
<1> DEFINE walk == AppendNodes(limit)
<1>11. walk = [e \in Element |-> [out \in Seq(Element) |-> Call(limit, e, walk, out)]]
  BY <1>10
<1> HIDE DEF walk, Solves
<1>12. \A e \in Element : walk[e] = [out \in Seq(Element) |-> Call(limit, e, walk, out)]
  BY <1>11
<1>13. walk = [e \in Element |-> walk[e]]
  BY <1>11, <1>12
<1>14. \A e \in Element : walk[e] \in Answers
  <2> DEFINE Bad == {e \in Element : walk[e] \notin Answers}
  <2>1. ASSUME Bad # {} PROVE FALSE
    <3>1. PICK e \in Bad : next[e] \cap Bad = {}
      BY <1>3, <2>1 DEF Dag
    <3>2. \A c \in Called(e) : walk[c] \in Answers
      BY <1>1, <3>1
    <3>3. [out \in Seq(Element) |-> Call(limit, e, walk, out)] \in Answers
      BY <1>4, <3>2
    <3>4. walk[e] = [out \in Seq(Element) |-> Call(limit, e, walk, out)]
      BY <1>12
    <3>5. walk[e] \in Answers
      BY <3>3, <3>4, Zenon
    <3>6. QED
      BY <3>5
  <2>2. QED
    BY <2>1
<1>15. QED
  <2>1. \A e \in Element : \A out \in Seq(Element) : walk[e][out] = Call(limit, e, walk, out)
    BY <1>12
  <2>2. walk \in [Element -> Answers]
    BY <1>13, <1>14
  <2>3. QED
    BY <2>1, <2>2 DEF walk

\* The elements that some of S contain
Branches(S) == {y \in Element : \E e \in S : e \in Ancestors[y]}
\* What a call may add
Scope(e) == Branches({e} \cup Later(e))

\* r is the answer out continued by shown elements of S in order, and if one of S
\* is left out the limit is reached with those before it.
Continues(limit, out, r, S) ==
  /\ out \in Seq(Element) /\ r \in Seq(Element)
  /\ Len(out) <= Len(r) /\ Len(r) <= limit
  /\ \A i \in 1 .. Len(out) : r[i] = out[i]
  /\ \A i \in 1 .. Len(r) : i > Len(out) => r[i] \in shown /\ r[i] \in S
  /\ \A i, j \in 1 .. Len(r) : i > Len(out) /\ i < j => Precedes(r[i], r[j])
  /\ \A y \in S : y \in shown =>
       \/ \E i \in 1 .. Len(r) : i > Len(out) /\ r[i] = y
       \/ Len(r) = limit /\ \A i \in 1 .. Len(r) : i > Len(out) => Precedes(r[i], y)

LEMMA ContinuesEnough ==
  ASSUME NEW limit \in Nat, NEW out \in Seq(Element), Len(out) <= limit, NEW S,
         Len(out) = limit \/ S \cap shown = {}
  PROVE  Continues(limit, out, out, S)
BY DEF Continues

LEMMA ContinuesOne ==
  ASSUME NEW limit \in Nat, NEW out \in Seq(Element), Len(out) < limit, NEW e \in Element, e \in shown
  PROVE  Continues(limit, out, Append(out, e), {e})
<1> DEFINE r == Append(out, e)
<1>1. r \in Seq(Element) /\ Len(r) = Len(out) + 1 /\ r[Len(out) + 1] = e /\ Len(out) \in Nat
  OBVIOUS
<1>2. \A i \in 1 .. Len(out) : r[i] = out[i]
  OBVIOUS
<1> HIDE DEF r
<1>3. \A i \in 1 .. Len(r) : i > Len(out) => i = Len(out) + 1
  BY <1>1
<1>4. \A i \in 1 .. Len(r) : i > Len(out) => r[i] \in shown /\ r[i] \in {e}
  BY <1>1, <1>3
<1>5. \A i, j \in 1 .. Len(r) : i > Len(out) /\ i < j => Precedes(r[i], r[j])
  BY <1>1
<1>6. \E i \in 1 .. Len(r) : i > Len(out) /\ r[i] = e
  BY <1>1
<1>7. Len(out) <= Len(r) /\ Len(r) <= limit
  BY <1>1
<1>8. Continues(limit, out, r, {e})
  BY <1>1, <1>2, <1>4, <1>5, <1>6, <1>7 DEF Continues
<1>9. QED
  BY <1>8 DEF r

\* One continuation after another, if what the second may add comes after what
\* the first may.
LEMMA ContinuesBoth ==
  ASSUME NEW limit \in Nat, NEW out, NEW mid, NEW r, NEW S, NEW T,
         Continues(limit, out, mid, S), Continues(limit, mid, r, T),
         \A x \in S : \A y \in T : Precedes(x, y)
  PROVE  Continues(limit, out, r, S \cup T)
<1>1. /\ out \in Seq(Element) /\ mid \in Seq(Element) /\ r \in Seq(Element)
      /\ Len(out) \in Nat /\ Len(mid) \in Nat /\ Len(r) \in Nat
      /\ Len(out) <= Len(mid) /\ Len(mid) <= Len(r) /\ Len(r) <= limit
  BY DEF Continues
<1>2. /\ \A i \in 1 .. Len(out) : mid[i] = out[i]
      /\ \A i \in 1 .. Len(mid) : r[i] = mid[i]
  BY DEF Continues
<1>3. /\ \A i \in 1 .. Len(mid) : i > Len(out) => mid[i] \in shown /\ mid[i] \in S
      /\ \A i \in 1 .. Len(r) : i > Len(mid) => r[i] \in shown /\ r[i] \in T
  BY DEF Continues
<1>4. /\ \A i, j \in 1 .. Len(mid) : i > Len(out) /\ i < j => Precedes(mid[i], mid[j])
      /\ \A i, j \in 1 .. Len(r) : i > Len(mid) /\ i < j => Precedes(r[i], r[j])
  BY DEF Continues
<1>5. \A i \in 1 .. Len(out) : r[i] = out[i]
  BY <1>1, <1>2
<1>6. ASSUME NEW i \in 1 .. Len(r), i > Len(out)
      PROVE  /\ r[i] \in shown
             /\ i <= Len(mid) => r[i] \in S /\ r[i] = mid[i] /\ i \in 1 .. Len(mid)
             /\ i > Len(mid) => r[i] \in T
  <2>1. CASE i <= Len(mid)
    <3>1. i \in 1 .. Len(mid)
      BY <1>1, <2>1
    <3>2. QED
      BY <1>1, <1>2, <1>3, <1>6, <2>1, <3>1
  <2>2. CASE i > Len(mid)
    BY <1>1, <1>3, <2>2
  <2>3. QED
    BY <1>1, <2>1, <2>2
<1>7. ASSUME NEW i \in 1 .. Len(r), NEW j \in 1 .. Len(r), i > Len(out), i < j
      PROVE  Precedes(r[i], r[j])
  <2>1. CASE j <= Len(mid)
    <3>1. i <= Len(mid) /\ j > Len(out)
      BY <1>1, <1>7, <2>1
    <3>2. QED
      BY <1>4, <1>6, <1>7, <2>1, <3>1
  <2>2. CASE j > Len(mid) /\ i <= Len(mid)
    <3>1. j > Len(out)
      BY <1>1, <2>2
    <3>2. r[i] \in S /\ r[j] \in T
      BY <1>6, <1>7, <2>2, <3>1
    <3>3. QED
      BY <3>2
  <2>3. CASE i > Len(mid)
    BY <1>4, <1>7, <2>3
  <2>4. QED
    BY <1>1, <2>1, <2>2, <2>3
<1>8. ASSUME NEW y \in S, y \in shown
      PROVE  \/ \E i \in 1 .. Len(r) : i > Len(out) /\ r[i] = y
             \/ Len(r) = limit /\ \A i \in 1 .. Len(r) : i > Len(out) => Precedes(r[i], y)
  <2>1. CASE \E i \in 1 .. Len(mid) : i > Len(out) /\ mid[i] = y
    <3>1. PICK i \in 1 .. Len(mid) : i > Len(out) /\ mid[i] = y
      BY <2>1
    <3>2. i \in 1 .. Len(r) /\ r[i] = y
      BY <1>1, <1>2, <3>1
    <3>3. QED
      BY <3>1, <3>2
  <2>2. CASE Len(mid) = limit /\ \A i \in 1 .. Len(mid) : i > Len(out) => Precedes(mid[i], y)
    <3>1. Len(r) = limit /\ Len(r) = Len(mid)
      BY <1>1, <2>2
    <3>2. \A i \in 1 .. Len(r) : i > Len(out) => Precedes(r[i], y)
      BY <1>2, <2>2, <3>1
    <3>3. QED
      BY <3>1, <3>2
  <2>3. QED
    BY <1>8, <2>1, <2>2 DEF Continues
<1>9. ASSUME NEW y \in T, y \in shown
      PROVE  \/ \E i \in 1 .. Len(r) : i > Len(out) /\ r[i] = y
             \/ Len(r) = limit /\ \A i \in 1 .. Len(r) : i > Len(out) => Precedes(r[i], y)
  <2>1. CASE \E i \in 1 .. Len(r) : i > Len(mid) /\ r[i] = y
    <3>1. PICK i \in 1 .. Len(r) : i > Len(mid) /\ r[i] = y
      BY <2>1
    <3>2. i > Len(out)
      BY <1>1, <3>1
    <3>3. QED
      BY <3>1, <3>2
  <2>2. CASE Len(r) = limit /\ \A i \in 1 .. Len(r) : i > Len(mid) => Precedes(r[i], y)
    <3>1. ASSUME NEW i \in 1 .. Len(r), i > Len(out) PROVE Precedes(r[i], y)
      <4>1. CASE i > Len(mid)
        BY <2>2, <4>1
      <4>2. CASE i <= Len(mid)
        <5>1. r[i] \in S
          BY <1>6, <3>1, <4>2
        <5>2. QED
          BY <5>1
      <4>3. QED
        BY <1>1, <4>1, <4>2
    <3>2. QED
      BY <2>2, <3>1
  <2>3. QED
    BY <1>9, <2>1, <2>2 DEF Continues
<1>10. \A i \in 1 .. Len(r) : i > Len(out) => r[i] \in shown /\ r[i] \in S \cup T
  BY <1>1, <1>6
<1>11. \A y \in S \cup T : y \in shown =>
         \/ \E i \in 1 .. Len(r) : i > Len(out) /\ r[i] = y
         \/ Len(r) = limit /\ \A i \in 1 .. Len(r) : i > Len(out) => Precedes(r[i], y)
  BY <1>8, <1>9
<1>12. Len(out) <= Len(r) /\ Len(r) <= limit
  BY <1>1
<1>13. QED
  BY <1>1, <1>5, <1>7, <1>10, <1>11, <1>12 DEF Continues

\* The first child and those after it are the children; the next sibling and those
\* after it are the later ones.
LEMMA FirstAndLater ==
  ASSUME Screen, NEW e \in Element, NEW S \in {Children(e), Later(e)}, S # {}
  PROVE  {Min(S)} \cup Later(Min(S)) = S /\ Min(S) \in Element
<1> DEFINE m == Min(S)
<1>1. S \in SUBSET Element
  BY DEF Children, Later
<1>2. m \in S /\ (\A x \in S : m <= x) /\ m \in Element
  BY <1>1, FirstElement
<1> HIDE DEF m
<1>3. \A x \in Element : x \in Nat
  BY ElementFacts
<1>4. e # 0
  BY ElementFacts
<1>5. CASE S = Children(e)
  <2>1. parent[m] = e
    BY <1>2, <1>5 DEF Children
  <2>2. \A x \in Element : x \in Later(m) <=> x \in S /\ x > m
    BY <1>4, <1>5, <2>1 DEF Later, Children
  <2>3. Later(m) \subseteq Element
    BY DEF Later
  <2>4. {m} \cup Later(m) = S
    <3>1. ASSUME NEW x \in S PROVE x = m \/ x \in Later(m)
      BY <1>1, <1>2, <1>3, <2>2
    <3>2. QED
      BY <1>2, <2>2, <2>3, <3>1
  <2>5. QED
    BY <1>2, <2>4 DEF m
<1>6. CASE S = Later(e)
  <2>1. parent[m] = parent[e] /\ parent[e] # 0 /\ m > e
    BY <1>2, <1>6 DEF Later
  <2>2. ASSUME NEW x \in Element PROVE x \in Later(m) <=> x \in S /\ x > m
    <3>1. x > m => x > e
      BY <1>2, <1>3, <2>1
    <3>2. QED
      BY <1>6, <2>1, <3>1 DEF Later
  <2>3. Later(m) \subseteq Element
    BY DEF Later
  <2>4. {m} \cup Later(m) = S
    <3>1. ASSUME NEW x \in S PROVE x = m \/ x \in Later(m)
      BY <1>1, <1>2, <1>3, <2>2
    <3>2. QED
      BY <1>2, <2>2, <2>3, <3>1
  <2>5. QED
    BY <1>2, <2>4 DEF m
<1>7. QED
  BY <1>5, <1>6

\* The three parts of what a call may add, each before the next
Below(e) == IF Children(e) = {} THEN {} ELSE Scope(Min(Children(e)))
Beside(e) == IF Later(e) = {} THEN {} ELSE Scope(Min(Later(e)))

LEMMA ScopeParts ==
  ASSUME Screen, NEW e \in Element
  PROVE  /\ Scope(e) = ({e} \cup Below(e)) \cup Beside(e)
         /\ \A y \in Below(e) : Precedes(e, y)
         /\ \A x \in {e} \cup Below(e) : \A y \in Beside(e) : Precedes(x, y)
<1>1. Below(e) = Branches(Children(e))
  <2>1. CASE Children(e) = {}
    BY <2>1 DEF Below, Branches
  <2>2. CASE Children(e) # {}
    BY <2>2, FirstAndLater DEF Below, Scope
  <2>3. QED
    BY <2>1, <2>2
<1>2. Beside(e) = Branches(Later(e))
  <2>1. CASE Later(e) = {}
    BY <2>1 DEF Beside, Branches
  <2>2. CASE Later(e) # {}
    BY <2>2, FirstAndLater DEF Beside, Scope
  <2>3. QED
    BY <2>1, <2>2
<1>3. \A y \in Element : e \in Ancestors[y] <=> y \in {e} \cup Below(e)
  BY <1>1, ContainedByChild DEF Branches
<1>4. {e} \cup Below(e) \subseteq Element
  BY <1>1 DEF Branches
<1>5. Scope(e) = ({e} \cup Below(e)) \cup Beside(e)
  <2>1. \A y \in Element : y \in Scope(e) <=> e \in Ancestors[y] \/ y \in Beside(e)
    BY <1>2 DEF Scope, Branches
  <2>2. Scope(e) \subseteq Element /\ Beside(e) \subseteq Element
    BY <1>2 DEF Scope, Branches
  <2>3. QED
    BY <1>3, <1>4, <2>1, <2>2
<1>6. ASSUME NEW y \in Below(e) PROVE Precedes(e, y)
  <2>1. PICK c \in Children(e) : c \in Ancestors[y]
    BY <1>1, <1>6 DEF Branches
  <2>2. y \in Element /\ e \in Ancestors[y]
    BY <1>3, <1>4, <1>6
  <2>3. c \in Element /\ parent[c] = e
    BY <2>1 DEF Children
  <2>4. e < c /\ c <= y /\ e \in Nat /\ c \in Nat /\ y \in Nat
    BY <2>1, <2>2, <2>3, AncestorSmaller, ParentFacts, ElementFacts
  <2>5. e # y
    BY <2>4
  <2>6. QED
    BY <2>2, <2>5 DEF Precedes
<1>7. ASSUME NEW x \in {e} \cup Below(e), NEW y \in Beside(e) PROVE Precedes(x, y)
  <2>1. x \in Element /\ e \in Ancestors[x]
    BY <1>3, <1>4
  <2>2. y \in Element /\ \E l \in Later(e) : l \in Ancestors[y]
    BY <1>2, <1>7 DEF Branches
  <2>3. PICK l \in Later(e) : l \in Ancestors[y]
    BY <2>2
  <2>4. l \in Element /\ parent[e] = parent[l] /\ l > e
    BY <2>3 DEF Later
  <2>5. l # e
    BY <2>4, ElementFacts
  <2>6. e \notin Ancestors[y]
    BY <2>2, <2>3, <2>4, <2>5, OneBranch
  <2>7. l \notin Ancestors[x]
    BY <2>1, <2>4, <2>5, OneBranch
  <2>8. e < l
    BY <2>4, ElementFacts
  <2>9. QED
    BY <2>1, <2>3, <2>4, <2>6, <2>7, <2>8 DEF Precedes
<1>8. QED
  BY <1>5, <1>6, <1>7

\* A walk that starts at e continues any answer so.
Walks(limit, e) ==
  \A out \in Seq(Element) : Len(out) <= limit => Continues(limit, out, AppendNodes(limit)[e][out], Scope(e))

LEMMA WalkContinues ==
  ASSUME Screen, NEW limit \in Nat, NEW e \in Element, \A c \in Called(e) : Walks(limit, c)
  PROVE  Walks(limit, e)
<1> DEFINE walk == AppendNodes(limit)
<1> SUFFICES ASSUME NEW out \in Seq(Element), Len(out) <= limit
             PROVE  Continues(limit, out, walk[e][out], Scope(e))
  BY DEF Walks
<1> DEFINE own == IF e \in shown THEN Append(out, e) ELSE out
           below == IF Children(e) = {} THEN own ELSE walk[Min(Children(e))][own]
           after == IF Later(e) = {} THEN below ELSE walk[Min(Later(e))][below]
<1>1. walk[e][out] = IF Len(out) >= limit THEN out ELSE after
  BY WalkEquation DEF Call
<1>2. \A c \in Called(e) : \A o \in Seq(Element) : Len(o) <= limit => Continues(limit, o, walk[c][o], Scope(c))
  BY DEF Walks
<1>3. Len(out) \in Nat
  OBVIOUS
<1> HIDE DEF walk
<1>4. CASE Len(out) >= limit
  <2>1. Len(out) = limit
    BY <1>3, <1>4
  <2>2. QED
    BY <1>1, <1>4, <2>1, ContinuesEnough
<1>5. CASE ~ (Len(out) >= limit)
  <2>1. Len(out) < limit
    BY <1>3, <1>5
  <2>2. Continues(limit, out, own, {e})
    <3>1. CASE e \in shown
      BY <2>1, <3>1, ContinuesOne
    <3>2. CASE e \notin shown
      BY <3>2, ContinuesEnough
    <3>3. QED
      BY <3>1, <3>2
  <2> HIDE DEF own
  <2>3. own \in Seq(Element) /\ Len(own) <= limit
    BY <2>2 DEF Continues
  <2>4. Continues(limit, own, below, Below(e))
    <3>1. CASE Children(e) = {}
      BY <2>3, <3>1, ContinuesEnough DEF Below
    <3>2. CASE Children(e) # {}
      <4>1. Min(Children(e)) \in Called(e)
        BY <3>2, CalledFacts
      <4>2. QED
        BY <1>2, <2>3, <3>2, <4>1 DEF Below
    <3>3. QED
      BY <3>1, <3>2
  <2> HIDE DEF below
  <2>5. Continues(limit, out, below, {e} \cup Below(e))
    <3>1. \A x \in {e} : \A y \in Below(e) : Precedes(x, y)
      BY ScopeParts
    <3>2. QED
      BY <2>2, <2>4, <3>1, ContinuesBoth
  <2>6. below \in Seq(Element) /\ Len(below) <= limit
    BY <2>5 DEF Continues
  <2>7. Continues(limit, below, after, Beside(e))
    <3>1. CASE Later(e) = {}
      BY <2>6, <3>1, ContinuesEnough DEF Beside
    <3>2. CASE Later(e) # {}
      <4>1. Min(Later(e)) \in Called(e)
        BY <3>2, CalledFacts
      <4>2. QED
        BY <1>2, <2>6, <3>2, <4>1 DEF Beside
    <3>3. QED
      BY <3>1, <3>2
  <2> HIDE DEF after
  <2>8. Continues(limit, out, after, ({e} \cup Below(e)) \cup Beside(e))
    <3>1. \A x \in {e} \cup Below(e) : \A y \in Beside(e) : Precedes(x, y)
      BY ScopeParts
    <3>2. QED
      BY <2>5, <2>7, <3>1, ContinuesBoth
  <2>9. Scope(e) = ({e} \cup Below(e)) \cup Beside(e)
    BY ScopeParts
  <2>10. walk[e][out] = after
    BY <1>1, <1>5
  <2>11. QED
    BY <2>8, <2>9, <2>10
<1>6. QED
  BY <1>4, <1>5

LEMMA AllWalk ==
  ASSUME Screen, NEW limit \in Nat, NEW e \in Element
  PROVE  Walks(limit, e)
<1> DEFINE next == [x \in Element |-> Called(x)]
           Bad == {x \in Element : ~ Walks(limit, x)}
<1>1. next \in [Element -> SUBSET Element] /\ \A x \in Element : \A c \in next[x] : c > x
  BY CalledFacts
<1>2. Dag(Element, next)
  BY <1>1, GreaterIsDag
<1>3. ASSUME Bad # {} PROVE FALSE
  <2>1. PICK x \in Bad : next[x] \cap Bad = {}
    BY <1>2, <1>3 DEF Dag
  <2>2. \A c \in Called(x) : Walks(limit, c)
    BY <2>1, CalledFacts
  <2>3. QED
    BY <2>2, WalkContinues
<1>4. e \notin Bad
  BY <1>3
<1>5. QED
  BY <1>4

\* What the bridge gives is the walk of one window of the app on the display.
LEMMA BridgeWalks ==
  ASSUME Screen, NEW d \in Display, NEW p \in Package, Bridge(d, p, SnapshotLimit).ok
  PROVE  \E r \in Roots :
           /\ windows[r] = [display |-> d, package |-> p]
           /\ Bridge(d, p, SnapshotLimit) = [ok |-> TRUE, display |-> d, package |-> p,
                                             nodes |-> AppendNodes(SnapshotLimit)[r][<<>>]]
<1> DEFINE there == {r \in Roots : windows[r].display = d}
           found == {r \in there : windows[r].package = p}
           first == CHOOSE r \in found : \A o \in found : r <= o
           walked == [ok |-> TRUE, display |-> d, package |-> p, nodes |-> AppendNodes(Clamped(SnapshotLimit))[first][<<>>]]
<1>1. Bridge(d, p, SnapshotLimit) = IF there = {} THEN Error("no_interactive_windows_on_display")
                                    ELSE IF found = {} THEN Error("expected_package_not_found") ELSE walked
  BY DEF Bridge
<1>2. \A reason : Error(reason).ok = FALSE
  BY DEF Error
<1>3. found \in SUBSET Nat
  <2>1. Roots \subseteq Element
    BY DEF Roots
  <2>2. QED
    BY <2>1, ElementFacts
<1>4. \A r \in found : r \in Roots /\ windows[r] = [display |-> d, package |-> p]
  <2>1. \A r \in Roots : windows[r] \in [display : Display, package : Package \cup {Unreadable}]
    BY DEF Screen
  <2>2. QED
    BY <2>1
<1>5. Clamped(SnapshotLimit) = SnapshotLimit
  BY LimitAssumption DEF Clamped
<1> HIDE DEF found, there, walked
<1>6. found # {} /\ Bridge(d, p, SnapshotLimit) = walked
  BY <1>1, <1>2
<1>7. PICK r \in found : \A o \in found : r <= o
  BY <1>3, <1>6, LeastNat
<1>8. first \in found
  BY <1>7
<1> HIDE DEF first
<1>9. QED
  BY <1>4, <1>5, <1>6, <1>8 DEF walked

LEMMA SnapshotIsTopStep == ScreenInv => SnapshotIsTop
<1> SUFFICES ASSUME Screen, NEW d \in Display, NEW p \in Package, Bridge(d, p, SnapshotLimit).ok
             PROVE  LET n == Bridge(d, p, SnapshotLimit).nodes
                        given == {n[i] : i \in DOMAIN n}
                    IN  \E r \in Roots :
                          LET window == {e \in shown : r \in Ancestors[e]}
                          IN  /\ windows[r] = [display |-> d, package |-> p]
                              /\ \A i \in DOMAIN n : \A j \in DOMAIN n : i < j => Precedes(n[i], n[j])
                              /\ given \subseteq window
                              /\ \A e \in window \ given : Len(n) = SnapshotLimit /\ \A g \in given : Precedes(g, e)
  BY DEF ScreenInv, SnapshotIsTop
<1>1. PICK r \in Roots :
        /\ windows[r] = [display |-> d, package |-> p]
        /\ Bridge(d, p, SnapshotLimit) = [ok |-> TRUE, display |-> d, package |-> p,
                                          nodes |-> AppendNodes(SnapshotLimit)[r][<<>>]]
  BY BridgeWalks
<1> DEFINE n == Bridge(d, p, SnapshotLimit).nodes
           given == {n[i] : i \in DOMAIN n}
           window == {e \in shown : r \in Ancestors[e]}
<1>2. n = AppendNodes(SnapshotLimit)[r][<<>>]
  BY <1>1
<1> HIDE DEF n
<1>3. SnapshotLimit \in Nat /\ r \in Element
  BY LimitAssumption DEF Roots
<1>4. Continues(SnapshotLimit, <<>>, n, Scope(r))
  <2>1. Walks(SnapshotLimit, r)
    BY <1>3, AllWalk
  <2>2. <<>> \in Seq(Element) /\ Len(<<>>) <= SnapshotLimit
    BY <1>3
  <2>3. QED
    BY <1>2, <2>1, <2>2 DEF Walks
<1>5. \A y : y \in window <=> y \in shown /\ y \in Scope(r)
  <2>1. Later(r) = {}
    BY DEF Later, Roots
  <2>2. QED
    BY <2>1 DEF Scope, Branches, Screen
<1>6. Len(<<>>) = 0 /\ n \in Seq(Element) /\ DOMAIN n = 1 .. Len(n) /\ \A i \in DOMAIN n : i > 0
  BY <1>4 DEF Continues
<1>7. \A i \in DOMAIN n : \A j \in DOMAIN n : i < j => Precedes(n[i], n[j])
  BY <1>4, <1>6 DEF Continues
<1>8. given \subseteq window
  <2>1. \A i \in DOMAIN n : n[i] \in shown /\ n[i] \in Scope(r)
    BY <1>4, <1>6 DEF Continues
  <2> HIDE DEF window
  <2>2. QED
    BY <1>5, <2>1
<1>9. ASSUME NEW e \in window \ given PROVE Len(n) = SnapshotLimit /\ \A g \in given : Precedes(g, e)
  <2>1. e \in shown /\ e \in Scope(r)
    BY <1>5
  <2>2. ~ \E i \in 1 .. Len(n) : i > Len(<<>>) /\ n[i] = e
    BY <1>6
  <2>3. Len(n) = SnapshotLimit /\ \A i \in 1 .. Len(n) : i > Len(<<>>) => Precedes(n[i], e)
    BY <1>4, <2>1, <2>2 DEF Continues
  <2>4. QED
    BY <1>6, <2>3
<1>10. QED
  BY <1>1, <1>7, <1>8, <1>9 DEF n

\* A snapshot is the top of one window of the app, whatever the screen and
\* however many elements it has.
THEOREM SnapshotIsTopHolds == ScreenSpec => []SnapshotIsTop
BY ScreenInvInit, ScreenInvStep, SnapshotIsTopStep, PTL DEF ScreenSpec

-----------------------------------------------------------------------------
(* Prompts                                                                 *)

UiNode == [index : Nat, element : Element]

\* nodes are what is left of the first m elements of an answer: every element with
\* bounds, in the order of the answer, each with its place for an index.
Filtered(nodes, answer, m) ==
  /\ nodes \in Seq(UiNode)
  /\ \A j \in 1 .. Len(nodes) : nodes[j].index = j - 1
  /\ \A j \in 1 .. Len(nodes) : \E q \in 1 .. m : answer[q] = nodes[j].element
  /\ \A i, j \in 1 .. Len(nodes) : i < j =>
       \E q, r \in 1 .. m : q < r /\ answer[q] = nodes[i].element /\ answer[r] = nodes[j].element
  /\ \A q \in 1 .. m : answer[q] \in bounded => \E j \in 1 .. Len(nodes) : nodes[j].element = answer[q]

\* Leaving elements out of an answer, one after the other
LEMMA FilteredGrows ==
  ASSUME NEW answer \in Seq(Element), NEW m \in Nat, m + 1 <= Len(answer), NEW nodes, Filtered(nodes, answer, m)
  PROVE  Filtered(IF answer[m + 1] \in bounded
                  THEN Append(nodes, [index |-> Len(nodes), element |-> answer[m + 1]]) ELSE nodes,
                  answer, m + 1)
<1>1. nodes \in Seq(UiNode) /\ Len(nodes) \in Nat
  BY DEF Filtered
<1>2. \A q \in 1 .. m + 1 : q \in 1 .. m \/ q = m + 1
  OBVIOUS
<1>3. \A q \in 1 .. m : q \in 1 .. m + 1
  OBVIOUS
<1>4. CASE answer[m + 1] \notin bounded
  <2>1. \A q \in 1 .. m + 1 : answer[q] \in bounded => q \in 1 .. m
    BY <1>2, <1>4
  <2>2. Filtered(nodes, answer, m + 1)
    BY <1>3, <2>1 DEF Filtered
  <2>3. QED
    BY <1>4, <2>2
<1>5. CASE answer[m + 1] \in bounded
  <2> DEFINE last == [index |-> Len(nodes), element |-> answer[m + 1]]
             longer == Append(nodes, last)
  <2>1. last \in UiNode /\ last.index = Len(nodes) /\ last.element = answer[m + 1]
    <3>1. answer[m + 1] \in Element
      OBVIOUS
    <3>2. QED
      BY <1>1, <3>1 DEF UiNode
  <2> HIDE DEF last
  <2>2. /\ longer \in Seq(UiNode)
        /\ Len(longer) = Len(nodes) + 1
        /\ longer[Len(nodes) + 1] = last
        /\ \A j \in 1 .. Len(nodes) : longer[j] = nodes[j]
    BY <1>1, <2>1
  <2> HIDE DEF longer
  <2>3. \A j \in 1 .. Len(longer) : j \in 1 .. Len(nodes) \/ j = Len(nodes) + 1
    BY <1>1, <2>2
  <2>4. \A j \in 1 .. Len(nodes) : j \in 1 .. Len(longer)
    BY <1>1, <2>2
  <2>5. ASSUME NEW j \in 1 .. Len(longer) PROVE longer[j].index = j - 1
    <3>1. CASE j \in 1 .. Len(nodes)
      BY <2>2, <3>1 DEF Filtered
    <3>2. CASE j = Len(nodes) + 1
      <4>1. (Len(nodes) + 1) - 1 = Len(nodes)
        BY <1>1
      <4>2. QED
        BY <2>1, <2>2, <3>2, <4>1
    <3>3. QED
      BY <2>3, <3>1, <3>2
  <2>6. ASSUME NEW j \in 1 .. Len(longer) PROVE \E q \in 1 .. m + 1 : answer[q] = longer[j].element
    <3>1. CASE j \in 1 .. Len(nodes)
      <4>1. PICK q \in 1 .. m : answer[q] = nodes[j].element
        BY <3>1 DEF Filtered
      <4>2. q \in 1 .. m + 1 /\ longer[j] = nodes[j]
        BY <1>3, <2>2, <3>1
      <4>3. QED
        BY <4>1, <4>2
    <3>2. CASE j = Len(nodes) + 1
      <4>1. m + 1 \in 1 .. m + 1
        OBVIOUS
      <4>2. QED
        BY <2>1, <2>2, <3>2, <4>1
    <3>3. QED
      BY <2>3, <3>1, <3>2
  <2>7. ASSUME NEW i \in 1 .. Len(longer), NEW j \in 1 .. Len(longer), i < j
        PROVE  \E q, r \in 1 .. m + 1 : q < r /\ answer[q] = longer[i].element /\ answer[r] = longer[j].element
    <3>1. i \in 1 .. Len(nodes)
      BY <1>1, <2>2, <2>7
    <3>2. CASE j \in 1 .. Len(nodes)
      <4>1. PICK q \in 1 .. m, r \in 1 .. m :
              q < r /\ answer[q] = nodes[i].element /\ answer[r] = nodes[j].element
        BY <2>7, <3>1, <3>2 DEF Filtered
      <4>2. QED
        BY <1>3, <2>2, <3>1, <3>2, <4>1
    <3>3. CASE j = Len(nodes) + 1
      <4>1. PICK q \in 1 .. m : answer[q] = nodes[i].element
        BY <3>1 DEF Filtered
      <4>2. q \in 1 .. m + 1 /\ m + 1 \in 1 .. m + 1 /\ q < m + 1
        OBVIOUS
      <4>3. answer[q] = longer[i].element /\ answer[m + 1] = longer[j].element
        BY <2>1, <2>2, <3>1, <3>3, <4>1
      <4>4. QED
        BY <4>2, <4>3
    <3>4. QED
      BY <2>3, <3>2, <3>3
  <2>8. ASSUME NEW q \in 1 .. m + 1, answer[q] \in bounded
        PROVE  \E j \in 1 .. Len(longer) : longer[j].element = answer[q]
    <3>1. CASE q \in 1 .. m
      <4>1. PICK j \in 1 .. Len(nodes) : nodes[j].element = answer[q]
        BY <2>8, <3>1 DEF Filtered
      <4>2. QED
        BY <2>2, <2>4, <4>1
    <3>2. CASE q = m + 1
      <4>1. Len(nodes) + 1 \in 1 .. Len(longer)
        BY <1>1, <2>2
      <4>2. QED
        BY <2>1, <2>2, <3>2, <4>1
    <3>3. QED
      BY <1>2, <3>1, <3>2
  <2>9. Filtered(longer, answer, m + 1)
    BY <2>2, <2>5, <2>6, <2>7, <2>8 DEF Filtered
  <2>10. QED
    BY <1>5, <2>9 DEF longer, last
<1>6. QED
  BY <1>4, <1>5

LEMMA SnapshotIsElements ==
  ASSUME Screen, NEW d \in Display, NEW p \in Package
  PROVE  Snapshot(d, p) \in Seq(Element)
<1>1. CASE Bridge(d, p, SnapshotLimit).ok
  <2>1. PICK r \in Roots : Bridge(d, p, SnapshotLimit).nodes = AppendNodes(SnapshotLimit)[r][<<>>]
    <3>1. PICK r \in Roots :
            Bridge(d, p, SnapshotLimit) = [ok |-> TRUE, display |-> d, package |-> p,
                                           nodes |-> AppendNodes(SnapshotLimit)[r][<<>>]]
      BY <1>1, BridgeWalks
    <3>2. Bridge(d, p, SnapshotLimit).nodes = AppendNodes(SnapshotLimit)[r][<<>>]
      BY <3>1
    <3>3. QED
      BY <3>2
  <2>2. r \in Element /\ <<>> \in Seq(Element)
    BY DEF Roots
  <2>3. AppendNodes(SnapshotLimit)[r][<<>>] \in Seq(Element)
    <3>1. AppendNodes(SnapshotLimit) \in [Element -> Answers]
      BY WalkEquation
    <3>2. AppendNodes(SnapshotLimit)[r] \in [Seq(Element) -> Seq(Element)]
      BY <2>2, <3>1 DEF Answers
    <3>3. QED
      BY <2>2, <3>2
  <2>4. QED
    BY <2>1, <2>2, <2>3 DEF Snapshot
<1>2. CASE ~ Bridge(d, p, SnapshotLimit).ok
  BY <1>2 DEF Snapshot
<1>3. QED
  BY <1>1, <1>2

\* The nodes of an observation are its answer, filtered.
LEMMA NodesAreFiltered ==
  ASSUME Screen, NEW d \in Display, NEW p \in Package
  PROVE  Filtered(Nodes(d, p), Snapshot(d, p), Len(Snapshot(d, p)))
<1> DEFINE answer == Snapshot(d, p)
           k == Len(answer)
           Grown(f, i) == Append(f, [index |-> Len(f), element |-> answer[i]])
           Step(i, f) == IF i = 0 THEN <<>>
                         ELSE IF answer[i] \in bounded THEN Grown(f[i - 1], i) ELSE f[i - 1]
           Solves(f) == f = [i \in 0 .. k |-> Step(i, f)]
           next == [i \in 0 .. k |-> {i - 1} \cap 0 .. k]
           F == [i \in 0 .. k |-> [g \in [next[i] -> Seq(UiNode)] |-> Step(i, g)]]
<1>1. answer \in Seq(Element)
  BY SnapshotIsElements
<1>2. k \in Nat /\ \A i \in 1 .. k : answer[i] \in Element
  BY <1>1
<1>3. Nodes(d, p) = (CHOOSE f : Solves(f))[k]
  BY DEF Nodes
<1> HIDE DEF answer
<1>4. ASSUME NEW i \in 0 .. k, NEW f, i # 0 => f[i - 1] \in Seq(UiNode) PROVE Step(i, f) \in Seq(UiNode)
  <2>1. CASE i = 0
    BY <2>1
  <2>2. CASE i # 0
    <3>1. answer[i] \in Element /\ f[i - 1] \in Seq(UiNode)
      BY <1>2, <1>4, <2>2
    <3>2. [index |-> Len(f[i - 1]), element |-> answer[i]] \in UiNode
      BY <3>1 DEF UiNode
    <3>3. Grown(f[i - 1], i) \in Seq(UiNode)
      BY <3>1, <3>2
    <3> HIDE DEF Grown
    <3>4. QED
      BY <2>2, <3>1, <3>3
  <2>3. QED
    BY <2>1, <2>2
<1>5. \A i \in 0 .. k : \A g \in [next[i] -> Seq(UiNode)] : F[i][g] = Step(i, g)
  OBVIOUS
<1> HIDE DEF Grown
<1> HIDE DEF k
<1>6. \A i \in 0 .. k : next[i] \subseteq 0 .. k /\ (i # 0 => i - 1 \in next[i])
  BY <1>2
<1>7. Dag(0 .. k, next)
  <2>1. IsFiniteSet(0 .. k)
    BY <1>2, FS_Interval
  <2>2. next \in [0 .. k -> SUBSET (0 .. k)]
    OBVIOUS
  <2>3. ASSUME NEW S \in (SUBSET (0 .. k)) \ {{}} PROVE \E i \in S : next[i] \cap S = {}
    <3>1. S \in SUBSET (0 .. k) /\ S \in SUBSET Nat /\ S # {}
      OBVIOUS
    <3>2. PICK i \in S : \A j \in S : i <= j
      BY <3>1, LeastNat
    <3>3. i \in 0 .. k /\ i - 1 \notin S
      BY <3>1, <3>2
    <3>4. QED
      BY <3>3
  <2> HIDE DEF next
  <2>4. QED
    BY <2>1, <2>2, <2>3 DEF Dag
<1> HIDE DEF F, next
<1>8. Makes(F, 0 .. k, next, Seq(UiNode))
  <2>1. ASSUME NEW i \in 0 .. k, NEW g \in [next[i] -> Seq(UiNode)] PROVE F[i][g] \in Seq(UiNode)
    <3>1. i # 0 => g[i - 1] \in Seq(UiNode)
      BY <1>6
    <3> HIDE DEF Step
    <3>2. Step(i, g) \in Seq(UiNode)
      BY <1>4, <3>1
    <3>3. QED
      BY <1>5, <3>2
  <2>2. QED
    BY <2>1 DEF Makes
<1>9. PICK f \in [0 .. k -> Seq(UiNode)] : Solution(f, F, 0 .. k, next)
  BY <1>7, <1>8, Recursion, Zenon
<1>10. ASSUME NEW i \in 0 .. k PROVE f[i] = Step(i, f)
  <2> DEFINE g == [j \in next[i] |-> f[j]]
  <2>1. next[i] \subseteq 0 .. k /\ (i # 0 => i - 1 \in next[i])
    BY <1>6
  <2>2. g \in [next[i] -> Seq(UiNode)]
    BY <2>1
  <2>3. i # 0 => g[i - 1] = f[i - 1]
    BY <2>1
  <2>4. f[i] = F[i][g]
    BY <1>9 DEF Solution
  <2> HIDE DEF g
  <2>5. F[i][g] = Step(i, g)
    <3> HIDE DEF Step
    <3>1. QED
      BY <1>5, <2>2
  <2>6. QED
    BY <2>3, <2>4, <2>5
<1>11. Solves(f)
  <2> HIDE DEF Step
  <2>1. QED
    BY <1>10
<1> DEFINE nodes == CHOOSE h : Solves(h)
<1>12. Solves(nodes)
  <2> HIDE DEF Solves
  <2>1. QED
    BY <1>11
<1> HIDE DEF nodes
<1>13. \A i \in 0 .. k : nodes[i] = Step(i, nodes)
  <2> HIDE DEF Step
  <2>1. QED
    BY <1>12
<1>14. \A i \in 0 .. k : Filtered(nodes[i], answer, i)
  <2> DEFINE Bad == {i \in 0 .. k : ~ Filtered(nodes[i], answer, i)}
  <2>1. ASSUME Bad # {} PROVE FALSE
    <3>1. PICK i \in Bad : next[i] \cap Bad = {}
      BY <1>7, <2>1 DEF Dag
    <3>2. i \in 0 .. k /\ ~ Filtered(nodes[i], answer, i)
      OBVIOUS
    <3>3. CASE i = 0
      <4>1. nodes[i] = <<>>
        BY <1>13, <3>2, <3>3
      <4>2. <<>> \in Seq(UiNode) /\ Len(<<>>) = 0
        OBVIOUS
      <4>3. Filtered(<<>>, answer, 0)
        BY <4>2 DEF Filtered
      <4>4. QED
        BY <3>2, <3>3, <4>1, <4>3
    <3>4. CASE i # 0
      <4>1. i - 1 \in 0 .. k /\ i - 1 \in Nat /\ (i - 1) + 1 = i /\ i <= k
        BY <1>2, <3>2, <3>4
      <4>2. Filtered(nodes[i - 1], answer, i - 1)
        BY <1>6, <3>1, <3>2, <3>4, <4>1
      <4> DEFINE before == nodes[i - 1]
                 m == i - 1
      <4>3. Filtered(IF answer[m + 1] \in bounded
                     THEN Append(before, [index |-> Len(before), element |-> answer[m + 1]]) ELSE before,
                     answer, m + 1)
        <5>1. m \in Nat /\ m + 1 <= Len(answer) /\ Filtered(before, answer, m)
          BY <4>1, <4>2 DEF k
        <5> HIDE DEF before, m
        <5>2. QED
          BY <1>1, <5>1, FilteredGrows, Zenon
      <4>4. nodes[i] = IF answer[i] \in bounded THEN Grown(before, i) ELSE before
        BY <1>13, <3>2, <3>4
      <4>5. Filtered(nodes[i], answer, i)
        BY <4>1, <4>3, <4>4 DEF Grown
      <4>6. QED
        BY <3>2, <4>5
    <3>5. QED
      BY <3>3, <3>4
  <2>2. QED
    BY <2>1
<1>15. k \in 0 .. k
  BY <1>2
<1>16. Filtered(nodes[k], answer, k)
  BY <1>14, <1>15
<1>17. QED
  BY <1>3, <1>16 DEF nodes, k, answer

LEMMA PromptResolvesStep == ScreenInv => PromptResolves
<1> SUFFICES ASSUME Screen, NEW d \in Display, NEW p \in Package, NEW line \in Prompt(d, p)
             PROVE  /\ Target(d, p, line.index) = {line.element} \cap enabled
                    /\ \A e \in bounded : SameWindow(e, line.element) =>
                         (\E other \in Prompt(d, p) : other.element = e) \/ Precedes(line.element, e)
  BY DEF ScreenInv, PromptResolves
<1> DEFINE n == Nodes(d, p)
           answer == Snapshot(d, p)
<1>1. Filtered(n, answer, Len(answer)) /\ answer \in Seq(Element)
  BY NodesAreFiltered, SnapshotIsElements
<1>2. n \in Seq(UiNode) /\ Len(n) \in Nat /\ DOMAIN n = 1 .. Len(n)
  BY <1>1 DEF Filtered
<1>3. /\ Prompt(d, p) = {n[i] : i \in {j \in DOMAIN n : j <= PromptLimit}}
      /\ Target(d, p, line.index) =
           {x.element : x \in {n[i] : i \in {j \in DOMAIN n : n[j].index = line.index /\ n[j].element \in enabled}}}
  BY DEF Prompt, Target
<1>4. PICK i \in 1 .. Len(n) : i <= PromptLimit /\ line = n[i]
  BY <1>2, <1>3
<1> HIDE DEF n
<1>5. \A j \in 1 .. Len(n) : n[j].index = line.index <=> j = i
  <2>1. \A j \in 1 .. Len(n) : n[j].index = j - 1
    BY <1>1 DEF Filtered
  <2>2. \A j \in 1 .. Len(n) : j - 1 = i - 1 <=> j = i
    OBVIOUS
  <2>3. QED
    BY <1>4, <2>1, <2>2
<1>6. Target(d, p, line.index) = {line.element} \cap enabled
  BY <1>2, <1>3, <1>4, <1>5
<1>7. ASSUME NEW e \in bounded, SameWindow(e, line.element), ~ \E other \in Prompt(d, p) : other.element = e
      PROVE  Precedes(line.element, e)
  <2>1. Bridge(d, p, SnapshotLimit).ok
    <3>1. ASSUME ~ Bridge(d, p, SnapshotLimit).ok PROVE FALSE
      <4>1. Len(answer) = 0
        BY <3>1 DEF Snapshot
      <4>2. PICK q \in 1 .. Len(answer) : answer[q] = n[i].element
        BY <1>1, <1>4 DEF Filtered
      <4>3. QED
        BY <4>1, <4>2
    <3>2. QED
      BY <3>1
  <2>2. PICK r \in Roots :
          /\ windows[r] = [display |-> d, package |-> p]
          /\ Bridge(d, p, SnapshotLimit) = [ok |-> TRUE, display |-> d, package |-> p,
                                            nodes |-> AppendNodes(SnapshotLimit)[r][<<>>]]
    BY <2>1, BridgeWalks
  <2>3. answer = AppendNodes(SnapshotLimit)[r][<<>>]
    BY <2>2 DEF Snapshot
  <2> HIDE DEF answer
  <2>4. Continues(SnapshotLimit, <<>>, answer, Scope(r))
    <3>1. SnapshotLimit \in Nat /\ r \in Element
      BY LimitAssumption DEF Roots
    <3>2. Walks(SnapshotLimit, r)
      BY <3>1, AllWalk
    <3>3. <<>> \in Seq(Element) /\ Len(<<>>) <= SnapshotLimit
      BY <3>1
    <3>4. QED
      BY <2>3, <3>2, <3>3 DEF Walks
  <2>5. /\ Len(<<>>) = 0 /\ Len(answer) \in Nat
        /\ \A q \in 1 .. Len(answer) : q > Len(<<>>)
    BY <1>1
  <2>6. \A y : y \in shown => (y \in Scope(r) <=> r \in Ancestors[y])
    <3>1. Later(r) = {}
      BY DEF Later, Roots
    <3>2. QED
      BY <3>1 DEF Scope, Branches, Screen
  <2>7. \A j, q \in 1 .. Len(answer) : j < q => Precedes(answer[j], answer[q])
    BY <2>4, <2>5 DEF Continues
  <2>8. \A q \in 1 .. Len(answer) : answer[q] \in shown /\ answer[q] \in Scope(r)
    BY <2>4, <2>5 DEF Continues
  <2>9. PICK q \in 1 .. Len(answer) : answer[q] = line.element
    BY <1>1, <1>4 DEF Filtered
  <2>10. e \in shown /\ e \in Element /\ line.element \in Element /\ r \in Ancestors[line.element]
    BY <2>6, <2>8, <2>9 DEF Screen
  <2>11. r \in Ancestors[e]
    <3>1. PICK o \in Roots : o \in Ancestors[e] /\ o \in Ancestors[line.element]
      BY <1>7 DEF SameWindow
    <3>2. parent[o] = 0 /\ parent[r] = 0
      BY DEF Roots
    <3>3. o = r
      BY <2>10, <3>1, <3>2, OneBranch
    <3>4. QED
      BY <3>1, <3>3
  <2>12. CASE \E x \in 1 .. Len(answer) : answer[x] = e
    <3>1. PICK j \in 1 .. Len(n) : n[j].element = e
      <4>1. PICK x \in 1 .. Len(answer) : answer[x] = e /\ answer[x] \in bounded
        BY <2>12, <1>7
      <4>2. \E j \in 1 .. Len(n) : n[j].element = answer[x]
        BY <1>1, <4>1 DEF Filtered
      <4>3. QED
        BY <4>1, <4>2
    <3>2. ~ (j <= PromptLimit)
      BY <1>2, <1>3, <1>7, <3>1
    <3>3. i < j
      BY <1>4, <3>2, LimitAssumption
    <3>4. PICK x \in 1 .. Len(answer), y \in 1 .. Len(answer) :
            x < y /\ answer[x] = n[i].element /\ answer[y] = n[j].element
      BY <1>1, <3>3 DEF Filtered
    <3>5. QED
      BY <1>4, <2>7, <3>1, <3>4
  <2>13. CASE ~ \E x \in 1 .. Len(answer) : answer[x] = e
    <3>1. e \in Scope(r)
      BY <2>6, <2>10, <2>11
    <3>2. \A x \in 1 .. Len(answer) : Precedes(answer[x], e)
      BY <2>4, <2>5, <2>10, <2>13, <3>1 DEF Continues
    <3>3. QED
      BY <2>9, <3>2
  <2>14. QED
    BY <2>12, <2>13
<1>8. QED
  BY <1>6, <1>7

\* What the model reads is the top of the window, and each id on it leads back to
\* its element, on every screen and for all limits.
THEOREM PromptResolvesHolds == ScreenSpec => []PromptResolves
BY ScreenInvInit, ScreenInvStep, PromptResolvesStep, PTL DEF ScreenSpec

=============================================================================

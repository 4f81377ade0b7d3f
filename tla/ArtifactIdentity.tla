-------------------------- MODULE ArtifactIdentity --------------------------
(***************************************************************************)
(* How the parameters a model writes become the key of an artifact.        *)
(*                                                                         *)
(* A planner's reply, or an agent's request for an expansion, describes    *)
(* an artifact by a list of name/value texts.  The schema decodes them     *)
(* (JSON scalars for the fields that are not strings) and canonicalises    *)
(* them; the steward adds the scope.  GraphSteward takes identities that   *)
(* have come this far; here are two descriptions on their way.  Texts are  *)
(* a word, with or without blanks around it and capitals in it.            *)
(***************************************************************************)
EXTENDS Sequences, Naturals

CONSTANTS
  Field, \* names of parameters
  Text,  \* [word, blanks, capitals], as far as a reply may contain them
  Json,  \* the JSON scalar [type, value] that a word without capitals is, or Undefined
  Schema,
  Task,
  MaxParameters, \* bound: parameters of a description
  Undefined

FieldType == {"string", "integer", "number", "boolean"}
Parameter == [name : Field, value : Text]
ASSUME TextAssumption ==
  /\ Text \subseteq [word : {t.word : t \in Text}, blanks : BOOLEAN, capitals : BOOLEAN]
  /\ MaxParameters \in Nat
ASSUME SchemaAssumption ==
  \A s \in Schema :
    /\ s.required \subseteq DOMAIN s.types /\ DOMAIN s.rules = DOMAIN s.types
    /\ s.types \in [DOMAIN s.types -> FieldType]

VARIABLES
  schema,      \* the schema both descriptions name
  descriptions \* two descriptions, each for a task

ivars == <<schema, descriptions>>

-----------------------------------------------------------------------------
IsText(s, f) == f \notin DOMAIN s.types \/ s.types[f] = "string"

\* json.loads
Loads(t) == IF t.capitals THEN Undefined ELSE Json[t.word]

\* decode_parameters: no name twice, and JSON where the schema wants it
Decodable(s, raw) ==
  /\ \A i, j \in DOMAIN raw : raw[i].name = raw[j].name => i = j
  /\ \A i \in DOMAIN raw : IsText(s, raw[i].name) \/ Loads(raw[i].value) # Undefined

Decoded(s, raw) ==
  [f \in {raw[i].name : i \in DOMAIN raw} |->
     LET t == raw[CHOOSE i \in DOMAIN raw : raw[i].name = f].value
     IN  IF IsText(s, f) THEN [type |-> "string", value |-> t] ELSE Loads(t)]

CasefoldedOnly(t, rule) == [t EXCEPT !.capitals = @ /\ rule # "casefold"]  \* mutant of Stripped

Stripped(t, rule) == [word |-> t.word, blanks |-> FALSE, capitals |-> t.capitals /\ rule # "casefold"]

\* _normalize accepts the value ...
Accepted(type, rule, v) ==
  IF type = "string" THEN rule \in {"identity", "strip", "casefold"} /\ v.value.word # ""
  ELSE v.type = type \/ (type = "number" /\ v.type = "integer")

\* ... and returns what goes into the key.
Normalized(type, rule, v) ==
  IF type = "string" THEN [v EXCEPT !.value = Stripped(v.value, rule)] ELSE v

\* canonicalize raises unless every field is known, acceptable and, if required, there.
Canonicalizes(s, params) ==
  /\ DOMAIN params \subseteq DOMAIN s.types
  /\ s.required \subseteq DOMAIN params
  /\ \A f \in DOMAIN params : Accepted(s.types[f], s.rules[f], params[f])

\* _canonical_key: a task-scoped key is its task's own
ArtifactKey(s, params, t) ==
  [schema |-> s.id, version |-> s.version,
   parameters |-> [f \in DOMAIN params |-> Normalized(s.types[f], s.rules[f], params[f])],
   scope |-> IF s.sharing = "task" THEN t ELSE s.sharing]

Describes(d) == Decodable(schema, d.raw) /\ Canonicalizes(schema, Decoded(schema, d.raw))
KeyFor(d) == ArtifactKey(schema, Decoded(schema, d.raw), d.task)

-----------------------------------------------------------------------------
Undescribed == schema = Undefined /\ descriptions = <<>>

\* Two descriptions of a few parameters
Describe ==
  /\ schema = Undefined
  /\ schema' \in Schema
  /\ \E raw1, raw2 \in UNION {[1 .. n -> Parameter] : n \in 0 .. MaxParameters}, t, u \in Task :
       descriptions' = <<[raw |-> raw1, task |-> t], [raw |-> raw2, task |-> u]>>

ISpec == Undescribed /\ [][Describe]_ivars

-----------------------------------------------------------------------------
(* Properties                                                              *)

\* What a text says in a field, the way its schema reads it
Says(f, t) ==
  IF schema.types[f] # "string" THEN Json[t.word]
  ELSE IF schema.rules[f] = "casefold" THEN t.word ELSE <<t.word, t.capitals>>

Statements(d) == {<<d.raw[i].name, Says(d.raw[i].name, d.raw[i].value)>> : i \in DOMAIN d.raw}

\* Two descriptions that the schema accepts get one key, and so share one
\* producer, exactly when they say the same, in whatever order, with whatever
\* blanks and capitals, and no scope keeps their tasks apart.
SharedWhenSame ==
  (schema # Undefined /\ \A d \in {descriptions[1], descriptions[2]} : Describes(d)) =>
    (KeyFor(descriptions[1]) = KeyFor(descriptions[2]) <=>
       /\ Statements(descriptions[1]) = Statements(descriptions[2])
       /\ schema.sharing = "task" => descriptions[1].task = descriptions[2].task)

=============================================================================

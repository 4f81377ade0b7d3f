----------------------------- MODULE MCBorders ------------------------------
\* Where texts, screens and dumps enter the program: one example of each at a time.
EXTENDS ArtifactIdentity, UiSnapshot, DisplayTable, TLC

CONSTANTS t1, t2, d1, d2, d3, p1, n1, n2

T(w, b, c) == [word |-> w, blanks |-> b, capitals |-> c]
MCText == {T("ann", FALSE, FALSE), T("ann", FALSE, TRUE), T("ann", TRUE, FALSE), T("1", TRUE, FALSE),
           T("1.0", FALSE, FALSE), T("", TRUE, FALSE)}
MCJson == [w \in {"ann", "1", "1.0", ""} |->
             CASE w = "1" -> [type |-> "integer", value |-> 1]
               [] w = "1.0" -> [type |-> "number", value |-> 1]
               [] OTHER -> Undefined]

SchemaOf(id, required, types, rules, sharing) ==
  [id |-> id, version |-> 1, required |-> required, types |-> types, rules |-> rules, sharing |-> sharing]
MCSchema == {
  SchemaOf("record", {"subject"}, [subject |-> "string", size |-> "number"],
           [subject |-> "casefold", size |-> "identity"], "user:local"),
  SchemaOf("receipt", {"subject"}, [subject |-> "string"], [subject |-> "identity"], "task")}

Init == Undescribed /\ BlankScreen /\ Unplugged
Next == \/ BlankScreen /\ Unplugged /\ Describe /\ UNCHANGED <<wvars, dvars>>
        \/ Undescribed /\ Unplugged /\ Draw /\ UNCHANGED <<ivars, dvars>>
        \/ Undescribed /\ BlankScreen /\ Plug /\ UNCHANGED <<ivars, wvars>>
Spec == Init /\ [][Next]_<<ivars, wvars, dvars>>
=============================================================================

----------------------------- MODULE JsonValue -----------------------------
(***************************************************************************)
(* JSON values, as serde_json has them: a record with its kind t, and        *)
(* v (a scalar), e (the elements of an array) or f (the fields of an object,*)
(* a function on its keys).  Recursion over them is by functions on JSON,  *)
(* the values at hand, each of which holds only values that nest less.     *)
(***************************************************************************)
EXTENDS Naturals, Sequences, FiniteSets

CONSTANTS
  JSON,     \* the values at hand, with everything inside them
  Nesting   \* of each value: more than that of what it holds

Null == [t |-> "null"]
False == [t |-> "false"]
True == [t |-> "true"]
Integer == [t |-> "int"]
Fraction == [t |-> "frac"]
Str(v) == [t |-> "str", v |-> v]
Arr(e) == [t |-> "arr", e |-> e]
Obj(f) == [t |-> "obj", f |-> f]
NoFields == [k \in {} |-> Null]

IsObj(j) == j.t = "obj"
IsArr(j) == j.t = "arr"
Fields(j) == IF IsObj(j) THEN j.f ELSE NoFields
Elements(j) == IF IsArr(j) THEN j.e ELSE <<>>
Children(j) ==
  {Fields(j)[k] : k \in DOMAIN Fields(j)} \cup {Elements(j)[i] : i \in DOMAIN Elements(j)}

\* Values are finite trees.
ASSUME JsonAssumption ==
  /\ Null \in JSON
  /\ \A j \in JSON :
       /\ Nesting[j] \in Nat
       /\ \A c \in Children(j) : c \in JSON /\ Nesting[c] < Nesting[j]
       /\ IsObj(j) => IsFiniteSet(DOMAIN j.f)
       /\ IsArr(j) => j.e \in Seq(JSON)

\* A JSON value and everything inside it, at every depth.
parts[j \in JSON] == {j} \cup UNION {parts[c] : c \in Children(j)}
Parts(j) == parts[j]
=============================================================================

----------------------------- MODULE MCMergePatch -----------------------------
(* Model-checking instance of MergePatch: JSON of depth three over two keys,  *)
(* one of them mist_configured.                                             *)
EXTENDS MergePatch, FiniteSetsExt

Keys == {"name", MIST_CONFIGURED}

Objects(vals) == {Obj(f) : f \in UNION {[D -> vals] : D \in SUBSET Keys}}

Authoritative == Obj([k \in {MIST_CONFIGURED} |-> Str("x")])

\* A value of depth two over some scalars, lists of one object included.
Nested(scalars) ==
  scalars \cup Objects(scalars) \cup {Arr(<<>>), Arr(<<Authoritative>>)}
    \cup {Arr(<<s>>) : s \in scalars}

DocScalars   == {Str("x"), Str("y")}
PatchScalars == {Null, Str("x"), REDACTION_PLACEHOLDER}
AllScalars   == DocScalars \cup PatchScalars

MCBefores == {Null} \cup Objects(Nested(DocScalars))
MCPatches == PatchScalars \cup Objects(Nested(PatchScalars))

\* Closed under taking values apart and under merging.
MergeTable == AllScalars \cup Nested(AllScalars) \cup Objects(Nested(AllScalars))
MCMergeJSON == MergeTable

\* How deep the containers of each of some values nest.
NestingOf(values) ==
  LET height[j \in values] == Max({0} \cup {1 + height[c] : c \in Children(j)}) IN
  [j \in values |-> height[j]]
NestingTable == NestingOf(MergeTable)
MCMergeNesting == NestingTable
=============================================================================

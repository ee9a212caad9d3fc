----------------------------- MODULE JsonProofs -----------------------------
(***************************************************************************)
(* What the two recursive walks of the server over JSON compute, for every  *)
(* set of JSON values: a staged body is the merge of RFC 7386 and holds      *)
(* nothing that is refused in a patch (MergePatch), and a response body is   *)
(* held to the bounds exactly and to a relaxed schema that admits all that   *)
(* the declared one admits and keeps its shape (SchemaRelax).                *)
(*                                                                         *)
(* Each recursive function of those modules is an instance of               *)
(* RankedRecursion, with the nesting of a value as its rank: a lemma called  *)
(* ...Of unfolds it once.  The lemmas about what it computes are proved by   *)
(* induction over the nesting (JsonInduction), from the closure of JSON      *)
(* under parts that JsonAssumption states.                                  *)
(***************************************************************************)
EXTENDS MergePatch, SchemaRelax, FiniteSetTheorems, TLAPS

Depth(j) == Nesting[j]

-----------------------------------------------------------------------------
(* Values and their parts *)

\* The body of the recursion that collects the parts of a value.
PartsBody(g, j) == {j} \cup UNION {g[c] : c \in Children(j)}
ByParts == INSTANCE RankedRecursion WITH S <- JSON, Rank <- Depth, Body <- PartsBody

\* An object of some fields.
LEMMA ObjectOf == \A f : IsObj(Obj(f)) /\ ~IsArr(Obj(f)) /\ Obj(f).f = f /\ Fields(Obj(f)) = f
BY DEF IsObj, IsArr, Obj, Fields

\* What an object or an array holds is at hand and nests less.
LEMMA Held ==
  ASSUME NEW j \in JSON
  PROVE  /\ Nesting[j] \in Nat
         /\ \A c \in Children(j) : c \in JSON /\ Nesting[c] < Nesting[j]
         /\ \A k \in DOMAIN Fields(j) :
              Fields(j)[k] \in Children(j) /\ Fields(j)[k] \in JSON /\ Nesting[Fields(j)[k]] < Nesting[j]
         /\ \A i \in DOMAIN Elements(j) :
              Elements(j)[i] \in Children(j) /\ Elements(j)[i] \in JSON /\ Nesting[Elements(j)[i]] < Nesting[j]
<1>1. Nesting[j] \in Nat /\ \A c \in Children(j) : c \in JSON /\ Nesting[c] < Nesting[j]
  BY JsonAssumption
<1>2. \A k \in DOMAIN Fields(j) : Fields(j)[k] \in Children(j)
  BY DEF Children
<1>3. \A i \in DOMAIN Elements(j) : Elements(j)[i] \in Children(j)
  BY DEF Children
<1> QED BY <1>1, <1>2, <1>3

\* The nesting of a value is a rank to recurse on.
LEMMA NestingRanks == ByParts!Ranked
BY JsonAssumption DEF ByParts!Ranked, Depth

\* Induction over JSON values.
LEMMA JsonInduction ==
  ASSUME NEW T \in SUBSET JSON,
         \A j \in JSON : (\A c \in JSON : Nesting[c] < Nesting[j] => c \in T) => j \in T
  PROVE  T = JSON
<1> SUFFICES ASSUME JSON \ T # {} PROVE FALSE
  OBVIOUS
<1> DEFINE U == JSON \ T
<1>1. PICK x \in U : \A y \in JSON : Depth(y) < Depth(x) => y \notin U
  <2>1. U \in SUBSET JSON /\ U # {}
    OBVIOUS
  <2> HIDE DEF U
  <2> QED BY <2>1, NestingRanks, ByParts!LeastRank
<1>2. \A c \in JSON : Nesting[c] < Nesting[x] => c \in T
  BY <1>1 DEF Depth
<1> QED BY <1>2

\* The recursion over the parts of a value defines a function.
LEMMA PartsDefined == parts = [j \in JSON |-> PartsBody(parts, j)]
<1>1. ByParts!Local
  <2> SUFFICES ASSUME NEW j \in JSON, NEW g, NEW h,
                      \A y \in JSON : Depth(y) < Depth(j) => g[y] = h[y]
               PROVE  PartsBody(g, j) = PartsBody(h, j)
    BY DEF ByParts!Local
  <2>1. \A c \in Children(j) : g[c] = h[c]
    BY Held DEF Depth
  <2> QED BY <2>1 DEF PartsBody
<1>2. \E f : f = [j \in JSON |-> PartsBody(f, j)]
  BY <1>1, NestingRanks, ByParts!RecursionDefines
<1>3. parts = CHOOSE f : f = [j \in JSON |-> PartsBody(f, j)]
  BY DEF parts, PartsBody
<1> QED BY <1>2, <1>3

\* The parts of a value are it and the parts of what it holds.
LEMMA PartsOf ==
  ASSUME NEW j \in JSON
  PROVE  Parts(j) = {j} \cup UNION {Parts(c) : c \in Children(j)}
<1>1. parts[j] = PartsBody(parts, j)
  BY PartsDefined
<1> QED BY <1>1 DEF Parts, PartsBody

-----------------------------------------------------------------------------
(* The merge of a patch *)

\* The body of merge_patch.
MergeBody(g, p) ==
  [b \in JSON |->
     IF ~IsObj(p) THEN p
     ELSE LET old == Fields(b) IN
       Obj([k \in Kept(old, p) |->
              IF k \notin DOMAIN p.f THEN old[k]
              ELSE IF k \in DOMAIN old THEN g[p.f[k]][old[k]] ELSE p.f[k]])]
ByMerge == INSTANCE RankedRecursion WITH S <- JSON, Rank <- Depth, Body <- MergeBody

\* merge_patch, which recurses into the values of the patch, is defined by its body.
LEMMA MergeDefined == merge = [p \in JSON |-> MergeBody(merge, p)]
<1>1. ByMerge!Local
  <2> SUFFICES ASSUME NEW p \in JSON, NEW g, NEW h,
                      \A y \in JSON : Depth(y) < Depth(p) => g[y] = h[y]
               PROVE  MergeBody(g, p) = MergeBody(h, p)
    BY DEF ByMerge!Local
  <2>1. IsObj(p) => \A k \in DOMAIN p.f : g[p.f[k]] = h[p.f[k]]
    BY Held DEF Depth, Fields
  <2>2. CASE IsObj(p)
    BY <2>1, <2>2 DEF MergeBody
  <2>3. CASE ~IsObj(p)
    BY <2>3 DEF MergeBody
  <2> QED BY <2>2, <2>3
<1>2. ByMerge!Ranked
  BY NestingRanks DEF ByMerge!Ranked, ByParts!Ranked
<1>3. \E f : f = [p \in JSON |-> MergeBody(f, p)]
  BY <1>1, <1>2, ByMerge!RecursionDefines
<1>4. merge = CHOOSE f : f = [p \in JSON |-> MergeBody(f, p)]
  BY DEF merge, MergeBody
<1> QED BY <1>3, <1>4

\* The fields of a merge with an object.
MergedFields(b, p) ==
  [k \in Kept(Fields(b), p) |->
     IF k \notin DOMAIN p.f THEN Fields(b)[k]
     ELSE IF k \in DOMAIN Fields(b) THEN merge[p.f[k]][Fields(b)[k]] ELSE p.f[k]]

\* The same for MergePatch of RFC 7386.
RFCFields(b, p) ==
  [k \in Kept(Fields(b), p) |->
     IF k \in DOMAIN p.f
       THEN rfc7386[p.f[k]][IF k \in DOMAIN Fields(b) THEN Fields(b)[k] ELSE Null]
       ELSE Fields(b)[k]]

\* One step of merge_patch: a patch that is no object replaces the value, and
\* an object is merged field by field.
LEMMA MergeOf ==
  ASSUME NEW p \in JSON, NEW b \in JSON
  PROVE  /\ ~IsObj(p) => merge[p][b] = p
         /\ IsObj(p) => merge[p][b] = Obj(MergedFields(b, p))
<1>1. merge[p] = MergeBody(merge, p)
  BY MergeDefined
<1>2. merge[p][b] = MergeBody(merge, p)[b]
  BY <1>1
<1> QED BY <1>2 DEF MergeBody, MergedFields

\* The body of MergePatch in RFC 7386.
RFCBody(g, p) ==
  [target \in JSON |->
     IF ~IsObj(p) THEN p
     ELSE LET old == Fields(target) IN
       Obj([k \in Kept(old, p) |->
              IF k \in DOMAIN p.f
                THEN g[p.f[k]][IF k \in DOMAIN old THEN old[k] ELSE Null]
                ELSE old[k]])]
ByRFC == INSTANCE RankedRecursion WITH S <- JSON, Rank <- Depth, Body <- RFCBody

\* One step of MergePatch in RFC 7386.
LEMMA RFCOf ==
  ASSUME NEW p \in JSON, NEW b \in JSON
  PROVE  /\ ~IsObj(p) => rfc7386[p][b] = p
         /\ IsObj(p) => rfc7386[p][b] = Obj(RFCFields(b, p))
<1>1. ByRFC!Local
  <2> SUFFICES ASSUME NEW q \in JSON, NEW g, NEW h,
                      \A y \in JSON : Depth(y) < Depth(q) => g[y] = h[y]
               PROVE  RFCBody(g, q) = RFCBody(h, q)
    BY DEF ByRFC!Local
  <2>1. IsObj(q) => \A k \in DOMAIN q.f : g[q.f[k]] = h[q.f[k]]
    BY Held DEF Depth, Fields
  <2>2. CASE IsObj(q)
    BY <2>1, <2>2 DEF RFCBody
  <2>3. CASE ~IsObj(q)
    BY <2>3 DEF RFCBody
  <2> QED BY <2>2, <2>3
<1>2. ByRFC!Ranked
  BY NestingRanks DEF ByRFC!Ranked, ByParts!Ranked
<1>3. \E f : f = [q \in JSON |-> RFCBody(f, q)]
  BY <1>1, <1>2, ByRFC!RecursionDefines
<1>4. rfc7386 = CHOOSE f : f = [q \in JSON |-> RFCBody(f, q)]
  BY DEF rfc7386, RFCBody
<1>5. rfc7386[p] = RFCBody(rfc7386, p)
  BY <1>3, <1>4
<1>6. rfc7386[p][b] = RFCBody(rfc7386, p)[b]
  BY <1>5
<1> QED BY <1>6 DEF RFCBody, RFCFields

\* The body of the recursion that drops null fields.
DropBody(g, j) ==
  IF ~IsObj(j) THEN j
  ELSE Obj([k \in {x \in DOMAIN j.f : j.f[x] # Null} |-> g[j.f[k]]])
ByDrop == INSTANCE RankedRecursion WITH S <- JSON, Rank <- Depth, Body <- DropBody

\* One step of the drop: the fields of an object that are null go.
LEMMA DropOf ==
  ASSUME NEW j \in JSON
  PROVE  /\ ~IsObj(j) => DropNullFields(j) = j
         /\ IsObj(j) =>
              DropNullFields(j) = Obj([k \in {x \in DOMAIN j.f : j.f[x] # Null} |-> DropNullFields(j.f[k])])
<1>1. ByDrop!Local
  <2> SUFFICES ASSUME NEW q \in JSON, NEW g, NEW h,
                      \A y \in JSON : Depth(y) < Depth(q) => g[y] = h[y]
               PROVE  DropBody(g, q) = DropBody(h, q)
    BY DEF ByDrop!Local
  <2>1. IsObj(q) => \A k \in DOMAIN q.f : g[q.f[k]] = h[q.f[k]]
    BY Held DEF Depth, Fields
  <2>2. CASE IsObj(q)
    BY <2>1, <2>2 DEF DropBody
  <2>3. CASE ~IsObj(q)
    BY <2>3 DEF DropBody
  <2> QED BY <2>2, <2>3
<1>2. ByDrop!Ranked
  BY NestingRanks DEF ByDrop!Ranked, ByParts!Ranked
<1>3. \E f : f = [q \in JSON |-> DropBody(f, q)]
  BY <1>1, <1>2, ByDrop!RecursionDefines
<1>4. dropNullFields = CHOOSE f : f = [q \in JSON |-> DropBody(f, q)]
  BY DEF dropNullFields, DropBody
<1>5. dropNullFields[j] = DropBody(dropNullFields, j)
  BY <1>3, <1>4
<1> QED BY <1>5 DEF DropBody, DropNullFields

\* A merge is null just when the patch is.
LEMMA MergeNull ==
  ASSUME NEW p \in JSON, NEW b \in JSON
  PROVE  (merge[p][b] = Null <=> p = Null) /\ (rfc7386[p][b] = Null <=> p = Null)
<1>1. \A f : ~(Obj(f) = Null)
  <2>1. \A f : Obj(f).t = "obj"
    BY DEF Obj
  <2>2. Null.t = "null"
    BY DEF Null
  <2> QED BY <2>1, <2>2
<1>2. ~IsObj(Null)
  BY DEF IsObj, Null
<1>3. CASE IsObj(p)
  <2>1. p # Null
    BY <1>2, <1>3
  <2>2. \E f : merge[p][b] = Obj(f)
    BY <1>3, MergeOf
  <2>3. \E f : rfc7386[p][b] = Obj(f)
    BY <1>3, RFCOf
  <2> QED BY <1>1, <2>1, <2>2, <2>3
<1>4. CASE ~IsObj(p)
  BY <1>4, MergeOf, RFCOf
<1> QED BY <1>3, <1>4

\* On nothing, RFC 7386 drops the null fields of the patch.
LEMMA RFCOnNull ==
  \A p \in JSON : rfc7386[p][Null] \in JSON => DropNullFields(rfc7386[p][Null]) = DropNullFields(p)
<1> DEFINE T == {p \in JSON : rfc7386[p][Null] \in JSON =>
                   DropNullFields(rfc7386[p][Null]) = DropNullFields(p)}
<1>1. ASSUME NEW p \in JSON, \A c \in JSON : Nesting[c] < Nesting[p] => c \in T,
             rfc7386[p][Null] \in JSON
      PROVE  DropNullFields(rfc7386[p][Null]) = DropNullFields(p)
  <2> DEFINE r == rfc7386[p][Null]
  <2>0. Null \in JSON
    BY JsonAssumption
  <2>1. CASE ~IsObj(p)
    BY <2>0, <2>1, RFCOf
  <2>2. CASE IsObj(p)
    <3>1. Fields(Null) = NoFields /\ DOMAIN NoFields = {}
      BY DEF Fields, IsObj, Null, NoFields
    <3>2. Kept(Fields(Null), p) = {k \in DOMAIN p.f : p.f[k] # Null}
      BY <3>1 DEF Kept
    <3>3. r = Obj([k \in {x \in DOMAIN p.f : p.f[x] # Null} |-> rfc7386[p.f[k]][Null]])
      <4>1. r = Obj(RFCFields(Null, p))
        BY <2>0, <2>2, RFCOf
      <4>2. RFCFields(Null, p) = [k \in {x \in DOMAIN p.f : p.f[x] # Null} |-> rfc7386[p.f[k]][Null]]
        BY <3>1, <3>2 DEF RFCFields
      <4> QED BY <4>1, <4>2
    <3>4. IsObj(r) /\ r.f = [k \in {x \in DOMAIN p.f : p.f[x] # Null} |-> rfc7386[p.f[k]][Null]]
      BY <3>3 DEF IsObj, Obj
    <3>5. ASSUME NEW k \in DOMAIN p.f, p.f[k] # Null
          PROVE  r.f[k] # Null /\ DropNullFields(r.f[k]) = DropNullFields(p.f[k])
      <4>1. p.f[k] \in JSON /\ Nesting[p.f[k]] < Nesting[p]
        BY <2>2, Held DEF Fields
      <4>2. r.f[k] = rfc7386[p.f[k]][Null]
        BY <3>4, <3>5
      <4>3. r.f[k] # Null
        BY <2>0, <3>5, <4>1, <4>2, MergeNull
      <4>4. k \in DOMAIN r.f
        BY <3>4, <3>5
      <4>5. r.f[k] \in JSON
        BY <1>1, <3>4, <4>4, Held DEF Fields
      <4>6. p.f[k] \in T
        BY <1>1, <4>1
      <4> QED BY <4>2, <4>3, <4>5, <4>6
    <3>6. {x \in DOMAIN r.f : r.f[x] # Null} = {x \in DOMAIN p.f : p.f[x] # Null}
      BY <3>4, <3>5
    <3> HIDE DEF r
    <3>7. DropNullFields(r) = Obj([k \in {x \in DOMAIN r.f : r.f[x] # Null} |-> DropNullFields(r.f[k])])
      BY <1>1, <3>4, DropOf DEF r
    <3>8. DropNullFields(p) = Obj([k \in {x \in DOMAIN p.f : p.f[x] # Null} |-> DropNullFields(p.f[k])])
      BY <2>2, DropOf
    <3>9. [k \in {x \in DOMAIN r.f : r.f[x] # Null} |-> DropNullFields(r.f[k])] =
            [k \in {x \in DOMAIN p.f : p.f[x] # Null} |-> DropNullFields(p.f[k])]
      BY <3>5, <3>6
    <3> QED BY <3>7, <3>8, <3>9 DEF r
  <2> QED BY <2>1, <2>2
<1>2. T = JSON
  <2>1. \A p \in JSON : (\A c \in JSON : Nesting[c] < Nesting[p] => c \in T) => p \in T
    BY <1>1
  <2>2. T \in SUBSET JSON
    OBVIOUS
  <2> HIDE DEF T
  <2> QED BY <2>1, <2>2, JsonInduction
<1> QED BY <1>2

\* The merge is that of RFC 7386, but for null fields.
LEMMA MergeIsRFC ==
  \A p \in JSON : \A b \in JSON : merge[p][b] \in JSON /\ rfc7386[p][b] \in JSON =>
    DropNullFields(merge[p][b]) = DropNullFields(rfc7386[p][b])
<1> DEFINE T == {p \in JSON : \A b \in JSON : merge[p][b] \in JSON /\ rfc7386[p][b] \in JSON =>
                   DropNullFields(merge[p][b]) = DropNullFields(rfc7386[p][b])}
<1>1. ASSUME NEW p \in JSON, \A c \in JSON : Nesting[c] < Nesting[p] => c \in T,
             NEW b \in JSON, merge[p][b] \in JSON, rfc7386[p][b] \in JSON
      PROVE  DropNullFields(merge[p][b]) = DropNullFields(rfc7386[p][b])
  <2> DEFINE m == merge[p][b]
             r == rfc7386[p][b]
             D == Kept(Fields(b), p)
             live(f) == {x \in DOMAIN f : f[x] # Null}
  <2>1. CASE ~IsObj(p)
    BY <2>1, MergeOf, RFCOf
  <2>2. CASE IsObj(p)
    <3>1. IsObj(m) /\ m.f = MergedFields(b, p)
      BY <2>2, MergeOf, ObjectOf
    <3>2. IsObj(r) /\ r.f = RFCFields(b, p)
      BY <2>2, RFCOf, ObjectOf
    <3> HIDE DEF m, r
    <3>3. m \in JSON /\ r \in JSON
      BY <1>1 DEF m, r
    <3>4. ASSUME NEW k \in D
          PROVE  (m.f[k] # Null <=> r.f[k] # Null) /\ DropNullFields(m.f[k]) = DropNullFields(r.f[k])
      <4>0. m.f[k] \in JSON /\ r.f[k] \in JSON /\ Null \in JSON
        BY <3>1, <3>2, <3>3, Held, JsonAssumption DEF Fields, MergedFields, RFCFields
      <4>1. CASE k \notin DOMAIN p.f
        BY <3>1, <3>2, <4>1 DEF MergedFields, RFCFields
      <4>2. CASE k \in DOMAIN p.f
        <5>1. p.f[k] \in JSON /\ Nesting[p.f[k]] < Nesting[p]
          BY <2>2, <4>2, Held DEF Fields
        <5>2. p.f[k] \in T /\ p.f[k] # Null
          BY <1>1, <4>2, <5>1 DEF Kept
        <5>3. CASE k \in DOMAIN Fields(b)
          <6>1. Fields(b)[k] \in JSON
            BY <5>3, Held
          <6>2. m.f[k] = merge[p.f[k]][Fields(b)[k]] /\ r.f[k] = rfc7386[p.f[k]][Fields(b)[k]]
            BY <3>1, <3>2, <4>2, <5>3 DEF MergedFields, RFCFields
          <6>3. m.f[k] # Null /\ r.f[k] # Null
            BY <5>1, <5>2, <6>1, <6>2, MergeNull
          <6>4. DropNullFields(m.f[k]) = DropNullFields(r.f[k])
            BY <4>0, <5>2, <6>1, <6>2
          <6> QED BY <6>3, <6>4
        <5>4. CASE k \notin DOMAIN Fields(b)
          <6>1. m.f[k] = p.f[k] /\ r.f[k] = rfc7386[p.f[k]][Null]
            BY <3>1, <3>2, <4>2, <5>4 DEF MergedFields, RFCFields
          <6>2. m.f[k] # Null /\ r.f[k] # Null
            BY <4>0, <5>1, <5>2, <6>1, MergeNull
          <6> QED BY <4>0, <5>1, <6>1, <6>2, RFCOnNull
        <5> QED BY <5>3, <5>4
      <4> QED BY <4>1, <4>2
    <3>5. DOMAIN m.f = D /\ DOMAIN r.f = D
      BY <3>1, <3>2 DEF MergedFields, RFCFields
    <3> HIDE DEF D
    <3>6. live(m.f) = live(r.f) /\ live(m.f) \subseteq D
      BY <3>4, <3>5
    <3>7. DropNullFields(m) = Obj([k \in live(m.f) |-> DropNullFields(m.f[k])])
      BY <3>1, <3>3, DropOf
    <3>8. DropNullFields(r) = Obj([k \in live(r.f) |-> DropNullFields(r.f[k])])
      BY <3>2, <3>3, DropOf
    <3>9. [k \in live(m.f) |-> DropNullFields(m.f[k])] = [k \in live(r.f) |-> DropNullFields(r.f[k])]
      <4> HIDE DEF live
      <4> QED BY <3>4, <3>6
    <3> QED BY <3>7, <3>8, <3>9 DEF m, r
  <2> QED BY <2>1, <2>2
<1>2. T = JSON
  <2>1. \A p \in JSON : (\A c \in JSON : Nesting[c] < Nesting[p] => c \in T) => p \in T
    BY <1>1
  <2>2. T \in SUBSET JSON
    OBVIOUS
  <2> HIDE DEF T
  <2> QED BY <2>1, <2>2, JsonInduction
<1> QED BY <1>2

\* A value without null fields: nor do its fields have any.
LEMMA CleanFields ==
  ASSUME NEW b \in JSON, DropNullFields(b) = b, NEW k \in DOMAIN Fields(b)
  PROVE  Fields(b)[k] # Null /\ DropNullFields(Fields(b)[k]) = Fields(b)[k]
<1>1. IsObj(b) /\ Fields(b) = b.f
  BY DEF Fields, NoFields
<1> DEFINE f == [n \in {x \in DOMAIN b.f : b.f[x] # Null} |-> DropNullFields(b.f[n])]
<1>2. b = Obj(f)
  BY <1>1, DropOf
<1>3. b.f = f
  <2> HIDE DEF f
  <2> QED BY <1>2, ObjectOf
<1> QED BY <1>1, <1>3

\* MergePatch of RFC 7386 sets no field to null: what it makes of a value
\* without null fields has none.
LEMMA RFCClean ==
  \A p \in JSON : \A b \in JSON : rfc7386[p][b] \in JSON /\ DropNullFields(b) = b =>
    DropNullFields(rfc7386[p][b]) = rfc7386[p][b]
<1> DEFINE T == {p \in JSON : \A b \in JSON : rfc7386[p][b] \in JSON /\ DropNullFields(b) = b =>
                   DropNullFields(rfc7386[p][b]) = rfc7386[p][b]}
<1>1. ASSUME NEW p \in JSON, \A c \in JSON : Nesting[c] < Nesting[p] => c \in T,
             NEW b \in JSON, rfc7386[p][b] \in JSON, DropNullFields(b) = b
      PROVE  DropNullFields(rfc7386[p][b]) = rfc7386[p][b]
  <2> DEFINE r == rfc7386[p][b]
             D == Kept(Fields(b), p)
  <2>1. CASE ~IsObj(p)
    BY <1>1, <2>1, RFCOf, DropOf
  <2>2. CASE IsObj(p)
    <3>1. IsObj(r) /\ r = Obj(r.f) /\ r.f = RFCFields(b, p)
      BY <2>2, RFCOf, ObjectOf
    <3> HIDE DEF r
    <3>2. r \in JSON
      BY <1>1 DEF r
    <3>3. r.f = [k \in D |-> r.f[k]]
      BY <3>1 DEF RFCFields
    <3>4. ASSUME NEW k \in D
          PROVE  r.f[k] # Null /\ DropNullFields(r.f[k]) = r.f[k]
      <4>1. r.f[k] \in JSON
        BY <3>1, <3>2, <3>3, Held DEF Fields
      <4>2. CASE k \notin DOMAIN p.f
        <5>1. k \in DOMAIN Fields(b) /\ r.f[k] = Fields(b)[k]
          BY <3>1, <4>2 DEF RFCFields, Kept
        <5> QED BY <1>1, <5>1, CleanFields
      <4>3. CASE k \in DOMAIN p.f
        <5> DEFINE t == IF k \in DOMAIN Fields(b) THEN Fields(b)[k] ELSE Null
        <5>1. Null \in JSON /\ ~IsObj(Null)
          BY JsonAssumption DEF IsObj, Null
        <5>2. t \in JSON /\ DropNullFields(t) = t
          BY <1>1, <5>1, CleanFields, Held, DropOf
        <5>3. r.f[k] = rfc7386[p.f[k]][t]
          BY <3>1, <4>3 DEF RFCFields
        <5>4. p.f[k] \in JSON /\ p.f[k] \in T /\ p.f[k] # Null
          BY <1>1, <2>2, <4>3, Held DEF Fields, Kept
        <5> HIDE DEF t
        <5>5. r.f[k] # Null
          BY <5>2, <5>3, <5>4, MergeNull
        <5> QED BY <4>1, <5>2, <5>3, <5>4, <5>5
      <4> QED BY <4>2, <4>3
    <3>5. {x \in DOMAIN r.f : r.f[x] # Null} = D
      BY <3>3, <3>4
    <3>6. DropNullFields(r) = Obj([k \in D |-> DropNullFields(r.f[k])])
      BY <3>1, <3>2, <3>5, DropOf
    <3>7. [k \in D |-> DropNullFields(r.f[k])] = [k \in D |-> r.f[k]]
      BY <3>4
    <3> QED BY <3>1, <3>3, <3>6, <3>7 DEF r
  <2> QED BY <2>1, <2>2
<1>2. T = JSON
  <2>1. \A p \in JSON : (\A c \in JSON : Nesting[c] < Nesting[p] => c \in T) => p \in T
    BY <1>1
  <2>2. T \in SUBSET JSON
    OBVIOUS
  <2> HIDE DEF T
  <2> QED BY <2>1, <2>2, JsonInduction
<1> QED BY <1>2

-----------------------------------------------------------------------------
(* What a patch may not bring *)

\* The body of the recursion that collects what mist_configured says, and where.
AuthorityBody(g, j) ==
  (UNION {Under(k, g[Fields(j)[k]]) : k \in DOMAIN Fields(j)}) \cup
  {<< <<>>, Fields(j)[k]>> : k \in DOMAIN Fields(j) \cap {MIST_CONFIGURED}} \cup
  (UNION {Under("item", g[Elements(j)[i]]) : i \in DOMAIN Elements(j)})
ByAuthority == INSTANCE RankedRecursion WITH S <- JSON, Rank <- Depth, Body <- AuthorityBody

\* The authority in a value is that of its fields, of its items, and its own.
LEMMA AuthorityOf ==
  ASSUME NEW j \in JSON
  PROVE  Authority(j) =
           (UNION {Under(k, Authority(Fields(j)[k])) : k \in DOMAIN Fields(j)}) \cup
           {<< <<>>, Fields(j)[k]>> : k \in DOMAIN Fields(j) \cap {MIST_CONFIGURED}} \cup
           (UNION {Under("item", Authority(Elements(j)[i])) : i \in DOMAIN Elements(j)})
<1>1. ByAuthority!Local
  <2> SUFFICES ASSUME NEW q \in JSON, NEW g, NEW h,
                      \A y \in JSON : Depth(y) < Depth(q) => g[y] = h[y]
               PROVE  AuthorityBody(g, q) = AuthorityBody(h, q)
    BY DEF ByAuthority!Local
  <2>1. \A k \in DOMAIN Fields(q) : g[Fields(q)[k]] = h[Fields(q)[k]]
    BY Held DEF Depth
  <2>2. \A i \in DOMAIN Elements(q) : g[Elements(q)[i]] = h[Elements(q)[i]]
    BY Held DEF Depth
  <2> QED BY <2>1, <2>2 DEF AuthorityBody
<1>2. ByAuthority!Ranked
  BY NestingRanks DEF ByAuthority!Ranked, ByParts!Ranked
<1>3. \E f : f = [q \in JSON |-> AuthorityBody(f, q)]
  BY <1>1, <1>2, ByAuthority!RecursionDefines
<1>4. authority = CHOOSE f : f = [q \in JSON |-> AuthorityBody(f, q)]
  BY DEF authority, AuthorityBody
<1>5. authority[j] = AuthorityBody(authority, j)
  BY <1>3, <1>4
<1> QED BY <1>5 DEF AuthorityBody, Authority

\* The same, for one statement of authority.
LEMMA AuthorityIn ==
  ASSUME NEW j \in JSON, NEW a
  PROVE  a \in Authority(j) <=>
           \/ \E k \in DOMAIN Fields(j) : a \in Under(k, Authority(Fields(j)[k]))
           \/ \E k \in DOMAIN Fields(j) \cap {MIST_CONFIGURED} : a = << <<>>, Fields(j)[k]>>
           \/ \E i \in DOMAIN Elements(j) : a \in Under("item", Authority(Elements(j)[i]))
<1> DEFINE A == {Under(k, Authority(Fields(j)[k])) : k \in DOMAIN Fields(j)}
           B == {<< <<>>, Fields(j)[k]>> : k \in DOMAIN Fields(j) \cap {MIST_CONFIGURED}}
           C == {Under("item", Authority(Elements(j)[i])) : i \in DOMAIN Elements(j)}
<1>1. Authority(j) = (UNION A) \cup B \cup (UNION C)
  BY AuthorityOf
<1>2. a \in (UNION A) <=> \E k \in DOMAIN Fields(j) : a \in Under(k, Authority(Fields(j)[k]))
  BY Zenon
<1>3. a \in B <=> \E k \in DOMAIN Fields(j) \cap {MIST_CONFIGURED} : a = << <<>>, Fields(j)[k]>>
  BY Zenon
<1>4. a \in (UNION C) <=> \E i \in DOMAIN Elements(j) : a \in Under("item", Authority(Elements(j)[i]))
  BY Zenon
<1> HIDE DEF A, B, C
<1>5. a \in Authority(j) <=> a \in (UNION A) \/ a \in B \/ a \in (UNION C)
  BY <1>1, Zenon
<1> QED BY <1>2, <1>3, <1>4, <1>5, Zenon

\* What a value holds is among its parts, and so is what that holds.
LEMMA PartsDown ==
  ASSUME NEW j \in JSON
  PROVE  j \in Parts(j) /\ \A c \in Children(j) : Parts(c) \subseteq Parts(j)
BY PartsOf

\* Every part of a value is at hand.
LEMMA PartsAtHand == \A j \in JSON : Parts(j) \subseteq JSON
<1> DEFINE T == {j \in JSON : Parts(j) \subseteq JSON}
<1>1. \A j \in JSON : (\A c \in JSON : Nesting[c] < Nesting[j] => c \in T) => j \in T
  <2> SUFFICES ASSUME NEW j \in JSON, \A c \in JSON : Nesting[c] < Nesting[j] => c \in T
               PROVE  Parts(j) \subseteq JSON
    OBVIOUS
  <2>1. \A c \in Children(j) : Parts(c) \subseteq JSON
    BY Held
  <2> QED BY <2>1, PartsOf
<1>2. T \in SUBSET JSON
  OBVIOUS
<1> HIDE DEF T
<1>3. T = JSON
  BY <1>1, <1>2, JsonInduction
<1> QED BY <1>3 DEF T

\* Without mist_configured there is no authority in a value.
LEMMA NoAuthority ==
  \A p \in JSON : ~RejectConfigAuthority(p) => Authority(p) = {}
<1> DEFINE T == {p \in JSON : ~RejectConfigAuthority(p) => Authority(p) = {}}
<1>1. ASSUME NEW p \in JSON, \A c \in JSON : Nesting[c] < Nesting[p] => c \in T,
             ~RejectConfigAuthority(p)
      PROVE  Authority(p) = {}
  <2>1. \A c \in Children(p) : Authority(c) = {}
    <3> SUFFICES ASSUME NEW c \in Children(p) PROVE Authority(c) = {}
      OBVIOUS
    <3>1. c \in JSON /\ c \in T
      BY <1>1, Held
    <3>2. ~RejectConfigAuthority(c)
      BY <1>1, PartsDown DEF RejectConfigAuthority
    <3> QED BY <3>1, <3>2
  <2>2. DOMAIN Fields(p) \cap {MIST_CONFIGURED} = {}
    BY <1>1, PartsDown DEF RejectConfigAuthority
  <2>3. \A k : Under(k, {}) = {}
    BY DEF Under
  <2>4. \A k \in DOMAIN Fields(p) : Under(k, Authority(Fields(p)[k])) = {}
    BY <2>1, <2>3, Held
  <2>5. \A i \in DOMAIN Elements(p) : Under("item", Authority(Elements(p)[i])) = {}
    BY <2>1, <2>3, Held
  <2> QED BY <2>2, <2>4, <2>5, AuthorityOf
<1>2. T = JSON
  <2>1. \A p \in JSON : (\A c \in JSON : Nesting[c] < Nesting[p] => c \in T) => p \in T
    BY <1>1
  <2>2. T \in SUBSET JSON
    OBVIOUS
  <2> HIDE DEF T
  <2> QED BY <2>1, <2>2, JsonInduction
<1> QED BY <1>2

\* A patch without mist_configured adds no authority and changes none.
LEMMA MergeAuthority ==
  \A p \in JSON : ~RejectConfigAuthority(p) =>
    \A b \in JSON : merge[p][b] \in JSON => Authority(merge[p][b]) \subseteq Authority(b)
<1> DEFINE T == {p \in JSON : ~RejectConfigAuthority(p) =>
                   \A b \in JSON : merge[p][b] \in JSON => Authority(merge[p][b]) \subseteq Authority(b)}
<1>1. ASSUME NEW p \in JSON, \A c \in JSON : Nesting[c] < Nesting[p] => c \in T,
             ~RejectConfigAuthority(p), NEW b \in JSON, merge[p][b] \in JSON
      PROVE  Authority(merge[p][b]) \subseteq Authority(b)
  <2> DEFINE m == merge[p][b]
  <2>1. CASE ~IsObj(p)
    BY <1>1, <2>1, MergeOf, NoAuthority
  <2>2. CASE IsObj(p)
    <3>1. Fields(m) = MergedFields(b, p) /\ ~IsArr(m)
      BY <2>2, MergeOf, ObjectOf
    <3>2. m \in JSON
      BY <1>1
    <3> HIDE DEF m
    <3>3. MIST_CONFIGURED \notin DOMAIN p.f
      BY <1>1, <2>2, PartsDown DEF RejectConfigAuthority, Fields
    <3>4. ASSUME NEW k \in DOMAIN Fields(m), NEW a \in Under(k, Authority(Fields(m)[k]))
          PROVE  a \in Authority(b)
      <4>1. k \in DOMAIN p.f \/ k \in DOMAIN Fields(b)
        BY <2>2, <3>1 DEF MergedFields, Kept
      <4>2. ASSUME k \in DOMAIN Fields(b), Authority(Fields(m)[k]) \subseteq Authority(Fields(b)[k])
            PROVE  a \in Authority(b)
        <5>1. a \in Under(k, Authority(Fields(b)[k]))
          BY <4>2 DEF Under
        <5> QED BY <4>2, <5>1, AuthorityOf
      <4>3. CASE k \notin DOMAIN p.f
        <5>1. Fields(m)[k] = Fields(b)[k]
          BY <3>1, <4>3 DEF MergedFields
        <5> QED BY <4>1, <4>2, <4>3, <5>1
      <4>4. CASE k \in DOMAIN p.f
        <5>1. /\ p.f[k] \in JSON /\ p.f[k] \in Children(p)
              /\ Nesting[p.f[k]] < Nesting[p]
          BY <2>2, <4>4, Held DEF Fields
        <5>2. p.f[k] \in T /\ ~RejectConfigAuthority(p.f[k])
          BY <1>1, <5>1, PartsDown DEF RejectConfigAuthority
        <5>3. CASE k \in DOMAIN Fields(b)
          <6>1. Fields(m)[k] = merge[p.f[k]][Fields(b)[k]]
            BY <3>1, <4>4, <5>3 DEF MergedFields
          <6>2. Fields(b)[k] \in JSON /\ Fields(m)[k] \in JSON
            BY <3>2, <5>3, Held
          <6> QED BY <4>2, <5>2, <5>3, <6>1, <6>2
        <5>4. CASE k \notin DOMAIN Fields(b)
          <6>1. Fields(m)[k] = p.f[k]
            BY <3>1, <4>4, <5>4 DEF MergedFields
          <6>2. Authority(Fields(m)[k]) = {}
            BY <5>1, <5>2, <6>1, NoAuthority
          <6> QED BY <6>2 DEF Under
        <5> QED BY <5>3, <5>4
      <4> QED BY <4>3, <4>4
    <3>5. ASSUME NEW k \in DOMAIN Fields(m) \cap {MIST_CONFIGURED}
          PROVE  << <<>>, Fields(m)[k]>> \in Authority(b)
      <4>1. k \in DOMAIN Fields(b) \cap {MIST_CONFIGURED} /\ Fields(m)[k] = Fields(b)[k]
        BY <2>2, <3>1, <3>3 DEF MergedFields, Kept
      <4> DEFINE a == << <<>>, Fields(m)[k]>>
      <4>2. \E n \in DOMAIN Fields(b) \cap {MIST_CONFIGURED} : a = << <<>>, Fields(b)[n]>>
        BY <4>1
      <4> HIDE DEF a
      <4>3. a \in Authority(b)
        BY <4>2, AuthorityIn, Zenon
      <4> QED BY <4>3 DEF a
    <3>6. DOMAIN Elements(m) = {}
      BY <3>1 DEF Elements
    <3>7. Authority(m) \subseteq Authority(b)
      <4> SUFFICES ASSUME NEW a \in Authority(m) PROVE a \in Authority(b)
        OBVIOUS
      <4>1. \/ \E k \in DOMAIN Fields(m) : a \in Under(k, Authority(Fields(m)[k]))
            \/ \E k \in DOMAIN Fields(m) \cap {MIST_CONFIGURED} : a = << <<>>, Fields(m)[k]>>
        BY <3>2, <3>6, AuthorityIn, Zenon
      <4> QED BY <3>4, <3>5, <4>1
    <3> QED BY <3>7 DEF m
  <2> QED BY <2>1, <2>2
<1>2. T = JSON
  <2>1. \A p \in JSON : (\A c \in JSON : Nesting[c] < Nesting[p] => c \in T) => p \in T
    BY <1>1
  <2>2. T \in SUBSET JSON
    OBVIOUS
  <2> HIDE DEF T
  <2> QED BY <2>1, <2>2, JsonInduction
<1> QED BY <1>2

\* A scalar in a merge was in the object or in the patch.
LEMMA MergeScalar ==
  ASSUME NEW x, ~IsObj(x)
  PROVE  \A p \in JSON : x \notin Parts(p) =>
           \A b \in JSON : merge[p][b] \in JSON /\ x \in Parts(merge[p][b]) => x \in Parts(b)
<1> DEFINE T == {p \in JSON : x \notin Parts(p) =>
                   \A b \in JSON : merge[p][b] \in JSON /\ x \in Parts(merge[p][b]) => x \in Parts(b)}
<1>1. ASSUME NEW p \in JSON, \A c \in JSON : Nesting[c] < Nesting[p] => c \in T,
             x \notin Parts(p), NEW b \in JSON, merge[p][b] \in JSON, x \in Parts(merge[p][b])
      PROVE  x \in Parts(b)
  <2> DEFINE m == merge[p][b]
  <2>1. IsObj(p)
    BY <1>1, MergeOf
  <2>2. IsObj(m) /\ ~IsArr(m) /\ Fields(m) = MergedFields(b, p)
    BY <2>1, MergeOf, ObjectOf
  <2>3. m \in JSON /\ x \in Parts(m)
    BY <1>1
  <2> HIDE DEF m
  <2>4. PICK k \in DOMAIN Fields(m) : x \in Parts(Fields(m)[k])
    <3>1. Elements(m) = <<>>
      BY <2>2 DEF Elements
    <3>2. PICK c \in Children(m) : x \in Parts(c)
      BY <2>2, <2>3, PartsOf
    <3> QED BY <3>1, <3>2 DEF Children
  <2>5. CASE k \notin DOMAIN p.f
    <3>1. k \in DOMAIN Fields(b) /\ Fields(m)[k] = Fields(b)[k]
      BY <2>2, <2>5 DEF MergedFields, Kept
    <3> QED BY <2>4, <3>1, Held, PartsDown
  <2>6. CASE k \in DOMAIN p.f
    <3>1. p.f[k] \in JSON /\ p.f[k] \in Children(p) /\ Nesting[p.f[k]] < Nesting[p]
      BY <2>1, <2>6, Held DEF Fields
    <3>2. p.f[k] \in T /\ x \notin Parts(p.f[k])
      BY <1>1, <3>1, PartsDown
    <3>3. CASE k \in DOMAIN Fields(b)
      <4>1. Fields(m)[k] = merge[p.f[k]][Fields(b)[k]]
        BY <2>2, <2>6, <3>3 DEF MergedFields
      <4>2. Fields(b)[k] \in JSON /\ Fields(b)[k] \in Children(b) /\ Fields(m)[k] \in JSON
        BY <2>3, <3>3, Held
      <4>3. x \in Parts(Fields(b)[k])
        BY <2>4, <3>2, <4>1, <4>2
      <4> QED BY <4>2, <4>3, PartsDown
    <3>4. CASE k \notin DOMAIN Fields(b)
      <4>1. Fields(m)[k] = p.f[k]
        BY <2>2, <2>6, <3>4 DEF MergedFields
      <4> QED BY <2>4, <3>2, <4>1
    <3> QED BY <3>3, <3>4
  <2> QED BY <2>5, <2>6
<1>2. T = JSON
  <2>1. \A p \in JSON : (\A c \in JSON : Nesting[c] < Nesting[p] => c \in T) => p \in T
    BY <1>1
  <2>2. T \in SUBSET JSON
    OBVIOUS
  <2> HIDE DEF T
  <2> QED BY <2>1, <2>2, JsonInduction
<1> QED BY <1>2

-----------------------------------------------------------------------------
(* Staged bodies *)

\* What is staged is the merge of a patch that was not refused.
PlanInv ==
  /\ before \in Befores /\ patch \in Patches
  /\ pc = "staged" =>
       /\ after = Merge(before, patch)
       /\ ~RejectConfigAuthority(patch) /\ ~RejectRedactionPlaceholder(patch)

\* Stage merges only after both checks of the patch, so PlanInv holds throughout.
LEMMA PlanHeld == Spec => []PlanInv
<1>1. Init => PlanInv
  BY DEF Init, PlanInv
<1>2. PlanInv /\ [Next]_vars => PlanInv'
  BY DEF PlanInv, Next, Refuse, Stage, vars
<1> QED BY <1>1, <1>2, PTL DEF Spec

\* A body that is staged is the merge of the patch into what was read, as RFC
\* 7386 merges it, but for null fields inside what the patch adds, which
\* merge_patch keeps.
THEOREM MergedAsRFC7386 == Spec => []StagedIsMergePatch
<1>1. PlanInv => StagedIsMergePatch
  BY MergeAssumption, MergeIsRFC, RFCClean DEF PlanInv, StagedIsMergePatch, Merge, RFC7386
<1> QED BY <1>1, PlanHeld, PTL

\* Whatever the patch, a staged body states no device to be managed by Mist that
\* the one read did not state there, and holds no redaction placeholder that was
\* not in it: both are refused before the merge, which invents nothing.
THEOREM NoRefusedContent == Spec => []RefusedNeverStaged
<1>1. PlanInv => RefusedNeverStaged
  <2> SUFFICES ASSUME PlanInv, pc = "staged"
               PROVE  /\ Authority(after) \subseteq Authority(before)
                      /\ REDACTION_PLACEHOLDER \in Parts(after) => REDACTION_PLACEHOLDER \in Parts(before)
    BY DEF RefusedNeverStaged
  <2>1. /\ before \in JSON /\ patch \in JSON /\ after = merge[patch][before] /\ after \in JSON
        /\ ~RejectConfigAuthority(patch) /\ REDACTION_PLACEHOLDER \notin Parts(patch)
    BY MergeAssumption DEF PlanInv, Merge, RejectRedactionPlaceholder
  <2>2. Authority(after) \subseteq Authority(before)
    BY <2>1, MergeAuthority
  <2>3. ~IsObj(REDACTION_PLACEHOLDER)
    BY DEF IsObj, REDACTION_PLACEHOLDER, Str
  <2> QED BY <2>1, <2>2, <2>3, MergeScalar
<1> QED BY <1>1, PlanHeld, PTL

-----------------------------------------------------------------------------
(* Bounds *)

\* The body of validate_value_bounds.
BoundsBody(g, j) ==
  [depth \in Nat |->
     /\ depth <= MAX_VALUE_DEPTH
     /\ Members(j) <= MAX_VALUE_MEMBERS
     /\ \A c \in Children(j) : g[c][depth + 1]]
ByBounds == INSTANCE RankedRecursion WITH S <- JSON, Rank <- Depth, Body <- BoundsBody

\* One step of validate_value_bounds: its own depth and members, then its children.
LEMMA BoundsOf ==
  ASSUME NEW j \in JSON, NEW depth \in Nat
  PROVE  ValidateValueBounds(j, depth) <=>
           /\ depth <= MAX_VALUE_DEPTH
           /\ Members(j) <= MAX_VALUE_MEMBERS
           /\ \A c \in Children(j) : ValidateValueBounds(c, depth + 1)
<1>1. ByBounds!Local
  <2> SUFFICES ASSUME NEW q \in JSON, NEW g, NEW h,
                      \A y \in JSON : Depth(y) < Depth(q) => g[y] = h[y]
               PROVE  BoundsBody(g, q) = BoundsBody(h, q)
    BY DEF ByBounds!Local
  <2>1. \A c \in Children(q) : g[c] = h[c]
    BY Held DEF Depth
  <2> QED BY <2>1 DEF BoundsBody
<1>2. ByBounds!Ranked
  BY NestingRanks DEF ByBounds!Ranked, ByParts!Ranked
<1>3. \E f : f = [q \in JSON |-> BoundsBody(f, q)]
  BY <1>1, <1>2, ByBounds!RecursionDefines
<1>4. validateValueBounds = CHOOSE f : f = [q \in JSON |-> BoundsBody(f, q)]
  BY DEF validateValueBounds, BoundsBody
<1>5. validateValueBounds[j] = BoundsBody(validateValueBounds, j)
  BY <1>3, <1>4
<1>6. validateValueBounds[j][depth] = BoundsBody(validateValueBounds, j)[depth]
  BY <1>5
<1> QED BY <1>6 DEF BoundsBody, ValidateValueBounds

\* The body of the recursion that measures how deep a value nests.
HeightBody(g, j) ==
  IF Children(j) = {} THEN 0
  ELSE 1 + CHOOSE h \in {g[c] : c \in Children(j)} : \A c \in Children(j) : g[c] <= h
ByHeight == INSTANCE RankedRecursion WITH S <- JSON, Rank <- Depth, Body <- HeightBody

\* One step of the measure.
LEMMA HeightOf ==
  ASSUME NEW j \in JSON
  PROVE  height[j] = HeightBody(height, j)
<1>1. ByHeight!Local
  <2> SUFFICES ASSUME NEW q \in JSON, NEW g, NEW h,
                      \A y \in JSON : Depth(y) < Depth(q) => g[y] = h[y]
               PROVE  HeightBody(g, q) = HeightBody(h, q)
    BY DEF ByHeight!Local
  <2>1. \A c \in Children(q) : g[c] = h[c]
    BY Held DEF Depth
  <2>2. {g[c] : c \in Children(q)} = {h[c] : c \in Children(q)}
    BY <2>1
  <2>3. \A n : (\A c \in Children(q) : g[c] <= n) <=> \A c \in Children(q) : h[c] <= n
    BY <2>1
  <2> DEFINE G == {g[c] : c \in Children(q)}
             H == {h[c] : c \in Children(q)}
             P(n) == \A c \in Children(q) : g[c] <= n
             Q(n) == \A c \in Children(q) : h[c] <= n
             top(A, R(_)) == CHOOSE n \in A : R(n)
  <2>4. top(G, P) = top(H, Q)
    <3>1. G = H /\ \A n : P(n) <=> Q(n)
      BY <2>2, <2>3
    <3> HIDE DEF G, H, P, Q
    <3> QED BY <3>1
  <2>5. /\ HeightBody(g, q) = IF Children(q) = {} THEN 0 ELSE 1 + top(G, P)
        /\ HeightBody(h, q) = IF Children(q) = {} THEN 0 ELSE 1 + top(H, Q)
    BY Zenon DEF HeightBody
  <2> DEFINE a == top(G, P)
             b == top(H, Q)
  <2>6. /\ HeightBody(g, q) = IF Children(q) = {} THEN 0 ELSE 1 + a
        /\ HeightBody(h, q) = IF Children(q) = {} THEN 0 ELSE 1 + b
        /\ a = b
    BY <2>4, <2>5
  <2> HIDE DEF a, b
  <2> QED BY <2>6
<1>2. ByHeight!Ranked
  BY NestingRanks DEF ByHeight!Ranked, ByParts!Ranked
<1>3. \E f : f = [q \in JSON |-> HeightBody(f, q)]
  BY <1>1, <1>2, ByHeight!RecursionDefines
<1>4. height = CHOOSE f : f = [q \in JSON |-> HeightBody(f, q)]
  BY DEF height, HeightBody
<1> QED BY <1>3, <1>4

\* A set of numbers with an upper bound has a greatest one.
LEMMA GreatestNatural ==
  ASSUME NEW N \in SUBSET Nat, N # {}, NEW n \in Nat, \A m \in N : m <= n
  PROVE  \E h \in N : \A m \in N : m <= h
<1> DEFINE D == {n - m : m \in N}
<1>1. D \in SUBSET Nat /\ D # {}
  <2>1. \A m \in N : n - m \in Nat
    OBVIOUS
  <2> QED BY <2>1
<1>2. PICK d \in D : \A e \in D : d <= e
  <2> HIDE DEF D
  <2> QED BY <1>1, ByParts!LeastNatural
<1>3. PICK h \in N : d = n - h
  OBVIOUS
<1>4. ASSUME NEW m \in N PROVE m <= h
  <2>1. n - h <= n - m
    BY <1>2, <1>3
  <2>2. m \in Nat /\ h \in Nat
    OBVIOUS
  <2> HIDE DEF D
  <2> QED BY <2>1, <2>2
<1> QED BY <1>4

\* A value is one higher than the highest that it holds.
LEMMA Heights ==
  \A j \in JSON :
    /\ height[j] \in Nat /\ height[j] <= Nesting[j]
    /\ Children(j) = {} => height[j] = 0
    /\ \A c \in Children(j) : height[c] \in Nat /\ height[c] < height[j]
    /\ Children(j) # {} => \E c \in Children(j) : height[j] = height[c] + 1
<1> DEFINE T == {j \in JSON :
    /\ height[j] \in Nat /\ height[j] <= Nesting[j]
    /\ Children(j) = {} => height[j] = 0
    /\ \A c \in Children(j) : height[c] \in Nat /\ height[c] < height[j]
    /\ Children(j) # {} => \E c \in Children(j) : height[j] = height[c] + 1}
<1>1. ASSUME NEW j \in JSON, \A c \in JSON : Nesting[c] < Nesting[j] => c \in T
      PROVE  j \in T
  <2>1. CASE Children(j) = {}
    <3>1. height[j] = 0
      BY <2>1, HeightOf DEF HeightBody
    <3> QED BY <2>1, <3>1, Held
  <2>2. CASE Children(j) # {}
    <3> DEFINE N == {height[c] : c \in Children(j)}
               top == CHOOSE h \in N : \A c \in Children(j) : height[c] <= h
    <3>1. ASSUME NEW c \in Children(j)
          PROVE  height[c] \in Nat /\ height[c] < Nesting[j]
      <4>1. c \in T /\ c \in JSON /\ Nesting[c] < Nesting[j] /\ Nesting[j] \in Nat
        BY <1>1, Held
      <4>2. height[c] \in Nat /\ height[c] <= Nesting[c] /\ Nesting[c] \in Nat
        BY <4>1, Held
      <4> QED BY <4>1, <4>2
    <3>2. N \in SUBSET Nat /\ N # {} /\ Nesting[j] \in Nat /\ \A m \in N : m <= Nesting[j]
      BY <2>2, <3>1, Held
    <3>3. \E h \in N : \A m \in N : m <= h
      <4> HIDE DEF N
      <4> QED BY <3>2, GreatestNatural
    <3>4. \E h \in N : \A c \in Children(j) : height[c] <= h
      BY <3>3
    <3>5. top \in N /\ \A c \in Children(j) : height[c] <= top
      <4> HIDE DEF N
      <4> QED BY <3>4
    <3>6. PICK c \in Children(j) : top = height[c]
      <4> HIDE DEF top
      <4> QED BY <3>5
    <3>7. height[j] = 1 + top
      BY <2>2, HeightOf DEF HeightBody
    <3> HIDE DEF top, N
    <3>8. top \in Nat /\ top < Nesting[j] /\ Nesting[j] \in Nat
      BY <3>1, <3>6, Held
    <3>9. \A d \in Children(j) : height[d] \in Nat /\ height[d] < 1 + top
      BY <3>1, <3>5, <3>8
    <3>10. height[j] \in Nat /\ height[j] <= Nesting[j] /\ height[j] = height[c] + 1
      BY <3>6, <3>7, <3>8
    <3> QED BY <2>2, <3>7, <3>9, <3>10
  <2> QED BY <2>1, <2>2
<1>2. T = JSON
  <2>1. T \in SUBSET JSON
    OBVIOUS
  <2> HIDE DEF T
  <2> QED BY <1>1, <2>1, JsonInduction
<1> QED BY <1>2

\* Every container has a number of members.
LEMMA MembersCounted == \A j \in JSON : Members(j) \in Nat
<1> SUFFICES ASSUME NEW j \in JSON PROVE Members(j) \in Nat
  OBVIOUS
<1>1. CASE IsArr(j)
  BY <1>1, JsonAssumption DEF Members
<1>2. CASE ~IsArr(j)
  <2>1. IsFiniteSet(DOMAIN Fields(j))
    <3>1. IsFiniteSet({}) /\ DOMAIN NoFields = {}
      BY FS_EmptySet DEF NoFields
    <3> QED BY <3>1, JsonAssumption DEF Fields
  <2> QED BY <1>2, <2>1, FS_CardinalityType DEF Members
<1> QED BY <1>1, <1>2

\* The walk with a depth is the limit on the height and on every container.
LEMMA BoundsMet ==
  \A j \in JSON : \A d \in Nat :
    ValidateValueBounds(j, d) <=>
      d + height[j] <= MAX_VALUE_DEPTH /\ \A q \in Parts(j) : Members(q) <= MAX_VALUE_MEMBERS
<1> DEFINE T == {j \in JSON : \A d \in Nat :
    ValidateValueBounds(j, d) <=>
      d + height[j] <= MAX_VALUE_DEPTH /\ \A q \in Parts(j) : Members(q) <= MAX_VALUE_MEMBERS}
<1>1. ASSUME NEW j \in JSON, \A c \in JSON : Nesting[c] < Nesting[j] => c \in T, NEW d \in Nat
      PROVE  ValidateValueBounds(j, d) <=>
               d + height[j] <= MAX_VALUE_DEPTH /\ \A q \in Parts(j) : Members(q) <= MAX_VALUE_MEMBERS
  <2>1. ASSUME NEW c \in Children(j)
        PROVE  ValidateValueBounds(c, d + 1) <=>
                 d + 1 + height[c] <= MAX_VALUE_DEPTH /\ \A q \in Parts(c) : Members(q) <= MAX_VALUE_MEMBERS
    <3>1. c \in T /\ d + 1 \in Nat
      BY <1>1, Held
    <3> QED BY <3>1
  <2>2. ASSUME ValidateValueBounds(j, d)
        PROVE  d + height[j] <= MAX_VALUE_DEPTH /\ \A q \in Parts(j) : Members(q) <= MAX_VALUE_MEMBERS
    <3>1. /\ d <= MAX_VALUE_DEPTH /\ Members(j) <= MAX_VALUE_MEMBERS
          /\ \A c \in Children(j) : ValidateValueBounds(c, d + 1)
      BY <2>2, BoundsOf
    <3>2. d + height[j] <= MAX_VALUE_DEPTH
      <4>1. CASE Children(j) = {}
        <5>1. height[j] = 0
          BY <4>1, Heights
        <5> QED BY <3>1, <5>1
      <4>2. CASE Children(j) # {}
        <5>1. PICK c \in Children(j) : height[j] = height[c] + 1 /\ height[c] \in Nat
          BY <4>2, Heights
        <5>2. d + 1 + height[c] <= MAX_VALUE_DEPTH
          BY <2>1, <3>1
        <5> QED BY <5>1, <5>2
      <4> QED BY <4>1, <4>2
    <3>3. ASSUME NEW q \in Parts(j) PROVE Members(q) <= MAX_VALUE_MEMBERS
      <4>1. q = j \/ \E c \in Children(j) : q \in Parts(c)
        BY PartsOf
      <4> QED BY <2>1, <3>1, <4>1
    <3> QED BY <3>2, <3>3
  <2>3. ASSUME d + height[j] <= MAX_VALUE_DEPTH, \A q \in Parts(j) : Members(q) <= MAX_VALUE_MEMBERS
        PROVE  ValidateValueBounds(j, d)
    <3>1. height[j] \in Nat
      BY Heights
    <3>2. d <= MAX_VALUE_DEPTH /\ Members(j) <= MAX_VALUE_MEMBERS
      BY <2>3, <3>1, BoundsAssumption, PartsDown
    <3>3. ASSUME NEW c \in Children(j) PROVE ValidateValueBounds(c, d + 1)
      <4>1. height[c] \in Nat /\ height[c] < height[j]
        BY Heights
      <4>2. d + 1 + height[c] <= MAX_VALUE_DEPTH
        BY <2>3, <3>1, <4>1, BoundsAssumption
      <4>3. \A q \in Parts(c) : Members(q) <= MAX_VALUE_MEMBERS
        BY <2>3, PartsDown
      <4> QED BY <2>1, <4>2, <4>3
    <3> QED BY <3>2, <3>3, BoundsOf
  <2> QED BY <2>2, <2>3
<1>2. T = JSON
  <2>1. \A p \in JSON : (\A c \in JSON : Nesting[c] < Nesting[p] => c \in T) => p \in T
    BY <1>1
  <2>2. T \in SUBSET JSON
    OBVIOUS
  <2> HIDE DEF T
  <2> QED BY <2>1, <2>2, JsonInduction
<1> QED BY <1>2

-----------------------------------------------------------------------------
(* Relaxed schemas *)

\* The body of relax_for_responses.
RelaxBody(g, j) ==
  CASE IsObj(j) -> Obj(RelaxKeywords([k \in DOMAIN j.f |-> g[j.f[k]]]))
    [] IsArr(j) -> Arr([i \in DOMAIN j.e |-> g[j.e[i]]])
    [] OTHER -> j
ByRelax == INSTANCE RankedRecursion WITH S <- JSON, Rank <- Depth, Body <- RelaxBody

\* What the walk makes of the fields, before the keywords are changed.
Walked(j) == [k \in DOMAIN Fields(j) |-> RelaxForResponses(Fields(j)[k])]

\* No value is an object and an array.
LEMMA KindsApart == \A j : ~(IsObj(j) /\ IsArr(j))
BY DEF IsObj, IsArr

\* One step of relax_for_responses: the fields first, then the keywords.
LEMMA RelaxOf ==
  ASSUME NEW j \in JSON
  PROVE  /\ IsObj(j) => RelaxForResponses(j) = Obj(RelaxKeywords(Walked(j)))
         /\ IsArr(j) => RelaxForResponses(j) = Arr([i \in DOMAIN j.e |-> RelaxForResponses(j.e[i])])
         /\ ~IsObj(j) /\ ~IsArr(j) => RelaxForResponses(j) = j
<1>1. ByRelax!Local
  <2> SUFFICES ASSUME NEW q \in JSON, NEW g, NEW h,
                      \A y \in JSON : Depth(y) < Depth(q) => g[y] = h[y]
               PROVE  RelaxBody(g, q) = RelaxBody(h, q)
    BY DEF ByRelax!Local
  <2>1. CASE IsObj(q)
    <3>1. [k \in DOMAIN q.f |-> g[q.f[k]]] = [k \in DOMAIN q.f |-> h[q.f[k]]]
      BY <2>1, Held DEF Depth, Fields
    <3> QED BY <2>1, <3>1, KindsApart DEF RelaxBody
  <2>2. CASE IsArr(q)
    <3>1. [i \in DOMAIN q.e |-> g[q.e[i]]] = [i \in DOMAIN q.e |-> h[q.e[i]]]
      BY <2>2, Held DEF Depth, Elements
    <3> QED BY <2>2, <3>1, KindsApart DEF RelaxBody
  <2>3. CASE ~IsObj(q) /\ ~IsArr(q)
    BY <2>3 DEF RelaxBody
  <2> QED BY <2>1, <2>2, <2>3
<1>2. ByRelax!Ranked
  BY NestingRanks DEF ByRelax!Ranked, ByParts!Ranked
<1>3. \E f : f = [q \in JSON |-> RelaxBody(f, q)]
  BY <1>1, <1>2, ByRelax!RecursionDefines
<1>4. relaxForResponses = CHOOSE f : f = [q \in JSON |-> RelaxBody(f, q)]
  BY DEF relaxForResponses, RelaxBody
<1>5. relaxForResponses[j] = RelaxBody(relaxForResponses, j)
  BY <1>3, <1>4
<1>6. IsObj(j) => Walked(j) = [k \in DOMAIN j.f |-> relaxForResponses[j.f[k]]]
  BY DEF Walked, Fields, RelaxForResponses
<1> QED BY <1>5, <1>6, KindsApart DEF RelaxBody, RelaxForResponses

\* The body of the validation of a value by a schema.
AcceptsBody(g, s) ==
  [v \in JSON |->
     /\ s # False /\ Typed(s, v) /\ Enumerated(s, v) /\ Complete(s, v)
     /\ \A k \in DOMAIN Fields(v) \cap DOMAIN Properties(s) : g[Properties(s)[k]][Fields(v)[k]]
     /\ Has(s, "additionalProperties") =>
          \A k \in Further(v, s) : g[Fields(s)["additionalProperties"]][Fields(v)[k]]
     /\ Has(s, "items") => \A i \in DOMAIN Elements(v) : g[Fields(s)["items"]][Elements(v)[i]]
     /\ Has(s, "anyOf") =>
          \E i \in DOMAIN Branches(s, "anyOf") : g[Branches(s, "anyOf")[i]][v]
     /\ Has(s, "oneOf") =>
          \E i \in DOMAIN Branches(s, "oneOf") :
            /\ g[Branches(s, "oneOf")[i]][v]
            /\ \A j \in DOMAIN Branches(s, "oneOf") \ {i} : ~g[Branches(s, "oneOf")[j]][v]]
ByAccepts == INSTANCE RankedRecursion WITH S <- JSON, Rank <- Depth, Body <- AcceptsBody

\* The schemas that a schema leads to are at hand and nest less.
LEMMA Subschemas ==
  ASSUME NEW s \in JSON
  PROVE  /\ \A k \in DOMAIN Fields(s) : Fields(s)[k] \in JSON /\ Nesting[Fields(s)[k]] < Nesting[s]
         /\ \A k \in DOMAIN Properties(s) : Properties(s)[k] \in JSON /\ Nesting[Properties(s)[k]] < Nesting[s]
         /\ \A u : \A i \in DOMAIN Branches(s, u) :
              Branches(s, u)[i] \in JSON /\ Nesting[Branches(s, u)[i]] < Nesting[s]
<1>1. \A k \in DOMAIN Fields(s) : Fields(s)[k] \in JSON /\ Nesting[Fields(s)[k]] < Nesting[s]
  BY Held
<1>2. ASSUME NEW k \in DOMAIN Fields(s), NEW d \in Children(Fields(s)[k])
      PROVE  d \in JSON /\ Nesting[d] < Nesting[s]
  <2> DEFINE c == Fields(s)[k]
  <2>1. c \in JSON /\ Nesting[c] < Nesting[s]
    BY Held
  <2>2. d \in JSON /\ Nesting[d] < Nesting[c]
    BY <2>1, Held
  <2>3. Nesting[d] \in Nat /\ Nesting[c] \in Nat /\ Nesting[s] \in Nat
    BY <2>1, <2>2, Held
  <2> QED BY <2>1, <2>2, <2>3
<1>3. ASSUME NEW k \in DOMAIN Properties(s)
      PROVE  Properties(s)[k] \in JSON /\ Nesting[Properties(s)[k]] < Nesting[s]
  <2>1. Has(s, "properties") /\ Properties(s) = Fields(Fields(s)["properties"])
    BY DEF Properties, NoFields
  <2>2. Properties(s)[k] \in Children(Fields(s)["properties"])
    BY <2>1, Held DEF Has
  <2> QED BY <1>2, <2>1, <2>2 DEF Has
<1>4. ASSUME NEW u, NEW i \in DOMAIN Branches(s, u)
      PROVE  Branches(s, u)[i] \in JSON /\ Nesting[Branches(s, u)[i]] < Nesting[s]
  <2>1. Has(s, u) /\ Branches(s, u) = Elements(Fields(s)[u])
    BY DEF Branches
  <2>2. Branches(s, u)[i] \in Children(Fields(s)[u])
    BY <2>1, Held DEF Has
  <2> QED BY <1>2, <2>1, <2>2 DEF Has
<1> QED BY <1>1, <1>3, <1>4

\* One step of the validation: each keyword of the schema that is there.
LEMMA AcceptsOf ==
  ASSUME NEW s \in JSON, NEW v \in JSON
  PROVE  Accepts(s, v) <=>
     /\ s # False /\ Typed(s, v) /\ Enumerated(s, v) /\ Complete(s, v)
     /\ \A k \in DOMAIN Fields(v) \cap DOMAIN Properties(s) : Accepts(Properties(s)[k], Fields(v)[k])
     /\ Has(s, "additionalProperties") =>
          \A k \in Further(v, s) : Accepts(Fields(s)["additionalProperties"], Fields(v)[k])
     /\ Has(s, "items") => \A i \in DOMAIN Elements(v) : Accepts(Fields(s)["items"], Elements(v)[i])
     /\ Has(s, "anyOf") =>
          \E i \in DOMAIN Branches(s, "anyOf") : Accepts(Branches(s, "anyOf")[i], v)
     /\ Has(s, "oneOf") =>
          \E i \in DOMAIN Branches(s, "oneOf") :
            /\ Accepts(Branches(s, "oneOf")[i], v)
            /\ \A j \in DOMAIN Branches(s, "oneOf") \ {i} : ~Accepts(Branches(s, "oneOf")[j], v)
<1>1. ByAccepts!Local
  <2> SUFFICES ASSUME NEW q \in JSON, NEW g, NEW h,
                      \A y \in JSON : Depth(y) < Depth(q) => g[y] = h[y]
               PROVE  AcceptsBody(g, q) = AcceptsBody(h, q)
    BY DEF ByAccepts!Local
  <2>1. \A k \in DOMAIN Properties(q) : g[Properties(q)[k]] = h[Properties(q)[k]]
    BY Subschemas DEF Depth
  <2>2. /\ Has(q, "additionalProperties") =>
             g[Fields(q)["additionalProperties"]] = h[Fields(q)["additionalProperties"]]
        /\ Has(q, "items") => g[Fields(q)["items"]] = h[Fields(q)["items"]]
    BY Subschemas DEF Depth, Has
  <2>3. /\ \A i \in DOMAIN Branches(q, "anyOf") : g[Branches(q, "anyOf")[i]] = h[Branches(q, "anyOf")[i]]
        /\ \A i \in DOMAIN Branches(q, "oneOf") : g[Branches(q, "oneOf")[i]] = h[Branches(q, "oneOf")[i]]
    BY Subschemas DEF Depth
  <2> QED BY <2>1, <2>2, <2>3 DEF AcceptsBody
<1>2. ByAccepts!Ranked
  BY NestingRanks DEF ByAccepts!Ranked, ByParts!Ranked
<1>3. \E f : f = [q \in JSON |-> AcceptsBody(f, q)]
  BY <1>1, <1>2, ByAccepts!RecursionDefines
<1>4. accepts = CHOOSE f : f = [q \in JSON |-> AcceptsBody(f, q)]
  BY DEF accepts, AcceptsBody
<1>5. accepts[s] = AcceptsBody(accepts, s)
  BY <1>3, <1>4
<1>6. accepts[s][v] = AcceptsBody(accepts, s)[v]
  BY <1>5
<1> QED BY <1>6 DEF AcceptsBody, Accepts

\* The body of the recursion that compares the shape of a value with a schema.
ShapedBody(g, s) ==
  [v \in JSON |->
     /\ TypedLoosely(s, v)
     /\ \A k \in DOMAIN Fields(v) \cap DOMAIN Properties(s) : g[Properties(s)[k]][Fields(v)[k]]
     /\ Has(s, "additionalProperties") =>
          \A k \in Further(v, s) : g[Fields(s)["additionalProperties"]][Fields(v)[k]]
     /\ Has(s, "items") => \A i \in DOMAIN Elements(v) : g[Fields(s)["items"]][Elements(v)[i]]
     /\ \A union \in {"oneOf", "anyOf"} : Has(s, union) =>
          \E i \in DOMAIN Branches(s, union) : g[Branches(s, union)[i]][v]]
ByShape == INSTANCE RankedRecursion WITH S <- JSON, Rank <- Depth, Body <- ShapedBody

\* One step of the comparison.
LEMMA ShapedOf ==
  ASSUME NEW s \in JSON, NEW v \in JSON
  PROVE  Shaped(s, v) <=>
     /\ TypedLoosely(s, v)
     /\ \A k \in DOMAIN Fields(v) \cap DOMAIN Properties(s) : Shaped(Properties(s)[k], Fields(v)[k])
     /\ Has(s, "additionalProperties") =>
          \A k \in Further(v, s) : Shaped(Fields(s)["additionalProperties"], Fields(v)[k])
     /\ Has(s, "items") => \A i \in DOMAIN Elements(v) : Shaped(Fields(s)["items"], Elements(v)[i])
     /\ \A union \in {"oneOf", "anyOf"} : Has(s, union) =>
          \E i \in DOMAIN Branches(s, union) : Shaped(Branches(s, union)[i], v)
<1>1. ByShape!Local
  <2> SUFFICES ASSUME NEW q \in JSON, NEW g, NEW h,
                      \A y \in JSON : Depth(y) < Depth(q) => g[y] = h[y]
               PROVE  ShapedBody(g, q) = ShapedBody(h, q)
    BY DEF ByShape!Local
  <2>1. \A k \in DOMAIN Properties(q) : g[Properties(q)[k]] = h[Properties(q)[k]]
    BY Subschemas DEF Depth
  <2>2. /\ Has(q, "additionalProperties") =>
             g[Fields(q)["additionalProperties"]] = h[Fields(q)["additionalProperties"]]
        /\ Has(q, "items") => g[Fields(q)["items"]] = h[Fields(q)["items"]]
    BY Subschemas DEF Depth, Has
  <2>3. \A u : \A i \in DOMAIN Branches(q, u) : g[Branches(q, u)[i]] = h[Branches(q, u)[i]]
    BY Subschemas DEF Depth
  <2> QED BY <2>1, <2>2, <2>3 DEF ShapedBody
<1>2. ByShape!Ranked
  BY NestingRanks DEF ByShape!Ranked, ByParts!Ranked
<1>3. \E f : f = [q \in JSON |-> ShapedBody(f, q)]
  BY <1>1, <1>2, ByShape!RecursionDefines
<1>4. shaped = CHOOSE f : f = [q \in JSON |-> ShapedBody(f, q)]
  BY DEF shaped, ShapedBody
<1>5. shaped[s] = ShapedBody(shaped, s)
  BY <1>3, <1>4
<1>6. shaped[s][v] = ShapedBody(shaped, s)[v]
  BY <1>5
<1> QED BY <1>6 DEF ShapedBody, Shaped

\* Both widenings of a type.
Widened(type) == WidenIntegerToAdmitNumber(WidenTypeToAdmitNull(type))

\* What relax_for_responses makes of one map of keywords: enum, required and
\* additionalProperties: false go, oneOf becomes anyOf, and type is widened.
LEMMA Keywords ==
  ASSUME NEW w
  PROVE  /\ DOMAIN RelaxKeywords(w) =
              (DOMAIN w \ ({"enum", "required", "oneOf"} \cup
                           {k \in DOMAIN w \cap {"additionalProperties"} : w[k] = False}))
              \cup (IF "oneOf" \in DOMAIN w THEN {"anyOf"} ELSE {})
         /\ "oneOf" \in DOMAIN w => RelaxKeywords(w)["anyOf"] = w["oneOf"]
         /\ \A k \in DOMAIN RelaxKeywords(w) :
              k # "anyOf" \/ "oneOf" \notin DOMAIN w =>
                RelaxKeywords(w)[k] = IF k = "type" THEN Widened(w[k]) ELSE w[k]
BY DEF RelaxKeywords, Widened

\* A walk keeps the kind of a value.
LEMMA RelaxedKind ==
  ASSUME NEW j \in JSON
  PROVE  /\ RelaxForResponses(j).t = j.t
         /\ RelaxForResponses(j) = False <=> j = False
         /\ \A n : RelaxForResponses(j) = Str(n) <=> j = Str(n)
<1>1. /\ \A f : Obj(f).t = "obj"
      /\ \A e : Arr(e).t = "arr"
      /\ \A n : Str(n).t = "str"
      /\ False.t = "false"
  BY DEF Obj, Arr, Str, False
<1>2. CASE IsObj(j)
  BY <1>1, <1>2, RelaxOf DEF IsObj
<1>3. CASE IsArr(j)
  BY <1>1, <1>3, RelaxOf DEF IsArr
<1>4. CASE ~IsObj(j) /\ ~IsArr(j)
  BY <1>4, RelaxOf
<1> QED BY <1>2, <1>3, <1>4

\* The fields of a relaxed schema.
LEMMA RelaxedSchema ==
  ASSUME NEW s \in JSON, IsObj(s), NEW r, r = RelaxForResponses(s)
  PROVE  /\ IsObj(r) /\ ~Has(r, "enum") /\ ~Has(r, "required") /\ ~Has(r, "oneOf")
         /\ Has(r, "type") <=> Has(s, "type")
         /\ Has(s, "type") => Fields(r)["type"] = Widened(RelaxForResponses(Fields(s)["type"]))
         /\ Has(r, "additionalProperties") <=>
              Has(s, "additionalProperties") /\ Fields(s)["additionalProperties"] # False
         /\ Has(r, "additionalProperties") =>
              Fields(r)["additionalProperties"] = RelaxForResponses(Fields(s)["additionalProperties"])
         /\ \A k \in {"properties", "items"} :
              /\ Has(r, k) <=> Has(s, k)
              /\ Has(s, k) => Fields(r)[k] = RelaxForResponses(Fields(s)[k])
         /\ Has(s, "oneOf") =>
              Has(r, "anyOf") /\ Fields(r)["anyOf"] = RelaxForResponses(Fields(s)["oneOf"])
         /\ ~Has(s, "oneOf") =>
              /\ Has(r, "anyOf") <=> Has(s, "anyOf")
              /\ Has(s, "anyOf") => Fields(r)["anyOf"] = RelaxForResponses(Fields(s)["anyOf"])
<1> DEFINE w == Walked(s)
<1>1. DOMAIN w = DOMAIN Fields(s) /\ \A k \in DOMAIN Fields(s) : w[k] = RelaxForResponses(Fields(s)[k])
  BY DEF Walked
<1>2. \A k \in DOMAIN w : w[k] = False <=> Fields(s)[k] = False
  BY <1>1, Held, RelaxedKind
<1>3. r = Obj(RelaxKeywords(w)) /\ IsObj(r) /\ Fields(r) = RelaxKeywords(w)
  BY RelaxOf, ObjectOf
<1> HIDE DEF w
<1>4. DOMAIN Fields(r) =
              (DOMAIN w \ ({"enum", "required", "oneOf"} \cup
                           {k \in DOMAIN w \cap {"additionalProperties"} : w[k] = False}))
              \cup (IF "oneOf" \in DOMAIN w THEN {"anyOf"} ELSE {})
  BY <1>3, Keywords
<1>5. /\ "oneOf" \in DOMAIN w => Fields(r)["anyOf"] = w["oneOf"]
      /\ \A k \in DOMAIN Fields(r) :
              k # "anyOf" \/ "oneOf" \notin DOMAIN w =>
                Fields(r)[k] = IF k = "type" THEN Widened(w[k]) ELSE w[k]
  BY <1>3, Keywords
<1>6. ~Has(r, "enum") /\ ~Has(r, "required") /\ ~Has(r, "oneOf")
  BY <1>4 DEF Has
<1>7. /\ Has(r, "type") <=> Has(s, "type")
      /\ Has(s, "type") => Fields(r)["type"] = Widened(RelaxForResponses(Fields(s)["type"]))
  BY <1>1, <1>4, <1>5 DEF Has
<1>8. /\ Has(r, "additionalProperties") <=>
              Has(s, "additionalProperties") /\ Fields(s)["additionalProperties"] # False
      /\ Has(r, "additionalProperties") =>
              Fields(r)["additionalProperties"] = RelaxForResponses(Fields(s)["additionalProperties"])
  BY <1>1, <1>2, <1>4, <1>5 DEF Has
<1>9. \A k \in {"properties", "items"} :
        /\ Has(r, k) <=> Has(s, k)
        /\ Has(s, k) => Fields(r)[k] = RelaxForResponses(Fields(s)[k])
  BY <1>1, <1>4, <1>5 DEF Has
<1>10. /\ Has(s, "oneOf") =>
            Has(r, "anyOf") /\ Fields(r)["anyOf"] = RelaxForResponses(Fields(s)["oneOf"])
       /\ ~Has(s, "oneOf") =>
            /\ Has(r, "anyOf") <=> Has(s, "anyOf")
            /\ Has(s, "anyOf") => Fields(r)["anyOf"] = RelaxForResponses(Fields(s)["anyOf"])
  BY <1>1, <1>4, <1>5 DEF Has
<1> QED BY <1>3, <1>6, <1>7, <1>8, <1>9, <1>10

\* The elements of a relaxed array.
LEMMA RelaxedElements ==
  ASSUME NEW j \in JSON
  PROVE  /\ DOMAIN Elements(RelaxForResponses(j)) = DOMAIN Elements(j)
         /\ \A i \in DOMAIN Elements(j) :
              Elements(RelaxForResponses(j))[i] = RelaxForResponses(Elements(j)[i])
<1>1. CASE IsArr(j)
  <2>1. RelaxForResponses(j) = Arr([i \in DOMAIN j.e |-> RelaxForResponses(j.e[i])])
    BY <1>1, RelaxOf
  <2>2. \A e : Elements(Arr(e)) = e
    BY DEF Elements, IsArr, Arr
  <2> QED BY <1>1, <2>1, <2>2 DEF Elements
<1>2. CASE ~IsArr(j)
  <2>1. ~IsArr(RelaxForResponses(j))
    BY <1>2, RelaxedKind DEF IsArr
  <2> QED BY <1>2, <2>1 DEF Elements
<1> QED BY <1>1, <1>2

\* The branches of a union are relaxed one by one, under anyOf.
LEMMA RelaxedBranches ==
  ASSUME NEW s \in JSON, IsObj(s), NEW r, r = RelaxForResponses(s),
         NEW u \in {"oneOf", "anyOf"}, Has(s, u), u = "anyOf" => ~Has(s, "oneOf")
  PROVE  /\ Has(r, "anyOf") /\ DOMAIN Branches(r, "anyOf") = DOMAIN Branches(s, u)
         /\ \A i \in DOMAIN Branches(s, u) : Branches(r, "anyOf")[i] = RelaxForResponses(Branches(s, u)[i])
<1>1. Has(r, "anyOf") /\ Fields(r)["anyOf"] = RelaxForResponses(Fields(s)[u])
  BY RelaxedSchema
<1>2. Fields(s)[u] \in JSON
  BY Held DEF Has
<1> QED BY <1>1, <1>2, RelaxedElements DEF Branches

\* The properties of a relaxed schema.
LEMMA RelaxedProperties ==
  ASSUME NEW s \in JSON, IsObj(s), NEW r, r = RelaxForResponses(s), "oneOf" \notin DOMAIN Properties(s)
  PROVE  /\ \A k \in DOMAIN Properties(r) :
              /\ k \in DOMAIN Properties(s)
              /\ Properties(r)[k] = IF k = "type" THEN Widened(RelaxForResponses(Properties(s)[k]))
                                    ELSE RelaxForResponses(Properties(s)[k])
         /\ \A k \in DOMAIN Properties(s) \ DOMAIN Properties(r) :
              k \in {"enum", "required"} \/ Properties(s)[k] = False
<1>1. CASE ~Has(s, "properties")
  <2>1. ~Has(r, "properties")
    BY <1>1, RelaxedSchema
  <2> QED BY <1>1, <2>1 DEF Properties, NoFields
<1>2. CASE Has(s, "properties")
  <2> DEFINE m == Fields(s)["properties"]
             w == Walked(m)
  <2>1. m \in JSON
    BY <1>2, Held DEF Has
  <2>2. Properties(s) = Fields(m) /\ Properties(r) = Fields(RelaxForResponses(m))
    BY <1>2, RelaxedSchema DEF Properties
  <2> HIDE DEF m
  <2>3. CASE IsObj(m)
    <3>1. DOMAIN w = DOMAIN Fields(m) /\ \A k \in DOMAIN Fields(m) : w[k] = RelaxForResponses(Fields(m)[k])
      BY DEF Walked
    <3>2. \A k \in DOMAIN w : w[k] = False <=> Fields(m)[k] = False
      BY <2>1, <3>1, Held, RelaxedKind
    <3>3. Properties(r) = RelaxKeywords(w)
      BY <2>1, <2>2, <2>3, RelaxOf, ObjectOf
    <3> HIDE DEF w
    <3>4. "oneOf" \notin DOMAIN w
      BY <2>2, <3>1
    <3>5. DOMAIN RelaxKeywords(w) =
              DOMAIN w \ ({"enum", "required", "oneOf"} \cup
                           {k \in DOMAIN w \cap {"additionalProperties"} : w[k] = False})
      BY <3>4, Keywords
    <3>6. \A k \in DOMAIN RelaxKeywords(w) : RelaxKeywords(w)[k] = IF k = "type" THEN Widened(w[k]) ELSE w[k]
      BY <3>4, Keywords
    <3>7. ASSUME NEW k \in DOMAIN Properties(r)
          PROVE  /\ k \in DOMAIN Properties(s)
                 /\ Properties(r)[k] = IF k = "type" THEN Widened(RelaxForResponses(Properties(s)[k]))
                                       ELSE RelaxForResponses(Properties(s)[k])
      BY <2>2, <3>1, <3>3, <3>5, <3>6
    <3>8. ASSUME NEW k \in DOMAIN Properties(s) \ DOMAIN Properties(r)
          PROVE  k \in {"enum", "required"} \/ Properties(s)[k] = False
      BY <2>2, <3>1, <3>2, <3>3, <3>4, <3>5
    <3> QED BY <3>7, <3>8
  <2>4. CASE ~IsObj(m)
    <3>1. ~IsObj(RelaxForResponses(m))
      BY <2>1, <2>4, RelaxedKind DEF IsObj
    <3> QED BY <2>2, <2>4, <3>1 DEF Fields, NoFields
  <2> QED BY <2>3, <2>4
<1> QED BY <1>1, <1>2

\* One name more in a list of type names.
OneMore(type, m) == Arr(Append(TypeNames(type), Str(m)))

\* Its names are those of the list and the one more.
LEMMA OneMoreName ==
  ASSUME NEW S, NEW y, TypeNames(y) \in Seq(S), NEW m
  PROVE  /\ OneMore(y, m).t = "arr" /\ TypeNames(OneMore(y, m)) \in Seq(S \cup {Str(m)})
         /\ \A n : Listed(n, OneMore(y, m)) <=> Listed(n, y) \/ n = m
<1> DEFINE q == TypeNames(y)
           p == Append(q, Str(m))
           a == OneMore(y, m)
<1>1. a.t = "arr" /\ TypeNames(a) = p
  BY DEF OneMore, Arr, TypeNames, Elements, IsArr
<1> HIDE DEF a
<1>2. q \in Seq(S \cup {Str(m)})
  OBVIOUS
<1> HIDE DEF q
<1>3. p \in Seq(S \cup {Str(m)}) /\ DOMAIN p = 1..(Len(q) + 1) /\ DOMAIN q = 1..Len(q) /\ Len(q) \in Nat
  BY <1>2
<1>4. (\A i \in DOMAIN q : p[i] = q[i]) /\ p[Len(q) + 1] = Str(m)
  BY <1>2
<1> HIDE DEF p
<1>5. \A n : Str(n) = Str(m) <=> n = m
  <2>1. \A n : Str(n).v = n
    BY DEF Str
  <2> QED BY <2>1
<1>6. ASSUME NEW n PROVE Listed(n, a) <=> Listed(n, y) \/ n = m
  <2>1. Listed(n, a) <=> \E i \in DOMAIN p : p[i] = Str(n)
    BY <1>1 DEF Listed
  <2>2. Listed(n, y) <=> \E i \in DOMAIN q : q[i] = Str(n)
    BY DEF Listed, q
  <2>3. \A i \in DOMAIN p : i \in DOMAIN q \/ i = Len(q) + 1
    BY <1>3
  <2>4. DOMAIN q \subseteq DOMAIN p /\ Len(q) + 1 \in DOMAIN p
    BY <1>3
  <2> QED BY <1>4, <1>5, <2>1, <2>2, <2>3, <2>4
<1> QED BY <1>1, <1>3, <1>6 DEF a

\* A widened type admits what it admitted, and null and fractions only as well.
LEMMA Widening ==
  ASSUME NEW S, NEW x, TypeNames(x) \in Seq(S)
  PROVE  /\ x.t \notin {"str", "arr"} => Widened(x) = x
         /\ x.t \in {"str", "arr"} => Widened(x).t \in {"str", "arr"}
         /\ \A n : Listed(n, x) => Listed(n, Widened(x))
         /\ \A n : Listed(n, Widened(x)) =>
              Listed(n, x) \/ n = "null" \/ (n = "number" /\ Listed("integer", x))
<1> DEFINE y == WidenTypeToAdmitNull(x)
           z == WidenIntegerToAdmitNumber(y)
           U == S \cup {Str("null")}
<1>0. Widened(x) = z
  BY DEF Widened
<1>1. /\ x.t \notin {"str", "arr"} => y = x
      /\ x.t \in {"str", "arr"} => y.t \in {"str", "arr"}
      /\ TypeNames(y) \in Seq(U)
      /\ \A n : Listed(n, x) => Listed(n, y)
      /\ \A n : Listed(n, y) => Listed(n, x) \/ n = "null"
  <2>1. TypeNames(x) \in Seq(U)
    OBVIOUS
  <2>2. CASE x.t \in {"str", "arr"} /\ ~Listed("null", x)
    <3>1. y = OneMore(x, "null")
      BY <2>2 DEF WidenTypeToAdmitNull, OneMore
    <3> HIDE DEF y
    <3>2. y.t = "arr" /\ TypeNames(y) \in Seq(U) /\ \A n : Listed(n, y) <=> Listed(n, x) \/ n = "null"
      BY <3>1, OneMoreName, Zenon
    <3> QED BY <2>2, <3>2
  <2>3. CASE ~(x.t \in {"str", "arr"} /\ ~Listed("null", x))
    <3>1. y = x
      BY <2>3 DEF WidenTypeToAdmitNull
    <3> QED BY <2>1, <3>1
  <2> QED BY <2>2, <2>3
<1> HIDE DEF y
<1>2. /\ y.t \notin {"str", "arr"} => z = y
      /\ y.t \in {"str", "arr"} => z.t \in {"str", "arr"}
      /\ \A n : Listed(n, y) => Listed(n, z)
      /\ \A n : Listed(n, z) => Listed(n, y) \/ (n = "number" /\ Listed("integer", y))
  <2>1. CASE y.t \in {"str", "arr"} /\ Listed("integer", y) /\ ~Listed("number", y)
    <3>1. z = OneMore(y, "number")
      BY <2>1 DEF WidenIntegerToAdmitNumber, OneMore
    <3> HIDE DEF z, U
    <3>2. TypeNames(y) \in Seq(U)
      BY <1>1
    <3>3. /\ OneMore(y, "number").t = "arr"
          /\ \A n : Listed(n, OneMore(y, "number")) <=> Listed(n, y) \/ n = "number"
      BY <3>2, OneMoreName, Zenon
    <3>4. z.t = "arr" /\ \A n : Listed(n, z) <=> Listed(n, y) \/ n = "number"
      BY <3>1, <3>3, Zenon
    <3> QED BY <2>1, <3>4
  <2>2. CASE ~(y.t \in {"str", "arr"} /\ Listed("integer", y) /\ ~Listed("number", y))
    <3>1. z = y
      BY <2>2 DEF WidenIntegerToAdmitNumber
    <3> QED BY <3>1, <2>2
  <2> QED BY <2>1, <2>2
<1> HIDE DEF z
<1>3. Listed("integer", y) => Listed("integer", x)
  BY <1>1
<1> QED BY <1>0, <1>1, <1>2, <1>3

\* The names that a relaxed and widened type lists.
LEMMA RelaxedType ==
  ASSUME NEW x \in JSON, NEW z, z = Widened(RelaxForResponses(x))
  PROVE  /\ x.t \notin {"str", "arr"} => z = RelaxForResponses(x)
         /\ x.t \in {"str", "arr"} => z.t \in {"str", "arr"}
         /\ \A n : Listed(n, x) => Listed(n, z)
         /\ \A n : Listed(n, z) => Listed(n, x) \/ n = "null" \/ (n = "number" /\ Listed("integer", x))
<1> DEFINE y == RelaxForResponses(x)
           S == {RelaxForResponses(c) : c \in JSON} \cup {y}
<1>1. y.t = x.t
  BY RelaxedKind
<1>2. TypeNames(y) \in Seq(S)
  <2>1. CASE y.t = "str"
    BY <2>1 DEF TypeNames
  <2>2. CASE IsArr(x)
    <3>1. x.e \in Seq(JSON)
      BY <2>2, JsonAssumption
    <3>2. DOMAIN x.e = 1..Len(x.e) /\ Len(x.e) \in Nat /\ \A i \in DOMAIN x.e : x.e[i] \in JSON
      BY <3>1
    <3>3. TypeNames(y) = [i \in 1..Len(x.e) |-> RelaxForResponses(x.e[i])]
      <4>1. y = Arr([i \in 1..Len(x.e) |-> RelaxForResponses(x.e[i])])
        BY <2>2, <3>2, RelaxOf
      <4> HIDE DEF y
      <4> QED BY <4>1 DEF TypeNames, Elements, IsArr, Arr
    <3> QED BY <3>2, <3>3
  <2>3. CASE ~IsArr(x) /\ y.t # "str"
    <3>1. TypeNames(y) = <<>>
      BY <1>1, <2>3 DEF TypeNames, Elements, IsArr
    <3> QED BY <3>1
  <2> QED BY <2>1, <2>2, <2>3
<1>3. \A n : Listed(n, y) <=> Listed(n, x)
  <2>1. CASE x.t = "str"
    <3>1. y = x
      BY <2>1, RelaxOf DEF IsObj, IsArr
    <3> QED BY <3>1
  <2>2. CASE x.t # "str"
    <3>1. TypeNames(x) = Elements(x) /\ TypeNames(y) = Elements(y)
      BY <1>1, <2>2 DEF TypeNames
    <3>2. \A i \in DOMAIN Elements(x) : \A n : Elements(y)[i] = Str(n) <=> Elements(x)[i] = Str(n)
      BY Held, RelaxedElements, RelaxedKind
    <3>3. DOMAIN Elements(y) = DOMAIN Elements(x)
      BY RelaxedElements
    <3> HIDE DEF y
    <3> QED BY <3>1, <3>2, <3>3 DEF Listed
  <2> QED BY <2>1, <2>2
<1> HIDE DEF y, S
<1>4. z = Widened(y)
  BY DEF y
<1>5. /\ y.t \notin {"str", "arr"} => z = y
      /\ y.t \in {"str", "arr"} => z.t \in {"str", "arr"}
      /\ \A n : Listed(n, y) => Listed(n, z)
      /\ \A n : Listed(n, z) => Listed(n, y) \/ n = "null" \/ (n = "number" /\ Listed("integer", y))
  BY <1>2, <1>4, Widening
<1> QED BY <1>1, <1>3, <1>5 DEF y

\* What has no keywords admits everything, but for False, and has any shape.
LEMMA NoKeywords ==
  ASSUME NEW s \in JSON, ~IsObj(s), NEW v \in JSON
  PROVE  (s # False => Accepts(s, v)) /\ Shaped(s, v)
<1>1. Fields(s) = NoFields /\ DOMAIN NoFields = {}
  BY DEF Fields, NoFields
<1>2. \A k : ~Has(s, k)
  BY <1>1 DEF Has
<1>3. DOMAIN Properties(s) = {}
  BY <1>1, <1>2 DEF Properties
<1>4. Typed(s, v) /\ Enumerated(s, v) /\ Complete(s, v) /\ TypedLoosely(s, v)
  BY <1>2 DEF Typed, Enumerated, Complete, TypedLoosely
<1> QED BY <1>2, <1>3, <1>4, AcceptsOf, ShapedOf

\* What a schema leads to is among its parts.
LEMMA SubschemaParts ==
  ASSUME NEW s \in JSON
  PROVE  /\ \A k \in DOMAIN Fields(s) : Parts(Fields(s)[k]) \subseteq Parts(s)
         /\ \A k \in DOMAIN Properties(s) : Parts(Properties(s)[k]) \subseteq Parts(s)
         /\ \A u : \A i \in DOMAIN Branches(s, u) : Parts(Branches(s, u)[i]) \subseteq Parts(s)
<1>1. \A k \in DOMAIN Fields(s) : Parts(Fields(s)[k]) \subseteq Parts(s)
  BY Held, PartsDown
<1>2. ASSUME NEW k \in DOMAIN Fields(s), NEW d \in Children(Fields(s)[k])
      PROVE  Parts(d) \subseteq Parts(s)
  <2>1. Parts(d) \subseteq Parts(Fields(s)[k])
    BY Held, PartsDown
  <2> QED BY <1>1, <2>1
<1>3. ASSUME NEW k \in DOMAIN Properties(s) PROVE Parts(Properties(s)[k]) \subseteq Parts(s)
  <2>1. Has(s, "properties") /\ Properties(s) = Fields(Fields(s)["properties"])
    BY DEF Properties, NoFields
  <2>2. Properties(s)[k] \in Children(Fields(s)["properties"])
    BY <2>1, Held DEF Has
  <2> QED BY <1>2, <2>1, <2>2 DEF Has
<1>4. ASSUME NEW u, NEW i \in DOMAIN Branches(s, u) PROVE Parts(Branches(s, u)[i]) \subseteq Parts(s)
  <2>1. Has(s, u) /\ Branches(s, u) = Elements(Fields(s)[u])
    BY DEF Branches
  <2>2. Branches(s, u)[i] \in Children(Fields(s)[u])
    BY <2>1, Held DEF Has
  <2> QED BY <1>2, <2>1, <2>2 DEF Has
<1> QED BY <1>1, <1>3, <1>4

\* What holds of a schema in the catalog holds of what it leads to.
LEMMA InCatalogDown ==
  ASSUME NEW s \in JSON, NEW c, Parts(c) \subseteq Parts(s)
  PROVE  /\ AsInCatalog(s) => AsInCatalog(c)
         /\ \A ks : NamesNoKeyword(s, ks) => NamesNoKeyword(c, ks)
BY DEF AsInCatalog, NamesNoKeyword

\* Relaxation refuses nothing that the schema admits.
LEMMA RelaxedAdmits ==
  \A s \in JSON : RelaxForResponses(s) \in JSON /\ AsInCatalog(s) =>
    \A v \in JSON : Accepts(s, v) => Accepts(RelaxForResponses(s), v)
<1> DEFINE T == {s \in JSON : RelaxForResponses(s) \in JSON /\ AsInCatalog(s) =>
                   \A v \in JSON : Accepts(s, v) => Accepts(RelaxForResponses(s), v)}
<1>1. ASSUME NEW s \in JSON, \A c \in JSON : Nesting[c] < Nesting[s] => c \in T,
             RelaxForResponses(s) \in JSON, AsInCatalog(s), NEW v \in JSON, Accepts(s, v)
      PROVE  Accepts(RelaxForResponses(s), v)
  <2> DEFINE r == RelaxForResponses(s)
             P == Properties(s)
             R == Properties(r)
  <2>1. CASE ~IsObj(s)
    <3>1. ~IsObj(r) /\ r # False
      BY <1>1, <2>1, RelaxedKind, AcceptsOf DEF IsObj
    <3> QED BY <1>1, <3>1, NoKeywords
  <2>2. CASE IsObj(s)
    <3>0. r \in JSON
      BY <1>1
    <3>1. ASSUME NEW c \in JSON, Nesting[c] < Nesting[s], Parts(c) \subseteq Parts(s),
                 RelaxForResponses(c) \in JSON, NEW d \in JSON, Accepts(c, d)
          PROVE  Accepts(RelaxForResponses(c), d)
      BY <1>1, <3>1, InCatalogDown
    <3>2. "oneOf" \notin DOMAIN P
      BY <1>1, PartsDown DEF AsInCatalog, NamesNoKeyword
    <3>3. Typed(r, v)
      <4> SUFFICES ASSUME Has(r, "type") PROVE \E n \in TypeOf(v) : Listed(n, Fields(r)["type"])
        BY DEF Typed
      <4>1. Has(s, "type") /\ Fields(r)["type"] = Widened(RelaxForResponses(Fields(s)["type"]))
        BY <2>2, RelaxedSchema
      <4>2. Fields(s)["type"] \in JSON
        BY <4>1, Held DEF Has
      <4>3. PICK n \in TypeOf(v) : Listed(n, Fields(s)["type"])
        BY <1>1, <4>1, AcceptsOf DEF Typed
      <4> QED BY <4>1, <4>2, <4>3, RelaxedType
    <3>4. IsObj(r) /\ r # False /\ Enumerated(r, v) /\ Complete(r, v) /\ ~Has(r, "oneOf")
      <4>1. IsObj(r) /\ ~Has(r, "enum") /\ ~Has(r, "required") /\ ~Has(r, "oneOf")
        BY <2>2, RelaxedSchema
      <4>2. ~IsObj(False)
        BY DEF IsObj, False
      <4> QED BY <4>1, <4>2 DEF Enumerated, Complete
    <3>5. ASSUME NEW k \in DOMAIN Fields(v) \cap DOMAIN R
          PROVE  Accepts(R[k], Fields(v)[k])
      <4>1. /\ k \in DOMAIN P
            /\ R[k] = IF k = "type" THEN Widened(RelaxForResponses(P[k])) ELSE RelaxForResponses(P[k])
        BY <2>2, <3>2, RelaxedProperties
      <4>2. /\ P[k] \in JSON /\ Nesting[P[k]] < Nesting[s] /\ Parts(P[k]) \subseteq Parts(s)
            /\ R[k] \in JSON /\ Fields(v)[k] \in JSON
        BY <3>0, <4>1, Subschemas, SubschemaParts, Held
      <4>3. Accepts(P[k], Fields(v)[k])
        BY <1>1, <4>1, AcceptsOf
      <4>4. CASE R[k] = RelaxForResponses(P[k])
        BY <3>1, <4>2, <4>3, <4>4
      <4>5. CASE R[k] # RelaxForResponses(P[k])
        <5>1. R[k] = Widened(RelaxForResponses(P[k]))
          BY <4>1, <4>5
        <5>2. R[k].t \in {"str", "arr"}
          BY <4>2, <4>5, <5>1, RelaxedType
        <5>3. ~IsObj(R[k]) /\ R[k] # False
          BY <5>2 DEF IsObj, False
        <5> QED BY <4>2, <5>3, NoKeywords
      <4> QED BY <4>4, <4>5
    <3>6. ASSUME Has(r, "additionalProperties"), NEW k \in Further(v, r)
          PROVE  Accepts(Fields(r)["additionalProperties"], Fields(v)[k])
      <4> DEFINE c == Fields(s)["additionalProperties"]
      <4>1. /\ Has(s, "additionalProperties") /\ c # False
            /\ Fields(r)["additionalProperties"] = RelaxForResponses(c)
        BY <2>2, <3>6, RelaxedSchema
      <4>2. k \in DOMAIN Fields(v) /\ k \notin DOMAIN R
        BY <3>6 DEF Further
      <4>3. k \notin DOMAIN P
        <5>1. DOMAIN P \cap {"enum", "required"} = {}
          BY <1>1, <4>1, PartsDown DEF AsInCatalog
        <5>2. k \in DOMAIN P => P[k] = False
          BY <2>2, <3>2, <4>2, <5>1, RelaxedProperties
        <5>3. k \in DOMAIN P => Accepts(P[k], Fields(v)[k]) /\ P[k] \in JSON /\ Fields(v)[k] \in JSON
          BY <1>1, <4>2, AcceptsOf, Subschemas, Held
        <5> QED BY <5>2, <5>3, AcceptsOf
      <4>4. Accepts(c, Fields(v)[k])
        BY <1>1, <4>1, <4>2, <4>3, AcceptsOf DEF Further
      <4>5. /\ c \in JSON /\ Nesting[c] < Nesting[s] /\ Parts(c) \subseteq Parts(s)
            /\ RelaxForResponses(c) \in JSON /\ Fields(v)[k] \in JSON
        BY <3>0, <3>6, <4>1, <4>2, Subschemas, SubschemaParts, Held DEF Has
      <4> QED BY <3>1, <4>1, <4>4, <4>5
    <3>7. ASSUME Has(r, "items"), NEW i \in DOMAIN Elements(v)
          PROVE  Accepts(Fields(r)["items"], Elements(v)[i])
      <4> DEFINE c == Fields(s)["items"]
      <4>1. Has(s, "items") /\ Fields(r)["items"] = RelaxForResponses(c)
        BY <2>2, <3>7, RelaxedSchema
      <4>2. Accepts(c, Elements(v)[i])
        BY <1>1, <4>1, AcceptsOf
      <4>3. /\ c \in JSON /\ Nesting[c] < Nesting[s] /\ Parts(c) \subseteq Parts(s)
            /\ RelaxForResponses(c) \in JSON /\ Elements(v)[i] \in JSON
        BY <3>0, <3>7, <4>1, Subschemas, SubschemaParts, Held DEF Has
      <4> QED BY <3>1, <4>1, <4>2, <4>3
    <3>8. ASSUME Has(r, "anyOf")
          PROVE  \E i \in DOMAIN Branches(r, "anyOf") : Accepts(Branches(r, "anyOf")[i], v)
      <4>1. PICK u \in {"oneOf", "anyOf"} : Has(s, u) /\ (u = "anyOf" => ~Has(s, "oneOf"))
        BY <2>2, <3>8, RelaxedSchema
      <4>2. PICK i \in DOMAIN Branches(s, u) : Accepts(Branches(s, u)[i], v)
        BY <1>1, <4>1, AcceptsOf
      <4>3. /\ i \in DOMAIN Branches(r, "anyOf")
            /\ Branches(r, "anyOf")[i] = RelaxForResponses(Branches(s, u)[i])
        BY <2>2, <4>1, RelaxedBranches
      <4>4. /\ Branches(s, u)[i] \in JSON /\ Nesting[Branches(s, u)[i]] < Nesting[s]
            /\ Parts(Branches(s, u)[i]) \subseteq Parts(s)
            /\ Branches(r, "anyOf")[i] \in JSON
        BY <3>0, <4>3, Subschemas, SubschemaParts
      <4> QED BY <3>1, <4>2, <4>3, <4>4
    <3> HIDE DEF r, R
    <3> QED BY <3>0, <3>3, <3>4, <3>5, <3>6, <3>7, <3>8, AcceptsOf DEF r, R
  <2> QED BY <2>1, <2>2
<1>2. T = JSON
  <2>1. \A s \in JSON : (\A c \in JSON : Nesting[c] < Nesting[s] => c \in T) => s \in T
    BY <1>1
  <2>2. T \in SUBSET JSON
    OBVIOUS
  <2> HIDE DEF T
  <2> QED BY <2>1, <2>2, JsonInduction
<1> QED BY <1>2

\* The only null among the kinds of a type is null's.
LEMMA NullType ==
  ASSUME NEW v
  PROVE  "null" \in TypeOf(v) => v.t = "null"
BY DEF TypeOf

\* What a relaxed schema admits has the shape of the schema.
LEMMA RelaxedShape ==
  \A s \in JSON :
    RelaxForResponses(s) \in JSON /\ AsInCatalog(s) /\ NamesNoKeyword(s, {"enum", "required"}) =>
      \A v \in JSON : Accepts(RelaxForResponses(s), v) => Shaped(s, v)
<1> DEFINE T == {s \in JSON :
    RelaxForResponses(s) \in JSON /\ AsInCatalog(s) /\ NamesNoKeyword(s, {"enum", "required"}) =>
      \A v \in JSON : Accepts(RelaxForResponses(s), v) => Shaped(s, v)}
<1>1. ASSUME NEW s \in JSON, \A c \in JSON : Nesting[c] < Nesting[s] => c \in T,
             RelaxForResponses(s) \in JSON, AsInCatalog(s), NamesNoKeyword(s, {"enum", "required"}),
             NEW v \in JSON, Accepts(RelaxForResponses(s), v)
      PROVE  Shaped(s, v)
  <2> DEFINE r == RelaxForResponses(s)
             P == Properties(s)
             R == Properties(r)
  <2>1. CASE ~IsObj(s)
    BY <2>1, NoKeywords
  <2>2. CASE IsObj(s)
    <3>0. r \in JSON
      BY <1>1
    <3>1. ASSUME NEW c \in JSON, Nesting[c] < Nesting[s], Parts(c) \subseteq Parts(s),
                 RelaxForResponses(c) \in JSON, NEW d \in JSON, Accepts(RelaxForResponses(c), d)
          PROVE  Shaped(c, d)
      BY <1>1, <3>1, InCatalogDown
    <3>2. "oneOf" \notin DOMAIN P /\ DOMAIN P \cap {"enum", "required"} = {}
      BY <1>1, PartsDown DEF AsInCatalog, NamesNoKeyword
    <3>3. TypedLoosely(s, v)
      <4> SUFFICES ASSUME Has(s, "type")
                   PROVE  \/ v.t = "null"
                          \/ \E n \in TypeOf(v) : Listed(n, Fields(s)["type"])
                          \/ "number" \in TypeOf(v) /\ Listed("integer", Fields(s)["type"])
        BY DEF TypedLoosely
      <4>1. Has(r, "type") /\ Fields(r)["type"] = Widened(RelaxForResponses(Fields(s)["type"]))
        BY <2>2, RelaxedSchema
      <4>2. Fields(s)["type"] \in JSON
        BY <4>1, Held DEF Has
      <4>3. PICK n \in TypeOf(v) : Listed(n, Fields(r)["type"])
        BY <1>1, <4>1, AcceptsOf DEF Typed
      <4>4. \/ Listed(n, Fields(s)["type"]) \/ n = "null"
            \/ n = "number" /\ Listed("integer", Fields(s)["type"])
        BY <4>1, <4>2, <4>3, RelaxedType
      <4> QED BY <4>3, <4>4, NullType
    <3>4. ASSUME NEW k \in DOMAIN Fields(v) \cap DOMAIN P
          PROVE  Shaped(P[k], Fields(v)[k])
      <4>1. /\ P[k] \in JSON /\ Nesting[P[k]] < Nesting[s] /\ Parts(P[k]) \subseteq Parts(s)
            /\ Fields(v)[k] \in JSON
        BY Subschemas, SubschemaParts, Held
      <4>2. CASE k \notin DOMAIN R
        <5>1. P[k] = False
          BY <2>2, <3>2, <4>2, RelaxedProperties
        <5>2. ~IsObj(P[k])
          BY <5>1 DEF IsObj, False
        <5> QED BY <4>1, <5>2, NoKeywords
      <4>3. CASE k \in DOMAIN R
        <5>1. R[k] = IF k = "type" THEN Widened(RelaxForResponses(P[k])) ELSE RelaxForResponses(P[k])
          BY <2>2, <3>2, <4>3, RelaxedProperties
        <5>2. R[k] \in JSON /\ Accepts(R[k], Fields(v)[k])
          BY <1>1, <3>0, <4>3, Subschemas, AcceptsOf
        <5>3. CASE R[k] = RelaxForResponses(P[k])
          BY <3>1, <4>1, <5>2, <5>3
        <5>4. CASE R[k] # RelaxForResponses(P[k])
          <6>1. R[k] = Widened(RelaxForResponses(P[k]))
            BY <5>1, <5>4
          <6>2. P[k].t \in {"str", "arr"}
            BY <4>1, <5>4, <6>1, RelaxedType
          <6>3. ~IsObj(P[k])
            BY <6>2 DEF IsObj
          <6> QED BY <4>1, <6>3, NoKeywords
        <5> QED BY <5>3, <5>4
      <4> QED BY <4>2, <4>3
    <3>5. ASSUME Has(s, "additionalProperties"), NEW k \in Further(v, s)
          PROVE  Shaped(Fields(s)["additionalProperties"], Fields(v)[k])
      <4> DEFINE c == Fields(s)["additionalProperties"]
      <4>1. /\ c \in JSON /\ Nesting[c] < Nesting[s] /\ Parts(c) \subseteq Parts(s)
            /\ Fields(v)[k] \in JSON /\ k \in DOMAIN Fields(v) /\ k \notin DOMAIN P
        BY <3>5, Subschemas, SubschemaParts, Held DEF Has, Further
      <4>2. CASE c = False
        <5>1. ~IsObj(c)
          BY <4>2 DEF IsObj, False
        <5> QED BY <4>1, <5>1, NoKeywords
      <4>3. CASE c # False
        <5>1. Has(r, "additionalProperties") /\ Fields(r)["additionalProperties"] = RelaxForResponses(c)
          BY <2>2, <3>5, <4>3, RelaxedSchema
        <5>2. k \in Further(v, r)
          BY <2>2, <3>2, <4>1, RelaxedProperties DEF Further
        <5>3. RelaxForResponses(c) \in JSON /\ Accepts(RelaxForResponses(c), Fields(v)[k])
          BY <1>1, <3>0, <5>1, <5>2, Subschemas, AcceptsOf DEF Has
        <5> QED BY <3>1, <4>1, <5>3
      <4> QED BY <4>2, <4>3
    <3>6. ASSUME Has(s, "items"), NEW i \in DOMAIN Elements(v)
          PROVE  Shaped(Fields(s)["items"], Elements(v)[i])
      <4> DEFINE c == Fields(s)["items"]
      <4>1. Has(r, "items") /\ Fields(r)["items"] = RelaxForResponses(c)
        BY <2>2, <3>6, RelaxedSchema
      <4>2. RelaxForResponses(c) \in JSON /\ Accepts(RelaxForResponses(c), Elements(v)[i])
        BY <1>1, <3>0, <4>1, Subschemas, AcceptsOf DEF Has
      <4>3. c \in JSON /\ Nesting[c] < Nesting[s] /\ Parts(c) \subseteq Parts(s) /\ Elements(v)[i] \in JSON
        BY <3>6, Subschemas, SubschemaParts, Held DEF Has
      <4> QED BY <3>1, <4>2, <4>3
    <3>7. ASSUME NEW union \in {"oneOf", "anyOf"}, Has(s, union)
          PROVE  \E i \in DOMAIN Branches(s, union) : Shaped(Branches(s, union)[i], v)
      <4>1. union = "anyOf" => ~Has(s, "oneOf")
        BY <1>1, <3>7, PartsDown DEF AsInCatalog
      <4>2. /\ Has(r, "anyOf") /\ DOMAIN Branches(r, "anyOf") = DOMAIN Branches(s, union)
            /\ \A i \in DOMAIN Branches(s, union) :
                 Branches(r, "anyOf")[i] = RelaxForResponses(Branches(s, union)[i])
        BY <2>2, <3>7, <4>1, RelaxedBranches
      <4>3. PICK i \in DOMAIN Branches(r, "anyOf") : Accepts(Branches(r, "anyOf")[i], v)
        BY <1>1, <3>0, <4>2, AcceptsOf
      <4>4. /\ Branches(s, union)[i] \in JSON /\ Nesting[Branches(s, union)[i]] < Nesting[s]
            /\ Parts(Branches(s, union)[i]) \subseteq Parts(s)
            /\ Branches(r, "anyOf")[i] \in JSON
        BY <3>0, <4>2, Subschemas, SubschemaParts
      <4> QED BY <3>1, <4>2, <4>3, <4>4
    <3> QED BY <3>3, <3>4, <3>5, <3>6, <3>7, ShapedOf
  <2> QED BY <2>1, <2>2
<1>2. T = JSON
  <2>1. \A s \in JSON : (\A c \in JSON : Nesting[c] < Nesting[s] => c \in T) => s \in T
    BY <1>1
  <2>2. T \in SUBSET JSON
    OBVIOUS
  <2> HIDE DEF T
  <2> QED BY <2>1, <2>2, JsonInduction
<1> QED BY <1>2

-----------------------------------------------------------------------------
(* Judged bodies *)

\* A body is refused for its bounds, and judged by the relaxed schema.
ResponseInv ==
  /\ schema \in Schemas /\ body \in Bodies
  /\ phase \in {"received", "bounded", "refused", "judged"}
  /\ phase = "refused" => ~ValidateValueBounds(body, 0)
  /\ phase \in {"bounded", "judged"} => ValidateValueBounds(body, 0)
  /\ phase = "judged" => (passed <=> Accepts(RelaxForResponses(schema), body))

\* A body is judged only once its bounds were checked, so ResponseInv holds
\* throughout.
LEMMA ResponseHeld == RelaxSpec => []ResponseInv
<1>1. RelaxInit => ResponseInv
  BY DEF RelaxInit, ResponseInv
<1>2. ResponseInv /\ [RelaxNext]_relaxVars => ResponseInv'
  <2> SUFFICES ASSUME ResponseInv, [RelaxNext]_relaxVars PROVE ResponseInv'
    OBVIOUS
  <2>1. CASE Bound
    BY <2>1 DEF ResponseInv, Bound
  <2>2. CASE JudgeResponse
    BY <2>2 DEF ResponseInv, JudgeResponse
  <2>3. CASE UNCHANGED relaxVars
    BY <2>3 DEF ResponseInv, relaxVars
  <2> QED BY <2>1, <2>2, <2>3 DEF RelaxNext
<1> QED BY <1>1, <1>2, PTL DEF RelaxSpec

\* validate_value_bounds, which counts the depth on its way down and stops at the
\* first container that is too large, refuses exactly the bodies that nest too
\* deep or hold too large a container somewhere.
THEOREM BoundsAreExact == RelaxSpec => []BoundsExact
<1>1. ResponseInv => BoundsExact
  <2> SUFFICES ASSUME ResponseInv, phase # "received"
               PROVE  (phase = "refused") <=>
                        (height[body] > MAX_VALUE_DEPTH \/ \E j \in Parts(body) : Members(j) > MAX_VALUE_MEMBERS)
    BY DEF BoundsExact
  <2>1. body \in JSON
    BY SchemasAssumption DEF ResponseInv
  <2>2. phase = "refused" <=> ~ValidateValueBounds(body, 0)
    BY DEF ResponseInv
  <2>3. ValidateValueBounds(body, 0) <=>
          0 + height[body] <= MAX_VALUE_DEPTH /\ \A j \in Parts(body) : Members(j) <= MAX_VALUE_MEMBERS
    BY <2>1, BoundsMet
  <2>4. height[body] \in Nat
    BY <2>1, Heights
  <2>5. \A j \in Parts(body) : Members(j) \in Nat
    BY <2>1, PartsAtHand, MembersCounted
  <2>6. height[body] > MAX_VALUE_DEPTH <=> ~(0 + height[body] <= MAX_VALUE_DEPTH)
    BY <2>4, BoundsAssumption
  <2>7. \A j \in Parts(body) : Members(j) > MAX_VALUE_MEMBERS <=> ~(Members(j) <= MAX_VALUE_MEMBERS)
    BY <2>5, BoundsAssumption
  <2> QED BY <2>2, <2>3, <2>6, <2>7
<1> QED BY <1>1, ResponseHeld, PTL

\* A response that its declared schema admits passes the relaxed schema: the
\* relaxation of an operation never refuses what Mist declared.
THEOREM DeclaredAdmitted == RelaxSpec => []NothingDeclaredLost
<1>1. ResponseInv => NothingDeclaredLost
  BY SchemasAssumption, RelaxedAdmits DEF ResponseInv, NothingDeclaredLost
<1> QED BY <1>1, ResponseHeld, PTL

\* What passes the relaxed schema still has the shape of the declared one: its
\* types, but for null and fractions, through properties, items and unions.
THEOREM ShapeKept == RelaxSpec => []StructureSurvives
<1>1. ResponseInv => StructureSurvives
  BY SchemasAssumption, RelaxedShape DEF ResponseInv, StructureSurvives
<1> QED BY <1>1, ResponseHeld, PTL
=============================================================================

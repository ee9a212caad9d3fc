----------------------------- MODULE MergePatch -----------------------------
(***************************************************************************)
(* The part of plan_mist_change that computes `after`: the refusals of      *)
(* server/wan_write.rs and merge_patch, against RFC 7386.  A string stands  *)
(* for any scalar here.                                                    *)
(***************************************************************************)
EXTENDS JsonValue

CONSTANTS
  Befores,  \* objects read from Mist, and null for a create
  Patches   \* the patches callers send

VARIABLES pc, before, patch, after

vars == <<pc, before, patch, after>>

MIST_CONFIGURED == "mist_configured"
REDACTION_PLACEHOLDER == Str("[REDACTED]")

\* Mutant of RejectRedactionPlaceholder: arrays are not searched.
RejectPlaceholderOutsideArrays(p) ==
  p = REDACTION_PLACEHOLDER \/ (IsObj(p) /\ REDACTION_PLACEHOLDER \in Children(p))

\* Some string of the patch contains the placeholder, arrays included; the
\* scalar "[REDACTED]" stands for every string with that substring.
RejectRedactionPlaceholder(p) == REDACTION_PLACEHOLDER \in Parts(p)

\* Some object of the patch, at any depth, has the key mist_configured.
RejectConfigAuthority(p) == \E j \in Parts(p) : MIST_CONFIGURED \in DOMAIN Fields(j)

\* Mutant of Merge: fields are replaced, not merged.
MergeShallow(b, p) ==
  IF ~IsObj(p) THEN p
  ELSE LET kept == {k \in DOMAIN Fields(b) \cup DOMAIN p.f :
                      k \in DOMAIN p.f => p.f[k] # Null} IN
       Obj([k \in kept |-> IF k \in DOMAIN p.f THEN p.f[k] ELSE Fields(b)[k]])

\* The keys of a merge: those of both, without what the patch sets to null.
Kept(old, p) == {k \in DOMAIN old \cup DOMAIN p.f : k \in DOMAIN p.f => p.f[k] # Null}

\* merge_patch: a null removes the key, an existing field is merged, a field
\* that did not exist is inserted as it stands.
merge[p \in JSON] ==
  [b \in JSON |->
     IF ~IsObj(p) THEN p
     ELSE LET old == Fields(b) IN
       Obj([k \in Kept(old, p) |->
              IF k \notin DOMAIN p.f THEN old[k]
              ELSE IF k \in DOMAIN old THEN merge[p.f[k]][old[k]] ELSE p.f[k]])]
Merge(b, p) == merge[p][b]

Init ==
  /\ pc = "plan"
  /\ before \in Befores /\ patch \in Patches
  /\ after = Null

Refuse ==
  /\ pc = "plan"
  /\ RejectConfigAuthority(patch) \/ RejectRedactionPlaceholder(patch)
  /\ pc' = "refused"
  /\ UNCHANGED <<before, patch, after>>

Stage ==
  /\ pc = "plan"
  /\ ~RejectConfigAuthority(patch) /\ ~RejectRedactionPlaceholder(patch)
  /\ after' = Merge(before, patch)
  /\ pc' = "staged"
  /\ UNCHANGED <<before, patch>>

Next == Refuse \/ Stage

Spec == Init /\ [][Next]_vars

-----------------------------------------------------------------------------
(* Properties *)

\* RFC 7386, section 2: the reference that merge_patch is measured against.
rfc7386[p \in JSON] ==
  [target \in JSON |->
     IF ~IsObj(p) THEN p
     ELSE LET old == Fields(target) IN
       Obj([k \in Kept(old, p) |->
              IF k \in DOMAIN p.f
                THEN rfc7386[p.f[k]][IF k \in DOMAIN old THEN old[k] ELSE Null]
                ELSE old[k]])]
RFC7386(target, p) == rfc7386[p][target]

\* The fields of nested objects that are null, dropped; arrays are left alone.
dropNullFields[j \in JSON] ==
  IF ~IsObj(j) THEN j
  ELSE Obj([k \in {x \in DOMAIN j.f : j.f[x] # Null} |-> dropNullFields[j.f[k]]])
DropNullFields(j) == dropNullFields[j]

\* Where each mist_configured field is and what it is set to.
Under(step, found) == {<<<<step>> \o a[1], a[2]>> : a \in found}
authority[j \in JSON] ==
  (UNION {Under(k, authority[Fields(j)[k]]) : k \in DOMAIN Fields(j)}) \cup
  {<< <<>>, Fields(j)[k]>> : k \in DOMAIN Fields(j) \cap {MIST_CONFIGURED}} \cup
  (UNION {Under("item", authority[Elements(j)[i]]) : i \in DOMAIN Elements(j)})
Authority(j) == authority[j]

\* What merging gives is among the values at hand.
ASSUME MergeAssumption ==
  /\ Befores \subseteq JSON /\ Patches \subseteq JSON
  /\ \A b \in Befores, p \in Patches : Merge(b, p) \in JSON /\ RFC7386(b, p) \in JSON

\* What is staged is the RFC 7386 merge of the object Mist holds and the patch,
\* field by field and at every depth, but for null fields: those of a subtree
\* the object did not have, which merge_patch keeps, and, on both sides, those
\* that Mist's object held (merge_patch; all updates are PUTs of the whole object).
StagedIsMergePatch ==
  pc = "staged" =>
    /\ DropNullFields(after) = DropNullFields(RFC7386(before, patch))
    /\ before = DropNullFields(before) => DropNullFields(after) = RFC7386(before, patch)

\* What the two refusals look for in the patch never gets into a staged object,
\* however nested: each mist_configured field of it was in Mist's object with
\* that value, and a redaction placeholder in it is one that Mist's object held
\* (reject_config_authority, reject_redaction_placeholder).
RefusedNeverStaged ==
  pc = "staged" =>
    /\ Authority(after) \subseteq Authority(before)
    /\ REDACTION_PLACEHOLDER \in Parts(after) => REDACTION_PLACEHOLDER \in Parts(before)

\* The doc of merge_patch: "`null` deletes a field rather than setting it to
\* null" (wan_write.rs:191): with no null in Mist's object, none is staged.
NullDeletesField ==
  pc = "staged" /\ IsObj(after) => after = DropNullFields(after)
=============================================================================

---------------------------- MODULE CatalogLoad ----------------------------
(***************************************************************************)
(* Catalog::from_json and Catalog::embedded                                 *)
(* (rustmistmcp-core/src/catalog.rs): one pass over the operations that     *)
(* builds the index, then the verification policies.  A document that fails *)
(* any check is refused as a whole and the server does not start.          *)
(*                                                                         *)
(* An operation is a record with its id (a sequence of letters), key,       *)
(* method, action, and verification policy; `sound` stands for the          *)
(* conjuncts of validate_operation that compare redundant fields of the      *)
(* record, `fingerprint` for the digest of the record, `tool` for its        *)
(* declared tool name.                                                     *)
(***************************************************************************)
EXTENDS Naturals, Sequences, FiniteSets

CONSTANTS
  Documents,   \* [head, operations]: generated catalogs, good and bad
  UpperCase,   \* the upper-case letters, with their lower case
  NoId

VARIABLES
  loadPc,      \* "head", "scan", "verify", "loaded", "refused"
  document,
  trusted,     \* Fingerprints::Trust: the embedded bytes
  position, index

loadVars == <<loadPc, document, trusted, position, index>>

Reads == {"OrdinaryRead", "PrivilegedRead"}
Operations == document.operations

\* A JSON array of operations.
ASSUME DocumentsAssumption ==
  \A d \in Documents : d.operations \in Seq({d.operations[i] : i \in DOMAIN d.operations})

-----------------------------------------------------------------------------
(* tool_name *)

IsUpper(c) == c \in DOMAIN UpperCase
Lower(c) == IF IsUpper(c) THEN UpperCase[c] ELSE c

\* A word starts at an upper-case letter that follows a lower-case one, or that
\* ends a run of upper-case letters.
Boundary(id, i) ==
  /\ i > 1 /\ IsUpper(id[i])
  /\ ~IsUpper(id[i - 1]) \/ (i < Len(id) /\ ~IsUpper(id[i + 1]))

\* The lower-cased letters with "_" before each word but the first.  The
\* spellings that are normalised first (WiFi, IoT...) are left out.
ToolName(id) ==
  LET marked[i \in 0..Len(id)] ==
        IF i = 0 THEN <<>>
        ELSE marked[i - 1] \o (IF Boundary(id, i) THEN <<"_">> ELSE <<>>) \o <<Lower(id[i])>> IN
  marked[Len(id)]

-----------------------------------------------------------------------------
(* The checks *)

MethodAllowsAction(method, action) ==
  action \in CASE method = "GET" -> Reads \cup {"Update", "Execute"}
               [] method \in {"PUT", "PATCH"} -> {"Update", "Execute"}
               [] method = "DELETE" -> {"Delete"}
               [] method = "POST" -> {"Create", "Update", "Delete", "Execute"}
               [] OTHER -> {}

\* ids, keys and tools, against all operations before.
Unique(i) ==
  \A h \in 1..(i - 1) :
    /\ Operations[h].id # Operations[i].id
    /\ Operations[h].key # Operations[i].key
    /\ Operations[h].tool # Operations[i].tool

\* validate_operation; the key of the operation before is strictly smaller.
ValidateOperation(i) ==
  LET op == Operations[i] IN
  /\ i > 1 => Operations[i - 1].key < op.key
  /\ op.sound
  /\ op.tool = ToolName(op.id)
  /\ MethodAllowsAction(op.method, op.action)

\* Catalog::operation: through the index, to a position.
Lookup(id) == IF id \in DOMAIN index THEN {Operations[index[id]]} ELSE {}

\* Mutant of ValidateVerification: the follow-up may be any operation.
ValidateVerificationAnyMethod(op) ==
  \/ op.policy = "None" /\ op.action \in Reads /\ op.followUp = NoId /\ ~op.predicate /\ ~op.reason
  \/ op.policy = "FollowUpRead" /\ ~op.reason /\ op.predicate /\ Lookup(op.followUp) # {}
  \/ op.policy = "ApiAcknowledged" /\ op.followUp = NoId /\ ~op.predicate /\ op.reason

\* validate_verification
ValidateVerification(op) ==
  \/ op.policy = "None" /\ op.action \in Reads /\ op.followUp = NoId /\ ~op.predicate /\ ~op.reason
  \/ /\ op.policy = "FollowUpRead" /\ ~op.reason /\ op.predicate
     /\ \E read \in Lookup(op.followUp) : read.method = "GET"
  \/ op.policy = "ApiAcknowledged" /\ op.followUp = NoId /\ ~op.predicate /\ op.reason

-----------------------------------------------------------------------------
(* parse *)

LoadInit ==
  /\ loadPc = "head"
  /\ document \in Documents
  /\ trusted \in BOOLEAN
  /\ position = 1
  /\ index = [id \in {} |-> 0]

\* validate_document: source, counts, audit and components as pinned.
CheckHead ==
  /\ loadPc = "head"
  /\ loadPc' = IF document.head THEN "scan" ELSE "refused"
  /\ UNCHANGED <<document, trusted, position, index>>

\* One turn of the loop of parse.
ScanOperation ==
  /\ loadPc = "scan" /\ position <= Len(Operations)
  /\ Unique(position) /\ ValidateOperation(position)
  /\ trusted \/ Operations[position].fingerprint
  /\ LET id == Operations[position].id IN
     index' = [x \in DOMAIN index \cup {id} |-> IF x = id THEN position ELSE index[x]]
  /\ position' = position + 1
  /\ UNCHANGED <<loadPc, document, trusted>>

RefuseOperation ==
  /\ loadPc = "scan" /\ position <= Len(Operations)
  /\ \/ ~Unique(position) \/ ~ValidateOperation(position)
     \/ ~trusted /\ ~Operations[position].fingerprint
  /\ loadPc' = "refused"
  /\ UNCHANGED <<document, trusted, position, index>>

FinishLoad ==
  /\ loadPc = "scan" /\ position > Len(Operations)
  /\ loadPc' = IF \A i \in DOMAIN Operations : ValidateVerification(Operations[i])
                 THEN "loaded" ELSE "refused"
  /\ UNCHANGED <<document, trusted, position, index>>

LoadNext == CheckHead \/ ScanOperation \/ RefuseOperation \/ FinishLoad

LoadSpec == LoadInit /\ [][LoadNext]_loadVars

-----------------------------------------------------------------------------
(* Properties *)

\* Every operation that changes something says how the change is confirmed: by
\* a GET that is in this catalog, even one that comes later in the list, or by
\* a reason why the answer is enough.
MutationsVerifiable ==
  loadPc = "loaded" =>
    \A i \in DOMAIN Operations :
      LET op == Operations[i] IN
      op.action \notin Reads =>
        \/ op.reason
        \/ \E h \in DOMAIN Operations : Operations[h].id = op.followUp /\ Operations[h].method = "GET"
=============================================================================

--------------------------- MODULE ApprovalLedger ---------------------------
(***************************************************************************)
(* What the change-set tools promise, without calls, guards, evidence, I/O  *)
(* faults or Mist: a proposal is granted by somebody entitled to grant it,  *)
(* the grant is claimed once, at most one write is issued and only under a *)
(* claim, and a closed entry is never reopened.                            *)
(***************************************************************************)
EXTENDS Naturals

CONSTANTS ChangeSets, Principals, Humans, None, LabMode

VARIABLES ledger, owner, grant, writes

lvars == <<ledger, owner, grant, writes>>

LedgerInit ==
  /\ ledger = [c \in ChangeSets |-> "none"]
  /\ owner = [c \in ChangeSets |-> None]
  /\ grant = [c \in ChangeSets |-> None]
  /\ writes = [c \in ChangeSets |-> 0]

Move(c, from, to) ==
  /\ ledger[c] = from
  /\ ledger' = [ledger EXCEPT ![c] = to]

Propose(c) ==
  /\ Move(c, "none", "proposed")
  /\ \E who \in Principals : owner' = [owner EXCEPT ![c] = who]
  /\ UNCHANGED <<grant, writes>>

\* Granted by a human other than the owner, or waived where that is allowed.
Grant(c) ==
  /\ Move(c, "proposed", "granted")
  /\ \/ \E who \in Humans \ {owner[c]} : grant' = [grant EXCEPT ![c] = who]
     \/ LabMode /\ grant' = [grant EXCEPT ![c] = "waived"]
  /\ UNCHANGED <<owner, writes>>

Claim(c) == Move(c, "granted", "claimed") /\ UNCHANGED <<owner, grant, writes>>

Write(c) ==
  /\ ledger[c] = "claimed"
  /\ writes[c] = 0
  /\ writes' = [writes EXCEPT ![c] = 1]
  /\ UNCHANGED <<ledger, owner, grant>>

Close(c) == Move(c, "claimed", "closed") /\ UNCHANGED <<owner, grant, writes>>

\* A restart may close claims, but only ones under which nothing was written.
Recover ==
  \E S \in SUBSET {c \in ChangeSets : ledger[c] = "claimed" /\ writes[c] = 0} :
    /\ ledger' = [c \in ChangeSets |-> IF c \in S THEN "closed" ELSE ledger[c]]
    /\ UNCHANGED <<owner, grant, writes>>

LedgerNext ==
  \/ \E c \in ChangeSets : Propose(c) \/ Grant(c) \/ Claim(c) \/ Write(c) \/ Close(c)
  \/ Recover

LedgerSpec == LedgerInit /\ [][LedgerNext]_lvars
=============================================================================

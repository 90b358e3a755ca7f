---------------------------- MODULE ChargeLedger ----------------------------
(***************************************************************************)
(* What credit billing promises, with no storage, process or failure in    *)
(* sight: every job is debited at most once, a debit takes exactly its     *)
(* amount from what the owner has left, never more than that, and a        *)
(* receipt, when there is one, shows the amount that was debited.          *)
(* SiteBilling implements this module (SiteBilling!Ledger).                *)
(***************************************************************************)
EXTENDS Naturals

CONSTANTS Users, Jobs, OwnerOf

VARIABLES phase,    \* phase[j]: "open", then "sealed", then "debited"
          amount,   \* amount[j]: what was debited for j
          receipt,  \* receipt[j]: {} or {the amount the job record shows}
          balance   \* balance[u]: credit u can still spend

ledgerVars == <<phase, amount, receipt, balance>>

LedgerInit ==
  /\ phase = [j \in Jobs |-> "open"]
  /\ amount = [j \in Jobs |-> 0]
  /\ receipt = [j \in Jobs |-> {}]
  /\ balance \in [Users -> Nat]

\* The right to debit a job is won, or lost for good, once. A crash takes it
\* from several jobs in one step.
Seal(S) ==
  /\ \A j \in S : phase[j] = "open"
  /\ phase' = [j \in Jobs |-> IF j \in S THEN "sealed" ELSE phase[j]]
  /\ UNCHANGED <<amount, receipt, balance>>

\* A debit takes its amount from the owner's balance, and no more than is there.
Debit(j) ==
  /\ phase[j] = "sealed"
  /\ phase' = [phase EXCEPT ![j] = "debited"]
  /\ amount' = [amount EXCEPT ![j] = balance[OwnerOf[j]] - balance'[OwnerOf[j]]]
  /\ balance' \in [Users -> Nat]
  /\ \A u \in Users : IF u = OwnerOf[j] THEN balance'[u] <= balance[u]
                                         ELSE balance'[u] = balance[u]
  /\ UNCHANGED receipt

\* The record of a debited job shows its amount, or shows nothing: it is not
\* written yet, a failure overwrote it, or it was deleted.
Record(j) ==
  /\ \E r \in {{}, {amount[j]}} :
       /\ r # {} => phase[j] = "debited"
       /\ receipt' = [receipt EXCEPT ![j] = r]
  /\ UNCHANGED <<phase, amount, balance>>

\* The rest of GetChatly spends, grants and withdraws credit at any time.
Outside ==
  /\ balance' \in [Users -> Nat]
  /\ UNCHANGED <<phase, amount, receipt>>

LedgerNext ==
  \/ \E S \in SUBSET Jobs : Seal(S)
  \/ \E j \in Jobs : Debit(j) \/ Record(j)
  \/ Outside

LedgerSpec == LedgerInit /\ [][LedgerNext]_ledgerVars
=============================================================================

----------------------------- MODULE TransferLedger --------------------------
(***************************************************************************)
(* What a Space wallet transfer promises about its money: what is taken     *)
(* from the user is paid into the wallet or given back, and giving back     *)
(* ends the transfer.                                                       *)
(***************************************************************************)
EXTENDS Naturals

CONSTANTS
  Transfers,  \* transfers, each named by the client's request id
  Amount      \* the money of a transfer

VARIABLES taken, paid, back

ledger == <<taken, paid, back>>

LedgerInit ==
  /\ taken = [t \in Transfers |-> 0]
  /\ paid = [t \in Transfers |-> 0]
  /\ back = [t \in Transfers |-> 0]

Take(t) ==
  /\ taken[t] = 0
  /\ taken' = [taken EXCEPT ![t] = Amount[t]]
  /\ UNCHANGED <<paid, back>>

Pay(t) ==
  /\ back[t] = 0
  /\ \E k \in 1..(taken[t] - paid[t]) : paid' = [paid EXCEPT ![t] = paid[t] + k]
  /\ UNCHANGED <<taken, back>>

GiveBack(t) ==
  /\ back[t] = 0
  /\ taken[t] > paid[t]
  /\ back' = [back EXCEPT ![t] = taken[t] - paid[t]]
  /\ UNCHANGED <<taken, paid>>

LedgerNext == \E t \in Transfers : Take(t) \/ Pay(t) \/ GiveBack(t)

LedgerSpec == LedgerInit /\ [][LedgerNext]_ledger

=============================================================================

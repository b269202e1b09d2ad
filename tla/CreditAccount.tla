---------------------------- MODULE CreditAccount ---------------------------
(***************************************************************************)
(* What the client-credit part of billing promises, free of invoices,      *)
(* payments and transactions: every client has an account whose available  *)
(* amount is exactly what its ledger of credit entries adds up to, each    *)
(* step posts to one client's account, and no posting overdraws it.        *)
(***************************************************************************)
EXTENDS Integers

CONSTANT Clients

VARIABLES
    availableAmount,    \* ClientCreditBalance.availableAmount per client
    ledger              \* the sum of the client's ClientCreditEntry.amount

account == <<availableAmount, ledger>>

Init ==
    /\ availableAmount = [c \in Clients |-> 0]
    /\ ledger = [c \in Clients |-> 0]

\* A posting moves the balance and the ledger by the same amount, and never
\* below zero.
Post(c) ==
    /\ availableAmount' = [availableAmount EXCEPT ![c] = availableAmount'[c]]
    /\ availableAmount'[c] \in Nat
    /\ ledger' = [ledger EXCEPT ![c] = @ + (availableAmount'[c] - availableAmount[c])]

Next == \E c \in Clients : Post(c)

Spec == Init /\ [][Next]_account

=============================================================================

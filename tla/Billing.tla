------------------------------- MODULE Billing -------------------------------
(***************************************************************************)
(* The invoice, payment and client-credit handlers of                      *)
(* packages/backend/src/modules/billing/billing.service.ts, each run to    *)
(* completion before the next one starts: one action per handler.  Module  *)
(* BillingTxn interleaves the statements of concurrent handlers.           *)
(*                                                                         *)
(* A handler runs in one database transaction and throws before its first  *)
(* write or is rolled back, so an error answer is a guard here.            *)
(***************************************************************************)
EXTENDS BillingRules, FiniteSetsExt

CONSTANTS
    Clients,    \* clients of the firm
    Invoices,   \* invoice rows; a slot is free again once its row is deleted
    NoClient,   \* Invoice.clientId = null
    Amounts,    \* the amounts a request may carry
    Totals,     \* the totals that items, tax and discount may give
    MaxPaid     \* bound: payments recorded per invoice

ASSUME ConstantsAssumption ==
    /\ NoClient \notin Clients
    /\ IsFiniteSet(Invoices)
    /\ Amounts \subseteq Nat \ {0}
    /\ Totals \subseteq Int
    /\ MaxPaid \in Nat

VARIABLES
    status,          \* Invoice.status, or "ABSENT" where there is no row
    clientOf,        \* Invoice.clientId
    totalAmount,     \* Invoice.totalAmount
    paid,            \* sum of the invoice's Payment rows
    paidApplied,     \* sum of its InvoiceCreditApplication rows with a paymentId
    creditApplied,   \* sum of its InvoiceCreditApplication rows without one
    postings,        \* sum of the ClientCreditEntry rows that name the invoice
    availableAmount, \* ClientCreditBalance.availableAmount (0: no row yet)
    ledger           \* sum of the client's ClientCreditEntry rows

money   == <<paid, paidApplied, creditApplied, postings, availableAmount, ledger>>
vars    == <<status, clientOf, totalAmount, money>>
account == <<availableAmount, ledger>>

-----------------------------------------------------------------------------

Exists(i) == status[i] # "ABSENT"
Linked(i) == clientOf[i] # NoClient

TypeOK ==
    /\ status \in [Invoices -> InvoiceStatus \cup {"ABSENT"}]
    /\ clientOf \in [Invoices -> Clients \cup {NoClient}]
    /\ totalAmount \in [Invoices -> Int]
    /\ paid \in [Invoices -> Nat]
    /\ paidApplied \in [Invoices -> Nat]
    /\ creditApplied \in [Invoices -> Nat]
    /\ postings \in [Invoices -> Int]
    /\ availableAmount \in [Clients -> Int]
    /\ ledger \in [Clients -> Int]

Init ==
    /\ status = [i \in Invoices |-> "ABSENT"]
    /\ clientOf = [i \in Invoices |-> NoClient]
    /\ totalAmount = [i \in Invoices |-> 0]
    /\ paid = [i \in Invoices |-> 0]
    /\ paidApplied = [i \in Invoices |-> 0]
    /\ creditApplied = [i \in Invoices |-> 0]
    /\ postings = [i \in Invoices |-> 0]
    /\ availableAmount = [c \in Clients |-> 0]
    /\ ledger = [c \in Clients |-> 0]

(***************************************************************************)
(* A credit entry: it names the client and the invoice.                    *)
(***************************************************************************)
\* Seeded fault: the balance moves, the ledger keeps no entry.
PostCreditUnrecorded(i, c, delta) ==
    /\ availableAmount' = [availableAmount EXCEPT ![c] = @ + delta]
    /\ UNCHANGED <<postings, ledger>>

PostCredit(i, c, delta) ==
    /\ availableAmount' = [availableAmount EXCEPT ![c] = @ + delta]
    /\ postings' = [postings EXCEPT ![i] = @ + delta]
    /\ ledger' = [ledger EXCEPT ![c] = @ + delta]

-----------------------------------------------------------------------------
(***************************************************************************)
(* createInvoice.  The payload names a client, a case, both or neither; a  *)
(* case (caseClient is its client) decides, and contradicting it is 422.   *)
(* The row starts as a DRAFT with no money attached.                       *)
(***************************************************************************)
CreateInvoice(i, payloadClient, caseClient, total) ==
    /\ ~Exists(i)
    /\ caseClient # NoClient => payloadClient \in {NoClient, caseClient}
    /\ status' = [status EXCEPT ![i] = "DRAFT"]
    /\ clientOf' = [clientOf EXCEPT ![i] =
                        IF caseClient # NoClient THEN caseClient ELSE payloadClient]
    /\ totalAmount' = [totalAmount EXCEPT ![i] = total]
    /\ UNCHANGED money

(***************************************************************************)
(* updateInvoice.  Only a voided invoice is refused.  The total follows    *)
(* the new items, tax and discount; the status is left as it is.           *)
(***************************************************************************)
UpdateInvoice(i, total) ==
    /\ Exists(i)
    /\ status[i] # "VOID"
    /\ totalAmount' = [totalAmount EXCEPT ![i] = total]
    /\ UNCHANGED <<status, clientOf, money>>

IssueInvoice(i) ==
    /\ status[i] = "DRAFT"
    /\ status' = [status EXCEPT ![i] = "ISSUED"]
    /\ UNCHANGED <<clientOf, totalAmount, money>>

\* voidInvoice reads nothing and reverses nothing.
VoidInvoice(i) ==
    /\ Exists(i)
    /\ status' = [status EXCEPT ![i] = "VOID"]
    /\ UNCHANGED <<clientOf, totalAmount, money>>

(***************************************************************************)
(* addPayment.  A DRAFT is issued on the way, which the status derived at  *)
(* the end replaces.  The part the invoice still needs is applied, with a  *)
(* credit application next to the payment if the invoice has a client; the *)
(* excess becomes client credit, and is refused without a client.          *)
(***************************************************************************)
AddPayment(i, amount) ==
    LET c         == clientOf[i]
        recorded  == Recorded(paid[i], paidApplied[i], creditApplied[i])
        remaining == ClampRemaining(totalAmount[i], recorded)
        applied   == AppliedToInvoice(amount, remaining)
        excess    == amount - applied
    IN  /\ Payable(status[i])
        /\ paid[i] + amount <= MaxPaid
        /\ excess > 0 => Linked(i)
        /\ paid' = [paid EXCEPT ![i] = @ + amount]
        /\ paidApplied' = [paidApplied EXCEPT ![i] = IF Linked(i) THEN @ + applied ELSE @]
        /\ IF excess > 0 THEN PostCredit(i, c, excess)
                         ELSE UNCHANGED <<postings, account>>
        /\ status' = [status EXCEPT ![i] =
                DeriveStatus(totalAmount[i],
                             Recorded(paid'[i], paidApplied'[i], creditApplied[i]))]
        /\ UNCHANGED <<clientOf, totalAmount, creditApplied>>

(***************************************************************************)
(* applyInvoiceCredit.  The amount must fit both the client's credit and   *)
(* what the invoice still needs.                                           *)
(***************************************************************************)
ApplyInvoiceCredit(i, amount) ==
    LET c         == clientOf[i]
        recorded  == Recorded(paid[i], paidApplied[i], creditApplied[i])
    IN  /\ Creditable(status[i])
        /\ Linked(i)
        /\ amount <= ClampRemaining(totalAmount[i], recorded)
        /\ amount <= availableAmount[c]
        /\ creditApplied' = [creditApplied EXCEPT ![i] = @ + amount]
        /\ PostCredit(i, c, -amount)
        /\ status' = [status EXCEPT ![i] =
                DeriveStatus(totalAmount[i],
                             Recorded(paid[i], paidApplied[i], creditApplied'[i]))]
        /\ UNCHANGED <<clientOf, totalAmount, paid, paidApplied>>

(***************************************************************************)
(* deleteInvoice.  For an invoice with a client, the credit its payments   *)
(* created is taken back first, which fails if the client has spent it,    *)
(* and the credit it consumed is returned.  The row then goes, with its    *)
(* payments and applications (ON DELETE CASCADE); the ledger entries stay  *)
(* but no longer name it (ON DELETE SET NULL).                             *)
(***************************************************************************)
\* Seeded fault: the reversal is not checked against the balance.
ReversalCoveredAlways(c, overpaid) == TRUE

ReversalCovered(c, overpaid) == overpaid <= availableAmount[c]

\* Seeded fault: the credit the invoice consumed is not returned.
ReversalOverpaymentOnly(i) == - OverpaymentCredit(paid[i], paidApplied[i])

Reversal(i) == creditApplied[i] - OverpaymentCredit(paid[i], paidApplied[i])

DeleteInvoice(i) ==
    LET c == clientOf[i]
    IN  /\ Exists(i)
        /\ IF Linked(i)
             THEN /\ ReversalCovered(c, OverpaymentCredit(paid[i], paidApplied[i]))
                  /\ availableAmount' = [availableAmount EXCEPT ![c] = @ + Reversal(i)]
                  /\ ledger' = [ledger EXCEPT ![c] = @ + Reversal(i)]
             ELSE UNCHANGED account
        /\ status' = [status EXCEPT ![i] = "ABSENT"]
        /\ clientOf' = [clientOf EXCEPT ![i] = NoClient]
        /\ totalAmount' = [totalAmount EXCEPT ![i] = 0]
        /\ paid' = [paid EXCEPT ![i] = 0]
        /\ paidApplied' = [paidApplied EXCEPT ![i] = 0]
        /\ creditApplied' = [creditApplied EXCEPT ![i] = 0]
        /\ postings' = [postings EXCEPT ![i] = 0]

-----------------------------------------------------------------------------

Next ==
    \E i \in Invoices :
        \/ \E p, k \in Clients \cup {NoClient}, total \in Totals : CreateInvoice(i, p, k, total)
        \/ \E total \in Totals : UpdateInvoice(i, total)
        \/ IssueInvoice(i)
        \/ VoidInvoice(i)
        \/ \E amount \in Amounts : AddPayment(i, amount)
        \/ \E amount \in Amounts : ApplyInvoiceCredit(i, amount)
        \/ DeleteInvoice(i)

Spec == Init /\ [][Next]_vars

-----------------------------------------------------------------------------
(***************************************************************************)
(* Properties.                                                             *)
(***************************************************************************)

\* The balance a client may spend is what its credit ledger adds up to, and
\* no sequence of payments, applications and deletions overdraws it
\* (incrementClientCreditBalance, decrementClientCreditBalance and every
\* createClientCreditEntry beside them).
BalanceMatchesLedger ==
    \A c \in Clients : availableAmount[c] = ledger[c] /\ availableAmount[c] >= 0

\* The ledger entries that name an invoice add up to the credit its payments
\* created minus the credit it consumed: exactly what deleteInvoice computes
\* from the payments and applications when it reverses them.
PostingsMatchInvoice ==
    \A i \in Invoices :
        /\ Linked(i) => postings[i] = paid[i] - paidApplied[i] - creditApplied[i]
        /\ ~Linked(i) => postings[i] = 0 /\ paidApplied[i] = 0 /\ creditApplied[i] = 0
        /\ paidApplied[i] <= paid[i]

\* The credit an invoice's payments created less the credit it consumed.
NetCredit == [i \in Invoices |-> paid[i] - paidApplied[i] - creditApplied[i]]

Own(c) == {i \in Invoices : clientOf[i] = c}

Total(f, S) == MapThenSumSet(LAMBDA i : f[i], S)

\* Every unit of credit a client can spend stems from an overpayment of an
\* invoice that still exists and was not spent on another one (addPayment,
\* applyInvoiceCredit and deleteInvoice over all the invoices of a client).
CreditIsBacked == \A c \in Clients : availableAmount[c] = Total(NetCredit, Own(c))

\* What really settles an invoice, each payment counted once.
Covered(i) == IF Linked(i) THEN paidApplied[i] + creditApplied[i] ELSE paid[i]

\* Neither a payment nor a credit application settles more of an invoice than
\* its total (the split in addPayment, the two 422 checks of applyInvoiceCredit).
NeverOverApplied ==
    [][\A i \in Invoices : Covered(i)' > Covered(i) => Covered(i)' <= totalAmount'[i]]_vars

\* Once voided, an invoice keeps its status, its total and its money until it
\* is deleted (the VOID guards of updateInvoice, addPayment, issueInvoice and
\* applyInvoiceCredit).
VoidIsFinal ==
    [][\A i \in Invoices : status[i] = "VOID" /\ Exists(i)' =>
            /\ status'[i] = "VOID"
            /\ UNCHANGED <<totalAmount[i], paid[i], paidApplied[i], creditApplied[i]>>]_vars

\* Deleting an invoice undoes what it did to its client's credit, no more and
\* no less: its ledger entries and their reversal cancel out (deleteInvoice).
DeleteCancelsPostings ==
    [][\A i \in Invoices : Exists(i) /\ ~Exists(i)' =>
            \A c \in Clients :
                availableAmount'[c] = availableAmount[c]
                                        - (IF clientOf[i] = c THEN postings[i] ELSE 0)]_vars

\* The client-credit side of billing is a CreditAccount.
Account == INSTANCE CreditAccount
           WITH Clients <- Clients, availableAmount <- availableAmount, ledger <- ledger
ImplementsCreditAccount == Account!Spec

\* The user guide: "If the payment covers the full remaining balance, the
\* status becomes PAID": a step that settles the rest of an invoice leaves it
\* PAID (the status derived at the end of addPayment and applyInvoiceCredit).
FullPaymentSettles ==
    [][\A i \in Invoices : Covered(i)' > Covered(i) /\ Covered(i)' >= totalAmount'[i]
                                => status'[i] = "PAID"]_vars

\* The user guide: "PAID: The full invoice amount has been received", and a
\* payment that leaves a balance makes the invoice PARTIALLY_PAID.
PaidMeansCovered ==
    [][\A i \in Invoices : status[i] # "PAID" /\ status'[i] = "PAID"
                                => Covered(i)' >= totalAmount[i]]_vars

=============================================================================

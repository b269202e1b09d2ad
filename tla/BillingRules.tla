---------------------------- MODULE BillingRules ----------------------------
(***************************************************************************)
(* The arithmetic of billing.service.ts, shared by the serial and by the   *)
(* interleaved model of the billing handlers.  Money is an integer number  *)
(* of the smallest unit (the columns are Decimal(12,2)).  The handlers use *)
(* an invoice's payments and credit applications only through their sums,  *)
(* so the models keep three sums per invoice:                              *)
(*   paid           the payments,                                          *)
(*   paidApplied    the credit applications that carry a paymentId,        *)
(*   creditApplied  the credit applications whose paymentId is null.       *)
(***************************************************************************)
EXTENDS Integers

InvoiceStatus == {"DRAFT", "ISSUED", "PARTIALLY_PAID", "PAID", "VOID"}

\* The statuses a row goes through once it has been sent to the client.
SentStatus == {"ISSUED", "PARTIALLY_PAID", "PAID"}

(***************************************************************************)
(* What buildAppliedAmounts concatenates: every payment and every credit   *)
(* application, those written next to a payment included.                  *)
(***************************************************************************)
Recorded(paid, paidApplied, creditApplied) == paid + paidApplied + creditApplied

\* Seeded fault: an amount that brings the sum to the total is not enough.
DeriveStatusStrict(total, applied) ==
    IF applied > total THEN "PAID"
    ELSE IF applied > 0 THEN "PARTIALLY_PAID" ELSE "ISSUED"

DeriveStatus(total, applied) ==
    IF applied >= total THEN "PAID"
    ELSE IF applied > 0 THEN "PARTIALLY_PAID" ELSE "ISSUED"

\* Seeded fault: the remaining balance ignores what is already recorded.
ClampRemainingGross(total, applied) == IF total > 0 THEN total ELSE 0

\* Seeded fault: an overpaid invoice has a negative remaining balance.
ClampRemainingSigned(total, applied) == total - applied

ClampRemaining(total, applied) == IF applied >= total THEN 0 ELSE total - applied

\* The part of a payment the invoice still needs; the rest is client credit.
AppliedToInvoice(amount, remaining) == IF amount <= remaining THEN amount ELSE remaining

\* Seeded fault: a payment of a linked invoice is taken for an overpayment.
OverpaymentCreditGross(paid, paidApplied) == paid

\* The client credit that an invoice's payments created (deleteInvoice).
OverpaymentCredit(paid, paidApplied) ==
    IF paid - paidApplied > 0 THEN paid - paidApplied ELSE 0

\* Seeded fault: a voided invoice takes payments.
PayableAlways(status) == status \in InvoiceStatus

\* addPayment refuses voided invoices only.
Payable(status) == status \in InvoiceStatus \ {"VOID"}

\* applyInvoiceCredit wants an issued invoice that is not settled.
Creditable(status) == status \in {"ISSUED", "PARTIALLY_PAID"}

=============================================================================

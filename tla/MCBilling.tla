------------------------------ MODULE MCBilling ------------------------------
(***************************************************************************)
(* Model checking of the billing handlers run one at a time: two invoices  *)
(* that may share a client, so that credit created by overpaying one of    *)
(* them is spent on the other before either is voided or deleted.          *)
(***************************************************************************)
EXTENDS Billing

CONSTANTS i1, i2, c1, c2

MCInvoices == {i1, i2}
MCClients  == {c1, c2}
MCAmounts  == {1, 2}
MCTotals   == {1, 2}

=============================================================================

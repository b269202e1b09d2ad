---------------------------- MODULE MCBillingTxn ----------------------------
(***************************************************************************)
(* Two handlers at a time over two invoices of one unit and one client,    *)
(* each paid at most twice: the second payment overpays an invoice, and    *)
(* both handlers may contend for the unit of credit that makes.            *)
(***************************************************************************)
EXTENDS BillingTxn, TLC

CONSTANTS t1, t2, i1, i2, c1

MCTxs      == {t1, t2}
MCInvoices == {i1, i2}
MCClients  == {c1}
Unit       == {1}

\* Handlers and invoices are interchangeable: nothing orders them.
Symmetry == Permutations(MCTxs) \cup Permutations(MCInvoices)

=============================================================================

----------------------------- MODULE BillingTxn -----------------------------
(***************************************************************************)
(* The billing handlers of module Billing as concurrent transactions.      *)
(* withTenant (db/tenant.ts) opens a Prisma interactive transaction at     *)
(* PostgreSQL's default level, READ COMMITTED: every statement sees what   *)
(* was committed when it started, and the transaction's own writes.        *)
(*                                                                         *)
(* The variables of Billing are the committed rows.  A step is a statement *)
(* of a handler, or a few that no other transaction can tell apart; the    *)
(* last write of a handler and its COMMIT are one step, for a step of      *)
(* another transaction that fits between them fits before them as well.    *)
(*                                                                         *)
(* PostgreSQL (external) gives three locks, held until the end:            *)
(*   - an UPDATE or DELETE of the invoice row excludes the others;         *)
(*   - a new row that refers to the invoice excludes its DELETE;           *)
(*   - an UPDATE of the client's balance row excludes the others.          *)
(* A statement that must wait is not enabled.                              *)
(***************************************************************************)
EXTENDS Billing

CONSTANTS
    Txs,        \* database connections, each running one handler at a time
    MaxCredit   \* bound: no payment starts while its client has more credit

VARIABLES
    pc,      \* the next statement of the handler, "idle" between handlers
    req,     \* its request: kind, invoice, amount (the new total of an update)
    seen,    \* what its latest statements read
    pend     \* what it has written and not committed

txVars  == <<pc, req, seen, pend>>
allVars == <<vars, txVars>>

Kinds == {"pay", "credit", "delete", "void", "issue", "update"}
Steps == {"idle", "autoIssue", "payments", "applications", "insertPayment", "postExcess",
          "balance", "decrement", "apply", "reverse", "deleteRow",
          "recountPayments", "recountApplications", "writeStatus", "writeRow"}

NoRead    == [client |-> NoClient, total |-> 0, paid |-> 0, paidApplied |-> 0,
              creditApplied |-> 0]
NoWrite   == [row |-> FALSE, balance |-> FALSE, paid |-> 0, paidApplied |-> 0,
              creditApplied |-> 0, delta |-> 0]

TxnTypeOK ==
    /\ TypeOK
    /\ pc \in [Txs -> Steps]
    /\ DOMAIN req = Txs
    /\ seen \in [Txs -> [client : Clients \cup {NoClient}, total : Int, paid : Nat,
                         paidApplied : Nat, creditApplied : Nat]]
    /\ pend \in [Txs -> [row : BOOLEAN, balance : BOOLEAN, paid : Nat, paidApplied : Nat,
                         creditApplied : Nat, delta : Int]]

TxnInit ==
    /\ Init
    /\ pc = [t \in Txs |-> "idle"]
    /\ req = [t \in Txs |-> <<>>]
    /\ seen = [t \in Txs |-> NoRead]
    /\ pend = [t \in Txs |-> NoWrite]

-----------------------------------------------------------------------------

InFlight(i) == {t \in Txs : pc[t] # "idle" /\ req[t].invoice = i}
Rivals(t)   == InFlight(req[t].invoice) \ {t}

RefersToInvoice(t) == pend[t].paid > 0 \/ pend[t].creditApplied > 0

\* Locks the transaction may take now; without the row the statement fails.
CanUpdateRow(t) == Exists(req[t].invoice) /\ \A u \in Rivals(t) : ~pend[u].row
CanDeleteRow(t) == CanUpdateRow(t) /\ \A u \in Rivals(t) : ~RefersToInvoice(u)
CanReferTo(t)   == Exists(req[t].invoice)
CanPost(t)      == \A u \in Txs \ {t} : pend[u].balance => seen[u].client # seen[t].client

GoTo(t, step) == pc' = [pc EXCEPT ![t] = step]

Finish(t) ==
    /\ GoTo(t, "idle")
    /\ req' = [req EXCEPT ![t] = <<>>]
    /\ seen' = [seen EXCEPT ![t] = NoRead]
    /\ pend' = [pend EXCEPT ![t] = NoWrite]

\* An UPDATE of the balance row, and the credit entry beside it.
Post(t, delta) ==
    /\ CanPost(t)
    /\ pend' = [pend EXCEPT ![t].balance = TRUE, ![t].delta = @ + delta]

-----------------------------------------------------------------------------
(***************************************************************************)
(* The first statement of each handler reads the invoice row.  What it     *)
(* answers with an error has no effect and does not start here.            *)
(***************************************************************************)
Start(t, kind, i, amount, step) ==
    /\ pc[t] = "idle"
    /\ Exists(i)
    /\ GoTo(t, step)
    /\ req' = [req EXCEPT ![t] = [kind |-> kind, invoice |-> i, amount |-> amount]]
    /\ seen' = [seen EXCEPT ![t].client = clientOf[i], ![t].total = totalAmount[i]]
    /\ UNCHANGED <<vars, pend>>

StartPayment(t, i, amount) ==
    /\ Payable(status[i])
    /\ paid[i] + amount <= MaxPaid
    /\ Linked(i) => availableAmount[clientOf[i]] <= MaxCredit
    /\ Start(t, "pay", i, amount, IF status[i] = "DRAFT" THEN "autoIssue" ELSE "payments")

StartCredit(t, i, amount) ==
    /\ Creditable(status[i])
    /\ Linked(i)
    /\ Start(t, "credit", i, amount, "payments")

StartDelete(t, i) == Start(t, "delete", i, 0, "payments")

StartIssue(t, i) == status[i] = "DRAFT" /\ Start(t, "issue", i, 0, "writeRow")

StartUpdate(t, i, total) == status[i] # "VOID" /\ Start(t, "update", i, total, "writeRow")

\* voidInvoice has no guard and reads nothing.
StartVoid(t, i) == Start(t, "void", i, 0, "writeRow")

-----------------------------------------------------------------------------

\* addPayment issues a draft, and takes its total from the updated row.
AutoIssue(t) ==
    /\ pc[t] = "autoIssue"
    /\ CanUpdateRow(t)
    /\ pend' = [pend EXCEPT ![t].row = TRUE]
    /\ seen' = [seen EXCEPT ![t].total = totalAmount[req[t].invoice]]
    /\ GoTo(t, "payments")
    /\ UNCHANGED <<vars, req>>

\* The payments are read before the handler's writes and again after them.
ReadPayments(t) ==
    /\ pc[t] \in {"payments", "recountPayments"}
    /\ seen' = [seen EXCEPT ![t].paid = paid[req[t].invoice] + pend[t].paid]
    /\ GoTo(t, IF pc[t] = "payments" THEN "applications" ELSE "recountApplications")
    /\ UNCHANGED <<vars, req, pend>>

FirstWrite == [pay |-> "insertPayment", credit |-> "balance", delete |-> "reverse"]

\* So are the credit applications, by a statement of their own.
ReadApplications(t) ==
    LET i == req[t].invoice
    IN  /\ pc[t] \in {"applications", "recountApplications"}
        /\ seen' = [seen EXCEPT
                        ![t].paidApplied = paidApplied[i] + pend[t].paidApplied,
                        ![t].creditApplied = creditApplied[i] + pend[t].creditApplied]
        /\ GoTo(t, IF pc[t] = "recountApplications" THEN "writeStatus"
                   ELSE FirstWrite[req[t].kind])
        /\ UNCHANGED <<vars, req, pend>>

SeenRecorded(t) == Recorded(seen[t].paid, seen[t].paidApplied, seen[t].creditApplied)

\* addPayment: the payment row and, for a client, its application.
InsertPayment(t) ==
    LET amount  == req[t].amount
        linked  == seen[t].client # NoClient
        applied == AppliedToInvoice(amount, ClampRemaining(seen[t].total, SeenRecorded(t)))
    IN  /\ pc[t] = "insertPayment"
        /\ amount > applied => linked
        /\ CanReferTo(t)
        /\ pend' = [pend EXCEPT ![t].paid = amount,
                                ![t].paidApplied = IF linked THEN applied ELSE 0]
        /\ GoTo(t, IF amount > applied THEN "postExcess" ELSE "recountPayments")
        /\ UNCHANGED <<vars, req, seen>>

\* Seeded fault: the excess is left with the payment.
KeepExcess(t) ==
    /\ pc[t] = "postExcess"
    /\ GoTo(t, "recountPayments")
    /\ UNCHANGED <<vars, req, pend, seen>>

\* addPayment: the excess becomes client credit.
PostExcess(t) ==
    /\ pc[t] = "postExcess"
    /\ Post(t, pend[t].paid - pend[t].paidApplied)
    /\ GoTo(t, "recountPayments")
    /\ UNCHANGED <<vars, req, seen>>

\* applyInvoiceCredit: the amount fits what was read of the invoice and fits
\* the balance, which is only read here.
CheckBalance(t) ==
    /\ pc[t] = "balance"
    /\ req[t].amount <= availableAmount[seen[t].client]
    /\ req[t].amount <= ClampRemaining(seen[t].total, SeenRecorded(t))
    /\ GoTo(t, "decrement")
    /\ UNCHANGED <<vars, req, seen, pend>>

\* Seeded fault: the UPDATE is not conditional on the balance.
CoveredAlways(c, amount) == TRUE

\* decrementClientCreditBalance: WHERE availableAmount >= amount.
CoveredByBalance(c, amount) == amount <= availableAmount[c]

\* applyInvoiceCredit: the balance is decremented,
Decrement(t) ==
    /\ pc[t] = "decrement"
    /\ CoveredByBalance(seen[t].client, req[t].amount)
    /\ Post(t, -req[t].amount)
    /\ GoTo(t, "apply")
    /\ UNCHANGED <<vars, req, seen>>

\* and the application is inserted.
Apply(t) ==
    /\ pc[t] = "apply"
    /\ CanReferTo(t)
    /\ pend' = [pend EXCEPT ![t].creditApplied = req[t].amount]
    /\ GoTo(t, "recountPayments")
    /\ UNCHANGED <<vars, req, seen>>

\* deleteInvoice: the overpayment it read is taken back and the credit it read
\* is returned, both on the client's balance row.
Reverse(t) ==
    LET overpaid == OverpaymentCredit(seen[t].paid, seen[t].paidApplied)
        returned == seen[t].creditApplied
    IN  /\ pc[t] = "reverse"
        /\ IF seen[t].client # NoClient /\ (overpaid > 0 \/ returned > 0)
             THEN /\ overpaid > 0 => CoveredByBalance(seen[t].client, overpaid)
                  /\ Post(t, returned - overpaid)
             ELSE UNCHANGED pend
        /\ GoTo(t, "deleteRow")
        /\ UNCHANGED <<vars, req, seen>>

-----------------------------------------------------------------------------
(***************************************************************************)
(* The last writes, with their COMMIT, and ROLLBACK.                       *)
(***************************************************************************)

\* Seeded fault: the credit a transaction posts reaches its balance only.
CommitBalanceOnly(t) ==
    LET c == seen[t].client
    IN  /\ availableAmount' = IF c = NoClient THEN availableAmount
                              ELSE [availableAmount EXCEPT ![c] = @ + pend[t].delta]
        /\ UNCHANGED ledger

CommitAccount(t) ==
    LET c == seen[t].client
    IN  IF c = NoClient THEN UNCHANGED account
        ELSE /\ availableAmount' = [availableAmount EXCEPT ![c] = @ + pend[t].delta]
             /\ ledger' = [ledger EXCEPT ![c] = @ + pend[t].delta]

\* addPayment and applyInvoiceCredit: the status follows what was recounted,
\* whatever the row says by now.
WriteStatus(t) ==
    LET i == req[t].invoice
    IN  /\ pc[t] = "writeStatus"
        /\ CanUpdateRow(t)
        /\ status' = [status EXCEPT ![i] = DeriveStatus(seen[t].total, SeenRecorded(t))]
        /\ paid' = [paid EXCEPT ![i] = @ + pend[t].paid]
        /\ paidApplied' = [paidApplied EXCEPT ![i] = @ + pend[t].paidApplied]
        /\ creditApplied' = [creditApplied EXCEPT ![i] = @ + pend[t].creditApplied]
        /\ postings' = [postings EXCEPT ![i] = @ + pend[t].delta]
        /\ CommitAccount(t)
        /\ Finish(t)
        /\ UNCHANGED <<clientOf, totalAmount>>

SetStatus == [void |-> "VOID", issue |-> "ISSUED"]

\* voidInvoice, issueInvoice and updateInvoice write their columns of the row.
WriteRow(t) ==
    LET i == req[t].invoice
    IN  /\ pc[t] = "writeRow"
        /\ CanUpdateRow(t)
        /\ status' = [status EXCEPT ![i] = IF req[t].kind = "update" THEN @
                                           ELSE SetStatus[req[t].kind]]
        /\ totalAmount' = [totalAmount EXCEPT ![i] =
                                IF req[t].kind = "update" THEN req[t].amount ELSE @]
        /\ Finish(t)
        /\ UNCHANGED <<clientOf, money>>

\* deleteInvoice: the row goes with whatever payments and applications it has
\* by now (ON DELETE CASCADE).
DeleteRow(t) ==
    LET i == req[t].invoice
    IN  /\ pc[t] = "deleteRow"
        /\ CanDeleteRow(t)
        /\ status' = [status EXCEPT ![i] = "ABSENT"]
        /\ clientOf' = [clientOf EXCEPT ![i] = NoClient]
        /\ totalAmount' = [totalAmount EXCEPT ![i] = 0]
        /\ paid' = [paid EXCEPT ![i] = 0]
        /\ paidApplied' = [paidApplied EXCEPT ![i] = 0]
        /\ creditApplied' = [creditApplied EXCEPT ![i] = 0]
        /\ postings' = [postings EXCEPT ![i] = 0]
        /\ CommitAccount(t)
        /\ Finish(t)

\* A later check of the handler fails, a row is gone, two transactions wait for
\* each other, or Prisma's transaction timeout expires.
Rollback(t) == pc[t] # "idle" /\ Finish(t) /\ UNCHANGED vars

\* createInvoice inserts rows of its own.  A slot stands for a new row id, so
\* it is not used again while a handler still holds the old one.
Create(i, payloadClient, caseClient, total) ==
    /\ InFlight(i) = {}
    /\ CreateInvoice(i, payloadClient, caseClient, total)
    /\ UNCHANGED txVars

TxnNext ==
    \/ \E i \in Invoices, p, k \in Clients \cup {NoClient}, total \in Totals :
            Create(i, p, k, total)
    \/ \E t \in Txs :
        \/ \E i \in Invoices, amount \in Amounts : StartPayment(t, i, amount)
        \/ \E i \in Invoices, amount \in Amounts : StartCredit(t, i, amount)
        \/ \E i \in Invoices : StartDelete(t, i)
        \/ \E i \in Invoices : StartVoid(t, i)
        \/ \E i \in Invoices : StartIssue(t, i)
        \/ \E i \in Invoices, total \in Totals : StartUpdate(t, i, total)
        \/ AutoIssue(t)
        \/ ReadPayments(t)
        \/ ReadApplications(t)
        \/ InsertPayment(t)
        \/ PostExcess(t)
        \/ CheckBalance(t)
        \/ Decrement(t)
        \/ Apply(t)
        \/ Reverse(t)
        \/ WriteStatus(t)
        \/ WriteRow(t)
        \/ DeleteRow(t)
        \/ Rollback(t)

TxnSpec == TxnInit /\ [][TxnNext]_allVars

-----------------------------------------------------------------------------
(***************************************************************************)
(* BalanceMatchesLedger, PostingsMatchInvoice and ImplementsCreditAccount  *)
(* of Billing speak of the committed rows and are checked here again.      *)
(***************************************************************************)

\* What the open transactions have posted to a client's balance is held by one
\* of them only and leaves the balance non-negative once it commits: the
\* conditional UPDATE sees the latest committed balance and keeps the row
\* locked (decrementClientCreditBalance, incrementClientCreditBalance).
OpenPostingIsCovered ==
    \A t, u \in Txs : pend[t].balance =>
        /\ availableAmount[seen[t].client] + pend[t].delta >= 0
        /\ pend[u].balance /\ seen[u].client = seen[t].client => u = t

=============================================================================

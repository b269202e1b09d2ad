--------------------------- MODULE BillingProofs ---------------------------
(***************************************************************************)
(* Proofs about modules Billing and BillingTxn, for every set of clients,  *)
(* invoices, connections, amounts and totals.                              *)
(*                                                                         *)
(* The invariant IInv adds to the checked invariants that a slot without a *)
(* row carries no money and no client: createInvoice reuses the slot, and  *)
(* what PostingsMatchInvoice says of the new row rests on it.              *)
(***************************************************************************)
EXTENDS BillingTxn, FiniteSetTheorems, WellFoundedInduction, TLAPS

AbsentIsEmpty ==
    \A i \in Invoices : ~Exists(i) =>
        /\ clientOf[i] = NoClient
        /\ paid[i] = 0 /\ paidApplied[i] = 0 /\ creditApplied[i] = 0 /\ postings[i] = 0

IInv == TypeOK /\ BalanceMatchesLedger /\ PostingsMatchInvoice /\ AbsentIsEmpty

-----------------------------------------------------------------------------
(***************************************************************************)
(* The arithmetic of BillingRules.                                         *)
(***************************************************************************)

\* The remaining balance is never negative, and exceeds the recorded sum's
\* distance to the total only where that is negative (clampRemaining).
LEMMA RemainingBounds ==
    ASSUME NEW total \in Int, NEW applied \in Int
    PROVE  /\ ClampRemaining(total, applied) \in Nat
           /\ ClampRemaining(total, applied) > 0 =>
                ClampRemaining(total, applied) = total - applied
BY DEF ClampRemaining

\* A payment is split in two non-negative parts, the first of which fits what
\* the invoice still needs (addPayment).
LEMMA SplitBounds ==
    ASSUME NEW amount \in Nat, NEW remaining \in Nat
    PROVE  /\ AppliedToInvoice(amount, remaining) \in Nat
           /\ AppliedToInvoice(amount, remaining) <= amount
           /\ AppliedToInvoice(amount, remaining) <= remaining
BY DEF AppliedToInvoice

\* deriveStatus answers one of the statuses of an invoice that has been sent.
LEMMA DeriveStatusType ==
    ASSUME NEW total \in Int, NEW applied \in Int
    PROVE  DeriveStatus(total, applied) \in SentStatus
BY DEF DeriveStatus, SentStatus

-----------------------------------------------------------------------------

\* A database without invoices satisfies the invariant.
LEMMA InitIInv == Init => IInv
BY ConstantsAssumption DEF Init, IInv, TypeOK, BalanceMatchesLedger, PostingsMatchInvoice,
   AbsentIsEmpty, Exists, Linked

\* addPayment keeps the invariant.
LEMMA AddPaymentIInv ==
    ASSUME IInv, NEW i \in Invoices, NEW amount \in Amounts, AddPayment(i, amount)
    PROVE  IInv'
<1> DEFINE remaining == ClampRemaining(totalAmount[i],
                            Recorded(paid[i], paidApplied[i], creditApplied[i]))
           applied   == AppliedToInvoice(amount, remaining)
           excess    == amount - applied
<1> USE DEF IInv, TypeOK
<1>1. amount \in Nat /\ amount > 0
  BY ConstantsAssumption
<1>2. remaining \in Nat
  <2>1. Recorded(paid[i], paidApplied[i], creditApplied[i]) \in Int
    BY DEF Recorded
  <2> QED BY <2>1, RemainingBounds
<1>3. /\ applied \in Nat /\ applied <= amount
      /\ excess \in Nat
  <2> HIDE DEF remaining
  <2>1. applied \in Nat /\ applied <= amount
    BY <1>1, <1>2, SplitBounds, Zenon
  <2> HIDE DEF applied
  <2> QED BY <1>1, <2>1
<1>4. /\ paid' = [paid EXCEPT ![i] = @ + amount]
      /\ paidApplied' = [paidApplied EXCEPT ![i] = IF Linked(i) THEN @ + applied ELSE @]
      /\ UNCHANGED <<clientOf, totalAmount, creditApplied>>
      /\ excess > 0 => Linked(i)
      /\ Exists(i)
  BY DEF AddPayment, Payable, Exists, InvoiceStatus
<1>5. \/ /\ excess = 0
         /\ UNCHANGED <<postings, account>>
      \/ /\ clientOf[i] \in Clients
         /\ availableAmount' = [availableAmount EXCEPT ![clientOf[i]] = @ + excess]
         /\ postings' = [postings EXCEPT ![i] = @ + excess]
         /\ ledger' = [ledger EXCEPT ![clientOf[i]] = @ + excess]
  BY <1>3 DEF AddPayment, PostCredit, Linked
<1>6. status' = [status EXCEPT ![i] = status'[i]] /\ status'[i] \in SentStatus
  <2>1. status' = [status EXCEPT ![i] =
           DeriveStatus(totalAmount[i], Recorded(paid'[i], paidApplied'[i], creditApplied[i]))]
    BY DEF AddPayment
  <2>2. Recorded(paid'[i], paidApplied'[i], creditApplied[i]) \in Int
    BY <1>1, <1>3, <1>4 DEF Recorded
  <2> QED BY <2>1, <2>2, DeriveStatusType
<1>7. TypeOK'
  BY <1>1, <1>3, <1>4, <1>5, <1>6 DEF account, SentStatus, InvoiceStatus
<1>8. BalanceMatchesLedger'
  BY <1>3, <1>5 DEF account, BalanceMatchesLedger
<1>9. PostingsMatchInvoice'
  BY <1>1, <1>3, <1>4, <1>5 DEF PostingsMatchInvoice, Linked
<1>10. AbsentIsEmpty'
  BY <1>4, <1>5, <1>6 DEF AbsentIsEmpty, Exists, SentStatus
<1> QED BY <1>7, <1>8, <1>9, <1>10

\* applyInvoiceCredit keeps the invariant.
LEMMA ApplyInvoiceCreditIInv ==
    ASSUME IInv, NEW i \in Invoices, NEW amount \in Amounts, ApplyInvoiceCredit(i, amount)
    PROVE  IInv'
<1> USE DEF IInv, TypeOK
<1>1. amount \in Nat
  BY ConstantsAssumption
<1>2. /\ Exists(i)
      /\ clientOf[i] \in Clients
      /\ amount <= availableAmount[clientOf[i]]
      /\ creditApplied' = [creditApplied EXCEPT ![i] = @ + amount]
      /\ availableAmount' = [availableAmount EXCEPT ![clientOf[i]] = @ - amount]
      /\ postings' = [postings EXCEPT ![i] = @ - amount]
      /\ ledger' = [ledger EXCEPT ![clientOf[i]] = @ - amount]
      /\ UNCHANGED <<clientOf, totalAmount, paid, paidApplied>>
  BY <1>1 DEF ApplyInvoiceCredit, PostCredit, Linked, Creditable, Exists
<1>3. status' = [status EXCEPT ![i] = status'[i]] /\ status'[i] \in SentStatus
  <2>1. status' = [status EXCEPT ![i] =
           DeriveStatus(totalAmount[i], Recorded(paid[i], paidApplied[i], creditApplied'[i]))]
    BY DEF ApplyInvoiceCredit
  <2>2. Recorded(paid[i], paidApplied[i], creditApplied'[i]) \in Int
    BY <1>1, <1>2 DEF Recorded
  <2> QED BY <2>1, <2>2, DeriveStatusType
<1>4. TypeOK'
  BY <1>1, <1>2, <1>3 DEF SentStatus, InvoiceStatus
<1>5. BalanceMatchesLedger'
  BY <1>1, <1>2 DEF BalanceMatchesLedger
<1>6. PostingsMatchInvoice'
  <2> SUFFICES ASSUME NEW j \in Invoices
               PROVE  /\ Linked(j)' => postings[j]' = paid[j]' - paidApplied[j]' - creditApplied[j]'
                      /\ ~Linked(j)' => postings[j]' = 0 /\ paidApplied[j]' = 0
                                                         /\ creditApplied[j]' = 0
                      /\ paidApplied[j]' <= paid[j]'
    BY DEF PostingsMatchInvoice
  <2>1. CASE j = i
    <3>1. clientOf[i] # NoClient
      BY <1>2, ConstantsAssumption
    <3>2. /\ postings'[i] = postings[i] - amount
          /\ creditApplied'[i] = creditApplied[i] + amount
      BY <1>2
    <3> QED BY <1>1, <1>2, <2>1, <3>1, <3>2 DEF PostingsMatchInvoice, Linked
  <2>2. CASE j # i
    BY <1>2, <2>2 DEF PostingsMatchInvoice, Linked
  <2> QED BY <2>1, <2>2
<1>7. AbsentIsEmpty'
  BY <1>2, <1>3 DEF AbsentIsEmpty, Exists, SentStatus
<1> QED BY <1>4, <1>5, <1>6, <1>7

\* deleteInvoice keeps the invariant: the reversal is what the ledger holds for
\* the invoice, and the balance covers it.
LEMMA DeleteInvoiceIInv ==
    ASSUME IInv, NEW i \in Invoices, DeleteInvoice(i)
    PROVE  IInv'
<1> USE DEF IInv, TypeOK
<1>1. OverpaymentCredit(paid[i], paidApplied[i]) = paid[i] - paidApplied[i]
  BY DEF OverpaymentCredit, PostingsMatchInvoice
<1>2. /\ status' = [status EXCEPT ![i] = "ABSENT"]
      /\ clientOf' = [clientOf EXCEPT ![i] = NoClient]
      /\ totalAmount' = [totalAmount EXCEPT ![i] = 0]
      /\ paid' = [paid EXCEPT ![i] = 0]
      /\ paidApplied' = [paidApplied EXCEPT ![i] = 0]
      /\ creditApplied' = [creditApplied EXCEPT ![i] = 0]
      /\ postings' = [postings EXCEPT ![i] = 0]
  BY DEF DeleteInvoice
<1>3. \/ UNCHANGED account
      \/ /\ clientOf[i] \in Clients
         /\ paid[i] - paidApplied[i] <= availableAmount[clientOf[i]]
         /\ availableAmount' = [availableAmount EXCEPT ![clientOf[i]] =
                                    @ + (creditApplied[i] - (paid[i] - paidApplied[i]))]
         /\ ledger' = [ledger EXCEPT ![clientOf[i]] =
                                    @ + (creditApplied[i] - (paid[i] - paidApplied[i]))]
  BY <1>1 DEF DeleteInvoice, ReversalCovered, Reversal, Linked
<1>4. TypeOK'
  BY <1>2, <1>3 DEF account
<1>5. BalanceMatchesLedger'
  BY <1>3 DEF account, BalanceMatchesLedger
<1>6. PostingsMatchInvoice'
  BY <1>2 DEF PostingsMatchInvoice, Linked
<1>7. AbsentIsEmpty'
  BY <1>2 DEF AbsentIsEmpty, Exists
<1> QED BY <1>4, <1>5, <1>6, <1>7

\* Every handler keeps the invariant.
LEMMA NextIInv == IInv /\ [Next]_vars => IInv'
<1> SUFFICES ASSUME IInv, [Next]_vars PROVE IInv'
  OBVIOUS
<1> USE DEF IInv, TypeOK
<1>1. ASSUME NEW i \in Invoices, NEW p \in Clients \cup {NoClient},
             NEW k \in Clients \cup {NoClient}, NEW total \in Totals,
             CreateInvoice(i, p, k, total)
      PROVE  IInv'
  <2>1. TypeOK'
    BY <1>1, ConstantsAssumption DEF CreateInvoice, money, InvoiceStatus
  <2>2. BalanceMatchesLedger'
    BY <1>1 DEF CreateInvoice, money, BalanceMatchesLedger
  <2>3. PostingsMatchInvoice'
    BY <1>1 DEF CreateInvoice, money, PostingsMatchInvoice, AbsentIsEmpty, Linked, Exists
  <2>4. AbsentIsEmpty'
    BY <1>1 DEF CreateInvoice, money, AbsentIsEmpty, Exists
  <2> QED BY <2>1, <2>2, <2>3, <2>4
<1>2. ASSUME NEW i \in Invoices, NEW total \in Totals, UpdateInvoice(i, total)
      PROVE  IInv'
  BY <1>2, ConstantsAssumption DEF UpdateInvoice, money, BalanceMatchesLedger,
     PostingsMatchInvoice, AbsentIsEmpty, Linked, Exists
<1>3. ASSUME NEW i \in Invoices, IssueInvoice(i)
      PROVE  IInv'
  BY <1>3 DEF IssueInvoice, money, BalanceMatchesLedger, PostingsMatchInvoice,
     AbsentIsEmpty, Linked, Exists, InvoiceStatus
<1>4. ASSUME NEW i \in Invoices, VoidInvoice(i)
      PROVE  IInv'
  BY <1>4 DEF VoidInvoice, money, BalanceMatchesLedger, PostingsMatchInvoice,
     AbsentIsEmpty, Linked, Exists, InvoiceStatus
<1>5. ASSUME NEW i \in Invoices, NEW amount \in Amounts, AddPayment(i, amount)
      PROVE  IInv'
  BY <1>5, AddPaymentIInv
<1>6. ASSUME NEW i \in Invoices, NEW amount \in Amounts, ApplyInvoiceCredit(i, amount)
      PROVE  IInv'
  BY <1>6, ApplyInvoiceCreditIInv
<1>7. ASSUME NEW i \in Invoices, DeleteInvoice(i)
      PROVE  IInv'
  BY <1>7, DeleteInvoiceIInv
<1>8. CASE UNCHANGED vars
  BY <1>8 DEF vars, money, BalanceMatchesLedger, PostingsMatchInvoice, AbsentIsEmpty,
     Linked, Exists
<1> QED BY <1>1, <1>2, <1>3, <1>4, <1>5, <1>6, <1>7, <1>8 DEF Next

\* The inductive invariant holds in every behaviour of the handlers.
THEOREM Invariance == Spec => []IInv
BY InitIInv, NextIInv, PTL DEF Spec

\* Every variable keeps its type: whatever the amounts, no handler makes a sum
\* of payments or of applications negative.
THEOREM TypeCorrect == Spec => []TypeOK
BY Invariance, PTL DEF IInv

\* The spendable balance of every client is the sum of its ledger entries and
\* never negative, whatever payments, applications and deletions came before.
THEOREM BalanceCorrect == Spec => []BalanceMatchesLedger
BY Invariance, PTL DEF IInv

\* The ledger entries of an invoice are what deleteInvoice would reverse.
THEOREM PostingsCorrect == Spec => []PostingsMatchInvoice
BY Invariance, PTL DEF IInv

-----------------------------------------------------------------------------

\* Deleting an invoice takes exactly its ledger entries out of its client's
\* balance and touches no other client.
THEOREM DeletionCancels == Spec => DeleteCancelsPostings
<1> DEFINE Step == \A i \in Invoices : Exists(i) /\ ~Exists(i)' =>
                      \A c \in Clients :
                          availableAmount'[c] = availableAmount[c]
                                                - (IF clientOf[i] = c THEN postings[i] ELSE 0)
<1>1. IInv /\ [Next]_vars => [Step]_vars
  <2> SUFFICES ASSUME IInv, Next, NEW i \in Invoices, Exists(i), ~Exists(i)'
               PROVE  \A c \in Clients :
                          availableAmount'[c] = availableAmount[c]
                                                - (IF clientOf[i] = c THEN postings[i] ELSE 0)
    OBVIOUS
  <2> USE DEF IInv, TypeOK
  <2>1. DeleteInvoice(i)
    <3>1. ASSUME NEW j \in Invoices, NEW p, NEW k, NEW total, CreateInvoice(j, p, k, total)
          PROVE  FALSE
      BY <3>1 DEF CreateInvoice, Exists
    <3>2. ASSUME NEW j \in Invoices, NEW total, UpdateInvoice(j, total)
          PROVE  FALSE
      BY <3>2 DEF UpdateInvoice, Exists
    <3>3. ASSUME NEW j \in Invoices, IssueInvoice(j) \/ VoidInvoice(j)
          PROVE  FALSE
      BY <3>3 DEF IssueInvoice, VoidInvoice, Exists
    <3>4. ASSUME NEW j \in Invoices, NEW amount, AddPayment(j, amount)
          PROVE  FALSE
      <4>1. status' = [status EXCEPT ![j] = status'[j]] /\ status'[j] # "ABSENT"
        BY <3>4 DEF AddPayment, DeriveStatus
      <4> QED BY <4>1 DEF Exists
    <3>5. ASSUME NEW j \in Invoices, NEW amount, ApplyInvoiceCredit(j, amount)
          PROVE  FALSE
      <4>1. status' = [status EXCEPT ![j] = status'[j]] /\ status'[j] # "ABSENT"
        BY <3>5 DEF ApplyInvoiceCredit, DeriveStatus
      <4> QED BY <4>1 DEF Exists
    <3>6. ASSUME NEW j \in Invoices, DeleteInvoice(j)
          PROVE  j = i
      BY <3>6 DEF DeleteInvoice, Exists
    <3> QED BY <3>1, <3>2, <3>3, <3>4, <3>5, <3>6 DEF Next
  <2>2. OverpaymentCredit(paid[i], paidApplied[i]) = paid[i] - paidApplied[i]
    BY DEF OverpaymentCredit, PostingsMatchInvoice
  <2>3. CASE Linked(i)
    <3>1. availableAmount' = [availableAmount EXCEPT ![clientOf[i]] = @ - postings[i]]
      BY <2>1, <2>2, <2>3 DEF DeleteInvoice, Reversal, PostingsMatchInvoice, Linked
    <3> QED BY <3>1
  <2>4. CASE ~Linked(i)
    BY <2>1, <2>4, ConstantsAssumption DEF DeleteInvoice, Linked, account
  <2> QED BY <2>3, <2>4
<1> QED BY <1>1, Invariance, PTL DEF Spec, DeleteCancelsPostings

\* A voided invoice keeps its status, total and money until it is deleted.
THEOREM VoidStaysVoid == Spec => VoidIsFinal
<1> DEFINE Step == \A i \in Invoices : status[i] = "VOID" /\ Exists(i)' =>
                      /\ status'[i] = "VOID"
                      /\ UNCHANGED <<totalAmount[i], paid[i], paidApplied[i], creditApplied[i]>>
<1>1. IInv /\ [Next]_vars => [Step]_vars
  <2> SUFFICES ASSUME IInv, Next, NEW i \in Invoices, status[i] = "VOID", Exists(i)'
               PROVE  /\ status'[i] = "VOID"
                      /\ UNCHANGED <<totalAmount[i], paid[i], paidApplied[i], creditApplied[i]>>
    OBVIOUS
  <2> USE DEF IInv, TypeOK
  <2>1. ASSUME NEW j \in Invoices, NEW p, NEW k, NEW total, CreateInvoice(j, p, k, total)
        PROVE  /\ status'[i] = "VOID"
               /\ UNCHANGED <<totalAmount[i], paid[i], paidApplied[i], creditApplied[i]>>
    BY <2>1 DEF CreateInvoice, Exists, money
  <2>2. ASSUME NEW j \in Invoices, NEW total, UpdateInvoice(j, total)
        PROVE  /\ status'[i] = "VOID"
               /\ UNCHANGED <<totalAmount[i], paid[i], paidApplied[i], creditApplied[i]>>
    BY <2>2 DEF UpdateInvoice, money
  <2>3. ASSUME NEW j \in Invoices, IssueInvoice(j) \/ VoidInvoice(j)
        PROVE  /\ status'[i] = "VOID"
               /\ UNCHANGED <<totalAmount[i], paid[i], paidApplied[i], creditApplied[i]>>
    BY <2>3 DEF IssueInvoice, VoidInvoice, money
  <2>4. ASSUME NEW j \in Invoices, NEW amount, AddPayment(j, amount)
        PROVE  /\ status'[i] = "VOID"
               /\ UNCHANGED <<totalAmount[i], paid[i], paidApplied[i], creditApplied[i]>>
    <3>1. j # i
      BY <2>4 DEF AddPayment, Payable
    <3> QED BY <3>1, <2>4 DEF AddPayment
  <2>5. ASSUME NEW j \in Invoices, NEW amount, ApplyInvoiceCredit(j, amount)
        PROVE  /\ status'[i] = "VOID"
               /\ UNCHANGED <<totalAmount[i], paid[i], paidApplied[i], creditApplied[i]>>
    <3>1. j # i
      BY <2>5 DEF ApplyInvoiceCredit, Creditable
    <3> QED BY <3>1, <2>5 DEF ApplyInvoiceCredit
  <2>6. ASSUME NEW j \in Invoices, DeleteInvoice(j)
        PROVE  /\ status'[i] = "VOID"
               /\ UNCHANGED <<totalAmount[i], paid[i], paidApplied[i], creditApplied[i]>>
    BY <2>6 DEF DeleteInvoice, Exists
  <2> QED BY <2>1, <2>2, <2>3, <2>4, <2>5, <2>6 DEF Next
<1> QED BY <1>1, Invariance, PTL DEF Spec, VoidIsFinal

\* No handler settles more of an invoice than its total: what a payment or a
\* credit application adds fits what the invoice still needs, and that is
\* computed from sums that count every payment at least once.
THEOREM NothingOverApplied == Spec => NeverOverApplied
<1> DEFINE Goal(i) == Covered(i)' > Covered(i) => Covered(i)' <= totalAmount'[i]
           Step == \A i \in Invoices : Goal(i)
<1>1. IInv /\ [Next]_vars => [Step]_vars
  <2> SUFFICES ASSUME IInv, Next, NEW i \in Invoices
               PROVE  Goal(i)
    OBVIOUS
  <2> USE DEF IInv, TypeOK
  <2>1. ASSUME NEW j \in Invoices, NEW p, NEW k, NEW total, CreateInvoice(j, p, k, total)
        PROVE  Goal(i)
    <3>1. CASE j = i
      BY <2>1, <3>1 DEF CreateInvoice, Covered, Linked, money, AbsentIsEmpty, Exists
    <3>2. CASE j # i
      BY <2>1, <3>2 DEF CreateInvoice, Covered, Linked, money
    <3> QED BY <3>1, <3>2
  <2>2. ASSUME NEW j \in Invoices, NEW total, UpdateInvoice(j, total)
        PROVE  Goal(i)
    BY <2>2 DEF UpdateInvoice, Covered, Linked, money
  <2>3. ASSUME NEW j \in Invoices, IssueInvoice(j) \/ VoidInvoice(j)
        PROVE  Goal(i)
    BY <2>3 DEF IssueInvoice, VoidInvoice, Covered, Linked, money
  <2>4. ASSUME NEW j \in Invoices, NEW amount \in Amounts, AddPayment(j, amount)
        PROVE  Goal(i)
    <3>1. CASE j = i
      <4> DEFINE recorded  == Recorded(paid[i], paidApplied[i], creditApplied[i])
                 remaining == ClampRemaining(totalAmount[i], recorded)
                 applied   == AppliedToInvoice(amount, remaining)
      <4>1. amount \in Nat /\ amount > 0
        BY ConstantsAssumption
      <4>2. recorded \in Nat /\ recorded >= Covered(i)
        BY DEF Recorded, Covered
      <4>3. remaining \in Nat /\ (remaining > 0 => Covered(i) + remaining <= totalAmount[i])
        <5>1. Covered(i) \in Nat
          BY DEF Covered
        <5> HIDE DEF recorded
        <5>2. remaining \in Nat /\ (remaining > 0 => remaining = totalAmount[i] - recorded)
          BY <4>2, RemainingBounds
        <5> HIDE DEF remaining
        <5> QED BY <4>2, <5>1, <5>2
      <4>4. applied \in Nat /\ applied <= amount /\ applied <= remaining
        <5> HIDE DEF remaining
        <5> QED BY <4>1, <4>3, SplitBounds, Zenon
      <4>5. /\ paid' = [paid EXCEPT ![i] = @ + amount]
            /\ paidApplied' = [paidApplied EXCEPT ![i] = IF Linked(i) THEN @ + applied ELSE @]
            /\ UNCHANGED <<clientOf, totalAmount, creditApplied>>
            /\ amount - applied > 0 => Linked(i)
        BY <2>4, <3>1 DEF AddPayment
      <4> HIDE DEF recorded, remaining, applied
      <4>6. CASE Linked(i)
        <5>1. Covered(i)' = Covered(i) + applied
          BY <4>4, <4>5, <4>6 DEF Covered, Linked
        <5>2. Covered(i) \in Nat
          BY DEF Covered
        <5> QED BY <4>3, <4>4, <4>5, <5>1, <5>2
      <4>7. CASE ~Linked(i)
        <5>1. applied = amount
          BY <4>1, <4>4, <4>5, <4>7
        <5>2. Covered(i)' = Covered(i) + applied
          BY <4>1, <4>5, <4>7, <5>1 DEF Covered, Linked
        <5>3. Covered(i) \in Nat
          BY DEF Covered
        <5> QED BY <4>3, <4>4, <4>5, <5>2, <5>3
      <4> QED BY <4>6, <4>7
    <3>2. CASE j # i
      BY <2>4, <3>2 DEF AddPayment, Covered, Linked
    <3> QED BY <3>1, <3>2
  <2>5. ASSUME NEW j \in Invoices, NEW amount \in Amounts, ApplyInvoiceCredit(j, amount)
        PROVE  Goal(i)
    <3>1. CASE j = i
      <4>1. amount \in Nat /\ amount > 0
        BY ConstantsAssumption
      <4>2. amount <= ClampRemaining(totalAmount[i],
                                     Recorded(paid[i], paidApplied[i], creditApplied[i]))
        BY <2>5, <3>1 DEF ApplyInvoiceCredit
      <4>3. amount <= totalAmount[i] - paid[i] - paidApplied[i] - creditApplied[i]
        BY <4>1, <4>2 DEF ClampRemaining, Recorded
      <4>4. /\ creditApplied'[i] = creditApplied[i] + amount
            /\ UNCHANGED <<clientOf, totalAmount, paid, paidApplied>>
        BY <2>5, <3>1 DEF ApplyInvoiceCredit
      <4> QED BY <4>1, <4>3, <4>4 DEF Covered, Linked
    <3>2. CASE j # i
      BY <2>5, <3>2 DEF ApplyInvoiceCredit, Covered, Linked
    <3> QED BY <3>1, <3>2
  <2>6. ASSUME NEW j \in Invoices, DeleteInvoice(j)
        PROVE  Goal(i)
    <3>1. CASE j = i
      BY <2>6, <3>1 DEF DeleteInvoice, Covered, Linked
    <3>2. CASE j # i
      BY <2>6, <3>2 DEF DeleteInvoice, Covered, Linked
    <3> QED BY <3>1, <3>2
  <2> QED BY <2>1, <2>2, <2>3, <2>4, <2>5, <2>6 DEF Next
<1> QED BY <1>1, Invariance, PTL DEF Spec, NeverOverApplied

\* A payment or a credit application that covers the rest of an invoice leaves
\* it PAID: the sum deriveStatus is given counts every payment at least once,
\* so it is never below what really covers the invoice.
THEOREM FullPaymentPaid == Spec => FullPaymentSettles
<1> DEFINE Goal(i) == Covered(i)' > Covered(i) /\ Covered(i)' >= totalAmount'[i]
                        => status'[i] = "PAID"
           Step == \A i \in Invoices : Goal(i)
<1>1. IInv /\ [Next]_vars => [Step]_vars
  <2> SUFFICES ASSUME IInv, Next, NEW i \in Invoices
               PROVE  Goal(i)
    OBVIOUS
  <2>0. ASSUME NEW total \in Int, NEW p \in Nat, NEW a \in Nat, NEW k \in Nat,
               NEW covered \in {p, a + k}, covered >= total
        PROVE  DeriveStatus(total, Recorded(p, a, k)) = "PAID"
    BY <2>0 DEF DeriveStatus, Recorded
  <2> USE DEF IInv, TypeOK
  <2>1. ASSUME NEW j \in Invoices, NEW p, NEW k, NEW total, CreateInvoice(j, p, k, total)
        PROVE  Goal(i)
    <3>1. CASE j = i
      BY <2>1, <3>1 DEF CreateInvoice, Covered, Linked, money, AbsentIsEmpty, Exists
    <3>2. CASE j # i
      BY <2>1, <3>2 DEF CreateInvoice, Covered, Linked, money
    <3> QED BY <3>1, <3>2
  <2>2. ASSUME NEW j \in Invoices, NEW total, UpdateInvoice(j, total)
        PROVE  Goal(i)
    BY <2>2 DEF UpdateInvoice, Covered, Linked, money
  <2>3. ASSUME NEW j \in Invoices, IssueInvoice(j) \/ VoidInvoice(j)
        PROVE  Goal(i)
    BY <2>3 DEF IssueInvoice, VoidInvoice, Covered, Linked, money
  <2>4. ASSUME NEW j \in Invoices, NEW amount \in Amounts, AddPayment(j, amount)
        PROVE  Goal(i)
    <3>1. CASE j = i
      <4>1. IInv'
        BY <2>4, AddPaymentIInv
      <4>2. /\ status'[i] = DeriveStatus(totalAmount'[i],
                               Recorded(paid'[i], paidApplied'[i], creditApplied'[i]))
            /\ totalAmount'[i] \in Int
            /\ paid'[i] \in Nat /\ paidApplied'[i] \in Nat /\ creditApplied'[i] \in Nat
        BY <2>4, <3>1, <4>1 DEF AddPayment
      <4>3. Covered(i)' \in {paid'[i], paidApplied'[i] + creditApplied'[i]}
        BY DEF Covered
      <4> QED BY <2>0, <4>2, <4>3
    <3>2. CASE j # i
      BY <2>4, <3>2 DEF AddPayment, Covered, Linked
    <3> QED BY <3>1, <3>2
  <2>5. ASSUME NEW j \in Invoices, NEW amount \in Amounts, ApplyInvoiceCredit(j, amount)
        PROVE  Goal(i)
    <3>1. CASE j = i
      <4>1. IInv'
        BY <2>5, ApplyInvoiceCreditIInv
      <4>2. /\ status'[i] = DeriveStatus(totalAmount'[i],
                               Recorded(paid'[i], paidApplied'[i], creditApplied'[i]))
            /\ totalAmount'[i] \in Int
            /\ paid'[i] \in Nat /\ paidApplied'[i] \in Nat /\ creditApplied'[i] \in Nat
        BY <2>5, <3>1, <4>1 DEF ApplyInvoiceCredit
      <4>3. Covered(i)' \in {paid'[i], paidApplied'[i] + creditApplied'[i]}
        BY DEF Covered
      <4> QED BY <2>0, <4>2, <4>3
    <3>2. CASE j # i
      BY <2>5, <3>2 DEF ApplyInvoiceCredit, Covered, Linked
    <3> QED BY <3>1, <3>2
  <2>6. ASSUME NEW j \in Invoices, DeleteInvoice(j)
        PROVE  Goal(i)
    <3>1. CASE j = i
      BY <2>6, <3>1 DEF DeleteInvoice, Covered, Linked
    <3>2. CASE j # i
      BY <2>6, <3>2 DEF DeleteInvoice, Covered, Linked
    <3> QED BY <3>1, <3>2
  <2> QED BY <2>1, <2>2, <2>3, <2>4, <2>5, <2>6 DEF Next
<1> QED BY <1>1, Invariance, PTL DEF Spec, FullPaymentSettles

-----------------------------------------------------------------------------
(***************************************************************************)
(* Sums over finite sets.  MapThenSumSet picks the elements of a set one   *)
(* after the other; that it has a value, and one that does not depend on   *)
(* the order, is shown with a smallest subset for which it fails.          *)
(***************************************************************************)

Pick(T) == CHOOSE x \in T : TRUE
SumsTo(g, f, S) ==
    g = [T \in SUBSET S |-> IF T = {} THEN 0 ELSE f[Pick(T)] + g[T \ {Pick(T)}]]

LEMMA TotalIsSum ==
    ASSUME NEW f, NEW S
    PROVE  Total(f, S) = (CHOOSE g : SumsTo(g, f, S))[S]
BY Zenon DEF Total, MapThenSumSet, MapThenFoldSet, SumsTo, Pick

LEMMA SmallestSubset ==
    ASSUME NEW S, IsFiniteSet(S), NEW W, W \subseteq SUBSET S, W # {}
    PROVE  \E T \in W : \A U \in W : ~ (U \subseteq T /\ U # T)
<1>1. IsWellFoundedOn(StrictSubsetOrdering(S), SUBSET S)
  BY FS_StrictSubsetOrderingWellFounded, FS_FiniteSubsetsOfFinite
<1>2. \E T \in W : \A U \in W : <<U, T>> \notin StrictSubsetOrdering(S)
  BY <1>1, WFMin
<1> QED BY <1>2 DEF StrictSubsetOrdering

LEMMA PickIn == ASSUME NEW T, T # {} PROVE Pick(T) \in T
BY DEF Pick

LEMMA SumUnique ==
    ASSUME NEW f, NEW A, NEW B, IsFiniteSet(A),
           NEW g, SumsTo(g, f, A), NEW h, SumsTo(h, f, B),
           NEW T, T \subseteq A, T \subseteq B
    PROVE  g[T] = h[T]
<1> DEFINE W == {U \in SUBSET A : U \subseteq B /\ g[U] # h[U]}
<1> SUFFICES ASSUME W # {} PROVE FALSE
  OBVIOUS
<1>1. PICK U \in W : \A V \in W : ~ (V \subseteq U /\ V # U)
  <2>1. W \subseteq SUBSET A
    OBVIOUS
  <2> HIDE DEF W
  <2> QED BY <2>1, SmallestSubset
<1>2. \A V \in SUBSET A : g[V] = IF V = {} THEN 0 ELSE f[Pick(V)] + g[V \ {Pick(V)}]
  BY DEF SumsTo
<1>3. \A V \in SUBSET B : h[V] = IF V = {} THEN 0 ELSE f[Pick(V)] + h[V \ {Pick(V)}]
  BY DEF SumsTo
<1>4. U # {}
  BY <1>2, <1>3
<1>5. Pick(U) \in U
  BY <1>4, PickIn
<1>6. g[U \ {Pick(U)}] = h[U \ {Pick(U)}]
  BY <1>1, <1>5
<1> QED BY <1>2, <1>3, <1>4, <1>6

LEMMA SumExists ==
    ASSUME NEW f, NEW S, IsFiniteSet(S), \A x \in S : f[x] \in Int
    PROVE  \E g \in [SUBSET S -> Int] : SumsTo(g, f, S)
<1> DEFINE Good(T, g) == g \in [SUBSET T -> Int] /\ SumsTo(g, f, T)
           W == {T \in SUBSET S : ~ \E g : Good(T, g)}
<1> SUFFICES ASSUME W # {} PROVE FALSE
  OBVIOUS
<1>1. PICK T \in W : \A V \in W : ~ (V \subseteq T /\ V # T)
  <2>1. W \subseteq SUBSET S
    OBVIOUS
  <2> HIDE DEF W
  <2> QED BY <2>1, SmallestSubset
<1>2. \A U \in SUBSET T : U # T => \E g : Good(U, g)
  BY <1>1
<1> DEFINE Val(U) == (CHOOSE s : Good(U, s))[U]
           Step(U) == f[Pick(U)] + Val(U \ {Pick(U)})
<1>3. \A U \in SUBSET T : U # T => Good(U, CHOOSE s : Good(U, s))
  BY <1>2
<1>4. ASSUME NEW U \in SUBSET T, U # T PROVE Val(U) \in Int
  <2> DEFINE g == CHOOSE s : Good(U, s)
  <2>1. g \in [SUBSET U -> Int]
    BY <1>3, <1>4
  <2> HIDE DEF g
  <2>2. g[U] \in Int
    BY <2>1
  <2> QED BY <2>2 DEF g
<1>5. ASSUME NEW U \in SUBSET T, U # T, U # {} PROVE Val(U) = Step(U)
  <2> DEFINE p == Pick(U)
             g == CHOOSE s : Good(U, s)
             h == CHOOSE s : Good(U \ {p}, s)
  <2>1. p \in U
    BY <1>5, PickIn
  <2>2. U \ {p} \in SUBSET T /\ U \ {p} # T
    BY <2>1
  <2>3. SumsTo(g, f, U) /\ SumsTo(h, f, U \ {p})
    BY <1>3, <1>5, <2>2
  <2>4. IsFiniteSet(U)
    BY FS_Subset
  <2> HIDE DEF g, h
  <2>5. g[U \ {p}] = h[U \ {p}]
    <3> HIDE DEF p, Step, Val
    <3> DEFINE V == U \ {p}
    <3>1. V \subseteq U /\ V \subseteq V
      OBVIOUS
    <3>2. SumsTo(g, f, U) /\ SumsTo(h, f, V)
      BY <2>3
    <3> HIDE DEF V
    <3>3. g[V] = h[V]
      BY <2>4, <3>1, <3>2, SumUnique
    <3> QED BY <3>3 DEF V
  <2>6. g[U] = f[p] + g[U \ {p}]
    BY <1>5, <2>3 DEF SumsTo
  <2> QED BY <2>5, <2>6 DEF g, h
<1>6. T # {} => Pick(T) \in T
  BY PickIn
<1> DEFINE all == [U \in SUBSET T |-> IF U = {} THEN 0 ELSE IF U = T THEN Step(T) ELSE Val(U)]
<1> HIDE DEF Good, W
<1>7. T # {} => Step(T) \in Int
  <2>1. T \subseteq S
    BY <1>1 DEF W
  <2> HIDE DEF Val
  <2> QED BY <1>4, <1>6, <2>1
<1>8. all \in [SUBSET T -> Int]
  <2> HIDE DEF Val, Step
  <2> QED BY <1>4, <1>7
<1>9. Val({}) = 0 \/ T = {}
  <2> SUFFICES ASSUME T # {} PROVE Val({}) = 0
    OBVIOUS
  <2> DEFINE g == CHOOSE s : Good({}, s)
  <2>1. SumsTo(g, f, {})
    BY <1>3 DEF Good
  <2> HIDE DEF g
  <2>2. g[{}] = 0
    BY <2>1 DEF SumsTo
  <2> QED BY <2>2 DEF g
<1>10. SumsTo(all, f, T)
  <2>1. ASSUME NEW U \in SUBSET T, U # {} PROVE all[U] = f[Pick(U)] + all[U \ {Pick(U)}]
    <3>1. Pick(U) \in U
      BY <2>1, PickIn
    <3>2. U \ {Pick(U)} \in SUBSET T /\ U \ {Pick(U)} # T
      BY <3>1
    <3>3. all[U \ {Pick(U)}] = Val(U \ {Pick(U)})
      <4> HIDE DEF Val
      <4> QED BY <1>9, <3>2
    <3>4. all[U] = Step(U)
      <4> HIDE DEF Val, Step
      <4> QED BY <1>5, <2>1
    <3> HIDE DEF all, Val
    <3> QED BY <3>3, <3>4
  <2>2. all = [U \in SUBSET T |-> IF U = {} THEN 0 ELSE f[Pick(U)] + all[U \ {Pick(U)}]]
    <3>1. all[{}] = 0
      OBVIOUS
    <3>2. all = [U \in SUBSET T |-> all[U]]
      OBVIOUS
    <3> HIDE DEF all
    <3> QED BY <2>1, <3>1, <3>2
  <2> QED BY <2>2 DEF SumsTo
<1>11. Good(T, all)
  <2> HIDE DEF all
  <2> QED BY <1>8, <1>10 DEF Good
<1> QED BY <1>11 DEF W

\* One function sums every subset.
LEMMA TotalIsOneSum ==
    ASSUME NEW f, NEW S, IsFiniteSet(S), \A x \in S : f[x] \in Int
    PROVE  \E g \in [SUBSET S -> Int] :
               SumsTo(g, f, S) /\ \A T \in SUBSET S : Total(f, T) = g[T]
<1>1. PICK g \in [SUBSET S -> Int] : SumsTo(g, f, S)
  BY SumExists
<1>2. ASSUME NEW T \in SUBSET S PROVE Total(f, T) = g[T]
  <2> DEFINE h == CHOOSE s : SumsTo(s, f, T)
  <2>1. IsFiniteSet(T) /\ \A x \in T : f[x] \in Int
    BY FS_Subset
  <2>2. \E s : SumsTo(s, f, T)
    BY <2>1, SumExists
  <2>3. SumsTo(h, f, T)
    BY <2>2
  <2>4. Total(f, T) = h[T]
    BY TotalIsSum
  <2> HIDE DEF h
  <2>5. h[T] = g[T]
    <3>1. T \subseteq T /\ T \subseteq S
      OBVIOUS
    <3> QED BY <1>1, <2>1, <2>3, <3>1, SumUnique
  <2> QED BY <2>4, <2>5
<1> QED BY <1>1, <1>2

LEMMA TotalType ==
    ASSUME NEW f, NEW S, IsFiniteSet(S), \A x \in S : f[x] \in Int
    PROVE  Total(f, S) \in Int
<1>1. PICK g \in [SUBSET S -> Int] : SumsTo(g, f, S) /\ \A T \in SUBSET S : Total(f, T) = g[T]
  BY TotalIsOneSum
<1>2. S \in SUBSET S
  OBVIOUS
<1> QED BY <1>1, <1>2

LEMMA TotalEmpty == ASSUME NEW f PROVE Total(f, {}) = 0
<1>1. PICK g \in [SUBSET {} -> Int] :
        SumsTo(g, f, {}) /\ \A T \in SUBSET {} : Total(f, T) = g[T]
  BY TotalIsOneSum, FS_EmptySet
<1> QED BY <1>1 DEF SumsTo

\* Functions that agree on a set have one sum over it.
LEMMA TotalSame ==
    ASSUME NEW f, NEW h, NEW S, IsFiniteSet(S), \A x \in S : f[x] \in Int /\ h[x] = f[x]
    PROVE  Total(h, S) = Total(f, S)
<1>1. PICK g \in [SUBSET S -> Int] : SumsTo(g, f, S) /\ \A T \in SUBSET S : Total(f, T) = g[T]
  <2>1. \A x \in S : f[x] \in Int
    OBVIOUS
  <2> QED BY <2>1, TotalIsOneSum
<1>2. PICK k \in [SUBSET S -> Int] : SumsTo(k, h, S) /\ \A T \in SUBSET S : Total(h, T) = k[T]
  <2>1. \A x \in S : h[x] \in Int
    OBVIOUS
  <2> QED BY <2>1, TotalIsOneSum
<1>3. SumsTo(k, f, S)
  <2>1. \A T \in SUBSET S : T # {} => h[Pick(T)] = f[Pick(T)]
    BY PickIn
  <2> QED BY <1>2, <2>1 DEF SumsTo
<1>4. k[S] = g[S]
  BY <1>1, <1>3, SumUnique
<1>5. S \in SUBSET S
  OBVIOUS
<1> QED BY <1>1, <1>2, <1>4, <1>5

\* The order in which a sum picks its elements does not matter.
LEMMA TotalWithout ==
    ASSUME NEW f, NEW S, IsFiniteSet(S), \A x \in S : f[x] \in Int, NEW x \in S
    PROVE  Total(f, S) = f[x] + Total(f, S \ {x})
<1>1. PICK g \in [SUBSET S -> Int] : SumsTo(g, f, S) /\ \A T \in SUBSET S : Total(f, T) = g[T]
  BY TotalIsOneSum
<1>2. \A T \in SUBSET S : T # {} => g[T] = f[Pick(T)] + g[T \ {Pick(T)}]
  BY <1>1 DEF SumsTo
<1> DEFINE W == {T \in SUBSET S : \E y \in T : g[T] # f[y] + g[T \ {y}]}
<1>3. W = {}
  <2> SUFFICES ASSUME W # {} PROVE FALSE
    OBVIOUS
  <2>1. PICK T \in W : \A V \in W : ~ (V \subseteq T /\ V # T)
    <3>1. W \subseteq SUBSET S
      OBVIOUS
    <3> HIDE DEF W
    <3> QED BY <3>1, SmallestSubset
  <2>2. PICK y \in T : g[T] # f[y] + g[T \ {y}]
    BY <2>1
  <2> DEFINE z == Pick(T)
  <2>3. z \in T /\ g[T] = f[z] + g[T \ {z}] /\ y # z
    BY <1>2, <2>2, PickIn
  <2>4. /\ T \ {y} \in SUBSET S /\ T \ {z} \in SUBSET S /\ (T \ {y}) \ {z} \in SUBSET S
        /\ (T \ {y}) \ {z} = (T \ {z}) \ {y}
    BY <2>1
  <2> HIDE DEF z
  <2>5. g[T \ {y}] = f[z] + g[(T \ {y}) \ {z}]
    <3>1. T \ {y} \notin W
      BY <2>1, <2>2
    <3> QED BY <2>3, <2>4, <3>1
  <2>6. g[T \ {z}] = f[y] + g[(T \ {z}) \ {y}]
    <3>1. T \ {z} \notin W
      BY <2>1, <2>3
    <3>2. y \in T \ {z}
      BY <2>2, <2>3
    <3> QED BY <2>4, <3>1, <3>2
  <2>7. f[y] \in Int /\ f[z] \in Int /\ g[(T \ {z}) \ {y}] \in Int
    BY <1>1, <2>1, <2>2, <2>3, <2>4
  <2>8. g[T] = f[z] + (f[y] + g[(T \ {z}) \ {y}])
    BY <2>3, <2>6
  <2>9. g[T \ {y}] = f[z] + g[(T \ {z}) \ {y}]
    BY <2>4, <2>5
  <2> HIDE DEF W
  <2> QED BY <2>2, <2>7, <2>8, <2>9
<1>4. g[S] = f[x] + g[S \ {x}]
  BY <1>3
<1> QED BY <1>1, <1>4

\* A sum follows the change of one summand.
LEMMA TotalChange ==
    ASSUME NEW f, NEW h, NEW S, IsFiniteSet(S), NEW x \in S,
           \A y \in S : f[y] \in Int /\ h[y] \in Int,
           \A y \in S \ {x} : h[y] = f[y]
    PROVE  Total(h, S) = Total(f, S) + (h[x] - f[x])
<1>1. IsFiniteSet(S \ {x})
  BY FS_Subset
<1>2. Total(h, S \ {x}) = Total(f, S \ {x})
  BY <1>1, TotalSame
<1>3. Total(f, S) = f[x] + Total(f, S \ {x}) /\ Total(h, S) = h[x] + Total(h, S \ {x})
  BY TotalWithout
<1>4. Total(f, S \ {x}) \in Int
  BY <1>1, TotalType
<1> QED BY <1>2, <1>3, <1>4

-----------------------------------------------------------------------------
(***************************************************************************)
(* The client's credit is what the invoices of the client leave of it.     *)
(***************************************************************************)

BackedInv == IInv /\ CreditIsBacked

LEMMA NetTyped ==
    ASSUME IInv, NEW c
    PROVE  /\ \A i \in Invoices : NetCredit[i] \in Int
           /\ Own(c) \subseteq Invoices /\ IsFiniteSet(Own(c))
           /\ Total(NetCredit, Own(c)) \in Int
<1>1. \A i \in Invoices : NetCredit[i] \in Int
  BY DEF NetCredit, IInv, TypeOK
<1>2. Own(c) \subseteq Invoices /\ IsFiniteSet(Own(c))
  BY ConstantsAssumption, FS_Subset DEF Own
<1> QED BY <1>1, <1>2, TotalType

\* A handler that changes one invoice's net credit and, with it, the balance.
LEMMA BackedChange ==
    ASSUME BackedInv, IInv', NEW j \in Invoices, NEW c \in Clients,
           clientOf' = clientOf,
           \A i \in Invoices \ {j} : NetCredit'[i] = NetCredit[i],
           IF clientOf[j] = c
             THEN availableAmount'[c] = availableAmount[c] + (NetCredit'[j] - NetCredit[j])
             ELSE availableAmount'[c] = availableAmount[c]
    PROVE  availableAmount'[c] = Total(NetCredit', Own(c)')
<1> PICK f, h, S : f = NetCredit /\ h = NetCredit' /\ S = Own(c)
  OBVIOUS
<1>1. /\ S \subseteq Invoices /\ IsFiniteSet(S)
      /\ \A i \in Invoices : f[i] \in Int /\ h[i] \in Int
  <2>1. \A i \in Invoices : h[i] \in Int
    BY DEF IInv, TypeOK, NetCredit
  <2> QED BY <2>1, NetTyped DEF BackedInv
<1>2. Own(c)' = S /\ availableAmount[c] = Total(f, S)
  BY DEF Own, BackedInv, CreditIsBacked
<1>3. CASE clientOf[j] = c
  <2>1. j \in S
    BY <1>3 DEF Own
  <2>2. Total(h, S) = Total(f, S) + (h[j] - f[j])
    BY <1>1, <2>1, TotalChange
  <2> QED BY <1>2, <1>3, <2>2
<1>4. CASE clientOf[j] # c
  <2>1. j \notin S
    BY <1>4 DEF Own
  <2>2. Total(h, S) = Total(f, S)
    BY <1>1, <2>1, TotalSame
  <2> QED BY <1>2, <1>4, <2>2
<1> QED BY <1>3, <1>4

LEMMA NextBacked == BackedInv /\ IInv' /\ [Next]_vars => CreditIsBacked'
<1> SUFFICES ASSUME BackedInv, IInv', [Next]_vars, NEW c \in Clients
             PROVE  availableAmount'[c] = Total(NetCredit', Own(c)')
  BY DEF CreditIsBacked
<1> DEFINE Goal == availableAmount'[c] = Total(NetCredit', Own(c)')
<1>0. availableAmount[c] = Total(NetCredit, Own(c)) /\ IInv
  BY DEF BackedInv, CreditIsBacked
<1>1. ASSUME UNCHANGED <<clientOf, paid, paidApplied, creditApplied, availableAmount>>
      PROVE  Goal
  BY <1>0, <1>1 DEF NetCredit, Own
<1>2. ASSUME NEW j \in Invoices, NEW p, NEW k, NEW total, CreateInvoice(j, p, k, total)
      PROVE  Goal
  <2>1. /\ NetCredit' = NetCredit /\ availableAmount' = availableAmount
        /\ \A i \in Invoices \ {j} : clientOf'[i] = clientOf[i]
        /\ clientOf[j] = NoClient /\ NetCredit[j] = 0
    BY <1>0, <1>2 DEF CreateInvoice, money, NetCredit, IInv, TypeOK, AbsentIsEmpty, Exists
  <2>2. CASE clientOf'[j] = c
    <3> PICK f, S : f = NetCredit /\ S = Own(c)'
      OBVIOUS
    <3>1. j \in S /\ S \subseteq Invoices /\ Own(c) = S \ {j}
      BY <2>1, <2>2, ConstantsAssumption DEF Own
    <3>2. IsFiniteSet(S) /\ \A i \in S : f[i] \in Int
      BY <1>0, <3>1, ConstantsAssumption, FS_Subset, NetTyped
    <3>3. Total(f, S) = f[j] + Total(f, S \ {j})
      BY <3>1, <3>2, TotalWithout
    <3>4. Total(f, S \ {j}) \in Int
      BY <1>0, <3>1, NetTyped
    <3> QED BY <1>0, <2>1, <3>1, <3>3, <3>4
  <2>3. CASE clientOf'[j] # c
    <3>1. Own(c)' = Own(c)
      BY <2>1, <2>3, ConstantsAssumption DEF Own
    <3> QED BY <1>0, <2>1, <3>1
  <2> QED BY <2>2, <2>3
<1>3. ASSUME NEW j \in Invoices, NEW total, UpdateInvoice(j, total)
      PROVE  Goal
  BY <1>1, <1>3 DEF UpdateInvoice, money
<1>4. ASSUME NEW j \in Invoices, IssueInvoice(j) \/ VoidInvoice(j)
      PROVE  Goal
  BY <1>1, <1>4 DEF IssueInvoice, VoidInvoice, money
<1>5. ASSUME NEW j \in Invoices, NEW amount \in Amounts,
             AddPayment(j, amount) \/ ApplyInvoiceCredit(j, amount)
      PROVE  Goal
  <2>1. /\ clientOf' = clientOf
        /\ \A i \in Invoices \ {j} : paid'[i] = paid[i] /\ paidApplied'[i] = paidApplied[i]
                                        /\ creditApplied'[i] = creditApplied[i]
    BY <1>0, <1>5 DEF AddPayment, ApplyInvoiceCredit, IInv, TypeOK
  <2>2. \A i \in Invoices \ {j} : NetCredit'[i] = NetCredit[i]
    BY <2>1 DEF NetCredit
  <2>3. /\ Linked(j) /\ Linked(j)' => /\ NetCredit[j] = postings[j]
                                      /\ NetCredit'[j] = postings'[j]
        /\ Linked(j)' = Linked(j)
    BY <1>0, <2>1 DEF IInv, PostingsMatchInvoice, NetCredit, Linked
  <2>4. IF clientOf[j] = c
          THEN availableAmount'[c] = availableAmount[c] + (postings'[j] - postings[j])
          ELSE availableAmount'[c] = availableAmount[c]
    <3>1. \/ UNCHANGED <<postings, availableAmount>>
          \/ \E delta \in Int : /\ postings' = [postings EXCEPT ![j] = @ + delta]
                                /\ availableAmount' =
                                     [availableAmount EXCEPT ![clientOf[j]] = @ + delta]
      <4>1. CASE ApplyInvoiceCredit(j, amount)
        <5>1. - amount \in Int
          BY ConstantsAssumption
        <5> QED BY <4>1, <5>1 DEF ApplyInvoiceCredit, PostCredit
      <4>2. CASE AddPayment(j, amount)
        <5> DEFINE excess == amount - AppliedToInvoice(amount, ClampRemaining(totalAmount[j],
                                  Recorded(paid[j], paidApplied[j], creditApplied[j])))
        <5>1. excess \in Int
          <6>1. Recorded(paid[j], paidApplied[j], creditApplied[j]) \in Int
            BY <1>0 DEF IInv, TypeOK, Recorded
          <6>2. amount \in Nat /\ totalAmount[j] \in Int
            BY <1>0, ConstantsAssumption DEF IInv, TypeOK
          <6> QED BY <6>1, <6>2 DEF AppliedToInvoice, ClampRemaining
        <5>2. IF excess > 0 THEN PostCredit(j, clientOf[j], excess)
                            ELSE UNCHANGED <<postings, account>>
          BY <4>2 DEF AddPayment
        <5> HIDE DEF excess
        <5> QED BY <5>1, <5>2 DEF PostCredit, account
      <4> QED BY <1>5, <4>1, <4>2
    <3> QED BY <1>0, <3>1 DEF IInv, TypeOK
  <2>5. clientOf[j] = c => Linked(j)
    BY ConstantsAssumption DEF Linked
  <2> QED BY <2>1, <2>2, <2>3, <2>4, <2>5, BackedChange
<1>6. ASSUME NEW j \in Invoices, DeleteInvoice(j)
      PROVE  Goal
  <2>1. /\ \A i \in Invoices \ {j} : clientOf'[i] = clientOf[i] /\ NetCredit'[i] = NetCredit[i]
        /\ clientOf'[j] = NoClient
    BY <1>0, <1>6 DEF DeleteInvoice, NetCredit, IInv, TypeOK
  <2> PICK f, h, S : f = NetCredit /\ h = NetCredit' /\ S = Own(c)
    OBVIOUS
  <2>2. S \subseteq Invoices /\ IsFiniteSet(S) /\ \A i \in S : f[i] \in Int
    BY <1>0, NetTyped
  <2>3. Own(c)' = S \ {j}
    BY <2>1, ConstantsAssumption DEF Own
  <2>4. IsFiniteSet(S \ {j}) /\ \A i \in S \ {j} : f[i] \in Int /\ h[i] = f[i]
    BY <2>1, <2>2, FS_Subset
  <2>5. Total(h, S \ {j}) = Total(f, S \ {j}) /\ Total(f, S \ {j}) \in Int
    BY <2>4, TotalSame, TotalType
  <2>6. CASE clientOf[j] = c
    <3>1. j \in S
      BY <2>6 DEF Own
    <3>2. Total(f, S) = f[j] + Total(f, S \ {j})
      BY <2>2, <3>1, TotalWithout
    <3>3. availableAmount'[c] = availableAmount[c] - f[j]
      <4>1. Linked(j)
        BY <2>6, ConstantsAssumption DEF Linked
      <4>2. availableAmount'[c] = availableAmount[c] + Reversal(j)
        BY <1>0, <1>6, <2>6, <4>1 DEF DeleteInvoice, IInv, TypeOK
      <4>3. Reversal(j) = - f[j]
        BY <1>0 DEF Reversal, OverpaymentCredit, NetCredit, IInv, TypeOK, PostingsMatchInvoice
      <4>4. f[j] \in Int /\ availableAmount[c] \in Int
        BY <1>0, <2>2, <3>1 DEF IInv, TypeOK
      <4> QED BY <4>2, <4>3, <4>4
    <3>4. f[j] \in Int
      BY <2>2, <3>1
    <3> QED BY <1>0, <2>3, <2>5, <3>2, <3>3, <3>4
  <2>7. CASE clientOf[j] # c
    <3>1. j \notin S
      BY <2>7 DEF Own
    <3>2. S \ {j} = S
      BY <3>1
    <3>3. availableAmount'[c] = availableAmount[c]
      BY <1>0, <1>6, <2>7 DEF DeleteInvoice, IInv, TypeOK, account, Linked
    <3> QED BY <1>0, <2>3, <2>5, <3>2, <3>3
  <2> QED BY <2>6, <2>7
<1>7. CASE UNCHANGED vars
  BY <1>1, <1>7 DEF vars, money
<1> QED BY <1>2, <1>3, <1>4, <1>5, <1>6, <1>7 DEF Next

\* The credit of every client is what the client's invoices created and did not
\* consume, for any number of invoices: a deletion takes its own share away.
THEOREM CreditBacked == Spec => []CreditIsBacked
<1>1. Init => CreditIsBacked
  <2> SUFFICES ASSUME Init, NEW c \in Clients
               PROVE  availableAmount[c] = Total(NetCredit, Own(c))
    BY DEF CreditIsBacked
  <2>1. Own(c) = {} /\ availableAmount[c] = 0
    BY ConstantsAssumption DEF Init, Own
  <2> QED BY <2>1, TotalEmpty
<1>2. IInv /\ IInv' /\ CreditIsBacked /\ [Next]_vars => CreditIsBacked'
  BY NextBacked DEF BackedInv
<1> QED BY <1>1, <1>2, Invariance, PTL DEF Spec

-----------------------------------------------------------------------------
(***************************************************************************)
(* The handlers implement the abstract credit account.                     *)
(***************************************************************************)

\* Every step of a handler is a posting to one client's account or leaves all
\* of them alone, and no posting overdraws an account.
THEOREM CreditAccountImplemented == Spec => ImplementsCreditAccount
<1>1. Init => Account!Init
  BY DEF Init, Account!Init
<1>2. IInv /\ IInv' /\ [Next]_vars => [Account!Next]_(Account!account)
  <2> SUFFICES ASSUME IInv, IInv', Next
               PROVE  (\E c \in Clients : Account!Post(c)) \/ UNCHANGED account
    BY DEF Account!Next, Account!account, vars, money, account
  <2> USE DEF IInv, TypeOK
  <2>0. ASSUME NEW c \in Clients, NEW delta \in Int,
               availableAmount' = [availableAmount EXCEPT ![c] = @ + delta],
               ledger' = [ledger EXCEPT ![c] = @ + delta]
        PROVE  Account!Post(c)
    <3>1. availableAmount'[c] = availableAmount[c] + delta /\ availableAmount'[c] >= 0
      BY <2>0 DEF BalanceMatchesLedger
    <3>2. availableAmount' = [availableAmount EXCEPT ![c] = availableAmount'[c]]
      BY <2>0, <3>1
    <3>3. ledger' = [ledger EXCEPT ![c] = @ + (availableAmount'[c] - availableAmount[c])]
      <4>1. availableAmount'[c] - availableAmount[c] = delta
        BY <3>1
      <4> QED BY <2>0, <4>1
    <3>4. availableAmount'[c] \in Nat
      BY <3>1
    <3> QED BY <3>2, <3>3, <3>4, Zenon DEF Account!Post
  <2>1. ASSUME NEW i \in Invoices, NEW p, NEW k, NEW total, CreateInvoice(i, p, k, total)
        PROVE  UNCHANGED account
    BY <2>1 DEF CreateInvoice, money, account
  <2>2. ASSUME NEW i \in Invoices, NEW total, UpdateInvoice(i, total)
        PROVE  UNCHANGED account
    BY <2>2 DEF UpdateInvoice, money, account
  <2>3. ASSUME NEW i \in Invoices, IssueInvoice(i) \/ VoidInvoice(i)
        PROVE  UNCHANGED account
    BY <2>3 DEF IssueInvoice, VoidInvoice, money, account
  <2>4. ASSUME NEW i \in Invoices, NEW amount \in Amounts, AddPayment(i, amount)
        PROVE  (\E c \in Clients : Account!Post(c)) \/ UNCHANGED account
    <3> DEFINE excess == amount - AppliedToInvoice(amount, ClampRemaining(totalAmount[i],
                                      Recorded(paid[i], paidApplied[i], creditApplied[i])))
    <3>1. excess \in Int
      <4>1. amount \in Nat
        BY ConstantsAssumption
      <4>2. Recorded(paid[i], paidApplied[i], creditApplied[i]) \in Int
        BY DEF Recorded
      <4>3. ClampRemaining(totalAmount[i],
                Recorded(paid[i], paidApplied[i], creditApplied[i])) \in Nat
        BY <4>2, RemainingBounds
      <4> QED BY <4>1, <4>3, SplitBounds
    <3>2. \/ UNCHANGED account
          \/ /\ clientOf[i] \in Clients
             /\ availableAmount' = [availableAmount EXCEPT ![clientOf[i]] = @ + excess]
             /\ ledger' = [ledger EXCEPT ![clientOf[i]] = @ + excess]
      BY <2>4 DEF AddPayment, PostCredit, Linked
    <3> HIDE DEF excess
    <3> QED BY <2>0, <3>1, <3>2
  <2>5. ASSUME NEW i \in Invoices, NEW amount \in Amounts, ApplyInvoiceCredit(i, amount)
        PROVE  \E c \in Clients : Account!Post(c)
    <3>1. /\ clientOf[i] \in Clients
          /\ availableAmount' = [availableAmount EXCEPT ![clientOf[i]] = @ + (-amount)]
          /\ ledger' = [ledger EXCEPT ![clientOf[i]] = @ + (-amount)]
      BY <2>5 DEF ApplyInvoiceCredit, PostCredit, Linked
    <3>2. -amount \in Int
      BY ConstantsAssumption
    <3> QED BY <2>0, <3>1, <3>2
  <2>6. ASSUME NEW i \in Invoices, DeleteInvoice(i)
        PROVE  (\E c \in Clients : Account!Post(c)) \/ UNCHANGED account
    <3>1. Reversal(i) \in Int
      BY DEF Reversal, OverpaymentCredit
    <3>2. \/ UNCHANGED account
          \/ /\ clientOf[i] \in Clients
             /\ availableAmount' = [availableAmount EXCEPT ![clientOf[i]] = @ + Reversal(i)]
             /\ ledger' = [ledger EXCEPT ![clientOf[i]] = @ + Reversal(i)]
      BY <2>6 DEF DeleteInvoice, Linked
    <3> QED BY <2>0, <3>1, <3>2
  <2> QED BY <2>1, <2>2, <2>3, <2>4, <2>5, <2>6 DEF Next
<1> QED BY <1>1, <1>2, Invariance, PTL DEF Spec, ImplementsCreditAccount, Account!Spec

-----------------------------------------------------------------------------
(***************************************************************************)
(* What the overlapping transactions of module BillingTxn keep, and that   *)
(* they still implement the abstract credit account.                       *)
(***************************************************************************)

Request == [kind : Kinds, invoice : Invoices, amount : Int]

\* What a handler has written by each of its statements.
Nothing(p)  == ~p.balance /\ p.delta = 0 /\ p.paid = 0 /\ p.paidApplied = 0
               /\ p.creditApplied = 0
Balanced(p) == p.delta = p.paid - p.paidApplied - p.creditApplied
               /\ p.paidApplied <= p.paid

\* What the statements of a handler rely on, from the next step of the handler, its
\* request and what it has read.
Handler(step, r, s) ==
    /\ step # "idle" => /\ r \in Request
                        /\ r.kind \in {"pay", "credit"} => r.amount >= 0
                        /\ Exists(r.invoice) => s.client = clientOf[r.invoice]
    /\ step \in {"autoIssue", "insertPayment", "postExcess"} => r.kind = "pay"
    /\ step \in {"balance", "decrement", "apply"} => r.kind = "credit" /\ s.client \in Clients
    /\ step \in {"payments", "applications"} =>
           /\ r.kind \in {"pay", "credit", "delete"}
           /\ r.kind = "credit" => s.client \in Clients
    /\ step = "writeRow" => r.kind \in {"void", "issue", "update"}

\* What a handler has posted and inserted fits together.
Pending(step, r, s, p) ==
    /\ ~p.balance => p.delta = 0
    /\ p.balance => s.client \in Clients
    /\ step \in {"idle", "autoIssue", "payments", "applications", "insertPayment", "balance",
                 "decrement", "reverse", "writeRow"} => Nothing(p)
    /\ step = "postExcess" =>
           /\ ~p.balance /\ s.client \in Clients
           /\ p.paidApplied <= p.paid /\ p.creditApplied = 0
    /\ step = "apply" =>
           /\ p.delta = -r.amount
           /\ p.paid = 0 /\ p.paidApplied = 0 /\ p.creditApplied = 0
    /\ step \in {"recountPayments", "recountApplications", "writeStatus"} =>
           \/ s.client \in Clients /\ Balanced(p)
           \/ s.client = NoClient /\ p.paidApplied = 0 /\ p.creditApplied = 0

HandlersOK ==
    \A t \in Txs : /\ Handler(pc[t], req[t], seen[t])
                   /\ Pending(pc[t], req[t], seen[t], pend[t])

RowsInv == BalanceMatchesLedger /\ PostingsMatchInvoice /\ AbsentIsEmpty
TxnInv  == TxnTypeOK /\ RowsInv /\ OpenPostingIsCovered /\ HandlersOK

Seen == [client : Clients \cup {NoClient}, total : Int, paid : Nat,
         paidApplied : Nat, creditApplied : Nat]
Pend == [row : BOOLEAN, balance : BOOLEAN, paid : Nat, paidApplied : Nat,
         creditApplied : Nat, delta : Int]

-----------------------------------------------------------------------------

LEMMA TxnInitInv == TxnInit => TxnInv
<1> SUFFICES ASSUME TxnInit PROVE TxnInv
  OBVIOUS
<1>1. IInv
  BY InitIInv DEF TxnInit
<1>2. TxnTypeOK
  BY <1>1 DEF TxnInit, IInv, TxnTypeOK, Steps, NoRead, NoWrite
<1>3. OpenPostingIsCovered /\ HandlersOK
  BY DEF TxnInit, OpenPostingIsCovered, HandlersOK, Handler, Pending, Nothing, NoWrite, NoRead
<1> QED BY <1>1, <1>2, <1>3 DEF TxnInv, RowsInv, IInv

\* A statement that commits nothing concerns its own handler only, and what it posts.
LEMMA Statement ==
    ASSUME TxnInv, NEW t \in Txs, NEW step \in Steps, NEW s \in Seen, NEW p \in Pend,
           GoTo(t, step), seen' = [seen EXCEPT ![t] = s], pend' = [pend EXCEPT ![t] = p],
           DOMAIN req' = Txs, \A u \in Txs \ {t} : req'[u] = req[u], UNCHANGED vars,
           Handler(step, req'[t], s), Pending(step, req'[t], s, p),
           p.balance =>
               /\ availableAmount[s.client] + p.delta >= 0
               /\ \A u \in Txs \ {t} : pend[u].balance => seen[u].client # s.client
    PROVE  TxnInv'
<1>0. UNCHANGED <<status, clientOf, totalAmount, paid, paidApplied, creditApplied, postings,
                  availableAmount, ledger>>
  BY DEF vars, money
<1>1. TxnTypeOK'
  BY <1>0 DEF TxnInv, TxnTypeOK, TypeOK, GoTo, Seen, Pend
<1>2. RowsInv'
  BY <1>0 DEF TxnInv, RowsInv, BalanceMatchesLedger, PostingsMatchInvoice, AbsentIsEmpty, Exists,
     Linked
<1>3. /\ pc'[t] = step /\ seen'[t] = s /\ pend'[t] = p
      /\ \A u \in Txs \ {t} : pc'[u] = pc[u] /\ seen'[u] = seen[u] /\ pend'[u] = pend[u]
  BY DEF TxnInv, TxnTypeOK, GoTo
<1>4. OpenPostingIsCovered'
  BY <1>0, <1>3 DEF TxnInv, OpenPostingIsCovered
<1>5. ASSUME NEW u \in Txs
      PROVE  /\ Handler(pc[u], req[u], seen[u])'
             /\ Pending(pc[u], req[u], seen[u], pend[u])'
  <2>1. CASE u = t
    BY <1>0, <1>3, <2>1 DEF Handler, Pending, Exists, Request, Nothing, Balanced
  <2>2. CASE u # t
    BY <1>0, <1>3, <2>2
    DEF TxnInv, HandlersOK, Handler, Pending, Exists, Request, Nothing, Balanced
  <2> QED BY <2>1, <2>2
<1> QED BY <1>1, <1>2, <1>4, <1>5 DEF TxnInv, HandlersOK

\* What is known of one handler.
LEMMA OwnFacts ==
    ASSUME TxnInv, NEW t \in Txs
    PROVE  /\ pc[t] \in Steps /\ seen[t] \in Seen /\ pend[t] \in Pend
           /\ seen = [seen EXCEPT ![t] = seen[t]] /\ pend = [pend EXCEPT ![t] = pend[t]]
           /\ DOMAIN req = Txs
           /\ Handler(pc[t], req[t], seen[t]) /\ Pending(pc[t], req[t], seen[t], pend[t])
           /\ pend[t].balance =>
                  /\ availableAmount[seen[t].client] + pend[t].delta >= 0
                  /\ \A u \in Txs \ {t} : pend[u].balance => seen[u].client # seen[t].client
<1>1. seen \in [Txs -> Seen] /\ pend \in [Txs -> Pend]
  BY DEF TxnInv, TxnTypeOK, Seen, Pend
<1>2. seen[t] \in Seen /\ pend[t] \in Pend
  BY <1>1
<1>3. seen = [seen EXCEPT ![t] = seen[t]] /\ pend = [pend EXCEPT ![t] = pend[t]]
  BY <1>1
<1>4. pc[t] \in Steps /\ DOMAIN req = Txs
  BY DEF TxnInv, TxnTypeOK
<1>5. Handler(pc[t], req[t], seen[t]) /\ Pending(pc[t], req[t], seen[t], pend[t])
  BY DEF TxnInv, HandlersOK
<1>6. pend[t].balance =>
          /\ availableAmount[seen[t].client] + pend[t].delta >= 0
          /\ \A u \in Txs \ {t} : pend[u].balance => seen[u].client # seen[t].client
  BY DEF TxnInv, OpenPostingIsCovered
<1> QED BY <1>2, <1>3, <1>4, <1>5, <1>6

\* The first statement of a handler.
LEMMA StartInv ==
    ASSUME TxnInv, NEW t \in Txs, NEW kind \in Kinds, NEW i \in Invoices, NEW amount \in Int,
           NEW step \in Steps \ {"idle"}, Start(t, kind, i, amount, step),
           kind \in {"pay", "credit"} => amount >= 0,
           step \in {"autoIssue", "payments", "writeRow"},
           step = "autoIssue" => kind = "pay",
           step = "payments" => kind \in {"pay", "credit", "delete"},
           step = "writeRow" => kind \in {"void", "issue", "update"},
           kind = "credit" => Linked(i)
    PROVE  TxnInv'
<1> DEFINE s == [seen[t] EXCEPT !.client = clientOf[i], !.total = totalAmount[i]]
           r == [kind |-> kind, invoice |-> i, amount |-> amount]
<1>1. /\ pc[t] = "idle" /\ GoTo(t, step) /\ seen' = [seen EXCEPT ![t] = s]
      /\ req' = [req EXCEPT ![t] = r]
      /\ UNCHANGED vars /\ UNCHANGED pend
  BY DEF Start
<1>2. clientOf[i] \in Clients \cup {NoClient} /\ totalAmount[i] \in Int
  BY DEF TxnInv, TxnTypeOK, TypeOK
<1>3. s \in Seen /\ s.client = clientOf[i]
  BY <1>2, OwnFacts DEF Seen
<1>4. DOMAIN req' = Txs /\ req'[t] = r /\ \A u \in Txs \ {t} : req'[u] = req[u]
  BY <1>1, OwnFacts
<1>5. r \in Request /\ r.kind = kind /\ r.invoice = i /\ r.amount = amount
  BY DEF Request
<1> HIDE DEF s, r
<1>6. Handler(step, r, s)
  BY <1>2, <1>3, <1>5 DEF Handler, Linked
<1>7. Nothing(pend[t]) /\ pend[t] \in Pend /\ pend = [pend EXCEPT ![t] = pend[t]]
  BY <1>1, OwnFacts DEF Pending
<1>8. Pending(step, r, s, pend[t])
  BY <1>7 DEF Pending, Nothing
<1>9. ~pend[t].balance
  BY <1>7 DEF Nothing
<1> QED BY <1>1, <1>3, <1>4, <1>6, <1>7, <1>8, <1>9, Statement

LEMMA StartsInv ==
    ASSUME TxnInv, NEW t \in Txs, NEW i \in Invoices,
           \/ \E amount \in Amounts : StartPayment(t, i, amount) \/ StartCredit(t, i, amount)
           \/ StartDelete(t, i) \/ StartVoid(t, i) \/ StartIssue(t, i)
           \/ \E total \in Totals : StartUpdate(t, i, total)
    PROVE  TxnInv'
<1>0. /\ Totals \subseteq Int /\ \A amount \in Amounts : amount \in Int /\ amount >= 0
      /\ Kinds = {"pay", "credit", "delete", "void", "issue", "update"}
      /\ {"autoIssue", "payments", "writeRow"} \subseteq Steps \ {"idle"}
  BY ConstantsAssumption DEF Kinds, Steps
<1>1. ASSUME NEW amount \in Amounts, StartPayment(t, i, amount)
      PROVE  TxnInv'
  <2> DEFINE step == IF status[i] = "DRAFT" THEN "autoIssue" ELSE "payments"
  <2>1. Start(t, "pay", i, amount, step)
    BY <1>1 DEF StartPayment
  <2>2. step \in {"autoIssue", "payments"}
    OBVIOUS
  <2> HIDE DEF step
  <2>3. step \in Steps \ {"idle"} /\ "pay" \in Kinds
    BY <1>0, <2>2
  <2> QED BY <1>0, <2>1, <2>2, <2>3, StartInv
<1>2. ASSUME NEW amount \in Amounts, StartCredit(t, i, amount)
      PROVE  TxnInv'
  <2>1. Start(t, "credit", i, amount, "payments") /\ Linked(i)
    BY <1>2 DEF StartCredit
  <2>2. "credit" \in Kinds /\ "payments" \in Steps \ {"idle"}
    BY <1>0
  <2> QED BY <1>0, <2>1, <2>2, StartInv
<1>3. CASE StartDelete(t, i)
  <2>1. Start(t, "delete", i, 0, "payments")
    BY <1>3 DEF StartDelete
  <2>2. "delete" \in Kinds /\ "payments" \in Steps \ {"idle"}
    BY <1>0
  <2> QED BY <2>1, <2>2, StartInv
<1>4. ASSUME NEW kind \in {"void", "issue", "update"}, NEW amount \in Int,
             Start(t, kind, i, amount, "writeRow")
      PROVE  TxnInv'
  <2>1. kind \in Kinds /\ "writeRow" \in Steps \ {"idle"}
    BY <1>0
  <2> QED BY <1>4, <2>1, StartInv
<1>5. CASE StartVoid(t, i)
  BY <1>4, <1>5 DEF StartVoid
<1>6. CASE StartIssue(t, i)
  BY <1>4, <1>6 DEF StartIssue
<1>7. CASE \E total \in Totals : StartUpdate(t, i, total)
  BY <1>0, <1>4, <1>7 DEF StartUpdate
<1> QED BY <1>1, <1>2, <1>3, <1>5, <1>6, <1>7

-----------------------------------------------------------------------------

\* The statements that read.
LEMMA ReadsInv ==
    ASSUME TxnInv, NEW t \in Txs,
           AutoIssue(t) \/ ReadPayments(t) \/ ReadApplications(t) \/ CheckBalance(t)
    PROVE  TxnInv'
<1> DEFINE i == req[t].invoice
<1>0. /\ pc[t] \in Steps /\ seen[t] \in Seen /\ pend[t] \in Pend
      /\ seen = [seen EXCEPT ![t] = seen[t]] /\ pend = [pend EXCEPT ![t] = pend[t]]
      /\ DOMAIN req = Txs
      /\ Handler(pc[t], req[t], seen[t]) /\ Pending(pc[t], req[t], seen[t], pend[t])
      /\ pend[t].balance =>
             /\ availableAmount[seen[t].client] + pend[t].delta >= 0
             /\ \A u \in Txs \ {t} : pend[u].balance => seen[u].client # seen[t].client
  BY OwnFacts
<1>1. pc[t] # "idle"
  BY DEF AutoIssue, ReadPayments, ReadApplications, CheckBalance
<1>2. i \in Invoices /\ req[t] \in Request
  BY <1>0, <1>1 DEF Handler, Request
<1>3. /\ totalAmount[i] \in Int /\ paid[i] \in Nat /\ paidApplied[i] \in Nat
      /\ creditApplied[i] \in Nat
  BY <1>2 DEF TxnInv, TxnTypeOK, TypeOK
<1>4. ASSUME NEW step \in Steps, NEW s \in Seen, NEW p \in Pend, GoTo(t, step),
             seen' = [seen EXCEPT ![t] = s], pend' = [pend EXCEPT ![t] = p],
             UNCHANGED <<vars, req>>, s.client = seen[t].client,
             p.balance = pend[t].balance, p.delta = pend[t].delta,
             Handler(step, req[t], s), Pending(step, req[t], s, p)
      PROVE  TxnInv'
  <2>1. DOMAIN req' = Txs /\ req'[t] = req[t] /\ \A u \in Txs \ {t} : req'[u] = req[u]
    BY <1>0, <1>4
  <2>2. p.balance => /\ availableAmount[s.client] + p.delta >= 0
                     /\ \A u \in Txs \ {t} : pend[u].balance => seen[u].client # s.client
    BY <1>0, <1>4
  <2> QED BY <1>4, <2>1, <2>2, Statement
<1>5. CASE AutoIssue(t)
  <2> DEFINE s == [seen[t] EXCEPT !.total = totalAmount[i]]
             p == [pend[t] EXCEPT !.row = TRUE]
  <2>1. /\ pc[t] = "autoIssue" /\ GoTo(t, "payments")
        /\ seen' = [seen EXCEPT ![t] = s] /\ pend' = [pend EXCEPT ![t] = p]
        /\ UNCHANGED <<vars, req>>
    BY <1>5 DEF AutoIssue
  <2>2. s \in Seen /\ s.client = seen[t].client
    BY <1>0, <1>3 DEF Seen
  <2>3. /\ p \in Pend /\ p.balance = pend[t].balance /\ p.delta = pend[t].delta
        /\ p.paid = pend[t].paid /\ p.paidApplied = pend[t].paidApplied
        /\ p.creditApplied = pend[t].creditApplied
    BY <1>0 DEF Pend
  <2> HIDE DEF s, p
  <2>4. Handler("payments", req[t], s)
    BY <1>0, <2>1, <2>2 DEF Handler
  <2>5. Pending("payments", req[t], s, p)
    BY <1>0, <2>1, <2>3 DEF Pending, Nothing
  <2>6. "payments" \in Steps
    BY DEF Steps
  <2> QED BY <1>4, <2>1, <2>2, <2>3, <2>4, <2>5, <2>6
<1>6. CASE ReadPayments(t)
  <2> DEFINE s == [seen[t] EXCEPT !.paid = paid[i] + pend[t].paid]
             step == IF pc[t] = "payments" THEN "applications" ELSE "recountApplications"
  <2>1. /\ pc[t] \in {"payments", "recountPayments"} /\ GoTo(t, step)
        /\ seen' = [seen EXCEPT ![t] = s] /\ UNCHANGED <<vars, req, pend>>
    BY <1>6 DEF ReadPayments
  <2>2. s \in Seen /\ s.client = seen[t].client
    BY <1>0, <1>3 DEF Seen, Pend
  <2>3. /\ pc[t] = "payments" => step = "applications"
        /\ pc[t] = "recountPayments" => step = "recountApplications"
        /\ step \in Steps
    BY DEF Steps
  <2> HIDE DEF s, step
  <2>4. Handler(step, req[t], s)
    BY <1>0, <2>1, <2>2, <2>3 DEF Handler
  <2>5. Pending(step, req[t], s, pend[t])
    BY <1>0, <2>1, <2>2, <2>3 DEF Pending, Nothing, Balanced
  <2> QED BY <1>0, <1>4, <2>1, <2>2, <2>3, <2>4, <2>5
<1>7. CASE ReadApplications(t)
  <2> DEFINE s == [seen[t] EXCEPT !.paidApplied = paidApplied[i] + pend[t].paidApplied,
                                  !.creditApplied = creditApplied[i] + pend[t].creditApplied]
             step == IF pc[t] = "recountApplications" THEN "writeStatus"
                     ELSE FirstWrite[req[t].kind]
  <2>1. /\ pc[t] \in {"applications", "recountApplications"}
        /\ seen' = [seen EXCEPT ![t] = s] /\ UNCHANGED <<vars, req, pend>>
    BY <1>7 DEF ReadApplications
  <2>8. GoTo(t, step)
    BY <1>7 DEF ReadApplications
  <2>2. s \in Seen /\ s.client = seen[t].client
    <3>1. /\ paidApplied[i] + pend[t].paidApplied \in Nat
          /\ creditApplied[i] + pend[t].creditApplied \in Nat
      BY <1>0, <1>3 DEF Pend
    <3> QED BY <1>0, <3>1 DEF Seen
  <2>3. pc[t] = "applications" => req[t].kind \in {"pay", "credit", "delete"}
    BY <1>0 DEF Handler
  <2>4. \/ pc[t] = "recountApplications" /\ step = "writeStatus"
        \/ pc[t] = "applications" /\ req[t].kind = "pay" /\ step = "insertPayment"
        \/ pc[t] = "applications" /\ req[t].kind = "credit" /\ step = "balance"
        \/ pc[t] = "applications" /\ req[t].kind = "delete" /\ step = "reverse"
    BY <2>1, <2>3 DEF FirstWrite
  <2> HIDE DEF s, step
  <2>5. step \in Steps
    BY <2>4 DEF Steps
  <2>6. Handler(step, req[t], s)
    BY <1>0, <2>2, <2>4 DEF Handler
  <2>7. Pending(step, req[t], s, pend[t])
    BY <1>0, <2>2, <2>4 DEF Pending, Nothing, Balanced
  <2> QED BY <1>0, <1>4, <2>1, <2>2, <2>5, <2>6, <2>7, <2>8
<1>8. CASE CheckBalance(t)
  <2>1. /\ pc[t] = "balance" /\ GoTo(t, "decrement") /\ UNCHANGED <<vars, req, seen, pend>>
    BY <1>8 DEF CheckBalance
  <2>2. Handler("decrement", req[t], seen[t]) /\ Pending("decrement", req[t], seen[t], pend[t])
    BY <1>0, <2>1 DEF Handler, Pending
  <2>3. "decrement" \in Steps
    BY DEF Steps
  <2> QED BY <1>0, <1>4, <2>1, <2>2, <2>3
<1> QED BY <1>5, <1>6, <1>7, <1>8

\* The statements that write: each keeps the amounts of a handler together, and a
\* posting finds the latest committed balance, which nobody else can post to.
LEMMA WritesInv ==
    ASSUME TxnInv, NEW t \in Txs,
           InsertPayment(t) \/ PostExcess(t) \/ Decrement(t) \/ Apply(t) \/ Reverse(t)
    PROVE  TxnInv'
<1> DEFINE c == seen[t].client
<1>0. /\ pc[t] \in Steps /\ seen[t] \in Seen /\ pend[t] \in Pend
      /\ seen = [seen EXCEPT ![t] = seen[t]] /\ pend = [pend EXCEPT ![t] = pend[t]]
      /\ DOMAIN req = Txs
      /\ Handler(pc[t], req[t], seen[t]) /\ Pending(pc[t], req[t], seen[t], pend[t])
      /\ pend[t].balance =>
             /\ availableAmount[c] + pend[t].delta >= 0
             /\ \A u \in Txs \ {t} : pend[u].balance => seen[u].client # c
  BY OwnFacts
<1>1. pc[t] # "idle" /\ req[t] \in Request
  BY <1>0 DEF InsertPayment, PostExcess, Decrement, Apply, Reverse, Handler
<1>2. c \in Clients => availableAmount[c] \in Int /\ availableAmount[c] >= 0
  BY DEF TxnInv, TxnTypeOK, TypeOK, RowsInv, BalanceMatchesLedger
<1>3. ASSUME NEW step \in Steps, NEW p \in Pend, GoTo(t, step),
             pend' = [pend EXCEPT ![t] = p], UNCHANGED <<vars, req, seen>>,
             Handler(step, req[t], seen[t]), Pending(step, req[t], seen[t], p),
             p.balance => /\ availableAmount[c] + p.delta >= 0
                          /\ \A u \in Txs \ {t} : pend[u].balance => seen[u].client # c
      PROVE  TxnInv'
  <2>1. DOMAIN req' = Txs /\ req'[t] = req[t] /\ \A u \in Txs \ {t} : req'[u] = req[u]
    BY <1>0, <1>3
  <2>2. seen' = [seen EXCEPT ![t] = seen[t]]
    BY <1>0, <1>3
  <2> QED BY <1>0, <1>3, <2>1, <2>2, Statement
<1>4. {"postExcess", "recountPayments", "apply", "deleteRow"} \subseteq Steps
  BY DEF Steps
<1>5. CASE InsertPayment(t)
  <2> DEFINE linked    == c # NoClient
             amount    == req[t].amount
             remaining == ClampRemaining(seen[t].total, SeenRecorded(t))
             applied   == AppliedToInvoice(amount, remaining)
             p    == [pend[t] EXCEPT !.paid = amount,
                                     !.paidApplied = IF linked THEN applied ELSE 0]
             step == IF amount > applied THEN "postExcess" ELSE "recountPayments"
  <2>1. /\ pc[t] = "insertPayment" /\ (amount > applied => linked)
        /\ pend' = [pend EXCEPT ![t] = p] /\ GoTo(t, step) /\ UNCHANGED <<vars, req, seen>>
    BY <1>5 DEF InsertPayment
  <2>2. amount \in Nat
    BY <1>0, <1>1, <2>1 DEF Handler, Request
  <2>3. applied \in Nat /\ applied <= amount
    <3>1. SeenRecorded(t) \in Int /\ seen[t].total \in Int
      BY <1>0 DEF Seen, SeenRecorded, Recorded
    <3>2. remaining \in Nat
      BY <3>1, RemainingBounds
    <3> HIDE DEF remaining
    <3> QED BY <2>2, <3>2, SplitBounds
  <2>4. c \in Clients \cup {NoClient} /\ Nothing(pend[t])
    BY <1>0, <2>1 DEF Seen, Pending
  <2> HIDE DEF applied, amount, remaining
  <2>5. /\ p \in Pend /\ p.paid = amount /\ p.paidApplied = IF linked THEN applied ELSE 0
        /\ p.balance = pend[t].balance /\ p.delta = pend[t].delta
        /\ p.creditApplied = pend[t].creditApplied
    BY <1>0, <2>2, <2>3 DEF Pend
  <2> HIDE DEF p
  <2>6. step \in {"postExcess", "recountPayments"}
    OBVIOUS
  <2>7. Handler(step, req[t], seen[t])
    BY <1>0, <1>1, <2>1, <2>6 DEF Handler
  <2>8. Pending(step, req[t], seen[t], p)
    <3>1. ~p.balance /\ p.delta = 0 /\ p.creditApplied = 0
      BY <2>4, <2>5 DEF Nothing
    <3>2. CASE amount > applied
      BY <2>1, <2>3, <2>4, <2>2, <2>5, <3>1, <3>2 DEF Pending
    <3>3. CASE ~(amount > applied)
      <4>1. amount = applied /\ step = "recountPayments"
        BY <2>2, <2>3, <3>3
      <4>2. CASE linked
        BY <2>2, <2>4, <2>5, <3>1, <4>1, <4>2 DEF Pending, Balanced
      <4>3. CASE ~linked
        BY <2>5, <3>1, <4>1, <4>3 DEF Pending
      <4> QED BY <4>2, <4>3
    <3> QED BY <3>2, <3>3
  <2>9. ~p.balance
    BY <2>4, <2>5 DEF Nothing
  <2> HIDE DEF step
  <2> QED BY <1>3, <1>4, <2>1, <2>5, <2>6, <2>7, <2>8, <2>9
<1>6. ASSUME NEW delta \in Int, Post(t, delta), ~pend[t].balance, c \in Clients,
             availableAmount[c] + delta >= 0
      PROVE  \E p \in Pend :
                 /\ pend' = [pend EXCEPT ![t] = p]
                 /\ p.balance /\ p.delta = delta /\ p.paid = pend[t].paid
                 /\ p.paidApplied = pend[t].paidApplied
                 /\ p.creditApplied = pend[t].creditApplied
                 /\ availableAmount[c] + p.delta >= 0
                 /\ \A u \in Txs \ {t} : pend[u].balance => seen[u].client # c
  <2> DEFINE p == [pend[t] EXCEPT !.balance = TRUE, !.delta = @ + delta]
  <2>1. pend' = [pend EXCEPT ![t] = p]
    BY <1>6 DEF Post
  <2>2. pend[t].delta = 0
    BY <1>0, <1>6 DEF Pending
  <2>3. /\ p \in Pend /\ p.balance /\ p.delta = delta /\ p.paid = pend[t].paid
        /\ p.paidApplied = pend[t].paidApplied
        /\ p.creditApplied = pend[t].creditApplied
    <3>1. pend[t].delta + delta = delta
      BY <1>6, <2>2
    <3>2. p = [pend[t] EXCEPT !.balance = TRUE, !.delta = delta]
      BY <3>1
    <3> HIDE DEF p
    <3> QED BY <1>0, <1>6, <3>2 DEF Pend
  <2>4. \A u \in Txs \ {t} : pend[u].balance => seen[u].client # c
    BY <1>6 DEF Post, CanPost
  <2> HIDE DEF p
  <2> QED BY <1>6, <2>1, <2>3, <2>4
<1>7. CASE PostExcess(t)
  <2> DEFINE excess == pend[t].paid - pend[t].paidApplied
  <2>1. /\ pc[t] = "postExcess" /\ Post(t, excess) /\ GoTo(t, "recountPayments")
        /\ UNCHANGED <<vars, req, seen>>
    BY <1>7 DEF PostExcess
  <2>2. /\ ~pend[t].balance /\ c \in Clients /\ pend[t].paidApplied <= pend[t].paid
        /\ pend[t].creditApplied = 0
    BY <1>0, <2>1 DEF Pending
  <2>3. pend[t].paid \in Nat /\ pend[t].paidApplied \in Nat
    BY <1>0 DEF Pend
  <2>4. excess \in Int /\ availableAmount[c] + excess >= 0
    BY <1>2, <2>2, <2>3
  <2> HIDE DEF excess
  <2>5. PICK p \in Pend :
              /\ pend' = [pend EXCEPT ![t] = p]
              /\ p.balance /\ p.delta = excess /\ p.paid = pend[t].paid
              /\ p.paidApplied = pend[t].paidApplied
              /\ p.creditApplied = pend[t].creditApplied
              /\ availableAmount[c] + p.delta >= 0
              /\ \A u \in Txs \ {t} : pend[u].balance => seen[u].client # c
    BY <1>6, <2>1, <2>2, <2>4
  <2>6. Handler("recountPayments", req[t], seen[t])
    BY <1>0, <2>1 DEF Handler
  <2>7. Pending("recountPayments", req[t], seen[t], p)
    BY <2>2, <2>3, <2>5 DEF Pending, Balanced, excess
  <2> QED BY <1>3, <1>4, <2>1, <2>5, <2>6, <2>7
<1>8. CASE Decrement(t)
  <2> DEFINE delta == -req[t].amount
  <2>1. /\ pc[t] = "decrement" /\ CoveredByBalance(c, req[t].amount) /\ Post(t, delta)
        /\ GoTo(t, "apply") /\ UNCHANGED <<vars, req, seen>>
    BY <1>8 DEF Decrement
  <2>2. c \in Clients /\ req[t].kind = "credit" /\ Nothing(pend[t]) /\ req[t].amount \in Int
    BY <1>0, <1>1, <2>1 DEF Handler, Pending, Request
  <2>3. delta \in Int /\ availableAmount[c] + delta >= 0 /\ ~pend[t].balance
    BY <1>2, <2>1, <2>2 DEF CoveredByBalance, Nothing
  <2> HIDE DEF delta
  <2>4. PICK p \in Pend :
              /\ pend' = [pend EXCEPT ![t] = p]
              /\ p.balance /\ p.delta = delta /\ p.paid = pend[t].paid
              /\ p.paidApplied = pend[t].paidApplied
              /\ p.creditApplied = pend[t].creditApplied
              /\ availableAmount[c] + p.delta >= 0
              /\ \A u \in Txs \ {t} : pend[u].balance => seen[u].client # c
    BY <1>6, <2>1, <2>2, <2>3
  <2>5. Handler("apply", req[t], seen[t])
    BY <1>0, <2>1, <2>2 DEF Handler
  <2>6. Pending("apply", req[t], seen[t], p)
    BY <2>2, <2>4 DEF Pending, Nothing, delta
  <2> QED BY <1>3, <1>4, <2>1, <2>4, <2>5, <2>6
<1>9. CASE Apply(t)
  <2> DEFINE p == [pend[t] EXCEPT !.creditApplied = req[t].amount]
  <2>1. /\ pc[t] = "apply" /\ pend' = [pend EXCEPT ![t] = p] /\ GoTo(t, "recountPayments")
        /\ UNCHANGED <<vars, req, seen>>
    BY <1>9 DEF Apply
  <2>2. /\ c \in Clients /\ req[t].amount \in Nat
        /\ pend[t].delta = -req[t].amount /\ pend[t].paid = 0 /\ pend[t].paidApplied = 0
    BY <1>0, <1>1, <2>1 DEF Handler, Pending, Request
  <2>3. /\ p \in Pend /\ p.creditApplied = req[t].amount /\ p.balance = pend[t].balance
        /\ p.delta = pend[t].delta /\ p.paid = pend[t].paid
        /\ p.paidApplied = pend[t].paidApplied
    BY <1>0, <2>2 DEF Pend
  <2> HIDE DEF p
  <2>4. Handler("recountPayments", req[t], seen[t])
    BY <1>0, <2>1 DEF Handler
  <2>5. Pending("recountPayments", req[t], seen[t], p)
    BY <1>0, <2>2, <2>3 DEF Pending, Balanced
  <2>6. p.balance => /\ availableAmount[c] + p.delta >= 0
                     /\ \A u \in Txs \ {t} : pend[u].balance => seen[u].client # c
    BY <1>0, <2>3
  <2> QED BY <1>3, <1>4, <2>1, <2>3, <2>4, <2>5, <2>6
<1>10. CASE Reverse(t)
  <2> DEFINE overpaid == OverpaymentCredit(seen[t].paid, seen[t].paidApplied)
             returned == seen[t].creditApplied
             delta    == returned - overpaid
  <2>1. /\ pc[t] = "reverse" /\ GoTo(t, "deleteRow") /\ UNCHANGED <<vars, req, seen>>
        /\ IF c # NoClient /\ (overpaid > 0 \/ returned > 0)
             THEN /\ overpaid > 0 => CoveredByBalance(c, overpaid)
                  /\ Post(t, delta)
             ELSE UNCHANGED pend
    BY <1>10 DEF Reverse
  <2>2. overpaid \in Nat /\ returned \in Nat /\ c \in Clients \cup {NoClient}
    BY <1>0 DEF Seen, OverpaymentCredit
  <2>3. Nothing(pend[t])
    BY <1>0, <2>1 DEF Pending
  <2>4. Handler("deleteRow", req[t], seen[t])
    BY <1>0, <2>1 DEF Handler
  <2> HIDE DEF overpaid, returned
  <2>5. CASE c # NoClient /\ (overpaid > 0 \/ returned > 0)
    <3>1. /\ c \in Clients /\ delta \in Int /\ availableAmount[c] + delta >= 0
          /\ ~pend[t].balance
      BY <1>2, <2>1, <2>2, <2>3, <2>5 DEF CoveredByBalance, Nothing
    <3>2. Post(t, delta)
      BY <2>1, <2>5
    <3> HIDE DEF delta
    <3>3. PICK p \in Pend :
                /\ pend' = [pend EXCEPT ![t] = p]
                /\ p.balance /\ p.delta = delta /\ p.paid = pend[t].paid
                /\ p.paidApplied = pend[t].paidApplied
                /\ p.creditApplied = pend[t].creditApplied
                /\ availableAmount[c] + p.delta >= 0
                /\ \A u \in Txs \ {t} : pend[u].balance => seen[u].client # c
      BY <1>6, <3>1, <3>2
    <3>4. Pending("deleteRow", req[t], seen[t], p)
      BY <3>1, <3>3 DEF Pending
    <3> QED BY <1>3, <1>4, <2>1, <2>4, <3>3, <3>4
  <2>6. CASE ~(c # NoClient /\ (overpaid > 0 \/ returned > 0))
    <3>1. pend' = [pend EXCEPT ![t] = pend[t]]
      BY <1>0, <2>1, <2>6
    <3>2. Pending("deleteRow", req[t], seen[t], pend[t])
      BY <2>3 DEF Pending, Nothing
    <3> QED BY <1>0, <1>3, <1>4, <2>1, <2>4, <3>1, <3>2
  <2> QED BY <2>5, <2>6
<1> QED BY <1>5, <1>7, <1>8, <1>9, <1>10

-----------------------------------------------------------------------------

\* A handler that ends holds nothing; the others still know what they knew if their
\* invoices have not changed hands and the balances they hold have not moved.
LEMMA Ending ==
    ASSUME TxnInv, NEW t \in Txs, Finish(t), TypeOK', RowsInv',
           \A i \in Invoices : Exists(i)' => Exists(i) /\ clientOf'[i] = clientOf[i],
           \A u \in Txs \ {t} : pend[u].balance =>
               availableAmount'[seen[u].client] = availableAmount[seen[u].client]
    PROVE  TxnInv'
<1>1. /\ NoRead \in Seen /\ NoWrite \in Pend /\ Nothing(NoWrite)
  BY DEF NoRead, NoWrite, Seen, Pend, Nothing
<1>2. TxnTypeOK'
  BY <1>1 DEF TxnInv, TxnTypeOK, Finish, GoTo, Seen, Pend, Steps
<1>3. /\ pc'[t] = "idle" /\ seen'[t] = NoRead /\ pend'[t] = NoWrite
      /\ \A u \in Txs \ {t} : /\ pc'[u] = pc[u] /\ seen'[u] = seen[u] /\ pend'[u] = pend[u]
                              /\ req'[u] = req[u]
  BY DEF TxnInv, TxnTypeOK, Finish, GoTo
<1>4. OpenPostingIsCovered'
  BY <1>1, <1>3 DEF TxnInv, OpenPostingIsCovered, Nothing
<1>5. ASSUME NEW u \in Txs
      PROVE  /\ Handler(pc[u], req[u], seen[u])'
             /\ Pending(pc[u], req[u], seen[u], pend[u])'
  <2>1. CASE u = t
    BY <1>1, <1>3, <2>1 DEF Handler, Pending, Nothing
  <2>2. CASE u # t
    <3>1. pc[u] # "idle" => req[u].invoice \in Invoices
      BY DEF TxnInv, HandlersOK, Handler, Request
    <3> QED BY <1>3, <2>2, <3>1 DEF TxnInv, HandlersOK, Handler, Pending, Nothing, Balanced,
               Request
  <2> QED BY <2>1, <2>2
<1> QED BY <1>2, <1>4, <1>5 DEF TxnInv, HandlersOK

\* A commit posts to one account, which nobody else has posted to.
LEMMA Commit ==
    ASSUME TxnInv, NEW t \in Txs, CommitAccount(t)
    PROVE  /\ availableAmount' \in [Clients -> Int] /\ ledger' \in [Clients -> Int]
           /\ BalanceMatchesLedger'
           /\ \A u \in Txs \ {t} : pend[u].balance =>
                  availableAmount'[seen[u].client] = availableAmount[seen[u].client]
           /\ \/ UNCHANGED account
              \/ \E c \in Clients : Account!Post(c)
<1> DEFINE c == seen[t].client
           d == pend[t].delta
<1>0. /\ c \in Clients \cup {NoClient} /\ d \in Int
      /\ ~pend[t].balance => d = 0
      /\ pend[t].balance => /\ availableAmount[c] + d >= 0
                            /\ \A u \in Txs \ {t} : pend[u].balance => seen[u].client # c
  BY OwnFacts DEF Seen, Pend, Pending
<1>1. /\ availableAmount \in [Clients -> Int] /\ ledger \in [Clients -> Int]
      /\ BalanceMatchesLedger
      /\ \A u \in Txs : pend[u].balance => seen[u].client \in Clients
  BY DEF TxnInv, TxnTypeOK, TypeOK, RowsInv, HandlersOK, Pending
<1>2. CASE c = NoClient
  <2>1. UNCHANGED account
    BY <1>2 DEF CommitAccount
  <2> QED BY <1>1, <2>1 DEF account, BalanceMatchesLedger
<1>3. CASE c # NoClient
  <2>1. /\ c \in Clients
        /\ availableAmount' = [availableAmount EXCEPT ![c] = @ + d]
        /\ ledger' = [ledger EXCEPT ![c] = @ + d]
    BY <1>0, <1>3 DEF CommitAccount
  <2> HIDE DEF c, d
  <2>2. availableAmount' \in [Clients -> Int] /\ ledger' \in [Clients -> Int]
    BY <1>0, <1>1, <2>1
  <2>3. availableAmount'[c] = availableAmount[c] + d /\ availableAmount[c] >= 0
    BY <1>1, <2>1 DEF BalanceMatchesLedger
  <2>4. availableAmount'[c] >= 0
    BY <1>0, <1>1, <2>1, <2>3
  <2>5. BalanceMatchesLedger'
    BY <1>0, <1>1, <2>1, <2>4 DEF BalanceMatchesLedger
  <2>6. ASSUME NEW u \in Txs \ {t}, pend[u].balance
        PROVE  availableAmount'[seen[u].client] = availableAmount[seen[u].client]
    <3>1. CASE seen[u].client # c
      BY <1>1, <2>1, <2>6, <3>1
    <3>2. CASE seen[u].client = c
      <4>1. d = 0
        BY <1>0, <2>6, <3>2
      <4> QED BY <1>1, <2>1, <2>3, <3>2, <4>1
    <3> QED BY <3>1, <3>2
  <2>7. Account!Post(c)
    <3>1. availableAmount' = [availableAmount EXCEPT ![c] = availableAmount'[c]]
      BY <2>1, <2>3
    <3>2. ledger' = [ledger EXCEPT ![c] = @ + (availableAmount'[c] - availableAmount[c])]
      <4>1. availableAmount'[c] - availableAmount[c] = d
        BY <1>0, <1>1, <2>1, <2>3
      <4> QED BY <2>1, <4>1
    <3>3. availableAmount'[c] \in Nat
      BY <2>1, <2>2, <2>4
    <3> QED BY <3>1, <3>2, <3>3, Zenon DEF Account!Post
  <2> QED BY <2>1, <2>2, <2>5, <2>6, <2>7
<1> QED BY <1>2, <1>3

\* The last statement and its COMMIT: the postings of the invoice follow its payments
\* and applications, whatever other handlers have committed in between.
LEMMA WriteStatusInv ==
    ASSUME TxnInv, NEW t \in Txs, WriteStatus(t)
    PROVE  TxnInv'
<1> DEFINE i == req[t].invoice
           p == pend[t]
<1>0. /\ seen[t] \in Seen /\ p \in Pend
      /\ Handler(pc[t], req[t], seen[t]) /\ Pending(pc[t], req[t], seen[t], p)
  BY OwnFacts
<1>1. /\ pc[t] = "writeStatus" /\ Exists(i) /\ Finish(t) /\ CommitAccount(t)
      /\ status' = [status EXCEPT ![i] = DeriveStatus(seen[t].total, SeenRecorded(t))]
      /\ paid' = [paid EXCEPT ![i] = @ + p.paid]
      /\ paidApplied' = [paidApplied EXCEPT ![i] = @ + p.paidApplied]
      /\ creditApplied' = [creditApplied EXCEPT ![i] = @ + p.creditApplied]
      /\ postings' = [postings EXCEPT ![i] = @ + p.delta]
      /\ UNCHANGED <<clientOf, totalAmount>>
  BY DEF WriteStatus, CanUpdateRow
<1>2. i \in Invoices /\ seen[t].client = clientOf[i]
  BY <1>0, <1>1 DEF Handler, Request
<1>3. /\ availableAmount' \in [Clients -> Int] /\ ledger' \in [Clients -> Int]
      /\ BalanceMatchesLedger'
      /\ \A u \in Txs \ {t} : pend[u].balance =>
             availableAmount'[seen[u].client] = availableAmount[seen[u].client]
  BY <1>1, Commit
<1>4. /\ p.paid \in Nat /\ p.paidApplied \in Nat /\ p.creditApplied \in Nat /\ p.delta \in Int
  BY <1>0 DEF Pend
<1>5. \/ clientOf[i] \in Clients /\ p.delta = p.paid - p.paidApplied - p.creditApplied
                                 /\ p.paidApplied <= p.paid
      \/ clientOf[i] = NoClient /\ p.paidApplied = 0 /\ p.creditApplied = 0 /\ p.delta = 0
  BY <1>0, <1>1, <1>2, ConstantsAssumption DEF Pending, Balanced
<1>6. DeriveStatus(seen[t].total, SeenRecorded(t)) \in SentStatus
  <2>1. SeenRecorded(t) \in Int /\ seen[t].total \in Int
    BY <1>0 DEF Seen, SeenRecorded, Recorded
  <2> QED BY <2>1, DeriveStatusType
<1> HIDE DEF i, p
<1>7. TypeOK'
  BY <1>1, <1>2, <1>3, <1>4, <1>6 DEF TxnInv, TxnTypeOK, TypeOK, InvoiceStatus, SentStatus
<1>8. PostingsMatchInvoice'
  <2>1. ASSUME NEW j \in Invoices
        PROVE  /\ Linked(j)' => postings'[j] = paid'[j] - paidApplied'[j] - creditApplied'[j]
               /\ ~Linked(j)' => /\ postings'[j] = 0 /\ paidApplied'[j] = 0
                                 /\ creditApplied'[j] = 0
               /\ paidApplied'[j] <= paid'[j]
    <3>1. /\ paid[j] \in Nat /\ paidApplied[j] \in Nat /\ creditApplied[j] \in Nat
          /\ postings[j] \in Int
          /\ Linked(j) => postings[j] = paid[j] - paidApplied[j] - creditApplied[j]
          /\ ~Linked(j) => postings[j] = 0 /\ paidApplied[j] = 0 /\ creditApplied[j] = 0
          /\ paidApplied[j] <= paid[j]
      BY DEF TxnInv, TxnTypeOK, TypeOK, RowsInv, PostingsMatchInvoice
    <3>2. Linked(j)' = Linked(j)
      BY <1>1 DEF Linked
    <3>3. CASE j # i
      BY <1>1, <3>1, <3>2, <3>3 DEF TxnInv, TxnTypeOK, TypeOK
    <3>4. CASE j = i
      <4>1. /\ paid'[j] = paid[j] + p.paid /\ paidApplied'[j] = paidApplied[j] + p.paidApplied
            /\ creditApplied'[j] = creditApplied[j] + p.creditApplied
            /\ postings'[j] = postings[j] + p.delta
        BY <1>1, <1>2, <3>4 DEF TxnInv, TxnTypeOK, TypeOK
      <4>2. CASE Linked(j)
        <5>1. clientOf[i] # NoClient
          BY <3>4, <4>2 DEF Linked
        <5>2. p.delta = p.paid - p.paidApplied - p.creditApplied /\ p.paidApplied <= p.paid
          BY <1>5, <5>1
        <5>3. /\ postings[j] = paid[j] - paidApplied[j] - creditApplied[j]
              /\ paidApplied[j] <= paid[j]
          BY <3>1, <4>2
        <5>4. /\ postings'[j] = paid'[j] - paidApplied'[j] - creditApplied'[j]
              /\ paidApplied'[j] <= paid'[j]
          BY <1>4, <3>1, <4>1, <5>2, <5>3
        <5> QED BY <3>2, <4>2, <5>4
      <4>3. CASE ~Linked(j)
        <5>1. clientOf[i] = NoClient
          BY <3>4, <4>3 DEF Linked
        <5>2. p.paidApplied = 0 /\ p.creditApplied = 0 /\ p.delta = 0
          BY <1>5, <5>1, ConstantsAssumption
        <5>3. /\ postings[j] = 0 /\ paidApplied[j] = 0 /\ creditApplied[j] = 0
              /\ paidApplied[j] <= paid[j]
          BY <3>1, <4>3
        <5>4. /\ postings'[j] = 0 /\ paidApplied'[j] = 0 /\ creditApplied'[j] = 0
              /\ paidApplied'[j] <= paid'[j]
          BY <1>4, <3>1, <4>1, <5>2, <5>3
        <5> QED BY <3>2, <4>3, <5>4
      <4> QED BY <4>2, <4>3
    <3> QED BY <3>3, <3>4
  <2> QED BY <2>1 DEF PostingsMatchInvoice
<1>9. \A j \in Invoices : Exists(j)' => Exists(j) /\ clientOf'[j] = clientOf[j]
  BY <1>1 DEF Exists, TxnInv, TxnTypeOK, TypeOK
<1>10. AbsentIsEmpty'
  <2>1. ASSUME NEW j \in Invoices, ~Exists(j)'
        PROVE  j # i /\ ~Exists(j)
    BY <1>1, <1>2, <1>6, <2>1 DEF Exists, SentStatus, TxnInv, TxnTypeOK, TypeOK
  <2> QED BY <1>1, <2>1 DEF AbsentIsEmpty, TxnInv, TxnTypeOK, TypeOK, RowsInv
<1> QED BY <1>1, <1>3, <1>7, <1>8, <1>9, <1>10, Ending DEF RowsInv

\* A handler that posts nothing leaves the money alone.
LEMMA WriteRowInv ==
    ASSUME TxnInv, NEW t \in Txs, WriteRow(t)
    PROVE  TxnInv'
<1> DEFINE i == req[t].invoice
           next == IF req[t].kind = "update" THEN status[i] ELSE SetStatus[req[t].kind]
           total == IF req[t].kind = "update" THEN req[t].amount ELSE totalAmount[i]
<1>1. /\ pc[t] = "writeRow" /\ Exists(i) /\ Finish(t)
      /\ status' = [status EXCEPT ![i] = next]
      /\ totalAmount' = [totalAmount EXCEPT ![i] = total]
      /\ UNCHANGED <<clientOf, paid, paidApplied, creditApplied, postings, availableAmount,
                     ledger>>
  BY DEF WriteRow, CanUpdateRow, money
<1>2. /\ i \in Invoices /\ req[t].kind \in {"void", "issue", "update"}
      /\ req[t].amount \in Int
  BY <1>1, OwnFacts DEF Handler, Request
<1>3. next \in InvoiceStatus /\ total \in Int
  <2>1. status[i] \in InvoiceStatus /\ totalAmount[i] \in Int
    BY <1>1, <1>2 DEF TxnInv, TxnTypeOK, TypeOK, Exists
  <2> QED BY <1>2, <2>1 DEF SetStatus, InvoiceStatus
<1> HIDE DEF i, next, total
<1>4. TypeOK'
  BY <1>1, <1>3 DEF TxnInv, TxnTypeOK, TypeOK
<1>5. ASSUME NEW j \in Invoices PROVE Exists(j)' = Exists(j)
  BY <1>1, <1>2, <1>3 DEF Exists, InvoiceStatus, TxnInv, TxnTypeOK, TypeOK
<1>6. RowsInv'
  BY <1>1, <1>5
  DEF TxnInv, RowsInv, BalanceMatchesLedger, PostingsMatchInvoice, AbsentIsEmpty, Linked
<1> QED BY <1>1, <1>4, <1>5, <1>6, Ending

\* A deleted invoice leaves an empty slot.
LEMMA DeleteRowInv ==
    ASSUME TxnInv, NEW t \in Txs, DeleteRow(t)
    PROVE  TxnInv'
<1> DEFINE i == req[t].invoice
<1>1. /\ pc[t] = "deleteRow" /\ Finish(t) /\ CommitAccount(t)
      /\ status' = [status EXCEPT ![i] = "ABSENT"]
      /\ clientOf' = [clientOf EXCEPT ![i] = NoClient]
      /\ totalAmount' = [totalAmount EXCEPT ![i] = 0]
      /\ paid' = [paid EXCEPT ![i] = 0]
      /\ paidApplied' = [paidApplied EXCEPT ![i] = 0]
      /\ creditApplied' = [creditApplied EXCEPT ![i] = 0]
      /\ postings' = [postings EXCEPT ![i] = 0]
  BY DEF DeleteRow
<1>2. i \in Invoices
  BY <1>1, OwnFacts DEF Handler, Request
<1>3. /\ availableAmount' \in [Clients -> Int] /\ ledger' \in [Clients -> Int]
      /\ BalanceMatchesLedger'
      /\ \A u \in Txs \ {t} : pend[u].balance =>
             availableAmount'[seen[u].client] = availableAmount[seen[u].client]
  BY <1>1, Commit
<1> HIDE DEF i
<1>4. TypeOK'
  <2>0. TypeOK /\ 0 \in Nat /\ 0 \in Int
    BY DEF TxnInv, TxnTypeOK
  <2>1. /\ status' \in [Invoices -> InvoiceStatus \cup {"ABSENT"}]
        /\ clientOf' \in [Invoices -> Clients \cup {NoClient}]
    BY <1>1, <2>0 DEF TypeOK
  <2>2. /\ totalAmount' \in [Invoices -> Int] /\ paid' \in [Invoices -> Nat]
        /\ paidApplied' \in [Invoices -> Nat]
    BY <1>1, <2>0 DEF TypeOK
  <2>3. creditApplied' \in [Invoices -> Nat] /\ postings' \in [Invoices -> Int]
    BY <1>1, <2>0 DEF TypeOK
  <2> QED BY <1>3, <2>1, <2>2, <2>3 DEF TypeOK
<1>5. PostingsMatchInvoice' /\ AbsentIsEmpty'
  BY <1>1, <1>2 DEF TxnInv, TxnTypeOK, TypeOK, RowsInv, PostingsMatchInvoice, AbsentIsEmpty,
     Exists, Linked
<1>6. \A j \in Invoices : Exists(j)' => Exists(j) /\ clientOf'[j] = clientOf[j]
  BY <1>1, <1>2 DEF Exists, TxnInv, TxnTypeOK, TypeOK
<1> QED BY <1>1, <1>3, <1>4, <1>5, <1>6, Ending DEF RowsInv

LEMMA RollbackInv ==
    ASSUME TxnInv, NEW t \in Txs, Rollback(t)
    PROVE  TxnInv'
<1>1. /\ Finish(t)
      /\ UNCHANGED <<status, clientOf, totalAmount, paid, paidApplied, creditApplied, postings,
                     availableAmount, ledger>>
  BY DEF Rollback, vars, money
<1>2. TypeOK' /\ RowsInv'
  BY <1>1 DEF TxnInv, TxnTypeOK, TypeOK, RowsInv, BalanceMatchesLedger, PostingsMatchInvoice,
     AbsentIsEmpty, Exists, Linked
<1>3. \A i \in Invoices : Exists(i)' => Exists(i) /\ clientOf'[i] = clientOf[i]
  BY <1>1 DEF Exists
<1> QED BY <1>1, <1>2, <1>3, Ending

\* A new invoice takes a slot that no handler remembers.
LEMMA CreateInv ==
    ASSUME TxnInv, NEW i \in Invoices, NEW p \in Clients \cup {NoClient},
           NEW k \in Clients \cup {NoClient}, NEW total \in Totals, Create(i, p, k, total)
    PROVE  TxnInv'
<1>1. /\ CreateInvoice(i, p, k, total) /\ InFlight(i) = {}
      /\ UNCHANGED <<pc, req, seen, pend>>
  BY DEF Create, txVars
<1>2. IInv
  BY DEF TxnInv, TxnTypeOK, RowsInv, IInv
<1>3. IInv'
  <2>1. Next
    BY <1>1 DEF Next
  <2> QED BY <1>2, <2>1, NextIInv
<1>4. ASSUME NEW u \in Txs PROVE /\ Handler(pc[u], req[u], seen[u])'
                                 /\ Pending(pc[u], req[u], seen[u], pend[u])'
  <2>1. pc[u] # "idle" => req[u].invoice # i /\ req[u].invoice \in Invoices
    BY <1>1 DEF InFlight, TxnInv, HandlersOK, Handler, Request
  <2>2. pc[u] # "idle" => /\ Exists(req[u].invoice)' = Exists(req[u].invoice)
                          /\ clientOf'[req[u].invoice] = clientOf[req[u].invoice]
    BY <1>1, <2>1 DEF CreateInvoice, Exists, TxnInv, TxnTypeOK, TypeOK
  <2> QED BY <1>1, <2>2 DEF TxnInv, HandlersOK, Handler, Pending, Exists
<1>5. OpenPostingIsCovered'
  BY <1>1 DEF CreateInvoice, money, OpenPostingIsCovered, TxnInv
<1>6. TxnTypeOK'
  BY <1>1, <1>3 DEF TxnInv, TxnTypeOK, IInv
<1> QED BY <1>3, <1>4, <1>5, <1>6 DEF TxnInv, RowsInv, IInv, HandlersOK

-----------------------------------------------------------------------------

\* The steps that only concern the open transactions.
OnlyTransactions ==
    \E t \in Txs :
        \/ \E i \in Invoices, amount \in Amounts : StartPayment(t, i, amount)
        \/ \E i \in Invoices, amount \in Amounts : StartCredit(t, i, amount)
        \/ \E i \in Invoices : StartDelete(t, i) \/ StartVoid(t, i) \/ StartIssue(t, i)
        \/ \E i \in Invoices, total \in Totals : StartUpdate(t, i, total)
        \/ AutoIssue(t) \/ ReadPayments(t) \/ ReadApplications(t) \/ CheckBalance(t)
        \/ InsertPayment(t) \/ PostExcess(t) \/ Decrement(t) \/ Apply(t) \/ Reverse(t)

LEMMA NextCases ==
    ASSUME TxnNext
    PROVE  \/ \E i \in Invoices, p, k \in Clients \cup {NoClient}, total \in Totals :
                  Create(i, p, k, total)
           \/ OnlyTransactions
           \/ \E t \in Txs : WriteStatus(t) \/ WriteRow(t) \/ DeleteRow(t) \/ Rollback(t)
BY Zenon DEF TxnNext, OnlyTransactions

LEMMA TxnNextInv ==
    ASSUME TxnInv, [TxnNext]_allVars
    PROVE  TxnInv'
<1>1. CASE \E i \in Invoices, p, k \in Clients \cup {NoClient}, total \in Totals :
               Create(i, p, k, total)
  BY <1>1, CreateInv
<1>2. CASE OnlyTransactions
  BY <1>2, StartsInv, ReadsInv, WritesInv, Zenon DEF OnlyTransactions
<1>3. CASE \E t \in Txs : WriteStatus(t) \/ WriteRow(t) \/ DeleteRow(t) \/ Rollback(t)
  BY <1>3, WriteStatusInv, WriteRowInv, DeleteRowInv, RollbackInv
<1>4. CASE UNCHANGED allVars
  <2>1. UNCHANGED <<status, clientOf, totalAmount, paid, paidApplied, creditApplied, postings,
                    availableAmount, ledger, pc, req, seen, pend>>
    BY <1>4 DEF allVars, vars, money, txVars
  <2>2. TxnTypeOK' /\ RowsInv'
    BY <2>1 DEF TxnInv, TxnTypeOK, TypeOK, RowsInv, BalanceMatchesLedger,
       PostingsMatchInvoice, AbsentIsEmpty, Exists, Linked
  <2>3. OpenPostingIsCovered' /\ HandlersOK'
    BY <2>1 DEF TxnInv, OpenPostingIsCovered, HandlersOK, Handler, Pending, Exists, Nothing,
       Balanced, Request
  <2> QED BY <2>2, <2>3 DEF TxnInv
<1> QED BY <1>1, <1>2, <1>3, <1>4, NextCases

LEMMA TxnInvariance == TxnSpec => []TxnInv
<1>1. TxnInv /\ [TxnNext]_allVars => TxnInv'
  BY TxnNextInv
<1> QED BY <1>1, TxnInitInv, PTL DEF TxnSpec

\* Every variable of the transactions keeps its type, the sums of payments and of
\* applications that overlapping handlers commit included.
THEOREM TxnTypeCorrect == TxnSpec => []TxnTypeOK
<1>1. TxnInv => TxnTypeOK
  BY DEF TxnInv
<1> QED BY <1>1, TxnInvariance, PTL

\* The ledger entries of an invoice follow its payments and applications, however the
\* statements of the handlers interleave and whichever of them are rolled back.
THEOREM TxnPostingsCorrect == TxnSpec => []PostingsMatchInvoice
<1>1. TxnInv => PostingsMatchInvoice
  BY DEF TxnInv, RowsInv
<1> QED BY <1>1, TxnInvariance, PTL

\* The committed balance of a client is the sum of its committed ledger entries and
\* never negative, however the handlers interleave (the conditional UPDATE of
\* decrementClientCreditBalance and the ledger entry written with it).
THEOREM TxnBalanceCorrect == TxnSpec => []BalanceMatchesLedger
<1>1. TxnInv => BalanceMatchesLedger
  BY DEF TxnInv, RowsInv
<1> QED BY <1>1, TxnInvariance, PTL

\* One transaction at a time holds a client's balance, and what it has posted is covered
\* (the conditional UPDATE of decrementClientCreditBalance and the lock it leaves).
THEOREM OpenPostingCovered == TxnSpec => []OpenPostingIsCovered
<1>1. TxnInv => OpenPostingIsCovered
  BY DEF TxnInv
<1> QED BY <1>1, TxnInvariance, PTL

\* Concurrent handlers implement the abstract credit account: every commit is a posting
\* to one client's account that does not overdraw it, or leaves all accounts alone.
THEOREM TxnCreditAccountImplemented == TxnSpec => ImplementsCreditAccount
<1>1. TxnInit => Account!Init
  BY DEF TxnInit, Init, Account!Init
<1>2. TxnInv /\ [TxnNext]_allVars => [Account!Next]_(Account!account)
  <2> SUFFICES ASSUME TxnInv, [TxnNext]_allVars
               PROVE  (\E c \in Clients : Account!Post(c)) \/ UNCHANGED account
    BY DEF Account!Next, Account!account, account
  <2>1. CASE \E i \in Invoices, p, k \in Clients \cup {NoClient}, total \in Totals :
                 Create(i, p, k, total)
    BY <2>1 DEF Create, CreateInvoice, money, account
  <2>2. CASE OnlyTransactions
    <3>1. UNCHANGED vars
      <4>1. ASSUME NEW t \in Txs, NEW i \in Invoices, NEW n,
                   \/ StartPayment(t, i, n) \/ StartCredit(t, i, n) \/ StartDelete(t, i)
                   \/ StartVoid(t, i) \/ StartIssue(t, i) \/ StartUpdate(t, i, n)
            PROVE  UNCHANGED vars
        BY <4>1, Zenon DEF StartPayment, StartCredit, StartDelete, StartVoid, StartIssue,
           StartUpdate, Start
      <4>2. ASSUME NEW t \in Txs,
                   AutoIssue(t) \/ ReadPayments(t) \/ ReadApplications(t) \/ CheckBalance(t)
            PROVE  UNCHANGED vars
        BY <4>2, Zenon DEF AutoIssue, ReadPayments, ReadApplications, CheckBalance
      <4>3. ASSUME NEW t \in Txs,
                   InsertPayment(t) \/ PostExcess(t) \/ Decrement(t) \/ Apply(t) \/ Reverse(t)
            PROVE  UNCHANGED vars
        BY <4>3, Zenon DEF InsertPayment, PostExcess, Decrement, Apply, Reverse
      <4> QED BY <2>2, <4>1, <4>2, <4>3, Zenon DEF OnlyTransactions
    <3> QED BY <3>1 DEF vars, money, account
  <2>3. ASSUME NEW t \in Txs, WriteStatus(t) \/ DeleteRow(t)
        PROVE  (\E c \in Clients : Account!Post(c)) \/ UNCHANGED account
    <3>1. CommitAccount(t)
      BY <2>3 DEF WriteStatus, DeleteRow
    <3> QED BY <3>1, Commit
  <2>4. ASSUME NEW t \in Txs, WriteRow(t) \/ Rollback(t)
        PROVE  UNCHANGED account
    BY <2>4 DEF WriteRow, Rollback, vars, money, account
  <2>5. CASE UNCHANGED allVars
    BY <2>5 DEF allVars, vars, money, account
  <2> QED BY <2>1, <2>2, <2>3, <2>4, <2>5, NextCases
<1> QED BY <1>1, <1>2, TxnInvariance, PTL DEF TxnSpec, ImplementsCreditAccount, Account!Spec

=============================================================================

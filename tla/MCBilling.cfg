SPECIFICATION Spec
CONSTANTS
    i1 = i1
    i2 = i2
    c1 = c1
    c2 = c2
    NoClient = NoClient
    Invoices <- MCInvoices
    Clients <- MCClients
    Amounts <- MCAmounts
    Totals <- MCTotals
    MaxPaid = 3
INVARIANTS
    TypeOK
    CreditIsBacked
PROPERTIES
    NeverOverApplied
    FullPaymentSettles
    DeleteCancelsPostings
    ImplementsCreditAccount

SPECIFICATION TxnSpec
CONSTANTS
    t1 = t1
    t2 = t2
    i1 = i1
    i2 = i2
    c1 = c1
    NoClient = NoClient
    Txs <- MCTxs
    Invoices <- MCInvoices
    Clients <- MCClients
    Amounts <- Unit
    Totals <- Unit
    MaxPaid = 2
    MaxCredit = 0
SYMMETRY Symmetry
INVARIANTS
    TxnTypeOK
    PostingsMatchInvoice
    OpenPostingIsCovered
PROPERTIES
    ImplementsCreditAccount

\* Two sweeps and two human decisions over two open invoices and a paid one.
CONSTANTS
  i1 = i1
  i2 = i2
  i3 = i3
  t1 = t1
  t2 = t2
  t3 = t3
  None = None
  Agents = {a1, a2}
  Humans = {h1, h2}
  CONFIDENCE_FLOOR = 90
  Invoices <- MCInvoices
  Txns <- MCTxns
  PaidAtOnboarding <- MCPaid
  InvoiceAmount <- MCAmount
  Batches <- MCBatches
SPECIFICATION FairSpec
INVARIANTS
  Inv
  SettledOnce
  BooksAgree
  EntriesBalance
  PostedAsApproved
PROPERTIES
  RefinesSettlement
  RequestsEnd

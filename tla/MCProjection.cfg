SPECIFICATION ProjectionSpec
CHECK_DEADLOCK FALSE
CONSTANTS
  Word = 1000
  cust = cust
  prov = prov
  mach = mach
  fee = fee
  broker = broker
  nobody = nobody
  s1 = s1
  r1 = r1
  r2 = r2
  o1 = o1
  textModel = textModel
  Accounts = {cust, prov, fee}
  Customers = {cust}
  Providers = {prov}
  MachineSigners = {mach}
  Owners = {}
  feeRecipient = fee
  settlementSigner = broker
  NoAddress = nobody
  SessionIds = {s1}
  RequestIds = {r1, r2}
  OfferIds = {o1}
  Contents = {textModel}
  Prices <- MCPrices
  Receipts <- MCReceipts
  Amounts = {40}
  Expiries = {3}
  FeeProposals = {}
  minimumBond = 40
  bondExitDelay = 1
  feeDelay = 1
  SESSION_CLOSE_DELAY = 1
  MaxTime = 3
  MaxWei = 80
  MaxVersion = 1
  MaxFeeVersion = 1
  MaxBatch = 2
  MaxLag = 2
INVARIANTS
  ProjectionAgrees

SPECIFICATION MCSpec
CHECK_DEADLOCK FALSE
CONSTANTS
  Word = 1000
  cust = cust
  prov = prov
  mach = mach
  fee = fee
  broker = broker
  nobody = nobody
  owner = owner
  s1 = s1
  s2 = s2
  r1 = r1
  r2 = r2
  r3 = r3
  o1 = o1
  textModel = textModel
  Accounts = {cust, prov, fee}
  Customers = {cust}
  Providers = {prov, fee}
  MachineSigners = {mach}
  Owners = {owner}
  feeRecipient = fee
  settlementSigner = broker
  NoAddress = nobody
  SessionIds = {s1, s2}
  RequestIds = {r1, r2, r3}
  OfferIds = {o1}
  Contents = {textModel}
  Prices <- MCPrices
  Receipts <- AllReceipts
  Amounts = {1, 2, 20}
  Expiries = {3}
  FeeProposals = {0, 1500, 5000}
  minimumBond = 2
  bondExitDelay = 1
  feeDelay = 1
  SESSION_CLOSE_DELAY = 1
  MaxTime = 4
  MaxWei = 40
  MaxVersion = 2
  MaxFeeVersion = 2
  MaxBatch = 2
INVARIANTS
    MonIsConserved
    SessionsPayOnlyForReceipts
    
    
    SettledAtPublishedPrice
    FeeWithinCeiling
    BondServesExitDelay
PROPERTIES
    RecordsAreKept

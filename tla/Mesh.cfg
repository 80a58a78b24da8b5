SPECIFICATION Spec
CONSTANTS
    None = None  Gone = Gone
    m1 = m1  m2 = m2
    Lefts = {l1, l2}
    Rights = {r1, r2}
    Handlers = {r1, r2}  MaxChanges = 2  MaxDrops = 1
    Accounts = {l1, l2}  MaxHashes = 3
    Requests = {r1, r2}
    Challenges = {l1, l2, m1}  MAX_PENDING = 2  CHALLENGE_TTL = 2  MaxTime = 3
    Devices = {l1, l2}  NetOf <- OneNet  Sessions = {m1}  Master = m2  MaxTokens = 2
SYMMETRY Symmetry
INVARIANTS TypeOK ShardsAgree PacketsIntact NoBlackHole BondJoined PushFaithful CredentialsHold EngineAccounted
PROPERTIES SessionRouted StoreConsistent
CHECK_DEADLOCK FALSE

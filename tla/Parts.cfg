CONSTANTS
  Part = {"pool", "reports", "alerts", "links", "referrals", "harvest", "books", "entry", "update", "acp", "gateway", "candidates", "gates", "tokens", "schema", "feedback", "limiter", "status", "terms", "sizing", "paper"}
  Pos = {1}
  PoolLeg <- OneLeg
  Level = {0, 1, 2, 3}
  Confirm = 2
  Grace = 1
  MaxPerPool = 2
  Challenger = {"c1"}
  Required = 2
  SmartFreeze = TRUE
  DustExit = TRUE
  Cap = 2
  User = {"u1", "u2"}
  LinkChat = {"t1", "t2"}
  Code = {"c1"}
  Confirmation = {"r1", "r2"}
  MaxAttempts = 2
  Member = {"u1", "u2", "u3"}
  Application = {"a1", "a2"}
  Milestone = 2
  TokenMint = {"x"}
  Flaws <- OneFlaw
  Ttl = 2
  ChallengeMode = TRUE
  LastVersion = 3
  Runs = 3
  Process = {"engine", "cli"}
  Launches = 3
  Prompt = {"p1", "p2", "p3"}
  WindowSize = 3
  MinSamples = 2
  MinSlow = 2
  MaxAge = 1
  Children = 2
  Question = {11, 12, 13}
  Socket = {1, 2}
  Mints = 2
  Destination = "compound"
  AutoCompound = TRUE
  ClaimFloor = 2
  FeesEarned = 4
  Restarts = 1
  PutIn = 2
  TopWorth = 3
  SweptFees = 2
  LegNeed = 2
  Balances <- Wallets
  TwoSidedOnly = FALSE
  EntryTries = 2
  Tier = {0, 1}
  TopRate = 1
  FeeWallet = {"w1"}
  PaperTerms = FALSE
  TermsTtl = 2
  NegativeTtl = 1
  TermsTime = 4
  ErrorReport = {"r1", "r2", "r3"}
  BadReport = {"r3"}
  Shown <- Listings
  Approved = {}
  TvlBounds <- BoundsOfTvl
  ActiveCount = 1
  HealthyScans = 2
  BookRestarts = 1
  GateFee = {1, 4, 6}
  GateAuth = {5, 9}
  GateYield = {60, 80}
  GateDrop = {0, 6}
  FeeLimit = {0, 3}
  AuthLimit = {4, 8}
  LeastFee = 5
  DropLimit = 5
  FallenOn = TRUE
  PoolCap = 2
  AdoptedMost = 1
  SizedPool = {"p1", "p2"}
  PoolTvl <- Liquidity
  SeedUsd = 24
  Cash = 24
  CapPart = 50
  SharePart = 10
  EquityPart = 34
  TvlPart = 5
  SizeMost = 8
  SizeFloor = 2
  UsualFloor = 2
  IdleLeast = 3
  RedeployMost = 8
  AgentPart = 34
  Asked = {8}
  PoolMost = 2
  OpenMost = 3
  SizingCycles = 2
  PaperCycles = 3
  ErrorKind = {"s1", "s2"}
  KindOf <- SignatureOf
  FlushSize = 2
  Buffer = 2
  BatchesSent = 3
  Notice = {"a1", "a2"}
  Flusher = {"f1", "f2"}
  FlushLimit = 1
  AbandonAfter = 2
  Speaker = {"agent", "cli"}
  Remark = {"h1", "h2"}
  Apart = 1
  HourTicks = 2
  DayTicks = 4
  HourMost = 1
  DayMost = 2
  RemarkHits = 1
  RemarkTime = 4
  RemarkRequests = 3
  LimiterHits = 2
  LimiterTime = 5
  LimiterRequests = 1
  StatusPool = {"p1"}
  WorkTime = 1
  BeatTtl = 1
  KeepTicks = 3
  StatusTime = 5
  StatusReports = 2
  StatusLaunches = 2

SPECIFICATION Spec
CHECK_DEADLOCK FALSE

INVARIANT TypeOK
INVARIANT BreachActedOn
 
INVARIANT DeliveredOnce
INVARIANT AccountsSound
INVARIANT FundsAccounted
INVARIANT PreviousKept
INVARIANT AdvisorSound
INVARIANT EntriesSound
INVARIANT TokensSound

SPECIFICATION AgentsSpec
CONSTANTS
    r1 = r1
    r2 = r2
    x1 = x1
    x2 = x2
    y1 = y1
    Readers = {r1, r2}
    Processes = {"agent_persona", "agent_quant"}
    Home <- TwoHomes
    Assets = {"stock", "generic"}
    Listed = {"stock"}
    Ttl = 2
    MaxTime = 3
    Personas = {r1}
    Rules <- ShortRules
    Active <- OneUniverse
    Digests <- OneDigest
    NoInputs = NoInputs
    LiveMark = {TRUE, FALSE}
    Placeholder = 100
    Valuations <- SomeValuations
    Trades <- SomeTrades
    Ids = {"a1", "a2"}
    Terms <- LongAndShort
    Ticks = {t1, t2}
    PaperPrices = {90, 100, 112}
    MaxDay = 1
    Chats = {"c1", "c2", "c3"}
    Welcome = {"c1", "c2"}
    Backends = {"memory", "postgres"}
    Window = 2
    Known = {"agent_quant", "agent_board"}
    Replies <- ThreeReplies
    QuoteWriters = {"snapshot", "fx"}
    MaxLag = 1
    Queries = {1, 2}
    MaxAge = 1
    LastTick = 3
    Tickers = {"k1", "k2"}
    MaxSending = 2
    MaxFailures = 2
    MaxRestarts = 2
    LogProcesses = {"agent", "agent_backtest"}
    Advices = {"a1", "a2"}
    Outcomes <- ThreeOutcomes
    MaxWrites = 5
    MaxKills = 1
    Stories = {"s1", "s2"}
    Local = {"s1"}
    NeedsLlm = {"s2"}
    IntelBoots <- FourBoots
    Requests <- APullAndTwoSyntheses
    MaxBoots = 2
    Universe <- FiveTickers
    Scores <- FiveScores
    Meta = {"t1", "t2", "t3", "t4", "t5"}
    Weights <- ThreeWeights
    Sectors <- TwoSectors
    Illiquid = {}
    Correlated <- OnePair
    PerSide = 2
    PositionMax = 5
    SectorCap = 9
    RegionCap = 12
    FlagReaders = {r1, r2}
    FlagHome <- OneFlagHome
    FlagDefault = TRUE
    MTimes = {0, 1}
    MaxEdits = 2
    PromptProcesses = {r1, r2}
    Versions = {1, 2}
    PromptTexts = {1, 2}
    StableTexts = {1}
    Publishing = {r1, r2}
    MaxChanges = 1
    LlmProcesses = {r1, r2}
    Strict = {r1}
    KeyRings = {{}, {"deepseek", "groq"}}
    MonthlyCap = 1
    Overlap = 2
    MaxCalls = 4
    MaxLives = 2
    RemoteCalls = {c1, c2, c3}
    LocalCalls = {c3}
    OpenDs = {1, 2}
    Accounts = {x1, x2, y1}
    At <- TwoEndpoints
    Dollars <- TwoCurrencies
    DollarUnit = 8
    Venue <- TwoVenues
    Purses <- ThreePurses
    MaxMoves = 2
INVARIANTS
    WrongMarkHasCause
    WritersMeetSchema
    FillsMatchClosings
    ContextIsLatest
    AnswersFollowTime
    SubscriptionsAgree
    LostNeedsOverlap
    StoriesAreToldOnce
    BookFollowsRanking
    FlagFollowsFile
    VersionIsOneText
    BillIsBounded
    BreakerSeesTheAgent
    SnapshotTells
CHECK_DEADLOCK FALSE

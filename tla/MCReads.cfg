SPECIFICATION Spec
CONSTANTS
    Me = "me"
    Native = 0
    Parties = {"me", "other", "third"}
    Tokens = {1}
    Shapes <- SevenShapes
    Gas = 1
    PageSize = 2
    Chunk = 2
    Gap = 2
    Sweepable <- OneAddress
    MaxChain = 3
    MaxPerBlock = 2
    MaxIndex = 3
    Worlds <- FiveWorlds
    MaxBlocks = 3
    Fleets <- ThreeFleets
    TouchedSets <- TwoTouched
    HostSlices <- FiveSlices
    HostResults <- FiveResults
    HostNames = {"vault"}
    OracleChains <- FourChains
    Here = "here"
    RateOne = 2
    Q = 4
    CoinKeys <- FiveKeys
    Markets <- FourMarkets
    KeysPerRequest = 2
    Resolution = 2
    DatedChains <- Nested
    PutLists <- UptoTwoPuts
    MaxMoments = 3
    ByteBits = 3
    WordLen = 2
    AddressLen = 1
    GroupBits = 2
    Alphabet = 5
    CurveP = 43
    CurveN = 31
    Generator <- G
    Hardened = 3
    MaxDepth = 4
    Ten = 3
    TokenLength = 3
    Canonical <- ThreeChains
    Seeds <- OneSeed
    Chains <- TwoChains
    Listings <- SomeListings
    Spellings <- AllSpellings
    Partitions <- SevenPartitions
    Reports <- SomeReports
    MaxListed = 3
    MaxReports = 2
    Signatures <- FourSignatures
    Bytestrings <- UptoTwoWords
    Payloads <- UptoThreeBytes
INVARIANTS
    ReadsWhole
    HoldingsTrue
    MovesExact
    PinnedReadsAgree
    NetWorthAddsUp
    FormsAgree
CHECK_DEADLOCK FALSE

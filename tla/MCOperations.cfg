SPECIFICATION OperationsSpec
CONSTANTS
    Strategy = {"rebound", "fodder"}
    Seeder = {"seed1", "seed2"}
    Tester = {"test1", "test2"}
    FileOrder <- MCFile
    SlugOrder <- MCSlug
    KeyOrder <- MCKey
    SeedSource = {"video", "guide", "thread", "rant"}
    Contradicting = {"rant"}
    Quality <- MCQuality
    Editions <- MCEditions
    Samples <- MCSamples
    MaxWork = 3
    Batch = {"c1", "h1"}
    Catalogue = {"c1"}
    MaxRequests = 3
    Quote = {900, 950, 960, 1000, 1010, 9950, 10000, 50000, 100000}
    Limit = {850, 900, 1050, 1100, 9800, 11000, 52000, 120000}
    Lot = {1, 9}
    Depth = {0, 2}
    Chance = {0, 50, 100}
    MaxTick = 2
    Candidate = {1, 2, 3}
    Authorized = {1, 2, 3}
    PcMarket = {1, 2, 3}
    Provenance <- MCProvenance
    Basket = 2
    Fodder = 1
    MinPriced = 2
    MinFodder = 1
    MaxAge = 300
    MinEvents = 2
    Quoted <- MCQuoted
    Delays <- MCDelays
CHECK_DEADLOCK FALSE
INVARIANTS
    StatusFollowsMeasurement
    EvidenceCountedOnce
    LikesNeverDeadlock
    CountersOfRecord
    HealthyWasAnswered
    ShadowIsConservative
    BestIndependentPair
PROPERTIES
    BatchesEnd

SPECIFICATION Spec
CONSTANTS
    None = None
    Customers <- TwoCustomers
    Texts <- SomeTexts
    Score <- Similarity
    Numbers <- SomeNumbers
    BaseOf <- WithoutLetters
    OUs <- TwoOus
    Currencies <- ThreeCurrencies
    Usd = "usd"
    FunctionalOf <- LedgerOf
    OracleRate <- Oracle
    StaticMap <- Static
    RateScale = 1000
    CustomerLimit = 2
    TolerancePct = 10
    FuzzyMinPct = 35
    Credits <- FiveCredits
    Reports <- TwoReports
    Answers <- FourAnswers
    ChunkSize = 3
    BatchSize = 2
    MaxFaults = 1
    Remittances <- TwoAdvices
INVARIANTS TypeOK EveryRowOnce UnknownInvoiceIsRemitted ReferencesAddUp HandAgrees SameRate PostableIsSound

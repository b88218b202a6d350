SPECIFICATION Spec
CONSTANTS
    a1 = a1
    a2 = a2
    Admins <- MCAdmins
    Price <- MCPrice
    MarginLog <- MCMarginLog
    Sheets <- MCSheets
    Seeded <- RateSeeded
    Batches <- RateBatches
    Listed <- RateListed
    MaxRates = 2
    MaxRequests = 3
SYMMETRY Symmetry
INVARIANTS
    TypeCorrect
    RowsFavourHouse
    FormulasAreCrossRates
    RateCurrent
    HistoryWasHeld
CHECK_DEADLOCK FALSE

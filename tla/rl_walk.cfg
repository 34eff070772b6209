SPECIFICATION FairSpec
CONSTANTS
    Decimation = 3
    Hist = 3
INVARIANTS
    TypeOK
    HistoryStartsOver
    FiltersStartOver
    StaleCommandsBounded
PROPERTIES
    WalksOnNewData

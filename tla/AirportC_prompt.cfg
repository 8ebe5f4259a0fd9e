SPECIFICATION Spec
CONSTANTS
    BATCH = 2
    TOTAL_TAKEOFFS = 1
    PLANES_LIMIT = 4
    RADIO_LIMIT = 10
    PromptStartup = TRUE
    AirFirst = FALSE
    StaleMemory = FALSE
    RESETHAND <- RepeatedFlags
    c1 = c1
    c2 = c2
    Controllers <- TwoControllers
    Main = Main
    NoThread = NoThread
SYMMETRY Symmetry
INVARIANTS
    TypeOK
    LocksHeld
    OvershootBounded
    RadioCountsNoMore
    NobodyKilled
CHECK_DEADLOCK FALSE

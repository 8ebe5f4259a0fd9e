SPECIFICATION Spec
CONSTANTS
    BATCH = 2
    TOTAL_TAKEOFFS = 2
    PLANES_LIMIT = 4
    RADIO_LIMIT = 10
    PromptStartup = TRUE
    AirFirst = TRUE
    StaleMemory = TRUE
    RESETHAND = {}
    c1 = c1
    c2 = c2
    Controllers <- TwoControllers
    Main = Main
    SignalsInsideWith = TRUE
    NoThread = NoThread
SYMMETRY Symmetry
INVARIANTS
    TypeOK
    LocksHeld
    PlanesNonNegative
    CountsBacked
    TermAfterLastBatch
    GroundAwaited
PROPERTY KeepsPromise

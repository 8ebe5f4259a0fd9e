SPECIFICATION Spec
CONSTANTS
    BATCH = 1
    TOTAL_TAKEOFFS = 1
    PLANES_LIMIT = 2
    RADIO_LIMIT = 0
    PromptStartup = FALSE
    AirFirst = FALSE
    StaleMemory = FALSE
    RESETHAND = {}
    c1 = c1
    c2 = c2
    Controllers <- OneController
    Main = Main
    SignalsInsideWith = TRUE
    NoThread = NoThread
INVARIANT GroundKeepsItsSlot
CHECK_DEADLOCK FALSE

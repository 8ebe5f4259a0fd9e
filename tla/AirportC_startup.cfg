SPECIFICATION Spec
CONSTANTS
    BATCH = 1
    TOTAL_TAKEOFFS = 1
    PLANES_LIMIT = 1
    RADIO_LIMIT = 0
    PromptStartup = FALSE
    AirFirst = FALSE
    StaleMemory = TRUE
    RESETHAND <- RepeatedFlags
    c1 = c1
    c2 = c2
    Controllers <- OneController
    Main = Main
    NoThread = NoThread
INVARIANTS
    GroundAddressed
CHECK_DEADLOCK FALSE

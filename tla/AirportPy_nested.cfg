SPECIFICATION FairSpec
CONSTANTS
    BATCH = 1
    TOTAL_TAKEOFFS = 1
    PLANES_LIMIT = 3
    RADIO_LIMIT = 10
    PromptStartup = TRUE
    AirFirst = TRUE
    StaleMemory = FALSE
    RESETHAND = {}
    c1 = c1
    c2 = c2
    Controllers <- OneController
    Main = Main
    SignalsInsideWith = TRUE
    NoThread = NoThread

PROPERTY PlanesTakeOff

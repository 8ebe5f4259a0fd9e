SPECIFICATION FairSpec
CONSTANTS
    BATCH = 2
    TOTAL_TAKEOFFS = 2
    PLANES_LIMIT = 4
    RADIO_LIMIT = 10
    PromptStartup = TRUE
    AirFirst = TRUE
    StaleMemory = FALSE
    RESETHAND = {}
    c1 = c1
    c2 = c2
    Controllers <- OneController
    Main = Main
    SignalsInsideWith = FALSE
    NoThread = NoThread

PROPERTY PlanesTakeOff

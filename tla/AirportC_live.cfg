SPECIFICATION FairSpec
CONSTANTS
    BATCH = 2
    TOTAL_TAKEOFFS = 2
    PLANES_LIMIT = 2
    RADIO_LIMIT = 10
    PromptStartup = TRUE
    AirFirst = FALSE
    StaleMemory = FALSE
    RESETHAND = {}
    c1 = c1
    c2 = c2
    Controllers <- TwoControllers
    Main = Main
    NoThread = NoThread

PROPERTY EverybodyGoesHome

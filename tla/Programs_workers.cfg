SPECIFICATION FairSpec
CONSTANTS
    RunPrograms = {"commands"}
    Rushed = {}
    TICKETS = 3
    LOG_SIZE = 3
    MAX_BUY = 2
    SOLD_OUT_POLLS = 2
    Buyers = {b1, b2}
    NoBuyer = NoBuyer
    MAXMSG = 2
    QueueRuns <- SmallQueueRuns
    Workers = {w1, w2}
    CommandFiles <- SmallCommandFiles
    NUM_ELEMENTS = 2
    MAX_SIGNALS = 3
    MQ_MAXMSG = 5
    NUM_HORSES = 3
    TRACK_LENGTH = 2
    STEP = 3
    BYTE = 4
    MAX_RUN = 3
    TestRuns <- SmallTestRuns
    Originals <- SmallOriginals
    INT_MAX = 7
    Numbers <- SmallArrays
    max_cols = 5
    max_rows = 3
    NUM_THREADS = 2
    TOTAL_PIXELS = 2
    MAX_NESTED = 2
    STOCK = 3
    MAX_PURCHASE = 2
    Companies = {c1, c2}
    Requests = {0, 1, 3}
    Pages = {1, 2, 3, 4, 5, 6, 7}
    Sizes <- SmallSizes
    Fixed <- SmallFixed
    N_FLOATS = 2
    SHM_SIZE = 4
    CHARS = 16
    TypedLines <- SmallLines
    ALARMS = 4
    UptimeFiles <- SmallUptimes
    CoreCounts = {0, 1, 2}
    MESSAGES = 3
    SLOTS = 2
    RECEIVERS = 2
PROPERTIES
    WorkersTerminate
CHECK_DEADLOCK FALSE

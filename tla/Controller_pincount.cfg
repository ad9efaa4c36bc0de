SPECIFICATION Spec
CONSTANTS
    Commands = {"sign", "authenticate"}
    PinModes = {"keyboard"}
    RunOutcomes = {"single"}
    CardOutcomes = {"success"}
    PinFailures <- UncountedPin
    UserActs = {"ok", "again", "close"}
    MaxCardMoves = 0
    Safari = FALSE
    MaxThreads = 4
    MaxWindows = 2
    MaxQueue = 9
    MaxDepth = 1
    MaxResponses = 2
INVARIANTS ForeseenIsNotFatal
CHECK_DEADLOCK FALSE

SPECIFICATION Spec
CONSTANTS
    Commands = {"authenticate"}
    PinModes = {"keyboard"}
    RunOutcomes = {"single"}
    CardOutcomes = {"success"}
    PinFailures <- WrongPin
    UserActs = {"ok", "cancel", "again", "close", "hasty"}
    MaxCardMoves = 2
    Safari = FALSE
    MaxThreads = 4
    MaxWindows = 2
    MaxQueue = 12
    MaxDepth = 1
    MaxResponses = 1
INVARIANTS PromptIsMonitored
CHECK_DEADLOCK FALSE

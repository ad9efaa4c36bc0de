SPECIFICATION Spec
CONSTANTS
    Commands = {"authenticate"}
    PinModes = {"keyboard", "pinpad"}
    RunOutcomes = {"single"}
    CardOutcomes = {"success"}
    PinFailures <- WrongPin
    UserActs = {"ok", "cancel", "again", "close", "hasty"}
    MaxCardMoves = 1
    Safari = FALSE
    MaxThreads = 4
    MaxWindows = 2
    MaxQueue = 12
    MaxDepth = 2
    MaxResponses = 1
INVARIANTS TypeOK WindowOutlivesConfirm NoStalePin NoDeadEnd PromptIsMonitored
PROPERTIES RestartIsClean
CHECK_DEADLOCK FALSE

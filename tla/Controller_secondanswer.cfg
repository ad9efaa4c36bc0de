SPECIFICATION Spec
CONSTANTS
    Commands = {"get-signing-certificate"}
    PinModes = {"keyboard"}
    RunOutcomes = {"single"}
    CardOutcomes = {"success"}
    PinFailures <- NoPinFailure
    UserActs = {"ok", "cancel", "close"}
    MaxCardMoves = 0
    Safari = FALSE
    MaxThreads = 4
    MaxWindows = 2
    MaxQueue = 9
    MaxDepth = 1
    MaxResponses = 2
INVARIANTS SingleResponse
CHECK_DEADLOCK FALSE

SPECIFICATION Spec
CONSTANTS
    Commands = {"authenticate"}
    PinModes = {"keyboard"}
    RunOutcomes = {"multiple"}
    CardOutcomes = {"success"}
    PinFailures <- WrongPin
    UserActs = {"ok", "reselect", "close"}
    MaxCardMoves = 0
    Safari = FALSE
    MaxThreads = 4
    MaxWindows = 2
    MaxQueue = 9
    MaxDepth = 1
    MaxResponses = 2
INVARIANTS PinForEveryConfirm
CHECK_DEADLOCK FALSE

SPECIFICATION Spec
CONSTANTS
    Commands = {"authenticate", "get-signing-certificate", "quit", "invalid"}
    PinModes = {"keyboard"}
    RunOutcomes = {"single", "multiple"}
    CardOutcomes = {"success", "retriable"}
    PinFailures <- NoPinFailure
    UserActs = {"ok", "cancel", "again", "reselect", "close"}
    MaxCardMoves = 0
    Safari = TRUE
    MaxThreads = 4
    MaxWindows = 2
    MaxQueue = 9
    MaxDepth = 1
    MaxResponses = 2
INVARIANTS NoStalePin
CHECK_DEADLOCK FALSE

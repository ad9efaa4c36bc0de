SPECIFICATION FairSpec
CONSTANTS
    Commands = {"authenticate", "about"}
    PinModes = {"keyboard", "external"}
    RunOutcomes = {"single"}
    CardOutcomes = {"success"}
    PinFailures <- WrongPin
    UserActs = {"ok", "cancel", "close", "hasty"}
    MaxCardMoves = 0
    Safari = FALSE
    MaxThreads = 4
    MaxWindows = 2
    MaxQueue = 9
    MaxDepth = 3
    MaxResponses = 1
PROPERTIES AnswerLeadsToExit
CHECK_DEADLOCK FALSE

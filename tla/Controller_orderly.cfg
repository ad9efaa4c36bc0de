SPECIFICATION FairSpec
CONSTANTS
    Commands = {"get-signing-certificate", "authenticate", "sign", "quit", "invalid"}
    PinModes = {"keyboard", "pinpad"}
    RunOutcomes = {"single", "multiple", "unusable", "none", "mismatch", "retriable", "fatal"}
    CardOutcomes = {"success", "retriable", "fatal"}
    PinFailures <- EveryRefusal
    UserActs = {"ok", "again", "close"}
    MaxCardMoves = 0
    Safari = FALSE
    MaxThreads = 4
    MaxWindows = 2
    MaxQueue = 9
    MaxDepth = 1
    MaxResponses = 2
INVARIANTS ExitsClean
PROPERTIES OneAnswerSession RestartComesBack WaitingEnds EveryDialogShowsPages
CHECK_DEADLOCK FALSE

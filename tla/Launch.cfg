SPECIFICATION FairSpec
CONSTANTS
    SystemLanguage = "lv"
    Requested = {"et"}
    Offered = {"cs"}
    Commands = {"authenticate"}
    Attempts = {5}
    CardErrors = {"NO_SMART_CARDS_FOUND"}
    PinErrors = {"RETRY_ALLOWED"}
    Prompts = {"keyboard"}
    Inactive = {"pin2"}
    MaxSlots = 2
    Lengths = {4, 5}
    Starts = {"stdin", "command", "wrongArguments", "about"}
    Descriptors = {"free", "two"}
    MaxLate = 1
INVARIANTS ScreenIsTranslated RightLanguageIsShown ChoiceIsKept ChannelIsClean ExitMeansAnswered
PROPERTIES EveryRunEnds

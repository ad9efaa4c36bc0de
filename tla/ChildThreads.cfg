SPECIFICATION FairSpec
CONSTANTS
    Waiters = {w}
    Monitors = {m}
    Runners = {r}
    Cards = {card}
    NoThread = NoThread
INVARIANTS OneThreadUsesTheReaders
PROPERTIES BarrierSpec StoppedWhileWaitingIsSilent LostCardNoticed
CHECK_DEADLOCK FALSE

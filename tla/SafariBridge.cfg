SPECIFICATION FairSpec
CONSTANTS
    Requests = {r1, r2, r3}
    MaxCrashes = 1
INVARIANTS OneAtATime FailedIsNeverServed InGoodHands IdleAppIsExpected CalmRequestsAreServed
PROPERTIES EveryRequestAnswered
CHECK_DEADLOCK FALSE

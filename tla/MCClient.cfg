SPECIFICATION FairSpec

CONSTANTS
    c1 = c1
    s1 = s1
    s2 = s2
    u1 = u1
    u2 = u2
    Calls <- MCCalls
    Subs <- MCSubs
    Unsubs <- MCUnsubs

INVARIANTS
    ActiveHasTask
    OneReceiver
    QuietAfterUnsubscribe
    ActiveUntilAsked
    NeverCrashes

PROPERTY
    UnsubscribeEnds

CHECK_DEADLOCK FALSE

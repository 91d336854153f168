SPECIFICATION FairSpec
CONSTANTS
    c1 = c1  c2 = c2
    None = None
    Cells = {c1, c2}
    Connecting <- MCConnecting
    MaxClicks = 2
    MaxEvents = 4
INVARIANTS ChainBreaksOnlyInRaces RatedOnce
PROPERTIES SettledIsFinal NoStoneVanishes FinishedIsRated
CHECK_DEADLOCK FALSE

SPECIFICATION FairSpec
CONSTANTS
    Periodic = Periodic
    Clocksource = Clocksource
    JiffiesMod = 4
INVARIANT TicksInReadySystem
PROPERTIES EachTickOnce RootStarts

SPECIFICATION FairSpec
CONSTANTS
    Producers = {p1}
    Consumers = {c1}
    Returners = {}
    Capacity = 2
    MaxOffers = 5
PROPERTY OverflowingSendCompletes
\* MaxOffers bounds what the producer sends, so every behaviour ends.
CHECK_DEADLOCK FALSE

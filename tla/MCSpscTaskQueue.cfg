SPECIFICATION FairSpec
CONSTANTS
    Tasks = {t1, t2}
    NoTask = NoTask
    kRingSize = 3
INVARIANTS TypeOK PendingAccounts SanityCheck NoSlotRace SleeperIsNotified
PROPERTIES ImplementsQueue ImplementsFairQueue CallsReturn

SPECIFICATION FairSpec
CONSTANTS
    r1 = r1
    r2 = r2
    r3 = r3
    r4 = r4
    NoOne = NoOne
    Req = {r1, r2, r3, r4}
    Kind <- AllKinds
    SendsSystem = {r1}
    MaxWork = 2
INVARIANTS
    TypeOK
    LockHeldInside
    QueueSound
    OwnConversation
PROPERTIES
    FirstComeFirstServed
    ServesOneConversation
    EveryWaiterServed
CHECK_DEADLOCK FALSE

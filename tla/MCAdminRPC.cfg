SPECIFICATION FairSpec
CONSTANTS
    s1 = s1
    s2 = s2
    NoSlot = NoSlot
    Char <- Chars
    UserID <- Users
    Prefix <- Prefixes
    Addr <- Brokers
    Slot <- TwoSlots
    Op <- AllOps
INVARIANT TypeOK
PROPERTIES
    CallsAreAtomic
    RecordsAreImmutable
    HandlersReturn

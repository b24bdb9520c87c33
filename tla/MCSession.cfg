\* One connection, every input, PLAIN upstream.
SPECIFICATION Spec
CONSTANTS
    Conn = {c1}
    ClientCid = {1}
    Char = {"a", "b", "x", "y"}
    UserID = {"empty", "a", "b"}
    Prefix <- MCPrefix
    Addr = {"empty", "k1"}
    Password = {"empty", "pa", "pb"}
    Name <- MCName
    Accounts <- MCAccounts
    BrokerMechanisms <- MCBrokerMechanisms
    UpstreamSASLMechanism = "empty"
    AdvertisedParses = TRUE
    CidSpace = 4
INVARIANTS
    TypeOK
    PrincipalIsTenant
    WireNamesArePrefixed
    NoSocketLeak
    ReplyMatchesRequest
    DialsOnlyKnownTenants
    OnlyPlainDialsWithPassword
PROPERTIES
    SnapshotIsFinal

\* One tenant and one connection whose PLAIN client is bridged to SCRAM, under the
\* fairness of deadlines.
SPECIFICATION FairSpec
CONSTANTS
    Conn = {c1}
    ClientCid = {1}
    Char = {"a", "b", "x", "y"}
    UserID = {"empty", "a"}
    Prefix <- MCPrefixOne
    Addr = {"empty", "k1"}
    Password = {"empty", "pa"}
    Name <- MCNameOne
    Accounts <- MCAccounts
    BrokerMechanisms <- MCBrokerMechanisms
    UpstreamSASLMechanism = "SCRAM-SHA-256"
    AdvertisedParses = FALSE
    CidSpace = 2
INVARIANTS
    PrincipalIsTenant
PROPERTIES
    RequestsComplete
    ShutdownDrains

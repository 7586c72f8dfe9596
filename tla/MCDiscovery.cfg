CONSTANTS
    Spellings = {"wiki", "Wiki", "chat", "wikiTest", "none"}
    CoreNames = {"wiki", "chat"}
    Canon <- MC_Canon
    Addresses = {"a1", "a2", ""}
    NoAddress = ""
    NodeIDs = {}
    Rank <- MC_Rank
    Absent = Absent
    Containers = {"c1", "c2"}
    Looks <- MC_Looks
    EmptyName = "none"
    ServiceHTTP = "http"
    Networks = {"bridge", "lan"}
    NetworkRank <- MC_NetworkRank
    NetworkSettings = {NoNetwork, "bridge"}
    NoNetwork = NoNetwork
    NoPort = NoPort

SPECIFICATION FairSpec

INVARIANTS
    TypeOK
    SoleClaimantRouted
    UnavailableWithdrawn
    LogTells

PROPERTIES
    Discovers
    Withdraws

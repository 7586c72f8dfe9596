CONSTANTS
    Spellings <- MC_Spellings
    CoreNames = {"wiki", "chat"}
    CoreSuffixed = {"wiki", "chat", "bad"}
    Asked = {"WikiDot", "wikiDot", "bad"}
    Canon <- MC_Canon
    Addresses = {"a1", "a2", ""}
    NoAddress = ""
    NodeIDs = {"alpha", "beta"}
    Rank <- MC_Rank
    Absent = Absent
    Bodies <- MC_Bodies
    ServiceLists <- MC_ServiceLists
    ConflictLists <- MC_ConflictLists

SPECIFICATION RequestsSpec

INVARIANT
    ConflictedNotRouted

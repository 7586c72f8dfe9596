CONSTANTS
    Spellings = {"wiki", "Wiki"}
    CoreNames = {"wiki"}
    Canon <- MC_Canon
    Addresses = {"a1", ""}
    NoAddress = ""
    NodeIDs = {"self", "n1", "n2", "n3"}
    Rank <- MC_Rank
    Absent = Absent
    Endpoints = {"e1", "e2"}
    LocalID = "self"
    NoNodeID = ""
    Down = Down
    Announcements <- MC_Announcements
    InitialLists <- MC_NoNodes
    ReloadLists <- MC_ReloadLists

SPECIFICATION FairSpec

PROPERTIES
    Converges

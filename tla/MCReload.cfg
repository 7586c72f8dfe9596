CONSTANTS
    Spellings <- MC_Spellings
    CoreNames = {"wiki"}
    Canon <- MC_Canon
    Addresses = {"a1", ""}
    NoAddress = ""
    NodeIDs = {"alpha"}
    Rank <- MC_Rank
    Absent = Absent
    SystemPath = "/etc/corenet/config.json"
    UserPath = "~/.corenet/config.json"
    HostID = "host"
    HostName = "Host"
    HostPorts = {"127.0.0.1:53", "127.0.0.1:80", "h:1"}
    NodeAddrs = {"h:1"}
    Missing = Missing
    Malformed = Malformed
    NotExist = NotExist
    Invalid = Invalid
    FileSystems <- MC_FileSystems
    Flags = {"", "/etc/corenet/config.json"}

SPECIFICATION FairSpec

INVARIANTS
    TypeOK
    RunsWhatItReports
    Settled
    HupNotLost
    StatusOfItsTime

PROPERTY ImplementsLiveConfig

\* The process ends.
CHECK_DEADLOCK FALSE

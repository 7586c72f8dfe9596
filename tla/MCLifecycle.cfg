CONSTANTS
    Daemons = {"a", "b", "c"}
    Configs <- MC_Configs
    NoFile = "nofile"
    Other = "other"
    Stale = "stale"

SPECIFICATION Spec

INVARIANTS
    TypeOK
    DNSBehindSocket
    AloneNeverRefused

PROPERTY SocketLostOnlyToShutdown

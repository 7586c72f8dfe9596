CONSTANTS
    Commands = {c1, c2}
    DNSAddrs <- MC_DNSAddrs
    Disabled = Disabled
    Down = Down
    NoFile = NoFile
    Partial = Partial

SPECIFICATION Spec

INVARIANTS
    TypeOK
    NeverHalfWritten
    InSync
    ConnectedIsRouted

SPECIFICATION MCSpec
CONSTANTS
    Request = {p1, p2, p3}
    Cancellable = {p1}
    SendChannel = {c1, c2}
    MaxFiles = 3
    MaxFaults = 1
    TransferChannel = {c1, c2, c3}
    Text = {a, b}
    Empty = Empty
    MaxEvents = 2
    MaxLinks = 2
    MaxWire = 2
    Host = {h1, h2}
    Conn = {c1, c2}
    MaxIdentify = 2
    MaxRestarts = 1
    None = None
INVARIANTS
    SentIsWhole
    PeersAreTrusted
    LastCopyWins
PROPERTIES
    FailsWhenCutOff
    ExchangesEnd
CHECK_DEADLOCK FALSE

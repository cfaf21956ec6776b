\* The Resume of an abandoned attempt arrives after a later one succeeded.
CONSTANTS
    None = None
    NoFrame = NoFrame
    Sessions = {s1}
    SteamIds = {a}
    ControlPeers = {p1, p2, p3}
    ConnIds = {c1}
    Addrs = {p1, p2, p3}
    Profiles = {"Udp"}
    FrameIds = {}
    Sizes = {}
    ProbeCaps = {TRUE}
    WindowBits = 1
    RateWindow = 1
    PacketLimit = 1
    ByteRate = 1
    ByteBurst = 1
    ProbeLimit = 1
    MaxRooms = 1
    MaxPeers = 2
    Grace = 2
    ChallengeTtl = 1
    RoomIdle = 1
    MaxTime = 2
    Room = s1
    Player = a
    JoinTimeout = 1
    AttemptTimeout = 1
    RecoveryDeadline = 2
    Backoffs = {1}
    OutboundCapacity = 0
    WireLimit = 1
    MaxRestarts = 0
SPECIFICATION RecoverySpec
CHECK_DEADLOCK FALSE
SYMMETRY Symmetry
INVARIANTS OnlineSeatIsMine

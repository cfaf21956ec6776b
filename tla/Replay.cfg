\* Packets of the game that come while an attempt is under way.
CONSTANTS
    None = None
    NoFrame = NoFrame
    Sessions = {s1}
    SteamIds = {a}
    ControlPeers = {p1, p2, p3}
    ConnIds = {c1, c2}
    Addrs = {p1, p2, p3}
    Profiles = {"Tcp"}
    FrameIds = {}
    Sizes = {}
    ProbeCaps = {TRUE}
    WindowBits = 1
    RateWindow = 1
    PacketLimit = 1
    ByteRate = 1
    ByteBurst = 1
    ProbeLimit = 1
    MaxRooms = 1
    MaxPeers = 2
    Grace = 2
    ChallengeTtl = 1
    RoomIdle = 1
    MaxTime = 2
    Room = s1
    Player = a
    JoinTimeout = 1
    AttemptTimeout = 1
    RecoveryDeadline = 2
    Backoffs = {1}
    OutboundCapacity = 1
    WireLimit = 1
    MaxRestarts = 0
SPECIFICATION RecoverySpec
CHECK_DEADLOCK FALSE
SYMMETRY Symmetry
INVARIANTS NeverReplayed

\* Two broadcasts that overtake each other.
CONSTANTS
    None = None
    NoFrame = NoFrame
    Sweeper = Sweeper
    Udp = Udp
    Sessions = {s1}
    SteamIds = {a, b}
    ControlPeers = {p1, p2}
    ConnIds = {c1, c2}
    Addrs = {}
    Profiles = {"Tcp"}
    FrameIds = {}
    Sizes = {}
    ProbeCaps = {TRUE}
    WindowBits = 1
    RateWindow = 1
    PacketLimit = 1
    ByteRate = 1
    ByteBurst = 1
    ProbeLimit = 1
    MaxRooms = 1
    MaxPeers = 2
    Grace = 1
    ChallengeTtl = 1
    RoomIdle = 1
    MaxTime = 1
    QueueCapacity = 2
SPECIFICATION ServerSpec
SYMMETRY Symmetry
CHECK_DEADLOCK FALSE
INVARIANTS EveryoneToldTheRoom

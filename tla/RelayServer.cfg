\* Overlapping connections of one player with frames of every kind, and two players of
\* one room on the TCP profile (Bounded).
CONSTANTS
    None = None
    NoFrame = NoFrame
    Sweeper = Sweeper
    Udp = Udp
    Sessions = {s1}
    SteamIds = {a, b}
    ControlPeers = {p1, p2}
    ConnIds = {c1, c2}
    Addrs = {u1}
    Profiles = {"Tcp", "Udp"}
    FrameIds = {0}
    Sizes = {1}
    ProbeCaps = {TRUE}
    WindowBits = 1
    RateWindow = 1
    PacketLimit = 1
    ByteRate = 1
    ByteBurst = 1
    ProbeLimit = 1
    MaxRooms = 1
    MaxPeers = 2
    Grace = 1
    ChallengeTtl = 1
    RoomIdle = 1
    MaxTime = 1
    QueueCapacity = 1
SPECIFICATION ServerSpec
CHECK_DEADLOCK FALSE
SYMMETRY Symmetry
INVARIANTS SeatFollowsItsTask
CONSTRAINT Bounded

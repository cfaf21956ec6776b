\* A client that loses its connections, with Relay restarts.  And two LAN
\* players that dial each other, and a second instance of one of them.
CONSTANTS
    None = None
    NoFrame = NoFrame
    Sessions = {s1}
    SteamIds = {a}
    ControlPeers = {p1, p2}
    ConnIds = {c1, c2}
    Addrs = {p1, p2}
    Profiles = {"Tcp", "Udp"}
    FrameIds = {}
    Sizes = {}
    ProbeCaps = {TRUE}
    WindowBits = 1
    RateWindow = 1
    PacketLimit = 1
    ByteRate = 1
    ByteBurst = 1
    ProbeLimit = 1
    MaxRooms = 1
    MaxPeers = 2
    Grace = 1
    ChallengeTtl = 1
    RoomIdle = 1
    MaxTime = 3
    Room = s1
    Player = a
    JoinTimeout = 1
    AttemptTimeout = 1
    RecoveryDeadline = 1
    Backoffs = {1}
    OutboundCapacity = 1
    WireLimit = 1
    MaxRestarts = 1
    Absent = Absent
    Nodes = {1, 2, 3}
    Steam <- Accounts
    Reach <- Open
    Links = {1, 2, 3}
    MaxLanPeers = 4
    MaxFaults = 1
SPECIFICATION ReconnectionSpec
CHECK_DEADLOCK FALSE
SYMMETRY Symmetry
INVARIANTS RecoveryBounded GoneClientLeavesNoSeat PathFollowsLink DialsConverge

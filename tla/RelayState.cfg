\* Every method of the Relay's state: two players, two rooms for one table, data,
\* probes, UDP binding, budgets, detaches, resumes, stops and expiry.
CONSTANTS
    None = None
    NoFrame = NoFrame
    Sessions = {s1, s2}
    SteamIds = {a, b}
    ControlPeers = {p1, p2}
    ConnIds = {c1, c2, c3}
    Addrs = {u1}
    Profiles = {"Udp"}
    FrameIds = {0}
    Sizes = {1}
    ProbeCaps = {TRUE}
    WindowBits = 1
    RateWindow = 1
    PacketLimit = 1
    ByteRate = 2
    ByteBurst = 2
    ProbeLimit = 1
    MaxRooms = 1
    MaxPeers = 1
    Grace = 1
    ChallengeTtl = 1
    RoomIdle = 1
    MaxTime = 2
SPECIFICATION Spec
SYMMETRY Symmetry
CHECK_DEADLOCK FALSE
INVARIANTS RoomsConsistent AtMostOnce
PROPERTIES GraceHonoured

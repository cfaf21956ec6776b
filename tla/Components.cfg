CONSTANTS
    WindowBits = 3
    MaxFrameId = 6
    FrameIds <- Ids
    NoFrame = NoFrame
    RateWindow = 2
    PacketLimit = 2
    ByteRate = 3
    ByteBurst = 4
    ProbeLimit = 1
    Sizes = {1, 4}
    MaxTime = 4
    MaxDataPayload = 2
    MaxControlPayload = 1
    Builds = {0, 1}
    MaxDamage = 2
    Width = 3
    Retired = 1
    LastSeq = 6
    Streams = 3
    MaxAir = 2
    Capacity = 2
    Timeout = 2
    MaxPings = 4
    MaxMoves = 3
    MaxTimeouts = 1
    Room = {r1, r2}
    None = None
    QueueLimit = 2
    MaxAsks = 3
    MaxMail = 1
    Pings = 2
    Samples = 3
    MaxChanges = 3
    Accounts = {1}
    MaxId = 2
    Adapters = {1, 2}
    MaxCandidates = 2
    AttemptTimeout = 1
    TotalTimeout = 3
    Sessions = 2
    Procs = 2
SPECIFICATION PartsSpec
CHECK_DEADLOCK FALSE
INVARIANTS
    WindowIsExact SlidingBound WireAgrees GapsAddUp PingsAddUp
    EveryRelayIsTold ReportIsTrue InvitationLeadsHome SavedIsKept IdleIsClean LoadedOnce LetsGo ViewAgrees SwitchFollowsUser
PROPERTIES WorseNeverLooksBetter GivenBack

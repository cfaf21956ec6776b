\* Two identities and three unread events of the session runtime; two
\* connections, two calls, a ping and a packet between client and hook; three
\* slots of the vtable and two faults while they are patched.
CONSTANTS
    Modes = {"Official", "Fallback"}
    Ids = {"a", "b"}
    MaxCommands = 2
    MaxEvents = 3
    MaxConns = 2
    MaxCalls = 2
    MaxPings = 1
    MaxGame = 1
    Slots = 3
    MaxTrouble = 2
    QueueLimit = 2
    MaxPackets = 5
SPECIFICATION PlaySpec
CHECK_DEADLOCK FALSE
INVARIANTS AttachmentsAreHeld AnswerIsOwn StaleGameDiscarded WholePackets
PROPERTIES FilesGoWithSession RouteLossIsNoticed BothEnd HooksReturn

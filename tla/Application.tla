---------------------------- MODULE Application ----------------------------
(***************************************************************************)
(* The application worker (bridge-application, application.rs and          *)
(* application/commands.rs): one thread that owns the BridgeClient and the *)
(* LAN room, takes commands from a bounded queue, polls the client between *)
(* them and publishes a snapshot.  A front end reads the snapshot, submits *)
(* commands stamped with its generation and drains the events; leaving a   *)
(* room and shutting down go through an atomic control word instead.       *)
(*                                                                         *)
(* A long command is two actions: its beginning publishes the operation,   *)
(* its end applies the result; the front end runs in between.  Command     *)
(* generations are only compared with the current one, so a command keeps  *)
(* whether its stamp is still current: raising the generation clears it.   *)
(***************************************************************************)
EXTENDS Naturals, Sequences

CONSTANTS RelayCodes,   \* join codes of Relay rooms
          LanCodes,     \* join codes of LAN rooms
          Capacity,     \* COMMAND_QUEUE_CAPACITY
          MaxEvents     \* bound on events that nobody has drained

ASSUME ApplicationAssumption ==
    /\ "none" \notin RelayCodes \cup LanCodes /\ RelayCodes \cap LanCodes = {}
    /\ Capacity \in Nat \ {0} /\ MaxEvents \in Nat

VARIABLES snap,     \* ApplicationSnapshot as published
          cl,       \* the worker's BridgeClient
          lan,      \* the worker's lan_room: "none" or its code
          queue,    \* commands in the channel
          flight,   \* the command a submit has stamped and not yet sent, or NoCmd
          events,   \* ApplicationEvents nobody has drained
          control,  \* the atomic control word
          wk        \* the worker thread: pc and the command it executes

appVars == <<snap, cl, lan, queue, flight, events, control, wk>>

Codes == RelayCodes \cup LanCodes
Configuring == {"joinRelay", "rejoin", "createLan", "probe", "joinLan"}
NoCmd == [kind |-> "none", code |-> "none", cur |-> FALSE, left |-> FALSE, cancel |-> FALSE]
\* A command as submit builds it; left and cancel are history: a leave was
\* handled since it was submitted, it was submitted by cancel_launch.
Cmd(k, c) == [NoCmd EXCEPT !.kind = k, !.code = c, !.cur = TRUE]

RoomActive(s) == s.relay # "none" \/ s.lan # "none"

-----------------------------------------------------------------------------
(***************************************************************************)
(* Snapshot updates.                                                       *)
(***************************************************************************)
\* Mutant: set_operation does not raise the generation.
StampKept(m) == m

Stale(m) == [m EXCEPT !.cur = FALSE]
LeftBehind(m) == [m EXCEPT !.left = (m.kind # "none")]

\* Raising command_generation: no command stamped so far is current.
RaiseGeneration ==
    /\ queue' = [i \in DOMAIN queue |-> Stale(queue[i])]
    /\ flight' = Stale(flight)

\* publish_client: runtime state and relay_room_active of client c.
PublishClient(s, c) == [s EXCEPT !.status = c.status, !.phase = c.phase, !.relay = c.relay]

\* publish_lan_room.
PublishLan(s, l) == [s EXCEPT !.lan = l]

\* set_operation(op), whose value differs from the published one at every
\* call, so the generation is raised.
SetOperation(s, c, op) == [PublishClient(s, c) EXCEPT !.op = op]

IsCurrent(m) == snap.boot = "Ready" /\ snap.op = "none" /\ ~snap.done /\ m.cur

Say(e) == events' = Append(events, e)
Fits == Len(events) < MaxEvents     \* bound, not in the code

-----------------------------------------------------------------------------
(***************************************************************************)
(* What the worker sees of BridgeClient (module Session).                  *)
(***************************************************************************)
NoClient == [alive |-> FALSE, status |-> "Idle", phase |-> "NotStarted", relay |-> "none"]

\* poll_events: the launch advances or fails, gameplay or the game ends, the
\* relay room is lost (and with it the session).
PollResults(c) ==
    {c} \cup
    (IF c.status = "Running" /\ c.phase = "Configured"
       THEN {[c EXCEPT !.phase = "Ready"], [c EXCEPT !.phase = "Failed", !.status = "Idle"]} ELSE {})
    \cup (IF c.status = "Running" /\ c.phase = "Ready" THEN {[c EXCEPT !.status = "Idle"]} ELSE {})
    \cup (IF c.phase = "Ready" THEN {[c EXCEPT !.status = "Idle", !.phase = "NotStarted"]} ELSE {})
    \cup (IF c.relay # "none" THEN {[c EXCEPT !.relay = "none", !.status = "Idle"]} ELSE {})

\* start_session of an idle client: a ready hook is used again.
Started(c) == [c EXCEPT !.status = "Running", !.phase = IF @ = "Ready" THEN @ ELSE "Configured"]
StartFailures(c) == {c, [c EXCEPT !.phase = "Failed"]}

\* stop_session: a ready hook stays, a launch in progress is cancelled.
StopSession(c) ==
    [c EXCEPT !.status = "Idle",
              !.phase = IF @ = "Configured" THEN "Cancelled" ELSE @]

LeaveRelay(c) == [c EXCEPT !.relay = "none"]

-----------------------------------------------------------------------------
(***************************************************************************)
(* run_application.                                                        *)
(***************************************************************************)

\* The bootstrap factory returns a client, or fails (logging unavailable).
BootEnds(ok) ==
    /\ wk.pc = "boot"
    /\ RaiseGeneration
    /\ cl' = [NoClient EXCEPT !.alive = ok]
    /\ snap' = [PublishClient(snap, NoClient) EXCEPT !.boot = IF ok THEN "Ready" ELSE "Failed"]
    /\ wk' = [wk EXCEPT !.pc = "top"]
    /\ UNCHANGED <<lan, events, control>>

\* control.swap(CONTROL_NONE): shutdown, leave, or nothing to do.
TakeShutdown ==
    /\ wk.pc = "top" /\ control = "shutdown"
    /\ control' = "none"
    /\ snap' = [snap EXCEPT !.op = "ShuttingDown"]
    /\ wk' = [wk EXCEPT !.pc = "stopping"]
    /\ UNCHANGED <<cl, lan, queue, flight, events>>

TakeLeave ==
    /\ wk.pc = "top" /\ control = "leave" /\ cl.alive
    /\ control' = "none"
    /\ snap' = SetOperation(snap, cl, "LeavingRoom")
    /\ queue' = [i \in DOMAIN queue |-> LeftBehind(Stale(queue[i]))]
    /\ flight' = LeftBehind(Stale(flight))
    /\ wk' = [wk EXCEPT !.pc = "leaving"]
    /\ UNCHANGED <<cl, lan, events>>

\* client.shutdown(), then the final snapshot; the event follows it.
ShutdownEnds ==
    /\ wk.pc = "stopping"
    /\ cl' = LeaveRelay(StopSession(cl))
    /\ snap' = [PublishClient(snap, cl') EXCEPT !.op = "none", !.done = TRUE]
    /\ wk' = [wk EXCEPT !.pc = "bye"]
    /\ UNCHANGED <<lan, queue, flight, events, control>>

SayShutdown ==
    /\ wk.pc = "bye" /\ Say([kind |-> "ShutdownComplete", ok |-> TRUE, code |-> "none"])
    /\ wk' = [wk EXCEPT !.pc = "done"]
    /\ UNCHANGED <<snap, cl, lan, queue, flight, control>>

LeaveEnds ==
    /\ wk.pc = "leaving" /\ Fits
    /\ cl' = LeaveRelay(StopSession(cl))
    /\ lan' = "none"
    /\ snap' = SetOperation(PublishLan(snap, "none"), cl', "none")
    /\ RaiseGeneration
    /\ Say([kind |-> "RoomLeft", ok |-> TRUE, code |-> "none"])
    /\ wk' = [wk EXCEPT !.pc = "poll"]
    /\ UNCHANGED control

\* Nothing to do (or a leave without a client): poll_events and
\* publish_lan_room.
Poll ==
    /\ \/ wk.pc = "poll" /\ UNCHANGED control
       \/ /\ wk.pc = "top" /\ (control = "none" \/ (control = "leave" /\ ~cl.alive))
          /\ control' = "none"
    /\ IF cl.alive
         THEN /\ cl' \in PollResults(cl)
              /\ snap' = PublishLan(PublishClient(snap, cl'), lan)
         ELSE UNCHANGED <<cl, snap>>
    /\ wk' = [wk EXCEPT !.pc = "recv"]
    /\ UNCHANGED <<lan, queue, flight, events>>

RecvTimeout ==
    /\ wk.pc = "recv" /\ queue = <<>>
    /\ wk' = [wk EXCEPT !.pc = "top"]
    /\ UNCHANGED <<snap, cl, lan, queue, flight, events, control>>

-----------------------------------------------------------------------------
(***************************************************************************)
(* handle_command, from the head of the queue.                             *)
(***************************************************************************)
Next1 == Head(queue)
Rejected == [kind |-> "CommandRejected", ok |-> FALSE, code |-> "none"]

\* relay_catalog_change_allowed
CatalogChangeAllowed == cl.status = "Idle" /\ cl.relay = "none" /\ lan = "none"

\* The command is refused: no client, a stale generation, a start while
\* gameplay runs, or a catalog change inside a room.
Refused(m) ==
    /\ m.kind # "retry"
    /\ ~(m.kind = "openLog" /\ ~cl.alive)
    /\ \/ ~cl.alive \/ ~IsCurrent(m)
       \/ m.kind = "start" /\ cl.status # "Idle"
       \/ m.kind = "catalog" /\ ~CatalogChangeAllowed

RejectCommand ==
    /\ wk.pc = "recv" /\ queue # <<>> /\ Refused(Next1) /\ Fits
    /\ queue' = Tail(queue)
    /\ Say(Rejected)
    /\ wk' = [wk EXCEPT !.pc = "top"]
    /\ UNCHANGED <<snap, cl, lan, flight, control>>

\* RetryBootstrap starts over when there is no client.
RetryBootstrap ==
    /\ wk.pc = "recv" /\ queue # <<>> /\ Next1.kind = "retry"
    /\ IF cl.alive
         THEN /\ queue' = Tail(queue) /\ wk' = [wk EXCEPT !.pc = "top"]
              /\ UNCHANGED <<snap, flight>>
         ELSE /\ queue' = [i \in 1..(Len(queue) - 1) |-> Stale(queue[i + 1])]
              /\ flight' = Stale(flight)
              /\ snap' = [snap EXCEPT !.boot = "Initializing"]
              /\ wk' = [wk EXCEPT !.pc = "boot"]
    /\ UNCHANGED <<cl, lan, events, control>>

\* Opening the log directory is the one command of a failed bootstrap.
OpenLogWithoutClient ==
    /\ wk.pc = "recv" /\ queue # <<>> /\ Next1.kind = "openLog" /\ ~cl.alive /\ Fits
    /\ queue' = Tail(queue)
    /\ Say(IF snap.boot = "Failed" /\ snap.op = "none" /\ ~snap.done /\ Next1.cur
             THEN [kind |-> "LogDirectoryOpened", ok |-> TRUE, code |-> "none"] ELSE Rejected)
    /\ wk' = [wk EXCEPT !.pc = "top"]
    /\ UNCHANGED <<snap, cl, lan, flight, control>>

\* ClearLogs has no operation and no event.
ClearLogs ==
    /\ wk.pc = "recv" /\ queue # <<>> /\ Next1.kind = "clear" /\ ~Refused(Next1)
    /\ queue' = Tail(queue)
    /\ snap' = PublishClient(snap, cl)
    /\ wk' = [wk EXCEPT !.pc = "top"]
    /\ UNCHANGED <<cl, lan, flight, events, control>>

\* A current command begins: its operation is published.
BeginCommand ==
    /\ wk.pc = "recv" /\ queue # <<>>
    /\ Next1.kind \notin {"retry", "clear"} /\ ~Refused(Next1) /\ cl.alive
    /\ queue' = [i \in 1..(Len(queue) - 1) |-> Stale(queue[i + 1])]
    /\ flight' = Stale(flight)
    /\ snap' = SetOperation(snap, cl,
                   IF Next1.kind \in Configuring THEN "ConfiguringRoom" ELSE Next1.kind)
    /\ wk' = [pc |-> "run", cmd |-> Next1]
    /\ UNCHANGED <<cl, lan, events, control>>

\* Every arm ends alike: operation None, then its event.
Finish(c, l, e) ==
    /\ wk.pc = "run" /\ Fits
    /\ cl' = c /\ lan' = l
    /\ snap' = SetOperation(PublishLan(snap, l), c, "none")
    /\ RaiseGeneration
    /\ Say(e)
    /\ wk' = [pc |-> "top", cmd |-> NoCmd]
    /\ UNCHANGED control

Event(k, ok) == [kind |-> k, ok |-> ok, code |-> wk.cmd.code]

Start ==
    /\ wk.cmd.kind = "start"
    /\ \/ Finish(Started(cl), lan, Event("StartFinished", TRUE))
       \/ \E c \in StartFailures(cl) : Finish(c, lan, Event("StartFinished", FALSE))

Stop ==
    /\ wk.cmd.kind = "stop"
    /\ Finish(StopSession(cl), lan, Event("SessionStopped", TRUE))

\* The old relay room is left first; the LAN room only after success.
JoinRelayRoom ==
    /\ wk.cmd.kind = "joinRelay"
    /\ \/ Finish([cl EXCEPT !.relay = wk.cmd.code], "none", Event("RelayRoomJoined", TRUE))
       \/ Finish(LeaveRelay(cl), lan, Event("RelayRoomJoined", FALSE))

\* rejoin_relay_room: the same room under another identity.  It is refused
\* during a launch, and fails with or without the room joined.
RejoinRelayRoom ==
    /\ wk.cmd.kind = "rejoin"
    /\ \/ /\ ~(cl.status = "Running" /\ cl.phase # "Ready")
          /\ \/ Finish([cl EXCEPT !.relay = wk.cmd.code], "none", Event("RelayRoomJoined", TRUE))
             \/ /\ cl.phase = "Ready"    \* the game runs under another identity
                /\ Finish([cl EXCEPT !.relay = wk.cmd.code, !.status = "Idle"], lan,
                          Event("RelayRoomJoined", FALSE))
             \/ Finish([LeaveRelay(cl) EXCEPT !.status = "Idle"], lan,
                       Event("RelayRoomJoined", FALSE))
       \/ Finish(cl, lan, Event("RelayRoomJoined", FALSE))

CreateLanRoom ==
    /\ wk.cmd.kind = "createLan"
    /\ \/ Finish(LeaveRelay(cl), wk.cmd.code, Event("LanRoomCreated", TRUE))
       \/ Finish(cl, lan, Event("LanRoomCreated", FALSE))

\* LanRoomHandle::probe finds no endpoint, one, or several (or fails).
ProbeLanJoin ==
    /\ wk.cmd.kind = "probe"
    /\ \E k \in {"ProbeNone", "ProbeOne", "ProbeMany"} : Finish(cl, lan, Event(k, k # "ProbeNone"))

JoinLanRoom ==
    /\ wk.cmd.kind = "joinLan"
    /\ \/ Finish(LeaveRelay(cl), wk.cmd.code, Event("LanRoomJoined", TRUE))
       \/ Finish(cl, lan, Event("LanRoomJoined", FALSE))

\* Accounts, probes, input delay, logs, diagnostics, clipboard, adapters,
\* relay catalog and preferences: the operation is shown, the result is an
\* event, rooms and session are left alone.
OtherCommand ==
    /\ wk.cmd.kind \in {"catalog", "openLog", "other"}
    /\ \E ok \in BOOLEAN : Finish(cl, lan, Event("Other", ok))

-----------------------------------------------------------------------------
(***************************************************************************)
(* ApplicationHandle: submit reads the generation, then sends.             *)
(***************************************************************************)
Stamp(m) ==
    /\ flight = NoCmd
    /\ flight' = m

CanSend == Len(queue) < Capacity /\ wk.pc # "done"

\* Mutant: leave_room stores its word.
RequestLeaveStores == control' = "leave"

\* leave_room: fetch_max, never below a pending shutdown.
RequestLeave == control' = IF control = "none" THEN "leave" ELSE control
RequestShutdown == control' = "shutdown"

NoSnapshot == [boot |-> "Initializing", op |-> "none", done |-> FALSE, status |-> "Idle",
               phase |-> "NotStarted", relay |-> "none", lan |-> "none"]

AppInit ==
    /\ snap = NoSnapshot
    /\ cl = NoClient /\ lan = "none" /\ queue = <<>> /\ flight = NoCmd
    /\ events = <<>> /\ control = "none" /\ wk = [pc |-> "boot", cmd |-> NoCmd]

Worker ==
    \/ \E ok \in BOOLEAN : BootEnds(ok)
    \/ TakeShutdown \/ TakeLeave \/ ShutdownEnds \/ SayShutdown \/ LeaveEnds
    \/ Poll \/ RecvTimeout \/ RejectCommand \/ RetryBootstrap \/ OpenLogWithoutClient
    \/ ClearLogs \/ BeginCommand \/ Start \/ Stop \/ JoinRelayRoom \/ RejoinRelayRoom \/ CreateLanRoom
    \/ ProbeLanJoin \/ JoinLanRoom \/ OtherCommand
=============================================================================

------------------------------ MODULE Session ------------------------------
(***************************************************************************)
(* The runtime of one Bridge Client: the BridgeClient object that the      *)
(* application thread drives (client/runtime.rs, runtime/maintenance.rs),  *)
(* the session supervisor task with its gameplay route                     *)
(* (client/session.rs, session/supervisor.rs), and the two slots through   *)
(* which a route is attached to the Native Hook and to a Relay room.       *)
(*                                                                         *)
(* The client thread blocks inside stop_session, start_session and         *)
(* rejoin_relay_room while the supervisor works, so each of these is an    *)
(* action that starts it (client.pc leaves "idle") and actions that end    *)
(* it.  Events go through a forwarder task: a poll sees any prefix of      *)
(* what has been sent.                                                     *)
(***************************************************************************)
EXTENDS Naturals, Sequences, FiniteSets, SequencesExt

CONSTANTS Modes,        \* SessionMode: "Official" and modes with a Native Hook
          Ids,          \* Steam identities
          MaxCommands,  \* bound on unread session commands
          MaxEvents     \* bound on unread runtime events


VARIABLES client,   \* BridgeClient: state, session handle, relay room, call in progress
          sup,      \* the supervisor task of the latest session
          route,    \* RuntimeTasks.route: NoRoute or the generations it holds
          cmds,     \* the unbounded channel of SessionCommand
          reply,    \* answer to the command the client waits for
          behind,   \* the room's generation in an unread command of an earlier session
          evs,      \* runtime events the client has not polled
          slots     \* HookOutboundSlot and RelayInboundSlot: 0 or a generation

sessionVars == <<client, sup, route, cmds, reply, behind, evs, slots>>

Phases  == {"NotStarted", "Configured", "Waiting", "Ready", "Failed", "Cancelled"}
\* Events that are not about the launch: Stopped, GameplayStopped, GameExited
\* and RecoveryExhausted of the relay room.
Reports == {"stopped", "detached", "exited", "lost"}
NoRoute == [hook |-> 0, relay |-> 0]

\* The names the model gives to "nothing" and to the events are no identity
\* and no mode.
ASSUME SessionAssumption ==
    /\ "none" \notin Modes /\ Ids \cap ({"none"} \cup Phases \cup Reports) = {}
    /\ MaxCommands \in Nat /\ MaxEvents \in Nat

Persistent(c) == c.session # "none" /\ c.session # "Official"

(***************************************************************************)
(* BridgeClient state transformers.                                        *)
(***************************************************************************)

\* refresh_steam_identity_mismatch: both identities known and different.
Mismatch(c) == c.room # "none" /\ c.game # "none" /\ c.room # c.game

\* finish_game_exit: forget the hook of the game that ended.
FinishGameExit(c) ==
    [c EXCEPT !.status = "Idle", !.phase = "NotStarted", !.game = "none", !.resume = FALSE]

\* leave_relay_room: the room handle and everything derived from it go.
LeaveRelay(c) == [c EXCEPT !.joined = FALSE, !.room = "none", !.resume = FALSE]

\* Mutant: the launch files are left behind.
KeepLaunchFiles(c) == c

\* cleanup_hook_launch_parameters removes the launch files whose path is kept;
\* files whose path a later start has cleared stay ("forgotten").
CleanupLaunch(c) == [c EXCEPT !.params = IF @ = "written" THEN "none" ELSE @]

\* What the arms for HookStartup and HookIpc leave: the latest phase, and the
\* identity of the latest game whose hook was ready.
PhaseSeen(p, e) == IF e \in Phases THEN e ELSE IF e \in Reports THEN p ELSE "Ready"
GameSeen(g, e)  == IF e \in Phases \cup Reports THEN g ELSE e

PhaseAfter(c, s) == FoldLeft(PhaseSeen, c.phase, s)
GameAfter(c, s)  == FoldLeft(GameSeen, c.game, s)

\* The end of an event loop: finish_game_exit runs once after the loop.  (A
\* GameExited reason takes precedence over every other last_stop_reason, so
\* its test of the reason always holds here.)
AfterEvents(c, s) == IF Contains(s, "exited") THEN FinishGameExit(c) ELSE c

\* apply_stopped_session_events: the events s after the worker is joined,
\* where GameplayStopped, Stopped and the room's events are ignored.
Stopped(c, s) ==
    AfterEvents([c EXCEPT !.phase = PhaseAfter(c, s), !.game = GameAfter(c, s)], s)

\* The event match of poll_events, where they also end gameplay.
Polled(c, s) ==
    LET over == Contains(s, "stopped") \/ Contains(s, "detached")
    IN  Stopped([c EXCEPT !.status = IF over THEN "Idle" ELSE @], s)

\* should_clear: a Stopped event drops the handle and the launch files.
Cleared(c, s) ==
    IF Contains(s, "stopped") THEN CleanupLaunch([c EXCEPT !.session = "none"]) ELSE c

\* stop_session_runtime and the second half of stop_session, once the worker
\* thread is joined: the rest of its events is applied, files are removed.
Joined(c) ==
    LET d == CleanupLaunch(Stopped(c, evs))
    IN  [d EXCEPT !.session = "none", !.status = "Idle"]

\* Events of the relay room ("lost", at most one unread) travel in a channel
\* of their own: they outlive the session, and go when the room is left.
RoomEvents(s)    == IF Contains(s, "lost") THEN <<"lost">> ELSE <<>>
SessionEvents(s) == RemoveFirst(s, "lost")

(***************************************************************************)
(* Slots: attach refuses an occupied slot, detach clears only its own      *)
(* generation (Drop of HookOutboundAttachment and RelayRoomDataPlane).     *)
(* Generations are only compared for equality: next_generation is the      *)
(* smallest number that nobody holds any more.                             *)
(***************************************************************************)
Unread  == {cmds[i].plane : i \in DOMAIN cmds} \ {0}
Held(s) == IF s = "hook" THEN {route.hook} ELSE {route.relay, sup.plane, behind} \cup Unread

CanAttach(s) == slots[s] = 0

NextGeneration(s) ==
    CHOOSE g \in 1..(Len(cmds) + 4) :
        /\ g \notin Held(s)
        /\ \A h \in 1..(g - 1) : h \in Held(s)

Detach(sl, s, g) == IF g # 0 /\ sl[s] = g THEN [sl EXCEPT ![s] = 0] ELSE sl

DropRoute(sl, r) == Detach(Detach(sl, "hook", r.hook), "relay", r.relay)

\* Mutant: unread commands are forgotten without dropping their planes.
ForgetCommands(sl, q) == sl

\* Dropping unread commands drops the data planes they carry.
DropCommands(sl, q) ==
    IF \E i \in DOMAIN q : q[i].plane = sl["relay"] THEN [sl EXCEPT !["relay"] = 0] ELSE sl

\* Bound: the environment leaves room for the two closing events, so the
\* bound never keeps a supervisor from ending.
Room(n) == Len(evs) + n + 2 <= MaxEvents

-----------------------------------------------------------------------------
(***************************************************************************)
(* The supervisor task (supervise_session).                                *)
(***************************************************************************)

\* A supervisor that has sent Stopped: its tasks are joined, nothing but the
\* command channel is left of it.
Ended == [pc |-> "ended", cancelled |-> TRUE, mode |-> "none", plane |-> 0, hook |-> "over"]

\* start_runtime_tasks succeeds: support tasks run and, outside Official
\* mode, a route holds the hook slot and the data plane it was given.
SupStart ==
    /\ sup.pc = "starting" /\ ~sup.cancelled
    /\ sup' = [sup EXCEPT !.pc = "running", !.plane = 0]
    /\ IF sup.mode = "Official"
         THEN UNCHANGED <<route, slots>>
         ELSE /\ slots["hook"] = 0
              /\ route' = [hook |-> NextGeneration("hook"), relay |-> sup.plane]
              /\ slots' = [slots EXCEPT !["hook"] = NextGeneration("hook")]
    /\ UNCHANGED <<client, cmds, reply, behind, evs>>

\* start_runtime_tasks fails or is cancelled: the error is reported, the
\* data plane handed to the session is dropped.
SupStartFails ==
    /\ sup.pc = "starting" /\ (sup.mode # "Official" \/ sup.cancelled)
    /\ sup' = Ended
    /\ slots' = Detach(slots, "relay", sup.plane)
    /\ evs' = evs \o <<"Failed", "stopped">>
    /\ UNCHANGED <<client, route, cmds, reply, behind>>

\* A support task (process lifecycle, IPC worker) reports progress of the
\* launch: a phase, or that the hook is ready in a game of identity i.
HookProgress(e) ==
    /\ sup.pc \in {"starting", "running"} /\ sup.mode # "Official"
    /\ ~sup.cancelled /\ Room(1)
    /\ sup.hook # "over"
    /\ \/ e = "Waiting" /\ sup.hook = "none" /\ sup' = [sup EXCEPT !.hook = "waiting"]
       \/ e \in Ids /\ sup.hook = "waiting" /\ sup' = [sup EXCEPT !.hook = "ready"]
       \/ e = "Failed" /\ sup' = [sup EXCEPT !.hook = "over"]
    /\ evs' = Append(evs, e)
    /\ UNCHANGED <<client, route, cmds, reply, behind, slots>>

\* StartGameplay: a second route is refused, otherwise start_route_tasks
\* attaches the hook slot; every failure drops the data plane.
SupStartGameplay ==
    /\ sup.pc = "running" /\ cmds # <<>> /\ Head(cmds).kind = "start"
    /\ LET m == Head(cmds) IN
       /\ cmds' = Tail(cmds)
       /\ \/ /\ route = NoRoute /\ CanAttach("hook")
             /\ route' = [hook |-> NextGeneration("hook"), relay |-> m.plane]
             /\ slots' = [slots EXCEPT !["hook"] = NextGeneration("hook")]
             /\ reply' = IF m.open THEN "ok" ELSE reply
          \/ /\ slots' = Detach(slots, "relay", m.plane)
             /\ reply' = IF m.open THEN "err" ELSE reply
             /\ UNCHANGED route
    /\ UNCHANGED <<client, sup, behind, evs>>

\* StopGameplay: the route is cancelled, its tasks joined, its slots freed.
SupStopGameplay ==
    /\ sup.pc = "running" /\ cmds # <<>> /\ Head(cmds).kind = "stop"
    /\ cmds' = Tail(cmds)
    /\ route' = NoRoute
    /\ slots' = DropRoute(slots, route)
    /\ reply' = IF Head(cmds).open THEN "ok" ELSE reply
    /\ UNCHANGED <<client, sup, behind, evs>>

\* Mutant: the exit of the route is not reported.
RouteExitsSilently ==
    /\ sup.pc = "running" /\ route # NoRoute /\ Room(1)
    /\ route' = NoRoute
    /\ slots' = DropRoute(slots, route)
    /\ UNCHANGED <<client, sup, cmds, reply, behind, evs>>

\* A route task exits on its own: the route is taken down, SessionEnded and
\* GameplayStopped follow; the Native Hook stays.
RouteExits ==
    /\ sup.pc = "running" /\ route # NoRoute /\ Room(1)
    /\ route' = NoRoute
    /\ slots' = DropRoute(slots, route)
    /\ evs' = evs \o <<"detached">>
    /\ UNCHANGED <<client, sup, cmds, reply, behind>>

\* A support task exits (the game ended, IPC lost): the loop breaks.  The
\* process lifecycle reports GameExited before it returns.
SupportExits ==
    /\ sup.pc = "running" /\ ~sup.cancelled /\ Room(1)
    /\ \E new \in {<<"exited">>, <<>>} : evs' = evs \o new
    /\ sup' = [sup EXCEPT !.pc = "stopping", !.cancelled = TRUE]
    /\ UNCHANGED <<client, route, cmds, reply, behind, slots>>

SupCancelled ==
    /\ sup.pc = "running" /\ sup.cancelled
    /\ sup' = [sup EXCEPT !.pc = "stopping"]
    /\ UNCHANGED <<client, route, cmds, reply, behind, evs, slots>>

\* After the loop: the route and support tasks are shut down and Stopped is
\* the last event.  The command channel is still open.  A cancelled launch
\* reports its phase while the support tasks drain.
SupFinish ==
    /\ sup.pc = "stopping"
    /\ sup' = Ended
    /\ route' = NoRoute
    /\ slots' = DropRoute(slots, route)
    /\ evs' = evs \o (IF sup.mode # "Official" /\ sup.hook \in {"none", "waiting"}
                        THEN <<"Cancelled", "stopped">> ELSE <<"stopped">>)
    /\ UNCHANGED <<client, cmds, reply, behind>>

\* The forwarder is awaited and supervise_session returns: the command channel
\* closes with what is still in it, and the worker thread ends.
SupReturns ==
    /\ sup.pc = "ended"
    /\ sup' = [sup EXCEPT !.pc = "stopped"]
    /\ slots' = DropCommands(slots, cmds)
    /\ cmds' = <<>>
    /\ reply' = IF \E i \in DOMAIN cmds : cmds[i].open THEN "err" ELSE reply
    /\ UNCHANGED <<client, route, behind, evs>>

\* Nobody joins the worker of a session whose Stopped event was polled.  When
\* it returns after a new session has begun, its commands go all the same.
OldSupReturns ==
    /\ behind # 0
    /\ behind' = 0
    /\ slots' = Detach(slots, "relay", behind)
    /\ UNCHANGED <<client, sup, route, cmds, reply, evs>>

\* The relay room's own task reports RecoveryExhausted.
RoomLost ==
    /\ client.joined /\ Room(1) /\ ~ \E i \in 1..Len(evs) : evs[i] = "lost"
    /\ evs' = Append(evs, "lost")
    /\ UNCHANGED <<client, sup, route, cmds, reply, behind, slots>>

-----------------------------------------------------------------------------
(***************************************************************************)
(* stop_session, and what its callers do after it (client.then).           *)
(***************************************************************************)

\* What the caller of stop_session does once it returns.  (After a shutdown
\* the BridgeClient is dropped, which removes the files it knows of.)
Then(c) ==
    CASE c.then = "leave"    -> [LeaveRelay(c) EXCEPT !.pc = "idle", !.then = "none"]
      [] c.then = "lost"     -> [c EXCEPT !.joined = FALSE, !.pc = "idle", !.then = "none"]
      [] c.then = "shutdown" -> [CleanupLaunch(LeaveRelay(c)) EXCEPT !.pc = "done", !.then = "none"]
      [] c.then = "rejoin"   -> [c EXCEPT !.pc = "rejoin", !.then = "none"]
      [] c.then = "start"    -> [c EXCEPT !.pc = "start", !.then = "none"]
      [] OTHER               -> [c EXCEPT !.pc = "idle"]

\* The relay room handle is dropped together with its slot.
SlotsAfter(c, sl) == IF ~c.joined THEN [sl EXCEPT !["relay"] = 0] ELSE sl

\* A data plane of a room that was left detaches nothing.
StillBehind == IF slots'["relay"] = 0 THEN 0 ELSE behind

\* stop_session(c): a ready persistent hook is only detached from gameplay;
\* any other session is cancelled and its worker joined; without a session
\* only the status changes.
BeginStop(c) ==
    IF c.phase = "Ready" /\ Persistent(c) /\ c.then # "shutdown"
      THEN IF sup.pc = "stopped"
             THEN /\ client' = [c EXCEPT !.pc = "detach"]
                  /\ reply' = "err"
                  /\ UNCHANGED <<sup, cmds, slots>>
             ELSE /\ client' = [c EXCEPT !.pc = "detach"]
                  /\ cmds' = Append(cmds, [kind |-> "stop", plane |-> 0, open |-> TRUE])
                  /\ reply' = "none"
                  /\ UNCHANGED <<sup, slots>>
      ELSE IF c.session # "none"
             THEN /\ client' = [c EXCEPT !.pc = "join"]
                  /\ sup' = [sup EXCEPT !.cancelled = TRUE]
                  /\ UNCHANGED <<cmds, reply, slots>>
             ELSE /\ client' = Then([c EXCEPT !.status = "Idle"])
                  /\ slots' = SlotsAfter(client', slots)
                  /\ UNCHANGED <<sup, cmds, reply>>

\* stop_gameplay answered: events are polled once, then gameplay is Idle.
\* A Stopped event of that poll clears the handle.
DetachDone ==
    /\ client.pc = "detach" /\ reply = "ok"
    /\ \E n \in 0..Len(evs) :
         LET seen == SubSeq(evs, 1, n)
             d == Cleared(Polled(client, seen), seen)
             e == Then([d EXCEPT !.status = "Idle",
                                 !.resume = @ \/ (d.status = "Running" /\ Mismatch(d))])
         IN  /\ client' = IF Contains(seen, "lost") /\ e.pc = "idle"
                            THEN [e EXCEPT !.joined = FALSE] ELSE e
             /\ slots' = SlotsAfter(client', slots)
             /\ evs' = SubSeq(evs, n + 1, Len(evs))
    /\ reply' = "none"
    /\ behind' = StillBehind
    /\ UNCHANGED <<sup, route, cmds>>

\* stop_gameplay fails or times out (the command may still be queued): the
\* whole session is stopped instead.
DetachFails ==
    /\ client.pc = "detach" /\ reply # "ok"
    /\ client' = [client EXCEPT !.pc = "join"]
    /\ sup' = [sup EXCEPT !.cancelled = TRUE]
    /\ cmds' = [i \in DOMAIN cmds |-> [cmds[i] EXCEPT !.open = FALSE]]
    /\ reply' = "none"
    /\ UNCHANGED <<route, behind, evs, slots>>

\* handle.stop() returns: the worker thread has ended.
WorkerJoined ==
    /\ client.pc = "join" /\ sup.pc = "stopped"
    /\ client' = Then(Joined(client))
    /\ evs' = RoomEvents(evs)
    /\ slots' = SlotsAfter(client', slots)
    /\ behind' = StillBehind
    /\ UNCHANGED <<sup, route, cmds, reply>>

-----------------------------------------------------------------------------
(***************************************************************************)
(* The calls of the application thread.                                    *)
(***************************************************************************)

\* poll_events, with the steps after its loop: an identity mismatch detaches
\* gameplay, Stopped drops the handle, an exhausted room stops the session.
PollEvents ==
    /\ client.pc = "idle" /\ evs # <<>>
    /\ \E n \in 1..Len(evs) :
         LET seen == SubSeq(evs, 1, n)
             lost == Contains(seen, "lost")
             d == Cleared(Polled(client, seen), seen)
             bad == d.status = "Running" /\ ~d.resume /\ Mismatch(d)
             r == [d EXCEPT !.resume = @ \/ bad]
         IN  /\ evs' = SubSeq(evs, n + 1, Len(evs))
             /\ IF lost /\ r.session # "none" THEN BeginStop([r EXCEPT !.then = "lost"])
                ELSE IF bad THEN BeginStop(r)
                ELSE /\ client' = IF lost THEN [r EXCEPT !.joined = FALSE] ELSE r
                     /\ slots' = SlotsAfter(client', slots)
                     /\ UNCHANGED <<sup, cmds, reply>>
    /\ behind' = StillBehind
    /\ UNCHANGED route

\* start_session with a live persistent session: the hook must be ready,
\* gameplay idle and the mode the same; the room is attached and the
\* supervisor asked to start a route.
ReuseSession(c, m) ==
    IF c.phase = "Ready" /\ c.status = "Idle" /\ c.session = m
       /\ (c.joined => CanAttach("relay"))
      THEN LET g == IF c.joined THEN NextGeneration("relay") ELSE 0
               closed == sup.pc = "stopped"
           IN  /\ client' = [c EXCEPT !.pc = "attach"]
               /\ slots' = IF g = 0 \/ closed THEN slots ELSE [slots EXCEPT !["relay"] = g]
               /\ cmds' = IF closed THEN cmds
                          ELSE Append(cmds, [kind |-> "start", plane |-> g, open |-> TRUE])
               /\ reply' = IF closed THEN "err" ELSE "none"
               /\ UNCHANGED sup
      ELSE client' = [c EXCEPT !.pc = "idle"] /\ UNCHANGED <<sup, cmds, reply, slots>>

\* start_session without one, after stop_session.  It clears the path of
\* earlier launch files, then for a hook session: preflight (Isaac already
\* running, no artifacts, IPC bind, parameter write), the launch files, and
\* the room's data plane, whose refusal returns with the files in place.  A
\* failed launch of Steam removes them.  Otherwise the supervisor is spawned;
\* commands that an ended supervisor has not dropped stay behind with it.
FreshSession(c, m) ==
    LET hook   == m # "Official"
        attach == hook /\ c.joined
        g      == IF attach THEN NextGeneration("relay") ELSE 0
        old    == IF c.params = "none" THEN "none" ELSE "forgotten"
        ready  == [c EXCEPT !.pc = "idle", !.game = "none",
                            !.phase = IF hook THEN "Configured" ELSE "NotStarted",
                            !.params = IF hook THEN "written" ELSE old]
    IN  \/ /\ hook
           /\ client' = [ready EXCEPT !.phase = "Failed", !.params = old]
           /\ UNCHANGED <<sup, cmds, reply, behind, slots>>
        \/ /\ attach /\ ~CanAttach("relay")
           /\ client' = ready
           /\ UNCHANGED <<sup, cmds, reply, behind, slots>>
        \/ /\ attach => CanAttach("relay")
           /\ client' = CleanupLaunch(ready)
           /\ UNCHANGED <<sup, cmds, reply, behind, slots>>
        \/ /\ attach => CanAttach("relay")
           /\ client' = [ready EXCEPT !.session = m, !.status = "Running", !.resume = FALSE]
           /\ sup' = [pc |-> "starting", cancelled |-> FALSE, mode |-> m,
                      plane |-> g, hook |-> "none"]
           /\ slots' = [slots EXCEPT !["hook"] = 0, !["relay"] = IF attach THEN g ELSE @]
           /\ behind' = IF slots["relay"] \in Unread THEN slots["relay"] ELSE behind
           /\ cmds' = <<>>
           /\ UNCHANGED reply

\* start_session called for gameplay mode m by the application (only when
\* the status is Idle) or by rejoin_relay_room.
StartSession(m) ==
    /\ client.pc = "idle" /\ client.status = "Idle" /\ Len(cmds) < MaxCommands
    /\ IF Persistent(client)
         THEN ReuseSession(client, m)
         ELSE BeginStop([client EXCEPT !.then = "start", !.want = m])
    /\ behind' = StillBehind
    /\ UNCHANGED <<route, evs>>

StartAfterStop ==
    /\ client.pc = "start"
    /\ FreshSession([client EXCEPT !.want = "none"], client.want)
    /\ UNCHANGED <<route, evs>>

\* start_gameplay's answer, or its timeout with the command still queued.
AttachDone ==
    /\ client.pc = "attach" /\ reply = "ok"
    /\ client' = [client EXCEPT !.pc = "idle", !.status = "Running", !.resume = FALSE]
    /\ reply' = "none"
    /\ UNCHANGED <<sup, route, cmds, behind, evs, slots>>

AttachFails ==
    /\ client.pc = "attach" /\ reply # "ok"
    /\ client' = [client EXCEPT !.pc = "idle"]
    /\ cmds' = [i \in DOMAIN cmds |-> [cmds[i] EXCEPT !.open = FALSE]]
    /\ reply' = "none"
    /\ UNCHANGED <<sup, route, behind, evs, slots>>

StopSession ==
    /\ client.pc = "idle" /\ Len(cmds) < MaxCommands
    /\ BeginStop(client)
    /\ behind' = StillBehind
    /\ UNCHANGED <<route, evs>>

\* Leave Room: stop_session then leave_relay_room.
LeaveRoom ==
    /\ client.pc = "idle" /\ Len(cmds) < MaxCommands
    /\ BeginStop([client EXCEPT !.then = "leave"])
    /\ behind' = StillBehind
    /\ UNCHANGED <<route, evs>>

\* join_relay_room: the old room is left before the new one is entered, so a
\* failed join leaves the client without a room.
JoinRelayRoom(i) ==
    /\ client.pc = "idle"
    /\ \E ok \in BOOLEAN :
         client' = IF ok THEN [LeaveRelay(client) EXCEPT !.joined = TRUE, !.room = i]
                   ELSE LeaveRelay(client)
    /\ slots' = [slots EXCEPT !["relay"] = 0]
    /\ evs' = SessionEvents(evs)
    /\ behind' = StillBehind
    /\ UNCHANGED <<sup, route, cmds, reply>>

\* rejoin_relay_room with the game's identity i: refused while a launch is in
\* progress, otherwise stop, join, and start again if gameplay was running.
RejoinRelayRoom(i) ==
    /\ client.pc = "idle" /\ client.joined /\ Len(cmds) < MaxCommands
    /\ client.status = "Running" => client.phase = "Ready"
    /\ LET c == [client EXCEPT !.want = client.session, !.id = i,
                               !.again = (client.status = "Running" \/ client.resume)]
       IN  IF client.status = "Running"
             THEN BeginStop([c EXCEPT !.then = "rejoin"])
             ELSE client' = [c EXCEPT !.pc = "rejoin"] /\ UNCHANGED <<sup, cmds, reply, slots>>
    /\ behind' = StillBehind
    /\ UNCHANGED <<route, evs>>

\* The second half: leave, join, compare identities, resume gameplay.
RejoinJoins ==
    /\ client.pc = "rejoin"
    /\ LET c == [client EXCEPT !.id = "none", !.again = FALSE, !.want = "none"]
           clean == [slots EXCEPT !["relay"] = 0]
           joined == [LeaveRelay(c) EXCEPT !.joined = TRUE, !.room = client.id,
                                             !.resume = client.again]
           again == client.again /\ ~Mismatch(joined)
       IN  \/ /\ client' = [LeaveRelay(c) EXCEPT !.resume = client.again, !.pc = "idle"]
              /\ slots' = clean
           \/ /\ client' = IF ~again
                             THEN [joined EXCEPT !.pc = "idle",
                                     !.resume = Mismatch(joined) /\ client.again]
                             ELSE [joined EXCEPT !.pc = "resume", !.want = client.want]
              /\ slots' = clean
    /\ evs' = SessionEvents(evs)
    /\ behind' = StillBehind
    /\ UNCHANGED <<sup, route, cmds, reply>>

RejoinStarts ==
    /\ client.pc = "resume"
    /\ LET m == client.want
           c == [client EXCEPT !.want = "none"]
       IN  IF Persistent(client)
             THEN ReuseSession(c, m)
             ELSE IF m = "none"
                    THEN client' = [c EXCEPT !.pc = "idle"] /\ UNCHANGED <<sup, cmds, reply, slots>>
                    ELSE BeginStop([c EXCEPT !.then = "start", !.want = m])
    /\ behind' = StillBehind
    /\ UNCHANGED <<route, evs>>

\* shutdown: the whole session is stopped, then the room is left.
Shutdown ==
    /\ client.pc = "idle"
    /\ BeginStop([client EXCEPT !.then = "shutdown"])
    /\ behind' = StillBehind
    /\ UNCHANGED <<route, evs>>

Done == client.pc = "done" /\ sup.pc \in {"none", "stopped"} /\ behind = 0 /\ UNCHANGED sessionVars

-----------------------------------------------------------------------------
SessionInit ==
    /\ client = [pc |-> "idle", then |-> "none", want |-> "none", again |-> FALSE, id |-> "none",
                 session |-> "none", status |-> "Idle", phase |-> "NotStarted", game |-> "none",
                 joined |-> FALSE, room |-> "none", resume |-> FALSE, params |-> "none"]
    /\ sup = [pc |-> "none", cancelled |-> FALSE, mode |-> "none", plane |-> 0, hook |-> "none"]
    /\ route = NoRoute /\ cmds = <<>> /\ reply = "none" /\ behind = 0 /\ evs = <<>>
    /\ slots = [s \in {"hook", "relay"} |-> 0]

Supervisor ==
    \/ SupStart \/ SupStartFails \/ SupStartGameplay \/ SupStopGameplay
    \/ SupCancelled \/ SupFinish \/ SupReturns

SessionEnvironment ==
    \/ \E e \in {"Waiting", "Failed"} \cup Ids : HookProgress(e)
    \/ RouteExits \/ SupportExits \/ RoomLost \/ OldSupReturns

ClientReturns == DetachDone \/ DetachFails \/ WorkerJoined \/ AttachDone \/ AttachFails
                 \/ StartAfterStop \/ RejoinJoins \/ RejoinStarts

ClientCalls ==
    \/ PollEvents \/ StopSession \/ LeaveRoom \/ Shutdown
    \/ \E m \in Modes : StartSession(m)
    \/ \E i \in Ids : JoinRelayRoom(i)
    \/ \E i \in Ids : RejoinRelayRoom(i)

SessionNext == Supervisor \/ SessionEnvironment \/ ClientReturns \/ ClientCalls \/ Done

\* Tasks of the session runtime are scheduled, and blocking calls return.
SessionSpec ==
    /\ SessionInit /\ [][SessionNext]_sessionVars
    /\ WF_sessionVars(Supervisor) /\ WF_sessionVars(ClientReturns) /\ WF_sessionVars(PollEvents)

-----------------------------------------------------------------------------

\* An occupied slot is always held by something that will free it: the
\* running route, the data plane given to a starting session, or a
\* StartGameplay command that is still queued.  A slot occupied by nobody
\* would refuse every later gameplay with "already attached".
AttachmentsAreHeld == \A s \in {"hook", "relay"} : slots[s] # 0 => slots[s] \in Held(s)

\* Launch files on disk with no session that uses them.
Stranded(c) == ~Persistent(c) /\ c.params # "none"

\* Whichever of stop, game exit, hook failure, room loss or shutdown ends a
\* session, its launch files are removed with it.  One call alone leaves files
\* with no session: a start that is refused its room because the runtime of
\* an earlier session has ended but not yet dropped an unread StartGameplay.
FilesGoWithSession ==
    [][~Stranded(client) /\ Stranded(client')
         => client.pc = "start" /\ slots["relay"] \in (Unread \cup {behind}) \ {0}]_sessionVars

\* What docs/architecture.en.md says of the files: when gameplay stops they
\* are removed.  (A start in progress may have stopped an earlier session.)
LaunchFilesRemoved == ~Stranded(client)

\* A client that shows a running game while the live supervisor has no
\* gameplay route is always corrected: the loss of a route between the
\* acceptance of a start and the client's next poll is not forgotten.
RouteLossIsNoticed ==
    (client.status = "Running" /\ sup.pc = "running" /\ sup.mode # "Official" /\ route = NoRoute)
        ~> (client.status = "Idle" \/ route # NoRoute \/ sup.pc # "running")
=============================================================================

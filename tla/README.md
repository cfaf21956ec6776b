# TLA+ verification of TractorBeam

TractorBeam carries the peer-to-peer packets of a game between the players of a
private room. A native hook inside the game intercepts its Steam networking
calls and hands the packets over a local IPC connection to the Bridge Client;
the client carries them to the other players through a Relay server or, on a
LAN, directly from client to client. This directory holds TLA+ modules for the
parts whose correctness depends on ordering, concurrency, failure or limits, the
TLC configurations that check them on small instances, and TLAPS proofs that
hold for every instance. `PROJECT.json` lists every run, the source lines behind
each definition, the mutants, the hazards and the theorems.

Contents: [inventory](#inventory) · [modules](#modules) · [runs](#runs) ·
[bounds and fairness](#bounds) · [refinement](#refinement) · [proofs](#proofs) ·
[disagreements](#where-code-and-documentation-disagree) ·
[what is not modelled](#not-modelled) · [what is left](#what-is-left)

## Inventory

Paths are relative to `src/crates/`; `client/` is `bridge-core/src/client/`.

| component | state it keeps | hard behaviour | what makes it correct | module |
|---|---|---|---|---|
| **Duplicate window** `relay-protocol/src/duplicate.rs` | highest frame id, 128 bits (`u128`) | shift at the width, ids in any order | admits each id once, calls nothing a duplicate that was not admitted | `FrameWindow` |
| **Traffic budget** `bridge-relay/src/state/traffic_budget.rs` | two fixed windows: packets, bytes, probes | window edges, the one-frame burst | bounded in every interval | `TrafficBudget` |
| **Relay room state** `bridge-relay/src/state.rs` | rooms, peers, pending joins, two indexes | joins begun together, deadlines, takeovers | indexes agree, one seat per identity, limits, grace, frames at most once | `RelayState` |
| **Relay tasks** `bridge-relay/src/server/` | a task per control connection, a UDP task, a sweeper; bounded egress queues | sends after the mutex is released, full queues, overlapping connections of one player | a seat tells what became of the task that owns it | `RelayServer` |
| **Relay transport and data plane** `client/relay_transport.rs`, `session/data_plane.rs` | one control connection, resume credential, UDP path, outbound queue, recovery clock | attempts abandoned half-way whose frames still arrive, back-off, deadline, restarts of the Relay | recovery is bounded and leaves no seat behind | `RelayRecovery` |
| **Wire formats** `relay-protocol/src/frame.rs`, `bootstrap.rs`, `direct-protocol/src/frame.rs` | none | datagrams cut short, longer headers, versions and capabilities that differ | both ends agree on the connection and on each frame | `Wire` |
| **Client runtime and session supervisor** `client/runtime.rs`, `session.rs`, `session/supervisor.rs` | the state shown, hook runtime, route tasks, two attachment slots | commands that outlive their caller's timeout, several tasks ending at once, events folded in late | nobody holds a slot for nobody, a lost route is noticed, launch files go with their session | `Session` |
| **Hook IPC** `client/hook_ipc*`, `native-hook/src/windows/ipc_worker.rs` | one authenticated connection, queues both ways, pending calls | two reconnect windows, reader threads that outlive a connection, late answers | answers and packets belong to the connection that asked, both ends end | `HookIpc` |
| **Native hook** `native-hook/src/windows/` | imports and vtable slots, packet queues | patching under running game threads, other programs that restore slots, full queues | the hook comes back, the game gets whole packets | `NativeHook` |
| **Injection** `client/process_lifecycle.rs`, `hook_lifecycle.rs`, `isaac-injector/` | game processes, sessions, helper | prompts nobody answers, retries, sessions that overlap | one hook per game, a session is never held up | `Injection` |
| **Proton sidecar** `isaac-injector/src/linux.rs` | files and a registry override in the user's installation, a marker | a failure or a kill between any two steps | the installation is only borrowed | `Sidecar` |
| **LAN membership** `client/lan/membership.rs`, `link.rs` | hints, preferred links, dials, deadlines, epochs | both ends dial, instances restart, callbacks after unlock | both ends keep the same link, the path manager follows | `LanLinks` |
| **LAN paths** `client/lan/path.rs`, `path/lifecycle.rs` | material, checks, nomination, liveness | loss, delay and repetition of datagrams, one-sided nominations | only proven pairs carry gameplay, both ends settle | `LanPath` |
| **LAN data plane** `client/lan/path/data*.rs`, `session/lan_route.rs` | generations, queues, ledger, incidents | a generation replaced while packets wait | every packet resolved once, incidents of queues and sends end, fair turns | `LanData` |
| **LAN invitations** `client/lan/adapter.rs`, `control.rs`, `join_code/lan.rs` | endpoints, code, probe results | more addresses than a code carries, silent endpoints | the code leads to the host | `LanInvite` |
| **Application worker** `bridge-application/src/` | snapshot with a command generation, control word, queue | commands queued against an older snapshot, leave and shutdown that go past the queue | leave is final, shutdown completes | `Application` |
| **Flutter bridge** `flutter-bridge/src/api.rs`, `room_history.rs` | rooms, launch, history; two threads | lock regions of two threads | the restore entry is listed | `FlutterBridge` |
| **Flutter UI** `src/apps/tractor-beam-flutter/lib/` | window view, startup, switch | callbacks between awaits, stale snapshots | the view agrees with the session, a switch follows the user | `Presentation`, `Controller` |
| **Probes** `client/probe*` | batches, samples | late pongs, repeated packets, shared endpoints | reports are true and complete | `Probes` |
| **Health** `client/session_health*`, `packet_flow.rs`, `session/relay_rtt.rs` | delivery windows of 128 bits, ping ledgers | jumps, late and repeated answers | counts add up, worse never looks better | `SessionHealth` |
| **Configuration** `client/config.rs` | one file, two writers | failed writes, restarts, edits by hand, reused ids | what was saved is kept | `Config` |

How they interact. All Relay tasks call the room state under one mutex and talk
to each other only through bounded egress queues. The client's data plane owns
one transport and replaces it on recovery; the Relay knows a client by its
connection id and resume key, and its control connection by a `PeerId`. On a LAN
each node holds a TCP control link to each other node; membership decides which
link is preferred and tells the path manager, which runs UDP checks of its own
and opens a data generation per link. The supervisor attaches gameplay to a room
and to the hook runtime, which outlives it. The application worker owns the
client and is the only thread that calls it; front ends submit stamped commands
and read snapshots. The sidecar and the injector bring the hook into the game;
the hook connects back over IPC.

## Modules

Every module translates the code it names: one action per operation, handler or
lock region, its guard the conditions and early returns, its updates the
assignments. Where a module's text says that calls come in any order, the caller
is left free on purpose: whatever the composing component does is among them.

### Relay

**`FrameWindow`**, **`TrafficBudget`**: the window and the budget as operators
(`Observed`, `Decision`, `Admits`; `CheckTraffic`, ...), with their widths and
limits as constants. **`FrameWindowSpec`** and **`TrafficBudgetSpec`** feed one
of them with anything and remember what was admitted.

**`RelayState`** has one action per method of `RelayState`, because each runs
with the mutex held; its variables are the fields of the struct. Connection ids,
resume keys and path keys are random in the code: an id is never drawn twice,
and the keys of a connection are represented by the connection itself.

**`RelayServer`** composes those methods into the tasks that call them. A task
that has called the state keeps a list of what it still has to queue (`sends`)
and queues it step by step, so that steps of other tasks come in between;
`egress` is the map of bounded queues, and a full queue drops the frame or, for
the task's own reply, ends the task. Teardown is two steps, as in the code:
removal from the egress map, then `detach` or `stop`. `view` is what a client
last heard of its room.

**`RelayRecovery`** composes one client with the same methods: the handshake of
each attempt, back-off, deadline, fallback to a full join, UDP path validation,
cancellation, and restarts of the Relay. A connection delivers in order but
arbitrarily late, also after the client gave it up.

**`Wire`** abstracts bytes to cells, one per field, and keeps every length check
of the two frame decoders; a frame is encoded, damaged, and decoded. A second
part is the negotiation of both ends over every pair of builds.

### Session and game

**`Session`**: the client thread, blocked inside one call at a time
(`client.pc`), the supervisor task with its command queue, the route task, and
the two slots (hook, relay) with their generations. Events go through a
forwarder: a poll sees any prefix of what has been sent. A supervisor ends in two
steps, as `supervise_session` does: it sends `Stopped` (`SupFinish`,
`SupStartFails`), and only when it returns (`SupReturns`) does its command channel
close with what nobody read. Nobody joins the worker of a session whose `Stopped`
was polled, so a new session may begin in between; the generation an unread command
of the earlier one still holds is then kept in `behind` until `OldSupReturns`.

**`HookIpc`**: the listener thread of the client, the worker of the hook, the
reader thread each starts per connection, and the Input Delay calls. A reader
owns a clone of the socket, so a connection is closed only when loop and reader
have both let go of it. Timeouts are steps that may be taken whenever their
clock can run.

**`NativeHook`**: imports and vtable slots are words in memory that the game
reads at any moment; installation, repeated checks, and the packets between game
and worker.

**`Injection`**: session task, blocking worker, helper process and the threads
it creates in the game, over two sessions and two game processes.

**`Sidecar`** and **`UserInstall`**: see [refinement](#refinement).

### LAN

**`LanLinks`**: every node's membership, the ends of every TCP connection, and
the part of the path manager that creates and removes paths. `register_link` and
`remove_link` are two steps each, because the mutex is released before the path
manager is called.

**`LanPath`**: two peers of one path. Side 1 draws the path material, offers it
once, and nominates; both check every pair over a network that loses, delays and
repeats. A pair is a number, its rank under `select_candidate_pair`.

**`LanData`**: gameplay over the paths of one client. Each link makes a
generation with a gate, an outbound queue with a worker, and an inbound queue;
the ledger counts and keeps incidents. A send is one action per region of the
mutex: the path is looked up (`SendSelect`), the key of a peer without one is read
(`SendKey`), and the rejection is recorded after both (`SendUnavailable`); likewise
the hook's queue refuses a packet under the gate and the drop is recorded after it.
**`LanPlane`** runs the two side by side.

**`LanInvite`**: adapters, endpoints, code and probe.

### Application and measurement

**`Application`**: the worker's loop over command queue, control word and client
events. A command keeps whether its stamp is still current. **`FlutterBridge`**
EXTENDS it and adds the synchronous calls and the publisher thread, one action
per lock region, and the history file. **`Controller`** and **`Presentation`**
are the Dart side: an action is a stretch of code between two awaits.
**`Probes`**, **`SessionHealth`** and **`Config`** are described by the
inventory; each module begins with what it abstracts. In `Config` the replacement
of the file and the report of it (`commands.rs:232-250`) are one step, so a kill
between the two is not in the model.

**`PlaySession`**, **`LanPlane`**, **`Components`** and **`MCReconnection`** put
modules that share no variable into one run: a behaviour is one of them while the
others keep their first state, so the state spaces add up instead of multiplying.
The other **`MC...`** modules only define symmetry sets and bounds.

Eight modules hold theorems: **`DataLemmas`** (facts about sequences, maxima,
folds and the window that the others cite), **`RelayStateProofs`**,
**`RelayProofs`** (tasks and recovery), **`PlayProofs`**, **`LanLinksProofs`**,
**`LanPlaneProofs`**, **`FlutterBridgeProofs`** (with `Application`) and
**`ComponentProofs`** (the parts of `components`); [proofs](#proofs) says what each
proves.

## Runs

Each row is one question; the properties are the INVARIANTs and PROPERTYs of the
configuration, and the comment before each definition names the code it is about.

| run | question | properties |
|---|---|---|
| `relay_state` | Do the tables of the Relay survive any order of calls, and do limits, grace periods and duplicate windows hold through detach, resume and expiry? | `RoomsConsistent`, `AtMostOnce`, `GraceHonoured` |
| `relay_server` | With tasks of old and new connections interleaved and queues of one frame: does every seat tell what became of the task that owns it? | `SeatFollowsItsTask` |
| `reconnection` | Control connections that fail. To the Relay, through outages, abandoned attempts, full joins and restarts: how long may a recovery last, and what does a client that is gone leave behind? Between LAN nodes: do simultaneous dials, losses and returning instances settle on one link, and does the path manager follow? | `RecoveryBounded`, `GoneClientLeavesNoSeat`, `PathFollowsLink`, `DialsConverge` |
| `play_session` | Supervisor, IPC and hook: does anything stay attached to nobody, do launch files go with the session, is a lost route noticed, do answers and packets belong to their connection, do both ends finish, does the hook come back after others overwrote it? | `AttachmentsAreHeld`, `FilesGoWithSession`, `RouteLossIsNoticed`, `AnswerIsOwn`, `StaleGameDiscarded`, `BothEnd`, `WholePackets`, `HooksReturn` |
| `lan_plane` | Do two ends settle on one proven, working pair; is every packet over paths that come and go resolved once, every outage of its queues and sends reported as ended, every peer served? | `NominatedIsProven`, `PathSettles`, `ResolvedOnce`, `IncidentsEnd`, `FairShare` |
| `application` | With commands stamped and sent in two steps and two threads: is a leave final, does a shutdown complete, is the restore entry listed? | `LeaveIsFinal`, `ShutdownCompletes`, `RestoreIsListed` |
| `components` | Fifteen parts that share no state, one per behaviour (below). | 16 properties |
| `stale_presence`, `late_resume`, `replay`, `stuck_nomination`, `stranded_files` | [Disagreements](#where-code-and-documentation-disagree): TLC violates one property each. | `EveryoneToldTheRoom`, `OnlineSeatIsMine`, `NeverReplayed`, `PathSettles`, `LaunchFilesRemoved` |

The parts of `components`, each under every order of its own steps:

| part | shows | properties |
|---|---|---|
| window | the window is exactly "seen before" at jumps below, at and beyond its width | `WindowIsExact` |
| budget | what fixed windows guarantee over any interval | `SlidingBound` |
| frames, talk | damaged datagrams and every pair of builds | `WireAgrees` |
| flow, pings, verdict | statistics of losses, repeats and late answers | `GapsAddUp`, `PingsAddUp`, `WorseNeverLooksBetter` |
| screen, rooms | the window view and the room switch between awaits | `ViewAgrees`, `SwitchFollowsUser` |
| latency, readiness | pings of a shared endpoint, the probe of two peers | `EveryRelayIsTold`, `ReportIsTrue` |
| invite | adapters to addresses to a code to an answer | `InvitationLeadsHome` |
| config | two threads that rewrite one file | `SavedIsKept` |
| sidecar | failures and kills between any two steps | `IdleIsClean`, `GivenBack` |
| injection | sessions that overlap, prompts nobody answers | `LoadedOnce`, `LetsGo` |

The mutants in `PROJECT.json` show for each property of a passing run a plausible
bug of the code that the same instance finds.

## Bounds

Every bound is a constant or a named definition. What each instance is large
enough for:

| run | instance |
|---|---|
| `relay_state` | two rooms for one place in the table, two players for one seat, three connection ids (one may be drawn after another was evicted), two control connections, clock 0..2 with deadlines of one tick: before, at and after |
| `relay_server` | two control connections, two connection ids, queues of one frame. The constraint `Bounded` keeps the union of two families: one seat with data, probes and UDP, and two players on TCP without them. A seat's data never touches another seat's task, and what crosses between players (presence, replacement) is in the second family |
| `reconnection` | to the Relay: both profiles, two control connections, one restart, queue and wire of one frame, deadline and attempt of one tick, clock 0..3: recovery, abandonment and the grace period after both. LAN: two LAN players, a second instance of one of them, three connections, one fault: enough for a crossed dial whose loser is lost while its callback is pending |
| `lan_plane` | two pairs, two faults, one late message; two peers, two generations, queues of one packet (2.4 million states) |
| `play_session` | two commands, three unread events, two identities; two connections, two calls, one ping, one packet each way; three slots, two faults while they are patched, queues of two. `stranded_files` uses the same instance |
| `application` | one Relay code, one LAN code, a queue of one command, one unread event, a history of one, two moves of the user or restarts. Deadlock is checked |
| `components` | window of width 3 over ids 0..6; budget windows of 2 ticks; two cells of payload and two bytes damaged; delivery window of width 3 and six numbers; three moves of the user and one update under way; two adapters, two candidates; two sessions and two games; two relay ids and one account |

Durations keep their order (`Grace`, `RecoveryDeadline`, `AttemptTimeout`), not
their ratio. Deadlock checking is off where an instance runs out of ids,
attempts, calls or time, which the program does not. `ConfigNext` stops after a
change was lost, since nothing is promised from there on. Symmetry is used only
in the Relay runs, none of which has a liveness property; LAN nodes, links and
processes are ordered in the code and have none.

*Fairness.* It is stated only for code that a scheduler runs, never for a user, a
client program, a network that loses, or a process that may be killed.

| specification | fair | because |
|---|---|---|
| `FlutterBridge!Spec` | the worker's and the publisher's next step | two OS threads in loops with bounded waits |
| `SessionSpec` | supervisor, returns of the client thread's calls, polls | tokio runs ready tasks; every call has a timeout; the worker polls each turn |
| `HookIpc!Spec` | both loops, the readers, health check, expiry of windows | threads whose sockets have read timeouts; clocks run |
| `HookSpec` | patching under way, `RunCallbacks`; strongly, a call of the Steam factory while the interface is unknown | the game runs callbacks each frame, and asks for the interface again and again; one call that fails must not count for ever |
| `PathFairness` | arrival of what was not lost, the connection callbacks; strongly, both maintenance ticks | tasks run; ticks come by the clock however often messages are on their way in between |

`PlaySession` and `LanPlane` state the same conditions for the half a behaviour
is of; because that half never changes, a condition on the disjunction is the
conditions on its disjuncts.

## Refinement

`UserInstall` is the promise of the Proton sidecar in twenty lines: the client
borrows the user's game installation and gives it back as it was. `Sidecar` is
the code: one step per file operation or registry call, each of which may fail
or be the last before the client is killed, recovery of what an earlier run left,
and a user who edits Wine's configuration in between. It implements
`UserInstall` (`GivenBack == Install!InstallSpec`) with the mapping

    busy     <- a deployment or removal is under way
    borrowed <- the marker file exists
    own      <- the user's files: what is there without a marker, else none
    setting  <- the override the user would find once the marker is undone

The mapping says what the order in `linux.rs` is for: the marker is written
before and removed after everything it describes, so at each instant the marker
and the installation together determine what the user had. TLC checks it as a
PROPERTY of `components`, TLAPS proves it (`SidecarImplementsInstall`).

`RelayServer` implements `RelayState` with the identity as its mapping: whatever
the tasks do in whatever order, the tables of the Relay change only as the
methods of `RelayState` allow, or not at all. So everything proved of the tables
holds while the tasks run (`ServerImplementsRelayState`,
`ServerKeepsRoomsConsistent`).

## Proofs

TLAPS checks every proof to its last leaf. The assumptions on the constants are
the named ASSUMEs of the modules (`RelayAssumption`, `NoneAssumption`,
`LanAssumption`, `DataAssumption`, ...): limits and durations are natural numbers,
what must be positive is, sets of rooms and ids are finite where counted, `None`
is no value of anything else; `InviteAssumption` also says that one probe may
take no longer than all of them (one second and three, `lan/control.rs:41`). TLC
evaluates them on every run. One theorem has a
hypothesis of its own, `SmallRoom` of `DialsMeet`, explained there.

| theorem | property | for every |
|---|---|---|
| `WindowCorrect`, `WindowMovesForward` | `WindowIsExact` | width, set of ids |
| `RoomsStayConsistent`, `FramesAtMostOnce`, `GraceIsHonoured`, `TypesHold` | `RoomsConsistent`, `AtMostOnce`, `GraceHonoured` | number of players, rooms, connections, frames; limits; clock |
| `ServerImplementsRelayState`, `ServerKeepsRoomsConsistent`, `SeatsFollowTasks` | refinement, `RoomsConsistent`, `SeatFollowsItsTask` | the same, and every queue capacity |
| `RecoveryEndsOnTime`, `NoSeatLeftBehind` | `RecoveryBounded`, `GoneClientLeavesNoSeat` | deadline, timeout, back-off; number of connections and restarts |
| `SlotsAreGivenBack`, `LaunchFilesGo` | `AttachmentsAreHeld`, `FilesGoWithSession` | set of modes and identities, number of commands and unread events |
| `AnswersAreOwn`, `StaleGameNeverSent` | `AnswerIsOwn`, `StaleGameDiscarded` | number of connections, calls, pings, packets |
| `PacketsAreWhole` | `WholePackets` | queue limit, number of packets |
| `PathsFollowLinks`, `DialsMeet` | `PathFollowsLink`, `DialsConverge` | number of nodes (`SmallRoom`), connections, faults |
| `OnlyProvenPairs` | `NominatedIsProven` | candidate pairs, queues, faults |
| `ResolvedExactlyOnce`, `IncidentsAreEnded`, `SharesAreFair` | `ResolvedOnce`, `IncidentsEnd`, `FairShare` | set of peers, number of generations, queue capacity |
| `SidecarImplementsInstall`, `CleansUp` | `GivenBack`, `IdleIsClean` | failure and kill |
| `LoadsOnce` | `LoadedOnce` | number of sessions and games |
| `NothingSavedIsLost` | `SavedIsKept` | largest id |
| `SwitchesFollowUser` | `SwitchFollowsUser` | set of rooms, queue limit, updates under way |
| `ViewsAgree` | `ViewAgrees` | number of moves, sessions, timeouts |
| `EveryPingCounts`, `EveryGapCounts` | `PingsAddUp`, `GapsAddUp` | number of pings, packets, streams; widths and capacities |
| `WireIsAgreed` | `WireAgrees` | payload lengths, number of alterations, builds |
| `LeaveStaysFinal`, `RestoreStaysListed` | `LeaveIsFinal`, `RestoreIsListed` | set of codes, queue capacity, unread events, moves of the user, length of the history |
| `BudgetSlides` | `SlidingBound` | window, limits, set of frame sizes, clock |
| `RelaysAreTold`, `ReportsAreTrue` | `EveryRelayIsTold`, `ReportIsTrue` | number of pings, samples, changes of the catalogue and tests |
| `VerdictNeverImproves` | `WorseNeverLooksBetter` | number of paths, order of faults |
| `InvitationsLeadHome` | `InvitationLeadsHome` | set of adapters, limit of candidates, timeouts |

Each follows from an inductive invariant, given below with the reason it is
stronger than the property.

### Relay

*The window* (`ComponentProofs`). A bit is set exactly when the id at its distance
below the highest was admitted, and nothing above the highest was; the cases
follow `observe`: first id, below the window, inside it, ahead by less than the
width, ahead by the width or more.

*The room state* (`RelayStateProofs`).

    Inv == Tables /\ DrawnBeforeSeated /\ MarksCoverCopies /\ AtMostOnce
    Tables == TypeOK /\ IndexAgreement /\ OneSeatPerIdentity /\ DeadlineWhileReconnecting

`Tables` is inductive on its own: the methods find a seat through
`connection_rooms`, so uniqueness of identities needs the index, and the index
needs the types. `AtMostOnce` is not: it needs that the window of a seat refuses
what the seat let through (`MarksCoverCopies`), which survives because a window
never admits again what it refused (`RefusedStays`) and refuses what it just
observed (`RefusedAfter`), and it needs that a new seat starts with an id that
was never drawn (`DrawnBeforeSeated`). The methods touch the tables in three
ways, each a lemma: a seat changes and keeps its identity (`SeatChange`), seats
are removed (`Removal`), a seat is added while that of the same identity goes
(`Admission`). The limits add cardinalities: only the completion of a join adds a
seat or a room, and it checks again. `GraceIsHonoured` is an action property and
goes through the methods that remove seats.

*The tasks* (`RelayProofs`), `ServerInv == Inv /\ Speaking /\ Seating`. Every
step of a task is one method of the room state or leaves the tables alone, so
`Inv` comes with the refinement. A seat tells what became of its task because
only a task that was told it is seated owns a seat, because the index never
names a task whose teardown is over, and because a task past its teardown has no
reply of its own left whose loss could send it through teardown again
(`RepliesAreServed`).

*Recovery* (`RelayProofs`), `RecoveryInv == Inv /\ ClientInv /\ SeatInv`.
`RecoveryBounded` needs the timers of each phase (`Timely`: an attempt begins, and
a pause ends, within the deadline; a handshake ends within one attempt timeout
after it). `GoneClientLeavesNoSeat` needs that a connection the client dropped
still ends with end of file (`ClosedIsTold`) and that a seat without a deadline is
owned by a connection whose task runs and will find it through the index
(`SeatIsServed`): the seat is then detached however late the end of file is read.

### Session and game

*The session* (`PlayProofs`), `SessionInv == BridgeOK /\ PendingOK /\ SupFor /\
QueueOK /\ SlotsOK /\ EventsFor`. A client without a session has a supervisor that
has sent `Stopped`, so its route is gone, but not what is still unread in its
command channel. A generation in a slot is held by the route, by the session that
starts, by an unread command, or by one left behind by an earlier session, each of
which gives it back. At most one `Stopped` of a session is unread.
`FilesGoWithSession` is an action property: each call of the client is followed to
its end, and the one step that leaves launch files without a session is a start
whose room is held by such an unread command. That step is real
([`stranded_files`](#where-code-and-documentation-disagree)); the theorem says it is
the only one.

*Hook IPC* (`PlayProofs`), `IpcInv == NetOK /\ ClientOK /\ HookOK /\ CallsOK`. What
travels up a connection was queued during it, because the worker throws its
packets away when a handshake ends; and an answer carries the id of its call, so a
caller that was answered, or gave up, is not answered again.

*Packets of the hook* (`PlayProofs`): while the game has been told a size, the
first packet of that channel is still the one it was told of: a full queue drops
what arrives, not what waits, and reading another channel leaves it in place.

### LAN

*Links* (`LanLinksProofs`), `LinksInv == TypeOK /\ Wired /\ Newest`. The
callbacks to the path manager come after the mutex is released, so neither side of
`PathFollowsLink` holds alone. `Newest` says the preferred link is the last one
registered, and the path manager has heard of it unless its task has yet to say
so; without one, the path manager has heard the latest there was, and a path
remains only while the task of its link has still to report. Stale callbacks are
told by their epoch, which is why epochs are unique and only rise (`Wired`).

*Dials* (`LanLinksProofs`), `MeetInv == LinksInv /\ Company /\ Agreed`. Among the
connections between two nodes that only their own dials disturb, the one with the
lowest link id is never given up by either side (`Winning`), at each stage of its
handshake; so it is the one both keep. The theorem supposes `SmallRoom`, no more
nodes than one snapshot names: `establish_outbound` (`lan/link.rs:244`) gives up a
link whose acceptor is missing from the snapshot it was sent, and
`lan/membership.rs:98` cuts a snapshot at `MAX_PEERS`, 16 identities, without
regard to who sends it. In a larger room two nodes may therefore fail to meet.

*Paths* (`LanPlaneProofs`). `Proven` says what a side has nominated, and what side 1
waits to have acknowledged, are among its own checks; every handler that forgets
checks forgets both with them (`Forgets`), every other only adds checks.

*Packets* (`LanPlaneProofs`), `DataInv == DataTypes /\ Generations /\ Endings /\
Sessions /\ OrderOK /\ ResolvedOnce`. While the room is up a worker ends only behind a closed
gate with no sender inside, so nothing is queued that nobody will resolve; an
incident belongs to the owner of its generation, and one of a worker that is over
is of the last generation of its peer, or is `Late`: a rejected send, a drop of the
hook's queue or a receipt dropped at the end of a session is recorded with a key
alone, after the lock it was read under, and may come after `close_epoch`. So
`IncidentsEnd` promises the end of a full outbound or inbound queue and of a failed
send, where the worker itself drops packets after `close_epoch`, and of nothing
that is `Late`. `Sessions` ties the hook's task to the session it serves. `FairShare` has an
invariant of its own: a peer that was passed over is that many places nearer to
its turn (`Turns`).

### The application

*The Flutter bridge* (`FlutterBridgeProofs`), `BridgeInv == WorkerOK /\ BridgeOK /\
hist \in Histories`. Every command the worker holds or runs is one that was current
when it was taken, so a command from before a leave is never run after it; the
batch of events that is folded into the snapshot is followed event by event. The
history stays a history (`RecordKeeps`): the recorded code leaves its old place and
comes first before the list is cut, so neither can the list name a code twice nor
the cut drop the one to restore; `read_history` gives the rest for a file edited by
hand.

### Parts

*The budget* (`BudgetInv`): the counter of a fixed window holds what was charged
since it began, none of that came a window's length later, and the window's length
before it began is within the limit (`Windowed`, for packets, bytes and probes in
`Metered`). So an interval of that length, wherever it starts, meets what two
limits allow. The total is a fold over all charges; it is compared with the total
after one charge more or between other edges, never computed (`TotalFoldRun`).

*Light pings* (`LightInv`): a task that is done has a report for its target, no two
reports have the same target, and while the batch is full each Relay's target is
among those asked. Every report reaches its Relay because deduplication keeps one
of each target it drops.

*Readiness* (`ReadyInv`): no frame under way or in an inbox is ahead of the one
the probe sends next (`SentBefore`), so a late frame is never taken for a later
one, and each arrival is credited once, or is the one that waits (`Credited`,
`Pending`). `Sorted` counts how many samples are no larger, so its values rise
with the place (`SortedRises`); the percentiles ask for places in order.

*The verdict* (`ViewInv` types the measurements): each rule of `classify_quality`
and of the path verdict, once met, is met by more faults (`MoreFaultsWorse`,
`WorsePath`), and the worst of several verdicts rises with any of them
(`WorstRises`).

*The invitation* (`InviteInv`): an open room bound endpoints that pass every check
of the descriptor and of the code (`Sound`), a failed one was refused or bound
none, and while the guest probes its clock is below the time of one probe, so the
time of all never cuts the results. The lists of the code (adapters by index,
addresses by preference, filters) are `Ordered` sets, whose members are placed by
how many come before them; `OrderedLists` shows that each place has one member and
each member one place, because counting predecessors is an injection.

*The sidecar*: `SidecarInv` relates the program counter to the disk: no managed
file and no changed override exists without a marker (`DiskOK`), and each step of
a deployment or a removal finds what the steps before it left (`StepOK`). The
refinement has one case per kind of step: only writing and removing the marker
change `borrowed`, and there nothing else is in place; everything between leaves
`Underlying` alone.

*Injection*: a game is the target of at most one session, because each passes
over the processes that ran before it and they wait in turn (`InTurn`,
`OwnTarget`); and a session creates at most one remote thread, because only a
helper that was denied, so before it created anything, has a successor
(`OneThread`).

*The configuration*: a change under way holds the file as it is unless the other
thread has written since (`ReadsAreCurrent`), and the stored counter is above
every id ever given (`Counted`), so neither an edit nor a deletion of the newest
relay gives an id again.

*The switch* (`CtlInv`): while a switch waits a room is on the screen, and only
`room_left`, which ends the wait, takes it away (`Chained`). Without this a plain
join could start while a switch waits, and the switch would later override it.

*The window of the application* (`PresInv`): `ViewAgrees` speaks of moments when
nothing is under way. The invariant says of every moment which mode a transition
may be in (`Shape`), which profile the bridge was asked for and the snapshot shows
(`Asked`, `Told`), and that the end of a session is not forgotten while a
transition runs (`Alive`). The session must have run when hiding began, when the
window became the tray view, or since (the ghost `lived`). One that starts and ends
inside the awaits of `_hideToTray` called from the full interface
(`main.dart:645-665`) is not promised anything: the model reaches it, and the
window stays in the tray, because `sessionWasRunning` was read before it and
`_handleControllerUpdate` does nothing in the full interface.

*Pings and gaps*: the pending pings carry different ids (`LedgerInv`), and the marks
of the delivery window cover what came within it (`Marked`); from there both are
arithmetic of cardinalities (`PingsAddUp`, `Balanced`), one case per way a packet
moves the window.

*The wire* (`FrameInv`, `TalkInv`): an accepted datagram is compared cell by cell
with what the encoder writes of the decoded frame (`Written`, `ReadFrom`,
`AllCellsCount`); two builds always share a version, the older build's
(`NewestCommon`), and the relay grants what is required or lacks the transport
(`Grants`).

### Induction over data

The prover has no induction on data. Where a fold matters (a batch of events, the
charges of a budget, the targets of a batch, drops summed over peers), its
recursive definition is shown to have a solution, and the solution is followed
element by element (`FoldExists`, `RunOfFold` in `DataLemmas`): a statement that
holds of none and passes from each to the next holds of all, since a first
counterexample would have a predecessor (`CountsUp`). Each fold that a proof needs
has its own lemma of this form (`...Run`).

### Only model-checked

- Liveness under fairness and `LetsGo`, which is about what is enabled, are out of
  the prover's reach: `RouteLossIsNoticed`, `BothEnd`, `HooksReturn`,
  `PathSettles`, `ShutdownCompletes`. Every other property of a passing run is
  proved.
- A theorem about a part of `components`, `play_session`, `lan_plane` or `reconnection` is
  about the specification of that part alone; that the parts share no variable
  is by construction.

## Where code and documentation disagree

- **`stale_presence`**, `EveryoneToldTheRoom`. `complete_join` computes the
  joiner's view of the room under the mutex and `handle_control` queues it after
  releasing it. A second join that completes in between queues its update first;
  the older `JoinReady` then overwrites it and nothing corrects it.
- **`late_resume`**, `OnlineSeatIsMine`. `resume` gives the seat to whichever
  control connection presents the credential. The `Resume` of an attempt that the
  client gave up after five seconds may be read after a later attempt succeeded:
  it takes the seat, and its end of file opens the grace period of a client that
  is online. On UDP the client never notices.
- **`replay`**, `NeverReplayed`. `recover_relay` drains the outbound queue only
  between attempts; what arrives during an attempt that succeeds is sent after
  it, although the architecture says such packets are never replayed.
- **`stuck_nomination`**, `PathSettles` with `BreakPending`. While a nomination is
  pending, `maybe_nominate` considers no other pair. If the nominated pair stops
  working before the other side proved it, the nomination is repeated on every
  tick and ignored every time; a second pair that works is never tried. The
  passing run keeps pairs working while a nomination is pending and shows that
  nothing else can keep a path from settling.
- **`stranded_files`**, `LaunchFilesRemoved`. `start_session` writes the launch
  files and returns with `attach()?` (`runtime.rs:575-578`) when its room is still
  held by a `StartGameplay` that timed out and that an ended supervisor has not
  dropped. There is no session whose end would remove the files, and the next start
  forgets their path (`runtime.rs:496`). The architecture says they go when gameplay
  stops or the client next starts. It takes a supervisor held up for the ten
  seconds of the timeout, and a start between its `Stopped` and its return.

Other behaviours contradict no document, so no run is about them. The end of a
failed dial sets a recovery deadline also on a peer that another connection has
linked meanwhile, and its expiry drops the hint of that peer
(`lan/membership.rs:131`; `LanLinks` reaches it). A link whose `JoinAccepted`
cannot be sent stays registered (`lan/link.rs:129`), and two threads that rewrite
the configuration at once lose one change (`SavedIsKept` is stated until then);
both are listed with the hazards. `try_send_game` finds no path, reads the peer's
data key under the mutex, and records the rejection after releasing it
(`lan/path/data.rs:72`); if a control link of the peer comes up in between, its
incidents were closed already, and the new one, of the generation before or of
none, stays open until the next link or the end of the room (a test of the ledger
alone, `lan/path/data_plane_tests.rs:32`, has such a rejection closed by the first
epoch). A packet refused by the hook's queue, and a receipt dropped when a session
ends, are recorded after the gate is released (`session/lan_route.rs:154`,
`lan/path/data_plane.rs:155`) and may stay open in the same way. The model has
these steps; `Late` in `IncidentsEnd` names those incidents of a generation that
is over, and the property is silent about a peer that never had one. A session
that starts and ends while the window is on its way to the tray leaves it there
(the window, above). The publisher thread may end between the shutdown and the
update that would tell of it (`api.rs:553`), which the window's exit survives by
its timeout of three seconds. And a lost probe may take the worst sample along and
improve a verdict: `WorseNeverLooksBetter` holds the other measurements fixed.

## Not modelled

- *Fatal socket errors of the Relay*: an error of `accept` or `set_nodelay` ends
  the accept loop (`server.rs:92`), one of `recv_from` the UDP task. The process
  or one transport is then gone; there is no state to be wrong.
- *Byte layouts, encryption, tags, the proof of work, protobuf encodings*: a step
  that succeeds or fails. Length checks and negotiation are modelled (`Wire`).
- *Codec of the hook IPC*, which splits a stream into messages: a pure function
  of bytes; the connection carries messages.
- *Relay process shell, metrics, diagnostics, Steam files, logs, update check*:
  sequential, without state that outlives a call, and nothing decides by them.
- *The RTT branch of the client's data plane task* and a client's own handling of
  room views while it waits for `JoinReady`.
- *Snapshots of a LAN room that arrive late*: a link carries what its sender
  knows now.
- *Desktop GUI, widgets, layout, accessors that copy a snapshot into a DTO,
  generated and localised code.* `api.rs` is mostly such accessors; its lock
  regions and decisions are in `FlutterBridge` and `Probes`.
- *Values*: names, hosts, ports and settings that are validated, stored and shown.

## What is left

1. Late snapshots in `LanLinks`, and the RTT branch of the data plane.
2. Liveness of the Relay: that a teardown completes, a detached seat ends and a
   recovery ends is stated today only by its safety halves
   (`SeatFollowsItsTask`, `GoneClientLeavesNoSeat`, `RecoveryBounded`); the
   specifications of the Relay state no fairness. Likewise that no two instances
   of a Steam account are linked at once is left to the guard of `register`.

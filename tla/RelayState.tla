------------------------------ MODULE RelayState -------------------------------
(***************************************************************************)
(* RelayState (bridge-relay/src/state.rs): the rooms, peers, pending joins *)
(* and the two indexes the Relay keeps behind one mutex.  Every method is  *)
(* one action, because each runs with the mutex held.  The environment     *)
(* calls the methods in any order with any arguments a control connection  *)
(* or a datagram can carry; RelayServer composes them into the tasks that  *)
(* really make the calls.                                                  *)
(*                                                                         *)
(* Random values.  Connection ids, resume keys and path keys are drawn at  *)
(* random (64 and 128 bits).  An id is never drawn twice (`drawn'), and    *)
(* the keys of connection c are represented by c itself: a request carries *)
(* the connection whose key it holds, and the key matches only its own     *)
(* connection.  Times are in ticks; peer.last_seen is written and never    *)
(* read, and is left out.                                                  *)
(***************************************************************************)
EXTENDS FrameWindow, TrafficBudget, FiniteSets

CONSTANTS
    Sessions,       \* session credentials: the keys of the room table
    SteamIds,       \* player identities
    ControlPeers,   \* PeerIds: one per accepted TCP control connection
    ConnIds,        \* connection ids
    Addrs,          \* UDP source addresses
    Profiles,       \* data profiles on offer, a subset of {"Tcp", "Udp"}
    ProbeCaps,      \* whether clients negotiate CAP_ROOM_PATH_PROBE, a subset of BOOLEAN
    Sizes,          \* frame sizes in bytes
    MaxRooms,       \* max_rooms
    MaxPeers,       \* max_peers_per_room
    Grace,          \* RECOVERY_GRACE, 120 s
    ChallengeTtl,   \* life of an admission challenge, 30 s
    RoomIdle,       \* room_idle_seconds
    MaxTime,        \* bound on the clock
    None            \* an absent Option or map entry

ASSUME RelayAssumption ==
    /\ Profiles \subseteq {"Tcp", "Udp"}
    /\ ProbeCaps \subseteq BOOLEAN
    /\ Sizes \subseteq Nat
    /\ MaxRooms \in Nat \ {0}
    /\ MaxPeers \in Nat \ {0}
    /\ Grace \in Nat
    /\ ChallengeTtl \in Nat
    /\ RoomIdle \in Nat \ {0}
    /\ MaxTime \in Nat
    /\ None \notin Sessions \cup SteamIds \cup ControlPeers \cup ConnIds \cup Addrs
    /\ IsFiniteSet(Sessions)
    /\ IsFiniteSet(ConnIds)

Times == 0 .. MaxTime

PendingJoins ==
    [session : Sessions, steam : SteamIds, profile : Profiles, probe : ProbeCaps,
     issued : Times]

Peers ==
    [control : ControlPeers, steam : SteamIds, profile : Profiles, probe : ProbeCaps,
     presence : {"Connected", "Reconnecting"}, until : Nat \cup {None},
     udp : Addrs \cup {None}, frames : Windows, budget : Budgets]

(* None is no value of an entry it may stand in for.                       *)
ASSUME NoneAssumption == None \notin PendingJoins \cup Peers \cup Nat

VARIABLES
    now,                  \* Instant::now()
    pending,              \* pending: control peer -> PendingJoin
    rooms,                \* the keys of the room table
    roomSeen,             \* room.last_seen
    peers,                \* room.peers: session -> connection -> Peer
    connectionRooms,      \* connection_rooms: connection -> session
    controlConnections,   \* control_connections: control peer -> connection
    drawn,                \* history: the connection ids drawn so far
    copies                \* history: how often each frame was let through

stateVars == <<pending, rooms, roomSeen, peers, connectionRooms,
               controlConnections, drawn, copies>>

vars == <<now, stateVars>>

--------------------------------------------------------------------------------
(* Reading the tables.                                                     *)

Members(s) == {c \in ConnIds : peers[s][c] # None}

(* validate_room_capacity: a returning identity always fits, a new one     *)
(* needs a free seat, a new room needs a free table.                       *)
HasCapacity(s, id) ==
    IF s \in rooms
      THEN \/ \E c \in Members(s) : peers[s][c].steam = id
           \/ Cardinality(Members(s)) < MaxPeers
      ELSE Cardinality(rooms) < MaxRooms

(* remove_duplicate's candidates: connections of the same identity.        *)
Duplicates(s, id) == {c \in Members(s) : peers[s][c].steam = id}

(* The connection lookup shared by resume, bind_udp_path and the routers:  *)
(* connection -> session -> room -> peer, any missing link is              *)
(* UnknownConnection.                                                      *)
Known(c) ==
    /\ connectionRooms[c] # None
    /\ connectionRooms[c] \in rooms
    /\ peers[connectionRooms[c]][c] # None

PeerOf(c) == peers[connectionRooms[c]][c]

(* validate_source: the claimed identity and the carrier of a frame match  *)
(* the sender.  src is [udp, from]: a control peer or an address.          *)
ValidSource(p, from, src) ==
    /\ p.steam = from
    /\ \/ p.profile = "Tcp" /\ ~src.udp /\ src.from = p.control
       \/ p.profile = "Udp" /\ src.udp /\ src.from = p.udp

(* target_destination: the members that can be reached as `to' right now.  *)
Targets(s, to, requireProbe) ==
    {c \in Members(s) :
        /\ peers[s][c].steam = to
        /\ requireProbe => peers[s][c].probe
        /\ \/ peers[s][c].profile = "Tcp" /\ peers[s][c].presence = "Connected"
           \/ peers[s][c].profile = "Udp" /\ peers[s][c].udp # None}

(* broadcast: the control peers of the connected members, but one.         *)
Recipients(s, exclude) ==
    {peers[s][c].control : c \in {d \in Members(s) :
        d # exclude /\ peers[s][d].presence = "Connected"}}

(* room_views: what the members of a room are told about it.               *)
RoomView(s) ==
    {[steam |-> peers[s][c].steam, presence |-> peers[s][c].presence] : c \in Members(s)}

(* remove_connection, for a set of connections: the peer leaves its room,  *)
(* both indexes forget it.                                                 *)
RemoveFrom(gone) ==
    /\ peers' = [s \in Sessions |-> [c \in ConnIds |->
                    IF c \in gone /\ connectionRooms[c] = s THEN None ELSE peers[s][c]]]
    /\ connectionRooms' = [c \in ConnIds |->
                              IF c \in gone THEN None ELSE connectionRooms[c]]

ControlsOf(gone) ==
    {PeerOf(c).control : c \in {d \in gone : Known(d)}}

--------------------------------------------------------------------------------
(* The methods.                                                            *)

begin_join(p, s, id, profile, probe) ==
    /\ HasCapacity(s, id)
    /\ pending' = [pending EXCEPT ![p] =
                      [session |-> s, steam |-> id, profile |-> profile,
                       probe |-> probe, issued |-> now]]
    /\ UNCHANGED <<now, rooms, roomSeen, peers, connectionRooms,
                   controlConnections, drawn, copies>>

(* A new connection c takes its seat; gone is what remove_duplicate        *)
(* evicts.                                                                 *)
Admit(p, c, gone) ==
    LET j == pending[p]
        seat == [control |-> p, steam |-> j.steam, profile |-> j.profile,
                 probe |-> j.probe, presence |-> "Connected", until |-> None,
                 udp |-> None, frames |-> NewWindow, budget |-> NewBudget(now)]
    IN
    /\ rooms' = rooms \cup {j.session}
    /\ roomSeen' = [roomSeen EXCEPT ![j.session] = now]
    /\ peers' = [peers EXCEPT ![j.session] = [d \in ConnIds |->
                    IF d = c THEN seat
                    ELSE IF d \in gone THEN None ELSE peers[j.session][d]]]
    /\ connectionRooms' = [d \in ConnIds |->
                              IF d = c THEN j.session
                              ELSE IF d \in gone THEN None ELSE connectionRooms[d]]
    /\ controlConnections' = [q \in ControlPeers |->
                                 IF q = p THEN c
                                 ELSE IF q \in ControlsOf(gone) THEN None
                                 ELSE controlConnections[q]]
    /\ drawn' = drawn \cup {c}

(* Mutant: the capacity is not checked again when the proof arrives.       *)
RefusedWithoutCapacity(p, valid) ==
    ~valid \/ now - pending[p].issued > ChallengeTtl

(* complete_join consumes the pending join whatever comes of it; valid is  *)
(* whether the client echoed the challenge and solved it.                  *)
Refused(p, valid) ==
    \/ ~valid
    \/ now - pending[p].issued > ChallengeTtl
    \/ ~HasCapacity(pending[p].session, pending[p].steam)

complete_join(p, valid) ==
    /\ pending[p] # None
    /\ pending' = [pending EXCEPT ![p] = None]
    /\ IF Refused(p, valid)
         THEN UNCHANGED <<rooms, roomSeen, peers, connectionRooms,
                          controlConnections, drawn>>
         ELSE \E c \in ConnIds \ drawn :
                 LET twins == Duplicates(pending[p].session, pending[p].steam) IN
                 /\ connectionRooms[c] = None
                 /\ IF twins = {} THEN Admit(p, c, {})
                    ELSE \E d \in twins : Admit(p, c, {d})
    /\ UNCHANGED <<now, copies>>

(* Mutant: the duplicate window starts afresh.                             *)
ResumedAfresh(peer, p) ==
    [peer EXCEPT !.control = p, !.presence = "Connected", !.until = None,
                 !.frames = NewWindow]

(* What a resume changes in the peer: the window and the budget stay.      *)
Resumed(peer, p) ==
    [peer EXCEPT !.control = p, !.presence = "Connected", !.until = None]

(* The three rejections of resume: unknown connection, wrong credential,   *)
(* and a deadline that has passed.                                         *)
Resumable(c, key) ==
    /\ Known(c)
    /\ key = c
    /\ PeerOf(c).until # None => now <= PeerOf(c).until

resume(p, c, key) ==
    /\ Resumable(c, key)
    /\ LET s == connectionRooms[c] IN
       /\ peers' = [peers EXCEPT ![s][c] = Resumed(@, p)]
       /\ roomSeen' = [roomSeen EXCEPT ![s] = now]
    /\ controlConnections' = [controlConnections EXCEPT ![p] = c]
    /\ UNCHANGED <<now, pending, rooms, connectionRooms, drawn, copies>>

(* Mutant: any control connection bound to the peer detaches it.           *)
DetachAnyone(p) ==
    LET c == controlConnections[p] IN
    /\ c # None
    /\ controlConnections' = [controlConnections EXCEPT ![p] = None]
    /\ IF Known(c) /\ PeerOf(c).presence = "Connected"
         THEN peers' = [peers EXCEPT ![connectionRooms[c]][c] =
                           [@ EXCEPT !.presence = "Reconnecting", !.until = now + Grace]]
         ELSE UNCHANGED peers
    /\ UNCHANGED <<now, pending, rooms, roomSeen, connectionRooms, drawn, copies>>

(* detach: only the control connection that still owns the peer opens the  *)
(* grace period; a superseded one just disappears from the index.          *)
detach(p) ==
    LET c == controlConnections[p] IN
    /\ c # None
    /\ controlConnections' = [controlConnections EXCEPT ![p] = None]
    /\ IF Known(c) /\ PeerOf(c).control = p /\ PeerOf(c).presence = "Connected"
         THEN peers' = [peers EXCEPT ![connectionRooms[c]][c] =
                           [@ EXCEPT !.presence = "Reconnecting", !.until = now + Grace]]
         ELSE UNCHANGED peers
    /\ UNCHANGED <<now, pending, rooms, roomSeen, connectionRooms, drawn, copies>>

stop(p) ==
    LET c == controlConnections[p] IN
    /\ c # None
    /\ RemoveFrom({c})
    /\ controlConnections' = [q \in ControlPeers |->
                                 IF q = p \/ q \in ControlsOf({c}) THEN None
                                 ELSE controlConnections[q]]
    /\ UNCHANGED <<now, pending, rooms, roomSeen, drawn, copies>>

bind_udp_path(c, key, addr) ==
    /\ Known(c)
    /\ PeerOf(c).profile = "Udp"
    /\ key = c
    /\ peers' = [peers EXCEPT ![connectionRooms[c]][c] = [@ EXCEPT !.udp = addr]]
    /\ UNCHANGED <<now, pending, rooms, roomSeen, connectionRooms,
                   controlConnections, drawn, copies>>

(* route_data: the window is marked before the budget is charged, the room *)
(* is touched only when the budget allows, and the frame leaves only when  *)
(* the target can be reached.                                              *)
route_data(c, f, from, to, src, size) ==
    /\ Known(c)
    /\ ValidSource(PeerOf(c), from, src)
    /\ LET s == connectionRooms[c]
           p == PeerOf(c)
           fits == TrafficFits(p.budget, size, now)
           seen == [p EXCEPT !.frames = Observed(@, f)]
       IN
       IF ~Admits(p.frames, f)
         THEN UNCHANGED stateVars
         ELSE /\ peers' = [peers EXCEPT ![s][c] =
                              [seen EXCEPT !.budget = CheckTraffic(@, size, now)]]
              /\ roomSeen' = IF fits THEN [roomSeen EXCEPT ![s] = now] ELSE roomSeen
              /\ copies' = IF fits /\ Targets(s, to, FALSE) # {}
                             THEN [copies EXCEPT ![c][f] = @ + 1] ELSE copies
              /\ UNCHANGED <<pending, rooms, connectionRooms, controlConnections, drawn>>
    /\ UNCHANGED now

route_probe(c, from, src, size) ==
    /\ Known(c)
    /\ ValidSource(PeerOf(c), from, src)
    /\ PeerOf(c).probe
    /\ LET s == connectionRooms[c]
           b == PeerOf(c).budget
           charged == CheckTraffic(b, size, now)
           fits == TrafficFits(b, size, now)
       IN
       /\ peers' = [peers EXCEPT ![s][c] = [@ EXCEPT !.budget =
                       IF fits THEN CheckProbe(charged, now) ELSE charged]]
       /\ roomSeen' = IF fits /\ ProbeFits(charged, now)
                        THEN [roomSeen EXCEPT ![s] = now] ELSE roomSeen
    /\ UNCHANGED <<now, pending, rooms, connectionRooms, controlConnections, drawn, copies>>

(* Mutant: every detached peer has expired.                                *)
ExpiredDetached ==
    {c \in ConnIds : Known(c) /\ PeerOf(c).until # None}

Expired ==
    {c \in ConnIds : Known(c) /\ PeerOf(c).until # None /\ now >= PeerOf(c).until}

cleanup ==
    /\ pending' = [p \in ControlPeers |->
                      IF pending[p] # None /\ now - pending[p].issued >= ChallengeTtl
                        THEN None ELSE pending[p]]
    /\ RemoveFrom(Expired)
    /\ controlConnections' = [p \in ControlPeers |->
                                 IF p \in ControlsOf(Expired) THEN None
                                 ELSE controlConnections[p]]
    /\ rooms' = {s \in rooms : \/ \E c \in ConnIds \ Expired : peers[s][c] # None
                               \/ now - roomSeen[s] < RoomIdle}
    /\ UNCHANGED <<now, roomSeen, drawn, copies>>

tick ==
    /\ now < MaxTime
    /\ now' = now + 1
    /\ UNCHANGED stateVars

--------------------------------------------------------------------------------

Init ==
    /\ now = 0
    /\ pending = [p \in ControlPeers |-> None]
    /\ rooms = {}
    /\ roomSeen = [s \in Sessions |-> 0]
    /\ peers = [s \in Sessions |-> [c \in ConnIds |-> None]]
    /\ connectionRooms = [c \in ConnIds |-> None]
    /\ controlConnections = [p \in ControlPeers |-> None]
    /\ drawn = {}
    /\ copies = [c \in ConnIds |-> [f \in FrameIds |-> 0]]

Sources == [udp : {FALSE}, from : ControlPeers] \cup [udp : {TRUE}, from : Addrs]

Next ==
    \/ \E p \in ControlPeers, s \in Sessions, id \in SteamIds, profile \in Profiles,
          probe \in ProbeCaps : begin_join(p, s, id, profile, probe)
    \/ \E p \in ControlPeers, valid \in BOOLEAN : complete_join(p, valid)
    \/ \E p \in ControlPeers, c \in ConnIds, key \in ConnIds : resume(p, c, key)
    \/ \E p \in ControlPeers : detach(p)
    \/ \E p \in ControlPeers : stop(p)
    \/ \E c \in ConnIds, key \in ConnIds, addr \in Addrs : bind_udp_path(c, key, addr)
    \/ \E c \in ConnIds, f \in FrameIds, from, to \in SteamIds, src \in Sources,
          size \in Sizes : route_data(c, f, from, to, src, size)
    \/ \E c \in ConnIds, from \in SteamIds, src \in Sources, size \in Sizes :
          route_probe(c, from, src, size)
    \/ cleanup
    \/ tick

Spec == Init /\ [][Next]_vars

--------------------------------------------------------------------------------

(* Types of the Relay's tables; whatever a request or a frame carries, a   *)
(* method leaves them well formed.                                         *)
TypeOK ==
    /\ now \in Times
    /\ pending \in [ControlPeers -> PendingJoins \cup {None}]
    /\ rooms \subseteq Sessions
    /\ roomSeen \in [Sessions -> Times]
    /\ peers \in [Sessions -> [ConnIds -> Peers \cup {None}]]
    /\ connectionRooms \in [ConnIds -> Sessions \cup {None}]
    /\ controlConnections \in [ControlPeers -> ConnIds \cup {None}]
    /\ drawn \subseteq ConnIds
    /\ copies \in [ConnIds -> [FrameIds -> Nat]]

(* The room table and connection_rooms agree whatever the callers do: a    *)
(* connection is indexed under exactly the room that seats it, and no seat *)
(* outlives its room (cleanup drops rooms, remove_connection drops seats,  *)
(* complete_join adds both).  Every lookup of the routers relies on it.    *)
IndexAgreement ==
    \A s \in Sessions : \A c \in ConnIds :
        /\ peers[s][c] # None <=> connectionRooms[c] = s
        /\ peers[s][c] # None => s \in rooms

(* One seat per identity: two connections of one room never carry the same *)
(* SteamID64, although a player may hold several half-open joins.          *)
(* target_destination takes the first match, so a twin would steal frames. *)
OneSeatPerIdentity ==
    \A s \in Sessions : \A c, d \in Members(s) :
        peers[s][c].steam = peers[s][d].steam => c = d

(* The limits hold at every moment, not only when a challenge is issued:   *)
(* joins that began while there was room are checked again when they       *)
(* complete.                                                               *)
WithinLimits ==
    /\ Cardinality(rooms) <= MaxRooms
    /\ \A s \in Sessions : Cardinality(Members(s)) <= MaxPeers

(* A peer has a removal deadline exactly while it is Reconnecting, and the *)
(* deadline is at most one grace period away: no peer is immortal while    *)
(* detached, and none that resumed can still expire.                       *)
DeadlineWhileReconnecting ==
    \A s \in Sessions : \A c \in Members(s) :
        /\ peers[s][c].presence = "Reconnecting" <=> peers[s][c].until # None
        /\ peers[s][c].until # None => peers[s][c].until <= now + Grace

(* The rooms stay consistent: seats, index, identities, limits and         *)
(* deadlines agree with each other at every moment, whatever half-open     *)
(* joins, resumes, expiries and stops of several players come between.     *)
RoomsConsistent ==
    IndexAgreement /\ OneSeatPerIdentity /\ WithinLimits /\ DeadlineWhileReconnecting

(* At most once: no data frame of a connection is let through twice, even  *)
(* when the frame is repeated after the control connection was lost and    *)
(* the peer resumed.                                                       *)
AtMostOnce ==
    \A c \in ConnIds : \A f \in FrameIds : copies[c][f] <= 1

(* The grace period is honoured: a Reconnecting peer whose deadline lies   *)
(* ahead loses its seat only to an explicit Stop on a control connection   *)
(* bound to it or to the same identity joining again.                      *)
GraceHonoured ==
    [][\A s \in Sessions : \A c \in Members(s) :
          (/\ peers[s][c].presence = "Reconnecting"
           /\ now < peers[s][c].until
           /\ peers'[s][c] = None)
          => \/ \E p \in ControlPeers :
                   controlConnections[p] = c /\ controlConnections'[p] = None
             \/ \E d \in ConnIds \ {c} :
                   /\ peers[s][d] = None
                   /\ peers'[s][d] # None
                   /\ peers'[s][d].steam = peers[s][c].steam]_vars
================================================================================

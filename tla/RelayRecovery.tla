----------------------------- MODULE RelayRecovery -----------------------------
(***************************************************************************)
(* One Bridge Client and the Relay while control connections fail:         *)
(* relay_transport_task, recover_relay (session/data_plane.rs) and         *)
(* RelayTransport (relay_transport.rs) against the methods of RelayState.  *)
(*                                                                         *)
(* Every attempt opens a new control connection, named by the PeerId the   *)
(* Relay gives it.  A connection carries frames in order in each           *)
(* direction; it may deliver them arbitrarily late, also after the client  *)
(* gave the attempt up, and it ends with "Eof".  The Relay answers a frame *)
(* in one step: its queues are RelayServer's subject.  Each attempt binds  *)
(* a UDP socket of its own, so the address of attempt p is p.  Timers fire *)
(* on time.                                                                *)
(***************************************************************************)
EXTENDS RelayState, Sequences

CONSTANTS
    Room,               \* the session credential the client uses
    Player,             \* its SteamID64
    JoinTimeout,        \* RELAY_JOIN_TIMEOUT, 8 s
    AttemptTimeout,     \* RECOVERY_ATTEMPT_TIMEOUT, 5 s
    RecoveryDeadline,   \* RECOVERY_DEADLINE, 120 s
    Backoffs,           \* the delays between attempts, 250 ms to 2 s
    OutboundCapacity,   \* PACKET_QUEUE_CAPACITY; 0 leaves the game's packets out
    WireLimit,          \* bound on data frames waiting in a connection
    MaxRestarts         \* bound on Relay restarts

ASSUME RecoveryAssumption ==
    /\ Room \in Sessions /\ Player \in SteamIds
    /\ Addrs = ControlPeers
    /\ {JoinTimeout, AttemptTimeout, RecoveryDeadline} \subseteq Nat \ {0}
    /\ Backoffs \subseteq Nat
    /\ OutboundCapacity \in Nat
    /\ WireLimit \in Nat \ {0}
    /\ MaxRestarts \in Nat

VARIABLES
    profile,    \* the transport the user chose
    phase,      \* what the client is doing
    link,       \* control connection of the established transport
    dial,       \* control connection of the attempt under way
    conn,       \* connection id (and resume credential) of the transport
    fresh,      \* connection id of the attempt, once the Relay gave it
    since,      \* when recover_relay was entered
    due,        \* the timer of the attempt or of the sleep
    toRelay,    \* frames on their way to the Relay, per connection
    toClient,   \* frames on their way to the client, per connection
    hellos,     \* UdpPathHello datagrams in flight
    used,       \* control connections opened so far
    hung,       \* control connections whose tcp_task has ended
    outbound,   \* outbound_rx: for each packet, whether it came during an outage
    restarts    \* Relay restarts so far

clientVars == <<profile, phase, link, dial, conn, fresh, since, due>>

netVars == <<toRelay, toClient, hellos, used, hung>>

recoveryVars == <<vars, clientVars, netVars, outbound, restarts>>

Handshake == {"resume", "challenge", "proof", "token", "ready"}

Phases == Handshake \cup {"idle", "online", "attempt", "backoff", "ended"}

Recovering == phase \notin {"idle", "online", "ended"} /\ since # None

Frame(type, c) == [type |-> type, conn |-> c]

Eof == Frame("Eof", None)

(* A frame the client writes; nobody reads it when the task has ended.     *)
Wrote(p, frame) ==
    IF p \in hung THEN toRelay ELSE [toRelay EXCEPT ![p] = Append(@, frame)]

(* The client drops the connections in ps: what it wrote still arrives.    *)
Closed(ps) == [p \in ControlPeers |->
                  IF p \in ps \ hung THEN Append(toRelay[p], Eof) ELSE toRelay[p]]

--------------------------------------------------------------------------------
(* The client's attempts.                                                  *)

(* connect_session: connect, then JoinBegin.                               *)
connect_session ==
    /\ phase = "idle"
    /\ \E p \in ControlPeers \ used :
          /\ used' = used \cup {p}
          /\ dial' = p
          /\ toRelay' = Wrote(p, Frame("JoinBegin", None))
    /\ phase' = "challenge"
    /\ due' = now + JoinTimeout
    /\ UNCHANGED <<vars, link, conn, fresh, since, toClient, hellos, hung, outbound, restarts>>

(* The head of recover_relay's loop: reconnect under a timeout.  The       *)
(* transport that failed stays open meanwhile.                             *)
reconnect ==
    /\ phase = "attempt"
    /\ \E p \in ControlPeers \ used :
          /\ used' = used \cup {p}
          /\ dial' = p
          /\ toRelay' = Wrote(p, Frame("Resume", conn))
    /\ phase' = "resume"
    /\ due' = now + AttemptTimeout
    /\ UNCHANGED <<vars, link, conn, fresh, since, toClient, hellos, hung, outbound, restarts>>

(* Mutant: the deadline is forgotten.                                      *)
AttemptFailedForever ==
    /\ toRelay' = Closed({dial} \ {None})
    /\ IF since = None
         THEN phase' = "ended" /\ UNCHANGED <<link, due>>
         ELSE /\ phase' = "backoff"
              /\ \E delay \in Backoffs : due' = now + delay
              /\ UNCHANGED link
    /\ dial' = None
    /\ fresh' = None
    /\ UNCHANGED <<vars, conn, since, hellos, used, hung, outbound, restarts>>

(* An attempt failed: its connection is dropped; recovery sleeps, or gives *)
(* up once the deadline has passed; a first join just fails.               *)
AttemptFailed ==
    /\ IF since = None \/ now - since >= RecoveryDeadline
         THEN /\ phase' = "ended"
              /\ toRelay' = Closed({dial, link} \ {None})
              /\ link' = None
              /\ UNCHANGED due
         ELSE /\ phase' = "backoff"
              /\ toRelay' = Closed({dial} \ {None})
              /\ \E delay \in Backoffs :
                    due' = IF delay < RecoveryDeadline - (now - since) THEN now + delay
                           ELSE since + RecoveryDeadline
              /\ UNCHANGED link
    /\ dial' = None
    /\ fresh' = None
    /\ UNCHANGED <<vars, conn, since, hellos, used, hung, outbound, restarts>>

(* The Relay cannot be reached, or the connection dies in the bootstrap.   *)
ConnectFails ==
    /\ phase = "attempt"
    /\ AttemptFailed
    /\ UNCHANGED toClient

AttemptTimesOut ==
    /\ phase \in Handshake
    /\ now >= due
    /\ AttemptFailed
    /\ UNCHANGED toClient

(* The replacement takes over; the old transport is dropped.               *)
Established(c) ==
    /\ phase' = "online"
    /\ link' = dial
    /\ dial' = None
    /\ conn' = c
    /\ fresh' = None
    /\ since' = None
    /\ toRelay' = Closed({link} \ {None})
    /\ UNCHANGED <<due, hellos>>

(* JoinReady or ResumeReady: a UDP transport has its path validated first. *)
Seated(c) ==
    IF profile = "Udp"
      THEN /\ phase' = "token"
           /\ fresh' = c
           /\ toRelay' = Wrote(dial, Frame("UdpPathRequest", None))
           /\ UNCHANGED <<link, dial, conn, since, due, hellos>>
      ELSE Established(c)

Asks(next, type) ==
    /\ phase' = next
    /\ toRelay' = Wrote(dial, Frame(type, None))
    /\ UNCHANGED <<link, dial, conn, fresh, since, due, hellos>>

(* The answers reconnect, complete_relay_join and validate_udp_path wait   *)
(* for.  A rejected resume goes on with a full join on the connection.     *)
Answers ==
    [resume |-> {"ResumeReady", "ResumeRejected"}, challenge |-> {"AdmissionChallenge"},
     proof |-> {"JoinReady"}, token |-> {"UdpPathToken"}, ready |-> {"UdpPathReady"}]

ClientReads ==
    /\ phase \in Handshake
    /\ toClient[dial] # <<>>
    /\ LET frame == Head(toClient[dial]) IN
       /\ toClient' = [toClient EXCEPT ![dial] = Tail(@)]
       /\ \/ frame.type \in {"Error", "Eof"} /\ AttemptFailed
          \/ /\ frame.type \in Answers[phase]
             /\ CASE frame.type \in {"ResumeReady", "JoinReady"} -> Seated(frame.conn)
                  [] frame.type = "ResumeRejected" -> Asks("challenge", "JoinBegin")
                  [] frame.type = "AdmissionChallenge" -> Asks("proof", "JoinProof")
                  [] frame.type = "UdpPathToken" ->
                        /\ phase' = "ready"
                        /\ hellos' = hellos \cup {[conn |-> fresh, addr |-> dial]}
                        /\ UNCHANGED <<link, dial, conn, fresh, since, due, toRelay>>
                  [] frame.type = "UdpPathReady" -> Established(fresh)
             /\ UNCHANGED <<vars, used, hung, outbound, restarts>>
          \/ /\ frame.type \notin Answers[phase] \cup {"Error", "Eof"}
             /\ UNCHANGED <<vars, clientVars, toRelay, hellos, used, hung, outbound, restarts>>

Wake ==
    /\ phase = "backoff"
    /\ now >= due
    /\ phase' = "attempt"
    /\ UNCHANGED <<vars, link, dial, conn, fresh, since, due, netVars, outbound, restarts>>

--------------------------------------------------------------------------------
(* The established transport.                                              *)

(* A send fails, or the receiver returns an error: recover_relay.          *)
Lose ==
    /\ phase = "online"
    /\ phase' = "attempt"
    /\ since' = now
    /\ UNCHANGED <<vars, link, dial, conn, fresh, due, netVars, outbound, restarts>>

(* What the online client reads has no bearing on recovery, but for Eof.   *)
OnlineReads ==
    /\ phase = "online"
    /\ toClient[link] # <<>>
    /\ toClient' = [toClient EXCEPT ![link] = Tail(@)]
    /\ IF Head(toClient[link]) = Eof
         THEN phase' = "attempt" /\ since' = now
         ELSE UNCHANGED <<phase, since>>
    /\ UNCHANGED <<vars, link, dial, conn, fresh, due, toRelay, hellos, used, hung, outbound,
                   restarts>>

(* hook_in_task: a packet of the game, dropped when the queue is full.     *)
HookPacket ==
    /\ phase \notin {"idle", "ended"} /\ conn # None
    /\ Len(outbound) < OutboundCapacity
    /\ outbound' = Append(outbound, phase # "online")
    /\ UNCHANGED <<vars, clientVars, netVars, restarts>>

(* send_data_datagram; what the Relay does with a datagram is RelayServer's *)
(* subject.                                                                *)
SendPacket ==
    /\ phase = "online"
    /\ outbound # <<>>
    /\ Len(toRelay[link]) < WireLimit
    /\ outbound' = Tail(outbound)
    /\ toRelay' = IF profile = "Tcp" THEN Wrote(link, Frame("Data", conn)) ELSE toRelay
    /\ UNCHANGED <<vars, clientVars, toClient, hellos, used, hung, restarts>>

(* Only the sleep between attempts drains the queue.                       *)
DrainPacket ==
    /\ phase = "backoff"
    /\ outbound # <<>>
    /\ outbound' = Tail(outbound)
    /\ UNCHANGED <<vars, clientVars, netVars, restarts>>

(* Cancellation: Stop is sent on an established transport only; in the     *)
(* middle of a recovery everything is just dropped.                        *)
Cancel ==
    /\ phase # "ended"
    /\ phase' = "ended"
    /\ toRelay' = [p \in ControlPeers |->
                      IF p \notin hung /\ p = link /\ phase = "online"
                        THEN toRelay[p] \o <<Frame("Stop", None), Eof>>
                        ELSE Closed({dial, link} \ {None})[p]]
    /\ link' = None
    /\ dial' = None
    /\ UNCHANGED <<vars, conn, fresh, since, due, toClient, hellos, used, hung, outbound, restarts>>

--------------------------------------------------------------------------------
(* The Relay's side of a connection.                                       *)

Reply(p, frame) == toClient' = [toClient EXCEPT ![p] = Append(@, frame)]

(* The tcp_task of p ends; a client that still listens reads Eof.          *)
Ends(p) ==
    /\ toRelay' = [toRelay EXCEPT ![p] = <<>>]
    /\ hung' = hung \cup {p}
    /\ Reply(p, Eof)

Hangs(p) ==
    /\ IF controlConnections[p] = None THEN UNCHANGED vars ELSE detach(p)
    /\ Ends(p)

(* Mutant: a closed connection is not detached.                            *)
RelayReadsEofNoDetach(p) ==
    /\ toRelay[p] # <<>> /\ Head(toRelay[p]).type = "Eof"
    /\ Ends(p)
    /\ UNCHANGED <<vars, clientVars, hellos, used, outbound, restarts>>

RelayReadsEof(p) ==
    /\ toRelay[p] # <<>> /\ Head(toRelay[p]).type = "Eof"
    /\ Hangs(p)
    /\ UNCHANGED <<clientVars, hellos, used, outbound, restarts>>

RelayReadsStop(p) ==
    /\ toRelay[p] # <<>> /\ Head(toRelay[p]).type = "Stop"
    /\ IF controlConnections[p] = None THEN UNCHANGED vars ELSE stop(p)
    /\ Ends(p)
    /\ UNCHANGED <<clientVars, hellos, used, outbound, restarts>>

(* A data frame that does not belong to the connection ends it.            *)
RelayReadsData(p) ==
    /\ toRelay[p] # <<>> /\ Head(toRelay[p]).type = "Data"
    /\ LET c == Head(toRelay[p]).conn IN
       IF Known(c) /\ ValidSource(PeerOf(c), Player, [udp |-> FALSE, from |-> p])
         THEN /\ toRelay' = [toRelay EXCEPT ![p] = Tail(@)]
              /\ UNCHANGED <<vars, toClient, hung>>
         ELSE Hangs(p)
    /\ UNCHANGED <<clientVars, hellos, used, outbound, restarts>>

RelayReadsResume(p) ==
    /\ toRelay[p] # <<>> /\ Head(toRelay[p]).type = "Resume"
    /\ toRelay' = [toRelay EXCEPT ![p] = Tail(@)]
    /\ LET c == Head(toRelay[p]).conn IN
       IF Resumable(c, c)
         THEN resume(p, c, c) /\ Reply(p, Frame("ResumeReady", c))
         ELSE UNCHANGED vars /\ Reply(p, Frame("ResumeRejected", c))
    /\ UNCHANGED <<clientVars, hellos, used, hung, outbound, restarts>>

RelayReadsJoinBegin(p) ==
    /\ toRelay[p] # <<>> /\ Head(toRelay[p]).type = "JoinBegin"
    /\ toRelay' = [toRelay EXCEPT ![p] = Tail(@)]
    /\ IF HasCapacity(Room, Player)
         THEN /\ \E probe \in ProbeCaps : begin_join(p, Room, Player, profile, probe)
              /\ Reply(p, Frame("AdmissionChallenge", None))
         ELSE UNCHANGED vars /\ Reply(p, Frame("Error", None))
    /\ UNCHANGED <<clientVars, hellos, used, hung, outbound, restarts>>

RelayReadsJoinProof(p) ==
    /\ toRelay[p] # <<>> /\ Head(toRelay[p]).type = "JoinProof"
    /\ toRelay' = [toRelay EXCEPT ![p] = Tail(@)]
    /\ IF pending[p] = None
         THEN UNCHANGED vars /\ Reply(p, Frame("Error", None))
         ELSE /\ complete_join(p, TRUE)
              /\ Reply(p, IF Refused(p, TRUE) THEN Frame("Error", None)
                          ELSE Frame("JoinReady", controlConnections'[p]))
    /\ UNCHANGED <<clientVars, hellos, used, hung, outbound, restarts>>

RelayReadsPathRequest(p) ==
    /\ toRelay[p] # <<>> /\ Head(toRelay[p]).type = "UdpPathRequest"
    /\ toRelay' = [toRelay EXCEPT ![p] = Tail(@)]
    /\ LET c == controlConnections[p] IN
       Reply(p, IF c # None /\ Known(c) THEN Frame("UdpPathToken", c)
                ELSE Frame("Error", None))
    /\ UNCHANGED <<vars, clientVars, hellos, used, hung, outbound, restarts>>

(* udp_task: the path is bound, and confirmed to whoever owns the peer.    *)
HelloArrives(h) ==
    /\ hellos' = hellos \ {h}
    /\ IF Known(h.conn)
         THEN /\ bind_udp_path(h.conn, h.conn, h.addr)
              /\ IF PeerOf(h.conn).control \in hung THEN UNCHANGED toClient
                 ELSE Reply(PeerOf(h.conn).control, Frame("UdpPathReady", h.conn))
         ELSE UNCHANGED <<vars, toClient>>
    /\ UNCHANGED <<clientVars, toRelay, used, hung, outbound, restarts>>

HelloLost(h) ==
    /\ hellos' = hellos \ {h}
    /\ UNCHANGED <<vars, clientVars, toRelay, toClient, used, hung, outbound, restarts>>

(* The network cuts a connection: some of what was on its way is lost.     *)
Cut(p) ==
    /\ p \in {link, dial}
    /\ p \notin hung
    /\ ~ \E i \in DOMAIN toClient[p] : toClient[p][i] = Eof
    /\ \E k \in 0 .. Len(toRelay[p]) :
          toRelay' = [toRelay EXCEPT ![p] = Append(SubSeq(@, 1, k), Eof)]
    /\ toClient' = [toClient EXCEPT ![p] = <<Eof>>]
    /\ UNCHANGED <<vars, clientVars, hellos, used, hung, outbound, restarts>>

(* The Relay process restarts: its tables and its connections are gone.    *)
RelayRestarts ==
    /\ restarts < MaxRestarts
    /\ restarts' = restarts + 1
    /\ pending' = [p \in ControlPeers |-> None]
    /\ rooms' = {}
    /\ roomSeen' = [s \in Sessions |-> now]
    /\ peers' = [s \in Sessions |-> [c \in ConnIds |-> None]]
    /\ connectionRooms' = [c \in ConnIds |-> None]
    /\ controlConnections' = [p \in ControlPeers |-> None]
    /\ toRelay' = [p \in ControlPeers |-> <<>>]
    /\ toClient' = [p \in ControlPeers |-> IF p \in used THEN <<Eof>> ELSE <<>>]
    /\ hung' = used
    /\ UNCHANGED <<now, drawn, copies, clientVars, hellos, used, outbound>>

SweepRooms == cleanup /\ UNCHANGED <<clientVars, netVars, outbound, restarts>>

(* Time passes unless a timer of the client is due.                        *)
Passes ==
    /\ phase # "attempt"
    /\ phase \in Handshake \cup {"backoff"} => now < due
    /\ tick
    /\ UNCHANGED <<clientVars, netVars, outbound, restarts>>

--------------------------------------------------------------------------------

RecoveryInit ==
    /\ Init
    /\ profile \in Profiles
    /\ phase = "idle"
    /\ link = None /\ dial = None /\ conn = None /\ fresh = None /\ since = None
    /\ due = 0
    /\ toRelay = [p \in ControlPeers |-> <<>>]
    /\ toClient = [p \in ControlPeers |-> <<>>]
    /\ hellos = {}
    /\ used = {}
    /\ hung = {}
    /\ outbound = <<>>
    /\ restarts = 0

ClientStep ==
    \/ reconnect
    \/ ConnectFails
    \/ AttemptTimesOut
    \/ ClientReads
    \/ Wake

RelayStep(p) ==
    \/ RelayReadsEof(p)
    \/ RelayReadsStop(p)
    \/ RelayReadsData(p)
    \/ RelayReadsResume(p)
    \/ RelayReadsJoinBegin(p)
    \/ RelayReadsJoinProof(p)
    \/ RelayReadsPathRequest(p)

RecoveryStep ==
    \/ connect_session
    \/ ClientStep
    \/ Lose
    \/ OnlineReads
    \/ HookPacket
    \/ SendPacket
    \/ DrainPacket
    \/ Cancel
    \/ \E p \in ControlPeers : RelayStep(p)
    \/ \E h \in hellos : HelloArrives(h)
    \/ \E h \in hellos : HelloLost(h)
    \/ \E p \in ControlPeers : Cut(p)
    \/ RelayRestarts
    \/ SweepRooms
    \/ Passes

RecoveryNext == RecoveryStep /\ UNCHANGED profile

RecoverySpec == RecoveryInit /\ [][RecoveryNext]_recoveryVars

--------------------------------------------------------------------------------

(* Recovery ends on time: the deadline is only looked at between attempts, *)
(* so one more attempt may follow it, and no more than that.               *)
RecoveryBounded ==
    Recovering => now - since <= RecoveryDeadline + AttemptTimeout

(* "never replayed after recovery": what the online client is about to     *)
(* send did not come while the path was down.                              *)
NeverReplayed ==
    phase = "online" /\ outbound # <<>> => ~Head(outbound)

(* Nothing the client reads or the Relay has yet to read is on its way.    *)
Settled ==
    /\ hellos = {}
    /\ \A p \in ControlPeers : toRelay[p] = <<>>
    /\ toClient[link] = <<>>

(* "Every session has one reliable TCP control connection": once nothing   *)
(* is on its way, the seat of a client that is online is Connected and     *)
(* owned by the connection the client uses.                                *)
OnlineSeatIsMine ==
    phase = "online" /\ Settled =>
        /\ Known(conn)
        /\ PeerOf(conn).presence = "Connected"
        /\ PeerOf(conn).control = link

(* A client that is gone leaves no seat behind, wherever in a recovery the *)
(* end met it: once the Relay has read what the client ever wrote, no seat *)
(* is left that the sweeper would not remove, also when the Resume or the  *)
(* proof of an abandoned attempt was read last.                            *)
GoneClientLeavesNoSeat ==
    (phase = "ended" /\ \A p \in ControlPeers : toRelay[p] = <<>>) =>
        \A c \in Members(Room) : peers[Room][c].until # None
================================================================================

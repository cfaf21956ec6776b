------------------------------- MODULE LanLinks -------------------------------
(***************************************************************************)
(* Membership of a LAN room (client/lan/membership.rs, link.rs, control.rs *)
(* and path/lifecycle.rs).  Every node keeps one preferred control link to *)
(* each other node.  Both ends may dial at once: the link with the lower   *)
(* LinkKey wins, and each end finds that out by itself.  The membership    *)
(* mutex is released before the path manager is told of a link, so the     *)
(* calls of two links can overtake each other; epochs put them in order.   *)
(*                                                                         *)
(* A node is a PeerIdentity: a Steam id and the instance of one room       *)
(* handle.  A PeerDescriptor is its identity and one control candidate.    *)
(* Each TCP connection is a link id; ids are random, so a dial takes any   *)
(* unused one.  Instants are left out: a recovery deadline is kept as a    *)
(* fact and may be found expired at any maintenance tick, and a running    *)
(* link passes on what its sender knows at any moment (broadcast_snapshot  *)
(* and the anti-entropy tick), never an older snapshot.  Every node holds  *)
(* the credential of the room and speaks the protocol.                     *)
(***************************************************************************)
EXTENDS Naturals, FiniteSets

CONSTANTS
    Absent,
    Nodes,       \* PeerIdentity values, in their order
    Steam,       \* node -> steam_id64
    Reach,       \* who can open a connection to whom: firewalls may stop one side
    Links,       \* LinkId values, in their order
    MaxLanPeers, \* MAX_PEERS
    MaxFaults    \* resets, dials that time out, nodes that stop or crash

ASSUME LanAssumption ==
    /\ Nodes \subseteq Nat /\ Links \subseteq Nat
    /\ DOMAIN Steam = Nodes
    /\ Reach \subseteq Nodes \X Nodes
    /\ MaxLanPeers \in Nat /\ MaxFaults \in Nat
    /\ Absent \notin Nat /\ Absent \notin [from : Nodes, to : Nodes]

VARIABLES
    up,         \* "off", "up", "stopping" (cancellation cancelled), "down"
    hints, active, dialing, deadlines, nextEpoch,   \* Membership, by node
    tcp,        \* TCP connections: [from, to] or Absent
    end,        \* where the task that holds an end of a connection is
    epoch,      \* lifecycle epoch an end was registered with
    answer,     \* the reply to JoinRequest on its way to the dialer
    goodbye,    \* Leave on its way to a node
    path,       \* PathManager.peers: the epoch of the path, 0 when absent
    latest,     \* PathManager.latest_epochs, 0 when absent
    broken,     \* connections that were reset
    disturbed   \* history: connections reset or given up by their dialer

membership == <<hints, active, dialing, deadlines, nextEpoch>>
wires == <<answer, goodbye>>
paths == <<path, latest>>
faults == <<broken, disturbed>>
linksVars == <<up, membership, tcp, end, epoch, wires, paths, faults>>

Stages == {"none", "asking", "registered", "running", "left", "lost", "closed"}

JoinAccepted(peers) == [ok |-> TRUE, peers |-> peers]

Rejected == [ok |-> FALSE, peers |-> {}]

(* The other end of connection l. *)
Peer(n, l) == IF tcp[l].from = n THEN tcp[l].to ELSE tcp[l].from

Between(l, n, m) == tcp[l] # Absent /\ {tcp[l].from, tcp[l].to} = {n, m}

FaultLeft ==
    Cardinality(disturbed) + Cardinality({n \in Nodes : up[n] \in {"stopping", "down"}})
        < MaxFaults

Put(f, n, x, v) == [f EXCEPT ![n][x] = v]

--------------------------------------------------------------------------------
(* Membership (membership.rs). *)

SelfConnection(n, m) == Steam[m] = Steam[n]

DuplicateSteamIdentity(n, m) ==
    \E k \in Nodes \ {m} : active[n][k] # Absent /\ Steam[k] = Steam[m]

(* Mutant: the link that was there first is kept. *)
FirstKept(n, m, l) == active[n][m] # Absent

DuplicateLost(n, m, l) == active[n][m] # Absent /\ active[n][m] <= l

Accepted(n, m, l) ==
    ~SelfConnection(n, m) /\ ~DuplicateSteamIdentity(n, m) /\ ~DuplicateLost(n, m, l)

snapshot(n) ==
    LET peers == {n} \cup {m \in Nodes : active[n][m] # Absent} \cup hints[n]
    IN  {p \in peers : Cardinality({q \in peers : q < p}) < MaxLanPeers}

Mergeable(n, peers) ==
    {p \in peers : /\ ~SelfConnection(n, p)
                   /\ active[n][p] = Absent
                   /\ ~DuplicateSteamIdentity(n, p)}

(* The highest hints without a link go first. *)
trim_hints(n, h) ==
    LET spare == {p \in h : active[n][p] = Absent}
    IN  {p \in h : p \in spare => Cardinality({q \in spare : q > p}) + MaxLanPeers
                                     >= Cardinality(h) + 1}

Merged(n, peers) == trim_hints(n, hints[n] \cup Mergeable(n, peers))

(* register of link l to m, when Accepted; h are the hints it starts from. *)
register(n, m, l, h) ==
    /\ active' = Put(active, n, m, l)
    /\ epoch' = Put(epoch, n, l, nextEpoch[n])
    /\ nextEpoch' = [nextEpoch EXCEPT ![n] = @ + 1]
    /\ hints' = [hints EXCEPT ![n] = {p \in h \cup {m} : Steam[p] = Steam[m] => p = m}]
    /\ deadlines' = [deadlines EXCEPT ![n] = @ \ {m}]
    /\ dialing' = [dialing EXCEPT ![n] = @ \ {m}]

begin_dial(n, m) == m # n /\ active[n][m] = Absent /\ m \notin dialing[n]

end_dial(n, m, failed) ==
    /\ dialing' = [dialing EXCEPT ![n] = @ \ {m}]
    /\ deadlines' = [deadlines EXCEPT ![n] = IF failed THEN @ \cup {m} ELSE @]

remove_link(n, m, graceful) ==
    /\ active' = Put(active, n, m, Absent)
    /\ hints' = [hints EXCEPT ![n] = IF graceful THEN @ \ {m} ELSE @]
    /\ deadlines' = [deadlines EXCEPT ![n] = IF graceful THEN @ \ {m} ELSE @ \cup {m}]
    /\ UNCHANGED <<dialing, nextEpoch>>

--------------------------------------------------------------------------------
(* What the path manager is told of a link (path/lifecycle.rs).            *)

(* Mutant: the last call wins. *)
ConnectedInAnyOrder(n, m, l) ==
    /\ path' = Put(path, n, m, epoch[n][l])
    /\ latest' = Put(latest, n, m, epoch[n][l])

peer_connected(n, m, l) ==
    IF latest[n][m] >= epoch[n][l]
      THEN UNCHANGED paths
      ELSE /\ path' = Put(path, n, m, epoch[n][l])
           /\ latest' = Put(latest, n, m, epoch[n][l])

peer_disconnected(n, m, l) ==
    IF latest[n][m] > epoch[n][l]
      THEN UNCHANGED paths
      ELSE /\ latest' = Put(latest, n, m, epoch[n][l])
           /\ path' = IF path[n][m] = epoch[n][l] THEN Put(path, n, m, 0) ELSE path

--------------------------------------------------------------------------------
(* Tasks (link.rs). *)

Become(n, l, state) == end' = Put(end, n, l, state)

(* LanControlPlane::create; a room handle draws an instance of its own. *)
Start(n) ==
    /\ up[n] = "off"
    /\ \A k \in Nodes : Steam[k] = Steam[n] => up[k] # "up"
    /\ up' = [up EXCEPT ![n] = "up"]
    /\ UNCHANGED <<membership, tcp, end, epoch, wires, paths, faults>>

(* establish_outbound: begin_dial, then a connection and JoinRequest.  The *)
(* user joins with a code of m, or m was discovered, lost or is retried.   *)
Dial(n, m) ==
    /\ up[n] = "up" /\ up[m] # "off" /\ Steam[m] # Steam[n]
    /\ begin_dial(n, m)
    /\ IF up[m] = "up" /\ <<n, m>> \in Reach
         THEN /\ dialing' = [dialing EXCEPT ![n] = @ \cup {m}]
              /\ \E l \in Links :
                    /\ tcp[l] = Absent
                    /\ tcp' = [tcp EXCEPT ![l] = [from |-> n, to |-> m]]
                    /\ Become(n, l, "asking")
              /\ UNCHANGED deadlines
         ELSE /\ end_dial(n, m, TRUE)
              /\ UNCHANGED <<tcp, end>>
    /\ UNCHANGED <<up, hints, active, nextEpoch, epoch, wires, paths, faults>>

(* accept_inbound_join up to register_link's first half. *)
Accept(n, l) ==
    /\ up[n] \in {"up", "stopping"}
    /\ tcp[l] # Absent /\ tcp[l].to = n /\ end[n][l] = "none"
    /\ LET m == tcp[l].from IN
         IF Accepted(n, m, l)
           THEN /\ register(n, m, l, hints[n])
                /\ Become(n, l, "registered")
                /\ UNCHANGED answer
           ELSE /\ answer' = [answer EXCEPT ![l] =
                              IF end[m][l] = "asking" THEN Rejected ELSE Absent]
                /\ Become(n, l, "closed")
                /\ UNCHANGED <<membership, epoch>>
    /\ UNCHANGED <<up, tcp, goodbye, paths, faults>>

(* The rest of accept_inbound_join: tell the path manager, answer, and run *)
(* the link.  An answer that cannot be sent ends the task there and then.  *)
Welcome(n, l) ==
    /\ end[n][l] = "registered" /\ tcp[l].to = n
    /\ peer_connected(n, tcp[l].from, l)
    /\ IF l \in broken
         THEN /\ Become(n, l, "closed")
              /\ UNCHANGED answer
         ELSE /\ answer' = [answer EXCEPT ![l] =
                              IF end[tcp[l].from][l] # "asking" THEN Absent
                              ELSE JoinAccepted(snapshot(n))]
              /\ Become(n, l, "running")
    /\ UNCHANGED <<up, membership, tcp, epoch, goodbye, faults>>

(* establish_outbound_endpoint on JoinAccepted. *)
Admitted(n, l) ==
    /\ end[n][l] = "asking" /\ answer[l] # Absent /\ answer[l].ok
    /\ LET m == tcp[l].to
           peers == answer[l].peers
       IN  /\ m \in peers
           /\ IF Accepted(n, m, l)
                THEN /\ register(n, m, l, Merged(n, peers))
                     /\ Become(n, l, "registered")
                ELSE /\ end_dial(n, m, ~DuplicateLost(n, m, l))
                     /\ hints' = [hints EXCEPT ![n] = Merged(n, peers)]
                     /\ Become(n, l, "closed")
                     /\ UNCHANGED <<active, nextEpoch, epoch>>
    /\ answer' = [answer EXCEPT ![l] = Absent]
    /\ UNCHANGED <<up, tcp, goodbye, paths, faults>>

(* The rest of the dial: tell the path manager, spawn run_link, end_dial.  *)
Linked(n, l) ==
    /\ end[n][l] = "registered" /\ tcp[l].from = n
    /\ peer_connected(n, tcp[l].to, l)
    /\ end_dial(n, tcp[l].to, FALSE)
    /\ Become(n, l, "running")
    /\ UNCHANGED <<up, hints, active, nextEpoch, tcp, epoch, answer, goodbye, faults>>

(* The dial fails: JoinRejected, or the connection went away. *)
DialRefused(n, l) ==
    /\ end[n][l] = "asking"
    /\ \/ answer[l] # Absent /\ (answer[l].ok => tcp[l].to \notin answer[l].peers)
       \/ l \in broken
       \/ /\ answer[l] = Absent /\ up[tcp[l].to] # "up"
          /\ end[tcp[l].to][l] \in {"none", "closed"}
    /\ end_dial(n, tcp[l].to, TRUE)
    /\ Become(n, l, "closed")
    /\ answer' = [answer EXCEPT ![l] = Absent]
    /\ UNCHANGED <<up, hints, active, nextEpoch, tcp, epoch, goodbye, paths, faults>>

(* CONTROL_TOTAL_TIMEOUT; the acceptor learns of it only from its stream.  *)
TimedOut(n, l) ==
    /\ end[n][l] = "asking" /\ FaultLeft
    /\ end_dial(n, tcp[l].to, TRUE)
    /\ Become(n, l, "closed")
    /\ answer' = [answer EXCEPT ![l] = Absent]
    /\ disturbed' = disturbed \cup {l}
    /\ UNCHANGED <<up, hints, active, nextEpoch, tcp, epoch, goodbye, paths, broken>>

--------------------------------------------------------------------------------
(* run_link. *)

(* PeerSnapshot. *)
HearSnapshot(n, l) ==
    /\ end[n][l] = "running" /\ end[Peer(n, l)][l] = "running"
    /\ hints' = [hints EXCEPT ![n] = Merged(n, snapshot(Peer(n, l)))]
    /\ UNCHANGED <<up, active, dialing, deadlines, nextEpoch, tcp, end, epoch, wires,
                   paths, faults>>

(* The loop is left; a link that was replaced has nothing to undo. *)
Leaves(n, l, graceful) ==
    /\ IF active[n][Peer(n, l)] = l
         THEN /\ remove_link(n, Peer(n, l), graceful)
              /\ Become(n, l, IF graceful THEN "left" ELSE "lost")
              /\ UNCHANGED epoch
         ELSE /\ UNCHANGED membership
              /\ Become(n, l, "closed")
              /\ epoch' = Put(epoch, n, l, 0)
    /\ UNCHANGED <<up, tcp, answer, paths, faults>>

HearLeave(n, l) ==
    /\ end[n][l] = "running" /\ goodbye[n][l]
    /\ Leaves(n, l, TRUE)
    /\ goodbye' = Put(goodbye, n, l, FALSE)

(* shared.cancellation: say Leave and go. *)
SayLeave(n, l) ==
    /\ end[n][l] = "running" /\ up[n] = "stopping"
    /\ Leaves(n, l, TRUE)
    /\ goodbye' = IF l \in broken THEN goodbye ELSE Put(goodbye, Peer(n, l), l, TRUE)

(* link_cancellation, which register's caller cancels on the replaced link. *)
Replaced(n, l) == end[n][l] = "running" /\ active[n][Peer(n, l)] # l

Cancelled(n, l) ==
    /\ end[n][l] = "running" /\ Replaced(n, l)
    /\ Leaves(n, l, FALSE)
    /\ UNCHANGED goodbye

(* The stream ends: the other end let go of it, or it was reset. *)
Ended(n, l) ==
    /\ end[n][l] = "running"
    /\ \/ l \in broken
       \/ end[Peer(n, l)][l] = "closed" /\ ~goodbye[n][l]
    /\ Leaves(n, l, FALSE)
    /\ goodbye' = Put(goodbye, n, l, FALSE)

(* After remove_link: tell the path manager. *)
Gone(n, l) ==
    /\ end[n][l] \in {"left", "lost"}
    /\ peer_disconnected(n, Peer(n, l), l)
    /\ Become(n, l, "closed")
    /\ epoch' = Put(epoch, n, l, 0)
    /\ UNCHANGED <<up, membership, tcp, answer, goodbye, faults>>

--------------------------------------------------------------------------------
(* run_membership_dialer's maintenance: expire, then retry_candidates,     *)
(* which Dial stands for.                                                  *)

Maintain(n, expired) ==
    /\ up[n] = "up" /\ expired \subseteq deadlines[n] /\ expired # {}
    /\ deadlines' = [deadlines EXCEPT ![n] = @ \ expired]
    /\ hints' = [hints EXCEPT ![n] = @ \ expired]
    /\ dialing' = [dialing EXCEPT ![n] = @ \ expired]
    /\ UNCHANGED <<up, active, nextEpoch, tcp, end, epoch, wires, paths, faults>>

(* LanControlPlane::stop *)
Stop(n) ==
    /\ up[n] = "up" /\ FaultLeft
    /\ up' = [up EXCEPT ![n] = "stopping"]
    /\ UNCHANGED <<membership, tcp, end, epoch, wires, paths, faults>>

--------------------------------------------------------------------------------
(* The environment. *)

(* The process of n is killed: its connections are reset. *)
Crash(n) ==
    /\ up[n] = "up" /\ FaultLeft
    /\ up' = [up EXCEPT ![n] = "down"]
    /\ end' = [end EXCEPT ![n] = [l \in Links |-> IF @[l] = "none" THEN "none" ELSE "closed"]]
    /\ broken' = broken \cup {l \in Links : tcp[l] # Absent /\ n \in {tcp[l].from, tcp[l].to}}
    /\ hints' = [hints EXCEPT ![n] = {}]
    /\ dialing' = [dialing EXCEPT ![n] = {}]
    /\ deadlines' = [deadlines EXCEPT ![n] = {}]
    /\ active' = [active EXCEPT ![n] = [m \in Nodes |-> Absent]]
    /\ path' = [path EXCEPT ![n] = [m \in Nodes |-> 0]]
    /\ UNCHANGED <<nextEpoch, tcp, epoch, wires, latest, disturbed>>

Reset(l) ==
    /\ tcp[l] # Absent /\ l \notin broken
    /\ FaultLeft
    /\ broken' = broken \cup {l}
    /\ disturbed' = disturbed \cup {l}
    /\ UNCHANGED <<up, membership, tcp, end, epoch, wires, paths>>

LinksInit ==
    /\ up = [n \in Nodes |-> "off"]
    /\ hints = [n \in Nodes |-> {}]
    /\ active = [n \in Nodes |-> [m \in Nodes |-> Absent]]
    /\ dialing = [n \in Nodes |-> {}]
    /\ deadlines = [n \in Nodes |-> {}]
    /\ nextEpoch = [n \in Nodes |-> 1]
    /\ tcp = [l \in Links |-> Absent]
    /\ end = [n \in Nodes |-> [l \in Links |-> "none"]]
    /\ epoch = [n \in Nodes |-> [l \in Links |-> 0]]
    /\ answer = [l \in Links |-> Absent]
    /\ goodbye = [n \in Nodes |-> [l \in Links |-> FALSE]]
    /\ path = [n \in Nodes |-> [m \in Nodes |-> 0]]
    /\ latest = [n \in Nodes |-> [m \in Nodes |-> 0]]
    /\ broken = {} /\ disturbed = {}

LinksNext ==
    \/ \E n \in Nodes : Start(n) \/ Stop(n) \/ Crash(n)
    \/ \E n, m \in Nodes : Dial(n, m)
    \/ \E n \in Nodes : \E expired \in SUBSET deadlines[n] : Maintain(n, expired)
    \/ \E n \in Nodes, l \in Links :
          \/ Accept(n, l) \/ Welcome(n, l) \/ Admitted(n, l) \/ Linked(n, l)
          \/ DialRefused(n, l) \/ TimedOut(n, l)
          \/ HearSnapshot(n, l)
          \/ HearLeave(n, l) \/ SayLeave(n, l) \/ Cancelled(n, l) \/ Ended(n, l)
          \/ Gone(n, l)
    \/ \E l \in Links : Reset(l)

LinksSpec == LinksInit /\ [][LinksNext]_linksVars

--------------------------------------------------------------------------------
(* Properties. *)

(* The path manager follows the membership (link.rs register_link and      *)
(* remove_link, path/lifecycle.rs): once every call about a peer that is   *)
(* under way has returned, there is a path to the peer exactly when there  *)
(* is a preferred link, and it is the path of that link, whatever order    *)
(* the calls of several links came in.                                     *)
PathFollowsLink ==
    \A n, m \in Nodes :
        \/ up[n] = "down"
        \/ \E l \in Links : Between(l, n, m) /\ end[n][l] \in {"registered", "left", "lost"}
        \/ path[n][m] = IF active[n][m] = Absent THEN 0 ELSE epoch[n][active[n][m]]

(* Every connection between the two has been dealt with at both ends. *)
LinksSettled(a, b) ==
    \A l \in Links : Between(l, a, b) =>
        /\ end[a][l] \in {"running", "closed"} /\ end[b][l] = end[a][l]
        /\ answer[l] = Absent
        /\ ~Replaced(a, l) /\ ~Replaced(b, l)

(* However two nodes dial each other, once or at the same time, when the   *)
(* dust settles they hold the same link (membership.rs register): a link   *)
(* is given up as a duplicate only for one that both ends keep.  No        *)
(* connection between them was reset or timed out, and neither has an      *)
(* earlier instance in the room.                                           *)
DialsConverge ==
    \A a, b \in Nodes :
        \/ a = b \/ up[a] # "up" \/ up[b] # "up"
        \/ \A l \in Links : ~Between(l, a, b)
        \/ \E l \in disturbed : Between(l, a, b)
        \/ \E k \in Nodes \ {a, b} : Steam[k] \in {Steam[a], Steam[b]} /\ up[k] # "off"
        \/ ~LinksSettled(a, b)
        \/ active[a][b] # Absent /\ active[a][b] = active[b][a]

================================================================================

-------------------------------- MODULE LanPath --------------------------------
(***************************************************************************)
(* How two peers of a LAN room agree on a direct UDP path (client/lan/     *)
(* path.rs, path/lifecycle.rs, path/candidate.rs).  Side 1 is the lower    *)
(* PeerIdentity: it draws the path material, offers it once over the       *)
(* control link, and nominates.  Both sides check every candidate pair     *)
(* over UDP, which loses, delays and repeats datagrams; a pair of which a  *)
(* side saw a request and a response may be nominated.  A nominated path   *)
(* is kept by heartbeats and given up after PATH_LIVENESS_TIMEOUT.         *)
(*                                                                         *)
(* A candidate pair is a number: its rank under select_candidate_pair.     *)
(* PathId and PathToken are drawn together, so a material is the           *)
(* generation of the control link it was drawn for, 0 when there is none.  *)
(* A transaction id is fresh for each check, so a datagram only says       *)
(* whether its transaction is still pending.  The test of the active link  *)
(* (link.rs) and the handler that follows it are one step, and so is a     *)
(* handler and the checks it sends after releasing the mutex.              *)
(***************************************************************************)
EXTENDS Naturals, Sequences, SequencesExt, FiniteSetsExt

CONSTANTS
    Pairs,          \* candidate pairs, as their ranks
    Timeout,        \* PATH_LIVENESS_TIMEOUT in maintenance ticks
    Capacity,       \* LINK_MESSAGE_CAPACITY
    MaxFaults,      \* datagrams lost or repeated, pairs that stop working,
                    \* control links lost, messages late by a tick
    MaxLate,        \* messages older than a tick
    BreakPending    \* a pair may stop working while a nomination is pending

ASSUME PathAssumption ==
    /\ Pairs \subseteq Nat \ {0} /\ Pairs # {}
    /\ Timeout \in Nat \ {0} /\ Capacity \in Nat \ {0}
    /\ MaxFaults \in Nat
    /\ MaxLate \in Nat /\ BreakPending \in BOOLEAN

VARIABLES
    late,        \* messages that may still be on their way when a tick comes
    link,        \* generation of the control link
    epoch,       \* link of the side's PeerPath, 0 when it has none
    material,    \* PeerPath.material
    known,       \* PeerPath.remote_candidates is not empty
    requested,   \* pairs with CheckState.request_seen
    responded,   \* pairs with CheckState.response_seen
    nominated,   \* PeerPath.nominated, 0 when None
    pending,     \* PeerPath.pending_nomination of side 1, 0 when None
    quiet,       \* ticks since NominatedPath.last_seen
    waiting,     \* pairs with a transaction in PathState.transactions
    net,         \* datagrams on their way
    control,     \* control messages on their way to a side, in order
    dead,        \* pairs that no longer carry datagrams
    faults

peerPath == <<epoch, material, known, requested, responded, nominated, pending, quiet, waiting>>
pathVars == <<late, link, peerPath, net, control, dead, faults>>

Sides == {1, 2}

Other(s) == 3 - s

(* check.rs: CheckFrame and HeartbeatFrame; live: the transaction is pending. *)
Datagram(kind, s, p, live) ==
    [kind |-> kind, from |-> s, pair |-> p, material |-> material[s], live |-> live]

PathInit ==
    /\ late \in 0..MaxLate
    /\ link = 1
    /\ epoch = [s \in Sides |-> 0]
    /\ material = [s \in Sides |-> 0]
    /\ known = [s \in Sides |-> FALSE]
    /\ requested = [s \in Sides |-> {}]
    /\ responded = [s \in Sides |-> {}]
    /\ nominated = [s \in Sides |-> 0]
    /\ pending = 0
    /\ quiet = [s \in Sides |-> 0]
    /\ waiting = [s \in Sides |-> {}]
    /\ net = {}
    /\ control = [s \in Sides |-> <<>>]
    /\ dead = {}
    /\ faults = late

(* try_send to the link: dropped when the queue is full or the link is gone. *)
TrySend(s, message) ==
    IF epoch[s] = link /\ Len(control[Other(s)]) < Capacity
      THEN [control EXCEPT ![Other(s)] = Append(@, message)]
      ELSE control

Offer(m) == [type |-> "PathOffer", material |-> m, pair |-> 0]
Nominate(p) == [type |-> "Nominate", material |-> material[1], pair |-> p]
NominateAck == [type |-> "NominateAck", material |-> material[2], pair |-> 0]

(* A datagram of s's transactions that send_checks dropped. *)
Forgotten(s, d) ==
    IF \/ d.kind = "request" /\ d.from = s
       \/ d.kind = "response" /\ d.from = Other(s)
      THEN [d EXCEPT !.live = FALSE]
      ELSE d

(* send_checks: new transactions for every pair, the older ones are void. *)
SendChecks(s, m) ==
    /\ waiting' = [waiting EXCEPT ![s] = Pairs]
    /\ net' = {Forgotten(s, d) : d \in net} \cup
              {[Datagram("request", s, p, TRUE) EXCEPT !.material = m] : p \in Pairs \ dead}

NoChecks == UNCHANGED <<waiting, net>>

--------------------------------------------------------------------------------
(* The control link (path/lifecycle.rs). *)

(* peer_connected: a new PeerPath in place of the old one; the lower       *)
(* identity draws the material and offers it.                              *)
peer_connected(s) ==
    /\ epoch[s] < link
    /\ epoch' = [epoch EXCEPT ![s] = link]
    /\ material' = [material EXCEPT ![s] = IF s = 1 THEN link ELSE 0]
    /\ known' = [known EXCEPT ![s] = FALSE]
    /\ requested' = [requested EXCEPT ![s] = {}]
    /\ responded' = [responded EXCEPT ![s] = {}]
    /\ nominated' = [nominated EXCEPT ![s] = 0]
    /\ pending' = IF s = 1 THEN 0 ELSE pending
    /\ quiet' = [quiet EXCEPT ![s] = 0]
    /\ waiting' = [waiting EXCEPT ![s] = {}]
    /\ net' = {d \in net : \E t \in Sides : d.material = material'[t]}
    /\ control' = IF s = 1 THEN [control EXCEPT ![2] = Append(@, Offer(link))] ELSE control
    /\ UNCHANGED <<late, link, dead, faults>>

(* peer_disconnected: the link of the path is gone. *)
peer_disconnected(s) ==
    /\ epoch[s] \in 1..(link - 1)
    /\ epoch' = [epoch EXCEPT ![s] = 0]
    /\ material' = [material EXCEPT ![s] = 0]
    /\ known' = [known EXCEPT ![s] = FALSE]
    /\ requested' = [requested EXCEPT ![s] = {}]
    /\ responded' = [responded EXCEPT ![s] = {}]
    /\ nominated' = [nominated EXCEPT ![s] = 0]
    /\ pending' = IF s = 1 THEN 0 ELSE pending
    /\ quiet' = [quiet EXCEPT ![s] = 0]
    /\ waiting' = [waiting EXCEPT ![s] = {}]
    /\ net' = {d \in net : d.material = material[Other(s)]}
    /\ UNCHANGED <<late, link, control, dead, faults>>

(* The next message of the link, when its end is the active one. *)
Readable(s) == control[s] # <<>> /\ epoch[s] = link

(* handle_offer: the material is adopted by side 2, and what was found     *)
(* out before is forgotten.                                                *)
handle_offer(s) ==
    /\ Readable(s)
    /\ LET offer == Head(control[s])
           rest == [control EXCEPT ![s] = Tail(@)]
           taken == \/ material[s] = offer.material
                    \/ material[s] = 0 /\ s = 2
       IN  /\ offer.type = "PathOffer"
           /\ IF taken
                THEN /\ material' = [material EXCEPT ![s] = offer.material]
                     /\ control' = IF material[s] = 0 /\ Len(rest[Other(s)]) < Capacity
                                     THEN [rest EXCEPT ![Other(s)] =
                                             Append(@, Offer(offer.material))]
                                     ELSE rest
                     /\ known' = [known EXCEPT ![s] = TRUE]
                     /\ requested' = [requested EXCEPT ![s] = {}]
                     /\ responded' = [responded EXCEPT ![s] = {}]
                     /\ nominated' = [nominated EXCEPT ![s] = 0]
                     /\ pending' = IF s = 1 THEN 0 ELSE pending
                     /\ quiet' = [quiet EXCEPT ![s] = 0]
                     /\ SendChecks(s, offer.material)
                ELSE /\ control' = rest
                     /\ NoChecks
                     /\ UNCHANGED <<material, known, requested, responded, nominated,
                                    pending, quiet>>
    /\ UNCHANGED <<late, link, epoch, dead, faults>>

(* Mutant: side 2 takes any pair that side 1 names. *)
UnprovenNominate(s) ==
    /\ Readable(s)
    /\ LET nomination == Head(control[s])
           rest == [control EXCEPT ![s] = Tail(@)]
       IN  /\ nomination.type = "Nominate"
           /\ IF s = 2 /\ material[s] = nomination.material
                THEN /\ nominated' = [nominated EXCEPT ![s] = nomination.pair]
                     /\ quiet' = [quiet EXCEPT ![s] = 0]
                     /\ control' = [rest EXCEPT ![1] = Append(@, NominateAck)]
                ELSE control' = rest /\ UNCHANGED <<nominated, quiet>>
    /\ UNCHANGED <<late, link, epoch, material, known, requested, responded, pending,
                   waiting, net, dead, faults>>

(* handle_nominate: side 2 takes the pair when its own checks proved it. *)
handle_nominate(s) ==
    /\ Readable(s)
    /\ LET nomination == Head(control[s])
           rest == [control EXCEPT ![s] = Tail(@)]
       IN  /\ nomination.type = "Nominate"
           /\ IF /\ s = 2 /\ material[s] = nomination.material
                 /\ nomination.pair \in requested[s] \cap responded[s]
                THEN /\ nominated' = [nominated EXCEPT ![s] = nomination.pair]
                     /\ quiet' = [quiet EXCEPT ![s] = 0]
                     /\ control' = IF Len(rest[1]) < Capacity
                                     THEN [rest EXCEPT ![1] = Append(@, NominateAck)]
                                     ELSE rest
                ELSE control' = rest /\ UNCHANGED <<nominated, quiet>>
    /\ UNCHANGED <<late, link, epoch, material, known, requested, responded, pending,
                   waiting, net, dead, faults>>

(* handle_nominate_ack: the pending nomination, whichever it is. *)
handle_nominate_ack(s) ==
    /\ Readable(s)
    /\ Head(control[s]).type = "NominateAck"
    /\ IF s = 1 /\ material[s] = Head(control[s]).material /\ pending # 0
         THEN /\ nominated' = [nominated EXCEPT ![s] = pending]
              /\ pending' = 0
              /\ quiet' = [quiet EXCEPT ![s] = 0]
         ELSE UNCHANGED <<nominated, pending, quiet>>
    /\ control' = [control EXCEPT ![s] = Tail(@)]
    /\ UNCHANGED <<late, link, epoch, material, known, requested, responded, waiting, net,
                   dead, faults>>

--------------------------------------------------------------------------------
(* Datagrams (path.rs). *)

(* d reaches the other side, and may stay in the network to come again. *)
Delivered(d) ==
    /\ d \in net
    /\ \/ faults' = faults
       \/ faults < MaxFaults /\ faults' = faults + 1

Left(d) == IF faults' = faults THEN net \ {d} ELSE net

(* select_candidate_pair: the best pair proved in both directions. *)
select_candidate_pair(req, resp) == IF req \cap resp = {} THEN 0 ELSE Max(req \cap resp)

(* maybe_nominate, after a check changed what is proved. *)
MaybeNominate(s, req, resp) ==
    LET best == select_candidate_pair(req, resp)
    IN  IF s = 1 /\ nominated[1] = 0 /\ pending = 0 /\ material[1] # 0 /\ best # 0
          THEN pending' = best /\ control' = TrySend(1, Nominate(best))
          ELSE UNCHANGED <<pending, control>>

(* handle_check of a request or a response. *)
handle_check(d) ==
    LET s == Other(d.from)
        valid == material[s] # 0 /\ material[s] = d.material /\ known[s]
        mine == d.live /\ d.pair \in waiting[s]
    IN  /\ d.kind \in {"request", "response"}
        /\ Delivered(d)
        /\ IF ~valid
             THEN /\ net' = Left(d)
                  /\ UNCHANGED <<requested, responded, waiting, pending, control>>
             ELSE /\ requested' = IF d.kind = "request"
                                    THEN [requested EXCEPT ![s] = @ \cup {d.pair}]
                                    ELSE requested
                  /\ responded' = IF d.kind = "response" /\ mine
                                    THEN [responded EXCEPT ![s] = @ \cup {d.pair}]
                                    ELSE responded
                  /\ waiting' = IF d.kind = "response" /\ d.live
                                  THEN [waiting EXCEPT ![s] = @ \ {d.pair}]
                                  ELSE waiting
                  /\ net' = IF d.kind = "request"
                              THEN Left(d) \cup {Datagram("response", s, d.pair, d.live)}
                              ELSE Left(d)
                  /\ IF d.kind = "response" /\ ~mine
                       THEN UNCHANGED <<pending, control>>
                       ELSE MaybeNominate(s, requested'[s], responded'[s])
        /\ UNCHANGED <<late, link, epoch, material, known, nominated, quiet, dead>>

(* handle_heartbeat: only on the nominated pair; a request is answered. *)
handle_heartbeat(d) ==
    LET s == Other(d.from)
        valid == nominated[s] = d.pair /\ material[s] = d.material
    IN  /\ d.kind \in {"ping", "pong"}
        /\ Delivered(d)
        /\ quiet' = IF valid THEN [quiet EXCEPT ![s] = 0] ELSE quiet
        /\ net' = IF valid /\ d.kind = "ping"
                    THEN Left(d) \cup {Datagram("pong", s, d.pair, TRUE)}
                    ELSE Left(d)
        /\ UNCHANGED <<late, link, epoch, material, known, requested, responded, nominated,
                       pending, waiting, control, dead>>

--------------------------------------------------------------------------------
(* maintain_paths, every HEARTBEAT_INTERVAL. *)

(* All but a few of the messages sent since the last tick have arrived. *)
Due ==
    Cardinality(net) + Cardinality({s \in Sides : epoch[s] = link /\ control[s] # <<>>}) <= late

(* No path is nominated: the nomination is repeated and the checks too. *)
Recheck(s) ==
    /\ Due /\ epoch[s] # 0 /\ nominated[s] = 0
    /\ material[s] # 0 /\ known[s]
    /\ control' = IF s = 1 /\ pending # 0 THEN TrySend(1, Nominate(pending)) ELSE control
    /\ SendChecks(s, material[s])
    /\ UNCHANGED <<late, link, epoch, material, known, requested, responded, nominated,
                   pending, quiet, dead, faults>>

(* Mutant: the checks of the path that was lost are kept. *)
ExpireKeepsChecks(s) ==
    /\ Due /\ nominated[s] # 0 /\ quiet[s] >= Timeout
    /\ nominated' = [nominated EXCEPT ![s] = 0]
    /\ pending' = IF s = 1 THEN 0 ELSE pending
    /\ SendChecks(s, material[s])
    /\ UNCHANGED <<late, link, epoch, material, known, requested, responded, quiet,
                   control, dead, faults>>

(* The nominated path was silent for too long. *)
Expire(s) ==
    /\ Due /\ nominated[s] # 0 /\ quiet[s] >= Timeout
    /\ nominated' = [nominated EXCEPT ![s] = 0]
    /\ pending' = IF s = 1 THEN 0 ELSE pending
    /\ requested' = [requested EXCEPT ![s] = {}]
    /\ responded' = [responded EXCEPT ![s] = {}]
    /\ quiet' = [quiet EXCEPT ![s] = 0]
    /\ SendChecks(s, material[s])
    /\ UNCHANGED <<late, link, epoch, material, known, control, dead, faults>>

Heartbeat(s) ==
    /\ Due /\ nominated[s] # 0 /\ quiet[s] < Timeout
    /\ quiet' = [quiet EXCEPT ![s] = @ + 1]
    /\ net' = IF nominated[s] \in dead THEN net
                ELSE net \cup {Datagram("ping", s, nominated[s], TRUE)}
    /\ UNCHANGED <<late, link, epoch, material, known, requested, responded, nominated,
                   pending, waiting, control, dead, faults>>

maintain_paths(s) == Recheck(s) \/ Expire(s) \/ Heartbeat(s)

--------------------------------------------------------------------------------
(* The network, external to the code. *)

Lose(d) ==
    /\ d \in net /\ faults < MaxFaults
    /\ net' = net \ {d}
    /\ faults' = faults + 1
    /\ UNCHANGED <<late, link, peerPath, control, dead>>

(* An adapter goes away; some pair keeps working. *)
Break(p) ==
    /\ faults < MaxFaults
    /\ p \in Pairs \ dead /\ Pairs \ dead # {p}
    /\ BreakPending \/ pending = 0
    /\ dead' = dead \cup {p}
    /\ net' = {d \in net : d.pair # p}
    /\ faults' = faults + 1
    /\ UNCHANGED <<late, link, peerPath, control>>

(* The control link is lost, with what was on it, and a new one is made. *)
LinkLost ==
    /\ faults < MaxFaults
    /\ \E s \in Sides : epoch[s] = link
    /\ link' = link + 1
    /\ faults' = faults + 1
    /\ control' = [s \in Sides |-> <<>>]
    /\ UNCHANGED <<late, peerPath, net, dead>>

Receive(s) == handle_offer(s) \/ handle_nominate(s) \/ handle_nominate_ack(s)

Deliver == \E d \in net : handle_check(d) \/ handle_heartbeat(d)

PathNext ==
    \/ \E s \in Sides :
          \/ peer_connected(s) \/ peer_disconnected(s)
          \/ handle_offer(s) \/ handle_nominate(s) \/ handle_nominate_ack(s)
          \/ Recheck(s) \/ Expire(s) \/ Heartbeat(s)
    \/ \E d \in net : handle_check(d) \/ handle_heartbeat(d) \/ Lose(d)
    \/ \E p \in Pairs : Break(p)
    \/ LinkLost

Arrive == Deliver \/ Receive(1) \/ Receive(2)

Connect == peer_connected(1) \/ peer_connected(2)

(* The tasks of both sides run and datagrams on a working pair that are    *)
(* not lost arrive.  The ticks come by the clock, however often messages   *)
(* are on their way in between: fairness of the tick is strong.            *)
PathFairness ==
    /\ WF_pathVars(Arrive) /\ WF_pathVars(Connect)
    /\ SF_pathVars(maintain_paths(1)) /\ SF_pathVars(maintain_paths(2))

PathSpec == PathInit /\ [][PathNext]_pathVars /\ PathFairness

--------------------------------------------------------------------------------

(* Gameplay goes only over a pair that this side proved in both directions *)
(* since the path was last given up, whatever late, repeated or crossed    *)
(* Nominate and NominateAck brought (handle_nominate, handle_nominate_ack, *)
(* and what handle_offer and maintain_paths clear).                        *)
NominatedIsProven ==
    \A s \in Sides : nominated[s] # 0 =>
        /\ nominated[s] \in requested[s] \cap responded[s]
        /\ material[s] # 0 /\ known[s]

(* Both ends use the same working pair. *)
Agreed ==
    /\ nominated[1] = nominated[2]
    /\ nominated[1] # 0
    /\ nominated[1] \notin dead
    /\ material[1] = material[2]

(* When messages take less than a tick, whatever datagrams are lost or     *)
(* repeated, pairs stop working or control links are replaced, both ends   *)
(* settle on the same working pair: a nomination seen by one side only, or *)
(* two nominations that differ, are given up and repeated (maintain_paths).*)
PathSettles == late = 0 => <>[]Agreed
================================================================================

---------------------------- MODULE LanPlaneProofs ---------------------------
(***************************************************************************)
(* Only a proven pair carries gameplay, for any number of candidate pairs, *)
(* any queue of the control link and any number of faults: the network may *)
(* lose, delay, reorder and repeat whatever it holds, and control links    *)
(* may come and go.  Proven carries the proof: what a side has nominated,  *)
(* or side 1 waits to have acknowledged, is among its own checks, and a    *)
(* side with checks has agreed on the material and knows the other's       *)
(* candidates.                                                             *)
(*                                                                         *)
(* Then the data plane (LanData), for any number of peers, generations and *)
(* packets: its ledger is right, incidents of its queues and sends end,    *)
(* and nobody starves.                                                     *)
(***************************************************************************)
EXTENDS LanPlane, DataLemmas, FiniteSetTheorems

Datagrams == [kind : {"request", "response", "ping", "pong"}, from : Sides,
              pair : Pairs, material : Nat, live : BOOLEAN]

Messages == [type : {"PathOffer", "Nominate", "NominateAck"}, material : Nat,
             pair : Pairs \cup {0}]

PathTypeOK ==
    /\ link \in Nat
    /\ material \in [Sides -> Nat] /\ known \in [Sides -> BOOLEAN]
    /\ requested \in [Sides -> SUBSET Pairs] /\ responded \in [Sides -> SUBSET Pairs]
    /\ nominated \in [Sides -> Pairs \cup {0}] /\ pending \in Pairs \cup {0}
    /\ net \in SUBSET Datagrams
    /\ control \in [Sides -> Seq(Messages)]

(* Each check adds one pair, so there is always a greatest one. *)
Bounded == \A s \in Sides : \E n \in Nat : requested[s] \subseteq 0..n

Proven ==
    /\ \A s \in Sides : requested[s] # {} => material[s] # 0 /\ known[s]
    /\ \A s \in Sides : nominated[s] # 0 => nominated[s] \in requested[s] \cap responded[s]
    /\ pending # 0 => pending \in requested[1] \cap responded[1]

Inv == PathTypeOK /\ Bounded /\ Proven

-----------------------------------------------------------------------------
(* Nothing is nominated and nothing is proved at first.                    *)
LEMMA InitInv == PathInit => Inv
<1> SUFFICES ASSUME PathInit PROVE Inv
  OBVIOUS
<1>1. PathTypeOK
  BY DEF PathInit, PathTypeOK, Sides
<1>2. Bounded
  BY DEF PathInit, Bounded, Sides
<1>3. Proven
  BY DEF PathInit, Proven, Sides
<1> QED BY <1>1, <1>2, <1>3 DEF Inv

(* A side that forgets its checks has nothing nominated and nothing        *)
(* pending; the other side keeps what it has.                              *)
LEMMA Forgets ==
    ASSUME Inv, NEW s \in Sides,
           requested' = [requested EXCEPT ![s] = {}],
           responded' = [responded EXCEPT ![s] = {}],
           nominated' = [nominated EXCEPT ![s] = 0],
           pending' = IF s = 1 THEN 0 ELSE pending,
           \A t \in Sides \ {s} : material'[t] = material[t] /\ known'[t] = known[t]
    PROVE  Bounded' /\ Proven'
<1>1. Bounded'
  <2> SUFFICES ASSUME NEW t \in Sides PROVE \E n \in Nat : requested'[t] \subseteq 0..n
    BY DEF Bounded
  <2>1. CASE t = s
    BY <2>1 DEF Inv, PathTypeOK
  <2>2. CASE t # s
    BY <2>2 DEF Inv, PathTypeOK, Bounded
  <2> QED BY <2>1, <2>2
<1>2. Proven'
  BY DEF Inv, PathTypeOK, Proven, Sides
<1> QED BY <1>1, <1>2

(* What a side forgets of a datagram is only that it is awaited.           *)
LEMMA StillDatagrams ==
    ASSUME Inv, NEW s \in Sides, NEW d \in Datagrams
    PROVE  Forgotten(s, d) \in Datagrams
BY DEF Forgotten, Datagrams

(* New checks leave a network of datagrams.                                *)
LEMMA ChecksAreDatagrams ==
    ASSUME Inv, NEW s \in Sides, NEW m \in Nat, SendChecks(s, m)
    PROVE  net' \in SUBSET Datagrams
<1>1. \A p \in Pairs : [Datagram("request", s, p, TRUE) EXCEPT !.material = m] \in Datagrams
  BY DEF Datagram, Datagrams, Inv, PathTypeOK
<1>2. \A d \in net : Forgotten(s, d) \in Datagrams
  BY StillDatagrams DEF Inv, PathTypeOK
<1> QED BY <1>1, <1>2 DEF SendChecks

(* Any material can be offered.                                            *)
LEMMA OffersAreMessages ==
    ASSUME NEW m \in Nat
    PROVE  Offer(m) \in Messages
BY DEF Offer, Messages

(* try_send leaves a queue of messages.                                    *)
LEMMA TrySendKeeps ==
    ASSUME Inv, NEW s \in Sides, NEW m \in Messages
    PROVE  TrySend(s, m) \in [Sides -> Seq(Messages)]
BY DEF TrySend, Inv, PathTypeOK, Sides, Other

(* Reading a message leaves queues of messages.                            *)
LEMMA ReadKeeps ==
    ASSUME Inv, NEW s \in Sides, Readable(s)
    PROVE  /\ Head(control[s]) \in Messages
           /\ [control EXCEPT ![s] = Tail(@)] \in [Sides -> Seq(Messages)]
BY DEF Readable, Inv, PathTypeOK

(* A new or a lost control link forgets everything of its side.            *)
LEMMA ConnectSteps ==
    ASSUME Inv, NEW s \in Sides, peer_connected(s) \/ peer_disconnected(s)
    PROVE  Inv'
<1>1. Bounded' /\ Proven'
  <2>1. /\ \A t \in Sides \ {s} : material'[t] = material[t] /\ known'[t] = known[t]
    BY DEF peer_connected, peer_disconnected, Inv, PathTypeOK
  <2> QED BY <2>1, Forgets DEF peer_connected, peer_disconnected
<1>2. PathTypeOK'
  <2>1. control' \in [Sides -> Seq(Messages)]
    <3>1. Offer(link) \in Messages
      BY OffersAreMessages DEF Inv, PathTypeOK
    <3>2. control' = control \/ control' = [control EXCEPT ![2] = Append(@, Offer(link))]
      BY DEF peer_connected, peer_disconnected
    <3>3. control \in [Sides -> Seq(Messages)]
      BY DEF Inv, PathTypeOK
    <3>4. \A m \in Messages :
            [control EXCEPT ![2] = Append(@, m)] \in [Sides -> Seq(Messages)]
      BY <3>3 DEF Sides
    <3> QED BY <3>1, <3>2, <3>3, <3>4
  <2>2. net' \in SUBSET Datagrams
    BY DEF peer_connected, peer_disconnected, Inv, PathTypeOK
  <2>3. link' \in Nat /\ material' \in [Sides -> Nat] /\ known' \in [Sides -> BOOLEAN]
    <3>1. link' = link /\ known' = [known EXCEPT ![s] = FALSE]
      BY DEF peer_connected, peer_disconnected
    <3>2. \E m \in Nat : material' = [material EXCEPT ![s] = m]
      BY DEF peer_connected, peer_disconnected, Inv, PathTypeOK
    <3> QED BY <3>1, <3>2 DEF Inv, PathTypeOK
  <2>4. requested' \in [Sides -> SUBSET Pairs] /\ responded' \in [Sides -> SUBSET Pairs]
    BY DEF peer_connected, peer_disconnected, Inv, PathTypeOK
  <2>5. nominated' \in [Sides -> Pairs \cup {0}] /\ pending' \in Pairs \cup {0}
    BY DEF peer_connected, peer_disconnected, Inv, PathTypeOK
  <2> QED BY <2>1, <2>2, <2>3, <2>4, <2>5 DEF PathTypeOK
<1> QED BY <1>1, <1>2 DEF Inv

(* An offer forgets what its reader proved before, or is ignored.          *)
LEMMA OfferStep ==
    ASSUME Inv, NEW s \in Sides, handle_offer(s)
    PROVE  Inv'
<1> DEFINE offer == Head(control[s])
           rest == [control EXCEPT ![s] = Tail(@)]
<1>1. offer \in Messages /\ rest \in [Sides -> Seq(Messages)]
  BY ReadKeeps DEF handle_offer
<1>2. Other(s) \in Sides /\ offer.material \in Nat
  BY <1>1 DEF Other, Sides, Messages
<1>3. CASE /\ material' = [material EXCEPT ![s] = offer.material]
           /\ control' = IF material[s] = 0 /\ Len(rest[Other(s)]) < Capacity
                           THEN [rest EXCEPT ![Other(s)] = Append(@, Offer(offer.material))]
                           ELSE rest
           /\ known' = [known EXCEPT ![s] = TRUE]
           /\ requested' = [requested EXCEPT ![s] = {}]
           /\ responded' = [responded EXCEPT ![s] = {}]
           /\ nominated' = [nominated EXCEPT ![s] = 0]
           /\ pending' = IF s = 1 THEN 0 ELSE pending
           /\ SendChecks(s, offer.material)
           /\ UNCHANGED link
  <2>1. control' \in [Sides -> Seq(Messages)]
    <3>1. Offer(offer.material) \in Messages
      BY <1>2, OffersAreMessages
    <3> HIDE DEF rest, offer
    <3> QED BY <1>1, <1>2, <1>3, <3>1
  <2>2. net' \in SUBSET Datagrams
    BY <1>2, <1>3, ChecksAreDatagrams
  <2>3. Bounded' /\ Proven'
    <3>1. \A t \in Sides \ {s} : material'[t] = material[t] /\ known'[t] = known[t]
      BY <1>3 DEF Inv, PathTypeOK
    <3> QED BY <1>3, <3>1, Forgets
  <2> HIDE DEF offer, rest
  <2>4. PathTypeOK'
    BY <1>2, <1>3, <2>1, <2>2 DEF Inv, PathTypeOK
  <2> QED BY <2>3, <2>4 DEF Inv
<1>4. CASE /\ control' = rest
           /\ UNCHANGED <<link, material, known, requested, responded, nominated, pending, net>>
  BY <1>1, <1>4 DEF Inv, PathTypeOK, Bounded, Proven
<1> QED BY <1>3, <1>4 DEF handle_offer, NoChecks

(* Side 2 nominates what it proved itself.                                 *)
LEMMA NominateStep ==
    ASSUME Inv, NEW s \in Sides, handle_nominate(s)
    PROVE  Inv'
<1> DEFINE nomination == Head(control[s])
           rest == [control EXCEPT ![s] = Tail(@)]
<1>1. nomination \in Messages /\ rest \in [Sides -> Seq(Messages)]
  BY ReadKeeps DEF handle_nominate
<1>2. NominateAck \in Messages
  BY DEF NominateAck, Messages, Inv, PathTypeOK, Sides
<1>3. UNCHANGED <<link, material, known, requested, responded, pending, net>>
  BY DEF handle_nominate
<1>4. control' \in [Sides -> Seq(Messages)]
  <2>1. control' \in {rest, [rest EXCEPT ![1] = Append(@, NominateAck)]}
    BY DEF handle_nominate
  <2> HIDE DEF rest
  <2>2. CASE control' = rest
    BY <1>1, <2>2
  <2>3. CASE control' = [rest EXCEPT ![1] = Append(@, NominateAck)]
    BY <1>1, <1>2, <2>3 DEF Sides
  <2> QED BY <2>1, <2>2, <2>3
<1>5. \/ nominated' = nominated
      \/ \E p \in requested[s] \cap responded[s] : nominated' = [nominated EXCEPT ![s] = p]
  BY DEF handle_nominate
<1>6. PathTypeOK'
  BY <1>3, <1>4, <1>5 DEF Inv, PathTypeOK
<1>7. Bounded' /\ Proven'
  BY <1>3, <1>5 DEF Inv, PathTypeOK, Bounded, Proven
<1> QED BY <1>6, <1>7 DEF Inv

(* Side 1 nominates what is pending, which it proved.                      *)
LEMMA AckStep ==
    ASSUME Inv, NEW s \in Sides, handle_nominate_ack(s)
    PROVE  Inv'
<1>1. control' \in [Sides -> Seq(Messages)]
  BY ReadKeeps DEF handle_nominate_ack
<1>2. UNCHANGED <<link, material, known, requested, responded, net>>
  BY DEF handle_nominate_ack
<1>3. \/ UNCHANGED <<nominated, pending>>
      \/ /\ s = 1 /\ pending # 0 /\ pending' = 0
         /\ nominated' = [nominated EXCEPT ![s] = pending]
  BY DEF handle_nominate_ack
<1>4. PathTypeOK'
  BY <1>1, <1>2, <1>3 DEF Inv, PathTypeOK
<1>5. Bounded' /\ Proven'
  BY <1>2, <1>3 DEF Inv, PathTypeOK, Bounded, Proven
<1> QED BY <1>4, <1>5 DEF Inv

(* A datagram that stays or goes leaves datagrams.                         *)
LEMMA LeftAreDatagrams ==
    ASSUME Inv, NEW d
    PROVE  Left(d) \in SUBSET Datagrams
BY DEF Left, Inv, PathTypeOK

(* The best pair is one of the proven.                                     *)
LEMMA BestIsProven ==
    ASSUME PathAssumption, NEW req, NEW resp, NEW n \in Nat,
           req \subseteq Pairs, req \subseteq 0..n, select_candidate_pair(req, resp) # 0
    PROVE  select_candidate_pair(req, resp) \in req \cap resp
<1>1. req \cap resp # {} /\ req \cap resp \subseteq 0..n
  BY DEF select_candidate_pair
<1>2. Max(req \cap resp) \in req \cap resp
  BY <1>1, MaxOfBounded
<1> QED BY <1>1, <1>2 DEF select_candidate_pair

(* A check adds one pair to what a side knows, and may make side 1 pick    *)
(* the best of it.                                                         *)
LEMMA CheckStep ==
    ASSUME Inv, NEW d \in net, handle_check(d)
    PROVE  Inv'
<1> DEFINE s == Other(d.from)
<1>1. d \in Datagrams /\ s \in Sides /\ d.pair \in Pairs
  BY DEF Inv, PathTypeOK, Datagrams, Other, Sides
<1>2. UNCHANGED <<link, material, known, nominated>>
  BY DEF handle_check
<1> DEFINE valid == material[s] # 0 /\ material[s] = d.material /\ known[s]
<1>3. CASE ~valid
  <2>1. net' = Left(d) /\ UNCHANGED <<requested, responded, pending, control>>
    BY <1>3 DEF handle_check
  <2> QED BY <1>2, <2>1, LeftAreDatagrams DEF Inv, PathTypeOK, Bounded, Proven
<1>4. CASE valid
  <2>1. /\ requested' \in {requested, [requested EXCEPT ![s] = @ \cup {d.pair}]}
        /\ responded' \in {responded, [responded EXCEPT ![s] = @ \cup {d.pair}]}
        /\ net' \in {Left(d), Left(d) \cup {Datagram("response", s, d.pair, d.live)}}
        /\ \/ UNCHANGED <<pending, control>>
           \/ MaybeNominate(s, requested'[s], responded'[s])
    BY <1>4 DEF handle_check
  <2> HIDE DEF s
  <2>2. net' \in SUBSET Datagrams
    <3>1. Datagram("response", s, d.pair, d.live) \in Datagrams
      BY <1>1 DEF Datagram, Datagrams, Inv, PathTypeOK
    <3> QED BY <2>1, <3>1, LeftAreDatagrams
  <2>3. /\ requested' \in [Sides -> SUBSET Pairs] /\ responded' \in [Sides -> SUBSET Pairs]
        /\ \A t \in Sides : requested[t] \subseteq requested'[t] /\ responded[t] \subseteq responded'[t]
        /\ \A t \in Sides \ {s} : requested'[t] = requested[t]
    <3>1. /\ requested \in [Sides -> SUBSET Pairs] /\ responded \in [Sides -> SUBSET Pairs]
          /\ s \in Sides /\ d.pair \in Pairs
      BY <1>1 DEF Inv, PathTypeOK
    <3>2. /\ requested' \in [Sides -> SUBSET Pairs]
          /\ \A t \in Sides : requested[t] \subseteq requested'[t]
          /\ \A t \in Sides \ {s} : requested'[t] = requested[t]
      <4>1. CASE requested' = requested
        BY <3>1, <4>1
      <4>2. CASE requested' = [requested EXCEPT ![s] = @ \cup {d.pair}]
        BY <3>1, <4>2
      <4> QED BY <2>1, <4>1, <4>2
    <3>3. /\ responded' \in [Sides -> SUBSET Pairs]
          /\ \A t \in Sides : responded[t] \subseteq responded'[t]
      <4>1. CASE responded' = responded
        BY <3>1, <4>1
      <4>2. CASE responded' = [responded EXCEPT ![s] = @ \cup {d.pair}]
        BY <3>1, <4>2
      <4> QED BY <2>1, <4>1, <4>2
    <3> QED BY <3>2, <3>3
  <2>4. Bounded'
    <3> SUFFICES ASSUME NEW t \in Sides PROVE \E n \in Nat : requested'[t] \subseteq 0..n
      BY DEF Bounded
    <3>1. PICK n \in Nat : requested[t] \subseteq 0..n
      BY DEF Inv, Bounded
    <3>2. requested'[t] \subseteq requested[t] \cup {d.pair} /\ d.pair \in Nat
      BY <1>1, <2>1, PathAssumption, ZenonT(60) DEF Inv, PathTypeOK, PathAssumption
    <3>3. CASE d.pair <= n
      BY <3>1, <3>2, <3>3
    <3>4. CASE d.pair > n
      <4>1. requested'[t] \subseteq 0..d.pair
        BY <3>1, <3>2, <3>4
      <4> QED BY <3>2, <4>1
    <3> QED BY <3>1, <3>2, <3>3, <3>4
  <2>5. \/ UNCHANGED <<pending, control>>
        \/ /\ s = 1 /\ pending' \in requested'[1] \cap responded'[1]
           /\ control' = TrySend(1, Nominate(pending'))
    <3> DEFINE best == select_candidate_pair(requested'[s], responded'[s])
    <3>1. CASE UNCHANGED <<pending, control>>
      BY <3>1
    <3>2. CASE s = 1 /\ best # 0 /\ pending' = best /\ control' = TrySend(1, Nominate(best))
      <4>1. PICK n \in Nat : requested'[1] \subseteq 0..n
        BY <2>4 DEF Bounded, Sides
      <4>2. best \in requested'[1] \cap responded'[1]
        BY <2>3, <3>2, <4>1, PathAssumption, BestIsProven DEF Sides
      <4> QED BY <3>2, <4>2
    <3> QED BY <2>1, <3>1, <3>2 DEF MaybeNominate
  <2>6. PathTypeOK'
    <3>1. control' \in [Sides -> Seq(Messages)] /\ pending' \in Pairs \cup {0}
      <4>1. CASE UNCHANGED <<pending, control>>
        BY <4>1 DEF Inv, PathTypeOK
      <4>2. CASE /\ pending' \in requested'[1] \cap responded'[1]
                 /\ control' = TrySend(1, Nominate(pending'))
        <5>1. pending' \in Pairs
          BY <2>3, <4>2 DEF Sides
        <5>2. Nominate(pending') \in Messages
          BY <5>1 DEF Nominate, Messages, Inv, PathTypeOK, Sides
        <5> QED BY <4>2, <5>1, <5>2, TrySendKeeps DEF Sides
      <4> QED BY <2>5, <4>1, <4>2
    <3> QED BY <1>2, <2>2, <2>3, <3>1 DEF Inv, PathTypeOK
  <2>7. Proven'
    <3>1. \A t \in Sides : requested'[t] # {} => material'[t] # 0 /\ known'[t]
      BY <1>1, <1>2, <1>4, <2>3 DEF Inv, Proven, s
    <3>2. \A t \in Sides : nominated'[t] # 0 => nominated'[t] \in requested'[t] \cap responded'[t]
      BY <1>2, <2>3 DEF Inv, Proven
    <3>3. pending' # 0 => pending' \in requested'[1] \cap responded'[1]
      BY <2>3, <2>5 DEF Inv, Proven, Sides
    <3> QED BY <3>1, <3>2, <3>3 DEF Proven
  <2> QED BY <2>4, <2>6, <2>7 DEF Inv
<1> QED BY <1>3, <1>4

(* Heartbeats, lost datagrams and broken pairs change the network alone.   *)
LEMMA NetworkSteps ==
    ASSUME Inv,
           \/ \E d \in net : handle_heartbeat(d) \/ Lose(d)
           \/ \E p \in Pairs : Break(p)
           \/ \E s \in Sides : Heartbeat(s)
    PROVE  Inv'
<1>1. UNCHANGED <<link, material, known, requested, responded, nominated, pending, control>>
  BY DEF handle_heartbeat, Lose, Break, Heartbeat, peerPath
<1>2. net' \in SUBSET Datagrams
  <2>1. CASE \E d \in net : handle_heartbeat(d)
    <3>1. PICK d \in net : handle_heartbeat(d)
      BY <2>1
    <3>2. d \in Datagrams /\ Other(d.from) \in Sides
      BY DEF Inv, PathTypeOK, Datagrams, Other, Sides
    <3>3. Datagram("pong", Other(d.from), d.pair, TRUE) \in Datagrams
      BY <3>2 DEF Datagram, Datagrams, Inv, PathTypeOK
    <3> QED BY <3>1, <3>3, LeftAreDatagrams DEF handle_heartbeat
  <2>2. CASE \E d \in net : Lose(d)
    BY <2>2 DEF Lose, Inv, PathTypeOK
  <2>3. CASE \E p \in Pairs : Break(p)
    BY <2>3 DEF Break, Inv, PathTypeOK
  <2>4. CASE \E s \in Sides : Heartbeat(s)
    <3>1. PICK s \in Sides : Heartbeat(s)
      BY <2>4
    <3>2. Datagram("ping", s, nominated[s], TRUE) \in Datagrams
      BY <3>1 DEF Heartbeat, Datagram, Datagrams, Inv, PathTypeOK
    <3> QED BY <3>1, <3>2 DEF Heartbeat, Inv, PathTypeOK
  <2> QED BY <2>1, <2>2, <2>3, <2>4
<1> QED BY <1>1, <1>2 DEF Inv, PathTypeOK, Bounded, Proven

(* The maintenance tick checks again, or gives the path up as a whole.     *)
LEMMA TickSteps ==
    ASSUME Inv, NEW s \in Sides, Recheck(s) \/ Expire(s)
    PROVE  Inv'
<1>1. net' \in SUBSET Datagrams
  BY ChecksAreDatagrams DEF Recheck, Expire, Inv, PathTypeOK
<1>2. CASE Recheck(s)
  <2>1. control' \in [Sides -> Seq(Messages)]
    <3>1. Nominate(pending) \in Messages
      BY DEF Nominate, Messages, Inv, PathTypeOK, Sides
    <3>2. TrySend(1, Nominate(pending)) \in [Sides -> Seq(Messages)]
      BY <3>1, TrySendKeeps DEF Sides
    <3>3. control' \in {control, TrySend(1, Nominate(pending))} \/ s # 1
      BY <1>2 DEF Recheck
    <3> QED BY <1>2, <3>2 DEF Recheck, Inv, PathTypeOK
  <2> QED BY <1>1, <1>2, <2>1 DEF Recheck, Inv, PathTypeOK, Bounded, Proven
<1>3. CASE Expire(s)
  <2>1. Bounded' /\ Proven'
    BY <1>3, Forgets DEF Expire
  <2>2. PathTypeOK'
    BY <1>1, <1>3 DEF Expire, Inv, PathTypeOK
  <2> QED BY <2>1, <2>2 DEF Inv
<1> QED BY <1>2, <1>3

(* A lost control link takes its messages, the paths stay.                 *)
LEMMA LostStep ==
    ASSUME Inv, LinkLost
    PROVE  Inv'
BY DEF LinkLost, peerPath, Inv, PathTypeOK, Bounded, Proven

(* Inv is inductive: every action has its lemma above.                     *)
LEMMA InvStep == Inv /\ [PathNext]_pathVars => Inv'
<1> SUFFICES ASSUME Inv, [PathNext]_pathVars
             PROVE  Inv'
  OBVIOUS
<1>1. CASE UNCHANGED pathVars
  BY <1>1 DEF pathVars, peerPath, Inv, PathTypeOK, Bounded, Proven
<1>2. CASE PathNext
  BY <1>2, ConnectSteps, OfferStep, NominateStep, AckStep, CheckStep, NetworkSteps,
     TickSteps, LostStep DEF PathNext
<1> QED BY <1>1, <1>2

(* Gameplay goes only over a pair that this side proved in both directions *)
(* since it last gave the path up (handle_nominate, handle_nominate_ack).  *)
THEOREM OnlyProvenPairs == PathSpec => []NominatedIsProven
<1>1. Inv => NominatedIsProven
  BY DEF Inv, Proven, NominatedIsProven
<1> QED BY <1>1, InitInv, InvStep, PTL DEF PathSpec

--------------------------------------------------------------------------------
(* The packets of the direct paths (LanData), for any set of peers, any    *)
(* number of generations and any capacity of the queues.                   *)

Stages  == {"OutboundQueue", "UdpSend", "InboundQueue", "HookQueue"}
Workers == {"none", "idle", "holding", "prepared", "drained", "done"}
Reasons == {"PeerUnavailable", "QueueFull", "SendFailed", "SessionClosed"}
Debts   == [send : Int, receive : Int]

Incidents == Peers \X (0..MaxEpoch) \X Stages \X Reasons
Senders   == [at : {"idle", "missing", "unavailable", "selected", "queued"},
              peer : Peers \cup {0}, epoch : 0..MaxEpoch]
Verdicts  == {"open", "accepted", "dropped", "closed", "recorded"}

(* A worker that is told of no more packets.                               *)
Over(g) == worker[g] \in {"drained", "done"}

DataTypes ==
    /\ current \in [Peers -> 0..MaxEpoch]
    /\ owner \in [Epochs -> Peers \cup {0}]
    /\ gate = [g \in Epochs |-> gate[g]]
    /\ out \in [Epochs -> Nat] /\ inbound \in [Epochs -> Nat]
    /\ worker \in [Epochs -> Workers]
    /\ owed \in [Epochs -> Debts]
    /\ sender \in Senders
    /\ sender.at # "idle" => sender.peer \in Peers
    /\ sender.at \in {"selected", "queued"} => sender.epoch # 0
    /\ reader.at = "read" => reader.peer \in Peers
    /\ taker \in 0..MaxEpoch
    /\ verdict \in Verdicts /\ (verdict # "open" => taker # 0)
    /\ cleared \in [Epochs -> Nat]
    /\ calls \subseteq [closes : 0..MaxEpoch, spawns : 0..MaxEpoch]
    /\ incidents \subseteq Incidents

(* The generation that is current is open and belongs to its peer; what a  *)
(* call still closes is no longer current, and what it still spawns has    *)
(* no worker yet.                                                          *)
Generations ==
    /\ \A p \in Peers : current[p] # 0 => owner[current[p]] = p /\ gate[current[p]]
    /\ \A g \in Epochs : owner[g] = 0 => worker[g] = "none" /\ ~gate[g]
    /\ \A c \in calls : /\ c.spawns # 0 => owner[c.spawns] # 0 /\ worker[c.spawns] = "none"
                        /\ c.closes # 0 => owner[c.closes] # 0
                        /\ \A p \in Peers : current[p] # 0 => current[p] # c.closes
    /\ \A c, d \in calls : c.spawns = d.spawns /\ c.spawns # 0 => c = d
    /\ sender.epoch # 0 => sender.peer \in Peers /\ owner[sender.epoch] = sender.peer
    /\ taker # 0 => owner[taker] # 0
    /\ \A g \in Epochs : cleared[g] # 0 => owner[g] # 0

(* While the room is up a worker ends only behind a closed gate, with no   *)
(* sender inside; an incident is kept under the peer that owns its epoch,  *)
(* and one of a worker that is over is of the last epoch of its peer or    *)
(* late.                                                                   *)
Endings ==
    /\ room = "up" => \A g \in Epochs : Over(g) => ~gate[g] /\ ~HoldsSender(g)
    /\ \A i \in incidents : i[2] # 0 => owner[i[2]] = i[1]
    /\ room = "up" => \A i \in incidents :
                         i[2] # 0 /\ Over(i[2]) => i[2] = LatestKey(i[1]) \/ Late(i)

(* The hook's task has a packet only while a session goes on, and what is  *)
(* cleared is recorded before the next one.                                *)
Sessions ==
    /\ gameplay \notin {"attached", "ended"} => taker = 0
    /\ gameplay # "cleared" => \A g \in Epochs : cleared[g] = 0

(* peer_order lists the peers with a path, each once.                      *)
OrderOK ==
    /\ order \in Seq(Peers)
    /\ \A i, j \in 1..Len(order) : order[i] = order[j] => i = j
    /\ \A p \in Peers : current[p] # 0 => Contains(order, p)

(* How many peers the cursor comes to before the one at index j.           *)
Steps(j) == (j + Len(order) - (cursor % Len(order))) % Len(order)

(* A peer that was passed over is that much nearer to its turn.            *)
Turns ==
    /\ cursor \in Nat /\ passed \in [Peers -> Nat]
    /\ \A j \in 0..Len(order) - 1 : passed[order[j + 1]] + Steps(j) < Len(order)

DataInv == DataTypes /\ Generations /\ Endings /\ Sessions /\ OrderOK /\ ResolvedOnce

(* What the ledger holds after a debt is taken up or settled.              *)
LEMMA Owes ==
    ASSUME owed \in [Epochs -> Debts], NEW g \in Epochs, NEW n \in Int
    PROVE  /\ Owe(g, "send", n) \in [Epochs -> Debts]
           /\ Owe(g, "receive", n) \in [Epochs -> Debts]
           /\ \A x \in Epochs :
                 /\ Owe(g, "send", n)[x].receive = owed[x].receive
                 /\ Owe(g, "send", n)[x].send = owed[x].send + (IF x = g THEN n ELSE 0)
                 /\ Owe(g, "receive", n)[x].send = owed[x].send
                 /\ Owe(g, "receive", n)[x].receive = owed[x].receive + (IF x = g THEN n ELSE 0)
<1>1. \A x \in Epochs : owed[x].send \in Int /\ owed[x].receive \in Int /\ owed[x] \in Debts
  BY DEF Debts
<1>2. /\ [owed[g] EXCEPT !["send"] = owed[g].send + n] \in Debts
      /\ [owed[g] EXCEPT !["receive"] = owed[g].receive + n] \in Debts
  BY <1>1 DEF Debts
<1> QED BY <1>1, <1>2 DEF Owe, Debts

(* The key of an incident of a peer without a path.                        *)
LEMMA LatestKeyIs ==
    ASSUME DataTypes, NEW p \in Peers
    PROVE  /\ LatestKey(p) \in 0..MaxEpoch
           /\ LatestKey(p) # 0 => owner[LatestKey(p)] = p
<1> DEFINE keys == {g \in Epochs : owner[g] = p}
<1>1. CASE keys = {}
  BY <1>1, DataAssumption DEF LatestKey
<1>2. CASE keys # {}
  <2>1. keys \subseteq 0..MaxEpoch /\ MaxEpoch \in Nat
    BY DataAssumption DEF Epochs
  <2>2. Max(keys) \in keys /\ \A x \in keys : x <= Max(keys)
    <3> HIDE DEF keys
    <3> QED BY <1>2, <2>1, MaxOfBounded
  <2>3. PICK g \in keys : g = CHOOSE x \in keys : \A y \in keys : y <= x
    <3> HIDE DEF keys
    <3> QED BY <2>2
  <2>4. LatestKey(p) = g
    BY <1>2, <2>3 DEF LatestKey
  <2> QED BY <2>1, <2>4
<1> QED BY <1>1, <1>2

(* An incident of a generation that has a peer is well formed.             *)
LEMMA IncidentIs ==
    ASSUME DataTypes, NEW g \in Epochs, owner[g] # 0, NEW stage \in Stages,
           NEW reason \in Reasons
    PROVE  Incident(g, stage, reason) \in Incidents
<1>1. owner[g] \in Peers /\ g \in 0..MaxEpoch
  BY DataAssumption DEF DataTypes, Epochs
<1> QED BY <1>1 DEF Incident, Incidents

(* The tables stay well typed.                                             *)
LEMMA DataTypesStep ==
    ASSUME DataInv, DataNext
    PROVE  DataTypes'
<1>1. /\ DataTypes /\ Generations /\ OrderOK
      /\ MaxEpoch \in Nat /\ 0 \in 0..MaxEpoch /\ Epochs \subseteq 0..MaxEpoch /\ 0 \notin Epochs
      /\ \A g \in 0..MaxEpoch : g # 0 => g \in Epochs
  BY DataAssumption DEF DataInv, Epochs
<1>2. ASSUME NEW p \in Peers, Connected(p)
      PROVE  DataTypes'
  <2>1. PICK g \in Epochs : /\ owner' = [owner EXCEPT ![g] = p]
                            /\ gate' = [gate EXCEPT ![g] = TRUE]
                            /\ current' = [current EXCEPT ![p] = g]
                            /\ calls' = calls \cup {[closes |-> current[p], spawns |-> g]}
    BY <1>2 DEF Connected
  <2>2. /\ incidents' \subseteq incidents
        /\ UNCHANGED <<out, worker, inbound, sender, reader, taker, verdict, cleared, owed>>
    BY <1>2 DEF Connected, PeerClosed
  <2>3. [closes |-> current[p], spawns |-> g] \in [closes : 0..MaxEpoch, spawns : 0..MaxEpoch]
    BY <1>1 DEF DataTypes
  <2> QED BY <1>1, <2>1, <2>2, <2>3 DEF DataTypes
<1>3. ASSUME NEW p \in Peers, Disconnected(p)
      PROVE  DataTypes'
  <2>1. [closes |-> current[p], spawns |-> 0] \in [closes : 0..MaxEpoch, spawns : 0..MaxEpoch]
    BY <1>1 DEF DataTypes
  <2> QED BY <1>1, <1>3, <2>1 DEF Disconnected, DataTypes
<1>4. ASSUME NEW p \in Peers, PathChanges(p) \/ DataRead(p)
      PROVE  DataTypes'
  BY <1>1, <1>4 DEF PathChanges, DataRead, DataTypes
<1>5. ASSUME SendKey \/ SendUnavailable \/ \E p \in Peers : SendSelect(p)
      PROVE  DataTypes'
  <2>1. /\ UNCHANGED <<current, owner, gate, out, inbound, worker, owed, reader, taker, verdict,
                       cleared, calls>>
    BY <1>5 DEF SendSelect, SendKey, SendUnavailable
  <2>2. /\ sender' \in Senders /\ ((sender').at # "idle" => (sender').peer \in Peers)
        /\ (sender').at \in {"selected", "queued"} => (sender').epoch # 0
        /\ incidents' \subseteq Incidents
    <3>1. CASE SendUnavailable
      <4>1. sender.peer \in Peers /\ sender.epoch \in 0..MaxEpoch /\ incidents \subseteq Incidents
        BY <1>1, <3>1 DEF SendUnavailable, DataTypes, Senders
      <4>2. <<sender.peer, sender.epoch, "OutboundQueue", "PeerUnavailable">> \in Incidents
        BY <4>1 DEF Incidents, Stages, Reasons
      <4> QED BY <1>1, <3>1, <4>1, <4>2 DEF SendUnavailable, Resting, Senders
    <3>2. CASE SendKey
      <4>1. sender \in Senders /\ sender.peer \in Peers
        BY <1>1, <3>2 DEF SendKey, DataTypes
      <4>2. LatestKey(sender.peer) \in 0..MaxEpoch
        BY <1>1, <4>1, LatestKeyIs
      <4> QED BY <1>1, <3>2, <4>1, <4>2 DEF SendKey, Senders, DataTypes
    <3>3. ASSUME NEW p \in Peers, SendSelect(p)
          PROVE  /\ sender' \in Senders /\ ((sender').at # "idle" => (sender').peer \in Peers)
                 /\ (sender').at \in {"selected", "queued"} => (sender').epoch # 0
                 /\ incidents' \subseteq Incidents
      BY <1>1, <3>3 DEF SendSelect, Senders, DataTypes
    <3> QED BY <1>5, <3>1, <3>2, <3>3
  <2> QED BY <1>1, <2>1, <2>2 DEF DataTypes
<1>6. ASSUME NEW c \in calls, Finish(c)
      PROVE  DataTypes'
  <2>1. c.closes \in 0..MaxEpoch /\ c.spawns \in 0..MaxEpoch
    BY <1>1 DEF DataTypes
  <2>2. /\ gate' = [g \in Epochs |-> (gate')[g]] /\ inbound' \in [Epochs -> Nat]
        /\ owed' \in [Epochs -> Debts] /\ incidents' \subseteq incidents
    <3>1. CASE c.closes = 0
      BY <1>1, <1>6, <3>1 DEF Finish, DataTypes
    <3>2. CASE c.closes # 0
      <4> DEFINE g == c.closes
      <4>1. /\ gate' = [gate EXCEPT ![g] = FALSE] /\ owed' = Owe(g, "receive", -inbound[g])
            /\ inbound' = [inbound EXCEPT ![g] = 0] /\ incidents' = Closed(g)
        BY <1>6, <3>2 DEF Finish, close_peer_data
      <4>2. g \in Epochs /\ -inbound[g] \in Int /\ owed \in [Epochs -> Debts]
        BY <1>1, <2>1, <3>2 DEF DataTypes
      <4> HIDE DEF g
      <4>3. owed' \in [Epochs -> Debts]
        BY <4>1, <4>2, Owes
      <4> QED BY <1>1, <4>1, <4>2, <4>3 DEF DataTypes, Closed
    <3> QED BY <3>1, <3>2
  <2>3. worker' \in [Epochs -> Workers]
    BY <1>1, <1>6, <2>1 DEF Finish, DataTypes, Workers
  <2> QED BY <1>1, <1>6, <2>2, <2>3 DEF Finish, DataTypes
<1>7. CASE SendQueue \/ SendRecord
  <2> DEFINE g == sender.epoch
  <2>1. g \in Epochs /\ owner[g] # 0 /\ sender.at # "idle"
    <3>1. g # 0 /\ g \in 0..MaxEpoch /\ sender.at # "idle"
      BY <1>1, <1>7 DEF SendQueue, SendRecord, DataTypes, Senders
    <3>2. g \in Epochs /\ owner[g] \in Peers
      BY <1>1, <3>1 DEF Generations
    <3> QED BY <3>1, <3>2, DataAssumption DEF DataTypes
  <2>2. CASE SendQueue
    <3>1. incidents' \subseteq incidents \cup {Incident(g, "OutboundQueue", "QueueFull")}
      BY <2>2 DEF SendQueue, Started
    <3>2. Incident(g, "OutboundQueue", "QueueFull") \in Incidents
      BY <1>1, <2>1, IncidentIs DEF Stages, Reasons
    <3>3. /\ out' \in [Epochs -> Nat]
          /\ sender' \in Senders /\ ((sender').at # "idle" => (sender').peer \in Peers)
          /\ (sender').at \in {"selected", "queued"} => (sender').epoch # 0
      BY <1>1, <2>1, <2>2 DEF SendQueue, DataTypes, Resting, Senders
    <3> QED BY <1>1, <2>2, <3>1, <3>2, <3>3 DEF SendQueue, DataTypes
  <2>3. CASE SendRecord
    <3>1. owed' \in [Epochs -> Debts]
      <4>1. owed \in [Epochs -> Debts] /\ owed' = Owe(g, "send", 1)
        BY <1>1, <2>3 DEF SendRecord, DataTypes
      <4> QED BY <2>1, <4>1, Owes
    <3>2. sender' \in Senders /\ (sender').at = "idle" /\ incidents' \subseteq incidents
      BY <1>1, <2>3 DEF SendRecord, Recovered, Resting, Senders
    <3> QED BY <1>1, <2>3, <3>1, <3>2 DEF SendRecord, DataTypes
  <2> QED BY <1>7, <2>2, <2>3
<1>8. ASSUME NEW g \in Epochs, WorkerTake(g) \/ WorkerReturn(g)
      PROVE  DataTypes'
  BY <1>1, <1>8 DEF WorkerTake, WorkerReturn, DataTypes, Workers
<1>9. ASSUME NEW g \in Epochs, WorkerPrepare(g) \/ WorkerSend(g) \/ WorkerDrain(g)
      PROVE  DataTypes'
  <2>1. owner[g] # 0
    BY <1>1, <1>9 DEF WorkerPrepare, WorkerSend, WorkerDrain, Generations
  <2>2. Incident(g, "UdpSend", "SendFailed") \in Incidents
    BY <1>1, <2>1, IncidentIs DEF Stages, Reasons
  <2>3. incidents' \subseteq incidents \cup {Incident(g, "UdpSend", "SendFailed")}
    BY <1>9 DEF WorkerPrepare, WorkerSend, WorkerDrain, Started, Recovered, Closed
  <2>4. owed' \in [Epochs -> Debts]
    <3>1. owed \in [Epochs -> Debts] /\ -1 \in Int /\ -out[g] \in Int
      BY <1>1 DEF DataTypes
    <3>2. owed' \in {owed, Owe(g, "send", -1), Owe(g, "send", -out[g])}
      BY <1>9 DEF WorkerPrepare, WorkerSend, WorkerDrain
    <3> QED BY <3>1, <3>2, Owes
  <2>5. worker' \in [Epochs -> Workers] /\ out' \in [Epochs -> Nat]
    BY <1>1, <1>9 DEF WorkerPrepare, WorkerSend, WorkerDrain, DataTypes, Workers
  <2> QED BY <1>1, <1>9, <2>2, <2>3, <2>4, <2>5
      DEF WorkerPrepare, WorkerSend, WorkerDrain, DataTypes
<1>10. CASE DataQueue
  <2> DEFINE g == current[reader.peer]
  <2>1. reader.peer \in Peers /\ g \in 0..MaxEpoch /\ reader' = Unread
    BY <1>1, <1>10 DEF DataQueue, DataTypes
  <2>2. CASE UNCHANGED <<inbound, owed, incidents>>
    BY <1>1, <1>10, <2>1, <2>2 DEF DataQueue, DataTypes, Unread
  <2>3. CASE g # 0
    <3>1. g \in Epochs /\ owner[g] # 0 /\ owed \in [Epochs -> Debts]
      BY <1>1, <2>1, <2>3, DataAssumption, ZenonT(60) DEF Generations, DataTypes
    <3>2. ASSUME NEW reason \in {"QueueFull", "SessionClosed"}
          PROVE  Incident(g, "InboundQueue", reason) \in Incidents
      BY <1>1, <3>1, IncidentIs DEF Stages, Reasons
    <3>3. owed' \in {owed, Owe(g, "receive", 1)}
      BY <1>10 DEF DataQueue
    <3>4. owed' \in [Epochs -> Debts]
      BY <3>1, <3>3, Owes
    <3>5. \E reason \in {"QueueFull", "SessionClosed"} :
             incidents' \subseteq incidents \cup {Incident(g, "InboundQueue", reason)}
      BY <1>10 DEF DataQueue, Started, Recovered
    <3>6. inbound' \in [Epochs -> Nat]
      BY <1>1, <1>10, <3>1 DEF DataQueue, DataTypes
    <3> QED BY <1>1, <1>10, <2>1, <3>2, <3>4, <3>5, <3>6 DEF DataQueue, DataTypes, Unread
  <2> QED BY <1>10, <2>2, <2>3 DEF DataQueue
<1>11. CASE Take
  <2>1. PICK i \in 0..(Len(order) - 1) :
           /\ Waiting(order[i + 1])
           /\ taker' = current[order[i + 1]]
           /\ inbound' = [inbound EXCEPT ![current[order[i + 1]]] =
                                 inbound[current[order[i + 1]]] - 1]
    BY <1>11 DEF Take
  <2>2. order[i + 1] \in Peers
    BY <1>1 DEF OrderOK
  <2> DEFINE g == current[order[i + 1]]
  <2>3. g \in Epochs /\ inbound[g] > 0
    BY <1>1, <2>1, <2>2 DEF Waiting, DataTypes
  <2>4. taker' = g /\ inbound' = [inbound EXCEPT ![g] = inbound[g] - 1]
    BY <2>1
  <2>5. UNCHANGED <<current, owner, gate, calls, out, worker, sender, reader, verdict, cleared,
                    owed, incidents>>
    BY <1>11 DEF Take
  <2> HIDE DEF g
  <2> QED BY <1>1, <2>3, <2>4, <2>5, SMTT(30) DEF DataTypes
<1>12. CASE HookAccepts \/ GenerationClosed \/ HookDisconnected \/ EndGameplay
  BY <1>1, <1>12 DEF HookAccepts, GenerationClosed, HookDisconnected, EndGameplay, DataTypes,
                     Verdicts
<1>13. CASE CompleteAccepted \/ RecordDropped \/ CloseEpoch
  <2>1. taker \in Epochs /\ owner[taker] # 0 /\ owed \in [Epochs -> Debts]
    BY <1>1, <1>13 DEF CompleteAccepted, RecordDropped, CloseEpoch, DataTypes, Generations
  <2>2. owed' \in {owed, Owe(taker, "receive", -1)}
    BY <1>13 DEF CompleteAccepted, RecordDropped, CloseEpoch
  <2>3. owed' \in [Epochs -> Debts]
    BY <2>1, <2>2, Owes
  <2>4. Incident(taker, "HookQueue", "SessionClosed") \in Incidents
    BY <1>1, <2>1, IncidentIs DEF Stages, Reasons
  <2>5. incidents' \subseteq incidents \cup {Incident(taker, "HookQueue", "SessionClosed")}
    BY <1>13 DEF CompleteAccepted, RecordDropped, CloseEpoch, Started, Recovered, Closed
  <2>6. taker' \in 0..MaxEpoch /\ verdict' \in Verdicts /\ (verdict' # "open" => taker' # 0)
    BY <1>1, <1>13, <2>1 DEF CompleteAccepted, RecordDropped, CloseEpoch, Verdicts
  <2> QED BY <1>1, <1>13, <2>3, <2>4, <2>5, <2>6
      DEF CompleteAccepted, RecordDropped, CloseEpoch, DataTypes
<1>14. CASE ClearInbound
  <2> DEFINE mine == {g \in Epochs : owner[g] # 0 /\ current[owner[g]] = g}
  <2>1. /\ inbound' = [g \in Epochs |-> IF g \in mine THEN 0 ELSE inbound[g]]
        /\ cleared' = [g \in Epochs |-> IF g \in mine THEN inbound[g] ELSE 0]
    BY <1>14 DEF ClearInbound
  <2> HIDE DEF mine
  <2>2. inbound' \in [Epochs -> Nat] /\ cleared' \in [Epochs -> Nat]
    BY <1>1, <2>1 DEF DataTypes
  <2> QED BY <1>1, <1>14, <2>2 DEF ClearInbound, DataTypes
<1>15. CASE RecordCleared
  <2>1. CASE UNCHANGED <<cleared, owed, incidents>>
    BY <1>1, <1>15, <2>1 DEF RecordCleared, DataTypes
  <2>2. ASSUME NEW g \in Epochs, cleared[g] > 0,
               owed' = Owe(g, "receive", -cleared[g]),
               incidents' = Started(g, "InboundQueue", "SessionClosed"),
               cleared' = [cleared EXCEPT ![g] = 0]
        PROVE  DataTypes'
    <3>1. /\ owner[g] # 0 /\ -cleared[g] \in Int /\ owed \in [Epochs -> Debts]
          /\ cleared' \in [Epochs -> Nat]
      BY <1>1, <2>2 DEF Generations, DataTypes
    <3>2. Incident(g, "InboundQueue", "SessionClosed") \in Incidents
      BY <1>1, <3>1, IncidentIs DEF Stages, Reasons
    <3>3. owed' \in [Epochs -> Debts]
      BY <2>2, <3>1, Owes
    <3> QED BY <1>1, <1>15, <2>2, <3>1, <3>2, <3>3 DEF RecordCleared, Started, DataTypes
  <2> QED BY <1>15, <2>1, <2>2 DEF RecordCleared
<1>16. CASE Attach \/ Detach \/ Cancel \/ stop_data_workers
  BY <1>1, <1>16 DEF Attach, Detach, Cancel, stop_data_workers, DataTypes
<1> QED BY <1>2, <1>3, <1>4, <1>5, <1>6, <1>7, <1>8, <1>9, <1>10, <1>11, <1>12, <1>13, <1>14,
           <1>15, <1>16
    DEF DataNext

(* Every packet is owed once, wherever it is.                              *)
LEMMA LedgerStep ==
    ASSUME DataInv, DataNext
    PROVE  ResolvedOnce'
<1>1. /\ DataTypes /\ Generations /\ Sessions /\ OrderOK /\ ResolvedOnce
      /\ 0 \notin Epochs /\ \A g \in 0..MaxEpoch : g # 0 => g \in Epochs
  BY DataAssumption DEF DataInv, Epochs
<1>2. /\ owed \in [Epochs -> Debts] /\ out \in [Epochs -> Nat] /\ inbound \in [Epochs -> Nat]
      /\ worker \in [Epochs -> Workers]
      /\ \A g \in Epochs : owed[g].send \in Int /\ owed[g].receive \in Int
  BY <1>1 DEF DataTypes, Debts
<1>0. \A g \in Epochs : InHand(g) \in {0, 1} /\ Held(g) \in {0, 1} /\ cleared[g] \in Nat
  BY <1>1 DEF InHand, Held, DataTypes
<1>18. \A g \in Epochs :
          /\ owed[g].receive = inbound[g] + cleared[g] + Held(g)
          /\ inbound[g] \in Nat /\ cleared[g] \in Nat /\ Held(g) \in {0, 1}
          /\ owed[g].receive \in Int
  BY <1>0, <1>1, <1>2 DEF ResolvedOnce
<1>3. ASSUME UNCHANGED <<out, worker, inbound, sender, cleared, owed>>,
             \A g \in Epochs : Held(g)' = Held(g)
      PROVE  ResolvedOnce'
  <2>1. ASSUME NEW g \in Epochs
        PROVE  /\ InHand(g)' = InHand(g) /\ (GateHeld(g)' <=> GateHeld(g))
               /\ (owed')[g] = owed[g] /\ (out')[g] = out[g] /\ (inbound')[g] = inbound[g]
               /\ (cleared')[g] = cleared[g] /\ Held(g)' = Held(g)
    BY <1>3 DEF InHand, GateHeld
  <2> QED BY <1>1, <2>1 DEF ResolvedOnce
<1>4. ASSUME SendKey \/ SendUnavailable \/ \E p \in Peers : SendSelect(p)
      PROVE  ResolvedOnce'
  <2>1. UNCHANGED <<out, worker, inbound, taker, verdict, cleared, owed>>
    BY <1>4 DEF SendSelect, SendKey, SendUnavailable
  <2>2. sender.at # "queued" /\ (sender').at # "queued"
    <3>1. sender \in Senders
      BY <1>1 DEF DataTypes
    <3>2. CASE SendKey
      BY <3>1, <3>2 DEF SendKey, Senders
    <3>3. CASE SendUnavailable \/ \E p \in Peers : SendSelect(p)
      BY <3>3 DEF SendSelect, SendUnavailable, Resting
    <3> QED BY <1>4, <3>2, <3>3
  <2>3. ASSUME NEW g \in Epochs
        PROVE  InHand(g)' = InHand(g) /\ Held(g)' = Held(g) /\ ~GateHeld(g)' /\ ~GateHeld(g)
    BY <2>1, <2>2 DEF InHand, Held, GateHeld
  <2> QED BY <1>1, <2>1, <2>3 DEF ResolvedOnce
<1>5. ASSUME NEW c \in calls, Finish(c)
      PROVE  ResolvedOnce'
  <2>1. c.closes \in 0..MaxEpoch /\ c.spawns \in 0..MaxEpoch
        /\ (c.spawns # 0 => worker[c.spawns] = "none")
    BY <1>1 DEF DataTypes, Generations
  <2>2. \A g \in Epochs : /\ InHand(g)' = InHand(g) /\ Held(g)' = Held(g)
                          /\ (cleared')[g] = cleared[g]
                          /\ out'[g] = out[g] /\ (GateHeld(g)' <=> GateHeld(g))
    BY <1>1, <1>2, <1>5, <2>1 DEF Finish, InHand, Held, GateHeld
  <2>3. ASSUME NEW g \in Epochs
        PROVE  /\ (owed')[g].send = owed[g].send
               /\ (owed')[g].receive - (inbound')[g] = owed[g].receive - inbound[g]
    <3>1. CASE c.closes = 0
      BY <1>5, <1>2, <3>1 DEF Finish
    <3>2. CASE c.closes # 0
      <4> DEFINE k == c.closes
      <4>1. /\ owed' = Owe(k, "receive", -inbound[k])
            /\ inbound' = [inbound EXCEPT ![k] = 0]
        BY <1>5, <3>2 DEF Finish, close_peer_data
      <4>2. k \in Epochs /\ -inbound[k] \in Int
        BY <1>1, <1>2, <2>1, <3>2
      <4> HIDE DEF k
      <4>3. /\ (owed')[g].send = owed[g].send
            /\ (owed')[g].receive = owed[g].receive + (IF g = k THEN -inbound[k] ELSE 0)
        BY <1>2, <4>1, <4>2, Owes, SMTT(30)
      <4>4. (inbound')[g] = IF g = k THEN 0 ELSE inbound[g]
        BY <1>2, <4>1
      <4> QED BY <1>2, <4>1, <4>2, <4>3, <4>4
    <3> QED BY <3>1, <3>2
  <2>4. inbound' \in [Epochs -> Nat] /\ owed' \in [Epochs -> Debts]
    BY DataTypesStep, <1>5 DEF DataTypes, DataNext
  <2>5. \A g \in Epochs : (owed')[g].receive \in Int /\ (inbound')[g] \in Nat
    BY <2>4 DEF Debts
  <2>6. \A g \in Epochs : (owed')[g].receive = (inbound')[g] + (cleared')[g] + Held(g)'
    BY <1>18, <2>2, <2>3, <2>5
  <2> QED BY <1>1, <2>2, <2>3, <2>6 DEF ResolvedOnce
<1>6. CASE SendQueue
  <2> DEFINE k == sender.epoch
  <2>1. k \in Epochs /\ UNCHANGED <<inbound, worker, taker, verdict, cleared, owed>>
    BY <1>1, <1>6 DEF SendQueue, DataTypes, Senders
  <2>2. \A g \in Epochs : InHand(g)' = InHand(g) /\ Held(g)' = Held(g) /\ ~GateHeld(g)
    BY <1>6, <2>1 DEF SendQueue, InHand, Held, GateHeld
  <2>3. CASE out' = out /\ sender' = Resting
    <3>1. \A g \in Epochs : ~GateHeld(g)'
      BY <2>3 DEF Resting, GateHeld
    <3> QED BY <1>1, <2>1, <2>2, <2>3, <3>1 DEF ResolvedOnce
  <2>4. CASE out' = [out EXCEPT ![k] = out[k] + 1] /\ sender' = [sender EXCEPT !.at = "queued"]
    <3>1. (sender').at = "queued" /\ (sender').epoch = k
      BY <1>1, <2>4 DEF DataTypes, Senders
    <3> HIDE DEF k
    <3>2. \A g \in Epochs : GateHeld(g)' <=> g = k
      BY <3>1 DEF GateHeld
    <3>3. \A g \in Epochs : (out')[g] = IF g = k THEN out[g] + 1 ELSE out[g]
      BY <1>2, <2>4
    <3> QED BY <1>1, <1>2, <2>1, <2>2, <3>2, <3>3 DEF ResolvedOnce, InHand
  <2> QED BY <1>6, <2>3, <2>4 DEF SendQueue
<1>7. CASE SendRecord
  <2> DEFINE k == sender.epoch
  <2>1. k \in Epochs /\ owed' = Owe(k, "send", 1) /\ sender.at = "queued"
    BY <1>1, <1>7 DEF SendRecord, DataTypes, Senders
  <2>2. sender.epoch = k
    OBVIOUS
  <2>3. sender' = Resting /\ UNCHANGED <<out, worker, inbound, taker, verdict, cleared>>
    BY <1>7 DEF SendRecord
  <2> HIDE DEF k
  <2>4. \A g \in Epochs : /\ (owed')[g].receive = owed[g].receive
                          /\ (owed')[g].send = owed[g].send + (IF g = k THEN 1 ELSE 0)
    BY <1>2, <2>1, Owes
  <2>5. \A g \in Epochs : /\ InHand(g)' = InHand(g) /\ ~GateHeld(g)' /\ (GateHeld(g) <=> g = k)
                          /\ (out')[g] = out[g] /\ (inbound')[g] = inbound[g]
                          /\ Held(g)' = Held(g) /\ (cleared')[g] = cleared[g]
    BY <2>1, <2>2, <2>3 DEF Resting, GateHeld, InHand, Held
  <2> QED BY <1>1, <1>2, <2>1, <2>4, <2>5 DEF ResolvedOnce, InHand
<1>8. ASSUME NEW k \in Epochs, WorkerTake(k) \/ WorkerReturn(k)
      PROVE  ResolvedOnce'
  BY <1>1, <1>2, <1>8 DEF WorkerTake, WorkerReturn, ResolvedOnce, GateHeld, InHand, Held
<1>9. ASSUME NEW k \in Epochs, WorkerPrepare(k) \/ WorkerSend(k)
      PROVE  ResolvedOnce'
  <2>1. CASE worker' = [worker EXCEPT ![k] = "prepared"]
    BY <1>1, <1>2, <1>9, <2>1 DEF WorkerPrepare, WorkerSend, ResolvedOnce, GateHeld, InHand, Held
  <2>2. CASE worker' = [worker EXCEPT ![k] = "idle"]
    <3>1. /\ owed' = Owe(k, "send", -1) /\ worker[k] \in {"holding", "prepared"}
          /\ UNCHANGED <<out, inbound, sender, taker, verdict, cleared>>
      BY <1>2, <1>9, <2>2 DEF WorkerPrepare, WorkerSend
    <3>2. \A g \in Epochs : /\ (owed')[g].receive = owed[g].receive
                            /\ (owed')[g].send = owed[g].send + (IF g = k THEN -1 ELSE 0)
      BY <1>2, <3>1, Owes
    <3> QED BY <1>1, <1>2, <2>2, <3>1, <3>2 DEF ResolvedOnce, GateHeld, InHand, Held
  <2> QED BY <1>9, <2>1, <2>2 DEF WorkerPrepare, WorkerSend
<1>10. ASSUME NEW k \in Epochs, WorkerDrain(k)
       PROVE  ResolvedOnce'
  <2>1. /\ owed' = Owe(k, "send", -out[k]) /\ worker[k] = "idle"
        /\ worker' = [worker EXCEPT ![k] = "drained"] /\ out' = [out EXCEPT ![k] = 0]
        /\ UNCHANGED <<inbound, sender, taker, verdict, cleared>>
    BY <1>10 DEF WorkerDrain
  <2>2. \A g \in Epochs : /\ (owed')[g].receive = owed[g].receive
                          /\ (owed')[g].send = owed[g].send + (IF g = k THEN -out[k] ELSE 0)
    <3>1. -out[k] \in Int
      BY <1>2
    <3> QED BY <1>2, <2>1, <3>1, Owes
  <2> QED BY <1>1, <1>2, <2>1, <2>2 DEF ResolvedOnce, GateHeld, InHand, Held
<1>11. CASE DataQueue
  <2> DEFINE k == current[reader.peer]
  <2>1. CASE UNCHANGED <<inbound, owed>>
    BY <1>3, <1>11, <2>1 DEF DataQueue, Held
  <2>2. CASE /\ inbound' = [inbound EXCEPT ![k] = inbound[k] + 1]
             /\ owed' = Owe(k, "receive", 1) /\ k # 0
    <3>1. k \in Epochs /\ UNCHANGED <<out, worker, sender, taker, verdict, cleared>>
      BY <1>1, <1>11, <2>2 DEF DataQueue, DataTypes
    <3> HIDE DEF k
    <3>2. \A g \in Epochs : /\ (owed')[g].send = owed[g].send
                            /\ (owed')[g].receive = owed[g].receive + (IF g = k THEN 1 ELSE 0)
      BY <1>2, <2>2, <3>1, Owes, SMTT(30)
    <3>3. \A g \in Epochs : InHand(g)' = InHand(g) /\ Held(g)' = Held(g)
                            /\ (GateHeld(g)' <=> GateHeld(g))
      BY <3>1 DEF InHand, Held, GateHeld
    <3>4. \A g \in Epochs : /\ (inbound')[g] = inbound[g] + (IF g = k THEN 1 ELSE 0)
                            /\ (cleared')[g] = cleared[g] /\ (out')[g] = out[g]
      BY <1>2, <2>2, <3>1
    <3>5. \A g \in Epochs : (owed')[g].receive = (inbound')[g] + (cleared')[g] + Held(g)'
      BY <1>18, <3>2, <3>3, <3>4
    <3> QED BY <1>1, <3>2, <3>3, <3>4, <3>5 DEF ResolvedOnce
  <2> QED BY <1>11, <2>1, <2>2 DEF DataQueue
<1>12. CASE Take
  <2>1. PICK i \in 0..(Len(order) - 1) :
           /\ Waiting(order[i + 1])
           /\ taker' = current[order[i + 1]]
           /\ inbound' = [inbound EXCEPT ![current[order[i + 1]]] =
                                 inbound[current[order[i + 1]]] - 1]
    BY <1>12 DEF Take
  <2>2. order[i + 1] \in Peers
    BY <1>1 DEF OrderOK
  <2> DEFINE k == current[order[i + 1]]
  <2>3. k \in Epochs
    BY <1>1, <2>1, <2>2 DEF Waiting, DataTypes
  <2>4. taker' = k /\ inbound' = [inbound EXCEPT ![k] = inbound[k] - 1]
    BY <2>1
  <2>5. taker = 0 /\ verdict = "open" /\ UNCHANGED <<out, worker, sender, verdict, cleared, owed>>
    BY <1>1, <1>12 DEF Take, DataTypes
  <2> HIDE DEF k
  <2>6. \A g \in Epochs : InHand(g)' = InHand(g) /\ (GateHeld(g)' <=> GateHeld(g))
    BY <2>5 DEF InHand, GateHeld
  <2>7. \A g \in Epochs : Held(g) = 0 /\ Held(g)' = IF g = k THEN 1 ELSE 0
    BY <1>1, <2>3, <2>4, <2>5 DEF Held
  <2>8. \A g \in Epochs : (inbound')[g] = inbound[g] - (IF g = k THEN 1 ELSE 0)
    BY <1>2, <2>3, <2>4
  <2>9. \A g \in Epochs : (owed')[g].receive = (inbound')[g] + (cleared')[g] + Held(g)'
    BY <1>18, <2>5, <2>7, <2>8
  <2> QED BY <1>1, <2>5, <2>6, <2>9 DEF ResolvedOnce
<1>13. CASE HookAccepts \/ GenerationClosed \/ HookDisconnected \/ EndGameplay \/ CloseEpoch
  <2>1. UNCHANGED <<out, worker, inbound, sender, cleared, owed>>
    BY <1>13 DEF HookAccepts, GenerationClosed, HookDisconnected, EndGameplay, CloseEpoch
  <2>2. \A g \in Epochs : Held(g)' = Held(g)
    BY <1>1, <1>13 DEF HookAccepts, GenerationClosed, HookDisconnected, EndGameplay, CloseEpoch,
                       Held
  <2> QED BY <1>3, <2>1, <2>2
<1>14. CASE CompleteAccepted \/ RecordDropped
  <2>1. /\ taker # 0 /\ verdict # "recorded" /\ owed' = Owe(taker, "receive", -1)
        /\ taker' = 0 \/ verdict' = "recorded"
        /\ UNCHANGED <<out, worker, sender, inbound, cleared>>
    BY <1>1, <1>14 DEF CompleteAccepted, RecordDropped, DataTypes
  <2>2. taker \in Epochs
    BY <1>1, <2>1 DEF DataTypes
  <2>3. \A g \in Epochs : /\ (owed')[g].send = owed[g].send
                          /\ (owed')[g].receive = owed[g].receive + (IF g = taker THEN -1 ELSE 0)
    BY <1>2, <2>1, <2>2, Owes, SMTT(30)
  <2>4. \A g \in Epochs : Held(g)' = 0 /\ Held(g) = IF g = taker THEN 1 ELSE 0
    BY <1>1, <2>1 DEF Held
  <2>5. \A g \in Epochs : InHand(g)' = InHand(g) /\ (GateHeld(g)' <=> GateHeld(g))
    BY <2>1 DEF InHand, GateHeld
  <2> QED BY <1>0, <1>1, <1>2, <2>1, <2>3, <2>4, <2>5 DEF ResolvedOnce
<1>15. CASE ClearInbound
  <2> DEFINE mine == {g \in Epochs : owner[g] # 0 /\ current[owner[g]] = g}
  <2>1. /\ inbound' = [g \in Epochs |-> IF g \in mine THEN 0 ELSE inbound[g]]
        /\ cleared' = [g \in Epochs |-> IF g \in mine THEN inbound[g] ELSE 0]
        /\ UNCHANGED <<out, worker, sender, taker, verdict, owed>>
    BY <1>15 DEF ClearInbound
  <2>2. \A g \in Epochs : cleared[g] = 0
    BY <1>1, <1>15 DEF ClearInbound, Sessions
  <2> HIDE DEF mine
  <2>3. \A g \in Epochs : (inbound')[g] + (cleared')[g] = inbound[g] + cleared[g]
    BY <1>2, <2>1, <2>2
  <2> QED BY <1>1, <1>2, <2>1, <2>3 DEF ResolvedOnce, GateHeld, InHand, Held
<1>17. CASE RecordCleared
  <2>1. CASE UNCHANGED <<cleared, owed>>
    BY <1>3, <1>17, <2>1 DEF RecordCleared, Held
  <2>2. ASSUME NEW k \in Epochs, owed' = Owe(k, "receive", -cleared[k]),
               cleared' = [cleared EXCEPT ![k] = 0]
        PROVE  ResolvedOnce'
    <3>1. -cleared[k] \in Int /\ cleared \in [Epochs -> Nat]
      BY <1>0, <1>1 DEF DataTypes
    <3>2. \A g \in Epochs : /\ (owed')[g].send = owed[g].send
                            /\ (owed')[g].receive
                                  = owed[g].receive + (IF g = k THEN -cleared[k] ELSE 0)
                            /\ (cleared')[g] = IF g = k THEN 0 ELSE cleared[g]
      BY <1>2, <2>2, <3>1, Owes, SMTT(30)
    <3>3. UNCHANGED <<out, worker, sender, taker, verdict, inbound>>
      BY <1>17 DEF RecordCleared
    <3>4. \A g \in Epochs : InHand(g)' = InHand(g) /\ Held(g)' = Held(g)
                            /\ (GateHeld(g)' <=> GateHeld(g))
      BY <3>3 DEF InHand, Held, GateHeld
    <3> QED BY <1>0, <1>1, <1>2, <3>1, <3>2, <3>3, <3>4 DEF ResolvedOnce
  <2> QED BY <1>17, <2>1, <2>2 DEF RecordCleared
<1>16. CASE \/ \E p \in Peers : Connected(p) \/ Disconnected(p) \/ PathChanges(p) \/ DataRead(p)
            \/ Attach \/ Detach \/ Cancel \/ stop_data_workers
  BY <1>3, <1>16 DEF Connected, Disconnected, PathChanges, DataRead, Attach, Detach, Cancel,
                     stop_data_workers, Held
<1> QED BY <1>4, <1>5, <1>6, <1>7, <1>8, <1>9, <1>10, <1>11, <1>12, <1>13, <1>14, <1>15, <1>16,
           <1>17
    DEF DataNext

(* peer_order goes on listing every peer with a path, each once.           *)
LEMMA OrderStep ==
    ASSUME DataInv, DataNext
    PROVE  OrderOK'
<1>1. /\ OrderOK /\ current \in [Peers -> 0..MaxEpoch] /\ Len(order) \in Nat
      /\ \A i \in 1..Len(order) : order[i] \in Peers
  BY DEF DataInv, DataTypes, OrderOK
<1>2. ASSUME UNCHANGED <<order, current>>
      PROVE  OrderOK'
  BY <1>1, <1>2 DEF OrderOK, Contains
<1>3. ASSUME NEW p \in Peers, Connected(p)
      PROVE  OrderOK'
  <2>1. PICK g \in Epochs : current' = [current EXCEPT ![p] = g]
    BY <1>3 DEF Connected
  <2>2. order' = IF Contains(order, p) THEN order ELSE Append(order, p)
    BY <1>3 DEF Connected
  <2>3. \A q \in Peers : q # p => (current')[q] = current[q]
    BY <1>1, <2>1
  <2>4. CASE Contains(order, p)
    BY <1>1, <2>2, <2>3, <2>4 DEF OrderOK, Contains
  <2>5. CASE ~Contains(order, p)
    <3>1. order' = Append(order, p)
      BY <2>2, <2>5
    <3>2. /\ order' \in Seq(Peers) /\ Len(order') = Len(order) + 1
          /\ \A i \in 1..Len(order) : (order')[i] = order[i]
          /\ (order')[Len(order) + 1] = p
      BY <1>1, <3>1 DEF OrderOK
    <3>3. \A i \in 1..Len(order) : order[i] # p
      BY <2>5 DEF Contains
    <3>4. \A i, j \in 1..Len(order') : (order')[i] = (order')[j] => i = j
      <4>1. TAKE i, j \in 1..Len(order')
      <4>2. CASE i \in 1..Len(order) /\ j \in 1..Len(order)
        BY <1>1, <3>2, <4>2 DEF OrderOK
      <4>3. CASE i = Len(order) + 1 \/ j = Len(order) + 1
        BY <1>1, <3>2, <3>3, <4>1, <4>3, SMTT(30)
      <4> QED BY <1>1, <3>2, <4>1, <4>2, <4>3
    <3>5. ASSUME NEW q \in Peers, (current')[q] # 0
          PROVE  \E i \in 1..Len(order') : (order')[i] = q
      <4>1. CASE q = p
        BY <1>1, <3>2, <4>1
      <4>2. CASE q # p
        <5>1. PICK i \in 1..Len(order) : order[i] = q
          BY <1>1, <2>3, <3>5, <4>2 DEF OrderOK, Contains
        <5> QED BY <1>1, <3>2, <5>1
      <4> QED BY <4>1, <4>2
    <3> QED BY <3>2, <3>4, <3>5 DEF OrderOK, Contains
  <2> QED BY <2>4, <2>5
<1>4. ASSUME NEW p \in Peers, Disconnected(p)
      PROVE  OrderOK'
  <2>1. /\ current' = [current EXCEPT ![p] = 0] /\ order' = RemoveFirst(order, p)
        /\ Contains(order, p)
    BY <1>1, <1>4 DEF Disconnected, OrderOK
  <2>2. PICK f \in 1..Len(order) : order[f] = p /\ order' = RemoveAt(order, f)
    BY <1>1, <2>1, RemovedFirst DEF OrderOK
  <2>3. /\ order' \in Seq(Peers) /\ Len(order') = Len(order) - 1
        /\ \A j \in 1..Len(order) - 1 : (order')[j] = IF j < f THEN order[j] ELSE order[j + 1]
    BY <1>1, <2>2, RemovedAt DEF OrderOK
  <2>4. ASSUME NEW i \in 1..Len(order'), NEW j \in 1..Len(order'), (order')[i] = (order')[j]
        PROVE  i = j
    <3>1. /\ i \in 1..Len(order) /\ j \in 1..Len(order) /\ f \in Nat
          /\ i + 1 \in 1..Len(order) /\ j + 1 \in 1..Len(order)
          /\ i \in 1..Len(order) - 1 /\ j \in 1..Len(order) - 1
      BY <1>1, <2>3
    <3>2. \A x, y \in 1..Len(order) : order[x] = order[y] => x = y
      BY <1>1 DEF OrderOK
    <3>3. CASE i < f /\ j < f
      BY <2>3, <2>4, <3>1, <3>2, <3>3
    <3>4. CASE i < f /\ ~(j < f)
      <4>1. order[i] = order[j + 1]
        BY <2>3, <2>4, <3>1, <3>4
      <4> QED BY <3>1, <3>2, <3>4, <4>1
    <3>5. CASE ~(i < f) /\ j < f
      <4>1. order[i + 1] = order[j]
        BY <2>3, <2>4, <3>1, <3>5
      <4> QED BY <3>1, <3>2, <3>5, <4>1
    <3>6. CASE ~(i < f) /\ ~(j < f)
      <4>1. order[i + 1] = order[j + 1]
        BY <2>3, <2>4, <3>1, <3>6
      <4> QED BY <3>1, <3>2, <4>1
    <3> QED BY <3>3, <3>4, <3>5, <3>6
  <2>5. ASSUME NEW q \in Peers, (current')[q] # 0
        PROVE  \E i \in 1..Len(order') : (order')[i] = q
    <3>1. q # p /\ current[q] # 0
      BY <1>1, <2>1, <2>5
    <3>2. PICK i \in 1..Len(order) : order[i] = q
      BY <1>1, <3>1 DEF OrderOK, Contains
    <3>3. i # f
      BY <2>2, <3>1, <3>2
    <3>4. CASE i < f
      <4>1. i \in 1..Len(order) - 1
        BY <1>1, <3>2, <3>4
      <4> QED BY <2>3, <3>2, <3>4, <4>1
    <3>5. CASE i > f
      <4>1. i - 1 \in 1..Len(order) - 1 /\ ~(i - 1 < f) /\ (i - 1) + 1 = i
        BY <1>1, <3>2, <3>5
      <4> QED BY <2>3, <3>2, <4>1
    <3> QED BY <3>3, <3>4, <3>5
  <2> QED BY <2>3, <2>4, <2>5 DEF OrderOK, Contains
<1>5. CASE UNCHANGED <<order, current>>
  BY <1>2, <1>5
<1>6. \/ UNCHANGED <<order, current>>
      \/ \E p \in Peers : Connected(p) \/ Disconnected(p)
  BY DEF DataNext, PathChanges, SendSelect, SendKey, SendUnavailable, DataRead, Finish, SendQueue,
         SendRecord, WorkerTake, WorkerPrepare, WorkerSend, WorkerDrain, WorkerReturn, DataQueue,
         Take, HookAccepts, GenerationClosed, HookDisconnected, CompleteAccepted, RecordDropped,
         CloseEpoch, Attach, EndGameplay, Detach, ClearInbound, RecordCleared, Cancel,
         stop_data_workers
<1> QED BY <1>3, <1>4, <1>5, <1>6

(* Which generation is current, closed or still to be spawned.             *)
LEMMA GenerationsStep ==
    ASSUME DataInv, DataNext
    PROVE  Generations'
<1>1. /\ DataTypes /\ Generations /\ 0 \notin Epochs /\ 0 \notin Peers
      /\ \A g \in 0..MaxEpoch : g # 0 => g \in Epochs
      /\ \A p \in Peers : current[p] \in 0..MaxEpoch
  <2>1. 0 \in 0..MaxEpoch /\ 0 \notin Epochs /\ \A g \in 0..MaxEpoch : g # 0 => g \in Epochs
    BY DataAssumption DEF Epochs
  <2>2. 0 \notin Peers
    BY <2>1, DataAssumption
  <2> QED BY <2>1, <2>2 DEF DataInv, DataTypes
<1>2. /\ current \in [Peers -> 0..MaxEpoch] /\ owner \in [Epochs -> Peers \cup {0}]
      /\ worker \in [Epochs -> Workers] /\ gate = [g \in Epochs |-> gate[g]]
      /\ calls \subseteq [closes : 0..MaxEpoch, spawns : 0..MaxEpoch]
      /\ taker \in 0..MaxEpoch /\ sender.epoch \in 0..MaxEpoch
  BY <1>1 DEF DataTypes, Senders
<1>3. ASSUME UNCHANGED <<current, owner, gate, calls>>,
             \A g \in Epochs : (worker')[g] # worker[g] => worker[g] # "none",
             (sender').epoch # 0 => /\ (sender').peer \in Peers
                                    /\ owner[(sender').epoch] = (sender').peer,
             taker' \in {0, taker} \cup {current[p] : p \in Peers},
             \A g \in Epochs : (cleared')[g] # 0 => owner[g] # 0
      PROVE  Generations'
  <2>1. \A p \in Peers : current[p] # 0 => owner[current[p]] # 0
    BY <1>1 DEF Generations
  <2>2. /\ (sender').epoch # 0 => /\ (sender').peer \in Peers
                                   /\ (owner')[(sender').epoch] = (sender').peer
        /\ \A g \in Epochs : (cleared')[g] # 0 => (owner')[g] # 0
    BY <1>1, <1>3 DEF Generations
  <2>3. taker' # 0 => (owner')[taker'] # 0
    BY <1>1, <1>3, <2>1 DEF Generations
  <2>4. \A g \in Epochs : (owner')[g] = 0 => (worker')[g] = "none" /\ ~(gate')[g]
    BY <1>1, <1>3 DEF Generations
  <2>5. \A c \in calls' :
           /\ c.spawns # 0 => (owner')[c.spawns] # 0 /\ (worker')[c.spawns] = "none"
           /\ c.closes # 0 => (owner')[c.closes] # 0
           /\ \A p \in Peers : (current')[p] # 0 => (current')[p] # c.closes
    BY <1>1, <1>2, <1>3 DEF Generations
  <2> QED BY <1>1, <1>3, <2>2, <2>3, <2>4, <2>5 DEF Generations
<1>4. ASSUME NEW p \in Peers, Connected(p)
      PROVE  Generations'
  <2>1. PICK g \in Epochs : /\ owner[g] = 0
                            /\ owner' = [owner EXCEPT ![g] = p]
                            /\ gate' = [gate EXCEPT ![g] = TRUE]
                            /\ current' = [current EXCEPT ![p] = g]
                            /\ calls' = calls \cup {[closes |-> current[p], spawns |-> g]}
    BY <1>4 DEF Connected
  <2>2. UNCHANGED <<worker, sender, taker, cleared>>
    BY <1>4 DEF Connected
  <2> DEFINE new == [closes |-> current[p], spawns |-> g]
  <2>3. /\ \A h \in Epochs : (owner')[h] = IF h = g THEN p ELSE owner[h]
        /\ (gate')[g] = TRUE /\ \A h \in Epochs : h # g => (gate')[h] = gate[h]
        /\ \A q \in Peers : (current')[q] = IF q = p THEN g ELSE current[q]
    BY <1>2, <2>1
  <2>4. g # 0 /\ \A q \in Peers : current[q] # g
    BY <1>1, <2>1 DEF Generations
  <2>5. \A q \in Peers : (current')[q] # 0
            => (owner')[(current')[q]] = q /\ (gate')[(current')[q]]
    BY <1>1, <2>3, <2>4 DEF Generations
  <2>6. \A h \in Epochs : (owner')[h] = 0 => (worker')[h] = "none" /\ ~(gate')[h]
    BY <1>1, <2>2, <2>3 DEF Generations
  <2>7. ASSUME NEW c \in calls
        PROVE  /\ c.spawns # 0 => (owner')[c.spawns] # 0 /\ (worker')[c.spawns] = "none"
               /\ c.closes # 0 => (owner')[c.closes] # 0
               /\ \A q \in Peers : (current')[q] # 0 => (current')[q] # c.closes
               /\ c.spawns # g
    <3>1. c.spawns \in 0..MaxEpoch /\ c.closes \in 0..MaxEpoch
      BY <1>2
    <3>2. /\ c.spawns # 0 => owner[c.spawns] # 0 /\ worker[c.spawns] = "none"
          /\ c.closes # 0 => owner[c.closes] # 0
          /\ \A q \in Peers : current[q] # 0 => current[q] # c.closes
      BY <1>1 DEF Generations
    <3>3. c.spawns # g /\ c.closes # g
      BY <2>1, <2>4, <3>2
    <3> QED BY <1>1, <2>2, <2>3, <3>1, <3>2, <3>3
  <2>8. /\ new.spawns = g /\ (owner')[g] # 0 /\ (worker')[g] = "none"
        /\ new.closes = current[p]
        /\ new.closes # 0 => (owner')[new.closes] # 0
        /\ \A q \in Peers : (current')[q] # 0 => (current')[q] # new.closes
    <3>1. (owner')[g] # 0 /\ (worker')[g] = "none"
      BY <1>1, <2>1, <2>2, <2>3 DEF Generations
    <3>2. current[p] # 0 => (owner')[current[p]] # 0
      BY <1>1, <2>3 DEF Generations
    <3>3. \A q \in Peers : (current')[q] # 0 => (current')[q] # current[p]
      BY <1>1, <2>3, <2>4 DEF Generations
    <3> QED BY <3>1, <3>2, <3>3
  <2>9. calls' = calls \cup {new}
    BY <2>1
  <2> HIDE DEF new
  <2>10. \A c, d \in calls' : c.spawns = d.spawns /\ c.spawns # 0 => c = d
    <3>1. \A c, d \in calls : c.spawns = d.spawns /\ c.spawns # 0 => c = d
      BY <1>1 DEF Generations
    <3> QED BY <2>7, <2>8, <2>9, <3>1
  <2>11. \A c \in calls' :
           /\ c.spawns # 0 => (owner')[c.spawns] # 0 /\ (worker')[c.spawns] = "none"
           /\ c.closes # 0 => (owner')[c.closes] # 0
           /\ \A q \in Peers : (current')[q] # 0 => (current')[q] # c.closes
    BY <2>7, <2>8, <2>9
  <2>12. /\ (sender').epoch # 0 => /\ (sender').peer \in Peers
                                    /\ (owner')[(sender').epoch] = (sender').peer
         /\ taker' # 0 => (owner')[taker'] # 0
         /\ \A h \in Epochs : (cleared')[h] # 0 => (owner')[h] # 0
    BY <1>1, <1>2, <2>1, <2>2, <2>3 DEF Generations
  <2> QED BY <2>5, <2>6, <2>10, <2>11, <2>12 DEF Generations
<1>5. ASSUME NEW p \in Peers, Disconnected(p)
      PROVE  Generations'
  <2> DEFINE new == [closes |-> current[p], spawns |-> 0]
  <2>1. /\ current[p] # 0 /\ calls' = calls \cup {new}
        /\ current' = [current EXCEPT ![p] = 0]
        /\ UNCHANGED <<owner, gate, worker, sender, taker, cleared>>
    BY <1>5 DEF Disconnected
  <2>2. \A q \in Peers : (current')[q] = IF q = p THEN 0 ELSE current[q]
    BY <1>2, <2>1
  <2>3. new.spawns = 0 /\ new.closes = current[p]
    OBVIOUS
  <2>4. /\ owner[current[p]] # 0
        /\ \A q \in Peers : (current')[q] # 0 => (current')[q] # current[p]
    BY <1>1, <2>1, <2>2 DEF Generations
  <2> HIDE DEF new
  <2>5. \A c, d \in calls' : c.spawns = d.spawns /\ c.spawns # 0 => c = d
    BY <1>1, <2>1, <2>3 DEF Generations
  <2>6. \A c \in calls' :
           /\ c.spawns # 0 => (owner')[c.spawns] # 0 /\ (worker')[c.spawns] = "none"
           /\ c.closes # 0 => (owner')[c.closes] # 0
           /\ \A q \in Peers : (current')[q] # 0 => (current')[q] # c.closes
    BY <1>1, <2>1, <2>2, <2>3, <2>4 DEF Generations
  <2>7. \A q \in Peers : (current')[q] # 0
            => (owner')[(current')[q]] = q /\ (gate')[(current')[q]]
    BY <1>1, <2>1, <2>2 DEF Generations
  <2> QED BY <1>1, <2>1, <2>5, <2>6, <2>7 DEF Generations
<1>6. ASSUME NEW c \in calls, Finish(c)
      PROVE  Generations'
  <2>1. /\ calls' = calls \ {c} /\ UNCHANGED <<current, owner, sender, taker, cleared>>
        /\ gate' = IF c.closes = 0 THEN gate ELSE [gate EXCEPT ![c.closes] = FALSE]
        /\ worker' = IF c.spawns = 0 THEN worker ELSE [worker EXCEPT ![c.spawns] = "idle"]
    BY <1>6 DEF Finish, close_peer_data
  <2>2. /\ c.closes \in 0..MaxEpoch /\ c.spawns \in 0..MaxEpoch
        /\ c.spawns # 0 => owner[c.spawns] # 0
        /\ \A p \in Peers : current[p] # 0 => current[p] # c.closes
    BY <1>1, <1>2 DEF Generations
  <2>3. /\ \A g \in Epochs : (worker')[g] = IF g = c.spawns THEN "idle" ELSE worker[g]
        /\ \A g \in Epochs : g # c.closes => (gate')[g] = gate[g]
        /\ \A g \in Epochs : g = c.closes => ~(gate')[g]
    BY <1>1, <1>2, <2>1, <2>2
  <2>4. \A p \in Peers : (current')[p] # 0
            => (owner')[(current')[p]] = p /\ (gate')[(current')[p]]
    BY <1>1, <2>1, <2>2, <2>3 DEF Generations
  <2>5. \A g \in Epochs : (owner')[g] = 0 => (worker')[g] = "none" /\ ~(gate')[g]
    BY <1>1, <2>1, <2>2, <2>3 DEF Generations
  <2>6. ASSUME NEW d \in calls'
        PROVE  /\ d.spawns # 0 => (owner')[d.spawns] # 0 /\ (worker')[d.spawns] = "none"
               /\ d.closes # 0 => (owner')[d.closes] # 0
               /\ \A p \in Peers : (current')[p] # 0 => (current')[p] # d.closes
    <3>1. d \in calls /\ d # c /\ d.spawns \in 0..MaxEpoch
      BY <1>2, <2>1
    <3>2. d.spawns # 0 => d.spawns # c.spawns
      BY <1>1, <3>1 DEF Generations
    <3> QED BY <1>1, <2>1, <2>3, <3>1, <3>2 DEF Generations
  <2>7. \A x, y \in calls' : x.spawns = y.spawns /\ x.spawns # 0 => x = y
    BY <1>1, <2>1 DEF Generations
  <2> QED BY <1>1, <2>1, <2>4, <2>5, <2>6, <2>7 DEF Generations
<1>7. ASSUME SendKey \/ SendUnavailable \/ \E p \in Peers : SendSelect(p)
      PROVE  Generations'
  <2>1. UNCHANGED <<current, owner, gate, calls, worker, taker, cleared>>
    BY <1>7 DEF SendSelect, SendKey, SendUnavailable
  <2>2. (sender').epoch # 0 => /\ (sender').peer \in Peers
                               /\ owner[(sender').epoch] = (sender').peer
    <3>1. CASE SendUnavailable
      BY <3>1 DEF SendUnavailable, Resting
    <3>2. CASE SendKey
      <4>1. sender \in Senders /\ sender.peer \in Peers
        BY <1>1, <3>2 DEF SendKey, DataTypes
      <4>2. (sender').epoch = LatestKey(sender.peer) /\ (sender').peer = sender.peer
        BY <3>2, <4>1 DEF SendKey, Senders
      <4> QED BY <1>1, <4>1, <4>2, LatestKeyIs
    <3>3. ASSUME NEW p \in Peers, SendSelect(p)
          PROVE  (sender').epoch # 0 => /\ (sender').peer \in Peers
                                        /\ owner[(sender').epoch] = (sender').peer
      BY <1>1, <3>3 DEF SendSelect, Generations
    <3> QED BY <1>7, <3>1, <3>2, <3>3
  <2>3. \A g \in Epochs : (cleared')[g] # 0 => owner[g] # 0
    BY <1>1, <2>1 DEF Generations
  <2> QED BY <1>3, <2>1, <2>2, <2>3
<1>8. CASE SendQueue \/ SendRecord
  <2>1. UNCHANGED <<current, owner, gate, calls, worker, taker, cleared>>
    BY <1>8 DEF SendQueue, SendRecord
  <2>2. (sender').epoch = 0 \/ ((sender').epoch = sender.epoch /\ (sender').peer = sender.peer)
    BY <1>1, <1>8 DEF SendQueue, SendRecord, Resting, DataTypes, Senders
  <2>3. \A g \in Epochs : (cleared')[g] # 0 => owner[g] # 0
    BY <1>1, <2>1 DEF Generations
  <2>4. (sender').epoch # 0 => /\ (sender').peer \in Peers
                               /\ owner[(sender').epoch] = (sender').peer
    BY <1>1, <2>2 DEF Generations
  <2> QED BY <1>3, <2>1, <2>3, <2>4
<1>9. ASSUME NEW k \in Epochs,
             \/ WorkerTake(k) \/ WorkerPrepare(k) \/ WorkerSend(k) \/ WorkerDrain(k)
             \/ WorkerReturn(k)
      PROVE  Generations'
  <2>1. \A g \in Epochs : (worker')[g] # worker[g] => worker[g] # "none"
    BY <1>2, <1>9 DEF WorkerTake, WorkerPrepare, WorkerSend, WorkerDrain, WorkerReturn
  <2>2. UNCHANGED <<current, owner, gate, calls, sender, taker, cleared>>
    BY <1>9 DEF WorkerTake, WorkerPrepare, WorkerSend, WorkerDrain, WorkerReturn
  <2> QED BY <1>1, <1>3, <2>1, <2>2 DEF Generations
<1>10. CASE Take
  <2>1. PICK i \in 0..(Len(order) - 1) : taker' = current[order[i + 1]]
    BY <1>10 DEF Take
  <2>2. order[i + 1] \in Peers
    BY DEF DataInv, OrderOK
  <2>3. UNCHANGED <<current, owner, gate, calls, worker, sender, cleared>>
    BY <1>10 DEF Take
  <2> QED BY <1>1, <1>3, <2>1, <2>2, <2>3 DEF Generations
<1>11. CASE \/ HookAccepts \/ GenerationClosed \/ HookDisconnected \/ EndGameplay
            \/ CompleteAccepted \/ RecordDropped \/ CloseEpoch
  <2>1. taker' \in {0, taker} /\ UNCHANGED <<current, owner, gate, calls, worker, sender, cleared>>
    BY <1>11 DEF HookAccepts, GenerationClosed, HookDisconnected, EndGameplay, CompleteAccepted,
                 RecordDropped, CloseEpoch
  <2> QED BY <1>1, <1>3, <2>1 DEF Generations
<1>12. CASE \/ \E p \in Peers : PathChanges(p) \/ DataRead(p)
            \/ DataQueue \/ Attach \/ Detach \/ Cancel \/ stop_data_workers
  <2>1. UNCHANGED <<current, owner, gate, calls, worker, sender, taker, cleared>>
    BY <1>12 DEF PathChanges, DataRead, DataQueue, Attach, Detach, Cancel, stop_data_workers
  <2> QED BY <1>1, <1>3, <2>1 DEF Generations
<1>13. CASE ClearInbound \/ RecordCleared
  <2>1. UNCHANGED <<current, owner, gate, calls, worker, sender, taker>>
    BY <1>13 DEF ClearInbound, RecordCleared
  <2>2. \A g \in Epochs : (cleared')[g] # 0 => owner[g] # 0
    <3>1. CASE ClearInbound
      BY <3>1 DEF ClearInbound
    <3>2. CASE RecordCleared
      <4>1. cleared \in [Epochs -> Nat]
        BY <1>1 DEF DataTypes
      <4>2. cleared' = cleared \/ \E g \in Epochs : cleared' = [cleared EXCEPT ![g] = 0]
        BY <3>2 DEF RecordCleared
      <4> QED BY <1>1, <4>1, <4>2 DEF Generations
    <3> QED BY <1>13, <3>1, <3>2
  <2> QED BY <1>1, <1>3, <2>1, <2>2 DEF Generations
<1> QED BY <1>4, <1>5, <1>6, <1>7, <1>8, <1>9, <1>10, <1>11, <1>12, <1>13
    DEF DataNext

(* The last generation of a peer is the same while its epochs are.         *)
LEMMA SameLatestKey ==
    ASSUME NEW q \in Peers, \A g \in Epochs : (owner')[g] = q <=> owner[g] = q
    PROVE  LatestKey(q)' = LatestKey(q)
<1> DEFINE old == {g \in Epochs : owner[g] = q}
           new == {g \in Epochs : (owner')[g] = q}
           Greatest(S) == IF S = {} THEN 0 ELSE CHOOSE g \in S : \A h \in S : h <= g
<1>1. old = new
  OBVIOUS
<1>2. LatestKey(q) = Greatest(old)
  BY DEF LatestKey
<1>3. LatestKey(q)' = Greatest(new)
  BY DEF LatestKey
<1> HIDE DEF old, new, Greatest
<1> QED BY <1>1, <1>2, <1>3

(* Packets in the hands of the hook's task or of clear_inbound.            *)
LEMMA SessionsStep ==
    ASSUME Sessions, DataNext
    PROVE  Sessions'
<1>1. CASE UNCHANGED <<gameplay, cleared>> /\ taker' \in {0, taker}
  BY <1>1 DEF Sessions
<1>2. CASE Take \/ HookDisconnected \/ Attach \/ EndGameplay \/ Detach
  BY <1>2 DEF Sessions, Take, HookDisconnected, Attach, EndGameplay, Detach
<1>3. CASE ClearInbound \/ RecordCleared
  BY <1>3 DEF Sessions, ClearInbound, RecordCleared
<1> QED BY <1>1, <1>2, <1>3
    DEF DataNext, Connected, Disconnected, PathChanges, SendSelect, SendKey, SendUnavailable,
        DataRead, Finish, SendQueue, SendRecord, WorkerTake, WorkerPrepare, WorkerSend,
        WorkerDrain, WorkerReturn, DataQueue, HookAccepts, GenerationClosed, CompleteAccepted,
        RecordDropped, CloseEpoch, Cancel, stop_data_workers

(* A worker that is over stays behind a closed gate, and what is open of   *)
(* its generation is what the next connection of the peer ends.            *)
LEMMA EndingsStep ==
    ASSUME DataInv, DataNext
    PROVE  Endings'
<1>1. /\ DataTypes /\ Generations /\ Endings /\ 0 \notin Epochs /\ 0 \notin Peers
      /\ \A g \in 0..MaxEpoch : g # 0 => g \in Epochs
      /\ \A p \in Peers : current[p] \in 0..MaxEpoch
  <2>1. 0 \in 0..MaxEpoch /\ 0 \notin Epochs /\ \A g \in 0..MaxEpoch : g # 0 => g \in Epochs
    BY DataAssumption DEF Epochs
  <2>2. 0 \notin Peers
    BY <2>1, DataAssumption
  <2> QED BY <2>1, <2>2 DEF DataInv, DataTypes
<1>2. /\ current \in [Peers -> 0..MaxEpoch] /\ owner \in [Epochs -> Peers \cup {0}]
      /\ worker \in [Epochs -> Workers] /\ gate = [g \in Epochs |-> gate[g]]
      /\ \A i \in incidents : i[1] \in Peers /\ i[2] \in 0..MaxEpoch
      /\ taker \in 0..MaxEpoch /\ sender.epoch \in 0..MaxEpoch
  BY <1>1 DEF DataTypes, Senders, Incidents
<1>3. \A i \in incidents' : i[1] \in Peers
  BY DataTypesStep DEF DataTypes, Incidents
<1>4. ASSUME owner' = owner, room' = "up" => room = "up",
             room' = "up" => \A g \in Epochs : Over(g)' => ~(gate')[g] /\ ~HoldsSender(g)',
             \A i \in incidents' : i[2] # 0 => owner[i[2]] = i[1],
             room' = "up" => \A i \in incidents' : i[2] # 0 /\ Over(i[2])'
                 => \/ i \in incidents /\ Over(i[2])
                    \/ i[2] = LatestKey(i[1]) \/ Late(i)
      PROVE  Endings'
  <2>1. \A q \in Peers : LatestKey(q)' = LatestKey(q)
    BY <1>4, SameLatestKey
  <2>2. ASSUME room' = "up", NEW i \in incidents', i[2] # 0, Over(i[2])'
        PROVE  i[2] = LatestKey(i[1])' \/ Late(i)
    <3>1. i[2] = LatestKey(i[1]) \/ Late(i)
      BY <1>1, <1>4, <2>2 DEF Endings
    <3> QED BY <1>3, <2>1, <3>1
  <2> QED BY <1>4, <2>2 DEF Endings
<1>5. ASSUME owner' = owner, room' = "up" => room = "up",
             \A g \in Epochs : ~gate[g] => ~(gate')[g],
             \A g \in Epochs : Over(g)' => Over(g),
             \A g \in Epochs : HoldsSender(g)' => HoldsSender(g),
             \A i \in incidents' : i \notin incidents
                 => /\ i[2] # 0 => i[2] \in Epochs /\ owner[i[2]] = i[1]
                    /\ i[2] # 0 /\ room = "up" => ~Over(i[2]) \/ Late(i)
      PROVE  Endings'
  <2>1. room' = "up" => \A g \in Epochs : Over(g)' => ~(gate')[g] /\ ~HoldsSender(g)'
    BY <1>1, <1>5 DEF Endings
  <2>2. \A i \in incidents' : i[2] # 0 => owner[i[2]] = i[1]
    BY <1>1, <1>5 DEF Endings
  <2>3. ASSUME room' = "up", NEW i \in incidents', i[2] # 0, Over(i[2])'
        PROVE  (i \in incidents /\ Over(i[2])) \/ Late(i)
    <3>1. i[2] \in Epochs
      BY <1>1, <1>2, <1>5, <2>3
    <3> QED BY <1>5, <2>3, <3>1
  <2> HIDE DEF Over, Late
  <2> QED BY <1>4, <1>5, <2>1, <2>2, <2>3
<1>6. ASSUME NEW p \in Peers, Connected(p)
      PROVE  Endings'
  <2>1. PICK g \in Epochs : owner[g] = 0 /\ owner' = [owner EXCEPT ![g] = p]
                            /\ gate' = [gate EXCEPT ![g] = TRUE]
    BY <1>6 DEF Connected
  <2>2. incidents' = {i \in incidents : i[1] # p} /\ UNCHANGED <<worker, sender, room>>
    BY <1>6 DEF Connected, PeerClosed
  <2>3. /\ \A h \in Epochs : (owner')[h] = IF h = g THEN p ELSE owner[h]
        /\ \A h \in Epochs : h # g => (gate')[h] = gate[h]
        /\ ~Over(g) /\ \A h \in Epochs : Over(h)' = Over(h)
    BY <1>1, <1>2, <2>1, <2>2 DEF Generations, Over
  <2>4. \A q \in Peers : q # p => LatestKey(q)' = LatestKey(q)
    <3>1. \A q \in Peers : q # p => \A h \in Epochs : (owner')[h] = q <=> owner[h] = q
      BY <1>1, <2>1, <2>3
    <3> QED BY <3>1, SameLatestKey
  <2>5. ASSUME NEW i \in incidents', i[2] # 0
        PROVE  (owner')[i[2]] = i[1] /\ (room' = "up" /\ Over(i[2])'
                                           => (i[2] = LatestKey(i[1])' \/ Late(i)))
    <3>1. i \in incidents /\ i[1] # p /\ i[2] \in Epochs /\ i[1] \in Peers
      BY <1>1, <1>2, <2>2, <2>5
    <3>2. owner[i[2]] = i[1]
      BY <1>1, <2>5, <3>1 DEF Endings
    <3>3. (owner')[i[2]] = i[1]
      BY <1>1, <2>1, <2>3, <3>1, <3>2
    <3>4. room = "up" /\ Over(i[2]) => i[2] = LatestKey(i[1]) \/ Late(i)
      BY <1>1, <2>5, <3>1 DEF Endings
    <3> QED BY <2>2, <2>3, <2>4, <3>1, <3>3, <3>4
  <2>6. room' = "up" => \A h \in Epochs : Over(h)' => ~(gate')[h] /\ ~HoldsSender(h)'
    <3>1. \A h \in Epochs : HoldsSender(h)' = HoldsSender(h)
      BY <2>2 DEF HoldsSender
    <3> QED BY <1>1, <2>2, <2>3, <3>1 DEF Endings
  <2> QED BY <2>5, <2>6 DEF Endings
<1>7. ASSUME SendKey \/ SendUnavailable \/ \E p \in Peers : SendSelect(p)
      PROVE  Endings'
  <2>1. UNCHANGED <<owner, gate, worker, room>>
    BY <1>7 DEF SendSelect, SendKey, SendUnavailable
  <2>2. \A g \in Epochs : Over(g)' = Over(g)
    BY <2>1 DEF Over
  <2>3. CASE SendUnavailable
    <3> DEFINE i == <<sender.peer, sender.epoch, "OutboundQueue", "PeerUnavailable">>
    <3>1. incidents' = incidents \cup {i} /\ \A g \in Epochs : ~HoldsSender(g)'
      BY <2>3 DEF SendUnavailable, HoldsSender, Resting
    <3>2. i[1] = sender.peer /\ i[2] = sender.epoch /\ Late(i)
      BY DEF Late
    <3>3. i[2] # 0 => i[2] \in Epochs /\ owner[i[2]] = i[1]
      BY <1>1, <1>2, <3>2 DEF Generations
    <3> HIDE DEF i
    <3>4. \A j \in incidents' : j \notin incidents
                 => /\ j[2] # 0 => j[2] \in Epochs /\ owner[j[2]] = j[1]
                    /\ j[2] # 0 /\ room = "up" => ~Over(j[2]) \/ Late(j)
      BY <3>1, <3>2, <3>3
    <3> QED BY <1>5, <2>1, <2>2, <3>1, <3>4
  <2>4. CASE SendKey
    <3>1. incidents' = incidents /\ \A g \in Epochs : ~HoldsSender(g)'
      <4>1. sender \in Senders
        BY <1>1 DEF DataTypes
      <4>2. (sender').at = "unavailable"
        BY <2>4, <4>1 DEF SendKey, Senders
      <4> QED BY <2>4, <4>2 DEF SendKey, HoldsSender
    <3> QED BY <1>5, <2>1, <2>2, <3>1
  <2>5. ASSUME NEW p \in Peers, SendSelect(p)
        PROVE  Endings'
    <3>1. incidents' = incidents
      BY <2>5 DEF SendSelect
    <3>2. \A g \in Epochs : HoldsSender(g)' => g = current[p] /\ gate[g]
      BY <1>1, <2>5 DEF SendSelect, HoldsSender, Generations
    <3>3. room' = "up" => \A g \in Epochs : Over(g)' => ~(gate')[g] /\ ~HoldsSender(g)'
      BY <1>1, <2>1, <2>2, <3>2 DEF Endings
    <3>4. \A i \in incidents' : i[2] # 0 => owner[i[2]] = i[1]
      BY <1>1, <3>1 DEF Endings
    <3>5. room' = "up" => \A i \in incidents' : i[2] # 0 /\ Over(i[2])'
                 => \/ i \in incidents /\ Over(i[2])
                    \/ i[2] = LatestKey(i[1]) \/ Late(i)
      BY <2>1, <3>1 DEF Over
    <3> QED BY <1>4, <2>1, <3>3, <3>4, <3>5
  <2> QED BY <1>7, <2>3, <2>4, <2>5
<1>8. ASSUME NEW c \in calls, Finish(c)
      PROVE  Endings'
  <2>1. /\ UNCHANGED <<owner, room, sender>> /\ incidents' \subseteq incidents
        /\ gate' = IF c.closes = 0 THEN gate ELSE [gate EXCEPT ![c.closes] = FALSE]
        /\ worker' = IF c.spawns = 0 THEN worker ELSE [worker EXCEPT ![c.spawns] = "idle"]
    BY <1>8 DEF Finish, close_peer_data, Closed
  <2>2. \A g \in Epochs : ~gate[g] => ~(gate')[g]
    BY <1>2, <2>1
  <2>3. \A g \in Epochs : Over(g)' => Over(g)
    BY <1>2, <2>1 DEF Over
  <2>4. \A g \in Epochs : HoldsSender(g)' = HoldsSender(g)
    BY <2>1 DEF HoldsSender
  <2> QED BY <1>5, <2>1, <2>2, <2>3, <2>4
<1>9. CASE SendQueue \/ SendRecord
  <2> DEFINE g == sender.epoch
  <2>1. g \in Epochs /\ owner[g] # 0
    BY <1>1, <1>2, <1>9 DEF SendQueue, SendRecord, DataTypes, Generations
  <2>2. /\ UNCHANGED <<owner, room, gate, worker>>
        /\ incidents' \subseteq incidents \cup {Incident(g, "OutboundQueue", "QueueFull")}
    BY <1>9 DEF SendQueue, SendRecord, Started, Recovered
  <2>3. /\ Incident(g, "OutboundQueue", "QueueFull")[1] = owner[g]
        /\ Incident(g, "OutboundQueue", "QueueFull")[2] = g
    BY DEF Incident
  <2>4. room = "up" => ~Over(g)
    BY <1>1, <1>9, <2>1 DEF Endings, HoldsSender, SendQueue, SendRecord
  <2>5. \A h \in Epochs : Over(h)' => Over(h)
    BY <2>2 DEF Over
  <2>6. \A i \in incidents' : i \notin incidents
                 => i[2] \in Epochs /\ owner[i[2]] = i[1] /\ (room = "up" => ~Over(i[2]))
    BY <2>1, <2>2, <2>3, <2>4
  <2> HIDE DEF g
  <2>7. \A h \in Epochs : HoldsSender(h)' => HoldsSender(h)
    BY <1>1, <1>9 DEF SendQueue, SendRecord, HoldsSender, Resting, DataTypes, Senders
  <2> QED BY <1>5, <2>2, <2>5, <2>6, <2>7
<1>10. ASSUME NEW k \in Epochs,
             WorkerTake(k) \/ WorkerPrepare(k) \/ WorkerSend(k) \/ WorkerReturn(k)
       PROVE  Endings'
  <2>1. /\ UNCHANGED <<owner, room, gate, sender>>
        /\ incidents' \subseteq incidents \cup {Incident(k, "UdpSend", "SendFailed")}
    BY <1>10 DEF WorkerTake, WorkerPrepare, WorkerSend, WorkerReturn, Started, Recovered
  <2>2. \A g \in Epochs : Over(g)' => Over(g)
    BY <1>2, <1>10 DEF WorkerTake, WorkerPrepare, WorkerSend, WorkerReturn, Over
  <2>3. incidents' # incidents => ~Over(k)
    BY <1>10 DEF WorkerTake, WorkerPrepare, WorkerSend, WorkerReturn, Over
  <2>4. /\ Incident(k, "UdpSend", "SendFailed")[1] = owner[k]
        /\ Incident(k, "UdpSend", "SendFailed")[2] = k
    BY DEF Incident
  <2>5. \A i \in incidents' : i \notin incidents
                 => i[2] \in Epochs /\ owner[i[2]] = i[1] /\ (room = "up" => ~Over(i[2]))
    BY <2>1, <2>3, <2>4
  <2>6. \A g \in Epochs : HoldsSender(g)' = HoldsSender(g)
    BY <2>1 DEF HoldsSender
  <2> QED BY <1>5, <2>1, <2>2, <2>5, <2>6
<1>11. ASSUME NEW k \in Epochs, WorkerDrain(k)
       PROVE  Endings'
  <2>1. /\ UNCHANGED <<owner, room, gate, sender>>
        /\ incidents' = {i \in incidents : i[2] # k}
        /\ worker' = [worker EXCEPT ![k] = "drained"]
        /\ room = "up" => ~gate[k] /\ ~HoldsSender(k)
    BY <1>11 DEF WorkerDrain, ChannelEnded, Closed
  <2>2. \A g \in Epochs : g # k => (Over(g)' <=> Over(g))
    BY <1>2, <2>1 DEF Over
  <2>3. room' = "up" => \A g \in Epochs : Over(g)' => ~(gate')[g] /\ ~HoldsSender(g)'
    <3>1. \A g \in Epochs : HoldsSender(g)' = HoldsSender(g)
      BY <2>1 DEF HoldsSender
    <3> QED BY <1>1, <2>1, <2>2, <3>1 DEF Endings
  <2>4. \A i \in incidents' : i[2] # 0 => owner[i[2]] = i[1]
    BY <1>1, <2>1 DEF Endings
  <2>5. \A i \in incidents' : i \in incidents /\ (i[2] # 0 => i[2] \in Epochs /\ i[2] # k)
    BY <1>1, <1>2, <2>1
  <2>6. room' = "up" => \A i \in incidents' : i[2] # 0 /\ Over(i[2])'
                 => \/ i \in incidents /\ Over(i[2])
                    \/ i[2] = LatestKey(i[1]) \/ Late(i)
    BY <2>2, <2>5
  <2> QED BY <1>4, <2>1, <2>3, <2>4, <2>6
<1>12. CASE DataQueue
  <2> DEFINE g == current[reader.peer]
  <2>1. /\ UNCHANGED <<owner, room, gate, worker, sender>> /\ reader.peer \in Peers
    BY <1>1, <1>12 DEF DataQueue, DataTypes
  <2>2. g = 0 => incidents' = incidents
    BY <1>12 DEF DataQueue
  <2>3. PICK r \in Reasons : incidents' \subseteq incidents \cup {Incident(g, "InboundQueue", r)}
    BY <1>12 DEF DataQueue, Started, Recovered, Reasons
  <2>4. g # 0 => g \in Epochs /\ (room = "up" => ~Over(g))
    BY <1>1, <2>1 DEF Generations, Endings
  <2>5. Incident(g, "InboundQueue", r)[1] = owner[g] /\ Incident(g, "InboundQueue", r)[2] = g
    BY DEF Incident
  <2>6. \A i \in incidents' : i \notin incidents
                 => i[2] \in Epochs /\ owner[i[2]] = i[1] /\ (room = "up" => ~Over(i[2]))
    BY <2>2, <2>3, <2>4, <2>5
  <2>7. \A h \in Epochs : Over(h)' => Over(h)
    BY <2>1 DEF Over
  <2>8. \A h \in Epochs : HoldsSender(h)' = HoldsSender(h)
    BY <2>1 DEF HoldsSender
  <2> QED BY <1>5, <2>1, <2>6, <2>7, <2>8
<1>13. ASSUME NEW k \in Epochs, NEW stage \in Stages, owner[k] # 0,
              Late(Incident(k, stage, "SessionClosed")),
              incidents' \subseteq incidents \cup {Incident(k, stage, "SessionClosed")},
              UNCHANGED <<owner, room, gate, worker, sender>>
       PROVE  Endings'
  <2>1. /\ Incident(k, stage, "SessionClosed")[1] = owner[k]
        /\ Incident(k, stage, "SessionClosed")[2] = k
    BY DEF Incident
  <2>2. \A i \in incidents' : i \notin incidents
                 => /\ i[2] # 0 => i[2] \in Epochs /\ owner[i[2]] = i[1]
                    /\ i[2] # 0 /\ room = "up" => ~Over(i[2]) \/ Late(i)
    BY <1>13, <2>1
  <2>3. \A h \in Epochs : Over(h)' = Over(h) /\ HoldsSender(h)' = HoldsSender(h)
    BY <1>13 DEF Over, HoldsSender
  <2> QED BY <1>5, <1>13, <2>2, <2>3
<1>14. CASE RecordDropped
  <2>1. taker \in Epochs /\ owner[taker] # 0
    BY <1>1, <1>14 DEF RecordDropped, DataTypes, Generations
  <2>2. Late(Incident(taker, "HookQueue", "SessionClosed"))
    BY DEF Late, Incident
  <2> QED BY <1>13, <1>14, <2>1, <2>2 DEF RecordDropped, Started, Stages
<1>15. CASE RecordCleared
  <2>1. CASE incidents' = incidents
    <3>1. \A h \in Epochs : Over(h)' = Over(h) /\ HoldsSender(h)' = HoldsSender(h)
      BY <1>15 DEF RecordCleared, Over, HoldsSender
    <3> QED BY <1>5, <1>15, <2>1, <3>1 DEF RecordCleared
  <2>2. ASSUME NEW k \in Epochs, cleared[k] > 0,
               incidents' = Started(k, "InboundQueue", "SessionClosed")
        PROVE  Endings'
    <3>1. owner[k] # 0
      BY <1>1, <2>2 DEF Generations
    <3>2. Late(Incident(k, "InboundQueue", "SessionClosed"))
      BY DEF Late, Incident
    <3> QED BY <1>13, <1>15, <2>2, <3>1, <3>2 DEF RecordCleared, Started, Stages
  <2> QED BY <1>15, <2>1, <2>2 DEF RecordCleared
<1>16. CASE \/ \E p \in Peers : Disconnected(p) \/ PathChanges(p) \/ DataRead(p)
            \/ Take \/ HookAccepts \/ HookDisconnected \/ GenerationClosed \/ EndGameplay
            \/ CompleteAccepted \/ CloseEpoch
            \/ Attach \/ Detach \/ ClearInbound \/ Cancel \/ stop_data_workers
  <2>1. /\ UNCHANGED <<owner, gate, worker, sender>> /\ incidents' \subseteq incidents
        /\ room' = "up" => room = "up"
    BY <1>16 DEF Disconnected, PathChanges, DataRead, Take, HookAccepts, HookDisconnected,
                 GenerationClosed, EndGameplay, CompleteAccepted, CloseEpoch, Recovered, Closed,
                 Attach, Detach, ClearInbound, Cancel, stop_data_workers
  <2>2. \A h \in Epochs : Over(h)' = Over(h) /\ HoldsSender(h)' = HoldsSender(h)
    BY <2>1 DEF Over, HoldsSender
  <2> QED BY <1>5, <2>1, <2>2
<1> QED BY <1>6, <1>7, <1>8, <1>9, <1>10, <1>11, <1>12, <1>14, <1>15, <1>16 DEF DataNext

(* Of a run's first state.                                                 *)
LEMMA DataInitInv == DataInit => DataInv
<1> SUFFICES ASSUME DataInit
             PROVE  DataInv
  OBVIOUS
<1>1. MaxEpoch \in Nat /\ 0 \in 0..MaxEpoch /\ 0 \notin Epochs /\ 0 \notin Peers
  <2>1. MaxEpoch \in Nat /\ 0 \in 0..MaxEpoch /\ 0 \notin Epochs
    BY DataAssumption DEF Epochs
  <2> QED BY <2>1, DataAssumption
<1>2. DataTypes
  BY <1>1 DEF DataInit, DataTypes, Debts, Workers, Resting, Unread, Senders, Verdicts
<1>3. Generations /\ Endings /\ Sessions
  BY <1>1 DEF DataInit, Generations, Endings, Sessions, Over, HoldsSender, Resting
<1>4. OrderOK
  BY DEF DataInit, OrderOK, Contains
<1>5. ResolvedOnce
  BY DEF DataInit, ResolvedOnce, GateHeld, InHand, Held, Resting
<1> QED BY <1>2, <1>3, <1>4, <1>5 DEF DataInv

LEMMA DataInvStep == DataInv /\ [DataNext]_dataVars => DataInv'
<1>1. ASSUME DataInv, DataNext
      PROVE  DataInv'
  BY <1>1, DataTypesStep, GenerationsStep, EndingsStep, SessionsStep, OrderStep, LedgerStep
     DEF DataInv
<1>2. ASSUME DataInv, UNCHANGED dataVars
      PROVE  DataInv'
  <2>1. /\ DataTypes' = DataTypes /\ Generations' = Generations /\ Endings' = Endings
        /\ Sessions' = Sessions /\ OrderOK' = OrderOK /\ ResolvedOnce' = ResolvedOnce
    <3>1. /\ UNCHANGED <<room, current, owner, gate, order, calls, verdict, gameplay, cleared>>
          /\ UNCHANGED <<out, worker, inbound, sender, reader, taker, owed, incidents>>
      BY <1>2 DEF dataVars
    <3>2. DataTypes' = DataTypes
      BY <3>1 DEF DataTypes
    <3>3. Generations' = Generations
      BY <3>1 DEF Generations
    <3>4. Endings' = Endings
      BY <3>1 DEF Endings, Over, HoldsSender, LatestKey
    <3>5. OrderOK' = OrderOK
      BY <3>1 DEF OrderOK
    <3>6. ResolvedOnce' = ResolvedOnce
      BY <3>1 DEF ResolvedOnce, GateHeld, InHand, Held
    <3>7. Sessions' = Sessions
      BY <3>1 DEF Sessions
    <3> QED BY <3>2, <3>3, <3>4, <3>5, <3>6, <3>7
  <2> QED BY <1>2, <2>1 DEF DataInv
<1> QED BY <1>1, <1>2

(* The ledger owes, at every moment and for every generation, just the     *)
(* packets that wait in its queues or are in the hands of a task: record   *)
(* and record_dropped_batch are called once for each packet, whatever is   *)
(* replaced, closed, drained or cleared meanwhile (path/data.rs).          *)
THEOREM ResolvedExactlyOnce == DataSpec => []ResolvedOnce
<1>1. DataInv => ResolvedOnce
  BY DEF DataInv
<1> QED BY <1>1, DataInitInv, DataInvStep, PTL DEF DataSpec

(* No full queue and no failed send of a replaced generation stays open    *)
(* once its worker has returned, although packets are dropped after        *)
(* close_epoch; what is recorded with a key alone may come later, and is   *)
(* named by Late (path/data.rs, data_plane/incidents.rs).                  *)
THEOREM IncidentsAreEnded == DataSpec => []IncidentsEnd
<1>1. DataInv => IncidentsEnd
  BY DEF DataInv, Endings, IncidentsEnd, Over
<1> QED BY <1>1, DataInitInv, DataInvStep, PTL DEF DataSpec

(* The remainder of what is at most one round ahead.                       *)
LEMMA OneRound ==
    ASSUME NEW n \in Nat, n > 0, NEW x \in Nat
    PROVE  /\ x % n \in 0..n - 1
           /\ x < 2 * n => x % n = IF x < n THEN x ELSE x - n
<1>1. x % n \in 0..n - 1
  OBVIOUS
<1>2. CASE x < n
  BY <1>2
<1>3. ASSUME ~(x < n), x < 2 * n
      PROVE  x % n = x - n
  BY <1>3
<1> QED BY <1>1, <1>2, <1>3

(* The peers come one after another, the last one a round less one ahead.  *)
LEMMA StepsAre ==
    ASSUME NEW n \in Nat, n > 0, NEW from \in Nat, NEW j \in 0..n - 1
    PROVE  /\ from % n \in 0..n - 1
           /\ (j + n - (from % n)) % n
                 = IF j >= from % n THEN j - (from % n) ELSE j + n - (from % n)
<1> DEFINE c == from % n
<1>1. c \in 0..n - 1
  BY OneRound
<1> HIDE DEF c
<1>2. j + n - c \in Nat /\ j + n - c < 2 * n
  BY <1>1
<1>3. (j + n - c) % n = IF j + n - c < n THEN j + n - c ELSE (j + n - c) - n
  BY <1>2, OneRound
<1>4. (j + n - c) % n = IF j >= c THEN j - c ELSE j + n - c
  BY <1>1, <1>3
<1> QED BY <1>1, <1>4 DEF c

(* No peer is passed over more often than the turns before its own.        *)
LEMMA TurnsStep ==
    ASSUME DataInv, Turns, DataNext
    PROVE  Turns'
<1>1. /\ OrderOK /\ Len(order) \in Nat /\ cursor \in Nat /\ passed \in [Peers -> Nat]
      /\ \A i \in 1..Len(order) : order[i] \in Peers
      /\ \A j \in 0..Len(order) - 1 : j + 1 \in 1..Len(order)
  BY DEF DataInv, OrderOK, Turns
<1>2. OrderOK' /\ Len(order') \in Nat /\ \A i \in 1..Len(order') : (order')[i] \in Peers
  BY OrderStep DEF OrderOK
<1>3. ASSUME cursor' \in Nat, passed' = [q \in Peers |-> 0]
      PROVE  Turns'
  <2>1. ASSUME NEW j \in 0..Len(order') - 1
        PROVE  (passed')[(order')[j + 1]] + Steps(j)' < Len(order')
    <3>1. Len(order') > 0 /\ (order')[j + 1] \in Peers
      BY <1>2
    <3>2. Steps(j)' \in 0..Len(order') - 1
      BY <1>2, <1>3, <3>1, StepsAre DEF Steps
    <3> QED BY <1>3, <3>1, <3>2
  <2> QED BY <1>3, <2>1 DEF Turns
<1>4. ASSUME UNCHANGED <<order, cursor>>, passed' \in [Peers -> Nat],
             \A q \in Peers : (passed')[q] <= passed[q]
      PROVE  Turns'
  <2>1. ASSUME NEW j \in 0..Len(order) - 1
        PROVE  (passed')[order[j + 1]] + Steps(j) < Len(order)
    <3>1. order[j + 1] \in Peers /\ Steps(j) \in Nat
      BY <1>1, StepsAre DEF Steps
    <3> QED BY <1>1, <1>4, <3>1 DEF Turns
  <2> QED BY <1>1, <1>4, <2>1 DEF Turns, Steps
<1>5. ASSUME NEW p \in Peers, Connected(p) \/ Disconnected(p)
      PROVE  Turns'
  <2>1. cursor' = cursor /\ passed' = Afresh(p)
    BY <1>5 DEF Connected, Disconnected
  <2>2. CASE order' = order
    BY <1>1, <1>4, <2>1, <2>2 DEF Afresh
  <2>3. CASE order' # order
    BY <1>1, <1>3, <2>1, <2>3 DEF Afresh
  <2> QED BY <2>2, <2>3
<1>6. CASE Take
  <2> DEFINE n == Len(order)
             c == cursor % Len(order)
  <2>1. PICK i \in 0..(Len(order) - 1) :
           /\ Waiting(order[i + 1]) /\ InTurn(i)
           /\ passed' = [q \in Peers |-> IF q = order[i + 1] \/ ~Waiting(q) THEN 0
                                            ELSE passed[q] + 1]
    BY <1>6 DEF Take
  <2>2. order' = order
    BY <1>6 DEF Take
  <2>3. /\ cursor' = (i + 1) % n
        /\ \A j \in 0..(n - 1) : Waiting(order[j + 1]) => Steps(i) <= Steps(j)
    BY <2>1 DEF InTurn, Steps
  <2>4. n \in Nat /\ n > 0 /\ i + 1 \in Nat /\ i + 1 < 2 * n
    BY <1>1
  <2>5. cursor' \in 0..n - 1 /\ cursor' = IF i + 1 < n THEN i + 1 ELSE 0
    <3>1. /\ cursor' = IF i + 1 < n THEN i + 1 ELSE (i + 1) - n
          /\ i + 1 <= n
      <4>1. i + 1 <= n
        BY <2>4
      <4> HIDE DEF n
      <4> QED BY <2>3, <2>4, <4>1, OneRound
    <3> HIDE DEF n
    <3> QED BY <2>4, <3>1
  <2>6. c \in 0..n - 1
    BY <1>1, <2>4, OneRound
  <2>7. \A j \in 0..n - 1 : Steps(j) = IF j >= c THEN j - c ELSE j + n - c
    BY <1>1, <2>4, StepsAre DEF Steps
  <2>8. \A j \in 0..n - 1 :
           Steps(j)' = IF j >= cursor' THEN j - cursor' ELSE j + n - cursor'
    <3>1. cursor' % n = cursor'
      BY <2>4, <2>5, OneRound
    <3>2. Len(order') = n /\ cursor' \in Nat
      BY <2>2, <2>5
    <3>3. TAKE j \in 0..n - 1
    <3>4. Steps(j)' = (j + n - (cursor' % n)) % n
      BY <3>2 DEF Steps
    <3> HIDE DEF n
    <3>5. (j + n - (cursor' % n)) % n
             = IF j >= cursor' % n THEN j - (cursor' % n) ELSE j + n - (cursor' % n)
      BY <2>4, <3>2, <3>3, StepsAre
    <3> QED BY <3>1, <3>4, <3>5
  <2>9. /\ passed' \in [Peers -> Nat]
        /\ \A j \in 0..n - 1 : /\ order[j + 1] \in Peers /\ passed[order[j + 1]] \in Nat
                               /\ passed[order[j + 1]] + Steps(j) < n
    BY <1>1, <2>1 DEF Turns
  <2> HIDE DEF n, c
  <2>10. ASSUME NEW j \in 0..n - 1
         PROVE  (passed')[order[j + 1]] + Steps(j)' < n
    <3>1. CASE (passed')[order[j + 1]] = 0
      BY <2>4, <2>5, <2>8, <3>1
    <3>2. CASE (passed')[order[j + 1]] # 0
      <4>1. /\ order[j + 1] # order[i + 1] /\ Waiting(order[j + 1])
            /\ (passed')[order[j + 1]] = passed[order[j + 1]] + 1
        BY <2>1, <2>9, <3>2
      <4>2. j # i /\ i \in 0..n - 1
        BY <4>1 DEF n
      <4>3. Steps(i) <= Steps(j)
        BY <2>3, <4>1
      <4>4. Steps(j)' < Steps(j)
        BY <2>4, <2>5, <2>6, <2>7, <2>8, <4>2, <4>3
      <4>5. Steps(j) \in Nat /\ Steps(j)' \in Nat
        BY <2>4, <2>5, <2>6, <2>7, <2>8
      <4> QED BY <2>4, <2>9, <4>1, <4>4, <4>5, SMTT(30)
    <3> QED BY <3>1, <3>2
  <2>11. cursor' \in Nat
    BY <2>5
  <2> QED BY <2>2, <2>9, <2>10, <2>11 DEF Turns, n
<1>7. CASE Attach
  BY <1>3, <1>7 DEF Attach
<1>8. CASE UNCHANGED <<order, cursor, passed>>
  BY <1>1, <1>4, <1>8
<1>9. \/ UNCHANGED <<order, cursor, passed>> \/ Take \/ Attach
      \/ \E p \in Peers : Connected(p) \/ Disconnected(p)
  BY DEF DataNext, PathChanges, SendSelect, SendKey, SendUnavailable, DataRead, Finish, SendQueue,
         SendRecord, WorkerTake, WorkerPrepare, WorkerSend, WorkerDrain, WorkerReturn, DataQueue,
         HookAccepts, GenerationClosed, HookDisconnected, CompleteAccepted, RecordDropped,
         CloseEpoch, EndGameplay, Detach, ClearInbound, RecordCleared, Cancel, stop_data_workers
<1> QED BY <1>5, <1>6, <1>7, <1>8, <1>9

(* No more peers are listed than there are.                                *)
LEMMA OrderIsShort ==
    ASSUME OrderOK
    PROVE  Len(order) <= Cardinality(Peers)
<1>1. /\ IsFiniteSet(Peers) /\ Len(order) \in Nat
      /\ order \in [1..Len(order) -> Peers]
      /\ \A i, j \in 1..Len(order) : order[i] = order[j] => i = j
  BY DataAssumption DEF OrderOK
<1>2. IsFiniteSet(1..Len(order)) /\ Cardinality(1..Len(order)) = Len(order)
  <2>1. 1 \in Int /\ Len(order) \in Int
    BY <1>1
  <2>2. /\ IsFiniteSet(1..Len(order))
        /\ Cardinality(1..Len(order)) = IF 1 > Len(order) THEN 0 ELSE Len(order) - 1 + 1
    BY <2>1, FS_Interval
  <2> QED BY <1>1, <2>2
<1>3. Cardinality(Peers) \in Nat
  BY <1>1, FS_CardinalityType
<1>4. ~(Cardinality(Peers) < Cardinality(1..Len(order)))
  BY <1>1, <1>2, FS_PigeonHole
<1> QED BY <1>1, <1>2, <1>3, <1>4

(* pop_next_inbound serves the peers in turn: while the packets of one     *)
(* wait, every other is served at most once, for any number of peers and   *)
(* wherever the last change of peer_order left the cursor.                 *)
THEOREM SharesAreFair == DataSpec => []FairShare
<1>1. ASSUME DataInv, Turns
      PROVE  FairShare
  <2>1. ASSUME NEW p \in Peers, Waiting(p)
        PROVE  passed[p] < Cardinality(Peers)
    <3>1. PICK i \in 1..Len(order) : order[i] = p
      BY <1>1, <2>1 DEF DataInv, OrderOK, Waiting, Contains
    <3>2. /\ Len(order) \in Nat /\ Len(order) > 0 /\ i - 1 \in 0..Len(order) - 1
          /\ (i - 1) + 1 = i /\ cursor \in Nat /\ passed[p] \in Nat
      BY <1>1, <3>1 DEF DataInv, OrderOK, Turns
    <3>3. passed[p] + Steps(i - 1) < Len(order)
      BY <1>1, <3>1, <3>2 DEF Turns
    <3>4. Steps(i - 1) \in Nat
      BY <3>2, StepsAre DEF Steps
    <3>5. Len(order) <= Cardinality(Peers) /\ Cardinality(Peers) \in Nat
      BY <1>1, OrderIsShort, FS_CardinalityType, DataAssumption DEF DataInv
    <3> QED BY <3>2, <3>3, <3>4, <3>5
  <2> QED BY <2>1 DEF FairShare
<1>2. DataInit => Turns
  BY DEF DataInit, Turns
<1>3. ASSUME DataInv, Turns, [DataNext]_dataVars
      PROVE  Turns'
  <2>1. CASE UNCHANGED dataVars
    BY <1>3, <2>1 DEF dataVars, Turns, Steps
  <2> QED BY <1>3, <2>1, TurnsStep
<1> QED BY <1>1, <1>2, <1>3, DataInitInv, DataInvStep, PTL DEF DataSpec

=============================================================================

---------------------------- MODULE SessionHealth ----------------------------
(***************************************************************************)
(* How the client measures a game session: delivery of the packets of a    *)
(* peer (packet_flow.rs, session_health/stats.rs), pings that are answered *)
(* late, twice or never (stats.rs, room_path_quality.rs, relay_rtt.rs),    *)
(* and the verdict drawn from the measurements (session_health.rs,         *)
(* session_health/direct.rs, smoothness.rs).                               *)
(*                                                                         *)
(* The three parts share no state.  Widths, capacities and timeouts are    *)
(* constants; durations are ticks.                                         *)
(***************************************************************************)
EXTENDS Naturals, Sequences, FiniteSets, FiniteSetsExt

CONSTANTS Width,       \* DELIVERY_WINDOW_BITS, 128 in the code
          Retired,     \* RETIRED_STREAM_CAPACITY, 8 in the code
          LastSeq,     \* the sequence number at which a stream is replaced
          Streams,     \* bound on the streams of a sender
          MaxAir,      \* bound on the packets under way
          Capacity,    \* COMPLETED_CAPACITY and ROLLING_SAMPLE_COUNT
          Timeout,     \* runtime_rtt_timeout, PROBE_TIMEOUT, PENDING_TIMEOUT
          MaxPings     \* bound on the pings sent

ASSUME HealthAssumption ==
    /\ {Width, LastSeq, Streams, MaxAir, Capacity, Timeout, MaxPings} \subseteq Nat \ {0}
    /\ Retired \in Nat

VARIABLES flow,     \* a sender's stream, the packets under way, DeliveryStats
          ledger,   \* pings of one of the three trackers
          view      \* a health window and the paths of the room

healthVars == <<flow, ledger, view>>

-----------------------------------------------------------------------------
(***************************************************************************)
(* Delivery.  seen holds the ages, below the highest sequence, that came.  *)
(***************************************************************************)
NewDelivery(p) == [stream |-> p.stream, highest |-> p.seq, seen |-> {0}, tracked |-> 1]

open_gaps(w) == w.tracked - Cardinality({a \in w.seen : a < w.tracked})

\* Mutant: a jump past the window counts its own packet as lost.
CountsItself(w, advance) ==
    IF advance >= Width THEN open_gaps(w) + (advance - Width) + 1
    ELSE Cardinality({a \in (Width - advance)..(Width - 1) : a < w.tracked /\ a \notin w.seen})

\* The gaps that leave the window when it advances.
confirmed_by_advance(w, advance) ==
    IF advance >= Width THEN open_gaps(w) + (advance - Width)
    ELSE Cardinality({a \in (Width - advance)..(Width - 1) : a < w.tracked /\ a \notin w.seen})

\* DeliveryWindow::observe and the gap counter of DeliveryStats::observe.
ObserveSeq(f, q) ==
    LET w == f.window
    IN  IF q > w.highest
          THEN LET adv == q - w.highest
                   gaps == confirmed_by_advance(w, adv)
               IN  [f EXCEPT !.window.highest = q,
                             !.window.seen = {0} \cup {a + adv : a \in {b \in @ : b + adv < Width}},
                             !.window.tracked = IF w.tracked + adv > Width THEN Width ELSE @ + adv,
                             !.confirmed = @ + gaps,
                             !.fresh = @ \cup {q}]
          ELSE LET age == w.highest - q
               IN  IF age >= Width \/ age \in w.seen THEN f   \* TooOld, Duplicate
                   ELSE [f EXCEPT !.window.seen = @ \cup {age}, !.fresh = @ \cup {q}]   \* Reordered

\* DeliveryStats::observe; first and fresh remember what the window was told.
Receive(f, p) ==
    CASE f.window.stream = 0 ->
           [f EXCEPT !.window = NewDelivery(p), !.first = p.seq, !.fresh = {p.seq}]
      [] f.window.stream # 0 /\ f.window.stream # p.stream /\ p.stream \in {f.retired[i] : i \in DOMAIN f.retired} -> f
      [] f.window.stream # 0 /\ f.window.stream # p.stream /\ p.stream \notin {f.retired[i] : i \in DOMAIN f.retired} ->
           LET r == Append(f.retired, f.window.stream)
           IN  [f EXCEPT !.window = NewDelivery(p), !.first = p.seq, !.fresh = {p.seq}, !.confirmed = 0,
                         !.retired = IF Len(r) > Retired THEN Tail(r) ELSE r]
      [] OTHER -> ObserveSeq(f, p.seq)

\* assign_hook_packet: a stream that reached its last sequence is replaced.
SendPacket ==
    /\ LET end == flow.next = LastSeq
           s == IF end THEN flow.stream + 1 ELSE flow.stream
           n == IF end THEN 1 ELSE flow.next
       IN  /\ s <= Streams /\ Cardinality(flow.air) < MaxAir
           /\ flow' = [flow EXCEPT !.stream = s, !.next = n + 1,
                                   !.air = @ \cup {[stream |-> s, seq |-> n]}]
    /\ UNCHANGED <<ledger, view>>

\* The sender starts again, with a random stream.
SenderRestarts ==
    /\ flow.stream < Streams
    /\ flow' = [flow EXCEPT !.stream = @ + 1, !.next = 1]
    /\ UNCHANGED <<ledger, view>>

\* decode_inbound_relay_datagram, then observe_delivery.  Relay and network
\* may deliver a packet again.
Arrives(p, again) ==
    /\ flow' = [Receive(flow, p) EXCEPT !.air = IF again THEN @ ELSE @ \ {p}]
    /\ UNCHANGED <<ledger, view>>

Vanishes(p) == flow' = [flow EXCEPT !.air = @ \ {p}] /\ UNCHANGED <<ledger, view>>

FlowInit == flow = [stream |-> 1, next |-> 1, air |-> {}, window |-> [stream |-> 0, highest |-> 0, seen |-> {}, tracked |-> 0],
                    retired |-> <<>>, confirmed |-> 0, first |-> 0, fresh |-> {}]

FlowNext ==
    \/ SendPacket \/ SenderRestarts
    \/ \E p \in flow.air : Vanishes(p) \/ (\E again \in BOOLEAN : Arrives(p, again))

FlowSpec == FlowInit /\ [][FlowNext]_healthVars

-----------------------------------------------------------------------------
(***************************************************************************)
(* Pings.  A pending ping has an age; the runtime RTT and the relay RTT    *)
(* keep one of age Timeout, a room path lets it go.                        *)
(***************************************************************************)
Expired(l) == {p \in l.pending : IF l.of = "room" THEN p.age >= Timeout ELSE p.age > Timeout}

\* Results go to the samples, the oldest of which are dropped.
Complete(l, rs) ==
    [l EXCEPT !.done = LET s == @ \o rs IN SubSeq(s, IF Len(s) > Capacity THEN Len(s) - Capacity + 1 ELSE 1, Len(s))]

\* expire: the relay RTT forgets, the others count a timeout.
Expire(l) ==
    LET n == Cardinality(Expired(l))
        k == [l EXCEPT !.pending = @ \ Expired(l)]
    IN  CASE l.of = "relay" -> [k EXCEPT !.wiped = @ + n]
          [] l.of = "runtime" -> [k EXCEPT !.timed_out = @ + n]
          [] OTHER -> Complete([k EXCEPT !.timed_out = @ + n], [i \in 1..n |-> "timeout"])

\* next_ping, record_sent.  next_health_ping expires before it sends.
SendHealthPing ==
    /\ ledger.sent < MaxPings
    /\ ledger.of = "room" => ledger.here
    /\ LET l == IF ledger.of = "runtime" THEN Expire(ledger) ELSE ledger
           id == l.sent + 1
       IN  ledger' = [l EXCEPT !.sent = id, !.pending = @ \cup {[id |-> id, age |-> 0]}, !.air = @ \cup {id}]
    /\ UNCHANGED <<flow, view>>

\* Mutant: the answered ping stays pending.
PongStaysPending(l, id) ==
    IF \E p \in l.pending : p.id = id THEN Complete([l EXCEPT !.received = @ + 1], <<"response">>) ELSE l

\* observe_pong, record_echo: an answer to a ping that is not pending counts
\* for nothing.
observe_pong(l, id) ==
    IF \E p \in l.pending : p.id = id
      THEN Complete([l EXCEPT !.received = @ + 1, !.pending = {p \in @ : p.id # id}], <<"response">>)
      ELSE l

\* A pong arrives, perhaps again later.
PongArrives(id, again) ==
    /\ ledger' = [observe_pong(ledger, id) EXCEPT !.air = IF again THEN @ ELSE @ \ {id}]
    /\ UNCHANGED <<flow, view>>

PingsAge ==
    /\ \A p \in ledger.pending : p.age <= Timeout
    /\ ledger.pending # {}
    /\ ledger' = [ledger EXCEPT !.pending = {[p EXCEPT !.age = @ + 1] : p \in @}]
    /\ UNCHANGED <<flow, view>>

\* snapshot, and the expiry of the other two before each round of pings.
ExpirePings == ledger' = Expire(ledger) /\ UNCHANGED <<flow, view>>

\* A recovered relay connection resets the relay RTT; sync_peers drops and
\* creates the measurement of a peer that left and came back.
Forget ==
    /\ ledger.of \in {"relay", "room"}
    /\ ledger' = [ledger EXCEPT !.pending = {}, !.done = <<>>, !.received = 0, !.timed_out = 0,
                                !.wiped = ledger.sent, !.here = IF ledger.of = "room" THEN ~@ ELSE @]
    /\ UNCHANGED <<flow, view>>

LedgerInit == ledger \in [of : {"runtime", "room", "relay"}, sent : {0}, received : {0}, timed_out : {0},
                          wiped : {0}, pending : {{}}, air : {{}}, done : {<<>>}, here : {TRUE}]

LedgerNext ==
    \/ SendHealthPing \/ PingsAge \/ ExpirePings \/ Forget
    \/ \E id \in ledger.air, again \in BOOLEAN : PongArrives(id, again)

LedgerSpec == LedgerInit /\ [][LedgerNext]_healthVars

-----------------------------------------------------------------------------
(***************************************************************************)
(* The verdict.  A window has its evidence and its faults, a path its      *)
(* completed probes, how many are missing, and classes of RTT and jitter   *)
(* (0 fine, 1 over the watch and 2 over the poor threshold).               *)
(***************************************************************************)
Verdict == <<"unavailable", "good", "watch", "poor">>
Rank(q) == CHOOSE i \in 1..4 : Verdict[i] = q
Worst(S) == Verdict[Max({Rank(q) : q \in S})]

\* What DirectFlowHealthSnapshot::from_lan and fold make of the peers of the
\* LAN data plane, less the baseline of the last snapshot (delta).
DirectDrops(w) == MapThenSumSet(LAMBDA p : w.direct[p], DOMAIN w.direct)

\* Mutant: the gap rule assigns where it should only add.
GapsDecide(w) ==
    LET evidence == w.packets > 0 \/ DirectDrops(w) > 0
        poor == IF w.gaps >= 1 THEN w.gaps >= 10 ELSE DirectDrops(w) > 0 \/ w.drops > 0
    IN  IF w.starting \/ ~evidence THEN "unavailable"
        ELSE IF poor THEN "poor"
        ELSE IF w.gaps >= 1 \/ w.reordered >= 10 \/ w.stall > 0 \/ w.timeouts > 0 THEN "watch"
        ELSE "good"

\* classify_quality
classify_quality(w) ==
    LET evidence == w.packets > 0 \/ DirectDrops(w) > 0
        poor == \/ DirectDrops(w) > 0 \/ w.drops > 0
                \/ w.gaps >= 10
                \/ w.stall = 2
                \/ w.timeouts >= 3
    IN  CASE w.starting \/ ~evidence -> "unavailable"
          [] ~w.starting /\ evidence /\ poor -> "poor"
          [] ~w.starting /\ evidence /\ ~poor
               /\ (w.gaps >= 1 \/ w.reordered >= 10 \/ w.stall > 0 \/ w.timeouts > 0) -> "watch"
          [] OTHER -> "good"

\* PeerMeasurement::snapshot
Current(p) == p.completed >= 5 /\ ~p.stale
loss_basis_points(p) == (p.missing * 10000) \div p.completed

PathVerdict(p) ==
    LET sustained == p.completed >= 10
        lossy == loss_basis_points(p) >= 200 /\ p.missing >= 2
        poor == sustained /\ \/ p.p95 = 2 \/ p.jitter = 2
                             \/ lossy /\ p.missing >= 3 /\ loss_basis_points(p) >= 1000
    IN  IF poor THEN "poor" ELSE IF p.p95 >= 1 \/ p.jitter >= 1 \/ lossy THEN "watch" ELSE "good"

\* assess_smoothness
assess_smoothness(v) == Worst({classify_quality(v.window)} \cup {PathVerdict(p) : p \in {q \in v.paths : Current(q)}})

NewPath(n, old) == [completed |-> n, stale |-> old, missing |-> 0, p95 |-> 0, jitter |-> 0]

ViewInit ==
    /\ view \in [window : [packets : {0, 1}, starting : BOOLEAN, direct : {[p \in 1..2 |-> 0]},
                           drops : {0}, gaps : {0}, reordered : {0}, stall : {0}, timeouts : {0}],
                 paths : {{}, {NewPath(5, FALSE)}, {NewPath(20, FALSE)}, {NewPath(20, TRUE)}}]
    /\ view.window.starting => view.window.packets = 1

\* One more fault of the same window, or of a path.
Worse(f, w) ==
    CASE f = "direct" -> [w EXCEPT !.direct[1] = 1]
      [] f = "queue" -> [w EXCEPT !.drops = 1]
      [] f = "gaps" -> [w EXCEPT !.gaps = IF @ = 0 THEN 1 ELSE 10]
      [] f = "reordered" -> [w EXCEPT !.reordered = 10]
      [] f = "stall" -> [w EXCEPT !.stall = IF @ < 2 THEN @ + 1 ELSE @]
      [] OTHER -> [w EXCEPT !.timeouts = IF @ = 0 THEN 1 ELSE 3]

WindowWorsens ==
    /\ \E f \in {"direct", "queue", "gaps", "reordered", "stall", "timeouts"} :
         view' = [view EXCEPT !.window = Worse(f, @)]
    /\ UNCHANGED <<flow, ledger>>

PathWorsens ==
    /\ \E p \in view.paths :
         LET q == {[p EXCEPT !.missing = IF @ = 0 THEN 2 ELSE 3], [p EXCEPT !.p95 = IF @ < 2 THEN @ + 1 ELSE @],
                   [p EXCEPT !.jitter = IF @ < 2 THEN @ + 1 ELSE @]}
         IN  \E r \in q : view' = [view EXCEPT !.paths = (@ \ {p}) \cup {r}]
    /\ UNCHANGED <<flow, ledger>>

ViewNext == WindowWorsens \/ PathWorsens

ViewSpec == ViewInit /\ [][ViewNext]_healthVars

-----------------------------------------------------------------------------
\* Gaps add up.  From the first packet of the stream on, every sequence number
\* up to the highest is accounted for exactly once: it came, it is an open gap
\* of the window, or it was confirmed lost when the window passed it.
GapsAddUp ==
    flow.window.stream # 0 =>
        flow.confirmed + open_gaps(flow.window) + Cardinality({q \in flow.fresh : q >= flow.first})
          = flow.window.highest - flow.first + 1

\* Pings add up.  Each ping that was sent is answered once, timed out once,
\* still pending, or wiped by a reset, however late and often its pong comes;
\* a pong of before the reset never enters the samples of after it.
PingsAddUp ==
    /\ ledger.received + ledger.timed_out + ledger.wiped + Cardinality(ledger.pending) = ledger.sent
    /\ \A p \in ledger.pending : p.id <= ledger.sent
    /\ Len(ledger.done) <= ledger.received + ledger.timed_out

\* Worse never looks better.  One more fault, with the rest of the
\* measurements unchanged, never improves the verdict the user sees.
WorseNeverLooksBetter ==
    [][Rank(assess_smoothness(view')) >= Rank(assess_smoothness(view))]_view
=============================================================================

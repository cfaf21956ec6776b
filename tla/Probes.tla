------------------------------- MODULE Probes -------------------------------
(***************************************************************************)
(* The probes of the client (probe.rs, probe/light_ping.rs,                *)
(* probe/readiness.rs) and their use by runtime.rs and flutter-bridge.     *)
(*                                                                         *)
(* Light pings: the bridge turns the relay catalogue into ping targets,    *)
(* one for each physical endpoint and transport; a task for each target    *)
(* connects, sends a few pings and reports; the reports are shown against  *)
(* the catalogue.  Pongs come in order, but a pong may miss its ping's     *)
(* timeout and be read in the turn of a later one.                         *)
(*                                                                         *)
(* Readiness: two peers in a room of their own send samples to each other  *)
(* in turn.  A packet may be lost, doubled or late (UDP).                  *)
(***************************************************************************)
EXTENDS Naturals, Sequences, FiniteSets, SequencesExt

CONSTANTS Pings,       \* LIGHT_PING_COUNT, 5 in the code
          Samples,     \* READINESS_PROBE_SAMPLES_PER_CASE, 50 in the code
          MaxChanges   \* bound on changes of the catalogue and on test requests

ASSUME ProbesAssumption == Pings \in Nat \ {0} /\ Samples \in Nat \ {0} /\ MaxChanges \in Nat

VARIABLES shop,    \* the relay catalogue and the transport the user selected
          light,   \* light_ping_probe and light_ping_reports
          ready    \* readiness_probe: the case that runs

probeVars == <<shop, light, ready>>

\* RelayPreset: where it is (hosts equal but for case or a final dot are one
\* place), the transports it supports and its default.
Preset == {[place |-> "p", on |-> {"tcp", "udp"}, default |-> "none"],
           [place |-> "p", on |-> {"udp"}, default |-> "none"],
           [place |-> "p", on |-> {"tcp", "udp"}, default |-> "udp"],
           [place |-> "q", on |-> {"tcp"}, default |-> "none"]}

preferred_transport(r, fallback) ==
    CASE r.default \in r.on -> r.default
      [] r.default \notin r.on /\ fallback \in r.on -> fallback
      [] OTHER -> IF "tcp" \in r.on THEN "tcp" ELSE "udp"

effective_transport(sel, r) ==
    CASE sel = "udp" -> IF "udp" \in r.on THEN "udp" ELSE preferred_transport(r, "tcp")
      [] sel = "tcp" -> IF "tcp" \in r.on THEN "tcp" ELSE preferred_transport(r, "udp")
      [] OTHER -> preferred_transport(r, "tcp")

Target(sel, r) == [place |-> r.place, transport |-> effective_transport(sel, r)]

\* Mutant: two relays of one host are one target, whatever their transport.
PushedByPlace(unique, t) ==
    IF \E e \in Range(unique) : e.place = t.place THEN unique ELSE Append(unique, t)
OnePerPlace(s) == FoldLeft(PushedByPlace, <<>>, s)

\* deduplicate_light_ping_targets: a target is pushed unless one like it was.
Pushed(unique, t) == IF t \in Range(unique) THEN unique ELSE Append(unique, t)
Deduplicated(s) == FoldLeft(Pushed, <<>>, s)

\* map_connection_tests: what the snapshot shows for relay i.
Shown(i) == {r \in light.reports : r.target = Target(shop.sel, shop.relays[i])}

-----------------------------------------------------------------------------
(***************************************************************************)
(* Light pings.                                                            *)
(***************************************************************************)
NewTask == [phase |-> "connect", id |-> 1, pipe |-> <<>>, owed |-> 0, received |-> 0]

\* start_light_ping_probes: the old reports go and the old handle is dropped,
\* which cancels its tasks and closes their channel.
Start(targets, full) ==
    light' = [targets |-> targets, tasks |-> [i \in DOMAIN targets |-> NewTask],
              reports |-> {}, full |-> full]

\* test_relay_latency
TestRelayLatency ==
    /\ shop.changes < MaxChanges /\ shop' = [shop EXCEPT !.changes = @ + 1]
    /\ Start(Deduplicated([i \in DOMAIN shop.relays |-> Target(shop.sel, shop.relays[i])]), TRUE)
    /\ UNCHANGED ready

\* A relay is added or updated: the catalogue is saved and that relay is
\* pinged alone.
SaveRelay(i, r) ==
    /\ shop.changes < MaxChanges
    /\ shop' = [shop EXCEPT !.relays[i] = r, !.changes = @ + 1]
    /\ Start(<<Target(shop.sel, r)>>, FALSE)
    /\ UNCHANGED ready

SelectTransport(sel) ==
    /\ shop.changes < MaxChanges /\ sel # shop.sel
    /\ shop' = [shop EXCEPT !.sel = sel, !.changes = @ + 1]
    /\ light' = [light EXCEPT !.full = FALSE]
    /\ UNCHANGED ready

\* LightPingFinished and upsert_light_ping_report
Report(i, t) ==
    light' = [light EXCEPT !.tasks[i] = [t EXCEPT !.phase = "done"],
                           !.reports = {r \in @ : r.target # light.targets[i]} \cup
                             {[target |-> light.targets[i], ok |-> t.received > 0]}]

NextPing(i, t) == IF t.id = Pings THEN Report(i, t)
                  ELSE light' = [light EXCEPT !.tasks[i] = [t EXCEPT !.id = @ + 1, !.phase = "send"]]

\* light_ping_relay: connect, or give up after the timeout.
Connect(i) ==
    /\ light.tasks[i].phase = "connect"
    /\ \/ light' = [light EXCEPT !.tasks[i].phase = "send"]
       \/ Report(i, light.tasks[i])
    /\ UNCHANGED <<shop, ready>>

\* A send that fails ends the loop.
SendPing(i) ==
    /\ light.tasks[i].phase = "send"
    /\ \/ light' = [light EXCEPT !.tasks[i].phase = "wait", !.tasks[i].owed = @ + 1]
       \/ Report(i, light.tasks[i])
    /\ UNCHANGED <<shop, ready>>

\* The relay answers the oldest ping it has not answered.
RelayAnswers(i) ==
    /\ light.tasks[i].phase \in {"send", "wait"} /\ light.tasks[i].owed > 0
    /\ LET t == light.tasks[i]
           oldest == IF t.phase = "wait" THEN t.id - t.owed + 1 ELSE t.id - t.owed
       IN  light' = [light EXCEPT !.tasks[i].owed = @ - 1, !.tasks[i].pipe = Append(@, oldest)]
    /\ UNCHANGED <<shop, ready>>

\* One datagram is read for a ping, and only its own pong counts.
ReadPong(i) ==
    /\ light.tasks[i].phase = "wait" /\ light.tasks[i].pipe # <<>>
    /\ LET t == light.tasks[i]
       IN  NextPing(i, [t EXCEPT !.pipe = Tail(@),
                                 !.received = IF Head(t.pipe) = t.id THEN @ + 1 ELSE @])
    /\ UNCHANGED <<shop, ready>>

\* Two seconds pass, or the read fails.
PingTimesOut(i) ==
    /\ light.tasks[i].phase = "wait" /\ light.tasks[i].pipe = <<>>
    /\ NextPing(i, light.tasks[i])
    /\ UNCHANGED <<shop, ready>>

-----------------------------------------------------------------------------
(***************************************************************************)
(* The readiness probe.                                                    *)
(***************************************************************************)
NoCase == [running |-> FALSE, phase |-> "idle", udp |-> FALSE, i |-> 0, air |-> {}, inbox |-> <<>>,
           sent |-> 0, received |-> 0, latencies |-> <<>>, arrived |-> 0, broken |-> FALSE]

\* start_readiness_probe: not while one runs.  One case (a profile and a
\* payload size) stands for the matrix: the cases share nothing but the
\* credential.
StartReadiness ==
    /\ ~ready.running
    /\ \E u \in BOOLEAN : ready' = [NoCase EXCEPT !.running = TRUE, !.phase = "join", !.udp = u]
    /\ UNCHANGED <<shop, light>>

\* ProbePeer::join, twice; a failure is failed_readiness_case_report.
JoinPeers ==
    /\ ready.phase = "join"
    /\ \E ok \in BOOLEAN : ready' = [ready EXCEPT !.phase = IF ok THEN "send" ELSE "report",
                                                  !.broken = ~ok]
    /\ UNCHANGED <<shop, light>>

Ended(c) == [c EXCEPT !.i = @ + 1, !.phase = IF c.i + 1 = Samples THEN "report" ELSE "send"]

\* sample_direction: even samples go from A to B, odd ones back.
SendSample ==
    /\ ready.phase = "send"
    /\ LET c == [ready EXCEPT !.sent = @ + 1]
       IN  \/ ready' = [c EXCEPT !.phase = "wait", !.air = @ \cup {c.i}]
           \/ ready' = Ended([c EXCEPT !.broken = TRUE])
    /\ UNCHANGED <<shop, light>>

\* The network and the relay, which deliver to a peer what was sent to it: in
\* order over TCP; over UDP in any order, more than once or never.
DeliverSample(k, again) ==
    /\ k \in ready.air /\ ready.phase \in {"send", "wait"}
    /\ ~ready.udp => ~again /\ \A j \in ready.air : j % 2 = k % 2 => j >= k
    /\ ready' = [ready EXCEPT !.air = IF again THEN @ ELSE @ \ {k},
                              !.inbox = IF k \in Range(@) THEN @ ELSE Append(@, k),
                              !.arrived = IF ready.phase = "wait" /\ ready.i = k /\ k \notin Range(ready.inbox)
                                          THEN @ + 1 ELSE @]
    /\ UNCHANGED <<shop, light>>

Lose(k) ==
    /\ ready.udp /\ k \in ready.air /\ ready.phase \in {"send", "wait"}
    /\ ready' = [ready EXCEPT !.air = @ \ {k}]
    /\ UNCHANGED <<shop, light>>

\* Where the peer whose turn it is to receive finds its packets in the inbox.
Waiting(c) == {n \in DOMAIN c.inbox : c.inbox[n] % 2 = c.i % 2}

\* Mutant: like a light ping, a sample reads one datagram only.
FirstFrameOnly ==
    /\ ready.phase = "wait" /\ Waiting(ready) # {}
    /\ LET n == Min(Waiting(ready))
           k == ready.inbox[n]
           c == [ready EXCEPT !.inbox = RemoveAt(@, n)]
       IN  ready' = Ended(IF k = c.i THEN [c EXCEPT !.received = @ + 1, !.latencies = Append(@, 1)] ELSE c)
    /\ UNCHANGED <<shop, light>>

\* expect_game_with_timeout: frames of other samples are skipped.  The time a
\* sample took is short or long.
ExpectGame ==
    /\ ready.phase = "wait" /\ Waiting(ready) # {}
    /\ LET n == Min(Waiting(ready))
           k == ready.inbox[n]
           c == [ready EXCEPT !.inbox = RemoveAt(@, n)]
       IN  IF k = c.i
             THEN \E ms \in 1..2 :
                    ready' = Ended([c EXCEPT !.received = @ + 1, !.latencies = Append(@, ms)])
             ELSE ready' = c
    /\ UNCHANGED <<shop, light>>

\* 750 ms pass without the packet.
SampleTimesOut ==
    /\ ready.phase = "wait" /\ Waiting(ready) = {}
    /\ ready' = Ended(ready)
    /\ UNCHANGED <<shop, light>>

\* A read fails.
ReadFails ==
    /\ ready.phase = "wait"
    /\ ready' = Ended([ready EXCEPT !.broken = TRUE])
    /\ UNCHANGED <<shop, light>>

\* The value at place k once s is sorted: the smallest with at least k values
\* at or below it.
Sorted(s, k) == Min({v \in Range(s) : Cardinality({i \in DOMAIN s : s[i] <= v}) >= k})

\* percentile: the place rounds up.
Percentile(s, p) == Sorted(s, ((Len(s) - 1) * p + 99) \div 100 + 1)

\* readiness_case_report
CaseReport(c) ==
    LET s == c.latencies
    IN  [missing |-> c.sent - c.received, failed |-> c.sent = 0,
         shape |-> IF s = <<>> THEN <<>>
                   ELSE <<Sorted(s, 1), Percentile(s, 50), Percentile(s, 95), Sorted(s, Len(s))>>]

\* ReadinessProbeFinished: process_events clears the running flag.
FinishProbe ==
    /\ ready.phase = "report"
    /\ ready' = NoCase
    /\ UNCHANGED <<shop, light>>

-----------------------------------------------------------------------------
ProbeInit ==
    /\ shop \in [relays : [1..2 -> Preset], sel : {"default"}, changes : {0}]
    /\ light = [targets |-> <<>>, tasks |-> <<>>, reports |-> {}, full |-> FALSE]
    /\ ready = NoCase

LightNext ==
    \/ TestRelayLatency
    \/ \E i \in DOMAIN shop.relays, r \in Preset : SaveRelay(i, r)
    \/ \E sel \in {"default", "tcp", "udp"} : SelectTransport(sel)
    \/ \E i \in DOMAIN light.targets :
         Connect(i) \/ SendPing(i) \/ RelayAnswers(i) \/ ReadPong(i) \/ PingTimesOut(i)

ReadyNext ==
    \/ StartReadiness \/ JoinPeers \/ SendSample \/ ExpectGame \/ SampleTimesOut \/ ReadFails \/ FinishProbe
    \/ \E k \in ready.air : Lose(k) \/ (\E again \in BOOLEAN : DeliverSample(k, again))

ProbeSpec == ProbeInit /\ [][LightNext \/ ReadyNext]_probeVars

-----------------------------------------------------------------------------
\* Every relay is told.  Once the tasks of a batch are done, each relay of the
\* catalogue shows exactly one result, also one that shares its endpoint with
\* another and was not pinged itself, and it is of the transport it would use.
EveryRelayIsTold ==
    light.full /\ (\A i \in DOMAIN light.targets : light.tasks[i].phase = "done") =>
        \A i \in DOMAIN shop.relays : Cardinality(Shown(i)) = 1

\* The readiness report is true.  A packet that reached its receiver during its
\* own sample is counted, so a late, doubled or reordered packet never makes a
\* later sample look lost; and the quantiles of the report are in order.
ReportIsTrue ==
    ready.phase = "report" =>
        LET r == CaseReport(ready)
        IN  /\ ready.broken \/ r.missing = ready.sent - ready.arrived
            /\ r.shape # <<>> => \A i \in 1..3 : r.shape[i] <= r.shape[i + 1]
=============================================================================

----------------------------- MODULE TrafficBudget -----------------------------
(***************************************************************************)
(* The per-connection traffic budget of the Relay (state/traffic_budget.rs)*)
(* fixed windows of RateWindow ticks, a packet limit, a byte rate limit    *)
(* with a burst allowance for the first frame of a window, and a window of *)
(* its own for probes.                                                     *)
(***************************************************************************)
EXTENDS Integers

CONSTANTS
    RateWindow,     \* RATE_WINDOW, one second
    PacketLimit,    \* rate_limit_per_second
    ByteRate,       \* byte_rate_limit_per_second
    ByteBurst,      \* byte_rate_limit_burst
    ProbeLimit      \* PROBE_RATE_LIMIT_PER_SECOND

ASSUME BudgetAssumption ==
    /\ RateWindow \in Nat \ {0}
    /\ PacketLimit \in Nat \ {0}
    /\ ByteRate \in Nat \ {0}
    /\ ByteBurst \in Nat \ {0}
    /\ ProbeLimit \in Nat \ {0}

Budgets == [started : Nat, packets : 0 .. PacketLimit, bytes : 0 .. ByteBurst,
            probeStarted : Nat, probes : 0 .. ProbeLimit]

NewBudget(now) ==
    [started |-> now, packets |-> 0, bytes |-> 0, probeStarted |-> now, probes |-> 0]

(* Mutant: every frame opens a fresh window.                               *)
TrafficWindowAlwaysFresh(b, now) ==
    [b EXCEPT !.started = now, !.packets = 0, !.bytes = 0]

(* The window a frame at time now is charged to: the current one, or a     *)
(* fresh one once RateWindow has passed.                                   *)
TrafficWindow(b, now) ==
    IF now - b.started >= RateWindow
      THEN [b EXCEPT !.started = now, !.packets = 0, !.bytes = 0] ELSE b

ProbeWindow(b, now) ==
    IF now - b.probeStarted >= RateWindow
      THEN [b EXCEPT !.probeStarted = now, !.probes = 0] ELSE b

TrafficFits(b, size, now) ==
    LET w == TrafficWindow(b, now) IN
    /\ w.packets + 1 <= PacketLimit
    /\ w.bytes + size <= ByteBurst
    /\ w.bytes > 0 => w.bytes + size <= ByteRate

(* check_traffic: a refused frame debits nothing, but the window it opened *)
(* stays open.                                                             *)
CheckTraffic(b, size, now) ==
    LET w == TrafficWindow(b, now) IN
    IF TrafficFits(b, size, now)
      THEN [w EXCEPT !.packets = @ + 1, !.bytes = @ + size] ELSE w

ProbeFits(b, now) == ProbeWindow(b, now).probes + 1 <= ProbeLimit

CheckProbe(b, now) ==
    LET w == ProbeWindow(b, now) IN
    IF ProbeFits(b, now) THEN [w EXCEPT !.probes = @ + 1] ELSE w

================================================================================

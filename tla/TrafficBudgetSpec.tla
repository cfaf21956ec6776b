--------------------------- MODULE TrafficBudgetSpec ---------------------------
(***************************************************************************)
(* One TrafficBudget under any arrival pattern of data frames and probes.  *)
(* route_data charges check_traffic, route_probe charges check_traffic and *)
(* then check_probe (state.rs).  `charged' only records what happened.     *)
(***************************************************************************)
EXTENDS TrafficBudget, SequencesExt

CONSTANTS
    Sizes,      \* frame sizes in bytes, headers included, so never zero
    MaxTime     \* bound on the clock

ASSUME SpecAssumption == Sizes \subseteq Nat \ {0} /\ MaxTime \in Nat

VARIABLES
    now,        \* Instant::now()
    budget,     \* the TrafficBudget
    charged     \* history: the frames check_traffic let pass, oldest first;
                \* passed is whether check_probe, if asked, agreed

budgetVars == <<now, budget, charged>>

BudgetInit ==
    /\ now = 0
    /\ budget = NewBudget(0)
    /\ charged = <<>>

Record(size, probe, fits, passed) ==
    charged' = IF ~fits THEN charged
               ELSE Append(charged, [at |-> now, size |-> size, probe |-> probe,
                                     passed |-> passed])

Data(size) ==
    LET fits == TrafficFits(budget, size, now) IN
    /\ budget' = CheckTraffic(budget, size, now)
    /\ Record(size, FALSE, fits, fits)
    /\ UNCHANGED now

(* A probe is charged as traffic first, and stays charged when the probe   *)
(* limit then refuses it.                                                  *)
ProbeFrame(size) ==
    LET fits == TrafficFits(budget, size, now)
        debited == CheckTraffic(budget, size, now)
    IN
    /\ budget' = IF fits THEN CheckProbe(debited, now) ELSE debited
    /\ Record(size, TRUE, fits, fits /\ ProbeFits(debited, now))
    /\ UNCHANGED now

BudgetTick ==
    /\ now < MaxTime
    /\ now' = now + 1
    /\ UNCHANGED <<budget, charged>>

BudgetNext == (\E size \in Sizes : Data(size) \/ ProbeFrame(size)) \/ BudgetTick

BudgetSpec == BudgetInit /\ [][BudgetNext]_budgetVars

--------------------------------------------------------------------------------

(* What a charged frame counts for: a packet, its bytes, or a probe that   *)
(* check_probe let pass.                                                   *)
Weight(x, what) == CASE what = "packets" -> 1
                     [] what = "bytes"   -> x.size
                     [] what = "probes"  -> IF x.probe /\ x.passed THEN 1 ELSE 0

(* The frames of s charged from tick `from' on and before tick `to', added *)
(* up.                                                                     *)
Added(total, x, what, from, to) ==
    IF from <= x.at /\ x.at < to THEN total + Weight(x, what) ELSE total

Total(s, what, from, to) ==
    FoldLeft(LAMBDA total, x : Added(total, x, what, from, to), 0, s)

(* Sliding bound: the windows are fixed, yet no interval of RateWindow     *)
(* ticks, wherever it starts, lets more than two windows' worth of         *)
(* packets, bytes or probes through.                                       *)
SlidingBound ==
    \A t \in 0 .. MaxTime :
        /\ Total(charged, "packets", t, t + RateWindow) <= 2 * PacketLimit
        /\ Total(charged, "bytes", t, t + RateWindow) <= 2 * ByteBurst
        /\ Total(charged, "probes", t, t + RateWindow) <= 2 * ProbeLimit
================================================================================

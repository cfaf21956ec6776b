------------------------------ MODULE DataLemmas ------------------------------
(***************************************************************************)
(* What the proofs keep needing about the data of the models: the          *)
(* duplicate window, and the least and the greatest element of a bounded   *)
(* set of naturals, which the code takes wherever it picks the newest      *)
(* process, the next id or the best pair; and how to follow a fold.        *)
(***************************************************************************)
EXTENDS FrameWindow, SequencesExt, FiniteSetsExt, SequenceTheorems, WellFoundedInduction, TLAPS

(* observe returns a window and one of the four verdicts, spelled out      *)
(* once for every proof that needs it.                                     *)
LEMMA ObservedType ==
    ASSUME NEW w \in Windows, NEW f \in FrameIds
    PROVE  Observed(w, f) \in Windows /\ Decision(w, f) \in Decisions
<1> USE WindowAssumption
<1>1. Decision(w, f) \in Decisions
  BY DEF Decision, Decisions
<1>2. CASE w.highest = NoFrame
  BY <1>1, <1>2 DEF Observed, Windows
<1>3. CASE w.highest # NoFrame /\ f > w.highest
  <2>1. Observed(w, f) = [highest |-> f,
             seen |-> IF f - w.highest >= WindowBits THEN {0}
                      ELSE Shift(w.seen, f - w.highest) \cup {0}]
    BY <1>3 DEF Observed, Decision, Windows
  <2>2. Shift(w.seen, f - w.highest) \subseteq 0 .. WindowBits - 1
    BY DEF Shift
  <2> QED BY <1>1, <2>1, <2>2 DEF Windows
<1>4. CASE w.highest # NoFrame /\ ~(f > w.highest)
  <2>1. w.highest \in FrameIds /\ w.highest \in Nat /\ f \in Nat
    BY <1>4 DEF Windows
  <2>2. CASE Decision(w, f) = "Reordered"
    <3>1. w.highest - f \in 0 .. WindowBits - 1
      BY <2>1, <2>2, <1>4 DEF Decision
    <3>2. Observed(w, f) = [w EXCEPT !.seen = @ \cup {w.highest - f}]
      BY <2>2, <1>4 DEF Observed
    <3> QED BY <1>1, <3>1, <3>2 DEF Windows
  <2>3. CASE Decision(w, f) # "Reordered"
    <3>1. Observed(w, f) = w
      BY <2>1, <2>3, <1>4 DEF Observed, Decision
    <3> QED BY <1>1, <3>1
  <2> QED BY <2>2, <2>3
<1> QED BY <1>2, <1>3, <1>4

(* A verdict that refuses means the id is at or below the highest one, and *)
(* either below the window or marked in it.                                *)
LEMMA RefusedMeans ==
    ASSUME NEW w \in Windows, NEW f \in FrameIds
    PROVE  ~Admits(w, f) <=>
              /\ w.highest # NoFrame
              /\ ~(f > w.highest)
              /\ w.highest - f >= WindowBits \/ w.highest - f \in w.seen
  BY DEF Admits, Decision

(* An id that observe has just looked at is never admitted again.          *)
LEMMA RefusedAfter ==
    ASSUME NEW w \in Windows, NEW f \in FrameIds
    PROVE  ~Admits(Observed(w, f), f)
<1> USE WindowAssumption
<1> DEFINE v == Observed(w, f)
<1>1. v \in Windows
  BY ObservedType
<1>2. f \in Nat /\ f - f = 0
  OBVIOUS
<1>3. CASE w.highest = NoFrame \/ f > w.highest
  <2>1. v.highest = f /\ 0 \in v.seen
    BY <1>3 DEF Observed
  <2> QED BY <1>1, <1>2, <2>1, RefusedMeans
<1>4. CASE w.highest # NoFrame /\ ~(f > w.highest)
  <2>1. CASE Decision(w, f) = "Reordered"
    <3>1. v.highest = w.highest /\ w.highest - f \in v.seen
      BY <1>4, <2>1 DEF Observed, Windows
    <3> QED BY <1>1, <1>4, <3>1, RefusedMeans
  <2>2. CASE Decision(w, f) # "Reordered"
    <3>1. v = w
      BY <1>4, <2>2 DEF Observed
    <3> QED BY <1>4, <2>2, <3>1 DEF Admits, Decision
  <2> QED BY <2>1, <2>2
<1> QED BY <1>3, <1>4

(* A refused id stays refused, whatever the window looks at next: a mark   *)
(* moves with the window until it falls off its end.                       *)
LEMMA RefusedStays ==
    ASSUME NEW w \in Windows, NEW f \in FrameIds, NEW g \in FrameIds, ~Admits(w, f)
    PROVE  ~Admits(Observed(w, g), f)
<1> USE WindowAssumption
<1> DEFINE v == Observed(w, g)
           h == w.highest
<1>1. v \in Windows
  BY ObservedType
<1>2. /\ h # NoFrame /\ ~(f > h)
      /\ h - f >= WindowBits \/ h - f \in w.seen
  BY RefusedMeans
<1>3. h \in Nat /\ f \in Nat /\ g \in Nat /\ WindowBits \in Nat /\ f <= h
  <2>1. h \in Nat
    BY <1>2 DEF Windows
  <2> QED BY <1>2, <2>1
<1>4. CASE g > h
  <2>1. v = [highest |-> g, seen |-> IF g - h >= WindowBits THEN {0}
                                     ELSE Shift(w.seen, g - h) \cup {0}]
    BY <1>2, <1>4 DEF Observed
  <2>2. v.highest = g /\ g # NoFrame /\ ~(f > g)
    BY <1>3, <1>4, <2>1
  <2>3. CASE g - f >= WindowBits
    BY <1>1, <2>2, <2>3, RefusedMeans
  <2>4. CASE g - f < WindowBits
    <3>1. h - f < WindowBits /\ g - h < WindowBits /\ ~(g - h >= WindowBits)
      BY <1>3, <1>4, <2>4
    <3>2. h - f \in w.seen
      <4>1. ~(h - f >= WindowBits)
        BY <1>3, <3>1
      <4> QED BY <1>2, <4>1
    <3>3. g - f \in 0 .. WindowBits - 1 /\ (g - f) - (g - h) = h - f
      BY <1>3, <1>4, <2>4
    <3>4. g - f \in v.seen
      BY <2>1, <3>1, <3>2, <3>3 DEF Shift
    <3> QED BY <1>1, <2>2, <3>4, RefusedMeans
  <2> QED BY <1>3, <2>3, <2>4
<1>5. CASE ~(g > h)
  <2>1. v.highest = h /\ w.seen \subseteq v.seen
    BY <1>2, <1>5 DEF Observed, Windows
  <2> QED BY <1>1, <1>2, <2>1, RefusedMeans
<1> QED BY <1>4, <1>5

--------------------------------------------------------------------------------

(* A set of naturals that is not empty has a least element.                *)
LEMMA LeastExists ==
    ASSUME NEW T, T \subseteq Nat, T # {}
    PROVE  \E x \in T : \A y \in T : x <= y
<1>1. \E x \in T : \A y \in T : ~ (<<y, x>> \in OpToRel(<, Nat))
  BY NatLessThanWellFounded, WFMin
<1>2. \A x, y \in Nat : ~ (<<y, x>> \in OpToRel(<, Nat)) => x <= y
  BY DEF OpToRel
<1> QED BY <1>1, <1>2

(* Max of a set with a bound is an element of it and no element is above.  *)
LEMMA MaxOfBounded ==
    ASSUME NEW T, NEW n \in Nat, T \subseteq 0..n, T # {}
    PROVE  Max(T) \in T /\ \A x \in T : x <= Max(T)
<1> DEFINE D == {n - x : x \in T}
<1>1. \A x \in T : x \in Nat /\ n - x \in Nat
  OBVIOUS
<1>2. D \subseteq Nat /\ D # {}
  BY <1>1
<1>3. PICK d \in D : \A e \in D : d <= e
  BY <1>2, LeastExists
<1>4. PICK m \in T : d = n - m
  OBVIOUS
<1>5. \A x \in T : m >= x
  <2> TAKE x \in T
  <2>1. n - m <= n - x
    BY <1>3, <1>4
  <2> QED BY <2>1, <1>1
<1> QED BY <1>4, <1>5 DEF Max

--------------------------------------------------------------------------------
(* What is left of a sequence when its element at f goes.                  *)
LEMMA RemovedAt ==
    ASSUME NEW S, NEW s \in Seq(S), NEW f \in 1..Len(s)
    PROVE  /\ RemoveAt(s, f) \in Seq(S) /\ Len(RemoveAt(s, f)) = Len(s) - 1
           /\ \A j \in 1..Len(s) - 1 :
                 RemoveAt(s, f)[j] = IF j < f THEN s[j] ELSE s[j + 1]
<1> DEFINE a == SubSeq(s, 1, f - 1)
           b == SubSeq(s, f + 1, Len(s))
<1>1. /\ a \in Seq(S) /\ Len(a) = f - 1
      /\ \A j \in 1..(f - 1) : a[j] = s[j]
  OBVIOUS
<1>2. /\ b \in Seq(S) /\ Len(b) = Len(s) - f
      /\ \A j \in 1..(Len(s) - f) : b[j] = s[f + j]
  OBVIOUS
<1>3. RemoveAt(s, f) = a \o b
  BY DEF RemoveAt
<1> HIDE DEF a, b
<1>4. /\ a \o b \in Seq(S) /\ Len(a \o b) = Len(a) + Len(b)
      /\ \A j \in 1..Len(a) + Len(b) :
            (a \o b)[j] = IF j <= Len(a) THEN a[j] ELSE b[j - Len(a)]
  <2>1. a \in Seq(S) /\ b \in Seq(S)
    BY <1>1, <1>2
  <2> QED BY ONLY <2>1, ConcatProperties
<1>5. Len(s) \in Nat /\ f \in Nat /\ Len(a) + Len(b) = Len(s) - 1
  BY <1>1, <1>2
<1>6. ASSUME NEW j \in 1..Len(s) - 1
      PROVE  (a \o b)[j] = IF j < f THEN s[j] ELSE s[j + 1]
  <2>1. CASE j < f
    <3>1. j \in 1..(f - 1) /\ j <= Len(a) /\ j \in 1..Len(a) + Len(b)
      BY <1>1, <1>5, <2>1
    <3> QED BY <1>1, <1>4, <2>1, <3>1
  <2>2. CASE ~(j < f)
    <3>1. /\ j - Len(a) \in 1..(Len(s) - f) /\ ~(j <= Len(a)) /\ j \in 1..Len(a) + Len(b)
          /\ f + (j - Len(a)) = j + 1
      BY <1>1, <1>5, <2>2
    <3>2. (a \o b)[j] = b[j - Len(a)]
      BY <1>4, <3>1
    <3> QED BY <1>2, <2>2, <3>1, <3>2
  <2> QED BY <2>1, <2>2
<1> QED BY <1>3, <1>4, <1>5, <1>6

(* RemoveFirst takes away one place where the element stands.              *)
LEMMA RemovedFirst ==
    ASSUME NEW S, NEW s \in Seq(S), NEW e, Contains(s, e)
    PROVE  \E f \in 1..Len(s) : s[f] = e /\ RemoveFirst(s, e) = RemoveAt(s, f)
<1> DEFINE I == {i \in 1..Len(s) : s[i] = e}
<1>1. I # {} /\ I \subseteq Nat
  BY DEF Contains
<1>2. \E i \in I : \A j \in I : i <= j
  BY <1>1, LeastExists
<1>3. RemoveFirst(s, e) = RemoveAt(s, Min(I))
  BY <1>1 DEF RemoveFirst, SelectInSeq, Contains
<1>4. Min(I) \in I
  <2> HIDE DEF I
  <2> QED BY <1>2 DEF Min
<1> DEFINE f == Min(I)
<1>5. f \in 1..Len(s) /\ s[f] = e
  BY <1>4
<1> HIDE DEF f
<1> QED BY <1>3, <1>5 DEF f

--------------------------------------------------------------------------------
(* Folds of the community modules.  A fold is a recursive function: a      *)
(* CHOOSE of a function that satisfies its equation.  What follows shows   *)
(* that there is one, by taking the least number where there would not be, *)
(* so that the fold of a model can be followed element by element.         *)

(* A set that holds 0 and goes one further from each number up to n.       *)
LEMMA CountsUp ==
    ASSUME NEW n \in Nat, NEW T, 0 \in T,
           \A i \in 0..n : i # n /\ i \in T => i + 1 \in T
    PROVE  \A i \in 0..n : i \in T
<1> DEFINE Out == {i \in 0..n : i \notin T}
<1>1. ASSUME Out # {}
      PROVE  FALSE
  <2>0. Out \subseteq Nat
    OBVIOUS
  <2>1. PICK i \in Out : \A j \in Out : i <= j
    <3> HIDE DEF Out
    <3> QED BY <1>1, <2>0, LeastExists
  <2>2. i \in 0..n /\ i \notin T /\ i # 0
    OBVIOUS
  <2>3. i - 1 \in 0..n /\ i - 1 # n /\ (i - 1) + 1 = i /\ ~(i <= i - 1)
    BY <2>2
  <2>4. i - 1 \in T
    BY <2>1, <2>3
  <2> QED BY <2>2, <2>3, <2>4
<1> QED BY <1>1

(* Max of 1..k is k, and the numbers below it are 1..k - 1.                *)
LEMMA LastOfRange ==
    ASSUME NEW k \in Nat \ {0}
    PROVE  Max(1..k) = k /\ (1..k) \ {k} = 1..(k - 1)
<1>1. Max(1..k) \in 1..k /\ \A x \in 1..k : x <= Max(1..k)
  <2>1. 1..k \subseteq 0..k /\ 1..k # {}
    OBVIOUS
  <2> QED BY <2>1, MaxOfBounded
<1>2. k \in 1..k
  OBVIOUS
<1>3. Max(1..k) = k
  BY <1>1, <1>2
<1>4. (1..k) \ {k} = 1..(k - 1)
  OBVIOUS
<1> QED BY <1>3, <1>4

(* What a fold over the numbers 1..n, the greatest first, computes at each *)
(* set of them: step[i] is what the fold does at i.                        *)
FoldsOver(g, n, S, base, step) ==
    /\ g \in [SUBSET (1..n) -> S]
    /\ \A s \in SUBSET (1..n) :
          g[s] = IF s = {} THEN base ELSE step[Max(s)][g[s \ {Max(s)}]]

LEMMA FoldExists ==
    ASSUME NEW n \in Nat, NEW S, NEW base \in S, NEW step \in [1..n -> [S -> S]]
    PROVE  \E g : FoldsOver(g, n, S, base, step)
<1> DEFINE T == {k \in 0..n : \E g : FoldsOver(g, k, S, base, step)}
<1>1. 0 \in T
  <2> DEFINE g == [s \in SUBSET (1..0) |-> base]
  <2>1. 1..0 = {}
    OBVIOUS
  <2>2. \A s \in SUBSET (1..0) : s = {}
    BY <2>1
  <2>3. g \in [SUBSET (1..0) -> S] /\ \A s \in SUBSET (1..0) : g[s] = base
    OBVIOUS
  <2>4. FoldsOver(g, 0, S, base, step)
    BY ONLY <2>2, <2>3 DEF FoldsOver
  <2> QED BY <2>4
<1>2. ASSUME NEW k \in 0..n, k # n, k \in T
      PROVE  k + 1 \in T
  <2>1. PICK g : FoldsOver(g, k, S, base, step)
    BY <1>2
  <2>2. k + 1 \in 1..n /\ k \in Nat /\ k + 1 \in 0..n /\ k + 1 \in Nat
    BY ONLY n \in Nat, k \in 0..n, k # n
  <2> DEFINE h == [s \in SUBSET (1..(k + 1)) |->
                      IF k + 1 \in s THEN step[k + 1][g[s \ {k + 1}]] ELSE g[s]]
  <2>3. ASSUME NEW s \in SUBSET (1..(k + 1))
        PROVE  /\ h[s] \in S
               /\ h[s] = IF s = {} THEN base ELSE step[Max(s)][h[s \ {Max(s)}]]
    <3>1. CASE k + 1 \in s
      <4>1. Max(s) = k + 1
        <5>1. s \subseteq 0..(k + 1) /\ s # {}
          BY <3>1, <2>2
        <5>2. Max(s) \in s /\ \A x \in s : x <= Max(s)
          BY ONLY <5>1, <2>2, MaxOfBounded
        <5>3. Max(s) \in 0..(k + 1) /\ k + 1 <= Max(s)
          BY <5>1, <5>2, <3>1
        <5> QED BY ONLY <5>3, <2>2
      <4>2. s \ {k + 1} \in SUBSET (1..k) /\ s \ {k + 1} \in SUBSET (1..(k + 1))
        BY <2>2
      <4>3. h[s \ {k + 1}] = g[s \ {k + 1}] /\ g[s \ {k + 1}] \in S
        BY <4>2, <2>1 DEF FoldsOver
      <4>4. h[s] = step[k + 1][g[s \ {k + 1}]]
        BY <3>1
      <4>5. step[k + 1] \in [S -> S]
        BY <2>2
      <4> HIDE DEF h
      <4> QED BY <4>1, <4>3, <4>4, <4>5, <3>1
    <3>2. CASE k + 1 \notin s
      <4>1. s \in SUBSET (1..k)
        BY <3>2, <2>2
      <4>2. h[s] = g[s] /\ g[s] \in S
        BY <4>1, <3>2, <2>1 DEF FoldsOver
      <4>3. CASE s = {}
        <5>1. g[s] = base
          BY <2>1, <4>1, <4>3 DEF FoldsOver
        <5> QED BY <5>1, <4>2, <4>3
      <4>4. CASE s # {}
        <5>1. s \subseteq 0..k
          BY <4>1, <2>2
        <5>2. Max(s) \in s
          BY <5>1, <4>4, <2>2, MaxOfBounded
        <5>3. s \ {Max(s)} \in SUBSET (1..k) /\ k + 1 \notin s \ {Max(s)}
              /\ s \ {Max(s)} \in SUBSET (1..(k + 1))
          BY <4>1, <3>2
        <5>4. h[s \ {Max(s)}] = g[s \ {Max(s)}]
          BY <5>3
        <5>5. g[s] = step[Max(s)][g[s \ {Max(s)}]]
          BY <2>1, <4>1, <4>4 DEF FoldsOver
        <5> HIDE DEF h
        <5> QED BY <5>4, <5>5, <4>2, <4>4
      <4> QED BY <4>3, <4>4
    <3> QED BY <3>1, <3>2
  <2>4. h \in [SUBSET (1..(k + 1)) -> S]
    <3>1. h = [s \in SUBSET (1..(k + 1)) |-> h[s]]
      OBVIOUS
    <3> HIDE DEF h
    <3> QED BY <2>3, <3>1
  <2> HIDE DEF h
  <2>5. FoldsOver(h, k + 1, S, base, step)
    BY <2>3, <2>4 DEF FoldsOver
  <2> QED BY <2>2, <2>5
<1> HIDE DEF T
<1>3. \A i \in 0..n : i \in T
  BY <1>1, <1>2, CountsUp
<1> QED BY <1>3 DEF T

(* The same fold over a sequence, element after element: f[i] is what it   *)
(* has come to after the first i.  The last fact is for a fold whose value *)
(* at every set is known to be `it'.                                       *)
Runs(f, n, S, base, step) ==
    /\ f \in [0..n -> S]
    /\ f[0] = base
    /\ \A i \in 1..n : f[i] = step[i][f[i - 1]]

LEMMA RunOfFold ==
    ASSUME NEW n \in Nat, NEW S, NEW base \in S, NEW step \in [1..n -> [S -> S]], NEW it,
           it[{}] = base,
           \A k \in 1..n : it[1..(k - 1)] \in S => it[1..k] = step[k][it[1..(k - 1)]]
    PROVE  \E f : Runs(f, n, S, base, step) /\ f[n] = it[1..n]
<1> DEFINE T == {k \in 0..n : it[1..k] \in S}
           f == [k \in 0..n |-> it[1..k]]
<1>0. it[1..0] = base
  <2>1. 1..0 = {}
    OBVIOUS
  <2> QED BY <2>1
<1>1. 0 \in T
  BY <1>0
<1>2. ASSUME NEW i \in 0..n, i # n, i \in T
      PROVE  i + 1 \in T
  <2>1. i + 1 \in 1..n /\ i + 1 \in 0..n /\ (i + 1) - 1 = i
    BY ONLY n \in Nat, i \in 0..n, i # n
  <2>2. it[1..i] \in S
    BY <1>2
  <2>3. it[1..(i + 1)] = step[i + 1][it[1..i]]
    <3>1. it[1..((i + 1) - 1)] \in S => it[1..(i + 1)] = step[i + 1][it[1..((i + 1) - 1)]]
      BY <2>1
    <3> QED BY ONLY <3>1, <2>1, <2>2
  <2>4. step[i + 1] \in [S -> S]
    BY <2>1
  <2>5. it[1..(i + 1)] \in S
    BY ONLY <2>2, <2>3, <2>4
  <2> QED BY <2>1, <2>5
<1>3. \A i \in 0..n : it[1..i] \in S
  <2>1. \A i \in 0..n : i \in T
    <3> HIDE DEF T
    <3> QED BY <1>1, <1>2, CountsUp
  <2> QED BY <2>1
<1>4. f \in [0..n -> S] /\ f[0] = base /\ f[n] = it[1..n]
  BY <1>3, <1>0
<1>5. ASSUME NEW i \in 1..n
      PROVE  f[i] = step[i][f[i - 1]]
  <2>1. i \in 0..n /\ i - 1 \in 0..n
    OBVIOUS
  <2>2. f[i] = it[1..i] /\ f[i - 1] = it[1..(i - 1)] /\ it[1..(i - 1)] \in S
    BY <2>1, <1>3
  <2> HIDE DEF f
  <2> QED BY <2>2
<1> HIDE DEF f
<1>6. Runs(f, n, S, base, step)
  BY <1>4, <1>5 DEF Runs
<1> QED BY <1>4, <1>6
================================================================================

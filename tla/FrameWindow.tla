------------------------------ MODULE FrameWindow ------------------------------
(***************************************************************************)
(* The duplicate window of relay-protocol (duplicate.rs), which the Relay  *)
(* keeps for every connection and which outlives a reconnect.  A window    *)
(* remembers the highest frame id and one bit for each of the WindowBits   *)
(* ids at or below it: bit b stands for frame id highest - b.  `seen' is   *)
(* the set of positions of the bits that are 1.                            *)
(***************************************************************************)
EXTENDS Integers

CONSTANTS
    WindowBits,   \* FRAME_ID_WINDOW_BITS, 128 in the code
    FrameIds,     \* the frame ids a sender may use (u64 in the code)
    NoFrame       \* highest = None

ASSUME WindowAssumption ==
    /\ WindowBits \in Nat \ {0}
    /\ FrameIds \subseteq Nat
    /\ NoFrame \notin FrameIds

Decisions == {"New", "Reordered", "Duplicate", "TooOld"}

Windows == [highest : FrameIds \cup {NoFrame}, seen : SUBSET (0 .. WindowBits - 1)]

NewWindow == [highest |-> NoFrame, seen |-> {}]

(* seen << advance: every bit moves up, the ones past the top are lost.    *)
Shift(seen, advance) ==
    {b \in 0 .. WindowBits - 1 : b - advance \in seen}

(* The verdict of FrameIdWindow::observe on a frame id.                    *)
Decision(w, f) ==
    IF w.highest = NoFrame THEN "New"
    ELSE IF f > w.highest THEN "New"
    ELSE IF w.highest - f >= WindowBits THEN "TooOld"
    ELSE IF w.highest - f \in w.seen THEN "Duplicate"
    ELSE "Reordered"

(* Mutant: the bits are not shifted when the window moves.                 *)
ObservedKeepsBits(w, f) ==
    IF Decision(w, f) = "New" THEN [highest |-> f, seen |-> w.seen \cup {0}]
    ELSE IF Decision(w, f) = "Reordered" THEN [w EXCEPT !.seen = @ \cup {w.highest - f}]
    ELSE w

(* The window FrameIdWindow::observe leaves behind.                        *)
Observed(w, f) ==
    IF w.highest = NoFrame THEN [highest |-> f, seen |-> {0}]
    ELSE IF f > w.highest
      THEN [highest |-> f,
            seen |-> IF f - w.highest >= WindowBits THEN {0}
                     ELSE Shift(w.seen, f - w.highest) \cup {0}]
    ELSE IF Decision(w, f) = "Reordered"
      THEN [w EXCEPT !.seen = @ \cup {w.highest - f}]
    ELSE w

Admits(w, f) == Decision(w, f) \in {"New", "Reordered"}
================================================================================

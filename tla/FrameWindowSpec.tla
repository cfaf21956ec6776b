---------------------------- MODULE FrameWindowSpec ----------------------------
(***************************************************************************)
(* One FrameIdWindow fed with arbitrary frame ids, in any order and any    *)
(* number of times, as a lossy, duplicating, reordering data path feeds    *)
(* the Relay.  `accepted' and `last' only record what happened.            *)
(***************************************************************************)
EXTENDS FrameWindow

VARIABLES
    window,     \* the FrameIdWindow
    accepted,   \* history: the frame ids admitted so far
    last        \* history: the last frame id, its verdict, and whether it
                \* had already been admitted then

vars == <<window, accepted, last>>

Init ==
    /\ window = NewWindow
    /\ accepted = {}
    /\ last = [id |-> NoFrame, decision |-> "TooOld", again |-> FALSE]

Observe(f) ==
    /\ window' = Observed(window, f)
    /\ accepted' = IF Admits(window, f) THEN accepted \cup {f} ELSE accepted
    /\ last' = [id |-> f, decision |-> Decision(window, f), again |-> f \in accepted]

Next == \E f \in FrameIds : Observe(f)

Spec == Init /\ [][Next]_vars

--------------------------------------------------------------------------------

(* Types of the window and of its history.                                 *)
TypeOK ==
    /\ window \in Windows
    /\ accepted \subseteq FrameIds
    /\ last \in [id : FrameIds \cup {NoFrame}, decision : Decisions, again : BOOLEAN]

(* The window and the history agree: the highest id is the greatest one    *)
(* admitted, and bit b is set exactly when highest - b was admitted        *)
(* (observe's shift neither invents nor forgets an id inside the window).  *)
WindowAgrees ==
    /\ (window.highest = NoFrame) <=> (accepted = {})
    /\ (window.highest = NoFrame) => window.seen = {}
    /\ (window.highest # NoFrame) =>
          /\ window.highest \in accepted
          /\ \A f \in accepted : f <= window.highest
          /\ \A b \in 0 .. WindowBits - 1 :
                b \in window.seen <=> window.highest - b \in accepted

(* No replay: a frame id that observe lets pass has never passed before,   *)
(* however frames are reordered, repeated or skipped.                      *)
NoReplay == last.decision \in {"New", "Reordered"} => ~last.again

(* No false alarm: what observe calls a duplicate really passed before, so *)
(* reordering inside the window never loses a frame.                       *)
NoFalseDuplicate == last.decision = "Duplicate" => last.again

(* Replay and reorder are told apart exactly: what observe lets pass never *)
(* passed before, what it calls a duplicate did, and the bits it keeps for *)
(* the next frame say precisely which of the last ids were let through.    *)
WindowIsExact == WindowAgrees /\ NoReplay /\ NoFalseDuplicate

(* The window only ever moves forward: no observation lowers the highest   *)
(* id, so an id that fell out as TooOld stays out.                         *)
HighestNeverFalls ==
    [][window.highest # NoFrame =>
          /\ window'.highest # NoFrame
          /\ window'.highest >= window.highest]_vars
================================================================================

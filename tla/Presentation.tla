---------------------------- MODULE Presentation ----------------------------
(***************************************************************************)
(* The window of the Flutter application (main.dart): the full interface,  *)
(* the small always-on-top monitor, the tray, and the transitions between  *)
(* them.                                                                   *)
(*                                                                         *)
(* Dart runs one callback at a time, up to its next await, so an action is *)
(* one such stretch.  A transition is an async function that holds         *)
(* _presentationTransitioning over several awaits; updates of the          *)
(* controller, tray clicks and Exit run between them.  What a callback     *)
(* does synchronously, calls of other async functions up to their first    *)
(* await included, is one function of the record ui.                       *)
(***************************************************************************)
EXTENDS Naturals

CONSTANTS MaxMoves,     \* bound on user moves and on changes of the session
          MaxTimeouts   \* bound on profile waits that run into their timeout

VARIABLES ui,     \* _TbNetAppState
          snap,   \* the controller's snapshot
          core,   \* the bridge: what its next snapshot says
          exit,   \* where _exitApplication is
          used    \* moves made and timeouts suffered

presVars == <<ui, snap, core, exit, used>>

Resting == [kind |-> "none", at |-> "none", prev |-> "none", got |-> FALSE, ran |-> FALSE]
Profile(kind) == CASE kind \in {"enter", "light"} -> "lightweight"
                   [] kind = "hide" -> "background"
                   [] OTHER -> "full"
Running(s) == s.session = "running"
Ready(s) == s.session # "off"     \* the launch status is ready while the hook lives

-----------------------------------------------------------------------------
(***************************************************************************)
(* The async functions, up to their first await.                           *)
(***************************************************************************)
Begin(v, kind, at, ran) ==
    [v EXCEPT !.tr = [kind |-> kind, at |-> at, prev |-> v.mode, got |-> FALSE, ran |-> ran]]

\* _showFullInterface(bringToFront: true); the monitor's position is read
\* before the splash is shown.
ShowFull(v) ==
    CASE v.mode = "full" -> [v EXCEPT !.win = "shown"]
      [] v.mode # "full" /\ v.tr # Resting -> [v EXCEPT !.pending = TRUE]
      [] v.tr = Resting /\ v.mode = "visible" -> Begin(v, "full", "begin", FALSE)
      [] OTHER -> LET b == Begin(v, "full", "ask", FALSE) IN [b EXCEPT !.mode = "restoring"]

\* _enterLightweight
Enter(v, s) ==
    IF v.tr # Resting \/ ~Running(s) \/ ~Ready(s) THEN v ELSE Begin(v, "enter", "ask", TRUE)

\* _showLightweight
ShowLight(v, s) ==
    CASE v.mode = "full" -> Enter(v, s)
      [] v.mode # "full" /\ ~Running(s) -> ShowFull(v)
      [] OTHER -> IF v.tr # Resting THEN v ELSE Begin(v, "light", "ask", TRUE)

\* Mutant: the end of the session during the transition is not looked for.
HideForgetsSession(v, s) ==
    IF v.tr # Resting \/ ~v.tray THEN v
    ELSE Begin([v EXCEPT !.before = v.mode, !.lived = Running(s)], "hide", "ask", FALSE)

\* _hideToTray; without a tray the window is minimised.  (lived is kept for
\* ViewAgrees: a session ran when hiding began, when the window became the
\* tray view, or at a moment since.)
Hide(v, s) ==
    IF v.tr # Resting \/ ~v.tray THEN v
    ELSE Begin([v EXCEPT !.before = v.mode, !.lived = Running(s)], "hide", "ask", Running(s))

-----------------------------------------------------------------------------
(***************************************************************************)
(* _handleControllerUpdate, called with every new snapshot s.              *)
(***************************************************************************)
Handle(v, s) ==
    LET mismatch == s.session = "mismatch"
        v1 == IF mismatch /\ ~v.mis THEN ShowFull(v) ELSE v
        fresh == Ready(s) /\ (s.gen # v.handled \/ (~v.was /\ Running(s) /\ ~mismatch))
        v2 == IF fresh /\ v1.mode = "full" /\ ~mismatch THEN Enter(v1, s) ELSE v1
        v3 == IF v.was /\ ~Running(s) /\ v2.mode \notin {"full", "exiting"} THEN ShowFull(v2) ELSE v2
    IN  [v3 EXCEPT !.mis = mismatch, !.was = Running(s),
                   !.handled = IF fresh THEN s.gen ELSE @, !.lived = @ \/ (Running(s) /\ v.mode = "hidden")]

\* The bridge publishes and the controller accepts.  A profile wait whose
\* profile has come is completed.
Update ==
    /\ core # snap
    /\ snap' = core
    /\ LET h == Handle(ui, core)
       IN  ui' = [h EXCEPT !.tr.got = @ \/ (h.tr.at = "wait" /\ Profile(h.tr.kind) = core.profile)]
    /\ UNCHANGED <<core, exit, used>>

-----------------------------------------------------------------------------
(***************************************************************************)
(* The rest of a transition.                                               *)
(***************************************************************************)
\* The splash replaces the monitor.
BeginRestore ==
    /\ ui.tr.at = "begin"
    /\ ui' = [ui EXCEPT !.mode = "restoring", !.tr.at = "ask"]
    /\ UNCHANGED <<snap, core, exit, used>>

\* waitForSnapshotProfile: nothing is asked when the snapshot has the profile.
AskProfile ==
    /\ ui.tr.at = "ask"
    /\ LET p == Profile(ui.tr.kind)
       IN  /\ ui' = [ui EXCEPT !.tr.at = "wait", !.tr.got = snap.profile = p,
                               !.mode = IF ui.tr.kind = "enter" THEN "entering" ELSE @]
           /\ core' = IF snap.profile = p THEN core ELSE [core EXCEPT !.profile = p]
    /\ UNCHANGED <<snap, exit, used>>

\* _finishTransition
FinishTransition(v) ==
    LET f == [v EXCEPT !.tr = Resting]
    IN  IF f.pending THEN ShowFull([f EXCEPT !.pending = FALSE]) ELSE f

\* The wait is over: hide and light go on either way, enter is called off
\* when the profile did not come or the session has ended, full goes back.
Answered(ok) ==
    CASE ui.tr.kind = "enter" ->
           IF ~ok \/ ~Running(snap) THEN ShowFull(FinishTransition(ui))
           ELSE [ui EXCEPT !.mode = "visible", !.win = "hidden", !.tr.at = "show"]
      [] ui.tr.kind = "hide"  -> [ui EXCEPT !.mode = "hidden", !.tr.at = "show",
                                            !.lived = @ \/ Running(snap)]
      [] ui.tr.kind = "light" -> [ui EXCEPT !.mode = "visible", !.tr.at = "show"]
      [] OTHER -> [ui EXCEPT !.mode = IF ok THEN "full" ELSE ui.tr.prev, !.tr.at = "show"]

ProfileComes ==
    /\ ui.tr.at = "wait" /\ ui.tr.got
    /\ ui' = Answered(TRUE)
    /\ UNCHANGED <<snap, core, exit, used>>

ProfileTimesOut ==
    /\ ui.tr.at = "wait" /\ ~ui.tr.got /\ used.late < MaxTimeouts
    /\ ui' = Answered(FALSE)
    /\ used' = [used EXCEPT !.late = @ + 1]
    /\ UNCHANGED <<snap, core, exit>>

\* The window follows, the transition is over, and the function looks once
\* more whether the session it started with has ended.
Conclude(v, s) ==
    LET shown == [v EXCEPT !.win = IF v.mode = "hidden" THEN "hidden" ELSE "shown"]
        done == FinishTransition(shown)
    IN  IF v.tr.kind # "full" /\ v.tr.ran /\ ~Running(s) THEN ShowFull(done) ELSE done

EndTransition ==
    /\ ui.tr.at = "show"
    /\ ui' = Conclude(ui, snap)
    /\ UNCHANGED <<snap, core, exit, used>>

-----------------------------------------------------------------------------
(***************************************************************************)
(* The user and the session.                                               *)
(***************************************************************************)
Move == used.moves < MaxMoves /\ exit # "closed" /\ used' = [used EXCEPT !.moves = @ + 1]

\* onWindowFocus
WindowFocus ==
    /\ Move /\ ui.mode = "hidden"
    /\ ui' = IF Running(snap) THEN ShowLight(ui, snap) ELSE ShowFull(ui)
    /\ UNCHANGED <<snap, core, exit>>

\* onTrayIconMouseDown; a second click within 350 ms is ignored
TrayClick ==
    /\ Move /\ ui.tray
    /\ ui' = CASE ui.mode # "hidden" -> Hide(ui, snap)
               [] ui.mode = "hidden" /\ ui.before = "visible" /\ Running(snap) -> ShowLight(ui, snap)
               [] OTHER -> ShowFull(ui)
    /\ UNCHANGED <<snap, core, exit>>

\* onTrayMenuItemClick, and the buttons of the shell and of the monitor
Choose ==
    /\ Move
    /\ \/ ui.mode # "visible" /\ Running(snap) /\ ui' = ShowLight(ui, snap)
       \/ ui.mode \notin {"full", "restoring"} /\ ui' = ShowFull(ui)
       \/ ui.mode # "hidden" /\ ui' = Hide(ui, snap)
    /\ UNCHANGED <<snap, core, exit>>

\* onWindowClose: a prompt in the full interface, otherwise the tray; the
\* prompt and the tray menu offer Exit.
CloseWindow ==
    /\ Move
    /\ \/ ui.mode # "full" /\ ui.tray /\ ui' = Hide(ui, snap) /\ UNCHANGED exit
       \/ exit = "open" /\ exit' = "closing" /\ UNCHANGED ui
    /\ UNCHANGED <<snap, core>>

\* The session starts, stops, or finds the other Steam account; a launch has
\* a new generation.
SessionChanges ==
    /\ Move
    /\ \E s \in {"off", "ready", "running", "mismatch"} \ {core.session} :
         core' = [core EXCEPT !.session = s,
                              !.gen = IF core.session = "off" THEN 1 - core.gen ELSE @]
    /\ UNCHANGED <<ui, snap, exit>>

\* _exitApplication: the tray goes, the bridge is asked to shut down, and the
\* window is closed when it has or after three seconds.
ExitStep ==
    /\ \/ /\ exit = "closing" /\ exit' = "leaving"
          /\ ui' = [ui EXCEPT !.mode = "exiting", !.tray = FALSE] /\ UNCHANGED core
       \/ /\ exit = "leaving" /\ exit' = "waiting"
          /\ core' = [core EXCEPT !.down = "asked"] /\ UNCHANGED ui
       \/ /\ exit = "waiting" /\ exit' = "closed"
          /\ snap.down = "done" \/ core.down = "asked"
          /\ UNCHANGED <<ui, core>>
    /\ UNCHANGED <<snap, used>>

BridgeDown ==
    /\ core.down = "asked"
    /\ core' = [core EXCEPT !.down = "done"]
    /\ UNCHANGED <<ui, snap, exit, used>>

-----------------------------------------------------------------------------
PresInit ==
    /\ \E tray \in BOOLEAN, s \in {"off", "ready", "running"} :
         /\ core = [session |-> s, gen |-> 0, profile |-> "full", down |-> "no"]
         /\ ui = [mode |-> "full", before |-> "full", pending |-> FALSE, tr |-> Resting,
                  win |-> "shown", was |-> s = "running", mis |-> FALSE,
                  handled |-> IF s = "off" THEN 2 ELSE 0, tray |-> tray, lived |-> FALSE]
    /\ snap = core
    /\ exit = "open"
    /\ used = [moves |-> 0, late |-> 0]

Transition == BeginRestore \/ AskProfile \/ ProfileComes \/ ProfileTimesOut \/ EndTransition

PresNext ==
    exit # "closed" /\ (\/ Update \/ Transition \/ WindowFocus \/ TrayClick \/ Choose
                        \/ CloseWindow \/ SessionChanges \/ ExitStep \/ BridgeDown)

PresSpec == PresInit /\ [][PresNext]_presVars

-----------------------------------------------------------------------------
\* Nothing is under way and the bridge has nothing new to say.
Settled == ui.tr = Resting /\ core = snap /\ exit = "open"

\* Once everything is still, the window shows one of the three views, the
\* monitor only while a session runs, the bridge sends the snapshots that the
\* view needs, and the window is hidden in the tray view alone; and the end of
\* a session brings the window back from the tray, if the session ran when
\* hiding began, when the window became the tray view, or since.  Nothing is
\* said of a session that starts and ends inside the awaits of _hideToTray
\* called from the full interface: sessionWasRunning was read before it, the
\* update that tells its end finds the full interface and does nothing, and
\* the window stays in the tray.  Nor of a profile wait that timed out, after
\* which the late answer is not undone.
ViewAgrees ==
    Settled /\ used.late = 0 =>
        /\ ~ui.pending
        /\ \/ ui.mode = "full" /\ ui.win = "shown" /\ snap.profile = "full"
           \/ ui.mode = "visible" /\ ui.win = "shown" /\ snap.profile = "lightweight" /\ Running(snap)
           \/ /\ ui.mode = "hidden" /\ ui.win = "hidden" /\ snap.profile = "background"
              /\ Running(snap) \/ ~ui.lived
=============================================================================

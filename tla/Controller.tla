----------------------------- MODULE Controller -----------------------------
(***************************************************************************)
(* The controller of the Flutter application                               *)
(* (tractor_beam_controller.dart): the room restored at startup, the       *)
(* relay probe that follows it, and the switch from one room to another.   *)
(*                                                                         *)
(* The controller knows the bridge only through a stream of updates, each  *)
(* a snapshot and the events since the last, so it decides from a snapshot *)
(* that may be stale.  The bridge and its worker (FlutterBridge) are       *)
(* reduced here to what the stream shows: a bounded command queue, a leave *)
(* request that overtakes it, and one command at a time.                   *)
(***************************************************************************)
EXTENDS Naturals, Sequences

CONSTANTS Room, None,     \* the rooms of the history, and no room
          QueueLimit,     \* commands the worker's queue holds
          MaxAsks,        \* bound on the moves of the user
          MaxMail         \* bound on the updates under way

ASSUME CtlAssumption == None \notin Room /\ QueueLimit \in Nat

VARIABLES c,      \* TractorBeamController: startup and switch
          seen,   \* its snapshot
          b,      \* the bridge and its worker
          mail,   \* updates on the stream
          user    \* what the user asked for last, and how often

ctlVars == <<c, seen, b, mail, user>>

MaxRestores == 3   \* attempts of the automatic restore
MaxProbes == 3     \* retries of the initial probe

Snapshot(x) == [status |-> x.status, active |-> x.room # None,
                restore |-> x.restore, mutable |-> x.op = None, choosing |-> x.choosing]

-----------------------------------------------------------------------------
(***************************************************************************)
(* The bridge (external to the controller).                                *)
(***************************************************************************)
\* publish_update: wake-ups without events are merged.
Post(m, ev, x) ==
    LET u == [ev |-> ev, snap |-> Snapshot(x)]
    IN  IF m # <<>> /\ m[Len(m)].ev = "none" THEN [m EXCEPT ![Len(m)] = u] ELSE Append(m, u)

\* join_room, join_history_room; by says who asked.
Receipt(x) == CASE x.room # None -> "room_already_active"
                [] x.room = None /\ Len(x.queue) = QueueLimit -> "queue_busy"
                [] OTHER -> "accepted"
Join(x, r, by) ==
    IF Receipt(x) # "accepted" THEN x
    ELSE [x EXCEPT !.status = "joining", !.choosing = FALSE, !.queue = Append(@, [room |-> r, by |-> by, stale |-> FALSE])]

\* leave_room: the restore entry goes at once, the room when the worker sees
\* the request.
Leave(x) == [x EXCEPT !.restore = None, !.status = "leaving", !.leave = TRUE]

\* The worker takes a command; one stamped before a leave is rejected.
Take ==
    /\ b.op = None /\ ~b.leave /\ b.queue # <<>> /\ Len(mail) < MaxMail
    /\ LET h == Head(b.queue)
           x == [b EXCEPT !.queue = Tail(@), !.op = IF h.stale THEN None ELSE h.room]
       IN  b' = x /\ mail' = Post(mail, IF h.stale THEN "command_rejected" ELSE "none", x)
    /\ UNCHANGED <<c, seen, user>>

\* The join ends: joined (and recorded for the next start), failed, or a LAN
\* room waits for the choice of an endpoint.
JoinEnds ==
    /\ b.op # None /\ Len(mail) < MaxMail
    /\ \E ev \in {"joined", "join_failed", "lan_endpoint_selection_required"} :
         LET x == [b EXCEPT !.op = None,
                     !.room = IF ev = "joined" THEN b.op ELSE @,
                     !.restore = IF ev = "joined" THEN b.op ELSE @,
                     !.choosing = ev = "lan_endpoint_selection_required",
                     !.status = CASE ev = "joined" -> "active" [] ev = "join_failed" -> "failed"
                                  [] OTHER -> @]
         IN  b' = x /\ mail' = Post(mail, ev, x)
    /\ UNCHANGED <<c, seen, user>>

WorkerLeaves ==
    /\ b.op = None /\ b.leave /\ Len(mail) < MaxMail
    /\ LET x == [b EXCEPT !.leave = FALSE, !.room = None, !.status = "idle", !.choosing = FALSE,
                          !.queue = [i \in DOMAIN @ |-> [@[i] EXCEPT !.stale = TRUE]]]
       IN  b' = x /\ mail' = Post(mail, "room_left", x)
    /\ UNCHANGED <<c, seen, user>>

\* Some other command is rejected, or a latency test ends.
OtherEvents ==
    /\ user.asks < MaxAsks /\ Len(mail) < MaxMail
    /\ \E ev \in {"command_rejected", "latency_test"} :
         mail' = Post(mail, ev, b)
    /\ user' = [user EXCEPT !.asks = @ + 1]
    /\ UNCHANGED <<c, seen, b>>

-----------------------------------------------------------------------------
(***************************************************************************)
(* The controller; a handler maps [c, b] to [c, b] with the snapshot s.    *)
(***************************************************************************)
\* _scheduleInitialRelayProbe
ScheduleProbe(k) == IF k.probed THEN k ELSE [k EXCEPT !.probeTimer = TRUE]

\* _scheduleAutoRestoreRetry
ScheduleRetry(k) ==
    IF k.attempted \/ k.attempts >= MaxRestores THEN ScheduleProbe([k EXCEPT !.attempted = TRUE])
    ELSE [k EXCEPT !.retryTimer = TRUE]

\* leaveRoom()
ExplicitLeave(w) == [c |-> [w.c EXCEPT !.wanted = None], b |-> Leave(w.b)]

\* _abortAutoRestore: a room that is still being joined is left.
Abort(w, s) ==
    LET k == [w.c EXCEPT !.inFlight = FALSE, !.attempted = TRUE]
        l == IF s.status = "joining" THEN ExplicitLeave([w EXCEPT !.c = k]) ELSE [w EXCEPT !.c = k]
    IN  [l EXCEPT !.c = ScheduleProbe(@)]

\* What an event means for a restore in flight.
RestoreEvent(w, ev, s) ==
    CASE ev = "command_rejected" -> [w EXCEPT !.c = ScheduleRetry([@ EXCEPT !.inFlight = FALSE])]
      [] ev \in {"joined", "join_failed"} ->
           [w EXCEPT !.c.inFlight = FALSE, !.c.attempted = TRUE]
      [] ev = "lan_endpoint_selection_required" -> Abort(w, s)
      [] OTHER -> w

\* _coordinateStartupActions
Coordinate(k, s) ==
    IF ~k.attempted /\ s.restore # None
      THEN IF ~k.inFlight /\ ~k.retryTimer /\ ~s.active /\ s.status = "idle" /\ s.mutable
             THEN ScheduleRetry(k) ELSE k
      ELSE ScheduleProbe(k)

\* _acceptUpdate.  The join of a switch runs as a microtask, after the rest.
Accept ==
    /\ mail # <<>>
    /\ LET u  == Head(mail)
           go == u.ev = "room_left" /\ c.wanted # None
           c1 == IF go THEN [c EXCEPT !.wanted = None] ELSE c
           w1 == IF c.inFlight THEN RestoreEvent([c |-> c1, b |-> b], u.ev, u.snap) ELSE [c |-> c1, b |-> b]
           k  == Coordinate(w1.c, u.snap)
           x  == IF go THEN Join(w1.b, c.wanted, "switch") ELSE w1.b
       IN  /\ c' = k /\ b' = x /\ seen' = u.snap
           /\ mail' = IF x = b THEN Tail(mail) ELSE Post(Tail(mail), "none", x)
    /\ user' = [user EXCEPT !.waits = @ /\ Tail(mail) # <<>>]

\* The retry timer fires; while the bridge is busy or a room is there it is
\* only set again.
RetryFires ==
    /\ c.retryTimer
    /\ LET k == [c EXCEPT !.retryTimer = FALSE]
           n == [k EXCEPT !.attempts = @ + 1]
       IN  CASE seen.restore = None -> c' = [k EXCEPT !.attempted = TRUE] /\ UNCHANGED <<b, mail>>
             [] seen.restore # None /\ (~seen.mutable \/ seen.active \/ seen.status # "idle") ->
                  c' = ScheduleRetry(k) /\ UNCHANGED <<b, mail>>
             [] OTHER ->
                  /\ b' = Join(b, seen.restore, "restore")
                  /\ mail' = IF b' = b THEN mail ELSE Post(mail, "none", b')
                  /\ c' = CASE Receipt(b) = "accepted" -> [n EXCEPT !.inFlight = TRUE]
                            [] Receipt(b) = "queue_busy" -> ScheduleRetry(n)
                            [] OTHER -> ScheduleProbe([n EXCEPT !.attempted = TRUE])
    /\ UNCHANGED <<seen, user>>

\* The watchdog of a restore in flight: 15 seconds without its event.
Watchdog ==
    /\ c.inFlight
    /\ LET w == Abort([c |-> c, b |-> b], seen)
       IN  c' = w.c /\ b' = w.b /\ mail' = IF w.b = b THEN mail ELSE Post(mail, "none", w.b)
    /\ UNCHANGED <<seen, user>>

\* The probe timer fires: not while a test runs, and again a bounded number
\* of times while the bridge is busy.
ProbeFires ==
    /\ c.probeTimer
    /\ \/ /\ seen.mutable /\ Len(b.queue) < QueueLimit
          /\ c' = [c EXCEPT !.probeTimer = FALSE, !.probed = TRUE]
       \/ /\ ~seen.mutable \/ Len(b.queue) = QueueLimit
          /\ c' = [c EXCEPT !.probeTimer = c.probes < MaxProbes, !.probes = @ + 1,
                            !.probed = c.probes >= MaxProbes]
       \/ c' = [c EXCEPT !.probeTimer = FALSE]   \* _latencyTestPending
    /\ UNCHANGED <<seen, b, mail, user>>

-----------------------------------------------------------------------------
(***************************************************************************)
(* The user.                                                               *)
(***************************************************************************)
\* Mutant: an explicit leave keeps the room a switch had asked for.
LeaveKeepsSwitch == /\ b' = Leave(b) /\ UNCHANGED c

LeaveRoom == LET w == ExplicitLeave([c |-> c, b |-> b]) IN c' = w.c /\ b' = w.b

\* switchRoom, switchToHistoryRoom: outside a room a plain join.
SwitchRoom(r) ==
    IF seen.active THEN c' = [c EXCEPT !.wanted = r] /\ b' = Leave(b)
    ELSE c' = c /\ b' = Join(b, r, "user")

Busy == seen.status \in {"joining", "leaving"}   \* _roomBusy

\* The room screen offers Join and Switch unless the room is busy, Leave in a
\* room and in the choice of an endpoint.  A call publishes before it returns,
\* and the user's next gesture comes after that update.
UserAsks ==
    /\ user.asks < MaxAsks /\ ~user.waits
    /\ \/ \E r \in Room : /\ ~Busy
                          /\ SwitchRoom(r)
                          /\ user' = [asks |-> user.asks + 1, waits |-> TRUE,
                                      last |-> IF seen.active \/ Receipt(b) = "accepted" THEN r ELSE user.last]
       \/ /\ (seen.active /\ ~Busy) \/ seen.choosing
          /\ LeaveRoom
          /\ user' = [asks |-> user.asks + 1, last |-> "leave", waits |-> TRUE]
    /\ mail' = IF b' = b THEN mail ELSE Post(mail, "none", b')
    /\ UNCHANGED seen

-----------------------------------------------------------------------------
CtlInit ==
    /\ c = [attempted |-> FALSE, inFlight |-> FALSE, attempts |-> 0, retryTimer |-> FALSE,
            probed |-> FALSE, probes |-> 0, probeTimer |-> FALSE, wanted |-> None]
    /\ \E r \in Room \cup {None} :
         b = [room |-> None, status |-> "idle", restore |-> r, op |-> None,
              queue |-> <<>>, leave |-> FALSE, choosing |-> FALSE]
    /\ seen = [status |-> "idle", active |-> FALSE, restore |-> None, mutable |-> FALSE,
               choosing |-> FALSE]
    /\ mail = <<[ev |-> "none", snap |-> Snapshot(b)]>>
    /\ user = [asks |-> 0, last |-> "nothing", waits |-> FALSE]

Bridge == Take \/ JoinEnds \/ WorkerLeaves \/ OtherEvents
Timers == RetryFires \/ Watchdog \/ ProbeFires

CtlNext == Bridge \/ Accept \/ Timers \/ UserAsks

CtlSpec == CtlInit /\ [][CtlNext]_ctlVars

-----------------------------------------------------------------------------
\* A switch follows the user.  The room that waits for the leave, or is
\* queued last after it, is the one the user asked for last: an explicit leave
\* or another room calls the first target off, whatever events, restores and
\* stale snapshots come between.  (A switch already queued is undone by the
\* leave that the worker has still to carry out.)
SwitchFollowsUser ==
    LET q == b.queue
    IN  /\ c.wanted # None => user.last = c.wanted
        /\ q # <<>> /\ q[Len(q)].by = "switch" /\ ~q[Len(q)].stale /\ ~b.leave =>
             q[Len(q)].room = user.last
=============================================================================

--------------------------- MODULE FlutterBridge ---------------------------
(***************************************************************************)
(* The Flutter bridge (flutter-bridge, api.rs) over the application        *)
(* worker: the room and launch part of BridgeState, the synchronous calls  *)
(* of the user interface thread, the publisher thread, and the encrypted   *)
(* join-code history (room_history.rs).                                    *)
(*                                                                         *)
(* A call holds the locks one after the other, so it is one action per     *)
(* lock region: it reads the snapshot and copies the draft, writes the     *)
(* draft back, stamps a command, sends it, and publishes (drain, then      *)
(* process).  The publisher thread publishes at the same time.  Calls      *)
(* that a guard refuses change nothing and are left out.                   *)
(***************************************************************************)
EXTENDS Application, SequencesExt

CONSTANTS MaxHistory,   \* MAX_HISTORY
          Moves,        \* the kinds of call the user makes in this instance
          MaxCalls      \* bound on the calls of the user and on restarts

ASSUME BridgeAssumption == MaxHistory \in Nat \ {0} /\ MaxCalls \in Nat

VARIABLES st,     \* BridgeState: room status, rooms, launch
          hist,   \* StoredRoomHistory: the codes, latest first, and restore
          th,     \* the two threads: the lock region each is about to enter
          calls   \* calls made so far

bridgeVars == <<st, hist, th, calls>>
vars == <<appVars, bridgeVars>>

Idle == [pc |-> "idle", cmd |-> NoCmd, draft |-> "none", snap |-> "none", evs |-> <<>>]
NoLaunch == [pending |-> FALSE, cancelReq |-> FALSE, cancelled |-> FALSE,
             error |-> FALSE, deadline |-> FALSE]

NoState == [status |-> "Idle", room |-> "none", pending |-> "none", pendingLan |-> "none",
            launch |-> NoLaunch]
Threads == {"ui", "pub"}

-----------------------------------------------------------------------------
(***************************************************************************)
(* RoomHistoryStore.                                                       *)
(***************************************************************************)
Listed(h, c) == \E i \in DOMAIN h.codes : h.codes[i] = c

\* Mutant: the code is appended, and truncated away from a full list.
RecordAtEnd(h, c) ==
    LET moved == RemoveFirst(h.codes, c) \o <<c>>
    IN  [codes |-> SubSeq(moved, 1, IF Len(moved) < MaxHistory THEN Len(moved) ELSE MaxHistory),
         restore |-> c]

\* record_success: the code moves to the front, the list is truncated.
RecordSuccess(h, c) ==
    LET moved == <<c>> \o RemoveFirst(h.codes, c)
    IN  [codes |-> SubSeq(moved, 1, IF Len(moved) < MaxHistory THEN Len(moved) ELSE MaxHistory),
         restore |-> c]

ClearRestore(h) == [h EXCEPT !.restore = "none"]

-----------------------------------------------------------------------------
(***************************************************************************)
(* map_launch_progress, process_events, enforce_launch_timeout.            *)
(***************************************************************************)
LaunchStatus(s, b) ==
    CASE b.launch.cancelReq                           -> "Cancelling"
      [] ~b.launch.cancelReq /\ b.launch.cancelled    -> "Cancelled"
      [] ~b.launch.cancelReq /\ ~b.launch.cancelled /\ b.launch.error -> "Failed"
      [] OTHER -> CASE s.phase = "NotStarted" -> (IF b.launch.pending THEN "Starting" ELSE "Idle")
                    [] s.phase = "Configured" -> "Starting"
                    [] OTHER                  -> s.phase

\* record_active_room
Record(r) == IF r.st.room = "none" THEN r ELSE [r EXCEPT !.hist = RecordSuccess(@, r.st.room)]

Entered(r) ==
    Record([r EXCEPT !.st.room = IF r.st.pending # "none" THEN r.st.pending ELSE @,
                     !.st.pending = "none", !.st.status = "Active"])
NotEntered(r) ==
    [r EXCEPT !.st.pending = "none", !.st.room = "none", !.st.status = "Failed"]

\* The session stopped; it was cancelled if the user had asked for that.
Stopped(l) ==
    [l EXCEPT !.cancelled = @ \/ l.cancelReq, !.error = @ /\ ~l.cancelReq,
              !.cancelReq = FALSE, !.pending = FALSE, !.deadline = FALSE]

\* One event; r is [st, hist, submits].
ProcessEvent(r, e) ==
    CASE e.kind = "StartFinished" ->
           IF e.ok THEN r
           ELSE [r EXCEPT !.st.launch.pending = FALSE, !.st.launch.deadline = FALSE,
                          !.st.launch.error = TRUE]
      [] e.kind = "SessionStopped" ->
           [r EXCEPT !.st.launch = Stopped(@)]
      [] e.kind = "RoomLeft" ->
           [r EXCEPT !.st.room = "none", !.st.pending = "none", !.st.pendingLan = "none",
                     !.st.status = "Idle"]
      [] e.kind \in {"RelayRoomJoined", "LanRoomJoined"} -> IF e.ok THEN Entered(r) ELSE NotEntered(r)
      [] e.kind = "LanRoomCreated" ->
           IF e.ok THEN Record([r EXCEPT !.st.room = e.code, !.st.status = "Active"])
           ELSE [r EXCEPT !.st.room = "none", !.st.status = "Failed"]
      \* a single reachable endpoint is joined without asking
      [] e.kind = "ProbeOne" ->
           [r EXCEPT !.st.pendingLan = "none", !.st.pending = e.code,
                     !.submits = Append(@, Cmd("joinLan", e.code))]
      [] e.kind = "ProbeMany" -> [r EXCEPT !.st.pendingLan = e.code]
      [] e.kind = "ProbeNone" ->
           [r EXCEPT !.st.pendingLan = "none", !.st.pending = "none", !.st.status = "Failed"]
      [] OTHER -> r   \* CommandRejected and reports: an event for the user only

LaunchOver(s) == s.phase \in {"Ready", "Failed", "Cancelled"}

\* enforce_launch_timeout with the drained snapshot s; s.late says whether
\* LAUNCH_TIMEOUT had passed.
EnforceTimeout(r, s) ==
    IF s.over
      THEN [r EXCEPT !.st.launch.pending = FALSE, !.st.launch.deadline = FALSE]
      ELSE IF s.late /\ r.st.launch.deadline
        THEN [r EXCEPT !.st.launch = [NoLaunch EXCEPT !.error = TRUE],
                       !.submits = Append(@, Cmd("stop", "none"))]
        ELSE r

\* A submission made while processing; a full queue fails the join.
Submit(r, m) ==
    IF Len(r.queue) < Capacity /\ wk.pc # "done"
      THEN [r EXCEPT !.queue = Append(@, m)]
      ELSE IF m.kind = "joinLan"
             THEN [r EXCEPT !.st.pending = "none", !.st.status = "Failed"]
             ELSE r

-----------------------------------------------------------------------------
(***************************************************************************)
(* publish_update, in either thread.                                       *)
(***************************************************************************)
Goto(t, p) == th' = [th EXCEPT ![t] = [@ EXCEPT !.pc = p]]

\* Snapshot and events under the application lock.  The publisher wakes for
\* events, for a launch that is over, and once the deadline has elapsed.
Drain(t) ==
    /\ flight = NoCmd
    /\ \E late \in BOOLEAN :
         /\ \/ t = "ui" /\ th[t].pc = "publish" /\ ~late
            \/ /\ t = "pub" /\ th[t].pc = "idle"
               /\ \/ ~late /\ (events # <<>> \/ (LaunchOver(snap) /\ st.launch.pending))
                  \/ late /\ events = <<>> /\ st.launch.deadline /\ ~LaunchOver(snap)
         /\ th' = [th EXCEPT ![t] = [Idle EXCEPT !.pc = "process", !.evs = events,
                                                 !.snap = [over |-> LaunchOver(snap), late |-> late]]]
    /\ events' = <<>>
    /\ UNCHANGED <<snap, cl, lan, queue, flight, control, wk, st, hist>>

\* process_events and enforce_launch_timeout under the state lock.
Process(t) ==
    /\ th[t].pc = "process"
    /\ flight = NoCmd
    /\ LET folded == FoldLeft(ProcessEvent, [st |-> st, hist |-> hist, submits |-> <<>>], th[t].evs)
           timed  == EnforceTimeout(folded, th[t].snap)
           sent   == FoldLeft(Submit, [st |-> timed.st, queue |-> queue], timed.submits)
       IN  st' = sent.st /\ hist' = timed.hist /\ queue' = sent.queue
    /\ th' = [th EXCEPT ![t] = IF t = "pub" /\ snap.done THEN [Idle EXCEPT !.pc = "gone"] ELSE Idle]
    /\ UNCHANGED <<snap, cl, lan, flight, events, control, wk>>

-----------------------------------------------------------------------------
(***************************************************************************)
(* The calls of the user interface thread.                                 *)
(***************************************************************************)
Free == th["ui"].pc = "idle" /\ ~snap.done

\* join_room, join_history_room, retry_relay_room_with_tcp, create_relay_room:
\* snapshot and a copy of the draft.
CallJoin(c) ==
    /\ Free /\ ~RoomActive(snap)
    /\ th' = [th EXCEPT !["ui"] = [Idle EXCEPT !.pc = "write", !.draft = st,
                 !.cmd = Cmd(IF c \in RelayCodes THEN "joinRelay" ELSE "probe", c)]]
    /\ UNCHANGED <<appVars, st, hist>>

\* continue_lan_join: an endpoint of the pending LAN invitation is chosen.
ContinueLanJoin ==
    /\ Free /\ ~RoomActive(snap) /\ st.pendingLan # "none"
    /\ th' = [th EXCEPT !["ui"] = [Idle EXCEPT !.pc = "write", !.draft = st,
                                               !.cmd = Cmd("joinLan", st.pendingLan)]]
    /\ UNCHANGED <<appVars, st, hist>>

\* The draft is written back as a whole.
WriteDraft ==
    /\ th["ui"].pc = "write"
    /\ LET m == th["ui"].cmd
       IN  st' = [th["ui"].draft EXCEPT
                    !.status = "Joining",
                    !.pending = IF m.kind = "probe" THEN @ ELSE m.code,
                    !.pendingLan = CASE m.kind = "probe" -> m.code
                                     [] m.kind = "joinLan" -> "none" [] OTHER -> @]
    /\ th' = [th EXCEPT !["ui"] = [@ EXCEPT !.pc = "stamp", !.draft = "none"]]
    /\ UNCHANGED <<appVars, hist>>

\* create_lan_room writes only the status.
CreateLan(c) ==
    /\ Free /\ ~RoomActive(snap)
    /\ st' = [st EXCEPT !.status = "Joining"]
    /\ th' = [th EXCEPT !["ui"] = [Idle EXCEPT !.pc = "stamp", !.cmd = Cmd("createLan", c)]]
    /\ UNCHANGED <<appVars, hist>>

\* start_game: the launch is marked pending, then the command is submitted.
StartGame ==
    /\ Free /\ RoomActive(snap) /\ st.room # "none"
    /\ st' = [st EXCEPT !.launch = [NoLaunch EXCEPT !.pending = TRUE, !.deadline = TRUE]]
    /\ th' = [th EXCEPT !["ui"] = [Idle EXCEPT !.pc = "stamp", !.cmd = Cmd("start", "none")]]
    /\ UNCHANGED <<appVars, hist>>

\* select_steam_account and its siblings rejoin the relay room, and refresh,
\* probe, catalog, log and diagnostics calls submit a command directly.
Simple(m) ==
    /\ Free
    /\ m.kind = "rejoin" => RoomActive(snap) /\ st.room \in RelayCodes /\ m.code = st.room
    /\ Stamp(m)
    /\ Goto("ui", "send")
    /\ UNCHANGED <<snap, cl, lan, queue, events, control, wk, st, hist>>

\* submit, first half: the generation is read.
StampCommand ==
    /\ th["ui"].pc = "stamp"
    /\ Stamp(th["ui"].cmd)
    /\ Goto("ui", "send")
    /\ UNCHANGED <<snap, cl, lan, queue, events, control, wk, st, hist>>

\* submit, second half, and what the call does with its answer.
SendCommand ==
    /\ th["ui"].pc = "send"
    /\ flight' = NoCmd
    /\ IF CanSend
         THEN queue' = Append(queue, flight) /\ UNCHANGED st
         ELSE /\ UNCHANGED queue
              /\ st' = CASE flight.kind \in {"joinRelay", "joinLan"} ->
                              [st EXCEPT !.pending = "none", !.status = "Idle"]
                         [] flight.kind = "createLan" -> [st EXCEPT !.status = "Idle"]
                         [] flight.kind = "start" -> [st EXCEPT !.launch.pending = FALSE,
                                                                !.launch.deadline = FALSE]
                         [] OTHER -> st
    /\ th' = [th EXCEPT !["ui"] = [Idle EXCEPT
                !.pc = IF CanSend /\ flight.kind \notin {"probe", "retry", "other", "catalog", "clear"}
                         THEN "publish" ELSE "idle"]]
    /\ UNCHANGED <<snap, cl, lan, events, control, wk, hist>>

\* leave_room: the restore entry is cleared first, then the status, then the
\* control word.
LeaveRoom ==
    /\ Free
    /\ hist' = ClearRestore(hist)
    /\ st' = [st EXCEPT !.status = "Leaving"]
    /\ RequestLeave
    /\ Goto("ui", "publish")
    /\ UNCHANGED <<snap, cl, lan, queue, flight, events, wk>>

\* cancel_launch holds the application lock and then the state lock over its
\* test, the submission and the update of the draft.
CancelLaunch ==
    /\ Free /\ flight = NoCmd
    /\ ~st.launch.cancelReq
    /\ LaunchStatus(snap, st) = "Starting"
    /\ CanSend
    /\ queue' = Append(queue, [Cmd("stop", "none") EXCEPT !.cancel = TRUE])
    /\ st' = [st EXCEPT !.launch = [@ EXCEPT !.cancelReq = TRUE, !.cancelled = FALSE,
                                             !.deadline = FALSE, !.error = FALSE]]
    /\ Goto("ui", "publish")
    /\ UNCHANGED <<snap, cl, lan, flight, events, control, wk, hist>>

Shutdown ==
    /\ Free
    /\ RequestShutdown
    /\ UNCHANGED <<snap, cl, lan, queue, flight, events, wk, st, hist, th>>

\* The process ends at any time and is started again: only the history, which
\* is written atomically, survives.  read_history drops a restore entry that
\* is not listed.
Restart ==
    /\ Free
    /\ snap' = NoSnapshot /\ cl' = NoClient /\ lan' = "none" /\ queue' = <<>>
    /\ flight' = NoCmd /\ events' = <<>> /\ control' = "none"
    /\ wk' = [pc |-> "boot", cmd |-> NoCmd]
    /\ st' = NoState /\ th' = [t \in Threads |-> Idle]
    /\ hist' = [hist EXCEPT !.restore = IF Listed(hist, @) THEN @ ELSE "none"]

-----------------------------------------------------------------------------
\* The program starts; or it has run for a while and the user is in room c,
\* with nothing under way (a state of the first kind leads to it).
InRoom(c) ==
    /\ cl = [NoClient EXCEPT !.alive = TRUE, !.relay = IF c \in RelayCodes THEN c ELSE "none"]
    /\ lan = IF c \in LanCodes THEN c ELSE "none"
    /\ snap = PublishLan(PublishClient([NoSnapshot EXCEPT !.boot = "Ready"], cl), lan)
    /\ queue = <<>> /\ flight = NoCmd /\ events = <<>> /\ control = "none"
    /\ wk = [pc |-> "recv", cmd |-> NoCmd]
    /\ st = [NoState EXCEPT !.room = c, !.status = "Active"]
    /\ hist = [codes |-> <<c>>, restore |-> c]

Init ==
    /\ calls = 0 /\ th = [t \in Threads |-> Idle]
    /\ \/ AppInit /\ st = NoState /\ hist = [codes |-> <<>>, restore |-> "none"]
       \/ \E c \in Codes : InRoom(c)

WorkerStep == Worker /\ UNCHANGED bridgeVars

Calls ==
    /\ calls < MaxCalls /\ calls' = calls + 1
    /\ \/ "join" \in Moves /\ \E c \in Codes : CallJoin(c)
       \/ "create" \in Moves /\ \E c \in LanCodes : CreateLan(c)
       \/ "join" \in Moves /\ ContinueLanJoin
       \/ "start" \in Moves /\ StartGame
       \/ "cancel" \in Moves /\ CancelLaunch
       \/ "leave" \in Moves /\ LeaveRoom
       \/ "shutdown" \in Moves /\ Shutdown
       \/ "restart" \in Moves /\ Restart
       \/ \E k \in Moves \cap {"other", "catalog", "clear", "retry", "openLog"} : Simple(Cmd(k, "none"))
       \/ "rejoin" \in Moves /\ \E c \in RelayCodes : Simple(Cmd("rejoin", c))

ThreadStep ==
    /\ WriteDraft \/ StampCommand \/ SendCommand \/ \E t \in Threads : Drain(t) \/ Process(t)
    /\ UNCHANGED calls

\* After shutdown only what is left in the threads is done.
Ended == wk.pc = "done" /\ UNCHANGED vars

Next == WorkerStep \/ Calls \/ ThreadStep \/ Ended

\* The worker thread and the two threads of the bridge are scheduled; the
\* worker polls until a command arrives.
Spec == Init /\ [][Next]_vars /\ WF_vars(WorkerStep) /\ WF_vars(ThreadStep)

-----------------------------------------------------------------------------

\* A command that was submitted before the worker handled Leave Room is never
\* executed after it: a join or a start that was still queued cannot bring the
\* player back into a room they left.
LeaveIsFinal == wk.pc = "run" => ~wk.cmd.left

\* The restore entry of the history always refers to a listed code, also when
\* the list is full and after a restart; no code is listed twice.
RestoreIsListed ==
    /\ hist.restore # "none" => Listed(hist, hist.restore)
    /\ Len(hist.codes) <= MaxHistory /\ IsInjective(hist.codes)

\* A requested shutdown is carried out, whatever is queued or running and
\* whether or not the user also leaves the room.
ShutdownCompletes == (control = "shutdown") ~> (wk.pc = "done" \/ wk.pc = "boot")

=============================================================================

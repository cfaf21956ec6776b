------------------------------ MODULE RelayServer ------------------------------
(***************************************************************************)
(* The tasks of the Relay process around RelayState (server.rs and         *)
(* server/): one tcp_task for each accepted control connection, udp_task   *)
(* and cleanup_task.  A task calls RelayState with the mutex held, lets go *)
(* of it, and only then puts what it has to say on the bounded egress      *)
(* queues of other connections, one queue at a time; the steps of          *)
(* different tasks interleave in between.                                  *)
(*                                                                         *)
(* The clients are any that keep the client's discipline: a control        *)
(* connection is seated once, by a join or by a resume.  Bootstrap has no  *)
(* effect on the state and is part of Accept.                              *)
(***************************************************************************)
EXTENDS RelayState, Sequences, SequencesExt

CONSTANTS
    QueueCapacity,   \* tcp_egress_queue_capacity
    Sweeper,         \* cleanup_task
    Udp              \* udp_task

ASSUME ServerAssumption ==
    /\ QueueCapacity \in Nat \ {0}
    /\ Sweeper # Udp
    /\ {Sweeper, Udp} \cap ControlPeers = {}

VARIABLES
    task,     \* where each tcp_task is
    egress,   \* the egress map: control peer -> queue of frames, None when absent
    sends,    \* task -> what it has still to put on queues, batch after batch
    seated,   \* control connections that were sent JoinReady or ResumeReady
    view      \* the room as last heard by the client of each connection

taskVars == <<task, egress, sends, seated, view>>

serverVars == <<vars, taskVars>>

Tasks == ControlPeers \cup {Sweeper, Udp}

NoView == {}

Message(type, c, v) == [type |-> type, conn |-> c, view |-> v]

(* A reply to the task's own connection: a failure to queue it ends the    *)
(* task (`?' on send_control).                                             *)
Own(p, msg) == <<[to |-> {p}, msg |-> msg, own |-> TRUE]>>

Dispatch(p, msg) == <<[to |-> {p}, msg |-> msg, own |-> FALSE]>>

(* send_presence to recipients fixed while the mutex was held; no          *)
(* recipients, no broadcast.                                               *)
Presence(recipients, v) ==
    IF recipients = {} THEN <<>>
    ELSE <<[to |-> recipients, msg |-> Message("PeerPresenceUpdate", None, v),
            own |-> FALSE]>>

(* broadcast(session, exclude) of the state a step leaves behind; s is     *)
(* bound by the caller, so that only the tables are primed.                *)
Broadcast(s, exclude) == Presence(Recipients(s, exclude)', RoomView(s)')

(* A tcp_task takes the next frame only when it has finished the last one. *)
Listening(p) == task[p] = "serving" /\ sends[p] = <<>>

Says(t, batches) == sends' = [sends EXCEPT ![t] = batches]

Quits(p, how) == task' = [task EXCEPT ![p] = how]

--------------------------------------------------------------------------------
(* Control frames (server/control/commands.rs).                            *)

Accept(p) ==
    /\ task[p] = "new"
    /\ Quits(p, "serving")
    /\ egress' = [egress EXCEPT ![p] = <<>>]
    /\ UNCHANGED <<vars, sends, seated, view>>

on_join_begin(p, s, id, profile, probe) ==
    /\ Listening(p)
    /\ IF HasCapacity(s, id)
         THEN begin_join(p, s, id, profile, probe)
              /\ Says(p, Own(p, Message("AdmissionChallenge", None, NoView)))
         ELSE UNCHANGED vars /\ Says(p, Own(p, Message("Error", None, NoView)))
    /\ UNCHANGED <<task, egress, seated, view>>

on_join_proof(p, valid) ==
    /\ Listening(p)
    /\ IF pending[p] = None
         THEN /\ UNCHANGED <<vars, seated>>
              /\ Says(p, Own(p, Message("Error", None, NoView)))
         ELSE /\ complete_join(p, valid)
              /\ IF Refused(p, valid)
                   THEN /\ Says(p, Own(p, Message("Error", None, NoView)))
                        /\ UNCHANGED seated
                   ELSE /\ \E c \in ConnIds, s \in Sessions :
                              /\ c = controlConnections'[p] /\ s = pending[p].session
                              /\ Says(p, Own(p, Message("JoinReady", c, RoomView(s)'))
                                         \o Broadcast(s, c))
                        /\ seated' = seated \cup {p}
    /\ UNCHANGED <<task, egress, view>>

on_resume(p, c, key) ==
    /\ Listening(p)
    /\ IF Resumable(c, key)
         THEN /\ resume(p, c, key)
              /\ \E s \in Sessions :
                    /\ s = connectionRooms[c]
                    /\ Says(p, Own(p, Message("ResumeReady", c, RoomView(s)'))
                               \o Broadcast(s, c))
              /\ seated' = seated \cup {p}
         ELSE /\ UNCHANGED <<vars, seated>>
              /\ Says(p, Own(p, Message("ResumeRejected", c, NoView)))
    /\ UNCHANGED <<task, egress, view>>

on_udp_path_request(p) ==
    /\ Listening(p)
    /\ LET c == controlConnections[p] IN
       Says(p, Own(p, IF c # None /\ Known(c) /\ PeerOf(c).profile = "Udp"
                        THEN Message("UdpPathToken", c, NoView)
                        ELSE Message("Error", None, NoView)))
    /\ UNCHANGED <<vars, task, egress, seated, view>>

on_ping(p) ==
    /\ Listening(p)
    /\ Says(p, Own(p, Message("ControlPong", None, NoView)))
    /\ UNCHANGED <<vars, task, egress, seated, view>>

on_stop(p) ==
    /\ Listening(p)
    /\ Quits(p, "stopping")
    /\ UNCHANGED <<vars, egress, sends, seated, view>>

--------------------------------------------------------------------------------
(* Data frames and probes (server/control.rs, server/data.rs).             *)

(* is_fatal_for_tcp_sender: the frame does not belong to the connection it *)
(* came on.                                                                *)
Fatal(c, from, src) == ~Known(c) \/ ~ValidSource(PeerOf(c), from, src)

(* Where the frame goes when the state lets it through, and whether by     *)
(* TCP: a UDP target is a datagram that leaves the process.                *)
Forwarded(c, to, requireProbe, type) ==
    LET s == connectionRooms[c]
        reached == {d \in Targets(s, to, requireProbe) : peers[s][d].profile = "Tcp"}
    IN IF reached = {} THEN <<>>
       ELSE Dispatch(peers[s][CHOOSE d \in reached : TRUE].control,
                     Message(type, c, NoView))

on_data(p, c, f, from, to, size) ==
    LET src == [udp |-> FALSE, from |-> p] IN
    /\ Listening(p)
    /\ IF Fatal(c, from, src)
         THEN Quits(p, "detaching") /\ UNCHANGED <<vars, sends>>
         ELSE /\ route_data(c, f, from, to, src, size)
              /\ Says(p, IF copies' # copies THEN Forwarded(c, to, FALSE, "Data") ELSE <<>>)
              /\ UNCHANGED task
    /\ UNCHANGED <<egress, seated, view>>

(* A rejected probe is only logged: it closes nothing and changes nothing. *)
forward_probe(t, c, from, to, src, size) ==
    /\ ~Fatal(c, from, src)
    /\ route_probe(c, from, src, size)
    /\ Says(t, IF /\ TrafficFits(PeerOf(c).budget, size, now)
                  /\ ProbeFits(CheckTraffic(PeerOf(c).budget, size, now), now)
                 THEN Forwarded(c, to, TRUE, "Probe") ELSE <<>>)
    /\ UNCHANGED <<task, egress, seated, view>>

on_probe(p, c, from, to, size) ==
    /\ Listening(p)
    /\ forward_probe(p, c, from, to, [udp |-> FALSE, from |-> p], size)

(* udp_task: datagrams are taken one by one; a rejected one is only        *)
(* logged.                                                                 *)
on_udp_data(addr, c, f, from, to, size) ==
    LET src == [udp |-> TRUE, from |-> addr] IN
    /\ sends[Udp] = <<>>
    /\ ~Fatal(c, from, src)
    /\ route_data(c, f, from, to, src, size)
    /\ Says(Udp, IF copies' # copies THEN Forwarded(c, to, FALSE, "Data") ELSE <<>>)
    /\ UNCHANGED <<task, egress, seated, view>>

on_udp_probe(addr, c, from, to, size) ==
    /\ sends[Udp] = <<>>
    /\ forward_probe(Udp, c, from, to, [udp |-> TRUE, from |-> addr], size)

(* udp_task: a path hello binds the address and is confirmed on the        *)
(* control connection that owns the peer at that moment.                   *)
on_udp_hello(c, key, addr) ==
    /\ sends[Udp] = <<>>
    /\ bind_udp_path(c, key, addr)
    /\ Says(Udp, Dispatch(PeerOf(c).control, Message("UdpPathReady", c, NoView)))
    /\ UNCHANGED <<task, egress, seated, view>>

--------------------------------------------------------------------------------
(* The end of a tcp_task, step by step (server/control.rs, 145-168).       *)

(* Mutant: the task returns on a read error without its teardown.          *)
HangupWithoutTeardown(p) ==
    /\ Listening(p)
    /\ Quits(p, "done")
    /\ UNCHANGED <<vars, egress, sends, seated, view>>

(* The client closed the connection, or reading or writing it failed.      *)
Hangup(p) ==
    /\ Listening(p)
    /\ Quits(p, "detaching")
    /\ UNCHANGED <<vars, egress, sends, seated, view>>

Unlink(p) ==
    /\ task[p] \in {"detaching", "stopping"}
    /\ Quits(p, IF task[p] = "stopping" THEN "unlinkedStop" ELSE "unlinkedDetach")
    /\ egress' = [egress EXCEPT ![p] = None]
    /\ UNCHANGED <<vars, sends, seated, view>>

(* detach under the mutex.  Its broadcast excludes the peer itself.        *)
Detach(p) ==
    /\ task[p] = "unlinkedDetach"
    /\ Quits(p, "done")
    /\ IF controlConnections[p] = None THEN UNCHANGED <<vars, sends>>
       ELSE /\ detach(p)
            /\ IF peers' = peers THEN Says(p, <<>>)
               ELSE \E c \in ConnIds, s \in Sessions :
                       /\ c = controlConnections[p] /\ s = connectionRooms[c]
                       /\ Says(p, Broadcast(s, c))
    /\ UNCHANGED <<egress, seated, view>>

Stop(p) ==
    /\ task[p] = "unlinkedStop"
    /\ Quits(p, "done")
    /\ IF controlConnections[p] = None THEN UNCHANGED <<vars, sends>>
       ELSE /\ stop(p)
            /\ IF ~Known(controlConnections[p]) THEN Says(p, <<>>)
               ELSE \E s \in Sessions :
                       /\ s = connectionRooms[controlConnections[p]]
                       /\ Says(p, Broadcast(s, None))
    /\ UNCHANGED <<egress, seated, view>>

--------------------------------------------------------------------------------
(* Queues.                                                                 *)

(* send_frame: a missing queue or a full one drops the frame.              *)
Queued(to, msg) ==
    IF egress[to] # None /\ Len(egress[to]) < QueueCapacity
      THEN egress' = [egress EXCEPT ![to] = Append(@, msg)] ELSE UNCHANGED egress

(* One frame of the current batch, to any of the recipients left.          *)
Send(t) ==
    /\ sends[t] # <<>>
    /\ \E to \in Head(sends[t]).to :
          LET b == Head(sends[t])
              rest == b.to \ {to}
              lost == egress[to] = None \/ Len(egress[to]) >= QueueCapacity
          IN
          /\ Queued(to, b.msg)
          /\ IF b.own /\ lost
               THEN Says(t, <<>>) /\ Quits(t, "detaching")
               ELSE /\ Says(t, IF rest = {} THEN Tail(sends[t])
                               ELSE <<[b EXCEPT !.to = rest]>> \o Tail(sends[t]))
                    /\ UNCHANGED task
    /\ UNCHANGED <<vars, seated, view>>

(* The task writes the oldest frame to its socket and the client reads it. *)
Flush(p) ==
    /\ Listening(p)
    /\ egress[p] # <<>>
    /\ egress' = [egress EXCEPT ![p] = Tail(@)]
    /\ view' = IF Head(egress[p]).type \in {"JoinReady", "ResumeReady", "PeerPresenceUpdate"}
                 THEN [view EXCEPT ![p] = Head(egress[p]).view] ELSE view
    /\ UNCHANGED <<vars, task, sends, seated>>

--------------------------------------------------------------------------------
(* cleanup_task: remove_connection broadcasts after each removal, so each  *)
(* broadcast shows the room without the connections removed before it.     *)

Orders(S) == {o \in [1 .. Cardinality(S) -> S] : \A i, j \in DOMAIN o : o[i] = o[j] => i = j}

ViewWithout(s, gone) ==
    {[steam |-> peers[s][c].steam, presence |-> peers[s][c].presence] :
        c \in Members(s) \ gone}

Farewells(order) ==
    FlattenSeq([i \in DOMAIN order |->
        LET s == connectionRooms[order[i]] IN
        Presence(Recipients(s, None), ViewWithout(s, {order[j] : j \in 1 .. i}))])

Sweep ==
    /\ sends[Sweeper] = <<>>
    /\ cleanup
    /\ \E order \in Orders(Expired) : Says(Sweeper, Farewells(order))
    /\ UNCHANGED <<task, egress, seated, view>>

ServerTick == tick /\ UNCHANGED taskVars

--------------------------------------------------------------------------------

ServerInit ==
    /\ Init
    /\ task = [p \in ControlPeers |-> "new"]
    /\ egress = [p \in ControlPeers |-> None]
    /\ sends = [t \in Tasks |-> <<>>]
    /\ seated = {}
    /\ view = [p \in ControlPeers |-> NoView]

(* Frames of a client that keeps the discipline of relay_transport.rs:     *)
(* while it establishes the session it waits for each answer, and it is    *)
(* seated once; pings and Stop belong to an established session.           *)
Asking(p) == p \notin seated /\ egress[p] = <<>>

ControlFrame(p) ==
    \/ \E s \in Sessions, id \in SteamIds, profile \in Profiles, probe \in ProbeCaps :
          Asking(p) /\ on_join_begin(p, s, id, profile, probe)
    \/ \E valid \in BOOLEAN : Asking(p) /\ on_join_proof(p, valid)
    \/ \E c, key \in ConnIds : Asking(p) /\ on_resume(p, c, key)
    \/ p \in seated /\ on_udp_path_request(p)
    \/ p \in seated /\ on_ping(p)
    \/ p \in seated /\ on_stop(p)

DataFrame(p) ==
    \/ \E c \in ConnIds, f \in FrameIds, from, to \in SteamIds, size \in Sizes :
          on_data(p, c, f, from, to, size)
    \/ \E c \in ConnIds, from, to \in SteamIds, size \in Sizes :
          on_probe(p, c, from, to, size)

Datagram ==
    \/ \E c, key \in ConnIds, addr \in Addrs : on_udp_hello(c, key, addr)
    \/ \E c \in ConnIds, f \in FrameIds, from, to \in SteamIds, addr \in Addrs,
          size \in Sizes : on_udp_data(addr, c, f, from, to, size)
    \/ \E c \in ConnIds, from, to \in SteamIds, addr \in Addrs, size \in Sizes :
          on_udp_probe(addr, c, from, to, size)

(* The steps the relay takes by itself once it has started something.      *)
TaskStep ==
    \/ \E p \in ControlPeers : Unlink(p)
    \/ \E p \in ControlPeers : Detach(p)
    \/ \E p \in ControlPeers : Stop(p)
    \/ \E t \in Tasks : Send(t)
    \/ \E p \in ControlPeers : Flush(p)

ServerNext ==
    \/ \E p \in ControlPeers : Accept(p)
    \/ \E p \in ControlPeers : ControlFrame(p)
    \/ \E p \in ControlPeers : DataFrame(p)
    \/ Datagram
    \/ \E p \in ControlPeers : Hangup(p)
    \/ TaskStep
    \/ Sweep
    \/ ServerTick

ServerSpec == ServerInit /\ [][ServerNext]_serverVars

--------------------------------------------------------------------------------

(* No zombie seats: whoever is Connected in a room is owned by a control   *)
(* connection whose task has yet to run its teardown and will find the     *)
(* seat through the index.  Nothing else ever times a Connected peer out.  *)
ConnectedSeatIsOwned ==
    \A s \in Sessions : \A c \in Members(s) :
        peers[s][c].presence = "Connected" =>
            /\ task[peers[s][c].control] \notin {"new", "done"}
            /\ controlConnections[peers[s][c].control] = c

(* A superseded connection does no harm: a seat is Reconnecting only when  *)
(* the connection that owns it is gone, however late older connections of  *)
(* the same player close.                                                  *)
ReconnectingMeansGone ==
    \A s \in Sessions : \A c \in Members(s) :
        peers[s][c].presence = "Reconnecting" => task[peers[s][c].control] = "done"

(* Together: the presence of a seat always tells what became of the task   *)
(* that owns it, in whatever order the tasks of old and new connections    *)
(* run their teardowns, resumes and joins.                                 *)
SeatFollowsItsTask == ConnectedSeatIsOwned /\ ReconnectingMeansGone

(* Nothing is under way: no task has anything to say, no queue holds       *)
(* anything, no connection is being torn down.                             *)
Quiet ==
    /\ \A t \in Tasks : sends[t] = <<>>
    /\ \A p \in ControlPeers :
          /\ task[p] \in {"new", "serving", "done"}
          /\ egress[p] # None => egress[p] = <<>>

(* "broadcasts Reconnecting/Connected presence transitions": once nothing  *)
(* is under way, every connected member has been told the room as it is.   *)
EveryoneToldTheRoom ==
    Quiet => \A s \in Sessions : \A c \in Members(s) :
                peers[s][c].presence = "Connected" => view[peers[s][c].control] = RoomView(s)

================================================================================

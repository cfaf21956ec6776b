-------------------------------- MODULE LanData --------------------------------
(***************************************************************************)
(* Gameplay over the direct paths of one client (client/lan/path/data.rs,  *)
(* data_plane.rs, data_plane/incidents.rs, lifecycle.rs, control.rs and    *)
(* session/lan_route.rs).  Each control link makes a generation of the     *)
(* path of its peer: a gate, an outbound queue with a worker of its own    *)
(* and an inbound queue.  The tasks of a gameplay session hand packets to  *)
(* the queues and take them out in turn; the LAN runtime's threads         *)
(* connect, replace and remove generations meanwhile.  A ledger counts     *)
(* every packet and keeps an incident for each place where packets are     *)
(* being dropped.                                                          *)
(*                                                                         *)
(* A generation is its lifecycle epoch.  A queue is its length.  Of the    *)
(* totals of the ledger only what is owed is kept: packets recorded as     *)
(* queued less packets recorded as sent, accepted or dropped after that.   *)
(* An incident is a peer, an epoch, a LanDataStage and a reason, where one *)
(* reason stands for all that its stage records at the same place: only    *)
(* PeerUnavailable of the outbound queue and SessionClosed of the inbound  *)
(* queue are told from QueueFull.  Whether a path is nominated is          *)
(* LanPath's matter and changes at any time here.  Packets of one          *)
(* direction meet packets of the other only at the gate, so a behaviour    *)
(* has one direction.                                                      *)
(***************************************************************************)
EXTENDS Integers, Sequences, SequencesExt, FiniteSets

CONSTANTS
    Peers,
    MaxEpoch,         \* generations made in one run
    QueueCapacity     \* PER_PEER_PACKET_QUEUE_CAPACITY

ASSUME DataAssumption ==
    /\ MaxEpoch \in Nat \ {0} /\ QueueCapacity \in Nat \ {0}
    /\ Peers \cap (0..MaxEpoch) = {} /\ IsFiniteSet(Peers)

VARIABLES
    way,          \* direction of the packets of this behaviour: "send", "receive"
    room,         \* "up", "cancelled", "stopped"
    current,      \* PathState.peers: epoch of the path of a peer, 0 when absent
    owner,        \* peer of an epoch, 0 before it is used
    gate,         \* PeerGenerationGate.active
    usable,       \* the path is nominated
    order,        \* PathState.peer_order
    cursor,       \* LanInboundReceiver.cursor, from 0
    calls,        \* what peer_connected and peer_disconnected do after the mutex
    out,          \* packets in the outbound channel of an epoch
    worker,       \* run_outbound_worker of an epoch
    inbound,      \* PeerPathDataPlane.inbound of an epoch
    sender,       \* direct_hook_in_task inside try_send_game
    reader,       \* run_udp_receiver inside handle_data
    taker,        \* epoch of the packet direct_hook_out_task holds, 0 when none
    verdict,      \* what becomes of that packet: "open", "accepted", "dropped",
                  \* "closed" (dropped, its epoch still to be closed), "recorded"
    gameplay,     \* "none", "attached", "ended" (tasks gone), "detached", "cleared"
    cleared,      \* packets clear_inbound has taken out and not yet recorded
    owed,         \* ledger: queued and not yet resolved, by epoch
    incidents,    \* ledger: <<peer, epoch, stage, reason>>
    passed        \* history: packets of others taken while the peer waited and
                  \* peer_order stayed the same

dataVars == <<way, room, current, owner, gate, usable, order, cursor, calls, out, worker,
              inbound, sender, reader, taker, verdict, gameplay, cleared, owed, incidents,
              passed>>

Epochs == 1..MaxEpoch

Resting == [at |-> "idle", peer |-> 0, epoch |-> 0]

Unread == [at |-> "idle", peer |-> 0, wanted |-> FALSE]

DataInit ==
    /\ way \in {"send", "receive"}
    /\ room = "up"
    /\ current = [p \in Peers |-> 0]
    /\ owner = [g \in Epochs |-> 0]
    /\ gate = [g \in Epochs |-> FALSE]
    /\ usable = [p \in Peers |-> FALSE]
    /\ order = <<>>
    /\ cursor = 0
    /\ calls = {}
    /\ out = [g \in Epochs |-> 0]
    /\ worker = [g \in Epochs |-> "none"]
    /\ inbound = [g \in Epochs |-> 0]
    /\ sender = Resting
    /\ reader = Unread
    /\ taker = 0
    /\ verdict = "open"
    /\ gameplay = "none"
    /\ cleared = [g \in Epochs |-> 0]
    /\ owed = [g \in Epochs |-> [send |-> 0, receive |-> 0]]
    /\ incidents = {}
    /\ passed = [p \in Peers |-> 0]

--------------------------------------------------------------------------------
(* The ledger (data_plane.rs, data_plane/incidents.rs). *)

Incident(g, stage, reason) == <<owner[g], g, stage, reason>>

(* record of a drop opens an incident, record of a success ends those of   *)
(* its stage.                                                              *)
Started(g, stage, reason) == incidents \cup {Incident(g, stage, reason)}

Recovered(g, stage) == {i \in incidents : <<i[1], i[2], i[3]>> # <<owner[g], g, stage>>}

(* close_epoch *)
Closed(g) == {i \in incidents : i[2] # g}

(* activate *)
PeerClosed(p) == {i \in incidents : i[1] # p}

Owe(g, side, n) == [owed EXCEPT ![g][side] = @ + n]

--------------------------------------------------------------------------------
(* Generations (path/lifecycle.rs). *)

(* The count of passed starts again: for p, and for all when the order changes. *)
Afresh(p) == IF order' = order THEN [passed EXCEPT ![p] = 0] ELSE [q \in Peers |-> 0]

(* Sending to one peer never looks at another: one is enough for it. *)
Used == IF way = "send" THEN {CHOOSE p \in Peers : TRUE} ELSE Peers

(* peer_connected under the mutex: a new generation replaces the old. *)
Connected(p) ==
    /\ room = "up" /\ p \in Used
    /\ \E g \in Epochs :
          /\ owner[g] = 0 /\ \A h \in 1..(g - 1) : owner[h] # 0
          /\ owner' = [owner EXCEPT ![g] = p]
          /\ gate' = [gate EXCEPT ![g] = TRUE]
          /\ current' = [current EXCEPT ![p] = g]
          /\ calls' = calls \cup {[closes |-> current[p], spawns |-> g]}
    /\ usable' = [usable EXCEPT ![p] = FALSE]
    /\ order' = IF Contains(order, p) THEN order ELSE Append(order, p)
    /\ incidents' = PeerClosed(p)
    /\ passed' = Afresh(p)
    /\ UNCHANGED <<way, room, cursor, out, worker, inbound, sender, reader, taker, verdict,
                   gameplay, cleared, owed>>

(* peer_disconnected under the mutex; a peer is in peer_order once. *)
Disconnected(p) ==
    /\ current[p] # 0
    /\ calls' = calls \cup {[closes |-> current[p], spawns |-> 0]}
    /\ current' = [current EXCEPT ![p] = 0]
    /\ usable' = [usable EXCEPT ![p] = FALSE]
    /\ order' = RemoveFirst(order, p)
    /\ passed' = Afresh(p)
    /\ UNCHANGED <<way, room, owner, gate, cursor, out, worker, inbound, sender, reader, taker,
                   verdict, gameplay, cleared, owed, incidents>>

(* try_send_game holds the gate from the queue to the ledger. *)
GateHeld(g) == sender.at = "queued" /\ sender.epoch = g

(* Mutant: the packets of a closed generation are not counted. *)
ForgetPeerData(g) ==
    /\ gate' = [gate EXCEPT ![g] = FALSE]
    /\ inbound' = [inbound EXCEPT ![g] = 0]
    /\ incidents' = Closed(g)
    /\ UNCHANGED owed

(* close_peer_data; the incident of its batch is open only between its two *)
(* calls of the ledger, which are one step here.                           *)
close_peer_data(g) ==
    /\ gate' = [gate EXCEPT ![g] = FALSE]
    /\ owed' = Owe(g, "receive", -inbound[g])
    /\ inbound' = [inbound EXCEPT ![g] = 0]
    /\ incidents' = Closed(g)

(* The rest of the call: close the old generation, spawn the new worker. *)
Finish(c) ==
    /\ c \in calls
    /\ calls' = calls \ {c}
    /\ IF c.closes = 0
         THEN UNCHANGED <<gate, owed, inbound, incidents>>
         ELSE ~GateHeld(c.closes) /\ close_peer_data(c.closes)
    /\ worker' = IF c.spawns = 0 THEN worker ELSE [worker EXCEPT ![c.spawns] = "idle"]
    /\ UNCHANGED <<way, room, current, owner, usable, order, cursor, out, sender, reader, taker,
                   verdict, gameplay, cleared, passed>>

(* LanPath nominates the path or gives it up. *)
PathChanges(p) ==
    /\ current[p] # 0
    /\ usable' = [usable EXCEPT ![p] = ~@]
    /\ UNCHANGED <<way, room, current, owner, gate, order, cursor, calls, out, worker, inbound,
                   sender, reader, taker, verdict, gameplay, cleared, owed, incidents, passed>>

--------------------------------------------------------------------------------
(* Sending (path/data.rs). *)

(* latest_data_keys: the last epoch of a peer, or none. *)
LatestKey(p) ==
    LET keys == {g \in Epochs : owner[g] = p}
    IN  IF keys = {} THEN 0 ELSE CHOOSE g \in keys : \A h \in keys : h <= g

(* try_send_game: look the path up under the mutex ... *)
SendSelect(p) ==
    /\ way = "send" /\ p \in Used /\ gameplay = "attached" /\ sender = Resting
    /\ sender' = [at |-> IF current[p] = 0 THEN "missing" ELSE "selected",
                  peer |-> p, epoch |-> current[p]]
    /\ UNCHANGED <<way, room, current, owner, gate, usable, order, cursor, calls, out, worker,
                   inbound, reader, taker, verdict, gameplay, cleared, owed, incidents, passed>>

(* ... without one, take the mutex again for the last key of the peer ... *)
SendKey ==
    /\ sender.at = "missing"
    /\ sender' = [sender EXCEPT !.at = "unavailable", !.epoch = LatestKey(sender.peer)]
    /\ UNCHANGED <<way, room, current, owner, gate, usable, order, cursor, calls, out, worker,
                   inbound, reader, taker, verdict, gameplay, cleared, owed, incidents, passed>>

(* ... and record the drop under it, with no lock held in between. *)
SendUnavailable ==
    /\ sender.at = "unavailable"
    /\ incidents' = incidents \cup
                       {<<sender.peer, sender.epoch, "OutboundQueue", "PeerUnavailable">>}
    /\ sender' = Resting
    /\ UNCHANGED <<way, room, current, owner, gate, usable, order, cursor, calls, out, worker,
                   inbound, reader, taker, verdict, gameplay, cleared, owed, passed>>

(* With one, queue the packet if the generation is open and there is room ... *)
SendQueue ==
    LET g == sender.epoch
        fits == gate[g] /\ worker[g] # "done" /\ out[g] < QueueCapacity
    IN  /\ sender.at = "selected"
        /\ IF fits
             THEN /\ out' = [out EXCEPT ![g] = @ + 1]
                  /\ sender' = [sender EXCEPT !.at = "queued"]
                  /\ UNCHANGED incidents
             ELSE /\ incidents' = Started(g, "OutboundQueue", "QueueFull")
                  /\ sender' = Resting
                  /\ UNCHANGED out
        /\ UNCHANGED <<way, room, current, owner, gate, usable, order, cursor, calls, worker,
                       inbound, reader, taker, verdict, gameplay, cleared, owed, passed>>

(* ... and record it, when the worker may already have sent it. *)
SendRecord ==
    /\ sender.at = "queued"
    /\ owed' = Owe(sender.epoch, "send", 1)
    /\ incidents' = Recovered(sender.epoch, "OutboundQueue")
    /\ sender' = Resting
    /\ UNCHANGED <<way, room, current, owner, gate, usable, order, cursor, calls, out, worker,
                   inbound, reader, taker, verdict, gameplay, cleared, passed>>

(* run_outbound_worker: cancellation goes first. *)
WorkerTake(g) ==
    /\ room = "up" /\ worker[g] = "idle" /\ out[g] > 0
    /\ out' = [out EXCEPT ![g] = @ - 1]
    /\ worker' = [worker EXCEPT ![g] = "holding"]
    /\ UNCHANGED <<way, room, current, owner, gate, usable, order, cursor, calls, inbound, sender,
                   reader, taker, verdict, gameplay, cleared, owed, incidents, passed>>

(* prepare_outbound: the generation must be the current one, its path nominated. *)
WorkerPrepare(g) ==
    /\ worker[g] = "holding"
    /\ IF current[owner[g]] = g /\ usable[owner[g]]
         THEN /\ worker' = [worker EXCEPT ![g] = "prepared"]
              /\ UNCHANGED <<owed, incidents>>
         ELSE /\ worker' = [worker EXCEPT ![g] = "idle"]
              /\ owed' = Owe(g, "send", -1)
              /\ incidents' = Started(g, "UdpSend", "SendFailed")
    /\ UNCHANGED <<way, room, current, owner, gate, usable, order, cursor, calls, out, inbound,
                   sender, reader, taker, verdict, gameplay, cleared, passed>>

(* send_outbound: send_to succeeds or fails. *)
WorkerSend(g) ==
    /\ worker[g] = "prepared"
    /\ worker' = [worker EXCEPT ![g] = "idle"]
    /\ owed' = Owe(g, "send", -1)
    /\ incidents' \in {Started(g, "UdpSend", "SendFailed"), Recovered(g, "UdpSend")}
    /\ UNCHANGED <<way, room, current, owner, gate, usable, order, cursor, calls, out, inbound,
                   sender, reader, taker, verdict, gameplay, cleared, passed>>

(* A send that found the path holds a clone of its channel's sender. *)
HoldsSender(g) == sender.at \in {"selected", "queued"} /\ sender.epoch = g

(* The channel of a closed generation ends when it is empty and nobody     *)
(* holds a sender.                                                         *)
ChannelEnded(g) == owner[g] # 0 /\ ~gate[g] /\ out[g] = 0 /\ ~HoldsSender(g)

(* Mutant: a worker that was told to end does not close its epoch. *)
DrainKeepsEpoch(g) ==
    /\ worker[g] = "idle"
    /\ room # "up" \/ ChannelEnded(g)
    /\ worker' = [worker EXCEPT ![g] = "drained"]
    /\ owed' = Owe(g, "send", -out[g])
    /\ out' = [out EXCEPT ![g] = 0]
    /\ UNCHANGED <<way, room, current, owner, gate, usable, order, cursor, calls, inbound, sender,
                   reader, taker, verdict, gameplay, cleared, incidents, passed>>

(* drain_outbound, and later the receiver is dropped. *)
WorkerDrain(g) ==
    /\ worker[g] = "idle"
    /\ room # "up" \/ ChannelEnded(g)
    /\ worker' = [worker EXCEPT ![g] = "drained"]
    /\ owed' = Owe(g, "send", -out[g])
    /\ out' = [out EXCEPT ![g] = 0]
    /\ incidents' = Closed(g)
    /\ UNCHANGED <<way, room, current, owner, gate, usable, order, cursor, calls, inbound, sender,
                   reader, taker, verdict, gameplay, cleared, passed>>

WorkerReturn(g) ==
    /\ worker[g] = "drained"
    /\ worker' = [worker EXCEPT ![g] = "done"]
    /\ UNCHANGED <<way, room, current, owner, gate, usable, order, cursor, calls, out, inbound,
                   sender, reader, taker, verdict, gameplay, cleared, owed, incidents, passed>>

--------------------------------------------------------------------------------
(* Receiving (path/data.rs, session/lan_route.rs). *)

(* handle_data: whether gameplay is attached is read first ... *)
DataRead(p) ==
    /\ way = "receive" /\ room = "up" /\ reader = Unread /\ usable[p]
    /\ reader' = [at |-> "read", peer |-> p, wanted |-> gameplay \in {"attached", "ended"}]
    /\ UNCHANGED <<way, room, current, owner, gate, usable, order, cursor, calls, out, worker,
                   inbound, sender, taker, verdict, gameplay, cleared, owed, incidents, passed>>

(* ... and the frame is queued, or dropped, under the mutex. *)
DataQueue ==
    LET g == current[reader.peer]
        fits == reader.wanted /\ inbound[g] < QueueCapacity
    IN  /\ reader.at = "read"
        /\ reader' = Unread
        /\ IF g = 0 \/ ~usable[reader.peer]
             THEN UNCHANGED <<inbound, owed, incidents>>
             ELSE IF fits
                    THEN /\ inbound' = [inbound EXCEPT ![g] = @ + 1]
                         /\ owed' = Owe(g, "receive", 1)
                         /\ incidents' = Recovered(g, "InboundQueue")
                    ELSE /\ incidents' = Started(g, "InboundQueue",
                                    IF reader.wanted THEN "QueueFull" ELSE "SessionClosed")
                         /\ UNCHANGED <<inbound, owed>>
        /\ UNCHANGED <<way, room, current, owner, gate, usable, order, cursor, calls, out, worker,
                       sender, taker, verdict, gameplay, cleared, passed>>

Waiting(p) == current[p] # 0 /\ inbound[current[p]] > 0

(* Mutant: the search starts at the first peer every time. *)
FirstServed(i) ==
    /\ cursor' = 0
    /\ \A j \in 0..(i - 1) : ~Waiting(order[j + 1])

(* The peer at index i is the first one from the cursor with a packet. *)
InTurn(i) ==
    LET n == Len(order)
        Steps(j) == (j + n - (cursor % n)) % n
    IN  /\ cursor' = (i + 1) % n
        /\ \A j \in 0..(n - 1) : Waiting(order[j + 1]) => Steps(i) <= Steps(j)

(* pop_next_inbound for direct_hook_out_task. *)
Take ==
    /\ gameplay = "attached" /\ room = "up" /\ taker = 0
    /\ \E i \in 0..(Len(order) - 1) :
          LET g == current[order[i + 1]]
          IN  /\ Waiting(order[i + 1])
              /\ InTurn(i)
              /\ taker' = g
              /\ inbound' = [inbound EXCEPT ![g] = @ - 1]
              /\ passed' = [q \in Peers |-> IF q = order[i + 1] \/ ~Waiting(q) THEN 0
                                            ELSE passed[q] + 1]
    /\ UNCHANGED <<way, room, current, owner, gate, usable, order, calls, out, worker, sender,
                   reader, verdict, gameplay, cleared, owed, incidents>>

(* The hook's queue takes the packet, under the gate ... *)
HookAccepts ==
    /\ taker # 0 /\ verdict = "open" /\ gate[taker] /\ ~GateHeld(taker)
    /\ verdict' = "accepted"
    /\ UNCHANGED <<way, room, current, owner, gate, usable, order, cursor, calls, out, worker,
                   inbound, sender, reader, taker, gameplay, cleared, owed, incidents, passed>>

(* ... or is gone: the task fails and the session ends ... *)
HookDisconnected ==
    /\ taker # 0 /\ verdict = "open" /\ gate[taker] /\ ~GateHeld(taker) /\ sender = Resting
    /\ verdict' = "dropped"
    /\ gameplay' = "ended"
    /\ UNCHANGED <<way, room, current, owner, gate, usable, order, cursor, calls, out, worker,
                   inbound, sender, reader, taker, cleared, owed, incidents, passed>>

(* ... or the generation was closed meanwhile. *)
GenerationClosed ==
    /\ taker # 0 /\ verdict = "open" /\ ~gate[taker]
    /\ verdict' = "closed"
    /\ UNCHANGED <<way, room, current, owner, gate, usable, order, cursor, calls, out, worker,
                   inbound, sender, reader, taker, gameplay, cleared, owed, incidents, passed>>

(* The ledger is told when the gate is open to others again.               *)
(* complete_accepted:                                                      *)
CompleteAccepted ==
    /\ verdict = "accepted"
    /\ owed' = Owe(taker, "receive", -1)
    /\ incidents' = Recovered(taker, "HookQueue")
    /\ taker' = 0 /\ verdict' = "open"
    /\ UNCHANGED <<way, room, current, owner, gate, usable, order, cursor, calls, out, worker,
                   inbound, sender, reader, gameplay, cleared, passed>>

(* complete_dropped and Drop of LanInboundReceipt. *)
RecordDropped ==
    /\ verdict \in {"dropped", "closed"}
    /\ owed' = Owe(taker, "receive", -1)
    /\ incidents' = Started(taker, "HookQueue", "SessionClosed")
    /\ IF verdict = "closed"
         THEN verdict' = "recorded" /\ UNCHANGED taker
         ELSE verdict' = "open" /\ taker' = 0
    /\ UNCHANGED <<way, room, current, owner, gate, usable, order, cursor, calls, out, worker,
                   inbound, sender, reader, gameplay, cleared, passed>>

(* The second half of complete_dropped, for a closed generation or session. *)
CloseEpoch ==
    /\ verdict = "recorded"
    /\ incidents' = Closed(taker)
    /\ taker' = 0 /\ verdict' = "open"
    /\ UNCHANGED <<way, room, current, owner, gate, usable, order, cursor, calls, out, worker,
                   inbound, sender, reader, gameplay, cleared, owed, passed>>

--------------------------------------------------------------------------------
(* Gameplay sessions and the end of the room (lan/control.rs). *)

(* take_data_plane: a new LanInboundReceiver starts at cursor 0. *)
Attach ==
    /\ gameplay = "none" /\ room = "up"
    /\ gameplay' = "attached"
    /\ cursor' = 0
    /\ passed' = [p \in Peers |-> 0]
    /\ UNCHANGED <<way, room, current, owner, gate, usable, order, calls, out, worker, inbound,
                   sender, reader, taker, verdict, cleared, owed, incidents>>

(* The tasks are cancelled; a packet that waits for the hook's queue is    *)
(* dropped by complete_dropped, or with the task when that was aborted.    *)
EndGameplay ==
    /\ gameplay = "attached" /\ sender = Resting /\ verdict = "open"
    /\ gameplay' = "ended"
    /\ IF taker = 0 THEN UNCHANGED verdict ELSE verdict' \in {"closed", "dropped"}
    /\ UNCHANGED <<way, room, current, owner, gate, usable, order, cursor, calls, out, worker,
                   inbound, sender, reader, taker, cleared, owed, incidents, passed>>

(* Drop of LanDataPlaneAttachment: the observer goes ... *)
Detach ==
    /\ gameplay = "ended" /\ taker = 0
    /\ gameplay' = "detached"
    /\ UNCHANGED <<way, room, current, owner, gate, usable, order, cursor, calls, out, worker,
                   inbound, sender, reader, taker, verdict, cleared, owed, incidents, passed>>

(* ... clear_inbound empties the queues of the current paths ... *)
ClearInbound ==
    LET mine == {g \in Epochs : owner[g] # 0 /\ current[owner[g]] = g}
    IN  /\ gameplay = "detached"
        /\ gameplay' = "cleared"
        /\ inbound' = [g \in Epochs |-> IF g \in mine THEN 0 ELSE inbound[g]]
        /\ cleared' = [g \in Epochs |-> IF g \in mine THEN inbound[g] ELSE 0]
        /\ UNCHANGED <<way, room, current, owner, gate, usable, order, cursor, calls, out, worker,
                       sender, reader, taker, verdict, owed, incidents, passed>>

(* ... and records them one key at a time after the mutex. *)
RecordCleared ==
    /\ gameplay = "cleared"
    /\ IF \A g \in Epochs : cleared[g] = 0
         THEN gameplay' = "none" /\ UNCHANGED <<cleared, owed, incidents>>
         ELSE \E g \in Epochs :
                 /\ cleared[g] > 0
                 /\ owed' = Owe(g, "receive", -cleared[g])
                 /\ incidents' = Started(g, "InboundQueue", "SessionClosed")
                 /\ cleared' = [cleared EXCEPT ![g] = 0]
                 /\ UNCHANGED gameplay
    /\ UNCHANGED <<way, room, current, owner, gate, usable, order, cursor, calls, out, worker,
                   inbound, sender, reader, taker, verdict, passed>>

(* stop: cancel, wait for the workers, end every incident.  Receiving only *)
(* ceases, so a receiving behaviour leaves it out.                         *)
Cancel ==
    /\ room = "up" /\ way = "send"
    /\ room' = "cancelled"
    /\ UNCHANGED <<way, current, owner, gate, usable, order, cursor, calls, out, worker, inbound,
                   sender, reader, taker, verdict, gameplay, cleared, owed, incidents, passed>>

stop_data_workers ==
    /\ room = "cancelled"
    /\ calls = {}
    /\ \A g \in Epochs : worker[g] \in {"none", "done"}
    /\ room' = "stopped"
    /\ incidents' = {}
    /\ UNCHANGED <<way, current, owner, gate, usable, order, cursor, calls, out, worker, inbound,
                   sender, reader, taker, verdict, gameplay, cleared, owed, passed>>

DataNext ==
    \/ \E p \in Peers : \/ Connected(p) \/ Disconnected(p) \/ PathChanges(p)
                        \/ SendSelect(p) \/ DataRead(p)
    \/ \E c \in calls : Finish(c)
    \/ SendKey \/ SendUnavailable \/ SendQueue \/ SendRecord
    \/ \E g \in Epochs : \/ WorkerTake(g) \/ WorkerPrepare(g) \/ WorkerSend(g)
                         \/ WorkerDrain(g) \/ WorkerReturn(g)
    \/ DataQueue \/ Take \/ HookAccepts \/ HookDisconnected \/ GenerationClosed
    \/ CompleteAccepted \/ RecordDropped \/ CloseEpoch
    \/ Attach \/ EndGameplay \/ Detach \/ ClearInbound \/ RecordCleared
    \/ Cancel \/ stop_data_workers

DataSpec == DataInit /\ [][DataNext]_dataVars

--------------------------------------------------------------------------------
InHand(g) == IF worker[g] \in {"holding", "prepared"} THEN 1 ELSE 0

(* The hook's task has a packet of g that the ledger still counts. *)
Held(g) == IF taker = g /\ verdict # "recorded" THEN 1 ELSE 0

(* The ledger is right at every moment: what it counts as queued and not   *)
(* resolved is what waits in the queues or is in the hands of a task,      *)
(* through replaced generations, drained workers, dropped receipts and     *)
(* cleared sessions; a packet is resolved once and only once (record,      *)
(* record_dropped_batch and all their callers).                            *)
ResolvedOnce ==
    \A g \in Epochs :
        /\ owed[g].send + (IF GateHeld(g) THEN 1 ELSE 0) = out[g] + InHand(g)
        /\ owed[g].receive = inbound[g] + cleared[g] + Held(g)

(* What a task records with a key and neither the gate nor a sender of     *)
(* that generation may come after the generation is over.                  *)
Late(i) ==
    \/ i[3] = "OutboundQueue" /\ i[4] = "PeerUnavailable"
    \/ i[3] = "InboundQueue" /\ i[4] = "SessionClosed"
    \/ i[3] = "HookQueue"

(* Once the worker of a replaced generation has returned, no incident of   *)
(* its own queues and sends is open: a full outbound queue, a failed send  *)
(* and a full inbound queue that were reported as started are reported as  *)
(* ended, although the worker goes on dropping packets after close_epoch   *)
(* (peer_connected, close_peer_data, drain_outbound).  Only a Late         *)
(* incident may still be open, until the next generation of its peer.      *)
IncidentsEnd ==
    room = "up" =>
        \A i \in incidents :
            (i[2] # 0 /\ worker[i[2]] = "done") => i[2] = LatestKey(i[1]) \/ Late(i)

(* While packets of a peer wait, every other peer is served at most once,  *)
(* however fast it sends, as long as nobody joins or leaves (the cursor of *)
(* pop_next_inbound, wherever the last change of peer_order left it).      *)
FairShare == \A p \in Peers : Waiting(p) => passed[p] < Cardinality(Peers)
================================================================================

------------------------------ MODULE RelayProofs ------------------------------
(***************************************************************************)
(* Proofs about the tasks of the Relay server and, further down, about the *)
(* client that recovers: who holds a seat follows the task that serves it, *)
(* for every number of peers and every queue; recovery ends on time, for   *)
(* every timeout, every backoff and every number of restarts; and a client *)
(* that is gone leaves no seat behind.                                     *)
(***************************************************************************)
EXTENDS RelayServer, RelayRecovery, RelayStateProofs

TaskStates ==
    {"new", "serving", "detaching", "stopping", "unlinkedDetach", "unlinkedStop", "done"}

Views == [steam : SteamIds, presence : {"Connected", "Reconnecting"}]

Frames ==
    [type : {"Error", "AdmissionChallenge", "JoinReady", "ResumeReady", "ResumeRejected",
             "UdpPathToken", "UdpPathReady", "ControlPong", "PeerPresenceUpdate", "Data",
             "Probe"},
     conn : ConnIds \cup {None}, view : SUBSET Views]

Batches == [to : SUBSET ControlPeers, msg : Frames, own : BOOLEAN]

(* Types of what a tcp_task is doing and has still to say.                 *)
TaskTypes ==
    /\ task \in [ControlPeers -> TaskStates]
    /\ seated \subseteq ControlPeers
    /\ DOMAIN sends = Tasks
    /\ \A p \in ControlPeers : sends[p] \in Seq(Batches)

(* A task that is seated was accepted; the index knows only seated tasks   *)
(* that are still to run their teardown; every seat is owned by a seated   *)
(* task.                                                                   *)
SeatsAreHeld ==
    /\ \A p \in seated : task[p] # "new"
    /\ \A p \in ControlPeers :
          controlConnections[p] # None => p \in seated /\ task[p] # "done"
    /\ \A s \in Sessions : \A c \in Members(s) : peers[s][c].control \in seated

(* Only a serving task still has replies to its own client: the loss of    *)
(* one cannot send a task that is past its teardown through it again.      *)
RepliesAreServed ==
    \A p \in ControlPeers : task[p] # "serving" =>
        \A i \in DOMAIN sends[p] : ~sends[p][i].own

Seating == SeatsAreHeld /\ SeatFollowsItsTask

Speaking == TaskTypes /\ RepliesAreServed

ServerInv == Inv /\ Speaking /\ Seating

--------------------------------------------------------------------------------
(* The tasks call RelayState's methods and touch its tables in no other    *)
(* way.                                                                    *)

(* The empty server is the empty state.                                    *)
LEMMA ServerInitImplements == ServerInit => Init
  BY DEF ServerInit

(* A step of a task is one method of RelayState or none.                   *)
LEMMA ServerStepImplements == [ServerNext]_serverVars => [Next]_vars
<1> SUFFICES ASSUME [ServerNext]_serverVars PROVE [Next]_vars
  OBVIOUS
<1>1. CASE UNCHANGED serverVars
  BY <1>1 DEF serverVars
<1>2. ASSUME NEW p \in ControlPeers, ControlFrame(p) PROVE [Next]_vars
  <2>1. ASSUME NEW s \in Sessions, NEW id \in SteamIds, NEW kind \in Profiles,
               NEW probe \in ProbeCaps, on_join_begin(p, s, id, kind, probe)
        PROVE  [Next]_vars
    BY <2>1 DEF on_join_begin, Next
  <2>2. ASSUME NEW valid \in BOOLEAN, on_join_proof(p, valid) PROVE [Next]_vars
    BY <2>2 DEF on_join_proof, Next
  <2>3. ASSUME NEW c \in ConnIds, NEW key \in ConnIds, on_resume(p, c, key)
        PROVE  [Next]_vars
    BY <2>3 DEF on_resume, Next
  <2>4. CASE on_udp_path_request(p) \/ on_ping(p) \/ on_stop(p)
    BY <2>4 DEF on_udp_path_request, on_ping, on_stop
  <2> QED BY <1>2, <2>1, <2>2, <2>3, <2>4 DEF ControlFrame
<1>3. ASSUME NEW p \in ControlPeers, DataFrame(p) PROVE [Next]_vars
  <2> DEFINE src == [udp |-> FALSE, from |-> p]
  <2>1. src \in Sources
    BY DEF Sources
  <2>2. ASSUME NEW c \in ConnIds, NEW f \in FrameIds, NEW from \in SteamIds,
               NEW to \in SteamIds, NEW size \in Sizes, on_data(p, c, f, from, to, size)
        PROVE  [Next]_vars
    BY <2>1, <2>2 DEF on_data, Next
  <2>3. ASSUME NEW c \in ConnIds, NEW from \in SteamIds, NEW to \in SteamIds,
               NEW size \in Sizes, on_probe(p, c, from, to, size)
        PROVE  [Next]_vars
    BY <2>1, <2>3 DEF on_probe, forward_probe, Next
  <2> QED BY <1>3, <2>2, <2>3 DEF DataFrame
<1>4. CASE Datagram
  <2>1. \A addr \in Addrs : [udp |-> TRUE, from |-> addr] \in Sources
    BY DEF Sources
  <2>2. ASSUME NEW c \in ConnIds, NEW key \in ConnIds, NEW addr \in Addrs,
               on_udp_hello(c, key, addr)
        PROVE  [Next]_vars
    BY <2>2 DEF on_udp_hello, Next
  <2>3. ASSUME NEW c \in ConnIds, NEW f \in FrameIds, NEW from \in SteamIds,
               NEW to \in SteamIds, NEW addr \in Addrs, NEW size \in Sizes,
               on_udp_data(addr, c, f, from, to, size)
        PROVE  [Next]_vars
    BY <2>1, <2>3 DEF on_udp_data, Next
  <2>4. ASSUME NEW c \in ConnIds, NEW from \in SteamIds, NEW to \in SteamIds,
               NEW addr \in Addrs, NEW size \in Sizes,
               on_udp_probe(addr, c, from, to, size)
        PROVE  [Next]_vars
    BY <2>1, <2>4 DEF on_udp_probe, forward_probe, Next
  <2> QED BY <1>4, <2>2, <2>3, <2>4 DEF Datagram
<1>5. CASE TaskStep
  <2>1. ASSUME NEW p \in ControlPeers, Detach(p) PROVE [Next]_vars
    BY <2>1 DEF Detach, Next
  <2>2. ASSUME NEW p \in ControlPeers, Stop(p) PROVE [Next]_vars
    BY <2>2 DEF Stop, Next
  <2> QED BY <1>5, <2>1, <2>2 DEF TaskStep, Unlink, Send, Flush
<1>6. CASE Sweep \/ ServerTick
  BY <1>6 DEF Sweep, ServerTick, Next
<1>7. ASSUME NEW p \in ControlPeers, Accept(p) \/ Hangup(p) PROVE [Next]_vars
  BY <1>7 DEF Accept, Hangup
<1> QED BY <1>1, <1>2, <1>3, <1>4, <1>5, <1>6, <1>7 DEF ServerNext

--------------------------------------------------------------------------------
(* What a task has to say.                                                 *)

(* A broadcast goes to control peers and shows the identity and presence   *)
(* of the members.                                                         *)
LEMMA BroadcastType ==
    ASSUME TypeOK', NEW s \in Sessions, NEW x
    PROVE  /\ RoomView(s)' \in SUBSET Views
           /\ Broadcast(s, x) \in Seq(Batches)
           /\ \A i \in DOMAIN Broadcast(s, x) : ~Broadcast(s, x)[i].own
<1>1. \A c \in Members(s)' : peers'[s][c] \in Peers
  BY DEF TypeOK, Members
<1>2. RoomView(s)' \in SUBSET Views
  BY <1>1 DEF RoomView, Views, Peers
<1>3. Recipients(s, x)' \in SUBSET ControlPeers
  BY <1>1 DEF Recipients, Peers
<1> DEFINE R == Recipients(s, x)'
           V == RoomView(s)'
           b == [to |-> R, msg |-> Message("PeerPresenceUpdate", None, V), own |-> FALSE]
<1>4. Broadcast(s, x) = IF R = {} THEN <<>> ELSE <<b>>
  BY DEF Broadcast, Presence
<1>5. V \in SUBSET Views /\ R \in SUBSET ControlPeers
  BY <1>2, <1>3
<1> HIDE DEF R, V
<1>6. b \in Batches /\ b.own = FALSE
  BY <1>5 DEF Batches, Frames, Message
<1> HIDE DEF b
<1>7. Broadcast(s, x) \in Seq(Batches)
  BY <1>4, <1>6
<1>8. \A i \in DOMAIN Broadcast(s, x) : ~Broadcast(s, x)[i].own
  BY <1>4, <1>6
<1> QED BY <1>2, <1>7, <1>8

(* A reply goes to the task's own client.                                  *)
LEMMA OwnType ==
    ASSUME NEW p \in ControlPeers, NEW msg \in Frames
    PROVE  Own(p, msg) \in Seq(Batches)
<1>1. [to |-> {p}, msg |-> msg, own |-> TRUE] \in Batches
  BY DEF Batches
<1> QED BY <1>1 DEF Own

(* What a frame or a probe leads to is for one TCP member, or nothing.     *)
LEMMA ForwardedType ==
    ASSUME TypeOK, NEW c \in ConnIds, Known(c), NEW to, NEW probe,
           NEW type \in {"Data", "Probe"}
    PROVE  Forwarded(c, to, probe, type) \in Seq(Batches)
<1> DEFINE s == connectionRooms[c]
           reached == {d \in Targets(s, to, probe) : peers[s][d].profile = "Tcp"}
           d1 == CHOOSE d \in reached : TRUE
           b == [to |-> {peers[s][d1].control}, msg |-> Message(type, c, NoView),
                 own |-> FALSE]
<1>1. s \in Sessions
  BY KnownSeat
<1>2. CASE reached = {}
  BY <1>2 DEF Forwarded
<1>3. CASE reached # {}
  <2>0. PICK d \in reached : d = d1
    BY <1>3
  <2>1. d \in ConnIds /\ peers[s][d] # None
    BY DEF Targets, Members
  <2>2. peers[s][d1] \in Peers
    BY <1>1, <2>0, <2>1 DEF TypeOK
  <2>3. peers[s][d1].control \in ControlPeers
    BY <2>2 DEF Peers
  <2>4. Message(type, c, NoView) \in Frames
    BY DEF Message, Frames, NoView
  <2>5. Forwarded(c, to, probe, type) = <<b>>
    BY <1>3 DEF Forwarded, Dispatch
  <2> HIDE DEF d1, reached
  <2>6. b \in Batches
    BY <2>3, <2>4 DEF Batches
  <2> HIDE DEF b
  <2> QED BY <2>5, <2>6
<1> QED BY <1>2, <1>3

(* A task moves on with nothing of its own left to say.                    *)
LEMMA MovesOn ==
    ASSUME Speaking, NEW p \in ControlPeers, NEW how \in TaskStates, Quits(p, how),
           sends' = sends, seated' = seated, task[p] = "serving" => sends[p] = <<>>
    PROVE  Speaking'
<1>1. task' \in [ControlPeers -> TaskStates]
      /\ \A q \in ControlPeers : q # p => task'[q] = task[q]
  BY DEF Speaking, TaskTypes, Quits
<1>2. TaskTypes'
  BY <1>1 DEF Speaking, TaskTypes
<1>3. RepliesAreServed'
  BY <1>1 DEF Speaking, RepliesAreServed
<1> QED BY <1>2, <1>3 DEF Speaking

(* A task has something new to say; replies to its own client only while   *)
(* it serves.                                                              *)
LEMMA SpeaksUp ==
    ASSUME Speaking, NEW t \in Tasks, NEW q, Says(t, q),
           seated' \subseteq ControlPeers,
           task' \in [ControlPeers -> TaskStates],
           \A p \in ControlPeers \ {t} : task'[p] = task[p],
           t \in ControlPeers =>
              /\ q \in Seq(Batches)
              /\ task'[t] # "serving" => \A i \in DOMAIN q : ~q[i].own
    PROVE  Speaking'
<1>1. /\ DOMAIN sends' = Tasks
      /\ sends'[t] = q
      /\ \A p \in ControlPeers : p # t => sends'[p] = sends[p]
  BY DEF Speaking, TaskTypes, Says, Tasks
<1>2. TaskTypes'
  BY <1>1 DEF Speaking, TaskTypes
<1>3. RepliesAreServed'
  BY <1>1 DEF Speaking, RepliesAreServed
<1> QED BY <1>2, <1>3 DEF Speaking

(* The control frames: every answer is a reply, and the task serves on.    *)
LEMMA ControlSpeaks ==
    ASSUME Speaking, TypeOK', NEW p \in ControlPeers, ControlFrame(p)
    PROVE  Speaking'
<1> DEFINE TaskAnswers == {"Error", "AdmissionChallenge", "JoinReady", "ResumeReady",
                     "ResumeRejected", "UdpPathToken", "ControlPong"}
<1>1. \A type \in TaskAnswers, c \in ConnIds \cup {None}, v \in SUBSET Views :
         Message(type, c, v) \in Frames
  BY DEF Message, Frames
<1>2. NoView \in SUBSET Views /\ p \in Tasks
  BY DEF NoView, Tasks
<1>3. task \in [ControlPeers -> TaskStates] /\ seated \subseteq ControlPeers
  BY DEF Speaking, TaskTypes
<1>4. ASSUME task' = task, task[p] = "serving", seated' \in {seated, seated \cup {p}},
             NEW q \in Seq(Batches), Says(p, q)
      PROVE  Speaking'
  BY <1>2, <1>3, <1>4, SpeaksUp
<1>5. ASSUME NEW type \in TaskAnswers, NEW c \in ConnIds \cup {None}
      PROVE  Own(p, Message(type, c, NoView)) \in Seq(Batches)
  BY <1>1, <1>2, OwnType
<1>6. ASSUME NEW type \in TaskAnswers, NEW c \in ConnIds, NEW s \in Sessions
      PROVE  Own(p, Message(type, c, RoomView(s)')) \o Broadcast(s, c) \in Seq(Batches)
  <2>1. RoomView(s)' \in SUBSET Views /\ Broadcast(s, c) \in Seq(Batches)
    BY BroadcastType
  <2>2. Message(type, c, RoomView(s)') \in Frames
    BY <1>1, <2>1
  <2> QED BY <2>1, <2>2, OwnType
<1>7. ASSUME NEW s \in Sessions, NEW id \in SteamIds, NEW kind \in Profiles,
             NEW probe \in ProbeCaps, on_join_begin(p, s, id, kind, probe)
      PROVE  Speaking'
  BY <1>4, <1>5, <1>7 DEF on_join_begin, Listening
<1>8. ASSUME NEW valid \in BOOLEAN, on_join_proof(p, valid) PROVE Speaking'
  <2>1. task' = task /\ task[p] = "serving"
    BY <1>8 DEF on_join_proof, Listening
  <2>2. CASE pending[p] = None
    BY <1>4, <1>5, <1>8, <2>1, <2>2 DEF on_join_proof
  <2>3. CASE pending[p] # None /\ Refused(p, valid)
    BY <1>4, <1>5, <1>8, <2>1, <2>3 DEF on_join_proof
  <2>4. CASE pending[p] # None /\ ~Refused(p, valid)
    <3>1. PICK c \in ConnIds, s \in Sessions :
             Says(p, Own(p, Message("JoinReady", c, RoomView(s)')) \o Broadcast(s, c))
      BY <1>8, <2>4 DEF on_join_proof
    <3>2. seated' = seated \cup {p}
      BY <1>8, <2>4 DEF on_join_proof
    <3> QED BY <1>4, <1>6, <2>1, <3>1, <3>2
  <2> QED BY <2>2, <2>3, <2>4
<1>9. ASSUME NEW c \in ConnIds, NEW key \in ConnIds, on_resume(p, c, key) PROVE Speaking'
  <2>1. task' = task /\ task[p] = "serving"
    BY <1>9 DEF on_resume, Listening
  <2>2. CASE Resumable(c, key)
    <3>1. PICK s \in Sessions :
             Says(p, Own(p, Message("ResumeReady", c, RoomView(s)')) \o Broadcast(s, c))
      BY <1>9, <2>2 DEF on_resume
    <3>2. seated' = seated \cup {p}
      BY <1>9, <2>2 DEF on_resume
    <3> QED BY <1>4, <1>6, <2>1, <3>1, <3>2
  <2>3. CASE ~Resumable(c, key)
    BY <1>4, <1>5, <1>9, <2>1, <2>3 DEF on_resume
  <2> QED BY <2>2, <2>3
<1>10. CASE on_udp_path_request(p)
  <2> DEFINE c == controlConnections[p]
  <2>1. task' = task /\ task[p] = "serving" /\ seated' = seated
    BY <1>10 DEF on_udp_path_request, Listening
  <2>2. CASE c # None /\ Known(c) /\ PeerOf(c).profile = "Udp"
    <3>1. c \in ConnIds
      BY <2>2, <1>10 DEF TypeOK, on_udp_path_request, vars, stateVars
    <3> QED BY <1>4, <1>5, <1>10, <2>1, <2>2, <3>1 DEF on_udp_path_request
  <2>3. CASE ~(c # None /\ Known(c) /\ PeerOf(c).profile = "Udp")
    BY <1>4, <1>5, <1>10, <2>1, <2>3 DEF on_udp_path_request
  <2> QED BY <2>2, <2>3
<1>11. CASE on_ping(p)
  BY <1>4, <1>5, <1>11 DEF on_ping, Listening
<1>12. CASE on_stop(p)
  BY <1>12, MovesOn DEF on_stop, Listening, TaskStates
<1> QED BY <1>7, <1>8, <1>9, <1>10, <1>11, <1>12 DEF ControlFrame

(* Data and probes: what they lead to is no reply.                         *)
LEMMA DataSpeaks ==
    ASSUME Speaking, TypeOK, NEW p \in ControlPeers, DataFrame(p)
    PROVE  Speaking'
<1>1. task \in [ControlPeers -> TaskStates] /\ seated \subseteq ControlPeers /\ p \in Tasks
  BY DEF Speaking, TaskTypes, Tasks
<1>2. ASSUME task' = task, task[p] = "serving", seated' = seated,
             NEW q \in Seq(Batches), Says(p, q)
      PROVE  Speaking'
  BY <1>1, <1>2, SpeaksUp
<1>3. <<>> \in Seq(Batches)
  OBVIOUS
<1>4. ASSUME NEW c \in ConnIds, NEW f \in FrameIds, NEW from \in SteamIds,
             NEW to \in SteamIds, NEW size \in Sizes, on_data(p, c, f, from, to, size)
      PROVE  Speaking'
  <2> DEFINE src == [udp |-> FALSE, from |-> p]
  <2>1. CASE Fatal(c, from, src)
    BY <1>4, <2>1, MovesOn DEF on_data, Listening, TaskStates
  <2>2. CASE ~Fatal(c, from, src)
    <3>1. Forwarded(c, to, FALSE, "Data") \in Seq(Batches)
      BY <2>2, ForwardedType DEF Fatal
    <3> QED BY <1>2, <1>3, <1>4, <2>2, <3>1 DEF on_data, Listening
  <2> QED BY <2>1, <2>2
<1>5. ASSUME NEW c \in ConnIds, NEW from \in SteamIds, NEW to \in SteamIds,
             NEW size \in Sizes, on_probe(p, c, from, to, size)
      PROVE  Speaking'
  <2> DEFINE src == [udp |-> FALSE, from |-> p]
  <2>1. Forwarded(c, to, TRUE, "Probe") \in Seq(Batches)
    BY <1>5, ForwardedType DEF on_probe, forward_probe, Fatal
  <2> QED BY <1>2, <1>3, <1>5, <2>1 DEF on_probe, forward_probe, Listening
<1> QED BY <1>4, <1>5 DEF DataFrame

(* What udp_task and cleanup_task say is not on any tcp_task's account.    *)
LEMMA OthersSpeak ==
    ASSUME Speaking, Datagram \/ Sweep \/ ServerTick
    PROVE  Speaking'
<1>1. /\ task \in [ControlPeers -> TaskStates] /\ seated \subseteq ControlPeers
      /\ Udp \in Tasks /\ Sweeper \in Tasks
      /\ Udp \notin ControlPeers /\ Sweeper \notin ControlPeers
  BY ServerAssumption DEF Speaking, TaskTypes, Tasks
<1>2. ASSUME NEW t \in {Udp, Sweeper}, NEW q, Says(t, q), UNCHANGED <<task, seated>>
      PROVE  Speaking'
  BY <1>1, <1>2, SpeaksUp
<1>3. CASE Datagram
  BY <1>2, <1>3 DEF Datagram, on_udp_hello, on_udp_data, on_udp_probe, forward_probe
<1>4. CASE Sweep
  BY <1>2, <1>4 DEF Sweep
<1>5. CASE ServerTick
  BY <1>5 DEF ServerTick, taskVars, Speaking, TaskTypes, RepliesAreServed
<1> QED BY <1>3, <1>4, <1>5

(* The teardown leaves broadcasts at most, none of them a reply.           *)
LEMMA TeardownSpeaks ==
    ASSUME Speaking, TypeOK', NEW p \in ControlPeers, Detach(p) \/ Stop(p)
    PROVE  Speaking'
<1>1. /\ task \in [ControlPeers -> TaskStates] /\ seated \subseteq ControlPeers
      /\ p \in Tasks /\ "done" \in TaskStates
  BY DEF Speaking, TaskTypes, Tasks, TaskStates
<1>2. Quits(p, "done") /\ seated' = seated /\ task[p] # "serving"
  BY DEF Detach, Stop
<1>3. /\ task' \in [ControlPeers -> TaskStates]
      /\ \A q \in ControlPeers \ {p} : task'[q] = task[q]
  BY <1>1, <1>2 DEF Quits
<1>4. CASE sends' = sends
  BY <1>1, <1>2, <1>4, MovesOn
<1>5. ASSUME NEW q \in Seq(Batches), Says(p, q), \A i \in DOMAIN q : ~q[i].own
      PROVE  Speaking'
  BY <1>1, <1>2, <1>3, <1>5, SpeaksUp
<1>6. CASE Says(p, <<>>)
  <2>1. <<>> \in Seq(Batches) /\ \A i \in DOMAIN <<>> : ~<<>>[i].own
    OBVIOUS
  <2> QED BY <1>5, <1>6, <2>1
<1>7. ASSUME NEW s \in Sessions, NEW c, Says(p, Broadcast(s, c)) PROVE Speaking'
  BY <1>5, <1>7, BroadcastType
<1>8. CASE Detach(p)
  <2>1. \/ sends' = sends
        \/ Says(p, <<>>)
        \/ \E c \in ConnIds, s \in Sessions : Says(p, Broadcast(s, c))
    BY <1>8 DEF Detach
  <2> QED BY <1>4, <1>6, <1>7, <2>1
<1>9. CASE Stop(p)
  <2>1. \/ sends' = sends
        \/ Says(p, <<>>)
        \/ \E s \in Sessions : Says(p, Broadcast(s, None))
    BY <1>9 DEF Stop
  <2> QED BY <1>4, <1>6, <1>7, <2>1
<1> QED BY <1>8, <1>9

(* One frame goes on a queue or is lost: what is left to say shrinks, and  *)
(* a task that loses a reply of its own stops with nothing left to say.    *)
LEMMA SendSpeaks ==
    ASSUME Speaking, NEW t \in Tasks, Send(t)
    PROVE  /\ Speaking'
           /\ seated' = seated
           /\ \/ task' = task
              \/ /\ t \in ControlPeers /\ task[t] = "serving"
                 /\ task' = [task EXCEPT ![t] = "detaching"]
<1>1. /\ task \in [ControlPeers -> TaskStates] /\ seated \subseteq ControlPeers
      /\ "detaching" \in TaskStates
  BY DEF Speaking, TaskTypes, TaskStates
<1>2. sends[t] # <<>> /\ seated' = seated
  BY DEF Send
<1> DEFINE b == Head(sends[t])
           left(to) == IF b.to \ {to} = {} THEN Tail(sends[t])
                       ELSE <<[b EXCEPT !.to = b.to \ {to}]>> \o Tail(sends[t])
<1>3. PICK to \in b.to :
         \/ /\ b.own /\ Says(t, <<>>) /\ Quits(t, "detaching")
         \/ /\ Says(t, left(to)) /\ UNCHANGED task
  BY DEF Send
<1>4. CASE t \notin ControlPeers
  <2>1. task' = task
    BY <1>1, <1>3, <1>4 DEF Quits
  <2>2. PICK q : Says(t, q)
    BY <1>3
  <2>3. Speaking'
    BY <1>1, <1>2, <1>4, <2>1, <2>2, SpeaksUp
  <2> QED BY <1>2, <2>1, <2>3
<1>5. CASE t \in ControlPeers
  <2>1. sends[t] \in Seq(Batches)
    BY <1>5 DEF Speaking, TaskTypes
  <2>2. b \in Batches /\ Tail(sends[t]) \in Seq(Batches) /\ b = sends[t][1]
        /\ 1 \in DOMAIN sends[t] /\ Len(sends[t]) \in Nat \ {0}
    BY <1>2, <2>1
  <2>3. task[t] # "serving" => \A i \in DOMAIN sends[t] : ~sends[t][i].own
    BY <1>5 DEF Speaking, RepliesAreServed
  <2>4. CASE b.own /\ Says(t, <<>>) /\ Quits(t, "detaching")
    <3>1. task[t] = "serving"
      BY <2>2, <2>3, <2>4
    <3>2. task' = [task EXCEPT ![t] = "detaching"]
      BY <2>4 DEF Quits
    <3>3. /\ task' \in [ControlPeers -> TaskStates]
          /\ \A q \in ControlPeers \ {t} : task'[q] = task[q]
      BY <1>1, <3>2
    <3>4. <<>> \in Seq(Batches) /\ \A i \in DOMAIN <<>> : ~<<>>[i].own
      OBVIOUS
    <3>5. Speaking'
      BY <1>1, <1>2, <2>4, <3>3, <3>4, SpeaksUp
    <3> QED BY <1>2, <1>5, <3>1, <3>2, <3>5
  <2>5. CASE Says(t, left(to)) /\ UNCHANGED task
    <3> DEFINE h == [b EXCEPT !.to = b.to \ {to}]
               rest == Tail(sends[t])
    <3>1. h \in Batches /\ h.own = b.own
      BY <2>2 DEF Batches
    <3>2. rest \in Seq(Batches) /\ Len(rest) = Len(sends[t]) - 1
          /\ \A i \in DOMAIN rest : rest[i] = sends[t][i + 1] /\ i + 1 \in DOMAIN sends[t]
      BY <2>1, <2>2
    <3>3. left(to) = rest \/ left(to) = <<h>> \o rest
      OBVIOUS
    <3> HIDE DEF h, rest, b, left
    <3>4. left(to) \in Seq(Batches)
      <4>1. <<h>> \in Seq(Batches)
        BY <3>1
      <4>2. <<h>> \o rest \in Seq(Batches)
        BY <3>2, <4>1
      <4> QED BY <3>2, <3>3, <4>2
    <3>5. task[t] # "serving" => \A i \in DOMAIN left(to) : ~left(to)[i].own
      <4> SUFFICES ASSUME task[t] # "serving", NEW i \in DOMAIN left(to)
                   PROVE  ~left(to)[i].own
        OBVIOUS
      <4>1. CASE left(to) = rest
        BY <2>3, <3>2, <4>1
      <4>2. CASE left(to) = <<h>> \o rest
        <5>1. i \in 1 .. (Len(rest) + 1) /\ Len(rest) \in Nat
          BY <3>1, <3>2, <4>2
        <5>2. CASE i = 1
          <6>1. left(to)[i] = h
            BY <3>1, <3>2, <4>2, <5>2
          <6> QED BY <2>2, <2>3, <3>1, <6>1
        <5>3. CASE i # 1
          <6>1. i - 1 \in DOMAIN rest
            BY <3>2, <5>1, <5>3
          <6>2. left(to)[i] = rest[i - 1]
            BY <3>1, <3>2, <4>2, <5>1, <5>3
          <6> QED BY <2>3, <3>2, <6>1, <6>2
        <5> QED BY <5>2, <5>3
      <4> QED BY <3>3, <4>1, <4>2
    <3>6. Speaking'
      BY <1>1, <1>2, <2>5, <3>4, <3>5, SpeaksUp
    <3> QED BY <1>2, <2>5, <3>6
  <2> HIDE DEF b, left
  <2> QED BY <1>3, <2>4, <2>5
<1> QED BY <1>4, <1>5

--------------------------------------------------------------------------------
(* Who sits where.                                                         *)

(* No seat changes hands or presence and no task ends: nothing to do.      *)
LEMMA SeatsStay ==
    ASSUME Seating, TaskTypes, TaskTypes', seated' = seated,
           controlConnections' = controlConnections,
           \A p \in ControlPeers : /\ task'[p] = "new" => task[p] = "new"
                                   /\ task'[p] = "done" <=> task[p] = "done",
           \A s \in Sessions : \A c \in Members(s)' :
              /\ c \in Members(s)
              /\ peers'[s][c].control = peers[s][c].control
              /\ peers'[s][c].control \in ControlPeers
              /\ peers'[s][c].presence = peers[s][c].presence
    PROVE  Seating'
<1>1. SeatsAreHeld'
  BY DEF Seating, SeatsAreHeld, TaskTypes
<1>2. ConnectedSeatIsOwned'
  BY DEF Seating, SeatFollowsItsTask, ConnectedSeatIsOwned
<1>3. ReconnectingMeansGone'
  BY DEF Seating, SeatFollowsItsTask, ReconnectingMeansGone
<1> QED BY <1>1, <1>2, <1>3 DEF Seating, SeatFollowsItsTask

(* The tables stay as they are and no task ends.                           *)
LEMMA TablesStay ==
    ASSUME Seating, TypeOK, TaskTypes, TaskTypes', seated' = seated,
           UNCHANGED <<peers, controlConnections>>,
           \A p \in ControlPeers : /\ task'[p] = "new" => task[p] = "new"
                                   /\ task'[p] = "done" <=> task[p] = "done"
    PROVE  Seating'
<1>1. \A s \in Sessions : \A c \in Members(s) : peers[s][c] \in Peers
  BY DEF TypeOK, Members
<1>2. \A s \in Sessions : \A c \in Members(s) : peers[s][c].control \in ControlPeers
  BY <1>1 DEF Peers
<1>3. \A s \in Sessions : Members(s)' = Members(s)
  BY DEF Members
<1> QED BY <1>2, <1>3, SeatsStay

(* A member is told about or charged: its seat stays whose it is.          *)
LEMMA SeatStays ==
    ASSUME Seating, TypeOK, TaskTypes, TaskTypes', seated' = seated, task' = task,
           controlConnections' = controlConnections,
           NEW c \in ConnIds, Known(c), NEW q,
           q.control = PeerOf(c).control, q.presence = PeerOf(c).presence,
           peers' = [peers EXCEPT ![connectionRooms[c]][c] = q]
    PROVE  Seating'
<1> DEFINE r == connectionRooms[c]
<1>1. r \in Sessions /\ PeerOf(c) = peers[r][c] /\ c \in Members(r)
  BY KnownSeat
<1>2. \A s \in Sessions : \A d \in ConnIds :
         peers'[s][d] = IF s = r /\ d = c THEN q ELSE peers[s][d]
  BY <1>1 DEF TypeOK
<1>3. \A s \in Sessions : \A d \in Members(s) : peers[s][d] \in Peers
  BY DEF TypeOK, Members
<1>4. ASSUME NEW s \in Sessions, NEW d \in Members(s)'
      PROVE  /\ d \in Members(s)
             /\ peers'[s][d].control = peers[s][d].control
             /\ peers'[s][d].control \in ControlPeers
             /\ peers'[s][d].presence = peers[s][d].presence
  <2>1. d \in Members(s)
    BY <1>1, <1>2 DEF Members
  <2>2. d \in ConnIds /\ peers[s][d].control \in ControlPeers
    BY <1>3, <2>1 DEF Members, Peers
  <2>3. CASE s = r /\ d = c
    BY <1>1, <1>2, <2>1, <2>2, <2>3
  <2>4. CASE ~(s = r /\ d = c)
    BY <1>2, <2>1, <2>2, <2>4
  <2> QED BY <2>3, <2>4
<1> QED BY <1>4, SeatsStay

(* Every seat is a peer, owned by a control peer.                          *)
LEMMA SeatsHaveOwners ==
    ASSUME TypeOK
    PROVE  \A s \in Sessions : \A c \in Members(s) :
              /\ c \in ConnIds
              /\ peers[s][c].control \in ControlPeers
              /\ peers[s][c].presence \in {"Connected", "Reconnecting"}
<1>1. \A s \in Sessions : \A c \in Members(s) : c \in ConnIds /\ peers[s][c] \in Peers
  BY DEF TypeOK, Members
<1> QED BY <1>1 DEF Peers

(* Whoever is Connected keeps its index entry when seats go and the        *)
(* entries of their owners with them: an owner of two seats would be       *)
(* indexed under both, or be gone and not gone.                            *)
LEMMA OwnersOfOthers ==
    ASSUME Seating, Tables, NEW gone \in SUBSET ConnIds,
           NEW s \in Sessions, NEW d \in Members(s), d \notin gone,
           peers[s][d].presence = "Connected"
    PROVE  peers[s][d].control \notin ControlsOf(gone)
<1> SUFFICES ASSUME NEW e \in gone, Known(e), PeerOf(e).control = peers[s][d].control
             PROVE  FALSE
  BY DEF ControlsOf
<1> DEFINE r == connectionRooms[e]
<1>1. r \in Sessions /\ e \in Members(r) /\ PeerOf(e) = peers[r][e] /\ TypeOK
  BY KnownSeat DEF Tables
<1>2. /\ controlConnections[peers[s][d].control] = d
      /\ task[peers[s][d].control] # "done"
  BY DEF Seating, SeatFollowsItsTask, ConnectedSeatIsOwned
<1>3. CASE peers[r][e].presence = "Connected"
  <2>1. controlConnections[peers[r][e].control] = e
    BY <1>1, <1>3 DEF Seating, SeatFollowsItsTask, ConnectedSeatIsOwned
  <2> QED BY <1>1, <1>2, <2>1
<1>4. CASE peers[r][e].presence = "Reconnecting"
  <2>1. task[peers[r][e].control] = "done"
    BY <1>1, <1>4 DEF Seating, SeatFollowsItsTask, ReconnectingMeansGone
  <2> QED BY <1>1, <1>2, <2>1
<1> QED BY <1>1, <1>3, <1>4, SeatsHaveOwners

(* A join that completes seats its own connection; the seat of its twin    *)
(* goes, and no other seat loses its owner.                                *)
LEMMA AdmitSeats ==
    ASSUME ServerInv, NEW p \in ControlPeers, p \notin seated, pending[p] # None,
           NEW c \in ConnIds, connectionRooms[c] = None, now' = now,
           Admit(p, c, Duplicates(pending[p].session, pending[p].steam)),
           task[p] = "serving", task' = task, seated' = seated \cup {p}
    PROVE  Seating'
<1> DEFINE r == pending[p].session
           gone == Duplicates(r, pending[p].steam)
<1>0. Tables /\ TypeOK /\ Seating /\ TaskTypes
  BY DEF ServerInv, Inv, Tables, Speaking
<1>1. /\ r \in Sessions /\ c \notin gone
      /\ \A s \in Sessions : \A d \in ConnIds : ~(s = r /\ d = c) =>
            peers'[s][d] = IF s = r /\ d \in gone THEN None ELSE peers[s][d]
      /\ \A s \in Sessions : Members(s)' =
            IF s = r THEN (Members(s) \ gone) \cup {c} ELSE Members(s)
  BY <1>0, Admission
<1>2. peers'[r][c].control = p /\ peers'[r][c].presence = "Connected"
  BY <1>0, <1>1 DEF Admit, TypeOK
<1>3. \A q \in ControlPeers : controlConnections'[q] =
         IF q = p THEN c ELSE IF q \in ControlsOf(gone) THEN None ELSE controlConnections[q]
  BY DEF Admit
<1>4. gone \in SUBSET ConnIds
  BY DEF Duplicates, Members
<1> HIDE DEF r, gone
<1>5. ASSUME NEW s \in Sessions, NEW d \in Members(s)', ~(s = r /\ d = c)
      PROVE  /\ d \in Members(s) /\ d \in ConnIds
             /\ peers'[s][d] = peers[s][d]
             /\ peers[s][d].control \in ControlPeers /\ peers[s][d].control \in seated
             /\ s = r => d \notin gone
  <2>1. d \in Members(s) /\ (s = r => d \notin gone)
    BY <1>1, <1>5
  <2>2. d \in ConnIds /\ peers[s][d].control \in ControlPeers
    BY <1>0, <2>1, SeatsHaveOwners
  <2>3. peers'[s][d] = peers[s][d]
    BY <1>1, <1>5, <2>1, <2>2
  <2>4. peers[s][d].control \in seated
    BY <1>0, <2>1 DEF Seating, SeatsAreHeld
  <2> QED BY <2>1, <2>2, <2>3, <2>4
<1>6. SeatsAreHeld'
  <2>1. \A q \in seated' : task'[q] # "new"
    BY <1>0 DEF Seating, SeatsAreHeld
  <2>2. \A q \in ControlPeers :
           controlConnections'[q] # None => q \in seated' /\ task'[q] # "done"
    BY <1>0, <1>3 DEF Seating, SeatsAreHeld
  <2>3. \A s \in Sessions : \A d \in Members(s)' : peers'[s][d].control \in seated'
    BY <1>2, <1>5
  <2> QED BY <2>1, <2>2, <2>3 DEF SeatsAreHeld
<1>7. ConnectedSeatIsOwned'
  <2> SUFFICES ASSUME NEW s \in Sessions, NEW d \in Members(s)',
                      peers'[s][d].presence = "Connected"
               PROVE  /\ task[peers'[s][d].control] \notin {"new", "done"}
                      /\ controlConnections'[peers'[s][d].control] = d
    BY DEF ConnectedSeatIsOwned
  <2>1. CASE s = r /\ d = c
    BY <1>2, <1>3, <2>1
  <2>2. CASE ~(s = r /\ d = c)
    <3>1. /\ task[peers[s][d].control] \notin {"new", "done"}
          /\ controlConnections[peers[s][d].control] = d
      BY <1>0, <1>5, <2>2 DEF Seating, SeatFollowsItsTask, ConnectedSeatIsOwned
    <3>2. d \notin gone
      <4>1. CASE s = r
        BY <1>5, <2>2, <4>1
      <4>2. CASE s # r
        <5>1. connectionRooms[d] = s
          BY <1>0, <1>5, <2>2 DEF Tables, IndexAgreement, Members
        <5>2. d \in gone => connectionRooms[d] = r
          <6>1. d \in gone => d \in Members(r)
            BY DEF gone, Duplicates
          <6>2. \A s1 \in Sessions : \A d1 \in Members(s1) : connectionRooms[d1] = s1
            BY <1>0 DEF Tables, IndexAgreement, Members
          <6> QED BY <1>1, <6>1, <6>2
        <5> QED BY <4>2, <5>1, <5>2
      <4> QED BY <4>1, <4>2
    <3>3. peers[s][d].control \notin ControlsOf(gone)
      BY <1>0, <1>4, <1>5, <2>2, <3>2, OwnersOfOthers
    <3> QED BY <1>3, <1>5, <2>2, <3>1, <3>3
  <2> QED BY <2>1, <2>2
<1>8. ReconnectingMeansGone'
  BY <1>0, <1>2, <1>5 DEF Seating, SeatFollowsItsTask, ReconnectingMeansGone
<1> QED BY <1>6, <1>7, <1>8 DEF Seating, SeatFollowsItsTask

(* A resume hands the seat over to the connection it came on.              *)
LEMMA ResumeSeats ==
    ASSUME ServerInv, NEW p \in ControlPeers, p \notin seated,
           NEW c \in ConnIds, NEW key \in ConnIds, resume(p, c, key),
           task[p] = "serving", task' = task, seated' = seated \cup {p}
    PROVE  Seating'
<1> DEFINE r == connectionRooms[c]
           q == Resumed(PeerOf(c), p)
<1>0. Tables /\ TypeOK /\ Seating /\ TaskTypes /\ Known(c)
  BY DEF ServerInv, Inv, Tables, Speaking, resume, Resumable
<1>1. /\ r \in Sessions /\ c \in Members(r)
      /\ PeerOf(c) = peers[r][c] /\ PeerOf(c) \in Peers
  BY <1>0, KnownSeat
<1>2. q.control = p /\ q.presence = "Connected"
  BY <1>1 DEF Resumed, Peers
<1>3. \A s \in Sessions : \A d \in ConnIds :
         peers'[s][d] = IF s = r /\ d = c THEN q ELSE peers[s][d]
  BY <1>0, <1>1 DEF resume, TypeOK
<1>4. \A x \in ControlPeers :
         controlConnections'[x] = IF x = p THEN c ELSE controlConnections[x]
  BY <1>0 DEF resume, TypeOK
<1> HIDE DEF r, q
<1>5. ASSUME NEW s \in Sessions, NEW d \in Members(s)'
      PROVE  /\ d \in Members(s) /\ d \in ConnIds
             /\ peers[s][d].control \in ControlPeers /\ peers[s][d].control \in seated
             /\ peers'[s][d] = IF s = r /\ d = c THEN q ELSE peers[s][d]
  <2>1. d \in Members(s) /\ d \in ConnIds
    BY <1>1, <1>3 DEF Members
  <2> QED BY <1>0, <1>3, <2>1, SeatsHaveOwners DEF Seating, SeatsAreHeld
<1>6. SeatsAreHeld'
  <2>1. \A x \in seated' : task'[x] # "new"
    BY <1>0 DEF Seating, SeatsAreHeld
  <2>2. \A x \in ControlPeers :
           controlConnections'[x] # None => x \in seated' /\ task'[x] # "done"
    BY <1>0, <1>4 DEF Seating, SeatsAreHeld
  <2>3. \A s \in Sessions : \A d \in Members(s)' : peers'[s][d].control \in seated'
    BY <1>2, <1>5
  <2> QED BY <2>1, <2>2, <2>3 DEF SeatsAreHeld
<1>7. ConnectedSeatIsOwned'
  <2> SUFFICES ASSUME NEW s \in Sessions, NEW d \in Members(s)',
                      peers'[s][d].presence = "Connected"
               PROVE  /\ task[peers'[s][d].control] \notin {"new", "done"}
                      /\ controlConnections'[peers'[s][d].control] = d
    BY DEF ConnectedSeatIsOwned
  <2>1. CASE s = r /\ d = c
    BY <1>2, <1>3, <1>4, <1>5, <2>1
  <2>2. CASE ~(s = r /\ d = c)
    <3>1. peers'[s][d] = peers[s][d] /\ peers[s][d].control # p
      BY <1>5, <2>2
    <3> QED BY <1>0, <1>4, <1>5, <3>1 DEF Seating, SeatFollowsItsTask, ConnectedSeatIsOwned
  <2> QED BY <2>1, <2>2
<1>8. ReconnectingMeansGone'
  BY <1>0, <1>2, <1>5 DEF Seating, SeatFollowsItsTask, ReconnectingMeansGone
<1> QED BY <1>6, <1>7, <1>8 DEF Seating, SeatFollowsItsTask

(* Seats go, the entries of their owners with them, and the entry of a     *)
(* task that ends: it owned no seat that stays Connected.                  *)
LEMMA RemovalSeats ==
    ASSUME Seating, Tables, TaskTypes, NEW gone \in SUBSET ConnIds, NEW ends,
           controlConnections' = [q \in ControlPeers |->
              IF q \in ends \/ q \in ControlsOf(gone) THEN None ELSE controlConnections[q]],
           \A s \in Sessions : \A c \in ConnIds :
              peers'[s][c] = IF c \in gone THEN None ELSE peers[s][c],
           task' = [q \in ControlPeers |-> IF q \in ends THEN "done" ELSE task[q]],
           seated' = seated,
           \A q \in ends : controlConnections[q] # None => controlConnections[q] \in gone,
           \A q \in ends : task[q] # "new"
    PROVE  Seating'
<1>1. TypeOK
  BY DEF Tables
<1>2. ASSUME NEW s \in Sessions, NEW d \in Members(s)'
      PROVE  /\ d \in Members(s) /\ d \in ConnIds /\ d \notin gone
             /\ peers'[s][d] = peers[s][d]
             /\ peers[s][d].control \in ControlPeers /\ peers[s][d].control \in seated
  <2>1. d \in Members(s) /\ d \in ConnIds /\ d \notin gone
    BY DEF Members
  <2> QED BY <1>1, <2>1, SeatsHaveOwners DEF Seating, SeatsAreHeld
<1>3. SeatsAreHeld'
  <2>1. \A q \in seated' : task'[q] # "new"
    BY DEF Seating, SeatsAreHeld, TaskTypes
  <2>2. \A q \in ControlPeers :
           controlConnections'[q] # None => q \in seated' /\ task'[q] # "done"
    BY DEF Seating, SeatsAreHeld
  <2>3. \A s \in Sessions : \A d \in Members(s)' : peers'[s][d].control \in seated'
    BY <1>2
  <2> QED BY <2>1, <2>2, <2>3 DEF SeatsAreHeld
<1>4. ConnectedSeatIsOwned'
  <2> SUFFICES ASSUME NEW s \in Sessions, NEW d \in Members(s)',
                      peers'[s][d].presence = "Connected"
               PROVE  /\ task'[peers'[s][d].control] \notin {"new", "done"}
                      /\ controlConnections'[peers'[s][d].control] = d
    BY DEF ConnectedSeatIsOwned
  <2> DEFINE q == peers[s][d].control
  <2>1. /\ peers'[s][d].control = q /\ q \in ControlPeers
        /\ task[q] \notin {"new", "done"} /\ controlConnections[q] = d
    BY <1>2 DEF Seating, SeatFollowsItsTask, ConnectedSeatIsOwned
  <2>2. q \notin ControlsOf(gone)
    BY <1>2, OwnersOfOthers
  <2>3. d # None
    BY <1>2, RelayAssumption
  <2>4. q \notin ends
    BY <1>2, <2>1, <2>3
  <2> QED BY <2>1, <2>2, <2>4
<1>5. ReconnectingMeansGone'
  BY <1>2 DEF Seating, SeatFollowsItsTask, ReconnectingMeansGone
<1> QED BY <1>3, <1>4, <1>5 DEF Seating, SeatFollowsItsTask

(* The teardown after a lost connection: the owner's seat starts to wait   *)
(* as its task ends, and a superseded task ends without a seat.            *)
LEMMA DetachSeats ==
    ASSUME ServerInv, NEW p \in ControlPeers, Detach(p)
    PROVE  Seating'
<1> DEFINE c == controlConnections[p]
<1>0. Tables /\ TypeOK /\ Seating /\ TaskTypes
  BY DEF ServerInv, Inv, Tables, Speaking
<1>1. /\ task[p] = "unlinkedDetach" /\ seated' = seated
      /\ \A q \in ControlPeers : task'[q] = IF q = p THEN "done" ELSE task[q]
      /\ task' \in [ControlPeers -> TaskStates]
  BY <1>0 DEF Detach, Quits, TaskTypes, TaskStates
<1>2. CASE ~(c # None /\ Known(c) /\ PeerOf(c).control = p /\ PeerOf(c).presence = "Connected")
  <2>1. /\ peers' = peers
        /\ \A q \in ControlPeers :
              controlConnections'[q] = IF q = p THEN None ELSE controlConnections[q]
    BY <1>0, <1>2 DEF Detach, detach, vars, stateVars, TypeOK
  <2>2. \A s \in Sessions : Members(s)' = Members(s)
    BY <2>1 DEF Members
  <2>3. \A s \in Sessions : \A d \in Members(s) :
           peers[s][d].presence = "Connected" => peers[s][d].control # p
    <3> SUFFICES ASSUME NEW s \in Sessions, NEW d \in Members(s),
                        peers[s][d].presence = "Connected", peers[s][d].control = p
                 PROVE  FALSE
      OBVIOUS
    <3>1. c = d /\ d \in ConnIds /\ d # None
      BY RelayAssumption, <1>0
         DEF Seating, SeatFollowsItsTask, ConnectedSeatIsOwned, Members
    <3>2. connectionRooms[d] = s /\ s \in rooms /\ s # None
      BY <1>0, RelayAssumption DEF Tables, IndexAgreement, Members
    <3>3. Known(d) /\ PeerOf(d) = peers[s][d]
      BY <3>2 DEF Known, PeerOf, Members
    <3> QED BY <1>2, <3>1, <3>3
  <2>4. \A s \in Sessions : \A d \in Members(s) : peers[s][d].control \in ControlPeers
    BY <1>0, SeatsHaveOwners
  <2>5. SeatsAreHeld'
    BY <1>0, <1>1, <2>1, <2>2 DEF Seating, SeatsAreHeld, TaskTypes
  <2>6. ConnectedSeatIsOwned'
    BY <1>0, <1>1, <2>1, <2>2, <2>3, <2>4
       DEF Seating, SeatFollowsItsTask, ConnectedSeatIsOwned
  <2>7. ReconnectingMeansGone'
    BY <1>0, <1>1, <2>1, <2>2, <2>4 DEF Seating, SeatFollowsItsTask, ReconnectingMeansGone
  <2> QED BY <2>5, <2>6, <2>7 DEF Seating, SeatFollowsItsTask
<1>3. CASE c # None /\ Known(c) /\ PeerOf(c).control = p /\ PeerOf(c).presence = "Connected"
  <2> DEFINE r == connectionRooms[c]
             q == [PeerOf(c) EXCEPT !.presence = "Reconnecting", !.until = now + Grace]
  <2>1. /\ c \in ConnIds /\ r \in Sessions /\ c \in Members(r)
        /\ PeerOf(c) = peers[r][c] /\ PeerOf(c) \in Peers
    <3>1. c \in ConnIds
      BY <1>0, <1>3 DEF TypeOK
    <3> QED BY <1>0, <1>3, <3>1, KnownSeat
  <2>2. q.control = p /\ q.presence = "Reconnecting"
    BY <1>3, <2>1 DEF Peers
  <2>3. /\ \A s \in Sessions : \A d \in ConnIds :
              peers'[s][d] = IF s = r /\ d = c THEN q ELSE peers[s][d]
        /\ \A x \in ControlPeers :
              controlConnections'[x] = IF x = p THEN None ELSE controlConnections[x]
    <3>1. /\ peers' = [peers EXCEPT ![r][c] = q]
          /\ controlConnections' = [controlConnections EXCEPT ![p] = None]
      BY <1>3, <2>1 DEF Detach, detach
    <3> QED BY <1>0, <2>1, <3>1 DEF TypeOK
  <2> HIDE DEF q
  <2>4. ASSUME NEW s \in Sessions, NEW d \in Members(s)'
        PROVE  /\ d \in Members(s) /\ d \in ConnIds
               /\ peers[s][d].control \in ControlPeers /\ peers[s][d].control \in seated
               /\ peers'[s][d] = IF s = r /\ d = c THEN q ELSE peers[s][d]
    <3>1. d \in Members(s) /\ d \in ConnIds
      BY <2>1, <2>3 DEF Members
    <3> QED BY <1>0, <2>3, <3>1, SeatsHaveOwners DEF Seating, SeatsAreHeld
  <2>5. p \in seated
    BY <1>0, <1>3 DEF Seating, SeatsAreHeld
  <2>6. SeatsAreHeld'
    <3>1. \A x \in seated' : task'[x] # "new"
      BY <1>0, <1>1 DEF Seating, SeatsAreHeld, TaskTypes
    <3>2. \A x \in ControlPeers :
             controlConnections'[x] # None => x \in seated' /\ task'[x] # "done"
      BY <1>0, <1>1, <2>3 DEF Seating, SeatsAreHeld
    <3>3. \A s \in Sessions : \A d \in Members(s)' : peers'[s][d].control \in seated'
      BY <1>1, <2>2, <2>4, <2>5
    <3> QED BY <3>1, <3>2, <3>3 DEF SeatsAreHeld
  <2>7. ConnectedSeatIsOwned'
    <3> SUFFICES ASSUME NEW s \in Sessions, NEW d \in Members(s)',
                        peers'[s][d].presence = "Connected"
                 PROVE  /\ task'[peers'[s][d].control] \notin {"new", "done"}
                        /\ controlConnections'[peers'[s][d].control] = d
      BY DEF ConnectedSeatIsOwned
    <3>1. ~(s = r /\ d = c) /\ peers'[s][d] = peers[s][d]
      BY <2>2, <2>4
    <3>2. /\ task[peers[s][d].control] \notin {"new", "done"}
          /\ controlConnections[peers[s][d].control] = d
      BY <1>0, <2>4, <3>1 DEF Seating, SeatFollowsItsTask, ConnectedSeatIsOwned
    <3>3. connectionRooms[d] = s
      BY <1>0, <2>4 DEF Tables, IndexAgreement, Members
    <3>4. peers[s][d].control # p
      BY <3>1, <3>2, <3>3
    <3> QED BY <1>1, <2>3, <2>4, <3>1, <3>2, <3>4
  <2>8. ReconnectingMeansGone'
    <3> SUFFICES ASSUME NEW s \in Sessions, NEW d \in Members(s)',
                        peers'[s][d].presence = "Reconnecting"
                 PROVE  task'[peers'[s][d].control] = "done"
      BY DEF ReconnectingMeansGone
    <3>1. CASE s = r /\ d = c
      BY <1>1, <2>2, <2>4, <3>1
    <3>2. CASE ~(s = r /\ d = c)
      BY <1>0, <1>1, <2>4, <3>2 DEF Seating, SeatFollowsItsTask, ReconnectingMeansGone
    <3> QED BY <3>1, <3>2
  <2> QED BY <2>6, <2>7, <2>8 DEF Seating, SeatFollowsItsTask
<1> QED BY <1>2, <1>3

(* The teardown after a Stop: the task's seat goes, whoever owns it now.   *)
LEMMA StopSeats ==
    ASSUME ServerInv, NEW p \in ControlPeers, Stop(p)
    PROVE  Seating'
<1> DEFINE c == controlConnections[p]
           gone == IF c = None THEN {} ELSE {c}
           ends == {p}
<1>0. Tables /\ TypeOK /\ Seating /\ TaskTypes
  BY DEF ServerInv, Inv, Tables, Speaking
<1>1. /\ seated' = seated
      /\ task' = [q \in ControlPeers |-> IF q \in ends THEN "done" ELSE task[q]]
      /\ \A q \in ends : task[q] # "new"
  BY <1>0 DEF Stop, Quits, TaskTypes
<1>2. /\ gone \in SUBSET ConnIds
      /\ \A q \in ends : controlConnections[q] # None => controlConnections[q] \in gone
  BY <1>0 DEF TypeOK
<1>3. /\ controlConnections' = [q \in ControlPeers |->
            IF q \in ends \/ q \in ControlsOf(gone) THEN None ELSE controlConnections[q]]
      /\ \A s \in Sessions : \A d \in ConnIds :
            peers'[s][d] = IF d \in gone THEN None ELSE peers[s][d]
  <2>1. CASE c = None
    <3>1. UNCHANGED <<peers, controlConnections>> /\ ControlsOf(gone) = {}
      BY <2>1 DEF Stop, vars, stateVars, ControlsOf
    <3> QED BY <1>0, <2>1, <3>1 DEF TypeOK
  <2>2. CASE c # None
    <3>1. stop(p) /\ gone = {c}
      BY <2>2 DEF Stop
    <3>2. /\ RemoveFrom(gone) /\ now' = now /\ rooms' = rooms
          /\ controlConnections' = [q \in ControlPeers |->
                IF q \in ends \/ q \in ControlsOf(gone) THEN None
                ELSE controlConnections[q]]
      BY <3>1 DEF stop
    <3> HIDE DEF gone
    <3>3. \A s \in Sessions : \A d \in ConnIds :
             peers'[s][d] = IF d \in gone THEN None ELSE peers[s][d]
      BY <1>0, <1>2, <3>2, Removal
    <3> QED BY <3>2, <3>3
  <2> QED BY <2>1, <2>2
<1> HIDE DEF gone, ends
<1> QED BY <1>0, <1>1, <1>2, <1>3, RemovalSeats

(* The sweeper takes away seats whose deadline has passed, and no others'  *)
(* entries.                                                                *)
LEMMA SweepSeats ==
    ASSUME ServerInv, Sweep
    PROVE  Seating'
<1> DEFINE ends == {}
<1>0. Tables /\ TypeOK /\ Seating /\ TaskTypes
  BY DEF ServerInv, Inv, Tables, Speaking
<1>1. cleanup /\ task' = task /\ seated' = seated /\ Expired \in SUBSET ConnIds
  BY DEF Sweep, Expired
<1>2. /\ RemoveFrom(Expired) /\ now' = now /\ rooms' \subseteq rooms
      /\ \A s \in rooms : (\E c \in ConnIds \ Expired : peers[s][c] # None) => s \in rooms'
      /\ controlConnections' = [q \in ControlPeers |->
            IF q \in ControlsOf(Expired) THEN None ELSE controlConnections[q]]
  BY <1>1 DEF cleanup
<1>3. \A s \in Sessions : \A d \in ConnIds :
         peers'[s][d] = IF d \in Expired THEN None ELSE peers[s][d]
  BY <1>0, <1>1, <1>2, Removal
<1>4. /\ controlConnections' = [q \in ControlPeers |->
            IF q \in ends \/ q \in ControlsOf(Expired) THEN None ELSE controlConnections[q]]
      /\ task' = [q \in ControlPeers |-> IF q \in ends THEN "done" ELSE task[q]]
      /\ \A q \in ends : controlConnections[q] # None => controlConnections[q] \in Expired
      /\ \A q \in ends : task[q] # "new"
  BY <1>0, <1>1, <1>2 DEF TaskTypes
<1> HIDE DEF ends
<1> QED BY <1>0, <1>1, <1>3, <1>4, RemovalSeats

--------------------------------------------------------------------------------
(* The theorems.                                                           *)

(* Before the first connection nobody sits and nobody speaks.              *)
LEMMA ServerInitInv == ServerInit => ServerInv
<1> SUFFICES ASSUME ServerInit PROVE ServerInv
  OBVIOUS
<1>1. Inv
  BY ServerInitImplements, InitInv
<1>2. Speaking
  BY DEF ServerInit, Speaking, TaskTypes, RepliesAreServed, TaskStates, Tasks
<1>3. \A s \in Sessions : Members(s) = {}
  BY DEF ServerInit, Init, Members
<1>4. Seating
  BY <1>3 DEF ServerInit, Init, Seating, SeatsAreHeld, SeatFollowsItsTask,
              ConnectedSeatIsOwned, ReconnectingMeansGone
<1> QED BY <1>1, <1>2, <1>4 DEF ServerInv

(* Every step of every task keeps what is being said in order.             *)
LEMMA SpeakingStep ==
    ASSUME Speaking, TypeOK, TypeOK', ServerNext
    PROVE  Speaking'
<1>1. ASSUME NEW p \in ControlPeers, Accept(p) \/ Hangup(p) \/ Unlink(p) PROVE Speaking'
  BY <1>1, MovesOn DEF Accept, Hangup, Unlink, Listening, TaskStates
<1>2. ASSUME NEW p \in ControlPeers, Flush(p) PROVE Speaking'
  BY <1>2 DEF Flush, Speaking, TaskTypes, RepliesAreServed
<1> QED BY <1>1, <1>2, ControlSpeaks, DataSpeaks, OthersSpeak, TeardownSpeaks, SendSpeaks
        DEF ServerNext, TaskStep

(* The control frames keep the seats with their tasks.                     *)
LEMMA ControlSeats ==
    ASSUME ServerInv, Speaking', NEW p \in ControlPeers, ControlFrame(p)
    PROVE  Seating'
<1>1. Tables /\ TypeOK /\ Seating /\ TaskTypes /\ TaskTypes'
  BY DEF ServerInv, Inv, Tables, Speaking
<1>2. ASSUME UNCHANGED <<peers, controlConnections, seated, task>> PROVE Seating'
  BY <1>1, <1>2, TablesStay
<1>3. ASSUME NEW s \in Sessions, NEW id \in SteamIds, NEW kind \in Profiles,
             NEW probe \in ProbeCaps, on_join_begin(p, s, id, kind, probe)
      PROVE  Seating'
  BY <1>2, <1>3 DEF on_join_begin, begin_join, vars, stateVars
<1>4. ASSUME NEW valid \in BOOLEAN, Asking(p), on_join_proof(p, valid) PROVE Seating'
  <2>1. p \notin seated /\ task[p] = "serving" /\ task' = task
    BY <1>4 DEF Asking, on_join_proof, Listening
  <2>2. CASE pending[p] = None \/ Refused(p, valid)
    BY <1>2, <1>4, <2>1, <2>2 DEF on_join_proof, complete_join, vars, stateVars
  <2>3. CASE pending[p] # None /\ ~Refused(p, valid)
    <3>1. complete_join(p, valid) /\ seated' = seated \cup {p}
      BY <1>4, <2>3 DEF on_join_proof
    <3>2. now' = now
      BY <3>1 DEF complete_join
    <3>3. PICK c \in ConnIds \ drawn :
             /\ connectionRooms[c] = None
             /\ Admit(p, c, Duplicates(pending[p].session, pending[p].steam))
      <4> DEFINE twins == Duplicates(pending[p].session, pending[p].steam)
      <4>1. PICK c \in ConnIds \ drawn :
               /\ connectionRooms[c] = None
               /\ IF twins = {} THEN Admit(p, c, {}) ELSE \E d \in twins : Admit(p, c, {d})
        BY <2>3, <3>1 DEF complete_join
      <4>2. pending[p].session \in Sessions
        BY <1>1, <2>3 DEF TypeOK, PendingJoins
      <4>3. CASE twins = {}
        BY <4>1, <4>3
      <4>4. CASE twins # {}
        <5>1. PICK d \in twins : Admit(p, c, {d})
          BY <4>1, <4>4
        <5>2. twins = {d}
          BY <1>1, <4>2, OneTwin DEF Tables
        <5> QED BY <4>1, <5>1, <5>2
      <4> QED BY <4>3, <4>4
    <3> QED BY <2>1, <2>3, <3>1, <3>2, <3>3, AdmitSeats
  <2> QED BY <2>2, <2>3
<1>5. ASSUME NEW c \in ConnIds, NEW key \in ConnIds, Asking(p), on_resume(p, c, key)
      PROVE  Seating'
  <2>1. p \notin seated /\ task[p] = "serving" /\ task' = task
    BY <1>5 DEF Asking, on_resume, Listening
  <2>2. CASE Resumable(c, key)
    BY <1>5, <2>1, <2>2, ResumeSeats DEF on_resume
  <2>3. CASE ~Resumable(c, key)
    BY <1>2, <1>5, <2>1, <2>3 DEF on_resume, vars, stateVars
  <2> QED BY <2>2, <2>3
<1>6. CASE on_udp_path_request(p) \/ on_ping(p)
  BY <1>2, <1>6 DEF on_udp_path_request, on_ping, vars, stateVars
<1>7. CASE on_stop(p)
  <2>1. /\ UNCHANGED <<peers, controlConnections, seated>>
        /\ task[p] = "serving" /\ task' = [task EXCEPT ![p] = "stopping"]
    BY <1>7 DEF on_stop, Quits, Listening, vars, stateVars
  <2>2. \A q \in ControlPeers : /\ task'[q] = "new" => task[q] = "new"
                                /\ task'[q] = "done" <=> task[q] = "done"
    BY <1>1, <2>1 DEF TaskTypes
  <2> QED BY <1>1, <2>1, <2>2, TablesStay
<1> QED BY <1>3, <1>4, <1>5, <1>6, <1>7 DEF ControlFrame

(* Frames, probes and path hellos move no seat.                            *)
LEMMA RoutingSeats ==
    ASSUME ServerInv, Speaking', UNCHANGED <<task, seated>>,
           \/ \E c \in ConnIds, key \in ConnIds, addr \in Addrs : bind_udp_path(c, key, addr)
           \/ \E c \in ConnIds, f \in FrameIds, from, to \in SteamIds, src \in Sources,
                 size \in Sizes : route_data(c, f, from, to, src, size)
           \/ \E c \in ConnIds, from \in SteamIds, src \in Sources, size \in Sizes :
                 route_probe(c, from, src, size)
    PROVE  Seating'
<1>1. TypeOK /\ Seating /\ TaskTypes /\ TaskTypes'
  BY DEF ServerInv, Inv, Tables, Speaking
<1>2. ASSUME NEW c \in ConnIds, Known(c), controlConnections' = controlConnections,
             NEW q, q.control = PeerOf(c).control, q.presence = PeerOf(c).presence,
             peers' = [peers EXCEPT ![connectionRooms[c]][c] = q]
      PROVE  Seating'
  BY <1>1, <1>2, SeatStays
<1>3. ASSUME UNCHANGED <<peers, controlConnections>> PROVE Seating'
  BY <1>1, <1>3, TablesStay
<1>4. \A c \in ConnIds : Known(c) =>
         /\ connectionRooms[c] \in Sessions /\ PeerOf(c) \in Peers
         /\ PeerOf(c) = peers[connectionRooms[c]][c]
  BY <1>1, KnownSeat
<1>5. ASSUME NEW c \in ConnIds, NEW key \in ConnIds, NEW addr \in Addrs,
             bind_udp_path(c, key, addr)
      PROVE  Seating'
  <2> DEFINE q == [PeerOf(c) EXCEPT !.udp = addr]
  <2>1. /\ Known(c) /\ controlConnections' = controlConnections
        /\ peers' = [peers EXCEPT ![connectionRooms[c]][c] = q]
    BY <1>4, <1>5 DEF bind_udp_path
  <2>2. q.control = PeerOf(c).control /\ q.presence = PeerOf(c).presence
    BY <1>4, <2>1 DEF Peers
  <2> HIDE DEF q
  <2> QED BY <1>2, <2>1, <2>2
<1>6. ASSUME NEW c \in ConnIds, NEW f \in FrameIds, NEW from \in SteamIds,
             NEW to \in SteamIds, NEW src \in Sources, NEW size \in Sizes,
             route_data(c, f, from, to, src, size)
      PROVE  Seating'
  <2> DEFINE q == [PeerOf(c) EXCEPT !.frames = Observed(PeerOf(c).frames, f),
                              !.budget = CheckTraffic(PeerOf(c).budget, size, now)]
  <2>1. CASE ~Admits(PeerOf(c).frames, f)
    BY <1>3, <1>6, <2>1 DEF route_data, stateVars
  <2>2. CASE Admits(PeerOf(c).frames, f)
    <3>1. /\ Known(c) /\ controlConnections' = controlConnections
          /\ peers' = [peers EXCEPT ![connectionRooms[c]][c] = q]
      BY <1>4, <1>6, <2>2 DEF route_data, Peers
    <3>2. q.control = PeerOf(c).control /\ q.presence = PeerOf(c).presence
      BY <1>4, <3>1 DEF Peers
    <3> HIDE DEF q
    <3> QED BY <1>2, <3>1, <3>2
  <2> QED BY <2>1, <2>2
<1>7. ASSUME NEW c \in ConnIds, NEW from \in SteamIds, NEW src \in Sources,
             NEW size \in Sizes, route_probe(c, from, src, size)
      PROVE  Seating'
  <2> DEFINE charged == CheckTraffic(PeerOf(c).budget, size, now)
             nb == IF TrafficFits(PeerOf(c).budget, size, now)
                     THEN CheckProbe(charged, now) ELSE charged
             q == [PeerOf(c) EXCEPT !.budget = nb]
  <2>1. /\ Known(c) /\ controlConnections' = controlConnections
        /\ peers' = [peers EXCEPT ![connectionRooms[c]][c] = q]
    BY <1>4, <1>7 DEF route_probe
  <2> HIDE DEF nb
  <2>2. q.control = PeerOf(c).control /\ q.presence = PeerOf(c).presence
    BY <1>4, <2>1 DEF Peers
  <2> HIDE DEF q
  <2> QED BY <1>2, <2>1, <2>2
<1> QED BY <1>5, <1>6, <1>7

(* Every step of every task keeps the seats with their tasks.              *)
LEMMA SeatingStep ==
    ASSUME ServerInv, Speaking', ServerNext
    PROVE  Seating'
<1>1. TypeOK /\ Speaking /\ Seating /\ TaskTypes /\ TaskTypes'
  BY DEF ServerInv, Inv, Tables, Speaking
<1>2. ASSUME UNCHANGED <<peers, controlConnections, seated, task>> PROVE Seating'
  BY <1>1, <1>2, TablesStay
<1>3. ASSUME UNCHANGED <<peers, controlConnections, seated>>,
             NEW p \in ControlPeers, NEW how \in TaskStates \ {"new", "done"},
             task' = [task EXCEPT ![p] = how], task[p] # "done"
      PROVE  Seating'
  <2>1. \A q \in ControlPeers : /\ task'[q] = "new" => task[q] = "new"
                                /\ task'[q] = "done" <=> task[q] = "done"
    BY <1>1, <1>3 DEF TaskTypes
  <2> QED BY <1>1, <1>3, <2>1, TablesStay
<1>4. ASSUME NEW p \in ControlPeers, Accept(p) \/ Hangup(p) \/ Unlink(p) PROVE Seating'
  BY <1>3, <1>4 DEF Accept, Hangup, Unlink, Listening, Quits, TaskStates, vars, stateVars
<1>5. ASSUME NEW p \in ControlPeers, DataFrame(p) PROVE Seating'
  <2> DEFINE src == [udp |-> FALSE, from |-> p]
  <2>1. src \in Sources
    BY DEF Sources
  <2>2. ASSUME NEW c \in ConnIds, NEW f \in FrameIds, NEW from \in SteamIds,
               NEW to \in SteamIds, NEW size \in Sizes, on_data(p, c, f, from, to, size)
        PROVE  Seating'
    <3>1. CASE Fatal(c, from, src)
      BY <1>3, <2>2, <3>1 DEF on_data, Listening, Quits, TaskStates, vars, stateVars
    <3>2. CASE ~Fatal(c, from, src)
      <4>1. route_data(c, f, from, to, src, size) /\ UNCHANGED <<task, seated>>
        BY <2>2, <3>2 DEF on_data
      <4> HIDE DEF src
      <4> QED BY <2>1, <4>1, RoutingSeats
    <3> QED BY <3>1, <3>2
  <2>3. ASSUME NEW c \in ConnIds, NEW from \in SteamIds, NEW to \in SteamIds,
               NEW size \in Sizes, on_probe(p, c, from, to, size)
        PROVE  Seating'
    <3>1. route_probe(c, from, src, size) /\ UNCHANGED <<task, seated>>
      BY <2>3 DEF on_probe, forward_probe
    <3> HIDE DEF src
    <3> QED BY <2>1, <3>1, RoutingSeats
  <2> QED BY <1>5, <2>2, <2>3 DEF DataFrame
<1>6. CASE Datagram
  <2>1. \A addr \in Addrs : [udp |-> TRUE, from |-> addr] \in Sources
    BY DEF Sources
  <2>2. ASSUME NEW c \in ConnIds, NEW key \in ConnIds, NEW addr \in Addrs,
               on_udp_hello(c, key, addr)
        PROVE  Seating'
    BY <2>2, RoutingSeats DEF on_udp_hello
  <2>3. ASSUME NEW c \in ConnIds, NEW f \in FrameIds, NEW from \in SteamIds,
               NEW to \in SteamIds, NEW addr \in Addrs, NEW size \in Sizes,
               on_udp_data(addr, c, f, from, to, size)
        PROVE  Seating'
    <3> DEFINE src == [udp |-> TRUE, from |-> addr]
    <3>1. src \in Sources /\ route_data(c, f, from, to, src, size)
          /\ UNCHANGED <<task, seated>>
      BY <2>1, <2>3 DEF on_udp_data
    <3> HIDE DEF src
    <3> QED BY <3>1, RoutingSeats
  <2>4. ASSUME NEW c \in ConnIds, NEW from \in SteamIds, NEW to \in SteamIds,
               NEW addr \in Addrs, NEW size \in Sizes,
               on_udp_probe(addr, c, from, to, size)
        PROVE  Seating'
    <3> DEFINE src == [udp |-> TRUE, from |-> addr]
    <3>1. src \in Sources /\ route_probe(c, from, src, size) /\ UNCHANGED <<task, seated>>
      BY <2>1, <2>4 DEF on_udp_probe, forward_probe
    <3> HIDE DEF src
    <3> QED BY <3>1, RoutingSeats
  <2> QED BY <1>6, <2>2, <2>3, <2>4 DEF Datagram
<1>7. ASSUME NEW t \in Tasks, Send(t) PROVE Seating'
  <2>1. UNCHANGED <<peers, controlConnections>>
    BY <1>7 DEF Send, vars, stateVars
  <2> QED BY <1>1, <1>2, <1>3, <1>7, <2>1, SendSpeaks DEF TaskStates
<1>8. ASSUME NEW p \in ControlPeers, Flush(p) PROVE Seating'
  BY <1>2, <1>8 DEF Flush, vars, stateVars
<1>9. CASE ServerTick
  BY <1>2, <1>9 DEF ServerTick, tick, taskVars, stateVars
<1> QED BY <1>4, <1>5, <1>6, <1>7, <1>8, <1>9, ControlSeats, DetachSeats, StopSeats,
           SweepSeats DEF ServerNext, TaskStep

(* The invariant of the server is inductive.                               *)
LEMMA ServerStepInv == ServerInv /\ [ServerNext]_serverVars => ServerInv'
<1> SUFFICES ASSUME ServerInv, [ServerNext]_serverVars PROVE ServerInv'
  OBVIOUS
<1>1. Inv'
  BY ServerStepImplements, NextInv DEF ServerInv
<1>2. TypeOK /\ TypeOK'
  BY <1>1 DEF ServerInv, Inv, Tables
<1>3. CASE UNCHANGED serverVars
  BY <1>1, <1>3 DEF ServerInv, Speaking, TaskTypes, RepliesAreServed, Seating,
     SeatsAreHeld, SeatFollowsItsTask, ConnectedSeatIsOwned, ReconnectingMeansGone,
     Members, serverVars, taskVars, vars, stateVars
<1>4. CASE ServerNext
  <2>1. Speaking'
    BY <1>2, <1>4, SpeakingStep DEF ServerInv
  <2> QED BY <1>1, <1>4, <2>1, SeatingStep DEF ServerInv
<1> QED BY <1>3, <1>4

(* It holds at every moment.                                               *)
LEMMA ServerInvHolds == ServerSpec => []ServerInv
BY ServerInitInv, ServerStepInv, PTL DEF ServerSpec

(* The tasks of the server implement RelayState: what they do to the       *)
(* tables, one lock after the other, is a behaviour of its methods.        *)
THEOREM ServerImplementsRelayState == ServerSpec => Spec
BY ServerInitImplements, ServerStepImplements, PTL DEF ServerSpec, Spec

(* So the server keeps the promises of RelayState, with the clients that   *)
(* it really has and its tasks interleaved in any way.                     *)
THEOREM ServerKeepsRoomsConsistent == ServerSpec => []RoomsConsistent
BY ServerImplementsRelayState, RoomsStayConsistent, PTL

(* The presence of a seat tells at every moment what became of the task    *)
(* that owns it: nobody is Connected without a task that will notice its   *)
(* end, and nobody waits for a resume whose connection is still there.     *)
THEOREM SeatsFollowTasks == ServerSpec => []SeatFollowsItsTask
<1>1. ServerInv => SeatFollowsItsTask
  BY DEF ServerInv, Seating
<1> QED BY <1>1, ServerInvHolds, PTL

--------------------------------------------------------------------------------
(***************************************************************************)
(* RelayRecovery.                                                          *)
(***************************************************************************)

FromClient ==
    [type : {"JoinBegin", "JoinProof", "UdpPathRequest", "Stop", "Eof"}, conn : {None}]
        \cup [type : {"Resume", "Data"}, conn : ConnIds]

FromRelay ==
    [type : {"Error", "AdmissionChallenge", "Eof"}, conn : {None}]
        \cup [type : {"ResumeReady", "ResumeRejected", "JoinReady", "UdpPathToken",
                      "UdpPathReady"}, conn : ConnIds]

(* What the connections carry, and which were opened and have ended; only  *)
(* a connection whose task still runs has anything to read.                *)
WireTypes ==
    /\ used \subseteq ControlPeers /\ hung \subseteq used
    /\ toRelay \in [ControlPeers -> Seq(FromClient)]
    /\ toClient \in [ControlPeers -> Seq(FromRelay)]
    /\ hellos \subseteq [conn : ConnIds, addr : ControlPeers]
    /\ \A p \in ControlPeers : toRelay[p] # <<>> => p \in used \ hung

(* What the client holds in each phase.                                    *)
Phasing ==
    /\ profile \in Profiles
    /\ phase \in Phases
    /\ link \in used \cup {None} /\ dial \in used \cup {None}
    /\ conn \in ConnIds \cup {None} /\ fresh \in ConnIds \cup {None}
    /\ since \in Nat \cup {None} /\ due \in Nat
    /\ dial # None => dial # link
    /\ dial # None <=> phase \in Handshake
    /\ phase \in {"idle", "ended"} => link = None
    /\ phase = "online" => link # None
    /\ phase \in {"token", "ready"} => fresh # None
    /\ phase \in {"online", "attempt", "backoff", "resume"} => conn # None
    /\ since # None => conn # None
    /\ phase = "idle" => since = None

(* The timers of a recovery.                                               *)
Timely ==
    since # None =>
       /\ phase = "attempt" => now <= since + RecoveryDeadline
       /\ phase = "backoff" => now <= due /\ due <= since + RecoveryDeadline
       /\ phase \in Handshake =>
             now <= due /\ due <= since + RecoveryDeadline + AttemptTimeout

Told(p) == toRelay[p] # <<>> /\ toRelay[p][Len(toRelay[p])] = Eof

(* A connection the client has dropped ends with Eof: its task will get to *)
(* its teardown.                                                           *)
ClosedIsTold == \A p \in used \ hung : p \notin {link, dial} => Told(p)

ClientInv == WireTypes /\ Phasing /\ Timely /\ ClosedIsTold

(* The only player has one seat at most, in its room.                      *)
OneSeat ==
    /\ \A p \in ControlPeers : pending[p] # None =>
          pending[p].session = Room /\ pending[p].steam = Player
    /\ \A s \in Sessions : \A c \in Members(s) : s = Room /\ peers[s][c].steam = Player

(* A seat without a deadline is owned by a connection whose task runs and  *)
(* will find it through the index.                                         *)
SeatIsServed ==
    \A s \in Sessions : \A c \in Members(s) : peers[s][c].until = None =>
        /\ peers[s][c].control \in used \ hung
        /\ controlConnections[peers[s][c].control] = c

SeatInv == OneSeat /\ SeatIsServed

RecoveryInv == Inv /\ ClientInv /\ SeatInv

--------------------------------------------------------------------------------
(* The client.                                                             *)

(* Writing a frame on a connection, perhaps a new one.                     *)
LEMMA WroteKeeps ==
    ASSUME WireTypes, NEW p \in ControlPeers, NEW f \in FromClient
    PROVE  /\ Wrote(p, f) \in [ControlPeers -> Seq(FromClient)]
           /\ \A q \in ControlPeers :
                 Wrote(p, f)[q] # <<>> => q \in (used \cup {p}) \ hung
           /\ \A q \in ControlPeers : q # p => Wrote(p, f)[q] = toRelay[q]
<1>1. toRelay \in [ControlPeers -> Seq(FromClient)] /\ p \in ControlPeers
  BY DEF WireTypes
<1>2. CASE p \in hung
  BY <1>1, <1>2 DEF Wrote, WireTypes
<1>3. CASE p \notin hung
  <2>1. Wrote(p, f) = [toRelay EXCEPT ![p] = Append(toRelay[p], f)]
    BY <1>3 DEF Wrote
  <2>2. Append(toRelay[p], f) \in Seq(FromClient)
    BY <1>1
  <2> QED BY <1>1, <1>3, <2>1, <2>2 DEF WireTypes
<1> QED BY <1>2, <1>3

(* Dropping connections: each ends with Eof, the others stay.              *)
LEMMA ClosedKeeps ==
    ASSUME WireTypes, NEW ps \in SUBSET used
    PROVE  /\ Closed(ps) \in [ControlPeers -> Seq(FromClient)]
           /\ \A q \in ControlPeers : Closed(ps)[q] # <<>> => q \in used \ hung
           /\ \A q \in ControlPeers : q \notin ps => Closed(ps)[q] = toRelay[q]
           /\ \A q \in ps \ hung : /\ Closed(ps)[q] # <<>>
                                   /\ Closed(ps)[q][Len(Closed(ps)[q])] = Eof
<1>1. toRelay \in [ControlPeers -> Seq(FromClient)] /\ used \subseteq ControlPeers
  BY DEF WireTypes
<1>2. Eof \in FromClient
  BY DEF Eof, Frame, FromClient
<1>3. ASSUME NEW q \in ControlPeers
      PROVE  /\ Append(toRelay[q], Eof) \in Seq(FromClient)
             /\ Append(toRelay[q], Eof) # <<>>
             /\ Append(toRelay[q], Eof)[Len(Append(toRelay[q], Eof))] = Eof
  BY <1>1, <1>2
<1>4. \A q \in ControlPeers :
         Closed(ps)[q] = IF q \in ps \ hung THEN Append(toRelay[q], Eof) ELSE toRelay[q]
  BY DEF Closed
<1>5. Closed(ps) \in [ControlPeers -> Seq(FromClient)]
  <2>1. \A q \in ControlPeers :
           (IF q \in ps \ hung THEN Append(toRelay[q], Eof) ELSE toRelay[q])
              \in Seq(FromClient)
    BY <1>1, <1>3
  <2> QED BY <2>1 DEF Closed
<1> QED BY <1>1, <1>3, <1>4, <1>5 DEF WireTypes

(* Closing every connection the client gives up.                           *)
LEMMA CloseTells ==
    ASSUME WireTypes, ClosedIsTold, Phasing, NEW ps \in SUBSET used,
           toRelay' = Closed(ps), UNCHANGED <<used, hung, hellos>>,
           toClient' \in [ControlPeers -> Seq(FromRelay)],
           \A q \in {link, dial} : q \in ps \cup {link', dial', None}
    PROVE  WireTypes' /\ ClosedIsTold'
<1>1. WireTypes'
  BY ClosedKeeps DEF WireTypes
<1>2. None \notin used
  BY RelayAssumption DEF WireTypes
<1>3. SUFFICES ASSUME NEW q \in used \ hung, q \notin {link', dial'}
               PROVE  toRelay'[q] # <<>> /\ toRelay'[q][Len(toRelay'[q])] = Eof
  BY <1>1 DEF ClosedIsTold, Told
<1>4. q \in ControlPeers
  BY DEF WireTypes
<1>5. CASE q \in ps
  BY <1>5, ClosedKeeps
<1>6. CASE q \notin ps
  <2>1. q \notin {link, dial}
    BY <1>2, <1>3, <1>6
  <2>2. Told(q)
    BY <2>1 DEF ClosedIsTold
  <2>3. toRelay'[q] = toRelay[q]
    BY <1>4, <1>6, ClosedKeeps
  <2> QED BY <2>2, <2>3 DEF Told
<1> QED BY <1>5, <1>6

(* Writing on a connection the client keeps, perhaps a new one.            *)
LEMMA WriteTells ==
    ASSUME WireTypes, ClosedIsTold, NEW p \in ControlPeers, NEW f \in FromClient,
           toRelay' = Wrote(p, f), used' = used \cup {p}, UNCHANGED <<hung, hellos>>,
           toClient' \in [ControlPeers -> Seq(FromRelay)],
           p \in {link', dial'},
           \A q \in {link, dial} : q \in {link', dial', None}
    PROVE  WireTypes' /\ ClosedIsTold'
<1>1. WireTypes'
  BY WroteKeeps DEF WireTypes
<1>2. None \notin ControlPeers /\ used \subseteq ControlPeers
  BY RelayAssumption DEF WireTypes
<1>3. SUFFICES ASSUME NEW q \in used' \ hung, q \notin {link', dial'}
               PROVE  toRelay'[q] # <<>> /\ toRelay'[q][Len(toRelay'[q])] = Eof
  BY <1>1 DEF ClosedIsTold, Told
<1>4. q \in used \ hung /\ q \notin {link, dial} /\ q # p /\ q \in ControlPeers
  BY <1>2, <1>3
<1>5. Told(q)
  BY <1>4 DEF ClosedIsTold
<1>6. toRelay'[q] = toRelay[q]
  BY <1>4, WroteKeeps
<1> QED BY <1>5, <1>6 DEF Told

(* Nothing is written and no connection is given up.                       *)
LEMMA SilenceTells ==
    ASSUME WireTypes, ClosedIsTold, UNCHANGED <<toRelay, used, hung>>,
           toClient' \in [ControlPeers -> Seq(FromRelay)],
           hellos' \subseteq [conn : ConnIds, addr : ControlPeers],
           \A q \in {link, dial} : q \in {link', dial', None}
    PROVE  WireTypes' /\ ClosedIsTold'
<1>1. WireTypes'
  BY DEF WireTypes
<1>2. None \notin used
  BY RelayAssumption DEF WireTypes
<1>3. SUFFICES ASSUME NEW q \in used \ hung, q \notin {link', dial'}
               PROVE  Told(q)
  BY <1>1 DEF ClosedIsTold, Told
<1>4. q \notin {link, dial}
  BY <1>2, <1>3 DEF WireTypes
<1> QED BY <1>4 DEF ClosedIsTold

(* An attempt fails: the dialled connection goes, and at the end of the    *)
(* recovery the link with it; the next look at the clock is on time.       *)
LEMMA FailedKeeps ==
    ASSUME ClientInv, now \in Nat, AttemptFailed, profile' = profile,
           phase \in Handshake \cup {"attempt"},
           toClient' \in [ControlPeers -> Seq(FromRelay)]
    PROVE  ClientInv'
<1>1. /\ WireTypes /\ Phasing /\ Timely /\ ClosedIsTold
      /\ RecoveryDeadline \in Nat /\ Backoffs \subseteq Nat /\ None \notin ControlPeers
      /\ None \notin Nat
  BY RecoveryAssumption, RelayAssumption, NoneAssumption DEF ClientInv
<1>2. /\ dial' = None /\ fresh' = None /\ now' = now
      /\ UNCHANGED <<conn, since, hellos, used, hung>>
  BY DEF AttemptFailed, vars
<1>3. {dial} \ {None} \in SUBSET used /\ {dial, link} \ {None} \in SUBSET used
  BY <1>1 DEF Phasing
<1>4. CASE since = None \/ now - since >= RecoveryDeadline
  <2>1. /\ phase' = "ended" /\ link' = None /\ due' = due
        /\ toRelay' = Closed({dial, link} \ {None})
    BY <1>4 DEF AttemptFailed
  <2>2. WireTypes' /\ ClosedIsTold'
    BY <1>1, <1>2, <1>3, <2>1, CloseTells
  <2>3. Phasing'
    BY <1>1, <1>2, <2>1 DEF Phasing, Phases, Handshake
  <2>4. Timely'
    BY <1>2, <2>1 DEF Timely, Handshake
  <2> QED BY <2>2, <2>3, <2>4 DEF ClientInv
<1>5. CASE ~(since = None \/ now - since >= RecoveryDeadline)
  <2>1. PICK delay \in Backoffs :
           due' = IF delay < RecoveryDeadline - (now - since) THEN now + delay
                  ELSE since + RecoveryDeadline
    BY <1>5 DEF AttemptFailed
  <2>2. /\ phase' = "backoff" /\ link' = link
        /\ toRelay' = Closed({dial} \ {None})
    BY <1>5 DEF AttemptFailed
  <2>3. WireTypes' /\ ClosedIsTold'
    BY <1>1, <1>2, <1>3, <2>2, CloseTells
  <2>4. /\ due' \in Nat /\ now <= due' /\ due' <= since + RecoveryDeadline
        /\ since \in Nat
    BY <1>1, <1>5, <2>1 DEF Phasing
  <2>5. Phasing'
    BY <1>1, <1>2, <1>5, <2>2, <2>4 DEF Phasing, Phases, Handshake
  <2>6. Timely'
    BY <1>2, <2>2, <2>4 DEF Timely, Handshake
  <2> QED BY <2>3, <2>5, <2>6 DEF ClientInv
<1> QED BY <1>4, <1>5

(* What the client reads from a connection has the types the Relay gave it. *)
LEMMA ReadKeeps ==
    ASSUME WireTypes, NEW p \in ControlPeers, toClient[p] # <<>>
    PROVE  /\ Head(toClient[p]) \in FromRelay
           /\ [toClient EXCEPT ![p] = Tail(@)] \in [ControlPeers -> Seq(FromRelay)]
<1>1. toClient \in [ControlPeers -> Seq(FromRelay)]
  BY DEF WireTypes
<1>2. Head(toClient[p]) \in FromRelay /\ Tail(toClient[p]) \in Seq(FromRelay)
  BY <1>1
<1> QED BY <1>1, <1>2

(* The replacement takes over and the old connection is dropped.           *)
LEMMA EstablishedKeeps ==
    ASSUME ClientInv, NEW c \in ConnIds, Established(c), UNCHANGED <<used, hung, profile>>,
           phase \in Handshake, toClient' \in [ControlPeers -> Seq(FromRelay)]
    PROVE  ClientInv'
<1>1. WireTypes /\ Phasing /\ ClosedIsTold
  BY DEF ClientInv
<1>2. None \notin ConnIds /\ None \notin ControlPeers
  BY RelayAssumption
<1>3. /\ phase' = "online" /\ link' = dial /\ dial' = None /\ conn' = c
      /\ fresh' = None /\ since' = None /\ toRelay' = Closed({link} \ {None})
      /\ UNCHANGED <<due, hellos>>
  BY DEF Established
<1>4. {link} \ {None} \in SUBSET used
  BY <1>1 DEF Phasing
<1>5. WireTypes' /\ ClosedIsTold'
  BY <1>1, <1>3, <1>4, CloseTells
<1>6. Phasing'
  BY <1>1, <1>2, <1>3 DEF Phasing, Phases, Handshake
<1>7. Timely'
  BY <1>3 DEF Timely
<1> QED BY <1>5, <1>6, <1>7 DEF ClientInv

(* The next question of the handshake.                                     *)
LEMMA AsksKeeps ==
    ASSUME ClientInv, NEW next \in {"challenge", "proof"},
           NEW type \in {"JoinBegin", "JoinProof"}, Asks(next, type),
           UNCHANGED <<used, hung, profile, now>>, phase \in Handshake,
           toClient' \in [ControlPeers -> Seq(FromRelay)]
    PROVE  ClientInv'
<1>1. WireTypes /\ Phasing /\ ClosedIsTold /\ Timely /\ dial \in used
      /\ None \notin ControlPeers
  BY RelayAssumption DEF ClientInv, Phasing
<1>2. /\ phase' = next /\ toRelay' = Wrote(dial, Frame(type, None))
      /\ UNCHANGED <<link, dial, conn, fresh, since, due, hellos>>
  BY DEF Asks
<1>3. Frame(type, None) \in FromClient
  BY DEF Frame, FromClient
<1>4. dial \in ControlPeers /\ used' = used \cup {dial}
  BY <1>1 DEF WireTypes
<1>5. WireTypes' /\ ClosedIsTold'
  BY <1>1, <1>2, <1>3, <1>4, WriteTells
<1>6. Phasing'
  BY <1>1, <1>2 DEF Phasing, Phases, Handshake
<1>7. Timely'
  BY <1>1, <1>2 DEF Timely, Handshake
<1> QED BY <1>5, <1>6, <1>7 DEF ClientInv

(* A seat was given: a UDP transport asks for its path, TCP is done.       *)
LEMMA SeatedKeeps ==
    ASSUME ClientInv, NEW c \in ConnIds, Seated(c),
           UNCHANGED <<used, hung, profile, now>>, phase \in Handshake,
           toClient' \in [ControlPeers -> Seq(FromRelay)]
    PROVE  ClientInv'
<1>1. CASE profile # "Udp"
  BY <1>1, EstablishedKeeps DEF Seated
<1>2. CASE profile = "Udp"
  <2>1. WireTypes /\ Phasing /\ ClosedIsTold /\ Timely /\ dial \in used
        /\ None \notin ControlPeers /\ None \notin ConnIds
    BY RelayAssumption DEF ClientInv, Phasing
  <2>2. /\ phase' = "token" /\ fresh' = c
        /\ toRelay' = Wrote(dial, Frame("UdpPathRequest", None))
        /\ UNCHANGED <<link, dial, conn, since, due, hellos>>
    BY <1>2 DEF Seated
  <2>3. Frame("UdpPathRequest", None) \in FromClient
    BY DEF Frame, FromClient
  <2>4. dial \in ControlPeers /\ used' = used \cup {dial}
    BY <2>1 DEF WireTypes
  <2>5. WireTypes' /\ ClosedIsTold'
    BY <2>1, <2>2, <2>3, <2>4, WriteTells
  <2>6. Phasing'
    BY <2>1, <2>2 DEF Phasing, Phases, Handshake
  <2>7. Timely'
    BY <2>1, <2>2 DEF Timely, Handshake
  <2> QED BY <2>5, <2>6, <2>7 DEF ClientInv
<1> QED BY <1>1, <1>2

LEMMA ClientReadsKeeps ==
    ASSUME ClientInv, TypeOK, ClientReads, profile' = profile
    PROVE  ClientInv' /\ UNCHANGED <<vars, used, hung>>
<1> DEFINE frame == Head(toClient[dial])
<1>1. /\ WireTypes /\ Phasing /\ ClosedIsTold /\ Timely /\ dial \in ControlPeers
      /\ None \notin ControlPeers /\ None \notin ConnIds /\ now \in Nat
      /\ phase \in Handshake /\ toClient[dial] # <<>> /\ dial \in used
  BY RelayAssumption, SMTT(30) DEF ClientInv, Phasing, WireTypes, ClientReads, TypeOK, Times
<1>2. frame \in FromRelay /\ toClient' \in [ControlPeers -> Seq(FromRelay)]
  <2>1. toClient' = [toClient EXCEPT ![dial] = Tail(@)]
    BY DEF ClientReads
  <2> QED BY <1>1, <2>1, ReadKeeps
<1>3. CASE AttemptFailed
  BY <1>1, <1>2, <1>3, FailedKeeps DEF AttemptFailed
<1>4. CASE /\ frame.type \notin Answers[phase] \cup {"Error", "Eof"}
           /\ UNCHANGED <<vars, clientVars, toRelay, hellos, used, hung, outbound, restarts>>
  <2>1. UNCHANGED <<vars, phase, link, dial, conn, fresh, since, due, toRelay, hellos, used,
                    hung, now>>
    BY <1>4 DEF clientVars, vars
  <2>2. WireTypes' /\ ClosedIsTold'
    BY <1>1, <1>2, <2>1, SilenceTells DEF WireTypes
  <2>3. Phasing' /\ Timely'
    BY <1>1, <2>1 DEF Phasing, Timely
  <2> QED BY <2>1, <2>2, <2>3 DEF ClientInv
<1>5. CASE /\ frame.type \in Answers[phase]
           /\ CASE frame.type \in {"ResumeReady", "JoinReady"} -> Seated(frame.conn)
                [] frame.type = "ResumeRejected" -> Asks("challenge", "JoinBegin")
                [] frame.type = "AdmissionChallenge" -> Asks("proof", "JoinProof")
                [] frame.type = "UdpPathToken" ->
                      /\ phase' = "ready"
                      /\ hellos' = hellos \cup {[conn |-> fresh, addr |-> dial]}
                      /\ UNCHANGED <<link, dial, conn, fresh, since, due, toRelay>>
                [] frame.type = "UdpPathReady" -> Established(fresh)
           /\ UNCHANGED <<vars, used, hung, outbound, restarts>>
  <2>1. UNCHANGED <<vars, used, hung, now>>
    BY <1>5 DEF vars
  <2>2. CASE frame.type \in {"ResumeReady", "JoinReady"}
    <3>1. frame.conn \in ConnIds /\ Seated(frame.conn)
      BY <1>2, <1>5, <2>2 DEF FromRelay
    <3> QED BY <1>1, <1>2, <2>1, <3>1, SeatedKeeps
  <2>3. CASE frame.type = "ResumeRejected"
    BY <1>1, <1>2, <1>5, <2>1, <2>3, AsksKeeps
  <2>4. CASE frame.type = "AdmissionChallenge"
    BY <1>1, <1>2, <1>5, <2>1, <2>4, AsksKeeps
  <2>5. CASE frame.type = "UdpPathToken"
    <3>1. /\ phase' = "ready"
          /\ hellos' = hellos \cup {[conn |-> fresh, addr |-> dial]}
          /\ UNCHANGED <<link, dial, conn, fresh, since, due, toRelay>>
      BY <1>5, <2>5
    <3>2. phase = "token" /\ fresh \in ConnIds
      BY <1>1, <1>5, <2>5 DEF Answers, Phasing, Handshake
    <3>3. [conn |-> fresh, addr |-> dial] \in [conn : ConnIds, addr : ControlPeers]
      BY <1>1, <3>2
    <3>4. hellos' \subseteq [conn : ConnIds, addr : ControlPeers]
      BY <1>1, <3>1, <3>3 DEF WireTypes
    <3>5. WireTypes' /\ ClosedIsTold'
      BY <1>1, <1>2, <2>1, <3>1, <3>4, SilenceTells
    <3>6. Phasing' /\ Timely'
      BY <1>1, <2>1, <3>1, <3>2 DEF Phasing, Timely, Phases, Handshake
    <3> QED BY <2>1, <3>5, <3>6 DEF ClientInv
  <2>6. CASE frame.type = "UdpPathReady"
    <3>1. phase = "ready" /\ fresh \in ConnIds
      BY <1>1, <1>5, <2>6 DEF Answers, Phasing, Handshake
    <3>2. Established(fresh)
      BY <1>5, <2>6
    <3> QED BY <1>1, <1>2, <2>1, <3>1, <3>2, EstablishedKeeps
  <2>7. frame.type \in {"ResumeReady", "JoinReady", "ResumeRejected", "AdmissionChallenge",
                        "UdpPathToken", "UdpPathReady"}
    BY <1>1, <1>5 DEF Answers, Handshake
  <2> QED BY <2>2, <2>3, <2>4, <2>5, <2>6, <2>7
<1>6. AttemptFailed => UNCHANGED <<vars, used, hung>>
  BY DEF AttemptFailed
<1> QED BY <1>3, <1>4, <1>5, <1>6 DEF ClientReads

(* A connection is opened and the first frame written on it.               *)
LEMMA DialKeeps ==
    ASSUME ClientInv, TypeOK, connect_session \/ reconnect, profile' = profile
    PROVE  ClientInv' /\ UNCHANGED <<vars, hung>> /\ used \subseteq used'
<1>1. /\ WireTypes /\ Phasing /\ ClosedIsTold /\ Timely
      /\ None \notin ControlPeers /\ None \notin ConnIds /\ now \in Nat
      /\ JoinTimeout \in Nat /\ AttemptTimeout \in Nat /\ RecoveryDeadline \in Nat
  BY RelayAssumption, RecoveryAssumption DEF ClientInv, TypeOK, Times
<1>2. CASE connect_session
  <2>1. PICK p \in ControlPeers \ used :
           /\ used' = used \cup {p} /\ dial' = p
           /\ toRelay' = Wrote(p, Frame("JoinBegin", None))
    BY <1>2 DEF connect_session
  <2>2. /\ phase = "idle" /\ phase' = "challenge" /\ due' = now + JoinTimeout /\ now' = now
        /\ UNCHANGED <<vars, link, conn, fresh, since, toClient, hellos, hung>>
    BY <1>2 DEF connect_session, vars
  <2>3. Frame("JoinBegin", None) \in FromClient
    BY DEF Frame, FromClient
  <2>4. dial = None /\ link = None
    BY <1>1, <2>2 DEF Phasing, Handshake
  <2>5. WireTypes' /\ ClosedIsTold'
    <3>1. toClient' \in [ControlPeers -> Seq(FromRelay)]
      BY <1>1, <2>2 DEF WireTypes
    <3> QED BY <1>1, <2>1, <2>2, <2>3, <2>4, <3>1, WriteTells
  <2>6. Phasing'
    BY <1>1, <2>1, <2>2, <2>4 DEF Phasing, Phases, Handshake
  <2>7. Timely'
    BY <1>1, <2>2 DEF Timely, Phasing
  <2> QED BY <2>1, <2>2, <2>5, <2>6, <2>7 DEF ClientInv
<1>3. CASE reconnect
  <2>1. PICK p \in ControlPeers \ used :
           /\ used' = used \cup {p} /\ dial' = p
           /\ toRelay' = Wrote(p, Frame("Resume", conn))
    BY <1>3 DEF reconnect
  <2>2. /\ phase = "attempt" /\ phase' = "resume" /\ due' = now + AttemptTimeout
        /\ now' = now
        /\ UNCHANGED <<vars, link, conn, fresh, since, toClient, hellos, hung>>
    BY <1>3 DEF reconnect, vars
  <2>3. dial = None /\ conn \in ConnIds
    BY <1>1, <2>2 DEF Phasing, Handshake
  <2>4. Frame("Resume", conn) \in FromClient
    BY <2>3 DEF Frame, FromClient
  <2>5. WireTypes' /\ ClosedIsTold'
    <3>1. toClient' \in [ControlPeers -> Seq(FromRelay)]
      BY <1>1, <2>2 DEF WireTypes
    <3> QED BY <1>1, <2>1, <2>2, <2>3, <2>4, <3>1, WriteTells
  <2>6. Phasing'
    BY <1>1, <2>1, <2>2, <2>3 DEF Phasing, Phases, Handshake
  <2>7. Timely'
    BY <1>1, <2>2 DEF Timely, Phasing, Handshake
  <2> QED BY <2>1, <2>2, <2>5, <2>6, <2>7 DEF ClientInv
<1> QED BY <1>2, <1>3

(* The end of the client: every connection is dropped, an established one  *)
(* after a Stop.                                                           *)
LEMMA CancelKeeps ==
    ASSUME ClientInv, Cancel, profile' = profile
    PROVE  ClientInv' /\ UNCHANGED <<vars, used, hung>>
<1>1. /\ WireTypes /\ Phasing /\ ClosedIsTold /\ None \notin ControlPeers
      /\ toRelay \in [ControlPeers -> Seq(FromClient)]
      /\ used \subseteq ControlPeers /\ hung \subseteq used
  BY RelayAssumption DEF ClientInv, WireTypes
<1>2. /\ phase' = "ended" /\ link' = None /\ dial' = None
      /\ UNCHANGED <<vars, conn, fresh, since, due, toClient, hellos, used, hung>>
  BY DEF Cancel
<1>3. {dial, link} \ {None} \in SUBSET used
  BY <1>1 DEF Phasing
<1> DEFINE stopped == {p \in ControlPeers : p \notin hung /\ p = link /\ phase = "online"}
           parting(p) == toRelay[p] \o <<Frame("Stop", None), Eof>>
           shut == Closed({dial, link} \ {None})
<1>4. \A p \in ControlPeers :
         toRelay'[p] = IF p \in stopped THEN parting(p) ELSE shut[p]
  BY DEF Cancel
<1>5. ASSUME NEW p \in ControlPeers
      PROVE  /\ parting(p) \in Seq(FromClient) /\ parting(p) # <<>>
             /\ parting(p)[Len(parting(p))] = Eof
  <2>1. Frame("Stop", None) \in FromClient /\ Eof \in FromClient
    BY DEF Frame, Eof, FromClient
  <2>2. <<Frame("Stop", None), Eof>> \in Seq(FromClient)
    BY <2>1
  <2>3. toRelay[p] \in Seq(FromClient)
    BY <1>1
  <2> HIDE DEF FromClient, Frame, Eof
  <2> QED BY <2>2, <2>3
<1>6. /\ shut \in [ControlPeers -> Seq(FromClient)]
      /\ \A q \in ControlPeers : shut[q] # <<>> => q \in used \ hung
      /\ \A q \in ControlPeers : q \notin {dial, link} \ {None} => shut[q] = toRelay[q]
      /\ \A q \in ({dial, link} \ {None}) \ hung :
            shut[q] # <<>> /\ shut[q][Len(shut[q])] = Eof
  BY <1>1, <1>3, ClosedKeeps
<1>7. \A p \in stopped : p \in used \ hung
  BY <1>1 DEF Phasing
<1> HIDE DEF stopped, parting, shut
<1>8. WireTypes'
  <2>1. toRelay' = [p \in ControlPeers |-> IF p \in stopped THEN parting(p) ELSE shut[p]]
    BY DEF Cancel, stopped, parting, shut
  <2>2. toRelay' \in [ControlPeers -> Seq(FromClient)]
    BY <1>5, <1>6, <2>1
  <2>3. \A p \in ControlPeers : toRelay'[p] # <<>> => p \in used \ hung
    BY <1>4, <1>6, <1>7
  <2> QED BY <1>1, <1>2, <2>2, <2>3 DEF WireTypes
<1>9. ClosedIsTold'
  <2>1. SUFFICES ASSUME NEW q \in used \ hung
                 PROVE  toRelay'[q] # <<>> /\ toRelay'[q][Len(toRelay'[q])] = Eof
    BY <1>2 DEF ClosedIsTold, Told
  <2>2. q \in ControlPeers
    BY <1>1
  <2>3. CASE q \in stopped
    BY <1>4, <1>5, <2>2, <2>3
  <2>4. CASE q \notin stopped /\ q \in {dial, link}
    <3>1. q \in ({dial, link} \ {None}) \ hung
      BY <1>1, <2>2, <2>4
    <3> QED BY <1>4, <1>6, <2>2, <2>4, <3>1
  <2>5. CASE q \notin stopped /\ q \notin {dial, link}
    <3>1. Told(q)
      BY <1>1, <2>5 DEF ClosedIsTold
    <3> QED BY <1>4, <1>6, <2>2, <2>5, <3>1 DEF Told
  <2> QED BY <2>3, <2>4, <2>5
<1>10. Phasing' /\ Timely'
  BY <1>1, <1>2 DEF Phasing, Phases, Handshake, Timely
<1> QED BY <1>2, <1>8, <1>9, <1>10 DEF ClientInv

(* The other steps of the client move no connection.                       *)
LEMMA OthersKeep ==
    ASSUME ClientInv, TypeOK, profile' = profile,
           Wake \/ Lose \/ OnlineReads \/ HookPacket \/ SendPacket \/ DrainPacket
    PROVE  ClientInv' /\ UNCHANGED <<vars, used, hung>>
<1>1. /\ WireTypes /\ Phasing /\ ClosedIsTold /\ Timely /\ None \notin ControlPeers
      /\ now \in Nat /\ RecoveryDeadline \in Nat
  BY RelayAssumption, RecoveryAssumption DEF ClientInv, TypeOK, Times
<1>2. /\ toClient \in [ControlPeers -> Seq(FromRelay)]
      /\ hellos \subseteq [conn : ConnIds, addr : ControlPeers]
  BY <1>1 DEF WireTypes
<1>3. CASE Wake
  <2>1. /\ phase = "backoff" /\ now >= due /\ phase' = "attempt"
        /\ UNCHANGED <<vars, link, dial, conn, fresh, since, due, toRelay, toClient, hellos,
                       used, hung, now>>
    BY <1>3 DEF Wake, netVars, vars
  <2>2. WireTypes' /\ ClosedIsTold'
    BY <1>1, <1>2, <2>1, SilenceTells
  <2>3. Phasing' /\ Timely'
    BY <1>1, <2>1 DEF Phasing, Phases, Handshake, Timely
  <2> QED BY <2>1, <2>2, <2>3 DEF ClientInv
<1>4. CASE Lose
  <2>1. /\ phase = "online" /\ phase' = "attempt" /\ since' = now
        /\ UNCHANGED <<vars, link, dial, conn, fresh, due, toRelay, toClient, hellos,
                       used, hung, now>>
    BY <1>4 DEF Lose, netVars, vars
  <2>2. WireTypes' /\ ClosedIsTold'
    BY <1>1, <1>2, <2>1, SilenceTells
  <2>3. Phasing' /\ Timely'
    BY <1>1, <2>1 DEF Phasing, Phases, Handshake, Timely
  <2> QED BY <2>1, <2>2, <2>3 DEF ClientInv
<1>5. CASE OnlineReads
  <2>1. /\ phase = "online" /\ toClient[link] # <<>>
        /\ toClient' = [toClient EXCEPT ![link] = Tail(@)]
        /\ \/ phase' = "attempt" /\ since' = now
           \/ UNCHANGED <<phase, since>>
        /\ UNCHANGED <<vars, link, dial, conn, fresh, due, toRelay, hellos, used, hung, now>>
    BY <1>5 DEF OnlineReads, vars
  <2>2. link \in ControlPeers
    BY <1>1, <2>1 DEF Phasing, WireTypes
  <2>3. toClient' \in [ControlPeers -> Seq(FromRelay)]
    BY <1>1, <2>1, <2>2, ReadKeeps
  <2>4. WireTypes' /\ ClosedIsTold'
    BY <1>1, <1>2, <2>1, <2>3, SilenceTells
  <2>5. CASE phase' = "attempt" /\ since' = now
    <3>1. Phasing' /\ Timely'
      BY <1>1, <2>1, <2>5 DEF Phasing, Phases, Handshake, Timely
    <3> QED BY <2>1, <2>4, <3>1 DEF ClientInv
  <2>6. CASE UNCHANGED <<phase, since>>
    <3>1. Phasing' /\ Timely'
      BY <1>1, <2>1, <2>6 DEF Phasing, Timely
    <3> QED BY <2>1, <2>4, <3>1 DEF ClientInv
  <2> QED BY <2>1, <2>5, <2>6
<1>6. CASE SendPacket
  <2>1. /\ phase = "online"
        /\ toRelay' = IF profile = "Tcp" THEN Wrote(link, Frame("Data", conn)) ELSE toRelay
        /\ UNCHANGED <<vars, phase, link, dial, conn, fresh, since, due, toClient, hellos,
                       used, hung, now>>
    BY <1>6 DEF SendPacket, clientVars, vars
  <2>2. /\ link \in ControlPeers /\ used' = used \cup {link}
        /\ Frame("Data", conn) \in FromClient
    BY <1>1, <2>1 DEF Phasing, WireTypes, Frame, FromClient
  <2>3. WireTypes' /\ ClosedIsTold'
    <3>1. CASE profile = "Tcp"
      BY <1>1, <1>2, <2>1, <2>2, <3>1, WriteTells
    <3>2. CASE profile # "Tcp"
      BY <1>1, <1>2, <2>1, <3>2, SilenceTells
    <3> QED BY <3>1, <3>2
  <2>4. Phasing' /\ Timely'
    BY <1>1, <2>1 DEF Phasing, Timely
  <2> QED BY <2>1, <2>3, <2>4 DEF ClientInv
<1>7. CASE HookPacket \/ DrainPacket
  <2>1. UNCHANGED <<vars, phase, link, dial, conn, fresh, since, due, toRelay, toClient,
                    hellos, used, hung, now>>
    BY <1>7 DEF HookPacket, DrainPacket, clientVars, netVars, vars
  <2>2. WireTypes' /\ ClosedIsTold'
    BY <1>1, <1>2, <2>1, SilenceTells
  <2>3. Phasing' /\ Timely'
    BY <1>1, <2>1 DEF Phasing, Timely
  <2> QED BY <2>1, <2>2, <2>3 DEF ClientInv
<1> QED BY <1>3, <1>4, <1>5, <1>6, <1>7

--------------------------------------------------------------------------------
(* The network and the Relay, as the client sees them.                     *)

LEMMA ReplyKeeps ==
    ASSUME WireTypes, NEW p \in ControlPeers, NEW f \in FromRelay, Reply(p, f)
    PROVE  toClient' \in [ControlPeers -> Seq(FromRelay)]
<1>1. toClient \in [ControlPeers -> Seq(FromRelay)]
  BY DEF WireTypes
<1>2. toClient' = [toClient EXCEPT ![p] = Append(toClient[p], f)]
  BY DEF Reply
<1>3. Append(toClient[p], f) \in Seq(FromRelay)
  BY <1>1
<1> QED BY <1>1, <1>2, <1>3

(* Time passes only while no timer of the client is due.                   *)
LEMMA PassesKeeps ==
    ASSUME ClientInv, TypeOK, Passes, profile' = profile
    PROVE  ClientInv'
<1>1. /\ WireTypes /\ Phasing /\ ClosedIsTold /\ Timely
      /\ now \in Nat /\ RecoveryDeadline \in Nat /\ AttemptTimeout \in Nat
  BY RecoveryAssumption DEF ClientInv, TypeOK, Times
<1>2. /\ phase # "attempt"
      /\ phase \in Handshake \cup {"backoff"} => now < due
      /\ now' = now + 1
      /\ UNCHANGED <<phase, link, dial, conn, fresh, since, due, toRelay, toClient, hellos,
                     used, hung>>
  BY DEF Passes, tick, clientVars, netVars
<1>3. WireTypes' /\ ClosedIsTold'
  BY <1>1, <1>2 DEF WireTypes, ClosedIsTold, Told
<1>4. Phasing'
  BY <1>1, <1>2 DEF Phasing
<1>5. Timely'
  <2>1. since # None => since \in Nat
    BY <1>1 DEF Phasing
  <2>2. due \in Nat
    BY <1>1 DEF Phasing
  <2> QED BY <1>1, <1>2, <2>1, <2>2 DEF Timely
<1> QED BY <1>3, <1>4, <1>5 DEF ClientInv

(* A datagram is lost, the sweeper runs.                                   *)
LEMMA UnseenKeeps ==
    ASSUME ClientInv, profile' = profile, now' = now,
           UNCHANGED <<clientVars, toRelay, used, hung>>,
           toClient' \in [ControlPeers -> Seq(FromRelay)],
           hellos' \subseteq hellos
    PROVE  ClientInv'
<1>1. /\ WireTypes /\ Phasing /\ ClosedIsTold /\ Timely
      /\ hellos \subseteq [conn : ConnIds, addr : ControlPeers]
      /\ UNCHANGED <<phase, link, dial, conn, fresh, since, due>>
  BY DEF ClientInv, WireTypes, clientVars
<1>2. WireTypes' /\ ClosedIsTold'
  BY <1>1, SilenceTells
<1>3. Phasing' /\ Timely'
  BY <1>1 DEF Phasing, Timely
<1> QED BY <1>2, <1>3 DEF ClientInv

(* The network cuts a connection: what is left of it ends with Eof.        *)
LEMMA CutKeeps ==
    ASSUME ClientInv, NEW p \in ControlPeers, Cut(p), profile' = profile
    PROVE  ClientInv' /\ UNCHANGED <<vars, used, hung>>
<1>1. /\ WireTypes /\ Phasing /\ ClosedIsTold /\ Timely /\ None \notin ControlPeers
      /\ toRelay \in [ControlPeers -> Seq(FromClient)]
      /\ toClient \in [ControlPeers -> Seq(FromRelay)]
  BY RelayAssumption DEF ClientInv, WireTypes
<1>2. /\ p \in {link, dial} /\ p \notin hung
      /\ toClient' = [toClient EXCEPT ![p] = <<Eof>>]
      /\ UNCHANGED <<vars, phase, link, dial, conn, fresh, since, due, hellos, used, hung,
                     now>>
  BY DEF Cut, clientVars, vars
<1>3. PICK k \in 0 .. Len(toRelay[p]) :
         toRelay' = [toRelay EXCEPT ![p] = Append(SubSeq(toRelay[p], 1, k), Eof)]
  BY DEF Cut
<1>4. Eof \in FromClient /\ Eof \in FromRelay
  BY DEF Eof, Frame, FromClient, FromRelay
<1>5. SubSeq(toRelay[p], 1, k) \in Seq(FromClient)
  BY <1>1
<1>6. Append(SubSeq(toRelay[p], 1, k), Eof) \in Seq(FromClient) /\ <<Eof>> \in Seq(FromRelay)
  BY <1>4, <1>5
<1>7. p \in used
  BY <1>1, <1>2 DEF Phasing
<1>8. WireTypes'
  BY <1>1, <1>2, <1>3, <1>6, <1>7 DEF WireTypes
<1>9. ClosedIsTold'
  <2>1. \A q \in ControlPeers : q # p => toRelay'[q] = toRelay[q]
    BY <1>1, <1>3
  <2>2. \A q \in used : q \in ControlPeers
    BY <1>1 DEF WireTypes
  <2>3. \A q \in used \ hung : q \notin {link, dial} => Told(q)'
    BY <1>1, <1>2, <2>1, <2>2 DEF ClosedIsTold, Told
  <2> QED BY <1>2, <2>3 DEF ClosedIsTold
<1>10. Phasing' /\ Timely'
  BY <1>1, <1>2 DEF Phasing, Timely
<1> QED BY <1>2, <1>8, <1>9, <1>10 DEF ClientInv

(* A task of the Relay reads the next frame of its connection, which is    *)
(* not the end of it, or ends.                                             *)
LEMMA TaskKeeps ==
    ASSUME ClientInv, profile' = profile, now' = now, NEW p \in ControlPeers,
           toRelay[p] # <<>>, UNCHANGED <<clientVars, used, hellos>>,
           \/ /\ Head(toRelay[p]) # Eof
              /\ toRelay' = [toRelay EXCEPT ![p] = Tail(@)] /\ hung' = hung
           \/ toRelay' = [toRelay EXCEPT ![p] = <<>>] /\ hung' = hung \cup {p},
           toClient' \in [ControlPeers -> Seq(FromRelay)]
    PROVE  ClientInv'
<1>1. /\ WireTypes /\ Phasing /\ ClosedIsTold /\ Timely
      /\ toRelay \in [ControlPeers -> Seq(FromClient)]
      /\ used \subseteq ControlPeers
      /\ UNCHANGED <<phase, link, dial, conn, fresh, since, due>>
  BY DEF ClientInv, WireTypes, clientVars
<1>2. p \in used \ hung
  BY <1>1 DEF WireTypes
<1>3. Phasing' /\ Timely'
  BY <1>1 DEF Phasing, Timely
<1>4. CASE /\ Head(toRelay[p]) # Eof
           /\ toRelay' = [toRelay EXCEPT ![p] = Tail(@)] /\ hung' = hung
  <2>1. Tail(toRelay[p]) \in Seq(FromClient)
    BY <1>1
  <2>2. WireTypes'
    BY <1>1, <1>2, <1>4, <2>1 DEF WireTypes
  <2>3. ASSUME NEW q \in used \ hung, Told(q)
        PROVE  Told(q)'
    <3>1. CASE q # p
      BY <1>1, <1>4, <2>3, <3>1 DEF Told
    <3>2. CASE q = p
      <4> DEFINE read == toRelay[p]
                 rest == Tail(read)
      <4>1. read \in Seq(FromClient) /\ read # <<>> /\ read[Len(read)] = Eof
            /\ read[1] # Eof
        BY <1>1, <1>4, <2>3, <3>2 DEF Told
      <4>2. toRelay'[p] = rest
        BY <1>1, <1>4
      <4> HIDE DEF read, FromClient, Eof
      <4>3. Len(read) \in Nat /\ Len(read) >= 2
        BY <4>1
      <4>4. /\ Len(rest) = Len(read) - 1
            /\ \A i \in 1 .. Len(rest) : rest[i] = read[i + 1]
        BY <4>1
      <4>5. rest[Len(rest)] = read[Len(read)]
        <5> HIDE DEF rest
        <5>1. Len(rest) \in 1 .. Len(rest) /\ Len(rest) + 1 = Len(read)
          BY <4>3, <4>4
        <5> QED BY <4>4, <5>1
      <4>6. rest # <<>>
        <5> HIDE DEF rest
        <5> QED BY <4>3, <4>4
      <4> QED BY <3>2, <4>1, <4>2, <4>5, <4>6 DEF Told
    <3> QED BY <3>1, <3>2
  <2>4. ClosedIsTold'
    BY <1>1, <1>4, <2>3 DEF ClosedIsTold
  <2> QED BY <1>3, <2>2, <2>4 DEF ClientInv
<1>5. CASE toRelay' = [toRelay EXCEPT ![p] = <<>>] /\ hung' = hung \cup {p}
  <2>1. <<>> \in Seq(FromClient)
    OBVIOUS
  <2>2. WireTypes'
    BY <1>1, <1>2, <1>5, <2>1 DEF WireTypes
  <2>3. ClosedIsTold'
    <3>1. ASSUME NEW q \in used' \ hung', q \notin {link', dial'}
          PROVE  Told(q)'
      <4>1. q \in used \ hung /\ q # p /\ q \notin {link, dial}
        BY <1>1, <1>5, <3>1
      <4>2. Told(q)
        BY <1>1, <4>1 DEF ClosedIsTold
      <4> QED BY <1>1, <1>5, <4>1, <4>2 DEF Told
    <3> QED BY <3>1 DEF ClosedIsTold
  <2> QED BY <1>3, <2>2, <2>3 DEF ClientInv
<1> QED BY <1>4, <1>5

(* The end of a task, and what it writes back.                             *)
LEMMA EndsKeeps ==
    ASSUME ClientInv, profile' = profile, now' = now, NEW p \in ControlPeers,
           toRelay[p] # <<>>, UNCHANGED <<clientVars, used, hellos>>, Ends(p)
    PROVE  ClientInv'
<1>1. Eof \in FromRelay
  BY DEF Eof, Frame, FromRelay
<1>2. WireTypes
  BY DEF ClientInv
<1>3. toClient' \in [ControlPeers -> Seq(FromRelay)]
  BY <1>1, <1>2, ReplyKeeps DEF Ends
<1> QED BY <1>3, TaskKeeps DEF Ends

(* What a task does to the tables is a step of RelayState, and the client  *)
(* sees its answer.                                                        *)
LEMMA RelayKeeps ==
    ASSUME ClientInv, Inv, profile' = profile, NEW p \in ControlPeers, RelayStep(p)
    PROVE  ClientInv' /\ [Next]_vars
<1>1. /\ WireTypes /\ Phasing /\ TypeOK /\ Room \in Sessions /\ Player \in SteamIds
      /\ profile \in Profiles /\ None \notin ConnIds /\ None \notin PendingJoins
      /\ toRelay \in [ControlPeers -> Seq(FromClient)]
  BY RelayAssumption, RecoveryAssumption, NoneAssumption
     DEF ClientInv, Phasing, WireTypes, Inv, Tables
<1>2. ASSUME Hangs(p), toRelay[p] # <<>>, UNCHANGED <<clientVars, hellos, used>>
      PROVE  ClientInv' /\ [Next]_vars
  <2>1. [Next]_vars /\ now' = now
    <3>1. CASE controlConnections[p] = None
      BY <1>2, <3>1 DEF Hangs, vars
    <3>2. CASE controlConnections[p] # None
      BY <1>2, <3>2 DEF Hangs, Next, detach
    <3> QED BY <3>1, <3>2
  <2> QED BY <1>2, <2>1, EndsKeeps DEF Hangs
<1>3. CASE RelayReadsEof(p)
  BY <1>2, <1>3 DEF RelayReadsEof
<1>4. CASE RelayReadsStop(p)
  <2>1. [Next]_vars /\ now' = now
    <3>1. CASE controlConnections[p] = None
      BY <1>4, <3>1 DEF RelayReadsStop, vars
    <3>2. CASE controlConnections[p] # None
      BY <1>4, <3>2 DEF RelayReadsStop, Next, stop
    <3> QED BY <3>1, <3>2
  <2> QED BY <1>4, <2>1, EndsKeeps DEF RelayReadsStop
<1>5. CASE RelayReadsData(p)
  <2>1. CASE Hangs(p)
    BY <1>2, <1>5, <2>1 DEF RelayReadsData
  <2>2. CASE ~Hangs(p)
    <3>1. /\ toRelay' = [toRelay EXCEPT ![p] = Tail(@)]
          /\ UNCHANGED <<vars, toClient, hung>>
          /\ toRelay[p] # <<>> /\ Head(toRelay[p]) # Eof
          /\ UNCHANGED <<clientVars, hellos, used>>
      BY <1>5, <2>2 DEF RelayReadsData, Eof, Frame
    <3>2. now' = now /\ toClient' \in [ControlPeers -> Seq(FromRelay)]
      BY <1>1, <3>1 DEF WireTypes, vars
    <3> QED BY <3>1, <3>2, TaskKeeps
  <2> QED BY <2>1, <2>2
<1>6. ASSUME NEW reply \in FromRelay, Reply(p, reply),
             toRelay[p] # <<>>, Head(toRelay[p]).type # "Eof", [Next]_vars, now' = now,
             toRelay' = [toRelay EXCEPT ![p] = Tail(@)],
             UNCHANGED <<clientVars, hellos, used, hung>>
      PROVE  ClientInv' /\ [Next]_vars
  <2>1. toClient' \in [ControlPeers -> Seq(FromRelay)]
    BY <1>1, <1>6, ReplyKeeps
  <2>2. Head(toRelay[p]) # Eof
    BY <1>6 DEF Eof, Frame
  <2> QED BY <1>6, <2>1, <2>2, TaskKeeps
<1>7. CASE RelayReadsResume(p)
  <2> DEFINE c == Head(toRelay[p]).conn
  <2>1. c \in ConnIds
    <3>1. Head(toRelay[p]) \in FromClient /\ Head(toRelay[p]).type = "Resume"
      BY <1>1, <1>7 DEF RelayReadsResume
    <3> QED BY <3>1 DEF FromClient
  <2>2. Frame("ResumeReady", c) \in FromRelay /\ Frame("ResumeRejected", c) \in FromRelay
    BY <2>1 DEF Frame, FromRelay
  <2>3. CASE Resumable(c, c)
    <3>1. resume(p, c, c) /\ Reply(p, Frame("ResumeReady", c))
      BY <1>7, <2>3 DEF RelayReadsResume
    <3>2. [Next]_vars /\ now' = now
      BY <2>1, <3>1 DEF Next, resume
    <3> QED BY <1>6, <1>7, <2>2, <3>1, <3>2 DEF RelayReadsResume
  <2>4. CASE ~Resumable(c, c)
    <3>1. UNCHANGED vars /\ Reply(p, Frame("ResumeRejected", c))
      BY <1>7, <2>4 DEF RelayReadsResume
    <3>2. [Next]_vars /\ now' = now
      BY <3>1 DEF vars
    <3> QED BY <1>6, <1>7, <2>2, <3>1, <3>2 DEF RelayReadsResume
  <2> QED BY <2>3, <2>4
<1>8. CASE RelayReadsJoinBegin(p)
  <2>1. Frame("AdmissionChallenge", None) \in FromRelay /\ Frame("Error", None) \in FromRelay
    BY DEF Frame, FromRelay
  <2>2. CASE HasCapacity(Room, Player)
    <3>1. PICK probe \in ProbeCaps : begin_join(p, Room, Player, profile, probe)
      BY <1>8, <2>2 DEF RelayReadsJoinBegin
    <3>2. [Next]_vars /\ now' = now
      BY <1>1, <3>1 DEF Next, begin_join
    <3> QED BY <1>6, <1>8, <2>1, <2>2, <3>2 DEF RelayReadsJoinBegin
  <2>3. CASE ~HasCapacity(Room, Player)
    <3>1. UNCHANGED vars
      BY <1>8, <2>3 DEF RelayReadsJoinBegin
    <3>2. [Next]_vars /\ now' = now
      BY <3>1 DEF vars
    <3> QED BY <1>6, <1>8, <2>1, <2>3, <3>2 DEF RelayReadsJoinBegin
  <2> QED BY <2>2, <2>3
<1>9. CASE RelayReadsJoinProof(p)
  <2>1. Frame("Error", None) \in FromRelay
    BY DEF Frame, FromRelay
  <2>2. CASE pending[p] = None
    <3>1. UNCHANGED vars
      BY <1>9, <2>2 DEF RelayReadsJoinProof
    <3>2. [Next]_vars /\ now' = now
      BY <3>1 DEF vars
    <3> QED BY <1>6, <1>9, <2>1, <2>2, <3>2 DEF RelayReadsJoinProof
  <2>3. CASE pending[p] # None
    <3>1. complete_join(p, TRUE)
      BY <1>9, <2>3 DEF RelayReadsJoinProof
    <3>2. [Next]_vars /\ now' = now
      BY <3>1 DEF Next, complete_join
    <3>3. CASE Refused(p, TRUE)
      BY <1>6, <1>9, <2>1, <2>3, <3>2, <3>3 DEF RelayReadsJoinProof
    <3>4. CASE ~Refused(p, TRUE)
      <4>1. PICK c \in ConnIds : controlConnections' =
               [q \in ControlPeers |-> controlConnections'[q]] /\ controlConnections'[p] = c
        BY <3>1, <3>4 DEF complete_join, Admit
      <4>2. Frame("JoinReady", controlConnections'[p]) \in FromRelay
        BY <4>1 DEF Frame, FromRelay
      <4> QED BY <1>6, <1>9, <2>3, <3>2, <3>4, <4>2 DEF RelayReadsJoinProof
    <3> QED BY <3>3, <3>4
  <2> QED BY <2>2, <2>3
<1>10. CASE RelayReadsPathRequest(p)
  <2> DEFINE c == controlConnections[p]
             reply == IF c # None /\ Known(c) THEN Frame("UdpPathToken", c)
                      ELSE Frame("Error", None)
  <2>1. c \in ConnIds \cup {None}
    BY <1>1 DEF TypeOK
  <2>2. reply \in FromRelay
    BY <2>1 DEF Frame, FromRelay
  <2>3. Reply(p, reply) /\ UNCHANGED vars
    BY <1>10 DEF RelayReadsPathRequest
  <2>4. [Next]_vars /\ now' = now
    BY <2>3 DEF vars
  <2> QED BY <1>6, <1>10, <2>2, <2>3, <2>4 DEF RelayReadsPathRequest
<1> QED BY <1>3, <1>4, <1>5, <1>7, <1>8, <1>9, <1>10 DEF RelayStep

LEMMA HelloKeeps ==
    ASSUME ClientInv, Inv, profile' = profile, NEW h \in hellos, HelloArrives(h)
    PROVE  ClientInv' /\ [Next]_vars
<1>1. /\ WireTypes /\ TypeOK /\ h.conn \in ConnIds /\ h.addr \in Addrs /\ hellos' \subseteq hellos
      /\ toClient \in [ControlPeers -> Seq(FromRelay)]
  BY RecoveryAssumption DEF ClientInv, WireTypes, Inv, Tables, HelloArrives
<1>2. CASE Known(h.conn)
  <2>1. bind_udp_path(h.conn, h.conn, h.addr)
    BY <1>2 DEF HelloArrives
  <2>2. [Next]_vars /\ now' = now
    BY <1>1, <2>1 DEF Next, bind_udp_path
  <2>3. PeerOf(h.conn).control \in ControlPeers
    BY <1>1, <1>2, KnownSeat DEF Peers
  <2>4. Frame("UdpPathReady", h.conn) \in FromRelay
    BY <1>1 DEF Frame, FromRelay
  <2>5. toClient' \in [ControlPeers -> Seq(FromRelay)]
    <3>1. CASE UNCHANGED toClient
      BY <1>1, <3>1
    <3>2. CASE Reply(PeerOf(h.conn).control, Frame("UdpPathReady", h.conn))
      BY <1>1, <2>3, <2>4, <3>2, ReplyKeeps
    <3> QED BY <1>2, <3>1, <3>2 DEF HelloArrives
  <2> QED BY <1>1, <2>2, <2>5, UnseenKeeps DEF HelloArrives
<1>3. CASE ~Known(h.conn)
  <2>1. UNCHANGED vars /\ now' = now /\ toClient' = toClient
    BY <1>3 DEF HelloArrives, vars
  <2> QED BY <1>1, <2>1, UnseenKeeps DEF HelloArrives
<1> QED BY <1>2, <1>3

--------------------------------------------------------------------------------
(* The only seat, and who serves it.                                       *)

LEMMA SingleSeat ==
    ASSUME Inv, OneSeat, NEW s \in Sessions, NEW t \in Sessions,
           NEW c \in ConnIds, peers[s][c] # None, NEW d \in ConnIds, peers[t][d] # None
    PROVE  s = Room /\ t = Room /\ c = d
<1>1. s = Room /\ t = Room /\ peers[s][c].steam = Player /\ peers[t][d].steam = Player
  BY DEF OneSeat, Members
<1> QED BY <1>1 DEF Inv, Tables, OneSeatPerIdentity, Members

LEMMA SeatInvStays ==
    ASSUME SeatInv, UNCHANGED <<pending, peers, controlConnections>>,
           used \subseteq used', hung' = hung
    PROVE  SeatInv'
  BY DEF SeatInv, OneSeat, SeatIsServed, Members

(* A step that seats nobody, and takes no connection from a seat that      *)
(* keeps its place without a deadline.                                     *)
LEMMA SeatsShrink ==
    ASSUME Inv, SeatInv, Inv', UNCHANGED used,
           \A p \in ControlPeers : pending'[p] \in {pending[p], None},
           \A s \in Sessions : \A c \in ConnIds : peers'[s][c] # None =>
              /\ peers[s][c] # None
              /\ peers'[s][c].steam = peers[s][c].steam
              /\ peers'[s][c].until = None =>
                    /\ peers[s][c].until = None
                    /\ peers'[s][c].control = peers[s][c].control
                    /\ peers[s][c].control \notin hung' \ hung
                    /\ controlConnections'[peers[s][c].control]
                          = controlConnections[peers[s][c].control]
    PROVE  SeatInv'
<1>1. OneSeat'
  BY DEF SeatInv, OneSeat, Members
<1>2. SeatIsServed'
  BY DEF SeatInv, SeatIsServed, Members
<1> QED BY <1>1, <1>2 DEF SeatInv

(* A task ends: the seat it owns is detached, with the grace period open.  *)
LEMMA HangSeats ==
    ASSUME Inv, SeatInv, Inv', UNCHANGED used, NEW p \in ControlPeers, Hangs(p)
    PROVE  SeatInv'
<1>1. TypeOK /\ DeadlineWhileReconnecting /\ OneSeat /\ SeatIsServed /\ hung' = hung \cup {p}
      /\ None \notin Nat
  BY NoneAssumption DEF Inv, Tables, SeatInv, Hangs, Ends
<1>2. CASE controlConnections[p] = None
  <2>1. UNCHANGED <<pending, peers, controlConnections>>
    BY <1>2 DEF Hangs, vars, stateVars
  <2>2. \A s \in Sessions : \A c \in ConnIds :
           peers[s][c] # None /\ peers[s][c].until = None => peers[s][c].control # p
    BY <1>1, <1>2, RelayAssumption DEF SeatIsServed, Members
  <2>3. hung' \ hung \subseteq {p}
    BY <1>1
  <2> QED BY <2>1, <2>2, <2>3, SeatsShrink
<1>3. CASE controlConnections[p] # None
  <2> DEFINE c == controlConnections[p]
  <2>1. detach(p) /\ c \in ConnIds
    BY <1>1, <1>3 DEF Hangs, TypeOK
  <2>2. /\ pending' = pending
        /\ controlConnections' = [controlConnections EXCEPT ![p] = None]
    BY <2>1 DEF detach
  <2>3. ASSUME NEW s \in Sessions, NEW d \in ConnIds, peers'[s][d] # None
        PROVE  /\ peers[s][d] # None
               /\ peers'[s][d].steam = peers[s][d].steam
               /\ peers'[s][d].until = None =>
                     /\ peers[s][d].until = None
                     /\ peers'[s][d].control = peers[s][d].control
                     /\ peers[s][d].control # p
    <3>1. CASE Known(c) /\ PeerOf(c).control = p /\ PeerOf(c).presence = "Connected"
      <4> DEFINE r == connectionRooms[c]
                 q == [peers[r][c] EXCEPT !.presence = "Reconnecting", !.until = now + Grace]
      <4>1. /\ r \in Sessions /\ peers[r][c] \in Peers /\ peers[r][c] # None
            /\ peers[r][c].control = p
        BY <1>1, <2>1, <3>1, KnownSeat, NoneAssumption DEF PeerOf
      <4>2. peers' = [peers EXCEPT ![r][c] = q]
        BY <2>1, <3>1 DEF detach, PeerOf
      <4>3. /\ q.steam = peers[r][c].steam /\ q.until = now + Grace /\ q.until # None
        BY <1>1, <4>1, RelayAssumption DEF Peers, TypeOK, Times
      <4>4. /\ peers'[r][c] = q
            /\ \A t \in Sessions : \A e \in ConnIds :
                  t # r \/ e # c => peers'[t][e] = peers[t][e]
        BY <1>1, <2>1, <4>1, <4>2 DEF TypeOK
      <4> HIDE DEF q, r, c
      <4>5. CASE s = r /\ d = c
        BY <4>1, <4>3, <4>4, <4>5
      <4>6. CASE s # r \/ d # c
        <5>1. peers[s][d] # None /\ peers'[s][d] = peers[s][d]
          BY <2>3, <4>4, <4>6
        <5>2. s = r /\ d = c
          BY <1>1, <2>1, <4>1, <5>1, SingleSeat
        <5> QED BY <4>6, <5>2
      <4> QED BY <4>5, <4>6
    <3>2. CASE ~(Known(c) /\ PeerOf(c).control = p /\ PeerOf(c).presence = "Connected")
      <4>1. peers' = peers
        BY <2>1, <3>2 DEF detach
      <4>2. ASSUME peers[s][d].until = None, peers[s][d].control = p
            PROVE  FALSE
        <5>1. c = d
          BY <1>1, <2>3, <4>1, <4>2 DEF SeatIsServed, Members
        <5>2. connectionRooms[d] = s /\ s \in rooms
          BY <2>3, <4>1 DEF Inv, Tables, IndexAgreement
        <5>3. Known(d) /\ PeerOf(d) = peers[s][d]
          BY <2>3, <4>1, <5>2, RelayAssumption DEF Known, PeerOf
        <5>4. peers[s][d] \in Peers
          BY <1>1, <2>3, <4>1 DEF TypeOK
        <5>5. peers[s][d].presence = "Connected"
          BY <1>1, <2>3, <4>1, <4>2, <5>4 DEF DeadlineWhileReconnecting, Members, Peers
        <5> QED BY <3>2, <4>2, <5>1, <5>3, <5>5
      <4> QED BY <2>3, <4>1, <4>2
    <3> QED BY <3>1, <3>2
  <2>4. \A q \in ControlPeers : q # p => controlConnections'[q] = controlConnections[q]
    BY <1>1, <2>2 DEF TypeOK
  <2>5. hung' \ hung \subseteq {p}
    BY <1>1
  <2>6. \A s \in Sessions : \A d \in ConnIds :
           peers[s][d] # None => peers[s][d].control \in ControlPeers
    BY <1>1 DEF TypeOK, Peers
  <2> QED BY <2>2, <2>3, <2>4, <2>5, <2>6, SeatsShrink
<1> QED BY <1>2, <1>3

(* A known connection is the only seat there is.                           *)
LEMMA KnownIsOnly ==
    ASSUME Inv, OneSeat, NEW c \in ConnIds, Known(c),
           NEW s \in Sessions, NEW d \in ConnIds, peers[s][d] # None
    PROVE  d = c /\ s = connectionRooms[c]
<1>1. connectionRooms[c] \in Sessions /\ peers[connectionRooms[c]][c] # None
  BY KnownSeat DEF Inv, Tables, Known
<1>2. d = c /\ s = Room /\ connectionRooms[c] = Room
  BY <1>1, SingleSeat
<1> QED BY <1>2

(* A Stop removes the seat, if there is one, and the task ends.            *)
LEMMA StopKeepsSeat ==
    ASSUME Inv, SeatInv, Inv', UNCHANGED used, NEW p \in ControlPeers,
           controlConnections[p] # None, stop(p), Ends(p)
    PROVE  SeatInv'
<1> DEFINE c == controlConnections[p]
<1>1. /\ TypeOK /\ OneSeat /\ SeatIsServed /\ hung' = hung \cup {p} /\ c \in ConnIds
  BY DEF Inv, Tables, SeatInv, Ends, TypeOK
<1>2. /\ pending' = pending
      /\ controlConnections' = [q \in ControlPeers |->
                                   IF q = p \/ q \in ControlsOf({c}) THEN None
                                   ELSE controlConnections[q]]
      /\ \A s \in Sessions : \A d \in ConnIds :
            peers'[s][d] = IF d = c /\ connectionRooms[c] = s THEN None ELSE peers[s][d]
  BY DEF stop, RemoveFrom
<1> HIDE DEF c
<1>3. ASSUME NEW s \in Sessions, NEW d \in ConnIds, peers'[s][d] # None
      PROVE  /\ peers'[s][d] = peers[s][d] /\ peers[s][d] # None
             /\ peers[s][d].control \in ControlPeers
             /\ peers[s][d].until = None =>
                   /\ peers[s][d].control # p
                   /\ peers[s][d].control \notin ControlsOf({c})
  <2>1. peers'[s][d] = peers[s][d] /\ peers[s][d] # None
    BY <1>2, <1>3
  <2>2. connectionRooms[d] = s
    BY <2>1 DEF Inv, Tables, IndexAgreement
  <2>3. d # c
    BY <1>2, <1>3, <2>2
  <2>4. ~Known(c)
    BY <1>1, <2>1, <2>3, KnownIsOnly
  <2>5. ControlsOf({c}) = {}
    BY <2>4 DEF ControlsOf
  <2>6. peers[s][d].until = None => peers[s][d].control # p
    BY <1>1, <2>1, <2>3 DEF SeatIsServed, Members, c
  <2>7. peers[s][d].control \in ControlPeers
    BY <1>1, <2>1 DEF TypeOK, Peers
  <2> QED BY <2>1, <2>5, <2>6, <2>7
<1>4. hung' \ hung \subseteq {p}
  BY <1>1
<1> QED BY <1>2, <1>3, <1>4, SeatsShrink, SMTT(90)

(* The sweeper: what it leaves without a deadline keeps its connection.    *)
LEMMA CleanupSeats ==
    ASSUME Inv, SeatInv, Inv', UNCHANGED <<used, hung>>, cleanup
    PROVE  SeatInv'
<1>1. /\ TypeOK /\ OneSeat /\ SeatIsServed
  BY DEF Inv, Tables, SeatInv
<1>2. /\ \A p \in ControlPeers : pending'[p] \in {pending[p], None}
      /\ controlConnections' = [p \in ControlPeers |->
                                   IF p \in ControlsOf(Expired) THEN None
                                   ELSE controlConnections[p]]
      /\ \A s \in Sessions : \A d \in ConnIds :
            peers'[s][d] = IF d \in Expired /\ connectionRooms[d] = s THEN None
                           ELSE peers[s][d]
  BY DEF cleanup, RemoveFrom
<1>3. ASSUME NEW s \in Sessions, NEW d \in ConnIds, peers'[s][d] # None
      PROVE  /\ peers'[s][d] = peers[s][d] /\ peers[s][d] # None
             /\ peers[s][d].control \in ControlPeers
             /\ ControlsOf(Expired) = {}
  <2>1. peers'[s][d] = peers[s][d] /\ peers[s][d] # None
    BY <1>2, <1>3
  <2>2. connectionRooms[d] = s
    BY <2>1 DEF Inv, Tables, IndexAgreement
  <2>3. d \notin Expired
    BY <1>2, <1>3, <2>2
  <2>4. \A e \in Expired : e \in ConnIds /\ Known(e)
    BY DEF Expired
  <2>5. Expired = {}
    BY <1>1, <2>1, <2>3, <2>4, KnownIsOnly
  <2>6. ControlsOf(Expired) = {}
    BY <2>5 DEF ControlsOf
  <2>7. peers[s][d].control \in ControlPeers
    BY <1>1, <2>1 DEF TypeOK, Peers
  <2> QED BY <2>1, <2>6, <2>7
<1> QED BY <1>2, <1>3, SeatsShrink

(* A path is bound: the seat keeps its owner and its deadline.             *)
LEMMA BindSeats ==
    ASSUME Inv, SeatInv, Inv', UNCHANGED <<used, hung>>,
           NEW c \in ConnIds, NEW addr \in Addrs, bind_udp_path(c, c, addr)
    PROVE  SeatInv'
<1> DEFINE r == connectionRooms[c]
           q == [peers[r][c] EXCEPT !.udp = addr]
<1>1. TypeOK /\ r \in Sessions /\ peers[r][c] \in Peers /\ peers[r][c] # None
  BY KnownSeat, NoneAssumption DEF bind_udp_path, Inv, Tables, PeerOf
<1>2. /\ pending' = pending /\ controlConnections' = controlConnections
      /\ peers' = [peers EXCEPT ![r][c] = q]
  BY DEF bind_udp_path, PeerOf
<1>3. /\ q.steam = peers[r][c].steam /\ q.until = peers[r][c].until
      /\ q.control = peers[r][c].control
  BY <1>1 DEF Peers
<1>4. /\ peers'[r][c] = q
      /\ \A t \in Sessions : \A e \in ConnIds :
            t # r \/ e # c => peers'[t][e] = peers[t][e]
  BY <1>1, <1>2 DEF TypeOK
<1> HIDE DEF q, r
<1>5. ASSUME NEW s \in Sessions, NEW d \in ConnIds, peers'[s][d] # None
      PROVE  /\ peers[s][d] # None
             /\ peers'[s][d].steam = peers[s][d].steam
             /\ peers'[s][d].until = peers[s][d].until
             /\ peers'[s][d].control = peers[s][d].control
  <2>1. CASE s = r /\ d = c
    BY <1>1, <1>3, <1>4, <2>1
  <2>2. CASE s # r \/ d # c
    BY <1>4, <1>5, <2>2
  <2> QED BY <2>1, <2>2
<1> QED BY <1>2, <1>5, SeatsShrink

(* A resume gives the seat to the connection that asked.                   *)
LEMMA ResumeKeepsSeat ==
    ASSUME Inv, SeatInv, Inv', UNCHANGED <<used, hung>>,
           NEW p \in ControlPeers, p \in used \ hung, NEW c \in ConnIds, resume(p, c, c)
    PROVE  SeatInv'
<1> DEFINE r == connectionRooms[c]
           q == Resumed(peers[r][c], p)
<1>1. /\ TypeOK /\ OneSeat /\ Known(c)
      /\ r \in Sessions /\ peers[r][c] \in Peers /\ peers[r][c] # None
  BY KnownSeat, NoneAssumption DEF resume, Resumable, Inv, Tables, PeerOf, SeatInv
<1>2. /\ pending' = pending
      /\ controlConnections' = [controlConnections EXCEPT ![p] = c]
      /\ peers' = [peers EXCEPT ![r][c] = q]
  BY DEF resume
<1>3. q.steam = peers[r][c].steam /\ q.control = p
  BY <1>1 DEF Resumed, Peers
<1>4. /\ peers'[r][c] = q /\ controlConnections'[p] = c
      /\ \A t \in Sessions : \A e \in ConnIds :
            t # r \/ e # c => peers'[t][e] = peers[t][e]
  BY <1>1, <1>2 DEF TypeOK
<1> HIDE DEF q
<1>5. \A s \in Sessions : \A d \in ConnIds : peers'[s][d] # None => s = r /\ d = c
  BY <1>1, <1>4, KnownIsOnly
<1> HIDE DEF r
<1>6. OneSeat'
  BY <1>1, <1>2, <1>3, <1>4, <1>5 DEF OneSeat, Members
<1>7. SeatIsServed'
  BY <1>3, <1>4, <1>5 DEF SeatIsServed, Members
<1> QED BY <1>6, <1>7 DEF SeatInv

(* A seat is given: it is the player's, and the only one.                  *)
LEMMA AdmitKeepsSeat ==
    ASSUME Inv, SeatInv, Inv', UNCHANGED <<used, hung>>,
           NEW p \in ControlPeers, p \in used \ hung, complete_join(p, TRUE)
    PROVE  SeatInv'
<1>1. /\ TypeOK /\ OneSeat /\ pending[p] # None
      /\ pending[p].session = Room /\ pending[p].steam = Player /\ Room \in Sessions
      /\ pending' = [pending EXCEPT ![p] = None]
  BY RecoveryAssumption DEF Inv, Tables, SeatInv, OneSeat, complete_join
<1>2. \A q \in ControlPeers : pending'[q] \in {pending[q], None}
  BY <1>1 DEF TypeOK
<1> DEFINE twins == Duplicates(Room, Player)
<1>3. \/ UNCHANGED <<peers, controlConnections>>
      \/ \E c \in ConnIds : Admit(p, c, twins)
  BY <1>1, CompleteJoinCases DEF Inv
<1>4. CASE UNCHANGED <<peers, controlConnections>>
  BY <1>2, <1>4, SeatsShrink
<1>5. CASE \E c \in ConnIds : Admit(p, c, twins)
  <2>1. PICK c \in ConnIds : Admit(p, c, twins)
    BY <1>5
  <2>2. \A s \in Sessions : \A d \in ConnIds : peers[s][d] # None => s = Room /\ d \in twins
    BY <1>1 DEF OneSeat, Members, Duplicates
  <2> DEFINE seat == [control |-> p, steam |-> pending[p].steam,
                      profile |-> pending[p].profile, probe |-> pending[p].probe,
                      presence |-> "Connected", until |-> None,
                      udp |-> None, frames |-> NewWindow, budget |-> NewBudget(now)]
  <2>3. /\ peers' = [peers EXCEPT ![Room] = [d \in ConnIds |->
                        IF d = c THEN seat
                        ELSE IF d \in twins THEN None ELSE peers[Room][d]]]
        /\ controlConnections' = [q \in ControlPeers |->
                                     IF q = p THEN c
                                     ELSE IF q \in ControlsOf(twins) THEN None
                                     ELSE controlConnections[q]]
    BY <1>1, <2>1 DEF Admit
  <2>4. seat.steam = Player /\ seat.control = p
    BY <1>1
  <2> HIDE DEF seat, twins
  <2>5. /\ \A d \in ConnIds : peers'[Room][d] = IF d = c THEN seat
                              ELSE IF d \in twins THEN None ELSE peers[Room][d]
        /\ \A s \in Sessions : s # Room => peers'[s] = peers[s]
    BY <1>1, <2>3 DEF TypeOK
  <2>6. \A s \in Sessions : \A d \in ConnIds :
           peers'[s][d] # None => s = Room /\ d = c /\ peers'[s][d] = seat
    BY <2>1, <2>2, <2>5
  <2>7. OneSeat'
    BY <1>1, <1>2, <2>4, <2>6 DEF OneSeat, Members
  <2>8. SeatIsServed'
    BY <2>3, <2>4, <2>6 DEF SeatIsServed, Members
  <2> QED BY <2>7, <2>8 DEF SeatInv
<1> QED BY <1>3, <1>4, <1>5

--------------------------------------------------------------------------------

(* The Relay starts afresh: no seat is left, and every connection that was *)
(* open has ended.                                                         *)
LEMMA RestartStep ==
    ASSUME RecoveryInv, RelayRestarts, profile' = profile
    PROVE  RecoveryInv'
<1>1. /\ Inv /\ TypeOK /\ DrawnBeforeSeated /\ AtMostOnce /\ WireTypes /\ Phasing /\ Timely
      /\ used \subseteq ControlPeers
  BY DEF RecoveryInv, Inv, Tables, ClientInv, WireTypes
<1>2. /\ pending' = [p \in ControlPeers |-> None] /\ rooms' = {}
      /\ roomSeen' = [s \in Sessions |-> now]
      /\ peers' = [s \in Sessions |-> [c \in ConnIds |-> None]]
      /\ connectionRooms' = [c \in ConnIds |-> None]
      /\ controlConnections' = [p \in ControlPeers |-> None]
      /\ toRelay' = [p \in ControlPeers |-> <<>>]
      /\ toClient' = [p \in ControlPeers |-> IF p \in used THEN <<Eof>> ELSE <<>>]
      /\ hung' = used
      /\ UNCHANGED <<now, drawn, copies, phase, link, dial, conn, fresh, since, due, hellos,
                     used>>
  BY DEF RelayRestarts, clientVars
<1>3. \A s \in Sessions : \A c \in ConnIds : peers'[s][c] = None
  BY <1>2
<1>4. TypeOK'
  BY <1>1, <1>2 DEF TypeOK
<1>5. IndexAgreement'
  BY <1>2, RelayAssumption DEF IndexAgreement
<1>6. OneSeatPerIdentity' /\ DeadlineWhileReconnecting' /\ MarksCoverCopies'
  BY <1>3 DEF OneSeatPerIdentity, DeadlineWhileReconnecting, MarksCoverCopies, Members
<1>7. DrawnBeforeSeated' /\ AtMostOnce'
  BY <1>1, <1>2 DEF DrawnBeforeSeated, AtMostOnce
<1>8. Inv'
  BY <1>4, <1>5, <1>6, <1>7 DEF Inv, Tables
<1>9. SeatInv'
  BY <1>2, <1>3 DEF SeatInv, OneSeat, SeatIsServed, Members
<1>10. WireTypes'
  <2>1. <<Eof>> \in Seq(FromRelay) /\ <<>> \in Seq(FromRelay) /\ <<>> \in Seq(FromClient)
    <3>1. Eof \in FromRelay
      BY DEF Eof, Frame, FromRelay
    <3> QED BY <3>1
  <2> QED BY <1>1, <1>2, <2>1 DEF WireTypes
<1>11. Phasing' /\ Timely' /\ ClosedIsTold'
  BY <1>1, <1>2 DEF Phasing, Timely, ClosedIsTold
<1> QED BY <1>8, <1>9, <1>10, <1>11 DEF RecoveryInv, ClientInv

(* What a task of the Relay does keeps the only seat served.               *)
LEMMA RelaySeats ==
    ASSUME RecoveryInv, Inv', NEW p \in ControlPeers, RelayStep(p)
    PROVE  SeatInv'
<1>1. /\ Inv /\ SeatInv /\ WireTypes /\ Room \in Sessions /\ Player \in SteamIds
      /\ toRelay \in [ControlPeers -> Seq(FromClient)]
  BY RecoveryAssumption DEF RecoveryInv, ClientInv, WireTypes
<1>2. used' = used /\ p \in used \ hung
  BY <1>1 DEF RelayStep, RelayReadsEof, RelayReadsStop, RelayReadsData, RelayReadsResume,
              RelayReadsJoinBegin, RelayReadsJoinProof, RelayReadsPathRequest, WireTypes
<1>3. CASE RelayReadsEof(p)
  BY <1>1, <1>2, <1>3, HangSeats DEF RelayReadsEof
<1>4. CASE RelayReadsStop(p)
  <2>1. CASE controlConnections[p] = None
    <3>1. Hangs(p)
      BY <1>4, <2>1 DEF RelayReadsStop, Hangs
    <3> QED BY <1>1, <1>2, <3>1, HangSeats
  <2>2. CASE controlConnections[p] # None
    BY <1>1, <1>2, <1>4, <2>2, StopKeepsSeat DEF RelayReadsStop
  <2> QED BY <2>1, <2>2
<1>5. CASE RelayReadsData(p)
  <2>1. CASE Hangs(p)
    BY <1>1, <1>2, <2>1, HangSeats
  <2>2. CASE ~Hangs(p)
    <3>1. UNCHANGED <<pending, peers, controlConnections, hung>>
      BY <1>5, <2>2 DEF RelayReadsData, vars, stateVars
    <3> QED BY <1>1, <1>2, <3>1, SeatInvStays
  <2> QED BY <2>1, <2>2
<1>6. CASE RelayReadsResume(p)
  <2> DEFINE c == Head(toRelay[p]).conn
  <2>1. c \in ConnIds
    <3>1. Head(toRelay[p]) \in FromClient /\ Head(toRelay[p]).type = "Resume"
      BY <1>1, <1>6 DEF RelayReadsResume
    <3> QED BY <3>1 DEF FromClient
  <2>2. CASE Resumable(c, c)
    <3>1. resume(p, c, c) /\ hung' = hung
      BY <1>6, <2>2 DEF RelayReadsResume
    <3> QED BY <1>1, <1>2, <2>1, <3>1, ResumeKeepsSeat
  <2>3. CASE ~Resumable(c, c)
    <3>1. UNCHANGED <<pending, peers, controlConnections, hung>>
      BY <1>6, <2>3 DEF RelayReadsResume, vars, stateVars
    <3> QED BY <1>1, <1>2, <3>1, SeatInvStays
  <2> QED BY <2>2, <2>3
<1>7. CASE RelayReadsJoinBegin(p)
  <2>1. hung' = hung
    BY <1>7 DEF RelayReadsJoinBegin
  <2>2. CASE HasCapacity(Room, Player)
    <3>1. PICK probe \in ProbeCaps : begin_join(p, Room, Player, profile, probe)
      BY <1>7, <2>2 DEF RelayReadsJoinBegin
    <3>2. /\ UNCHANGED <<peers, controlConnections>>
          /\ pending' = [pending EXCEPT ![p] =
                [session |-> Room, steam |-> Player, profile |-> profile,
                 probe |-> probe, issued |-> now]]
      BY <3>1 DEF begin_join
    <3>3. OneSeat'
      BY <1>1, <3>2 DEF SeatInv, OneSeat, Members, Inv, Tables, TypeOK
    <3>4. SeatIsServed'
      BY <1>1, <1>2, <2>1, <3>2 DEF SeatInv, SeatIsServed, Members
    <3> QED BY <3>3, <3>4 DEF SeatInv
  <2>3. CASE ~HasCapacity(Room, Player)
    <3>1. UNCHANGED <<pending, peers, controlConnections>>
      BY <1>7, <2>3 DEF RelayReadsJoinBegin, vars, stateVars
    <3> QED BY <1>1, <1>2, <2>1, <3>1, SeatInvStays
  <2> QED BY <2>2, <2>3
<1>8. CASE RelayReadsJoinProof(p)
  <2>1. hung' = hung
    BY <1>8 DEF RelayReadsJoinProof
  <2>2. CASE pending[p] = None
    <3>1. UNCHANGED <<pending, peers, controlConnections>>
      BY <1>8, <2>2 DEF RelayReadsJoinProof, vars, stateVars
    <3> QED BY <1>1, <1>2, <2>1, <3>1, SeatInvStays
  <2>3. CASE pending[p] # None
    <3>1. complete_join(p, TRUE)
      BY <1>8, <2>3 DEF RelayReadsJoinProof
    <3> QED BY <1>1, <1>2, <2>1, <3>1, AdmitKeepsSeat
  <2> QED BY <2>2, <2>3
<1>9. CASE RelayReadsPathRequest(p)
  <2>1. UNCHANGED <<pending, peers, controlConnections, hung>>
    BY <1>9 DEF RelayReadsPathRequest, vars, stateVars
  <2> QED BY <1>1, <1>2, <2>1, SeatInvStays
<1> QED BY <1>3, <1>4, <1>5, <1>6, <1>7, <1>8, <1>9 DEF RelayStep

LEMMA HelloSeats ==
    ASSUME RecoveryInv, Inv', NEW h \in hellos, HelloArrives(h)
    PROVE  SeatInv'
<1>1. /\ Inv /\ SeatInv /\ h.conn \in ConnIds /\ h.addr \in Addrs
      /\ UNCHANGED <<used, hung>>
  BY RecoveryAssumption DEF RecoveryInv, ClientInv, WireTypes, HelloArrives
<1>2. CASE Known(h.conn)
  BY <1>1, <1>2, BindSeats DEF HelloArrives
<1>3. CASE ~Known(h.conn)
  <2>1. UNCHANGED <<pending, peers, controlConnections>>
    BY <1>3 DEF HelloArrives, vars, stateVars
  <2> QED BY <1>1, <2>1, SeatInvStays
<1> QED BY <1>2, <1>3

(* A step that leaves the tables alone keeps all that is said of them.     *)
LEMMA ClientTablesStay ==
    ASSUME RecoveryInv, ClientInv', UNCHANGED <<vars, hung>>, used \subseteq used'
    PROVE  RecoveryInv'
<1>1. UNCHANGED <<pending, peers, controlConnections>> /\ [Next]_vars
  BY DEF vars, stateVars
<1>2. SeatInv'
  BY <1>1, SeatInvStays DEF RecoveryInv
<1>3. Inv'
  BY <1>1, NextInv DEF RecoveryInv
<1> QED BY <1>2, <1>3 DEF RecoveryInv

LEMMA RecoveryInitInv == RecoveryInit => RecoveryInv
<1> SUFFICES ASSUME RecoveryInit
             PROVE  RecoveryInv
  OBVIOUS
<1>1. Inv
  BY InitInv DEF RecoveryInit
<1>2. WireTypes
  <2>1. <<>> \in Seq(FromRelay) /\ <<>> \in Seq(FromClient)
    OBVIOUS
  <2> QED BY <2>1 DEF RecoveryInit, WireTypes
<1>3. Phasing /\ Timely /\ ClosedIsTold
  BY RelayAssumption, NoneAssumption
     DEF RecoveryInit, Phasing, Phases, Handshake, Timely, ClosedIsTold
<1>4. SeatInv
  BY DEF RecoveryInit, Init, SeatInv, OneSeat, SeatIsServed, Members
<1> QED BY <1>1, <1>2, <1>3, <1>4 DEF RecoveryInv, ClientInv

LEMMA RecoveryStepInv == RecoveryInv /\ [RecoveryNext]_recoveryVars => RecoveryInv'
<1> SUFFICES ASSUME RecoveryInv, [RecoveryNext]_recoveryVars
             PROVE  RecoveryInv'
  OBVIOUS
<1>1. Inv /\ TypeOK /\ ClientInv /\ SeatInv /\ now \in Nat
      /\ toClient \in [ControlPeers -> Seq(FromRelay)]
  BY DEF RecoveryInv, Inv, Tables, TypeOK, Times, ClientInv, WireTypes
<1>2. CASE UNCHANGED recoveryVars
  <2>1. UNCHANGED <<vars, phase, profile, link, dial, conn, fresh, since, due, toRelay,
                    toClient, hellos, used, hung, now>>
    BY <1>2 DEF recoveryVars, clientVars, netVars, vars
  <2>2. ClientInv'
    BY <1>1, <2>1 DEF ClientInv, WireTypes, Phasing, Timely, ClosedIsTold, Told
  <2> QED BY <2>1, <2>2, ClientTablesStay
<1>3. CASE RecoveryStep /\ profile' = profile
  <2>1. CASE connect_session \/ reconnect
    BY <1>1, <1>3, <2>1, DialKeeps, ClientTablesStay
  <2>2. CASE ConnectFails \/ AttemptTimesOut
    <3>1. AttemptFailed /\ phase \in Handshake \cup {"attempt"} /\ toClient' = toClient
      BY <2>2 DEF ConnectFails, AttemptTimesOut
    <3>2. UNCHANGED <<vars, used, hung>>
      BY <3>1 DEF AttemptFailed
    <3>3. ClientInv'
      BY <1>1, <1>3, <3>1, FailedKeeps
    <3> QED BY <3>2, <3>3, ClientTablesStay
  <2>3. CASE ClientReads
    BY <1>1, <1>3, <2>3, ClientReadsKeeps, ClientTablesStay
  <2>4. CASE Wake \/ Lose \/ OnlineReads \/ HookPacket \/ SendPacket \/ DrainPacket
    BY <1>1, <1>3, <2>4, OthersKeep, ClientTablesStay
  <2>5. CASE Cancel
    BY <1>1, <1>3, <2>5, CancelKeeps, ClientTablesStay
  <2>6. CASE \E p \in ControlPeers : RelayStep(p)
    <3>1. PICK p \in ControlPeers : RelayStep(p)
      BY <2>6
    <3>2. ClientInv' /\ [Next]_vars
      BY <1>1, <1>3, <3>1, RelayKeeps
    <3>3. Inv'
      BY <1>1, <3>2, NextInv
    <3> QED BY <3>1, <3>2, <3>3, RelaySeats DEF RecoveryInv
  <2>7. CASE \E h \in hellos : HelloArrives(h)
    <3>1. PICK h \in hellos : HelloArrives(h)
      BY <2>7
    <3>2. ClientInv' /\ [Next]_vars
      BY <1>1, <1>3, <3>1, HelloKeeps
    <3>3. Inv'
      BY <1>1, <3>2, NextInv
    <3> QED BY <3>1, <3>2, <3>3, HelloSeats DEF RecoveryInv
  <2>8. CASE \E h \in hellos : HelloLost(h)
    <3>1. /\ UNCHANGED <<vars, clientVars, toRelay, toClient, used, hung, now>>
          /\ hellos' \subseteq hellos
      BY <2>8 DEF HelloLost, vars
    <3>2. ClientInv'
      BY <1>1, <1>3, <3>1, UnseenKeeps
    <3> QED BY <3>1, <3>2, ClientTablesStay
  <2>9. CASE \E p \in ControlPeers : Cut(p)
    BY <1>1, <1>3, <2>9, CutKeeps, ClientTablesStay
  <2>10. CASE RelayRestarts
    BY <1>3, <2>10, RestartStep
  <2>11. CASE SweepRooms
    <3>1. /\ UNCHANGED <<clientVars, toRelay, toClient, hellos, used, hung, now>>
          /\ cleanup
      BY <2>11 DEF SweepRooms, netVars, cleanup
    <3>2. ClientInv'
      BY <1>1, <1>3, <3>1, UnseenKeeps
    <3>3. Inv'
      BY <1>1, <3>1, NextInv DEF Next
    <3> QED BY <1>1, <3>1, <3>2, <3>3, CleanupSeats DEF RecoveryInv
  <2>12. CASE Passes
    <3>1. ClientInv'
      BY <1>1, <1>3, <2>12, PassesKeeps
    <3>2. tick /\ UNCHANGED <<used, hung>>
      BY <2>12 DEF Passes, netVars
    <3>3. Inv'
      BY <1>1, <3>2, NextInv DEF Next
    <3>4. SeatInv'
      BY <1>1, <3>2, SeatInvStays DEF tick, stateVars
    <3> QED BY <3>1, <3>3, <3>4 DEF RecoveryInv
  <2> QED BY <1>3, <2>1, <2>2, <2>3, <2>4, <2>5, <2>6, <2>7, <2>8, <2>9, <2>10, <2>11, <2>12
          DEF RecoveryStep, ClientStep
<1> QED BY <1>2, <1>3 DEF RecoveryNext

LEMMA RecoveryInvHolds == RecoverySpec => []RecoveryInv
<1> QED BY RecoveryInitInv, RecoveryStepInv, PTL DEF RecoverySpec

(* recover_relay looks at its deadline between attempts only: recovery     *)
(* never lasts longer than the deadline and the attempt it may have begun  *)
(* just before, whatever the Relay and the network do to its connections.  *)
THEOREM RecoveryEndsOnTime == RecoverySpec => []RecoveryBounded
<1>1. RecoveryInv => RecoveryBounded
  <2> SUFFICES ASSUME RecoveryInv, Recovering
               PROVE  now - since <= RecoveryDeadline + AttemptTimeout
    BY DEF RecoveryBounded
  <2>1. /\ Phasing /\ Timely /\ now \in Nat
        /\ RecoveryDeadline \in Nat /\ AttemptTimeout \in Nat
    BY RecoveryAssumption DEF RecoveryInv, ClientInv, Inv, Tables, TypeOK, Times
  <2>2. since \in Nat /\ due \in Nat /\ since # None
    BY <2>1 DEF Recovering, Phasing
  <2>3. phase \in Handshake \cup {"attempt", "backoff"}
    BY <2>1 DEF Recovering, Phasing, Phases
  <2> QED BY <2>1, <2>2, <2>3 DEF Timely
<1> QED BY <1>1, RecoveryInvHolds, PTL

(* A client that is gone leaves no seat behind: whenever it was cancelled  *)
(* or gave up, once the tasks of the Relay have read all it ever wrote,    *)
(* every seat left has a deadline the sweeper will meet.                   *)
THEOREM NoSeatLeftBehind == RecoverySpec => []GoneClientLeavesNoSeat
<1>1. RecoveryInv => GoneClientLeavesNoSeat
  <2> SUFFICES ASSUME RecoveryInv, phase = "ended",
                      \A p \in ControlPeers : toRelay[p] = <<>>,
                      NEW c \in Members(Room), peers[Room][c].until = None
               PROVE  FALSE
    BY DEF GoneClientLeavesNoSeat
  <2> DEFINE p == peers[Room][c].control
  <2>1. p \in used \ hung
    BY RecoveryAssumption DEF RecoveryInv, SeatInv, SeatIsServed
  <2>2. p \in ControlPeers
    BY <2>1 DEF RecoveryInv, ClientInv, WireTypes
  <2>3. link = None /\ dial = None /\ p # None
    BY <2>2, RelayAssumption DEF RecoveryInv, ClientInv, Phasing, Handshake
  <2>4. Told(p)
    BY <2>1, <2>3 DEF RecoveryInv, ClientInv, ClosedIsTold
  <2> QED BY <2>2, <2>4 DEF Told
<1> QED BY <1>1, RecoveryInvHolds, PTL
================================================================================

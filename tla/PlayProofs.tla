------------------------------- MODULE PlayProofs -------------------------------
(***************************************************************************)
(* Proofs about the parts of a play session: the local IPC between client  *)
(* and hook, the packets of the hook, and the runtime of the session.      *)
(***************************************************************************)
EXTENDS PlaySession, DataLemmas

--------------------------------------------------------------------------------
(* Hook IPC (HookIpc), for any number of connections, calls, pings and     *)
(* packets.  Two facts carry the proofs: what travels up a connection are  *)
(* answers and packets queued since that connection was made, and an       *)
(* answer is given to the caller whose id it carries.                      *)

HasFields(r, F) == r = [f \in F |-> r[f]]

Values  == Nat \cup {"Installing", "Ready", "Failed"}
Message == [t : {"Handshake", "EndpointReady", "Startup", "Result", "Pong", "Health", "Goodbye",
                 "Game", "Delay", "Ping", "Shutdown"}, v : Values]

(* What may travel up connection k.                                        *)
Ups(k) == {m \in Message : m.t = "Game" => m.v = k}

ConnFields == {"up", "down", "used", "taken", "cm", "cr", "hm", "hr"}

ConnOK(k, n) == /\ HasFields(n, ConnFields)
                /\ n.up \in Seq(Ups(k)) /\ n.down \in Seq(Message)

NetOK == /\ net = [k \in Conns |-> net[k]]
         /\ \A k \in Conns : ConnOK(k, net[k])

ClientOK ==
    /\ HasFields(c, {"phase", "conn", "pend", "ping", "pings", "inst", "error"})
    /\ c.conn \in Conns \cup {0} /\ c.pings \in Nat
    /\ c.phase \in {"handshake", "await_ready", "connected"} => c.conn \in Conns

(* The packets queued while a connection is up were queued during it.      *)
HookOK ==
    /\ HasFields(h, {"phase", "conn", "out", "told"})
    /\ h.conn \in Conns \cup {0}
    /\ h.out \in Seq([t : {"Result", "Pong", "Startup"}, v : Values])
    /\ h.phase \in {"handshake", "connected"} => h.conn \in Conns
    /\ startup \in {"Installing", "Ready", "Failed"}
    /\ data \in Seq(Conns \cup {0})
    /\ h.phase = "connected" => data \in Seq({h.conn})

CallsOK ==
    /\ calls = [i \in CallIds |-> calls[i]]
    /\ ctl \in Seq(CallIds)
    /\ AnswerIsOwn

IpcInv == NetOK /\ ClientOK /\ HookOK /\ CallsOK

(* A connection becomes another well-formed one.                           *)
LEMMA BecomesKeeps ==
    ASSUME NetOK, NEW k \in Conns, NEW n, ConnOK(k, n), Becomes(k, n)
    PROVE  NetOK'
<1> DEFINE up   == IF n.taken /\ ~n.cm /\ ~n.cr THEN <<>> ELSE n.up
           down == IF ~n.hm /\ ~n.hr THEN <<>> ELSE n.down
           m    == [n EXCEPT !.up = up, !.down = down]
<1>1. net' = [net EXCEPT ![k] = m]
  BY DEF Becomes
<1>2. up \in Seq(Ups(k)) /\ down \in Seq(Message)
  <2>1. <<>> \in Seq(Ups(k)) /\ <<>> \in Seq(Message)
    OBVIOUS
  <2> QED BY <2>1 DEF ConnOK
<1> HIDE DEF up, down
<1>3. m.up = up /\ m.down = down /\ HasFields(m, ConnFields)
  BY DEF ConnOK, HasFields, ConnFields
<1>4. ConnOK(k, m)
  BY <1>2, <1>3 DEF ConnOK
<1> HIDE DEF m
<1> QED BY <1>1, <1>4 DEF NetOK

(* A loop lets go of its connection, with what its reader had taken.       *)
LEMMA LetGoKeeps ==
    ASSUME NetOK, NEW k \in Conns \cup {0}, ClientLetsGo(k) \/ HookLetsGo(k)
    PROVE  NetOK'
<1>1. CASE k = 0
  BY <1>1 DEF ClientLetsGo, HookLetsGo, NetOK
<1>2. CASE k # 0 /\ ClientLetsGo(k)
  <2>1. PICK x \in 0..Len(net[k].up) :
           Becomes(k, [net[k] EXCEPT !.up = SubSeq(@, x + 1, Len(@)), !.cm = FALSE,
              !.cr = @ /\ \A i \in 1..x : net[k].up[i].t # "Goodbye"])
    BY <1>2 DEF ClientLetsGo, LetGo
  <2> DEFINE reads == net[k].cr /\ \A i \in 1..x : net[k].up[i].t # "Goodbye"
             rest  == SubSeq(net[k].up, x + 1, Len(net[k].up))
             n     == [net[k] EXCEPT !.up = rest, !.cm = FALSE, !.cr = reads]
  <2>2. ConnOK(k, net[k]) /\ k \in Conns
    BY <1>2 DEF NetOK
  <2>3. rest \in Seq(Ups(k))
    BY <2>2 DEF ConnOK
  <2>4. Becomes(k, n)
    BY <2>1
  <2> HIDE DEF reads, rest
  <2>5. ConnOK(k, n)
    BY <2>2, <2>3 DEF ConnOK, HasFields, ConnFields
  <2> HIDE DEF n
  <2> QED BY <2>2, <2>4, <2>5, BecomesKeeps
<1>3. CASE k # 0 /\ HookLetsGo(k)
  <2>1. PICK x \in 0..Len(net[k].down) :
           Becomes(k, [net[k] EXCEPT !.down = SubSeq(@, x + 1, Len(@)), !.hm = FALSE,
              !.hr = @ /\ \A i \in 1..x : net[k].down[i].t # "Shutdown"])
    BY <1>3 DEF HookLetsGo, LetGo
  <2> DEFINE reads == net[k].hr /\ \A i \in 1..x : net[k].down[i].t # "Shutdown"
             rest  == SubSeq(net[k].down, x + 1, Len(net[k].down))
             n     == [net[k] EXCEPT !.down = rest, !.hm = FALSE, !.hr = reads]
  <2>2. ConnOK(k, net[k]) /\ k \in Conns
    BY <1>3 DEF NetOK
  <2>3. rest \in Seq(Message)
    BY <2>2 DEF ConnOK
  <2>4. Becomes(k, n)
    BY <2>1
  <2> HIDE DEF reads, rest
  <2>5. ConnOK(k, n)
    BY <2>2, <2>3 DEF ConnOK, HasFields, ConnFields
  <2> HIDE DEF n
  <2> QED BY <2>2, <2>4, <2>5, BecomesKeeps
<1> QED BY <1>1, <1>2, <1>3

(* Every call that still waits is told the same.                           *)
LEMMA RejectKeeps ==
    ASSUME CallsOK, NEW ids, RejectCalls(ids)
    PROVE  CallsOK'
<1>1. <<>> \in Seq(CallIds)
  OBVIOUS
<1> QED BY <1>1 DEF CallsOK, RejectCalls, Answer, AnswerIsOwn

(* The next message of a connection.                                       *)
LEMMA NextMessages ==
    ASSUME NetOK, NEW k \in Conns
    PROVE  /\ ConnOK(k, net[k])
           /\ net[k].up # <<>> => /\ Head(net[k].up) \in Ups(k)
                                  /\ Tail(net[k].up) \in Seq(Ups(k))
           /\ net[k].down # <<>> => /\ Head(net[k].down) \in Message
                                    /\ Tail(net[k].down) \in Seq(Message)
<1>1. net[k].up \in Seq(Ups(k)) /\ net[k].down \in Seq(Message) /\ ConnOK(k, net[k])
  BY DEF NetOK, ConnOK
<1> QED BY <1>1

(* The connection that was given up is left behind.                        *)
LEMMA AcceptingOK ==
    ASSUME ClientOK, NEW error,
           c' = Accepting \/ c' = [Accepting EXCEPT !.phase = "ended", !.error = error]
    PROVE  ClientOK'
<1> DEFINE a == Accepting
           e == [a EXCEPT !.phase = "ended", !.error = error]
<1>1. /\ HasFields(a, {"phase", "conn", "pend", "ping", "pings", "inst", "error"})
      /\ a.conn = 0 /\ a.pings = 0 /\ a.phase = "accept"
  BY DEF ClientOK, Accepting, HasFields
<1>2. CASE c' = a
  BY <1>1, <1>2 DEF ClientOK, HasFields
<1>3. CASE c' = e
  <2> HIDE DEF a
  <2>1. HasFields(e, {"phase", "conn", "pend", "ping", "pings", "inst", "error"})
    BY <1>1 DEF HasFields
  <2>2. e.conn = 0 /\ e.pings = 0 /\ e.phase = "ended"
    BY <1>1 DEF HasFields
  <2> HIDE DEF e
  <2> QED BY <1>3, <2>1, <2>2 DEF ClientOK, HasFields
<1> QED BY <1>2, <1>3

LEMMA IdleOK ==
    ASSUME HookOK, startup' = startup, h' = Idle, data' = data
    PROVE  HookOK'
<1>1. <<>> \in Seq([t : {"Result", "Pong", "Startup"}, v : Values])
  OBVIOUS
<1> QED BY <1>1 DEF HookOK, Idle, HasFields

LEMMA EndedOK ==
    ASSUME HookOK, startup' = startup, HookEnds
    PROVE  HookOK'
<1>1. <<>> \in Seq([t : {"Result", "Pong", "Startup"}, v : Values])
      /\ <<>> \in Seq(Conns \cup {0})
  OBVIOUS
<1> QED BY <1>1 DEF HookOK, HookEnds, Idle, HasFields

LEMMA FailsKeeps ==
    ASSUME IpcInv, \/ \E error \in BOOLEAN : ClientFails(error)
                   \/ ClientReconnects
    PROVE  NetOK' /\ ClientOK' /\ CallsOK'
<1>1. NetOK /\ ClientOK /\ CallsOK /\ c.conn \in Conns \cup {0}
  BY DEF IpcInv, ClientOK
<1>2. CASE \E error \in BOOLEAN : ClientFails(error)
  <2>1. PICK error \in BOOLEAN : ClientFails(error)
    BY <1>2
  <2>2. CallsOK'
    BY <1>1, <2>1, RejectKeeps DEF ClientFails, ClientEnds
  <2>3. ClientOK'
    BY <1>1, <2>1, AcceptingOK DEF ClientFails, ClientEnds
  <2> QED BY <1>1, <2>1, <2>2, <2>3, LetGoKeeps DEF ClientFails
<1>3. CASE ClientReconnects
  BY <1>1, <1>3, LetGoKeeps, RejectKeeps, AcceptingOK DEF ClientReconnects
<1> QED BY <1>2, <1>3

(* The listener between connections, and the handshake.                    *)
LEMMA ListenerKeeps ==
    ASSUME IpcInv, \/ ListenerCancelled \/ ListenerExpires \/ Accept
                   \/ RejectPendingControls \/ ServerHello \/ HandshakeInterrupted
                   \/ EndpointReady \/ \E hello \in ForeignHellos : AcceptForeign(hello)
    PROVE  NetOK' /\ ClientOK' /\ CallsOK'
<1>1. NetOK /\ ClientOK /\ CallsOK /\ c.conn \in Conns \cup {0}
  BY DEF IpcInv, ClientOK
<1>2. CASE \/ ListenerCancelled \/ ListenerExpires
           \/ \E hello \in ForeignHellos : AcceptForeign(hello)
  BY <1>2, FailsKeeps DEF ListenerCancelled, ListenerExpires, AcceptForeign
<1>3. CASE Accept
  <2>1. PICK k \in Backlog : k = CHOOSE x \in Backlog : \A j \in Backlog : x <= j
    <3>1. Backlog \subseteq Nat /\ Backlog # {}
      BY <1>3 DEF Accept, Backlog, Conns
    <3>2. \E k \in Backlog : \A j \in Backlog : k <= j
      BY <3>1, LeastExists
    <3> QED BY <3>2
  <2> DEFINE n == [net[k] EXCEPT !.taken = TRUE, !.cm = TRUE]
  <2>2. /\ Becomes(k, n)
        /\ c' = [c EXCEPT !.phase = "handshake", !.conn = k]
        /\ UNCHANGED <<ctl, calls>>
    BY <1>3, <2>1 DEF Accept
  <2>3. k \in Conns
    BY DEF Backlog
  <2>4. ConnOK(k, n)
    BY <1>1, <2>3 DEF NetOK, ConnOK, HasFields, ConnFields
  <2> HIDE DEF n
  <2>5. NetOK'
    BY <1>1, <2>2, <2>3, <2>4, BecomesKeeps
  <2>6. ClientOK'
    BY <1>1, <2>2, <2>3 DEF ClientOK, HasFields
  <2> QED BY <1>1, <2>2, <2>5, <2>6 DEF CallsOK, AnswerIsOwn
<1>4. CASE RejectPendingControls
  <2>1. UNCHANGED <<c, net>> /\ RejectCalls(ToSet(ctl))
    BY <1>4 DEF RejectPendingControls
  <2> QED BY <1>1, <2>1, RejectKeeps DEF NetOK, ClientOK
<1>5. CASE ServerHello
  <2> DEFINE k == c.conn
             n == [net[k] EXCEPT !.up = Tail(net[k].up),
                                 !.down = Append(net[k].down, Msg("Handshake", 0))]
  <2>1. /\ c.phase = "handshake" /\ net[k].up # <<>>
        /\ c' = [c EXCEPT !.phase = "await_ready"]
        /\ Becomes(k, n) /\ UNCHANGED <<ctl, calls>>
    BY <1>5 DEF ServerHello
  <2>2. k \in Conns
    BY <1>1, <2>1 DEF ClientOK
  <2>3. /\ ConnOK(k, net[k]) /\ Tail(net[k].up) \in Seq(Ups(k))
        /\ Append(net[k].down, Msg("Handshake", 0)) \in Seq(Message)
    <3>1. Msg("Handshake", 0) \in Message
      BY DEF Msg, Message, Values
    <3>2. ConnOK(k, net[k]) /\ Tail(net[k].up) \in Seq(Ups(k))
      BY <1>1, <2>1, <2>2, NextMessages
    <3> HIDE DEF k
    <3> QED BY <3>1, <3>2 DEF ConnOK
  <2>4. ConnOK(k, n)
    BY <2>3 DEF ConnOK, HasFields, ConnFields
  <2> HIDE DEF n, k
  <2>5. NetOK'
    BY <1>1, <2>1, <2>2, <2>4, BecomesKeeps
  <2>6. ClientOK'
    BY <1>1, <2>1 DEF ClientOK, HasFields
  <2> QED BY <1>1, <2>1, <2>5, <2>6 DEF CallsOK, AnswerIsOwn
<1>6. CASE HandshakeInterrupted
  <2>1. c' = Accepting /\ ClientLetsGo(c.conn) /\ UNCHANGED <<ctl, calls>>
    BY <1>6 DEF HandshakeInterrupted
  <2> QED BY <1>1, <2>1, LetGoKeeps, AcceptingOK DEF CallsOK, AnswerIsOwn
<1>7. CASE EndpointReady
  <2>1. CASE Head(net[c.conn].up).t # "EndpointReady"
    BY <1>7, <2>1, FailsKeeps DEF EndpointReady
  <2>2. CASE Head(net[c.conn].up).t = "EndpointReady"
    <3> DEFINE k == c.conn
               n == [net[k] EXCEPT !.up = Tail(net[k].up), !.cr = TRUE]
    <3>1. /\ c.phase = "await_ready" /\ net[k].up # <<>>
          /\ c' = [c EXCEPT !.phase = "connected"]
          /\ Becomes(k, n) /\ UNCHANGED <<ctl, calls>>
      BY <1>7, <2>2 DEF EndpointReady
    <3>2. k \in Conns
      BY <1>1, <3>1 DEF ClientOK
    <3>3. ConnOK(k, net[k]) /\ Tail(net[k].up) \in Seq(Ups(k))
      BY <1>1, <3>1, <3>2, NextMessages
    <3>4. ConnOK(k, n)
      BY <3>3 DEF ConnOK, HasFields, ConnFields
    <3> HIDE DEF n, k
    <3>5. NetOK'
      BY <1>1, <3>1, <3>2, <3>4, BecomesKeeps
    <3>6. ClientOK'
      BY <1>1, <3>1 DEF ClientOK, HasFields
    <3> QED BY <1>1, <3>1, <3>5, <3>6 DEF CallsOK, AnswerIsOwn
  <2> QED BY <2>1, <2>2
<1> QED BY <1>2, <1>3, <1>4, <1>5, <1>6, <1>7

(* run_connection of the client, while the connection stands.              *)
LEMMA ClientReadsKeeps ==
    ASSUME IpcInv, \/ GotStartup \/ GotResult \/ GotPong \/ GotHealth \/ GotGoodbye \/ GotEof
    PROVE  NetOK' /\ ClientOK' /\ CallsOK'
<1> DEFINE k == c.conn
           took == [net[k] EXCEPT !.up = Tail(net[k].up)]
<1>1. NetOK /\ ClientOK /\ CallsOK /\ c.phase = "connected" /\ k \in Conns
  BY DEF IpcInv, ClientOK, GotStartup, GotResult, GotPong, GotHealth, GotGoodbye, GotEof,
         Got, Connected
<1>2. ConnOK(k, net[k])
  BY <1>1, NextMessages
<1>3. CASE GotEof
  <2> DEFINE n == [net[k] EXCEPT !.cm = FALSE, !.cr = FALSE]
  <2>1. c' = Accepting /\ RejectCalls(c.pend \cup ToSet(ctl)) /\ Becomes(k, n)
    BY <1>3 DEF GotEof
  <2>2. ConnOK(k, n)
    BY <1>2 DEF ConnOK, HasFields, ConnFields
  <2> HIDE DEF n, k
  <2> QED BY <1>1, <2>1, <2>2, BecomesKeeps, RejectKeeps, AcceptingOK
<1>4. CASE \/ GotStartup \/ GotResult \/ GotPong \/ GotHealth \/ GotGoodbye
  <2>1. net[k].up # <<>>
    BY <1>4 DEF GotStartup, GotResult, GotPong, GotHealth, GotGoodbye, Got
  <2>2. Tail(net[k].up) \in Seq(Ups(k))
    BY <1>1, <2>1, NextMessages
  <2>3. ConnOK(k, took)
    BY <1>2, <2>2 DEF ConnOK, HasFields, ConnFields
  <2>4. Taken => NetOK'
    <3>1. Taken => Becomes(k, took)
      BY DEF Taken
    <3> HIDE DEF took, k
    <3> QED BY <1>1, <2>3, <3>1, BecomesKeeps
  <2>5. CASE GotStartup
    <3>1. /\ Taken /\ UNCHANGED <<ctl, calls>>
          /\ c' = [c EXCEPT !.inst = IF Value = "Installing" THEN "Pending" ELSE Value]
      BY <2>5 DEF GotStartup
    <3> HIDE DEF k, took
    <3> QED BY <1>1, <2>4, <3>1 DEF ClientOK, HasFields, CallsOK, AnswerIsOwn
  <2>6. CASE GotResult
    <3>1. CASE Value \in c.pend
      <4>1. /\ calls' = Answer({Value}, Value) /\ ctl' = ctl
            /\ c' = [c EXCEPT !.pend = c.pend \ {Value}]
            /\ Taken
        BY <2>6, <3>1 DEF GotResult, Answered
      <4> HIDE DEF k, took
      <4>2. CallsOK'
        BY <1>1, <4>1 DEF CallsOK, AnswerIsOwn, Answer
      <4> QED BY <1>1, <2>4, <4>1, <4>2 DEF ClientOK, HasFields
    <3>2. CASE Value \notin c.pend
      BY <2>6, <3>2, FailsKeeps DEF GotResult
    <3> QED BY <3>1, <3>2
  <2>7. CASE GotPong
    <3>1. CASE Value = c.ping
      <4>1. c' = [c EXCEPT !.ping = 0] /\ Taken /\ UNCHANGED <<ctl, calls>>
        BY <2>7, <3>1 DEF GotPong
      <4> HIDE DEF k, took
      <4> QED BY <1>1, <2>4, <4>1 DEF ClientOK, HasFields, CallsOK, AnswerIsOwn
    <3>2. CASE Value # c.ping
      BY <2>7, <3>2, FailsKeeps DEF GotPong
    <3> QED BY <3>1, <3>2
  <2>8. CASE GotHealth
    <3>1. Taken /\ UNCHANGED <<c, ctl, calls>>
      BY <2>8 DEF GotHealth, ClientSide
    <3> QED BY <1>1, <2>4, <3>1 DEF ClientOK, CallsOK, AnswerIsOwn
  <2>9. CASE GotGoodbye
    <3> DEFINE n == [net[k] EXCEPT !.up = Tail(net[k].up), !.cm = FALSE, !.cr = FALSE]
    <3>1. ClientEnds(FALSE) /\ Becomes(k, n)
      BY <2>9 DEF GotGoodbye
    <3>2. ConnOK(k, n)
      BY <1>2, <2>2 DEF ConnOK, HasFields, ConnFields
    <3> HIDE DEF n, k, took
    <3> QED BY <1>1, <3>1, <3>2, BecomesKeeps, RejectKeeps, AcceptingOK DEF ClientEnds
  <2> QED BY <1>4, <2>5, <2>6, <2>7, <2>8, <2>9
<1> QED BY <1>3, <1>4

LEMMA ClientWritesKeeps ==
    ASSUME IpcInv, SendCall \/ SendPing \/ ConnectionCancelled
    PROVE  NetOK' /\ ClientOK' /\ CallsOK'
<1> DEFINE k == c.conn
<1>1. NetOK /\ ClientOK /\ CallsOK /\ c.phase = "connected" /\ k \in Conns
  BY DEF IpcInv, ClientOK, SendCall, SendPing, ConnectionCancelled, Connected
<1>2. ConnOK(k, net[k])
  BY <1>1, NextMessages
<1>3. ASSUME NEW m \in Message, ClientWrites(m)
      PROVE  NetOK'
  <2> DEFINE n == [net[k] EXCEPT !.down = Append(net[k].down, m)]
  <2>1. Becomes(k, n)
    BY <1>3 DEF ClientWrites
  <2> HIDE DEF k
  <2>2. Append(net[k].down, m) \in Seq(Message)
    BY <1>2 DEF ConnOK
  <2>3. ConnOK(k, n)
    BY <1>2, <2>2 DEF ConnOK, HasFields, ConnFields
  <2> HIDE DEF n
  <2> QED BY <1>1, <2>1, <2>3, BecomesKeeps
<1>4. CASE SendCall
  <2>1. /\ ClientWrites(Msg("Delay", Head(ctl))) /\ calls' = calls /\ ctl' = Tail(ctl)
        /\ c' = [c EXCEPT !.pend = c.pend \cup {Head(ctl)}] /\ ctl # <<>>
    BY <1>4 DEF SendCall
  <2>2. ctl \in Seq(CallIds)
    BY <1>1 DEF CallsOK
  <2>3. Head(ctl) \in CallIds /\ Tail(ctl) \in Seq(CallIds)
    BY <2>1, <2>2
  <2>4. Msg("Delay", Head(ctl)) \in Message
    BY <2>3 DEF Msg, Message, Values, CallIds
  <2> HIDE DEF k
  <2> QED BY <1>1, <1>3, <2>1, <2>3, <2>4 DEF ClientOK, HasFields, CallsOK, AnswerIsOwn
<1>5. CASE SendPing
  <2>1. /\ ClientWrites(Msg("Ping", c.pings + 1)) /\ UNCHANGED <<ctl, calls>>
        /\ c' = [c EXCEPT !.ping = c.pings + 1, !.pings = c.pings + 1]
    BY <1>5 DEF SendPing
  <2>2. c.pings + 1 \in Nat
    BY <1>1 DEF ClientOK
  <2>3. Msg("Ping", c.pings + 1) \in Message
    BY <2>2 DEF Msg, Message, Values
  <2> HIDE DEF k
  <2> QED BY <1>1, <1>3, <2>1, <2>2, <2>3 DEF ClientOK, HasFields, CallsOK, AnswerIsOwn
<1>6. CASE ConnectionCancelled
  <2>1. PICK told \in {<<>>, <<Msg("Shutdown", 0)>>} :
           Becomes(k, [net[k] EXCEPT !.cm = FALSE, !.down = net[k].down \o told])
    BY <1>6 DEF ConnectionCancelled
  <2> DEFINE n == [net[k] EXCEPT !.cm = FALSE, !.down = net[k].down \o told]
  <2>2. told \in Seq(Message)
    <3> DEFINE last == Msg("Shutdown", 0)
    <3>1. last \in Message
      BY DEF Msg, Message, Values
    <3>2. told = <<>> \/ told = <<last>>
      BY <2>1
    <3> HIDE DEF last
    <3>3. <<>> \in Seq(Message) /\ <<last>> \in Seq(Message)
      BY <3>1
    <3> QED BY <3>2, <3>3
  <2>3. Becomes(k, n) /\ ClientEnds(FALSE)
    BY <1>6, <2>1 DEF ConnectionCancelled
  <2>4. ConnOK(k, n)
    <3> HIDE DEF k
    <3>1. net[k].down \o told \in Seq(Message)
      BY <1>2, <2>2 DEF ConnOK
    <3> QED BY <1>2, <3>1 DEF ConnOK, HasFields, ConnFields
  <2> HIDE DEF n, k
  <2> QED BY <1>1, <2>3, <2>4, BecomesKeeps, RejectKeeps, AcceptingOK DEF ClientEnds
<1> QED BY <1>4, <1>5, <1>6

(* The callers, and the end of the session.                                *)
LEMMA CallersKeep ==
    ASSUME IpcInv, Cancel \/ \E i \in CallIds : Request(i) \/ GiveUp(i)
    PROVE  NetOK' /\ ClientOK' /\ CallsOK'
<1>1. NetOK /\ ClientOK /\ CallsOK
  BY DEF IpcInv
<1>2. CASE Cancel
  BY <1>1, <1>2 DEF Cancel, NetOK, ClientOK, CallsOK, AnswerIsOwn
<1>3. ASSUME NEW i \in CallIds, Request(i)
      PROVE  NetOK' /\ ClientOK' /\ CallsOK'
  <2>1. /\ calls' = [calls EXCEPT ![i] = Unanswered] /\ ctl' = Append(ctl, i)
        /\ UNCHANGED <<c, net>>
    BY <1>3 DEF Request
  <2>2. ctl' \in Seq(CallIds)
    BY <1>1, <2>1 DEF CallsOK
  <2> QED BY <1>1, <2>1, <2>2 DEF NetOK, ClientOK, CallsOK, AnswerIsOwn
<1>4. ASSUME NEW i \in CallIds, GiveUp(i)
      PROVE  NetOK' /\ ClientOK' /\ CallsOK'
  <2>1. /\ calls' = [calls EXCEPT ![i] = Failed] /\ UNCHANGED <<net, ctl>>
        /\ c' = [c EXCEPT !.pend = c.pend]
    BY <1>4 DEF GiveUp, StillPending
  <2> QED BY <1>1, <2>1 DEF NetOK, ClientOK, HasFields, CallsOK, AnswerIsOwn
<1> QED BY <1>2, <1>3, <1>4

LEMMA ClientStepKeeps ==
    ASSUME IpcInv, \/ ClientLoop \/ ListenerExpires \/ PongTimeout \/ InstallationExpires
                   \/ ClientWriteFails \/ SendPing \/ Cancel
                   \/ \E i \in CallIds : Request(i) \/ GiveUp(i)
                   \/ \E hello \in ForeignHellos : AcceptForeign(hello)
    PROVE  NetOK' /\ ClientOK' /\ CallsOK'
<1>1. CASE StartupFailed \/ PongTimeout \/ InstallationExpires \/ ClientWriteFails
  BY <1>1, FailsKeeps DEF StartupFailed, PongTimeout, InstallationExpires, ClientWriteFails
<1> QED BY <1>1, ListenerKeeps, ClientReadsKeeps, ClientWritesKeeps, CallersKeep DEF ClientLoop

(* The reader threads only move a connection on.                           *)
LEMMA ReadersKeep ==
    ASSUME NetOK, Readers
    PROVE  NetOK' /\ UNCHANGED <<ClientSide, HookSide>>
<1>1. PICK k \in Conns : GameArrives(k) \/ ClientReaderEnds(k) \/ HookReaderEnds(k)
  BY DEF Readers
<1>2. ConnOK(k, net[k])
  BY NextMessages
<1>3. CASE GameArrives(k)
  <2> DEFINE n == [net[k] EXCEPT !.up = Tail(net[k].up)]
  <2>1. Becomes(k, n) /\ net[k].up # <<>> /\ UNCHANGED <<ClientSide, HookSide>>
    BY <1>3 DEF GameArrives
  <2>2. Tail(net[k].up) \in Seq(Ups(k))
    BY <2>1, NextMessages
  <2>3. ConnOK(k, n)
    BY <1>2, <2>2 DEF ConnOK, HasFields, ConnFields
  <2> HIDE DEF n
  <2> QED BY <2>1, <2>3, BecomesKeeps
<1>4. CASE ClientReaderEnds(k)
  <2> DEFINE rest == IF net[k].up = <<>> THEN net[k].up ELSE Tail(net[k].up)
             n    == [net[k] EXCEPT !.up = rest, !.cr = FALSE]
  <2>1. Becomes(k, n) /\ UNCHANGED <<ClientSide, HookSide>>
    BY <1>4 DEF ClientReaderEnds
  <2>2. rest \in Seq(Ups(k))
    BY <1>2, NextMessages DEF ConnOK
  <2> HIDE DEF rest
  <2>3. ConnOK(k, n)
    BY <1>2, <2>2 DEF ConnOK, HasFields, ConnFields
  <2> HIDE DEF n
  <2> QED BY <2>1, <2>3, BecomesKeeps
<1>5. CASE HookReaderEnds(k)
  <2> DEFINE rest == IF net[k].down = <<>> THEN net[k].down ELSE Tail(net[k].down)
             n    == [net[k] EXCEPT !.down = rest, !.hr = FALSE]
  <2>1. Becomes(k, n) /\ UNCHANGED <<ClientSide, HookSide>>
    BY <1>5 DEF HookReaderEnds
  <2>2. rest \in Seq(Message)
    BY <1>2, NextMessages DEF ConnOK
  <2> HIDE DEF rest
  <2>3. ConnOK(k, n)
    BY <1>2, <2>2 DEF ConnOK, HasFields, ConnFields
  <2> HIDE DEF n
  <2> QED BY <2>1, <2>3, BecomesKeeps
<1> QED BY <1>1, <1>3, <1>4, <1>5

(* The worker of the hook between connections, and the handshake, which    *)
(* throws away the packets of the time before.                             *)
LEMMA HookConnectingKeeps ==
    ASSUME IpcInv, \/ HookStops \/ HookExpires \/ HookConnects \/ HookHandshake
                   \/ HookHandshakeExpires \/ HookHandshakeLost
    PROVE  NetOK' /\ HookOK' /\ UNCHANGED ClientSide
<1>1. NetOK /\ HookOK /\ h.conn \in Conns \cup {0}
  BY DEF IpcInv, HookOK
<1>2. CASE HookStops \/ HookExpires
  BY <1>1, <1>2, EndedOK DEF HookStops, HookExpires, NetOK
<1>3. CASE HookConnects
  <2>1. PICK k \in Conns :
           /\ h' = [h EXCEPT !.phase = "handshake", !.conn = k]
           /\ Becomes(k, [net[k] EXCEPT !.used = TRUE, !.hm = TRUE,
                                        !.up = <<Msg("Handshake", 0)>>])
    BY <1>3 DEF HookConnects
  <2>2. UNCHANGED <<ClientSide, data, startup>>
    BY <1>3 DEF HookConnects
  <2> DEFINE hello == <<Msg("Handshake", 0)>>
             n == [net[k] EXCEPT !.used = TRUE, !.hm = TRUE, !.up = hello]
  <2>3. hello \in Seq(Ups(k))
    <3>1. Msg("Handshake", 0) \in Ups(k)
      BY DEF Msg, Message, Values, Ups
    <3> QED BY <3>1
  <2>4. Becomes(k, n)
    BY <2>1
  <2> HIDE DEF hello
  <2>5. ConnOK(k, n)
    BY <1>1, <2>3, NextMessages DEF ConnOK, HasFields, ConnFields
  <2> HIDE DEF n
  <2>6. NetOK'
    BY <1>1, <2>4, <2>5, BecomesKeeps
  <2>7. HookOK'
    BY <1>1, <2>1, <2>2 DEF HookOK, HasFields
  <2> QED BY <2>2, <2>6, <2>7
<1>4. CASE HookHandshake
  <2> DEFINE k  == h.conn
             up == Append(net[k].up, Msg("EndpointReady", 0))
             n  == [net[k] EXCEPT !.down = Tail(net[k].down), !.hr = TRUE, !.up = up]
  <2>1. /\ h.phase = "handshake" /\ net[k].down # <<>> /\ Becomes(k, n)
        /\ h' = [h EXCEPT !.phase = "connected"] /\ data' = <<>>
        /\ UNCHANGED <<ClientSide, startup>>
    BY <1>4 DEF HookHandshake, DiscardStaleData
  <2>2. k \in Conns
    BY <1>1, <2>1 DEF HookOK
  <2>3. ConnOK(k, net[k]) /\ Tail(net[k].down) \in Seq(Message)
    BY <1>1, <2>1, <2>2, NextMessages
  <2>4. up \in Seq(Ups(k))
    <3>1. Msg("EndpointReady", 0) \in Ups(k)
      BY DEF Msg, Message, Values, Ups
    <3> HIDE DEF k
    <3> QED BY <2>3, <3>1 DEF ConnOK
  <2> HIDE DEF up
  <2>5. ConnOK(k, n)
    BY <2>3, <2>4 DEF ConnOK, HasFields, ConnFields
  <2> HIDE DEF n, k
  <2>6. NetOK'
    BY <1>1, <2>1, <2>2, <2>5, BecomesKeeps
  <2>7. HookOK'
    <3>1. \A S : <<>> \in Seq(S)
      OBVIOUS
    <3>2. data' \in Seq(Conns \cup {0}) /\ data' \in Seq({(h').conn})
      BY <2>1, <3>1
    <3>3. (h').conn = h.conn /\ (h').out = h.out /\ h.conn \in Conns
      BY <1>1, <2>1 DEF HookOK, HasFields
    <3> QED BY <1>1, <2>1, <3>2, <3>3 DEF HookOK, HasFields
  <2> QED BY <2>1, <2>6, <2>7
<1>5. CASE HookHandshakeExpires
  BY <1>1, <1>5, EndedOK, LetGoKeeps DEF HookHandshakeExpires
<1>6. CASE HookHandshakeLost
  <2>1. HookLetsGo(h.conn) /\ UNCHANGED <<ClientSide, startup>>
    BY <1>6 DEF HookHandshakeLost
  <2>2. (h' = Idle /\ data' = data) \/ HookEnds
    BY <1>6 DEF HookHandshakeLost
  <2>3. HookOK'
    BY <1>1, <2>1, <2>2, EndedOK, IdleOK
  <2> QED BY <1>1, <2>1, <2>3, LetGoKeeps
<1> QED BY <1>2, <1>3, <1>4, <1>5, <1>6

(* run_connection of the hook.                                             *)
LEMMA HookReadsKeeps ==
    ASSUME IpcInv, \/ HookDelay \/ HookPing \/ HookShutdown \/ HookDisconnected
    PROVE  NetOK' /\ HookOK' /\ UNCHANGED ClientSide
<1> DEFINE k == h.conn
<1>1. NetOK /\ HookOK /\ h.phase = "connected" /\ k \in Conns
  BY DEF IpcInv, HookOK, HookDelay, HookPing, HookShutdown, HookDisconnected, HookGot, HookLoop
<1>2. ConnOK(k, net[k])
  BY <1>1, NextMessages
<1>3. CASE HookDisconnected
  <2> DEFINE n == [net[k] EXCEPT !.hm = FALSE, !.hr = FALSE]
  <2>1. Becomes(k, n) /\ h' = Idle /\ UNCHANGED <<ClientSide, data, startup>>
    BY <1>3 DEF HookDisconnected
  <2>2. ConnOK(k, n)
    BY <1>2 DEF ConnOK, HasFields, ConnFields
  <2> HIDE DEF n, k
  <2> QED BY <1>1, <2>1, <2>2, BecomesKeeps, IdleOK
<1>4. CASE HookDelay \/ HookPing \/ HookShutdown
  <2>1. net[k].down # <<>>
    BY <1>4 DEF HookDelay, HookPing, HookShutdown, HookGot
  <2>2. Head(net[k].down) \in Message /\ Tail(net[k].down) \in Seq(Message)
    BY <1>1, <2>1, NextMessages
  <2>3. CASE HookShutdown
    <3> DEFINE n == [net[k] EXCEPT !.down = Tail(net[k].down), !.hm = FALSE, !.hr = FALSE]
    <3>1. Becomes(k, n) /\ HookEnds /\ UNCHANGED <<ClientSide, startup>>
      BY <2>3 DEF HookShutdown
    <3>2. ConnOK(k, n)
      BY <1>2, <2>2 DEF ConnOK, HasFields, ConnFields
    <3> HIDE DEF n, k
    <3> QED BY <1>1, <3>1, <3>2, BecomesKeeps, EndedOK
  <2>4. ASSUME NEW t \in {"Result", "Pong"}, HookTaken, UNCHANGED <<ClientSide, data, startup>>,
               h' = [h EXCEPT !.out = Append(h.out, Msg(t, HookValue))]
        PROVE  NetOK' /\ HookOK' /\ UNCHANGED ClientSide
    <3> DEFINE n == [net[k] EXCEPT !.down = Tail(net[k].down)]
               m == Msg(t, HookValue)
    <3>1. Becomes(k, n)
      BY <2>4 DEF HookTaken
    <3>2. ConnOK(k, n)
      BY <1>2, <2>2 DEF ConnOK, HasFields, ConnFields
    <3>3. m \in [t : {"Result", "Pong", "Startup"}, v : Values]
      BY <2>2 DEF Msg, HookValue, Message
    <3>4. h' = [h EXCEPT !.out = Append(h.out, m)]
      BY <2>4
    <3> HIDE DEF n, m, k
    <3>5. NetOK'
      BY <1>1, <3>1, <3>2, BecomesKeeps
    <3>6. Append(h.out, m) \in Seq([t : {"Result", "Pong", "Startup"}, v : Values])
      BY <1>1, <3>3 DEF HookOK
    <3>7. HookOK'
      BY <1>1, <2>4, <3>4, <3>6 DEF HookOK, HasFields
    <3> QED BY <2>4, <3>5, <3>7
  <2>5. CASE HookDelay
    BY <2>4, <2>5 DEF HookDelay
  <2>6. CASE HookPing
    BY <2>4, <2>6 DEF HookPing
  <2> QED BY <1>4, <2>3, <2>5, <2>6
<1> QED BY <1>3, <1>4

LEMMA HookWritesKeeps ==
    ASSUME IpcInv, \/ HookWrites \/ HookHealth \/ HookGame \/ HookWriteFails \/ HookGoodbye
    PROVE  NetOK' /\ HookOK' /\ UNCHANGED ClientSide
<1> DEFINE k == h.conn
<1>1. NetOK /\ HookOK /\ h.phase = "connected" /\ k \in Conns /\ k \in Conns \cup {0}
  BY DEF IpcInv, HookOK, HookWrites, HookHealth, HookGame, HookWriteFails, HookGoodbye,
         HookCanPut, HookLoop
<1>2. ConnOK(k, net[k])
  BY <1>1, NextMessages
<1>3. ASSUME NEW m \in Ups(k), HookPut(m)
      PROVE  NetOK'
  <2> DEFINE n == [net[k] EXCEPT !.up = Append(net[k].up, m)]
  <2>1. Becomes(k, n)
    BY <1>3 DEF HookPut
  <2> HIDE DEF k
  <2>2. Append(net[k].up, m) \in Seq(Ups(k))
    BY <1>2, <1>3 DEF ConnOK
  <2>3. ConnOK(k, n)
    BY <1>2, <2>2 DEF ConnOK, HasFields, ConnFields
  <2> HIDE DEF n
  <2> QED BY <1>1, <2>1, <2>3, BecomesKeeps
<1>4. CASE HookWrites
  <2> DEFINE Outs == [t : {"Result", "Pong", "Startup"}, v : Values]
             out  == IF StartupNews THEN Append(h.out, Msg("Startup", startup)) ELSE h.out
  <2>1. /\ out # <<>> /\ HookPut(Head(out)) /\ UNCHANGED <<ClientSide, data, startup>>
        /\ h' = [h EXCEPT !.out = Tail(out), !.told = startup]
    BY <1>4 DEF HookWrites
  <2>2. out \in Seq(Outs)
    <3> DEFINE news == Msg("Startup", startup)
    <3>1. startup \in {"Installing", "Ready", "Failed"} /\ h.out \in Seq(Outs)
      BY <1>1 DEF HookOK
    <3>2. news = [t |-> "Startup", v |-> startup]
      BY DEF Msg
    <3>3. news \in Outs
      BY <3>1, <3>2 DEF Values
    <3> HIDE DEF news, Outs
    <3>4. Append(h.out, news) \in Seq(Outs)
      BY <3>1, <3>3
    <3> QED BY <3>1, <3>4 DEF news
  <2> HIDE DEF out
  <2>3. Head(out) \in Outs /\ Tail(out) \in Seq(Outs)
    <3> HIDE DEF Outs
    <3> QED BY <2>1, <2>2
  <2>4. Head(out) \in Ups(k)
    BY <2>3 DEF Ups, Message
  <2> HIDE DEF k
  <2>5. NetOK'
    BY <1>3, <2>1, <2>4
  <2>6. HookOK'
    BY <1>1, <2>1, <2>3 DEF HookOK, HasFields
  <2> QED BY <2>1, <2>5, <2>6
<1>5. CASE HookHealth
  <2>1. HookPut(Msg("Health", 0)) /\ UNCHANGED <<h, ClientSide, data, startup>>
    BY <1>5 DEF HookHealth
  <2>2. Msg("Health", 0) \in Ups(k)
    BY DEF Msg, Message, Values, Ups
  <2> QED BY <1>1, <1>3, <2>1, <2>2 DEF HookOK
<1>6. CASE HookGame
  <2>1. /\ HookPut(Msg("Game", Head(data))) /\ data' = Tail(data) /\ data # <<>>
        /\ UNCHANGED <<h, ClientSide, startup>>
    BY <1>6 DEF HookGame
  <2>2. data \in Seq({h.conn}) /\ data \in Seq(Conns \cup {0})
    BY <1>1 DEF HookOK
  <2>3. /\ Head(data) = h.conn /\ Tail(data) \in Seq({h.conn})
        /\ Tail(data) \in Seq(Conns \cup {0})
    BY <2>1, <2>2
  <2>4. Msg("Game", Head(data)) \in Ups(k)
    BY <1>1, <2>3 DEF Msg, Message, Values, Ups, Conns
  <2> HIDE DEF k
  <2> QED BY <1>1, <1>3, <2>1, <2>3, <2>4 DEF HookOK
<1>7. CASE HookWriteFails
  BY <1>1, <1>7, LetGoKeeps, IdleOK DEF HookWriteFails
<1>8. CASE HookGoodbye
  <2>1. PICK told \in {<<>>, <<Msg("Goodbye", 0)>>} :
           Becomes(k, [net[k] EXCEPT !.hm = FALSE, !.up = net[k].up \o told])
    BY <1>8 DEF HookGoodbye
  <2> DEFINE n == [net[k] EXCEPT !.hm = FALSE, !.up = net[k].up \o told]
  <2>2. told \in Seq(Ups(k))
    <3> DEFINE last == Msg("Goodbye", 0)
    <3>1. last \in Ups(k)
      BY DEF Msg, Message, Values, Ups
    <3>2. told = <<>> \/ told = <<last>>
      BY <2>1
    <3> HIDE DEF last, k
    <3>3. <<>> \in Seq(Ups(k)) /\ <<last>> \in Seq(Ups(k))
      BY <3>1
    <3> QED BY <3>2, <3>3
  <2>3. Becomes(k, n) /\ HookEnds /\ UNCHANGED <<ClientSide, startup>>
    BY <1>8, <2>1 DEF HookGoodbye
  <2>4. ConnOK(k, n)
    <3> HIDE DEF k
    <3>1. net[k].up \o told \in Seq(Ups(k))
      BY <1>2, <2>2 DEF ConnOK
    <3> QED BY <1>2, <3>1 DEF ConnOK, HasFields, ConnFields
  <2> HIDE DEF n, k
  <2> QED BY <1>1, <2>3, <2>4, BecomesKeeps, EndedOK
<1> QED BY <1>4, <1>5, <1>6, <1>7, <1>8

(* The game beside the worker.  A packet is queued for the connection that *)
(* is up, or for none.                                                     *)
LEMMA GameKeeps ==
    ASSUME IpcInv, \/ GameSends \/ ProcessDetach \/ GameKilled
                   \/ \E s \in {"Ready", "Failed"} : HooksInstalled(s)
    PROVE  NetOK' /\ HookOK' /\ UNCHANGED ClientSide
<1>1. NetOK /\ HookOK
  BY DEF IpcInv
<1>2. CASE GameSends
  <2> DEFINE p == IF h.phase = "connected" THEN h.conn ELSE 0
  <2>1. data' = Append(data, p) /\ UNCHANGED <<h, net, ClientSide, startup>>
    BY <1>2 DEF GameSends
  <2>2. p \in Conns \cup {0} /\ (h.phase = "connected" => p = h.conn)
    BY <1>1 DEF HookOK
  <2> HIDE DEF p
  <2>3. /\ data' \in Seq(Conns \cup {0})
        /\ h.phase = "connected" => data' \in Seq({h.conn})
    BY <1>1, <2>1, <2>2 DEF HookOK
  <2> QED BY <1>1, <2>1, <2>3 DEF HookOK, NetOK
<1>3. CASE ProcessDetach \/ \E s \in {"Ready", "Failed"} : HooksInstalled(s)
  BY <1>1, <1>3 DEF ProcessDetach, HooksInstalled, HookOK, NetOK
<1>4. CASE GameKilled
  <2>1. /\ net' = [k \in Conns |-> [net[k] EXCEPT !.hm = FALSE, !.hr = FALSE, !.down = <<>>]]
        /\ HookEnds /\ UNCHANGED <<ClientSide, startup>>
    BY <1>4 DEF GameKilled
  <2>2. NetOK'
    <3>1. net' = [k \in Conns |-> (net')[k]]
      BY <2>1
    <3>2. ASSUME NEW k \in Conns
          PROVE  ConnOK(k, (net')[k])
      <4>1. (net')[k] = [net[k] EXCEPT !.hm = FALSE, !.hr = FALSE, !.down = <<>>]
        BY <2>1
      <4>2. <<>> \in Seq(Message) /\ ConnOK(k, net[k])
        BY <1>1 DEF NetOK
      <4> QED BY <4>1, <4>2 DEF ConnOK, HasFields, ConnFields
    <3> QED BY <3>1, <3>2 DEF NetOK
  <2> QED BY <1>1, <2>1, <2>2, EndedOK
<1> QED BY <1>2, <1>3, <1>4

LEMMA IpcStarts == Init => IpcInv
<1> SUFFICES ASSUME Init PROVE IpcInv
  OBVIOUS
<1>1. \A S : <<>> \in Seq(S)
  OBVIOUS
<1>2. NetOK
  <2>1. \A k \in Conns : ConnOK(k, NewConn)
    BY <1>1 DEF ConnOK, HasFields, ConnFields, NewConn
  <2> QED BY <2>1 DEF Init, NetOK
<1>3. ClientOK
  BY DEF Init, ClientOK, HasFields
<1>4. HookOK
  BY <1>1 DEF Init, HookOK, HasFields
<1>5. CallsOK
  BY <1>1 DEF Init, CallsOK, AnswerIsOwn
<1> QED BY <1>2, <1>3, <1>4, <1>5 DEF IpcInv

(* Every step of the game, the hook and the client keeps the invariant.    *)
LEMMA IpcStep == IpcInv /\ [Next]_vars => IpcInv'
<1> SUFFICES ASSUME IpcInv, [Next]_vars PROVE IpcInv'
  OBVIOUS
<1>1. NetOK /\ ClientOK /\ HookOK /\ CallsOK
  BY DEF IpcInv
<1>2. CASE UNCHANGED vars
  BY <1>1, <1>2 DEF vars, ipc, IpcInv, NetOK, ClientOK, HookOK, CallsOK, AnswerIsOwn
<1>3. ASSUME NetOK', HookOK', UNCHANGED ClientSide
      PROVE  IpcInv'
  BY <1>1, <1>3 DEF ClientSide, IpcInv, ClientOK, CallsOK, AnswerIsOwn
<1>4. ASSUME NetOK', ClientOK', CallsOK', UNCHANGED HookSide
      PROVE  IpcInv'
  BY <1>1, <1>4 DEF HookSide, IpcInv, HookOK
<1>5. CASE Readers
  BY <1>1, <1>3, <1>5, ReadersKeep DEF HookSide, HookOK
<1>6. CASE HookWorker \/ HookExpires \/ HookHandshakeExpires \/ HookWriteFails \/ HookConnects
  BY <1>3, <1>6, HookConnectingKeeps, HookReadsKeeps, HookWritesKeeps DEF HookWorker
<1>7. CASE GameSends \/ ProcessDetach \/ GameKilled
           \/ \E s \in {"Ready", "Failed"} : HooksInstalled(s)
  BY <1>3, <1>7, GameKeeps
<1>8. CASE \/ ClientLoop \/ ListenerExpires \/ PongTimeout \/ InstallationExpires
           \/ ClientWriteFails \/ SendPing \/ Cancel
           \/ \E hello \in ForeignHellos : AcceptForeign(hello)
  <2>1. UNCHANGED HookSide
    BY <1>8 DEF ClientLoop, ListenerCancelled, Accept, RejectPendingControls, ServerHello,
         HandshakeInterrupted, EndpointReady, ConnectionCancelled, GotStartup, StartupFailed,
         GotResult, GotPong, GotHealth, GotGoodbye, GotEof, SendCall, ListenerExpires,
         PongTimeout, InstallationExpires, ClientWriteFails, SendPing, Cancel, AcceptForeign,
         ClientFails, ClientReconnects
  <2> QED BY <1>4, <1>8, <2>1, ClientStepKeeps
<1>9. CASE \E i \in Called : Request(i) \/ GiveUp(i)
  <2>1. PICK i \in Called : Request(i) \/ GiveUp(i)
    BY <1>9
  <2>2. UNCHANGED HookSide
    BY <2>1 DEF Request, GiveUp
  <2>3. i \in CallIds
    BY DEF Called
  <2> QED BY <1>4, <2>1, <2>2, <2>3, ClientStepKeeps
<1> QED BY <1>2, <1>5, <1>6, <1>7, <1>8, <1>9 DEF Next, Timers, Environment

(* Across timeouts, reconnects and late answers no caller is given the     *)
(* result of another's command (hook_ipc/connection.rs, pending ids).      *)
THEOREM AnswersAreOwn == Spec => []AnswerIsOwn
<1>1. IpcInv => AnswerIsOwn
  BY DEF IpcInv, CallsOK
<1> QED BY <1>1, IpcStarts, IpcStep, PTL DEF Spec

(* No game packet queued before a connection is sent on it                 *)
(* (ipc_worker.rs, discard_stale_data).                                    *)
THEOREM StaleGameNeverSent == Spec => []StaleGameDiscarded
<1>1. IpcInv => StaleGameDiscarded
  <2> SUFFICES ASSUME IpcInv, NEW k \in Conns, NEW i \in 1..Len(net[k].up),
                      net[k].up[i].t = "Game"
               PROVE  net[k].up[i].v = k
    BY DEF StaleGameDiscarded
  <2>1. net[k].up \in Seq(Ups(k))
    BY DEF IpcInv, NetOK, ConnOK
  <2>2. net[k].up[i] \in Ups(k)
    BY <2>1
  <2> QED BY <2>2 DEF Ups
<1> QED BY <1>1, IpcStarts, IpcStep, PTL DEF Spec

--------------------------------------------------------------------------------
(* Packets of the hook (NativeHook), for any queue limit and any number of *)
(* packets.  What carries the proof: while the game has been told a size,  *)
(* the first packet of that channel is still the one it was told of.       *)

Packets == [ch : Channels, size : Sizes]

(* i is the place of the first packet of channel ch in q.                  *)
IsFirst(q, ch, i) == /\ i \in 1..Len(q) /\ q[i].ch = ch
                     /\ \A j \in 1..Len(q) : j < i => q[j].ch # ch

PacketInv ==
    /\ queue \in Seq(Packets)
    /\ buffer \in [Channels -> Nat]
    /\ \A ch \in Channels : buffer[ch] # 0 =>
          \E i \in 1..Len(queue) : IsFirst(queue, ch, i) /\ queue[i].size = buffer[ch]
    /\ ~cut

(* First finds the first packet of the channel, if there is one.           *)
LEMMA FirstFinds ==
    ASSUME NEW ch, queue \in Seq(Packets)
    PROVE  /\ First(ch) # 0 => IsFirst(queue, ch, First(ch))
           /\ \A i : IsFirst(queue, ch, i) => First(ch) = i
<1> DEFINE I == {i \in 1..Len(queue) : queue[i].ch = ch}
<1>1. First(ch) = IF I # {} THEN Min(I) ELSE 0
  BY DEF First, SelectInSeq
<1>2. Len(queue) \in Nat /\ I \subseteq Nat
  OBVIOUS
<1>3. ASSUME I # {}
      PROVE  Min(I) \in I /\ \A j \in I : Min(I) <= j
  <2>1. \E i \in I : \A j \in I : i <= j
    BY <1>2, <1>3, LeastExists
  <2> HIDE DEF I
  <2> QED BY <2>1 DEF Min
<1>4. ASSUME I # {}
      PROVE  IsFirst(queue, ch, Min(I))
  <2> DEFINE m == Min(I)
  <2>1. m \in I /\ \A j \in I : m <= j
    BY <1>3, <1>4
  <2> HIDE DEF m
  <2>2. m \in 1..Len(queue) /\ m \in Nat /\ queue[m].ch = ch
    BY <1>2, <2>1
  <2>3. ASSUME NEW j \in 1..Len(queue), j < m
        PROVE  queue[j].ch # ch
    <3>1. j \notin I
      BY <2>1, <2>2, <2>3
    <3> QED BY <3>1
  <2> QED BY <2>2, <2>3 DEF IsFirst, m
<1>5. ASSUME NEW i, IsFirst(queue, ch, i)
      PROVE  I # {} /\ Min(I) = i
  <2>1. i \in I
    BY <1>5 DEF IsFirst
  <2>2. \A j \in I : i <= j
    BY <1>2, <1>5 DEF IsFirst
  <2>3. Min(I) \in I /\ \A j \in I : Min(I) <= j
    BY <1>3, <2>1
  <2> DEFINE m == Min(I)
  <2>4. m \in I /\ i <= m /\ m <= i /\ m \in Nat /\ i \in Nat
    <3> HIDE DEF I
    <3> QED BY <1>2, <2>1, <2>2, <2>3
  <2> HIDE DEF I, m
  <2>5. m = i
    BY <2>4
  <2> QED BY <2>1, <2>5 DEF m
<1> HIDE DEF I
<1> QED BY <1>1, <1>4, <1>5

LEMMA PacketStep == PacketInv /\ [HookNext]_hookVars => PacketInv'
<1> SUFFICES ASSUME PacketInv, [HookNext]_hookVars PROVE PacketInv'
  OBVIOUS
<1> USE DEF PacketInv
<1>1. CASE UNCHANGED packetVars
  BY <1>1 DEF packetVars, IsFirst
<1>2. ASSUME NEW ch \in Channels, NEW size \in Sizes, Arrive(ch, size)
      PROVE  PacketInv'
  <2> DEFINE p == [ch |-> ch, size |-> size]
  <2>1. UNCHANGED <<buffer, cut>> /\ (queue' = queue \/ queue' = Append(queue, p))
    BY <1>2 DEF Arrive, Enqueued
  <2>2. CASE queue' = queue
    BY <2>1, <2>2 DEF IsFirst
  <2>3. CASE queue' = Append(queue, p)
    <3>1. p \in Packets
      BY DEF Packets
    <3> HIDE DEF p
    <3>2. queue' \in Seq(Packets)
      BY <2>3, <3>1
    <3>3. ASSUME NEW d \in Channels, NEW i \in 1..Len(queue), IsFirst(queue, d, i)
          PROVE  i \in 1..Len(queue') /\ IsFirst(queue', d, i) /\ (queue')[i] = queue[i]
      <4>1. /\ Len(queue') = Len(queue) + 1 /\ Len(queue) \in Nat
            /\ \A j \in 1..Len(queue) : (queue')[j] = queue[j]
        BY <2>3, <3>1
      <4> QED BY <3>3, <4>1, SMTT(30) DEF IsFirst
    <3> QED BY <2>1, <3>2, <3>3
  <2> QED BY <2>1, <2>2, <2>3
<1>3. ASSUME NEW ch \in Channels, Available(ch)
      PROVE  PacketInv'
  <2> DEFINE f == First(ch)
  <2>1. /\ f # 0 /\ UNCHANGED <<queue, cut>>
        /\ buffer' = [buffer EXCEPT ![ch] = queue[f].size]
    BY <1>3 DEF Available
  <2>2. IsFirst(queue, ch, f)
    BY <2>1, FirstFinds
  <2> HIDE DEF f
  <2>3. IsFirst(queue', ch, f) /\ f \in 1..Len(queue') /\ queue[f].size \in Nat
    <3>1. f \in 1..Len(queue)
      BY <2>2 DEF IsFirst
    <3>2. queue[f] \in Packets
      BY <3>1
    <3>3. queue[f].size \in Nat
      BY <3>2 DEF Packets, Sizes
    <3> QED BY <2>1, <2>2, <3>1, <3>3 DEF IsFirst
  <2>4. ASSUME NEW d \in Channels, (buffer')[d] # 0
        PROVE  \E i \in 1..Len(queue') : IsFirst(queue', d, i) /\ (queue')[i].size = (buffer')[d]
    <3>1. CASE d = ch
      BY <2>1, <2>3, <3>1
    <3>2. CASE d # ch
      <4>1. (buffer')[d] = buffer[d]
        BY <2>1, <3>2
      <4>2. PICK i \in 1..Len(queue) : IsFirst(queue, d, i) /\ queue[i].size = buffer[d]
        BY <2>4, <4>1
      <4> HIDE DEF PacketInv
      <4>3. IsFirst(queue', d, i) /\ i \in 1..Len(queue') /\ (queue')[i].size = (buffer')[d]
        BY <2>1, <4>1, <4>2 DEF IsFirst
      <4> QED BY <4>3
    <3> QED BY <3>1, <3>2
  <2>5. buffer' \in [Channels -> Nat]
    BY <2>1, <2>3
  <2> QED BY <2>1, <2>4, <2>5
<1>4. ASSUME NEW ch \in Channels, ReadPacket(ch)
      PROVE  PacketInv'
  <2> DEFINE f == First(ch)
  <2>1. /\ buffer[ch] > 0
        /\ cut' = (cut \/ queue[f].size > buffer[ch])
        /\ queue' = RemoveAt(queue, f)
        /\ buffer' = [buffer EXCEPT ![ch] = 0]
    BY <1>4 DEF ReadPacket
  <2>2. IsFirst(queue, ch, f) /\ queue[f].size = buffer[ch]
    <3>1. PICK i \in 1..Len(queue) : IsFirst(queue, ch, i) /\ queue[i].size = buffer[ch]
      <4>1. buffer[ch] # 0
        BY <2>1
      <4> QED BY <4>1
    <3>2. f = i
      BY <3>1, FirstFinds
    <3> QED BY <3>1, <3>2
  <2> HIDE DEF f
  <2>3. f \in 1..Len(queue) /\ Len(queue) \in Nat
    BY <2>2 DEF IsFirst
  <2>4. ~(queue[f].size > buffer[ch])
    <3>1. buffer[ch] \in Nat
      OBVIOUS
    <3> QED BY <2>2, <3>1
  <2>5. ~cut'
    BY <2>1, <2>4
  <2>6. /\ queue' \in Seq(Packets) /\ Len(queue') = Len(queue) - 1
        /\ \A j \in 1..Len(queue) : /\ j < f => (queue')[j] = queue[j]
                                    /\ j > f => (queue')[j - 1] = queue[j]
    <3>1. /\ queue' \in Seq(Packets) /\ Len(queue') = Len(queue) - 1
          /\ \A j \in 1..Len(queue) - 1 : (queue')[j] = IF j < f THEN queue[j] ELSE queue[j + 1]
      BY <2>1, <2>3, RemovedAt
    <3>2. ASSUME NEW j \in 1..Len(queue), j > f
          PROVE  (queue')[j - 1] = queue[j]
      <4>1. j - 1 \in 1..Len(queue) - 1 /\ ~(j - 1 < f) /\ (j - 1) + 1 = j
        BY <2>3, <3>2
      <4> QED BY <3>1, <4>1
    <3>3. ASSUME NEW j \in 1..Len(queue), j < f
          PROVE  (queue')[j] = queue[j]
      BY <2>3, <3>1, <3>3
    <3> QED BY <3>1, <3>2, <3>3
  <2>7. ASSUME NEW d \in Channels, (buffer')[d] # 0
        PROVE  \E i \in 1..Len(queue') : IsFirst(queue', d, i) /\ (queue')[i].size = (buffer')[d]
    <3>1. d # ch /\ (buffer')[d] = buffer[d]
      BY <2>1, <2>7
    <3>2. PICK i \in 1..Len(queue) : IsFirst(queue, d, i) /\ queue[i].size = buffer[d]
      BY <2>7, <3>1
    <3>3. i # f
      BY <2>2, <3>1, <3>2 DEF IsFirst
    <3>4. CASE i < f
      <4>1. i \in 1..Len(queue') /\ (queue')[i] = queue[i]
        BY <2>3, <2>6, <3>4
      <4>2. \A j \in 1..Len(queue') : j < i => (queue')[j].ch # d
        BY <2>3, <2>6, <3>2, <3>4 DEF IsFirst
      <4> QED BY <3>1, <3>2, <4>1, <4>2 DEF IsFirst
    <3>5. CASE i > f
      <4>1. i - 1 \in 1..Len(queue') /\ (queue')[i - 1] = queue[i]
        BY <2>3, <2>6, <3>5, SMTT(30)
      <4>2. ASSUME NEW j \in 1..Len(queue'), j < i - 1
            PROVE  (queue')[j].ch # d
        <5>1. CASE j < f
          BY <2>3, <2>6, <3>2, <3>5, <4>2, <5>1 DEF IsFirst
        <5>2. CASE ~(j < f)
          <6>1. j + 1 \in 1..Len(queue) /\ j + 1 > f /\ j + 1 < i /\ (j + 1) - 1 = j
            BY <2>3, <2>6, <4>2, <5>2
          <6>2. (queue')[j] = queue[j + 1]
            BY <2>6, <6>1
          <6> QED BY <3>2, <6>1, <6>2 DEF IsFirst
        <5> QED BY <5>1, <5>2
      <4> QED BY <3>1, <3>2, <4>1, <4>2 DEF IsFirst
    <3> QED BY <2>3, <3>3, <3>4, <3>5
  <2> QED BY <2>1, <2>5, <2>6, <2>7
<1> QED BY <1>1, <1>2, <1>3, <1>4
    DEF HookNext, hookVars, packetVars, PatchImport, ReplaceImport, ImportsDone, Patching, Probe,
        EnterInstall, PatchSlot, WriteSlot, Installed, FindInterface, RunCallbacks, Restored

(* The game reads whole packets only, whatever arrives, is dropped or is   *)
(* read on another channel between the announcement of a size and the read *)
(* (bridge.rs 208-261).                                                    *)
THEOREM PacketsAreWhole == HookSpec => []WholePackets
<1>1. HookInit => PacketInv
  <2> SUFFICES ASSUME HookInit PROVE PacketInv
    OBVIOUS
  <2>1. <<>> \in Seq(Packets)
    OBVIOUS
  <2>2. queue = <<>> /\ buffer = [ch \in Channels |-> 0] /\ ~cut
    BY DEF HookInit
  <2> QED BY <2>1, <2>2 DEF PacketInv
<1>2. PacketInv => WholePackets
  BY DEF PacketInv, WholePackets
<1> QED BY <1>1, <1>2, PacketStep, PTL DEF HookSpec

--------------------------------------------------------------------------------
(* The session runtime (Session), for any modes and identities and queues  *)
(* of any length.  Four facts carry the proofs.  A client that holds no    *)
(* session has a supervisor that has sent Stopped: its route and its data  *)
(* plane are gone, though not yet what nobody read in its queue.  The      *)
(* generation in a slot is the one that the route, the starting session,   *)
(* a queued command or a command left behind will give back.  Of one       *)
(* session at most one Stopped is ever unread.  And the launch files of a  *)
(* session with a hook are known to the client until it ends.              *)

ClientFields == {"pc", "then", "want", "again", "id", "session", "status", "phase", "game",
                 "joined", "room", "resume", "params"}
SlotNames == {"hook", "relay"}
Events    == Reports \cup Phases \cup Ids
Thens     == {"none", "leave", "lost", "shutdown", "rejoin", "start"}

(* A client that knows where the launch files of its hook session are.     *)
BridgeOK(b) == /\ HasFields(b, ClientFields)
               /\ b.session \in Modes \cup {"none"} /\ b.want \in Modes \cup {"none"}
               /\ b.then \in Thens
               /\ b.params \in {"none", "written", "forgotten"}
               /\ Persistent(b) => b.params = "written"

(* What is pending when the client is at b.pc.                             *)
PendingOK(b) == /\ b.then = "start" => b.pc = "join" /\ b.want # "none"
                /\ b.then = "shutdown" => b.pc = "join"
                /\ b.then # "none" => b.pc \in {"detach", "join"}
                /\ b.pc = "start" => b.session = "none" /\ b.want # "none"

(* A supervisor that has sent Stopped.                                     *)
Over == {"ended", "stopped"}

(* The supervisor of a client whose session is ss.                         *)
SupFor(ss) ==
    /\ HasFields(sup, {"pc", "cancelled", "mode", "plane", "hook"})
    /\ HasFields(route, SlotNames)
    /\ ss = "none" => sup.pc \in {"none"} \cup Over
    /\ sup.pc = "none" => ss = "none"
    /\ sup.pc \in {"none"} \cup Over => route = NoRoute
    /\ sup.pc \in {"none", "stopped"} => cmds = <<>>
    /\ sup.pc = "starting" => route = NoRoute
    /\ sup.pc # "starting" \/ sup.mode = "Official" => sup.plane = 0

(* Only a command that starts gameplay carries a data plane.               *)
QueueOK == /\ \E S : cmds \in Seq(S)
           /\ \A i \in 1..Len(cmds) : /\ HasFields(cmds[i], {"kind", "plane", "open"})
                                      /\ cmds[i].kind # "start" => cmds[i].plane = 0

(* The unread events q of a client whose session is ss and whose           *)
(* supervisor is at sp.                                                    *)
EventsFor(q, ss, sp) ==
    /\ q \in Seq(Events)
    /\ \A i, j \in 1..Len(q) : q[i] = "stopped" /\ q[j] = "stopped" => i = j
    /\ \A i \in 1..Len(q) : q[i] = "stopped" => sp \in Over /\ ss # "none"

(* What AttachmentsAreHeld says of each slot.                              *)
SlotsOK ==
    /\ HasFields(slots, SlotNames)
    /\ slots["hook"] # 0 => slots["hook"] = route.hook
    /\ slots["relay"] # 0 => \/ slots["relay"] = route.relay \/ slots["relay"] = sup.plane
                             \/ \E i \in 1..Len(cmds) : cmds[i].plane = slots["relay"]
                             \/ slots["relay"] = behind

SessionInv == /\ BridgeOK(client) /\ PendingOK(client)
              /\ SupFor(client.session) /\ QueueOK /\ SlotsOK
              /\ EventsFor(evs, client.session, sup.pc)

(* Steps of the client that leave the session and the call in progress.    *)
SameCall(b, d) == /\ d.pc = b.pc /\ d.then = b.then /\ d.want = b.want
                  /\ d.session = b.session /\ d.params = b.params

(* A client that becomes d leaves no launch files behind.                  *)
Tidy(b, d) == Stranded(d) => Stranded(b)

LEMMA PolledKeeps ==
    ASSUME NEW b, HasFields(b, ClientFields), NEW s
    PROVE  /\ HasFields(Stopped(b, s), ClientFields) /\ SameCall(b, Stopped(b, s))
           /\ HasFields(Polled(b, s), ClientFields) /\ SameCall(b, Polled(b, s))
           /\ HasFields(LeaveRelay(b), ClientFields) /\ SameCall(b, LeaveRelay(b))
<1>1. ASSUME NEW d, HasFields(d, ClientFields)
      PROVE  HasFields(AfterEvents(d, s), ClientFields) /\ SameCall(d, AfterEvents(d, s))
  BY <1>1 DEF AfterEvents, FinishGameExit, HasFields, ClientFields, SameCall
<1>2. ASSUME NEW d, HasFields(d, ClientFields)
      PROVE  HasFields(Stopped(d, s), ClientFields) /\ SameCall(d, Stopped(d, s))
  <2> DEFINE e == [d EXCEPT !.phase = PhaseAfter(d, s), !.game = GameAfter(d, s)]
  <2>1. HasFields(e, ClientFields) /\ SameCall(d, e)
    BY <1>2 DEF HasFields, ClientFields, SameCall
  <2>2. Stopped(d, s) = AfterEvents(e, s)
    BY DEF Stopped
  <2> HIDE DEF e
  <2> QED BY <1>1, <2>1, <2>2 DEF SameCall
<1>3. PICK x : Polled(b, s) = Stopped([b EXCEPT !.status = x], s)
  BY DEF Polled
<1> DEFINE f == [b EXCEPT !.status = x]
<1>4. HasFields(f, ClientFields) /\ SameCall(b, f)
  BY DEF HasFields, ClientFields, SameCall
<1>5. HasFields(LeaveRelay(b), ClientFields) /\ SameCall(b, LeaveRelay(b))
  BY DEF LeaveRelay, HasFields, ClientFields, SameCall
<1> HIDE DEF f
<1>6. HasFields(Polled(b, s), ClientFields) /\ SameCall(b, Polled(b, s))
  BY <1>2, <1>3, <1>4 DEF SameCall, f
<1> QED BY <1>2, <1>5, <1>6

(* cleanup_hook_launch_parameters, and a session that goes with its files. *)
FilesLeft(p) == IF p = "written" THEN "none" ELSE p

LEMMA FilesRemoved ==
    ASSUME NEW b, HasFields(b, ClientFields)
    PROVE  /\ HasFields(CleanupLaunch(b), ClientFields)
           /\ CleanupLaunch(b).params = FilesLeft(b.params)
           /\ \A f \in ClientFields \ {"params"} : CleanupLaunch(b)[f] = b[f]
<1> DEFINE p == FilesLeft(b.params)
           e == [b EXCEPT !.params = p]
<1>1. CleanupLaunch(b) = e
  BY DEF CleanupLaunch, FilesLeft
<1> HIDE DEF p
<1>2. HasFields(e, ClientFields) /\ e.params = p
      /\ \A f \in ClientFields \ {"params"} : e[f] = b[f]
  BY DEF HasFields, ClientFields
<1> HIDE DEF e
<1> QED BY <1>1, <1>2 DEF p

LEMMA GoneWithFiles ==
    ASSUME NEW b, BridgeOK(b), NEW e, HasFields(e, ClientFields),
           e.session = "none", e.then = b.then, e.want = b.want,
           e.params = FilesLeft(b.params)
    PROVE  BridgeOK(e) /\ Tidy(b, e)
  BY DEF BridgeOK, Tidy, Stranded, Persistent, FilesLeft

LEMMA CleanedUp ==
    ASSUME NEW b, BridgeOK(b), NEW s
    PROVE  /\ BridgeOK(Cleared(Polled(b, s), s)) /\ Tidy(b, Cleared(Polled(b, s), s))
           /\ \A f \in {"pc", "then", "want"} : Cleared(Polled(b, s), s)[f] = b[f]
           /\ Cleared(Polled(b, s), s).session = IF Contains(s, "stopped") THEN "none" ELSE b.session
<1> DEFINE p == Polled(b, s)
<1>1. HasFields(p, ClientFields) /\ SameCall(b, p)
  BY PolledKeeps DEF BridgeOK
<1>2. BridgeOK(p) /\ Tidy(b, p)
  BY <1>1 DEF BridgeOK, SameCall, Tidy, Stranded, Persistent
<1> HIDE DEF p
<1>3. CASE ~Contains(s, "stopped")
  <2>1. Cleared(p, s) = p
    BY <1>3 DEF Cleared
  <2> QED BY <1>1, <1>2, <1>3, <2>1 DEF p, SameCall
<1>4. CASE Contains(s, "stopped")
  <2> DEFINE n == [p EXCEPT !.session = "none"]
             e == CleanupLaunch(n)
  <2>1. HasFields(n, ClientFields) /\ n.session = "none" /\ n.params = p.params
        /\ n.pc = p.pc /\ n.then = p.then /\ n.want = p.want
    BY <1>2 DEF BridgeOK, HasFields, ClientFields
  <2>2. Cleared(p, s) = e
    BY <1>4 DEF Cleared
  <2> HIDE DEF n
  <2>3. HasFields(e, ClientFields) /\ e.session = "none" /\ e.params = FilesLeft(p.params)
        /\ e.pc = p.pc /\ e.then = p.then /\ e.want = p.want
    BY <2>1, FilesRemoved DEF ClientFields
  <2> HIDE DEF e
  <2>4. BridgeOK(e) /\ Tidy(p, e)
    BY <1>2, <2>3, GoneWithFiles
  <2> QED BY <1>1, <1>2, <1>4, <2>2, <2>3, <2>4 DEF p, SameCall, Tidy
<1> QED BY <1>3, <1>4

LEMMA JoinedKeeps ==
    ASSUME NEW b, BridgeOK(b)
    PROVE  /\ BridgeOK(Joined(b)) /\ Tidy(b, Joined(b)) /\ Joined(b).session = "none"
           /\ Joined(b).then = b.then /\ Joined(b).want = b.want
<1> DEFINE p == Stopped(b, evs)
           n == CleanupLaunch(p)
           m == [n EXCEPT !.session = "none"]
           e == [m EXCEPT !.status = "Idle"]
<1>1. HasFields(p, ClientFields) /\ SameCall(b, p)
  BY PolledKeeps DEF BridgeOK
<1>2. Joined(b) = e
  BY DEF Joined
<1> HIDE DEF p
<1>3. HasFields(n, ClientFields) /\ n.params = FilesLeft(p.params)
      /\ n.then = p.then /\ n.want = p.want
  BY <1>1, FilesRemoved DEF ClientFields
<1> HIDE DEF n
<1>4. HasFields(m, ClientFields) /\ m.params = n.params /\ m.session = "none"
      /\ m.then = p.then /\ m.want = p.want
  BY <1>3 DEF HasFields, ClientFields
<1> HIDE DEF m
<1>5. HasFields(e, ClientFields) /\ e.params = m.params /\ e.session = "none"
      /\ e.then = p.then /\ e.want = p.want
  BY <1>4 DEF HasFields, ClientFields
<1> HIDE DEF e
<1>6. BridgeOK(e) /\ Tidy(b, e)
  BY <1>1, <1>3, <1>4, <1>5, GoneWithFiles DEF SameCall
<1> QED BY <1>1, <1>2, <1>5, <1>6 DEF SameCall

(* A step of the client that changes neither session, files nor call       *)
(* but for its place pc and what follows.                                  *)
LEMMA ThenKeeps ==
    ASSUME NEW b, BridgeOK(b), b.then = "start" => b.want # "none",
           b.then \in {"start", "shutdown"} => b.session = "none"
    PROVE  /\ BridgeOK(Then(b)) /\ PendingOK(Then(b)) /\ Then(b).session = b.session
           /\ Then(b).then = "none" /\ Tidy(b, Then(b))
<1> DEFINE Kept(d) == /\ HasFields(d, ClientFields)
                      /\ d.session = b.session /\ d.want = b.want
                      /\ \/ d.params = b.params
                         \/ b.session = "none" /\ d.params = FilesLeft(b.params)
<1>1. ASSUME NEW d, Kept(d),
             NEW pc \in {"idle", "done", "rejoin", "start"}, pc = "start" => b.then = "start",
             NEW e, e = [d EXCEPT !.pc = pc, !.then = "none"]
      PROVE  /\ BridgeOK(e) /\ PendingOK(e) /\ e.session = b.session /\ e.then = "none"
             /\ Tidy(b, e)
  <2>1. HasFields(e, ClientFields) /\ e.pc = pc /\ e.then = "none" /\ e.want = d.want
        /\ e.session = d.session /\ e.params = d.params
    BY <1>1 DEF HasFields, ClientFields
  <2>2. BridgeOK(e) /\ Tidy(b, e)
    BY <1>1, <2>1 DEF BridgeOK, Thens, Tidy, Stranded, Persistent, FilesLeft
  <2>3. PendingOK(e)
    BY <1>1, <2>1 DEF PendingOK
  <2> QED BY <1>1, <2>1, <2>2, <2>3
<1> DEFINE leave == LeaveRelay(b)
           out   == [b EXCEPT !.joined = FALSE]
           clean == CleanupLaunch(leave)
<1>2. /\ HasFields(leave, ClientFields) /\ Kept(leave)
      /\ leave.session = b.session /\ leave.want = b.want /\ leave.params = b.params
  BY PolledKeeps DEF BridgeOK, SameCall
<1>3. Kept(out)
  BY DEF BridgeOK, HasFields, ClientFields
<1>4. HasFields(b, ClientFields) /\ Kept(b)
  BY DEF BridgeOK
<1>5. out = [out EXCEPT !.joined = FALSE]
      /\ [b EXCEPT !.joined = FALSE, !.pc = "idle", !.then = "none"]
           = [out EXCEPT !.pc = "idle", !.then = "none"]
  BY <1>4 DEF HasFields, ClientFields
<1> HIDE DEF leave, out
<1>c. b.session = "none" => Kept(clean)
  BY <1>2, FilesRemoved DEF ClientFields
<1> HIDE DEF clean, Kept
<1>6. CASE b.then = "leave"
  <2>1. Then(b) = [leave EXCEPT !.pc = "idle", !.then = "none"]
    BY <1>6 DEF Then, leave
  <2> QED BY <1>1, <1>2, <2>1, ZenonT(60)
<1>7. CASE b.then = "lost"
  <2>1. Then(b) = [out EXCEPT !.pc = "idle", !.then = "none"]
    BY <1>7, <1>5 DEF Then
  <2> QED BY <1>1, <1>3, <2>1
<1>8. CASE b.then = "shutdown"
  <2>1. Then(b) = [clean EXCEPT !.pc = "done", !.then = "none"]
    BY <1>8 DEF Then, leave, clean
  <2>2. Kept(clean)
    BY <1>c, <1>8
  <2> QED BY <1>1, <2>1, <2>2, ZenonT(60)
<1>9. CASE b.then = "rejoin"
  <2>1. Then(b) = [b EXCEPT !.pc = "rejoin", !.then = "none"]
    BY <1>9 DEF Then
  <2> QED BY <1>1, <1>4, <2>1
<1>10. CASE b.then = "start"
  <2>1. Then(b) = [b EXCEPT !.pc = "start", !.then = "none"]
    BY <1>10 DEF Then
  <2> QED BY <1>1, <1>4, <1>10, <2>1, ZenonT(60)
<1>11. CASE b.then = "none"
  <2>1. Then(b) = [b EXCEPT !.pc = "idle", !.then = "none"]
    <3>1. Then(b) = [b EXCEPT !.pc = "idle"]
      BY <1>11 DEF Then
    <3> QED BY <1>4, <1>11, <3>1 DEF HasFields, ClientFields
  <2> QED BY <1>1, <1>4, <2>1
<1> QED BY <1>6, <1>7, <1>8, <1>9, <1>10, <1>11 DEF BridgeOK, Thens

(* A command joins the queue.                                              *)
LEMMA CommandQueued ==
    ASSUME QueueOK, NEW m, HasFields(m, {"kind", "plane", "open"}),
           m.kind # "start" => m.plane = 0, cmds' = Append(cmds, m)
    PROVE  /\ QueueOK' /\ Len(cmds') = Len(cmds) + 1 /\ Len(cmds) \in Nat
           /\ (cmds')[Len(cmds) + 1] = m
           /\ \A i \in 1..Len(cmds) : (cmds')[i] = cmds[i]
<1>1. PICK S : cmds \in Seq(S)
  BY DEF QueueOK
<1>2. cmds \in Seq(S \cup {m}) /\ m \in S \cup {m} /\ Len(cmds) \in Nat
  BY <1>1
<1>3. cmds' \in Seq(S \cup {m}) /\ Len(cmds') = Len(cmds) + 1
      /\ (cmds')[Len(cmds) + 1] = m
      /\ \A i \in 1..Len(cmds) : (cmds')[i] = cmds[i]
  BY <1>2
<1>4. ASSUME NEW i \in 1..Len(cmds')
      PROVE  /\ HasFields((cmds')[i], {"kind", "plane", "open"})
             /\ (cmds')[i].kind # "start" => (cmds')[i].plane = 0
  <2>1. CASE i = Len(cmds) + 1
    BY <1>3, <2>1
  <2>2. CASE i \in 1..Len(cmds)
    BY <1>3, <2>2 DEF QueueOK
  <2> QED BY <1>2, <1>3, <2>1, <2>2
<1> QED BY <1>2, <1>3, <1>4 DEF QueueOK

(* The callers of the queued commands give up: nothing else changes.       *)
LEMMA CommandsAbandoned ==
    ASSUME QueueOK, cmds' = [i \in DOMAIN cmds |-> [cmds[i] EXCEPT !.open = FALSE]]
    PROVE  /\ QueueOK' /\ Len(cmds') = Len(cmds) /\ (cmds = <<>> => cmds' = <<>>)
           /\ \A i \in 1..Len(cmds) : (cmds')[i].plane = cmds[i].plane
<1>1. PICK S : cmds \in Seq(S)
  BY DEF QueueOK
<1>2. Len(cmds) \in Nat /\ DOMAIN cmds = 1..Len(cmds)
  BY <1>1
<1> DEFINE T == {[cmds[i] EXCEPT !.open = FALSE] : i \in DOMAIN cmds}
           q == [i \in 1..Len(cmds) |-> [cmds[i] EXCEPT !.open = FALSE]]
<1>3. q \in Seq(T) /\ Len(q) = Len(cmds) /\ q = cmds'
  <2>1. q \in [1..Len(cmds) -> T]
    BY <1>2
  <2>2. q \in Seq(T)
    <3> HIDE DEF q, T
    <3> QED BY <1>2, <2>1, SeqDef
  <2> QED BY <1>2, <2>2
<1>4. ASSUME NEW i \in 1..Len(cmds)
      PROVE  /\ HasFields((cmds')[i], {"kind", "plane", "open"})
             /\ (cmds')[i].kind = cmds[i].kind /\ (cmds')[i].plane = cmds[i].plane
  BY <1>2 DEF QueueOK, HasFields
<1>5. cmds = <<>> => cmds' = <<>>
  BY <1>2
<1> QED BY <1>3, <1>4, <1>5 DEF QueueOK

(* The room's handle goes with its slot.                                   *)
LEMMA SlotsAfterKeeps ==
    ASSUME SlotsOK, NEW b, slots' = SlotsAfter(b, slots), behind' = StillBehind,
           UNCHANGED <<route, sup, cmds>>
    PROVE  SlotsOK'
<1>1. CASE slots' = slots
  BY <1>1 DEF SlotsOK, HasFields, StillBehind
<1>2. CASE slots' = [slots EXCEPT !["relay"] = 0]
  <2>1. HasFields(slots', SlotNames) /\ (slots')["relay"] = 0
        /\ (slots')["hook"] = slots["hook"]
    BY <1>2 DEF SlotsOK, HasFields, SlotNames
  <2> QED BY <2>1 DEF SlotsOK, HasFields
<1> QED BY <1>1, <1>2 DEF SlotsAfter

(* stop_session, from whatever call: the call is remembered, the queue and *)
(* the supervisor stay well formed, and no slot changes hands.             *)
LEMMA BeginStopKeeps ==
    ASSUME NEW b, BridgeOK(b), b.then = "start" => b.want # "none" /\ ~Persistent(b),
           SupFor(b.session), QueueOK, SlotsOK, BeginStop(b), UNCHANGED route,
           behind' = StillBehind
    PROVE  /\ BridgeOK(client') /\ PendingOK(client') /\ (client').session = b.session
           /\ Tidy(b, client')
           /\ SupFor(client.session)' /\ QueueOK' /\ SlotsOK' /\ (sup').pc = sup.pc
<1>1. CASE b.phase = "Ready" /\ Persistent(b) /\ b.then # "shutdown"
  <2>1. client' = [b EXCEPT !.pc = "detach"] /\ UNCHANGED <<sup, slots>>
    BY <1>1 DEF BeginStop
  <2>2. HasFields(client', ClientFields) /\ (client').pc = "detach"
        /\ (client').then = b.then /\ (client').want = b.want
        /\ (client').session = b.session /\ (client').params = b.params
    BY <2>1 DEF BridgeOK, HasFields, ClientFields
  <2>3. BridgeOK(client') /\ PendingOK(client') /\ Tidy(b, client')
    BY <1>1, <2>2 DEF BridgeOK, PendingOK, Tidy, Stranded, Persistent
  <2>4. CASE UNCHANGED cmds
    BY <2>1, <2>2, <2>3, <2>4 DEF SupFor, QueueOK, SlotsOK, HasFields, StillBehind
  <2>5. CASE sup.pc # "stopped"
             /\ cmds' = Append(cmds, [kind |-> "stop", plane |-> 0, open |-> TRUE])
    <3> DEFINE m == [kind |-> "stop", plane |-> 0, open |-> TRUE]
    <3>1. HasFields(m, {"kind", "plane", "open"}) /\ m.plane = 0
      BY DEF HasFields
    <3>2. cmds' = Append(cmds, m)
      BY <2>5
    <3> HIDE DEF m
    <3>3. QueueOK' /\ Len(cmds') = Len(cmds) + 1 /\ Len(cmds) \in Nat
          /\ \A i \in 1..Len(cmds) : (cmds')[i] = cmds[i]
      BY <3>1, <3>2, CommandQueued
    <3>4. sup.pc # "none"
      BY <1>1 DEF SupFor, Persistent
    <3>5. SupFor(client.session)'
      BY <2>1, <2>5, <3>4 DEF SupFor, HasFields
    <3>6. SlotsOK'
      BY <2>1, <3>3 DEF SlotsOK, HasFields, StillBehind
    <3> QED BY <2>1, <2>2, <2>3, <3>3, <3>5, <3>6
  <2> QED BY <1>1, <2>4, <2>5 DEF BeginStop
<1>2. CASE ~(b.phase = "Ready" /\ Persistent(b) /\ b.then # "shutdown") /\ b.session # "none"
  <2>1. client' = [b EXCEPT !.pc = "join"] /\ sup' = [sup EXCEPT !.cancelled = TRUE]
        /\ UNCHANGED <<cmds, slots>>
    BY <1>2 DEF BeginStop
  <2>2. HasFields(client', ClientFields) /\ (client').pc = "join"
        /\ (client').then = b.then /\ (client').want = b.want
        /\ (client').session = b.session /\ (client').params = b.params
    BY <2>1 DEF BridgeOK, HasFields, ClientFields
  <2>3. BridgeOK(client') /\ PendingOK(client') /\ Tidy(b, client')
    BY <1>2, <2>2 DEF BridgeOK, PendingOK, Tidy, Stranded, Persistent
  <2>4. /\ HasFields(sup', {"pc", "cancelled", "mode", "plane", "hook"})
        /\ (sup').pc = sup.pc /\ (sup').mode = sup.mode /\ (sup').plane = sup.plane
    BY <2>1 DEF SupFor, HasFields
  <2>5. SupFor(client.session)' /\ QueueOK' /\ SlotsOK'
    BY <2>1, <2>4 DEF SupFor, QueueOK, SlotsOK, HasFields, StillBehind
  <2> QED BY <2>2, <2>3, <2>4, <2>5
<1>3. CASE ~(b.phase = "Ready" /\ Persistent(b) /\ b.then # "shutdown") /\ b.session = "none"
  <2> DEFINE d == [b EXCEPT !.status = "Idle"]
  <2>1. client' = Then(d) /\ slots' = SlotsAfter(client', slots) /\ UNCHANGED <<sup, cmds>>
    BY <1>3 DEF BeginStop
  <2>2. HasFields(d, ClientFields) /\ SameCall(b, d)
    BY DEF BridgeOK, HasFields, ClientFields, SameCall
  <2> HIDE DEF d
  <2>3. BridgeOK(d)
    BY <2>2 DEF BridgeOK, SameCall, Persistent
  <2>4. /\ BridgeOK(client') /\ PendingOK(client') /\ (client').session = d.session
        /\ Tidy(d, client')
    BY <1>3, <2>1, <2>2, <2>3, ThenKeeps DEF SameCall
  <2>5. SlotsOK'
    BY <2>1, SlotsAfterKeeps
  <2>6. SupFor(client.session)' /\ QueueOK' /\ (sup').pc = sup.pc
    BY <2>1, <2>2, <2>4 DEF SupFor, QueueOK, HasFields, SameCall
  <2> QED BY <2>2, <2>4, <2>5, <2>6 DEF SameCall, Tidy, Stranded, Persistent
<1> QED BY <1>1, <1>2, <1>3

(* Events other than Stopped join the unread ones.                         *)
LEMMA EventsJoin ==
    ASSUME NEW q, NEW ss, NEW sp, EventsFor(q, ss, sp), NEW tp, sp \in Over => tp \in Over,
           NEW n \in Seq(Events), \A i \in 1..Len(n) : n[i] # "stopped"
    PROVE  EventsFor(q \o n, ss, tp)
<1>1. q \in Seq(Events) /\ Len(q) \in Nat /\ Len(n) \in Nat
  BY DEF EventsFor
<1>2. q \o n \in Seq(Events) /\ Len(q \o n) = Len(q) + Len(n)
  BY <1>1
<1>3. ASSUME NEW i \in 1..Len(q \o n), (q \o n)[i] = "stopped"
      PROVE  i \in 1..Len(q) /\ q[i] = "stopped"
  <2>1. CASE i > Len(q)
    <3>1. i - Len(q) \in 1..Len(n) /\ (q \o n)[i] = n[i - Len(q)]
      BY <1>1, <1>2, <2>1
    <3> QED BY <1>3, <3>1
  <2>2. CASE ~(i > Len(q))
    <3>1. i \in 1..Len(q) /\ (q \o n)[i] = q[i]
      BY <1>1, <1>2, <2>2
    <3> QED BY <1>3, <3>1
  <2> QED BY <2>1, <2>2
<1> QED BY <1>2, <1>3 DEF EventsFor

(* Stopped comes last, and once.                                           *)
LEMMA StoppedJoins ==
    ASSUME NEW q, NEW ss, NEW sp, EventsFor(q, ss, sp), sp \notin Over, ss # "none",
           NEW n \in Seq(Events), \A i \in 1..Len(n) : n[i] = "stopped" => i = Len(n)
    PROVE  EventsFor(q \o n, ss, "ended")
<1>1. q \in Seq(Events) /\ Len(q) \in Nat /\ Len(n) \in Nat
  BY DEF EventsFor
<1>2. q \o n \in Seq(Events) /\ Len(q \o n) = Len(q) + Len(n)
  BY <1>1
<1>3. ASSUME NEW i \in 1..Len(q \o n), (q \o n)[i] = "stopped"
      PROVE  i = Len(q) + Len(n)
  <2>1. CASE i > Len(q)
    <3>1. i - Len(q) \in 1..Len(n) /\ (q \o n)[i] = n[i - Len(q)]
      BY <1>1, <1>2, <2>1
    <3> QED BY <1>1, <1>3, <3>1
  <2>2. CASE ~(i > Len(q))
    <3>1. i \in 1..Len(q) /\ (q \o n)[i] = q[i]
      BY <1>1, <1>2, <2>2
    <3> QED BY <1>3, <3>1 DEF EventsFor
  <2> QED BY <2>1, <2>2
<1> QED BY <1>2, <1>3 DEF EventsFor, Over

(* What is left after a poll: a Stopped in what was polled was the last.   *)
LEMMA EventsPolled ==
    ASSUME NEW q, NEW ss, NEW sp, EventsFor(q, ss, sp), NEW n \in 0..Len(q)
    PROVE  LET seen == SubSeq(q, 1, n)
           IN  /\ Contains(seen, "stopped") => sp \in Over
               /\ EventsFor(SubSeq(q, n + 1, Len(q)),
                            IF Contains(seen, "stopped") THEN "none" ELSE ss, sp)
<1> DEFINE seen == SubSeq(q, 1, n)
           rest == SubSeq(q, n + 1, Len(q))
<1>1. q \in Seq(Events) /\ Len(q) \in Nat
  BY DEF EventsFor
<1>2. /\ Len(seen) = n /\ \A i \in 1..n : seen[i] = q[i]
      /\ rest \in Seq(Events) /\ Len(rest) = Len(q) - n
      /\ \A i \in 1..(Len(q) - n) : rest[i] = q[i + n]
  BY <1>1
<1> HIDE DEF seen, rest
<1>3. ASSUME NEW i \in 1..Len(rest), rest[i] = "stopped"
      PROVE  /\ i + n \in 1..Len(q) /\ q[i + n] = "stopped"
             /\ ~Contains(seen, "stopped")
  <2>1. i + n \in 1..Len(q) /\ q[i + n] = "stopped" /\ i + n > n
    BY <1>1, <1>2, <1>3
  <2>2. ASSUME NEW j \in 1..n, seen[j] = "stopped" PROVE FALSE
    <3>1. j \in 1..Len(q) /\ q[j] = "stopped" /\ j # i + n
      BY <1>1, <1>2, <2>1, <2>2
    <3> QED BY <2>1, <3>1 DEF EventsFor
  <2> QED BY <1>2, <2>1, <2>2 DEF Contains
<1>4. Contains(seen, "stopped") => sp \in Over
  <2>1. ASSUME NEW j \in 1..n, seen[j] = "stopped" PROVE sp \in Over
    <3>1. j \in 1..Len(q) /\ q[j] = "stopped"
      BY <1>1, <1>2, <2>1
    <3> QED BY <3>1 DEF EventsFor
  <2> QED BY <1>2, <2>1 DEF Contains
<1>5. ASSUME NEW i \in 1..Len(rest), NEW j \in 1..Len(rest),
             rest[i] = "stopped", rest[j] = "stopped"
      PROVE  i = j
  <2>1. i + n = j + n
    BY <1>3, <1>5 DEF EventsFor
  <2> QED BY <1>1, <1>2, <2>1
<1>6. ASSUME NEW i \in 1..Len(rest), rest[i] = "stopped"
      PROVE  sp \in Over /\ ss # "none" /\ ~Contains(seen, "stopped")
  BY <1>3, <1>6 DEF EventsFor
<1>7. EventsFor(rest, IF Contains(seen, "stopped") THEN "none" ELSE ss, sp)
  BY <1>2, <1>5, <1>6 DEF EventsFor
<1> QED BY <1>4, <1>7 DEF seen, rest

(* The events of the room alone, and those of the session alone.           *)
LEMMA EventsDivided ==
    ASSUME NEW q, NEW ss, NEW sp, EventsFor(q, ss, sp)
    PROVE  EventsFor(SessionEvents(q), ss, sp) /\ \A t : EventsFor(RoomEvents(q), t, sp)
<1>1. q \in Seq(Events)
  BY DEF EventsFor
<1>2. ASSUME NEW t PROVE EventsFor(RoomEvents(q), t, sp)
  <2>1. CASE RoomEvents(q) = <<>>
    BY <2>1 DEF EventsFor
  <2>2. CASE RoomEvents(q) = <<"lost">>
    <3>1. "lost" \in Events
      BY DEF Events, Reports
    <3> QED BY <2>2, <3>1 DEF EventsFor
  <2> QED BY <2>1, <2>2 DEF RoomEvents
<1>3. EventsFor(SessionEvents(q), ss, sp)
  <2>1. CASE ~Contains(q, "lost")
    <3>1. SessionEvents(q) = q
      BY <1>1, <2>1 DEF SessionEvents, RemoveFirst, Contains
    <3> QED BY <3>1
  <2>2. CASE Contains(q, "lost")
    <3>1. PICK f \in 1..Len(q) : SessionEvents(q) = RemoveAt(q, f)
      BY <1>1, <2>2, RemovedFirst DEF SessionEvents
    <3> DEFINE r == RemoveAt(q, f)
               was(i) == IF i < f THEN i ELSE i + 1
    <3>2. r \in Seq(Events) /\ Len(r) = Len(q) - 1 /\ Len(q) \in Nat
          /\ \A j \in 1..Len(q) - 1 : r[j] = IF j < f THEN q[j] ELSE q[j + 1]
      BY <1>1, RemovedAt
    <3> HIDE DEF r
    <3>3. ASSUME NEW i \in 1..Len(r)
          PROVE  was(i) \in 1..Len(q) /\ r[i] = q[was(i)]
      BY <3>2
    <3>4. ASSUME NEW i \in 1..Len(r), NEW j \in 1..Len(r), was(i) = was(j)
          PROVE  i = j
      BY <3>2, <3>4
    <3> HIDE DEF was
    <3>5. EventsFor(r, ss, sp)
      BY <3>2, <3>3, <3>4 DEF EventsFor
    <3> QED BY <3>1, <3>5 DEF r
  <2> QED BY <2>1, <2>2
<1> QED BY <1>2, <1>3

(* What SupFor and the slots say, for the steps that keep the client.      *)
LEMMA SameClient ==
    ASSUME SessionInv, UNCHANGED client, SupFor(client.session)', QueueOK', SlotsOK',
           EventsFor(evs', client.session, (sup').pc)
    PROVE  SessionInv'
  BY DEF SessionInv, BridgeOK, PendingOK, HasFields

(* The first command of the queue is taken.                                *)
LEMMA CommandTaken ==
    ASSUME QueueOK, cmds # <<>>, cmds' = Tail(cmds)
    PROVE  /\ QueueOK' /\ HasFields(Head(cmds), {"kind", "plane", "open"})
           /\ Head(cmds).kind # "start" => Head(cmds).plane = 0
           /\ \A i \in 1..Len(cmds) :
                 \/ cmds[i] = Head(cmds)
                 \/ \E j \in 1..Len(cmds') : (cmds')[j] = cmds[i]
<1>1. PICK S : cmds \in Seq(S)
  BY DEF QueueOK
<1>2. /\ Len(cmds) \in Nat /\ Len(cmds) > 0 /\ Head(cmds) = cmds[1] /\ 1 \in 1..Len(cmds)
      /\ cmds' \in Seq(S) /\ Len(cmds') = Len(cmds) - 1
      /\ \A j \in 1..(Len(cmds) - 1) : (cmds')[j] = cmds[j + 1]
  BY <1>1
<1>3. ASSUME NEW j \in 1..Len(cmds')
      PROVE  j + 1 \in 1..Len(cmds) /\ (cmds')[j] = cmds[j + 1]
  BY <1>2
<1>4. ASSUME NEW i \in 1..Len(cmds), i # 1
      PROVE  i - 1 \in 1..Len(cmds') /\ (cmds')[i - 1] = cmds[i]
  BY <1>2, <1>4
<1>5. QueueOK'
  BY <1>2, <1>3 DEF QueueOK
<1> QED BY <1>2, <1>4, <1>5 DEF QueueOK

(* A slot is given back by its holder, or keeps its generation.            *)
LEMMA Detached ==
    ASSUME NEW sl, HasFields(sl, SlotNames), NEW s \in SlotNames, NEW g
    PROVE  /\ HasFields(Detach(sl, s, g), SlotNames)
           /\ Detach(sl, s, g)[s] = 0 \/ (Detach(sl, s, g)[s] = sl[s] /\ sl[s] # g)
           /\ \A t \in SlotNames \ {s} : Detach(sl, s, g)[t] = sl[t]
<1>1. CASE Detach(sl, s, g) = [sl EXCEPT ![s] = 0]
  BY <1>1 DEF HasFields, SlotNames
<1>2. CASE Detach(sl, s, g) = sl /\ (g = 0 \/ sl[s] # g)
  BY <1>2
<1> QED BY <1>1, <1>2 DEF Detach

LEMMA RouteDropped ==
    ASSUME NEW sl, HasFields(sl, SlotNames)
    PROVE  /\ HasFields(DropRoute(sl, route), SlotNames)
           /\ \/ DropRoute(sl, route)["hook"] = 0
              \/ DropRoute(sl, route)["hook"] = sl["hook"] /\ sl["hook"] # route.hook
           /\ \/ DropRoute(sl, route)["relay"] = 0
              \/ DropRoute(sl, route)["relay"] = sl["relay"] /\ sl["relay"] # route.relay
<1> DEFINE m == Detach(sl, "hook", route.hook)
<1>1. /\ HasFields(m, SlotNames) /\ m["relay"] = sl["relay"]
      /\ m["hook"] = 0 \/ (m["hook"] = sl["hook"] /\ sl["hook"] # route.hook)
  BY Detached DEF SlotNames
<1> HIDE DEF m
<1> DEFINE n == Detach(m, "relay", route.relay)
<1>2. /\ HasFields(n, SlotNames) /\ n["hook"] = m["hook"]
      /\ n["relay"] = 0 \/ (n["relay"] = m["relay"] /\ m["relay"] # route.relay)
  BY <1>1, Detached DEF SlotNames
<1>3. DropRoute(sl, route) = n
  BY DEF DropRoute, m
<1> HIDE DEF n
<1> QED BY <1>1, <1>2, <1>3

LEMMA CommandsDropped ==
    ASSUME NEW sl, HasFields(sl, SlotNames), QueueOK
    PROVE  /\ HasFields(DropCommands(sl, cmds), SlotNames)
           /\ DropCommands(sl, cmds)["hook"] = sl["hook"]
           /\ \/ DropCommands(sl, cmds)["relay"] = 0
              \/ /\ DropCommands(sl, cmds)["relay"] = sl["relay"]
                 /\ \A i \in 1..Len(cmds) : cmds[i].plane # sl["relay"]
<1>1. DOMAIN cmds = 1..Len(cmds)
  BY DEF QueueOK
<1>2. CASE DropCommands(sl, cmds) = [sl EXCEPT !["relay"] = 0]
  BY <1>2 DEF HasFields, SlotNames
<1>3. CASE DropCommands(sl, cmds) = sl /\ \A i \in DOMAIN cmds : cmds[i].plane # sl["relay"]
  BY <1>1, <1>3
<1> QED BY <1>2, <1>3 DEF DropCommands

LEMMA EndedFields ==
    /\ HasFields(Ended, {"pc", "cancelled", "mode", "plane", "hook"})
    /\ Ended.pc = "ended" /\ Ended.plane = 0
<1> DEFINE yes == TRUE
<1>1. Ended = [pc |-> "ended", cancelled |-> yes, mode |-> "none", plane |-> 0, hook |-> "over"]
  BY DEF Ended
<1> HIDE DEF yes
<1> QED BY <1>1 DEF HasFields

(* The supervisor ends: what it and its route held is given back, and a    *)
(* Stopped tells the client.                                               *)
LEMMA SupEnds ==
    ASSUME SessionInv, UNCHANGED <<client, cmds, behind>>, HasFields(slots', SlotNames),
           (slots')["hook"] = 0,
           \/ (slots')["relay"] \in {0, behind}
           \/ \E i \in 1..Len(cmds) : cmds[i].plane = (slots')["relay"],
           route' = NoRoute, sup' = Ended, sup.pc \notin {"none"} \cup Over,
           NEW e \in {"Failed", "Cancelled"},
           evs' = evs \o <<e, "stopped">> \/ evs' = evs \o <<"stopped">>
    PROVE  SessionInv'
<1>0. /\ HasFields(sup', {"pc", "cancelled", "mode", "plane", "hook"})
      /\ (sup').pc = "ended" /\ (sup').plane = 0
  BY EndedFields
<1>1. client.session # "none"
  BY DEF SessionInv, SupFor
<1>2. EventsFor(evs', client.session, (sup').pc)
  <2>1. "stopped" \in Events /\ e \in Events /\ e # "stopped"
    BY DEF Events, Reports, Phases
  <2>2. <<e, "stopped">> \in Seq(Events)
        /\ \A i \in 1..Len(<<e, "stopped">>) : <<e, "stopped">>[i] = "stopped" => i = 2
    BY <2>1
  <2>3. <<"stopped">> \in Seq(Events)
        /\ \A i \in 1..Len(<<"stopped">>) : <<"stopped">>[i] = "stopped" => i = 1
    BY <2>1
  <2>4. EventsFor(evs \o <<e, "stopped">>, client.session, "ended")
    BY <1>1, <2>2, StoppedJoins DEF SessionInv
  <2>5. EventsFor(evs \o <<"stopped">>, client.session, "ended")
    BY <1>1, <2>3, StoppedJoins DEF SessionInv
  <2> QED BY <1>0, <2>4, <2>5
<1>3. SlotsOK'
  BY <1>0 DEF SlotsOK, HasFields
<1>4. SupFor(client.session)'
  BY <1>0, <1>1 DEF SupFor, HasFields, NoRoute, SlotNames, Over
<1>5. QueueOK'
  BY DEF SessionInv, QueueOK, HasFields
<1> QED BY <1>2, <1>3, <1>4, <1>5, SameClient

(* The steps of the supervisor.                                            *)
LEMMA SupervisorKeeps ==
    ASSUME SessionInv, Supervisor
    PROVE  SessionInv'
<1> USE DEF SlotNames
<1>0. /\ HasFields(client, ClientFields) /\ HasFields(slots, SlotNames)
      /\ HasFields(sup, {"pc", "cancelled", "mode", "plane", "hook"})
  BY DEF SessionInv, BridgeOK, SlotsOK, SupFor
<1>1. CASE SupStart
  <2>1. /\ sup.pc = "starting" /\ route = NoRoute /\ client.session # "none"
        /\ UNCHANGED <<client, cmds, evs, behind>>
    BY <1>1 DEF SupStart, SessionInv, SupFor, Over
  <2>2. sup' = [sup EXCEPT !.pc = "running", !.plane = 0]
    BY <1>1 DEF SupStart
  <2>3. /\ HasFields(sup', {"pc", "cancelled", "mode", "plane", "hook"})
        /\ (sup').pc = "running" /\ (sup').plane = 0
    BY <1>0, <2>2 DEF HasFields
  <2>4. CASE sup.mode = "Official"
    <3>1. sup.plane = 0 /\ UNCHANGED <<route, slots>>
      BY <1>1, <2>4 DEF SupStart, SessionInv, SupFor
    <3>2. SlotsOK'
      BY <2>1, <2>3, <3>1 DEF SessionInv, SlotsOK, HasFields
    <3>3. SupFor(client.session)' /\ QueueOK'
      BY <2>1, <2>3, <3>1 DEF SessionInv, SupFor, QueueOK, HasFields
    <3>4. EventsFor(evs', client.session, (sup').pc)
      BY <2>1, <2>3 DEF SessionInv, EventsFor, Over
    <3> QED BY <2>1, <3>2, <3>3, <3>4, SameClient
  <2>5. CASE sup.mode # "Official"
    <3> DEFINE g == NextGeneration("hook")
    <3>1. route' = [hook |-> g, relay |-> sup.plane] /\ slots' = [slots EXCEPT !["hook"] = g]
      BY <1>1, <2>5 DEF SupStart
    <3> HIDE DEF g
    <3>2. /\ HasFields(route', SlotNames) /\ (route').hook = g /\ (route').relay = sup.plane
          /\ HasFields(slots', SlotNames) /\ (slots')["hook"] = g
          /\ (slots')["relay"] = slots["relay"]
      BY <1>0, <3>1 DEF HasFields
    <3>3. SlotsOK'
      BY <2>1, <3>2 DEF SessionInv, SlotsOK, HasFields, NoRoute
    <3>4. SupFor(client.session)' /\ QueueOK'
      BY <2>1, <2>3, <3>2 DEF SessionInv, SupFor, Over, QueueOK, HasFields
    <3>5. EventsFor(evs', client.session, (sup').pc)
      BY <2>1, <2>3 DEF SessionInv, EventsFor, Over
    <3> QED BY <2>1, <3>3, <3>4, <3>5, SameClient
  <2> QED BY <2>4, <2>5
<1>2. CASE SupStartFails
  <2>1. /\ sup.pc = "starting" /\ route = NoRoute /\ UNCHANGED <<client, route, cmds, behind>>
        /\ sup' = Ended /\ slots' = Detach(slots, "relay", sup.plane)
        /\ evs' = evs \o <<"Failed", "stopped">>
    BY <1>2 DEF SupStartFails, SessionInv, SupFor
  <2>2. /\ HasFields(slots', SlotNames) /\ (slots')["hook"] = slots["hook"]
        /\ \/ (slots')["relay"] = 0
           \/ (slots')["relay"] = slots["relay"] /\ slots["relay"] # sup.plane
    BY <1>0, <2>1, Detached
  <2>3. /\ (slots')["hook"] = 0
        /\ \/ (slots')["relay"] \in {0, behind}
           \/ \E i \in 1..Len(cmds) : cmds[i].plane = (slots')["relay"]
    BY <2>1, <2>2 DEF SessionInv, SlotsOK, NoRoute
  <2> QED BY <2>1, <2>2, <2>3, SupEnds DEF Over
<1>3. CASE SupStartGameplay
  <2> DEFINE m == Head(cmds)
  <2>1. /\ sup.pc = "running" /\ sup.plane = 0 /\ cmds # <<>> /\ cmds' = Tail(cmds)
        /\ UNCHANGED <<client, sup, evs, behind>>
    BY <1>3 DEF SupStartGameplay, SessionInv, SupFor
  <2>2. /\ QueueOK'
        /\ \A i \in 1..Len(cmds) : \/ cmds[i] = m
                                   \/ \E j \in 1..Len(cmds') : (cmds')[j] = cmds[i]
    BY <2>1, CommandTaken DEF SessionInv
  <2>3. EventsFor(evs', client.session, (sup').pc)
    BY <2>1 DEF SessionInv
  <2>4. CASE /\ route = NoRoute
             /\ route' = [hook |-> NextGeneration("hook"), relay |-> m.plane]
             /\ slots' = [slots EXCEPT !["hook"] = NextGeneration("hook")]
    <3> DEFINE g == NextGeneration("hook")
    <3>1. /\ HasFields(route', SlotNames) /\ (route').hook = g /\ (route').relay = m.plane
          /\ HasFields(slots', SlotNames) /\ (slots')["hook"] = g
          /\ (slots')["relay"] = slots["relay"]
      BY <1>0, <2>4 DEF HasFields
    <3> HIDE DEF g, m
    <3>2. SlotsOK'
      <4>1. (slots')["relay"] # 0 => \/ (slots')["relay"] = m.plane
                                     \/ \E j \in 1..Len(cmds') : (cmds')[j].plane = slots["relay"]
                                     \/ slots["relay"] = behind
        BY <2>1, <2>2, <2>4, <3>1 DEF SessionInv, SlotsOK, NoRoute
      <4> QED BY <2>1, <3>1, <4>1 DEF SlotsOK
    <3>3. SupFor(client.session)'
      BY <2>1, <3>1 DEF SessionInv, SupFor, Over, HasFields
    <3> QED BY <2>1, <2>2, <2>3, <3>2, <3>3, SameClient
  <2>5. CASE slots' = Detach(slots, "relay", m.plane) /\ UNCHANGED route
    <3>1. /\ HasFields(slots', SlotNames) /\ (slots')["hook"] = slots["hook"]
          /\ \/ (slots')["relay"] = 0
             \/ (slots')["relay"] = slots["relay"] /\ slots["relay"] # m.plane
      BY <1>0, <2>5, Detached
    <3> HIDE DEF m
    <3>2. SlotsOK'
      <4>1. (slots')["relay"] # 0 => \/ (slots')["relay"] = route.relay
                                     \/ \E j \in 1..Len(cmds') : (cmds')[j].plane = slots["relay"]
                                     \/ slots["relay"] = behind
        BY <2>1, <2>2, <3>1 DEF SessionInv, SlotsOK
      <4> QED BY <2>1, <2>5, <3>1, <4>1 DEF SessionInv, SlotsOK
    <3>3. SupFor(client.session)'
      BY <2>1, <2>5 DEF SessionInv, SupFor, HasFields
    <3> QED BY <2>1, <2>2, <2>3, <3>2, <3>3, SameClient
  <2> QED BY <1>3, <2>4, <2>5 DEF SupStartGameplay
<1>4. CASE SupStopGameplay
  <2> DEFINE m == Head(cmds)
  <2>1. /\ sup.pc = "running" /\ sup.plane = 0 /\ cmds # <<>> /\ cmds' = Tail(cmds)
        /\ m.kind = "stop" /\ route' = NoRoute /\ slots' = DropRoute(slots, route)
        /\ UNCHANGED <<client, sup, evs, behind>>
    BY <1>4 DEF SupStopGameplay, SessionInv, SupFor
  <2>2. /\ QueueOK' /\ m.plane = 0
        /\ \A i \in 1..Len(cmds) : \/ cmds[i] = m
                                   \/ \E j \in 1..Len(cmds') : (cmds')[j] = cmds[i]
    BY <2>1, CommandTaken DEF SessionInv
  <2> HIDE DEF m
  <2>3. /\ HasFields(slots', SlotNames)
        /\ \/ (slots')["hook"] = 0
           \/ (slots')["hook"] = slots["hook"] /\ slots["hook"] # route.hook
        /\ \/ (slots')["relay"] = 0
           \/ (slots')["relay"] = slots["relay"] /\ slots["relay"] # route.relay
    BY <1>0, <2>1, RouteDropped
  <2>4. SlotsOK'
    <3>1. (slots')["relay"] # 0 =>
             \/ \E j \in 1..Len(cmds') : (cmds')[j].plane = slots["relay"]
             \/ slots["relay"] = behind
      BY <2>1, <2>2, <2>3 DEF SessionInv, SlotsOK
    <3>2. (slots')["hook"] = 0
      BY <2>3 DEF SessionInv, SlotsOK
    <3> QED BY <2>1, <2>3, <3>1, <3>2 DEF SlotsOK
  <2>5. SupFor(client.session)'
    BY <2>1 DEF SessionInv, SupFor, HasFields, NoRoute
  <2>6. EventsFor(evs', client.session, (sup').pc)
    BY <2>1 DEF SessionInv
  <2> QED BY <2>1, <2>2, <2>4, <2>5, <2>6, SameClient
<1>5. CASE SupCancelled
  <2>1. /\ sup.pc = "running" /\ UNCHANGED <<client, route, cmds, evs, slots, behind>>
        /\ sup' = [sup EXCEPT !.pc = "stopping"]
    BY <1>5 DEF SupCancelled
  <2>2. /\ HasFields(sup', {"pc", "cancelled", "mode", "plane", "hook"})
        /\ (sup').pc = "stopping" /\ (sup').plane = sup.plane
    BY <1>0, <2>1 DEF HasFields
  <2>3. SupFor(client.session)' /\ QueueOK' /\ SlotsOK'
    BY <2>1, <2>2 DEF SessionInv, SupFor, Over, QueueOK, SlotsOK, HasFields
  <2>4. EventsFor(evs', client.session, (sup').pc)
    BY <2>1 DEF SessionInv, EventsFor, Over
  <2> QED BY <2>1, <2>3, <2>4, SameClient
<1>6. CASE SupFinish
  <2>1. /\ sup.pc = "stopping" /\ sup.plane = 0 /\ UNCHANGED <<client, cmds, behind>>
        /\ route' = NoRoute /\ sup' = Ended /\ slots' = DropRoute(slots, route)
        /\ evs' = evs \o <<"Cancelled", "stopped">> \/ evs' = evs \o <<"stopped">>
    BY <1>6 DEF SupFinish, SessionInv, SupFor
  <2>2. /\ HasFields(slots', SlotNames)
        /\ \/ (slots')["hook"] = 0
           \/ (slots')["hook"] = slots["hook"] /\ slots["hook"] # route.hook
        /\ \/ (slots')["relay"] = 0
           \/ (slots')["relay"] = slots["relay"] /\ slots["relay"] # route.relay
    BY <1>0, <2>1, RouteDropped
  <2>3. /\ (slots')["hook"] = 0
        /\ \/ (slots')["relay"] \in {0, behind}
           \/ \E i \in 1..Len(cmds) : cmds[i].plane = (slots')["relay"]
    BY <2>1, <2>2 DEF SessionInv, SlotsOK
  <2> QED BY <2>1, <2>2, <2>3, SupEnds DEF Over
<1>7. CASE SupReturns
  <2>1. /\ sup.pc = "ended" /\ UNCHANGED <<client, route, evs, behind>>
        /\ sup' = [sup EXCEPT !.pc = "stopped"]
        /\ slots' = DropCommands(slots, cmds) /\ cmds' = <<>>
    BY <1>7 DEF SupReturns
  <2>2. /\ HasFields(sup', {"pc", "cancelled", "mode", "plane", "hook"})
        /\ (sup').pc = "stopped" /\ (sup').plane = sup.plane
    BY <1>0, <2>1 DEF HasFields
  <2>3. /\ HasFields(slots', SlotNames) /\ (slots')["hook"] = slots["hook"]
        /\ \/ (slots')["relay"] = 0
           \/ /\ (slots')["relay"] = slots["relay"]
              /\ \A i \in 1..Len(cmds) : cmds[i].plane # slots["relay"]
    BY <1>0, <2>1, CommandsDropped DEF SessionInv
  <2>4. SlotsOK'
    BY <2>1, <2>2, <2>3 DEF SessionInv, SlotsOK
  <2>5. SupFor(client.session)'
    BY <2>1, <2>2 DEF SessionInv, SupFor, HasFields, Over
  <2>6. QueueOK'
    <3>1. <<>> \in Seq({}) /\ Len(<<>>) = 0
      OBVIOUS
    <3> QED BY <2>1, <3>1 DEF QueueOK
  <2>7. EventsFor(evs', client.session, (sup').pc)
    BY <2>1, <2>2 DEF SessionInv, EventsFor, Over
  <2> QED BY <2>1, <2>4, <2>5, <2>6, <2>7, SameClient
<1> QED BY <1>1, <1>2, <1>3, <1>4, <1>5, <1>6, <1>7 DEF Supervisor

(* What the tasks report on their own.                                     *)
LEMMA EnvironmentKeeps ==
    ASSUME SessionInv, SessionEnvironment
    PROVE  SessionInv'
<1> USE DEF SlotNames
<1>0. /\ HasFields(slots, SlotNames) /\ evs \in Seq(Events)
      /\ HasFields(sup, {"pc", "cancelled", "mode", "plane", "hook"})
      /\ EventsFor(evs, client.session, sup.pc)
  BY DEF SessionInv, SlotsOK, SupFor, EventsFor
<1>1. ASSUME NEW e \in Events \ {"stopped"}, NEW sp, sup.pc \in Over => sp \in Over
      PROVE  /\ EventsFor(Append(evs, e), client.session, sp)
             /\ EventsFor(evs \o <<e>>, client.session, sp)
             /\ EventsFor(evs \o <<>>, client.session, sp)
  <2>1. <<e>> \in Seq(Events) /\ \A i \in 1..Len(<<e>>) : <<e>>[i] # "stopped"
    BY <1>1
  <2>2. <<>> \in Seq(Events) /\ \A i \in 1..Len(<<>>) : <<>>[i] # "stopped"
    OBVIOUS
  <2>3. Append(evs, e) = evs \o <<e>>
    BY <1>0
  <2> QED BY <1>0, <1>1, <2>1, <2>2, <2>3, EventsJoin
<1>2. ASSUME NEW e \in {"Waiting", "Failed"} \cup Ids, HookProgress(e)
      PROVE  SessionInv'
  <2>1. e \in Events \ {"stopped"}
    BY SessionAssumption DEF Events, Phases, Reports
  <2>2. /\ evs' = Append(evs, e) /\ UNCHANGED <<client, route, cmds, reply, slots, behind>>
        /\ \E x : sup' = [sup EXCEPT !.hook = x]
    BY <1>2 DEF HookProgress
  <2>3. /\ HasFields(sup', {"pc", "cancelled", "mode", "plane", "hook"})
        /\ (sup').pc = sup.pc /\ (sup').plane = sup.plane /\ (sup').mode = sup.mode
    BY <1>0, <2>2 DEF HasFields
  <2>4. EventsFor(evs', client.session, (sup').pc)
    BY <1>1, <2>1, <2>2, <2>3
  <2>5. SupFor(client.session)' /\ QueueOK' /\ SlotsOK'
    BY <2>2, <2>3 DEF SessionInv, SupFor, QueueOK, SlotsOK, HasFields
  <2> QED BY <2>2, <2>4, <2>5, SameClient
<1>3. CASE RouteExits
  <2>1. /\ sup.pc = "running" /\ sup.plane = 0 /\ evs' = evs \o <<"detached">>
        /\ route' = NoRoute /\ slots' = DropRoute(slots, route)
        /\ UNCHANGED <<client, sup, cmds, behind>>
    BY <1>3 DEF RouteExits, SessionInv, SupFor
  <2>2. "detached" \in Events \ {"stopped"}
    BY DEF Events, Reports
  <2>3. EventsFor(evs', client.session, (sup').pc)
    BY <1>1, <2>1, <2>2
  <2>4. /\ HasFields(slots', SlotNames)
        /\ \/ (slots')["hook"] = 0
           \/ (slots')["hook"] = slots["hook"] /\ slots["hook"] # route.hook
        /\ \/ (slots')["relay"] = 0
           \/ (slots')["relay"] = slots["relay"] /\ slots["relay"] # route.relay
    BY <1>0, <2>1, RouteDropped
  <2>5. SlotsOK'
    <3>1. (slots')["hook"] = 0
      BY <2>4 DEF SessionInv, SlotsOK
    <3> QED BY <2>1, <2>4, <3>1 DEF SessionInv, SlotsOK
  <2>6. SupFor(client.session)' /\ QueueOK'
    BY <2>1 DEF SessionInv, SupFor, QueueOK, HasFields, NoRoute
  <2> QED BY <2>1, <2>3, <2>5, <2>6, SameClient
<1>4. CASE SupportExits
  <2>1. /\ sup.pc = "running" /\ UNCHANGED <<client, route, cmds, slots, behind>>
        /\ evs' = evs \o <<"exited">> \/ evs' = evs \o <<>>
        /\ sup' = [sup EXCEPT !.pc = "stopping", !.cancelled = TRUE]
    BY <1>4 DEF SupportExits
  <2>2. /\ HasFields(sup', {"pc", "cancelled", "mode", "plane", "hook"})
        /\ (sup').pc = "stopping" /\ (sup').plane = sup.plane
    BY <1>0, <2>1 DEF HasFields
  <2>3. "exited" \in Events \ {"stopped"}
    BY DEF Events, Reports
  <2>4. EventsFor(evs', client.session, (sup').pc)
    BY <1>1, <2>1, <2>2, <2>3 DEF Over
  <2>5. SupFor(client.session)' /\ QueueOK' /\ SlotsOK'
    BY <2>1, <2>2 DEF SessionInv, SupFor, QueueOK, SlotsOK, HasFields, Over
  <2> QED BY <2>1, <2>4, <2>5, SameClient
<1>5. CASE RoomLost
  <2>1. evs' = Append(evs, "lost") /\ UNCHANGED <<client, sup, route, cmds, slots, behind>>
    BY <1>5 DEF RoomLost
  <2>2. "lost" \in Events \ {"stopped"}
    BY DEF Events, Reports
  <2>3. EventsFor(evs', client.session, (sup').pc)
    BY <1>1, <2>1, <2>2
  <2>4. SupFor(client.session)' /\ QueueOK' /\ SlotsOK'
    BY <2>1 DEF SessionInv, SupFor, QueueOK, SlotsOK, HasFields
  <2> QED BY <2>1, <2>3, <2>4, SameClient
<1>6. CASE OldSupReturns
  <2>1. /\ behind' = 0 /\ slots' = Detach(slots, "relay", behind)
        /\ UNCHANGED <<client, sup, route, cmds, evs>>
    BY <1>6 DEF OldSupReturns
  <2>2. /\ HasFields(slots', SlotNames) /\ (slots')["hook"] = slots["hook"]
        /\ \/ (slots')["relay"] = 0
           \/ (slots')["relay"] = slots["relay"] /\ slots["relay"] # behind
    BY <1>0, <2>1, Detached
  <2>3. SlotsOK'
    BY <2>1, <2>2 DEF SessionInv, SlotsOK
  <2>4. SupFor(client.session)' /\ QueueOK'
    BY <2>1 DEF SessionInv, SupFor, QueueOK, HasFields
  <2>5. EventsFor(evs', client.session, (sup').pc)
    BY <1>0, <2>1
  <2> QED BY <2>1, <2>3, <2>4, <2>5, SameClient
<1> QED BY <1>2, <1>3, <1>4, <1>5, <1>6 DEF SessionEnvironment

LEMMA SameCallKeeps ==
    ASSUME NEW b, BridgeOK(b), NEW d, HasFields(d, ClientFields), SameCall(b, d)
    PROVE  /\ BridgeOK(d) /\ (PendingOK(b) => PendingOK(d)) /\ d.session = b.session
           /\ Tidy(b, d)
  BY DEF BridgeOK, PendingOK, SameCall, Tidy, Stranded, Persistent

(* A persistent session is asked to start gameplay: the data plane of the  *)
(* room travels in the command.                                            *)
LEMMA ReuseKeeps ==
    ASSUME NEW b, NEW m, BridgeOK(b), b.then = "none", Persistent(b),
           SupFor(b.session), QueueOK, SlotsOK, ReuseSession(b, m), UNCHANGED route,
           behind' = StillBehind
    PROVE  /\ BridgeOK(client') /\ PendingOK(client') /\ (client').session = b.session
           /\ Tidy(b, client')
           /\ SupFor(client.session)' /\ QueueOK' /\ SlotsOK' /\ (sup').pc = sup.pc
<1> USE DEF SlotNames
<1>1. PICK p \in {"attach", "idle"} : client' = [b EXCEPT !.pc = p] /\ UNCHANGED sup
  BY DEF ReuseSession
<1>2. HasFields(client', ClientFields) /\ (client').pc = p
      /\ (client').then = b.then /\ (client').want = b.want
      /\ (client').session = b.session /\ (client').params = b.params
  BY <1>1 DEF BridgeOK, HasFields, ClientFields
<1>3. BridgeOK(client') /\ PendingOK(client') /\ Tidy(b, client')
  BY <1>1, <1>2 DEF BridgeOK, PendingOK, Tidy, Stranded, Persistent
<1>4. CASE UNCHANGED <<cmds, slots>>
  BY <1>1, <1>2, <1>3, <1>4 DEF SupFor, QueueOK, SlotsOK, HasFields, StillBehind
<1>5. CASE ~UNCHANGED <<cmds, slots>>
  <2> DEFINE g == IF b.joined THEN NextGeneration("relay") ELSE 0
             c1 == [kind |-> "start", plane |-> g, open |-> TRUE]
  <2>1. /\ sup.pc # "stopped" /\ (CanAttach("relay") \/ ~b.joined)
        /\ slots' = IF g = 0 THEN slots ELSE [slots EXCEPT !["relay"] = g]
        /\ cmds' = Append(cmds, c1)
    BY <1>5 DEF ReuseSession
  <2>2. HasFields(c1, {"kind", "plane", "open"}) /\ c1.plane = g /\ c1.kind = "start"
    BY DEF HasFields
  <2>3. g # 0 => slots["relay"] = 0
    BY <2>1 DEF CanAttach
  <2> HIDE DEF g, c1
  <2>4. /\ QueueOK' /\ Len(cmds') = Len(cmds) + 1 /\ Len(cmds) \in Nat
        /\ (cmds')[Len(cmds) + 1] = c1
        /\ \A i \in 1..Len(cmds) : (cmds')[i] = cmds[i]
    BY <2>1, <2>2, CommandQueued
  <2>5. Len(cmds) + 1 \in 1..Len(cmds') /\ \A i \in 1..Len(cmds) : i \in 1..Len(cmds')
    BY <2>4
  <2>6. SlotsOK'
    <3>1. CASE g = 0
      BY <1>1, <2>1, <2>4, <2>5, <3>1 DEF SlotsOK, HasFields, StillBehind
    <3>2. CASE g # 0
      <4>1. /\ HasFields(slots', SlotNames) /\ (slots')["relay"] = g
            /\ (slots')["hook"] = slots["hook"]
        BY <2>1, <3>2 DEF SlotsOK, HasFields
      <4>2. (cmds')[Len(cmds) + 1].plane = (slots')["relay"]
        BY <2>2, <2>4, <4>1
      <4> QED BY <2>5, <4>1, <4>2 DEF SlotsOK
    <3> QED BY <3>1, <3>2
  <2>7. sup.pc # "none"
    BY DEF SupFor, Persistent
  <2>8. SupFor(client.session)'
    BY <1>1, <1>2, <2>1, <2>7 DEF SupFor, HasFields
  <2> QED BY <1>1, <1>2, <1>3, <2>4, <2>6, <2>8
<1> QED BY <1>4, <1>5

(* A start that finds the room still attached: the runtime of an earlier   *)
(* session has ended and has not dropped what nobody read.                 *)
Refused == client.pc = "start" /\ slots["relay"] \in (Unread \cup {behind}) \ {0}

(* A new session is started when the old one is gone, or is not started.   *)
(* Only one that is refused its room leaves its launch files.              *)
LEMMA FreshKeeps ==
    ASSUME NEW b, BridgeOK(b), b.then = "none", b.session = "none",
           NEW m \in Modes, SupFor("none"), QueueOK, SlotsOK,
           FreshSession(b, m), UNCHANGED route
    PROVE  /\ BridgeOK(client') /\ PendingOK(client')
           /\ SupFor(client.session)' /\ QueueOK' /\ SlotsOK'
           /\ (client').session # "none" \/ (sup').pc = sup.pc
           /\ Tidy(b, client') \/ slots["relay"] \in (Unread \cup {behind}) \ {0}
<1> USE DEF SlotNames
<1> DEFINE hook   == m # "Official"
           attach == hook /\ b.joined
           g      == IF attach THEN NextGeneration("relay") ELSE 0
           old    == IF b.params = "none" THEN "none" ELSE "forgotten"
           files  == IF hook THEN "written" ELSE old
           phase  == IF hook THEN "Configured" ELSE "NotStarted"
           made   == [b EXCEPT !.pc = "idle", !.game = "none", !.phase = phase, !.params = files]
           failed == [made EXCEPT !.phase = "Failed", !.params = old]
           begun  == [made EXCEPT !.session = m, !.status = "Running", !.resume = FALSE]
           clean  == CleanupLaunch(made)
           on     == [pc |-> "starting", cancelled |-> FALSE, mode |-> m,
                      plane |-> g, hook |-> "none"]
           owner  == IF slots["relay"] \in Unread THEN slots["relay"] ELSE behind
<1>1. \/ hook /\ client' = failed /\ UNCHANGED <<sup, cmds, reply, behind, slots>>
      \/ /\ attach /\ ~CanAttach("relay")
         /\ client' = made /\ UNCHANGED <<sup, cmds, reply, behind, slots>>
      \/ client' = clean /\ UNCHANGED <<sup, cmds, reply, behind, slots>>
      \/ /\ attach => CanAttach("relay")
         /\ client' = begun /\ sup' = on /\ behind' = owner /\ cmds' = <<>>
         /\ slots' = [slots EXCEPT !["hook"] = 0, !["relay"] = IF attach THEN g ELSE @]
  BY DEF FreshSession
<1>2. /\ route = NoRoute /\ sup.plane = 0 /\ slots["hook"] = 0
      /\ slots["relay"] # 0 => slots["relay"] \in (Unread \cup {behind}) \ {0}
  <2>1. route = NoRoute /\ sup.plane = 0
    BY DEF SupFor, Over
  <2>2. DOMAIN cmds = 1..Len(cmds)
    BY DEF QueueOK
  <2> QED BY <2>1, <2>2 DEF SlotsOK, NoRoute, Unread
<1>a. /\ files \in {"none", "written", "forgotten"} /\ old \in {"none", "forgotten"}
      /\ b.params = "none" => old = "none"
      /\ hook => files = "written"
      /\ ~hook => files = old
  OBVIOUS
<1> HIDE DEF phase, files, old
<1>3. /\ HasFields(made, ClientFields) /\ made.pc = "idle" /\ made.then = "none"
      /\ made.want = b.want /\ made.session = "none" /\ made.params = files
  BY DEF BridgeOK, HasFields, ClientFields
<1> HIDE DEF made
<1>4. /\ HasFields(failed, ClientFields) /\ failed.pc = "idle" /\ failed.then = "none"
      /\ failed.want = b.want /\ failed.session = "none" /\ failed.params = old
  BY <1>3 DEF HasFields, ClientFields
<1>5. /\ HasFields(clean, ClientFields) /\ clean.pc = "idle" /\ clean.then = "none"
      /\ clean.want = b.want /\ clean.session = "none" /\ clean.params = FilesLeft(files)
  BY <1>3, FilesRemoved DEF ClientFields
<1>6. /\ HasFields(begun, ClientFields) /\ begun.pc = "idle" /\ begun.then = "none"
      /\ begun.want = b.want /\ begun.session = m /\ begun.params = files
  <2> DEFINE no == FALSE
  <2> HIDE DEF no
  <2>1. begun = [made EXCEPT !.session = m, !.status = "Running", !.resume = no]
    BY DEF no
  <2> HIDE DEF begun
  <2> QED BY <1>3, <2>1 DEF HasFields, ClientFields
<1> HIDE DEF failed, clean, begun
<1>7. ASSUME NEW e \in {failed, made, clean}
      PROVE  /\ BridgeOK(e) /\ PendingOK(e) /\ e.session = "none"
             /\ e # made => Tidy(b, e)
  BY <1>3, <1>4, <1>5, <1>a DEF BridgeOK, PendingOK, Thens, Tidy, Stranded, Persistent, FilesLeft
<1>8. ASSUME client' \in {failed, made, clean}, UNCHANGED <<sup, cmds, behind, slots>>
      PROVE  /\ BridgeOK(client') /\ PendingOK(client')
             /\ SupFor(client.session)' /\ QueueOK' /\ SlotsOK'
             /\ (client').session # "none" \/ (sup').pc = sup.pc
  <2>1. BridgeOK(client') /\ PendingOK(client') /\ (client').session = "none"
    BY <1>7, <1>8
  <2> QED BY <1>8, <2>1 DEF SupFor, QueueOK, SlotsOK, HasFields
<1>9. CASE hook /\ client' = failed /\ UNCHANGED <<sup, cmds, reply, behind, slots>>
  <2>1. Tidy(b, failed)
    BY <1>4, <1>a DEF BridgeOK, Tidy, Stranded, Persistent
  <2> QED BY <1>8, <1>9, <2>1
<1>10. CASE /\ attach /\ ~CanAttach("relay")
            /\ client' = made /\ UNCHANGED <<sup, cmds, reply, behind, slots>>
  <2>1. slots["relay"] \in (Unread \cup {behind}) \ {0}
    BY <1>2, <1>10 DEF CanAttach
  <2> QED BY <1>8, <1>10, <2>1
<1>11. CASE client' = clean /\ UNCHANGED <<sup, cmds, reply, behind, slots>>
  <2>1. Tidy(b, clean)
    BY <1>5, <1>a DEF BridgeOK, Tidy, Stranded, Persistent, FilesLeft
  <2> QED BY <1>8, <1>11, <2>1
<1>12. CASE /\ attach => CanAttach("relay")
            /\ client' = begun /\ sup' = on /\ behind' = owner /\ cmds' = <<>>
            /\ slots' = [slots EXCEPT !["hook"] = 0, !["relay"] = IF attach THEN g ELSE @]
  <2>1. m # "none"
    BY SessionAssumption
  <2>2. BridgeOK(client') /\ PendingOK(client') /\ Tidy(b, client') /\ (client').session = m
    BY <1>6, <1>12, <1>a, <2>1
       DEF BridgeOK, PendingOK, Thens, Tidy, Stranded, Persistent
  <2>a. m = "Official" => g = 0
    OBVIOUS
  <2>b. attach => CanAttach("relay")
    BY <1>12
  <2> HIDE DEF g, attach
  <2>3. /\ HasFields(sup', {"pc", "cancelled", "mode", "plane", "hook"})
        /\ (sup').pc = "starting" /\ (sup').mode = m /\ (sup').plane = g
    <3> DEFINE no == FALSE
    <3> HIDE DEF no
    <3>1. sup' = [pc |-> "starting", cancelled |-> no, mode |-> m, plane |-> g, hook |-> "none"]
      BY <1>12 DEF no
    <3> HIDE DEF on
    <3> QED BY <3>1 DEF HasFields
  <2>4. SupFor(client.session)'
    BY <1>2, <1>12, <2>a, <2>1, <2>2, <2>3 DEF SupFor, HasFields, Over
  <2>5. QueueOK'
    <3>1. <<>> \in Seq({}) /\ Len(<<>>) = 0
      OBVIOUS
    <3> QED BY <1>12, <3>1 DEF QueueOK
  <2>6. /\ HasFields(slots', SlotNames) /\ (slots')["hook"] = 0
        /\ (slots')["relay"] = g \/ (slots')["relay"] = slots["relay"]
    <3>1. HasFields(slots, SlotNames)
      BY DEF SlotsOK
    <3>2. CASE attach
      <4>1. slots' = [slots EXCEPT !["hook"] = 0, !["relay"] = g]
        BY <1>12, <3>2
      <4> QED BY <3>1, <4>1 DEF HasFields
    <3>3. CASE ~attach
      <4>1. slots' = [slots EXCEPT !["hook"] = 0, !["relay"] = @]
        BY <1>12, <3>3
      <4> QED BY <3>1, <4>1 DEF HasFields
    <3> QED BY <3>2, <3>3
  <2>7. slots["relay"] # 0 => slots["relay"] = behind'
    BY <1>2, <1>12
  <2>8. SlotsOK'
    BY <2>3, <2>6, <2>7 DEF SlotsOK
  <2> QED BY <2>1, <2>2, <2>4, <2>5, <2>8
<1> HIDE DEF attach, hook, on, owner
<1> QED BY <1>1, <1>9, <1>10, <1>11, <1>12

(* After a Stopped the supervisor is gone, whatever the client holds.      *)
LEMMA ClearedKeeps ==
    ASSUME SessionInv, NEW n \in 0..Len(evs), NEW d,
           d = Cleared(Polled(client, SubSeq(evs, 1, n)), SubSeq(evs, 1, n))
    PROVE  /\ BridgeOK(d) /\ SupFor(d.session) /\ Tidy(client, d)
           /\ d.pc = client.pc /\ d.then = client.then /\ d.want = client.want
           /\ EventsFor(SubSeq(evs, n + 1, Len(evs)), d.session, sup.pc)
<1> DEFINE seen == SubSeq(evs, 1, n)
<1>1. /\ BridgeOK(d) /\ Tidy(client, d) /\ d.pc = client.pc /\ d.then = client.then /\ d.want = client.want
      /\ d.session = IF Contains(seen, "stopped") THEN "none" ELSE client.session
  BY CleanedUp DEF SessionInv
<1>2. /\ Contains(seen, "stopped") => sup.pc \in Over
      /\ EventsFor(SubSeq(evs, n + 1, Len(evs)), d.session, sup.pc)
  BY <1>1, EventsPolled DEF SessionInv
<1> HIDE DEF seen
<1>3. SupFor(d.session)
  BY <1>1, <1>2 DEF SessionInv, SupFor
<1> QED BY <1>1, <1>2, <1>3

(* The calls of the client go on when what they wait for is there.         *)
LEMMA ReturnsKeep ==
    ASSUME SessionInv, ClientReturns
    PROVE  SessionInv' /\ (Tidy(client, client') \/ Refused)
<1> USE DEF SlotNames
<1>0. /\ BridgeOK(client) /\ PendingOK(client) /\ HasFields(client, ClientFields)
      /\ SupFor(client.session) /\ QueueOK /\ SlotsOK /\ HasFields(slots, SlotNames)
      /\ HasFields(sup, {"pc", "cancelled", "mode", "plane", "hook"})
      /\ EventsFor(evs, client.session, sup.pc)
  BY DEF SessionInv, BridgeOK, SlotsOK, SupFor
<1>1. CASE DetachDone
  <2>1. PICK n \in 0..Len(evs) :
           LET seen == SubSeq(evs, 1, n)
               d == Cleared(Polled(client, seen), seen)
               e == Then([d EXCEPT !.status = "Idle",
                                   !.resume = @ \/ (d.status = "Running" /\ Mismatch(d))])
           IN  /\ client' = IF Contains(seen, "lost") /\ e.pc = "idle"
                              THEN [e EXCEPT !.joined = FALSE] ELSE e
               /\ slots' = SlotsAfter(client', slots)
               /\ evs' = SubSeq(evs, n + 1, Len(evs))
    BY <1>1 DEF DetachDone
  <2> DEFINE seen == SubSeq(evs, 1, n)
             d == Cleared(Polled(client, seen), seen)
             res == d.resume \/ (d.status = "Running" /\ Mismatch(d))
             f == [d EXCEPT !.status = "Idle", !.resume = res]
             e == Then(f)
  <2>2. /\ client' = e \/ client' = [e EXCEPT !.joined = FALSE]
        /\ slots' = SlotsAfter(client', slots)
        /\ evs' = SubSeq(evs, n + 1, Len(evs))
    BY <2>1
  <2>3. UNCHANGED <<sup, route, cmds>> /\ client.pc = "detach" /\ behind' = StillBehind
    BY <1>1 DEF DetachDone
  <2> HIDE DEF res
  <2>4. /\ BridgeOK(d) /\ SupFor(d.session) /\ d.then = client.then /\ Tidy(client, d)
        /\ EventsFor(evs', d.session, sup.pc)
    BY <2>2, ClearedKeeps
  <2> HIDE DEF d
  <2>5. HasFields(f, ClientFields) /\ SameCall(d, f)
    BY <2>4 DEF BridgeOK, HasFields, ClientFields, SameCall
  <2> HIDE DEF f
  <2>6. BridgeOK(f) /\ f.session = d.session /\ f.then = d.then /\ Tidy(d, f)
    BY <2>4, <2>5, SameCallKeeps DEF SameCall
  <2>7. f.then \notin {"start", "shutdown"}
    BY <1>0, <2>3, <2>4, <2>6 DEF PendingOK
  <2>8. BridgeOK(e) /\ PendingOK(e) /\ e.session = d.session /\ Tidy(f, e)
    BY <2>6, <2>7, ThenKeeps
  <2> HIDE DEF e
  <2> DEFINE g == [e EXCEPT !.joined = FALSE]
  <2>9. HasFields(g, ClientFields) /\ SameCall(e, g)
    BY <2>8 DEF BridgeOK, HasFields, ClientFields, SameCall
  <2> HIDE DEF g
  <2>10. BridgeOK(g) /\ PendingOK(g) /\ g.session = d.session /\ Tidy(e, g)
    BY <2>8, <2>9, SameCallKeeps
  <2>11. BridgeOK(client') /\ PendingOK(client') /\ (client').session = d.session
    BY <2>2, <2>8, <2>10 DEF g
  <2>12. SlotsOK'
    BY <1>0, <2>2, <2>3, SlotsAfterKeeps
  <2>13. SupFor(client.session)' /\ QueueOK'
    BY <1>0, <2>3, <2>4, <2>11 DEF SupFor, QueueOK, HasFields
  <2>14. EventsFor(evs', (client').session, (sup').pc)
    BY <2>3, <2>4, <2>11
  <2>15. Tidy(client, client')
    BY <2>2, <2>4, <2>6, <2>8, <2>10 DEF Tidy, g
  <2> QED BY <2>11, <2>12, <2>13, <2>14, <2>15 DEF SessionInv
<1>2. CASE DetachFails
  <2>1. /\ client.pc = "detach" /\ client' = [client EXCEPT !.pc = "join"]
        /\ sup' = [sup EXCEPT !.cancelled = TRUE]
        /\ cmds' = [i \in DOMAIN cmds |-> [cmds[i] EXCEPT !.open = FALSE]]
        /\ UNCHANGED <<route, evs, slots, behind>>
    BY <1>2 DEF DetachFails
  <2>2. HasFields(client', ClientFields) /\ (client').pc = "join"
        /\ (client').then = client.then /\ (client').want = client.want
        /\ (client').session = client.session /\ (client').params = client.params
    BY <1>0, <2>1 DEF HasFields, ClientFields
  <2>3. BridgeOK(client') /\ PendingOK(client') /\ Tidy(client, client')
    BY <1>0, <2>1, <2>2 DEF BridgeOK, PendingOK, Tidy, Stranded, Persistent
  <2>4. /\ HasFields(sup', {"pc", "cancelled", "mode", "plane", "hook"})
        /\ (sup').pc = sup.pc /\ (sup').plane = sup.plane /\ (sup').mode = sup.mode
    BY <1>0, <2>1 DEF HasFields
  <2>5. /\ QueueOK' /\ Len(cmds') = Len(cmds) /\ (cmds = <<>> => cmds' = <<>>)
        /\ \A i \in 1..Len(cmds) : (cmds')[i].plane = cmds[i].plane
    BY <1>0, <2>1, CommandsAbandoned
  <2>6. SupFor(client.session)'
    BY <1>0, <2>1, <2>2, <2>4, <2>5 DEF SupFor, HasFields
  <2>7. SlotsOK'
    BY <1>0, <2>1, <2>4, <2>5 DEF SlotsOK, HasFields
  <2>8. EventsFor(evs', (client').session, (sup').pc)
    BY <1>0, <2>1, <2>2, <2>4
  <2> QED BY <2>3, <2>5, <2>6, <2>7, <2>8 DEF SessionInv
<1>3. CASE WorkerJoined
  <2> DEFINE d == Joined(client)
  <2>1. /\ client.pc = "join" /\ sup.pc = "stopped" /\ client' = Then(d)
        /\ evs' = RoomEvents(evs) /\ slots' = SlotsAfter(client', slots)
        /\ UNCHANGED <<sup, route, cmds>> /\ behind' = StillBehind
    BY <1>3 DEF WorkerJoined
  <2>2. BridgeOK(d) /\ d.session = "none" /\ d.then = client.then /\ d.want = client.want
        /\ Tidy(client, d)
    BY <1>0, JoinedKeeps
  <2> HIDE DEF d
  <2>3. /\ BridgeOK(client') /\ PendingOK(client') /\ (client').session = "none"
        /\ Tidy(client, client')
    BY <1>0, <2>1, <2>2, ThenKeeps DEF PendingOK, Tidy
  <2>4. SlotsOK'
    BY <1>0, <2>1, SlotsAfterKeeps
  <2>5. SupFor(client.session)' /\ QueueOK'
    BY <1>0, <2>1, <2>3 DEF SupFor, QueueOK, HasFields, Over
  <2>6. EventsFor(evs', (client').session, (sup').pc)
    BY <1>0, <2>1, <2>3, EventsDivided
  <2> QED BY <2>3, <2>4, <2>5, <2>6 DEF SessionInv
<1>4. CASE AttachDone
  <2>1. /\ client.pc = "attach" /\ UNCHANGED <<sup, route, cmds, evs, slots, behind>>
        /\ client' = [client EXCEPT !.pc = "idle", !.status = "Running", !.resume = FALSE]
    BY <1>4 DEF AttachDone
  <2>2. HasFields(client', ClientFields) /\ (client').pc = "idle"
        /\ (client').then = client.then /\ (client').want = client.want
        /\ (client').session = client.session /\ (client').params = client.params
    BY <1>0, <2>1 DEF HasFields, ClientFields
  <2>3. BridgeOK(client') /\ PendingOK(client') /\ Tidy(client, client')
    BY <1>0, <2>1, <2>2 DEF BridgeOK, PendingOK, Tidy, Stranded, Persistent
  <2>4. SupFor(client.session)' /\ QueueOK' /\ SlotsOK'
        /\ EventsFor(evs', (client').session, (sup').pc)
    BY <1>0, <2>1, <2>2 DEF SupFor, QueueOK, SlotsOK, HasFields
  <2> QED BY <2>3, <2>4 DEF SessionInv
<1>5. CASE AttachFails
  <2>1. /\ client.pc = "attach" /\ UNCHANGED <<sup, route, evs, slots, behind>>
        /\ client' = [client EXCEPT !.pc = "idle"]
        /\ cmds' = [i \in DOMAIN cmds |-> [cmds[i] EXCEPT !.open = FALSE]]
    BY <1>5 DEF AttachFails
  <2>2. HasFields(client', ClientFields) /\ (client').pc = "idle"
        /\ (client').then = client.then /\ (client').want = client.want
        /\ (client').session = client.session /\ (client').params = client.params
    BY <1>0, <2>1 DEF HasFields, ClientFields
  <2>3. BridgeOK(client') /\ PendingOK(client') /\ Tidy(client, client')
    BY <1>0, <2>1, <2>2 DEF BridgeOK, PendingOK, Tidy, Stranded, Persistent
  <2>4. /\ QueueOK' /\ Len(cmds') = Len(cmds) /\ (cmds = <<>> => cmds' = <<>>)
        /\ \A i \in 1..Len(cmds) : (cmds')[i].plane = cmds[i].plane
    BY <1>0, <2>1, CommandsAbandoned
  <2>5. SupFor(client.session)' /\ SlotsOK' /\ EventsFor(evs', (client').session, (sup').pc)
    BY <1>0, <2>1, <2>2, <2>4 DEF SupFor, SlotsOK, HasFields
  <2> QED BY <2>3, <2>4, <2>5 DEF SessionInv
<1>6. CASE StartAfterStop
  <2> DEFINE b == [client EXCEPT !.want = "none"]
             m == client.want
  <2>1. client.pc = "start" /\ FreshSession(b, m) /\ UNCHANGED <<route, evs>>
    BY <1>6 DEF StartAfterStop
  <2>2. HasFields(b, ClientFields) /\ b.pc = client.pc /\ b.then = client.then
        /\ b.want = "none" /\ b.session = client.session /\ b.params = client.params
    BY <1>0 DEF HasFields, ClientFields
  <2>3. client.session = "none" /\ m \in Modes /\ client.then = "none"
    BY <1>0, <2>1 DEF PendingOK, BridgeOK
  <2> HIDE DEF b
  <2>4. BridgeOK(b) /\ b.then = "none" /\ b.session = "none"
    BY <1>0, <2>2, <2>3 DEF BridgeOK, Persistent
  <2> HIDE DEF m
  <2>5. /\ BridgeOK(client') /\ PendingOK(client')
        /\ SupFor(client.session)' /\ QueueOK' /\ SlotsOK'
        /\ (client').session # "none" \/ (sup').pc = sup.pc
        /\ Tidy(b, client') \/ slots["relay"] \in (Unread \cup {behind}) \ {0}
    BY <1>0, <2>1, <2>3, <2>4, FreshKeeps
  <2>6. Tidy(client, client') \/ Refused
    BY <2>1, <2>2, <2>5 DEF Tidy, Stranded, Persistent, Refused
  <2>7. EventsFor(evs', (client').session, (sup').pc)
    BY <1>0, <2>1, <2>3 DEF EventsFor
  <2> QED BY <2>5, <2>6, <2>7 DEF SessionInv
<1>7. CASE RejoinJoins
  <2> DEFINE b == [client EXCEPT !.id = "none", !.again = FALSE, !.want = "none"]
             l == LeaveRelay(b)
             j == [l EXCEPT !.joined = TRUE, !.room = client.id, !.resume = client.again]
  <2>1. /\ client.pc = "rejoin" /\ slots' = [slots EXCEPT !["relay"] = 0]
        /\ evs' = SessionEvents(evs) /\ UNCHANGED <<sup, route, cmds>>
        /\ behind' = StillBehind
    BY <1>7 DEF RejoinJoins
  <2>2. \/ \E r : client' = [l EXCEPT !.resume = r, !.pc = "idle"]
        \/ \E r : client' = [j EXCEPT !.pc = "idle", !.resume = r]
        \/ client' = [j EXCEPT !.pc = "resume", !.want = client.want]
    BY <1>7 DEF RejoinJoins
  <2>3. HasFields(b, ClientFields) /\ b.pc = client.pc /\ b.then = client.then
        /\ b.want = "none" /\ b.session = client.session /\ b.params = client.params
    BY <1>0 DEF HasFields, ClientFields
  <2> HIDE DEF b
  <2>4. HasFields(l, ClientFields) /\ SameCall(b, l)
    BY <2>3, PolledKeeps
  <2> HIDE DEF l
  <2>5. HasFields(j, ClientFields) /\ SameCall(b, j)
    BY <2>4 DEF HasFields, ClientFields, SameCall
  <2> HIDE DEF j
  <2>6. HasFields(client', ClientFields) /\ (client').pc \in {"idle", "resume"}
        /\ (client').then = client.then /\ (client').want \in {"none", client.want}
        /\ (client').session = client.session /\ (client').params = client.params
    <3>1. CASE \E r : client' = [l EXCEPT !.resume = r, !.pc = "idle"]
      BY <2>3, <2>4, <3>1 DEF HasFields, ClientFields, SameCall
    <3>2. CASE \E r : client' = [j EXCEPT !.pc = "idle", !.resume = r]
      BY <2>3, <2>5, <3>2 DEF HasFields, ClientFields, SameCall
    <3>3. CASE client' = [j EXCEPT !.pc = "resume", !.want = client.want]
      BY <2>3, <2>5, <3>3 DEF HasFields, ClientFields, SameCall
    <3> QED BY <2>2, <3>1, <3>2, <3>3
  <2>7. BridgeOK(client') /\ PendingOK(client') /\ Tidy(client, client')
    BY <1>0, <2>1, <2>6 DEF BridgeOK, PendingOK, Tidy, Stranded, Persistent
  <2>8. HasFields(slots', SlotNames) /\ (slots')["relay"] = 0
        /\ (slots')["hook"] = slots["hook"]
    BY <1>0, <2>1 DEF HasFields
  <2>9. SupFor(client.session)' /\ QueueOK' /\ SlotsOK'
    BY <1>0, <2>1, <2>6, <2>8 DEF SupFor, QueueOK, SlotsOK, HasFields
  <2>10. EventsFor(evs', (client').session, (sup').pc)
    BY <1>0, <2>1, <2>6, EventsDivided
  <2> QED BY <2>7, <2>9, <2>10 DEF SessionInv
<1>8. CASE RejoinStarts
  <2> DEFINE m == client.want
             b == [client EXCEPT !.want = "none"]
             e == [b EXCEPT !.then = "start", !.want = m]
  <2>1. client.pc = "resume" /\ UNCHANGED <<route, evs>> /\ behind' = StillBehind
    BY <1>8 DEF RejoinStarts
  <2>2. \/ Persistent(client) /\ ReuseSession(b, m)
        \/ client' = [b EXCEPT !.pc = "idle"] /\ UNCHANGED <<sup, cmds, slots>>
        \/ ~Persistent(client) /\ m # "none" /\ BeginStop(e)
    BY <1>8 DEF RejoinStarts
  <2>3. HasFields(b, ClientFields) /\ b.pc = client.pc /\ b.then = "none"
        /\ b.want = "none" /\ b.session = client.session /\ b.params = client.params
    BY <1>0, <2>1 DEF HasFields, ClientFields, PendingOK
  <2> HIDE DEF b
  <2>4. BridgeOK(b)
    BY <1>0, <2>3 DEF BridgeOK, Persistent, Thens
  <2>5. CASE Persistent(client) /\ ReuseSession(b, m)
    <3>1. Persistent(b)
      BY <2>3, <2>5 DEF Persistent
    <3> HIDE DEF m
    <3>2. /\ BridgeOK(client') /\ PendingOK(client') /\ (client').session = client.session
          /\ SupFor(client.session)' /\ QueueOK' /\ SlotsOK' /\ (sup').pc = sup.pc
          /\ Tidy(b, client')
      BY <1>0, <2>1, <2>3, <2>4, <2>5, <3>1, ReuseKeeps
    <3> QED BY <1>0, <2>1, <2>3, <3>2 DEF SessionInv, Tidy, Stranded, Persistent
  <2>6. CASE client' = [b EXCEPT !.pc = "idle"] /\ UNCHANGED <<sup, cmds, slots>>
    <3>1. HasFields(client', ClientFields) /\ (client').pc = "idle"
          /\ (client').then = "none" /\ (client').want = "none"
          /\ (client').session = client.session /\ (client').params = client.params
      BY <2>3, <2>6 DEF HasFields, ClientFields
    <3>2. BridgeOK(client') /\ PendingOK(client') /\ Tidy(client, client')
      BY <1>0, <3>1 DEF BridgeOK, PendingOK, Thens, Tidy, Stranded, Persistent
    <3>3. SupFor(client.session)' /\ QueueOK' /\ SlotsOK'
          /\ EventsFor(evs', (client').session, (sup').pc)
      BY <1>0, <2>1, <2>6, <3>1 DEF SupFor, QueueOK, SlotsOK, HasFields, StillBehind
    <3> QED BY <3>2, <3>3 DEF SessionInv
  <2>7. CASE ~Persistent(client) /\ m # "none" /\ BeginStop(e)
    <3>1. HasFields(e, ClientFields) /\ e.then = "start" /\ e.want = m
          /\ e.session = client.session /\ e.params = client.params
      BY <2>3 DEF HasFields, ClientFields
    <3> HIDE DEF e
    <3>2. BridgeOK(e) /\ ~Persistent(e)
      BY <1>0, <2>7, <3>1 DEF BridgeOK, Thens, Persistent
    <3>3. /\ BridgeOK(client') /\ PendingOK(client') /\ (client').session = e.session
          /\ SupFor(client.session)' /\ QueueOK' /\ SlotsOK' /\ (sup').pc = sup.pc
          /\ Tidy(e, client')
      BY <1>0, <2>1, <2>7, <3>1, <3>2, BeginStopKeeps
    <3> QED BY <1>0, <2>1, <3>1, <3>3 DEF SessionInv, Tidy, Stranded, Persistent
  <2> QED BY <2>2, <2>5, <2>6, <2>7
<1> QED BY <1>1, <1>2, <1>3, <1>4, <1>5, <1>6, <1>7, <1>8 DEF ClientReturns

(* The calls of the application thread.                                    *)
LEMMA CallsKeep ==
    ASSUME SessionInv, ClientCalls
    PROVE  SessionInv' /\ Tidy(client, client')
<1> USE DEF SlotNames
<1>0. /\ BridgeOK(client) /\ PendingOK(client) /\ HasFields(client, ClientFields)
      /\ SupFor(client.session) /\ QueueOK /\ SlotsOK /\ HasFields(slots, SlotNames)
      /\ EventsFor(evs, client.session, sup.pc)
      /\ client.pc = "idle" => client.then = "none"
  BY DEF SessionInv, BridgeOK, SlotsOK, PendingOK
\* A call that begins with stop_session and only remembers what follows.
<1>1. ASSUME NEW b, HasFields(b, ClientFields), b.session = client.session,
             b.params = client.params, b.then \in Thens, b.want \in Modes \cup {"none"},
             b.then = "start" => b.want # "none" /\ ~Persistent(b),
             BeginStop(b), UNCHANGED <<route, evs>>, behind' = StillBehind
      PROVE  SessionInv' /\ Tidy(client, client')
  <2>1. BridgeOK(b)
    BY <1>0, <1>1 DEF BridgeOK, Persistent
  <2>2. SupFor(b.session)
    BY <1>0, <1>1
  <2>3. /\ BridgeOK(client') /\ PendingOK(client') /\ (client').session = b.session
        /\ SupFor(client.session)' /\ QueueOK' /\ SlotsOK' /\ (sup').pc = sup.pc
        /\ Tidy(b, client')
    BY <1>0, <1>1, <2>1, <2>2, BeginStopKeeps
  <2> QED BY <1>0, <1>1, <2>3 DEF SessionInv, Tidy, Stranded, Persistent
<1>2. CASE PollEvents
  <2>1. PICK n \in 0..Len(evs) :
         LET seen == SubSeq(evs, 1, n)
             lost == Contains(seen, "lost")
             d == Cleared(Polled(client, seen), seen)
             bad == d.status = "Running" /\ ~d.resume /\ Mismatch(d)
             r == [d EXCEPT !.resume = @ \/ bad]
         IN  /\ evs' = SubSeq(evs, n + 1, Len(evs))
             /\ IF lost /\ r.session # "none" THEN BeginStop([r EXCEPT !.then = "lost"])
                ELSE IF bad THEN BeginStop(r)
                ELSE /\ client' = IF lost THEN [r EXCEPT !.joined = FALSE] ELSE r
                     /\ slots' = SlotsAfter(client', slots)
                     /\ UNCHANGED <<sup, cmds, reply>>
    <3>1. evs \in Seq(Events)
      BY <1>0 DEF EventsFor
    <3>2. 1..Len(evs) \subseteq 0..Len(evs)
      BY <3>1
    <3> QED BY <1>2, <3>2 DEF PollEvents
  <2> DEFINE seen == SubSeq(evs, 1, n)
             d == Cleared(Polled(client, seen), seen)
             bad == d.status = "Running" /\ ~d.resume /\ Mismatch(d)
             res == d.resume \/ bad
             r == [d EXCEPT !.resume = res]
             e == [r EXCEPT !.then = "lost"]
             g == [r EXCEPT !.joined = FALSE]
  <2>2. /\ evs' = SubSeq(evs, n + 1, Len(evs))
        /\ \/ BeginStop(e) \/ BeginStop(r)
           \/ /\ client' = r \/ client' = g
              /\ slots' = SlotsAfter(client', slots) /\ UNCHANGED <<sup, cmds>>
    BY <2>1
  <2>3. UNCHANGED route /\ client.pc = "idle" /\ behind' = StillBehind
    BY <1>2 DEF PollEvents
  <2> HIDE DEF res, bad
  <2>4. /\ BridgeOK(d) /\ SupFor(d.session) /\ d.then = client.then
        /\ d.pc = client.pc /\ Tidy(client, d) /\ EventsFor(evs', d.session, sup.pc)
    BY <2>2, ClearedKeeps
  <2> HIDE DEF d
  <2>5. HasFields(r, ClientFields) /\ SameCall(d, r)
    BY <2>4 DEF BridgeOK, HasFields, ClientFields, SameCall
  <2> HIDE DEF r
  <2>6. /\ BridgeOK(r) /\ r.session = d.session /\ r.then = "none" /\ PendingOK(r)
        /\ Tidy(client, r)
    BY <1>0, <2>3, <2>4, <2>5, SameCallKeeps DEF SameCall, PendingOK, Tidy
  <2>7. HasFields(e, ClientFields) /\ e.then = "lost" /\ e.want = r.want
        /\ e.session = r.session /\ e.params = r.params
    BY <2>5 DEF HasFields, ClientFields
  <2>8. HasFields(g, ClientFields) /\ SameCall(r, g)
    BY <2>5 DEF HasFields, ClientFields, SameCall
  <2> HIDE DEF e, g
  <2>a. BridgeOK(e) /\ Tidy(r, e)
    BY <2>6, <2>7 DEF BridgeOK, Thens, Tidy, Stranded, Persistent
  <2>9. BridgeOK(e) /\ BridgeOK(g) /\ PendingOK(g) /\ g.session = d.session
        /\ Tidy(client, e) /\ Tidy(client, g)
    BY <2>6, <2>8, <2>a, SameCallKeeps DEF Tidy
  <2>10. SupFor(r.session) /\ SupFor(e.session)
    BY <2>4, <2>6, <2>7
  <2>11. CASE BeginStop(e) \/ BeginStop(r)
    <3>1. /\ BridgeOK(client') /\ PendingOK(client') /\ (client').session = d.session
          /\ SupFor(client.session)' /\ QueueOK' /\ SlotsOK' /\ (sup').pc = sup.pc
          /\ Tidy(client, client')
      <4>1. CASE BeginStop(e)
        BY <1>0, <2>3, <2>6, <2>7, <2>9, <2>10, <4>1, BeginStopKeeps DEF Tidy
      <4>2. CASE BeginStop(r)
        BY <1>0, <2>3, <2>6, <2>10, <4>2, BeginStopKeeps DEF Tidy
      <4> QED BY <2>11, <4>1, <4>2
    <3> QED BY <2>4, <3>1 DEF SessionInv
  <2>12. CASE /\ client' = r \/ client' = g
              /\ slots' = SlotsAfter(client', slots) /\ UNCHANGED <<sup, cmds>>
    <3>1. /\ BridgeOK(client') /\ PendingOK(client') /\ (client').session = d.session
          /\ Tidy(client, client')
      BY <2>6, <2>9, <2>12
    <3>2. SlotsOK'
      BY <1>0, <2>3, <2>12, SlotsAfterKeeps
    <3>3. SupFor(client.session)' /\ QueueOK'
      BY <1>0, <2>3, <2>4, <2>12, <3>1 DEF SupFor, QueueOK, HasFields
    <3>4. EventsFor(evs', (client').session, (sup').pc)
      BY <2>4, <2>12, <3>1
    <3> QED BY <3>1, <3>2, <3>3, <3>4 DEF SessionInv
  <2> QED BY <2>2, <2>11, <2>12
<1>3. CASE StopSession
  <2>1. /\ client.pc = "idle" /\ BeginStop(client) /\ UNCHANGED <<route, evs>>
        /\ behind' = StillBehind
    BY <1>3 DEF StopSession
  <2> QED BY <1>0, <1>1, <2>1 DEF BridgeOK
<1>4. ASSUME NEW t \in Thens \ {"start"}, BeginStop([client EXCEPT !.then = t]),
             UNCHANGED <<route, evs>>, behind' = StillBehind
      PROVE  SessionInv' /\ Tidy(client, client')
  <2> DEFINE b == [client EXCEPT !.then = t]
  <2>1. HasFields(b, ClientFields) /\ b.then = t /\ b.want = client.want
        /\ b.session = client.session /\ b.params = client.params
    BY <1>0 DEF HasFields, ClientFields
  <2>2. BeginStop(b)
    BY <1>4
  <2> HIDE DEF b
  <2> QED BY <1>0, <1>1, <1>4, <2>1, <2>2 DEF BridgeOK
<1>5. CASE LeaveRoom
  <2>1. BeginStop([client EXCEPT !.then = "leave"]) /\ UNCHANGED <<route, evs>>
        /\ behind' = StillBehind
    BY <1>5 DEF LeaveRoom
  <2> QED BY <1>4, <2>1 DEF Thens
<1>6. CASE Shutdown
  <2>1. BeginStop([client EXCEPT !.then = "shutdown"]) /\ UNCHANGED <<route, evs>>
        /\ behind' = StillBehind
    BY <1>6 DEF Shutdown
  <2> QED BY <1>4, <2>1 DEF Thens
<1>7. ASSUME NEW m \in Modes, StartSession(m) PROVE SessionInv' /\ Tidy(client, client')
  <2>1. /\ client.pc = "idle" /\ client.then = "none" /\ UNCHANGED <<route, evs>>
        /\ behind' = StillBehind
    BY <1>0, <1>7 DEF StartSession
  <2>2. CASE Persistent(client)
    <3>1. ReuseSession(client, m)
      BY <1>7, <2>2 DEF StartSession
    <3>2. /\ BridgeOK(client') /\ PendingOK(client') /\ (client').session = client.session
          /\ SupFor(client.session)' /\ QueueOK' /\ SlotsOK' /\ (sup').pc = sup.pc
          /\ Tidy(client, client')
      BY <1>0, <2>1, <2>2, <3>1, ReuseKeeps
    <3> QED BY <1>0, <2>1, <3>2 DEF SessionInv
  <2>3. CASE ~Persistent(client)
    <3> DEFINE b == [client EXCEPT !.then = "start", !.want = m]
    <3>1. BeginStop(b)
      BY <1>7, <2>3 DEF StartSession
    <3>2. HasFields(b, ClientFields) /\ b.then = "start" /\ b.want = m
          /\ b.session = client.session /\ b.params = client.params
      BY <1>0 DEF HasFields, ClientFields
    <3> HIDE DEF b
    <3>3. m # "none" /\ ~Persistent(b)
      BY <2>3, <3>2, SessionAssumption DEF Persistent
    <3> QED BY <1>1, <2>1, <3>1, <3>2, <3>3 DEF Thens
  <2> QED BY <2>2, <2>3
<1>8. ASSUME NEW i \in Ids, JoinRelayRoom(i) PROVE SessionInv' /\ Tidy(client, client')
  <2> DEFINE l == LeaveRelay(client)
             j == [l EXCEPT !.joined = TRUE, !.room = i]
  <2>1. /\ client' = j \/ client' = l
        /\ slots' = [slots EXCEPT !["relay"] = 0] /\ evs' = SessionEvents(evs)
        /\ UNCHANGED <<sup, route, cmds>> /\ behind' = StillBehind
    BY <1>8 DEF JoinRelayRoom
  <2>2. HasFields(l, ClientFields) /\ SameCall(client, l)
    BY <1>0, PolledKeeps
  <2> HIDE DEF l
  <2>3. HasFields(j, ClientFields) /\ SameCall(client, j)
    BY <2>2 DEF HasFields, ClientFields, SameCall
  <2> HIDE DEF j
  <2>4. /\ BridgeOK(client') /\ PendingOK(client') /\ (client').session = client.session
        /\ Tidy(client, client')
    BY <1>0, <2>1, <2>2, <2>3, SameCallKeeps
  <2>5. HasFields(slots', SlotNames) /\ (slots')["relay"] = 0
        /\ (slots')["hook"] = slots["hook"]
    BY <1>0, <2>1 DEF HasFields
  <2>6. SupFor(client.session)' /\ QueueOK' /\ SlotsOK'
    BY <1>0, <2>1, <2>4, <2>5 DEF SupFor, QueueOK, SlotsOK, HasFields
  <2>7. EventsFor(evs', (client').session, (sup').pc)
    BY <1>0, <2>1, <2>4, EventsDivided
  <2> QED BY <2>4, <2>6, <2>7 DEF SessionInv
<1>9. ASSUME NEW i \in Ids, RejoinRelayRoom(i) PROVE SessionInv' /\ Tidy(client, client')
  <2> DEFINE again == (client.status = "Running" \/ client.resume)
             b == [client EXCEPT !.want = client.session, !.id = i, !.again = again]
             e == [b EXCEPT !.then = "rejoin"]
  <2>1. client.pc = "idle" /\ UNCHANGED <<route, evs>> /\ behind' = StillBehind
    BY <1>9 DEF RejoinRelayRoom
  <2>2. \/ BeginStop(e)
        \/ client' = [b EXCEPT !.pc = "rejoin"] /\ UNCHANGED <<sup, cmds, slots>>
    BY <1>9 DEF RejoinRelayRoom
  <2> HIDE DEF again
  <2>3. HasFields(b, ClientFields) /\ b.then = client.then /\ b.want = client.session
        /\ b.session = client.session /\ b.params = client.params
    BY <1>0 DEF HasFields, ClientFields
  <2> HIDE DEF b
  <2>4. HasFields(e, ClientFields) /\ e.then = "rejoin" /\ e.want = client.session
        /\ e.session = client.session /\ e.params = client.params
    BY <2>3 DEF HasFields, ClientFields
  <2> HIDE DEF e
  <2>5. CASE BeginStop(e)
    BY <1>0, <1>1, <2>1, <2>4, <2>5 DEF BridgeOK, Thens
  <2>6. CASE client' = [b EXCEPT !.pc = "rejoin"] /\ UNCHANGED <<sup, cmds, slots>>
    <3>1. HasFields(client', ClientFields) /\ (client').pc = "rejoin"
          /\ (client').then = "none" /\ (client').want = client.session
          /\ (client').session = client.session /\ (client').params = client.params
      BY <1>0, <2>1, <2>3, <2>6 DEF HasFields, ClientFields
    <3>2. BridgeOK(client') /\ PendingOK(client') /\ Tidy(client, client')
      BY <1>0, <3>1 DEF BridgeOK, PendingOK, Thens, Tidy, Stranded, Persistent
    <3>3. SupFor(client.session)' /\ QueueOK' /\ SlotsOK'
          /\ EventsFor(evs', (client').session, (sup').pc)
      BY <1>0, <2>1, <2>6, <3>1 DEF SupFor, QueueOK, SlotsOK, HasFields, StillBehind
    <3> QED BY <3>2, <3>3 DEF SessionInv
  <2> QED BY <2>2, <2>5, <2>6
<1> QED BY <1>2, <1>3, <1>5, <1>6, <1>7, <1>8, <1>9 DEF ClientCalls

LEMMA SessionStarts == SessionInit => SessionInv
<1> SUFFICES ASSUME SessionInit PROVE SessionInv
  OBVIOUS
<1> DEFINE no == FALSE
<1> HIDE DEF no
<1>1. client = [pc |-> "idle", then |-> "none", want |-> "none", again |-> no, id |-> "none",
                session |-> "none", status |-> "Idle", phase |-> "NotStarted", game |-> "none",
                joined |-> no, room |-> "none", resume |-> no, params |-> "none"]
  BY DEF SessionInit, no
<1>2. HasFields(client, ClientFields) /\ client.pc = "idle" /\ client.then = "none"
      /\ client.want = "none" /\ client.session = "none" /\ client.params = "none"
  BY <1>1 DEF HasFields, ClientFields
<1>4. BridgeOK(client) /\ PendingOK(client)
  BY <1>2 DEF BridgeOK, PendingOK, Thens, Persistent
<1>5. sup = [pc |-> "none", cancelled |-> no, mode |-> "none", plane |-> 0, hook |-> "none"]
  BY DEF SessionInit, no
<1>6. /\ HasFields(sup, {"pc", "cancelled", "mode", "plane", "hook"})
      /\ sup.pc = "none" /\ sup.plane = 0
  BY <1>5 DEF HasFields
<1>7. /\ route = NoRoute /\ cmds = <<>> /\ evs = <<>>
      /\ slots = [s \in SlotNames |-> 0]
  BY DEF SessionInit, SlotNames
<1>8. HasFields(route, SlotNames) /\ HasFields(slots, SlotNames)
  BY <1>7 DEF HasFields, SlotNames, NoRoute
<1>9. SupFor(client.session) /\ SlotsOK
  BY <1>2, <1>6, <1>7, <1>8 DEF SupFor, SlotsOK, SlotNames, Over
<1>10. QueueOK /\ EventsFor(evs, client.session, sup.pc)
  <2>1. <<>> \in Seq({}) /\ <<>> \in Seq(Events) /\ Len(<<>>) = 0
    OBVIOUS
  <2> QED BY <1>7, <2>1 DEF QueueOK, EventsFor
<1> QED BY <1>4, <1>9, <1>10 DEF SessionInv

LEMMA SessionStep ==
    SessionInv /\ [SessionNext]_sessionVars
      => SessionInv' /\ (Tidy(client, client') \/ Refused)
<1> SUFFICES ASSUME SessionInv, [SessionNext]_sessionVars
             PROVE  SessionInv' /\ (Tidy(client, client') \/ Refused)
  OBVIOUS
<1>1. CASE UNCHANGED sessionVars
  BY <1>1 DEF sessionVars, SessionInv, BridgeOK, PendingOK, SupFor, QueueOK, SlotsOK,
              HasFields, Tidy
<1>2. Done => UNCHANGED sessionVars
  BY DEF Done
<1>3. Supervisor => UNCHANGED client
  BY DEF Supervisor, SupStart, SupStartFails, SupStartGameplay, SupStopGameplay, SupCancelled,
         SupFinish, SupReturns
<1>4. SessionEnvironment => UNCHANGED client
  BY DEF SessionEnvironment, HookProgress, RouteExits, SupportExits, RoomLost, OldSupReturns
<1>5. UNCHANGED client => Tidy(client, client')
  BY DEF Tidy
<1> QED BY <1>1, <1>2, <1>3, <1>4, <1>5, SupervisorKeeps, EnvironmentKeeps, ReturnsKeep,
           CallsKeep DEF SessionNext

(* An occupied slot is held by something that gives it back, whatever      *)
(* start, stop, game exit, launch failure or rejoin crosses what           *)
(* (session.rs 129-221, supervisor.rs 134-170, 504-509).                   *)
THEOREM SlotsAreGivenBack == SessionSpec => []AttachmentsAreHeld
<1>1. SessionInv => AttachmentsAreHeld
  <2> SUFFICES ASSUME SessionInv, NEW s \in {"hook", "relay"}, slots[s] # 0
               PROVE  slots[s] \in Held(s)
    BY DEF AttachmentsAreHeld
  <2>1. CASE s = "hook"
    BY <2>1 DEF SessionInv, SlotsOK, Held
  <2>2. CASE s = "relay"
    <3>1. 1..Len(cmds) = DOMAIN cmds
      BY DEF SessionInv, QueueOK
    <3> QED BY <2>2, <3>1 DEF SessionInv, SlotsOK, Held, Unread
  <2> QED BY <2>1, <2>2
<1> QED BY <1>1, SessionStarts, SessionStep, PTL DEF SessionSpec

(* Whatever ends a session with a hook takes its launch parameters and its *)
(* Proton sidecar along; a start that finds its room still attached by an  *)
(* ended runtime is the only call that leaves files with no session        *)
(* (runtime.rs 286-311, 494-602, 639-653; supervisor.rs 168-171).          *)
THEOREM LaunchFilesGo == SessionSpec => FilesGoWithSession
<1>1. SessionInv /\ [SessionNext]_sessionVars
        => [~Stranded(client) /\ Stranded(client')
              => client.pc = "start"
                 /\ slots["relay"] \in (Unread \cup {behind}) \ {0}]_sessionVars
  BY SessionStep DEF Tidy, Refused
<1>2. SessionSpec => []SessionInv
  BY SessionStarts, SessionStep, PTL DEF SessionSpec
<1> QED BY <1>1, <1>2, PTL DEF SessionSpec, FilesGoWithSession

================================================================================

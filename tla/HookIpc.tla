------------------------------ MODULE HookIpc ------------------------------
(***************************************************************************)
(* Local IPC between the Bridge Client and the Native Hook in the game:    *)
(* the listener thread of the client (hook_ipc.rs, hook_ipc/connection.rs),*)
(* the worker thread of the hook (native-hook ipc_worker.rs), the reader   *)
(* thread that each of them starts per connection, and the Input Delay     *)
(* calls that travel over it.                                              *)
(*                                                                         *)
(* A reader thread owns a clone of the socket, so a connection is closed   *)
(* only when the main loop and the reader have both let go of it: a loop   *)
(* that gives a connection up does not by itself tell the other side.      *)
(* Timeouts are steps that may be taken whenever their clock can run.      *)
(***************************************************************************)
EXTENDS Naturals, Sequences, FiniteSets, SequencesExt

CONSTANTS MaxConns,   \* bound on TCP connections the hook opens
          MaxCalls,   \* bound on Input Delay calls
          MaxPings,   \* bound on liveness pings per connection
          MaxGame     \* bound on the hook's queue of game packets

ASSUME IpcAssumption == {MaxConns, MaxCalls, MaxPings, MaxGame} \subseteq Nat

VARIABLES c,         \* the listener thread of the client
          h,         \* the worker thread of the hook
          net,       \* one record per connection
          ctl,       \* queue of Input Delay calls not yet taken by the listener
          calls,     \* what each caller knows of its call
          data,      \* game packets queued in the hook, by the connection at that time
          startup,   \* HOOK_STARTUP in the game
          ready,     \* HookReadyDeadline.ready
          cancelled, \* the session's cancellation token
          running,   \* WORKER_RUNNING in the game
          traffic    \* what this behaviour exercises: several calls, a call
                     \* and pings, or packets and the end of the game

ipc  == <<c, h, net, ctl, calls, data, startup, ready, cancelled, running>>
vars == <<ipc, traffic>>

Conns   == 1..MaxConns
CallIds == 1..MaxCalls
\* What a caller knows: one of these, or the id of the command whose result
\* it was given.
New        == MaxCalls + 1
Unanswered == MaxCalls + 2
Failed     == MaxCalls + 3

Msg(t, v) == [t |-> t, v |-> v]

(***************************************************************************)
(* Handshake.                                                              *)
(***************************************************************************)
Hello(role, session) ==
    [magic |-> TRUE, major |-> TRUE, role |-> role, session |-> session,
     features |-> TRUE, limit |-> TRUE]

\* Handshake::validate: the first check that fails names the error.
Validate(hello, role, session) ==
    CASE ~hello.magic             -> "BadMagic"
      [] ~hello.major             -> "UnsupportedMajor"
      [] hello.role # role        -> "WrongRole"
      [] hello.session # session  -> "SessionMismatch"
      [] ~hello.features          -> "MissingFeatures"
      [] ~hello.limit             -> "PayloadLimitMismatch"
      [] OTHER                    -> "ok"


\* A hello of another process: another session, or an incompatible hook.
ForeignHellos == {Hello("NativeHook", "other"),
                  [Hello("NativeHook", "mine") EXCEPT !.major = FALSE],
                  [Hello("NativeHook", "mine") EXCEPT !.limit = FALSE]}

(***************************************************************************)
(* Connections.  cm, cr, hm, hr: the handles that the client's loop, the   *)
(* client's reader, the hook's loop and the hook's reader hold; up and     *)
(* down: the messages under way to the client and to the hook.             *)
(***************************************************************************)
NewConn == [up |-> <<>>, down |-> <<>>, used |-> FALSE, taken |-> FALSE,
            cm |-> FALSE, cr |-> FALSE, hm |-> FALSE, hr |-> FALSE]

ClientClosed(k) == (net[k].taken \/ c.phase = "ended") /\ ~net[k].cm /\ ~net[k].cr
HookClosed(k)   == ~net[k].hm /\ ~net[k].hr

\* Connection k becomes n; what no open handle can read any more is lost.
Becomes(k, n) ==
    net' = [net EXCEPT ![k] =
              [n EXCEPT !.up   = IF n.taken /\ ~n.cm /\ ~n.cr THEN <<>> ELSE @,
                        !.down = IF ~n.hm /\ ~n.hr THEN <<>> ELSE @]]
Backlog         == {k \in Conns : net[k].used /\ ~net[k].taken}

\* Where calls are made the hook is installed from the start.
Init ==
    /\ traffic \in {"calls", "pings", "packets"}
    /\ c = [phase |-> "accept", conn |-> 0, pend |-> {}, ping |-> 0, pings |-> 0,
            inst |-> "Pending", error |-> FALSE]
    /\ h = [phase |-> "idle", conn |-> 0, out |-> <<>>, told |-> "none"]
    /\ net = [k \in Conns |-> NewConn]
    /\ ctl = <<>> /\ data = <<>> /\ calls = [i \in CallIds |-> New]
    /\ startup \in {"Installing", "Ready"} /\ (startup = "Ready" <=> traffic # "packets")
    /\ ready = FALSE /\ cancelled = FALSE /\ running = TRUE

\* The listener between connections, the worker between connections.
Accepting == [c EXCEPT !.phase = "accept", !.conn = 0, !.pend = {}, !.ping = 0, !.pings = 0,
                       !.inst = "Pending"]
Idle      == [h EXCEPT !.phase = "idle", !.conn = 0, !.out = <<>>, !.told = "none"]

HookSide   == <<h, data, startup, running>>
ClientSide == <<c, ctl, calls, ready, cancelled>>

(***************************************************************************)
(* The end of a connection and of the listener, on the client.             *)
(***************************************************************************)
Answer(ids, a) == [i \in CallIds |-> IF i \in ids /\ calls[i] = Unanswered THEN a ELSE calls[i]]

\* reject_pending and reject_pending_controls; a call whose channel the
\* listener drops instead sees the same failure.
RejectCalls(ids) == calls' = Answer(ids, Failed) /\ ctl' = <<>>

\* The loop drops its handle.  What the reader had already taken from the
\* socket for the loop is lost; a reader that took the last message of the
\* peer has ended.
LetGo(k, q, main, reader, last) ==
    \E n \in 0..Len(net[k][q]) :
       Becomes(k, [net[k] EXCEPT ![q] = SubSeq(@, n + 1, Len(@)), ![main] = FALSE,
                                 ![reader] = @ /\ \A i \in 1..n : net[k][q][i].t # last])
ClientLetsGo(k) == IF k = 0 THEN net' = net ELSE LetGo(k, "up", "cm", "cr", "Goodbye")
HookLetsGo(k)   == IF k = 0 THEN net' = net ELSE LetGo(k, "down", "hm", "hr", "Shutdown")

\* Every return of run_listener; error: with a protocol error of the hook.
ClientEnds(error) ==
    /\ c' = [Accepting EXCEPT !.phase = "ended", !.error = error]
    /\ RejectCalls(c.pend \cup ToSet(ctl))

\* run_listener after a lost connection: wait for the hook to come back.
ClientReconnects ==
    /\ c' = Accepting
    /\ RejectCalls(c.pend \cup ToSet(ctl))
    /\ ClientLetsGo(c.conn)
    /\ UNCHANGED <<HookSide, ready, cancelled>>

ClientFails(error) ==
    /\ ClientEnds(error)
    /\ ClientLetsGo(c.conn)
    /\ UNCHANGED <<HookSide, ready, cancelled>>

(***************************************************************************)
(* The listener: accept and server_handshake.                              *)
(***************************************************************************)
ListenerCancelled == c.phase = "accept" /\ cancelled /\ ClientFails(FALSE)

\* connection_expired before the first connection, reconnect_timeout after.
ListenerExpires == c.phase = "accept" /\ ~cancelled /\ ClientFails(FALSE)

Accept ==
    /\ c.phase = "accept" /\ ~cancelled /\ Backlog # {}
    /\ LET k == CHOOSE k \in Backlog : \A j \in Backlog : k <= j
       IN /\ Becomes(k, [net[k] EXCEPT !.taken = TRUE, !.cm = TRUE])
          /\ c' = [c EXCEPT !.phase = "handshake", !.conn = k]
    /\ UNCHANGED <<HookSide, ctl, calls, ready, cancelled>>

\* A connection of another process: one of another session is rejected, one
\* of this session that the client cannot work with ends the listener.
AcceptForeign(hello) ==
    /\ c.phase = "accept" /\ ~cancelled
    /\ Validate(hello, "NativeHook", "mine") \notin {"ok", "SessionMismatch"}
    /\ ClientFails(FALSE)

\* accept would block.
RejectPendingControls ==
    /\ c.phase = "accept" /\ ~cancelled /\ Backlog = {} /\ ctl # <<>>
    /\ RejectCalls(ToSet(ctl))
    /\ UNCHANGED <<c, net, HookSide, ready, cancelled>>

\* The hello of the hook is read, and the client's own written.
ServerHello ==
    /\ c.phase = "handshake" /\ net[c.conn].up # <<>>
    /\ c' = [c EXCEPT !.phase = "await_ready"]
    /\ Becomes(c.conn, [net[c.conn] EXCEPT !.up = Tail(@), !.down = Append(@, Msg("Handshake", 0))])
    /\ UNCHANGED <<HookSide, ctl, calls, ready, cancelled>>

\* A timeout or a lost connection during the handshake is retried.
HandshakeInterrupted ==
    /\ c.phase \in {"handshake", "await_ready"} /\ net[c.conn].up = <<>>
    /\ c' = Accepting
    /\ ClientLetsGo(c.conn)
    /\ UNCHANGED <<HookSide, ctl, calls, ready, cancelled>>

\* EndpointReady starts the connection; any other message is an error.
EndpointReady ==
    /\ c.phase = "await_ready" /\ net[c.conn].up # <<>>
    /\ IF Head(net[c.conn].up).t = "EndpointReady"
       THEN /\ c' = [c EXCEPT !.phase = "connected"]
            /\ Becomes(c.conn, [net[c.conn] EXCEPT !.up = Tail(@), !.cr = TRUE])
            /\ UNCHANGED <<HookSide, ctl, calls, ready, cancelled>>
       ELSE ClientFails(TRUE)

(***************************************************************************)
(* The reader threads.  While the loop lives, its reader hands it the      *)
(* messages in order; game packets go straight to the session.  A reader   *)
(* whose loop has gone ends at the first message that is for the loop, or  *)
(* at the end of the stream.                                               *)
(***************************************************************************)
Attached(k) == c.phase = "connected" /\ c.conn = k

GameArrives(k) ==
    /\ net[k].cr /\ net[k].up # <<>> /\ Head(net[k].up).t = "Game"
    /\ Becomes(k, [net[k] EXCEPT !.up = Tail(@)])
    /\ UNCHANGED <<ClientSide, HookSide>>

\* Mutant: the reader does not notice that its loop has gone.
ReaderStays(k) ==
    /\ net[k].cr /\ ~Attached(k) /\ net[k].up # <<>> /\ Head(net[k].up).t # "Game"
    /\ Becomes(k, [net[k] EXCEPT !.up = Tail(@)])
    /\ UNCHANGED <<ClientSide, HookSide>>

ClientReaderEnds(k) ==
    /\ net[k].cr /\ ~Attached(k)
    /\ \/ net[k].up # <<>> /\ Head(net[k].up).t # "Game"
       \/ net[k].up = <<>> /\ HookClosed(k)
    /\ Becomes(k, [net[k] EXCEPT !.up = IF @ = <<>> THEN @ ELSE Tail(@), !.cr = FALSE])
    /\ UNCHANGED <<ClientSide, HookSide>>

HookReaderEnds(k) ==
    /\ net[k].hr /\ ~(h.phase = "connected" /\ h.conn = k)
    /\ net[k].down # <<>> \/ ClientClosed(k)
    /\ Becomes(k, [net[k] EXCEPT !.down = IF @ = <<>> THEN @ ELSE Tail(@), !.hr = FALSE])
    /\ UNCHANGED <<ClientSide, HookSide>>

(***************************************************************************)
(* run_connection on the client.                                           *)
(***************************************************************************)
Connected == c.phase = "connected" /\ ~cancelled
Got(t) == Connected /\ net[c.conn].up # <<>> /\ Head(net[c.conn].up).t = t
Value  == Head(net[c.conn].up).v
Taken  == Becomes(c.conn, [net[c.conn] EXCEPT !.up = Tail(@)])

\* Cancellation is looked at first; Shutdown is written if the socket takes
\* it, and the failure to write it is ignored.
ConnectionCancelled ==
    /\ c.phase = "connected" /\ cancelled
    /\ ClientEnds(FALSE)
    /\ \E sent \in {<<>>, <<Msg("Shutdown", 0)>>} :
         Becomes(c.conn, [net[c.conn] EXCEPT !.cm = FALSE, !.down = @ \o sent])
    /\ UNCHANGED <<HookSide, ready, cancelled>>

PongTimeout == Connected /\ c.ping # 0 /\ ClientReconnects

GotStartup ==
    /\ Got("Startup") /\ Taken
    /\ c' = [c EXCEPT !.inst = IF Value = "Installing" THEN "Pending" ELSE Value]
    /\ ready' = (ready \/ Value = "Ready")
    /\ UNCHANGED <<HookSide, ctl, calls, cancelled>>

\* After the batch in which a failure was read.
StartupFailed ==
    c.phase = "connected" /\ c.inst = "Failed" /\ ClientFails(FALSE)

InstallationExpires ==
    Connected /\ c.inst # "Ready" /\ ~ready /\ ClientFails(FALSE)

\* Mutant: the answer goes to whoever waits.
AnyWaiting(i) == c.pend
\* The caller whose id the answer carries.
Answered(i) == {i}

GotResult ==
    /\ Got("Result")
    /\ IF Value \in c.pend
       THEN /\ calls' = Answer(Answered(Value), Value)
            /\ c' = [c EXCEPT !.pend = @ \ {Value}]
            /\ Taken /\ UNCHANGED <<HookSide, ctl, ready, cancelled>>
       ELSE ClientFails(TRUE)

GotPong ==
    /\ Got("Pong")
    /\ IF Value = c.ping
       THEN c' = [c EXCEPT !.ping = 0] /\ Taken /\ UNCHANGED <<HookSide, ctl, calls, ready, cancelled>>
       ELSE ClientFails(TRUE)

GotHealth == Got("Health") /\ Taken /\ UNCHANGED <<ClientSide, HookSide>>

\* The game says goodbye: the whole session is cancelled.
GotGoodbye ==
    /\ Got("Goodbye")
    /\ ClientEnds(FALSE)
    /\ cancelled' = TRUE
    /\ Becomes(c.conn, [net[c.conn] EXCEPT !.up = Tail(@), !.cm = FALSE, !.cr = FALSE])
    /\ UNCHANGED <<HookSide, ready>>

GotEof ==
    /\ Connected /\ net[c.conn].up = <<>> /\ HookClosed(c.conn)
    /\ c' = Accepting
    /\ RejectCalls(c.pend \cup ToSet(ctl))
    /\ Becomes(c.conn, [net[c.conn] EXCEPT !.cm = FALSE, !.cr = FALSE])
    /\ UNCHANGED <<HookSide, ready, cancelled>>

\* PendingWrite: a write that the socket does not take at once is one that
\* happens later; one that stalls for WRITE_TIMEOUT, or meets a closed
\* connection, ends the connection.
ClientWrites(m) == Becomes(c.conn, [net[c.conn] EXCEPT !.down = Append(@, m)])

SendCall ==
    /\ Connected /\ c.inst # "Failed" /\ ctl # <<>>
    /\ ClientWrites(Msg("Delay", Head(ctl)))
    /\ c' = [c EXCEPT !.pend = @ \cup {Head(ctl)}]
    /\ ctl' = Tail(ctl)
    /\ UNCHANGED <<HookSide, calls, ready, cancelled>>

\* One ping at a time, every LIVENESS_PING_INTERVAL.
PingAllowed == c.ping = 0 /\ c.pings < MaxPings /\ traffic = "pings"

SendPing ==
    /\ Connected /\ c.inst # "Failed" /\ ctl = <<>> /\ PingAllowed
    /\ ClientWrites(Msg("Ping", c.pings + 1))
    /\ c' = [c EXCEPT !.ping = c.pings + 1, !.pings = @ + 1]
    /\ UNCHANGED <<HookSide, ctl, calls, ready, cancelled>>

ClientWriteFails == Connected /\ (ctl # <<>> \/ PingAllowed) /\ ClientReconnects

(***************************************************************************)
(* request_input_delay: one caller, which waits for INPUT_DELAY_TIMEOUT    *)
(* and learns the command whose result it was given.  A call made after    *)
(* the listener ended fails at once.                                       *)
(***************************************************************************)
Request(i) ==
    /\ calls[i] = New /\ \A j \in 1..(i - 1) : calls[j] \notin {New, Unanswered}
    /\ ready
    /\ c.phase # "ended"
    /\ calls' = [calls EXCEPT ![i] = Unanswered] /\ ctl' = Append(ctl, i)
    /\ UNCHANGED <<c, net, HookSide, ready, cancelled>>

\* The entry stays until the answer comes or the connection ends.
StillPending(i) == c.pend

GiveUp(i) ==
    /\ calls[i] = Unanswered
    /\ calls' = [calls EXCEPT ![i] = Failed]
    /\ c' = [c EXCEPT !.pend = StillPending(i)]
    /\ UNCHANGED <<net, HookSide, ctl, ready, cancelled>>

Cancel ==
    /\ c.phase # "ended" /\ ~cancelled /\ cancelled' = TRUE
    /\ UNCHANGED <<c, net, HookSide, ctl, calls, ready>>

(***************************************************************************)
(* The worker of the hook: run, connect.                                   *)
(***************************************************************************)
\* The end of the worker drops the receiver of the game's packets.
HookEnds == h' = [Idle EXCEPT !.phase = "ended"] /\ data' = <<>>

\* connect_window_expired: 40 s for the first connection, 3 s for the next.
HookExpires ==
    /\ h.phase = "idle" /\ running /\ HookEnds
    /\ UNCHANGED <<net, ClientSide, startup, running>>

HookStops ==
    /\ h.phase = "idle" /\ ~running /\ HookEnds
    /\ UNCHANGED <<net, ClientSide, startup, running>>

\* connect_stream succeeds as soon as the listener's backlog takes it.
HookConnects ==
    /\ h.phase = "idle" /\ running
    /\ \E k \in Conns :
         /\ ~net[k].used /\ \A j \in 1..(k - 1) : net[j].used
         /\ h' = [h EXCEPT !.phase = "handshake", !.conn = k]
         /\ Becomes(k, [net[k] EXCEPT !.used = TRUE, !.hm = TRUE, !.up = <<Msg("Handshake", 0)>>])
    /\ UNCHANGED <<ClientSide, data, startup, running>>

\* Mutant: packets queued while there was no connection are sent on the next.
KeepStaleData == data
\* discard_stale_data.
DiscardStaleData == <<>>

HookHandshake ==
    /\ h.phase = "handshake" /\ running /\ net[h.conn].down # <<>>
    /\ Becomes(h.conn, [net[h.conn] EXCEPT !.down = Tail(@), !.hr = TRUE,
                              !.up = Append(@, Msg("EndpointReady", 0))])
    /\ h' = [h EXCEPT !.phase = "connected"]
    /\ data' = DiscardStaleData
    /\ UNCHANGED <<ClientSide, startup, running>>

\* A handshake that the listener does not answer in time ends the worker:
\* the timeout is reported as a protocol error.
HookHandshakeExpires ==
    /\ h.phase = "handshake" /\ running
    /\ HookEnds /\ HookLetsGo(h.conn)
    /\ UNCHANGED <<ClientSide, startup, running>>

\* The connection is lost, or the process detaches, during the handshake.
HookHandshakeLost ==
    /\ h.phase = "handshake"
    /\ \/ running /\ net[h.conn].down = <<>> /\ ClientClosed(h.conn) /\ h' = Idle /\ UNCHANGED data
       \/ ~running /\ HookEnds
    /\ HookLetsGo(h.conn)
    /\ UNCHANGED <<ClientSide, startup, running>>

(***************************************************************************)
(* run_connection on the hook.                                             *)
(***************************************************************************)
HookLoop   == h.phase = "connected" /\ running
HookGot(t) == HookLoop /\ net[h.conn].down # <<>> /\ Head(net[h.conn].down).t = t
HookValue  == Head(net[h.conn].down).v
HookTaken  == Becomes(h.conn, [net[h.conn] EXCEPT !.down = Tail(@)])

\* handle_input_delay: the result of the command, which its id stands for.
HookDelay ==
    /\ HookGot("Delay") /\ HookTaken
    /\ h' = [h EXCEPT !.out = Append(@, Msg("Result", HookValue))]
    /\ UNCHANGED <<ClientSide, data, startup, running>>

HookPing ==
    /\ HookGot("Ping") /\ HookTaken
    /\ h' = [h EXCEPT !.out = Append(@, Msg("Pong", HookValue))]
    /\ UNCHANGED <<ClientSide, data, startup, running>>

HookShutdown ==
    /\ HookGot("Shutdown") /\ HookEnds
    /\ Becomes(h.conn, [net[h.conn] EXCEPT !.down = Tail(@), !.hm = FALSE, !.hr = FALSE])
    /\ UNCHANGED <<ClientSide, startup, running>>

HookDisconnected ==
    /\ HookLoop /\ net[h.conn].down = <<>> /\ ClientClosed(h.conn) /\ h' = Idle
    /\ Becomes(h.conn, [net[h.conn] EXCEPT !.hm = FALSE, !.hr = FALSE])
    /\ UNCHANGED <<ClientSide, data, startup, running>>

HookCanPut == HookLoop /\ ~ClientClosed(h.conn)
HookPut(m) == Becomes(h.conn, [net[h.conn] EXCEPT !.up = Append(@, m)])

\* The status the client has not been told on this connection.
StartupNews == h.told # startup

\* The loop queues the news of its startup before it writes.
HookWrites ==
    /\ HookCanPut
    /\ LET out == IF StartupNews THEN Append(h.out, Msg("Startup", startup)) ELSE h.out
       IN /\ out # <<>>
          /\ HookPut(Head(out))
          /\ h' = [h EXCEPT !.out = Tail(out), !.told = startup]
    /\ UNCHANGED <<ClientSide, data, startup, running>>

\* HEALTH_INTERVAL; a second Health is not sent while one is under way.
HookHealth ==
    /\ HookCanPut /\ h.out = <<>> /\ ~StartupNews
    /\ \A i \in 1..Len(net[h.conn].up) : net[h.conn].up[i].t # "Health"
    /\ HookPut(Msg("Health", 0)) /\ UNCHANGED h
    /\ UNCHANGED <<ClientSide, data, startup, running>>

HookGame ==
    /\ HookCanPut /\ h.out = <<>> /\ ~StartupNews /\ data # <<>>
    /\ HookPut(Msg("Game", Head(data)))
    /\ data' = Tail(data)
    /\ UNCHANGED <<ClientSide, h, startup, running>>

HookWriteFails ==
    /\ HookLoop /\ (h.out # <<>> \/ data # <<>>)
    /\ h' = Idle /\ HookLetsGo(h.conn)
    /\ UNCHANGED <<ClientSide, data, startup, running>>

\* running became FALSE: Goodbye is written if the socket takes it.
HookGoodbye ==
    /\ h.phase = "connected" /\ ~running
    /\ HookEnds
    /\ \E sent \in {<<>>, <<Msg("Goodbye", 0)>>} :
         Becomes(h.conn, [net[h.conn] EXCEPT !.hm = FALSE, !.up = @ \o sent])
    /\ UNCHANGED <<ClientSide, startup, running>>

(***************************************************************************)
(* The game: sends packets, finishes installing the hooks, detaches the    *)
(* DLL, or is killed, which closes every handle of the process.            *)
(***************************************************************************)
GameSends ==
    /\ h.phase # "ended" /\ Len(data) < MaxGame
    /\ \A k \in Conns : \A i \in 1..Len(net[k].up) : net[k].up[i].t # "Game"
    /\ data' = Append(data, IF h.phase = "connected" THEN h.conn ELSE 0)
    /\ UNCHANGED <<h, net, ClientSide, startup, running>>

HooksInstalled(s) ==
    /\ h.phase # "ended" /\ startup = "Installing" /\ startup' = s
    /\ UNCHANGED <<h, net, ClientSide, data, running>>

ProcessDetach ==
    /\ h.phase # "ended" /\ running /\ running' = FALSE
    /\ UNCHANGED <<h, net, ClientSide, data, startup>>

GameKilled ==
    /\ h.phase # "ended" /\ HookEnds
    /\ net' = [k \in Conns |-> [net[k] EXCEPT !.hm = FALSE, !.hr = FALSE, !.down = <<>>]]
    /\ UNCHANGED <<ClientSide, startup, running>>

(***************************************************************************)
(* Specification.                                                          *)
(***************************************************************************)
ClientLoop ==
    \/ ListenerCancelled \/ Accept \/ RejectPendingControls \/ ServerHello
    \/ HandshakeInterrupted \/ EndpointReady
    \/ ConnectionCancelled \/ GotStartup \/ StartupFailed \/ GotResult \/ GotPong
    \/ GotHealth \/ GotGoodbye \/ GotEof \/ SendCall

HookWorker ==
    \/ HookStops \/ HookHandshake \/ HookHandshakeLost \/ HookDelay \/ HookPing
    \/ HookShutdown \/ HookDisconnected \/ HookWrites \/ HookHealth \/ HookGame
    \/ HookGoodbye

\* Clocks that run out, and faults.
Timers ==
    \/ ListenerExpires \/ PongTimeout \/ InstallationExpires \/ ClientWriteFails \/ SendPing
    \/ HookExpires \/ HookHandshakeExpires \/ HookWriteFails \/ HookConnects

Readers == \E k \in Conns : GameArrives(k) \/ ClientReaderEnds(k) \/ HookReaderEnds(k)

Called == IF traffic = "pings" THEN CallIds \cap {1} ELSE CallIds

Environment ==
    \/ Cancel
    \/ traffic # "packets" /\ \E i \in Called : Request(i) \/ GiveUp(i)
    \/ traffic = "packets" /\ GameSends
    \/ traffic = "packets" /\ \E s \in {"Ready", "Failed"} : HooksInstalled(s)
    \/ traffic = "packets" /\ \E hello \in ForeignHellos : AcceptForeign(hello)
    \/ traffic = "packets" /\ (ProcessDetach \/ GameKilled)

Next == UNCHANGED traffic /\ (ClientLoop \/ HookWorker \/ Timers \/ Readers \/ Environment)

\* The threads run; the connection windows are finite.
Fairness ==
    /\ WF_ipc(ClientLoop) /\ WF_ipc(HookWorker) /\ WF_ipc(Readers)
    /\ WF_ipc(HookHealth) /\ WF_ipc(HookExpires \/ HookHandshakeExpires)

Spec == Init /\ [][Next]_vars /\ Fairness

(***************************************************************************)
(* Properties.                                                             *)
(***************************************************************************)

\* A caller is told the outcome of its own command, never of another one,
\* across give-ups, reconnects and late answers (hook_ipc.rs, pending ids).
AnswerIsOwn == \A i \in CallIds : calls[i] \in {New, Unanswered, Failed, i}

\* A packet the game sent while the hook had no connection, or an earlier
\* one, is not sent after a reconnect (discard_stale_data).
StaleGameDiscarded ==
    \A k \in Conns : \A i \in 1..Len(net[k].up) :
       net[k].up[i].t = "Game" => net[k].up[i].v = k

\* Once the session is cancelled, or the listener ends for any reason, both
\* workers end, whatever the state of the connection: a listener that lets
\* go of a connection which its reader keeps open must not leave the hook
\* attached to it for good (serve_connection).
BothEnd == (cancelled \/ c.phase = "ended") ~> (c.phase = "ended" /\ h.phase = "ended")

=============================================================================

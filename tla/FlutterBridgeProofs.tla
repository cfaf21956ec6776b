-------------------------- MODULE FlutterBridgeProofs --------------------------
(***************************************************************************)
(* Proofs about the Flutter bridge and the application worker: what the    *)
(* threads hand to each other, why a command from before a leave is never  *)
(* executed, and why the restore entry of the history is always listed.    *)
(***************************************************************************)
EXTENDS FlutterBridge, DataLemmas

Rooms == Codes \cup {"none"}
Kinds == {"none", "joinRelay", "rejoin", "createLan", "probe", "joinLan", "start", "stop",
          "retry", "clear", "openLog", "catalog", "other"}
Commands == [kind : Kinds, code : Rooms, cur : BOOLEAN, left : BOOLEAN, cancel : BOOLEAN]

\* A command that a leave has overtaken is no longer current; one that is
\* about to be sent, or runs, has not been overtaken.
Sendable == {m \in Commands : m.left => ~m.cur}
FreshCommands == {m \in Commands : ~m.left}

EventKinds == {"ShutdownComplete", "RoomLeft", "CommandRejected", "LogDirectoryOpened",
               "StartFinished", "SessionStopped", "RelayRoomJoined", "LanRoomJoined",
               "LanRoomCreated", "ProbeNone", "ProbeOne", "ProbeMany", "Other"}
AppEvents == [kind : EventKinds, ok : BOOLEAN, code : Rooms]

Statuses == {"Idle", "Active", "Joining", "Leaving", "Failed"}
Launches == [pending : BOOLEAN, cancelReq : BOOLEAN, cancelled : BOOLEAN,
             error : BOOLEAN, deadline : BOOLEAN]
BridgeStates == [status : Statuses, room : Rooms, pending : Rooms, pendingLan : Rooms,
                 launch : Launches]

Threaded == [pc : {"idle", "write", "stamp", "send", "publish", "process", "gone"},
             cmd : FreshCommands, draft : BridgeStates \cup {"none"},
             snap : [over : BOOLEAN, late : BOOLEAN] \cup {"none"}, evs : Seq(AppEvents)]

\* A history as RestoreIsListed wants it.
Histories == {h \in [codes : Seq(Rooms), restore : Rooms] :
                 /\ h.restore # "none" => Listed(h, h.restore)
                 /\ Len(h.codes) <= MaxHistory
                 /\ IsInjective(h.codes)}

\* The inductive invariant: the worker's part, the bridge's, the history's.
WorkerOK ==
    /\ queue \in Seq(Sendable) /\ flight \in Sendable
    /\ events \in Seq(AppEvents)
    /\ wk \in [pc : {"boot", "top", "stopping", "leaving", "bye", "poll", "recv", "run", "done"},
               cmd : FreshCommands]
BridgeOK ==
    /\ st \in BridgeStates
    /\ th \in [Threads -> Threaded]
    /\ th["ui"].pc = "write" => th["ui"].draft \in BridgeStates
BridgeInv == WorkerOK /\ BridgeOK /\ hist \in Histories

--------------------------------------------------------------------------------
(* record_success keeps a history a history: the code leaves its old place *)
(* and comes first, so nothing is listed twice and truncating the list     *)
(* never drops the code that is restored.                                  *)
LEMMA RecordKeeps ==
    ASSUME NEW h \in Histories, NEW c \in Codes
    PROVE  RecordSuccess(h, c) \in Histories
<1> DEFINE rest == RemoveFirst(h.codes, c)
           moved == <<c>> \o rest
           k == IF Len(moved) < MaxHistory THEN Len(moved) ELSE MaxHistory
           kept == SubSeq(moved, 1, k)
<1>1. /\ h.codes \in Seq(Rooms) /\ Len(h.codes) \in Nat /\ DOMAIN h.codes = 1..Len(h.codes)
      /\ IsInjective(h.codes) /\ c \in Rooms /\ c # "none"
  BY ApplicationAssumption DEF Histories, Rooms, Codes
<1>2. /\ rest \in Seq(Rooms)
      /\ \A i \in 1..Len(rest) : rest[i] # c
      /\ \A i \in 1..Len(rest) : \A j \in 1..Len(rest) : rest[i] = rest[j] => i = j
  <2>1. CASE Contains(h.codes, c)
    <3>1. PICK f \in 1..Len(h.codes) : h.codes[f] = c /\ rest = RemoveAt(h.codes, f)
      BY <1>1, <2>1, RemovedFirst
    <3>2. /\ rest \in Seq(Rooms) /\ Len(rest) = Len(h.codes) - 1
          /\ \A j \in 1..Len(h.codes) - 1 :
                rest[j] = IF j < f THEN h.codes[j] ELSE h.codes[j + 1]
      BY <1>1, <3>1, RemovedAt
    <3> DEFINE at(j) == IF j < f THEN j ELSE j + 1
    <3>3. \A j \in 1..Len(rest) : /\ rest[j] = h.codes[at(j)] /\ at(j) \in 1..Len(h.codes)
                                  /\ at(j) # f
      BY <1>1, <3>1, <3>2
    <3>4. \A i \in 1..Len(rest) : \A j \in 1..Len(rest) : at(i) = at(j) => i = j
      BY <1>1, <3>1
    <3>5. \A a \in 1..Len(h.codes) : \A b \in 1..Len(h.codes) :
             h.codes[a] = h.codes[b] => a = b
      BY <1>1 DEF IsInjective
    <3> HIDE DEF at, rest
    <3>6. \A i \in 1..Len(rest) : rest[i] # c
      BY <3>1, <3>3, <3>5
    <3>7. \A i \in 1..Len(rest) : \A j \in 1..Len(rest) : rest[i] = rest[j] => i = j
      BY <3>3, <3>4, <3>5
    <3> QED BY <3>2, <3>6, <3>7
  <2>2. CASE ~Contains(h.codes, c)
    <3>1. \A i \in 1..Len(h.codes) : h.codes[i] # c
      BY <1>1, <2>2 DEF Contains
    <3>2. rest = h.codes
      BY <3>1 DEF RemoveFirst
    <3> HIDE DEF rest
    <3> QED BY <1>1, <3>1, <3>2 DEF IsInjective
  <2> QED BY <2>1, <2>2
<1> HIDE DEF rest
<1>3. /\ moved \in Seq(Rooms) /\ Len(moved) = Len(rest) + 1 /\ moved[1] = c
      /\ \A i \in 2..Len(moved) : moved[i] = rest[i - 1]
  BY <1>1, <1>2
<1>4. Len(rest) \in Nat
  BY <1>2
<1> HIDE DEF moved
<1>5. \A i \in 1..Len(moved) : \A j \in 1..Len(moved) : moved[i] = moved[j] => i = j
  <2>1. \A i \in 1..Len(moved) : i = 1 \/ (i \in 2..Len(moved) /\ i - 1 \in 1..Len(rest))
    BY <1>3, <1>4
  <2>2. \A i \in 2..Len(moved) : moved[i] # c
    BY <1>2, <1>3, <1>4
  <2> QED BY <1>2, <1>3, <1>4, <2>1, <2>2
<1>6. k \in Nat /\ 1 <= k /\ k <= Len(moved) /\ k <= MaxHistory
  BY <1>3, <1>4, BridgeAssumption
<1>7. /\ kept \in Seq(Rooms) /\ Len(kept) = k /\ DOMAIN kept = 1..k
      /\ \A i \in 1..k : kept[i] = moved[i]
  <2> HIDE DEF k
  <2> QED BY <1>3, <1>6
<1>8. RecordSuccess(h, c) = [codes |-> kept, restore |-> c]
  BY DEF RecordSuccess, moved, rest
<1> HIDE DEF k, kept
<1>9. IsInjective(kept)
  BY <1>3, <1>4, <1>5, <1>6, <1>7 DEF IsInjective
<1>10. kept[1] = c /\ 1 \in DOMAIN kept
  BY <1>3, <1>6, <1>7
<1> QED BY <1>1, <1>6, <1>7, <1>8, <1>9, <1>10 DEF Histories, Listed

(* process_events handles a list of events one after the other: what the   *)
(* fold of the model computes, event by event.                             *)
EventsFoldRun(f, base, evs, S) ==
    /\ f \in [0..Len(evs) -> S]
    /\ f[0] = base
    /\ \A i \in 1..Len(evs) : f[i] = ProcessEvent(f[i - 1], evs[i])
    /\ FoldLeft(ProcessEvent, base, evs) = f[Len(evs)]

LEMMA EventsFold ==
    ASSUME NEW S, NEW E, NEW base \in S, NEW evs \in Seq(E),
           \A r \in S : \A e \in E : ProcessEvent(r, e) \in S
    PROVE  \E f : EventsFoldRun(f, base, evs, S)
<1> DEFINE n == Len(evs)
           step == [i \in 1..n |-> [r \in S |-> ProcessEvent(r, evs[i])]]
           Step(it) == [s \in SUBSET (1..n) |->
                           IF s = {} THEN base
                           ELSE ProcessEvent(it[s \ {Max(s)}], evs[Max(s)])]
           it == CHOOSE x : x = Step(x)
<1>1. n \in Nat /\ DOMAIN evs = 1..n /\ \A i \in 1..n : evs[i] \in E
  OBVIOUS
<1> HIDE DEF n
<1>2. step \in [1..n -> [S -> S]]
  BY <1>1
<1>3. PICK g : FoldsOver(g, n, S, base, step)
  <2> HIDE DEF step
  <2> QED BY <1>1, <1>2, FoldExists
<1>4. g = Step(g)
  <2>1. ASSUME NEW s \in SUBSET (1..n), s # {}
        PROVE  g[s] = ProcessEvent(g[s \ {Max(s)}], evs[Max(s)])
    <3>1. Max(s) \in 1..n
      <4>1. s \subseteq 0..n
        BY <1>1
      <4> QED BY <4>1, <2>1, <1>1, MaxOfBounded
    <3>2. g[s \ {Max(s)}] \in S /\ g[s] = step[Max(s)][g[s \ {Max(s)}]]
      BY <2>1, <1>3 DEF FoldsOver
    <3> QED BY <3>1, <3>2
  <2>2. g[{}] = base /\ DOMAIN g = SUBSET (1..n) /\ g = [s \in SUBSET (1..n) |-> g[s]]
    BY <1>3 DEF FoldsOver
  <2> HIDE DEF step
  <2> QED BY <2>1, <2>2
<1>5. it = Step(it)
  <2> HIDE DEF Step
  <2> QED BY <1>4
<1>6. FoldLeft(ProcessEvent, base, evs) = it[1..n]
  BY Zenon, <1>1 DEF FoldLeft, MapThenFoldSet
<1>7. it[{}] = base
  BY <1>5
<1>8. ASSUME NEW k \in 1..n
      PROVE  it[1..k] = ProcessEvent(it[1..(k - 1)], evs[k])
  <2>0. n \in Nat
    BY <1>1
  <2>1. k \in Nat \ {0} /\ 1..k # {}
    <3>1. k \in Nat \ {0}
      BY ONLY <2>0, k \in 1..n
    <3>2. 1 \in 1..k
      BY ONLY <3>1
    <3> QED BY <3>1, <3>2
  <2>2. 1..k \in SUBSET (1..n)
    BY ONLY <2>0, k \in 1..n
  <2>3. Max(1..k) = k /\ (1..k) \ {k} = 1..(k - 1)
    BY <2>1, LastOfRange
  <2>4. it[1..k] = ProcessEvent(it[(1..k) \ {Max(1..k)}], evs[Max(1..k)])
    <3> HIDE DEF it
    <3> QED BY Zenon, <1>5, <2>1, <2>2
  <2> HIDE DEF it
  <2> QED BY ONLY <2>3, <2>4
<1>9. ASSUME NEW k \in 1..n, it[1..(k - 1)] \in S
      PROVE  it[1..k] = step[k][it[1..(k - 1)]]
  <2> HIDE DEF it
  <2> QED BY <1>8, <1>9
<1>10. \E f : Runs(f, n, S, base, step) /\ f[n] = it[1..n]
  <2>1. n \in Nat /\ step \in [1..n -> [S -> S]] /\ it[{}] = base
    BY ONLY <1>1, <1>2, <1>7
  <2>2. \A k \in 1..n : it[1..(k - 1)] \in S => it[1..k] = step[k][it[1..(k - 1)]]
    <3> HIDE DEF it, step, n
    <3> QED BY ONLY <1>9
  <2> HIDE DEF it, step, Step, n
  <2> QED BY ONLY base \in S, <2>1, <2>2, RunOfFold, SMTT(30)
<1>11. PICK f : Runs(f, n, S, base, step) /\ f[n] = it[1..n]
  BY <1>10
<1>12. ASSUME NEW i \in 1..n
       PROVE  f[i] = ProcessEvent(f[i - 1], evs[i])
  <2>1. f[i - 1] \in S /\ f[i] = step[i][f[i - 1]]
    <3>1. i - 1 \in 0..n
      BY <1>1
    <3> HIDE DEF step
    <3> QED BY <3>1, <1>11 DEF Runs
  <2> QED BY <2>1
<1>13. f \in [0..n -> S] /\ f[0] = base
  BY <1>11 DEF Runs
<1> HIDE DEF it
<1>14. EventsFoldRun(f, base, evs, S)
  BY <1>6, <1>11, <1>12, <1>13 DEF n, EventsFoldRun
<1> QED BY <1>14

(* The commands asked for on the way are sent one after the other.         *)
SubmitsFoldRun(f, base, evs, S) ==
    /\ f \in [0..Len(evs) -> S]
    /\ f[0] = base
    /\ \A i \in 1..Len(evs) : f[i] = Submit(f[i - 1], evs[i])
    /\ FoldLeft(Submit, base, evs) = f[Len(evs)]

LEMMA SubmitsFold ==
    ASSUME NEW S, NEW E, NEW base \in S, NEW evs \in Seq(E),
           \A r \in S : \A e \in E : Submit(r, e) \in S
    PROVE  \E f : SubmitsFoldRun(f, base, evs, S)
<1> DEFINE n == Len(evs)
           step == [i \in 1..n |-> [r \in S |-> Submit(r, evs[i])]]
           Step(it) == [s \in SUBSET (1..n) |->
                           IF s = {} THEN base
                           ELSE Submit(it[s \ {Max(s)}], evs[Max(s)])]
           it == CHOOSE x : x = Step(x)
<1>1. n \in Nat /\ DOMAIN evs = 1..n /\ \A i \in 1..n : evs[i] \in E
  OBVIOUS
<1> HIDE DEF n
<1>2. step \in [1..n -> [S -> S]]
  BY <1>1
<1>3. PICK g : FoldsOver(g, n, S, base, step)
  <2> HIDE DEF step
  <2> QED BY <1>1, <1>2, FoldExists
<1>4. g = Step(g)
  <2>1. ASSUME NEW s \in SUBSET (1..n), s # {}
        PROVE  g[s] = Submit(g[s \ {Max(s)}], evs[Max(s)])
    <3>1. Max(s) \in 1..n
      <4>1. s \subseteq 0..n
        BY <1>1
      <4> QED BY <4>1, <2>1, <1>1, MaxOfBounded
    <3>2. g[s \ {Max(s)}] \in S /\ g[s] = step[Max(s)][g[s \ {Max(s)}]]
      BY <2>1, <1>3 DEF FoldsOver
    <3> QED BY <3>1, <3>2
  <2>2. g[{}] = base /\ DOMAIN g = SUBSET (1..n) /\ g = [s \in SUBSET (1..n) |-> g[s]]
    BY <1>3 DEF FoldsOver
  <2> HIDE DEF step
  <2> QED BY <2>1, <2>2
<1>5. it = Step(it)
  <2> HIDE DEF Step
  <2> QED BY <1>4
<1>6. FoldLeft(Submit, base, evs) = it[1..n]
  BY Zenon, <1>1 DEF FoldLeft, MapThenFoldSet
<1>7. it[{}] = base
  BY <1>5
<1>8. ASSUME NEW k \in 1..n
      PROVE  it[1..k] = Submit(it[1..(k - 1)], evs[k])
  <2>0. n \in Nat
    BY <1>1
  <2>1. k \in Nat \ {0} /\ 1..k # {}
    <3>1. k \in Nat \ {0}
      BY ONLY <2>0, k \in 1..n
    <3>2. 1 \in 1..k
      BY ONLY <3>1
    <3> QED BY <3>1, <3>2
  <2>2. 1..k \in SUBSET (1..n)
    BY ONLY <2>0, k \in 1..n
  <2>3. Max(1..k) = k /\ (1..k) \ {k} = 1..(k - 1)
    BY <2>1, LastOfRange
  <2>4. it[1..k] = Submit(it[(1..k) \ {Max(1..k)}], evs[Max(1..k)])
    <3> HIDE DEF it
    <3> QED BY Zenon, <1>5, <2>1, <2>2
  <2> HIDE DEF it
  <2> QED BY ONLY <2>3, <2>4
<1>9. ASSUME NEW k \in 1..n, it[1..(k - 1)] \in S
      PROVE  it[1..k] = step[k][it[1..(k - 1)]]
  <2> HIDE DEF it
  <2> QED BY <1>8, <1>9
<1>10. \E f : Runs(f, n, S, base, step) /\ f[n] = it[1..n]
  <2>1. n \in Nat /\ step \in [1..n -> [S -> S]] /\ it[{}] = base
    BY ONLY <1>1, <1>2, <1>7
  <2>2. \A k \in 1..n : it[1..(k - 1)] \in S => it[1..k] = step[k][it[1..(k - 1)]]
    <3> HIDE DEF it, step, n
    <3> QED BY ONLY <1>9
  <2> HIDE DEF it, step, Step, n
  <2> QED BY ONLY base \in S, <2>1, <2>2, RunOfFold, SMTT(30)
<1>11. PICK f : Runs(f, n, S, base, step) /\ f[n] = it[1..n]
  BY <1>10
<1>12. ASSUME NEW i \in 1..n
       PROVE  f[i] = Submit(f[i - 1], evs[i])
  <2>1. f[i - 1] \in S /\ f[i] = step[i][f[i - 1]]
    <3>1. i - 1 \in 0..n
      BY <1>1
    <3> HIDE DEF step
    <3> QED BY <3>1, <1>11 DEF Runs
  <2> QED BY <2>1
<1>13. f \in [0..n -> S] /\ f[0] = base
  BY <1>11 DEF Runs
<1> HIDE DEF it
<1>14. SubmitsFoldRun(f, base, evs, S)
  BY <1>6, <1>11, <1>12, <1>13 DEF n, SubmitsFoldRun
<1> QED BY <1>14

--------------------------------------------------------------------------------
(* What process_events carries along.                                      *)
Folded == [st : BridgeStates, hist : Histories, submits : Seq(FreshCommands)]

LEMMA FreshCmd ==
    ASSUME NEW k \in Kinds, NEW c \in Rooms
    PROVE  Cmd(k, c) \in FreshCommands /\ Cmd(k, c) \in Sendable
  BY DEF Cmd, NoCmd, FreshCommands, Sendable, Commands

LEMMA FreshIsSendable == FreshCommands \subseteq Sendable
  BY DEF FreshCommands, Sendable

LEMMA StoppedLaunch ==
    ASSUME NEW l \in Launches
    PROVE  Stopped(l) \in Launches
<1> DEFINE x == l.cancelled \/ l.cancelReq
           y == l.error /\ ~l.cancelReq
<1>1. x \in BOOLEAN /\ y \in BOOLEAN
  OBVIOUS
<1>2. Stopped(l) = [l EXCEPT !.cancelled = x, !.error = y,
                             !.cancelReq = FALSE, !.pending = FALSE, !.deadline = FALSE]
  BY Zenon DEF Stopped
<1> HIDE DEF x, y
<1> QED BY <1>1, <1>2 DEF Launches

(* Handling one event keeps the state, the history and the submissions in  *)
(* order.                                                                  *)
LEMMA EventHandled ==
    ASSUME NEW r \in Folded, NEW e \in AppEvents
    PROVE  ProcessEvent(r, e) \in Folded
<1>1. /\ r.st \in BridgeStates /\ r.hist \in Histories /\ r.submits \in Seq(FreshCommands)
      /\ e.code \in Rooms /\ e.kind \in EventKinds
  BY DEF Folded, AppEvents
<1>2. ASSUME NEW q \in Folded
      PROVE  Record(q) \in Folded
  <2>1. CASE q.st.room = "none"
    BY <1>2, <2>1 DEF Record
  <2>2. CASE q.st.room # "none"
    <3>1. q.st.room \in Codes
      BY <2>2 DEF Folded, BridgeStates, Rooms
    <3>2. RecordSuccess(q.hist, q.st.room) \in Histories
      BY <3>1, RecordKeeps DEF Folded
    <3>3. Record(q) = [q EXCEPT !.hist = RecordSuccess(q.hist, q.st.room)]
      BY <2>2 DEF Record
    <3> QED BY <3>2, <3>3 DEF Folded
  <2> QED BY <2>1, <2>2
<1>3. CASE e.kind = "StartFinished"
  BY <1>1, <1>3 DEF ProcessEvent, Folded, BridgeStates, Launches
<1>4. CASE e.kind = "SessionStopped"
  <2>1. Stopped(r.st.launch) \in Launches
    <3>1. r.st.launch \in Launches
      BY <1>1 DEF BridgeStates
    <3> QED BY <3>1, StoppedLaunch
  <2>2. ProcessEvent(r, e) = [r EXCEPT !.st.launch = Stopped(r.st.launch)]
    BY <1>4 DEF ProcessEvent
  <2> QED BY <1>1, <2>1, <2>2 DEF Folded, BridgeStates
<1>5. CASE e.kind = "RoomLeft"
  BY <1>1, <1>5 DEF ProcessEvent, Folded, BridgeStates, Statuses, Rooms
<1>6. CASE e.kind \in {"RelayRoomJoined", "LanRoomJoined"}
  <2>1. ProcessEvent(r, e) = IF e.ok THEN Entered(r) ELSE NotEntered(r)
    BY <1>6 DEF ProcessEvent
  <2>2. [r EXCEPT !.st.room = IF r.st.pending # "none" THEN r.st.pending ELSE @,
                  !.st.pending = "none", !.st.status = "Active"] \in Folded
    BY <1>1 DEF Folded, BridgeStates, Statuses, Rooms
  <2>3. Entered(r) \in Folded
    BY <1>2, <2>2 DEF Entered
  <2>4. NotEntered(r) \in Folded
    BY <1>1 DEF NotEntered, Folded, BridgeStates, Statuses, Rooms
  <2> QED BY <2>1, <2>3, <2>4
<1>7. CASE e.kind = "LanRoomCreated"
  <2>1. [r EXCEPT !.st.room = e.code, !.st.status = "Active"] \in Folded
    BY <1>1 DEF Folded, BridgeStates, Statuses
  <2>2. [r EXCEPT !.st.room = "none", !.st.status = "Failed"] \in Folded
    BY <1>1 DEF Folded, BridgeStates, Statuses, Rooms
  <2>3. ProcessEvent(r, e) = IF e.ok THEN Record([r EXCEPT !.st.room = e.code, !.st.status = "Active"])
                             ELSE [r EXCEPT !.st.room = "none", !.st.status = "Failed"]
    BY <1>7 DEF ProcessEvent
  <2> QED BY <1>2, <2>1, <2>2, <2>3
<1>8. CASE e.kind = "ProbeOne"
  <2>1. Cmd("joinLan", e.code) \in FreshCommands
    BY <1>1, FreshCmd DEF Kinds
  <2>2. Append(r.submits, Cmd("joinLan", e.code)) \in Seq(FreshCommands)
    BY <1>1, <2>1
  <2>3. ProcessEvent(r, e) = [r EXCEPT !.st.pendingLan = "none", !.st.pending = e.code,
                                       !.submits = Append(@, Cmd("joinLan", e.code))]
    BY <1>8 DEF ProcessEvent
  <2> DEFINE m == Append(r.submits, Cmd("joinLan", e.code))
  <2>4. ProcessEvent(r, e) = [r EXCEPT !.st.pendingLan = "none", !.st.pending = e.code,
                                       !.submits = m]
    BY <2>3
  <2>5. m \in Seq(FreshCommands)
    BY <2>2
  <2> HIDE DEF m
  <2> DEFINE s == [r.st EXCEPT !.pendingLan = "none", !.pending = e.code]
  <2>6. s \in BridgeStates
    BY <1>1 DEF BridgeStates, Rooms
  <2>7. ProcessEvent(r, e) = [r EXCEPT !.st = s, !.submits = m]
    BY <1>1, <2>4 DEF Folded, BridgeStates
  <2> HIDE DEF s
  <2> QED BY <1>1, <2>5, <2>6, <2>7 DEF Folded
<1>9. CASE e.kind = "ProbeMany"
  BY <1>1, <1>9 DEF ProcessEvent, Folded, BridgeStates
<1>10. CASE e.kind = "ProbeNone"
  BY <1>1, <1>10 DEF ProcessEvent, Folded, BridgeStates, Statuses, Rooms
<1>11. CASE e.kind \in {"ShutdownComplete", "CommandRejected", "LogDirectoryOpened", "Other"}
  BY <1>11 DEF ProcessEvent
<1> QED BY <1>1, <1>3, <1>4, <1>5, <1>6, <1>7, <1>8, <1>9, <1>10, <1>11 DEF EventKinds

(* The whole of process_events.                                            *)
LEMMA EventsHandled ==
    ASSUME NEW r \in Folded, NEW evs \in Seq(AppEvents)
    PROVE  FoldLeft(ProcessEvent, r, evs) \in Folded
<1>1. \A q \in Folded : \A e \in AppEvents : ProcessEvent(q, e) \in Folded
  BY EventHandled
<1>2. PICK f : EventsFoldRun(f, r, evs, Folded)
  BY <1>1, EventsFold
<1>3. Len(evs) \in 0..Len(evs)
  OBVIOUS
<1> QED BY <1>2, <1>3 DEF EventsFoldRun

(* enforce_launch_timeout                                                  *)
LEMMA TimeoutEnforced ==
    ASSUME NEW r \in Folded, NEW s
    PROVE  EnforceTimeout(r, s) \in Folded
<1>1. /\ r.st \in BridgeStates /\ r.hist \in Histories /\ r.submits \in Seq(FreshCommands)
  BY DEF Folded
<1>2. [r EXCEPT !.st.launch.pending = FALSE, !.st.launch.deadline = FALSE] \in Folded
  BY <1>1 DEF Folded, BridgeStates, Launches
<1>3. [r EXCEPT !.st.launch = [NoLaunch EXCEPT !.error = TRUE],
                !.submits = Append(@, Cmd("stop", "none"))] \in Folded
  <2>1. Cmd("stop", "none") \in FreshCommands
    BY FreshCmd DEF Kinds, Rooms
  <2>2. Append(r.submits, Cmd("stop", "none")) \in Seq(FreshCommands)
    BY <1>1, <2>1
  <2>3. [NoLaunch EXCEPT !.error = TRUE] \in Launches
    BY DEF NoLaunch, Launches
  <2> QED BY <1>1, <2>2, <2>3 DEF Folded, BridgeStates
<1> QED BY <1>2, <1>3 DEF EnforceTimeout

(* Sending what was asked for: only commands no leave has overtaken join   *)
(* the queue.                                                              *)
Sent == [st : BridgeStates, queue : Seq(Sendable)]

LEMMA SubmitsSent ==
    ASSUME NEW r \in Sent, NEW ms \in Seq(FreshCommands)
    PROVE  FoldLeft(Submit, r, ms) \in Sent
<1>1. ASSUME NEW q \in Sent, NEW m \in FreshCommands
      PROVE  Submit(q, m) \in Sent
  <2>1. q.st \in BridgeStates /\ q.queue \in Seq(Sendable) /\ m \in Sendable
    BY FreshIsSendable DEF Sent
  <2>2. Append(q.queue, m) \in Seq(Sendable)
    BY <2>1
  <2>3. [q EXCEPT !.queue = Append(@, m)] \in Sent
    BY <2>1, <2>2 DEF Sent
  <2>4. [q EXCEPT !.st.pending = "none", !.st.status = "Failed"] \in Sent
    BY <2>1 DEF Sent, BridgeStates, Statuses, Rooms
  <2> QED BY <2>3, <2>4 DEF Submit
<1>2. PICK f : SubmitsFoldRun(f, r, ms, Sent)
  BY <1>1, SubmitsFold
<1>3. Len(ms) \in 0..Len(ms)
  OBVIOUS
<1> QED BY <1>2, <1>3 DEF SubmitsFoldRun

--------------------------------------------------------------------------------
(* What a worker step does to the commands under way.                      *)
LEMMA StaleSendable ==
    ASSUME NEW m \in Sendable
    PROVE  Stale(m) \in Sendable /\ LeftBehind(Stale(m)) \in Sendable
<1>1. m \in Commands
  BY DEF Sendable
<1>2. Stale(m) \in Commands /\ ~Stale(m).cur
  BY <1>1 DEF Stale, Commands
<1>3. LeftBehind(Stale(m)) \in Commands /\ ~LeftBehind(Stale(m)).cur
  <2>1. (Stale(m).kind # "none") \in BOOLEAN
    OBVIOUS
  <2> DEFINE x == Stale(m).kind # "none"
  <2>2. LeftBehind(Stale(m)) = [Stale(m) EXCEPT !.left = x]
    BY Zenon DEF LeftBehind
  <2>3. x \in BOOLEAN
    OBVIOUS
  <2> HIDE DEF x
  <2> QED BY <1>2, <2>2, <2>3 DEF Commands
<1> QED BY <1>2, <1>3 DEF Sendable

LEMMA StaleQueue ==
    ASSUME NEW q \in Seq(Sendable)
    PROVE  /\ [i \in DOMAIN q |-> Stale(q[i])] \in Seq(Sendable)
           /\ [i \in DOMAIN q |-> LeftBehind(Stale(q[i]))] \in Seq(Sendable)
           /\ q # <<>> => /\ [i \in 1..(Len(q) - 1) |-> Stale(q[i + 1])] \in Seq(Sendable)
                          /\ Tail(q) \in Seq(Sendable) /\ Head(q) \in Sendable
<1>1. Len(q) \in Nat /\ DOMAIN q = 1..Len(q) /\ \A i \in 1..Len(q) : q[i] \in Sendable
  OBVIOUS
<1>2. \A i \in 1..Len(q) : Stale(q[i]) \in Sendable /\ LeftBehind(Stale(q[i])) \in Sendable
  BY <1>1, StaleSendable
<1>3. [i \in DOMAIN q |-> Stale(q[i])] \in [1..Len(q) -> Sendable]
  BY <1>1, <1>2
<1>4. [i \in DOMAIN q |-> LeftBehind(Stale(q[i]))] \in [1..Len(q) -> Sendable]
  BY <1>1, <1>2
<1>5. ASSUME q # <<>>
      PROVE  /\ [i \in 1..(Len(q) - 1) |-> Stale(q[i + 1])] \in Seq(Sendable)
             /\ Tail(q) \in Seq(Sendable) /\ Head(q) \in Sendable
  <2>1. Len(q) - 1 \in Nat /\ Tail(q) \in Seq(Sendable) /\ Head(q) \in Sendable
    BY <1>1, <1>5
  <2>2. \A i \in 1..(Len(q) - 1) : i + 1 \in 1..Len(q)
    BY <1>1
  <2>3. [i \in 1..(Len(q) - 1) |-> Stale(q[i + 1])] \in [1..(Len(q) - 1) -> Sendable]
    BY <1>2, <2>2
  <2> QED BY <2>1, <2>3, SeqDef
<1> QED BY <1>1, <1>3, <1>4, <1>5, SeqDef

(* Only a current command is begun, and what a leave has overtaken is not  *)
(* current any more.                                                       *)
LEMMA BegunIsFresh ==
    ASSUME WorkerOK, queue # <<>>, ~Refused(Next1), Next1.kind # "retry", cl.alive
    PROVE  Next1 \in FreshCommands
<1>1. Next1 \in Sendable
  BY StaleQueue DEF WorkerOK, Next1
<1>2. Next1.cur
  BY DEF Refused, IsCurrent
<1> QED BY <1>1, <1>2 DEF Sendable, FreshCommands

LEMMA NoCmdFresh == NoCmd \in FreshCommands /\ NoCmd \in Sendable
  BY DEF NoCmd, FreshCommands, Sendable, Commands, Kinds, Rooms

LEMMA FinishKeeps ==
    ASSUME WorkerOK, NEW c, NEW l, NEW e \in AppEvents, Finish(c, l, e)
    PROVE  WorkerOK'
<1>1. queue' \in Seq(Sendable) /\ flight' \in Sendable
  BY StaleQueue, StaleSendable DEF WorkerOK, Finish, RaiseGeneration
<1>2. events' \in Seq(AppEvents)
  BY DEF WorkerOK, Finish, Say
<1>3. wk' = [pc |-> "top", cmd |-> NoCmd]
  BY DEF Finish
<1> QED BY <1>1, <1>2, <1>3, NoCmdFresh DEF WorkerOK

LEMMA EventTyped ==
    ASSUME WorkerOK, NEW k \in EventKinds, NEW ok \in BOOLEAN
    PROVE  Event(k, ok) \in AppEvents
<1>1. wk.cmd.code \in Rooms
  BY DEF WorkerOK, FreshCommands, Commands
<1> QED BY <1>1 DEF Event, AppEvents

LEMMA WorkerKeeps ==
    ASSUME WorkerOK, Worker
    PROVE  WorkerOK'
<1>0. /\ queue \in Seq(Sendable) /\ flight \in Sendable /\ events \in Seq(AppEvents)
      /\ wk.cmd \in FreshCommands /\ "none" \in Rooms
      /\ [wk EXCEPT !.pc = "top"].cmd = wk.cmd
  BY DEF WorkerOK, Rooms
<1> DEFINE Pcs == {"boot", "top", "stopping", "leaving", "bye", "poll", "recv", "run", "done"}
<1>1. \A p \in Pcs : [wk EXCEPT !.pc = p] \in [pc : Pcs, cmd : FreshCommands]
  BY DEF WorkerOK
<1>2. \A e \in AppEvents : Append(events, e) \in Seq(AppEvents)
  BY <1>0
<1>3. /\ [i \in DOMAIN queue |-> Stale(queue[i])] \in Seq(Sendable)
      /\ [i \in DOMAIN queue |-> LeftBehind(Stale(queue[i]))] \in Seq(Sendable)
      /\ queue # <<>> => /\ [i \in 1..(Len(queue) - 1) |-> Stale(queue[i + 1])] \in Seq(Sendable)
                         /\ Tail(queue) \in Seq(Sendable)
      /\ Stale(flight) \in Sendable /\ LeftBehind(Stale(flight)) \in Sendable
  BY <1>0, StaleQueue, StaleSendable
<1> USE DEF WorkerOK
<1>4. CASE \E ok \in BOOLEAN : BootEnds(ok)
  BY <1>0, <1>1, <1>3, <1>4 DEF BootEnds, RaiseGeneration
<1>5. CASE TakeShutdown
  BY <1>0, <1>1, <1>5 DEF TakeShutdown
<1>6. CASE TakeLeave
  BY <1>0, <1>1, <1>3, <1>6 DEF TakeLeave
<1>7. CASE ShutdownEnds
  BY <1>0, <1>1, <1>7 DEF ShutdownEnds
<1>8. CASE SayShutdown
  <2>1. [kind |-> "ShutdownComplete", ok |-> TRUE, code |-> "none"] \in AppEvents
    BY <1>0 DEF AppEvents, EventKinds
  <2> QED BY <1>0, <1>1, <1>2, <1>8, <2>1 DEF SayShutdown, Say
<1>9. CASE LeaveEnds
  <2>1. [kind |-> "RoomLeft", ok |-> TRUE, code |-> "none"] \in AppEvents
    BY <1>0 DEF AppEvents, EventKinds
  <2> QED BY <1>0, <1>1, <1>2, <1>3, <1>9, <2>1 DEF LeaveEnds, Say, RaiseGeneration
<1>10. CASE Poll
  BY <1>0, <1>1, <1>10 DEF Poll
<1>11. CASE RecvTimeout
  BY <1>0, <1>1, <1>11 DEF RecvTimeout
<1>12. Rejected \in AppEvents
  BY <1>0 DEF Rejected, AppEvents, EventKinds
<1>13. CASE RejectCommand
  BY <1>0, <1>1, <1>2, <1>3, <1>12, <1>13 DEF RejectCommand, Say
<1>14. CASE RetryBootstrap
  <2>1. queue # <<>> /\ UNCHANGED events
    BY <1>14 DEF RetryBootstrap
  <2>2. CASE cl.alive
    <3>1. queue' = Tail(queue) /\ flight' = flight /\ wk' = [wk EXCEPT !.pc = "top"]
      BY <1>14, <2>2 DEF RetryBootstrap
    <3>2. queue' \in Seq(Sendable) /\ flight' \in Sendable
      BY ONLY <3>1, <2>1, <1>0, <1>3
    <3>3. wk' \in [pc : Pcs, cmd : FreshCommands]
      BY <1>1, <3>1
    <3> QED BY <1>0, <2>1, <3>2, <3>3
  <2>3. CASE ~cl.alive
    <3>1. /\ queue' = [i \in 1..(Len(queue) - 1) |-> Stale(queue[i + 1])]
          /\ flight' = Stale(flight) /\ wk' = [wk EXCEPT !.pc = "boot"]
      BY <1>14, <2>3 DEF RetryBootstrap
    <3>2. queue' \in Seq(Sendable) /\ flight' \in Sendable
      BY ONLY <3>1, <2>1, <1>3
    <3>3. wk' \in [pc : Pcs, cmd : FreshCommands]
      BY <1>1, <3>1
    <3> QED BY <1>0, <2>1, <3>2, <3>3
  <2> QED BY <2>2, <2>3
<1>15. CASE OpenLogWithoutClient
  <2>1. [kind |-> "LogDirectoryOpened", ok |-> TRUE, code |-> "none"] \in AppEvents
    BY <1>0 DEF AppEvents, EventKinds
  <2>2. PICK e \in AppEvents : events' = Append(events, e)
    BY <1>12, <1>15, <2>1 DEF OpenLogWithoutClient, Say
  <2> QED BY <1>0, <1>1, <1>2, <1>3, <1>15, <2>2 DEF OpenLogWithoutClient
<1>16. CASE ClearLogs
  BY <1>0, <1>1, <1>3, <1>16 DEF ClearLogs
<1>17. CASE BeginCommand
  <2>1. Next1 \in FreshCommands
    BY <1>17, BegunIsFresh DEF BeginCommand
  <2> QED BY <1>0, <1>3, <1>17, <2>1 DEF BeginCommand
<1>18. CASE Start \/ Stop \/ JoinRelayRoom \/ RejoinRelayRoom \/ CreateLanRoom
              \/ ProbeLanJoin \/ JoinLanRoom \/ OtherCommand
  <2>1. \A k \in EventKinds : \A ok \in BOOLEAN : Event(k, ok) \in AppEvents
    BY EventTyped
  <2>2. \E c : \E l : \E k \in EventKinds : \E ok \in BOOLEAN : Finish(c, l, Event(k, ok))
    <3>1. CASE Start
      BY <3>1 DEF Start, EventKinds
    <3>2. CASE Stop
      BY <3>2 DEF Stop, EventKinds
    <3>3. CASE JoinRelayRoom
      BY <3>3 DEF JoinRelayRoom, EventKinds
    <3>4. CASE RejoinRelayRoom
      BY <3>4 DEF RejoinRelayRoom, EventKinds
    <3>5. CASE CreateLanRoom
      BY <3>5 DEF CreateLanRoom, EventKinds
    <3>6. CASE ProbeLanJoin
      BY <3>6 DEF ProbeLanJoin, EventKinds
    <3>7. CASE JoinLanRoom
      BY <3>7 DEF JoinLanRoom, EventKinds
    <3>8. CASE OtherCommand
      BY <3>8 DEF OtherCommand, EventKinds
    <3> QED BY <1>18, <3>1, <3>2, <3>3, <3>4, <3>5, <3>6, <3>7, <3>8
  <2>3. PICK c : \E l : \E k \in EventKinds : \E ok \in BOOLEAN : Finish(c, l, Event(k, ok))
    BY ONLY <2>2
  <2>4. PICK l : \E k \in EventKinds : \E ok \in BOOLEAN : Finish(c, l, Event(k, ok))
    BY ONLY <2>3
  <2>5. PICK k \in EventKinds : \E ok \in BOOLEAN : Finish(c, l, Event(k, ok))
    BY ONLY <2>4
  <2>6. PICK ok \in BOOLEAN : Finish(c, l, Event(k, ok))
    BY ONLY <2>5
  <2>7. Event(k, ok) \in AppEvents
    BY <2>1
  <2> QED BY ONLY WorkerOK, <2>6, <2>7, FinishKeeps
<1> QED BY <1>4, <1>5, <1>6, <1>7, <1>8, <1>9, <1>10, <1>11, <1>13, <1>14, <1>15,
           <1>16, <1>17, <1>18 DEF Worker

--------------------------------------------------------------------------------
(* The threads of the bridge.                                              *)
LEMMA IdleThreaded == Idle \in Threaded
<1>1. NoCmd \in FreshCommands
  BY NoCmdFresh
<1>2. <<>> \in Seq(AppEvents)
  OBVIOUS
<1> QED BY <1>1, <1>2 DEF Idle, Threaded

LEMMA NoStateTyped == NoState \in BridgeStates
  BY DEF NoState, NoLaunch, BridgeStates, Launches, Statuses, Rooms

\* What a step of a thread is allowed to do to the invariant's variables.
ThreadKept ==
    /\ queue' \in Seq(Sendable) /\ flight' \in Sendable /\ events' \in Seq(AppEvents)
    /\ wk' = wk
    /\ st' \in BridgeStates /\ hist' \in Histories
    /\ th' \in [Threads -> Threaded]
    /\ th'["ui"].pc = "write" => th'["ui"].draft \in BridgeStates

LEMMA KeptIsEnough ==
    ASSUME BridgeInv, ThreadKept
    PROVE  BridgeInv'
  BY DEF BridgeInv, WorkerOK, BridgeOK, ThreadKept, Histories, Listed

LEMMA DrainKeeps ==
    ASSUME BridgeInv, NEW t \in Threads, Drain(t)
    PROVE  ThreadKept
<1>1. PICK late \in BOOLEAN :
         th' = [th EXCEPT ![t] = [Idle EXCEPT !.pc = "process", !.evs = events,
                                              !.snap = [over |-> LaunchOver(snap), late |-> late]]]
  BY DEF Drain
<1>2. LaunchOver(snap) \in BOOLEAN
  BY DEF LaunchOver
<1>3. [Idle EXCEPT !.pc = "process", !.evs = events,
                   !.snap = [over |-> LaunchOver(snap), late |-> late]] \in Threaded
  <2>1. [over |-> LaunchOver(snap), late |-> late] \in [over : BOOLEAN, late : BOOLEAN]
    BY <1>2
  <2>2. events \in Seq(AppEvents) /\ NoCmd \in FreshCommands
    BY NoCmdFresh DEF BridgeInv, WorkerOK
  <2> QED BY <2>1, <2>2 DEF Idle, Threaded
<1>4. th \in [Threads -> Threaded] /\ th' \in [Threads -> Threaded]
  BY <1>1, <1>3 DEF BridgeInv, BridgeOK
<1>5. th'["ui"].pc = "write" => th'["ui"].draft \in BridgeStates
  <2>1. CASE t = "ui"
    <3>1. th'["ui"].pc = "process"
      BY <1>1, <1>4, <2>1 DEF Idle, Threads
    <3> QED BY <3>1
  <2>2. CASE t # "ui"
    <3>1. th'["ui"] = th["ui"]
      BY <1>1, <1>4, <2>2 DEF Threads
    <3> QED BY <3>1 DEF BridgeInv, BridgeOK
  <2> QED BY <2>1, <2>2
<1> QED BY <1>4, <1>5 DEF Drain, BridgeInv, WorkerOK, BridgeOK, ThreadKept

LEMMA ProcessKeeps ==
    ASSUME BridgeInv, NEW t \in Threads, Process(t)
    PROVE  ThreadKept
<1> DEFINE folded == FoldLeft(ProcessEvent, [st |-> st, hist |-> hist, submits |-> <<>>], th[t].evs)
           timed  == EnforceTimeout(folded, th[t].snap)
           sent   == FoldLeft(Submit, [st |-> timed.st, queue |-> queue], timed.submits)
<1>1. /\ th[t].evs \in Seq(AppEvents) /\ st \in BridgeStates /\ hist \in Histories
      /\ queue \in Seq(Sendable)
  BY DEF BridgeInv, BridgeOK, WorkerOK, Threaded
<1>2. [st |-> st, hist |-> hist, submits |-> <<>>] \in Folded
  BY <1>1 DEF Folded
<1>3. folded \in Folded
  BY <1>1, <1>2, EventsHandled
<1> HIDE DEF folded
<1>4. timed \in Folded
  BY <1>3, TimeoutEnforced
<1> HIDE DEF timed
<1>5. /\ timed.st \in BridgeStates /\ timed.hist \in Histories
      /\ timed.submits \in Seq(FreshCommands)
  BY <1>4 DEF Folded
<1>6. [st |-> timed.st, queue |-> queue] \in Sent
  BY <1>1, <1>5 DEF Sent
<1>7. sent \in Sent
  BY <1>5, <1>6, SubmitsSent
<1> HIDE DEF sent
<1>8. st' = sent.st /\ hist' = timed.hist /\ queue' = sent.queue
  BY DEF Process, folded, timed, sent
<1>9. sent.st \in BridgeStates /\ sent.queue \in Seq(Sendable)
  BY <1>7 DEF Sent
<1>10. PICK i \in {Idle, [Idle EXCEPT !.pc = "gone"]} : th' = [th EXCEPT ![t] = i]
  BY DEF Process
<1>11. i \in Threaded /\ i.pc # "write"
  BY IdleThreaded DEF Idle, Threaded
<1>12. th \in [Threads -> Threaded]
  BY DEF BridgeInv, BridgeOK
<1>13. th' \in [Threads -> Threaded] /\ (th'["ui"].pc = "write" => th'["ui"].draft \in BridgeStates)
  <2>1. th' \in [Threads -> Threaded]
    BY <1>10, <1>11, <1>12
  <2>2. th'["ui"] = i \/ th'["ui"] = th["ui"]
    BY <1>10, <1>12 DEF Threads
  <2> QED BY <1>11, <2>1, <2>2 DEF BridgeInv, BridgeOK
<1> QED BY <1>5, <1>8, <1>9, <1>13 DEF Process, BridgeInv, WorkerOK, ThreadKept

(* The thread of the user interface moves on with record x.                *)
LEMMA UiMoves ==
    ASSUME BridgeInv, NEW x \in Threaded, th' = [th EXCEPT !["ui"] = x],
           x.pc = "write" => x.draft \in BridgeStates
    PROVE  /\ th' \in [Threads -> Threaded]
           /\ th'["ui"].pc = "write" => th'["ui"].draft \in BridgeStates
<1>1. th \in [Threads -> Threaded] /\ "ui" \in Threads
  BY DEF BridgeInv, BridgeOK, Threads
<1>2. th' \in [Threads -> Threaded] /\ th'["ui"] = x
  BY <1>1
<1> QED BY <1>2

LEMMA UiGoes ==
    ASSUME BridgeInv, NEW p \in {"idle", "stamp", "send", "publish", "process", "gone"},
           Goto("ui", p)
    PROVE  /\ th' \in [Threads -> Threaded]
           /\ th'["ui"].pc = "write" => th'["ui"].draft \in BridgeStates
<1>1. th["ui"] \in Threaded
  BY DEF BridgeInv, BridgeOK, Threads
<1>2. [th["ui"] EXCEPT !.pc = p] \in Threaded /\ [th["ui"] EXCEPT !.pc = p].pc = p
  BY <1>1 DEF Threaded
<1>3. th' = [th EXCEPT !["ui"] = [th["ui"] EXCEPT !.pc = p]]
  BY DEF Goto
<1> QED BY <1>2, <1>3, UiMoves

(* What a call that begins puts in the thread's record.                    *)
LEMMA CallBegins ==
    ASSUME NEW p \in {"write", "stamp"}, NEW d \in BridgeStates \cup {"none"}, NEW m \in FreshCommands
    PROVE  /\ [Idle EXCEPT !.pc = p, !.draft = d, !.cmd = m] \in Threaded
           /\ [Idle EXCEPT !.pc = p, !.draft = d, !.cmd = m].draft = d
           /\ [Idle EXCEPT !.pc = p, !.cmd = m] \in Threaded
           /\ [Idle EXCEPT !.pc = p, !.cmd = m].pc = p
<1>1. Idle \in Threaded
  BY IdleThreaded
<1> QED BY <1>1 DEF Threaded

LEMMA CallsKeep ==
    ASSUME BridgeInv,
           \/ \E c \in Codes : CallJoin(c)
           \/ \E c \in LanCodes : CreateLan(c)
           \/ ContinueLanJoin \/ StartGame \/ CancelLaunch \/ LeaveRoom \/ Shutdown
           \/ \E k \in {"other", "catalog", "clear", "retry", "openLog"} : Simple(Cmd(k, "none"))
           \/ \E c \in RelayCodes : Simple(Cmd("rejoin", c))
    PROVE  ThreadKept
<1>1. /\ queue \in Seq(Sendable) /\ flight \in Sendable /\ events \in Seq(AppEvents)
      /\ st \in BridgeStates /\ hist \in Histories /\ th \in [Threads -> Threaded]
      /\ th["ui"].pc = "write" => th["ui"].draft \in BridgeStates
  BY DEF BridgeInv, WorkerOK, BridgeOK
<1>2. ASSUME NEW c \in Codes, CallJoin(c)
      PROVE  ThreadKept
  <2> DEFINE m == Cmd(IF c \in RelayCodes THEN "joinRelay" ELSE "probe", c)
             x == [Idle EXCEPT !.pc = "write", !.draft = st, !.cmd = m]
  <2>1. m \in FreshCommands
    <3>1. c \in Rooms /\ (IF c \in RelayCodes THEN "joinRelay" ELSE "probe") \in Kinds
      BY DEF Rooms, Kinds
    <3> QED BY <3>1, FreshCmd
  <2>2. th' = [th EXCEPT !["ui"] = x]
    BY <1>2 DEF CallJoin
  <2> HIDE DEF m
  <2>3. x \in Threaded /\ x.draft = st
    BY <1>1, <2>1, CallBegins
  <2> HIDE DEF x
  <2>4. th' \in [Threads -> Threaded] /\ (th'["ui"].pc = "write" => th'["ui"].draft \in BridgeStates)
    BY <1>1, <2>2, <2>3, UiMoves
  <2> QED BY <1>1, <1>2, <2>4 DEF CallJoin, appVars, ThreadKept
<1>3. ASSUME NEW c \in LanCodes, CreateLan(c)
      PROVE  ThreadKept
  <2> DEFINE x == [Idle EXCEPT !.pc = "stamp", !.cmd = Cmd("createLan", c)]
  <2>1. Cmd("createLan", c) \in FreshCommands
    BY FreshCmd DEF Kinds, Rooms, Codes
  <2>2. th' = [th EXCEPT !["ui"] = x]
    BY <1>3 DEF CreateLan
  <2>3. x \in Threaded /\ x.pc = "stamp"
    BY <2>1, CallBegins
  <2> HIDE DEF x
  <2>4. th' \in [Threads -> Threaded] /\ (th'["ui"].pc = "write" => th'["ui"].draft \in BridgeStates)
    BY <2>2, <2>3, UiMoves
  <2>5. st' \in BridgeStates
    BY <1>1, <1>3 DEF CreateLan, BridgeStates, Statuses
  <2> QED BY <1>1, <1>3, <2>4, <2>5 DEF CreateLan, appVars, ThreadKept
<1>4. ASSUME ContinueLanJoin
      PROVE  ThreadKept
  <2> DEFINE m == Cmd("joinLan", st.pendingLan)
             x == [Idle EXCEPT !.pc = "write", !.draft = st, !.cmd = m]
  <2>1. m \in FreshCommands
    BY <1>1, FreshCmd DEF BridgeStates, Kinds
  <2>2. th' = [th EXCEPT !["ui"] = x]
    BY <1>4 DEF ContinueLanJoin
  <2> HIDE DEF m
  <2>3. x \in Threaded /\ x.draft = st
    BY <1>1, <2>1, CallBegins
  <2> HIDE DEF x
  <2>4. th' \in [Threads -> Threaded] /\ (th'["ui"].pc = "write" => th'["ui"].draft \in BridgeStates)
    BY <1>1, <2>2, <2>3, UiMoves
  <2> QED BY <1>1, <1>4, <2>4 DEF ContinueLanJoin, appVars, ThreadKept
<1>5. ASSUME StartGame
      PROVE  ThreadKept
  <2> DEFINE x == [Idle EXCEPT !.pc = "stamp", !.cmd = Cmd("start", "none")]
  <2>1. Cmd("start", "none") \in FreshCommands
    BY FreshCmd DEF Kinds, Rooms
  <2>2. th' = [th EXCEPT !["ui"] = x]
    BY <1>5 DEF StartGame
  <2>3. x \in Threaded /\ x.pc = "stamp"
    BY <2>1, CallBegins
  <2> HIDE DEF x
  <2>4. th' \in [Threads -> Threaded] /\ (th'["ui"].pc = "write" => th'["ui"].draft \in BridgeStates)
    BY <2>2, <2>3, UiMoves
  <2>5. [NoLaunch EXCEPT !.pending = TRUE, !.deadline = TRUE] \in Launches
    BY DEF NoLaunch, Launches
  <2>6. st' \in BridgeStates
    BY <1>1, <1>5, <2>5 DEF StartGame, BridgeStates
  <2> QED BY <1>1, <1>5, <2>4, <2>6 DEF StartGame, appVars, ThreadKept
<1>6. ASSUME CancelLaunch
      PROVE  ThreadKept
  <2>1. [Cmd("stop", "none") EXCEPT !.cancel = TRUE] \in Sendable
    BY DEF Cmd, NoCmd, Sendable, Commands, Kinds, Rooms
  <2>2. queue' \in Seq(Sendable)
    BY <1>1, <1>6, <2>1 DEF CancelLaunch
  <2>3. [st.launch EXCEPT !.cancelReq = TRUE, !.cancelled = FALSE,
                          !.deadline = FALSE, !.error = FALSE] \in Launches
    BY <1>1 DEF BridgeStates, Launches
  <2>4. st' \in BridgeStates
    BY <1>1, <1>6, <2>3 DEF CancelLaunch, BridgeStates
  <2>5. th' \in [Threads -> Threaded] /\ (th'["ui"].pc = "write" => th'["ui"].draft \in BridgeStates)
    BY <1>6, UiGoes DEF CancelLaunch
  <2> QED BY <1>1, <1>6, <2>2, <2>4, <2>5 DEF CancelLaunch, ThreadKept
<1>7. ASSUME LeaveRoom
      PROVE  ThreadKept
  <2>1. hist' \in Histories
    <3>1. ClearRestore(hist) = [hist EXCEPT !.restore = "none"]
      BY DEF ClearRestore
    <3>2. ClearRestore(hist) \in Histories
      BY <1>1, <3>1 DEF Histories, Rooms
    <3> QED BY <1>7, <3>2 DEF LeaveRoom
  <2>2. st' \in BridgeStates
    BY <1>1, <1>7 DEF LeaveRoom, BridgeStates, Statuses
  <2>3. th' \in [Threads -> Threaded] /\ (th'["ui"].pc = "write" => th'["ui"].draft \in BridgeStates)
    BY <1>7, UiGoes DEF LeaveRoom
  <2> QED BY <1>1, <1>7, <2>1, <2>2, <2>3 DEF LeaveRoom, ThreadKept
<1>8. CASE Shutdown
  BY <1>1, <1>8 DEF Shutdown, ThreadKept
<1>9. ASSUME NEW m \in FreshCommands, Simple(m)
      PROVE  ThreadKept
  <2>1. flight' \in Sendable
    BY <1>9, FreshIsSendable DEF Simple, Stamp
  <2>2. th' \in [Threads -> Threaded] /\ (th'["ui"].pc = "write" => th'["ui"].draft \in BridgeStates)
    BY <1>9, UiGoes DEF Simple
  <2> QED BY <1>1, <1>9, <2>1, <2>2 DEF Simple, ThreadKept
<1>10. CASE \E k \in {"other", "catalog", "clear", "retry", "openLog"} : Simple(Cmd(k, "none"))
  <2>1. PICK k \in {"other", "catalog", "clear", "retry", "openLog"} : Simple(Cmd(k, "none"))
    BY <1>10
  <2>2. Cmd(k, "none") \in FreshCommands
    BY FreshCmd DEF Kinds, Rooms
  <2> QED BY <1>9, <2>1, <2>2
<1>11. CASE \E c \in RelayCodes : Simple(Cmd("rejoin", c))
  <2>1. PICK c \in RelayCodes : Simple(Cmd("rejoin", c))
    BY <1>11
  <2>2. Cmd("rejoin", c) \in FreshCommands
    BY FreshCmd DEF Kinds, Rooms, Codes
  <2> QED BY <1>9, <2>1, <2>2
<1> QED BY <1>2, <1>3, <1>4, <1>5, <1>6, <1>7, <1>8, <1>10, <1>11

(* The rest of a call: the draft is written back, the command is stamped   *)
(* and sent.                                                               *)
LEMMA LaterHalvesKeep ==
    ASSUME BridgeInv, WriteDraft \/ StampCommand \/ SendCommand
    PROVE  ThreadKept
<1>1. /\ queue \in Seq(Sendable) /\ flight \in Sendable /\ events \in Seq(AppEvents)
      /\ st \in BridgeStates /\ hist \in Histories /\ th \in [Threads -> Threaded]
      /\ th["ui"].pc = "write" => th["ui"].draft \in BridgeStates
      /\ th["ui"] \in Threaded /\ th["ui"].cmd \in FreshCommands
  BY DEF BridgeInv, WorkerOK, BridgeOK, Threads, Threaded
<1>2. CASE WriteDraft
  <2> DEFINE m == th["ui"].cmd
             pending == IF m.kind = "probe" THEN th["ui"].draft.pending ELSE m.code
             lanCode == CASE m.kind = "probe" -> m.code
                          [] m.kind = "joinLan" -> "none" [] OTHER -> th["ui"].draft.pendingLan
             x == [th["ui"] EXCEPT !.pc = "stamp", !.draft = "none"]
  <2>1. th["ui"].draft \in BridgeStates /\ m.code \in Rooms
    BY <1>1, <1>2 DEF WriteDraft, FreshCommands, Commands
  <2>2. pending \in Rooms /\ lanCode \in Rooms
    BY <2>1 DEF BridgeStates, Rooms
  <2>3. st' = [th["ui"].draft EXCEPT !.status = "Joining", !.pending = pending, !.pendingLan = lanCode]
    BY <1>2 DEF WriteDraft
  <2> HIDE DEF pending, lanCode
  <2>4. st' \in BridgeStates
    BY <2>1, <2>2, <2>3 DEF BridgeStates, Statuses
  <2>5. th' = [th EXCEPT !["ui"] = x]
    BY <1>2 DEF WriteDraft
  <2>6. x \in Threaded /\ x.pc = "stamp"
    BY <1>1 DEF Threaded
  <2> HIDE DEF x
  <2>7. th' \in [Threads -> Threaded] /\ (th'["ui"].pc = "write" => th'["ui"].draft \in BridgeStates)
    BY <2>5, <2>6, UiMoves
  <2> QED BY <1>1, <1>2, <2>4, <2>7 DEF WriteDraft, appVars, ThreadKept
<1>3. CASE StampCommand
  <2>1. flight' \in Sendable
    BY <1>1, <1>3, FreshIsSendable DEF StampCommand, Stamp
  <2>2. th' \in [Threads -> Threaded] /\ (th'["ui"].pc = "write" => th'["ui"].draft \in BridgeStates)
    BY <1>3, UiGoes DEF StampCommand
  <2> QED BY <1>1, <1>3, <2>1, <2>2 DEF StampCommand, ThreadKept
<1>4. CASE SendCommand
  <2>1. flight' \in Sendable
    BY <1>4, NoCmdFresh DEF SendCommand
  <2>2. queue' \in Seq(Sendable)
    <3>1. Append(queue, flight) \in Seq(Sendable)
      BY ONLY <1>1
    <3>2. queue' = Append(queue, flight) \/ queue' = queue
      BY <1>4 DEF SendCommand
    <3> QED BY ONLY <1>1, <3>1, <3>2
  <2>3. st' \in BridgeStates
    <3>1. [st EXCEPT !.pending = "none", !.status = "Idle"] \in BridgeStates
      BY <1>1 DEF BridgeStates, Statuses, Rooms
    <3>2. [st EXCEPT !.status = "Idle"] \in BridgeStates
      BY <1>1 DEF BridgeStates, Statuses
    <3>3. [st EXCEPT !.launch.pending = FALSE, !.launch.deadline = FALSE] \in BridgeStates
      BY <1>1 DEF BridgeStates, Launches
    <3> QED BY <1>1, <1>4, <3>1, <3>2, <3>3 DEF SendCommand
  <2>4. PICK p \in {"idle", "publish"} : th' = [th EXCEPT !["ui"] = [Idle EXCEPT !.pc = p]]
    BY <1>4 DEF SendCommand
  <2>5. [Idle EXCEPT !.pc = p] \in Threaded /\ [Idle EXCEPT !.pc = p].pc # "write"
    BY IdleThreaded DEF Threaded
  <2>6. th' \in [Threads -> Threaded] /\ (th'["ui"].pc = "write" => th'["ui"].draft \in BridgeStates)
    BY <2>4, <2>5, UiMoves
  <2> QED BY <1>1, <1>4, <2>1, <2>2, <2>3, <2>6 DEF SendCommand, ThreadKept
<1> QED BY <1>2, <1>3, <1>4

(* A restart: of everything the history alone is left, without a restore   *)
(* entry that is not listed.                                               *)
LEMMA RestartKeeps ==
    ASSUME BridgeInv, Restart
    PROVE  BridgeInv'
<1>1. WorkerOK'
  BY NoCmdFresh DEF Restart, WorkerOK
<1>2. th' \in [Threads -> Threaded] /\ th'["ui"].pc = "idle"
  BY IdleThreaded DEF Restart, Idle, Threads
<1>3. st' \in BridgeStates
  BY NoStateTyped DEF Restart
<1>4. hist' \in Histories
  <2>1. hist \in Histories
    BY DEF BridgeInv
  <2> QED BY <2>1 DEF Restart, Histories, Listed, Rooms
<1> QED BY <1>1, <1>2, <1>3, <1>4 DEF BridgeInv, BridgeOK, Histories, Listed

--------------------------------------------------------------------------------
LEMMA BridgeStarts == Init => BridgeInv
<1> SUFFICES ASSUME Init
             PROVE  BridgeInv
  OBVIOUS
<1>1. WorkerOK
  <2>1. CASE AppInit
    BY <2>1, NoCmdFresh DEF AppInit, WorkerOK
  <2>2. CASE \E c \in Codes : InRoom(c)
    BY <2>2, NoCmdFresh DEF InRoom, WorkerOK
  <2> QED BY <2>1, <2>2 DEF Init
<1>2. th \in [Threads -> Threaded] /\ th["ui"].pc = "idle"
  BY IdleThreaded DEF Init, Idle, Threads
<1>3. st \in BridgeStates
  <2>1. \A c \in Rooms : [NoState EXCEPT !.room = c, !.status = "Active"] \in BridgeStates
    BY NoStateTyped DEF BridgeStates, Statuses
  <2>2. CASE AppInit /\ st = NoState
    BY <2>2, NoStateTyped
  <2>3. ASSUME NEW c \in Codes, InRoom(c)
        PROVE  st \in BridgeStates
    <3>1. c \in Rooms /\ st = [NoState EXCEPT !.room = c, !.status = "Active"]
      BY <2>3 DEF InRoom, Rooms
    <3> QED BY ONLY <2>1, <3>1
  <2> QED BY <2>2, <2>3 DEF Init
<1>4. hist \in Histories
  <2>1. CASE hist = [codes |-> <<>>, restore |-> "none"]
    BY <2>1, BridgeAssumption DEF Histories, Listed, IsInjective, Rooms
  <2>2. ASSUME NEW c \in Codes, hist = [codes |-> <<c>>, restore |-> c]
        PROVE  hist \in Histories
    <3>1. /\ <<c>> \in Seq(Rooms) /\ Len(<<c>>) = 1 /\ DOMAIN <<c>> = {1} /\ <<c>>[1] = c
          /\ c \in Rooms
      BY DEF Rooms
    <3>2. Listed(hist, c) /\ IsInjective(<<c>>)
      BY <2>2, <3>1 DEF Listed, IsInjective
    <3>3. hist \in [codes : Seq(Rooms), restore : Rooms] /\ hist.codes = <<c>> /\ hist.restore = c
      BY <2>2, <3>1
    <3>4. 1 <= MaxHistory
      BY BridgeAssumption
    <3> QED BY <3>1, <3>2, <3>3, <3>4 DEF Histories
  <2> QED BY <2>1, <2>2 DEF Init, InRoom
<1> QED BY <1>1, <1>2, <1>3, <1>4 DEF BridgeInv, BridgeOK

LEMMA BridgeSteps == BridgeInv /\ [Next]_vars => BridgeInv'
<1> SUFFICES ASSUME BridgeInv, [Next]_vars
             PROVE  BridgeInv'
  OBVIOUS
<1>1. CASE WorkerStep
  <2>1. Worker /\ st' = st /\ hist' = hist /\ th' = th
    BY <1>1 DEF WorkerStep, bridgeVars
  <2>2. WorkerOK'
    BY <2>1, WorkerKeeps DEF BridgeInv
  <2> QED BY <2>1, <2>2 DEF BridgeInv, BridgeOK, Histories, Listed
<1>2. CASE Calls
  <2>1. CASE Restart
    BY <2>1, RestartKeeps
  <2>2. CASE \/ \E c \in Codes : CallJoin(c)
             \/ \E c \in LanCodes : CreateLan(c)
             \/ ContinueLanJoin \/ StartGame \/ CancelLaunch \/ LeaveRoom \/ Shutdown
             \/ \E k \in {"other", "catalog", "clear", "retry", "openLog"} : Simple(Cmd(k, "none"))
             \/ \E c \in RelayCodes : Simple(Cmd("rejoin", c))
    BY <2>2, CallsKeep, KeptIsEnough
  <2> QED BY <1>2, <2>1, <2>2 DEF Calls
<1>3. CASE ThreadStep
  <2>1. CASE WriteDraft \/ StampCommand \/ SendCommand
    BY <2>1, LaterHalvesKeep, KeptIsEnough
  <2>2. CASE \E t \in Threads : Drain(t) \/ Process(t)
    BY <2>2, DrainKeeps, ProcessKeeps, KeptIsEnough
  <2> QED BY <1>3, <2>1, <2>2 DEF ThreadStep
<1>4. CASE UNCHANGED vars
  BY <1>4 DEF vars, appVars, bridgeVars, BridgeInv, WorkerOK, BridgeOK, Histories, Listed
<1> QED BY <1>1, <1>2, <1>3, <1>4 DEF Next, Ended

(* What travels between the worker, the threads of the bridge and the      *)
(* history file keeps its shape, for any codes, any capacities and any     *)
(* calls of the user: submit, process_events, run_application.             *)
THEOREM BridgeInvariant == Spec => []BridgeInv
  BY BridgeStarts, BridgeSteps, PTL DEF Spec

(* A command submitted before the worker handled Leave Room is never       *)
(* executed after it: leaving raises the generation (set_operation), which *)
(* is_current compares before every command of handle_command.             *)
THEOREM LeaveStaysFinal == Spec => []LeaveIsFinal
<1>1. BridgeInv => LeaveIsFinal
  BY DEF BridgeInv, WorkerOK, FreshCommands, LeaveIsFinal
<1> QED BY <1>1, BridgeInvariant, PTL

(* The restore entry of the room history always refers to a listed code,   *)
(* no code is listed twice and the list keeps its bound: record_success    *)
(* moves the code to the front before it truncates, and read_history       *)
(* drops a restore entry that is not listed.                               *)
THEOREM RestoreStaysListed == Spec => []RestoreIsListed
<1>1. BridgeInv => RestoreIsListed
  BY DEF BridgeInv, Histories, RestoreIsListed
<1> QED BY <1>1, BridgeInvariant, PTL

================================================================================

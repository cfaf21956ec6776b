--------------------------- MODULE RelayStateProofs ----------------------------
(***************************************************************************)
(* Proofs about RelayState, for every number of players, rooms, control    *)
(* connections and frames, every limit and every length of the clock.      *)
(***************************************************************************)
EXTENDS RelayState, DataLemmas, FiniteSetTheorems

(* A connection id is drawn before it is seated, and an id that was never  *)
(* drawn has let nothing through.                                          *)
DrawnBeforeSeated ==
    \A c \in ConnIds :
        /\ connectionRooms[c] # None => c \in drawn
        /\ c \notin drawn => \A f \in FrameIds : copies[c][f] = 0

(* What a seated connection let through is refused by its window.          *)
MarksCoverCopies ==
    \A s \in Sessions : \A c \in Members(s) : \A f \in FrameIds :
        copies[c][f] # 0 => ~Admits(peers[s][c].frames, f)

(* The tables alone: what every method but the routers is about.           *)
Tables == TypeOK /\ IndexAgreement /\ OneSeatPerIdentity /\ DeadlineWhileReconnecting

Inv ==
    /\ Tables
    /\ DrawnBeforeSeated
    /\ MarksCoverCopies
    /\ AtMostOnce

--------------------------------------------------------------------------------
(* The helpers return what the tables hold.                                *)

(* A fresh budget is a budget.                                             *)
LEMMA NewBudgetType ==
    ASSUME NEW t \in Nat
    PROVE  NewBudget(t) \in Budgets
  BY BudgetAssumption DEF NewBudget, Budgets

(* check_traffic and check_probe keep a budget within its limits.          *)
LEMMA CheckTrafficType ==
    ASSUME NEW b \in Budgets, NEW size \in Nat, NEW t \in Nat
    PROVE  CheckTraffic(b, size, t) \in Budgets
<1> USE BudgetAssumption
<1> DEFINE w == TrafficWindow(b, t)
<1>1. w \in Budgets
  <2>1. 0 \in 0 .. PacketLimit /\ 0 \in 0 .. ByteBurst
    OBVIOUS
  <2>2. CASE t - b.started >= RateWindow
    BY <2>1, <2>2 DEF TrafficWindow, Budgets
  <2>3. CASE ~(t - b.started >= RateWindow)
    BY <2>3 DEF TrafficWindow
  <2> QED BY <2>2, <2>3
<1>2. CASE TrafficFits(b, size, t)
  <2>1. w.packets + 1 <= PacketLimit /\ w.bytes + size <= ByteBurst
    BY <1>2 DEF TrafficFits
  <2>2. w.packets + 1 \in 0 .. PacketLimit /\ w.bytes + size \in 0 .. ByteBurst
    BY <1>1, <2>1 DEF Budgets
  <2>3. CheckTraffic(b, size, t) = [w EXCEPT !.packets = @ + 1, !.bytes = @ + size]
    BY <1>2 DEF CheckTraffic
  <2> HIDE DEF w
  <2> QED BY <1>1, <2>2, <2>3 DEF Budgets
<1>3. CASE ~TrafficFits(b, size, t)
  BY <1>1, <1>3 DEF CheckTraffic
<1> QED BY <1>2, <1>3

(* The same for the probe counter.                                         *)
LEMMA CheckProbeType ==
    ASSUME NEW b \in Budgets, NEW t \in Nat
    PROVE  CheckProbe(b, t) \in Budgets
<1> USE BudgetAssumption
<1> DEFINE w == ProbeWindow(b, t)
<1>1. w \in Budgets
  <2>1. 0 \in 0 .. ProbeLimit
    OBVIOUS
  <2>2. CASE t - b.probeStarted >= RateWindow
    BY <2>1, <2>2 DEF ProbeWindow, Budgets
  <2>3. CASE ~(t - b.probeStarted >= RateWindow)
    BY <2>3 DEF ProbeWindow
  <2> QED BY <2>2, <2>3
<1>2. CASE ProbeFits(b, t)
  <2>1. w.probes + 1 \in 0 .. ProbeLimit
    BY <1>1, <1>2 DEF ProbeFits, Budgets
  <2>2. CheckProbe(b, t) = [w EXCEPT !.probes = @ + 1]
    BY <1>2 DEF CheckProbe
  <2> HIDE DEF w
  <2> QED BY <1>1, <2>1, <2>2 DEF Budgets
<1>3. CASE ~ProbeFits(b, t)
  BY <1>1, <1>3 DEF CheckProbe
<1> QED BY <1>2, <1>3

(* A known connection sits in the room it is indexed under.                *)
LEMMA KnownSeat ==
    ASSUME TypeOK, NEW c \in ConnIds, Known(c)
    PROVE  /\ connectionRooms[c] \in Sessions
           /\ connectionRooms[c] \in rooms
           /\ PeerOf(c) \in Peers
           /\ PeerOf(c) = peers[connectionRooms[c]][c]
           /\ c \in Members(connectionRooms[c])
  BY DEF TypeOK, Known, PeerOf, Members

--------------------------------------------------------------------------------
(* The three ways in which a method touches the room table.                *)

(* A seat changes and its owner's identity does not: resume, detach,       *)
(* bind_udp_path and the routers.                                          *)
LEMMA SeatChange ==
    ASSUME Tables, NEW c \in ConnIds, Known(c), NEW q \in Peers,
           q.steam = PeerOf(c).steam,
           q.presence = "Reconnecting" <=> q.until # None,
           q.until # None => q.until <= now + Grace,
           peers' = [peers EXCEPT ![connectionRooms[c]][c] = q],
           UNCHANGED <<now, rooms, connectionRooms>>
    PROVE  /\ peers' \in [Sessions -> [ConnIds -> Peers \cup {None}]]
           /\ \A s \in Sessions : \A d \in ConnIds :
                 peers'[s][d] = IF s = connectionRooms[c] /\ d = c THEN q ELSE peers[s][d]
           /\ \A s \in Sessions : Members(s)' = Members(s)
           /\ IndexAgreement' /\ OneSeatPerIdentity' /\ DeadlineWhileReconnecting'
<1> DEFINE r == connectionRooms[c]
<1>1. peers \in [Sessions -> [ConnIds -> Peers \cup {None}]] /\ TypeOK
  BY DEF Tables, TypeOK
<1>2. r \in Sessions /\ r \in rooms /\ PeerOf(c) = peers[r][c] /\ c \in Members(r)
  BY <1>1, KnownSeat
<1>3. \A s \in Sessions : \A d \in ConnIds :
         peers'[s][d] = IF s = r /\ d = c THEN q ELSE peers[s][d]
  BY <1>1, <1>2
<1>4. peers' \in [Sessions -> [ConnIds -> Peers \cup {None}]]
  BY <1>1, <1>2
<1>5. q # None /\ peers[r][c] # None
  BY <1>2, NoneAssumption DEF Members
<1>6. \A s \in Sessions : Members(s)' = Members(s)
  BY <1>3, <1>5 DEF Members
<1>7. IndexAgreement'
  BY <1>3, <1>5, <1>2 DEF Tables, IndexAgreement
<1>8. OneSeatPerIdentity'
  <2> SUFFICES ASSUME NEW s \in Sessions, NEW d \in Members(s), NEW e \in Members(s),
                      peers'[s][d].steam = peers'[s][e].steam
               PROVE  d = e
    BY <1>6 DEF OneSeatPerIdentity
  <2>1. d \in ConnIds /\ e \in ConnIds
    BY DEF Members
  <2>2. peers'[s][d].steam = peers[s][d].steam /\ peers'[s][e].steam = peers[s][e].steam
    BY <1>2, <1>3, <2>1
  <2> QED BY <2>2 DEF Tables, OneSeatPerIdentity
<1>9. DeadlineWhileReconnecting'
  <2> SUFFICES ASSUME NEW s \in Sessions, NEW d \in Members(s)
               PROVE  /\ peers'[s][d].presence = "Reconnecting" <=> peers'[s][d].until # None
                      /\ peers'[s][d].until # None => peers'[s][d].until <= now + Grace
    BY <1>6 DEF DeadlineWhileReconnecting
  <2>1. d \in ConnIds
    BY DEF Members
  <2>2. CASE s = r /\ d = c
    BY <1>3, <2>2
  <2>3. CASE ~(s = r /\ d = c)
    <3>1. peers'[s][d] = peers[s][d]
      BY <1>3, <2>1, <2>3
    <3> QED BY <3>1 DEF Tables, DeadlineWhileReconnecting
  <2> QED BY <2>2, <2>3
<1> QED BY <1>3, <1>4, <1>6, <1>7, <1>8, <1>9

(* Seats go, and only rooms without a seat go with them: stop and cleanup. *)
LEMMA Removal ==
    ASSUME Tables, NEW gone \in SUBSET ConnIds, RemoveFrom(gone), now' = now,
           rooms' \subseteq rooms,
           \A s \in rooms : (\E c \in ConnIds \ gone : peers[s][c] # None) => s \in rooms'
    PROVE  /\ peers' \in [Sessions -> [ConnIds -> Peers \cup {None}]]
           /\ connectionRooms' \in [ConnIds -> Sessions \cup {None}]
           /\ \A s \in Sessions : \A c \in ConnIds :
                 peers'[s][c] = IF c \in gone THEN None ELSE peers[s][c]
           /\ \A s \in Sessions : Members(s)' = Members(s) \ gone
           /\ IndexAgreement' /\ OneSeatPerIdentity' /\ DeadlineWhileReconnecting'
<1>1. /\ peers \in [Sessions -> [ConnIds -> Peers \cup {None}]]
      /\ connectionRooms \in [ConnIds -> Sessions \cup {None}]
      /\ rooms \subseteq Sessions
  BY DEF Tables, TypeOK
<1>2. /\ peers' \in [Sessions -> [ConnIds -> Peers \cup {None}]]
      /\ connectionRooms' \in [ConnIds -> Sessions \cup {None}]
  BY <1>1 DEF RemoveFrom
<1>3. \A s \in Sessions : \A c \in ConnIds :
         peers'[s][c] = IF c \in gone THEN None ELSE peers[s][c]
  BY <1>1 DEF RemoveFrom, Tables, IndexAgreement
<1>4. \A c \in ConnIds :
         connectionRooms'[c] = IF c \in gone THEN None ELSE connectionRooms[c]
  BY <1>1 DEF RemoveFrom
<1>5. \A s \in Sessions : Members(s)' = Members(s) \ gone
  BY <1>3 DEF Members
<1>6. IndexAgreement'
  <2> SUFFICES ASSUME NEW s \in Sessions, NEW c \in ConnIds
               PROVE  /\ peers'[s][c] # None <=> connectionRooms'[c] = s
                      /\ peers'[s][c] # None => s \in rooms'
    BY DEF IndexAgreement
  <2>1. s # None
    BY RelayAssumption
  <2>2. CASE c \in gone
    BY <1>3, <1>4, <2>1, <2>2
  <2>3. CASE c \notin gone
    BY <1>3, <1>4, <2>3 DEF Tables, IndexAgreement
  <2> QED BY <2>2, <2>3
<1>7. OneSeatPerIdentity'
  BY <1>3, <1>5 DEF Tables, OneSeatPerIdentity, Members
<1>8. DeadlineWhileReconnecting'
  BY <1>3, <1>5 DEF Tables, DeadlineWhileReconnecting, Members
<1> QED BY <1>2, <1>3, <1>5, <1>6, <1>7, <1>8

(* A new connection takes a seat and evicts its twin: complete_join.       *)
LEMMA Admission ==
    ASSUME Tables, NEW p \in ControlPeers, pending[p] # None,
           NEW c \in ConnIds, connectionRooms[c] = None, now' = now,
           Admit(p, c, Duplicates(pending[p].session, pending[p].steam))
    PROVE  LET r == pending[p].session
               gone == Duplicates(r, pending[p].steam)
           IN /\ r \in Sessions
              /\ peers' \in [Sessions -> [ConnIds -> Peers \cup {None}]]
              /\ connectionRooms' \in [ConnIds -> Sessions \cup {None}]
              /\ peers[r][c] = None /\ c \notin gone
              /\ peers'[r][c] # None
              /\ peers'[r][c].steam = pending[p].steam
              /\ peers'[r][c].frames = NewWindow
              /\ \A s \in Sessions : \A d \in ConnIds : ~(s = r /\ d = c) =>
                    peers'[s][d] = IF s = r /\ d \in gone THEN None ELSE peers[s][d]
              /\ \A s \in Sessions : Members(s)' =
                    IF s = r THEN (Members(s) \ gone) \cup {c} ELSE Members(s)
              /\ IndexAgreement' /\ OneSeatPerIdentity' /\ DeadlineWhileReconnecting'
<1> DEFINE j == pending[p]
           r == j.session
           gone == Duplicates(r, j.steam)
           seat == [control |-> p, steam |-> j.steam, profile |-> j.profile,
                    probe |-> j.probe, presence |-> "Connected", until |-> None,
                    udp |-> None, frames |-> NewWindow, budget |-> NewBudget(now)]
<1>1. /\ peers \in [Sessions -> [ConnIds -> Peers \cup {None}]]
      /\ connectionRooms \in [ConnIds -> Sessions \cup {None}]
      /\ rooms \subseteq Sessions
      /\ now \in Nat
  BY RelayAssumption DEF Tables, TypeOK, Times
<1>2. j \in PendingJoins
  BY DEF Tables, TypeOK
<1>3. r \in Sessions /\ r # None
  BY <1>2, RelayAssumption DEF PendingJoins
<1>4. seat \in Peers /\ seat # None
  <2>1. NewBudget(now) \in Budgets /\ NewWindow \in Windows
    BY <1>1, NewBudgetType, WindowAssumption DEF NewWindow, Windows
  <2>2. j.steam \in SteamIds /\ j.profile \in Profiles /\ j.probe \in ProbeCaps
    BY <1>2 DEF PendingJoins
  <2>3. seat \in Peers
    BY <2>1, <2>2 DEF Peers
  <2> QED BY <2>3, NoneAssumption
<1>5. \A s \in Sessions : peers[s][c] = None
  BY <1>1, RelayAssumption DEF Tables, IndexAgreement
<1>6. gone \subseteq Members(r) /\ c \notin gone
  BY <1>3, <1>5 DEF Duplicates, Members
<1>7. /\ peers' = [peers EXCEPT ![r] = [d \in ConnIds |->
                     IF d = c THEN seat ELSE IF d \in gone THEN None ELSE peers[r][d]]]
      /\ connectionRooms' = [d \in ConnIds |->
                     IF d = c THEN r ELSE IF d \in gone THEN None ELSE connectionRooms[d]]
      /\ rooms' = rooms \cup {r}
  BY DEF Admit
<1> HIDE DEF j, seat, gone, r
<1>8. /\ peers' \in [Sessions -> [ConnIds -> Peers \cup {None}]]
      /\ connectionRooms' \in [ConnIds -> Sessions \cup {None}]
  BY <1>1, <1>3, <1>4, <1>7
<1>9. peers'[r][c] = seat
  BY <1>1, <1>3, <1>7
<1>10. \A s \in Sessions : \A d \in ConnIds : ~(s = r /\ d = c) =>
          peers'[s][d] = IF s = r /\ d \in gone THEN None ELSE peers[s][d]
  BY <1>1, <1>3, <1>7
<1>11. \A s \in Sessions : Members(s)' =
          IF s = r THEN (Members(s) \ gone) \cup {c} ELSE Members(s)
  BY <1>4, <1>5, <1>9, <1>10 DEF Members
<1>12. seat.steam = j.steam /\ seat.frames = NewWindow
       /\ seat.presence = "Connected" /\ seat.until = None
  BY DEF seat
<1>13. IndexAgreement'
  <2> SUFFICES ASSUME NEW s \in Sessions, NEW d \in ConnIds
               PROVE  /\ peers'[s][d] # None <=> connectionRooms'[d] = s
                      /\ peers'[s][d] # None => s \in rooms'
    BY DEF IndexAgreement
  <2>1. /\ peers[s][d] # None <=> connectionRooms[d] = s
        /\ peers[s][d] # None => s \in rooms
        /\ s # None
    BY RelayAssumption DEF Tables, IndexAgreement
  <2>2. connectionRooms'[d] = IF d = c THEN r
                              ELSE IF d \in gone THEN None ELSE connectionRooms[d]
    BY <1>7
  <2>3. CASE d = c
    BY <1>4, <1>5, <1>7, <1>9, <1>10, <2>2, <2>3
  <2>4. CASE d # c /\ d \in gone
    <3>1. connectionRooms[d] = r
      BY <1>3, <1>6, <2>4 DEF Tables, IndexAgreement, Members
    <3> QED BY <1>10, <2>1, <2>2, <2>4, <3>1
  <2>5. CASE d # c /\ d \notin gone
    BY <1>7, <1>10, <2>1, <2>2, <2>5
  <2> QED BY <2>3, <2>4, <2>5
<1>14. OneSeatPerIdentity'
  <2> SUFFICES ASSUME NEW s \in Sessions, NEW d \in Members(s)', NEW e \in Members(s)',
                      peers'[s][d].steam = peers'[s][e].steam
               PROVE  d = e
    BY DEF OneSeatPerIdentity
  <2>1. d \in ConnIds /\ e \in ConnIds
    BY DEF Members
  <2>2. ASSUME NEW x \in Members(s)', ~(s = r /\ x = c)
        PROVE  x \in Members(s) /\ peers'[s][x] = peers[s][x] /\ (s = r => x \notin gone)
    BY <1>10, <1>11, <2>2 DEF Members
  <2>3. ASSUME s = r, NEW x \in Members(s)', x # c
        PROVE  peers'[s][x].steam # j.steam
    <3>1. x \in Members(r) /\ peers'[s][x] = peers[r][x] /\ x \notin gone
      BY <2>2, <2>3
    <3> QED BY <3>1 DEF gone, Duplicates
  <2>4. CASE s = r /\ (d = c \/ e = c)
    BY <1>9, <1>12, <2>3, <2>4
  <2>5. CASE ~(s = r /\ d = c) /\ ~(s = r /\ e = c)
    BY <2>2, <2>5 DEF Tables, OneSeatPerIdentity
  <2> QED BY <2>4, <2>5
<1>15. DeadlineWhileReconnecting'
  <2> SUFFICES ASSUME NEW s \in Sessions, NEW d \in Members(s)'
               PROVE  /\ peers'[s][d].presence = "Reconnecting" <=> peers'[s][d].until # None
                      /\ peers'[s][d].until # None => peers'[s][d].until <= now + Grace
    BY DEF DeadlineWhileReconnecting
  <2>1. CASE s = r /\ d = c
    BY <1>9, <1>12, <2>1
  <2>2. CASE ~(s = r /\ d = c)
    <3>1. d \in Members(s) /\ peers'[s][d] = peers[s][d]
      BY <1>10, <1>11, <2>2 DEF Members
    <3> QED BY <3>1 DEF Tables, DeadlineWhileReconnecting
  <2> QED BY <2>1, <2>2
<1> QED
  BY <1>3, <1>4, <1>5, <1>6, <1>8, <1>9, <1>10, <1>11, <1>12, <1>13, <1>14, <1>15
     DEF r, gone, j

--------------------------------------------------------------------------------
(* One lemma per method: it keeps the invariant.                           *)

(* A seat change that leaves the duplicate window alone and lets nothing   *)
(* through keeps the whole invariant, types apart.                         *)
LEMMA QuietSeatChange ==
    ASSUME Inv, TypeOK', NEW c \in ConnIds, Known(c), NEW q \in Peers,
           q.steam = PeerOf(c).steam, q.frames = PeerOf(c).frames,
           q.presence = "Reconnecting" <=> q.until # None,
           q.until # None => q.until <= now + Grace,
           peers' = [peers EXCEPT ![connectionRooms[c]][c] = q],
           UNCHANGED <<now, rooms, connectionRooms, drawn, copies>>
    PROVE  Inv'
<1>1. /\ \A s \in Sessions : \A d \in ConnIds :
            peers'[s][d] = IF s = connectionRooms[c] /\ d = c THEN q ELSE peers[s][d]
      /\ \A s \in Sessions : Members(s)' = Members(s)
      /\ IndexAgreement' /\ OneSeatPerIdentity' /\ DeadlineWhileReconnecting'
  BY SeatChange DEF Inv
<1>2. DrawnBeforeSeated' /\ AtMostOnce'
  BY DEF Inv, DrawnBeforeSeated, AtMostOnce
<1>3. MarksCoverCopies'
  <2> SUFFICES ASSUME NEW s \in Sessions, NEW d \in Members(s), NEW f \in FrameIds,
                      copies[d][f] # 0
               PROVE  ~Admits(peers'[s][d].frames, f)
    BY <1>1 DEF MarksCoverCopies
  <2>1. d \in ConnIds /\ ~Admits(peers[s][d].frames, f)
    BY DEF Inv, MarksCoverCopies, Members
  <2>2. peers'[s][d].frames = peers[s][d].frames
    BY <1>1, <2>1 DEF PeerOf
  <2> QED BY <2>1, <2>2
<1> QED BY <1>1, <1>2, <1>3 DEF Inv, Tables

(* resume keeps the invariant: it hands the seat over and closes the grace *)
(* period.                                                                 *)
LEMMA ResumeStep ==
    ASSUME Inv, NEW p \in ControlPeers, NEW c \in ConnIds, NEW key \in ConnIds,
           resume(p, c, key)
    PROVE  Inv'
<1> DEFINE q == Resumed(PeerOf(c), p)
           s == connectionRooms[c]
<1>1. TypeOK /\ Known(c)
  BY DEF Inv, Tables, resume, Resumable
<1>2. s \in Sessions /\ PeerOf(c) \in Peers /\ PeerOf(c) = peers[s][c]
  BY <1>1, KnownSeat
<1>3. /\ q \in Peers /\ q.steam = PeerOf(c).steam /\ q.frames = PeerOf(c).frames
      /\ q.presence = "Connected" /\ q.until = None
  BY <1>2 DEF Resumed, Peers
<1>4. /\ peers' = [peers EXCEPT ![s][c] = q]
      /\ roomSeen' = [roomSeen EXCEPT ![s] = now]
      /\ controlConnections' = [controlConnections EXCEPT ![p] = c]
      /\ UNCHANGED <<now, pending, rooms, connectionRooms, drawn, copies>>
  BY <1>2 DEF resume
<1> HIDE DEF q
<1>5. peers' \in [Sessions -> [ConnIds -> Peers \cup {None}]]
  BY <1>1, <1>3, <1>4, SeatChange DEF Inv
<1>6. TypeOK'
  BY <1>1, <1>2, <1>4, <1>5 DEF TypeOK
<1> QED BY <1>1, <1>3, <1>4, <1>6, QuietSeatChange

(* detach keeps the invariant: the owner's seat gets a deadline, a         *)
(* superseded connection changes no seat.                                  *)
LEMMA DetachStep ==
    ASSUME Inv, NEW p \in ControlPeers, detach(p)
    PROVE  Inv'
<1> DEFINE c == controlConnections[p]
           q == [PeerOf(c) EXCEPT !.presence = "Reconnecting", !.until = now + Grace]
<1>1. TypeOK /\ c \in ConnIds /\ now \in Nat
  BY RelayAssumption DEF Inv, Tables, TypeOK, detach, Times
<1>2. /\ controlConnections' = [controlConnections EXCEPT ![p] = None]
      /\ UNCHANGED <<now, pending, rooms, roomSeen, connectionRooms, drawn, copies>>
  BY DEF detach
<1>3. CASE Known(c) /\ PeerOf(c).control = p /\ PeerOf(c).presence = "Connected"
  <2>1. connectionRooms[c] \in Sessions /\ PeerOf(c) \in Peers
        /\ PeerOf(c) = peers[connectionRooms[c]][c]
    BY <1>1, <1>3, KnownSeat
  <2>2. now + Grace \in Nat /\ now + Grace # None
    BY <1>1, RelayAssumption, NoneAssumption
  <2>3. /\ q \in Peers /\ q.steam = PeerOf(c).steam /\ q.frames = PeerOf(c).frames
        /\ q.presence = "Reconnecting" /\ q.until = now + Grace
    BY <2>1, <2>2 DEF Peers
  <2>4. peers' = [peers EXCEPT ![connectionRooms[c]][c] = q]
    BY <1>3, <2>1 DEF detach
  <2> HIDE DEF q, c
  <2>5. q.until <= now + Grace
    BY <2>2, <2>3
  <2>6. peers' \in [Sessions -> [ConnIds -> Peers \cup {None}]]
    BY <1>1, <1>2, <1>3, <2>2, <2>3, <2>4, <2>5, SeatChange DEF Inv
  <2>7. TypeOK'
    BY <1>1, <1>2, <2>6 DEF TypeOK
  <2> QED BY <1>1, <1>2, <1>3, <2>2, <2>3, <2>4, <2>5, <2>7, QuietSeatChange
<1>4. CASE ~(Known(c) /\ PeerOf(c).control = p /\ PeerOf(c).presence = "Connected")
  <2>1. UNCHANGED peers
    BY <1>4 DEF detach
  <2>2. TypeOK'
    BY <1>1, <1>2, <2>1 DEF TypeOK
  <2> QED BY <1>2, <2>1, <2>2
          DEF Inv, Tables, IndexAgreement, OneSeatPerIdentity, DeadlineWhileReconnecting,
              Members, DrawnBeforeSeated, MarksCoverCopies, AtMostOnce
<1> QED BY <1>3, <1>4

(* bind_udp_path keeps the invariant: only the address moves.              *)
LEMMA BindStep ==
    ASSUME Inv, NEW c \in ConnIds, NEW key \in ConnIds, NEW addr \in Addrs,
           bind_udp_path(c, key, addr)
    PROVE  Inv'
<1> DEFINE q == [PeerOf(c) EXCEPT !.udp = addr]
<1>1. TypeOK /\ Known(c)
  BY DEF Inv, Tables, bind_udp_path
<1>2. /\ connectionRooms[c] \in Sessions /\ PeerOf(c) \in Peers
      /\ PeerOf(c) = peers[connectionRooms[c]][c] /\ c \in Members(connectionRooms[c])
  BY <1>1, KnownSeat
<1>3. /\ q \in Peers /\ q.steam = PeerOf(c).steam /\ q.frames = PeerOf(c).frames
      /\ q.presence = PeerOf(c).presence /\ q.until = PeerOf(c).until
  BY <1>2 DEF Peers
<1>4. /\ peers' = [peers EXCEPT ![connectionRooms[c]][c] = q]
      /\ UNCHANGED <<now, pending, rooms, roomSeen, connectionRooms,
                     controlConnections, drawn, copies>>
  BY <1>2 DEF bind_udp_path
<1> HIDE DEF q
<1>5. /\ q.presence = "Reconnecting" <=> q.until # None
      /\ q.until # None => q.until <= now + Grace
  BY <1>2, <1>3 DEF Inv, Tables, DeadlineWhileReconnecting
<1>6. peers' \in [Sessions -> [ConnIds -> Peers \cup {None}]]
  BY <1>1, <1>3, <1>4, <1>5, SeatChange DEF Inv
<1>7. TypeOK'
  BY <1>1, <1>4, <1>6 DEF TypeOK
<1> QED BY <1>1, <1>3, <1>4, <1>5, <1>7, QuietSeatChange

(* route_probe keeps the invariant: only the budget is charged.            *)
LEMMA ProbeStep ==
    ASSUME Inv, NEW c \in ConnIds, NEW from \in SteamIds, NEW src \in Sources,
           NEW size \in Sizes, route_probe(c, from, src, size)
    PROVE  Inv'
<1> DEFINE b == PeerOf(c).budget
           charged == CheckTraffic(b, size, now)
           fits == TrafficFits(b, size, now)
           nb == IF fits THEN CheckProbe(charged, now) ELSE charged
           q == [PeerOf(c) EXCEPT !.budget = nb]
<1>1. TypeOK /\ Known(c) /\ now \in Nat /\ size \in Nat
  BY RelayAssumption DEF Inv, Tables, TypeOK, Times, route_probe
<1>2. /\ connectionRooms[c] \in Sessions /\ PeerOf(c) \in Peers
      /\ PeerOf(c) = peers[connectionRooms[c]][c] /\ c \in Members(connectionRooms[c])
  BY <1>1, KnownSeat
<1>3. nb \in Budgets
  <2>1. b \in Budgets
    BY <1>2 DEF Peers
  <2>2. charged \in Budgets
    BY <1>1, <2>1, CheckTrafficType
  <2> HIDE DEF charged
  <2>3. CheckProbe(charged, now) \in Budgets
    BY <1>1, <2>2, CheckProbeType
  <2> QED BY <2>2, <2>3
<1>4. /\ peers' = [peers EXCEPT ![connectionRooms[c]][c] = q]
      /\ roomSeen' = [roomSeen EXCEPT ![connectionRooms[c]] = now] \/ roomSeen' = roomSeen
      /\ UNCHANGED <<now, pending, rooms, connectionRooms, controlConnections, drawn, copies>>
  BY <1>2 DEF route_probe
<1> HIDE DEF nb
<1>5. /\ q \in Peers /\ q.steam = PeerOf(c).steam /\ q.frames = PeerOf(c).frames
      /\ q.presence = PeerOf(c).presence /\ q.until = PeerOf(c).until
  BY <1>2, <1>3 DEF Peers
<1> HIDE DEF q
<1>6. /\ q.presence = "Reconnecting" <=> q.until # None
      /\ q.until # None => q.until <= now + Grace
  BY <1>2, <1>5 DEF Inv, Tables, DeadlineWhileReconnecting
<1>7. peers' \in [Sessions -> [ConnIds -> Peers \cup {None}]]
  BY <1>1, <1>4, <1>5, <1>6, SeatChange DEF Inv
<1>8. TypeOK'
  BY <1>1, <1>2, <1>4, <1>7 DEF TypeOK
<1> QED BY <1>1, <1>4, <1>5, <1>6, <1>8, QuietSeatChange

(* route_data keeps the invariant.  A frame that is let through was        *)
(* admitted by the window, hence never let through before, and is marked   *)
(* before anything else can happen; the other marks stay.                  *)
LEMMA DataStep ==
    ASSUME Inv, NEW c \in ConnIds, NEW f \in FrameIds, NEW from \in SteamIds,
           NEW to \in SteamIds, NEW src \in Sources, NEW size \in Sizes,
           route_data(c, f, from, to, src, size)
    PROVE  Inv'
<1> DEFINE p == PeerOf(c)
           r == connectionRooms[c]
           nb == CheckTraffic(p.budget, size, now)
           w == Observed(p.frames, f)
           q == [p EXCEPT !.frames = w, !.budget = nb]
<1>1. TypeOK /\ Known(c) /\ now \in Nat /\ size \in Nat
  BY RelayAssumption DEF Inv, Tables, TypeOK, Times, route_data
<1>2. r \in Sessions /\ p \in Peers /\ p = peers[r][c] /\ c \in Members(r)
  BY <1>1, KnownSeat
<1>3. CASE ~Admits(p.frames, f)
  <2>1. UNCHANGED vars
    BY <1>3 DEF route_data, vars
  <2> QED BY <2>1
          DEF Inv, Tables, TypeOK, IndexAgreement, OneSeatPerIdentity,
              DeadlineWhileReconnecting, Members, DrawnBeforeSeated, MarksCoverCopies,
              AtMostOnce, vars, stateVars
<1>4. CASE Admits(p.frames, f)
  <2>1. /\ peers' = [peers EXCEPT ![r][c] = q]
        /\ roomSeen' = [roomSeen EXCEPT ![r] = now] \/ roomSeen' = roomSeen
        /\ copies' = [copies EXCEPT ![c][f] = @ + 1] \/ copies' = copies
        /\ UNCHANGED <<now, pending, rooms, connectionRooms, controlConnections, drawn>>
    BY <1>2, <1>4 DEF route_data, Peers
  <2>2. p.frames \in Windows /\ w \in Windows /\ nb \in Budgets
    BY <1>1, <1>2, ObservedType, CheckTrafficType DEF Peers
  <2> HIDE DEF w, nb
  <2>3. /\ q \in Peers /\ q.steam = p.steam /\ q.frames = w
        /\ q.presence = p.presence /\ q.until = p.until
    BY <1>2, <2>2 DEF Peers
  <2> HIDE DEF q
  <2>4. /\ q.presence = "Reconnecting" <=> q.until # None
        /\ q.until # None => q.until <= now + Grace
    BY <1>2, <2>3 DEF Inv, Tables, DeadlineWhileReconnecting
  <2>5. /\ peers' \in [Sessions -> [ConnIds -> Peers \cup {None}]]
        /\ \A s \in Sessions : \A d \in ConnIds :
              peers'[s][d] = IF s = r /\ d = c THEN q ELSE peers[s][d]
        /\ \A s \in Sessions : Members(s)' = Members(s)
        /\ IndexAgreement' /\ OneSeatPerIdentity' /\ DeadlineWhileReconnecting'
    BY <1>1, <2>1, <2>3, <2>4, SeatChange DEF Inv
  <2>6. copies[c][f] = 0
    BY <1>2, <1>4 DEF Inv, MarksCoverCopies
  <2>7. /\ copies' \in [ConnIds -> [FrameIds -> Nat]]
        /\ \A d \in ConnIds : \A g \in FrameIds :
              ~(d = c /\ g = f) => copies'[d][g] = copies[d][g]
        /\ copies'[c][f] \in {0, 1}
    <3>1. copies \in [ConnIds -> [FrameIds -> Nat]]
      BY <1>1 DEF TypeOK
    <3>2. CASE copies' = copies
      BY <2>6, <3>1, <3>2
    <3>3. CASE copies' = [copies EXCEPT ![c][f] = @ + 1]
      BY <2>6, <3>1, <3>3
    <3> QED BY <2>1, <3>2, <3>3
  <2>8. TypeOK'
    <3>1. roomSeen' \in [Sessions -> Times]
      BY <1>1, <1>2, <2>1 DEF TypeOK
    <3> QED BY <1>1, <2>1, <2>5, <2>7, <3>1 DEF TypeOK
  <2>9. c \in drawn
    <3>1. connectionRooms[c] # None
      BY <1>1 DEF Known
    <3> QED BY <3>1 DEF Inv, DrawnBeforeSeated
  <2>10. DrawnBeforeSeated'
    BY <2>1, <2>7, <2>9 DEF Inv, DrawnBeforeSeated
  <2>11. AtMostOnce'
    <3> SUFFICES ASSUME NEW d \in ConnIds, NEW g \in FrameIds PROVE copies'[d][g] <= 1
      BY DEF AtMostOnce
    <3>1. CASE d = c /\ g = f
      BY <2>7, <3>1
    <3>2. CASE ~(d = c /\ g = f)
      BY <2>7, <3>2 DEF Inv, AtMostOnce
    <3> QED BY <3>1, <3>2
  <2>12. MarksCoverCopies'
    <3> SUFFICES ASSUME NEW s \in Sessions, NEW d \in Members(s), NEW g \in FrameIds,
                        copies'[d][g] # 0
                 PROVE  ~Admits(peers'[s][d].frames, g)
      BY <2>5 DEF MarksCoverCopies
    <3>1. d \in ConnIds
      BY DEF Members
    <3>2. CASE s = r /\ d = c /\ g = f
      BY <2>2, <2>3, <2>5, <3>2, RefusedAfter DEF w
    <3>3. CASE s = r /\ d = c /\ g # f
      <4>1. ~Admits(p.frames, g)
        BY <1>2, <2>7, <3>3 DEF Inv, MarksCoverCopies
      <4>2. ~Admits(w, g)
        BY <2>2, <4>1, RefusedStays DEF w
      <4> QED BY <2>3, <2>5, <3>3, <4>2
    <3>4. CASE d = c /\ s # r
      <4>1. connectionRooms[c] = s
        BY <3>4 DEF Inv, Tables, IndexAgreement, Members
      <4> QED BY <3>4, <4>1
    <3>5. CASE d # c
      BY <2>5, <2>7, <3>1, <3>5 DEF Inv, MarksCoverCopies
    <3> QED BY <3>2, <3>3, <3>4, <3>5
  <2> QED BY <2>5, <2>8, <2>10, <2>11, <2>12 DEF Inv, Tables
<1> QED BY <1>3, <1>4

(* begin_join keeps the invariant: it only records a pending join.         *)
LEMMA BeginJoinStep ==
    ASSUME Inv, NEW p \in ControlPeers, NEW s \in Sessions, NEW id \in SteamIds,
           NEW profile \in Profiles, NEW probe \in ProbeCaps,
           begin_join(p, s, id, profile, probe)
    PROVE  Inv'
<1>1. TypeOK
  BY DEF Inv, Tables
<1>2. [session |-> s, steam |-> id, profile |-> profile, probe |-> probe, issued |-> now]
         \in PendingJoins
  BY <1>1 DEF TypeOK, PendingJoins
<1>3. TypeOK'
  BY <1>1, <1>2 DEF TypeOK, begin_join
<1> QED BY <1>3 DEF begin_join, Inv, Tables, IndexAgreement, OneSeatPerIdentity,
              DeadlineWhileReconnecting, Members, DrawnBeforeSeated, MarksCoverCopies,
              AtMostOnce

(* The twins of an identity are one connection at most, so evicting one of *)
(* them evicts all.                                                        *)
LEMMA OneTwin ==
    ASSUME OneSeatPerIdentity, NEW s \in Sessions, NEW id, NEW d \in Duplicates(s, id)
    PROVE  Duplicates(s, id) = {d}
  BY DEF OneSeatPerIdentity, Duplicates

(* complete_join is refused or admits its connection in place of the twin. *)
LEMMA CompleteJoinCases ==
    ASSUME Tables, NEW p \in ControlPeers, NEW valid \in BOOLEAN, complete_join(p, valid)
    PROVE  LET r == pending[p].session IN
           /\ pending[p] # None /\ r \in Sessions
           /\ pending' = [pending EXCEPT ![p] = None]
           /\ UNCHANGED <<now, copies>>
           /\ \/ UNCHANGED <<rooms, roomSeen, peers, connectionRooms,
                             controlConnections, drawn>>
              \/ /\ ~Refused(p, valid)
                 /\ \E c \in ConnIds \ drawn :
                       /\ connectionRooms[c] = None
                       /\ Admit(p, c, Duplicates(r, pending[p].steam))
<1> DEFINE j == pending[p]
           r == j.session
           twins == Duplicates(r, j.steam)
<1>1. /\ j # None /\ pending' = [pending EXCEPT ![p] = None] /\ UNCHANGED <<now, copies>>
  BY DEF complete_join
<1>2. r \in Sessions
  BY <1>1 DEF Tables, TypeOK, PendingJoins
<1>3. CASE Refused(p, valid)
  BY <1>1, <1>2, <1>3 DEF complete_join
<1>4. CASE ~Refused(p, valid)
  <2>1. PICK c \in ConnIds \ drawn :
           /\ connectionRooms[c] = None
           /\ IF twins = {} THEN Admit(p, c, {}) ELSE \E d \in twins : Admit(p, c, {d})
    BY <1>4 DEF complete_join
  <2>2. Admit(p, c, twins)
    <3>1. CASE twins = {}
      BY <2>1, <3>1
    <3>2. CASE twins # {}
      <4>1. PICK d \in twins : Admit(p, c, {d})
        BY <2>1, <3>2
      <4>2. twins = {d}
        BY <1>2, OneTwin DEF Tables
      <4> QED BY <4>1, <4>2
    <3> QED BY <3>1, <3>2
  <2> QED BY <1>1, <1>2, <1>4, <2>1, <2>2
<1> QED BY <1>3, <1>4

(* complete_join keeps the invariant: the new seat has an id that never    *)
(* let anything through, and an empty window.                              *)
LEMMA CompleteJoinStep ==
    ASSUME Inv, NEW p \in ControlPeers, NEW valid \in BOOLEAN, complete_join(p, valid)
    PROVE  Inv'
<1> DEFINE r == pending[p].session
           gone == Duplicates(r, pending[p].steam)
<1>1. TypeOK /\ Tables
  BY DEF Inv, Tables
<1>2. /\ pending[p] # None /\ r \in Sessions
      /\ pending' = [pending EXCEPT ![p] = None]
      /\ UNCHANGED <<now, copies>>
  BY <1>1, CompleteJoinCases
<1>3. pending' \in [ControlPeers -> PendingJoins \cup {None}]
  BY <1>1, <1>2 DEF TypeOK
<1>4. CASE UNCHANGED <<rooms, roomSeen, peers, connectionRooms, controlConnections, drawn>>
  <2>1. TypeOK'
    BY <1>1, <1>2, <1>3, <1>4 DEF TypeOK
  <2> QED BY <1>2, <1>4, <2>1
          DEF Inv, Tables, IndexAgreement, OneSeatPerIdentity, DeadlineWhileReconnecting,
              Members, DrawnBeforeSeated, MarksCoverCopies, AtMostOnce
<1>5. ASSUME NEW c \in ConnIds \ drawn, connectionRooms[c] = None, Admit(p, c, gone)
      PROVE  Inv'
  <2>1. /\ peers' \in [Sessions -> [ConnIds -> Peers \cup {None}]]
        /\ connectionRooms' \in [ConnIds -> Sessions \cup {None}]
        /\ \A s \in Sessions : \A d \in ConnIds : ~(s = r /\ d = c) =>
              peers'[s][d] = IF s = r /\ d \in gone THEN None ELSE peers[s][d]
        /\ \A s \in Sessions : Members(s)' =
              IF s = r THEN (Members(s) \ gone) \cup {c} ELSE Members(s)
        /\ IndexAgreement' /\ OneSeatPerIdentity' /\ DeadlineWhileReconnecting'
    BY <1>1, <1>2, <1>5, Admission
  <2>2. /\ rooms' = rooms \cup {r}
        /\ roomSeen' = [roomSeen EXCEPT ![r] = now]
        /\ connectionRooms' = [d \in ConnIds |->
              IF d = c THEN r ELSE IF d \in gone THEN None ELSE connectionRooms[d]]
        /\ controlConnections' = [q \in ControlPeers |->
              IF q = p THEN c ELSE IF q \in ControlsOf(gone) THEN None
                              ELSE controlConnections[q]]
        /\ drawn' = drawn \cup {c}
    BY <1>5 DEF Admit
  <2>3. TypeOK'
    <3>1. roomSeen' \in [Sessions -> Times] /\ rooms' \subseteq Sessions
      BY <1>1, <1>2, <2>2 DEF TypeOK
    <3>2. controlConnections' \in [ControlPeers -> ConnIds \cup {None}]
      BY <1>1, <2>2 DEF TypeOK
    <3> QED BY <1>1, <1>2, <1>3, <2>1, <2>2, <3>1, <3>2 DEF TypeOK
  <2>4. DrawnBeforeSeated'
    <3> SUFFICES ASSUME NEW d \in ConnIds
                 PROVE  /\ connectionRooms'[d] # None => d \in drawn'
                        /\ d \notin drawn' => \A f \in FrameIds : copies'[d][f] = 0
      BY DEF DrawnBeforeSeated
    <3> QED BY <1>2, <2>2 DEF Inv, DrawnBeforeSeated
  <2>5. MarksCoverCopies'
    <3> SUFFICES ASSUME NEW s \in Sessions, NEW d \in Members(s)', NEW f \in FrameIds,
                        copies[d][f] # 0
                 PROVE  ~Admits(peers'[s][d].frames, f)
      BY <1>2 DEF MarksCoverCopies
    <3>1. d # c
      BY <1>5 DEF Inv, DrawnBeforeSeated
    <3>2. d \in Members(s) /\ d \in ConnIds /\ ~(s = r /\ d \in gone)
      BY <2>1, <3>1 DEF Members
    <3>3. peers'[s][d] = peers[s][d]
      BY <2>1, <3>1, <3>2
    <3> QED BY <3>2, <3>3 DEF Inv, MarksCoverCopies
  <2>6. AtMostOnce'
    BY <1>2 DEF Inv, AtMostOnce
  <2> QED BY <2>1, <2>3, <2>4, <2>5, <2>6 DEF Inv, Tables
<1> QED BY <1>1, <1>4, <1>5, CompleteJoinCases

(* Removing seats keeps the invariant.                                     *)
LEMMA RemovalStep ==
    ASSUME Inv, TypeOK', NEW gone \in SUBSET ConnIds, RemoveFrom(gone),
           UNCHANGED <<now, drawn, copies>>, rooms' \subseteq rooms,
           \A s \in rooms : (\E c \in ConnIds \ gone : peers[s][c] # None) => s \in rooms'
    PROVE  Inv'
<1>1. /\ \A s \in Sessions : \A c \in ConnIds :
            peers'[s][c] = IF c \in gone THEN None ELSE peers[s][c]
      /\ \A s \in Sessions : Members(s)' = Members(s) \ gone
      /\ IndexAgreement' /\ OneSeatPerIdentity' /\ DeadlineWhileReconnecting'
  BY Removal DEF Inv
<1>2. DrawnBeforeSeated'
  BY DEF Inv, DrawnBeforeSeated, RemoveFrom
<1>3. MarksCoverCopies'
  BY <1>1 DEF Inv, MarksCoverCopies, Members
<1>4. AtMostOnce'
  BY DEF Inv, AtMostOnce
<1> QED BY <1>1, <1>2, <1>3, <1>4 DEF Inv, Tables

(* stop keeps the invariant.                                               *)
LEMMA StopStep ==
    ASSUME Inv, NEW p \in ControlPeers, stop(p)
    PROVE  Inv'
<1> DEFINE c == controlConnections[p]
<1>1. TypeOK /\ Tables /\ c \in ConnIds /\ RemoveFrom({c})
  BY DEF Inv, Tables, TypeOK, stop
<1>2. /\ controlConnections' = [q \in ControlPeers |->
            IF q = p \/ q \in ControlsOf({c}) THEN None ELSE controlConnections[q]]
      /\ UNCHANGED <<now, pending, rooms, roomSeen, drawn, copies>>
  BY DEF stop
<1> HIDE DEF c
<1>3. IndexAgreement
  BY DEF Inv, Tables
<1>4. /\ peers' \in [Sessions -> [ConnIds -> Peers \cup {None}]]
      /\ connectionRooms' \in [ConnIds -> Sessions \cup {None}]
  BY <1>1, <1>2, Removal
<1>5. controlConnections' \in [ControlPeers -> ConnIds \cup {None}]
  BY <1>1, <1>2 DEF TypeOK
<1>6. TypeOK'
  BY <1>1, <1>2, <1>4, <1>5 DEF TypeOK
<1> QED BY <1>1, <1>2, <1>6, RemovalStep

(* cleanup keeps the invariant: no room goes while a seat in it stays.     *)
LEMMA CleanupStep ==
    ASSUME Inv, cleanup
    PROVE  Inv'
<1>1. TypeOK /\ Tables /\ Expired \in SUBSET ConnIds /\ RemoveFrom(Expired)
  BY DEF Inv, Tables, cleanup, Expired
<1>2. /\ pending' = [p \in ControlPeers |->
            IF pending[p] # None /\ now - pending[p].issued >= ChallengeTtl
              THEN None ELSE pending[p]]
      /\ controlConnections' = [p \in ControlPeers |->
            IF p \in ControlsOf(Expired) THEN None ELSE controlConnections[p]]
      /\ rooms' = {s \in rooms : \/ \E c \in ConnIds \ Expired : peers[s][c] # None
                                 \/ now - roomSeen[s] < RoomIdle}
      /\ UNCHANGED <<now, roomSeen, drawn, copies>>
  BY DEF cleanup
<1>3. /\ rooms' \subseteq rooms
      /\ \A s \in rooms : (\E c \in ConnIds \ Expired : peers[s][c] # None) => s \in rooms'
  BY <1>2
<1>4. /\ peers' \in [Sessions -> [ConnIds -> Peers \cup {None}]]
      /\ connectionRooms' \in [ConnIds -> Sessions \cup {None}]
  BY <1>1, <1>2, <1>3, Removal
<1>5. /\ pending' \in [ControlPeers -> PendingJoins \cup {None}]
      /\ controlConnections' \in [ControlPeers -> ConnIds \cup {None}]
  BY <1>1, <1>2 DEF TypeOK
<1>6. TypeOK'
  BY <1>1, <1>2, <1>3, <1>4, <1>5 DEF TypeOK
<1> QED BY <1>1, <1>2, <1>3, <1>6, RemovalStep

(* The clock keeps the invariant: deadlines only come nearer.              *)
LEMMA TickStep ==
    ASSUME Inv, tick
    PROVE  Inv'
<1>1. now' = now + 1 /\ now < MaxTime /\ UNCHANGED stateVars
  BY DEF tick
<1>2. TypeOK /\ now \in Nat /\ MaxTime \in Nat /\ Grace \in Nat
  BY RelayAssumption DEF Inv, Tables, TypeOK, Times
<1>3. now' \in Times
  BY <1>1, <1>2 DEF Times
<1>4. TypeOK'
  BY <1>1, <1>2, <1>3 DEF TypeOK, stateVars
<1>5. DeadlineWhileReconnecting'
  <2> SUFFICES ASSUME NEW s \in Sessions, NEW c \in Members(s)
               PROVE  /\ peers[s][c].presence = "Reconnecting" <=> peers[s][c].until # None
                      /\ peers[s][c].until # None => peers[s][c].until <= now' + Grace
    BY <1>1 DEF DeadlineWhileReconnecting, Members, stateVars
  <2>1. /\ peers[s][c].presence = "Reconnecting" <=> peers[s][c].until # None
        /\ peers[s][c].until # None => peers[s][c].until <= now + Grace
    BY DEF Inv, Tables, DeadlineWhileReconnecting
  <2>2. peers[s][c].until \in Nat \cup {None}
    BY <1>2 DEF TypeOK, Members, Peers
  <2> QED BY <1>1, <1>2, <2>1, <2>2
<1> QED BY <1>1, <1>4, <1>5
        DEF Inv, Tables, IndexAgreement, OneSeatPerIdentity, Members, DrawnBeforeSeated,
            MarksCoverCopies, AtMostOnce, stateVars

--------------------------------------------------------------------------------
(* The theorems.                                                           *)

(* The empty Relay satisfies the invariant.                                *)
LEMMA InitInv == Init => Inv
<1> SUFFICES ASSUME Init PROVE Inv
  OBVIOUS
<1>1. TypeOK
  BY RelayAssumption DEF Init, TypeOK, Times
<1>2. \A s \in Sessions : Members(s) = {} /\ s # None
  BY RelayAssumption DEF Init, Members
<1>3. IndexAgreement
  BY <1>2 DEF Init, IndexAgreement
<1>4. OneSeatPerIdentity /\ DeadlineWhileReconnecting /\ MarksCoverCopies
  BY <1>2 DEF OneSeatPerIdentity, DeadlineWhileReconnecting, MarksCoverCopies
<1>5. DrawnBeforeSeated /\ AtMostOnce
  BY DEF Init, DrawnBeforeSeated, AtMostOnce
<1> QED BY <1>1, <1>3, <1>4, <1>5 DEF Inv, Tables

(* Every method, called with any arguments at any time, keeps it.          *)
LEMMA NextInv == Inv /\ [Next]_vars => Inv'
<1> SUFFICES ASSUME Inv, [Next]_vars PROVE Inv'
  OBVIOUS
<1>1. CASE UNCHANGED vars
  BY <1>1 DEF Inv, Tables, TypeOK, IndexAgreement, OneSeatPerIdentity,
     DeadlineWhileReconnecting, Members, DrawnBeforeSeated, MarksCoverCopies, AtMostOnce,
     vars, stateVars
<1>2. CASE Next
  BY <1>2, BeginJoinStep, CompleteJoinStep, ResumeStep, DetachStep, StopStep, BindStep,
     DataStep, ProbeStep, CleanupStep, TickStep DEF Next
<1> QED BY <1>1, <1>2

(* The tables stay well typed: budgets and windows included, whatever      *)
(* frames and requests arrive.                                             *)
THEOREM TypesHold == Spec => []TypeOK
<1>1. Inv => TypeOK
  BY DEF Inv, Tables
<1> QED BY <1>1, InitInv, NextInv, PTL DEF Spec

(* Room table and connection index never disagree, for any number of       *)
(* rooms, connections and callers.                                         *)
THEOREM IndexesAgree == Spec => []IndexAgreement
<1>1. Inv => IndexAgreement
  BY DEF Inv, Tables
<1> QED BY <1>1, InitInv, NextInv, PTL DEF Spec

(* No identity ever holds two seats of a room.                             *)
THEOREM IdentitiesAreUnique == Spec => []OneSeatPerIdentity
<1>1. Inv => OneSeatPerIdentity
  BY DEF Inv, Tables
<1> QED BY <1>1, InitInv, NextInv, PTL DEF Spec

(* A seat carries a deadline exactly while it is Reconnecting, and the     *)
(* deadline is at most one grace period ahead.                             *)
THEOREM DeadlinesHold == Spec => []DeadlineWhileReconnecting
<1>1. Inv => DeadlineWhileReconnecting
  BY DEF Inv, Tables
<1> QED BY <1>1, InitInv, NextInv, PTL DEF Spec

(* The Relay lets no frame of a connection through twice, across any       *)
(* number of detaches and resumes.                                         *)
THEOREM FramesAtMostOnce == Spec => []AtMostOnce
<1>1. Inv => AtMostOnce
  BY DEF Inv
<1> QED BY <1>1, InitInv, NextInv, PTL DEF Spec

--------------------------------------------------------------------------------
(* The limits.                                                             *)

(* The number of rooms never exceeds max_rooms and no room seats more than *)
(* max_peers_per_room, however many joins were begun at once: capacity is  *)
(* checked again when the seat is taken, and a returning player takes the  *)
(* place of its twin.                                                      *)
THEOREM LimitsHold == Spec => []WithinLimits
<1> USE RelayAssumption
<1>1. Init => WithinLimits
  <2> SUFFICES ASSUME Init PROVE WithinLimits
    OBVIOUS
  <2>1. rooms = {} /\ \A s \in Sessions : Members(s) = {}
    BY DEF Init, Members
  <2> QED BY <2>1, FS_EmptySet DEF WithinLimits
<1>2. Inv /\ WithinLimits /\ [Next]_vars => WithinLimits'
  <2> SUFFICES ASSUME Inv, WithinLimits, [Next]_vars PROVE WithinLimits'
    OBVIOUS
  <2>0. TypeOK /\ Tables /\ IndexAgreement
    BY DEF Inv, Tables
  <2>1. /\ IsFiniteSet(rooms) /\ Cardinality(rooms) \in Nat
        /\ \A s \in Sessions : IsFiniteSet(Members(s)) /\ Cardinality(Members(s)) \in Nat
    <3>1. rooms \subseteq Sessions /\ \A s \in Sessions : Members(s) \subseteq ConnIds
      BY <2>0 DEF TypeOK, Members
    <3>2. IsFiniteSet(rooms) /\ \A s \in Sessions : IsFiniteSet(Members(s))
      BY <3>1, FS_Subset
    <3> QED BY <3>2, FS_CardinalityType
  <2>2. ASSUME rooms' \subseteq rooms,
               \A s \in Sessions : Members(s)' \subseteq Members(s)
        PROVE  WithinLimits'
    <3>1. Cardinality(rooms') \in Nat /\ Cardinality(rooms') <= Cardinality(rooms)
      BY <2>1, <2>2, FS_Subset, FS_CardinalityType
    <3>2. Cardinality(rooms') <= MaxRooms
      BY <2>1, <3>1 DEF WithinLimits
    <3>3. ASSUME NEW s \in Sessions PROVE Cardinality(Members(s)') <= MaxPeers
      <4>1. /\ Cardinality(Members(s)') \in Nat
            /\ Cardinality(Members(s)') <= Cardinality(Members(s))
        BY <2>1, <2>2, FS_Subset, FS_CardinalityType
      <4> QED BY <2>1, <4>1 DEF WithinLimits
    <3> QED BY <3>2, <3>3 DEF WithinLimits
  <2>3. ASSUME NEW p \in ControlPeers, NEW valid \in BOOLEAN, complete_join(p, valid)
        PROVE  WithinLimits'
    <3>0. PICK r \in Sessions : r = pending[p].session
      BY <2>0, <2>3, CompleteJoinCases
    <3> DEFINE id == pending[p].steam
               gone == Duplicates(r, id)
    <3>1. pending[p] # None /\ now' = now
      BY <2>0, <2>3, CompleteJoinCases
    <3>2. CASE UNCHANGED <<rooms, roomSeen, peers, connectionRooms, controlConnections, drawn>>
      BY <3>2 DEF WithinLimits, Members
    <3>3. ASSUME NEW c \in ConnIds \ drawn, ~Refused(p, valid), connectionRooms[c] = None,
                 Admit(p, c, gone)
          PROVE  WithinLimits'
      <4>1. /\ \A s \in Sessions : Members(s)' =
                  IF s = r THEN (Members(s) \ gone) \cup {c} ELSE Members(s)
            /\ peers[r][c] = None
        BY <2>0, <3>0, <3>1, <3>3, Admission
      <4>2. rooms' = rooms \cup {r} /\ HasCapacity(r, id)
        BY <3>0, <3>3 DEF Admit, Refused
      <4>3. gone \subseteq Members(r) /\ c \notin Members(r)
        BY <4>1 DEF Duplicates, Members
      <4>4. Cardinality(rooms') <= MaxRooms
        <5>1. CASE r \in rooms
          <6>1. rooms' = rooms
            BY <4>2, <5>1
          <6> QED BY <6>1 DEF WithinLimits
        <5>2. CASE r \notin rooms
          <6>1. Cardinality(rooms) < MaxRooms
            BY <4>2, <5>2 DEF HasCapacity
          <6>2. Cardinality(rooms') = Cardinality(rooms) + 1
            BY <2>1, <4>2, <5>2, FS_AddElement
          <6> QED BY <2>1, <6>1, <6>2
        <5> QED BY <5>1, <5>2
      <4>5. Cardinality(Members(r)') <= MaxPeers
        <5>1. CASE gone = {}
          <6>1. Members(r)' = Members(r) \cup {c}
            BY <3>1, <4>1, <5>1
          <6>2. Cardinality(Members(r)') = Cardinality(Members(r)) + 1
            <7>1. IsFiniteSet(Members(r)) /\ c \notin Members(r)
              BY <2>1, <4>3
            <7>2. Cardinality(Members(r) \cup {c}) = Cardinality(Members(r)) + 1
              BY <7>1, FS_AddElement
            <7> QED BY <6>1, <7>2
          <6>3. Cardinality(Members(r)) < MaxPeers
            <7>1. CASE r \in rooms
              <8>1. ~ \E d \in Members(r) : peers[r][d].steam = id
                BY <5>1 DEF Duplicates
              <8> QED BY <4>2, <7>1, <8>1 DEF HasCapacity
            <7>2. CASE r \notin rooms
              <8>1. Members(r) = {}
                BY <2>0, <3>1, <7>2 DEF IndexAgreement, Members
              <8> QED BY <8>1, FS_EmptySet
            <7> QED BY <7>1, <7>2
          <6> QED BY <2>1, <3>1, <6>2, <6>3
        <5>2. CASE gone # {}
          <6>1. PICK d \in gone : TRUE
            BY <5>2
          <6>2. gone = {d} /\ d \in Members(r)
            BY <2>0, <3>1, <4>3, <6>1, OneTwin DEF Tables
          <6>3. Members(r)' = (Members(r) \ {d}) \cup {c} /\ c \notin Members(r) \ {d}
            BY <3>1, <4>1, <4>3, <6>2
          <6>4. /\ IsFiniteSet(Members(r) \ {d})
                /\ Cardinality(Members(r) \ {d}) = Cardinality(Members(r)) - 1
            BY <2>1, <3>1, <6>2, FS_RemoveElement
          <6>5. Cardinality(Members(r)') = Cardinality(Members(r) \ {d}) + 1
            BY <6>3, <6>4, FS_AddElement
          <6>6. Cardinality(Members(r)') = Cardinality(Members(r))
            BY <2>1, <3>1, <6>4, <6>5
          <6> QED BY <3>1, <6>6 DEF WithinLimits
        <5> QED BY <5>1, <5>2
      <4> QED BY <4>1, <4>4, <4>5 DEF WithinLimits
    <3> QED BY <2>0, <2>3, <3>0, <3>2, <3>3, CompleteJoinCases
  <2>4. ASSUME NEW c \in ConnIds, Known(c), NEW q,
               peers' = [peers EXCEPT ![connectionRooms[c]][c] = q], rooms' = rooms
        PROVE  WithinLimits'
    <3>1. connectionRooms[c] \in Sessions /\ peers[connectionRooms[c]][c] # None
      BY <2>0, <2>4 DEF TypeOK, Known
    <3>2. \A s \in Sessions : Members(s)' \subseteq Members(s)
      BY <2>0, <2>4, <3>1 DEF TypeOK, Members
    <3> QED BY <2>2, <2>4, <3>2
  <2>5. ASSUME NEW gone \in SUBSET ConnIds, RemoveFrom(gone), rooms' \subseteq rooms
        PROVE  WithinLimits'
    <3>1. \A s \in Sessions : Members(s)' \subseteq Members(s)
      BY <2>5 DEF RemoveFrom, Members
    <3> QED BY <2>2, <2>5, <3>1
  <2>6. ASSUME UNCHANGED <<rooms, peers>> PROVE WithinLimits'
    BY <2>6 DEF WithinLimits, Members
  <2>7. CASE UNCHANGED vars
    BY <2>6, <2>7 DEF vars, stateVars
  <2>8. ASSUME NEW p \in ControlPeers, NEW s \in Sessions, NEW id \in SteamIds,
               NEW profile \in Profiles, NEW probe \in ProbeCaps,
               begin_join(p, s, id, profile, probe)
        PROVE  WithinLimits'
    BY <2>6, <2>8 DEF begin_join
  <2>9. ASSUME NEW p \in ControlPeers, NEW c \in ConnIds, NEW key \in ConnIds,
               resume(p, c, key)
        PROVE  WithinLimits'
    BY <2>4, <2>9 DEF resume, Resumable
  <2>10. ASSUME NEW p \in ControlPeers, detach(p) PROVE WithinLimits'
    <3>1. controlConnections[p] \in ConnIds /\ rooms' = rooms
      BY <2>0, <2>10 DEF TypeOK, detach
    <3> QED BY <2>4, <2>6, <2>10, <3>1 DEF detach
  <2>11. ASSUME NEW p \in ControlPeers, stop(p) PROVE WithinLimits'
    <3>1. {controlConnections[p]} \in SUBSET ConnIds
      BY <2>0, <2>11 DEF TypeOK, stop
    <3> QED BY <2>5, <2>11, <3>1 DEF stop
  <2>12. ASSUME NEW c \in ConnIds, NEW key \in ConnIds, NEW addr \in Addrs,
                bind_udp_path(c, key, addr)
         PROVE  WithinLimits'
    BY <2>4, <2>12 DEF bind_udp_path
  <2>13. ASSUME NEW c \in ConnIds, NEW f \in FrameIds, NEW from \in SteamIds,
                NEW to \in SteamIds, NEW src \in Sources, NEW size \in Sizes,
                route_data(c, f, from, to, src, size)
         PROVE  WithinLimits'
    BY <2>4, <2>6, <2>13 DEF route_data, stateVars
  <2>14. ASSUME NEW c \in ConnIds, NEW from \in SteamIds, NEW src \in Sources,
                NEW size \in Sizes, route_probe(c, from, src, size)
         PROVE  WithinLimits'
    BY <2>4, <2>14 DEF route_probe
  <2>15. CASE cleanup
    <3>1. Expired \in SUBSET ConnIds /\ RemoveFrom(Expired) /\ rooms' \subseteq rooms
      BY <2>15 DEF cleanup, Expired
    <3> QED BY <2>5, <3>1
  <2>16. CASE tick
    BY <2>6, <2>16 DEF tick, stateVars
  <2> QED BY <2>3, <2>7, <2>8, <2>9, <2>10, <2>11, <2>12, <2>13, <2>14, <2>15, <2>16
          DEF Next
<1> QED BY <1>1, <1>2, InitInv, NextInv, PTL DEF Spec

(* All of it together: the rooms are consistent for every number of rooms, *)
(* players and connections and for all limits and grace periods.           *)
THEOREM RoomsStayConsistent == Spec => []RoomsConsistent
BY IndexesAgree, IdentitiesAreUnique, DeadlinesHold, LimitsHold, PTL DEF RoomsConsistent

--------------------------------------------------------------------------------
(* The grace period.                                                       *)

(* Until its deadline a Reconnecting seat is taken away only by a Stop on  *)
(* a control connection bound to it, or by its own player joining again:   *)
(* neither the sweeper, nor a full room, nor anybody else's frames can.    *)
THEOREM GraceIsHonoured == Spec => GraceHonoured
<1> DEFINE Kept ==
      \A s \in Sessions : \A c \in Members(s) :
          (/\ peers[s][c].presence = "Reconnecting"
           /\ now < peers[s][c].until
           /\ peers'[s][c] = None)
          => \/ \E p \in ControlPeers :
                   controlConnections[p] = c /\ controlConnections'[p] = None
             \/ \E d \in ConnIds \ {c} :
                   /\ peers[s][d] = None
                   /\ peers'[s][d] # None
                   /\ peers'[s][d].steam = peers[s][c].steam
<1>1. Inv /\ [Next]_vars => [Kept]_vars
  <2> SUFFICES ASSUME Inv, Next PROVE Kept
    BY DEF vars
  <2>0. TypeOK /\ Tables /\ IndexAgreement
    BY DEF Inv, Tables
  <2>1. ASSUME \A s \in Sessions : Members(s) \subseteq Members(s)' PROVE Kept
    BY <2>1 DEF Members
  <2>2. ASSUME peers' = peers PROVE Kept
    BY <2>1, <2>2 DEF Members
  <2>3. ASSUME Inv', UNCHANGED connectionRooms PROVE Kept
    <3>1. \A s \in Sessions : Members(s) \subseteq Members(s)'
      BY <2>0, <2>3 DEF Inv, Tables, IndexAgreement, Members
    <3> QED BY <2>1, <3>1
  <2>4. Inv'
    BY NextInv
  <2>5. ASSUME NEW p \in ControlPeers, NEW valid \in BOOLEAN, complete_join(p, valid)
        PROVE  Kept
    <3>0. PICK r \in Sessions : r = pending[p].session
      BY <2>0, <2>5, CompleteJoinCases
    <3> DEFINE id == pending[p].steam
               gone == Duplicates(r, id)
    <3>1. pending[p] # None /\ now' = now
      BY <2>0, <2>5, CompleteJoinCases
    <3>2. CASE UNCHANGED peers
      BY <2>2, <3>2
    <3>3. ASSUME NEW d \in ConnIds, connectionRooms[d] = None, Admit(p, d, gone)
          PROVE  Kept
      <4>1. /\ peers[r][d] = None
            /\ peers'[r][d] # None /\ peers'[r][d].steam = id
            /\ \A s \in Sessions : Members(s)' =
                  IF s = r THEN (Members(s) \ gone) \cup {d} ELSE Members(s)
        BY <2>0, <3>0, <3>1, <3>3, Admission
      <4> SUFFICES ASSUME NEW s \in Sessions, NEW c \in Members(s), peers'[s][c] = None
                   PROVE  \E e \in ConnIds \ {c} :
                             /\ peers[s][e] = None
                             /\ peers'[s][e] # None
                             /\ peers'[s][e].steam = peers[s][c].steam
        OBVIOUS
      <4>2. c \in ConnIds /\ c \notin Members(s)'
        BY DEF Members
      <4>3. s = r /\ c \in gone
        BY <4>1, <4>2
      <4>4. peers[r][c].steam = id /\ c # d
        BY <4>1, <4>3 DEF Duplicates, Members
      <4> QED BY <4>1, <4>3, <4>4
    <3> QED BY <2>0, <2>5, <3>0, <3>2, <3>3, CompleteJoinCases
  <2>6. ASSUME NEW p \in ControlPeers, stop(p) PROVE Kept
    <3> SUFFICES ASSUME NEW s \in Sessions, NEW c \in Members(s), peers'[s][c] = None
                 PROVE  \E q \in ControlPeers :
                           controlConnections[q] = c /\ controlConnections'[q] = None
      OBVIOUS
    <3>1. c = controlConnections[p]
      BY <2>6 DEF stop, RemoveFrom, Members
    <3>2. controlConnections'[p] = None
      BY <2>6 DEF stop
    <3> QED BY <3>1, <3>2
  <2>7. ASSUME cleanup PROVE Kept
    <3> SUFFICES ASSUME NEW s \in Sessions, NEW c \in Members(s),
                        now < peers[s][c].until, peers'[s][c] = None
                 PROVE  FALSE
      OBVIOUS
    <3>1. c \in Expired /\ connectionRooms[c] = s
      BY <2>7 DEF cleanup, RemoveFrom, Members
    <3>2. PeerOf(c) = peers[s][c] /\ peers[s][c].until # None /\ now >= peers[s][c].until
      BY <3>1 DEF Expired, PeerOf
    <3>3. peers[s][c].until \in Nat /\ now \in Nat
      <4>1. peers[s][c] \in Peers
        BY <2>0 DEF TypeOK, Members
      <4> QED BY <2>0, <3>2, <4>1, RelayAssumption DEF TypeOK, Times, Peers
    <3> QED BY <3>2, <3>3
  <2>8. ASSUME NEW p \in ControlPeers, NEW s \in Sessions, NEW id \in SteamIds,
               NEW profile \in Profiles, NEW probe \in ProbeCaps,
               begin_join(p, s, id, profile, probe)
        PROVE  Kept
    <3>1. peers' = peers
      BY <2>8 DEF begin_join
    <3> QED BY <2>2, <3>1
  <2>9. ASSUME NEW p \in ControlPeers, NEW c \in ConnIds, NEW key \in ConnIds,
               resume(p, c, key)
        PROVE  Kept
    <3>1. UNCHANGED connectionRooms
      BY <2>9 DEF resume
    <3> QED BY <2>3, <2>4, <3>1
  <2>10. ASSUME NEW c \in ConnIds, NEW f \in FrameIds, NEW from \in SteamIds,
                NEW to \in SteamIds, NEW src \in Sources, NEW size \in Sizes,
                route_data(c, f, from, to, src, size)
         PROVE  Kept
    <3>1. UNCHANGED connectionRooms
      BY <2>10 DEF route_data, stateVars
    <3> QED BY <2>3, <2>4, <3>1
  <2>11. ASSUME NEW c \in ConnIds, NEW from \in SteamIds, NEW src \in Sources,
                NEW size \in Sizes, route_probe(c, from, src, size)
         PROVE  Kept
    <3>1. UNCHANGED connectionRooms
      BY <2>11 DEF route_probe
    <3> QED BY <2>3, <2>4, <3>1
  <2>12. ASSUME NEW p \in ControlPeers, detach(p) PROVE Kept
    <3>1. UNCHANGED connectionRooms
      BY <2>12 DEF detach
    <3> QED BY <2>3, <2>4, <3>1
  <2>13. ASSUME NEW c \in ConnIds, NEW key \in ConnIds, NEW addr \in Addrs,
                bind_udp_path(c, key, addr)
         PROVE  Kept
    <3>1. UNCHANGED connectionRooms
      BY <2>13 DEF bind_udp_path
    <3> QED BY <2>3, <2>4, <3>1
  <2>14. ASSUME tick PROVE Kept
    <3>1. peers' = peers
      BY <2>14 DEF tick, stateVars
    <3> QED BY <2>2, <3>1
  <2> HIDE DEF Kept
  <2> QED BY <2>5, <2>6, <2>7, <2>8, <2>9, <2>10, <2>11, <2>12, <2>13, <2>14 DEF Next
<1>2. Spec => []Inv
  BY InitInv, NextInv, PTL DEF Spec
<1> QED BY <1>1, <1>2, PTL DEF Spec, GraceHonoured

================================================================================

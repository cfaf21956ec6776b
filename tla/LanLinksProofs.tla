---------------------------- MODULE LanLinksProofs ----------------------------
(***************************************************************************)
(* Membership and links (LanLinks), for any nodes, any accounts and reach  *)
(* of theirs, any number of links and faults.                              *)
(*                                                                         *)
(* First, the path manager follows the membership.  Newest carries the     *)
(* proof: the preferred link to a peer is the one registered last, and the *)
(* path manager has heard of nothing later.                                *)
(*                                                                         *)
(* Then, dials converge.  Agreed carries the proof: the lowest connection  *)
(* between two nodes, as long as only their own dials come in its way, is  *)
(* accepted at both ends and never given up.                               *)
(***************************************************************************)
EXTENDS LanLinks, FiniteSetTheorems, WellFoundedInduction, TLAPS

TypeOK ==
    /\ up \in [Nodes -> {"off", "up", "stopping", "down"}]
    /\ tcp \in [Links -> [from : Nodes, to : Nodes] \cup {Absent}]
    /\ end \in [Nodes -> [Links -> Stages]]
    /\ epoch \in [Nodes -> [Links -> Nat]]
    /\ nextEpoch \in [Nodes -> Nat \ {0}]
    /\ active \in [Nodes -> [Nodes -> Links \cup {Absent}]]
    /\ path \in [Nodes -> [Nodes -> Nat]] /\ latest \in [Nodes -> [Nodes -> Nat]]

(* A task holds an end of a connection that was opened, and has an epoch   *)
(* of its own from its registration on.                                    *)
Wired ==
    /\ \A l \in Links : tcp[l] # Absent => tcp[l].from # tcp[l].to
    /\ \A n \in Nodes, l \in Links :
          /\ end[n][l] # "none" => tcp[l] # Absent /\ n \in {tcp[l].from, tcp[l].to}
          /\ end[n][l] = "asking" => tcp[l].from = n
          /\ end[n][l] \in {"none", "asking"} => epoch[n][l] = 0
          /\ end[n][l] \in {"registered", "running", "left", "lost"} => epoch[n][l] # 0
          /\ epoch[n][l] < nextEpoch[n]
    /\ \A n \in Nodes : \A k, l \in Links : epoch[n][k] = epoch[n][l] /\ epoch[n][k] # 0 => k = l
    /\ \A n, m \in Nodes : latest[n][m] < nextEpoch[n]

Leaving(n, l) == end[n][l] \in {"left", "lost"}

(* With a preferred link: it is the last one registered, and the path      *)
(* manager knows it unless its task has yet to say so.                     *)
Preferred(n, m, a) ==
    /\ Between(a, n, m) /\ end[n][a] \in {"registered", "running", "closed"} /\ epoch[n][a] # 0
    /\ \A l \in Links : Between(l, n, m) => epoch[n][l] <= epoch[n][a]
    /\ end[n][a] = "registered" => latest[n][m] < epoch[n][a]
    /\ end[n][a] # "registered" => latest[n][m] = epoch[n][a] /\ path[n][m] = epoch[n][a]

(* Without one: what the path manager has heard is the latest there was,   *)
(* and a path is left only until the task of its link has said so.         *)
Unlinked(n, m) ==
    /\ \A l \in Links : Between(l, n, m) => epoch[n][l] <= latest[n][m]
    /\ path[n][m] # 0 =>
          /\ path[n][m] = latest[n][m]
          /\ \E l \in Links : Between(l, n, m) /\ Leaving(n, l) /\ epoch[n][l] = path[n][m]

NewestFor(n, m) ==
    up[n] # "down" =>
        /\ active[n][m] = Absent => Unlinked(n, m)
        /\ active[n][m] # Absent => Preferred(n, m, active[n][m])

Newest == \A n, m \in Nodes : NewestFor(n, m)

LinksInv == TypeOK /\ Wired /\ Newest

(* One entry of a table of tables is replaced.                             *)
LEMMA PutIs ==
    ASSUME NEW A, NEW B, NEW S, NEW f \in [A -> [B -> S]], NEW a \in A, NEW b \in B, NEW v \in S
    PROVE  /\ Put(f, a, b, v) \in [A -> [B -> S]]
           /\ \A x \in A, y \in B :
                 Put(f, a, b, v)[x][y] = IF x = a /\ y = b THEN v ELSE f[x][y]
<1>1. [f[a] EXCEPT ![b] = v] \in [B -> S]
  OBVIOUS
<1>2. Put(f, a, b, v) = [f EXCEPT ![a] = [f[a] EXCEPT ![b] = v]]
  BY DEF Put
<1> QED BY <1>1, <1>2

LEMMA Puts ==
    ASSUME TypeOK
    PROVE  /\ \A n \in Nodes, l \in Links, s \in Stages : \A x \in Nodes, k \in Links :
                 Put(end, n, l, s)[x][k] = IF x = n /\ k = l THEN s ELSE end[x][k]
           /\ \A n \in Nodes, l \in Links, e \in Nat : \A x \in Nodes, k \in Links :
                 Put(epoch, n, l, e)[x][k] = IF x = n /\ k = l THEN e ELSE epoch[x][k]
           /\ \A n, m \in Nodes, e \in Nat : \A x, y \in Nodes :
                 Put(latest, n, m, e)[x][y] = IF x = n /\ y = m THEN e ELSE latest[x][y]
           /\ \A n, m \in Nodes, e \in Nat : \A x, y \in Nodes :
                 Put(path, n, m, e)[x][y] = IF x = n /\ y = m THEN e ELSE path[x][y]
           /\ \A n, m \in Nodes, a \in Links \cup {Absent} : \A x, y \in Nodes :
                 Put(active, n, m, a)[x][y] = IF x = n /\ y = m THEN a ELSE active[x][y]
<1>1. end \in [Nodes -> [Links -> Stages]] /\ epoch \in [Nodes -> [Links -> Nat]]
  BY DEF TypeOK
<1>2. /\ latest \in [Nodes -> [Nodes -> Nat]] /\ path \in [Nodes -> [Nodes -> Nat]]
      /\ active \in [Nodes -> [Nodes -> Links \cup {Absent}]]
  BY DEF TypeOK
<1>3. \A n \in Nodes, l \in Links, s \in Stages : \A x \in Nodes, k \in Links :
         Put(end, n, l, s)[x][k] = IF x = n /\ k = l THEN s ELSE end[x][k]
  BY <1>1 DEF Put
<1>4. \A n \in Nodes, l \in Links, e \in Nat : \A x \in Nodes, k \in Links :
         Put(epoch, n, l, e)[x][k] = IF x = n /\ k = l THEN e ELSE epoch[x][k]
  BY <1>1 DEF Put
<1>5. /\ \A n, m \in Nodes, e \in Nat : \A x, y \in Nodes :
            Put(latest, n, m, e)[x][y] = IF x = n /\ y = m THEN e ELSE latest[x][y]
      /\ \A n, m \in Nodes, e \in Nat : \A x, y \in Nodes :
            Put(path, n, m, e)[x][y] = IF x = n /\ y = m THEN e ELSE path[x][y]
  BY <1>2 DEF Put
<1>6. \A n, m \in Nodes, a \in Links \cup {Absent} : \A x, y \in Nodes :
         Put(active, n, m, a)[x][y] = IF x = n /\ y = m THEN a ELSE active[x][y]
  BY <1>2 DEF Put
<1> QED BY <1>3, <1>4, <1>5, <1>6

(* A task that holds an end of a connection has a node at the other end.   *)
LEMMA PeerIs ==
    ASSUME TypeOK, Wired, NEW n \in Nodes, NEW l \in Links, end[n][l] # "none"
    PROVE  Peer(n, l) \in Nodes /\ Peer(n, l) # n /\ Between(l, n, Peer(n, l))
           /\ tcp[l].from \in Nodes /\ tcp[l].to \in Nodes
           /\ (tcp[l].from = n => Peer(n, l) = tcp[l].to)
           /\ (tcp[l].to = n => Peer(n, l) = tcp[l].from)
<1>1. /\ tcp[l] # Absent /\ tcp[l].from # tcp[l].to /\ n \in {tcp[l].from, tcp[l].to}
  BY DEF Wired
<1>2. tcp[l] \in [from : Nodes, to : Nodes]
  BY <1>1 DEF TypeOK
<1>3. tcp[l].from \in Nodes /\ tcp[l].to \in Nodes
  BY <1>2
<1> QED BY <1>1, <1>3 DEF Peer, Between

LEMMA TypeStep ==
    ASSUME LinksInv, LinksNext
    PROVE  TypeOK'
<1>1. TypeOK /\ Wired
  BY DEF LinksInv
<1>2. /\ \A n \in Nodes, l \in Links, s \in Stages : Put(end, n, l, s) \in [Nodes -> [Links -> Stages]]
      /\ \A n \in Nodes, l \in Links, e \in Nat : Put(epoch, n, l, e) \in [Nodes -> [Links -> Nat]]
      /\ \A n, m \in Nodes, e \in Nat : Put(path, n, m, e) \in [Nodes -> [Nodes -> Nat]]
      /\ \A n, m \in Nodes, e \in Nat : Put(latest, n, m, e) \in [Nodes -> [Nodes -> Nat]]
      /\ \A n, m \in Nodes, v \in Links \cup {Absent} :
            Put(active, n, m, v) \in [Nodes -> [Nodes -> Links \cup {Absent}]]
  BY <1>1, PutIs DEF TypeOK
<1>3. /\ \A n \in Nodes, l \in Links : epoch[n][l] \in Nat
      /\ \A n \in Nodes : nextEpoch[n] \in Nat /\ nextEpoch[n] # 0
  BY <1>1 DEF TypeOK
<1>4. \A n, m \in Nodes, l \in Links :
         peer_connected(n, m, l) \/ peer_disconnected(n, m, l)
            => path' \in [Nodes -> [Nodes -> Nat]] /\ latest' \in [Nodes -> [Nodes -> Nat]]
  <2> TAKE n, m \in Nodes, l \in Links
  <2>1. /\ path \in [Nodes -> [Nodes -> Nat]] /\ latest \in [Nodes -> [Nodes -> Nat]]
        /\ Put(path, n, m, 0) \in [Nodes -> [Nodes -> Nat]]
        /\ Put(path, n, m, epoch[n][l]) \in [Nodes -> [Nodes -> Nat]]
        /\ Put(latest, n, m, epoch[n][l]) \in [Nodes -> [Nodes -> Nat]]
    <3>1. epoch[n][l] \in Nat /\ 0 \in Nat
      BY <1>3
    <3>2. path \in [Nodes -> [Nodes -> Nat]] /\ latest \in [Nodes -> [Nodes -> Nat]]
      BY <1>1 DEF TypeOK
    <3> QED BY <1>2, <3>1, <3>2
  <2> QED BY <2>1 DEF peer_connected, peer_disconnected, paths
<1>5. ASSUME NEW n \in Nodes, NEW m \in Nodes, NEW l \in Links, NEW h, register(n, m, l, h)
      PROVE  /\ active' \in [Nodes -> [Nodes -> Links \cup {Absent}]]
             /\ epoch' \in [Nodes -> [Links -> Nat]]
             /\ nextEpoch' \in [Nodes -> Nat \ {0}]
  <2>1. /\ active' = Put(active, n, m, l) /\ epoch' = Put(epoch, n, l, nextEpoch[n])
        /\ nextEpoch' = [nextEpoch EXCEPT ![n] = nextEpoch[n] + 1]
    BY <1>5 DEF register
  <2>2. nextEpoch' \in [Nodes -> Nat \ {0}]
    BY <1>1, <1>3, <2>1 DEF TypeOK
  <2>3. l \in Links \cup {Absent} /\ nextEpoch[n] \in Nat
    BY <1>3
  <2> QED BY <1>2, <2>1, <2>2, <2>3
<1>6. ASSUME NEW n \in Nodes, Start(n) \/ Stop(n) \/ Crash(n)
      PROVE  TypeOK'
  <2>1. CASE Start(n) \/ Stop(n)
    BY <1>1, <2>1 DEF Start, Stop, TypeOK, membership, wires, paths
  <2>2. CASE Crash(n)
    <3>1. [l \in Links |-> IF end[n][l] = "none" THEN "none" ELSE "closed"] \in [Links -> Stages]
      BY DEF Stages
    <3>2. /\ end' = [end EXCEPT ![n] = [l \in Links |-> IF end[n][l] = "none" THEN "none"
                                                          ELSE "closed"]]
          /\ up' = [up EXCEPT ![n] = "down"]
          /\ active' = [active EXCEPT ![n] = [m \in Nodes |-> Absent]]
          /\ path' = [path EXCEPT ![n] = [m \in Nodes |-> 0]]
          /\ UNCHANGED <<nextEpoch, tcp, epoch, latest>>
      BY <2>2 DEF Crash
    <3>3. [m \in Nodes |-> Absent] \in [Nodes -> Links \cup {Absent}]
          /\ [m \in Nodes |-> 0] \in [Nodes -> Nat]
      OBVIOUS
    <3> QED BY <1>1, <3>1, <3>2, <3>3 DEF TypeOK
  <2> QED BY <1>6, <2>1, <2>2
<1>7. ASSUME NEW n \in Nodes, NEW m \in Nodes, Dial(n, m)
      PROVE  TypeOK'
  <2>1. /\ tcp' \in [Links -> [from : Nodes, to : Nodes] \cup {Absent}]
        /\ end' \in [Nodes -> [Links -> Stages]]
    <3>1. CASE UNCHANGED <<tcp, end>>
      BY <1>1, <3>1 DEF TypeOK
    <3>2. ASSUME NEW l \in Links, tcp' = [tcp EXCEPT ![l] = [from |-> n, to |-> m]],
                 end' = Put(end, n, l, "asking")
          PROVE  /\ tcp' \in [Links -> [from : Nodes, to : Nodes] \cup {Absent}]
                 /\ end' \in [Nodes -> [Links -> Stages]]
      <4>1. [from |-> n, to |-> m] \in [from : Nodes, to : Nodes] /\ "asking" \in Stages
        BY DEF Stages
      <4>2. end' \in [Nodes -> [Links -> Stages]]
        BY <1>2, <3>2, <4>1
      <4> QED BY <1>1, <3>2, <4>1, <4>2 DEF TypeOK
    <3> QED BY <1>7, <3>1, <3>2 DEF Dial, Become
  <2> QED BY <1>1, <1>7, <2>1 DEF Dial, TypeOK, paths
<1>8. ASSUME NEW n \in Nodes, NEW x \in SUBSET deadlines[n], Maintain(n, x)
      PROVE  TypeOK'
  BY <1>1, <1>8 DEF Maintain, TypeOK, paths
<1>9. ASSUME NEW l \in Links, Reset(l)
      PROVE  TypeOK'
  BY <1>1, <1>9 DEF Reset, TypeOK, paths, membership
<1>10. ASSUME NEW n \in Nodes, NEW l \in Links
       PROVE  \A s \in Stages : Become(n, l, s) => end' \in [Nodes -> [Links -> Stages]]
  BY <1>2 DEF Become
<1>11. ASSUME NEW n \in Nodes, NEW l \in Links, Accept(n, l) \/ Admitted(n, l)
       PROVE  TypeOK'
  <2> DEFINE m == Peer(n, l)
  <2>1. tcp[l].from \in Nodes /\ tcp[l].to \in Nodes
    <3>1. tcp[l] # Absent
      BY <1>1, <1>11 DEF Accept, Admitted, Wired
    <3>2. tcp[l] \in [from : Nodes, to : Nodes]
      BY <1>1, <3>1 DEF TypeOK
    <3> QED BY <3>2
  <2>2. end' \in [Nodes -> [Links -> Stages]]
    BY <1>10, <1>11 DEF Accept, Admitted, Stages
  <2>3. UNCHANGED <<up, tcp, path, latest>>
    BY <1>11 DEF Accept, Admitted, paths
  <2>4. \/ UNCHANGED <<active, nextEpoch, epoch>>
        \/ \E p \in Nodes, h \in {hints[n], Merged(n, answer[l].peers)} : register(n, p, l, h)
    BY <1>11, <2>1 DEF Accept, Admitted, membership
  <2>5. /\ active' \in [Nodes -> [Nodes -> Links \cup {Absent}]]
        /\ epoch' \in [Nodes -> [Links -> Nat]]
        /\ nextEpoch' \in [Nodes -> Nat \ {0}]
    BY <1>1, <1>5, <2>4 DEF TypeOK
  <2> QED BY <1>1, <2>2, <2>3, <2>5 DEF TypeOK
<1>12. ASSUME NEW n \in Nodes, NEW l \in Links, Welcome(n, l) \/ Linked(n, l)
       PROVE  TypeOK'
  <2>1. end[n][l] # "none" /\ UNCHANGED <<up, tcp, active, nextEpoch, epoch>>
    BY <1>12 DEF Welcome, Linked, membership
  <2>2. end' \in [Nodes -> [Links -> Stages]]
    BY <1>10, <1>12 DEF Welcome, Linked, Stages
  <2>3. path' \in [Nodes -> [Nodes -> Nat]] /\ latest' \in [Nodes -> [Nodes -> Nat]]
    BY <1>1, <1>4, <1>12, <2>1, PeerIs DEF Welcome, Linked
  <2> QED BY <1>1, <2>1, <2>2, <2>3 DEF TypeOK
<1>13. ASSUME NEW n \in Nodes, NEW l \in Links,
              DialRefused(n, l) \/ TimedOut(n, l) \/ HearSnapshot(n, l)
       PROVE  TypeOK'
  <2>1. end' = end \/ Become(n, l, "closed")
    BY <1>13 DEF DialRefused, TimedOut, HearSnapshot
  <2>2. end' \in [Nodes -> [Links -> Stages]]
    BY <1>1, <1>10, <2>1 DEF TypeOK, Stages
  <2>3. UNCHANGED <<up, active, nextEpoch, tcp, epoch, path, latest>>
    BY <1>13 DEF DialRefused, TimedOut, HearSnapshot, paths
  <2> QED BY <1>1, <2>2, <2>3 DEF TypeOK
<1>14. ASSUME NEW n \in Nodes, NEW l \in Links,
              HearLeave(n, l) \/ SayLeave(n, l) \/ Cancelled(n, l) \/ Ended(n, l)
       PROVE  TypeOK'
  <2>1. end[n][l] # "none" /\ \E graceful \in BOOLEAN : Leaves(n, l, graceful)
    BY <1>14 DEF HearLeave, SayLeave, Cancelled, Ended
  <2>2. Peer(n, l) \in Nodes
    BY <1>1, <2>1, PeerIs
  <2>3. /\ UNCHANGED <<up, tcp, path, latest, nextEpoch>>
        /\ (active' = active \/ active' = Put(active, n, Peer(n, l), Absent))
        /\ (epoch' = epoch \/ epoch' = Put(epoch, n, l, 0))
        /\ \E s \in Stages : Become(n, l, s)
    BY <2>1 DEF Leaves, remove_link, paths, membership, Stages
  <2>4. end' \in [Nodes -> [Links -> Stages]]
    BY <1>10, <2>3
  <2>5. active' \in [Nodes -> [Nodes -> Links \cup {Absent}]]
    <3>1. active \in [Nodes -> [Nodes -> Links \cup {Absent}]]
      BY <1>1 DEF TypeOK
    <3>2. Put(active, n, Peer(n, l), Absent) \in [Nodes -> [Nodes -> Links \cup {Absent}]]
      BY <1>2, <2>2
    <3> QED BY <2>3, <3>1, <3>2
  <2>6. epoch' \in [Nodes -> [Links -> Nat]]
    <3>1. epoch \in [Nodes -> [Links -> Nat]]
      BY <1>1 DEF TypeOK
    <3>2. Put(epoch, n, l, 0) \in [Nodes -> [Links -> Nat]]
      BY <1>2
    <3> QED BY <2>3, <3>1, <3>2
  <2> QED BY <1>1, <2>3, <2>4, <2>5, <2>6 DEF TypeOK
<1>15. ASSUME NEW n \in Nodes, NEW l \in Links, Gone(n, l)
       PROVE  TypeOK'
  <2>1. end[n][l] # "none" /\ UNCHANGED <<up, tcp, active, nextEpoch>>
        /\ epoch' = Put(epoch, n, l, 0)
    BY <1>15 DEF Gone, membership
  <2>2. end' \in [Nodes -> [Links -> Stages]] /\ epoch' \in [Nodes -> [Links -> Nat]]
    BY <1>2, <1>10, <1>15, <2>1 DEF Gone, Stages
  <2>3. path' \in [Nodes -> [Nodes -> Nat]] /\ latest' \in [Nodes -> [Nodes -> Nat]]
    BY <1>1, <1>4, <1>15, <2>1, PeerIs DEF Gone
  <2> QED BY <1>1, <2>1, <2>2, <2>3 DEF TypeOK
<1> QED BY <1>6, <1>7, <1>8, <1>9, <1>11, <1>12, <1>13, <1>14, <1>15 DEF LinksNext

(* Connections, epochs and tasks go together.                              *)
LEMMA WiredStep ==
    ASSUME LinksInv, LinksNext
    PROVE  Wired'
<1>1. TypeOK /\ Wired /\ TypeOK'
  BY TypeStep DEF LinksInv
<1>2. /\ end \in [Nodes -> [Links -> Stages]] /\ epoch \in [Nodes -> [Links -> Nat]]
      /\ latest \in [Nodes -> [Nodes -> Nat]] /\ nextEpoch \in [Nodes -> Nat \ {0}]
      /\ \A n \in Nodes, l \in Links : epoch[n][l] \in Nat
      /\ \A n, m \in Nodes : latest[n][m] \in Nat
      /\ \A n \in Nodes : nextEpoch[n] \in Nat /\ nextEpoch[n] # 0
  BY <1>1 DEF TypeOK
(* An end moves on from one task to the next and keeps or loses its epoch. *)
<1>3. ASSUME NEW n \in Nodes, NEW l \in Links, NEW s \in Stages \ {"none", "asking"},
             end[n][l] # "none", end' = Put(end, n, l, s),
             s \in {"registered", "running", "left", "lost"} => epoch[n][l] # 0,
             epoch' = epoch \/ (epoch' = Put(epoch, n, l, 0) /\ s = "closed"),
             UNCHANGED <<tcp, nextEpoch>>,
             \A x, y \in Nodes : (latest')[x][y] < nextEpoch[x]
      PROVE  Wired'
  <2>1. \A x \in Nodes, k \in Links : (end')[x][k] = IF x = n /\ k = l THEN s ELSE end[x][k]
    BY <1>1, <1>3, Puts
  <2>2. CASE epoch' = epoch
    <3>1. \A x \in Nodes, k \in Links :
             /\ (end')[x][k] # "none" => tcp[k] # Absent /\ x \in {tcp[k].from, tcp[k].to}
             /\ (end')[x][k] = "asking" => tcp[k].from = x
             /\ (end')[x][k] \in {"none", "asking"} => epoch[x][k] = 0
             /\ (end')[x][k] \in {"registered", "running", "left", "lost"} => epoch[x][k] # 0
             /\ epoch[x][k] < nextEpoch[x]
      BY <1>1, <1>3, <2>1 DEF Wired
    <3> QED BY <1>1, <1>3, <2>2, <3>1 DEF Wired
  <2>3. CASE epoch' = Put(epoch, n, l, 0) /\ s = "closed"
    <3>1. \A x \in Nodes, k \in Links :
             (epoch')[x][k] = IF x = n /\ k = l THEN 0 ELSE epoch[x][k]
      <4>1. 0 \in Nat
        OBVIOUS
      <4> QED BY <1>1, <2>3, <4>1, Puts
    <3>2. \A x \in Nodes, k \in Links :
             /\ (end')[x][k] # "none" => tcp[k] # Absent /\ x \in {tcp[k].from, tcp[k].to}
             /\ (end')[x][k] = "asking" => tcp[k].from = x
             /\ (end')[x][k] \in {"none", "asking"} => (epoch')[x][k] = 0
             /\ (end')[x][k] \in {"registered", "running", "left", "lost"} => (epoch')[x][k] # 0
             /\ (epoch')[x][k] < nextEpoch[x]
      <4>1. \A x \in Nodes : 0 < nextEpoch[x]
        BY <1>2
      <4> QED BY <1>1, <1>3, <2>1, <2>3, <3>1, <4>1 DEF Wired
    <3>3. \A x \in Nodes : \A k, j \in Links :
             (epoch')[x][k] = (epoch')[x][j] /\ (epoch')[x][k] # 0 => k = j
      BY <1>1, <3>1 DEF Wired
    <3> QED BY <1>1, <1>3, <3>2, <3>3 DEF Wired
  <2> QED BY <1>3, <2>2, <2>3
(* An end that asked or did not begin is registered.                       *)
<1>4. ASSUME NEW n \in Nodes, NEW m \in Nodes, NEW l \in Links, NEW h, register(n, m, l, h),
             tcp[l] # Absent, n \in {tcp[l].from, tcp[l].to}, end' = Put(end, n, l, "registered"),
             UNCHANGED <<tcp, latest>>
      PROVE  Wired'
  <2>1. "registered" \in Stages /\ nextEpoch[n] \in Nat
    BY <1>2 DEF Stages
  <2>2. /\ epoch' = Put(epoch, n, l, nextEpoch[n])
        /\ nextEpoch' = [nextEpoch EXCEPT ![n] = nextEpoch[n] + 1]
    BY <1>4 DEF register
  <2>3. /\ \A x \in Nodes, k \in Links :
              (end')[x][k] = IF x = n /\ k = l THEN "registered" ELSE end[x][k]
        /\ \A x \in Nodes, k \in Links :
              (epoch')[x][k] = IF x = n /\ k = l THEN nextEpoch[n] ELSE epoch[x][k]
    BY <1>1, <1>4, <2>1, <2>2, Puts
  <2>4. /\ \A x \in Nodes : x # n => (nextEpoch')[x] = nextEpoch[x]
        /\ (nextEpoch')[n] = nextEpoch[n] + 1
    BY <1>2, <2>2
  <2>5. \A x \in Nodes, k \in Links :
             /\ (end')[x][k] # "none" => tcp[k] # Absent /\ x \in {tcp[k].from, tcp[k].to}
             /\ (end')[x][k] = "asking" => tcp[k].from = x
             /\ (end')[x][k] \in {"none", "asking"} => (epoch')[x][k] = 0
             /\ (end')[x][k] \in {"registered", "running", "left", "lost"} => (epoch')[x][k] # 0
    BY <1>1, <1>2, <1>4, <2>3 DEF Wired
  <2>6. \A x \in Nodes, k \in Links : (epoch')[x][k] < (nextEpoch')[x]
    <3> TAKE x \in Nodes, k \in Links
    <3>1. epoch[x][k] < nextEpoch[x] /\ epoch[x][k] \in Nat /\ nextEpoch[x] \in Nat
      BY <1>1, <1>2 DEF Wired
    <3> QED BY <2>3, <2>4, <3>1
  <2>7. \A x, y \in Nodes : (latest')[x][y] < (nextEpoch')[x]
    <3> TAKE x, y \in Nodes
    <3>1. latest[x][y] < nextEpoch[x] /\ latest[x][y] \in Nat /\ nextEpoch[x] \in Nat
      BY <1>1, <1>2 DEF Wired
    <3> QED BY <1>4, <2>4, <3>1
  <2>8. \A x \in Nodes : \A k, j \in Links :
             (epoch')[x][k] = (epoch')[x][j] /\ (epoch')[x][k] # 0 => k = j
    <3>1. \A k \in Links : epoch[n][k] # nextEpoch[n]
      <4> TAKE k \in Links
      <4>1. epoch[n][k] < nextEpoch[n] /\ epoch[n][k] \in Nat /\ nextEpoch[n] \in Nat
        BY <1>1, <1>2 DEF Wired
      <4> QED BY <4>1
    <3> QED BY <1>1, <2>3, <3>1 DEF Wired
  <2>9. \A k \in Links : tcp[k] # Absent => tcp[k].from # tcp[k].to
    BY <1>1 DEF Wired
  <2> QED BY <1>4, <2>5, <2>6, <2>7, <2>8, <2>9 DEF Wired
<1>5. \A n, m \in Nodes, l \in Links :
         peer_connected(n, m, l) \/ peer_disconnected(n, m, l)
            => \A x, y \in Nodes : (latest')[x][y] < nextEpoch[x]
  <2> TAKE n, m \in Nodes, l \in Links
  <2>1. epoch[n][l] < nextEpoch[n] /\ \A x, y \in Nodes : latest[x][y] < nextEpoch[x]
    BY <1>1 DEF Wired
  <2>2. epoch[n][l] \in Nat
    BY <1>2
  <2>3. ASSUME latest' = Put(latest, n, m, epoch[n][l])
        PROVE  \A x, y \in Nodes : (latest')[x][y] < nextEpoch[x]
    <3>1. \A x, y \in Nodes : (latest')[x][y] = IF x = n /\ y = m THEN epoch[n][l]
                                                ELSE latest[x][y]
      BY <1>1, <2>2, <2>3, Puts
    <3> QED BY <2>1, <3>1
  <2>4. peer_connected(n, m, l) \/ peer_disconnected(n, m, l)
           => latest' = latest \/ latest' = Put(latest, n, m, epoch[n][l])
    BY DEF peer_connected, peer_disconnected, paths
  <2> QED BY <2>1, <2>3, <2>4
<1>6. \A x, y \in Nodes : latest[x][y] < nextEpoch[x]
  BY <1>1 DEF Wired
<1>7. ASSUME NEW n \in Nodes, Start(n) \/ Stop(n)
      PROVE  Wired'
  BY <1>1, <1>7 DEF Start, Stop, Wired, membership, wires, paths
<1>8. ASSUME NEW n \in Nodes, Crash(n)
      PROVE  Wired'
  <2>1. UNCHANGED <<nextEpoch, tcp, epoch, latest>>
    BY <1>8 DEF Crash
  <2>2. \A x \in Nodes, k \in Links :
           (end')[x][k] = IF x = n /\ end[x][k] # "none" THEN "closed" ELSE end[x][k]
    BY <1>2, <1>8 DEF Crash
  <2>3. \A x \in Nodes, k \in Links :
             /\ (end')[x][k] # "none" => tcp[k] # Absent /\ x \in {tcp[k].from, tcp[k].to}
             /\ (end')[x][k] = "asking" => tcp[k].from = x
             /\ (end')[x][k] \in {"none", "asking"} => epoch[x][k] = 0
             /\ (end')[x][k] \in {"registered", "running", "left", "lost"} => epoch[x][k] # 0
             /\ epoch[x][k] < nextEpoch[x]
    BY <1>1, <2>2 DEF Wired
  <2> QED BY <1>1, <2>1, <2>3 DEF Wired
<1>9. ASSUME NEW n \in Nodes, NEW m \in Nodes, Dial(n, m)
      PROVE  Wired'
  <2>1. UNCHANGED <<nextEpoch, epoch, latest>>
    BY <1>9 DEF Dial, paths
  <2>2. CASE UNCHANGED <<tcp, end>>
    BY <1>1, <2>1, <2>2 DEF Wired
  <2>3. ASSUME NEW l \in Links, tcp[l] = Absent, tcp' = [tcp EXCEPT ![l] = [from |-> n, to |-> m]],
               end' = Put(end, n, l, "asking")
        PROVE  Wired'
    <3>1. "asking" \in Stages
      BY DEF Stages
    <3>2. \A x \in Nodes, k \in Links :
             (end')[x][k] = IF x = n /\ k = l THEN "asking" ELSE end[x][k]
      BY <1>1, <2>3, <3>1, Puts
    <3>3. n # m /\ [from |-> n, to |-> m] # Absent
      BY <1>9, LanAssumption DEF Dial
    <3>4. \A k \in Links : (tcp')[k] = IF k = l THEN [from |-> n, to |-> m] ELSE tcp[k]
      BY <1>1, <2>3 DEF TypeOK
    <3>5. \A x \in Nodes : end[x][l] = "none" /\ epoch[x][l] = 0
      BY <1>1, <2>3 DEF Wired
    <3>6. \A x \in Nodes, k \in Links :
             /\ (end')[x][k] # "none" => (tcp')[k] # Absent /\ x \in {(tcp')[k].from, (tcp')[k].to}
             /\ (end')[x][k] = "asking" => (tcp')[k].from = x
             /\ (end')[x][k] \in {"none", "asking"} => epoch[x][k] = 0
             /\ (end')[x][k] \in {"registered", "running", "left", "lost"} => epoch[x][k] # 0
             /\ epoch[x][k] < nextEpoch[x]
      <4> TAKE x \in Nodes, k \in Links
      <4>1. CASE k = l
        BY <1>1, <3>2, <3>3, <3>4, <3>5, <4>1 DEF Wired
      <4>2. CASE k # l
        BY <1>1, <3>2, <3>4, <4>2 DEF Wired
      <4> QED BY <4>1, <4>2
    <3>7. \A k \in Links : (tcp')[k] # Absent => (tcp')[k].from # (tcp')[k].to
      BY <1>1, <3>3, <3>4 DEF Wired
    <3> QED BY <1>1, <2>1, <3>6, <3>7 DEF Wired
  <2> QED BY <1>9, <2>2, <2>3 DEF Dial, Become
<1>10. ASSUME UNCHANGED <<tcp, end, epoch, nextEpoch, latest>>
       PROVE  Wired'
  BY <1>1, <1>10 DEF Wired
<1>11. ASSUME NEW n \in Nodes, NEW l \in Links, Accept(n, l)
       PROVE  Wired'
  <2>1. /\ tcp[l] # Absent /\ tcp[l].to = n /\ end[n][l] = "none" /\ tcp[l].from \in Nodes
        /\ UNCHANGED <<tcp, latest>>
    <3>1. tcp[l] # Absent
      BY <1>11 DEF Accept
    <3>2. tcp[l] \in [from : Nodes, to : Nodes]
      BY <1>1, <3>1 DEF TypeOK
    <3> QED BY <1>11, <3>2 DEF Accept, paths
  <2>2. CASE register(n, tcp[l].from, l, hints[n]) /\ Become(n, l, "registered")
    BY <1>4, <2>1, <2>2 DEF Become
  <2>3. CASE UNCHANGED <<nextEpoch, epoch>> /\ Become(n, l, "closed")
    <3>1. "closed" \in Stages
      BY DEF Stages
    <3>2. \A x \in Nodes, k \in Links :
             (end')[x][k] = IF x = n /\ k = l THEN "closed" ELSE end[x][k]
      BY <1>1, <2>3, <3>1, Puts DEF Become
    <3>3. \A x \in Nodes, k \in Links :
             /\ (end')[x][k] # "none" => tcp[k] # Absent /\ x \in {tcp[k].from, tcp[k].to}
             /\ (end')[x][k] = "asking" => tcp[k].from = x
             /\ (end')[x][k] \in {"none", "asking"} => epoch[x][k] = 0
             /\ (end')[x][k] \in {"registered", "running", "left", "lost"} => epoch[x][k] # 0
             /\ epoch[x][k] < nextEpoch[x]
      BY <1>1, <2>1, <3>2 DEF Wired
    <3> QED BY <1>1, <2>1, <2>3, <3>3 DEF Wired
  <2> QED BY <1>11, <2>2, <2>3 DEF Accept, membership
<1>12. ASSUME NEW n \in Nodes, NEW l \in Links, Admitted(n, l)
       PROVE  Wired'
  <2>1. /\ end[n][l] = "asking" /\ tcp[l] # Absent /\ tcp[l].from = n /\ tcp[l].to \in Nodes
        /\ UNCHANGED <<tcp, latest>>
    <3>1. end[n][l] = "asking" /\ UNCHANGED <<tcp, latest>>
      BY <1>12 DEF Admitted, paths
    <3> QED BY <1>1, <3>1, PeerIs DEF Wired
  <2>2. ASSUME NEW h, register(n, tcp[l].to, l, h), Become(n, l, "registered")
        PROVE  Wired'
    BY <1>4, <2>1, <2>2 DEF Become
  <2>3. CASE UNCHANGED <<nextEpoch, epoch>> /\ Become(n, l, "closed")
    <3>1. "closed" \in Stages \ {"none", "asking"} /\ end[n][l] # "none" /\ end' = Put(end, n, l, "closed")
      BY <2>1, <2>3 DEF Stages, Become
    <3> QED BY <1>3, <1>6, <2>1, <2>3, <3>1
  <2> QED BY <1>12, <2>2, <2>3 DEF Admitted
<1>13. ASSUME NEW n \in Nodes, NEW l \in Links, Welcome(n, l) \/ Linked(n, l)
       PROVE  Wired'
  <2>1. end[n][l] = "registered" /\ UNCHANGED <<tcp, nextEpoch, epoch>>
    BY <1>13 DEF Welcome, Linked, membership
  <2>2. epoch[n][l] # 0 /\ Peer(n, l) \in Nodes /\ tcp[l].from \in Nodes /\ tcp[l].to \in Nodes
    BY <1>1, <2>1, PeerIs DEF Wired
  <2>3. \A x, y \in Nodes : (latest')[x][y] < nextEpoch[x]
    BY <1>5, <1>13, <2>2 DEF Welcome, Linked
  <2>4. \E s \in {"running", "closed"} : end' = Put(end, n, l, s)
    BY <1>13 DEF Welcome, Linked, Become
  <2>5. \A s \in {"running", "closed"} : s \in Stages \ {"none", "asking"}
    BY DEF Stages
  <2> QED BY <1>3, <2>1, <2>2, <2>3, <2>4, <2>5
<1>14. ASSUME NEW n \in Nodes, NEW l \in Links, DialRefused(n, l) \/ TimedOut(n, l)
       PROVE  Wired'
  <2>1. end[n][l] = "asking" /\ UNCHANGED <<tcp, nextEpoch, epoch, latest>>
        /\ end' = Put(end, n, l, "closed")
    BY <1>14 DEF DialRefused, TimedOut, paths, Become
  <2>2. "closed" \in Stages \ {"none", "asking"} /\ end[n][l] # "none"
    BY <2>1 DEF Stages
  <2> QED BY <1>3, <1>6, <2>1, <2>2
<1>15. ASSUME NEW n \in Nodes, NEW l \in Links,
              HearLeave(n, l) \/ SayLeave(n, l) \/ Cancelled(n, l) \/ Ended(n, l)
       PROVE  Wired'
  <2>1. end[n][l] = "running" /\ \E graceful \in BOOLEAN : Leaves(n, l, graceful)
    BY <1>15 DEF HearLeave, SayLeave, Cancelled, Ended
  <2>2. /\ UNCHANGED <<tcp, latest, nextEpoch>>
        /\ \E s \in {"left", "lost", "closed"} :
              /\ end' = Put(end, n, l, s)
              /\ epoch' = epoch \/ (epoch' = Put(epoch, n, l, 0) /\ s = "closed")
    BY <2>1 DEF Leaves, remove_link, paths, membership, Become
  <2>3. epoch[n][l] # 0
    BY <1>1, <2>1 DEF Wired
  <2>4. \A s \in {"left", "lost", "closed"} : s \in Stages \ {"none", "asking"}
    BY DEF Stages
  <2> QED BY <1>3, <1>6, <2>1, <2>2, <2>3, <2>4
<1>16. ASSUME NEW n \in Nodes, NEW l \in Links, Gone(n, l)
       PROVE  Wired'
  <2>1. end[n][l] # "none" /\ UNCHANGED <<tcp, nextEpoch>>
        /\ epoch' = Put(epoch, n, l, 0) /\ end' = Put(end, n, l, "closed")
    BY <1>16 DEF Gone, membership, Become
  <2>2. Peer(n, l) \in Nodes
    BY <1>1, <2>1, PeerIs
  <2>3. \A x, y \in Nodes : (latest')[x][y] < nextEpoch[x]
    BY <1>5, <1>16, <2>2 DEF Gone
  <2>4. "closed" \in Stages \ {"none", "asking"}
    BY DEF Stages
  <2> QED BY <1>3, <2>1, <2>3, <2>4
<1>17. CASE \/ \E n \in Nodes : \E expired \in SUBSET deadlines[n] : Maintain(n, expired)
            \/ \E n \in Nodes, l \in Links : HearSnapshot(n, l)
            \/ \E l \in Links : Reset(l)
  BY <1>10, <1>17 DEF Maintain, HearSnapshot, Reset, paths, membership
<1> QED BY <1>7, <1>8, <1>9, <1>11, <1>12, <1>13, <1>14, <1>15, <1>16, <1>17 DEF LinksNext

(* A pair of nodes keeps what Newest says of it while neither its          *)
(* preferred link nor the link of its path is touched.                     *)
LEMMA Undisturbed ==
    ASSUME TypeOK, Wired, TypeOK', NEW n \in Nodes, NEW m \in Nodes, NewestFor(n, m),
           (up')[n] # "down" => up[n] # "down",
           up[n] # "down" =>
              /\ (active')[n][m] = active[n][m]
              /\ (path')[n][m] = path[n][m] /\ (latest')[n][m] = latest[n][m],
           \A l \in Links : Between(l, n, m) => Between(l, n, m)',
           \A l \in Links : Between(l, n, m)' /\ ~Between(l, n, m) => (epoch')[n][l] = 0,
           \A l \in Links : Between(l, n, m) /\ up[n] # "down" =>
              \/ (epoch')[n][l] = epoch[n][l] /\ (end')[n][l] = end[n][l]
              \/ (epoch')[n][l] <= epoch[n][l] /\ ~Leaving(n, l) /\ l # active[n][m]
    PROVE  NewestFor(n, m)'
<1> SUFFICES ASSUME (up')[n] # "down"
             PROVE  /\ (active')[n][m] = Absent => Unlinked(n, m)'
                    /\ (active')[n][m] # Absent => Preferred(n, m, active[n][m])'
  BY DEF NewestFor
<1>1. /\ up[n] # "down" /\ (active')[n][m] = active[n][m]
      /\ (path')[n][m] = path[n][m] /\ (latest')[n][m] = latest[n][m]
      /\ latest[n][m] \in Nat /\ active[n][m] \in Links \cup {Absent}
  BY DEF TypeOK
<1>2. \A l \in Links : epoch[n][l] \in Nat /\ (epoch')[n][l] \in Nat
  BY DEF TypeOK
<1>3. \A l \in Links : Between(l, n, m)' =>
           \/ (epoch')[n][l] = 0
           \/ Between(l, n, m) /\ (epoch')[n][l] <= epoch[n][l]
  BY <1>1, <1>2
<1>4. ASSUME active[n][m] = Absent
      PROVE  Unlinked(n, m)'
  <2>1. Unlinked(n, m)
    BY <1>1, <1>4 DEF NewestFor
  <2>2. \A l \in Links : Between(l, n, m)' => (epoch')[n][l] <= (latest')[n][m]
    BY <1>1, <1>2, <1>3, <2>1 DEF Unlinked
  <2>3. ASSUME (path')[n][m] # 0
        PROVE  /\ (path')[n][m] = (latest')[n][m]
               /\ \E l \in Links : /\ Between(l, n, m)' /\ Leaving(n, l)'
                                   /\ (epoch')[n][l] = (path')[n][m]
    <3>1. path[n][m] = latest[n][m]
      BY <1>1, <2>1, <2>3 DEF Unlinked
    <3>2. PICK l \in Links : Between(l, n, m) /\ Leaving(n, l) /\ epoch[n][l] = path[n][m]
      BY <1>1, <2>1, <2>3 DEF Unlinked
    <3>3. (epoch')[n][l] = epoch[n][l] /\ (end')[n][l] = end[n][l]
      BY <1>1, <3>2
    <3>4. Leaving(n, l)'
      BY <3>2, <3>3 DEF Leaving
    <3> QED BY <1>1, <3>1, <3>2, <3>3, <3>4
  <2> QED BY <2>2, <2>3 DEF Unlinked
<1>5. ASSUME active[n][m] # Absent
      PROVE  Preferred(n, m, active[n][m])'
  <2>0. PICK a \in Links : a = active[n][m]
    BY <1>1, <1>5
  <2>1. Preferred(n, m, a)
    BY <1>1, <1>5, <2>0 DEF NewestFor
  <2>2. (epoch')[n][a] = epoch[n][a] /\ (end')[n][a] = end[n][a] /\ Between(a, n, m)'
    BY <1>1, <2>0, <2>1 DEF Preferred
  <2>3. (active')[n][m] = a /\ \A l \in Links : Between(l, n, m)' => (epoch')[n][l] <= (epoch')[n][a]
    BY <1>1, <1>2, <1>3, <2>0, <2>1, <2>2 DEF Preferred
  <2>4. Preferred(n, m, a)'
    BY <1>1, <2>1, <2>2, <2>3 DEF Preferred
  <2>5. (active')[n][m] = a
    BY <2>3
  <2> QED BY <2>4, <2>5
<1> QED BY <1>1, <1>4, <1>5

(* register prefers the link that came last.                               *)
LEMMA Registered ==
    ASSUME TypeOK, Wired, Newest, TypeOK', NEW n \in Nodes, NEW m \in Nodes, NEW l \in Links, NEW h,
           Between(l, n, m), n # m, end[n][l] \in {"none", "asking"},
           register(n, m, l, h), end' = Put(end, n, l, "registered"),
           UNCHANGED <<up, tcp, path, latest>>
    PROVE  Newest'
<1>1. /\ "registered" \in Stages /\ nextEpoch[n] \in Nat /\ nextEpoch[n] # 0 /\ l \in Links \cup {Absent}
      /\ l # Absent
  BY LanAssumption DEF TypeOK, Stages
<1>2. /\ active' = Put(active, n, m, l) /\ epoch' = Put(epoch, n, l, nextEpoch[n])
  BY DEF register
<1>3. /\ \A x \in Nodes, k \in Links :
            (end')[x][k] = IF x = n /\ k = l THEN "registered" ELSE end[x][k]
      /\ \A x \in Nodes, k \in Links :
            (epoch')[x][k] = IF x = n /\ k = l THEN nextEpoch[n] ELSE epoch[x][k]
      /\ \A x, y \in Nodes :
            (active')[x][y] = IF x = n /\ y = m THEN l ELSE active[x][y]
  BY <1>1, <1>2, Puts
<1>4. \A k \in Links, x, y \in Nodes : Between(k, x, y)' <=> Between(k, x, y)
  BY DEF Between
<1>5. NewestFor(n, m)'
  <2>1. \A k \in Links : (epoch')[n][k] <= (epoch')[n][l]
    <3> TAKE k \in Links
    <3>1. epoch[n][k] < nextEpoch[n] /\ epoch[n][k] \in Nat
      BY DEF Wired, TypeOK
    <3> QED BY <1>1, <1>3, <3>1
  <2>2. (latest')[n][m] < (epoch')[n][l]
    BY <1>1, <1>3 DEF Wired
  <2>3. Preferred(n, m, l)'
    BY <1>1, <1>3, <1>4, <2>1, <2>2 DEF Preferred
  <2> QED BY <1>1, <1>3, <2>3 DEF NewestFor
<1>6. ASSUME NEW x \in Nodes, NEW y \in Nodes, ~(x = n /\ y = m)
      PROVE  NewestFor(x, y)'
  <2>1. \A k \in Links : Between(k, x, y) =>
              (epoch')[x][k] = epoch[x][k] /\ (end')[x][k] = end[x][k]
    <3> TAKE k \in Links
    <3>1. Between(l, x, y) => ~(x = n)
      BY <1>6 DEF Between
    <3> QED BY <1>3, <3>1
  <2>2. NewestFor(x, y)
    BY DEF Newest
  <2>3. (active')[x][y] = active[x][y]
    BY <1>3, <1>6
  <2> QED BY <1>4, <2>1, <2>2, <2>3, Undisturbed
<1> QED BY <1>5, <1>6 DEF Newest

(* The path manager is told of a link that was registered.                 *)
LEMMA Told ==
    ASSUME TypeOK, Wired, Newest, TypeOK', NEW n \in Nodes, NEW m \in Nodes, NEW l \in Links,
           Between(l, n, m), n # m, end[n][l] = "registered", NEW s \in {"running", "closed"},
           peer_connected(n, m, l), end' = Put(end, n, l, s),
           UNCHANGED <<up, tcp, active, epoch>>
    PROVE  Newest'
<1>1. s \in Stages /\ epoch[n][l] \in Nat /\ epoch[n][l] # 0
  BY DEF Stages, TypeOK, Wired
<1>2. \A x \in Nodes, k \in Links : (end')[x][k] = IF x = n /\ k = l THEN s ELSE end[x][k]
  BY <1>1, Puts
<1>3. /\ \A x, y \in Nodes : ~(x = n /\ y = m) =>
              (path')[x][y] = path[x][y] /\ (latest')[x][y] = latest[x][y]
      /\ latest[n][m] >= epoch[n][l] =>
              (path')[n][m] = path[n][m] /\ (latest')[n][m] = latest[n][m]
      /\ ~(latest[n][m] >= epoch[n][l]) =>
              (path')[n][m] = epoch[n][l] /\ (latest')[n][m] = epoch[n][l]
  BY <1>1, Puts DEF peer_connected, paths
<1>4. \A k \in Links, x, y \in Nodes : Between(k, x, y)' <=> Between(k, x, y)
  BY DEF Between
<1>5. ASSUME NEW x \in Nodes, NEW y \in Nodes, ~(x = n /\ y = m)
      PROVE  NewestFor(x, y)'
  <2>1. \A k \in Links : Between(k, x, y) => (end')[x][k] = end[x][k] /\ (epoch')[x][k] = epoch[x][k]
    <3> TAKE k \in Links
    <3>1. Between(l, x, y) => ~(x = n)
      BY <1>5 DEF Between
    <3> QED BY <1>2, <3>1
  <2>2. NewestFor(x, y) /\ (path')[x][y] = path[x][y] /\ (latest')[x][y] = latest[x][y]
    BY <1>3, <1>5 DEF Newest
  <2> QED BY <1>4, <2>1, <2>2, Undisturbed
<1>6. NewestFor(n, m)
  BY DEF Newest
<1>7. ASSUME up[n] = "down"
      PROVE  NewestFor(n, m)'
  BY <1>7 DEF NewestFor
<1>8. ASSUME up[n] # "down", active[n][m] # l
      PROVE  NewestFor(n, m)'
  <2>1. active[n][m] # l
    BY <1>8
  <2>2. CASE latest[n][m] >= epoch[n][l]
    <3>1. \A k \in Links : Between(k, n, m) =>
              \/ (epoch')[n][k] = epoch[n][k] /\ (end')[n][k] = end[n][k]
              \/ (epoch')[n][k] <= epoch[n][k] /\ ~Leaving(n, k) /\ k # active[n][m]
      BY <1>1, <1>2, <2>1 DEF Leaving
    <3>2. (path')[n][m] = path[n][m] /\ (latest')[n][m] = latest[n][m]
      BY <1>3, <2>2
    <3> QED BY <1>4, <1>6, <3>1, <3>2, Undisturbed
  <2>3. CASE ~(latest[n][m] >= epoch[n][l])
    <3>1. latest[n][m] \in Nat /\ active[n][m] \in Links \cup {Absent}
      BY DEF TypeOK
    <3>2. active[n][m] # Absent
      BY <1>1, <1>6, <1>8, <2>3, <3>1 DEF NewestFor, Unlinked
    <3>3. PICK a \in Links : a = active[n][m] /\ Preferred(n, m, a)
      BY <1>6, <1>8, <3>1, <3>2 DEF NewestFor
    <3>4. epoch[n][l] <= epoch[n][a] /\ epoch[n][l] # epoch[n][a] /\ epoch[n][a] \in Nat
      BY <1>1, <2>1, <3>3 DEF Preferred, Wired, TypeOK
    <3>5. end[n][a] = "registered"
      BY <1>1, <2>3, <3>1, <3>3, <3>4 DEF Preferred
    <3>6. /\ (end')[n][a] = "registered" /\ (latest')[n][m] < epoch[n][a] /\ (active')[n][m] = a
          /\ epoch' = epoch
      BY <1>1, <1>2, <1>3, <2>1, <2>3, <3>3, <3>4, <3>5
    <3>7. Preferred(n, m, a)'
      BY <1>4, <3>3, <3>6 DEF Preferred
    <3> QED BY <3>2, <3>3, <3>6, <3>7 DEF NewestFor
  <2> QED BY <2>2, <2>3
<1>9. ASSUME up[n] # "down", active[n][m] = l
      PROVE  NewestFor(n, m)'
  <2>1. Preferred(n, m, l)
    BY <1>6, <1>9, LanAssumption DEF NewestFor
  <2>2. /\ (end')[n][l] = s /\ (latest')[n][m] = epoch[n][l] /\ (path')[n][m] = epoch[n][l]
        /\ epoch' = epoch
    <3>1. latest[n][m] < epoch[n][l] /\ latest[n][m] \in Nat
      BY <2>1 DEF Preferred, TypeOK
    <3> QED BY <1>1, <1>2, <1>3, <3>1
  <2>3. Preferred(n, m, l)'
    BY <1>4, <2>1, <2>2 DEF Preferred
  <2>4. (active')[n][m] = l /\ l # Absent
    BY <1>9, LanAssumption
  <2> QED BY <2>3, <2>4 DEF NewestFor
<1> QED BY <1>5, <1>7, <1>8, <1>9 DEF Newest

(* The task of a link leaves: the link is given up when it was preferred.  *)
LEMMA LeavesStep ==
    ASSUME TypeOK, Wired, Newest, TypeOK', NEW n \in Nodes, NEW l \in Links,
           end[n][l] = "running", NEW graceful \in BOOLEAN, Leaves(n, l, graceful)
    PROVE  Newest'
<1>0. PICK m \in Nodes : m = Peer(n, l)
  BY PeerIs
<1>1. m \in Nodes /\ m # n /\ Between(l, n, m) /\ epoch[n][l] # 0 /\ epoch[n][l] \in Nat
  BY <1>0, PeerIs DEF Wired, TypeOK
<1>2. UNCHANGED <<up, tcp, path, latest>>
  BY DEF Leaves, paths
<1>3. \A k \in Links, x, y \in Nodes : Between(k, x, y)' <=> Between(k, x, y)
  BY <1>2 DEF Between
<1>4. CASE active[n][m] = l
  <2>1. /\ active' = Put(active, n, m, Absent) /\ epoch' = epoch
        /\ \E s \in {"left", "lost"} : end' = Put(end, n, l, s)
    BY <1>0, <1>4 DEF Leaves, remove_link, Become
  <2>2. PICK s \in {"left", "lost"} : end' = Put(end, n, l, s)
    BY <2>1
  <2>3. s \in Stages /\ Absent \in Links \cup {Absent} /\ l # Absent
    BY LanAssumption DEF Stages
  <2>4. /\ \A x \in Nodes, k \in Links : (end')[x][k] = IF x = n /\ k = l THEN s ELSE end[x][k]
        /\ \A x, y \in Nodes : (active')[x][y] = IF x = n /\ y = m THEN Absent ELSE active[x][y]
    BY <1>1, <2>1, <2>2, <2>3, Puts
  <2>5. ASSUME up[n] # "down"
        PROVE  Unlinked(n, m)'
    <3>1. Preferred(n, m, l)
      BY <1>1, <1>4, <2>3, <2>5 DEF Newest, NewestFor
    <3>2. Leaving(n, l)' /\ (latest')[n][m] = epoch[n][l] /\ (path')[n][m] = epoch[n][l]
      BY <1>2, <2>4, <3>1 DEF Preferred, Leaving
    <3> QED BY <1>1, <1>3, <2>1, <3>1, <3>2 DEF Preferred, Unlinked
  <2>6. NewestFor(n, m)'
    BY <1>1, <1>2, <2>3, <2>4, <2>5 DEF NewestFor
  <2>7. ASSUME NEW x \in Nodes, NEW y \in Nodes, ~(x = n /\ y = m)
        PROVE  NewestFor(x, y)'
    <3>1. \A k \in Links : Between(k, x, y) =>
                 (end')[x][k] = end[x][k] /\ (epoch')[x][k] = epoch[x][k]
      <4> TAKE k \in Links
      <4>1. Between(l, x, y) => ~(x = n)
        BY <1>1, <2>7 DEF Between
      <4> QED BY <2>1, <2>4, <4>1
    <3>2. NewestFor(x, y) /\ (active')[x][y] = active[x][y]
      BY <2>4, <2>7 DEF Newest
    <3> QED BY <1>2, <1>3, <3>1, <3>2, Undisturbed
  <2> QED BY <2>6, <2>7 DEF Newest
<1>5. CASE active[n][m] # l
  <2>1. active' = active /\ epoch' = Put(epoch, n, l, 0) /\ end' = Put(end, n, l, "closed")
    BY <1>0, <1>5 DEF Leaves, membership, Become
  <2>2. "closed" \in Stages /\ 0 \in Nat
    BY DEF Stages
  <2>3. /\ \A x \in Nodes, k \in Links : (end')[x][k] = IF x = n /\ k = l THEN "closed" ELSE end[x][k]
        /\ \A x \in Nodes, k \in Links : (epoch')[x][k] = IF x = n /\ k = l THEN 0 ELSE epoch[x][k]
    BY <2>1, <2>2, Puts
  <2>4. ASSUME NEW x \in Nodes, NEW y \in Nodes
        PROVE  NewestFor(x, y)'
    <3>1. \A k \in Links : Between(k, x, y) =>
              \/ (epoch')[x][k] = epoch[x][k] /\ (end')[x][k] = end[x][k]
              \/ (epoch')[x][k] <= epoch[x][k] /\ ~Leaving(x, k) /\ k # active[x][y]
      <4> TAKE k \in Links
      <4>1. ASSUME x = n, k = l, Between(l, x, y)
            PROVE  (epoch')[x][k] <= epoch[x][k] /\ ~Leaving(x, k) /\ k # active[x][y]
        <5>1. y = m
          BY <1>1, <4>1 DEF Between
        <5> QED BY <1>1, <1>5, <2>3, <4>1, <5>1 DEF Leaving
      <4> QED BY <2>3, <4>1
    <3>2. NewestFor(x, y)
      BY DEF Newest
    <3> QED BY <1>2, <1>3, <2>1, <3>1, <3>2, Undisturbed
  <2> QED BY <2>4 DEF Newest
<1> QED BY <1>4, <1>5

(* The path manager is told that a link is gone.                           *)
LEMMA GoneStep ==
    ASSUME TypeOK, Wired, Newest, TypeOK', NEW n \in Nodes, NEW l \in Links, Gone(n, l)
    PROVE  Newest'
<1>0. PICK m \in Nodes : m = Peer(n, l)
  BY PeerIs DEF Gone
<1>1. /\ m \in Nodes /\ m # n /\ Between(l, n, m) /\ epoch[n][l] # 0 /\ epoch[n][l] \in Nat
      /\ Leaving(n, l)
  BY <1>0, PeerIs DEF Gone, Wired, TypeOK, Leaving
<1>2. /\ epoch' = Put(epoch, n, l, 0) /\ end' = Put(end, n, l, "closed")
      /\ UNCHANGED <<up, tcp, active>> /\ peer_disconnected(n, m, l)
  BY <1>0 DEF Gone, Become, membership
<1>3. \A k \in Links, x, y \in Nodes : Between(k, x, y)' <=> Between(k, x, y)
  BY <1>2 DEF Between
<1>4. "closed" \in Stages /\ 0 \in Nat
  BY DEF Stages
<1>5. /\ \A x \in Nodes, k \in Links : (end')[x][k] = IF x = n /\ k = l THEN "closed" ELSE end[x][k]
      /\ \A x \in Nodes, k \in Links : (epoch')[x][k] = IF x = n /\ k = l THEN 0 ELSE epoch[x][k]
  BY <1>2, <1>4, Puts
<1>6. /\ \A x, y \in Nodes : ~(x = n /\ y = m) =>
              (path')[x][y] = path[x][y] /\ (latest')[x][y] = latest[x][y]
      /\ latest[n][m] > epoch[n][l] =>
              (path')[n][m] = path[n][m] /\ (latest')[n][m] = latest[n][m]
      /\ ~(latest[n][m] > epoch[n][l]) =>
              /\ (latest')[n][m] = epoch[n][l]
              /\ (path')[n][m] = IF path[n][m] = epoch[n][l] THEN 0 ELSE path[n][m]
  <2>1. /\ \A x, y \in Nodes :
              Put(path, n, m, 0)[x][y] = IF x = n /\ y = m THEN 0 ELSE path[x][y]
        /\ \A x, y \in Nodes : Put(latest, n, m, epoch[n][l])[x][y]
                                  = IF x = n /\ y = m THEN epoch[n][l] ELSE latest[x][y]
    <3>1. epoch[n][l] \in Nat /\ n \in Nodes /\ m \in Nodes
      BY <1>1 DEF TypeOK
    <3>2. \A x, y \in Nodes : Put(path, n, m, 0)[x][y] = IF x = n /\ y = m THEN 0 ELSE path[x][y]
      BY <1>1, <1>4, <3>1, Puts
    <3>3. \A x, y \in Nodes : Put(latest, n, m, epoch[n][l])[x][y]
                                  = IF x = n /\ y = m THEN epoch[n][l] ELSE latest[x][y]
      BY <1>1, <3>1, Puts, SMTT(30)
    <3> QED BY <3>2, <3>3
  <2>2. CASE latest[n][m] > epoch[n][l]
    BY <1>2, <2>2 DEF peer_disconnected, paths
  <2>3. CASE ~(latest[n][m] > epoch[n][l])
    <3>1. /\ latest' = Put(latest, n, m, epoch[n][l])
          /\ path' = IF path[n][m] = epoch[n][l] THEN Put(path, n, m, 0) ELSE path
      BY <1>2, <2>3 DEF peer_disconnected
    <3>2. CASE path[n][m] = epoch[n][l]
      BY <1>1, <2>1, <2>3, <3>1, <3>2
    <3>3. CASE path[n][m] # epoch[n][l]
      BY <1>1, <2>1, <2>3, <3>1, <3>3
    <3> QED BY <3>2, <3>3
  <2> QED BY <2>2, <2>3
<1>7. ASSUME NEW x \in Nodes, NEW y \in Nodes, ~(x = n /\ y = m)
      PROVE  NewestFor(x, y)'
  <2>1. \A k \in Links : Between(k, x, y) => (end')[x][k] = end[x][k] /\ (epoch')[x][k] = epoch[x][k]
    <3> TAKE k \in Links
    <3>1. Between(l, x, y) => ~(x = n)
      BY <1>1, <1>7 DEF Between
    <3> QED BY <1>5, <3>1
  <2>2. NewestFor(x, y) /\ (path')[x][y] = path[x][y] /\ (latest')[x][y] = latest[x][y]
    BY <1>6, <1>7 DEF Newest
  <2> QED BY <1>2, <1>3, <2>1, <2>2, Undisturbed
<1>8. NewestFor(n, m) /\ latest[n][m] \in Nat /\ path[n][m] \in Nat
      /\ \A k \in Links : epoch[n][k] \in Nat
  BY <1>1 DEF Newest, TypeOK
<1>9. ASSUME up[n] = "down"
      PROVE  NewestFor(n, m)'
  BY <1>2, <1>9 DEF NewestFor
<1>10. ASSUME up[n] # "down", active[n][m] = Absent
       PROVE  NewestFor(n, m)'
  <2>1. Unlinked(n, m)
    BY <1>8, <1>10 DEF NewestFor
  <2>2. (latest')[n][m] = latest[n][m]
    BY <1>1, <1>6, <1>8, <2>1 DEF Unlinked
  <2>3. \A k \in Links : Between(k, n, m)' => (epoch')[n][k] <= (latest')[n][m]
    BY <1>3, <1>5, <1>8, <2>1, <2>2 DEF Unlinked
  <2>4. ASSUME (path')[n][m] # 0
        PROVE  /\ (path')[n][m] = (latest')[n][m]
               /\ \E k \in Links : /\ Between(k, n, m)' /\ Leaving(n, k)'
                                   /\ (epoch')[n][k] = (path')[n][m]
    <3>1. (path')[n][m] = path[n][m] /\ path[n][m] # 0
      BY <1>6, <2>4
    <3>2. path[n][m] = latest[n][m]
      BY <2>1, <3>1 DEF Unlinked
    <3>3. PICK k \in Links : Between(k, n, m) /\ Leaving(n, k) /\ epoch[n][k] = path[n][m]
      BY <2>1, <3>1 DEF Unlinked
    <3>4. k # l
      BY <1>1, <1>6, <1>8, <2>4, <3>1, <3>2, <3>3
    <3>5. (end')[n][k] = end[n][k] /\ (epoch')[n][k] = epoch[n][k]
      BY <1>5, <3>4
    <3>6. Leaving(n, k)'
      BY <3>3, <3>5 DEF Leaving
    <3> QED BY <1>3, <2>2, <3>1, <3>2, <3>3, <3>5, <3>6
  <2>5. Unlinked(n, m)'
    BY <2>3, <2>4 DEF Unlinked
  <2> QED BY <1>2, <1>10, <2>5 DEF NewestFor
<1>11. ASSUME up[n] # "down", active[n][m] # Absent
       PROVE  NewestFor(n, m)'
  <2>0. active[n][m] \in Links \cup {Absent}
    BY <1>1 DEF TypeOK
  <2>1. PICK a \in Links : Preferred(n, m, a) /\ (active')[n][m] = a /\ a # Absent
    BY <1>1, <1>2, <1>8, <1>11, <2>0 DEF NewestFor
  <2>2. a # l
    BY <1>1, <2>1 DEF Preferred, Leaving
  <2>3. epoch[n][l] <= epoch[n][a] /\ epoch[n][l] # epoch[n][a]
    BY <1>1, <2>1, <2>2 DEF Preferred, Wired
  <2>4. (end')[n][a] = end[n][a] /\ (epoch')[n][a] = epoch[n][a]
    BY <1>5, <2>1, <2>2
  <2>5. \A k \in Links : Between(k, n, m)' => (epoch')[n][k] <= (epoch')[n][a]
    BY <1>3, <1>5, <1>8, <2>1, <2>4 DEF Preferred
  <2>6. end[n][a] = "registered" => (latest')[n][m] < epoch[n][a]
    BY <1>1, <1>6, <1>8, <2>1, <2>3 DEF Preferred
  <2>7. end[n][a] # "registered" => /\ (latest')[n][m] = epoch[n][a]
                                    /\ (path')[n][m] = epoch[n][a]
    <3>1. ASSUME end[n][a] # "registered"
          PROVE  latest[n][m] = epoch[n][a] /\ path[n][m] = epoch[n][a]
      BY <2>1, <3>1 DEF Preferred
    <3> QED BY <1>1, <1>6, <1>8, <2>1, <2>3, <3>1
  <2>8. Preferred(n, m, a)'
    BY <1>3, <2>1, <2>4, <2>5, <2>6, <2>7 DEF Preferred
  <2> QED BY <2>1, <2>8 DEF NewestFor
<1> QED BY <1>7, <1>9, <1>10, <1>11 DEF Newest

LEMMA NewestStep ==
    ASSUME LinksInv, LinksNext
    PROVE  Newest'
<1>1. TypeOK /\ Wired /\ Newest /\ TypeOK'
  BY TypeStep DEF LinksInv
<1>2. \A n, m \in Nodes : NewestFor(n, m)
  BY <1>1 DEF Newest
(* A step that only opens connections or ends tasks that never registered. *)
<1>3. ASSUME UNCHANGED <<active, path, latest, epoch>>,
             \A x \in Nodes : (up')[x] # "down" => up[x] # "down",
             \A l \in Links : tcp[l] # Absent => (tcp')[l] = tcp[l],
             \A x \in Nodes, l \in Links :
                 (end')[x][l] = end[x][l] \/ end[x][l] \in {"none", "asking"}
      PROVE  Newest'
  <2>1. ASSUME NEW x \in Nodes, NEW y \in Nodes
        PROVE  NewestFor(x, y)'
    <3>1. \A l \in Links : Between(l, x, y) => Between(l, x, y)'
      BY <1>3 DEF Between
    <3>2. \A l \in Links : Between(l, x, y)' /\ ~Between(l, x, y) => (epoch')[x][l] = 0
      <4> TAKE l \in Links
      <4>1. tcp[l] = Absent => end[x][l] = "none" /\ epoch[x][l] = 0
        BY <1>1 DEF Wired
      <4> QED BY <1>3, <4>1 DEF Between
    <3>3. \A l \in Links : Between(l, x, y) /\ up[x] # "down" =>
              \/ (epoch')[x][l] = epoch[x][l] /\ (end')[x][l] = end[x][l]
              \/ (epoch')[x][l] <= epoch[x][l] /\ ~Leaving(x, l) /\ l # active[x][y]
      <4> TAKE l \in Links
      <4>1. SUFFICES ASSUME up[x] # "down", end[x][l] \in {"none", "asking"}
                     PROVE  (epoch')[x][l] <= epoch[x][l] /\ ~Leaving(x, l) /\ l # active[x][y]
        BY <1>3
      <4>2. l # Absent /\ epoch[x][l] \in Nat
        BY <1>1, LanAssumption DEF TypeOK
      <4>3. l # active[x][y]
        BY <1>2, <4>1, <4>2 DEF NewestFor, Preferred
      <4> QED BY <1>3, <4>1, <4>2, <4>3 DEF Leaving
    <3> QED BY <1>1, <1>2, <1>3, <3>1, <3>2, <3>3, Undisturbed
  <2> QED BY <2>1 DEF Newest
<1>4. ASSUME NEW n \in Nodes, Start(n) \/ Stop(n)
      PROVE  Newest'
  <2>1. /\ UNCHANGED <<active, path, latest, epoch, tcp, end>>
        /\ \A x \in Nodes : (up')[x] # "down" => up[x] # "down"
    BY <1>1, <1>4 DEF Start, Stop, TypeOK, membership, paths
  <2> QED BY <1>3, <2>1
<1>5. ASSUME NEW n \in Nodes, Crash(n)
      PROVE  Newest'
  <2>1. /\ UNCHANGED <<tcp, epoch, latest>>
        /\ (up')[n] = "down" /\ \A x \in Nodes : x # n => (up')[x] = up[x]
        /\ \A x \in Nodes : x # n => /\ (end')[x] = end[x] /\ (active')[x] = active[x]
                                     /\ (path')[x] = path[x]
    BY <1>1, <1>5 DEF Crash, TypeOK
  <2>2. ASSUME NEW x \in Nodes, NEW y \in Nodes
        PROVE  NewestFor(x, y)'
    <3>1. CASE x = n
      BY <2>1, <3>1 DEF NewestFor
    <3>2. CASE x # n
      <4>1. \A l \in Links : Between(l, x, y)' <=> Between(l, x, y)
        BY <2>1 DEF Between
      <4> QED BY <1>1, <1>2, <2>1, <3>2, <4>1, Undisturbed
    <3> QED BY <3>1, <3>2
  <2> QED BY <2>2 DEF Newest
<1>6. ASSUME NEW n \in Nodes, NEW m \in Nodes, Dial(n, m)
      PROVE  Newest'
  <2>1. UNCHANGED <<active, path, latest, epoch, up>>
    BY <1>6 DEF Dial, paths
  <2>2. CASE UNCHANGED <<tcp, end>>
    BY <1>3, <2>1, <2>2
  <2>3. ASSUME NEW l \in Links, tcp[l] = Absent, tcp' = [tcp EXCEPT ![l] = [from |-> n, to |-> m]],
               end' = Put(end, n, l, "asking")
        PROVE  Newest'
    <3>1. "asking" \in Stages
      BY DEF Stages
    <3>2. \A x \in Nodes, k \in Links :
             (end')[x][k] = IF x = n /\ k = l THEN "asking" ELSE end[x][k]
      BY <1>1, <2>3, <3>1, Puts
    <3>3. end[n][l] = "none"
      BY <1>1, <2>3 DEF Wired
    <3>4. \A k \in Links : tcp[k] # Absent => (tcp')[k] = tcp[k]
      BY <1>1, <2>3 DEF TypeOK
    <3> QED BY <1>3, <2>1, <3>2, <3>3, <3>4
  <2> QED BY <1>6, <2>2, <2>3 DEF Dial, Become
<1>7. ASSUME NEW n \in Nodes, NEW l \in Links, end[n][l] \in {"none", "asking"},
             Become(n, l, "closed"), UNCHANGED <<up, tcp, active, path, latest, epoch>>
      PROVE  Newest'
  <2>1. "closed" \in Stages
    BY DEF Stages
  <2>2. \A x \in Nodes, k \in Links :
             (end')[x][k] = IF x = n /\ k = l THEN "closed" ELSE end[x][k]
    BY <1>1, <1>7, <2>1, Puts DEF Become
  <2> QED BY <1>3, <1>7, <2>2
<1>8. ASSUME NEW n \in Nodes, NEW l \in Links, Accept(n, l)
      PROVE  Newest'
  <2>1. /\ tcp[l] # Absent /\ tcp[l].to = n /\ end[n][l] = "none"
        /\ UNCHANGED <<up, tcp, path, latest>>
    BY <1>8 DEF Accept, paths
  <2>2. tcp[l].from \in Nodes /\ tcp[l].from # n /\ Between(l, n, tcp[l].from)
    <3>1. tcp[l] \in [from : Nodes, to : Nodes] /\ tcp[l].from # tcp[l].to
      BY <1>1, <2>1 DEF TypeOK, Wired
    <3> QED BY <2>1, <3>1 DEF Between
  <2>3. CASE register(n, tcp[l].from, l, hints[n]) /\ Become(n, l, "registered")
    BY <1>1, <2>1, <2>2, <2>3, Registered DEF Become
  <2>4. CASE UNCHANGED <<active, epoch>> /\ Become(n, l, "closed")
    BY <1>7, <2>1, <2>4
  <2> QED BY <1>8, <2>3, <2>4 DEF Accept, membership
<1>9. ASSUME NEW n \in Nodes, NEW l \in Links, Admitted(n, l)
      PROVE  Newest'
  <2>1. end[n][l] = "asking" /\ UNCHANGED <<up, tcp, path, latest>>
    BY <1>9 DEF Admitted, paths
  <2>2. tcp[l].to \in Nodes /\ tcp[l].to # n /\ Between(l, n, tcp[l].to)
    <3>1. tcp[l].from = n /\ end[n][l] # "none"
      BY <1>1, <2>1 DEF Wired
    <3> QED BY <1>1, <3>1, PeerIs
  <2>3. ASSUME NEW h, register(n, tcp[l].to, l, h), Become(n, l, "registered")
        PROVE  Newest'
    BY <1>1, <2>1, <2>2, <2>3, Registered DEF Become
  <2>4. CASE UNCHANGED <<active, epoch>> /\ Become(n, l, "closed")
    BY <1>7, <2>1, <2>4
  <2> QED BY <1>9, <2>3, <2>4 DEF Admitted
<1>10. ASSUME NEW n \in Nodes, NEW l \in Links, DialRefused(n, l) \/ TimedOut(n, l)
       PROVE  Newest'
  BY <1>7, <1>10 DEF DialRefused, TimedOut, paths
<1>11. ASSUME NEW n \in Nodes, NEW l \in Links, Welcome(n, l) \/ Linked(n, l)
       PROVE  Newest'
  <2>1. end[n][l] = "registered" /\ UNCHANGED <<up, tcp, active, epoch>>
    BY <1>11 DEF Welcome, Linked, membership
  <2>2. /\ Peer(n, l) \in Nodes /\ Peer(n, l) # n /\ Between(l, n, Peer(n, l))
        /\ (tcp[l].from = n => Peer(n, l) = tcp[l].to)
        /\ (tcp[l].to = n => Peer(n, l) = tcp[l].from)
    BY <1>1, <2>1, PeerIs
  <2>3. peer_connected(n, Peer(n, l), l)
    BY <1>11, <2>2 DEF Welcome, Linked
  <2>4. PICK s \in {"running", "closed"} : end' = Put(end, n, l, s)
    BY <1>11 DEF Welcome, Linked, Become
  <2> QED BY <1>1, <2>1, <2>2, <2>3, <2>4, Told
<1>12. ASSUME NEW n \in Nodes, NEW l \in Links,
              HearLeave(n, l) \/ SayLeave(n, l) \/ Cancelled(n, l) \/ Ended(n, l)
       PROVE  Newest'
  <2>1. end[n][l] = "running" /\ \E graceful \in BOOLEAN : Leaves(n, l, graceful)
    BY <1>12 DEF HearLeave, SayLeave, Cancelled, Ended
  <2> QED BY <1>1, <2>1, LeavesStep
<1>13. ASSUME NEW n \in Nodes, NEW l \in Links, Gone(n, l)
       PROVE  Newest'
  BY <1>1, <1>13, GoneStep
<1>14. CASE \/ \E n \in Nodes : \E expired \in SUBSET deadlines[n] : Maintain(n, expired)
            \/ \E n \in Nodes, l \in Links : HearSnapshot(n, l)
            \/ \E l \in Links : Reset(l)
  <2>1. UNCHANGED <<up, active, path, latest, epoch, tcp, end>>
    BY <1>14 DEF Maintain, HearSnapshot, Reset, paths, membership
  <2> QED BY <1>3, <2>1
<1> QED BY <1>4, <1>5, <1>6, <1>8, <1>9, <1>10, <1>11, <1>12, <1>13, <1>14 DEF LinksNext

LEMMA LinksBegin == LinksInit => LinksInv
<1> SUFFICES ASSUME LinksInit
             PROVE  LinksInv
  OBVIOUS
<1>1. TypeOK
  BY DEF LinksInit, TypeOK, Stages
<1>2. Wired
  BY DEF LinksInit, Wired
<1>3. \A n, m \in Nodes, l \in Links :
         tcp[l] = Absent /\ path[n][m] = 0 /\ latest[n][m] = 0 /\ active[n][m] = Absent
  BY DEF LinksInit
<1>4. Newest
  <2>1. ASSUME NEW n \in Nodes, NEW m \in Nodes
        PROVE  NewestFor(n, m)
    <3>1. path[n][m] = 0 /\ active[n][m] = Absent
      BY DEF LinksInit
    <3>2. \A l \in Links : ~Between(l, n, m)
      BY DEF LinksInit, Between
    <3> QED BY <3>1, <3>2 DEF NewestFor, Unlinked
  <2> QED BY <2>1 DEF Newest
<1> QED BY <1>1, <1>2, <1>4 DEF LinksInv

LEMMA LinksStep == LinksInv /\ [LinksNext]_linksVars => LinksInv'
<1>1. ASSUME LinksInv, LinksNext
      PROVE  LinksInv'
  BY <1>1, TypeStep, WiredStep, NewestStep DEF LinksInv
<1>2. ASSUME LinksInv, UNCHANGED linksVars
      PROVE  LinksInv'
  <2>1. UNCHANGED <<up, tcp, end, epoch, nextEpoch, active, path, latest>>
    BY <1>2 DEF linksVars, membership, paths
  <2>2. TypeOK' /\ Wired'
    BY <1>2, <2>1 DEF LinksInv, TypeOK, Wired
  <2>3. \A n, m \in Nodes : NewestFor(n, m)' <=> NewestFor(n, m)
    BY <2>1 DEF NewestFor, Unlinked, Preferred, Between, Leaving
  <2> QED BY <1>2, <2>2, <2>3 DEF LinksInv, Newest
<1> QED BY <1>1, <1>2

(* Whatever order the calls of several links to one peer reach the path    *)
(* manager in, once all have returned there is a path exactly when there   *)
(* is a preferred link, and it is the path of that link: register's epochs *)
(* put the calls in order (link.rs, path/lifecycle.rs).                    *)
THEOREM PathsFollowLinks == LinksSpec => []PathFollowsLink
<1>1. ASSUME LinksInv
      PROVE  PathFollowsLink
  <2>1. ASSUME NEW n \in Nodes, NEW m \in Nodes, up[n] # "down",
               \A l \in Links : ~(Between(l, n, m) /\ end[n][l] \in {"registered", "left", "lost"})
        PROVE  path[n][m] = IF active[n][m] = Absent THEN 0 ELSE epoch[n][active[n][m]]
    <3>1. NewestFor(n, m) /\ active[n][m] \in Links \cup {Absent}
      BY <1>1 DEF LinksInv, Newest, TypeOK
    <3>2. CASE active[n][m] = Absent
      BY <2>1, <3>1, <3>2 DEF NewestFor, Unlinked, Leaving
    <3>3. CASE active[n][m] # Absent
      BY <2>1, <3>1, <3>3 DEF NewestFor, Preferred
    <3> QED BY <3>2, <3>3
  <2> QED BY <2>1 DEF PathFollowsLink
<1> QED BY <1>1, LinksBegin, LinksStep, PTL DEF LinksSpec

--------------------------------------------------------------------------------
(* Dials converge: of the connections between two nodes that only their    *)
(* own dials disturb, the one with the lowest link id never loses.         *)

Replies == [ok : BOOLEAN, peers : SUBSET Nodes]

(* A connection is opened between two accounts of which nobody is still    *)
(* off; it is broken for a reason, and only who stops says goodbye.        *)
Company ==
    /\ hints \in [Nodes -> SUBSET Nodes]
    /\ answer \in [Links -> Replies \cup {Absent}]
    /\ goodbye \in [Nodes -> [Links -> BOOLEAN]]
    /\ \A l \in Links :
          IF tcp[l] = Absent
            THEN answer[l] = Absent /\ l \notin broken /\ \A n \in Nodes : goodbye[n][l] = FALSE
            ELSE /\ up[tcp[l].from] # "off" /\ up[tcp[l].to] # "off"
                 /\ Steam[tcp[l].from] # Steam[tcp[l].to]
                 /\ l \in broken => \/ l \in disturbed
                                    \/ up[tcp[l].from] = "down" \/ up[tcp[l].to] = "down"
    /\ \A n, m \in Nodes, l \in Links :
          Between(l, n, m) /\ goodbye[n][l] # FALSE => up[m] \in {"stopping", "down"}

(* Nothing but the two nodes themselves comes between them.                *)
Free(a, b) ==
    /\ up[a] = "up" /\ up[b] = "up"
    /\ \A l \in Links \cap disturbed : ~Between(l, a, b)
    /\ \A k \in Nodes \ {a, b} : Steam[k] \in {Steam[a], Steam[b]} => up[k] = "off"

Winner(l) ==
    /\ tcp[l] # Absent /\ Free(tcp[l].from, tcp[l].to)
    /\ \A k \in Links : Between(k, tcp[l].from, tcp[l].to) => l <= k

(* What has become of a connection that wins.                              *)
Winning(l, d, c) ==
    \/ /\ end[d][l] = "asking" /\ end[c][l] \in {"none", "registered"} /\ answer[l] = Absent
       /\ end[c][l] = "registered" => active[c][d] = l
    \/ /\ end[d][l] = "asking" /\ end[c][l] = "running" /\ active[c][d] = l
       /\ answer[l] = JoinAccepted(answer[l].peers) /\ c \in answer[l].peers
    \/ /\ end[d][l] \in {"registered", "running"} /\ end[c][l] = "running"
       /\ active[d][c] = l /\ active[c][d] = l

Agreed == \A l \in Links : Winner(l) => Winning(l, tcp[l].from, tcp[l].to)

MeetInv == LinksInv /\ Company /\ Agreed

(* A room no bigger than one snapshot can name.                            *)
SmallRoom == IsFiniteSet(Nodes) /\ Cardinality(Nodes) <= MaxLanPeers

LEMMA SnapshotNamesItsNode ==
    ASSUME SmallRoom, Company, NEW n \in Nodes
    PROVE  n \in snapshot(n) /\ snapshot(n) \subseteq Nodes
<1> DEFINE peers == {n} \cup {m \in Nodes : active[n][m] # Absent} \cup hints[n]
<1> DEFINE below == {q \in peers : q < n}
<1>1. peers \subseteq Nodes
  BY DEF Company
<1>2. n \notin below /\ below \subseteq Nodes \ {n}
  <2>1. n \in Nat
    BY LanAssumption
  <2> QED BY <1>1, <2>1
<1>3. IsFiniteSet(Nodes \ {n}) /\ Cardinality(Nodes \ {n}) = Cardinality(Nodes) - 1
  BY FS_RemoveElement DEF SmallRoom
<1>4. Cardinality(below) <= Cardinality(Nodes \ {n}) /\ Cardinality(below) \in Nat
  BY <1>2, <1>3, FS_Subset, FS_CardinalityType
<1>5. Cardinality(Nodes) \in Nat
  BY FS_CardinalityType DEF SmallRoom
<1>6. Cardinality(below) < MaxLanPeers
  BY <1>3, <1>4, <1>5, LanAssumption DEF SmallRoom
<1>7. snapshot(n) = {p \in peers : Cardinality({q \in peers : q < p}) < MaxLanPeers}
  BY DEF snapshot
<1> QED BY <1>1, <1>6, <1>7

LEMMA MergedAreNodes ==
    ASSUME Company, NEW n \in Nodes, NEW peers \in SUBSET Nodes
    PROVE  Merged(n, peers) \subseteq Nodes
BY DEF Company, Merged, Mergeable, trim_hints

(* Nodes only ever go forward, and a connection is opened once.            *)
Onward ==
    /\ \A x \in Nodes : /\ up[x] # "off" => (up')[x] # "off"
                        /\ (up')[x] = "up" => up[x] \in {"off", "up"}
                        /\ up[x] = "down" => (up')[x] = "down"
    /\ disturbed \subseteq disturbed'
    /\ \A l \in Links : tcp[l] # Absent => (tcp')[l] = tcp[l]

Dialled(l) ==
    /\ tcp[l] = Absent /\ (tcp')[l] \in [from : Nodes, to : Nodes]
    /\ up[(tcp')[l].from] = "up" /\ up[(tcp')[l].to] # "off"
    /\ Steam[(tcp')[l].from] # Steam[(tcp')[l].to]
    /\ end' = Put(end, (tcp')[l].from, l, "asking")
    /\ UNCHANGED <<up, active, answer, goodbye, broken, disturbed>>

LEMMA StepGoesOnward ==
    ASSUME TypeOK, LinksNext
    PROVE  Onward /\ \A l \in Links : (tcp')[l] = tcp[l] \/ Dialled(l)
<1>1. ASSUME NEW n \in Nodes, Start(n) \/ Stop(n) \/ Crash(n)
      PROVE  Onward /\ tcp' = tcp
  <2>1. /\ up' = [up EXCEPT ![n] = (up')[n]] /\ disturbed' = disturbed /\ tcp' = tcp
        /\ \/ up[n] = "off" /\ (up')[n] = "up"
           \/ up[n] = "up" /\ (up')[n] \in {"stopping", "down"}
    BY <1>1 DEF Start, Stop, Crash, TypeOK, faults
  <2>2. \A x \in Nodes : x # n => (up')[x] = up[x]
    BY <2>1 DEF TypeOK
  <2> QED BY <2>1, <2>2 DEF Onward
<1>2. ASSUME NEW n \in Nodes, NEW m \in Nodes, Dial(n, m)
      PROVE  Onward /\ \A l \in Links : (tcp')[l] = tcp[l] \/ Dialled(l)
  <2>1. UNCHANGED <<up, active, answer, goodbye, broken, disturbed>>
    BY <1>2 DEF Dial, wires, faults
  <2>2. CASE tcp' = tcp
    BY <2>1, <2>2 DEF Onward
  <2>3. ASSUME NEW l \in Links, tcp[l] = Absent, tcp' = [tcp EXCEPT ![l] = [from |-> n, to |-> m]],
               Become(n, l, "asking")
        PROVE  Onward /\ \A k \in Links : (tcp')[k] = tcp[k] \/ Dialled(k)
    <3>1. (tcp')[l] = [from |-> n, to |-> m] /\ \A k \in Links : k # l => (tcp')[k] = tcp[k]
      BY <2>3 DEF TypeOK
    <3>2. up[n] = "up" /\ up[m] # "off" /\ Steam[n] # Steam[m]
      BY <1>2 DEF Dial
    <3>3. Dialled(l)
      BY <2>1, <2>3, <3>1, <3>2 DEF Dialled, Become
    <3> QED BY <2>1, <2>3, <3>1, <3>3 DEF Onward
  <2> QED BY <1>2, <2>2, <2>3 DEF Dial
<1>3. ASSUME NEW n \in Nodes, NEW x \in SUBSET deadlines[n], Maintain(n, x)
      PROVE  UNCHANGED <<up, tcp, disturbed>>
  BY <1>3 DEF Maintain, faults
<1>4. ASSUME NEW n \in Nodes, NEW l \in Links,
             \/ Accept(n, l) \/ Welcome(n, l) \/ Admitted(n, l) \/ Linked(n, l)
             \/ DialRefused(n, l) \/ TimedOut(n, l) \/ HearSnapshot(n, l) \/ Gone(n, l)
      PROVE  up' = up /\ tcp' = tcp /\ disturbed \subseteq disturbed'
  BY <1>4 DEF Accept, Welcome, Admitted, Linked, DialRefused, TimedOut, HearSnapshot, Gone, faults
<1>5. ASSUME NEW n \in Nodes, NEW l \in Links,
             HearLeave(n, l) \/ SayLeave(n, l) \/ Cancelled(n, l) \/ Ended(n, l)
      PROVE  UNCHANGED <<up, tcp, disturbed>>
  BY <1>5 DEF HearLeave, SayLeave, Cancelled, Ended, Leaves, faults
<1>6. ASSUME NEW l \in Links, Reset(l)
      PROVE  up' = up /\ tcp' = tcp /\ disturbed \subseteq disturbed'
  BY <1>6 DEF Reset
<1>7. ASSUME up' = up, tcp' = tcp, disturbed \subseteq disturbed'
      PROVE  Onward
  BY <1>7 DEF Onward
<1> QED BY <1>1, <1>2, <1>3, <1>4, <1>5, <1>6, <1>7 DEF LinksNext

(* Only who stops says goodbye, and only over a connection that is open.   *)
LEMMA GoodbyeStep ==
    ASSUME LinksInv, Company, LinksNext
    PROVE  /\ goodbye' \in [Nodes -> [Links -> BOOLEAN]]
           /\ \A x \in Nodes, k \in Links : (goodbye')[x][k] # goodbye[x][k] =>
                 \/ (goodbye')[x][k] = FALSE
                 \/ \E n \in Nodes : /\ Between(k, n, x) /\ n # x
                                     /\ up[n] = "stopping" /\ (up')[n] = "stopping"
<1> DEFINE B == BOOLEAN
           no == FALSE
           yes == TRUE
<1>1. goodbye \in [Nodes -> [Links -> B]] /\ no \in B /\ yes \in B /\ TypeOK /\ Wired
  BY DEF Company, LinksInv
<1>2. ASSUME NEW n \in Nodes, NEW l \in Links, HearLeave(n, l) \/ Ended(n, l)
      PROVE  goodbye' = Put(goodbye, n, l, no)
  BY <1>2 DEF HearLeave, Ended
<1>3. ASSUME NEW n \in Nodes, NEW l \in Links, SayLeave(n, l)
      PROVE  /\ goodbye' = goodbye \/ goodbye' = Put(goodbye, Peer(n, l), l, yes)
             /\ end[n][l] = "running" /\ up[n] = "stopping" /\ up' = up
  BY <1>3 DEF SayLeave, Leaves
<1> HIDE DEF B, no, yes
<1>3a. \A n \in Nodes, l \in Links, v \in B : Put(goodbye, n, l, v) \in [Nodes -> [Links -> B]]
  BY <1>1, PutIs
<1>3b. \A n \in Nodes, l \in Links, v \in B : \A x \in Nodes, k \in Links :
          Put(goodbye, n, l, v)[x][k] = IF x = n /\ k = l THEN v ELSE goodbye[x][k]
  BY <1>1 DEF Put
<1>4. ASSUME NEW n \in Nodes, NEW l \in Links, goodbye' = Put(goodbye, n, l, no)
      PROVE  /\ goodbye' \in [Nodes -> [Links -> B]]
             /\ \A x \in Nodes, k \in Links :
                   (goodbye')[x][k] # goodbye[x][k] => (goodbye')[x][k] = no
  BY <1>1, <1>4, <1>3a, <1>3b
<1>5. ASSUME NEW n \in Nodes, NEW l \in Links, SayLeave(n, l), goodbye' # goodbye
      PROVE  /\ goodbye' \in [Nodes -> [Links -> B]]
             /\ \A x \in Nodes, k \in Links : (goodbye')[x][k] # goodbye[x][k] =>
                   /\ Between(k, n, x) /\ n # x
                   /\ up[n] = "stopping" /\ (up')[n] = "stopping"
  <2>1. /\ goodbye' = Put(goodbye, Peer(n, l), l, yes) /\ end[n][l] = "running"
        /\ up[n] = "stopping" /\ up' = up
    BY <1>3, <1>5
  <2>2. Peer(n, l) \in Nodes /\ Peer(n, l) # n /\ Between(l, n, Peer(n, l))
    BY <1>1, <2>1, PeerIs
  <2>3. /\ goodbye' \in [Nodes -> [Links -> B]]
        /\ \A x \in Nodes, k \in Links :
              x # Peer(n, l) \/ k # l => (goodbye')[x][k] = goodbye[x][k]
    BY <1>1, <2>1, <2>2, <1>3a, <1>3b, SMTT(30)
  <2> QED BY <2>1, <2>2, <2>3
<1>6. ASSUME NEW n \in Nodes, Start(n) \/ Stop(n) \/ Crash(n) \/ \E m \in Nodes : Dial(n, m)
      PROVE  goodbye' = goodbye
  BY <1>6 DEF Start, Stop, Crash, Dial, wires
<1>7. ASSUME NEW n \in Nodes, NEW x \in SUBSET deadlines[n], Maintain(n, x)
      PROVE  goodbye' = goodbye
  BY <1>7 DEF Maintain, wires
<1>8. ASSUME NEW n \in Nodes, NEW l \in Links,
             \/ Accept(n, l) \/ Welcome(n, l) \/ Admitted(n, l) \/ Linked(n, l)
             \/ DialRefused(n, l) \/ TimedOut(n, l) \/ HearSnapshot(n, l) \/ Gone(n, l)
             \/ Cancelled(n, l)
      PROVE  goodbye' = goodbye
  BY <1>8 DEF Accept, Welcome, Admitted, Linked, DialRefused, TimedOut, HearSnapshot, Gone,
              Cancelled, wires
<1>9. ASSUME NEW l \in Links, Reset(l)
      PROVE  goodbye' = goodbye
  BY <1>9 DEF Reset, wires
<1>10. \/ goodbye' = goodbye
       \/ \E n \in Nodes, l \in Links :
             SayLeave(n, l) \/ goodbye' = Put(goodbye, n, l, no)
  BY <1>2, <1>6, <1>7, <1>8, <1>9 DEF LinksNext
<1>11. /\ goodbye' \in [Nodes -> [Links -> B]]
       /\ \A x \in Nodes, k \in Links : (goodbye')[x][k] # goodbye[x][k] =>
             \/ (goodbye')[x][k] = no
             \/ \E n \in Nodes : /\ Between(k, n, x) /\ n # x
                                 /\ up[n] = "stopping" /\ (up')[n] = "stopping"
  BY <1>1, <1>4, <1>5, <1>10
<1> QED BY <1>11 DEF B, no

(* The acceptor answers, and the dialer takes the answer.                  *)
LEMMA AnswerStep ==
    ASSUME LinksInv, Company, SmallRoom, LinksNext
    PROVE  /\ answer' \in [Links -> Replies \cup {Absent}]
           /\ \A k \in Links : tcp[k] = Absent => (answer')[k] = Absent
<1>1. answer \in [Links -> Replies \cup {Absent}] /\ TypeOK /\ Wired
  BY DEF Company, LinksInv
<1>2. ASSUME answer' = answer
      PROVE  /\ answer' \in [Links -> Replies \cup {Absent}]
             /\ \A k \in Links : tcp[k] = Absent => (answer')[k] = Absent
  BY <1>2 DEF Company
<1>3. ASSUME NEW l \in Links, NEW v \in Replies \cup {Absent}, tcp[l] # Absent,
             answer' = [answer EXCEPT ![l] = v]
      PROVE  /\ answer' \in [Links -> Replies \cup {Absent}]
             /\ \A k \in Links : tcp[k] = Absent => (answer')[k] = Absent
  BY <1>1, <1>3 DEF Company
<1>4. Rejected \in Replies /\ \A n \in Nodes : JoinAccepted(snapshot(n)) \in Replies
  <2>1. ASSUME NEW n \in Nodes
        PROVE  JoinAccepted(snapshot(n)) \in Replies
    BY SnapshotNamesItsNode DEF JoinAccepted, Replies
  <2> QED BY <2>1 DEF Rejected, Replies
<1>5. ASSUME NEW n \in Nodes, NEW l \in Links,
             Accept(n, l) \/ Admitted(n, l) \/ DialRefused(n, l) \/ TimedOut(n, l)
      PROVE  \/ answer' = answer
             \/ tcp[l] # Absent /\ \E v \in {Rejected, Absent} : answer' = [answer EXCEPT ![l] = v]
  <2>1. tcp[l] # Absent
    BY <1>1, <1>5 DEF Accept, Admitted, DialRefused, TimedOut, Wired
  <2> QED BY <1>5, <2>1 DEF Accept, Admitted, DialRefused, TimedOut
<1>6. ASSUME NEW n \in Nodes, NEW l \in Links, Welcome(n, l)
      PROVE  \/ answer' = answer
             \/ tcp[l] # Absent /\ \E v \in {JoinAccepted(snapshot(n)), Absent} :
                                      answer' = [answer EXCEPT ![l] = v]
  <2>1. tcp[l] # Absent
    BY <1>1, <1>6 DEF Welcome, Wired
  <2> QED BY <1>6, <2>1 DEF Welcome
<1>7. ASSUME NEW n \in Nodes, Start(n) \/ Stop(n) \/ Crash(n) \/ \E m \in Nodes : Dial(n, m)
      PROVE  answer' = answer
  BY <1>7 DEF Start, Stop, Crash, Dial, wires
<1>8. ASSUME NEW n \in Nodes, NEW x \in SUBSET deadlines[n], Maintain(n, x)
      PROVE  answer' = answer
  BY <1>8 DEF Maintain, wires
<1>9. ASSUME NEW n \in Nodes, NEW l \in Links,
             \/ Linked(n, l) \/ HearSnapshot(n, l) \/ Gone(n, l)
             \/ HearLeave(n, l) \/ SayLeave(n, l) \/ Cancelled(n, l) \/ Ended(n, l)
      PROVE  answer' = answer
  BY <1>9 DEF Linked, HearSnapshot, Gone, HearLeave, SayLeave, Cancelled, Ended, Leaves, wires
<1>10. ASSUME NEW l \in Links, Reset(l)
       PROVE  answer' = answer
  BY <1>10 DEF Reset, wires
<1>11. \/ answer' = answer
       \/ \E l \in Links, v \in Replies \cup {Absent} :
             tcp[l] # Absent /\ answer' = [answer EXCEPT ![l] = v]
  BY <1>4, <1>5, <1>6, <1>7, <1>8, <1>9, <1>10 DEF LinksNext
<1> QED BY <1>2, <1>3, <1>11

LEMMA HintsStep ==
    ASSUME LinksInv, Company, SmallRoom, LinksNext
    PROVE  hints' \in [Nodes -> SUBSET Nodes]
<1>1. hints \in [Nodes -> SUBSET Nodes] /\ TypeOK /\ Wired
  BY DEF Company, LinksInv
<1>2. \A n \in Nodes, l \in Links : answer[l] # Absent => Merged(n, answer[l].peers) \subseteq Nodes
  <2> SUFFICES ASSUME NEW n \in Nodes, NEW l \in Links, answer[l] # Absent
               PROVE  Merged(n, answer[l].peers) \subseteq Nodes
    OBVIOUS
  <2>1. answer[l] \in Replies
    BY DEF Company
  <2>2. answer[l].peers \in SUBSET Nodes
    BY <2>1 DEF Replies
  <2> QED BY <2>2, MergedAreNodes
<1>3. ASSUME NEW n \in Nodes, NEW l \in Links, HearSnapshot(n, l)
      PROVE  hints' \in [Nodes -> SUBSET Nodes]
  <2>1. Peer(n, l) \in Nodes
    BY <1>1, <1>3, PeerIs DEF HearSnapshot
  <2>2. Merged(n, snapshot(Peer(n, l))) \subseteq Nodes
    BY <2>1, SnapshotNamesItsNode, MergedAreNodes
  <2> QED BY <1>1, <1>3, <2>2 DEF HearSnapshot
<1>4. ASSUME NEW n \in Nodes, NEW m \in Nodes, NEW l \in Links, NEW h \in SUBSET Nodes,
             register(n, m, l, h)
      PROVE  hints' \in [Nodes -> SUBSET Nodes]
  <2>1. {p \in h \cup {m} : Steam[p] = Steam[m] => p = m} \in SUBSET Nodes
    OBVIOUS
  <2> QED BY <1>1, <1>4, <2>1 DEF register
<1>5. ASSUME NEW n \in Nodes, NEW l \in Links, Accept(n, l)
      PROVE  hints' \in [Nodes -> SUBSET Nodes]
  <2>1. tcp[l].from \in Nodes
    <3>1. tcp[l] \in [from : Nodes, to : Nodes]
      BY <1>1, <1>5 DEF Accept, TypeOK
    <3> QED BY <3>1
  <2>2. hints' = hints \/ register(n, tcp[l].from, l, hints[n])
    BY <1>5 DEF Accept, membership
  <2>3. hints[n] \in SUBSET Nodes
    BY <1>1
  <2> QED BY <1>1, <1>4, <2>1, <2>2, <2>3
<1>6. ASSUME NEW n \in Nodes, NEW l \in Links, Admitted(n, l)
      PROVE  hints' \in [Nodes -> SUBSET Nodes]
  <2>1. tcp[l].to \in Nodes /\ Merged(n, answer[l].peers) \in SUBSET Nodes
    BY <1>1, <1>2, <1>6, PeerIs DEF Admitted
  <2>2. \/ hints' = [hints EXCEPT ![n] = Merged(n, answer[l].peers)]
        \/ register(n, tcp[l].to, l, Merged(n, answer[l].peers))
    BY <1>6 DEF Admitted
  <2> QED BY <1>1, <1>4, <2>1, <2>2
<1>7. ASSUME NEW n \in Nodes, NEW l \in Links, NEW graceful \in BOOLEAN, Leaves(n, l, graceful)
      PROVE  hints' \in [Nodes -> SUBSET Nodes]
  <2>1. hints[n] \ {Peer(n, l)} \in SUBSET Nodes
    BY <1>1
  <2> QED BY <1>1, <1>7, <2>1 DEF Leaves, remove_link, membership
<1>8. ASSUME NEW n \in Nodes, NEW l \in Links,
             HearLeave(n, l) \/ SayLeave(n, l) \/ Cancelled(n, l) \/ Ended(n, l)
      PROVE  hints' \in [Nodes -> SUBSET Nodes]
  BY <1>7, <1>8 DEF HearLeave, SayLeave, Cancelled, Ended
<1>9. ASSUME NEW n \in Nodes, Start(n) \/ Stop(n) \/ Crash(n) \/ \E m \in Nodes : Dial(n, m)
      PROVE  hints' \in [Nodes -> SUBSET Nodes]
  BY <1>1, <1>9 DEF Start, Stop, Crash, Dial, membership
<1>10. ASSUME NEW n \in Nodes, NEW x \in SUBSET deadlines[n], Maintain(n, x)
       PROVE  hints' \in [Nodes -> SUBSET Nodes]
  BY <1>1, <1>10 DEF Maintain
<1>11. ASSUME NEW n \in Nodes, NEW l \in Links,
             Welcome(n, l) \/ Linked(n, l) \/ DialRefused(n, l) \/ TimedOut(n, l) \/ Gone(n, l)
      PROVE  hints' = hints
  BY <1>11 DEF Welcome, Linked, DialRefused, TimedOut, Gone, membership
<1>12. ASSUME NEW l \in Links, Reset(l)
       PROVE  hints' = hints
  BY <1>12 DEF Reset, membership
<1> QED BY <1>1, <1>3, <1>5, <1>6, <1>8, <1>9, <1>10, <1>11, <1>12 DEF LinksNext

(* A connection breaks when it is reset or a process at one end is killed. *)
LEMMA BrokenStep ==
    ASSUME TypeOK, LinksNext, NEW l \in Links, l \in broken', l \notin broken
    PROVE  tcp[l] # Absent /\ \/ l \in disturbed'
                              \/ (up')[tcp[l].from] = "down" \/ (up')[tcp[l].to] = "down"
<1>1. ASSUME NEW n \in Nodes, Start(n) \/ Stop(n) \/ \E m \in Nodes : Dial(n, m)
      PROVE  broken' = broken
  BY <1>1 DEF Start, Stop, Dial, faults
<1>2. ASSUME NEW n \in Nodes, Crash(n)
      PROVE  tcp[l] # Absent /\ \/ (up')[tcp[l].from] = "down"
                                \/ (up')[tcp[l].to] = "down"
  BY <1>2 DEF Crash, TypeOK
<1>3. ASSUME NEW n \in Nodes, NEW x \in SUBSET deadlines[n], Maintain(n, x)
      PROVE  broken' = broken
  BY <1>3 DEF Maintain, faults
<1>4. ASSUME NEW n \in Nodes, NEW k \in Links,
             \/ Accept(n, k) \/ Welcome(n, k) \/ Admitted(n, k) \/ Linked(n, k)
             \/ DialRefused(n, k) \/ TimedOut(n, k) \/ HearSnapshot(n, k) \/ Gone(n, k)
             \/ HearLeave(n, k) \/ SayLeave(n, k) \/ Cancelled(n, k) \/ Ended(n, k)
      PROVE  broken' = broken
  BY <1>4 DEF Accept, Welcome, Admitted, Linked, DialRefused, TimedOut, HearSnapshot, Gone,
              HearLeave, SayLeave, Cancelled, Ended, Leaves, faults
<1>5. ASSUME NEW k \in Links, Reset(k)
      PROVE  tcp[l] # Absent /\ l \in disturbed'
  BY <1>5 DEF Reset
<1> QED BY <1>1, <1>2, <1>3, <1>4, <1>5 DEF LinksNext

LEMMA CompanyStep ==
    ASSUME LinksInv, Company, SmallRoom, LinksNext
    PROVE  Company'
<1>1. TypeOK /\ Wired /\ Onward /\ \A l \in Links : (tcp')[l] = tcp[l] \/ Dialled(l)
  BY StepGoesOnward DEF LinksInv
<1>2. ASSUME NEW l \in Links, (tcp')[l] = Absent
      PROVE  /\ (answer')[l] = Absent /\ l \notin broken'
             /\ \A n \in Nodes : (goodbye')[n][l] = FALSE
  <2>1. tcp[l] = Absent
    BY <1>1, <1>2 DEF Onward
  <2>2. \A n \in Nodes : ~Between(l, n, n) /\ \A m \in Nodes : ~Between(l, n, m)
    BY <2>1 DEF Between
  <2>3. \A n \in Nodes : (goodbye')[n][l] = FALSE
    <3>1. ASSUME NEW n \in Nodes
          PROVE  (goodbye')[n][l] = goodbye[n][l] \/ (goodbye')[n][l] = FALSE
      BY <2>2, GoodbyeStep
    <3>2. \A n \in Nodes : goodbye[n][l] = FALSE
      BY <2>1 DEF Company
    <3> QED BY <3>1, <3>2
  <2> QED BY <1>1, <2>1, <2>3, AnswerStep, BrokenStep DEF Company
<1>3. ASSUME NEW l \in Links, (tcp')[l] # Absent
      PROVE  /\ (up')[(tcp')[l].from] # "off" /\ (up')[(tcp')[l].to] # "off"
             /\ Steam[(tcp')[l].from] # Steam[(tcp')[l].to]
             /\ l \in broken' => \/ l \in disturbed'
                                 \/ (up')[(tcp')[l].from] = "down"
                                 \/ (up')[(tcp')[l].to] = "down"
  <2>1. CASE Dialled(l)
    <3>1. l \notin broken /\ UNCHANGED <<up, broken>> /\ (tcp')[l] \in [from : Nodes, to : Nodes]
      BY <2>1 DEF Dialled, Company
    <3> QED BY <2>1, <3>1 DEF Dialled
  <2>2. CASE (tcp')[l] = tcp[l]
    <3>1. tcp[l] \in [from : Nodes, to : Nodes]
      BY <1>1, <1>3, <2>2 DEF TypeOK
    <3>2. /\ up[tcp[l].from] # "off" /\ up[tcp[l].to] # "off"
          /\ Steam[tcp[l].from] # Steam[tcp[l].to]
          /\ l \in broken => \/ l \in disturbed
                             \/ up[tcp[l].from] = "down" \/ up[tcp[l].to] = "down"
      BY <1>3, <2>2 DEF Company
    <3>3. tcp[l].from \in Nodes /\ tcp[l].to \in Nodes
      BY <3>1
    <3>4. (up')[tcp[l].from] # "off" /\ (up')[tcp[l].to] # "off"
      BY <1>1, <3>2, <3>3 DEF Onward
    <3>5. l \in broken' => \/ l \in disturbed'
                           \/ (up')[tcp[l].from] = "down" \/ (up')[tcp[l].to] = "down"
      BY <1>1, <3>2, <3>3, BrokenStep DEF Onward
    <3> QED BY <2>2, <3>2, <3>4, <3>5
  <2> QED BY <1>1, <2>1, <2>2
<1>4. ASSUME NEW n \in Nodes, NEW m \in Nodes, NEW l \in Links,
             Between(l, n, m)', (goodbye')[n][l] # FALSE
      PROVE  (up')[m] \in {"stopping", "down"}
  <2>1. \A k \in Nodes : (up')[k] \in {"off", "up", "stopping", "down"}
    BY TypeStep DEF TypeOK
  <2>2. CASE (goodbye')[n][l] = goodbye[n][l]
    <3>1. tcp[l] # Absent
      BY <1>4, <2>2 DEF Company
    <3>2. Between(l, n, m)
      BY <1>1, <1>4, <3>1 DEF Onward, Between
    <3>3. up[m] \in {"stopping", "down"}
      BY <1>4, <2>2, <3>2 DEF Company
    <3> QED BY <1>1, <2>1, <3>3 DEF Onward
  <2>3. CASE (goodbye')[n][l] # goodbye[n][l]
    <3>1. PICK k \in Nodes : Between(l, k, n) /\ k # n /\ (up')[k] = "stopping"
      BY <1>4, <2>3, GoodbyeStep
    <3>2. (tcp')[l] = tcp[l]
      BY <1>1, <3>1 DEF Between, Onward
    <3>3. k = m
      BY <1>4, <3>1, <3>2 DEF Between
    <3> QED BY <3>1, <3>3
  <2> QED BY <2>2, <2>3
<1> QED BY <1>2, <1>3, <1>4, GoodbyeStep, AnswerStep, HintsStep DEF Company

(* A connection that wins after a step has just been dialled, or it won    *)
(* before: nothing that spoils a win is ever undone.                       *)
LEMMA WinnerBefore ==
    ASSUME LinksInv, Company, Onward, NEW l \in Links, Winner(l)', tcp[l] # Absent
    PROVE  Winner(l) /\ (tcp')[l] = tcp[l]
<1> DEFINE a == tcp[l].from
           b == tcp[l].to
<1>1. (tcp')[l] = tcp[l] /\ a \in Nodes /\ b \in Nodes
  <2>1. tcp[l] \in [from : Nodes, to : Nodes]
    BY DEF LinksInv, TypeOK
  <2> QED BY <2>1 DEF Onward
<1>2. /\ (up')[a] = "up" /\ (up')[b] = "up"
      /\ \A k \in Links \cap disturbed' : ~Between(k, a, b)'
      /\ \A k \in Nodes \ {a, b} : Steam[k] \in {Steam[a], Steam[b]} => (up')[k] = "off"
      /\ \A k \in Links : Between(k, a, b)' => l <= k
  BY <1>1 DEF Winner, Free
<1>3. \A k \in Links : Between(k, a, b) => Between(k, a, b)'
  BY DEF Between, Onward
<1>4. \A k \in Nodes \ {a, b} : Steam[k] \in {Steam[a], Steam[b]} => up[k] = "off"
  BY <1>2 DEF Onward
<1>5. up[a] = "up" /\ up[b] = "up"
  BY <1>1, <1>2 DEF Onward, Company
<1>6. Free(a, b)
  <2>1. \A k \in Links \cap disturbed : ~Between(k, a, b)
    <3> SUFFICES ASSUME NEW k \in Links \cap disturbed, Between(k, a, b)
                 PROVE  FALSE
      OBVIOUS
    <3>1. k \in disturbed'
      BY DEF Onward
    <3> QED BY <1>2, <1>3, <3>1
  <2> QED BY <1>4, <1>5, <2>1 DEF Free
<1>7. \A k \in Links : Between(k, a, b) => l <= k
  BY <1>2, <1>3
<1> QED BY <1>1, <1>6, <1>7 DEF Winner

(* The winning connection is accepted wherever it arrives: neither account *)
(* has another instance in the room, and there is no lower link.           *)
LEMMA WinnerAccepted ==
    ASSUME LinksInv, Company, NEW l \in Links, Winner(l), NEW n \in Nodes, NEW m \in Nodes,
           Between(l, n, m), end[n][l] \in {"none", "asking"}
    PROVE  Accepted(n, m, l)
<1>1. /\ tcp[l] # Absent /\ tcp[l].from # tcp[l].to /\ n # m
      /\ {tcp[l].from, tcp[l].to} = {n, m}
  BY DEF Winner, Between, LinksInv, Wired
<1>2. /\ up[n] = "up" /\ Steam[n] # Steam[m]
      /\ \A k \in Nodes \ {n, m} : Steam[k] \in {Steam[n], Steam[m]} => up[k] = "off"
      /\ \A k \in Links : Between(k, n, m) => l <= k
  <2>1. Free(tcp[l].from, tcp[l].to) /\ Steam[tcp[l].from] # Steam[tcp[l].to]
    BY <1>1 DEF Winner, Company
  <2>2. \/ tcp[l].from = n /\ tcp[l].to = m
        \/ tcp[l].from = m /\ tcp[l].to = n
    BY <1>1
  <2>3. \A k \in Links : Between(k, n, m) => Between(k, tcp[l].from, tcp[l].to)
    BY <2>2 DEF Between
  <2>4. \A k \in Links : Between(k, n, m) => l <= k
    BY <2>3 DEF Winner
  <2> QED BY <2>1, <2>2, <2>4 DEF Free
<1>3. \A k \in Nodes : active[n][k] # Absent =>
         /\ active[n][k] \in Links /\ Between(active[n][k], n, k)
         /\ end[n][active[n][k]] \notin {"none", "asking"}
  <2> SUFFICES ASSUME NEW k \in Nodes, active[n][k] # Absent
               PROVE  /\ active[n][k] \in Links /\ Between(active[n][k], n, k)
                      /\ end[n][active[n][k]] \notin {"none", "asking"}
    OBVIOUS
  <2>1. active[n][k] \in Links
    BY DEF LinksInv, TypeOK
  <2> QED BY <1>2, <2>1 DEF LinksInv, Newest, NewestFor, Preferred
<1>4. ~DuplicateLost(n, m, l)
  <2> SUFFICES ASSUME DuplicateLost(n, m, l)
               PROVE  FALSE
    OBVIOUS
  <2>1. PICK a \in Links : a = active[n][m] /\ Between(a, n, m) /\ a <= l
                           /\ end[n][a] \notin {"none", "asking"}
    BY <1>3 DEF DuplicateLost
  <2>2. l <= a /\ a \in Nat /\ l \in Nat
    BY <1>2, <2>1, LanAssumption
  <2> QED BY <2>1, <2>2
<1>5. ~DuplicateSteamIdentity(n, m)
  <2> SUFFICES ASSUME NEW k \in Nodes \ {m}, active[n][k] # Absent, Steam[k] = Steam[m]
               PROVE  FALSE
    BY DEF DuplicateSteamIdentity
  <2>1. k # n /\ up[k] = "off"
    BY <1>2
  <2>2. PICK a \in Links : Between(a, n, k)
    BY <1>3
  <2> QED BY <2>1, <2>2, ZenonT(60) DEF Company, Between
<1> QED BY <1>2, <1>4, <1>5 DEF Accepted, SelfConnection

(* A step that leaves the connection alone leaves it winning.              *)
LEMMA StillWinning ==
    ASSUME TypeOK, NEW l \in Links, tcp[l] # Absent, (tcp')[l] = tcp[l],
           Winning(l, tcp[l].from, tcp[l].to),
           (end')[tcp[l].from][l] = end[tcp[l].from][l],
           (end')[tcp[l].to][l] = end[tcp[l].to][l],
           (answer')[l] = answer[l],
           \A x, y \in Nodes : Between(l, x, y) /\ active[x][y] = l => (active')[x][y] = l
    PROVE  Winning(l, tcp[l].from, tcp[l].to)'
<1>1. /\ tcp[l].from \in Nodes /\ tcp[l].to \in Nodes
      /\ Between(l, tcp[l].from, tcp[l].to) /\ Between(l, tcp[l].to, tcp[l].from)
  <2>1. tcp[l] \in [from : Nodes, to : Nodes]
    BY DEF TypeOK
  <2> QED BY <2>1 DEF Between
<1>2. PICK d \in Nodes, c \in Nodes : d = tcp[l].from /\ c = tcp[l].to
  BY <1>1
<1>3. Winning(l, d, c)
  BY <1>2
<1>4. /\ (end')[d][l] = end[d][l] /\ (end')[c][l] = end[c][l]
      /\ active[c][d] = l => (active')[c][d] = l
      /\ active[d][c] = l => (active')[d][c] = l
  BY <1>1, <1>2
<1>5. Winning(l, d, c)'
  BY <1>3, <1>4 DEF Winning
<1> QED BY <1>2, <1>5

(* No other link is accepted in its place.                                 *)
LEMMA WinnerKept ==
    ASSUME LinksInv, NEW l \in Links, Winner(l), NEW k \in Links, k # l,
           NEW n \in Nodes, NEW m \in Nodes, Between(k, n, m),
           Accepted(n, m, k), active' = Put(active, n, m, k)
    PROVE  \A x, y \in Nodes : Between(l, x, y) /\ active[x][y] = l => (active')[x][y] = l
<1>1. TypeOK /\ l \in Nat /\ k \in Nat
  BY LanAssumption DEF LinksInv
<1>2. \A x, y \in Nodes : (active')[x][y] = IF x = n /\ y = m THEN k ELSE active[x][y]
  BY <1>1, Puts
<1>3. ASSUME Between(l, n, m), active[n][m] = l
      PROVE  FALSE
  <2>1. Between(k, tcp[l].from, tcp[l].to)
    BY <1>3 DEF Between
  <2>2. l <= k
    BY <2>1 DEF Winner
  <2>3. l # Absent
    BY <1>1, LanAssumption
  <2> QED BY <1>3, <2>2, <2>3 DEF Accepted, DuplicateLost
<1> QED BY <1>2, <1>3

(* What a winning connection can rely on.                                  *)
WellKept(l, d, c) ==
    /\ tcp[l] # Absent /\ tcp[l].from = d /\ tcp[l].to = c /\ d # c
    /\ Peer(d, l) = c /\ Peer(c, l) = d
    /\ up[d] = "up" /\ up[c] = "up" /\ l \notin broken
    /\ goodbye[d][l] = FALSE /\ goodbye[c][l] = FALSE

LEMMA WinnersAreWellKept ==
    ASSUME LinksInv, Company, NEW l \in Links, Winner(l)
    PROVE  \E d, c \in Nodes : WellKept(l, d, c)
<1>1. tcp[l] \in [from : Nodes, to : Nodes] /\ tcp[l].from # tcp[l].to
  BY DEF LinksInv, TypeOK, Wired, Winner
<1>2. PICK d, c \in Nodes : d = tcp[l].from /\ c = tcp[l].to /\ d # c
  BY <1>1
<1>3. Between(l, d, c) /\ Between(l, c, d) /\ Peer(d, l) = c /\ Peer(c, l) = d
  BY <1>2 DEF Winner, Between, Peer
<1>4. up[d] = "up" /\ up[c] = "up" /\ l \notin disturbed
  BY <1>2, <1>3 DEF Winner, Free
<1>5. l \notin broken
  BY <1>2, <1>4 DEF Company, Winner
<1>6. goodbye[d][l] = FALSE /\ goodbye[c][l] = FALSE
  BY <1>3, <1>4 DEF Company
<1> QED BY <1>2, <1>3, <1>4, <1>5, <1>6 DEF WellKept, Winner

(* An end that acts on another connection does not touch the winning one.  *)
LEMMA OthersKeepWinner ==
    ASSUME LinksInv, NEW l \in Links, Winner(l), Winning(l, tcp[l].from, tcp[l].to),
           NEW n \in Nodes, NEW k \in Links, k # l,
           \/ Accept(n, k) \/ Welcome(n, k) \/ Admitted(n, k) \/ Linked(n, k)
           \/ DialRefused(n, k) \/ TimedOut(n, k)
           \/ HearLeave(n, k) \/ SayLeave(n, k) \/ Cancelled(n, k) \/ Ended(n, k) \/ Gone(n, k),
           Company
    PROVE  Winning(l, tcp[l].from, tcp[l].to)'
<1>1. /\ TypeOK /\ Wired /\ tcp[l] # Absent /\ tcp[l] \in [from : Nodes, to : Nodes]
      /\ tcp[l].from \in Nodes /\ tcp[l].to \in Nodes
  <2>1. tcp[l] \in [from : Nodes, to : Nodes] /\ tcp[l] # Absent
    BY DEF LinksInv, TypeOK, Winner
  <2> QED BY <2>1 DEF LinksInv
<1>2. tcp' = tcp /\ (end' = end \/ \E s \in Stages : Become(n, k, s))
  BY DEF Accept, Welcome, Admitted, Linked, DialRefused, TimedOut, HearLeave, SayLeave, Cancelled,
         Ended, Leaves, Gone, Stages
<1>3. \A x \in Nodes : (end')[x][l] = end[x][l]
  BY <1>1, <1>2, Puts DEF Become
<1>4. answer' = answer \/ \E v : answer' = [answer EXCEPT ![k] = v]
  BY DEF Accept, Welcome, Admitted, Linked, DialRefused, TimedOut, HearLeave, SayLeave, Cancelled,
         Ended, Leaves, Gone, wires
<1>5. (answer')[l] = answer[l]
  BY <1>4 DEF Company
<1>6. CASE Accept(n, k) /\ active' # active
  <2>1. /\ tcp[k] # Absent /\ tcp[k].to = n /\ Accepted(n, tcp[k].from, k)
        /\ active' = Put(active, n, tcp[k].from, k)
    BY <1>6 DEF Accept, register, membership
  <2>2. tcp[k] \in [from : Nodes, to : Nodes]
    BY <1>1, <2>1 DEF TypeOK
  <2>3. tcp[k].from \in Nodes /\ Between(k, n, tcp[k].from)
    BY <2>1, <2>2 DEF Between
  <2> QED BY <1>1, <1>2, <1>3, <1>5, <2>1, <2>3, WinnerKept, StillWinning
<1>7. CASE Admitted(n, k) /\ active' # active
  <2>1. /\ end[n][k] = "asking" /\ Accepted(n, tcp[k].to, k)
        /\ active' = Put(active, n, tcp[k].to, k)
    BY <1>7 DEF Admitted, register
  <2>2. tcp[k].to \in Nodes /\ Between(k, n, tcp[k].to)
    <3>1. tcp[k].from = n
      BY <1>1, <2>1 DEF Wired
    <3> QED BY <1>1, <2>1, <3>1, PeerIs
  <2> QED BY <1>1, <1>2, <1>3, <1>5, <2>1, <2>2, WinnerKept, StillWinning
<1>8. CASE active' # active /\ ~Accept(n, k) /\ ~Admitted(n, k)
  <2>1. /\ end[n][k] = "running" /\ active[n][Peer(n, k)] = k
        /\ active' = Put(active, n, Peer(n, k), Absent)
    BY <1>8 DEF Welcome, Linked, DialRefused, TimedOut, HearLeave, SayLeave, Cancelled, Ended,
                Leaves, remove_link, Gone, membership
  <2>2. Peer(n, k) \in Nodes
    BY <1>1, <2>1, PeerIs
  <2>3. \A x, y \in Nodes : active[x][y] = l => (active')[x][y] = l
    BY <1>1, <2>1, <2>2, Puts
  <2> QED BY <1>1, <1>2, <1>3, <1>5, <2>3, StillWinning
<1>9. CASE active' = active
  BY <1>1, <1>2, <1>3, <1>5, <1>9, StillWinning
<1> QED BY <1>6, <1>7, <1>8, <1>9

(* The ends of the winning connection bring it to running, and there it    *)
(* stays.                                                                  *)
LEMMA WinnerGoesOn ==
    ASSUME LinksInv, Company, SmallRoom, NEW l \in Links, Winner(l), Winner(l)',
           Winning(l, tcp[l].from, tcp[l].to), NEW n \in Nodes,
           \/ Accept(n, l) \/ Welcome(n, l) \/ Admitted(n, l) \/ Linked(n, l)
           \/ DialRefused(n, l) \/ TimedOut(n, l)
           \/ HearLeave(n, l) \/ SayLeave(n, l) \/ Cancelled(n, l) \/ Ended(n, l) \/ Gone(n, l)
    PROVE  Winning(l, tcp[l].from, tcp[l].to)'
<1>1. PICK d, c \in Nodes : WellKept(l, d, c)
  BY WinnersAreWellKept
<1>2. TypeOK /\ Wired /\ Winning(l, d, c)
  BY <1>1 DEF LinksInv, WellKept
<1>3. /\ tcp' = tcp /\ n \in {d, c}
      /\ {"registered", "running", "closed"} \subseteq Stages
  <2>1. tcp' = tcp
    BY DEF Accept, Welcome, Admitted, Linked, DialRefused, TimedOut, HearLeave, SayLeave, Cancelled,
           Ended, Leaves, Gone
  <2>2. end[n][l] # "none" \/ tcp[l].to = n
    BY DEF Accept, Welcome, Admitted, Linked, DialRefused, TimedOut, HearLeave, SayLeave, Cancelled,
           Ended, Gone
  <2> QED BY <1>1, <1>2, <2>1, <2>2 DEF WellKept, Wired, Stages
<1>4. SUFFICES Winning(l, d, c)'
  BY <1>1, <1>3 DEF WellKept
<1>5. Between(l, d, c) /\ Between(l, c, d) /\ d # c
  BY <1>1 DEF WellKept, Between
<1>6. CASE Accept(n, l)
  <2>1. n = c /\ end[c][l] = "none" /\ end[d][l] = "asking" /\ answer[l] = Absent
    BY <1>1, <1>2, <1>6 DEF Accept, WellKept, Winning
  <2>2. Accepted(c, d, l)
    BY <1>5, <2>1, WinnerAccepted
  <2>3. active' = Put(active, c, d, l) /\ end' = Put(end, c, l, "registered") /\ answer' = answer
    BY <1>1, <1>6, <2>1, <2>2 DEF Accept, WellKept, register, Become
  <2>4. (active')[c][d] = l /\ (end')[c][l] = "registered" /\ (end')[d][l] = "asking"
    BY <1>2, <1>3, <1>5, <2>1, <2>3, Puts
  <2> QED BY <2>1, <2>3, <2>4 DEF Winning
<1>7. CASE Welcome(n, l)
  <2>1. n = c /\ end[c][l] = "registered" /\ end[d][l] = "asking" /\ active[c][d] = l
    BY <1>1, <1>2, <1>5, <1>7 DEF Welcome, WellKept, Winning
  <2>2. /\ answer' = [answer EXCEPT ![l] = JoinAccepted(snapshot(c))]
        /\ end' = Put(end, c, l, "running") /\ active' = active
    BY <1>1, <1>7, <2>1 DEF Welcome, WellKept, Become, membership
  <2>3. (answer')[l] = JoinAccepted(snapshot(c)) /\ c \in snapshot(c)
    BY <2>2, SnapshotNamesItsNode DEF Company
  <2>4. (answer')[l].peers = snapshot(c)
    BY <2>3 DEF JoinAccepted
  <2>5. (end')[c][l] = "running" /\ (end')[d][l] = "asking" /\ (active')[c][d] = l
    BY <1>2, <1>3, <1>5, <2>1, <2>2, Puts
  <2> QED BY <2>3, <2>4, <2>5 DEF Winning
<1>8. CASE Admitted(n, l)
  <2>1. /\ n = d /\ end[d][l] = "asking" /\ answer[l] # Absent
        /\ end[c][l] = "running" /\ active[c][d] = l
    BY <1>1, <1>2, <1>3, <1>8 DEF Admitted, WellKept, Winning
  <2>2. Accepted(d, c, l)
    BY <1>5, <2>1, WinnerAccepted
  <2>3. active' = Put(active, d, c, l) /\ end' = Put(end, d, l, "registered")
    BY <1>1, <1>8, <2>1, <2>2 DEF Admitted, WellKept, register, Become
  <2>4. /\ (active')[d][c] = l /\ (active')[c][d] = l
        /\ (end')[d][l] = "registered" /\ (end')[c][l] = "running"
    BY <1>2, <1>3, <1>5, <2>1, <2>3, Puts
  <2> QED BY <2>4 DEF Winning
<1>9. CASE Linked(n, l)
  <2>1. /\ n = d /\ end[d][l] = "registered" /\ end[c][l] = "running"
        /\ active[d][c] = l /\ active[c][d] = l
    BY <1>1, <1>2, <1>9 DEF Linked, WellKept, Winning
  <2>2. active' = active /\ end' = Put(end, d, l, "running")
    BY <1>9, <2>1 DEF Linked, Become
  <2>3. (end')[d][l] = "running" /\ (end')[c][l] = "running"
    BY <1>2, <1>3, <1>5, <2>1, <2>2, Puts
  <2> QED BY <2>1, <2>2, <2>3 DEF Winning
<1>10. CASE DialRefused(n, l)
  <2>1. n = d /\ end[d][l] = "asking" /\ l \notin broken /\ up[c] = "up" /\ tcp[l].to = c
    BY <1>1, <1>2, <1>10 DEF DialRefused, WellKept, Wired
  <2>2. answer[l] # Absent /\ (answer[l].ok => c \notin answer[l].peers)
    BY <1>10, <2>1 DEF DialRefused
  <2>3. answer[l] = JoinAccepted(answer[l].peers) /\ c \in answer[l].peers
    BY <1>2, <2>1, <2>2 DEF Winning
  <2>4. answer[l].ok = TRUE
    BY <2>3 DEF JoinAccepted
  <2> QED BY <2>2, <2>3, <2>4
<1>11. CASE TimedOut(n, l)
  <2>1. l \in disturbed'
    BY <1>11 DEF TimedOut
  <2>2. Between(l, d, c)' /\ (tcp')[l].from = d /\ (tcp')[l].to = c
    BY <1>1, <1>3, <1>5 DEF Between, WellKept
  <2> QED BY <2>1, <2>2 DEF Winner, Free
<1>12. CASE HearLeave(n, l) \/ SayLeave(n, l) \/ Cancelled(n, l) \/ Ended(n, l) \/ Gone(n, l)
  <2>1. /\ end[c][l] = "running" => active[c][d] = l
        /\ end[d][l] = "running" => active[d][c] = l
        /\ end[c][l] \in {"none", "registered", "running"}
        /\ end[d][l] \in {"asking", "registered", "running"}
    BY <1>2 DEF Winning
  <2>2. up[n] = "up" /\ goodbye[n][l] = FALSE /\ l \notin broken
    BY <1>1, <1>3 DEF WellKept
  <2>3. Peer(d, l) = c /\ Peer(c, l) = d
    BY <1>1 DEF WellKept
  <2>4. end[n][l] \in {"none", "asking", "registered", "running"}
        /\ end[Peer(n, l)][l] \in {"none", "asking", "registered", "running"}
    BY <1>3, <2>1, <2>3
  <2>5. end[n][l] = "running" => active[n][Peer(n, l)] = l
    BY <1>3, <2>1, <2>3
  <2> QED BY <1>12, <2>2, <2>4, <2>5
          DEF HearLeave, SayLeave, Cancelled, Replaced, Ended, Gone
<1> QED BY <1>6, <1>7, <1>8, <1>9, <1>10, <1>11, <1>12

LEMMA AgreedStep ==
    ASSUME LinksInv, Company, SmallRoom, Agreed, LinksNext
    PROVE  Agreed'
<1>1. /\ TypeOK /\ Wired /\ Onward /\ \A l \in Links : (tcp')[l] = tcp[l] \/ Dialled(l)
      /\ TypeOK'
  BY StepGoesOnward, TypeStep DEF LinksInv
<1> SUFFICES ASSUME NEW l \in Links, Winner(l)'
             PROVE  Winning(l, tcp[l].from, tcp[l].to)'
  BY DEF Agreed
<1>2. CASE tcp[l] = Absent
  <2>1. (tcp')[l] # Absent
    BY DEF Winner
  <2>2. Dialled(l)
    BY <1>1, <1>2, <2>1
  <2>3. PICK d, c \in Nodes : d = (tcp')[l].from /\ c = (tcp')[l].to
    BY <2>2 DEF Dialled
  <2>4. d # c
    BY <2>2, <2>3 DEF Dialled
  <2>5. end' = Put(end, d, l, "asking") /\ (answer')[l] = Absent /\ end[c][l] = "none"
    BY <1>1, <1>2, <2>2, <2>3 DEF Dialled, Company, Wired
  <2>6. "asking" \in Stages
    BY DEF Stages
  <2>7. (end')[d][l] = "asking" /\ (end')[c][l] = "none"
    BY <1>1, <2>4, <2>5, <2>6, Puts
  <2>8. Winning(l, d, c)'
    BY <2>5, <2>7 DEF Winning
  <2> QED BY <2>3, <2>8
<1>3. CASE tcp[l] # Absent
  <2>1. /\ Winner(l) /\ (tcp')[l] = tcp[l] /\ Winning(l, tcp[l].from, tcp[l].to)
        /\ tcp[l].from \in Nodes /\ tcp[l].to \in Nodes
    <3>1. Winner(l) /\ (tcp')[l] = tcp[l]
      BY <1>1, <1>3, WinnerBefore
    <3>2. tcp[l] \in [from : Nodes, to : Nodes]
      BY <1>1, <1>3 DEF TypeOK
    <3> QED BY <3>1, <3>2 DEF Agreed
  <2>2. ASSUME UNCHANGED <<active, end, answer>>
        PROVE  Winning(l, tcp[l].from, tcp[l].to)'
    BY <1>1, <1>3, <2>1, <2>2, StillWinning
  <2>3. ASSUME NEW n \in Nodes, Start(n) \/ Stop(n)
        PROVE  UNCHANGED <<active, end, answer>>
    BY <2>3 DEF Start, Stop, membership, wires
  <2>4. ASSUME NEW n \in Nodes, Crash(n)
        PROVE  Winning(l, tcp[l].from, tcp[l].to)'
    <3>1. (up')[n] = "down"
      BY <1>1, <2>4 DEF Crash, TypeOK
    <3>2. (up')[tcp[l].from] = "up" /\ (up')[tcp[l].to] = "up"
      BY <2>1 DEF Winner, Free
    <3>3. \A x \in Nodes : x # n => (end')[x] = end[x] /\ (active')[x] = active[x]
      BY <1>1, <2>4 DEF Crash, TypeOK
    <3>4. answer' = answer
      BY <2>4 DEF Crash, wires
    <3>5. \A x, y \in Nodes : Between(l, x, y) /\ active[x][y] = l => (active')[x][y] = l
      BY <3>1, <3>2, <3>3 DEF Between
    <3> QED BY <1>1, <1>3, <2>1, <3>1, <3>2, <3>3, <3>4, <3>5, StillWinning
  <2>5. ASSUME NEW n \in Nodes, NEW m \in Nodes, Dial(n, m)
        PROVE  Winning(l, tcp[l].from, tcp[l].to)'
    <3>1. active' = active /\ answer' = answer
      BY <2>5 DEF Dial, wires
    <3>2. end' = end \/ \E k \in Links : tcp[k] = Absent /\ end' = Put(end, n, k, "asking")
      BY <2>5 DEF Dial, Become
    <3>3. "asking" \in Stages
      BY DEF Stages
    <3>4. \A x \in Nodes : (end')[x][l] = end[x][l]
      BY <1>1, <1>3, <3>2, <3>3, Puts
    <3> QED BY <1>1, <1>3, <2>1, <3>1, <3>4, StillWinning
  <2>6. ASSUME NEW n \in Nodes, NEW x \in SUBSET deadlines[n], Maintain(n, x)
        PROVE  UNCHANGED <<active, end, answer>>
    BY <2>6 DEF Maintain, wires
  <2>7. ASSUME NEW n \in Nodes, NEW k \in Links,
               \/ Accept(n, k) \/ Welcome(n, k) \/ Admitted(n, k) \/ Linked(n, k)
               \/ DialRefused(n, k) \/ TimedOut(n, k)
               \/ HearLeave(n, k) \/ SayLeave(n, k) \/ Cancelled(n, k) \/ Ended(n, k)
               \/ Gone(n, k)
        PROVE  Winning(l, tcp[l].from, tcp[l].to)'
    <3>1. CASE k = l
      BY <2>1, <2>7, <3>1, WinnerGoesOn
    <3>2. CASE k # l
      BY <2>1, <2>7, <3>2, OthersKeepWinner
    <3> QED BY <3>1, <3>2
  <2>8. ASSUME NEW n \in Nodes, NEW k \in Links, HearSnapshot(n, k)
        PROVE  UNCHANGED <<active, end, answer>>
    BY <2>8 DEF HearSnapshot, wires
  <2>9. ASSUME NEW k \in Links, Reset(k)
        PROVE  UNCHANGED <<active, end, answer>>
    BY <2>9 DEF Reset, membership, wires
  <2> QED BY <2>2, <2>3, <2>4, <2>5, <2>6, <2>7, <2>8, <2>9 DEF LinksNext
<1> QED BY <1>2, <1>3

LEMMA MeetInit == LinksInit => Company /\ Agreed
<1> SUFFICES ASSUME LinksInit
             PROVE  Company /\ Agreed
  OBVIOUS
<1>1. \A l \in Links : tcp[l] = Absent
  BY DEF LinksInit
<1>2. Agreed
  BY <1>1 DEF Agreed, Winner
<1>3. Company
  BY <1>1 DEF LinksInit, Company, Between
<1> QED BY <1>2, <1>3

LEMMA MeetStep ==
    ASSUME SmallRoom, MeetInv, [LinksNext]_linksVars
    PROVE  MeetInv'
<1>1. CASE LinksNext
  BY <1>1, LinksStep, CompanyStep, AgreedStep DEF MeetInv
<1>2. CASE UNCHANGED linksVars
  <2>1. /\ UNCHANGED <<up, tcp, end, epoch, nextEpoch, active, path, latest>>
        /\ UNCHANGED <<hints, answer, goodbye, broken, disturbed>>
    BY <1>2 DEF linksVars, membership, paths, wires, faults
  <2>2. LinksInv' /\ Company' /\ (\A l \in Links : Winner(l)' <=> Winner(l))
    BY <1>2, <2>1, LinksStep DEF MeetInv, Company, Between, Winner, Free
  <2>3. Agreed'
    BY <2>1, <2>2 DEF MeetInv, Agreed, Winning
  <2> QED BY <2>2, <2>3 DEF MeetInv
<1> QED BY <1>1, <1>2

(* Some connection between the two is the lowest.                          *)
LEMMA LowestLink ==
    ASSUME NEW a, NEW b, NEW k \in Links, Between(k, a, b)
    PROVE  \E l \in Links : Between(l, a, b) /\ \A j \in Links : Between(j, a, b) => l <= j
<1> DEFINE S == {l \in Links : Between(l, a, b)}
<1>1. S \subseteq Nat /\ S # {}
  BY LanAssumption
<1>2. PICK l \in S : \A j \in S : <<j, l>> \notin OpToRel(<, Nat)
  BY ONLY <1>1, NatLessThanWellFounded, WFMin
<1>3. \A j \in S : l <= j
  <2> SUFFICES ASSUME NEW j \in S, ~(l <= j)
               PROVE  FALSE
    OBVIOUS
  <2>1. j \in Nat /\ l \in Nat /\ j < l
    BY <1>1
  <2> QED BY <1>2, <2>1 DEF OpToRel
<1> QED BY <1>3

(* In a room that one snapshot can name: however two nodes dial each       *)
(* other, when every connection between them has been dealt with they hold *)
(* the same link (membership.rs register, link.rs establish_outbound and   *)
(* accept_inbound_join).  The lowest link id between them is never given   *)
(* up by either, so it is the one.                                         *)
THEOREM DialsMeet ==
    ASSUME SmallRoom
    PROVE  LinksSpec => []DialsConverge
<1>1. ASSUME MeetInv
      PROVE  DialsConverge
  <2> SUFFICES ASSUME NEW a \in Nodes, NEW b \in Nodes, a # b, up[a] = "up", up[b] = "up",
                      NEW k \in Links, Between(k, a, b),
                      \A l \in disturbed : ~Between(l, a, b),
                      \A j \in Nodes \ {a, b} : Steam[j] \in {Steam[a], Steam[b]} => up[j] = "off",
                      LinksSettled(a, b)
               PROVE  active[a][b] # Absent /\ active[a][b] = active[b][a]
    BY DEF DialsConverge
  <2>1. PICK l \in Links : /\ Between(l, a, b)
                           /\ \A j \in Links : Between(j, a, b) => l <= j
    BY LowestLink
  <2>2. /\ tcp[l] # Absent
        /\ \/ tcp[l].from = a /\ tcp[l].to = b
           \/ tcp[l].from = b /\ tcp[l].to = a
    BY <2>1 DEF Between
  <2>3. Winner(l)
    BY <2>1, <2>2 DEF Winner, Free, Between
  <2>4. Winning(l, tcp[l].from, tcp[l].to)
    BY <1>1, <2>3 DEF MeetInv, Agreed
  <2>5. /\ end[a][l] \in {"running", "closed"} /\ end[b][l] = end[a][l]
    BY <2>1 DEF LinksSettled
  <2>6. active[a][b] = l /\ active[b][a] = l
    BY <2>2, <2>4, <2>5 DEF Winning
  <2>7. l # Absent
    BY LanAssumption
  <2> QED BY <2>6, <2>7
<1>2. LinksInit => MeetInv
  BY LinksBegin, MeetInit DEF MeetInv
<1>3. MeetInv /\ [LinksNext]_linksVars => MeetInv'
  BY MeetStep
<1> QED BY <1>1, <1>2, <1>3, PTL DEF LinksSpec

=============================================================================

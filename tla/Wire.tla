-------------------------------- MODULE Wire --------------------------------
(***************************************************************************)
(* The wire formats: the binary frames of the Relay Protocol and of the    *)
(* direct protocol (relay-protocol/src/frame.rs,                           *)
(* direct-protocol/src/frame.rs) and the negotiation that precedes them on *)
(* a Relay connection (relay-protocol/src/bootstrap.rs, the relay's and    *)
(* the client's negotiate).                                                *)
(*                                                                         *)
(* Bytes are abstracted to CELLS: one field of a frame is one cell, so a   *)
(* length is a number of cells.  Every check of the decoders is on a       *)
(* length, on the position of a field or on its being zero, all of which a *)
(* cell keeps.  A read past the end of the buffer, which panics in the     *)
(* code, yields Beyond.                                                    *)
(***************************************************************************)
EXTENDS Integers, Sequences, SequencesExt, FiniteSets

CONSTANTS
    MaxDataPayload,     \* MAX_DATA_PAYLOAD, in cells
    MaxControlPayload,  \* MAX_CONTROL_PAYLOAD, in cells
    Builds,             \* the minors of PROTOCOL_MINOR among the builds in use
    MaxDamage           \* bound: how often a datagram is altered on its way

ASSUME WireAssumption ==
    /\ MaxDataPayload \in Nat \ {0}
    /\ MaxControlPayload \in Nat
    /\ Builds \subseteq Nat /\ Builds # {}
    /\ MaxDamage \in Nat

VARIABLES
    frame,      \* the frame that was sent: protocol, kind, fields, payload
    datagram,   \* the cells on the wire
    damage,     \* how many times they were altered
    talk        \* the bootstrap connection: builds, profile, progress

frameVars == <<frame, datagram, damage>>
wireVars  == <<frameVars, talk>>

-----------------------------------------------------------------------------
(* The formats.  What a decoder demands of each field of a kind: nothing,  *)
(* that it is not zero, that it is a phase, that it is zero (reserved), or *)
(* that it is not zero and not the sender (the target of a path).          *)

RelayFields == [client_control |-> <<>>,
                server_control |-> <<>>,
                data  |-> <<"set", "set", "any", "any", "set", "set", "any">>,
                probe |-> <<"set", "set", "any", "any", "phase", "zero">>]

PathFields == <<"set", "set", "set", "set", "target">>

DirectFields == [check     |-> PathFields \o <<"set", "phase", "zero">>,
                 heartbeat |-> PathFields \o <<"set", "phase", "zero">>,
                 data      |-> PathFields \o <<"set", "set", "set", "any">>]

Fields(p) == IF p = "relay" THEN RelayFields ELSE DirectFields

(* The kinds in the order of their codes. *)
FrameKind(p) == IF p = "relay"
                THEN <<"client_control", "server_control", "data", "probe">>
                ELSE <<"check", "heartbeat", "data">>

Magic(p) == IF p = "relay" THEN 1 ELSE 2
Major(p) == IF p = "relay" THEN 3 ELSE 2
Minor    == 0

MaxPayload(k) == CASE k = "data" -> MaxDataPayload
                   [] k \in {"client_control", "server_control"} -> MaxControlPayload
                   [] OTHER -> 0

CommonHeaderLen == 8
HeaderLen(p, k) == CommonHeaderLen + Len(Fields(p)[k])

(* The sender's SteamID64 is the third field of a path, its target the     *)
(* fifth.                                                                  *)
FieldOk(p, demand, fields, i) ==
    CASE demand = "any"    -> TRUE
      [] demand = "set"    -> fields[i] # 0
      [] demand = "phase"  -> fields[i] \in {1, 2}
      [] demand = "zero"   -> fields[i] = 0
      [] demand = "target" -> fields[i] # 0 /\ fields[i] # fields[3]

ValidFields(p, k, fields) ==
    \A i \in 1 .. Len(Fields(p)[k]) : FieldOk(p, Fields(p)[k][i], fields, i)

-----------------------------------------------------------------------------
(* Encoding: the checks of the encoder, then the header, the fields and    *)
(* the payload.  An enum is always one of its values and the reserved      *)
(* bytes are written as zeros.                                             *)

Rejected == <<>>

put_common_header(p, k, payload) ==
    LET code == CHOOSE c \in DOMAIN FrameKind(p) : FrameKind(p)[c] = k
    IN  <<Magic(p), Major(p), Minor, code, 0, HeaderLen(p, k), 0, Len(payload)>>

encode(f) ==
    IF /\ ValidFields(f.protocol, f.kind, f.fields)
       /\ Len(f.payload) <= MaxPayload(f.kind)
    THEN put_common_header(f.protocol, f.kind, f.payload) \o f.fields \o f.payload
    ELSE Rejected

-----------------------------------------------------------------------------
(* Decoding.  The checks of the common header come first, the lengths      *)
(* before any field is read; a longer header than the kind needs is        *)
(* skipped, so that a later minor may append fields.                       *)

Beyond == -1
At(d, i) == IF i <= Len(d) THEN d[i] ELSE Beyond

HeaderOk(p, d) ==
    /\ Len(d) >= CommonHeaderLen
    /\ d[1] = Magic(p)
    /\ d[2] = Major(p)
    /\ d[3] <= Minor
    /\ d[4] \in DOMAIN FrameKind(p)
    /\ d[5] = 0
    /\ d[7] = 0

(* Mutant: bytes after the payload are ignored. *)
LengthsAtLeast(p, k, d) ==
    /\ d[6] >= HeaderLen(p, k)
    /\ d[8] <= MaxPayload(k)
    /\ Len(d) >= d[6] + d[8]

LengthsOk(p, k, d) ==
    /\ d[6] >= HeaderLen(p, k)
    /\ d[8] <= MaxPayload(k)
    /\ Len(d) = d[6] + d[8]

ReadFields(p, k, d) == [i \in 1 .. Len(Fields(p)[k]) |-> At(d, CommonHeaderLen + i)]
ReadPayload(d)      == [i \in 1 .. d[8] |-> At(d, d[6] + i)]

NoWireFrame == [protocol |-> "none", kind |-> "none", fields |-> <<>>, payload |-> <<>>]

decode_frame(p, d) ==
    IF ~HeaderOk(p, d) THEN NoWireFrame
    ELSE LET k == FrameKind(p)[d[4]]
         IN  IF LengthsOk(p, k, d) /\ ValidFields(p, k, ReadFields(p, k, d))
             THEN [protocol |-> p, kind |-> k,
                   fields |-> ReadFields(p, k, d), payload |-> ReadPayload(d)]
             ELSE NoWireFrame

-----------------------------------------------------------------------------
(* A datagram on its way: sent by either protocol, and altered by a peer   *)
(* that builds frames differently or by whatever sits in between.          *)

Cells == 0 .. 3

(* A representative frame of every kind: distinct ids, so that a field     *)
(* read from another's place shows, and every length of payload.           *)
Frames ==
    UNION {{[protocol |-> p, kind |-> k,
             fields |-> [i \in 1 .. Len(Fields(p)[k]) |->
                            CASE Fields(p)[k][i] = "zero"   -> 0
                              [] Fields(p)[k][i] = "phase"  -> 2
                              [] Fields(p)[k][i] = "target" -> 2
                              [] OTHER -> IF i % 2 = 1 THEN 3 ELSE 1],
             payload |-> [i \in 1 .. n |-> 3]] :
                 k \in ToSet(FrameKind(p)), n \in 0 .. MaxDataPayload} :
           p \in {"relay", "direct"}}

FrameInit ==
    /\ frame \in {f \in Frames : Len(f.payload) <= MaxPayload(f.kind)}
    /\ datagram = encode(frame)
    /\ damage = 0

Altered(d) ==
    /\ damage < MaxDamage
    /\ datagram' = d
    /\ damage' = damage + 1
    /\ UNCHANGED <<frame, talk>>

ChangeCell == \E i \in DOMAIN datagram :
    \/ \E v \in Cells : Altered([datagram EXCEPT ![i] = v])
    \/ \E n \in {-1, 1} : /\ datagram[i] + n >= 0
                          /\ Altered([datagram EXCEPT ![i] = @ + n])

Truncate == \E n \in 0 .. Len(datagram) : Altered(SubSeq(datagram, 1, n))

Append1 == \E v \in Cells : Altered(Append(datagram, v))

(* A peer whose header is longer by one cell, with its length right. *)
ExtendHeader ==
    /\ Len(datagram) >= CommonHeaderLen
    /\ datagram[6] <= Len(datagram)
    /\ \E v \in Cells :
         Altered(InsertAt([datagram EXCEPT ![6] = @ + 1], datagram[6] + 1, v))

FrameStep == ChangeCell \/ Truncate \/ Append1 \/ ExtendHeader

(* A datagram is taken for a frame only if all of it is accounted for: no  *)
(* field is read beyond its end, the frame it yields is one the encoder    *)
(* would send, and encoding that gives the datagram back, up to the minor  *)
(* and to a header that a later minor made longer.  The frame that was     *)
(* sent arrives as it was, and neither protocol takes the other's frames   *)
(* (decode_frame and encode of both frame.rs).                             *)
FramesAreWhole ==
    \A p \in {"relay", "direct"} :
        LET f == decode_frame(p, datagram)
            e == encode(f)
            h == HeaderLen(p, f.kind)
            n == Len(f.payload)
        IN  f # NoWireFrame =>
            /\ Beyond \notin ToSet(f.fields) \cup ToSet(f.payload)
            /\ e # Rejected
            /\ Len(datagram) - Len(e) = datagram[6] - h
            /\ SubSeq(datagram, 1, h) = [SubSeq(e, 1, h) EXCEPT ![3] = datagram[3],
                                                             ![6] = datagram[6]]
            /\ SubSeq(datagram, Len(datagram) - n + 1, Len(datagram)) = f.payload
            /\ damage = 0 => f = frame
            /\ \A q \in {"relay", "direct"} \ {p} : decode_frame(q, datagram) = NoWireFrame

-----------------------------------------------------------------------------
(* Negotiation on a Relay connection.  Each build offers the minors up to  *)
(* its own; talk.client and talk.relay are their PROTOCOL_MINOR.           *)

Range0(minor) == [major |-> Major("relay"), min_minor |-> 0, max_minor |-> minor]

(* The newest version present in both advertised lists. *)
Common(ours, theirs) ==
    {v \in [major : {r.major : r \in ToSet(ours)},
            minor : {r.max_minor : r \in ToSet(ours) \cup ToSet(theirs)}] :
        \E r \in ToSet(ours), s \in ToSet(theirs) :
            /\ r.major = s.major
            /\ v.major = r.major
            /\ v.minor = (IF r.max_minor < s.max_minor THEN r.max_minor ELSE s.max_minor)
            /\ v.minor >= r.min_minor /\ v.minor >= s.min_minor}

Newer(v, w) == v.major > w.major \/ (v.major = w.major /\ v.minor >= w.minor)

NoVersion == [major |-> 0, minor |-> 0]

select_protocol(ours, theirs) ==
    LET common == Common(ours, theirs)
    IN  IF \/ \E r \in ToSet(ours) \cup ToSet(theirs) : r.min_minor > r.max_minor
           \/ common = {}
        THEN NoVersion
        ELSE CHOOSE v \in common : \A w \in common : Newer(v, w)

Known == {"tcp", "udp", "resume", "room_path_probe"}

(* The capabilities of a connection, or a refusal. *)
select_capabilities(required, optional, available) ==
    IF required \subseteq (available \cap Known)
    THEN [ok |-> TRUE, enabled |-> required \cup (optional \cap available \cap Known)]
    ELSE [ok |-> FALSE, enabled |-> {}]

(* The profile the user chose, whether the relay has a UDP socket, and     *)
(* whether a peer speaks another bootstrap schema.                         *)
TalkInit == talk \in [state : {"start"}, client : Builds, relay : Builds,
                      choice : {"tcp", "udp"}, udp : BOOLEAN, schema : {1, 2},
                      answer : {"none"}, enabled : {{}}, version : {NoVersion}]

Required == {"resume", talk.choice}

(* The relay reads ClientHello and answers. *)
RelayNegotiates ==
    LET available == {"tcp", "resume", "room_path_probe"}
                        \cup (IF talk.udp THEN {"udp"} ELSE {})
        version == select_protocol(<<Range0(talk.client)>>, <<Range0(talk.relay)>>)
        caps    == select_capabilities(Required, {"tcp", "udp", "room_path_probe"}, available)
    IN  /\ talk.state = "start"
        /\ talk' = [talk EXCEPT
              !.state  = "answered",
              !.answer = IF talk.schema # 1 THEN "UnsupportedBootstrapSchema"
                         ELSE IF version = NoVersion THEN "UnsupportedProtocol"
                         ELSE IF ~caps.ok THEN "MissingRequiredCapabilities"
                         ELSE "ServerHello",
              !.version = version,
              !.enabled = caps.enabled]
        /\ UNCHANGED frameVars

(* The client takes only its own version and all it required. *)
ClientNegotiates ==
    /\ talk.state = "answered"
    /\ talk' = [talk EXCEPT !.state =
          IF /\ talk.answer = "ServerHello"
             /\ talk.version = [major |-> Major("relay"), minor |-> talk.client]
             /\ Required \subseteq talk.enabled
          THEN "joined" ELSE "incompatible"]
    /\ UNCHANGED frameVars

(* A connection that both ends accepted speaks the newest version both     *)
(* know and moves data the way the user chose, and the connection is not   *)
(* accepted by one end for reasons the other would refuse: an older client *)
(* joins every newer relay that has its transport (negotiate of            *)
(* server/control.rs and relay_transport/bootstrap.rs).                    *)
NegotiationHolds ==
    /\ talk.state = "joined" =>
          /\ talk.version.minor =
                (IF talk.client < talk.relay THEN talk.client ELSE talk.relay)
          /\ {"resume", talk.choice} \subseteq talk.enabled
          /\ "udp" \in talk.enabled => talk.udp
    /\ talk.state = "incompatible" =>
          \/ talk.schema # 1
          \/ talk.client > talk.relay
          \/ talk.choice = "udp" /\ ~talk.udp

(* A connection is negotiated, and frames cross on it.                     *)
WireSpec ==
    FrameInit /\ TalkInit /\ [][FrameStep \/ RelayNegotiates \/ ClientNegotiates]_wireVars

(* Both ends agree: about a connection, and about each frame on it.        *)
WireAgrees == FramesAreWhole /\ NegotiationHolds
=============================================================================

------------------------------ MODULE LanInvite ------------------------------
(***************************************************************************)
(* How a LAN room is opened and found: the adapters the host picks, the    *)
(* endpoints it binds and advertises, the Join Code that carries them, and *)
(* the guest that decodes it, probes every endpoint at once and joins at   *)
(* one (client/lan/adapter.rs, client/lan/control.rs,                      *)
(* client/join_code/lan.rs, direct-protocol/src/types.rs and control.rs).  *)
(*                                                                         *)
(* An address is its family, its reach and a number; a port is left out,   *)
(* since one socket of each kind is bound per address.  The credential of  *)
(* a room and the instance of its host are one number, its room.           *)
(***************************************************************************)
EXTENDS Integers, Sequences, SequencesExt, FiniteSets

CONSTANTS
    Adapters,           \* interface indices
    MaxCandidates,      \* MAX_CANDIDATES
    AttemptTimeout,     \* CONTROL_ATTEMPT_TIMEOUT, in ticks
    TotalTimeout        \* CONTROL_TOTAL_TIMEOUT, in ticks

ASSUME InviteAssumption ==
    /\ Adapters \subseteq Nat \ {0} /\ IsFiniteSet(Adapters)
    /\ MaxCandidates \in Nat \ {0}
    /\ AttemptTimeout \in Nat \ {0} /\ TotalTimeout \in Nat
    /\ AttemptTimeout <= TotalTimeout

VARIABLES
    interfaces,     \* index -> the raw addresses of the interface
    host,           \* the host's progress, its sockets and its Join Code
    guest           \* the guest's probes and what came of them

inviteVars == <<interfaces, host, guest>>

-----------------------------------------------------------------------------
(* Sets put in order and sequences with gaps, by counting: place i is for  *)
(* the member that has i - 1 others before it.                             *)

Ordered(S, before) ==
    [i \in 1 .. Cardinality(S) |->
        CHOOSE x \in S : Cardinality({y \in S : <<y, x>> \in before}) = i - 1]

(* What s holds at some of its places. *)
Filtered(s, places) ==
    LET p == Ordered(places, {q \in places \X places : q[1] < q[2]})
    IN  [i \in DOMAIN p |-> s[p[i]]]

-----------------------------------------------------------------------------
(* Addresses. *)

Address(family, reach, number) == [family |-> family, reach |-> reach, number |-> number]

RawAddresses == {Address(4, "global", 1), Address(6, "link", 1), Address(4, "loopback", 1)}

is_usable_unicast(a) == a.reach \in {"global", "link"}

Preference(a) == IF a.reach = "link" THEN (IF a.family = 4 THEN 2 ELSE 3)
                                     ELSE (IF a.family = 4 THEN 0 ELSE 1)

address_sort_key(a, b) ==
    \/ Preference(a) < Preference(b)
    \/ Preference(a) = Preference(b) /\ a.number < b.number

ByIndex(S) == {p \in S \X S : p[1].index < p[2].index}

ByPreference(S) ==
    {p \in S \X S : \/ address_sort_key(p[1].address, p[2].address)
                    \/ p[1].address = p[2].address /\ p[1].index < p[2].index}

(* enumerate_lan_adapters: the interfaces that have a usable address, in   *)
(* the order of their indices.                                             *)
enumerate_lan_adapters ==
    LET found == {[index |-> i, addresses |-> {a \in interfaces[i] : is_usable_unicast(a)}] :
                    i \in {j \in Adapters : \E a \in interfaces[j] : is_usable_unicast(a)}}
    IN  Ordered(found, ByIndex(found))

is_recommended(adapter) == \E a \in adapter.addresses : a.reach # "link"

Taken(s, n) == SubSeq(s, 1, IF Len(s) < n THEN Len(s) ELSE n)

default_lan_adapters(adapters) ==
    LET recommended == Filtered(adapters, {i \in DOMAIN adapters : is_recommended(adapters[i])})
    IN  Taken(IF recommended = <<>> THEN adapters ELSE recommended, MaxCandidates)

(* The best address of each family, the better family first. *)
preferred_family_addresses(adapter) ==
    LET best(family) == {a \in adapter.addresses :
            /\ a.family = family
            /\ ~\E b \in adapter.addresses : b.family = family /\ address_sort_key(b, a)}
        bests == {[address |-> a, index |-> adapter.index] : a \in best(4) \cup best(6)}
    IN  Ordered(bests, ByPreference(bests))

(* Mutant: the addresses adapter by adapter, cut at the limit. *)
AdapterByAdapter(adapters) ==
    Taken(FlattenSeq([i \in DOMAIN adapters |-> preferred_family_addresses(adapters[i])]),
          MaxCandidates)

(* The first address of every adapter, then second ones while there is     *)
(* room.                                                                   *)
lan_candidate_addresses(adapters) ==
    LET choices == [i \in DOMAIN adapters |-> preferred_family_addresses(adapters[i])]
        firsts  == [i \in DOMAIN adapters |-> choices[i][1]]
        others  == {choices[i][2] : i \in {j \in DOMAIN choices : Len(choices[j]) > 1}}
    IN  firsts \o Taken(Ordered(others, ByPreference(others)), MaxCandidates - Len(firsts))

(* scoped_address: an IPv6 address carries the index of its interface. *)
scoped_address(c) ==
    [address |-> c.address, scope |-> IF c.address.family = 6 THEN c.index ELSE 0]

-----------------------------------------------------------------------------
(* What the direct protocol and the Join Code demand. *)

ValidCandidate(c) ==
    /\ c.priority > 0
    /\ c.endpoint.address.reach \in {"global", "link", "loopback"}
    /\ c.endpoint.address.family = 6 /\ c.endpoint.address.reach = "link"
          => c.endpoint.scope # 0

validate_candidates(cs) ==
    /\ Len(cs) \in 1 .. MaxCandidates
    /\ \A i \in DOMAIN cs : ValidCandidate(cs[i])
    /\ \A i, j \in DOMAIN cs : cs[i].endpoint = cs[j].endpoint => i = j

NoCode == [room |-> 0, endpoints |-> <<>>]

(* encode_payload, and decode_payload of what it wrote: the same checks on *)
(* both sides, and an IPv4 endpoint is written without a scope.            *)
EncodeCode(room, endpoints) ==
    IF validate_candidates([i \in DOMAIN endpoints |->
            [endpoint |-> endpoints[i], priority |-> 1]])
    THEN [room |-> room, endpoints |-> [i \in DOMAIN endpoints |->
            [endpoints[i] EXCEPT !.scope = IF endpoints[i].address.family = 4 THEN 0 ELSE @]]]
    ELSE NoCode

-----------------------------------------------------------------------------
(* The host. *)

NoHost == [state |-> "idle", room |-> 0, adapters |-> <<>>, bound |-> <<>>, code |-> NoCode]
NoGuest == [state |-> "idle", clock |-> 0, pending |-> {}, results |-> {}, answered |-> {},
            code |-> NoCode]

InviteInit ==
    /\ interfaces \in [Adapters -> SUBSET RawAddresses]
    /\ host = NoHost
    /\ guest = NoGuest

(* The user keeps the default adapters or picks others. *)
PickAdapters ==
    /\ host.state = "idle"
    /\ \/ host' = [host EXCEPT !.state = "picked",
                               !.adapters = default_lan_adapters(enumerate_lan_adapters)]
       \/ \E picked \in SUBSET ToSet(enumerate_lan_adapters) :
            host' = [host EXCEPT !.state = "picked",
                         !.adapters = Ordered(picked, ByIndex(picked))]
    /\ UNCHANGED <<interfaces, guest>>

Distinct(s) == Filtered(s, {i \in DOMAIN s : \A j \in 1 .. i - 1 : s[j] # s[i]})

Endpoints(adapters) ==
    LET all == lan_candidate_addresses(adapters)
    IN  Distinct([i \in DOMAIN all |-> scoped_address(all[i])])

(* The selection is refused when nothing or too much is selected; an       *)
(* address that cannot be bound is skipped, all of them failing is an      *)
(* error.  Every endpoint gets a priority by its place and is validated    *)
(* with the whole descriptor before anything listens.                      *)
CreateRoom ==
    /\ host.state = "picked"
    /\ LET adapters == host.adapters
           refused  == Len(adapters) \notin 1 .. MaxCandidates
           offered  == IF refused THEN <<>> ELSE Endpoints(adapters)
       IN  \E free \in SUBSET ToSet(offered) :
             LET bound == Filtered(offered, {i \in DOMAIN offered : offered[i] \in free})
                 cands == [i \in DOMAIN bound |-> [endpoint |-> bound[i],
                                                   priority |-> Len(bound) - i + 1]]
                 ok    == ~refused /\ bound # <<>> /\ validate_candidates(cands)
                 code  == IF ok THEN EncodeCode(host.room + 1, bound) ELSE NoCode
             IN  host' = [host EXCEPT !.state = IF code = NoCode THEN "failed" ELSE "open",
                                      !.room = @ + 1, !.bound = bound, !.code = code]
    /\ UNCHANGED <<interfaces, guest>>

(* The host leaves and opens another room, possibly on the same ports. *)
ReopenRoom ==
    /\ host.state = "open" /\ host.room = 1
    /\ host' = [host EXCEPT !.room = 2,
                            !.code = EncodeCode(2, host.bound)]
    /\ UNCHANGED <<interfaces, guest>>

-----------------------------------------------------------------------------
(* The guest. *)

(* The probes of all the endpoints of the code start together. *)
Probe ==
    /\ host.state = "open" /\ guest.state = "idle"
    /\ guest' = [guest EXCEPT !.state = "probing", !.code = host.code,
                              !.pending = ToSet(host.code.endpoints)]
    /\ UNCHANGED <<interfaces, host>>

(* handle_initial_control and probe_endpoint: the listener answers with    *)
(* the versions if the introducer and the proof are its own; any other     *)
(* answer is dropped by the guest.                                         *)
Answer == \E e \in guest.pending :
    /\ guest.state = "probing" /\ e \in ToSet(host.bound)
    /\ guest' = [guest EXCEPT !.pending = @ \ {e},
          !.results  = IF guest.code.room = host.room THEN @ \cup {e} ELSE @,
          !.answered = IF guest.code.room = host.room THEN @ \cup {e} ELSE @]
    /\ UNCHANGED <<interfaces, host>>

(* Nothing listens there, or the connection ends. *)
Refuse == \E e \in guest.pending :
    /\ guest.state = "probing"
    /\ guest' = [guest EXCEPT !.pending = @ \ {e}]
    /\ UNCHANGED <<interfaces, host>>

(* An endpoint that stays silent costs the time of an attempt. *)
Tick ==
    /\ guest.state = "probing" /\ guest.pending # {} /\ guest.clock < TotalTimeout
    /\ guest' = [guest EXCEPT !.clock = @ + 1,
                              !.pending = IF guest.clock + 1 >= AttemptTimeout THEN {} ELSE @]
    /\ UNCHANGED <<interfaces, host>>

(* Every probe ended: the results are shown.  The time of the whole: none  *)
(* are.                                                                    *)
ProbesEnd ==
    /\ guest.state = "probing"
    /\ \/ /\ guest.pending = {} /\ guest.clock <= TotalTimeout
          /\ guest' = [guest EXCEPT !.state = "found"]
       \/ /\ guest.pending # {} /\ guest.clock >= TotalTimeout
          /\ guest' = [guest EXCEPT !.state = "found", !.pending = {}, !.results = {}]
    /\ UNCHANGED <<interfaces, host>>

(* The user picks one of the answers: the endpoint must be in the          *)
(* invitation, the host must still have the room of the code.              *)
JoinAt == \E e \in guest.results :
    /\ guest.state = "found"
    /\ guest' = [guest EXCEPT !.state =
          IF /\ e \in ToSet(guest.code.endpoints)
             /\ e \in ToSet(host.bound)
             /\ guest.code.room = host.room
          THEN "joined" ELSE "refused"]
    /\ UNCHANGED <<interfaces, host>>

InviteNext == PickAdapters \/ CreateRoom \/ ReopenRoom
                 \/ Probe \/ Answer \/ Refuse \/ Tick \/ ProbesEnd \/ JoinAt

InviteSpec == InviteInit /\ [][InviteNext]_inviteVars

-----------------------------------------------------------------------------
(* A selection the client accepts opens a room as soon as one of its       *)
(* addresses can be bound; every selected adapter has an address among     *)
(* those offered, and the Join Code names exactly the ones that were       *)
(* bound; the guest is shown every endpoint that answered, however many    *)
(* others stay silent (lan_candidate_addresses, LanControlPlane::create    *)
(* and probe).                                                             *)
InvitationLeadsHome ==
    /\ host.state = "failed" =>
          Len(host.adapters) \notin 1 .. MaxCandidates \/ host.bound = <<>>
    /\ host.state = "open" =>
          /\ ToSet(host.code.endpoints) = ToSet(host.bound)
          /\ \A i \in DOMAIN host.adapters : \E c \in ToSet(Endpoints(host.adapters)) :
                /\ c.address \in host.adapters[i].addresses
                /\ c.scope \in {0, host.adapters[i].index}
    /\ guest.state = "found" => guest.results = guest.answered
=============================================================================

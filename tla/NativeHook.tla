----------------------------- MODULE NativeHook -----------------------------
(***************************************************************************)
(* The Native Hook inside the game (native-hook windows/): the thread that *)
(* DllMain starts, the import table and the SteamNetworking006 vtable it   *)
(* patches while threads of the game call through them, the repeated check *)
(* from RunCallbacks, and the packets that the hooked functions exchange   *)
(* with the IPC worker.                                                    *)
(*                                                                         *)
(* Imports and vtable slots are words in memory that the game reads at any *)
(* moment; "steam" is the function of Steam, "hook" ours, "null" nothing.  *)
(***************************************************************************)
EXTENDS Naturals, Sequences, SequencesExt

CONSTANTS Slots,      \* vtable slots that are patched, 1..Slots
          MaxTrouble, \* bound on failing VirtualProtect calls and restored slots
          QueueLimit, \* CLIENT_DATA_QUEUE_CAPACITY
          MaxPackets  \* bound on packets that the client sends

ASSUME HookAssumption == {Slots, MaxTrouble, QueueLimit, MaxPackets} \subseteq Nat

VARIABLES imports,   \* IAT entries of the game: find_interface, run_callbacks
          importOrig,\* ORIGINAL_FIND_INTERFACE, ORIGINAL_RUN_CALLBACKS
          vtable,    \* the patched slots
          slotOrig,  \* ORIGINAL_SEND .. ORIGINAL_SESSION_STATE
          interface, \* the game or the hook has created SteamNetworking006
          known,     \* STEAM_NETWORKING_VTABLE
          hooking,   \* STEAM_NETWORKING_HOOKING
          hooked,    \* STEAM_NETWORKING_HOOKED
          report,    \* HOOK_STARTUP
          at,        \* per thread: where it is in the hook's code
          trouble,   \* failures and restored slots so far
          queue,     \* BridgeState.queue: packets for the game
          sent,      \* packets that the client has sent
          buffer,    \* what the game was told is available, per channel
          cut        \* a packet was copied into a buffer that was too small

hookVars  == <<imports, importOrig, vtable, slotOrig, interface, known, hooking,
               hooked, report, at, trouble, queue, sent, buffer, cut>>
packetVars == <<queue, sent, buffer, cut>>
patchVars  == <<imports, importOrig, vtable, slotOrig, interface, known, hooking,
                hooked, report, at, trouble>>

Imports  == {"find_interface", "run_callbacks"}
Tasks    == {"install", "game"}     \* install_thread and a thread of the game
Channels == {0, 1}
Sizes    == {1, 2}
Away     == [in |-> "away", slot |-> 0]
AllHooked == \A i \in 1..Slots : vtable[i] = "hook"
Patched  == \A f \in Imports : importOrig[f] # "null"

\* Either the hook has just been loaded, or it is installed.
HookInit ==
    \E installed \in BOOLEAN :
    LET word == IF installed THEN "hook" ELSE "steam"
        orig == IF installed THEN "steam" ELSE "null" IN
    /\ imports = [f \in Imports |-> word] /\ importOrig = [f \in Imports |-> orig]
    /\ vtable = [i \in 1..Slots |-> word] /\ slotOrig = [i \in 1..Slots |-> orig]
    /\ interface = installed /\ known = installed
    /\ hooking = FALSE /\ hooked = installed
    /\ report = IF installed THEN "ready" ELSE "pending"
    /\ at = [t \in Tasks |-> IF t = "install" /\ ~installed
                             THEN [in |-> "imports", slot |-> 0] ELSE Away]
    /\ trouble = IF installed THEN MaxTrouble ELSE 0
    /\ queue = <<>> /\ sent = IF installed THEN 0 ELSE MaxPackets
    /\ buffer = [ch \in Channels |-> 0] /\ cut = FALSE

-----------------------------------------------------------------------------
Go(t, in, i) == at' = [at EXCEPT ![t] = [in |-> in, slot |-> i]]

\* patch_slot of the import table: the original is kept by the first patch
\* only, and before the entry is replaced.  VirtualProtect may fail.
PatchImport(f) ==
    /\ at["install"].in = "imports" /\ imports[f] = "steam" /\ importOrig[f] = "null"
    /\ importOrig' = [importOrig EXCEPT ![f] = "steam"]
    /\ UNCHANGED <<imports, vtable, slotOrig, interface, known, hooking, hooked, report, at, trouble, packetVars>>

ReplaceImport(f) ==
    /\ at["install"].in = "imports" /\ imports[f] = "steam" /\ importOrig[f] # "null"
    /\ imports' = [imports EXCEPT ![f] = "hook"]
    /\ UNCHANGED <<importOrig, vtable, slotOrig, interface, known, hooking, hooked, report, at, trouble, packetVars>>

\* install_hooks: both imports, or a failure that is final.
ImportsDone ==
    /\ at["install"].in = "imports"
    /\ \/ /\ \A f \in Imports : imports[f] = "hook"
          /\ Go("install", "probe", 0) /\ UNCHANGED <<report, trouble>>
       \/ /\ trouble < MaxTrouble /\ trouble' = trouble + 1 /\ ~Patched
          /\ \A f \in Imports : importOrig[f] # "null" => imports[f] = "hook"
          /\ report' = "failed" /\ Go("install", "away", 0)
    /\ UNCHANGED <<imports, importOrig, vtable, slotOrig, interface, known, hooking, hooked, packetVars>>

\* install_existing_steam_networking_interface: before the user is logged on
\* there may be no interface.
Probe(t) ==
    /\ at[t].in = "probe"
    /\ \/ interface' = TRUE /\ known' = TRUE /\ Go(t, "swap", 0)
       \/ ~interface /\ Go(t, "away", 0) /\ UNCHANGED <<interface, known>>
    /\ UNCHANGED <<imports, importOrig, vtable, slotOrig, hooking, hooked, report, trouble, packetVars>>

\* The game asks for the interface through its import.
FindInterface ==
    /\ at["game"].in = "away" /\ imports["find_interface"] = "hook" /\ ~AllHooked
    /\ interface' = TRUE /\ known' = TRUE /\ Go("game", "swap", 0)
    /\ UNCHANGED <<imports, importOrig, vtable, slotOrig, hooking, hooked, report, trouble, packetVars>>

\* Mutant: once hooked, always hooked.
OnlyUntilHooked == ~hooked

CallbackChecks == TRUE

\* Every sixtieth RunCallbacks: probe again, or verify what is patched.
RunCallbacks ==
    /\ at["game"].in = "away" /\ imports["run_callbacks"] = "hook" /\ CallbackChecks
    /\ ~(hooked /\ AllHooked)
    /\ Go("game", IF ~hooked THEN "probe" ELSE IF known THEN "swap" ELSE "away", 0)
    /\ UNCHANGED <<imports, importOrig, vtable, slotOrig, interface, known, hooking, hooked, report, trouble, packetVars>>

\* install_steam_networking_vtable: one thread at a time, and only when
\* something is not patched.
EnterInstall(t) ==
    /\ at[t].in = "swap"
    /\ IF hooking \/ AllHooked
       THEN Go(t, "away", 0) /\ UNCHANGED hooking
       ELSE Go(t, "slot", 1) /\ hooking' = TRUE
    /\ UNCHANGED <<imports, importOrig, vtable, slotOrig, interface, known, hooked, report, trouble, packetVars>>

Leave(t, then) == hooking' = FALSE /\ Go(t, then, 0)

\* patch_vtable_slot: a slot that is ours stays, a failing VirtualProtect
\* gives up, else the original is stored ...
PatchSlot(t) ==
    /\ at[t].in = "slot"
    /\ LET i == at[t].slot IN
       \/ /\ i > Slots /\ Leave(t, "done") /\ UNCHANGED <<slotOrig, report, trouble>>
       \/ /\ i <= Slots /\ vtable[i] = "hook"
          /\ Go(t, "slot", i + 1) /\ UNCHANGED <<hooking, slotOrig, report, trouble>>
       \/ /\ i <= Slots /\ vtable[i] # "hook" /\ trouble < MaxTrouble
          /\ trouble' = trouble + 1 /\ report' = "failed" /\ Leave(t, "away")
          /\ UNCHANGED slotOrig
       \/ /\ i <= Slots /\ vtable[i] # "hook"
          /\ slotOrig' = [slotOrig EXCEPT ![i] = vtable[i]]
          /\ Go(t, "write", i) /\ UNCHANGED <<hooking, report, trouble>>
    /\ UNCHANGED <<imports, importOrig, vtable, interface, known, hooked, packetVars>>

\* ... and then the slot replaced.
WriteSlot(t) ==
    /\ at[t].in = "write"
    /\ vtable' = [vtable EXCEPT ![at[t].slot] = "hook"]
    /\ Go(t, "slot", at[t].slot + 1)
    /\ UNCHANGED <<imports, importOrig, slotOrig, interface, known, hooking, hooked, report, trouble, packetVars>>

\* The flag comes after the lock is released; only the first time is told.
Installed(t) ==
    /\ at[t].in = "done" /\ Go(t, "away", 0)
    /\ hooked' = TRUE /\ report' = IF hooked THEN report ELSE "ready"
    /\ UNCHANGED <<imports, importOrig, vtable, slotOrig, interface, known, hooking, trouble, packetVars>>

\* Steam or another program writes its own function back.
Restored(i) ==
    /\ trouble < MaxTrouble /\ vtable[i] = "hook"
    /\ vtable' = [vtable EXCEPT ![i] = "steam"] /\ trouble' = trouble + 1
    /\ UNCHANGED <<imports, importOrig, slotOrig, interface, known, hooking, hooked, report, at, packetVars>>

Patching(t) == Probe(t) \/ EnterInstall(t) \/ PatchSlot(t) \/ WriteSlot(t) \/ Installed(t)

-----------------------------------------------------------------------------
(***************************************************************************)
(* Packets for the game, in a session without fallback to Steam.           *)
(***************************************************************************)
\* Mutant: the oldest packet makes room.
DropOldest(packet) ==
    IF Len(queue) >= QueueLimit THEN Append(Tail(queue), packet) ELSE Append(queue, packet)

\* enqueue_inbound: a full queue drops what arrives.
Enqueued(packet) == IF Len(queue) >= QueueLimit THEN queue ELSE Append(queue, packet)

Arrive(ch, size) ==
    /\ sent < MaxPackets /\ sent' = sent + 1
    /\ queue' = Enqueued([ch |-> ch, size |-> size])
    /\ UNCHANGED <<patchVars, buffer, cut>>

First(ch) == SelectInSeq(queue, LAMBDA p : p.ch = ch)

\* hook_is_p2p_packet_available: the size of the first packet of the channel.
Available(ch) ==
    /\ AllHooked /\ First(ch) # 0
    /\ buffer' = [buffer EXCEPT ![ch] = queue[First(ch)].size]
    /\ UNCHANGED <<patchVars, queue, sent, cut>>

\* hook_read_p2p_packet into a buffer of the size that was announced; what
\* does not fit is cut off.
ReadPacket(ch) ==
    /\ AllHooked /\ buffer[ch] > 0 /\ First(ch) # 0
    /\ cut' = (cut \/ queue[First(ch)].size > buffer[ch])
    /\ queue' = RemoveAt(queue, First(ch))
    /\ buffer' = [buffer EXCEPT ![ch] = 0]
    /\ UNCHANGED <<patchVars, sent>>

HookNext ==
    \/ \E f \in Imports : PatchImport(f) \/ ReplaceImport(f)
    \/ ImportsDone
    \/ \E t \in Tasks : Patching(t)
    \/ FindInterface \/ RunCallbacks
    \/ \E i \in 1..Slots : Restored(i)
    \/ \E ch \in Channels : \/ \E size \in Sizes : Arrive(ch, size)
                            \/ Available(ch) \/ ReadPacket(ch)

\* Threads run; a game calls RunCallbacks in every frame and asks for the
\* interface once the player is logged on, after which it may keep it.
HookFairness ==
    /\ \A t \in Tasks : WF_hookVars(Patching(t))
    /\ WF_hookVars(RunCallbacks) /\ SF_hookVars(~known /\ FindInterface)

HookSpec == HookInit /\ [][HookNext]_hookVars /\ HookFairness

-----------------------------------------------------------------------------

\* Once the imports are ours the packet functions become ours and stay so,
\* although patching can fail, two threads install at once and another
\* program restores a slot (steam.rs 129-152, 165-234).
HooksReturn == (\A f \in Imports : imports[f] = "hook") ~> []AllHooked

\* In a session without fallback the game never gets part of a packet: the
\* one it reads is the one it was told of, although the queue fills and
\* drops in between (bridge.rs 208-261, ipc_worker.rs 379-390).
WholePackets == ~cut
=============================================================================

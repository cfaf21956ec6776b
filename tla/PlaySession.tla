---------------------------- MODULE PlaySession ----------------------------
(***************************************************************************)
(* What a play session consists of, for one run: the session runtime of    *)
(* the client, the IPC between it and the Native Hook, and the hook's      *)
(* interception of Steam.  A behaviour is one of the three while the other *)
(* two keep their first state.  Each sees the others only as the events    *)
(* and packets that its own model lets come at any time, so the state      *)
(* spaces add up.                                                          *)
(***************************************************************************)
EXTENDS Session, HookIpc, NativeHook

VARIABLE piece

PlayInit ==
    /\ piece \in {"session", "ipc", "hook"}
    /\ SessionInit /\ Init /\ HookInit
    /\ piece # "ipc" => traffic = "calls"
    /\ piece # "hook" => hooked

PlayNext ==
    /\ UNCHANGED piece
    /\ \/ piece = "session" /\ SessionNext /\ UNCHANGED <<vars, hookVars>>
       \/ piece = "ipc" /\ Next /\ UNCHANGED <<sessionVars, hookVars>>
       \/ piece = "hook" /\ HookNext /\ UNCHANGED <<sessionVars, vars>>

\* The fairness of SessionSpec, Spec and HookSpec.  Since piece never changes,
\* one condition on a disjunction is the three conditions on its disjuncts.
Loops   == \/ piece = "session" /\ Supervisor /\ UNCHANGED <<ipc, hookVars>>
           \/ piece = "ipc" /\ ClientLoop /\ UNCHANGED <<sessionVars, hookVars>>
           \/ piece = "hook" /\ RunCallbacks /\ UNCHANGED <<sessionVars, ipc>>
Returns == \/ piece = "session" /\ ClientReturns /\ UNCHANGED <<ipc, hookVars>>
           \/ piece = "ipc" /\ HookWorker /\ UNCHANGED <<sessionVars, hookVars>>
           \/ piece = "hook" /\ Patching("install") /\ UNCHANGED <<sessionVars, ipc>>
Polls   == \/ piece = "session" /\ PollEvents /\ UNCHANGED <<ipc, hookVars>>
           \/ piece = "ipc" /\ Readers /\ UNCHANGED <<sessionVars, hookVars>>
           \/ piece = "hook" /\ Patching("game") /\ UNCHANGED <<sessionVars, ipc>>

play == <<sessionVars, ipc, hookVars>>

PlaySpec ==
    /\ PlayInit /\ [][PlayNext]_<<piece, sessionVars, vars, hookVars>>
    /\ WF_play(Loops) /\ WF_play(Returns) /\ WF_play(Polls)
    /\ WF_ipc(piece = "ipc" /\ HookHealth)
    /\ WF_ipc(piece = "ipc" /\ (HookExpires \/ HookHandshakeExpires))
    /\ SF_hookVars(piece = "hook" /\ ~known /\ FindInterface)
=============================================================================

------------------------------ MODULE Sidecar ------------------------------
(***************************************************************************)
(* The Proton sidecar of isaac-injector (linux.rs) as the client drives it *)
(* (runtime.rs, runtime/maintenance.rs): before a game is launched a proxy *)
(* winmm.dll, two copies of Proton's own and a registry override are put   *)
(* into the installation of the user, and taken out afterwards.  Every     *)
(* file operation and every reg.exe call is a step of its own: any of them *)
(* may fail, and the client may be killed between any two.                 *)
(***************************************************************************)
EXTENDS FiniteSets, Sequences

VARIABLES files,    \* managed names that exist in the game directory
          temps,    \* leftover .tractor-beam-tmp files
          reg,      \* HKCU\...\AppDefaults\isaac-ng.exe\DllOverrides
          marker,   \* {} or the singleton of the override recorded in it
          foreign,  \* the marker file is there but not in this format
          step,     \* the next step of the running operation, or idle, off
          after,    \* what follows a removal: idle, deploy, off
          original, \* the override that deploy has read
          handle,   \* BridgeClient.proton_sidecar is Some
          playing,  \* a session that deployed the sidecar is on
          failed    \* a removal gave up and none has completed since

sidecarVars == <<files, temps, reg, marker, foreign, step, after, original,
                 handle, playing, failed>>

Proxies   == {"winmm.dll", "winmm_orig.dll", "_winmm_orig.dll"}
Managed   == Proxies \cup {"hook-runtime.txt"}
Overrides == [key : BOOLEAN, value : {"none", "builtin", "native"}, other : BOOLEAN]
\* A key that does not exist holds nothing.
Settings  == {o \in Overrides : o.key \/ (o.value = "none" /\ ~o.other)}

MarkerExists == foreign \/ marker # {}
ReadMarker   == IF foreign THEN {} ELSE marker

SidecarInit ==
    /\ files \in SUBSET {"winmm.dll"} /\ temps = {} /\ reg \in Settings
    /\ marker = {} /\ foreign \in BOOLEAN
    /\ step = "off" /\ after = "idle" /\ original = reg
    /\ handle = FALSE /\ playing = FALSE /\ failed = FALSE

-----------------------------------------------------------------------------
\* BridgeClient::new recovers what an earlier process left; what it cannot
\* read or resolve it leaves and reports.
RecoverStale ==
    /\ step = "off"
    /\ \/ step' = IF ReadMarker = {} THEN "idle" ELSE "restore"
       \/ ReadMarker # {} /\ step' = "idle"       \* ProtonRuntime::discover fails
    /\ failed' = (ReadMarker # {} /\ step' = "idle")
    /\ after' = "idle"
    /\ UNCHANGED <<files, temps, reg, marker, foreign, original, handle, playing>>

\* deploy_proton_winmm_sidecar: an older deployment is removed first.
Deploy ==
    /\ step = "idle" /\ ~playing
    /\ ~(MarkerExists /\ ReadMarker = {})          \* refused: unknown marker
    /\ step' = IF ReadMarker = {} THEN "check" ELSE "restore"
    /\ after' = "deploy"
    /\ UNCHANGED <<files, temps, reg, marker, foreign, original, handle, playing, failed>>

Occupied == files \cap Proxies # {}

\* Files it did not create are refused; the override is read.
CheckAndRead ==
    /\ step = "check"
    /\ \/ Occupied /\ step' = "idle" /\ UNCHANGED <<temps, original>>
       \/ ~Occupied /\ step' = "mark" /\ temps' = {} /\ original' = reg
       \/ ~Occupied /\ step' = "idle" /\ temps' = {} /\ UNCHANGED original
    /\ UNCHANGED <<files, reg, marker, foreign, after, handle, playing, failed>>

\* Mutant: the marker is written once everything is in place.
MarkerLater ==
    /\ step = "mark" /\ step' = "_winmm_orig.dll"
    /\ UNCHANGED <<files, temps, reg, marker, foreign, after, original, handle, playing, failed>>

\* The marker with the override is on disk before anything is changed.
WriteMarker ==
    /\ step = "mark"
    /\ \/ marker' = {original} /\ step' = "_winmm_orig.dll" /\ UNCHANGED temps
       \/ step' = "idle" /\ temps' \in {temps, temps \cup {"marker"}} /\ UNCHANGED marker
    /\ UNCHANGED <<files, reg, foreign, after, original, handle, playing, failed>>

NextCopy(f) == CASE f = "_winmm_orig.dll" -> "winmm_orig.dll"
                 [] f = "winmm_orig.dll"  -> "winmm.dll"
                 [] f = "winmm.dll"       -> "set"

\* Mutant: the error is returned and nothing undone.
GiveUpHalfway == step' = "idle" /\ UNCHANGED after

\* An error of a later step undoes the deployment.
RollBack == step' = "restore" /\ after' = "idle"

CopyFile ==
    /\ step \in Proxies
    /\ \/ files' = files \cup {step} /\ step' = NextCopy(step) /\ UNCHANGED <<temps, after>>
       \/ temps' \in {temps, temps \cup {step}} /\ RollBack /\ UNCHANGED files
    /\ UNCHANGED <<reg, marker, foreign, original, handle, playing, failed>>

SetOverride ==
    /\ step = "set"
    /\ \/ /\ reg' = [reg EXCEPT !.key = TRUE, !.value = "native"]
          /\ step' = "config" /\ handle' = TRUE /\ UNCHANGED after
       \/ RollBack /\ UNCHANGED <<reg, handle>>
    /\ UNCHANGED <<files, temps, marker, foreign, original, playing, failed>>

\* write_hook_config_for_hook; when it fails the client cleans up.
WriteHookConfig ==
    /\ step = "config"
    /\ \/ /\ files' = files \cup {"hook-runtime.txt"}
          /\ step' = "idle" /\ playing' = TRUE /\ UNCHANGED after
       \/ step' = "restore" /\ after' = "idle" /\ UNCHANGED <<files, playing>>
    /\ UNCHANGED <<temps, reg, marker, foreign, original, handle, failed>>

\* The end of a session, or the drop of the client: remove_proton_sidecar.
\* Without a readable marker there is nothing to do, without Proton nothing
\* can be done.
RemoveSidecar(next) ==
    /\ step = "idle" /\ handle
    /\ playing' = FALSE
    /\ \/ ReadMarker = {} /\ handle' = FALSE /\ step' = next /\ UNCHANGED failed
       \/ ReadMarker # {} /\ step' = "restore" /\ UNCHANGED <<handle, failed>>
       \/ ReadMarker # {} /\ step' = next /\ failed' = TRUE /\ UNCHANGED handle
    /\ after' = next
    /\ UNCHANGED <<files, temps, reg, marker, foreign, original>>

EndSession == playing /\ RemoveSidecar("idle")
DropClient == RemoveSidecar("off")

-----------------------------------------------------------------------------
Recorded == CHOOSE o \in marker : TRUE

\* An error ends the removal; the marker is still there for the next one.
RemovalFails ==
    /\ step \in {"restore", "key", "files", "runtime", "marker"}
    /\ step' = IF after = "off" THEN "off" ELSE "idle"
    /\ failed' = TRUE
    /\ UNCHANGED <<files, temps, reg, marker, foreign, after, original, handle, playing>>

\* restore_override: the value goes back, or is deleted.
RestoreOverride ==
    /\ step = "restore"
    /\ reg' = IF Recorded.value # "none" THEN [reg EXCEPT !.key = TRUE, !.value = Recorded.value]
              ELSE [reg EXCEPT !.value = "none"]
    /\ step' = IF Recorded.value = "none" /\ ~Recorded.key THEN "key" ELSE "files"
    /\ UNCHANGED <<files, temps, marker, foreign, after, original, handle, playing, failed>>

\* remove_empty_override_key: the key goes only when nothing else is in it.
RemoveEmptyKey ==
    /\ step = "key" /\ step' = "files"
    /\ reg' = IF reg.value = "none" /\ ~reg.other THEN [reg EXCEPT !.key = FALSE] ELSE reg
    /\ UNCHANGED <<files, temps, marker, foreign, after, original, handle, playing, failed>>

FirstOf(s) == CASE "winmm.dll" \in s      -> "winmm.dll"
                [] "winmm_orig.dll" \in s -> "winmm_orig.dll"
                [] OTHER                  -> "_winmm_orig.dll"

\* The managed files one by one, then the leftovers.
RemoveFiles ==
    /\ step = "files"
    /\ \/ /\ Occupied /\ files' = files \ {FirstOf(files)} /\ UNCHANGED <<step, temps>>
       \/ ~Occupied /\ step' = "runtime" /\ temps' = {} /\ UNCHANGED files
    /\ UNCHANGED <<reg, marker, foreign, after, original, handle, playing, failed>>

RemoveRuntimeFile ==
    /\ step = "runtime" /\ step' = "marker" /\ files' = files \ {"hook-runtime.txt"}
    /\ UNCHANGED <<temps, reg, marker, foreign, after, original, handle, playing, failed>>

\* The marker goes last.
RemoveMarker ==
    /\ step = "marker" /\ marker' = {} /\ failed' = FALSE
    /\ step' = IF after = "deploy" THEN "check" ELSE after
    /\ handle' = (handle /\ after = "deploy")
    /\ UNCHANGED <<files, temps, reg, foreign, after, original, playing>>

\* The process is killed: what is on disk stays, temporary files included.
Crash ==
    /\ step # "off" /\ step' = "off"
    /\ temps' \in {temps, temps \cup ({step} \cap Proxies)}
    /\ handle' = FALSE /\ playing' = FALSE
    /\ UNCHANGED <<files, reg, marker, foreign, after, original, failed>>

\* The user, who does not touch what a session has placed.
UserActs ==
    /\ step \in {"idle", "off"}
    /\ \/ marker = {} /\ reg' \in Settings /\ UNCHANGED files
       \/ marker # {} /\ reg' = [reg EXCEPT !.key = TRUE, !.other = TRUE] /\ UNCHANGED files
       \/ marker = {} /\ files' \in {{}, {"winmm.dll"}} /\ UNCHANGED reg
    /\ UNCHANGED <<temps, marker, foreign, step, after, original, handle, playing, failed>>

SidecarNext ==
    \/ RecoverStale \/ Deploy \/ CheckAndRead \/ WriteMarker \/ CopyFile
    \/ SetOverride \/ WriteHookConfig \/ EndSession \/ DropClient
    \/ RemovalFails \/ RestoreOverride \/ RemoveEmptyKey \/ RemoveFiles
    \/ RemoveRuntimeFile \/ RemoveMarker \/ Crash \/ UserActs

SidecarSpec == SidecarInit /\ [][SidecarNext]_sidecarVars

-----------------------------------------------------------------------------
\* What the user would find once the recorded deployment is undone.
Underlying == IF marker = {} THEN reg
              ELSE [key   |-> Recorded.key \/ reg.other,
                    value |-> Recorded.value,
                    other |-> reg.other]

Install == INSTANCE UserInstall WITH
               Files    <- Managed,
               busy     <- step \notin {"idle", "off"},
               borrowed <- marker # {},
               own      <- IF marker = {} THEN files ELSE {},
               setting  <- Underlying

\* Whatever fails and wherever the client is killed, the installation of the
\* user is only borrowed: files and override come back exactly when the
\* marker goes (linux.rs 241-341, architecture.md 26).
GivenBack == Install!InstallSpec

\* A client that is not in a session has nothing deployed, unless a removal
\* failed: no path of deploy or of the session's end forgets to clean up.
IdleIsClean == step = "idle" /\ ~playing /\ ~failed => marker = {}
=============================================================================

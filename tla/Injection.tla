----------------------------- MODULE Injection -----------------------------
(***************************************************************************)
(* Waiting for the game, putting the Native Hook into it and watching it:  *)
(* the lifecycle task of a session (process_lifecycle.rs,                  *)
(* hook_lifecycle.rs), the blocking worker that runs the injector, first   *)
(* as a child and then elevated (isaac-injector paths.rs,                  *)
(* paths/windows_elevation.rs), the helper process itself (main.rs,        *)
(* platform.rs) and the threads it creates in the game.                    *)
(*                                                                         *)
(* A session that is over may leave its worker at a permission prompt and  *)
(* its helper at any line, while the next session is already waiting for   *)
(* another start of the game.                                              *)
(***************************************************************************)
EXTENDS Naturals, FiniteSets, FiniteSetsExt

CONSTANTS Sessions, \* number of sessions, one after the other
          Procs     \* number of game processes, numbered by start

ASSUME InjectionAssumption == Sessions \in Nat /\ Procs \in Nat

VARIABLES game,     \* per process: unborn, running, exited
          loads,    \* per process: LoadLibrary calls that loaded the hook
          life,     \* per session: where its lifecycle task is
          base,     \* per session: processes that ran before it
          target,   \* per session: the selected process, or 0
          token,    \* per session: cancelled
          guard,    \* per session: [flag, file]
          worker,   \* per session: the blocking injector task
          helper,   \* per session: [elevated, at]
          thread    \* per session: the remote thread in the game

injectionVars == <<game, loads, life, base, target, token, guard,
                   worker, helper, thread>>
client  == <<life, base, target, token>>
process == <<game, loads>>

S == 1..Sessions
P == 1..Procs
RunningGames == {p \in P : game[p] = "running"}

NoHelper == [elevated |-> FALSE, at |-> "none"]
Over     == {"none", "ok", "denied", "failed", "killed"}

InjectionInit ==
    /\ game \in [P -> {"unborn", "running"}]
    /\ \A p \in P : game[p] = "running" => \A q \in 1..p : game[q] = "running"
    /\ loads = [p \in P |-> 0]
    /\ life = [s \in S |-> "off"] /\ base = [s \in S |-> {}]
    /\ target = [s \in S |-> 0] /\ token = [s \in S |-> FALSE]
    /\ guard = [s \in S |-> [flag |-> FALSE, file |-> "none"]]
    /\ worker = [s \in S |-> "none"]
    /\ helper = [s \in S |-> NoHelper] /\ thread = [s \in S |-> "none"]

-----------------------------------------------------------------------------
(***************************************************************************)
(* The lifecycle task.                                                     *)
(***************************************************************************)
\* The processes found before the game is launched are the baseline.
LaunchGame(s) ==
    /\ life[s] = "off" /\ \A r \in 1..(s - 1) : life[r] = "done"
    /\ life' = [life EXCEPT ![s] = "waiting"]
    /\ base' = [base EXCEPT ![s] = RunningGames]
    /\ UNCHANGED <<process, target, token, guard, worker, helper, thread>>

\* The task returns, and what it knew is gone.
Finish(s) == life' = [life EXCEPT ![s] = "done"] /\ base' = [base EXCEPT ![s] = {}]

\* send SessionEnded (what follows from it is module Session), then cancel.
TellEnded(s) == token' = [token EXCEPT ![s] = TRUE]

Candidates(s) == RunningGames \ base[s]

\* wait_for_process: the newest new process, else cancelled or timed out.
WaitEnds(s) ==
    /\ life[s] = "waiting"
    /\ \/ /\ token[s] /\ Finish(s) /\ UNCHANGED <<target, token, guard, worker>>
       \/ /\ ~token[s] /\ Finish(s) /\ TellEnded(s) /\ UNCHANGED <<target, guard, worker>>
       \/ /\ ~token[s] /\ Candidates(s) # {}
          /\ target' = [target EXCEPT ![s] = Max(Candidates(s))]
          /\ \/ \* InjectionGuard::create fails
                Finish(s) /\ TellEnded(s) /\ UNCHANGED <<guard, worker>>
             \/ /\ guard' = [guard EXCEPT ![s].file = "active"]
                /\ worker' = [worker EXCEPT ![s] = "begin"]
                /\ life' = [life EXCEPT ![s] = "injecting"]
                /\ UNCHANGED <<token, base>>
    /\ UNCHANGED <<process, helper, thread>>

\* inject_process, the biased select: a finished worker comes first.  The
\* deadline of the hook is armed (module HookIpc), the game is watched.
Injected(s) ==
    /\ life[s] = "injecting" /\ worker[s] = "ok"
    /\ IF token[s] THEN Finish(s) ELSE life' = [life EXCEPT ![s] = "watching"] /\ UNCHANGED base
    /\ UNCHANGED <<process, target, token, guard, worker, helper, thread>>

InjectionFailed(s) ==
    /\ life[s] = "injecting" /\ worker[s] = "error"
    /\ Finish(s) /\ TellEnded(s)
    /\ UNCHANGED <<process, target, guard, worker, helper, thread>>

\* Cancelled, or sixty seconds have passed: guard.cancel sets the flag ...
StopInjection(s) ==
    /\ life[s] = "injecting" /\ worker[s] \notin {"ok", "error"}
    /\ life' = [life EXCEPT ![s] = IF token[s] THEN "cancelling" ELSE "expiring"]
    /\ guard' = [guard EXCEPT ![s].flag = TRUE]
    /\ UNCHANGED <<process, base, target, token, worker, helper, thread>>

\* ... then overwrites and removes the file.
RemoveGuard(s) ==
    /\ life[s] \in {"cancelling", "expiring"} /\ guard[s].file = "active"
    /\ guard' = [guard EXCEPT ![s].file = "gone"]
    /\ UNCHANGED <<process, client, worker, helper, thread>>

\* Mutant: the task waits for the worker however long it takes.
WaitsForWorker(s) == worker[s] \in {"ok", "error"}

\* The worker gets 250 ms to stop; the task goes on without it.
StopWaited(s) == guard[s].file = "gone"

InjectionStopped(s) ==
    /\ life[s] \in {"cancelling", "expiring"} /\ StopWaited(s)
    /\ Finish(s)
    /\ IF life[s] = "expiring" THEN TellEnded(s) ELSE UNCHANGED token
    /\ UNCHANGED <<process, target, guard, worker, helper, thread>>

\* watch_process: polled; a game that is gone ends the session.
Watch(s) ==
    /\ life[s] = "watching"
    /\ \/ token[s] /\ UNCHANGED token
       \/ ~token[s] /\ game[target[s]] # "running" /\ TellEnded(s)
    /\ Finish(s)
    /\ UNCHANGED <<process, target, guard, worker, helper, thread>>

\* The player or another part of the session cancels.
CancelSession(s) ==
    /\ life[s] \notin {"off", "done"} /\ ~token[s]
    /\ token' = [token EXCEPT ![s] = TRUE]
    /\ UNCHANGED <<process, life, base, target, guard, worker, helper, thread>>

Lifecycle(s) ==
    \/ LaunchGame(s) \/ WaitEnds(s) \/ Injected(s) \/ InjectionFailed(s) \/ StopInjection(s)
    \/ RemoveGuard(s) \/ InjectionStopped(s) \/ Watch(s)

-----------------------------------------------------------------------------
(***************************************************************************)
(* The worker: run_injector_with_elevated_retry.                           *)
(***************************************************************************)
Worker(s, at) == worker' = [worker EXCEPT ![s] = at]

\* run_guarded_injector: spawn, unless cancelled.
SpawnHelper(s) ==
    /\ worker[s] = "begin"
    /\ \/ ~guard[s].flag /\ helper' = [helper EXCEPT ![s].at = "guard"] /\ Worker(s, "child")
       \/ Worker(s, "error") /\ UNCHANGED helper
    /\ UNCHANGED <<process, client, guard, thread>>

\* Mutant: the retry follows every error.
AnyError == {"denied", "failed"}

Retried == {"denied"}

\* wait_for_guarded_child: a cancelled child is killed and waited for; an
\* access that was denied is retried elevated.
WaitForChild(s) ==
    /\ worker[s] = "child"
    /\ \/ /\ guard[s].flag /\ Worker(s, "error")
          /\ helper' = [helper EXCEPT ![s].at = IF @ \in Over THEN @ ELSE "killed"]
       \/ /\ ~guard[s].flag /\ helper[s].at \in Over
          /\ Worker(s, CASE helper[s].at = "ok"      -> "ok"
                         [] helper[s].at \in Retried -> "prompt"
                         [] OTHER                    -> "error")
          /\ UNCHANGED helper
    /\ UNCHANGED <<process, client, guard, thread>>

\* run_elevated_injector: ShellExecuteExW returns when the player answers.
Elevate(s) ==
    /\ worker[s] = "prompt"
    /\ \/ /\ ~guard[s].flag /\ Worker(s, "answering") /\ UNCHANGED helper
       \/ guard[s].flag /\ Worker(s, "error") /\ UNCHANGED helper
    /\ UNCHANGED <<process, client, guard, thread>>

PromptAnswered(s) ==
    /\ worker[s] = "answering"
    /\ \/ Worker(s, "error") /\ UNCHANGED helper
       \/ Worker(s, "elevated") /\ helper' = [helper EXCEPT ![s] = [elevated |-> TRUE, at |-> "guard"]]
    /\ UNCHANGED <<process, client, guard, thread>>

\* wait_for_process: TerminateProcess may be refused, its result is ignored.
WaitForElevated(s) ==
    /\ worker[s] = "elevated"
    /\ \/ /\ guard[s].flag /\ Worker(s, "error")
          /\ helper' \in {helper, [helper EXCEPT ![s].at = IF @ \in Over THEN @ ELSE "killed"]}
       \/ /\ ~guard[s].flag /\ helper[s].at \in Over
          /\ Worker(s, IF helper[s].at = "ok" THEN "ok" ELSE "error")
          /\ UNCHANGED helper
    /\ UNCHANGED <<process, client, guard, thread>>

WorkerSteps(s) == SpawnHelper(s) \/ WaitForChild(s) \/ Elevate(s) \/ WaitForElevated(s)

-----------------------------------------------------------------------------
(***************************************************************************)
(* The helper: inject_guarded.                                             *)
(***************************************************************************)
Helper(s, at) == helper' = [helper EXCEPT ![s].at = at]
Allowed(s)    == guard[s].file = "active"

\* The first ensure_injection_allowed.
FirstCheck(s) ==
    /\ helper[s].at = "guard"
    /\ Helper(s, IF Allowed(s) THEN "modules" ELSE "failed")
    /\ UNCHANGED <<process, client, guard, worker, thread>>

\* process_has_module: a hook that is already there is an error.  The guard
\* is read again.
InspectModules(s) ==
    /\ helper[s].at = "modules"
    /\ \/ /\ game[target[s]] = "running"
          /\ Helper(s, IF loads[target[s]] > 0 \/ ~Allowed(s) THEN "failed" ELSE "open")
       \/ Helper(s, "failed")
    /\ UNCHANGED <<process, client, guard, worker, thread>>

\* OpenProcess (denied without elevation), the remote path, LoadLibraryW; the
\* last look at the guard comes right before the thread is created.
OpenGame(s) ==
    /\ helper[s].at = "open"
    /\ \/ game[target[s]] = "running" /\ Helper(s, IF Allowed(s) THEN "create" ELSE "failed")
       \/ ~helper[s].elevated /\ Helper(s, "denied")
       \/ Helper(s, "failed")
    /\ UNCHANGED <<process, client, guard, worker, thread>>

CreateRemoteThread(s) ==
    /\ helper[s].at = "create"
    /\ \/ /\ game[target[s]] = "running" /\ Helper(s, "wait")
          /\ thread' = [thread EXCEPT ![s] = "loading"]
       \/ Helper(s, "failed") /\ UNCHANGED thread
       \/ ~helper[s].elevated /\ Helper(s, "denied") /\ UNCHANGED thread
    /\ UNCHANGED <<process, client, guard, worker>>

\* WaitForSingleObject for ten seconds, then the exit code.
WaitRemoteThread(s) ==
    /\ helper[s].at = "wait"
    /\ \/ thread[s] = "loaded" /\ Helper(s, "ok")
       \/ Helper(s, "failed")
    /\ UNCHANGED <<process, client, guard, worker, thread>>

HelperSteps(s) ==
    \/ FirstCheck(s) \/ InspectModules(s) \/ OpenGame(s)
    \/ CreateRemoteThread(s) \/ WaitRemoteThread(s)

\* LoadLibraryW in the game, whoever still waits for it.
LoadHook(s) ==
    /\ thread[s] = "loading" /\ game[target[s]] = "running"
    /\ thread' = [thread EXCEPT ![s] = "loaded"]
    /\ loads' = [loads EXCEPT ![target[s]] = @ + 1]
    /\ UNCHANGED <<game, client, guard, worker, helper>>

GameStarts(p) ==
    /\ game[p] = "unborn" /\ \A q \in 1..(p - 1) : game[q] # "unborn"
    /\ game' = [game EXCEPT ![p] = "running"]
    /\ UNCHANGED <<loads, client, guard, worker, helper, thread>>

GameExits(p) ==
    /\ game[p] = "running" /\ game' = [game EXCEPT ![p] = "exited"]
    /\ UNCHANGED <<loads, client, guard, worker, helper, thread>>

InjectionNext ==
    \/ \E s \in S : \/ Lifecycle(s) \/ CancelSession(s) \/ WorkerSteps(s) \/ PromptAnswered(s)
                    \/ HelperSteps(s) \/ LoadHook(s)
    \/ \E p \in P : GameStarts(p) \/ GameExits(p)

InjectionSpec == InjectionInit /\ [][InjectionNext]_injectionVars

\* What the lifecycle task does by itself: its waits end and its timers fire,
\* whether or not the player answers or a helper makes progress.
LifecycleRuns(s) == WaitEnds(s) \/ Injected(s) \/ InjectionFailed(s) \/ StopInjection(s)
                    \/ RemoveGuard(s) \/ InjectionStopped(s) \/ Watch(s)

-----------------------------------------------------------------------------
\* The hook is loaded at most once into a game, although a session can end
\* with its LoadLibrary still under way, a retry follows a failed attempt and
\* the next session starts while the game is running (platform.rs 53-56,
\* paths.rs 234-249, process_lifecycle.rs 240-251).
LoadedOnce == \A p \in P : loads[p] <= 1

\* A session that is cancelled, or whose game is gone, is never held up: its
\* task can take its next step at once, whatever the helper does and even
\* while the permission prompt is never answered.  Each step brings the task
\* closer to its end (hook_lifecycle.rs 99-146, process_lifecycle.rs 288-322).
LetsGo == \A s \in S :
    /\ life[s] \notin {"off", "done"}
    /\ token[s] \/ \E p \in P : target[s] = p /\ game[p] = "exited"
    => ENABLED LifecycleRuns(s)
=============================================================================

---------------------------- MODULE UserInstall ----------------------------
(***************************************************************************)
(* What the Proton sidecar promises about the game of the user: the client *)
(* borrows the installation for a session and gives it back as it was.     *)
(* `own' are the files of the user under the names the sidecar uses,       *)
(* `setting' the winmm override of the user, both as they are once nothing *)
(* is borrowed; `busy' says that the client is at work on them.            *)
(***************************************************************************)
CONSTANTS Files,    \* names of the files that the sidecar would place
          Settings  \* states of the user's registry key

VARIABLES busy, borrowed, own, setting

InstallInit == /\ busy = FALSE
               /\ borrowed \in BOOLEAN
               /\ own \in SUBSET Files
               /\ setting \in Settings

\* The client begins, goes on, ends or dies: the user's state stays, and is
\* borrowed or given back only at work.
ClientWorks == /\ UNCHANGED <<own, setting>>
               /\ busy' \in BOOLEAN /\ borrowed' \in BOOLEAN
               /\ borrowed' # borrowed => busy

\* The user changes something between two such operations; while the
\* installation is borrowed, nothing that the client has to put back.
UserChanges == /\ ~busy /\ UNCHANGED <<busy, borrowed>>
               /\ own' \in SUBSET Files /\ setting' \in Settings
               /\ borrowed => /\ own' = own
                              /\ setting' \in {setting,
                                     [setting EXCEPT !.key = TRUE, !.other = TRUE]}

InstallSpec == InstallInit /\ [][ClientWorks \/ UserChanges]_<<busy, borrowed, own, setting>>
=============================================================================

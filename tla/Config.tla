------------------------------- MODULE Config -------------------------------
(***************************************************************************)
(* The client's configuration file (bridge-core/src/client/config.rs) and  *)
(* the two threads that rewrite it: the worker saves the relay catalogue, *)
(* the preferences and the selection (bridge-application commands.rs and   *)
(* application.rs), while the Flutter thread itself saves and deletes      *)
(* manual Steam accounts (flutter-bridge api.rs).  Every change reads the  *)
(* whole file, edits the document and replaces the file atomically;        *)
(* nothing locks the file between the read and the write.                  *)
(*                                                                         *)
(* A relay is its id; names, hosts and transports are left to the checks   *)
(* of RelayPreset::validate, which a change passes or not.                 *)
(***************************************************************************)
EXTENDS Integers, FiniteSets, FiniteSetsExt

CONSTANTS Accounts,     \* manual Steam accounts the user may enter
          MaxId         \* bound: relay ids handed out

ASSUME ConfigAssumption == MaxId \in Nat

VARIABLES
    file,       \* the file on disk
    saver,      \* the change the worker thread is making
    screen,     \* the change the Flutter thread is making
    loaded,     \* the configuration the client shows and uses
    promised,   \* the changes reported as saved: relays, accounts, ids given
    lost        \* one change replaced the file over another it had not read

configVars == <<file, saver, screen, loaded, promised, lost>>

NoRelay == 0

(* The default configuration, and the empty file. *)
Empty == [state |-> "ok", relays |-> {}, next |-> 1, selected |-> NoRelay,
          accounts |-> {}, account |-> {}]

Rest == [change |-> "none", arg |-> NoRelay, doc |-> Empty, stale |-> FALSE]

(* A file the user broke by hand: "syntax" does not parse as a document,   *)
(* "invalid" does, but fails ClientConfig::validate.  A selected relay     *)
(* that is not in the catalogue is dropped while it is read.               *)
Parses(doc) == doc.state # "syntax"
Valid(doc)  == doc.state = "ok"

parse_client_config(doc) ==
    [doc EXCEPT !.selected = IF @ \in doc.relays THEN @ ELSE NoRelay]

load_client_config == IF Valid(file) THEN parse_client_config(file) ELSE Empty

ConfigInit ==
    /\ file = Empty
    /\ saver = Rest /\ screen = Rest
    /\ loaded = Empty
    /\ promised = [relays |-> {}, accounts |-> {}, given |-> {}, reused |-> FALSE]
    /\ lost = FALSE

-----------------------------------------------------------------------------
(* The changes.  Each yields the document to write. *)

(* Mutant: the stored counter is ignored. *)
AfterExisting(doc) == IF doc.relays = {} THEN 1 ELSE Max(doc.relays) + 1

next_relay_id(doc) ==
    LET after == IF doc.relays = {} THEN 1 ELSE Max(doc.relays) + 1
    IN  IF after > doc.next THEN after ELSE doc.next

Add(doc) == [doc EXCEPT !.relays = @ \cup {next_relay_id(doc)},
                        !.selected = next_relay_id(doc),
                        !.next = next_relay_id(doc) + 1]

Delete(doc, id) == [doc EXCEPT !.relays = @ \ {id},
                               !.selected = IF @ = id THEN NoRelay ELSE @,
                               !.next = next_relay_id(doc)]

SaveAccount(doc, a)   == [doc EXCEPT !.accounts = @ \cup {a}, !.account = {a}]
DeleteAccount(doc, a) == [doc EXCEPT !.accounts = @ \ {a}, !.account = @ \ {a}]

-----------------------------------------------------------------------------
(* The worker thread. *)

(* read_editable_config, and the check of the document before it is        *)
(* edited; a document that does not pass is left alone.  A selection and   *)
(* the preferences only need the document.                                 *)
WorkerReads(change, arg) ==
    /\ saver.change = "none"
    /\ saver' = [change |-> change, arg |-> arg, doc |-> file, stale |-> FALSE]
    /\ UNCHANGED <<file, screen, loaded, promised, lost>>

SaveRelayCatalog ==
    /\ Valid(file)
    /\ \/ next_relay_id(file) <= MaxId /\ WorkerReads("add", NoRelay)
       \/ \E id \in loaded.relays : id \in file.relays /\ WorkerReads("update", id)
       \/ \E id \in loaded.relays : id \in file.relays /\ WorkerReads("delete", id)

SavePreferences == Valid(file) /\ WorkerReads("preferences", NoRelay)

(* The selection of the screen's draft: any relay it shows, or none. *)
SaveSelection == Parses(file) /\ \E id \in loaded.relays \cup {NoRelay} :
                                    WorkerReads("selection", id)

(* The change is refused, for its input or by the file system. *)
WorkerFails ==
    /\ saver.change # "none"
    /\ saver' = Rest
    /\ UNCHANGED <<file, screen, loaded, promised, lost>>

WorkerDoc ==
    LET doc == saver.doc IN
    CASE saver.change = "add"       -> Add(doc)
      [] saver.change = "delete"    -> Delete(doc, saver.arg)
      [] saver.change = "selection" -> [doc EXCEPT !.selected = saver.arg]
      [] OTHER -> doc

(* write_document; the loaded configuration is replaced by what was        *)
(* written, except after a selection.  The file and the report of it are   *)
(* one step: a kill between the two is left out.                           *)
WorkerWrites ==
    /\ saver.change # "none"
    /\ file' = WorkerDoc
    /\ loaded' = IF saver.change = "selection" THEN loaded
                 ELSE parse_client_config(WorkerDoc)
    /\ promised' = CASE saver.change = "add" ->
                          [promised EXCEPT !.relays = @ \cup {next_relay_id(saver.doc)},
                              !.reused = @ \/ next_relay_id(saver.doc) \in promised.given,
                              !.given = @ \cup {next_relay_id(saver.doc)}]
                     [] saver.change = "delete" ->
                          [promised EXCEPT !.relays = @ \ {saver.arg}]
                     [] OTHER -> promised
    /\ lost' = (lost \/ saver.stale)
    /\ screen' = [screen EXCEPT !.stale = screen.change # "none"]
    /\ saver' = Rest

-----------------------------------------------------------------------------
(* The Flutter thread: the same file, and its own copy of the accounts. *)

ScreenReads ==
    /\ screen.change = "none" /\ Valid(file)
    /\ \/ \E a \in Accounts :
            screen' = [change |-> "save", arg |-> a, doc |-> file, stale |-> FALSE]
       \/ \E a \in file.accounts :
            screen' = [change |-> "remove", arg |-> a, doc |-> file, stale |-> FALSE]
    /\ UNCHANGED <<file, saver, loaded, promised, lost>>

ScreenDoc == IF screen.change = "save" THEN SaveAccount(screen.doc, screen.arg)
                                       ELSE DeleteAccount(screen.doc, screen.arg)

ScreenWrites ==
    /\ screen.change # "none"
    /\ file' = ScreenDoc
    /\ loaded' = [loaded EXCEPT !.accounts = ScreenDoc.accounts, !.account = ScreenDoc.account]
    /\ promised' = [promised EXCEPT !.accounts = IF screen.change = "save"
                                                 THEN @ \cup {screen.arg}
                                                 ELSE @ \ {screen.arg}]
    /\ lost' = (lost \/ screen.stale)
    /\ saver' = [saver EXCEPT !.stale = saver.change # "none"]
    /\ screen' = Rest

ScreenFails ==
    /\ screen.change # "none"
    /\ screen' = Rest
    /\ UNCHANGED <<file, saver, loaded, promised, lost>>

-----------------------------------------------------------------------------
(* The program ends at any point and is started again. *)
Restart ==
    /\ saver' = Rest /\ screen' = Rest
    /\ loaded' = load_client_config
    /\ UNCHANGED <<file, promised, lost>>

(* The user edits the file while the program is not changing it. *)
HandEdit ==
    /\ saver.change = "none" /\ screen.change = "none"
    /\ \E s \in {"ok", "syntax", "invalid"} : file' = [file EXCEPT !.state = s]
    /\ UNCHANGED <<saver, screen, loaded, promised, lost>>

(* Once a change is lost the property promises nothing: the bound stops    *)
(* there.                                                                  *)
ConfigNext == /\ ~lost
              /\ \/ SaveRelayCatalog \/ SavePreferences \/ SaveSelection
                 \/ WorkerFails \/ WorkerWrites
                 \/ ScreenReads \/ ScreenWrites \/ ScreenFails
                 \/ Restart \/ HandEdit

ConfigSpec == ConfigInit /\ [][ConfigNext]_configVars

-----------------------------------------------------------------------------
(* As long as the two threads' changes did not overlap, the file holds     *)
(* exactly the relays and accounts whose changes were reported as saved,   *)
(* through refused changes, restarts and a file that was broken by hand    *)
(* and repaired, and the id of a deleted relay is never given to another,  *)
(* which a room record or a Join Code may still name (next_relay_id,       *)
(* save_client_relay_catalog_to and their siblings in config.rs).          *)
SavedIsKept ==
    lost \/ /\ file.relays = promised.relays
            /\ file.accounts = promised.accounts
            /\ ~promised.reused
=============================================================================

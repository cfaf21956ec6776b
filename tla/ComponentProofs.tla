---------------------------- MODULE ComponentProofs ----------------------------
(***************************************************************************)
(* Proofs about the components that work alone.                            *)
(***************************************************************************)
EXTENDS Components, DataLemmas, FiniteSetTheorems

--------------------------------------------------------------------------------
(* The duplicate window (FrameWindowSpec), for every window width and      *)
(* every set of frame ids.  The invariant that carries the proofs is       *)
(* WindowAgrees: the bits say exactly which of the last WindowBits ids     *)
(* were admitted.                                                          *)

WindowInv == TypeOK /\ WindowAgrees /\ NoReplay /\ NoFalseDuplicate

(* One observe keeps the invariant: fresh ids shift the bits, reordered ids *)
(* set one, duplicates and ids below the window change nothing.            *)
THEOREM WindowStep == WindowInv /\ [Next]_vars => WindowInv'
<1> SUFFICES ASSUME WindowInv, [Next]_vars PROVE WindowInv'
  OBVIOUS
<1> USE WindowAssumption
<1>1. CASE UNCHANGED vars
  BY <1>1 DEF WindowInv, TypeOK, WindowAgrees, NoReplay, NoFalseDuplicate, vars
<1>2. ASSUME NEW f \in FrameIds, Observe(f) PROVE WindowInv'
  <2> DEFINE h == window.highest
             d == Decision(window, f)
  <2>0. /\ window' = Observed(window, f)
        /\ accepted' = IF Admits(window, f) THEN accepted \cup {f} ELSE accepted
        /\ last' = [id |-> f, decision |-> d, again |-> f \in accepted]
    BY <1>2 DEF Observe
  <2>1. window \in Windows /\ accepted \subseteq FrameIds /\ f \in Nat
    BY DEF WindowInv, TypeOK
  <2>2. TypeOK'
    BY <2>0, <2>1, ObservedType DEF TypeOK, Admits, Decisions
  <2>3. CASE h = NoFrame
    <3>1. accepted = {} /\ d = "New"
      BY <2>3 DEF WindowInv, WindowAgrees, Decision
    <3>2. window' = [highest |-> f, seen |-> {0}] /\ accepted' = {f}
      BY <2>0, <2>3, <3>1 DEF Observed, Admits
    <3>3. WindowAgrees'
      BY <3>2 DEF WindowAgrees
    <3> QED BY <2>0, <2>2, <3>1, <3>3 DEF WindowInv, NoReplay, NoFalseDuplicate
  <2>4. CASE h # NoFrame /\ f > h
    <3>0. h \in Nat
      BY <2>1, <2>4 DEF Windows
    <3>1. h \in Nat /\ d = "New" /\ f \notin accepted
      <4>1. d = "New"
        BY <2>4 DEF Decision
      <4>2. \A g \in accepted : g <= h
        BY <2>4 DEF WindowInv, WindowAgrees
      <4> QED BY <2>1, <2>4, <3>0, <4>1, <4>2
    <3>2. accepted' = accepted \cup {f}
      BY <2>0, <3>1 DEF Admits
    <3>3. window' = [highest |-> f,
                     seen |-> IF f - h >= WindowBits THEN {0}
                              ELSE Shift(window.seen, f - h) \cup {0}]
      BY <2>0, <2>4, <3>1 DEF Observed
    <3>4. \A bit \in 0 .. WindowBits - 1 : bit \in window'.seen <=> f - bit \in accepted'
      <4> SUFFICES ASSUME NEW bit \in 0 .. WindowBits - 1
                   PROVE  bit \in window'.seen <=> f - bit \in accepted'
        OBVIOUS
      <4>1. CASE bit = 0
        BY <2>1, <3>2, <3>3, <4>1
      <4>2. CASE bit # 0
        <5>1. f - bit \in accepted' <=> f - bit \in accepted
          BY <2>1, <3>2, <4>2
        <5>2. CASE f - bit > h
          <6>0. \A g \in accepted : g <= h
            BY <2>4 DEF WindowInv, WindowAgrees
          <6>1. f - bit \notin accepted
            BY <2>1, <3>0, <5>2, <6>0
          <6>2. bit - (f - h) \notin window.seen
            BY <2>1, <3>1, <5>2 DEF Windows
          <6> QED BY <3>3, <4>2, <5>1, <6>1, <6>2 DEF Shift
        <5>3. CASE f - bit <= h
          <6>1. bit - (f - h) \in 0 .. WindowBits - 1 /\ f - h < WindowBits
            BY <2>1, <2>4, <3>1, <5>3
          <6>2. h - (bit - (f - h)) = f - bit
            BY <2>1, <3>1
          <6>3. bit - (f - h) \in window.seen <=> f - bit \in accepted
            BY <2>4, <6>1, <6>2 DEF WindowInv, WindowAgrees
          <6>4. bit \in window'.seen <=> bit - (f - h) \in window.seen
            BY <2>1, <3>1, <3>3, <4>2, <6>1 DEF Shift
          <6> QED BY <5>1, <6>3, <6>4
        <5> QED BY <2>1, <3>1, <5>2, <5>3
      <4> QED BY <4>1, <4>2
    <3>5. \A g \in accepted' : g <= f
      BY <2>1, <2>4, <3>1, <3>2 DEF WindowInv, WindowAgrees
    <3>6. WindowAgrees'
      BY <3>2, <3>3, <3>4, <3>5 DEF WindowAgrees
    <3> QED BY <2>0, <2>2, <3>1, <3>6 DEF WindowInv, NoReplay, NoFalseDuplicate
  <2>5. CASE h # NoFrame /\ ~(f > h)
    <3>0. h \in Nat
      BY <2>1, <2>5 DEF Windows
    <3>1. h \in Nat /\ f <= h /\ h \in accepted /\ d # "New"
      <4>1. d # "New"
        BY <2>5 DEF Decision
      <4>2. h \in accepted
        BY <2>5 DEF WindowInv, WindowAgrees
      <4> QED BY <2>1, <2>5, <3>0, <4>1, <4>2
    <3>2. CASE d = "Reordered"
      <4>1. h - f \in 0 .. WindowBits - 1 /\ h - f \notin window.seen
        BY <2>1, <2>5, <3>1, <3>2 DEF Decision
      <4>2. f \notin accepted
        <5>1. h - (h - f) = f
          BY <2>1, <3>1
        <5> QED BY <2>5, <4>1, <5>1 DEF WindowInv, WindowAgrees
      <4>3. accepted' = accepted \cup {f}
        BY <2>0, <3>2 DEF Admits
      <4>4. window' = [window EXCEPT !.seen = @ \cup {h - f}]
        BY <2>0, <2>5, <3>2 DEF Observed
      <4>5. window'.highest = h /\ window'.seen = window.seen \cup {h - f}
        BY <2>1, <4>4 DEF Windows
      <4>6. \A bit \in 0 .. WindowBits - 1 : bit \in window'.seen <=> h - bit \in accepted'
        <5> SUFFICES ASSUME NEW bit \in 0 .. WindowBits - 1
                     PROVE  bit \in window'.seen <=> h - bit \in accepted'
          OBVIOUS
        <5>1. bit = h - f <=> h - bit = f
          BY <2>1, <3>1
        <5>2. bit \in window.seen <=> h - bit \in accepted
          BY <2>5 DEF WindowInv, WindowAgrees
        <5> QED BY <4>3, <4>5, <5>1, <5>2
      <4>7. WindowAgrees'
        <5>1. \A g \in accepted' : g <= h
          BY <2>5, <3>1, <4>3 DEF WindowInv, WindowAgrees
        <5> QED BY <2>5, <3>1, <4>3, <4>5, <4>6, <5>1 DEF WindowAgrees
      <4> QED BY <2>0, <2>2, <3>2, <4>2, <4>7 DEF WindowInv, NoReplay, NoFalseDuplicate
    <3>3. CASE d # "Reordered"
      <4>1. d = "TooOld" \/ (d = "Duplicate" /\ h - f \in window.seen)
        BY <2>5, <3>1, <3>3 DEF Decision
      <4>2. window' = window /\ accepted' = accepted
        BY <2>0, <2>5, <3>1, <3>3 DEF Observed, Admits
      <4>3. WindowAgrees'
        BY <4>2 DEF WindowInv, WindowAgrees
      <4>4. d = "Duplicate" => f \in accepted
        <5>1. h - (h - f) = f
          BY <2>1, <3>1
        <5> QED BY <2>1, <2>5, <4>1, <5>1 DEF WindowInv, WindowAgrees, Windows
      <4> QED BY <2>0, <2>2, <4>1, <4>3, <4>4 DEF WindowInv, NoReplay, NoFalseDuplicate
    <3> QED BY <3>2, <3>3
  <2> QED BY <2>3, <2>4, <2>5
<1> QED BY <1>1, <1>2 DEF Next

(* The invariant holds throughout.                                         *)
LEMMA WindowInvHolds == Spec => []WindowInv
<1>1. Init => WindowInv
  BY WindowAssumption
     DEF Init, WindowInv, TypeOK, WindowAgrees, NoReplay, NoFalseDuplicate, NewWindow, Windows,
         Decisions
<1> QED BY <1>1, WindowStep, PTL DEF Spec

(* The window tells replay from reorder exactly, for every width: nothing  *)
(* that observe admits was admitted before, and nothing it calls a         *)
(* duplicate was not.                                                      *)
THEOREM WindowCorrect == Spec => []WindowIsExact
<1>1. WindowInv => WindowIsExact
  BY DEF WindowInv, WindowIsExact
<1> QED BY <1>1, WindowInvHolds, PTL

(* The highest id never falls, so an id that became TooOld stays refused.  *)
THEOREM WindowMovesForward == Spec => HighestNeverFalls
<1>1. ASSUME TypeOK, [Next]_vars
      PROVE  [window.highest # NoFrame =>
                /\ window'.highest # NoFrame
                /\ window'.highest >= window.highest]_vars
  <2> USE WindowAssumption
  <2>1. CASE UNCHANGED vars
    BY <2>1 DEF vars
  <2>2. ASSUME NEW f \in FrameIds, Observe(f), window.highest # NoFrame
        PROVE  window'.highest # NoFrame /\ window'.highest >= window.highest
    <3>1. window.highest \in Nat /\ f \in Nat /\ window' = Observed(window, f)
      BY <1>1, <2>2 DEF TypeOK, Windows, Observe
    <3>2. /\ window'.highest \in {f, window.highest}
          /\ window'.highest = f => f >= window.highest \/ f = window.highest
      BY <1>1, <2>2, <3>1 DEF TypeOK, Windows, Observed, Decision
    <3> QED BY <2>2, <3>1, <3>2
  <2> QED BY <1>1, <2>1, <2>2 DEF Next
<1>2. Spec => []TypeOK
  <2>1. WindowInv => TypeOK
    BY DEF WindowInv
  <2> QED BY <2>1, WindowInvHolds, PTL
<1> QED BY <1>1, <1>2, PTL DEF Spec, HighestNeverFalls

--------------------------------------------------------------------------------
(* The configuration file (Config) keeps what was reported as saved, for   *)
(* any number of relays and accounts.  Everything is said of the time      *)
(* before a change is lost: until then a change that is under way was read *)
(* from the file as it is now, and the counter of the file is above every  *)
(* id ever given.                                                          *)

Documents == [state : {"ok", "syntax", "invalid"}, relays : SUBSET Nat, next : Nat,
              selected : Nat, accounts : SUBSET (Accounts \cup {NoRelay}),
              account : SUBSET (Accounts \cup {NoRelay})]

Changes(args) == [change : {"none", "add", "update", "delete", "preferences", "selection",
                            "save", "remove"},
                  arg : args, doc : Documents, stale : BOOLEAN]

ConfigTypes ==
    /\ file \in Documents /\ loaded \in Documents
    /\ saver \in Changes(Nat) /\ screen \in Changes(Accounts \cup {NoRelay})
    /\ promised \in [relays : SUBSET Nat, accounts : SUBSET (Accounts \cup {NoRelay}),
                     given : SUBSET Nat, reused : BOOLEAN]

(* A change under way holds the file, unless the other thread wrote since. *)
ReadsAreCurrent ==
    /\ saver.change # "none" /\ ~saver.stale => saver.doc = file
    /\ screen.change # "none" /\ ~screen.stale => screen.doc = file

Counted ==
    /\ promised.relays \subseteq promised.given
    /\ \A id \in promised.given : id < file.next

Kept ==
    /\ file.relays = promised.relays
    /\ file.accounts = promised.accounts
    /\ ~promised.reused

ConfigInv == lost \/ (ConfigTypes /\ ReadsAreCurrent /\ Counted /\ Kept)

-----------------------------------------------------------------------------
(* The next id is never below the stored counter.                          *)
LEMMA NextIsAbove ==
    ASSUME NEW doc \in Documents, \A id \in doc.relays : id < doc.next
    PROVE  next_relay_id(doc) \in Nat /\ next_relay_id(doc) >= doc.next
<1>1. doc.next \in Nat /\ doc.relays \subseteq Nat
  BY DEF Documents
<1>2. CASE doc.relays = {}
  BY <1>1, <1>2 DEF next_relay_id
<1>3. CASE doc.relays # {}
  <2>1. doc.relays \subseteq 0..doc.next
    BY <1>1
  <2>2. Max(doc.relays) \in doc.relays
    BY <1>1, <1>3, <2>1, MaxOfBounded
  <2>3. Max(doc.relays) \in Nat /\ Max(doc.relays) < doc.next
    BY <1>1, <2>2
  <2> QED BY <1>1, <1>3, <2>3 DEF next_relay_id
<1> QED BY <1>2, <1>3

(* The default configuration and an idle thread are well typed.            *)
LEMMA Defaults ==
    /\ Empty \in Documents
    /\ Rest \in Changes(Nat) /\ Rest \in Changes(Accounts \cup {NoRelay})
<1>1. Empty \in Documents
  BY DEF Empty, Documents, NoRelay
<1> QED BY <1>1 DEF Rest, Changes, NoRelay

(* Reading drops a selection that is gone, nothing else.                   *)
LEMMA ParsedIsDocument ==
    ASSUME NEW doc \in Documents
    PROVE  parse_client_config(doc) \in Documents
BY DEF parse_client_config, Documents, NoRelay

(* The empty file keeps nothing, as nothing was promised.                  *)
LEMMA ConfigInitInv == ConfigInit => ConfigInv
<1> SUFFICES ASSUME ConfigInit PROVE ConfigInv
  OBVIOUS
<1>1. ConfigTypes
  BY Defaults DEF ConfigInit, ConfigTypes
<1>2. ReadsAreCurrent /\ Counted /\ Kept
  BY DEF ConfigInit, ReadsAreCurrent, Counted, Kept, Rest, Empty
<1> QED BY <1>1, <1>2 DEF ConfigInv

(* A change starts from the file as it is.                                 *)
LEMMA ReadSteps ==
    ASSUME ConfigInv, ~lost, SaveRelayCatalog \/ SavePreferences \/ SaveSelection \/ ScreenReads
    PROVE  ConfigInv'
<1>1. UNCHANGED <<file, loaded, promised>>
  BY DEF SaveRelayCatalog, SavePreferences, SaveSelection, ScreenReads, WorkerReads
<1>2. ConfigTypes /\ ReadsAreCurrent /\ Counted /\ Kept
  BY DEF ConfigInv
<1>3. CASE SaveRelayCatalog \/ SavePreferences \/ SaveSelection
  <2>1. PICK change \in {"add", "update", "delete", "preferences", "selection"}, arg \in Nat :
            WorkerReads(change, arg)
    BY <1>2, <1>3 DEF SaveRelayCatalog, SavePreferences, SaveSelection, ConfigTypes, Documents,
                      NoRelay
  <2>2. /\ saver' = [change |-> change, arg |-> arg, doc |-> file, stale |-> FALSE]
        /\ screen' = screen
    BY <2>1 DEF WorkerReads
  <2>3. saver' \in Changes(Nat)
    BY <1>2, <2>2 DEF Changes, ConfigTypes
  <2> QED BY <1>1, <1>2, <2>2, <2>3 DEF ConfigInv, ConfigTypes, ReadsAreCurrent, Counted, Kept
<1>4. CASE ScreenReads
  <2>1. PICK change \in {"save", "remove"}, arg \in Accounts \cup {NoRelay} :
            /\ screen' = [change |-> change, arg |-> arg, doc |-> file, stale |-> FALSE]
            /\ saver' = saver
    BY <1>2, <1>4 DEF ScreenReads, ConfigTypes, Documents
  <2>2. screen' \in Changes(Accounts \cup {NoRelay})
    BY <1>2, <2>1 DEF Changes, ConfigTypes
  <2> QED BY <1>1, <1>2, <2>1, <2>2 DEF ConfigInv, ConfigTypes, ReadsAreCurrent, Counted, Kept
<1> QED BY <1>3, <1>4

(* The worker's document, when it was read from the file as it is now.     *)
LEMMA WorkerStep ==
    ASSUME ConfigInv, ~lost, WorkerWrites
    PROVE  ConfigInv'
<1>1. ConfigTypes /\ ReadsAreCurrent /\ Counted /\ Kept
  BY DEF ConfigInv
<1>2. CASE saver.stale
  BY <1>2 DEF WorkerWrites, ConfigInv
<1>3. CASE ~saver.stale
  <2>1. saver.doc = file /\ file \in Documents /\ saver.arg \in Nat
    BY <1>1, <1>3 DEF WorkerWrites, ReadsAreCurrent, ConfigTypes, Changes
  <2>2. \A id \in file.relays : id < file.next
    BY <1>1 DEF Counted, Kept
  <2>3. /\ next_relay_id(file) \in Nat /\ next_relay_id(file) >= file.next
        /\ file.next \in Nat
    BY <2>1, <2>2, NextIsAbove DEF Documents
  <2> DEFINE new == next_relay_id(file)
  <2>4. \/ /\ file' = [file EXCEPT !.relays = @ \cup {new}, !.selected = new, !.next = new + 1]
           /\ promised' = [promised EXCEPT !.relays = @ \cup {new},
                             !.reused = @ \/ new \in promised.given, !.given = @ \cup {new}]
        \/ /\ file' = [file EXCEPT !.relays = @ \ {saver.arg},
                         !.selected = IF @ = saver.arg THEN NoRelay ELSE @, !.next = new]
           /\ promised' = [promised EXCEPT !.relays = @ \ {saver.arg}]
        \/ file' = [file EXCEPT !.selected = saver.arg] /\ promised' = promised
        \/ file' = file /\ promised' = promised
    BY <2>1 DEF WorkerWrites, WorkerDoc, Add, Delete
  <2>5. new \in Nat /\ new >= file.next /\ file.next \in Nat
    BY <2>3
  <2> HIDE DEF new
  <2>6. /\ file' \in Documents
        /\ promised' \in [relays : SUBSET Nat, accounts : SUBSET (Accounts \cup {NoRelay}),
                          given : SUBSET Nat, reused : BOOLEAN]
    <3>1. promised \in [relays : SUBSET Nat, accounts : SUBSET (Accounts \cup {NoRelay}),
                        given : SUBSET Nat, reused : BOOLEAN]
      BY <1>1 DEF ConfigTypes
    <3>2. file' \in Documents
      <4>1. \/ file' = [file EXCEPT !.relays = @ \cup {new}, !.selected = new, !.next = new + 1]
            \/ file' = [file EXCEPT !.relays = @ \ {saver.arg},
                         !.selected = IF @ = saver.arg THEN NoRelay ELSE @, !.next = new]
            \/ file' = [file EXCEPT !.selected = saver.arg]
            \/ file' = file
        BY <2>4
      <4>2. CASE file' = [file EXCEPT !.relays = @ \cup {new}, !.selected = new,
                           !.next = new + 1]
        <5>1. file.relays \cup {new} \in SUBSET Nat /\ new + 1 \in Nat
          BY <2>1, <2>5 DEF Documents
        <5> QED BY <2>1, <2>5, <4>2, <5>1 DEF Documents
      <4>3. CASE file' = [file EXCEPT !.relays = @ \ {saver.arg},
                         !.selected = IF @ = saver.arg THEN NoRelay ELSE @, !.next = new]
        BY <2>1, <2>5, <4>3 DEF Documents, NoRelay
      <4>4. CASE file' = [file EXCEPT !.selected = saver.arg]
        BY <2>1, <4>4 DEF Documents
      <4> QED BY <2>1, <4>1, <4>2, <4>3, <4>4
    <3>3. promised' \in [relays : SUBSET Nat, accounts : SUBSET (Accounts \cup {NoRelay}),
                         given : SUBSET Nat, reused : BOOLEAN]
      <4>1. \/ promised' = [promised EXCEPT !.relays = @ \cup {new},
                             !.reused = @ \/ new \in promised.given, !.given = @ \cup {new}]
            \/ promised' = [promised EXCEPT !.relays = @ \ {saver.arg}]
            \/ promised' = promised
        BY <2>4
      <4>2. CASE promised' = [promised EXCEPT !.relays = @ \cup {new},
                                !.reused = @ \/ new \in promised.given, !.given = @ \cup {new}]
        <5>1. (promised.reused \/ new \in promised.given) \in BOOLEAN
          OBVIOUS
        <5> QED BY <2>5, <3>1, <4>2, <5>1
      <4>3. CASE promised' = [promised EXCEPT !.relays = @ \ {saver.arg}]
        BY <3>1, <4>3
      <4> QED BY <3>1, <4>1, <4>2, <4>3
    <3> QED BY <3>2, <3>3
  <2>7. ConfigTypes'
    <3>1. loaded' = loaded \/ loaded' = parse_client_config(file')
      BY DEF WorkerWrites
    <3>2. loaded' \in Documents
      BY <1>1, <2>6, <3>1, ParsedIsDocument DEF ConfigTypes
    <3>3. saver' = Rest /\ screen' = [screen EXCEPT !.stale = screen.change # "none"]
      BY DEF WorkerWrites
    <3>4. screen' \in Changes(Accounts \cup {NoRelay})
      <4>1. (screen.change # "none") \in BOOLEAN
        OBVIOUS
      <4> QED BY <1>1, <3>3, <4>1 DEF ConfigTypes, Changes
    <3> QED BY <2>6, <3>2, <3>3, <3>4, Defaults DEF ConfigTypes
  <2>8. ReadsAreCurrent'
    <3>1. saver'.change = "none" /\ screen'.change = screen.change
          /\ screen'.stale = (screen.change # "none")
      BY <1>1 DEF WorkerWrites, Rest, ConfigTypes, Changes
    <3> QED BY <3>1 DEF ReadsAreCurrent
  <2>9. Counted' /\ Kept'
    <3>1. file.relays = promised.relays /\ promised.relays \subseteq promised.given
          /\ file.accounts = promised.accounts /\ ~promised.reused
          /\ \A id \in promised.given : id \in Nat /\ id < file.next
      BY <1>1 DEF Counted, Kept, ConfigTypes
    <3>2. CASE /\ file' = [file EXCEPT !.relays = @ \cup {new}, !.selected = new,
                             !.next = new + 1]
               /\ promised' = [promised EXCEPT !.relays = @ \cup {new},
                                 !.reused = @ \/ new \in promised.given,
                                 !.given = @ \cup {new}]
      <4>1. /\ file'.relays = file.relays \cup {new} /\ file'.next = new + 1
            /\ file'.accounts = file.accounts
        BY <2>1, <3>2 DEF Documents
      <4>2. /\ promised'.relays = promised.relays \cup {new}
            /\ promised'.given = promised.given \cup {new}
            /\ promised'.accounts = promised.accounts
            /\ promised'.reused = (promised.reused \/ new \in promised.given)
        BY <1>1, <3>2 DEF ConfigTypes
      <4>3. new \notin promised.given
        BY <2>5, <3>1
      <4>4. \A id \in promised'.given : id < file'.next
        BY <2>5, <3>1, <4>1, <4>2
      <4> QED BY <3>1, <4>1, <4>2, <4>3, <4>4 DEF Counted, Kept
    <3>3. CASE /\ file' = [file EXCEPT !.relays = @ \ {saver.arg},
                         !.selected = IF @ = saver.arg THEN NoRelay ELSE @, !.next = new]
               /\ promised' = [promised EXCEPT !.relays = @ \ {saver.arg}]
      <4>1. /\ file'.relays = file.relays \ {saver.arg} /\ file'.next = new
            /\ file'.accounts = file.accounts
        BY <2>1, <3>3 DEF Documents
      <4>2. /\ promised'.relays = promised.relays \ {saver.arg}
            /\ promised'.given = promised.given
            /\ promised'.accounts = promised.accounts
            /\ promised'.reused = promised.reused
        BY <1>1, <3>3 DEF ConfigTypes
      <4>3. \A id \in promised'.given : id < file'.next
        BY <2>5, <3>1, <4>1, <4>2
      <4> QED BY <3>1, <4>1, <4>2, <4>3 DEF Counted, Kept
    <3>4. CASE file' = [file EXCEPT !.selected = saver.arg] /\ promised' = promised
      BY <2>1, <3>1, <3>4 DEF Counted, Kept, Documents
    <3>5. CASE file' = file /\ promised' = promised
      BY <3>1, <3>5 DEF Counted, Kept
    <3> QED BY <2>4, <3>2, <3>3, <3>4, <3>5
  <2> QED BY <2>7, <2>8, <2>9 DEF ConfigInv
<1> QED BY <1>2, <1>3

(* The Flutter thread's document changes the accounts alone.               *)
LEMMA ScreenStep ==
    ASSUME ConfigInv, ~lost, ScreenWrites
    PROVE  ConfigInv'
<1>1. ConfigTypes /\ ReadsAreCurrent /\ Counted /\ Kept
  BY DEF ConfigInv
<1>2. CASE screen.stale
  BY <1>2 DEF ScreenWrites, ConfigInv
<1>3. CASE ~screen.stale
  <2>1. /\ screen.doc = file /\ file \in Documents /\ loaded \in Documents
        /\ screen.arg \in Accounts \cup {NoRelay}
    BY <1>1, <1>3 DEF ScreenWrites, ReadsAreCurrent, ConfigTypes, Changes
  <2> DEFINE Change(accs) == IF screen.change = "save" THEN accs \cup {screen.arg}
                                                    ELSE accs \ {screen.arg}
  <2>2. PICK held \in SUBSET (Accounts \cup {NoRelay}) :
            file' = [file EXCEPT !.accounts = Change(file.accounts), !.account = held]
    <3>1. CASE screen.change = "save"
      <4>1. file' = [file EXCEPT !.accounts = Change(file.accounts), !.account = {screen.arg}]
        BY <2>1, <3>1 DEF ScreenWrites, ScreenDoc, SaveAccount, Documents
      <4> QED BY <2>1, <4>1
    <3>2. CASE screen.change # "save"
      <4>1. file' = [file EXCEPT !.accounts = Change(file.accounts),
                                 !.account = file.account \ {screen.arg}]
        BY <2>1, <3>2 DEF ScreenWrites, ScreenDoc, DeleteAccount, Documents
      <4> QED BY <2>1, <4>1 DEF Documents
    <3> QED BY <3>1, <3>2
  <2>3. promised' = [promised EXCEPT !.accounts = Change(promised.accounts)]
    BY DEF ScreenWrites
  <2>4. \A accs \in SUBSET (Accounts \cup {NoRelay}) :
            Change(accs) \in SUBSET (Accounts \cup {NoRelay})
    BY <2>1
  <2>5. loaded' = [loaded EXCEPT !.accounts = file'.accounts, !.account = file'.account]
    BY DEF ScreenWrites
  <2>6. screen' = Rest /\ saver' = [saver EXCEPT !.stale = saver.change # "none"]
    BY DEF ScreenWrites
  <2> HIDE DEF Change
  <2>7. file' \in Documents
    BY <2>1, <2>2, <2>4 DEF Documents
  <2>8. ConfigTypes'
    <3>1. loaded' \in Documents
      BY <2>1, <2>5, <2>7 DEF Documents
    <3>2. promised' \in [relays : SUBSET Nat, accounts : SUBSET (Accounts \cup {NoRelay}),
                         given : SUBSET Nat, reused : BOOLEAN]
      BY <1>1, <2>3, <2>4 DEF ConfigTypes
    <3>3. saver' \in Changes(Nat)
      BY <1>1, <2>6 DEF ConfigTypes, Changes
    <3> QED BY <2>6, <2>7, <3>1, <3>2, <3>3, Defaults DEF ConfigTypes
  <2>9. ReadsAreCurrent'
    <3>1. /\ screen'.change = "none" /\ saver'.change = saver.change
          /\ saver'.stale = (saver.change # "none")
      BY <1>1, <2>6 DEF Rest, ConfigTypes, Changes
    <3> QED BY <3>1 DEF ReadsAreCurrent
  <2>10. Counted' /\ Kept'
    <3>1. /\ file'.relays = file.relays /\ file'.next = file.next
          /\ file'.accounts = Change(file.accounts)
      BY <2>1, <2>2 DEF Documents
    <3>2. /\ promised'.relays = promised.relays /\ promised'.given = promised.given
          /\ promised'.reused = promised.reused
          /\ promised'.accounts = Change(promised.accounts)
      BY <1>1, <2>3 DEF ConfigTypes
    <3> QED BY <1>1, <3>1, <3>2 DEF Counted, Kept
  <2> QED BY <2>8, <2>9, <2>10 DEF ConfigInv
<1> QED BY <1>2, <1>3

(* Refusals, restarts and edits by hand lose nothing.                      *)
LEMMA OtherSteps ==
    ASSUME ConfigInv, ~lost, WorkerFails \/ ScreenFails \/ Restart \/ HandEdit
    PROVE  ConfigInv'
<1>1. ConfigTypes /\ ReadsAreCurrent /\ Counted /\ Kept
  BY DEF ConfigInv
<1>2. CASE HandEdit
  <2>1. /\ saver.change = "none" /\ screen.change = "none"
        /\ UNCHANGED <<saver, screen, loaded, promised, lost>>
    BY <1>2 DEF HandEdit
  <2>2. PICK st \in {"ok", "syntax", "invalid"} : file' = [file EXCEPT !.state = st]
    BY <1>2 DEF HandEdit
  <2>3. /\ file' \in Documents /\ file'.relays = file.relays
        /\ file'.next = file.next /\ file'.accounts = file.accounts
    BY <1>1, <2>2 DEF ConfigTypes, Documents
  <2> QED BY <1>1, <2>1, <2>3 DEF ConfigInv, ConfigTypes, ReadsAreCurrent, Counted, Kept
<1>3. CASE WorkerFails \/ ScreenFails \/ Restart
  <2>1. /\ UNCHANGED <<file, promised>>
        /\ saver' \in {saver, Rest} /\ screen' \in {screen, Rest}
    BY <1>3 DEF WorkerFails, ScreenFails, Restart
  <2>2. loaded' \in Documents
    BY <1>1, <1>3, Defaults, ParsedIsDocument
       DEF WorkerFails, ScreenFails, Restart, load_client_config, ConfigTypes
  <2>3. ConfigTypes'
    BY <1>1, <2>1, <2>2, Defaults DEF ConfigTypes
  <2>4. Rest.change = "none"
    BY DEF Rest
  <2> QED BY <1>1, <2>1, <2>3, <2>4 DEF ConfigInv, ReadsAreCurrent, Counted, Kept
<1> QED BY <1>2, <1>3

(* ConfigInv is inductive: one lemma for each thread that writes.          *)
LEMMA ConfigStepInv == ConfigInv /\ [ConfigNext]_configVars => ConfigInv'
<1> SUFFICES ASSUME ConfigInv, [ConfigNext]_configVars
             PROVE  ConfigInv'
  OBVIOUS
<1>1. CASE UNCHANGED configVars
  BY <1>1 DEF configVars, ConfigInv, ConfigTypes, ReadsAreCurrent, Counted, Kept
<1>2. CASE ConfigNext
  BY <1>2, ReadSteps, WorkerStep, ScreenStep, OtherSteps DEF ConfigNext
<1> QED BY <1>1, <1>2

(* Until two changes overlap, the file holds what was reported as saved    *)
(* and no relay id is given twice (next_relay_id, write_document).         *)
THEOREM NothingSavedIsLost == ConfigSpec => []SavedIsKept
<1>1. ConfigInv => SavedIsKept
  BY DEF ConfigInv, Kept, SavedIsKept
<1> QED BY <1>1, ConfigInitInv, ConfigStepInv, PTL DEF ConfigSpec

--------------------------------------------------------------------------------
(* The Proton sidecar implements UserInstall, and cleans up after itself,  *)
(* for every order of failures, kills and acts of the user.  SidecarInv    *)
(* carries both proofs: it says what is true of the installation at each   *)
(* step of an operation.                                                   *)

Deploying == {"_winmm_orig.dll", "winmm_orig.dll", "winmm.dll", "set", "config"}
Removing  == {"restore", "key", "files", "runtime", "marker"}

\* What the disk holds, whatever the client is doing.
DiskOK ==
    /\ files \in SUBSET Managed /\ reg \in Settings
    /\ marker = {} \/ \E o \in Settings : marker = {o} /\ (o.key => reg.key)
    /\ marker = {} => files \subseteq {"winmm.dll"}
    /\ marker # {} => ~foreign

\* The override is what it would be without the sidecar.
Restored == /\ reg.value = Recorded.value
            /\ reg.key <=> (Recorded.key \/ reg.other)

\* What an operation has established when it is about to take a step.
StepOK ==
    /\ step \in {"idle", "off", "check", "mark"} \cup Deploying \cup Removing
    /\ after \in {"idle", "deploy", "off"}
    /\ step \in {"check", "mark"} => marker = {} /\ ~foreign
    /\ step = "mark" => files = {} /\ original = reg
    /\ step \in Deploying \cup Removing => marker # {}
    /\ step = "key" => /\ reg.value = "none"
                       /\ Recorded.value = "none" /\ ~Recorded.key
    /\ step \in {"files", "runtime", "marker"} => Restored
    /\ step \in {"runtime", "marker"} => ~Occupied
    /\ step = "marker" => files = {}

SidecarInv == DiskOK /\ StepOK /\ IdleIsClean

-----------------------------------------------------------------------------
(* The marker holds one override, and Recorded is it.                      *)
LEMMA RecordedIs ==
    ASSUME NEW o, marker = {o}
    PROVE  Recorded = o
BY DEF Recorded

(* A file that is neither a proxy nor the runtime file is not managed.     *)
LEMMA FourFiles ==
    ASSUME files \in SUBSET Managed
    PROVE  /\ ~Occupied => files \subseteq {"hook-runtime.txt"}
           /\ files \subseteq {"winmm.dll"} /\ ~Occupied => files = {}
BY DEF Managed, Proxies, Occupied

(* Nothing is deployed at first.                                           *)
LEMMA SidecarInitInv == SidecarInit => SidecarInv
BY DEF SidecarInit, SidecarInv, DiskOK, StepOK, IdleIsClean, Managed, Proxies,
       Settings, Overrides, Deploying, Removing

(* The steps that leave files, override and marker alone only choose what  *)
(* comes next.                                                             *)
LEMMA QuietSteps ==
    ASSUME SidecarInv,
           RecoverStale \/ Deploy \/ EndSession \/ DropClient \/ RemovalFails \/ Crash
    PROVE  SidecarInv'
<1> USE DEF SidecarInv, DiskOK, StepOK, IdleIsClean
<1>1. UNCHANGED <<files, reg, marker, foreign>>
  BY DEF RecoverStale, Deploy, EndSession, DropClient, RemoveSidecar, RemovalFails, Crash
<1>2. DiskOK'
  BY <1>1
<1>3. ReadMarker = marker
  BY DEF ReadMarker
<1>4. /\ step' \in {"idle", "off", "check", "restore"}
      /\ after' \in {"idle", "deploy", "off"}
      /\ step' = "check" => marker = {} /\ ~foreign
      /\ step' = "restore" => marker # {}
  <2>1. CASE RecoverStale
    BY <1>3, <2>1 DEF RecoverStale
  <2>2. CASE Deploy
    BY <1>3, <2>2 DEF Deploy, MarkerExists
  <2>3. CASE EndSession \/ DropClient
    BY <1>3, <2>3 DEF EndSession, DropClient, RemoveSidecar
  <2>4. CASE RemovalFails \/ Crash
    BY <2>4 DEF RemovalFails, Crash
  <2> QED BY <2>1, <2>2, <2>3, <2>4
<1>5. StepOK'
  BY <1>1, <1>4 DEF Deploying, Removing
<1>6. IdleIsClean'
  <2>1. CASE RecoverStale
    BY <1>1, <1>3, <2>1, Zenon DEF RecoverStale
  <2>2. CASE Deploy
    BY <1>1, <1>3, <2>2 DEF Deploy
  <2>3. CASE EndSession \/ DropClient
    BY <1>1, <1>3, <2>3 DEF EndSession, DropClient, RemoveSidecar
  <2>4. CASE RemovalFails \/ Crash
    BY <1>1, <2>4 DEF RemovalFails, Crash
  <2> QED BY <2>1, <2>2, <2>3, <2>4
<1> QED BY <1>2, <1>5, <1>6

(* Until the marker is written nothing has been changed; from then on the  *)
(* override may be, because the marker remembers it.                       *)
LEMMA DeploySteps ==
    ASSUME SidecarInv,
           CheckAndRead \/ WriteMarker \/ CopyFile \/ SetOverride \/ WriteHookConfig
    PROVE  SidecarInv'
<1> USE DEF SidecarInv, DiskOK, StepOK, IdleIsClean, Deploying, Removing
<1>1. CASE CheckAndRead
  BY <1>1, FourFiles DEF CheckAndRead, Occupied
<1>2. CASE WriteMarker
  BY <1>2 DEF WriteMarker
<1>3. CASE CopyFile
  BY <1>3 DEF CopyFile, RollBack, NextCopy, Proxies, Managed
<1>4. CASE SetOverride
  <2>1. reg' \in Settings /\ (reg.key => reg'.key)
    BY <1>4 DEF SetOverride, Settings, Overrides
  <2> QED BY <1>4, <2>1 DEF SetOverride, RollBack
<1>5. CASE WriteHookConfig
  BY <1>5 DEF WriteHookConfig, Managed
<1> QED BY <1>1, <1>2, <1>3, <1>4, <1>5

(* A removal undoes the override first, then the files, the marker last.   *)
LEMMA RemovalSteps ==
    ASSUME SidecarInv,
           RestoreOverride \/ RemoveEmptyKey \/ RemoveFiles \/ RemoveRuntimeFile \/ RemoveMarker
    PROVE  SidecarInv'
<1> USE DEF SidecarInv, DiskOK, StepOK, IdleIsClean, Deploying, Removing
<1>1. PICK o \in Settings : marker = {o} /\ (o.key => reg.key)
  BY DEF RestoreOverride, RemoveEmptyKey, RemoveFiles, RemoveRuntimeFile, RemoveMarker
<1>2. Recorded = o
  BY <1>1, RecordedIs
<1>3. CASE RestoreOverride
  <2>1. marker' = marker /\ Recorded' = o
    BY <1>2, <1>3 DEF RestoreOverride, Recorded
  <2>2. reg' \in Settings /\ (o.key => reg'.key)
    BY <1>1, <1>2, <1>3 DEF RestoreOverride, Settings, Overrides
  <2>3. reg'.value = o.value
    BY <1>2, <1>3 DEF RestoreOverride, Settings, Overrides
  <2>4. step' = "files" => (reg'.key <=> (o.key \/ reg'.other))
    BY <1>1, <1>2, <1>3, <2>2 DEF RestoreOverride, Settings, Overrides
  <2> QED BY <1>1, <1>2, <1>3, <2>1, <2>2, <2>3, <2>4 DEF RestoreOverride, Restored
<1>4. CASE RemoveEmptyKey
  <2>1. marker' = marker /\ Recorded' = o
    BY <1>2, <1>4 DEF RemoveEmptyKey, Recorded
  <2>2. /\ reg' \in Settings /\ reg'.value = "none"
        /\ reg'.key <=> reg'.other
    BY <1>4 DEF RemoveEmptyKey, Settings, Overrides
  <2> QED BY <1>1, <1>2, <1>4, <2>1, <2>2 DEF RemoveEmptyKey, Restored
<1>5. CASE RemoveFiles
  <2>1. marker' = marker /\ Recorded' = o /\ reg' = reg /\ files' \subseteq files
    BY <1>2, <1>5 DEF RemoveFiles, Recorded
  <2> QED BY <1>1, <1>2, <1>5, <2>1 DEF RemoveFiles, Restored, Occupied
<1>6. CASE RemoveRuntimeFile
  <2>1. marker' = marker /\ Recorded' = o /\ reg' = reg
    BY <1>2, <1>6 DEF RemoveRuntimeFile, Recorded
  <2>2. files' = {}
    BY <1>6, FourFiles DEF RemoveRuntimeFile
  <2> QED BY <1>1, <1>2, <1>6, <2>1, <2>2 DEF RemoveRuntimeFile, Restored, Occupied
<1>7. CASE RemoveMarker
  BY <1>7 DEF RemoveMarker
<1> QED BY <1>3, <1>4, <1>5, <1>6, <1>7

(* The user touches nothing that the marker speaks of.                     *)
LEMMA UserSteps ==
    ASSUME SidecarInv, UserActs
    PROVE  SidecarInv'
<1> USE DEF SidecarInv, DiskOK, StepOK, IdleIsClean
<1>1. reg' \in Settings /\ (marker # {} => reg'.key)
  BY DEF UserActs, Settings, Overrides
<1>2. step' = step /\ marker' = marker /\ step \in {"idle", "off"}
  BY DEF UserActs
<1> QED BY <1>1, <1>2 DEF UserActs, Managed, Proxies, Deploying, Removing

(* SidecarInv is inductive: one lemma for each kind of step.               *)
LEMMA SidecarStepInv == SidecarInv /\ [SidecarNext]_sidecarVars => SidecarInv'
<1> SUFFICES ASSUME SidecarInv, [SidecarNext]_sidecarVars
             PROVE  SidecarInv'
  OBVIOUS
<1>1. CASE UNCHANGED sidecarVars
  BY <1>1 DEF sidecarVars, SidecarInv, DiskOK, StepOK, IdleIsClean, Restored,
              Recorded, Occupied
<1>2. CASE SidecarNext
  BY <1>2, QuietSteps, DeploySteps, RemovalSteps, UserSteps DEF SidecarNext
<1> QED BY <1>1, <1>2

(* SidecarInv holds throughout; both theorems use it.                      *)
LEMMA SidecarInvHolds == SidecarSpec => []SidecarInv
BY SidecarInitInv, SidecarStepInv, PTL DEF SidecarSpec

(* A client that is not in a session has nothing deployed, unless a        *)
(* removal failed, whatever fails and wherever it was killed before.       *)
THEOREM CleansUp == SidecarSpec => []IdleIsClean
<1>1. SidecarInv => IdleIsClean
  BY DEF SidecarInv
<1> QED BY <1>1, SidecarInvHolds, PTL

-----------------------------------------------------------------------------
\* The variables of UserInstall, as the sidecar implements them.
Mapped == <<step \notin {"idle", "off"}, marker # {},
            IF marker = {} THEN files ELSE {}, Underlying>>

(* What Steam or the user adds under the key, field by field.              *)
LEMMA KeyAdded ==
    ASSUME NEW r \in Overrides, NEW q \in Overrides,
           q.key = TRUE, q.value = r.value, q.other = TRUE
    PROVE  q = [r EXCEPT !.key = TRUE, !.other = TRUE]
<1> DEFINE p == [r EXCEPT !.key = TRUE, !.other = TRUE]
<1>1. p \in Overrides
  BY DEF Overrides
<1>2. p.key = TRUE /\ p.value = r.value /\ p.other = TRUE
  BY DEF Overrides
<1> HIDE DEF p
<1>3. p = q
  BY <1>1, <1>2 DEF Overrides
<1> QED BY <1>3 DEF p

(* The first states are states in which nothing is borrowed.               *)
LEMMA MappedInit == SidecarInit => Install!InstallInit
BY DEF SidecarInit, Install!InstallInit, Underlying, Managed, Proxies

(* Every step of the sidecar is a step of UserInstall: only writing and    *)
(* removing the marker borrow and give back, and there the installation is *)
(* the user's own.                                                         *)
LEMMA MappedStep ==
    SidecarInv /\ [SidecarNext]_sidecarVars
        => Install!ClientWorks \/ Install!UserChanges
<1> SUFFICES ASSUME SidecarInv, [SidecarNext]_sidecarVars
             PROVE  Install!ClientWorks \/ Install!UserChanges
  OBVIOUS
<1> USE DEF SidecarInv, DiskOK, StepOK
<1>1. CASE UNCHANGED <<files, reg, marker>>
  <2>1. Underlying' = Underlying
    BY <1>1 DEF Underlying, Recorded
  <2> QED BY <1>1, <2>1 DEF Install!ClientWorks
<1>2. CASE WriteMarker /\ marker' # marker
  <2>1. /\ step = "mark" /\ marker = {} /\ marker' = {reg} /\ files = {}
        /\ UNCHANGED <<reg, files>>
    BY <1>2 DEF WriteMarker
  <2>2. Recorded' = reg
    BY <2>1 DEF Recorded
  <2>3. Underlying' = [key |-> reg.key \/ reg.other, value |-> reg.value, other |-> reg.other]
    BY <2>1, <2>2 DEF Underlying
  <2>4. Underlying' = Underlying
    BY <2>1, <2>3 DEF Underlying, Settings, Overrides
  <2> QED BY <2>1, <2>4 DEF Install!ClientWorks
<1>3. CASE \/ CopyFile \/ SetOverride \/ WriteHookConfig \/ RestoreOverride
           \/ RemoveEmptyKey \/ RemoveFiles \/ RemoveRuntimeFile
  <2>1. marker # {} /\ marker' = marker
    BY <1>3 DEF CopyFile, SetOverride, WriteHookConfig, RestoreOverride, Deploying,
                Removing, RemoveEmptyKey, RemoveFiles, RemoveRuntimeFile, Proxies
  <2>2. reg'.other = reg.other
    BY <1>3 DEF CopyFile, SetOverride, WriteHookConfig, RestoreOverride,
                RemoveEmptyKey, RemoveFiles, RemoveRuntimeFile, Settings, Overrides
  <2>3. Underlying' = Underlying
    BY <2>1, <2>2 DEF Underlying, Recorded
  <2> QED BY <2>1, <2>3 DEF Install!ClientWorks
<1>4. CASE RemoveMarker
  <2>1. /\ step = "marker" /\ marker # {} /\ marker' = {} /\ files = {}
        /\ UNCHANGED <<reg, files>> /\ Restored
    BY <1>4 DEF RemoveMarker, Removing
  <2>2. Underlying' = reg
    BY <2>1 DEF Underlying
  <2>3. Underlying = [key |-> reg.key, value |-> reg.value, other |-> reg.other]
    <3>1. PICK o \in Settings : marker = {o}
      BY <2>1
    <3>2. Recorded = o
      BY <3>1, RecordedIs
    <3> QED BY <2>1, <3>1, <3>2 DEF Underlying, Restored, Settings, Overrides
  <2>4. Underlying' = Underlying
    BY <2>2, <2>3 DEF Settings, Overrides
  <2> QED BY <2>1, <2>4 DEF Install!ClientWorks
<1>5. CASE UserActs
  <2>1. step \in {"idle", "off"} /\ step' = step /\ marker' = marker
    BY <1>5 DEF UserActs
  <2>2. CASE marker = {}
    BY <1>5, <2>1, <2>2 DEF UserActs, Underlying, Install!UserChanges, Managed, Proxies
  <2>3. CASE marker # {}
    <3>1. CASE files' = files /\ reg' = [reg EXCEPT !.key = TRUE, !.other = TRUE]
      <4>1. PICK o \in Settings : marker = {o}
        BY <2>3
      <4>2. Recorded = o /\ Recorded' = o
        BY <4>1, <2>1, RecordedIs DEF Recorded
      <4>3. PICK k \in BOOLEAN : Underlying = [key |-> k, value |-> o.value, other |-> reg.other]
        BY <2>3, <4>2 DEF Underlying
      <4>4. reg'.other = TRUE
        BY <3>1 DEF Settings, Overrides
      <4>5. Underlying' = [key |-> TRUE, value |-> o.value, other |-> TRUE]
        BY <2>1, <2>3, <4>2, <4>4 DEF Underlying
      <4>6. Underlying' = [Underlying EXCEPT !.key = TRUE, !.other = TRUE]
        <5>1. Underlying \in Overrides
          BY <4>1, <4>3 DEF Settings, Overrides
        <5>2. Underlying' \in Overrides
          BY <4>1, <4>5 DEF Settings, Overrides
        <5>3. /\ Underlying'.key = TRUE /\ Underlying'.other = TRUE
              /\ Underlying'.value = Underlying.value
          BY <4>3, <4>5
        <5> QED BY <5>1, <5>2, <5>3, KeyAdded
      <4>7. Underlying' \in Settings
        BY <4>1, <4>5 DEF Settings, Overrides
      <4> QED BY <2>1, <2>3, <4>6, <4>7 DEF Install!UserChanges, Managed
    <3> QED BY <1>5, <2>1, <2>3, <3>1 DEF UserActs
  <2> QED BY <2>2, <2>3
<1>6. CASE WriteMarker /\ marker' = marker
  BY <1>6, <1>1 DEF WriteMarker
<1>7. CASE \/ RecoverStale \/ Deploy \/ CheckAndRead \/ EndSession \/ DropClient
           \/ RemovalFails \/ Crash
  BY <1>7, <1>1 DEF RecoverStale, Deploy, CheckAndRead, EndSession, DropClient,
                    RemoveSidecar, RemovalFails, Crash
<1>8. CASE UNCHANGED sidecarVars
  BY <1>8, <1>1 DEF sidecarVars
<1> QED BY <1>2, <1>3, <1>4, <1>5, <1>6, <1>7, <1>8 DEF SidecarNext

(* The sidecar only borrows the installation of the user: it implements    *)
(* UserInstall, through every failure and every kill (linux.rs).           *)
THEOREM SidecarImplementsInstall == SidecarSpec => GivenBack
<1>1. SidecarInv /\ [SidecarNext]_sidecarVars
        => [Install!ClientWorks \/ Install!UserChanges]_Mapped
  BY MappedStep
<1> QED BY <1>1, MappedInit, SidecarInvHolds, PTL
        DEF SidecarSpec, GivenBack, Install!InstallSpec, Mapped

--------------------------------------------------------------------------------
(* The hook is loaded at most once into a game (Injection), for any number *)
(* of sessions and games.  Two facts carry the proof: a game is the target *)
(* of one session only, because a session passes over what ran before it,  *)
(* and a session creates one remote thread only, because nothing is        *)
(* retried once the thread may exist.                                      *)

InjectionTypes ==
    /\ game   \in [P -> {"unborn", "running", "exited"}]
    /\ loads  \in [P -> Nat]
    /\ life   \in [S -> {"off", "waiting", "injecting", "cancelling", "expiring",
                         "watching", "done"}]
    /\ base   \in [S -> SUBSET P]
    /\ target \in [S -> 0..Procs]
    /\ worker \in [S -> {"none", "begin", "child", "prompt", "answering", "elevated",
                         "ok", "error"}]
    /\ helper \in [S -> [elevated : BOOLEAN,
                         at : {"guard", "modules", "open", "create", "wait"} \cup Over]]
    /\ thread \in [S -> {"none", "loading", "loaded"}]

(* Sessions come one after the other. *)
InTurn == \A s \in S : life[s] # "off" => \A r \in 1..(s - 1) : life[r] = "done"

(* A game that was somebody's target is none of a later session's. *)
OwnTarget ==
    /\ \A s \in S : life[s] \in {"off", "waiting"} => target[s] = 0
    /\ \A s \in S : target[s] # 0 => game[target[s]] # "unborn"
    /\ \A s, r \in S : life[s] = "waiting" /\ target[r] # 0 =>
          target[r] \in base[s] \/ game[target[r]] = "exited"
    /\ \A s, r \in S : target[s] # 0 /\ target[s] = target[r] => s = r

(* Once the thread exists the helper is past creating it for good. *)
OneThread == \A s \in S :
    /\ worker[s] # "none" => target[s] # 0
    /\ worker[s] \in {"none", "begin"} => helper[s].at = "none"
    /\ worker[s] \in {"prompt", "answering"} => helper[s].at = "denied"
    /\ thread[s] # "none" => helper[s].at \in {"wait", "ok", "failed", "killed"}

(* A load is the load of one session's thread. *)
LoadsAreThreads == \A p \in P : loads[p] # 0 =>
    loads[p] = 1 /\ \E s \in S : target[s] = p /\ thread[s] = "loaded"

InjectionInv == InjectionTypes /\ InTurn /\ OwnTarget /\ OneThread /\ LoadsAreThreads

-----------------------------------------------------------------------------
(* No session has a target at first.                                       *)
LEMMA InjectionInitInv == InjectionInit => InjectionInv
BY InjectionAssumption
   DEF InjectionInit, InjectionInv, InjectionTypes, InTurn, OwnTarget, OneThread, LoadsAreThreads,
       S, P, NoHelper, Over

(* The game the waiting session selects is nobody's target yet.            *)
LEMMA Selected ==
    ASSUME InjectionInv, NEW s \in S, life[s] = "waiting", Candidates(s) # {}
    PROVE  /\ Max(Candidates(s)) \in P /\ game[Max(Candidates(s))] = "running"
           /\ \A r \in S : target[r] # Max(Candidates(s))
<1> DEFINE p == Max(Candidates(s))
<1>1. Candidates(s) \subseteq 0..Procs /\ Procs \in Nat
  BY InjectionAssumption DEF Candidates, RunningGames, P
<1>2. p \in Candidates(s)
  BY <1>1, MaxOfBounded
<1>3. p \in P /\ game[p] = "running" /\ p \notin base[s] /\ p # 0
  BY <1>2, InjectionAssumption DEF Candidates, RunningGames, P
<1> QED BY <1>3 DEF InjectionInv, OwnTarget

(* A session that starts is behind every other, so it waits alone.         *)
LEMMA LaunchStep ==
    ASSUME InjectionInv, NEW s \in S, LaunchGame(s)
    PROVE  InjectionInv'
<1> USE DEF InjectionInv, LaunchGame, process
<1>1. InjectionTypes'
  BY DEF InjectionTypes, RunningGames
<1>2. InTurn'
  BY InjectionAssumption DEF InTurn, InjectionTypes, S
<1>3. OwnTarget'
  <2>1. \A r \in S : target[r] # 0 =>
           target[r] \in RunningGames \/ game[target[r]] = "exited"
    BY InjectionAssumption DEF OwnTarget, InjectionTypes, RunningGames, P
  <2> QED BY <2>1 DEF OwnTarget, InjectionTypes
<1>4. OneThread' /\ LoadsAreThreads'
  BY DEF OneThread, LoadsAreThreads
<1> QED BY <1>1, <1>2, <1>3, <1>4

(* Only the end of the wait gives a session its target.                    *)
LEMMA WaitStep ==
    ASSUME InjectionInv, NEW s \in S, WaitEnds(s)
    PROVE  InjectionInv'
<1> USE DEF InjectionInv
<1>1. /\ UNCHANGED <<game, loads, helper, thread>>
      /\ life[s] = "waiting" /\ target[s] = 0
      /\ worker[s] = "none" /\ thread[s] = "none" /\ helper[s].at = "none"
  BY DEF WaitEnds, process, OwnTarget, OneThread, InjectionTypes
<1>2. /\ life' = [life EXCEPT ![s] = life'[s]]
      /\ life'[s] \in {"injecting", "done"}
      /\ base' \in [S -> SUBSET P] /\ \A r \in S \ {s} : base'[r] = base[r]
  BY DEF WaitEnds, Finish, InjectionTypes
<1>3. InTurn'
  BY <1>1, <1>2, InjectionAssumption DEF InTurn, InjectionTypes, S
<1>4. \A r \in S : life'[r] # "waiting"
  <2>1. \A r \in S : life[r] = "waiting" => r = s
    BY <1>1, InjectionAssumption DEF InTurn, S
  <2> QED BY <1>2, <2>1 DEF InjectionTypes
<1>7. \A r \in S : life'[r] = "off" => r # s /\ life[r] = "off"
  BY <1>2 DEF InjectionTypes
<1>5. CASE UNCHANGED <<target, worker>>
  <2>1. InjectionTypes' /\ OneThread' /\ LoadsAreThreads'
    BY <1>1, <1>2, <1>5 DEF InjectionTypes, OneThread, LoadsAreThreads
  <2>2. OwnTarget'
    BY <1>1, <1>4, <1>5, <1>7 DEF OwnTarget
  <2> QED BY <1>3, <2>1, <2>2
<1>6. CASE /\ Candidates(s) # {} /\ target' = [target EXCEPT ![s] = Max(Candidates(s))]
           /\ worker' \in {worker, [worker EXCEPT ![s] = "begin"]}
  <2> DEFINE p == Max(Candidates(s))
  <2>1. p \in P /\ game[p] = "running" /\ \A r \in S : target[r] # p
    BY <1>1, <1>6, Selected
  <2>2. p \in 0..Procs /\ p # 0
    BY <2>1, InjectionAssumption DEF P
  <2> HIDE DEF p
  <2>3. target' = [target EXCEPT ![s] = p]
    BY <1>6 DEF p
  <2>4. InjectionTypes'
    <3>1. target' \in [S -> 0..Procs]
      BY <2>2, <2>3 DEF InjectionTypes
    <3>2. worker' \in [S -> {"none", "begin", "child", "prompt", "answering", "elevated",
                             "ok", "error"}]
      BY <1>6 DEF InjectionTypes
    <3>3. life' \in [S -> {"off", "waiting", "injecting", "cancelling", "expiring",
                           "watching", "done"}]
      BY <1>2 DEF InjectionTypes
    <3> QED BY <1>1, <1>2, <3>1, <3>2, <3>3 DEF InjectionTypes
  <2>5. OwnTarget'
    BY <1>1, <1>4, <1>7, <2>1, <2>2, <2>3 DEF OwnTarget, InjectionTypes
  <2>6. OneThread'
    BY <1>1, <1>6, <2>2, <2>3 DEF OneThread, InjectionTypes
  <2>7. LoadsAreThreads'
    BY <1>1, <2>3 DEF LoadsAreThreads, InjectionTypes
  <2> QED BY <1>3, <2>4, <2>5, <2>6, <2>7
<1> QED BY <1>5, <1>6 DEF WaitEnds

(* The rest of the lifecycle task and a cancellation touch no target, no   *)
(* helper and no thread.                                                   *)
LEMMA LifeSteps ==
    ASSUME InjectionInv, NEW s \in S,
           \/ Injected(s) \/ InjectionFailed(s) \/ StopInjection(s) \/ RemoveGuard(s)
           \/ InjectionStopped(s) \/ Watch(s) \/ CancelSession(s)
    PROVE  InjectionInv'
<1> USE DEF InjectionInv
<1>1. UNCHANGED <<game, loads, target, worker, helper, thread>>
  BY DEF Injected, InjectionFailed, StopInjection, RemoveGuard, InjectionStopped,
         Watch, CancelSession, process, client
<1>2. /\ \/ UNCHANGED life
         \/ /\ life[s] \notin {"off", "waiting"}
            /\ life' = [life EXCEPT ![s] = life'[s]]
            /\ life'[s] \in {"watching", "cancelling", "expiring", "done"}
            /\ life[s] # "done"
      /\ base' \in [S -> SUBSET P] /\ \A r \in S : life[r] = "waiting" => base'[r] = base[r]
  BY DEF Injected, InjectionFailed, StopInjection, RemoveGuard, InjectionStopped,
         Watch, CancelSession, Finish, client, InjectionTypes
<1>3. InjectionTypes'
  BY <1>1, <1>2, SMTT(30) DEF InjectionTypes
<1>4. InTurn'
  BY <1>2, InjectionAssumption DEF InTurn, InjectionTypes, S
<1>5. OwnTarget'
  BY <1>1, <1>2 DEF OwnTarget, InjectionTypes
<1>6. OneThread' /\ LoadsAreThreads'
  BY <1>1 DEF OneThread, LoadsAreThreads
<1> QED BY <1>3, <1>4, <1>5, <1>6

(* What the worker does with its helpers: only a helper that was denied,   *)
(* and so has created no thread, gets a successor.                         *)
LEMMA WorkerStepsKeep ==
    ASSUME InjectionInv, NEW s \in S, WorkerSteps(s) \/ PromptAnswered(s)
    PROVE  InjectionInv'
<1> USE DEF InjectionInv
<1>1. UNCHANGED <<game, loads, life, base, target, thread>>
  BY DEF WorkerSteps, SpawnHelper, WaitForChild, Elevate, WaitForElevated,
         PromptAnswered, process, client
<1>2. /\ worker' = [worker EXCEPT ![s] = worker'[s]]
      /\ \A r \in S \ {s} : helper'[r] = helper[r]
  BY DEF WorkerSteps, SpawnHelper, WaitForChild, Elevate, WaitForElevated,
         PromptAnswered, Worker, InjectionTypes
<1>3. InjectionTypes'
  <2>1. worker'[s] \in {"begin", "child", "prompt", "answering", "elevated", "ok", "error"}
    BY DEF WorkerSteps, SpawnHelper, WaitForChild, Elevate, WaitForElevated,
           PromptAnswered, Worker, InjectionTypes
  <2>2. \/ helper' = helper
        \/ helper' = [helper EXCEPT ![s].at = helper'[s].at]
              /\ helper'[s].at \in {"guard", "killed"} \cup Over
        \/ helper' = [helper EXCEPT ![s] = [elevated |-> TRUE, at |-> "guard"]]
    <3>1. CASE SpawnHelper(s)
      BY <3>1 DEF SpawnHelper, InjectionTypes
    <3>2. CASE WaitForChild(s)
      BY <3>2 DEF WaitForChild, InjectionTypes, Over
    <3>3. CASE Elevate(s) \/ PromptAnswered(s)
      BY <3>3 DEF Elevate, PromptAnswered
    <3>4. CASE WaitForElevated(s)
      BY <3>4 DEF WaitForElevated, InjectionTypes, Over
    <3> QED BY <3>1, <3>2, <3>3, <3>4 DEF WorkerSteps
  <2>3. helper' \in [S -> [elevated : BOOLEAN,
                           at : {"guard", "modules", "open", "create", "wait"} \cup Over]]
    <3>1. CASE helper' = helper
      BY <3>1 DEF InjectionTypes
    <3>2. CASE helper' = [helper EXCEPT ![s].at = helper'[s].at]
                  /\ helper'[s].at \in {"guard", "killed"} \cup Over
      BY <3>2 DEF InjectionTypes, Over
    <3>3. CASE helper' = [helper EXCEPT ![s] = [elevated |-> TRUE, at |-> "guard"]]
      BY <3>3 DEF InjectionTypes
    <3> QED BY <2>2, <3>1, <3>2, <3>3
  <2>4. worker' \in [S -> {"none", "begin", "child", "prompt", "answering", "elevated",
                           "ok", "error"}]
    BY <1>2, <2>1 DEF InjectionTypes
  <2> QED BY <1>1, <2>3, <2>4 DEF InjectionTypes
<1>4. InTurn' /\ OwnTarget' /\ LoadsAreThreads'
  BY <1>1 DEF InTurn, OwnTarget, LoadsAreThreads
<1>5. /\ worker[s] # "none"
      /\ worker'[s] \notin {"none", "begin"}
      /\ worker'[s] \in {"prompt", "answering"} => helper'[s].at = "denied"
      /\ thread[s] # "none" => helper'[s].at \in {"wait", "ok", "failed", "killed"}
  <2>1. CASE SpawnHelper(s)
    BY <2>1 DEF SpawnHelper, Worker, InjectionTypes, OneThread
  <2>2. CASE WaitForChild(s)
    BY <2>2 DEF WaitForChild, Worker, InjectionTypes, OneThread, Over, Retried
  <2>3. CASE Elevate(s)
    BY <2>3 DEF Elevate, Worker, InjectionTypes, OneThread
  <2>4. CASE PromptAnswered(s)
    BY <2>4 DEF PromptAnswered, Worker, InjectionTypes, OneThread
  <2>5. CASE WaitForElevated(s)
    BY <2>5 DEF WaitForElevated, Worker, InjectionTypes, OneThread, Over
  <2> QED BY <2>1, <2>2, <2>3, <2>4, <2>5 DEF WorkerSteps
<1>6. OneThread'
  BY <1>1, <1>2, <1>5 DEF OneThread, InjectionTypes
<1> QED BY <1>3, <1>4, <1>6

(* The helper creates the thread once, on its way to waiting for it.       *)
LEMMA HelperStepsKeep ==
    ASSUME InjectionInv, NEW s \in S, HelperSteps(s)
    PROVE  InjectionInv'
<1> USE DEF InjectionInv
<1>1. UNCHANGED <<game, loads, life, base, target, worker>>
  BY DEF HelperSteps, FirstCheck, InspectModules, OpenGame, CreateRemoteThread,
         WaitRemoteThread, process, client
<1>2. /\ helper[s].at \in {"guard", "modules", "open", "create", "wait"}
      /\ helper' = [helper EXCEPT ![s].at = helper'[s].at]
      /\ helper'[s].at \in {"modules", "open", "create", "wait"} \cup Over
      /\ helper[s].at = "wait" => helper'[s].at \in {"ok", "failed"}
      /\ \/ thread' = thread
         \/ /\ helper[s].at = "create" /\ helper'[s].at = "wait"
            /\ thread' = [thread EXCEPT ![s] = "loading"]
  BY DEF HelperSteps, FirstCheck, InspectModules, OpenGame, CreateRemoteThread,
         WaitRemoteThread, Helper, InjectionTypes, Over
<1>3. InjectionTypes'
  <2>1. helper' \in [S -> [elevated : BOOLEAN,
                           at : {"guard", "modules", "open", "create", "wait"} \cup Over]]
    BY <1>2 DEF InjectionTypes
  <2>2. thread' \in [S -> {"none", "loading", "loaded"}]
    BY <1>2 DEF InjectionTypes
  <2> QED BY <1>1, <2>1, <2>2 DEF InjectionTypes
<1>4. InTurn' /\ OwnTarget'
  BY <1>1 DEF InTurn, OwnTarget
<1>5. OneThread'
  BY <1>1, <1>2 DEF OneThread, InjectionTypes
<1>6. LoadsAreThreads'
  <2>1. \A r \in S : thread[r] = "loaded" => thread'[r] = "loaded"
    BY <1>2 DEF OneThread, InjectionTypes
  <2> QED BY <1>1, <2>1 DEF LoadsAreThreads
<1> QED BY <1>3, <1>4, <1>5, <1>6

(* LoadLibrary runs once for a thread, and the game is no other's target.  *)
LEMMA LoadStep ==
    ASSUME InjectionInv, NEW s \in S, LoadHook(s)
    PROVE  InjectionInv'
<1> USE DEF InjectionInv
<1> DEFINE p == target[s]
<1>1. /\ UNCHANGED <<game, life, base, target, worker, helper>>
      /\ thread[s] = "loading" /\ thread' = [thread EXCEPT ![s] = "loaded"]
      /\ loads' = [loads EXCEPT ![p] = @ + 1]
  BY DEF LoadHook, client
<1>2. p \in P /\ p # 0
  <2>1. worker[s] # "none"
    BY <1>1 DEF OneThread
  <2>2. p # 0 /\ p \in 0..Procs
    BY <2>1 DEF OneThread, InjectionTypes
  <2> QED BY <2>2, InjectionAssumption DEF P
<1>3. loads[p] = 0
  <2>1. SUFFICES ASSUME loads[p] # 0 PROVE FALSE
    OBVIOUS
  <2>2. PICK r \in S : target[r] = p /\ thread[r] = "loaded"
    BY <1>2, <2>1 DEF LoadsAreThreads
  <2> QED BY <1>1, <1>2, <2>2 DEF OwnTarget
<1> HIDE DEF p
<1>4. InjectionTypes'
  BY <1>1, <1>2 DEF InjectionTypes
<1>5. InTurn' /\ OwnTarget' /\ OneThread'
  BY <1>1 DEF InTurn, OwnTarget, OneThread, InjectionTypes
<1>6. LoadsAreThreads'
  BY <1>1, <1>2, <1>3 DEF LoadsAreThreads, InjectionTypes, p
<1> QED BY <1>4, <1>5, <1>6

(* Games come and go; one that was a target never runs anew.               *)
LEMMA GameSteps ==
    ASSUME InjectionInv, NEW p \in P, GameStarts(p) \/ GameExits(p)
    PROVE  InjectionInv'
<1> USE DEF InjectionInv
<1>1. UNCHANGED <<loads, life, base, target, worker, helper, thread>>
  BY DEF GameStarts, GameExits, client
<1>2. \/ game[p] = "unborn" /\ game' = [game EXCEPT ![p] = "running"]
      \/ game[p] = "running" /\ game' = [game EXCEPT ![p] = "exited"]
  BY DEF GameStarts, GameExits
<1>3. InjectionTypes' /\ InTurn' /\ OneThread' /\ LoadsAreThreads'
  BY <1>1, <1>2 DEF InjectionTypes, InTurn, OneThread, LoadsAreThreads
<1>4. OwnTarget'
  BY <1>1, <1>2, InjectionAssumption DEF OwnTarget, InjectionTypes, P
<1> QED BY <1>3, <1>4

(* InjectionInv is inductive: every action has its lemma above.                     *)
LEMMA InjectionStepInv == InjectionInv /\ [InjectionNext]_injectionVars => InjectionInv'
<1> SUFFICES ASSUME InjectionInv, [InjectionNext]_injectionVars
             PROVE  InjectionInv'
  OBVIOUS
<1>1. CASE UNCHANGED injectionVars
  BY <1>1 DEF injectionVars, InjectionInv, InjectionTypes, InTurn, OwnTarget, OneThread,
              LoadsAreThreads
<1>2. CASE InjectionNext
  BY <1>2, LaunchStep, WaitStep, LifeSteps, WorkerStepsKeep, HelperStepsKeep, LoadStep,
     GameSteps DEF InjectionNext, Lifecycle
<1> QED BY <1>1, <1>2

(* However sessions overlap with helpers that outlive them, prompts that   *)
(* are answered late and retries, a game gets the hook at most once        *)
(* (platform.rs, paths.rs, process_lifecycle.rs).                          *)
THEOREM LoadsOnce == InjectionSpec => []LoadedOnce
<1>1. InjectionInv => LoadedOnce
  BY DEF InjectionInv, InjectionTypes, LoadsAreThreads, LoadedOnce
<1> QED BY <1>1, InjectionInitInv, InjectionStepInv, PTL DEF InjectionSpec

-----------------------------------------------------------------------------
(* The switch of rooms (Controller), for any number of rooms, commands and  *)
(* updates under way.  SwitchFollowsUser is not inductive: a plain join     *)
(* must not leave a switch waiting, so a room is on the screen for as long  *)
(* as a switch waits, and a room only goes from the screen with the event   *)
(* that ends the wait (Chained).                                            *)

RoomOrNone == Room \cup {None}
Statuses == {"idle", "joining", "leaving", "active", "failed"}
Askers == {"user", "restore", "switch"}
Events == {"none", "joined", "join_failed", "lan_endpoint_selection_required", "room_left",
           "command_rejected", "latency_test"}

Snaps == [status : Statuses, active : BOOLEAN, restore : RoomOrNone, mutable : BOOLEAN, choosing : BOOLEAN]
Commands == [room : Room, by : Askers, stale : BOOLEAN]
Bridges == [room : RoomOrNone, status : Statuses, restore : RoomOrNone, op : RoomOrNone,
            queue : Seq(Commands), leave : BOOLEAN, choosing : BOOLEAN]
Controllers == [attempted : BOOLEAN, inFlight : BOOLEAN, attempts : Nat, retryTimer : BOOLEAN,
                probed : BOOLEAN, probes : Nat, probeTimer : BOOLEAN, wanted : RoomOrNone]
Mails == Seq([ev : Events, snap : Snaps])

CtlTypes ==
    /\ c \in Controllers /\ b \in Bridges /\ seen \in Snaps /\ mail \in Mails
    /\ user \in [asks : Nat, last : Room \cup {"nothing", "leave"}, waits : BOOLEAN]

(* What the screen shows before update i, s being what it shows now.        *)
Before(s, m, i) == IF i = 1 THEN s ELSE m[i - 1].snap

(* The updates lead from the screen to the bridge, which is in the room r,  *)
(* and only room_left takes a room from the screen.                         *)
Chained(s, m, r) ==
    /\ \A i \in 1 .. Len(m) :
         Before(s, m, i).active /\ ~m[i].snap.active => m[i].ev = "room_left"
    /\ Before(s, m, Len(m) + 1).active <=> r # None

(* The command a switch left last in the queue q.                           *)
Follows(q, leave, asked) ==
    q # <<>> /\ q[Len(q)].by = "switch" /\ ~q[Len(q)].stale /\ ~leave => q[Len(q)].room = asked

CtlInv ==
    /\ CtlTypes
    /\ Chained(seen, mail, b.room)
    /\ c.wanted # None => seen.active /\ user.last = c.wanted
    /\ Follows(b.queue, b.leave, user.last)

(* One more update keeps the chain when the event says that the room goes.  *)
LEMMA PostChained ==
    ASSUME NEW s \in Snaps, NEW m \in Mails, NEW r, NEW ev \in Events, NEW x \in Bridges,
           Chained(s, m, r), r # None /\ x.room = None => ev = "room_left"
    PROVE  Post(m, ev, x) \in Mails /\ Chained(s, Post(m, ev, x), x.room)
<1> DEFINE u == [ev |-> ev, snap |-> Snapshot(x)]
           n == Len(m)
<1>1. Snapshot(x) \in Snaps /\ (Snapshot(x).active <=> x.room # None)
  BY DEF Snapshot, Snaps, Bridges
<1>2. u \in [ev : Events, snap : Snaps] /\ u.ev = ev /\ u.snap = Snapshot(x)
  BY <1>1
<1>3. n \in Nat
  BY DEF Mails
<1> HIDE DEF u
<1>4. CASE m # <<>> /\ m[n].ev = "none"
  <2>1. Post(m, ev, x) = [m EXCEPT ![n] = u] /\ n > 0
    BY <1>3, <1>4 DEF Post, u, Mails
  <2> DEFINE p == [m EXCEPT ![n] = u]
  <2>2. p \in Mails /\ Len(p) = n
    BY <1>2, <2>1 DEF Mails
  <2>3. p[n] = u /\ \A i \in 1 .. n - 1 : p[i] = m[i]
    BY <2>1 DEF Mails
  <2> HIDE DEF p
  <2>4. \A i \in 1 .. n : Before(s, p, i) = Before(s, m, i)
    BY <1>3, <2>3 DEF Before
  <2>5. Before(s, m, n + 1) = m[n].snap /\ Before(s, p, n + 1) = u.snap
    BY <1>3, <2>1, <2>3 DEF Before
  <2>6. m[n].snap.active <=> r # None
    BY <2>5 DEF Chained
  <2>7. Before(s, m, n).active => m[n].snap.active
    BY <1>3, <1>4, <2>1 DEF Chained
  <2>8. Chained(s, p, x.room)
    BY <1>1, <1>2, <1>3, <2>1, <2>2, <2>3, <2>4, <2>5, <2>6, <2>7 DEF Chained
  <2> QED BY <2>1, <2>2, <2>8 DEF p
<1>5. CASE ~(m # <<>> /\ m[n].ev = "none")
  <2>1. Post(m, ev, x) = Append(m, u)
    BY <1>5 DEF Post, u
  <2> DEFINE p == Append(m, u)
  <2>2. p \in Mails /\ Len(p) = n + 1 /\ p[n + 1] = u /\ \A i \in 1 .. n : p[i] = m[i]
    BY <1>2 DEF Mails
  <2> HIDE DEF p
  <2>3. \A i \in 1 .. n + 1 : Before(s, p, i) = Before(s, m, i)
    BY <1>3, <2>2 DEF Before
  <2>4. Before(s, p, n + 2) = u.snap
    BY <1>3, <2>2 DEF Before
  <2>5. \A i \in 1 .. n : Before(s, p, i).active /\ ~p[i].snap.active => p[i].ev = "room_left"
    BY <1>3, <2>2, <2>3 DEF Chained
  <2>6. Before(s, p, n + 1).active /\ ~p[n + 1].snap.active => p[n + 1].ev = "room_left"
    BY <1>1, <1>2, <1>3, <2>2, <2>3 DEF Chained
  <2>7. Chained(s, p, x.room)
    BY <1>1, <1>2, <1>3, <2>2, <2>4, <2>5, <2>6 DEF Chained
  <2> QED BY <2>1, <2>2, <2>7 DEF p
<1> QED BY <1>4, <1>5

(* Taking the first update keeps it, from the new screen on.                *)
LEMMA TailChained ==
    ASSUME NEW s \in Snaps, NEW m \in Mails, NEW r, m # <<>>, Chained(s, m, r)
    PROVE  Head(m) \in [ev : Events, snap : Snaps] /\ Tail(m) \in Mails
           /\ Chained(Head(m).snap, Tail(m), r)
           /\ (s.active /\ ~Head(m).snap.active => Head(m).ev = "room_left")
<1> DEFINE n == Len(m)
           t == Tail(m)
<1>1. n \in Nat /\ n > 0 /\ Head(m) = m[1] /\ m[1] \in [ev : Events, snap : Snaps]
  <2> DEFINE U == [ev : Events, snap : Snaps]
  <2> HIDE DEF U
  <2>1. m \in Seq(U)
    BY DEF Mails, U
  <2>2. n \in Nat /\ n > 0 /\ Head(m) = m[1] /\ m[1] \in U
    BY <2>1
  <2> QED BY <2>2 DEF U
<1>2. t \in Mails /\ Len(t) = n - 1 /\ \A i \in 1 .. n - 1 : t[i] = m[i + 1]
  BY <1>1 DEF Mails
<1> HIDE DEF t
<1>3. \A i \in 1 .. n : Before(m[1].snap, t, i) = m[i].snap
  BY <1>1, <1>2 DEF Before
<1>4. \A i \in 1 .. n : Before(s, m, i + 1) = m[i].snap
  BY <1>1 DEF Before
<1>5. Before(m[1].snap, t, Len(t) + 1).active <=> r # None
  BY <1>1, <1>2, <1>3, <1>4 DEF Chained
<1>6. ASSUME NEW i \in 1 .. Len(t), Before(m[1].snap, t, i).active, ~t[i].snap.active
      PROVE  t[i].ev = "room_left"
  <2>1. i + 1 \in 1 .. n /\ i \in 1 .. n
    BY <1>1, <1>2
  <2> QED BY <1>2, <1>3, <1>4, <1>6, <2>1 DEF Chained
<1>7. s.active /\ ~m[1].snap.active => m[1].ev = "room_left"
  BY <1>1 DEF Chained, Before
<1> QED BY <1>1, <1>2, <1>5, <1>6, <1>7 DEF Chained, t

(* What a call of the bridge leaves behind.                                 *)
LEMMA Joins ==
    ASSUME NEW x \in Bridges, NEW r \in Room, NEW by \in Askers
    PROVE  /\ Join(x, r, by) \in Bridges
           /\ Join(x, r, by).room = x.room /\ Join(x, r, by).leave = x.leave
           /\ Receipt(x) # "accepted" => Join(x, r, by) = x
           /\ Receipt(x) = "accepted" =>
                Join(x, r, by).queue = Append(x.queue, [room |-> r, by |-> by, stale |-> FALSE])
<1> DEFINE d == [room |-> r, by |-> by, stale |-> FALSE]
<1>1. CASE Receipt(x) # "accepted"
  BY <1>1 DEF Join
<1>2. CASE Receipt(x) = "accepted"
  <2>1. d \in Commands
    BY DEF Commands
  <2> HIDE DEF d
  <2>2. Append(x.queue, d) \in Seq(Commands)
    BY <2>1 DEF Bridges
  <2> DEFINE no == FALSE
             q == Append(x.queue, d)
  <2>3. no \in BOOLEAN /\ Join(x, r, by) = [x EXCEPT !.status = "joining", !.choosing = no, !.queue = q]
    BY <1>2 DEF Join, d
  <2>4. q \in Seq(Commands)
    BY <2>2
  <2> HIDE DEF no, q
  <2>6. "joining" \in Statuses
    BY DEF Statuses
  <2>5. /\ Join(x, r, by) \in Bridges /\ Join(x, r, by).queue = q
        /\ Join(x, r, by).room = x.room /\ Join(x, r, by).leave = x.leave
    BY <2>3, <2>4, <2>6 DEF Bridges
  <2> QED BY <1>2, <2>5 DEF q, d
<1> QED BY <1>1, <1>2

LEMMA Leaves ==
    ASSUME NEW x \in Bridges
    PROVE  Leave(x) \in Bridges /\ Leave(x).room = x.room /\ Leave(x).leave
<1> DEFINE yes == TRUE
<1>1. yes \in BOOLEAN /\ Leave(x) = [x EXCEPT !.restore = None, !.status = "leaving", !.leave = yes]
  BY DEF Leave
<1> HIDE DEF yes
<1>3. "leaving" \in Statuses
  BY DEF Statuses
<1>2. Leave(x) \in Bridges /\ Leave(x).room = x.room /\ Leave(x).leave = yes
  BY <1>1, <1>3 DEF Bridges, RoomOrNone
<1> QED BY <1>2 DEF yes

(* The timers leave the room that a switch waits for alone.                 *)
LEMMA Scheduled ==
    ASSUME NEW k \in Controllers
    PROVE  /\ ScheduleProbe(k) \in Controllers /\ ScheduleProbe(k).wanted = k.wanted
           /\ ScheduleRetry(k) \in Controllers /\ ScheduleRetry(k).wanted = k.wanted
<1>1. \A l \in Controllers : ScheduleProbe(l) \in Controllers /\ ScheduleProbe(l).wanted = l.wanted
  BY DEF ScheduleProbe, Controllers
<1>2. [k EXCEPT !.attempted = TRUE] \in Controllers /\ [k EXCEPT !.attempted = TRUE].wanted = k.wanted
      /\ [k EXCEPT !.retryTimer = TRUE] \in Controllers /\ [k EXCEPT !.retryTimer = TRUE].wanted = k.wanted
  BY DEF Controllers
<1> QED BY <1>1, <1>2 DEF ScheduleRetry

(* A handler that gives up a restore leaves the bridge alone, or leaves the *)
(* room and forgets the switch.                                             *)
Handled(w, k, x) ==
    /\ w.c \in Controllers /\ w.b \in Bridges /\ w.b.room = x.room
    /\ \/ w.b = x /\ w.c.wanted = k.wanted
       \/ w.b = Leave(x) /\ w.c.wanted = None

LEMMA Aborted ==
    ASSUME NEW k \in Controllers, NEW x \in Bridges, NEW s \in Snaps
    PROVE  Handled(Abort([c |-> k, b |-> x], s), k, x)
<1> DEFINE l == [k EXCEPT !.inFlight = FALSE, !.attempted = TRUE]
           m == [l EXCEPT !.wanted = None]
<1>1. l \in Controllers /\ l.wanted = k.wanted
  BY DEF Controllers
<1>2. m \in Controllers /\ m.wanted = None
  BY <1>1 DEF Controllers, RoomOrNone
<1> HIDE DEF l, m
<1>3. Abort([c |-> k, b |-> x], s) =
        IF s.status = "joining" THEN [c |-> ScheduleProbe(m), b |-> Leave(x)]
        ELSE [c |-> ScheduleProbe(l), b |-> x]
  BY DEF Abort, ExplicitLeave, l, m
<1>4. CASE s.status = "joining"
  BY <1>2, <1>3, <1>4, Scheduled, Leaves DEF Handled
<1>5. CASE s.status # "joining"
  BY <1>1, <1>3, <1>5, Scheduled DEF Handled
<1> QED BY <1>4, <1>5

LEMMA RestoreHandled ==
    ASSUME NEW k \in Controllers, NEW x \in Bridges, NEW s \in Snaps, NEW ev \in Events
    PROVE  Handled(RestoreEvent([c |-> k, b |-> x], ev, s), k, x)
<1> DEFINE w == [c |-> k, b |-> x]
           l == [k EXCEPT !.inFlight = FALSE]
           m == [[k EXCEPT !.inFlight = FALSE] EXCEPT !.attempted = TRUE]
<1>1. l \in Controllers /\ l.wanted = k.wanted /\ m \in Controllers /\ m.wanted = k.wanted
  BY DEF Controllers
<1> HIDE DEF l, m
<1>2. CASE ev = "command_rejected"
  <2>1. RestoreEvent(w, ev, s) = [c |-> ScheduleRetry(l), b |-> x]
    BY <1>2 DEF RestoreEvent, l
  <2> QED BY <1>1, <2>1, Scheduled DEF Handled
<1>3. CASE ev \in {"joined", "join_failed"}
  <2>1. RestoreEvent(w, ev, s) = [c |-> m, b |-> x]
    BY <1>3 DEF RestoreEvent, m
  <2> QED BY <1>1, <2>1 DEF Handled
<1>4. CASE ev = "lan_endpoint_selection_required"
  BY <1>4, Aborted DEF RestoreEvent
<1>5. CASE ev \notin {"command_rejected", "joined", "join_failed", "lan_endpoint_selection_required"}
  BY <1>5 DEF RestoreEvent, Handled
<1> QED BY <1>2, <1>3, <1>4, <1>5

LEMMA Coordinated ==
    ASSUME NEW k \in Controllers, NEW s \in Snaps
    PROVE  Coordinate(k, s) \in Controllers /\ Coordinate(k, s).wanted = k.wanted
  BY Scheduled DEF Coordinate

LEMMA CtlInitInv == CtlInit => CtlInv
<1> SUFFICES ASSUME CtlInit PROVE CtlInv
  OBVIOUS
<1> USE DEF RoomOrNone
<1>1. PICK r \in Room \cup {None} :
        b = [room |-> None, status |-> "idle", restore |-> r, op |-> None,
             queue |-> <<>>, leave |-> FALSE, choosing |-> FALSE]
  BY DEF CtlInit
<1>2. b \in Bridges /\ b.room = None /\ b.queue = <<>>
  <2> DEFINE no == FALSE
  <2>1. /\ <<>> \in Seq(Commands) /\ no \in BOOLEAN
        /\ b = [room |-> None, status |-> "idle", restore |-> r, op |-> None,
                queue |-> <<>>, leave |-> no, choosing |-> no]
    BY <1>1
  <2> HIDE DEF no
  <2> QED BY <2>1 DEF Bridges, Statuses
<1>3. Snapshot(b) \in Snaps
  BY <1>2 DEF Snapshot, Snaps, Bridges
<1>4. c \in Controllers /\ c.wanted = None
  BY DEF CtlInit, Controllers
<1>5. seen \in Snaps /\ ~seen.active
  <2> DEFINE no == FALSE
  <2>1. no \in BOOLEAN /\ seen = [status |-> "idle", active |-> no, restore |-> None, mutable |-> no,
                                  choosing |-> no]
    BY DEF CtlInit
  <2> HIDE DEF no
  <2>2. seen \in Snaps /\ seen.active = no
    BY <2>1 DEF Snaps, Statuses
  <2> QED BY <2>2 DEF no
<1> DEFINE u == [ev |-> "none", snap |-> Snapshot(b)]
<1>6. u \in [ev : Events, snap : Snaps] /\ ~u.snap.active
  <2>1. ~Snapshot(b).active
    BY <1>2 DEF Snapshot
  <2>2. u.snap = Snapshot(b) /\ u \in [ev : Events, snap : Snaps]
    BY <1>3 DEF Events
  <2> QED BY <2>1, <2>2
<1>7. mail = <<u>>
  BY DEF CtlInit
<1> HIDE DEF u
<1>8. mail \in Mails /\ Len(mail) = 1 /\ mail[1] = u
  BY <1>6, <1>7 DEF Mails
<1>9. Chained(seen, mail, b.room)
  BY <1>2, <1>5, <1>6, <1>8 DEF Chained, Before
<1> QED BY <1>2, <1>4, <1>5, <1>8, <1>9 DEF CtlInv, CtlTypes, CtlInit, Follows

(* The worker: it takes a command, ends a join, or carries out a leave.     *)
LEMMA BridgeSteps ==
    ASSUME CtlInv, Take \/ JoinEnds \/ WorkerLeaves \/ OtherEvents
    PROVE  CtlInv'
<1> USE CtlAssumption
<1>0. CtlTypes /\ Chained(seen, mail, b.room)
  BY DEF CtlInv
<1>1. CASE Take
  <2> DEFINE h == Head(b.queue)
  <2>1. PICK x : /\ x = [b EXCEPT !.queue = Tail(@), !.op = IF h.stale THEN None ELSE h.room]
                 /\ b' = x
                 /\ mail' = Post(mail, IF h.stale THEN "command_rejected" ELSE "none", x)
                 /\ b.queue # <<>>
    BY <1>1 DEF Take
  <2>2. h \in Commands /\ Tail(b.queue) \in Seq(Commands)
    <3>1. b.queue \in Seq(Commands)
      BY <1>0 DEF CtlTypes, Bridges
    <3> QED BY <2>1, <3>1
  <2> DEFINE o == IF h.stale THEN None ELSE h.room
  <2>3. o \in RoomOrNone
    BY <2>2 DEF RoomOrNone, Commands
  <2> HIDE DEF o
  <2>4. x = [b EXCEPT !.queue = Tail(b.queue), !.op = o]
    BY <2>1 DEF o
  <2>5. x \in Bridges /\ x.room = b.room /\ x.leave = b.leave /\ x.queue = Tail(b.queue)
    BY <1>0, <2>2, <2>3, <2>4 DEF CtlTypes, Bridges
  <2>6. (IF h.stale THEN "command_rejected" ELSE "none") \in Events
    BY DEF Events
  <2>7. mail' \in Mails /\ Chained(seen, mail', b'.room)
    BY <1>0, <2>1, <2>5, <2>6, PostChained DEF CtlTypes
  <2>8. b'.queue # <<>> => b'.queue[Len(b'.queue)] = b.queue[Len(b.queue)]
    <3>1. b.queue \in Seq(Commands)
      BY <1>0 DEF CtlTypes, Bridges
    <3> DEFINE q == b.queue
               t == Tail(q)
    <3>2. t # <<>> => t[Len(t)] = q[Len(q)]
      BY <2>1, <3>1
    <3> QED BY <2>1, <2>5, <3>2
  <2>9. c' = c /\ seen' = seen /\ user' = user
    BY <1>1 DEF Take
  <2>10. CtlTypes'
    BY <1>0, <2>1, <2>5, <2>7, <2>9 DEF CtlTypes
  <2>11. Follows(b.queue, b.leave, user.last)' /\ (c.wanted # None => seen.active /\ user.last = c.wanted)'
    BY <2>1, <2>5, <2>8, <2>9 DEF CtlInv, Follows
  <2> QED BY <2>7, <2>9, <2>10, <2>11 DEF CtlInv
<1>2. CASE JoinEnds
  <2>1. PICK ev \in {"joined", "join_failed", "lan_endpoint_selection_required"} :
          LET x == [b EXCEPT !.op = None,
                     !.room = IF ev = "joined" THEN b.op ELSE @,
                     !.restore = IF ev = "joined" THEN b.op ELSE @,
                     !.choosing = ev = "lan_endpoint_selection_required",
                     !.status = CASE ev = "joined" -> "active" [] ev = "join_failed" -> "failed"
                                  [] OTHER -> @]
          IN  b' = x /\ mail' = Post(mail, ev, x)
    BY <1>2 DEF JoinEnds
  <2>2. PICK r, re, ch, st :
          /\ r = IF ev = "joined" THEN b.op ELSE b.room
          /\ re = IF ev = "joined" THEN b.op ELSE b.restore
          /\ ch = (ev = "lan_endpoint_selection_required")
          /\ st = CASE ev = "joined" -> "active" [] ev = "join_failed" -> "failed"
                                  [] OTHER -> b.status
    OBVIOUS
  <2>3. b' = [b EXCEPT !.op = None, !.room = r, !.restore = re, !.choosing = ch, !.status = st]
        /\ mail' = Post(mail, ev, b')
    BY <2>1, <2>2
  <2>4. r \in RoomOrNone /\ re \in RoomOrNone /\ ch \in BOOLEAN
    BY <1>0, <2>2 DEF CtlTypes, Bridges
  <2>5. st \in Statuses
    BY <1>0, <2>2 DEF CtlTypes, Bridges, Statuses
  <2>6. b' \in Bridges /\ b'.room = r /\ b'.queue = b.queue /\ b'.leave = b.leave
    BY <1>0, <2>3, <2>4, <2>5 DEF CtlTypes, Bridges, RoomOrNone
  <2>7. ~(b.room # None /\ r = None)
    BY <1>2, <2>2 DEF JoinEnds
  <2>8. ev \in Events
    BY DEF Events
  <2>9. mail' \in Mails /\ Chained(seen, mail', b'.room)
    BY <1>0, <2>3, <2>6, <2>7, <2>8, PostChained DEF CtlTypes
  <2>10. c' = c /\ seen' = seen /\ user' = user
    BY <1>2 DEF JoinEnds
  <2>11. CtlTypes'
    BY <1>0, <2>6, <2>9, <2>10 DEF CtlTypes
  <2>12. Follows(b.queue, b.leave, user.last)' /\ (c.wanted # None => seen.active /\ user.last = c.wanted)'
    BY <2>6, <2>10 DEF CtlInv, Follows
  <2> QED BY <2>9, <2>10, <2>11, <2>12 DEF CtlInv
<1>3. CASE WorkerLeaves
  <2> DEFINE q == [i \in DOMAIN b.queue |-> [b.queue[i] EXCEPT !.stale = TRUE]]
  <2>1. PICK no : no = FALSE /\ no \in BOOLEAN
    OBVIOUS
  <2>2. b' = [b EXCEPT !.leave = no, !.room = None, !.status = "idle", !.choosing = no, !.queue = q]
        /\ mail' = Post(mail, "room_left", b')
    BY <1>3, <2>1 DEF WorkerLeaves
  <2>3. q \in Seq(Commands) /\ \A i \in 1 .. Len(q) : q[i].stale
    <3>1. b.queue \in Seq(Commands)
      BY <1>0 DEF CtlTypes, Bridges
    <3>2. \A d \in Commands : [d EXCEPT !.stale = TRUE] \in Commands /\ [d EXCEPT !.stale = TRUE].stale
      BY DEF Commands
    <3>3. DOMAIN b.queue = 1 .. Len(b.queue) /\ Len(b.queue) \in Nat
          /\ \A i \in 1 .. Len(b.queue) : b.queue[i] \in Commands
      BY <3>1
    <3>4. q \in Seq(Commands) /\ Len(q) = Len(b.queue)
      BY <3>2, <3>3
    <3> QED BY <3>2, <3>3, <3>4
  <2> HIDE DEF q
  <2>4. "idle" \in Statuses /\ "room_left" \in Events
    BY DEF Statuses, Events
  <2>5. b' \in Bridges /\ b'.room = None /\ b'.queue = q
    BY <1>0, <2>1, <2>2, <2>3, <2>4 DEF CtlTypes, Bridges, RoomOrNone
  <2>6. mail' \in Mails /\ Chained(seen, mail', b'.room)
    BY <1>0, <2>2, <2>4, <2>5, PostChained DEF CtlTypes
  <2>7. c' = c /\ seen' = seen /\ user' = user
    BY <1>3 DEF WorkerLeaves
  <2>8. CtlTypes'
    BY <1>0, <2>5, <2>6, <2>7 DEF CtlTypes
  <2>9. q # <<>> => q[Len(q)].stale
    BY <2>3
  <2>10. Follows(b.queue, b.leave, user.last)' /\ (c.wanted # None => seen.active /\ user.last = c.wanted)'
    BY <2>5, <2>7, <2>9 DEF CtlInv, Follows
  <2> QED BY <2>6, <2>7, <2>8, <2>10 DEF CtlInv
<1>4. CASE OtherEvents
  <2>1. PICK ev \in {"command_rejected", "latency_test"} : mail' = Post(mail, ev, b)
    BY <1>4 DEF OtherEvents
  <2>2. ev \in Events
    BY DEF Events
  <2>3. mail' \in Mails /\ Chained(seen, mail', b.room)
    BY <1>0, <2>1, <2>2, PostChained DEF CtlTypes
  <2>4. c' = c /\ seen' = seen /\ b' = b /\ user' = [user EXCEPT !.asks = @ + 1]
    BY <1>4 DEF OtherEvents
  <2>5. CtlTypes' /\ user'.last = user.last
    BY <1>0, <2>3, <2>4 DEF CtlTypes
  <2> QED BY <2>3, <2>4, <2>5 DEF CtlInv
<1> QED BY <1>1, <1>2, <1>3, <1>4

(* The timers of the restore and of the first probe.                        *)
LEMMA TimerSteps ==
    ASSUME CtlInv, RetryFires \/ Watchdog \/ ProbeFires
    PROVE  CtlInv'
<1> USE CtlAssumption
<1>0. CtlTypes /\ Chained(seen, mail, b.room)
  BY DEF CtlInv
<1>00. seen' = seen /\ user' = user
  BY DEF RetryFires, Watchdog, ProbeFires
<1>1. ASSUME NEW k \in Controllers, NEW x, c' = k, b' = x, x = b, mail' = mail, k.wanted = c.wanted
      PROVE  CtlInv'
  BY <1>0, <1>00, <1>1 DEF CtlInv, CtlTypes
<1>2. CASE RetryFires
  <2> DEFINE k == [c EXCEPT !.retryTimer = FALSE]
             n == [k EXCEPT !.attempts = @ + 1]
  <2>1. /\ k \in Controllers /\ k.wanted = c.wanted
        /\ n \in Controllers /\ n.wanted = c.wanted
        /\ [k EXCEPT !.attempted = TRUE] \in Controllers /\ [k EXCEPT !.attempted = TRUE].wanted = c.wanted
        /\ [n EXCEPT !.attempted = TRUE] \in Controllers /\ [n EXCEPT !.attempted = TRUE].wanted = c.wanted
        /\ [n EXCEPT !.inFlight = TRUE] \in Controllers /\ [n EXCEPT !.inFlight = TRUE].wanted = c.wanted
    <3>1. c \in Controllers
      BY <1>0 DEF CtlTypes
    <3>2. k \in Controllers /\ k.wanted = c.wanted
      BY <3>1 DEF Controllers
    <3> HIDE DEF k
    <3>3. n \in Controllers /\ n.wanted = c.wanted
      BY <3>2 DEF Controllers
    <3> HIDE DEF n
    <3>4. \A l \in Controllers :
            /\ [l EXCEPT !.attempted = TRUE] \in Controllers /\ [l EXCEPT !.attempted = TRUE].wanted = l.wanted
            /\ [l EXCEPT !.inFlight = TRUE] \in Controllers /\ [l EXCEPT !.inFlight = TRUE].wanted = l.wanted
      BY DEF Controllers
    <3> QED BY <3>2, <3>3, <3>4
  <2>2. CASE seen.restore = None
    BY <1>1, <1>2, <2>1, <2>2 DEF RetryFires
  <2>3. CASE seen.restore # None /\ (~seen.mutable \/ seen.active \/ seen.status # "idle")
    <3>1. c' = ScheduleRetry(k) /\ b' = b /\ mail' = mail
      BY <1>2, <2>3 DEF RetryFires
    <3> HIDE DEF k
    <3>2. ScheduleRetry(k) \in Controllers /\ ScheduleRetry(k).wanted = c.wanted
      BY <2>1, Scheduled
    <3> QED BY <1>1, <3>1, <3>2
  <2>4. CASE ~(seen.restore = None) /\ ~(seen.restore # None /\ (~seen.mutable \/ seen.active \/ seen.status # "idle"))
    <3>1. /\ b' = Join(b, seen.restore, "restore")
          /\ mail' = IF b' = b THEN mail ELSE Post(mail, "none", b')
          /\ c' = CASE Receipt(b) = "accepted" -> [n EXCEPT !.inFlight = TRUE]
                            [] Receipt(b) = "queue_busy" -> ScheduleRetry(n)
                            [] OTHER -> ScheduleProbe([n EXCEPT !.attempted = TRUE])
      BY <1>2, <2>4 DEF RetryFires
    <3> HIDE DEF k, n
    <3>2. c' \in Controllers /\ c'.wanted = c.wanted
      BY <2>1, <3>1, Scheduled
    <3>3. seen.restore \in Room /\ "restore" \in Askers /\ "none" \in Events /\ b \in Bridges
      BY <1>0, <2>4 DEF CtlTypes, Snaps, RoomOrNone, Askers, Events
    <3>4. b' \in Bridges /\ b'.room = b.room /\ b'.leave = b.leave
      BY <3>1, <3>3, Joins
    <3>5. mail' \in Mails /\ Chained(seen, mail', b'.room)
      BY <1>0, <3>1, <3>3, <3>4, PostChained DEF CtlTypes
    <3>6. Follows(b'.queue, b'.leave, user.last)
      <4>1. CASE Receipt(b) # "accepted"
        BY <3>1, <3>3, <4>1, Joins DEF CtlInv
      <4>2. CASE Receipt(b) = "accepted"
        <5>1. b'.queue = Append(b.queue, [room |-> seen.restore, by |-> "restore", stale |-> FALSE])
          BY <3>1, <3>3, <4>2, Joins
        <5>2. b.queue \in Seq(Commands)
          BY <3>3 DEF Bridges
        <5>3. b'.queue[Len(b'.queue)].by = "restore"
          BY <5>1, <5>2
        <5> QED BY <5>3 DEF Follows
      <4> QED BY <4>1, <4>2
    <3>7. CtlTypes'
      BY <1>0, <1>00, <3>2, <3>4, <3>5 DEF CtlTypes
    <3> QED BY <1>00, <3>2, <3>5, <3>6, <3>7 DEF CtlInv
  <2> QED BY <2>2, <2>3, <2>4
<1>3. CASE Watchdog
  <2>1. PICK w : /\ w = Abort([c |-> c, b |-> b], seen)
                 /\ c' = w.c /\ b' = w.b /\ mail' = IF w.b = b THEN mail ELSE Post(mail, "none", w.b)
    BY <1>3 DEF Watchdog
  <2>2. Handled(w, c, b)
    BY <1>0, <2>1, Aborted DEF CtlTypes
  <2>3. CASE w.b = b /\ w.c.wanted = c.wanted
    BY <1>1, <2>1, <2>2, <2>3 DEF Handled
  <2>4. CASE w.b = Leave(b) /\ w.c.wanted = None
    <3>1. "none" \in Events /\ b \in Bridges
      BY <1>0 DEF CtlTypes, Events
    <3>2. mail' \in Mails /\ Chained(seen, mail', b'.room) /\ b' \in Bridges /\ c' \in Controllers
      BY <1>0, <2>1, <2>2, <3>1, PostChained DEF CtlTypes, Handled
    <3>3. b'.leave
      BY <2>1, <2>4, <3>1, Leaves
    <3>4. CtlTypes'
      BY <1>0, <1>00, <3>2 DEF CtlTypes
    <3> QED BY <1>00, <2>1, <2>4, <3>2, <3>3, <3>4 DEF CtlInv, Follows
  <2> QED BY <2>2, <2>3, <2>4 DEF Handled
<1>4. CASE ProbeFires
  <2>1. b' = b /\ mail' = mail
    BY <1>4 DEF ProbeFires
  <2>2. c' \in Controllers /\ c'.wanted = c.wanted
    <3>1. c \in Controllers
      BY <1>0 DEF CtlTypes
    <3>2. CASE c' = [c EXCEPT !.probeTimer = FALSE, !.probed = TRUE]
      BY <3>1, <3>2 DEF Controllers
    <3>3. CASE c' = [c EXCEPT !.probeTimer = c.probes < MaxProbes, !.probes = @ + 1,
                            !.probed = c.probes >= MaxProbes]
      <4>1. PICK p1, p2, p3 : /\ p1 = (c.probes < MaxProbes) /\ p2 = (c.probes >= MaxProbes)
                              /\ p3 = c.probes + 1
        OBVIOUS
      <4>3. p1 \in BOOLEAN /\ p2 \in BOOLEAN /\ p3 \in Nat
        <5>1. c.probes \in Nat
          BY <3>1 DEF Controllers
        <5> QED BY <4>1, <5>1
      <4>2. c' = [c EXCEPT !.probeTimer = p1, !.probes = p3, !.probed = p2]
        BY <3>3, <4>1
      <4> QED BY <3>1, <4>2, <4>3 DEF Controllers
    <3>4. CASE c' = [c EXCEPT !.probeTimer = FALSE]
      BY <3>1, <3>4 DEF Controllers
    <3> QED BY <1>4, <3>2, <3>3, <3>4 DEF ProbeFires
  <2> QED BY <1>1, <2>1, <2>2
<1> QED BY <1>2, <1>3, <1>4

(* An update is accepted: the screen follows, a restore is looked after,    *)
(* and with room_left the join of a switch goes out.                        *)
LEMMA AcceptStep ==
    ASSUME CtlInv, Accept
    PROVE  CtlInv'
<1> USE CtlAssumption
<1>0. CtlTypes /\ Chained(seen, mail, b.room) /\ mail # <<>>
      /\ c \in Controllers /\ b \in Bridges /\ seen \in Snaps /\ mail \in Mails
  BY DEF CtlInv, CtlTypes, Accept
<1>1. PICK u : u = Head(mail)
  OBVIOUS
<1>2. /\ u.ev \in Events /\ u.snap \in Snaps /\ Tail(mail) \in Mails
      /\ Chained(u.snap, Tail(mail), b.room)
      /\ seen.active /\ ~u.snap.active => u.ev = "room_left"
  BY <1>0, <1>1, TailChained
<1>3. PICK go : go = (u.ev = "room_left" /\ c.wanted # None)
  OBVIOUS
<1>4. PICK c1 : c1 = IF go THEN [c EXCEPT !.wanted = None] ELSE c
  OBVIOUS
<1>5. c1 \in Controllers /\ c1.wanted = IF go THEN None ELSE c.wanted
  BY <1>0, <1>4 DEF Controllers, RoomOrNone
<1>6. PICK w1 : w1 = IF c.inFlight THEN RestoreEvent([c |-> c1, b |-> b], u.ev, u.snap)
                     ELSE [c |-> c1, b |-> b]
  OBVIOUS
<1>7. Handled(w1, c1, b)
  <2>1. CASE c.inFlight
    BY <1>0, <1>2, <1>5, <1>6, <2>1, RestoreHandled
  <2>2. CASE ~c.inFlight
    BY <1>0, <1>5, <1>6, <2>2 DEF Handled
  <2> QED BY <2>1, <2>2
<1>8. PICK x : x = IF go THEN Join(w1.b, c.wanted, "switch") ELSE w1.b
  OBVIOUS
<1>9. /\ c' = Coordinate(w1.c, u.snap) /\ b' = x /\ seen' = u.snap
      /\ mail' = (IF x = b THEN Tail(mail) ELSE Post(Tail(mail), "none", x))
      /\ user' = [user EXCEPT !.waits = @ /\ Tail(mail) # <<>>]
  BY <1>1, <1>3, <1>4, <1>6, <1>8 DEF Accept
<1>10. w1.b \in Bridges /\ w1.b.room = b.room /\ w1.c \in Controllers
  BY <1>7 DEF Handled
<1>11. go => c.wanted \in Room /\ "switch" \in Askers
  BY <1>0, <1>3 DEF Controllers, RoomOrNone, Askers
<1>12. x \in Bridges /\ x.room = b.room /\ x.leave = w1.b.leave
  BY <1>8, <1>10, <1>11, Joins
<1>13. c' \in Controllers /\ c'.wanted = w1.c.wanted
  BY <1>2, <1>9, <1>10, Coordinated
<1>14. mail' \in Mails /\ Chained(seen', mail', b'.room)
  BY <1>2, <1>9, <1>12, PostChained DEF Events
<1>15. user' \in [asks : Nat, last : Room \cup {"nothing", "leave"}, waits : BOOLEAN]
       /\ user'.last = user.last
  <2>1. PICK v \in BOOLEAN : v = (user.waits /\ Tail(mail) # <<>>)
    BY <1>0 DEF CtlTypes
  <2>2. user' = [user EXCEPT !.waits = v]
    BY <1>9, <2>1
  <2> QED BY <1>0, <2>1, <2>2 DEF CtlTypes
<1>16. CtlTypes'
  BY <1>2, <1>9, <1>12, <1>13, <1>14, <1>15 DEF CtlTypes
<1>17. c'.wanted = None \/ (c'.wanted = c.wanted /\ ~go)
  BY <1>5, <1>7, <1>13 DEF Handled
<1>18. (c.wanted # None => seen.active /\ user.last = c.wanted)'
  BY <1>2, <1>3, <1>9, <1>15, <1>17 DEF CtlInv
<1>19. Follows(w1.b.queue, w1.b.leave, user.last)
  <2>1. CASE w1.b = b
    BY <2>1 DEF CtlInv
  <2>2. CASE w1.b = Leave(b)
    BY <1>0, <2>2, Leaves DEF Follows
  <2> QED BY <1>7, <2>1, <2>2 DEF Handled
<1>20. Follows(b'.queue, b'.leave, user'.last)
  <2>1. CASE ~go
    BY <1>8, <1>9, <1>15, <1>19, <2>1
  <2>2. CASE go /\ Receipt(w1.b) # "accepted"
    <3>1. x = w1.b
      BY <1>8, <1>10, <1>11, <2>2, Joins
    <3> QED BY <1>9, <1>15, <1>19, <3>1
  <2>3. CASE go /\ Receipt(w1.b) = "accepted"
    <3>1. x.queue = Append(w1.b.queue, [room |-> c.wanted, by |-> "switch", stale |-> FALSE])
      BY <1>8, <1>10, <1>11, <2>3, Joins
    <3>2. w1.b.queue \in Seq(Commands)
      BY <1>10 DEF Bridges
    <3>3. x.queue[Len(x.queue)].room = c.wanted
      BY <3>1, <3>2
    <3>4. user.last = c.wanted
      BY <1>3, <2>3 DEF CtlInv
    <3> QED BY <1>9, <1>15, <3>3, <3>4 DEF Follows
  <2> QED BY <2>1, <2>2, <2>3
<1> QED BY <1>14, <1>16, <1>18, <1>20 DEF CtlInv

(* The user joins, switches or leaves.                                      *)
LEMMA UserStep ==
    ASSUME CtlInv, UserAsks
    PROVE  CtlInv'
<1> USE CtlAssumption
<1>0. CtlTypes /\ Chained(seen, mail, b.room)
      /\ c \in Controllers /\ b \in Bridges /\ seen \in Snaps /\ mail \in Mails
  BY DEF CtlInv, CtlTypes
<1>1. seen' = seen /\ mail' = IF b' = b THEN mail ELSE Post(mail, "none", b')
  BY DEF UserAsks
<1>2. ASSUME b' \in Bridges, b'.room = b.room
      PROVE  mail' \in Mails /\ Chained(seen', mail', b'.room)
  <2>1. "none" \in Events
    BY DEF Events
  <2> QED BY <1>0, <1>1, <1>2, <2>1, PostChained
<1>3. CASE \E r \in Room : /\ SwitchRoom(r)
                           /\ user' = [asks |-> user.asks + 1, waits |-> TRUE,
                                      last |-> IF seen.active \/ Receipt(b) = "accepted" THEN r ELSE user.last]
  <2>1. PICK r \in Room : /\ SwitchRoom(r)
                          /\ user' = [asks |-> user.asks + 1, waits |-> TRUE,
                                      last |-> IF seen.active \/ Receipt(b) = "accepted" THEN r ELSE user.last]
    BY <1>3
  <2>2. user' \in [asks : Nat, last : Room \cup {"nothing", "leave"}, waits : BOOLEAN]
        /\ user'.last = IF seen.active \/ Receipt(b) = "accepted" THEN r ELSE user.last
    <3>1. PICK l : l = IF seen.active \/ Receipt(b) = "accepted" THEN r ELSE user.last
      OBVIOUS
    <3>2. l \in Room \cup {"nothing", "leave"} /\ user.asks + 1 \in Nat
      BY <1>0, <3>1 DEF CtlTypes
    <3>3. PICK yes \in BOOLEAN : yes = TRUE
      OBVIOUS
    <3>4. user' = [asks |-> user.asks + 1, waits |-> yes, last |-> l]
      BY <2>1, <3>1, <3>3
    <3> QED BY <3>1, <3>2, <3>4
  <2>3. CASE seen.active
    <3>1. c' = [c EXCEPT !.wanted = r] /\ b' = Leave(b)
      BY <2>1, <2>3 DEF SwitchRoom
    <3>2. c' \in Controllers /\ c'.wanted = r
      BY <1>0, <3>1 DEF Controllers, RoomOrNone
    <3>3. b' \in Bridges /\ b'.room = b.room /\ b'.leave
      BY <1>0, <3>1, Leaves
    <3>4. CtlTypes' /\ Chained(seen', mail', b'.room)
      BY <1>0, <1>1, <1>2, <2>2, <3>2, <3>3 DEF CtlTypes
    <3> QED BY <1>1, <2>2, <2>3, <3>2, <3>3, <3>4 DEF CtlInv, Follows
  <2>4. CASE ~seen.active
    <3>1. c' = c /\ b' = Join(b, r, "user") /\ c.wanted = None
      BY <2>1, <2>4 DEF SwitchRoom, CtlInv
    <3>2. "user" \in Askers
      BY DEF Askers
    <3>3. b' \in Bridges /\ b'.room = b.room /\ b'.leave = b.leave
      BY <1>0, <3>1, <3>2, Joins
    <3>4. CtlTypes' /\ Chained(seen', mail', b'.room)
      BY <1>0, <1>1, <1>2, <2>2, <3>1, <3>3 DEF CtlTypes
    <3>5. Follows(b'.queue, b'.leave, user'.last)
      <4>1. CASE Receipt(b) # "accepted"
        <5>1. b' = b /\ user'.last = user.last
          BY <1>0, <2>2, <2>4, <3>1, <3>2, <4>1, Joins
        <5> QED BY <5>1 DEF CtlInv
      <4>2. CASE Receipt(b) = "accepted"
        <5>1. b'.queue = Append(b.queue, [room |-> r, by |-> "user", stale |-> FALSE])
          BY <1>0, <3>1, <3>2, <4>2, Joins
        <5>2. b.queue \in Seq(Commands)
          BY <1>0 DEF Bridges
        <5>3. b'.queue[Len(b'.queue)].by = "user"
          BY <5>1, <5>2
        <5> QED BY <5>3 DEF Follows
      <4> QED BY <4>1, <4>2
    <3> QED BY <3>1, <3>4, <3>5 DEF CtlInv
  <2> QED BY <2>3, <2>4
<1>4. CASE LeaveRoom /\ user' = [asks |-> user.asks + 1, last |-> "leave", waits |-> TRUE]
  <2>1. c' = [c EXCEPT !.wanted = None] /\ b' = Leave(b)
    BY <1>4 DEF LeaveRoom, ExplicitLeave
  <2>2. c' \in Controllers /\ c'.wanted = None
    BY <1>0, <2>1 DEF Controllers, RoomOrNone
  <2>3. b' \in Bridges /\ b'.room = b.room /\ b'.leave
    BY <1>0, <2>1, Leaves
  <2>4. user' \in [asks : Nat, last : Room \cup {"nothing", "leave"}, waits : BOOLEAN]
    <3>1. user.asks + 1 \in Nat
      BY <1>0 DEF CtlTypes
    <3>2. PICK yes \in BOOLEAN : yes = TRUE
      OBVIOUS
    <3>3. user' = [asks |-> user.asks + 1, last |-> "leave", waits |-> yes]
      BY <1>4, <3>2
    <3> QED BY <3>1, <3>3
  <2>5. CtlTypes' /\ Chained(seen', mail', b'.room)
    BY <1>0, <1>1, <1>2, <2>2, <2>3, <2>4 DEF CtlTypes
  <2> QED BY <2>2, <2>3, <2>5 DEF CtlInv, Follows
<1> QED BY <1>3, <1>4 DEF UserAsks

(* A switch ends in the room the user asked for last, or is called off      *)
(* (tractor_beam_controller.dart, _acceptUpdate and switchRoom).            *)
THEOREM SwitchesFollowUser == CtlSpec => []SwitchFollowsUser
<1>1. CtlInv => SwitchFollowsUser
  BY DEF CtlInv, Follows, SwitchFollowsUser
<1>2. CtlInv /\ [CtlNext]_ctlVars => CtlInv'
  <2> SUFFICES ASSUME CtlInv, [CtlNext]_ctlVars PROVE CtlInv'
    OBVIOUS
  <2>1. CASE UNCHANGED ctlVars
    BY <2>1 DEF ctlVars, CtlInv, CtlTypes
  <2>2. CASE CtlNext
    BY <2>2, BridgeSteps, TimerSteps, AcceptStep, UserStep DEF CtlNext, Bridge, Timers
  <2> QED BY <2>1, <2>2
<1> QED BY <1>1, <1>2, CtlInitInv, PTL DEF CtlSpec

-----------------------------------------------------------------------------
(* The pings of the three trackers (SessionHealth), for any number of them, *)
(* any timeout and any capacity.  Ids are never given twice, so an answer   *)
(* takes exactly one ping away, and the sum of PingsAddUp is kept by        *)
(* counting what each step takes away.                                      *)

PendingPings == [id : Nat, age : Nat]
Results == {"response", "timeout"}
Ledgers == [of : {"runtime", "room", "relay"}, sent : Nat, received : Nat, timed_out : Nat,
            wiped : Nat, pending : SUBSET PendingPings, air : SUBSET Nat,
            done : Seq(Results), here : BOOLEAN]

LedgerInv ==
    /\ ledger \in Ledgers
    /\ IsFiniteSet(ledger.pending)
    /\ \A p, q \in ledger.pending : p.id = q.id => p = q
    /\ PingsAddUp

(* What is taken away is no longer counted.                                 *)
LEMMA TakenAway ==
    ASSUME NEW U, IsFiniteSet(U), NEW T \in SUBSET U
    PROVE  /\ IsFiniteSet(U \ T) /\ IsFiniteSet(T)
           /\ Cardinality(U \ T) \in Nat /\ Cardinality(T) \in Nat
           /\ Cardinality(U \ T) + Cardinality(T) = Cardinality(U)
<1>1. U \cap T = T /\ IsFiniteSet(T)
  BY FS_Subset
<1>2. IsFiniteSet(U \ T) /\ Cardinality(U \ T) = Cardinality(U) - Cardinality(T)
  BY <1>1, FS_Difference
<1>3. Cardinality(U) \in Nat /\ Cardinality(T) \in Nat /\ Cardinality(U \ T) \in Nat
  BY <1>1, <1>2, FS_CardinalityType
<1> QED BY <1>1, <1>2, <1>3

(* Completed results are no more than what there was and what came.         *)
LEMMA Completed ==
    ASSUME NEW l, NEW rs \in Seq(Results), NEW n \in Nat,
           l \in Ledgers,
           Len(l.done) + Len(rs) <= n
    PROVE  \E d \in Seq(Results) :
             Len(d) <= n /\ Complete(l, rs) = [l EXCEPT !.done = d]
<1> USE HealthAssumption
<1> DEFINE s == l.done \o rs
           m == IF Len(s) > Capacity THEN Len(s) - Capacity + 1 ELSE 1
           d == SubSeq(s, m, Len(s))
<1>1. l.done \in Seq(Results)
  BY DEF Ledgers
<1>2. s \in Seq(Results) /\ Len(s) = Len(l.done) + Len(rs) /\ Len(s) \in Nat
  BY <1>1 DEF Ledgers
<1>3. m \in 1 .. Len(s) + 1
  BY <1>2, SMTT(30)
<1>4. Complete(l, rs) = [l EXCEPT !.done = d]
  BY DEF Complete
<1> HIDE DEF s, m
<1>5. d \in Seq(Results) /\ Len(d) <= Len(s)
  BY <1>2, <1>3, SMTT(30)
<1> HIDE DEF d
<1>6. Len(d) \in Nat
  BY <1>5
<1>7. Len(d) <= n
  BY <1>2, <1>5, <1>6
<1> QED BY <1>4, <1>5, <1>7

(* expire takes pings away and counts each of them.                         *)
LEMMA ExpireKeeps ==
    ASSUME LedgerInv
    PROVE  \E rest \in SUBSET ledger.pending, t \in Nat, w \in Nat, d \in Seq(Results) :
             /\ Expire(ledger) = [ledger EXCEPT !.pending = rest, !.timed_out = t, !.wiped = w, !.done = d]
             /\ IsFiniteSet(rest)
             /\ ledger.received + t + w + Cardinality(rest) = ledger.sent
             /\ Len(d) <= ledger.received + t
<1> DEFINE E == Expired(ledger)
           rest == ledger.pending \ E
           n == Cardinality(E)
           k == [ledger EXCEPT !.pending = rest]
<1>1. E \in SUBSET ledger.pending
  BY DEF Expired
<1>2. IsFiniteSet(rest) /\ n \in Nat /\ Cardinality(rest) \in Nat /\ Cardinality(rest) + n = Cardinality(ledger.pending)
      /\ Cardinality(ledger.pending) \in Nat
  BY <1>1, TakenAway DEF LedgerInv
<1>3. /\ ledger.sent \in Nat /\ ledger.received \in Nat /\ ledger.timed_out \in Nat /\ ledger.wiped \in Nat
      /\ ledger.done \in Seq(Results)
      /\ ledger.received + ledger.timed_out + ledger.wiped + Cardinality(ledger.pending) = ledger.sent
      /\ Len(ledger.done) <= ledger.received + ledger.timed_out
      /\ Len(ledger.done) \in Nat
  BY DEF LedgerInv, Ledgers, PingsAddUp
<1>8. /\ ledger.received + (ledger.timed_out + n) + ledger.wiped + Cardinality(rest) = ledger.sent
      /\ ledger.timed_out + n \in Nat /\ ledger.received + (ledger.timed_out + n) \in Nat
      /\ Len(ledger.done) <= ledger.received + (ledger.timed_out + n)
      /\ Len(ledger.done) + n <= ledger.received + (ledger.timed_out + n)
  <2>1. PICK r, t, w, v, d, m, x, y :
          /\ r = ledger.received /\ t = ledger.timed_out /\ w = ledger.wiped /\ v = ledger.sent
          /\ d = Len(ledger.done) /\ m = n /\ x = Cardinality(rest) /\ y = Cardinality(ledger.pending)
    OBVIOUS
  <2>2. /\ r \in Nat /\ t \in Nat /\ w \in Nat /\ v \in Nat /\ d \in Nat /\ m \in Nat
        /\ x \in Nat /\ y \in Nat
        /\ r + t + w + y = v /\ d <= r + t /\ x + m = y
    BY <1>2, <1>3, <2>1
  <2>3. /\ r + (t + m) + w + x = v /\ t + m \in Nat /\ r + (t + m) \in Nat
        /\ d <= r + (t + m) /\ d + m <= r + (t + m)
    BY ONLY <2>2
  <2> QED BY ONLY <2>1, <2>3
<1>4. rest \in SUBSET ledger.pending
  OBVIOUS
<1>5. CASE ledger.of = "relay"
  <2>1. Expire(ledger) = [k EXCEPT !.wiped = @ + n]
    BY <1>5 DEF Expire
  <2>2. Expire(ledger) = [ledger EXCEPT !.pending = rest, !.timed_out = ledger.timed_out,
                                        !.wiped = ledger.wiped + n, !.done = ledger.done]
    BY <2>1 DEF LedgerInv, Ledgers
  <2> HIDE DEF rest, n
  <2>3. /\ ledger.wiped + n \in Nat
        /\ ledger.received + ledger.timed_out + (ledger.wiped + n) + Cardinality(rest) = ledger.sent
    BY <1>2, <1>3, SMTT(30)
  <2> QED BY <1>2, <1>3, <1>4, <2>2, <2>3
<1>6. CASE ledger.of = "runtime"
  <2>1. Expire(ledger) = [k EXCEPT !.timed_out = @ + n]
    BY <1>6 DEF Expire
  <2>2. Expire(ledger) = [ledger EXCEPT !.pending = rest, !.timed_out = ledger.timed_out + n,
                                        !.wiped = ledger.wiped, !.done = ledger.done]
    BY <2>1 DEF LedgerInv, Ledgers
  <2> HIDE DEF rest, n
  <2> QED BY <1>2, <1>3, <1>4, <1>8, <2>2
<1>7. CASE ledger.of = "room"
  <2> DEFINE l == [k EXCEPT !.timed_out = @ + n]
             rs == [i \in 1 .. n |-> "timeout"]
  <2>1. Expire(ledger) = Complete(l, rs)
    BY <1>7 DEF Expire
  <2>2. rs \in Seq(Results) /\ Len(rs) = n
    BY <1>2 DEF Results
  <2> HIDE DEF rest, n, rs
  <2>4. l = [ledger EXCEPT !.pending = rest, !.timed_out = ledger.timed_out + n]
    BY DEF LedgerInv, Ledgers
  <2>5. /\ l \in Ledgers
        /\ l.done = ledger.done
    BY <1>4, <1>8, <2>4 DEF LedgerInv, Ledgers
  <2>6. PICK d \in Seq(Results) :
          Len(d) <= ledger.received + (ledger.timed_out + n) /\ Complete(l, rs) = [l EXCEPT !.done = d]
    BY <2>2, <1>8, <2>5, Completed
  <2>7. Expire(ledger) = [ledger EXCEPT !.pending = rest, !.timed_out = ledger.timed_out + n,
                                        !.wiped = ledger.wiped, !.done = d]
    BY <2>1, <2>4, <2>6 DEF LedgerInv, Ledgers
  <2> QED BY <1>2, <1>3, <1>4, <1>8, <2>6, <2>7
<1> QED BY <1>5, <1>6, <1>7 DEF LedgerInv, Ledgers

(* A ping goes out, after an expiry or not; its id is above every other.    *)
LEMMA SendKeeps == LedgerInv /\ SendHealthPing => LedgerInv'
<1> SUFFICES ASSUME LedgerInv, SendHealthPing PROVE LedgerInv'
  OBVIOUS
<1>1. PICK l : /\ l = IF ledger.of = "runtime" THEN Expire(ledger) ELSE ledger
               /\ ledger' = [l EXCEPT !.sent = l.sent + 1, !.pending = @ \cup {[id |-> l.sent + 1, age |-> 0]},
                                      !.air = @ \cup {l.sent + 1}]
  BY DEF SendHealthPing
<1>2. PICK rest \in SUBSET ledger.pending, t \in Nat, w \in Nat, d \in Seq(Results) :
        /\ l = [ledger EXCEPT !.pending = rest, !.timed_out = t, !.wiped = w, !.done = d]
        /\ IsFiniteSet(rest)
        /\ ledger.received + t + w + Cardinality(rest) = ledger.sent
        /\ Len(d) <= ledger.received + t
  <2>1. CASE ledger.of = "runtime"
    BY <1>1, <2>1, ExpireKeeps
  <2>2. CASE ledger.of # "runtime"
    <3>1. l = [ledger EXCEPT !.pending = ledger.pending, !.timed_out = ledger.timed_out,
                             !.wiped = ledger.wiped, !.done = ledger.done]
      BY <1>1, <2>2 DEF LedgerInv, Ledgers
    <3>2. ledger.timed_out \in Nat /\ ledger.wiped \in Nat /\ ledger.done \in Seq(Results)
      BY DEF LedgerInv, Ledgers
    <3> QED BY <3>1, <3>2 DEF LedgerInv, PingsAddUp
  <2> QED BY <2>1, <2>2
<1>3. PICK n \in Nat : n = ledger.sent
  BY DEF LedgerInv, Ledgers
<1>4. PICK p \in PendingPings : p = [id |-> n + 1, age |-> 0]
  <2>1. [id |-> n + 1, age |-> 0] \in PendingPings
    BY DEF PendingPings
  <2> QED BY <2>1
<1>5. ledger' = [ledger EXCEPT !.sent = n + 1, !.pending = rest \cup {p}, !.air = @ \cup {n + 1},
                               !.timed_out = t, !.wiped = w, !.done = d]
  BY <1>1, <1>2, <1>3, <1>4 DEF LedgerInv, Ledgers
<1>6. rest \in SUBSET PendingPings /\ \A q \in rest : q.id <= n /\ q.id \in Nat
  BY <1>2, <1>3, SMTT(30) DEF LedgerInv, Ledgers, PingsAddUp, PendingPings
<1>7. p \notin rest /\ \A q \in rest : q.id # p.id
  BY <1>4, <1>6
<1>8. IsFiniteSet(rest \cup {p}) /\ Cardinality(rest \cup {p}) = Cardinality(rest) + 1
      /\ Cardinality(rest) \in Nat
  BY <1>2, <1>7, FS_AddElement, FS_CardinalityType
<1>9. /\ ledger' \in Ledgers /\ ledger'.sent = n + 1 /\ ledger'.pending = rest \cup {p}
      /\ ledger'.timed_out = t /\ ledger'.wiped = w /\ ledger'.done = d
      /\ ledger'.received = ledger.received /\ ledger.received \in Nat
  <2>1. rest \cup {p} \in SUBSET PendingPings /\ n + 1 \in Nat
    BY <1>6
  <2>2. ledger.air \cup {n + 1} \in SUBSET Nat
    BY DEF LedgerInv, Ledgers
  <2> QED BY <1>2, <1>5, <2>1, <2>2 DEF LedgerInv, Ledgers
<1>10. ledger'.received + t + w + Cardinality(rest \cup {p}) = n + 1
  <2>1. PICK r, k : r = ledger.received /\ k = Cardinality(rest)
    OBVIOUS
  <2>2. r \in Nat /\ k \in Nat /\ r + t + w + k = n
    BY <1>2, <1>3, <1>8, <1>9, <2>1
  <2>3. r + t + w + (k + 1) = n + 1
    BY <2>2
  <2> QED BY <1>8, <1>9, <2>1, <2>3
<1>11. \A q \in rest \cup {p} : q.id <= n + 1
  BY <1>4, <1>6
<1>12. \A q, r \in rest \cup {p} : q.id = r.id => q = r
  BY <1>2, <1>7 DEF LedgerInv
<1> QED BY <1>2, <1>8, <1>9, <1>10, <1>11, <1>12 DEF LedgerInv, PingsAddUp

(* An answer takes its ping away and is counted once; another one, or one   *)
(* that comes after the ping expired or was wiped, changes nothing.         *)
LEMMA PongKeeps ==
    ASSUME LedgerInv, NEW id \in ledger.air, NEW again \in BOOLEAN, PongArrives(id, again)
    PROVE  LedgerInv'
<1>1. PICK air : ledger' = [observe_pong(ledger, id) EXCEPT !.air = air] /\ air \in SUBSET Nat
  <2>4. \A l \in Ledgers : \A rs : Complete(l, rs).air = l.air
    BY DEF Complete, Ledgers
  <2>5. ledger \in Ledgers
    BY DEF LedgerInv
  <2>6. PICK l : l = [ledger EXCEPT !.received = @ + 1, !.pending = {p \in @ : p.id # id}]
    OBVIOUS
  <2>7. l \in Ledgers /\ l.air = ledger.air
    <3>1. ledger.received + 1 \in Nat /\ {p \in ledger.pending : p.id # id} \in SUBSET PendingPings
      BY <2>5 DEF Ledgers
    <3> QED BY <2>5, <2>6, <3>1 DEF Ledgers
  <2>8. observe_pong(ledger, id).air = ledger.air
    BY <2>4, <2>6, <2>7 DEF observe_pong
  <2>1. PICK m : m = observe_pong(ledger, id) /\ m.air = ledger.air
    BY <2>8
  <2>2. ledger' = [m EXCEPT !.air = IF again THEN m.air ELSE m.air \ {id}]
    BY <2>1 DEF PongArrives
  <2>3. ledger.air \in SUBSET Nat
    BY DEF LedgerInv, Ledgers
  <2> QED BY <2>1, <2>2, <2>3
<1>2. CASE ~\E p \in ledger.pending : p.id = id
  <2>1. ledger' = [ledger EXCEPT !.air = air]
    BY <1>1, <1>2 DEF observe_pong
  <2> QED BY <1>1, <2>1 DEF LedgerInv, Ledgers, PingsAddUp
<1>3. ASSUME NEW p \in ledger.pending, p.id = id
      PROVE  LedgerInv'
  <2>1. {q \in ledger.pending : q.id # id} = ledger.pending \ {p}
    BY <1>3 DEF LedgerInv
  <2> DEFINE rest == ledger.pending \ {p}
             rs == <<"response">>
  <2>2. /\ IsFiniteSet(rest) /\ Cardinality(rest) \in Nat
        /\ Cardinality(ledger.pending) = Cardinality(rest) + 1
    <3>1. IsFiniteSet(rest) /\ Cardinality(rest) = Cardinality(ledger.pending) - 1
      BY FS_RemoveElement DEF LedgerInv
    <3>2. Cardinality(rest) \in Nat /\ Cardinality(ledger.pending) \in Nat
      BY <3>1, FS_CardinalityType DEF LedgerInv
    <3> QED BY <3>1, <3>2
  <2>3. observe_pong(ledger, id) =
          Complete([ledger EXCEPT !.received = @ + 1, !.pending = rest], rs)
    BY <1>3, <2>1 DEF observe_pong
  <2>4. rest \in SUBSET ledger.pending
    OBVIOUS
  <2>5. rs \in Seq(Results) /\ Len(rs) = 1
    BY DEF Results
  <2> HIDE DEF rest, rs
  <2>6. /\ ledger.sent \in Nat /\ ledger.received \in Nat /\ ledger.timed_out \in Nat
        /\ ledger.wiped \in Nat /\ Len(ledger.done) \in Nat /\ ledger.received + 1 \in Nat
        /\ ledger.pending \in SUBSET PendingPings
        /\ ledger.received + ledger.timed_out + ledger.wiped + Cardinality(ledger.pending) = ledger.sent
        /\ Len(ledger.done) <= ledger.received + ledger.timed_out
    BY DEF LedgerInv, Ledgers, PingsAddUp
  <2>7. PICK l : l = [ledger EXCEPT !.received = @ + 1, !.pending = rest]
    OBVIOUS
  <2>8. l \in Ledgers /\ l.done = ledger.done
    BY <2>4, <2>6, <2>7 DEF LedgerInv, Ledgers
  <2>9. PICK d \in Seq(Results) : /\ Len(d) <= ledger.received + 1 + ledger.timed_out
                                  /\ Complete(l, rs) = [l EXCEPT !.done = d]
    <3>1. Len(l.done) + Len(rs) <= ledger.received + 1 + ledger.timed_out
          /\ ledger.received + 1 + ledger.timed_out \in Nat
      BY <2>5, <2>6, <2>8, SMTT(30)
    <3> QED BY <2>5, <2>8, <3>1, Completed
  <2>10. ledger' = [ledger EXCEPT !.received = @ + 1, !.pending = rest, !.done = d, !.air = air]
    BY <1>1, <2>3, <2>7, <2>9 DEF LedgerInv, Ledgers
  <2>11. /\ ledger' \in Ledgers /\ ledger'.received = ledger.received + 1 /\ ledger'.pending = rest
         /\ ledger'.done = d /\ ledger'.sent = ledger.sent /\ ledger'.wiped = ledger.wiped
         /\ ledger'.timed_out = ledger.timed_out
    BY <1>1, <2>4, <2>6, <2>9, <2>10 DEF LedgerInv, Ledgers
  <2>12. ledger'.received + ledger'.timed_out + ledger'.wiped + Cardinality(rest) = ledger'.sent
    <3>1. PICK r, o, w, v, k :
            r = ledger.received /\ o = ledger.timed_out /\ w = ledger.wiped /\ v = ledger.sent
            /\ k = Cardinality(rest)
      OBVIOUS
    <3>2. /\ r \in Nat /\ o \in Nat /\ w \in Nat /\ v \in Nat /\ k \in Nat
          /\ r + o + w + (k + 1) = v
      BY <2>2, <2>6, <3>1
    <3>3. (r + 1) + o + w + k = v
      BY ONLY <3>2
    <3> QED BY <2>11, <3>1, <3>3
  <2>13. Len(ledger'.done) <= ledger'.received + ledger'.timed_out
    BY <2>9, <2>11
  <2> QED BY <2>2, <2>4, <2>11, <2>12, <2>13 DEF LedgerInv, PingsAddUp
<1> QED BY <1>2, <1>3

(* Time passes for every pending ping; none is lost and no two become one.  *)
LEMMA AgeKeeps == LedgerInv /\ PingsAge => LedgerInv'
<1> SUFFICES ASSUME LedgerInv, PingsAge PROVE LedgerInv'
  OBVIOUS
<1> DEFINE U == ledger.pending
           T == {[p EXCEPT !.age = @ + 1] : p \in U}
           f == [p \in U |-> [p EXCEPT !.age = @ + 1]]
<1>1. \A p \in U : p \in PendingPings /\ [p EXCEPT !.age = @ + 1] \in PendingPings
                   /\ [p EXCEPT !.age = @ + 1].id = p.id
  BY DEF LedgerInv, Ledgers, PendingPings
<1>2. \A p, q \in U : p.id = q.id => p = q
  BY DEF LedgerInv
<1>3. f \in Bijection(U, T)
  <2>1. \A p, q \in U : f[p] = f[q] => p = q
    BY <1>1, <1>2, ZenonT(60)
  <2>2. f \in [U -> T] /\ \A t \in T : \E p \in U : f[p] = t
    OBVIOUS
  <2> QED BY <2>1, <2>2 DEF Bijection, Injection, Surjection, IsInjective
<1>4. IsFiniteSet(T) /\ Cardinality(T) = Cardinality(U)
  BY <1>3, FS_Bijection DEF ExistsBijection, LedgerInv
<1>5. T \in SUBSET PendingPings /\ \A t \in T : t.id <= ledger.sent
  BY <1>1 DEF LedgerInv, PingsAddUp
<1>6. ASSUME NEW s \in T, NEW t \in T, s.id = t.id
      PROVE  s = t
  <2>1. PICK p \in U : s = [p EXCEPT !.age = @ + 1]
    OBVIOUS
  <2>2. PICK q \in U : t = [q EXCEPT !.age = @ + 1]
    OBVIOUS
  <2>3. p.id = q.id
    BY <1>1, <1>6, <2>1, <2>2
  <2> QED BY <1>2, <2>1, <2>2, <2>3
<1>7. ledger' = [ledger EXCEPT !.pending = T]
  BY DEF PingsAge
<1> HIDE DEF T
<1>8. /\ ledger' \in Ledgers /\ ledger'.pending = T /\ ledger'.sent = ledger.sent
      /\ ledger'.received = ledger.received /\ ledger'.timed_out = ledger.timed_out
      /\ ledger'.wiped = ledger.wiped /\ ledger'.done = ledger.done
  BY <1>5, <1>7 DEF LedgerInv, Ledgers
<1> QED BY <1>4, <1>5, <1>6, <1>8 DEF LedgerInv, PingsAddUp

(* What expires is counted; what a reset wipes is counted as wiped.         *)
LEMMA ExpiryKeeps == LedgerInv /\ (ExpirePings \/ Forget) => LedgerInv'
<1> SUFFICES ASSUME LedgerInv, ExpirePings \/ Forget PROVE LedgerInv'
  OBVIOUS
<1>1. CASE ExpirePings
  <2>1. PICK rest \in SUBSET ledger.pending, t \in Nat, w \in Nat, d \in Seq(Results) :
          /\ ledger' = [ledger EXCEPT !.pending = rest, !.timed_out = t, !.wiped = w, !.done = d]
          /\ IsFiniteSet(rest)
          /\ ledger.received + t + w + Cardinality(rest) = ledger.sent
          /\ Len(d) <= ledger.received + t
    BY <1>1, ExpireKeeps DEF ExpirePings
  <2>2. rest \in SUBSET PendingPings
    BY DEF LedgerInv, Ledgers
  <2>3. /\ ledger' \in Ledgers /\ ledger'.pending = rest /\ ledger'.sent = ledger.sent
        /\ ledger'.received = ledger.received /\ ledger'.timed_out = t
        /\ ledger'.wiped = w /\ ledger'.done = d
    BY <2>1, <2>2 DEF LedgerInv, Ledgers
  <2> QED BY <2>1, <2>3 DEF LedgerInv, PingsAddUp
<1>2. CASE Forget
  <2>1. PICK e, here : /\ e = <<>>
                       /\ here = IF ledger.of = "room" THEN ~ledger.here ELSE ledger.here
    OBVIOUS
  <2>2. ledger' = [ledger EXCEPT !.pending = {}, !.done = e, !.received = 0, !.timed_out = 0,
                                 !.wiped = ledger.sent, !.here = here]
    BY <1>2, <2>1 DEF Forget
  <2>3. e \in Seq(Results) /\ Len(e) = 0 /\ here \in BOOLEAN /\ ledger.sent \in Nat
    <3>1. ledger.here \in BOOLEAN /\ ledger.sent \in Nat
      BY DEF LedgerInv, Ledgers
    <3>2. e \in Seq(Results) /\ Len(e) = 0
      BY <2>1
    <3>3. here \in BOOLEAN
      BY <2>1, <3>1
    <3> QED BY <3>1, <3>2, <3>3
  <2>4. /\ ledger' \in Ledgers /\ ledger'.pending = {} /\ ledger'.sent = ledger.sent
        /\ ledger'.received = 0 /\ ledger'.timed_out = 0
        /\ ledger'.wiped = ledger.sent /\ ledger'.done = e
    BY <2>2, <2>3 DEF LedgerInv, Ledgers
  <2>5. IsFiniteSet(ledger'.pending) /\ Cardinality(ledger'.pending) = 0
    BY <2>4, FS_EmptySet
  <2> QED BY <2>3, <2>4, <2>5 DEF LedgerInv, PingsAddUp
<1> QED BY <1>1, <1>2

(* Every ping is accounted for once, however late and often it is answered  *)
(* (stats.rs, room_path_quality.rs, relay_rtt.rs).                          *)
THEOREM EveryPingCounts == LedgerSpec => []PingsAddUp
<1>1. LedgerInit => LedgerInv
  <2> SUFFICES ASSUME LedgerInit PROVE LedgerInv
    OBVIOUS
  <2>1. <<>> \in Seq(Results) /\ Len(<<>>) = 0
    OBVIOUS
  <2>2. /\ ledger \in Ledgers /\ ledger.pending = {} /\ ledger.sent = 0 /\ ledger.received = 0
        /\ ledger.timed_out = 0 /\ ledger.wiped = 0 /\ ledger.done = <<>>
    <3>1. PICK yes \in BOOLEAN : yes = TRUE
      OBVIOUS
    <3>2. PICK o \in {"runtime", "room", "relay"} :
            ledger = [of |-> o, sent |-> 0, received |-> 0, timed_out |-> 0, wiped |-> 0,
                      pending |-> {}, air |-> {}, done |-> <<>>, here |-> yes]
      BY <3>1 DEF LedgerInit
    <3> QED BY <2>1, <3>2 DEF Ledgers
  <2>3. IsFiniteSet(ledger.pending) /\ Cardinality(ledger.pending) = 0
    BY <2>2, FS_EmptySet
  <2> QED BY <2>1, <2>2, <2>3 DEF LedgerInv, PingsAddUp
<1>2. LedgerInv /\ [LedgerNext]_healthVars => LedgerInv'
  <2> SUFFICES ASSUME LedgerInv, [LedgerNext]_healthVars PROVE LedgerInv'
    OBVIOUS
  <2>1. CASE UNCHANGED healthVars
    BY <2>1 DEF healthVars, LedgerInv, PingsAddUp
  <2>2. CASE LedgerNext
    BY <2>2, SendKeeps, PongKeeps, AgeKeeps, ExpiryKeeps DEF LedgerNext
  <2> QED BY <2>1, <2>2
<1>3. LedgerInv => PingsAddUp
  BY DEF LedgerInv
<1> QED BY <1>1, <1>2, <1>3, PTL DEF LedgerSpec

-----------------------------------------------------------------------------
(* Delivery (SessionHealth), for every width, any sequence numbers and any   *)
(* order of arrival.  GapsAddUp is inductive together with what the window   *)
(* knows: how far it reaches back (tracked), and that the numbers in reach   *)
(* that came are marked, so none is counted twice.                           *)

DeliveryWindows == [stream : Nat, highest : Nat, seen : SUBSET Nat, tracked : Nat]
Packets == [stream : Nat, seq : Nat]
Flows == [stream : Nat, next : Nat, air : SUBSET Packets, window : DeliveryWindows, retired : Seq(Nat),
          confirmed : Nat, first : Nat, fresh : SUBSET Nat]

(* The sequence numbers that came, from the first of the stream on.         *)
Came(f) == {q \in f.fresh : q >= f.first}
InReach(w) == {a \in w.seen : a < w.tracked}

Marked(f) ==
    LET w == f.window
    IN  /\ f.first <= w.highest
        /\ w.tracked = IF w.highest - f.first + 1 > Width THEN Width ELSE w.highest - f.first + 1
        /\ w.seen \subseteq 0 .. Width - 1
        /\ f.fresh \subseteq 0 .. w.highest
        /\ \A q \in f.fresh : w.highest - q < Width => w.highest - q \in w.seen

Balanced(f) ==
    f.confirmed + open_gaps(f.window) + Cardinality(Came(f)) = f.window.highest - f.first + 1

SoundFlow(f) ==
    /\ f \in Flows
    /\ IF f.window.stream = 0 THEN f.confirmed = 0 ELSE Marked(f) /\ Balanced(f)

(* Ages that move on are as many as they were.                              *)
LEMMA MovedOn ==
    ASSUME NEW U \in SUBSET Nat, IsFiniteSet(U), NEW d \in Nat
    PROVE  IsFiniteSet({a + d : a \in U}) /\ Cardinality({a + d : a \in U}) = Cardinality(U)
<1> DEFINE T == {a + d : a \in U}
           f == [a \in U |-> a + d]
<1>1. f \in Bijection(U, T)
  <2>1. \A a, e \in U : f[a] = f[e] => a = e
    OBVIOUS
  <2>2. f \in [U -> T] /\ \A t \in T : \E a \in U : f[a] = t
    OBVIOUS
  <2> QED BY <2>1, <2>2 DEF Bijection, Injection, Surjection, IsInjective
<1> QED BY <1>1, FS_Bijection DEF ExistsBijection

(* Sets of ages and numbers below a bound are finite, and no larger.        *)
LEMMA Below ==
    ASSUME NEW n \in Int, n >= 0, NEW U \in SUBSET (0 .. n - 1)
    PROVE  IsFiniteSet(U) /\ Cardinality(U) \in Nat /\ Cardinality(U) <= n
<1>1. IsFiniteSet(0 .. n - 1) /\ Cardinality(0 .. n - 1) = n
  BY FS_Interval
<1> QED BY <1>1, FS_Subset, FS_CardinalityType

(* The gaps that the window loses when it moves on by less than its width,  *)
(* together with those it shows afterwards, are those it showed before and  *)
(* the numbers that were skipped.                                           *)
LEMMA WindowAdvances ==
    ASSUME NEW w \in DeliveryWindows, w.seen \subseteq 0 .. Width - 1, w.tracked <= Width,
           NEW adv \in Nat, adv > 0, adv < Width,
           NEW v \in DeliveryWindows,
           v.seen = {0} \cup {a + adv : a \in {e \in w.seen : e + adv < Width}},
           v.tracked = IF w.tracked + adv > Width THEN Width ELSE w.tracked + adv
    PROVE  /\ confirmed_by_advance(w, adv) \in Nat /\ open_gaps(w) \in Nat /\ open_gaps(v) \in Nat
           /\ confirmed_by_advance(w, adv) + open_gaps(v) = open_gaps(w) + adv - 1
<1> USE HealthAssumption
<1>0. Width \in Nat /\ w.tracked \in Nat /\ v.tracked \in Nat /\ w.seen \subseteq Nat
  BY DEF DeliveryWindows
<1> DEFINE T == w.tracked
           A == InReach(w)
           kept == {a \in w.seen : a + adv < v.tracked}
           gone == {a \in w.seen : Width - adv <= a /\ a < T}
           G == {a \in (Width - adv) .. (Width - 1) : a < T /\ a \notin w.seen}
<1>1. /\ IsFiniteSet(A) /\ Cardinality(A) \in Nat /\ Cardinality(A) <= T
  <2>1. A \in SUBSET (0 .. T - 1)
    BY <1>0 DEF InReach
  <2> QED BY <1>0, <2>1, Below
<1>2. open_gaps(w) = T - Cardinality(A)
  BY DEF open_gaps, InReach
<1>3. confirmed_by_advance(w, adv) = Cardinality(G)
  BY <1>0 DEF confirmed_by_advance
<1>4. kept \subseteq Nat /\ IsFiniteSet(kept) /\ Cardinality(kept) \in Nat
  <2>1. kept \in SUBSET (0 .. Width - 1)
    OBVIOUS
  <2> QED BY <1>0, <2>1, Below
<1>5. InReach(v) = {a + adv : a \in kept} \cup {0}
  <2>1. v.tracked > 0 /\ v.tracked <= Width
    BY <1>0
  <2>2. \A a \in kept : a + adv < Width /\ a \in w.seen
    BY <1>0, <2>1
  <2>3. ASSUME NEW x \in InReach(v) PROVE x \in {a + adv : a \in kept} \cup {0}
    BY <2>3 DEF InReach
  <2>4. ASSUME NEW x \in {a + adv : a \in kept} \cup {0} PROVE x \in InReach(v)
    BY <2>1, <2>2, <2>4 DEF InReach
  <2> QED BY <2>3, <2>4
<1>6. Cardinality(InReach(v)) = Cardinality(kept) + 1
  <2>1. IsFiniteSet({a + adv : a \in kept}) /\ Cardinality({a + adv : a \in kept}) = Cardinality(kept)
    BY <1>4, MovedOn
  <2>2. 0 \notin {a + adv : a \in kept}
    BY <1>4
  <2>3. PICK J : J = {a + adv : a \in kept}
    OBVIOUS
  <2>4. IsFiniteSet(J) /\ Cardinality(J) = Cardinality(kept) /\ 0 \notin J
    BY ONLY <2>1, <2>2, <2>3
  <2>5. Cardinality(J \cup {0}) = Cardinality(J) + 1
    BY ONLY <2>4, FS_AddElement
  <2>6. InReach(v) = J \cup {0}
    BY ONLY <1>5, <2>3
  <2> QED BY ONLY <2>4, <2>5, <2>6
<1>7. open_gaps(v) = v.tracked - (Cardinality(kept) + 1)
  BY <1>6 DEF open_gaps, InReach
<1>8. CASE w.tracked + adv <= Width
  <2>1. kept = A /\ v.tracked = T + adv
    BY <1>0, <1>8 DEF InReach
  <2>2. G = {}
    BY <1>0, <1>8
  <2>3. Cardinality(G) = 0
    BY <2>2, FS_EmptySet
  <2> HIDE DEF A, kept, G
  <2> QED BY <1>0, <1>1, <1>2, <1>3, <1>7, <2>1, <2>3
<1>9. CASE w.tracked + adv > Width
  <2>1. v.tracked = Width /\ kept = {a \in w.seen : a < Width - adv}
    BY <1>0, <1>9
  <2>2. A \ kept = gone /\ kept \in SUBSET A
    BY <1>0, <1>9, <2>1 DEF InReach
  <2>3. /\ IsFiniteSet(gone) /\ Cardinality(gone) \in Nat
        /\ Cardinality(gone) + Cardinality(kept) = Cardinality(A)
    BY <1>1, <2>2, TakenAway, FS_CardinalityType
  <2> DEFINE I == (Width - adv) .. (T - 1)
  <2>4. IsFiniteSet(I) /\ Cardinality(I) = T - (Width - adv)
    <3>1. /\ Width - adv \in Int /\ T - 1 \in Int /\ ~(Width - adv > T - 1)
          /\ (T - 1) - (Width - adv) + 1 = T - (Width - adv)
      BY <1>0, <1>9
    <3>2. IsFiniteSet(I) /\ Cardinality(I) = (T - 1) - (Width - adv) + 1
      BY <3>1, FS_Interval
    <3> QED BY <3>1, <3>2
  <2>5. I \ gone = G /\ gone \in SUBSET I
    BY <1>0
  <2>6. Cardinality(G) \in Nat /\ Cardinality(G) + Cardinality(gone) = T - (Width - adv)
    BY <2>4, <2>5, TakenAway
  <2>7. kept \in SUBSET (0 .. (Width - adv) - 1)
    BY <1>0, <2>1
  <2>8. Cardinality(kept) <= Width - adv
    BY <1>0, <2>7, Below
  <2> HIDE DEF A, kept, G, gone, I
  <2> QED BY <1>0, <1>1, <1>2, <1>3, <1>4, <1>7, <2>1, <2>3, <2>6, <2>8
<1> QED BY <1>0, <1>8, <1>9

(* A window that starts has its first number and nothing before it.         *)
LEMMA Starts ==
    ASSUME NEW p \in Packets, NEW f, f \in Flows, f.window = NewDelivery(p), f.first = p.seq,
           f.fresh = {p.seq}, f.confirmed = 0
    PROVE  Marked(f) /\ Balanced(f)
<1> USE HealthAssumption
<1>1. /\ f.window = [stream |-> p.stream, highest |-> p.seq, seen |-> {0}, tracked |-> 1]
      /\ p.seq \in Nat
  BY DEF NewDelivery, Packets
<1>2. InReach(f.window) = {0} /\ Came(f) = {p.seq}
  BY <1>1 DEF InReach, Came
<1>3. Cardinality(InReach(f.window)) = 1 /\ Cardinality(Came(f)) = 1
  BY <1>2, FS_Singleton
<1>4. Marked(f)
  BY <1>1 DEF Marked
<1>5. open_gaps(f.window) = 0
  BY <1>1, <1>3 DEF open_gaps, InReach
<1> QED BY <1>1, <1>3, <1>4, <1>5 DEF Balanced

(* A sequence number above the highest.                                     *)
LEMMA Ahead ==
    ASSUME NEW f \in Flows, Marked(f), Balanced(f), NEW q \in Nat, q > f.window.highest
    PROVE  /\ ObserveSeq(f, q) \in Flows /\ Marked(ObserveSeq(f, q)) /\ Balanced(ObserveSeq(f, q))
           /\ ObserveSeq(f, q).window.stream = f.window.stream
<1> USE HealthAssumption
<1>0. /\ Width \in Nat /\ Width > 0
      /\ f.window \in DeliveryWindows /\ f.first \in Nat /\ f.confirmed \in Nat /\ f.fresh \in SUBSET Nat
      /\ f.window.highest \in Nat /\ f.window.tracked \in Nat /\ f.window.seen \in SUBSET Nat
  <2>1. f.window \in DeliveryWindows /\ f.first \in Nat /\ f.confirmed \in Nat /\ f.fresh \in SUBSET Nat
    BY DEF Flows
  <2> QED BY <2>1 DEF DeliveryWindows
<1>1. PICK w : w = f.window
  OBVIOUS
<1>2. PICK adv \in Nat : adv = q - w.highest /\ adv > 0
  BY <1>0, <1>1
<1>3. PICK gaps : gaps = confirmed_by_advance(w, adv)
  OBVIOUS
<1>4. PICK marks : marks = {0} \cup {a + adv : a \in {e \in w.seen : e + adv < Width}}
  OBVIOUS
<1>5. PICK reach : reach = IF w.tracked + adv > Width THEN Width ELSE w.tracked + adv
  OBVIOUS
<1>6. PICK v : v = [w EXCEPT !.highest = q, !.seen = marks, !.tracked = reach]
  OBVIOUS
<1>7. PICK g : g = ObserveSeq(f, q)
  OBVIOUS
<1>8. g = [f EXCEPT !.window.highest = q, !.window.seen = marks, !.window.tracked = reach,
                    !.confirmed = @ + gaps, !.fresh = @ \cup {q}]
  BY <1>0, <1>1, <1>2, <1>3, <1>4, <1>5, <1>7 DEF ObserveSeq
<1>9. marks \in SUBSET (0 .. Width - 1) /\ reach \in Nat /\ reach <= Width
  BY <1>0, <1>1, <1>2, <1>4, <1>5
<1>10. v \in DeliveryWindows /\ v.seen = marks /\ v.tracked = reach /\ v.highest = q /\ v.stream = w.stream
  <2>1. w \in DeliveryWindows /\ marks \in SUBSET Nat
    BY <1>0, <1>1, <1>9
  <2> QED BY <1>6, <1>9, <2>1 DEF DeliveryWindows
<1>11. w.tracked <= Width /\ w.seen \subseteq 0 .. Width - 1 /\ f.first <= w.highest
       /\ w.tracked = IF w.highest - f.first + 1 > Width THEN Width ELSE w.highest - f.first + 1
  BY <1>0, <1>1 DEF Marked
<1>12. /\ gaps \in Nat /\ open_gaps(w) \in Nat /\ open_gaps(v) \in Nat
       /\ gaps + open_gaps(v) = open_gaps(w) + adv - 1
  <2>1. CASE adv < Width
    BY <1>0, <1>1, <1>2, <1>3, <1>4, <1>5, <1>10, <1>11, <2>1, WindowAdvances
  <2>2. CASE adv >= Width
    <3>1. marks = {0} /\ reach = Width
      BY <1>0, <1>1, <1>2, <1>4, <1>5, <1>11, <2>2
    <3>2. InReach(v) = {0}
      BY <1>0, <1>10, <3>1 DEF InReach
    <3>3. Cardinality(InReach(v)) = 1
      BY <3>2, FS_Singleton
    <3>4. open_gaps(v) = Width - 1
      BY <1>10, <3>1, <3>3 DEF open_gaps, InReach
    <3>5. gaps = open_gaps(w) + (adv - Width)
      BY <1>3, <2>2 DEF confirmed_by_advance
    <3>6. InReach(w) \in SUBSET (0 .. w.tracked - 1)
      BY <1>0, <1>1 DEF InReach
    <3>7. Cardinality(InReach(w)) \in Nat /\ Cardinality(InReach(w)) <= w.tracked
      BY <1>0, <1>1, <3>6, Below
    <3>8. open_gaps(w) = w.tracked - Cardinality(InReach(w))
      BY DEF open_gaps, InReach
    <3> QED BY <1>0, <1>1, <1>2, <2>2, <3>4, <3>5, <3>7, <3>8
  <2> QED BY <1>0, <1>2, <2>1, <2>2
<1>13. /\ g \in Flows /\ g.window = v /\ g.confirmed = f.confirmed + gaps
       /\ g.fresh = f.fresh \cup {q} /\ g.first = f.first
  <2>1. [f.window EXCEPT !.highest = q, !.seen = marks, !.tracked = reach] = v
    BY <1>1, <1>6
  <2>2. g = [f EXCEPT !.window = v, !.confirmed = f.confirmed + gaps, !.fresh = f.fresh \cup {q}]
    BY <1>8, <2>1 DEF Flows
  <2>3. f.confirmed + gaps \in Nat /\ f.fresh \cup {q} \in SUBSET Nat
    BY <1>0, <1>12
  <2> QED BY <1>10, <2>2, <2>3 DEF Flows
<1>14. Marked(g)
  <2>1. f.first <= q /\ reach = IF q - f.first + 1 > Width THEN Width ELSE q - f.first + 1
    BY <1>0, <1>1, <1>2, <1>5, <1>11
  <2>2. g.fresh \subseteq 0 .. q
    BY <1>0, <1>1, <1>13 DEF Marked
  <2>3. ASSUME NEW r \in g.fresh, q - r < Width PROVE q - r \in marks
    <3>1. CASE r = q
      BY <1>0, <1>4, <3>1
    <3>2. CASE r # q
      <4>1. r \in f.fresh /\ r \in Nat /\ r <= w.highest
        BY <1>0, <1>1, <1>13, <2>3, <3>2 DEF Marked
      <4>2. w.highest - r < Width /\ q - r = (w.highest - r) + adv /\ w.highest - r \in Nat
        BY <1>0, <1>1, <1>2, <2>3, <4>1
      <4>3. w.highest - r \in w.seen
        BY <1>1, <4>1, <4>2 DEF Marked
      <4> QED BY <1>4, <2>3, <4>2, <4>3
    <3> QED BY <3>1, <3>2
  <2> QED BY <1>9, <1>10, <1>13, <2>1, <2>2, <2>3 DEF Marked
<1>15. Balanced(g)
  <2>1. Came(g) = Came(f) \cup {q} /\ q \notin Came(f)
    BY <1>0, <1>1, <1>2, <1>11, <1>13 DEF Came, Marked
  <2>2. Came(f) \in SUBSET (0 .. (w.highest + 1) - 1)
    BY <1>0, <1>1 DEF Came, Marked
  <2>3. IsFiniteSet(Came(f)) /\ Cardinality(Came(f)) \in Nat
    BY <1>0, <1>1, <2>2, Below
  <2>4. Cardinality(Came(g)) = Cardinality(Came(f)) + 1
    BY <2>1, <2>3, FS_AddElement
  <2>5. PICK k, o, n, u : /\ k = Cardinality(Came(f)) /\ o = open_gaps(w) /\ n = open_gaps(v)
                          /\ u = f.confirmed
    OBVIOUS
  <2>6. u + o + k = w.highest - f.first + 1
    BY <1>1, <2>5 DEF Balanced
  <2>7. (u + gaps) + n + (k + 1) = q - f.first + 1
    <3>1. u \in Nat /\ k \in Nat /\ o \in Nat /\ n \in Nat /\ gaps \in Nat /\ gaps + n = o + adv - 1
      BY <1>0, <1>12, <2>3, <2>5
    <3>2. w.highest \in Nat /\ f.first \in Nat /\ q = w.highest + adv
      BY <1>0, <1>1, <1>2
    <3>3. adv \in Nat
      BY <1>2
    <3> QED BY ONLY <2>6, <3>1, <3>2, <3>3
  <2> QED BY <1>10, <1>13, <2>4, <2>5, <2>7 DEF Balanced
<1> QED BY <1>1, <1>7, <1>10, <1>13, <1>14, <1>15

(* One at or below the highest: too old, seen before, or late.              *)
LEMMA Behind ==
    ASSUME NEW f \in Flows, Marked(f), Balanced(f), NEW q \in Nat, q <= f.window.highest
    PROVE  /\ ObserveSeq(f, q) \in Flows /\ Marked(ObserveSeq(f, q)) /\ Balanced(ObserveSeq(f, q))
           /\ ObserveSeq(f, q).window.stream = f.window.stream
<1> USE HealthAssumption
<1>0. /\ Width \in Nat /\ Width > 0
      /\ f.window \in DeliveryWindows /\ f.first \in Nat /\ f.confirmed \in Nat /\ f.fresh \in SUBSET Nat
      /\ f.window.highest \in Nat /\ f.window.tracked \in Nat /\ f.window.seen \in SUBSET Nat
  <2>1. f.window \in DeliveryWindows /\ f.first \in Nat /\ f.confirmed \in Nat /\ f.fresh \in SUBSET Nat
    BY DEF Flows
  <2> QED BY <2>1 DEF DeliveryWindows
<1>1. PICK w : w = f.window
  OBVIOUS
<1>2. PICK age \in Nat : age = w.highest - q
  BY <1>0, <1>1
<1>3. CASE age >= Width \/ age \in w.seen
  <2>1. ObserveSeq(f, q) = f
    BY <1>0, <1>1, <1>2, <1>3 DEF ObserveSeq
  <2> QED BY <2>1
<1>4. CASE age < Width /\ age \notin w.seen
  <2>1. PICK g : g = ObserveSeq(f, q)
    OBVIOUS
  <2>2. PICK marks : marks = w.seen \cup {age}
    OBVIOUS
  <2>3. PICK v : v = [w EXCEPT !.seen = marks]
    OBVIOUS
  <2>4. g = [f EXCEPT !.window.seen = @ \cup {age}, !.fresh = @ \cup {q}]
    BY <1>0, <1>1, <1>2, <1>4, <2>1 DEF ObserveSeq
  <2>5. v \in DeliveryWindows /\ v.seen = marks /\ v.tracked = w.tracked /\ v.highest = w.highest
        /\ v.stream = w.stream
    BY <1>0, <1>1, <2>2, <2>3 DEF DeliveryWindows
  <2>6. g \in Flows /\ g.window = v /\ g.confirmed = f.confirmed /\ g.first = f.first
        /\ g.fresh = f.fresh \cup {q}
    <3>1. g = [f EXCEPT !.window = v, !.fresh = f.fresh \cup {q}]
      BY <1>1, <2>2, <2>3, <2>4 DEF Flows, DeliveryWindows
    <3>2. f.fresh \cup {q} \in SUBSET Nat
      BY <1>0
    <3> QED BY <2>5, <3>1, <3>2 DEF Flows
  <2>7. q \notin f.fresh
    BY <1>0, <1>1, <1>2, <1>4 DEF Marked
  <2>8. Marked(g)
    <3>1. marks \subseteq 0 .. Width - 1
      BY <1>0, <1>1, <1>4, <2>2 DEF Marked
    <3>2. g.fresh \subseteq 0 .. w.highest
      BY <1>0, <1>1, <2>6 DEF Marked
    <3>3. \A r \in g.fresh : w.highest - r < Width => w.highest - r \in marks
      BY <1>1, <1>2, <2>2, <2>6 DEF Marked
    <3> QED BY <1>1, <2>5, <2>6, <3>1, <3>2, <3>3 DEF Marked
  <2>9. InReach(w) \in SUBSET (0 .. w.tracked - 1) /\ Came(f) \in SUBSET (0 .. (w.highest + 1) - 1)
    BY <1>0, <1>1 DEF InReach, Came, Marked
  <2>10. /\ IsFiniteSet(InReach(w)) /\ Cardinality(InReach(w)) \in Nat
         /\ IsFiniteSet(Came(f)) /\ Cardinality(Came(f)) \in Nat
    BY <1>0, <1>1, <2>9, Below
  <2>11. q >= f.first <=> age < w.tracked
    BY <1>0, <1>1, <1>2, <1>4 DEF Marked
  <2>12. Cardinality(InReach(v)) - Cardinality(InReach(w)) = Cardinality(Came(g)) - Cardinality(Came(f))
         /\ Cardinality(InReach(v)) \in Nat /\ Cardinality(Came(g)) \in Nat
    <3>1. CASE q >= f.first
      <4>1. InReach(v) = InReach(w) \cup {age} /\ Came(g) = Came(f) \cup {q}
        BY <2>2, <2>5, <2>6, <2>11, <3>1 DEF InReach, Came
      <4>2. age \notin InReach(w) /\ q \notin Came(f)
        BY <1>4, <2>7 DEF InReach, Came
      <4>3. /\ Cardinality(InReach(v)) = Cardinality(InReach(w)) + 1
            /\ Cardinality(Came(g)) = Cardinality(Came(f)) + 1
        BY <2>10, <4>1, <4>2, FS_AddElement
      <4> QED BY <2>10, <4>3
    <3>2. CASE ~(q >= f.first)
      <4>1. InReach(v) = InReach(w) /\ Came(g) = Came(f)
        BY <2>2, <2>5, <2>6, <2>11, <3>2 DEF InReach, Came
      <4> QED BY <2>10, <4>1
    <3> QED BY <3>1, <3>2
  <2>13. Balanced(g)
    <3>1. open_gaps(w) = w.tracked - Cardinality(InReach(w)) /\ open_gaps(v) = w.tracked - Cardinality(InReach(v))
      BY <2>5 DEF open_gaps, InReach
    <3>2. f.confirmed + open_gaps(w) + Cardinality(Came(f)) = w.highest - f.first + 1
      BY <1>1 DEF Balanced
    <3>3. f.confirmed + open_gaps(v) + Cardinality(Came(g)) = w.highest - f.first + 1
      <4>1. PICK u, n, k, l, m, o : /\ u = f.confirmed /\ n = w.tracked
                                    /\ k = Cardinality(InReach(w)) /\ l = Cardinality(InReach(v))
                                    /\ m = Cardinality(Came(f)) /\ o = Cardinality(Came(g))
        OBVIOUS
      <4>2. /\ u \in Nat /\ n \in Nat /\ k \in Nat /\ l \in Nat /\ m \in Nat /\ o \in Nat
            /\ l - k = o - m
        BY <1>0, <1>1, <2>10, <2>12, <4>1
      <4>3. u + (n - k) + m = u + (n - l) + o
        BY ONLY <4>2
      <4> QED BY <3>1, <3>2, <4>1, <4>3
    <3> QED BY <2>5, <2>6, <3>3 DEF Balanced
  <2> QED BY <1>1, <2>1, <2>5, <2>6, <2>8, <2>13
<1> QED BY <1>0, <1>2, <1>3, <1>4

(* A packet of the stream at hand, of a new one, or of one that was         *)
(* replaced.                                                                *)
LEMMA ReceiveKeeps ==
    ASSUME NEW f, SoundFlow(f), NEW p \in Packets
    PROVE  SoundFlow(Receive(f, p))
<1> USE HealthAssumption
<1>0. PICK g : g = Receive(f, p)
  OBVIOUS
<1> DEFINE old == {f.retired[i] : i \in DOMAIN f.retired}
           r == Append(f.retired, f.window.stream)
<1>1. p.seq \in Nat /\ p.stream \in Nat /\ NewDelivery(p) \in DeliveryWindows /\ f \in Flows
  BY DEF Packets, NewDelivery, DeliveryWindows, SoundFlow
<1>2. CASE f.window.stream = 0
  <2>1. g = [f EXCEPT !.window = NewDelivery(p), !.first = p.seq, !.fresh = {p.seq}]
    BY <1>0, <1>2 DEF Receive
  <2>2. g \in Flows /\ g.window = NewDelivery(p) /\ g.first = p.seq /\ g.fresh = {p.seq}
        /\ g.confirmed = f.confirmed
    BY <1>1, <2>1 DEF Flows
  <2>3. f.confirmed = 0
    BY <1>2 DEF SoundFlow
  <2> QED BY <1>0, <2>2, <2>3, Starts DEF SoundFlow
<1>3. CASE f.window.stream # 0 /\ f.window.stream # p.stream /\ p.stream \in old
  <2>1. g = f
    BY <1>0, <1>3 DEF Receive
  <2> QED BY <1>0, <2>1
<1>4. CASE f.window.stream # 0 /\ f.window.stream # p.stream /\ p.stream \notin old
  <2>1. PICK rs : rs = IF Len(r) > Retired THEN Tail(r) ELSE r
    OBVIOUS
  <2>2. g = [f EXCEPT !.window = NewDelivery(p), !.first = p.seq, !.fresh = {p.seq}, !.confirmed = 0,
                      !.retired = rs]
    BY <1>0, <1>4, <2>1 DEF Receive
  <2>3. rs \in Seq(Nat)
    <3>1. f.retired \in Seq(Nat) /\ f.window.stream \in Nat
      BY <1>1 DEF Flows, DeliveryWindows
    <3>2. r \in Seq(Nat) /\ r # <<>>
      BY <3>1, SMTT(30)
    <3> HIDE DEF r
    <3> QED BY <2>1, <3>2
  <2>4. g \in Flows /\ g.window = NewDelivery(p) /\ g.first = p.seq /\ g.fresh = {p.seq} /\ g.confirmed = 0
    BY <1>1, <2>2, <2>3 DEF Flows
  <2> QED BY <1>0, <2>4, Starts DEF SoundFlow
<1>5. CASE f.window.stream # 0 /\ f.window.stream = p.stream
  <2>1. g = ObserveSeq(f, p.seq)
    BY <1>0, <1>5 DEF Receive
  <2>2. f.window.highest \in Nat
    BY <1>1 DEF Flows, DeliveryWindows
  <2>3. p.seq > f.window.highest \/ p.seq <= f.window.highest
    BY <1>1, <2>2
  <2>4. Marked(f) /\ Balanced(f)
    BY <1>5 DEF SoundFlow
  <2>5. g \in Flows /\ Marked(g) /\ Balanced(g) /\ g.window.stream = f.window.stream
    BY <1>1, <2>1, <2>3, <2>4, Ahead, Behind
  <2> QED BY <1>0, <1>5, <2>5 DEF SoundFlow
<1> QED BY <1>2, <1>3, <1>4, <1>5

(* Sending, losing and restarting leave what the receiver counts alone.     *)
LEMMA SenderKeeps ==
    ASSUME NEW f, SoundFlow(f), NEW g \in Flows, g.window = f.window, g.confirmed = f.confirmed,
           g.first = f.first, g.fresh = f.fresh
    PROVE  SoundFlow(g)
  BY DEF SoundFlow, Marked, Balanced, Came

LEMMA FlowStepInv == SoundFlow(flow) /\ [FlowNext]_healthVars => SoundFlow(flow)'
<1> SUFFICES ASSUME SoundFlow(flow), [FlowNext]_healthVars PROVE SoundFlow(flow')
  OBVIOUS
<1> USE HealthAssumption
<1>0. flow \in Flows /\ flow.air \in SUBSET Packets
  BY DEF SoundFlow, Flows
<1>1. CASE UNCHANGED healthVars
  BY <1>1 DEF healthVars
<1>2. CASE SendPacket
  <2>1. PICK end : end = (flow.next = LastSeq)
    OBVIOUS
  <2>2. PICK s, n : s = (IF end THEN flow.stream + 1 ELSE flow.stream) /\ n = IF end THEN 1 ELSE flow.next
    OBVIOUS
  <2>3. PICK air : air = flow.air \cup {[stream |-> s, seq |-> n]}
    OBVIOUS
  <2>4. flow' = [flow EXCEPT !.stream = s, !.next = n + 1, !.air = air]
    BY <1>2, <2>1, <2>2, <2>3 DEF SendPacket
  <2>5. s \in Nat /\ n \in Nat /\ n + 1 \in Nat
    BY <1>0, <2>2, SMTT(30) DEF Flows
  <2>6. air \in SUBSET Packets
    BY <1>0, <2>3, <2>5 DEF Packets
  <2>7. /\ flow' \in Flows /\ flow'.window = flow.window /\ flow'.confirmed = flow.confirmed
        /\ flow'.first = flow.first /\ flow'.fresh = flow.fresh
    BY <1>0, <2>4, <2>5, <2>6 DEF Flows
  <2> QED BY <2>7, SenderKeeps
<1>3. CASE SenderRestarts
  <2>1. /\ flow' \in Flows /\ flow'.window = flow.window /\ flow'.confirmed = flow.confirmed
        /\ flow'.first = flow.first /\ flow'.fresh = flow.fresh
    <3>1. flow.stream + 1 \in Nat /\ flow' = [flow EXCEPT !.stream = flow.stream + 1, !.next = 1]
      BY <1>0, <1>3 DEF SenderRestarts, Flows
    <3> QED BY <1>0, <3>1 DEF Flows
  <2> QED BY <2>1, SenderKeeps
<1>4. ASSUME NEW p \in flow.air, Vanishes(p)
      PROVE  SoundFlow(flow')
  <2>1. /\ flow' \in Flows /\ flow'.window = flow.window /\ flow'.confirmed = flow.confirmed
        /\ flow'.first = flow.first /\ flow'.fresh = flow.fresh
    BY <1>0, <1>4 DEF Vanishes, Flows
  <2> QED BY <2>1, SenderKeeps
<1>5. ASSUME NEW p \in flow.air, NEW again \in BOOLEAN, Arrives(p, again)
      PROVE  SoundFlow(flow')
  <2>1. PICK g : g = Receive(flow, p)
    OBVIOUS
  <2>2. SoundFlow(g)
    BY <1>0, <2>1, ReceiveKeeps
  <2>3. PICK air : air = IF again THEN g.air ELSE g.air \ {p}
    OBVIOUS
  <2>4. flow' = [g EXCEPT !.air = air]
    BY <1>5, <2>1, <2>3 DEF Arrives
  <2>5. g \in Flows /\ air \in SUBSET Packets
    BY <2>2, <2>3 DEF SoundFlow, Flows
  <2>6. /\ flow' \in Flows /\ flow'.window = g.window /\ flow'.confirmed = g.confirmed
        /\ flow'.first = g.first /\ flow'.fresh = g.fresh
    BY <2>4, <2>5 DEF Flows
  <2> QED BY <2>2, <2>6, SenderKeeps
<1> QED BY <1>1, <1>2, <1>3, <1>4, <1>5 DEF FlowNext

(* Every sequence number since the first of the stream is counted exactly   *)
(* once, as come, as an open gap or as lost, whatever is lost, repeated or  *)
(* reordered and however often the sender starts again (packet_flow.rs,     *)
(* stats.rs).                                                               *)
THEOREM EveryGapCounts == FlowSpec => []GapsAddUp
<1>1. FlowInit => SoundFlow(flow)
  <2> SUFFICES ASSUME FlowInit PROVE SoundFlow(flow)
    OBVIOUS
  <2>1. PICK w, e : w = [stream |-> 0, highest |-> 0, seen |-> {}, tracked |-> 0] /\ e = <<>>
    OBVIOUS
  <2>2. w \in DeliveryWindows /\ w.stream = 0 /\ e \in Seq(Nat)
    BY <2>1 DEF DeliveryWindows
  <2>3. flow = [stream |-> 1, next |-> 1, air |-> {}, window |-> w, retired |-> e,
                confirmed |-> 0, first |-> 0, fresh |-> {}]
    BY <2>1 DEF FlowInit
  <2> QED BY <2>2, <2>3 DEF SoundFlow, Flows
<1>2. SoundFlow(flow) => GapsAddUp
  BY DEF SoundFlow, Balanced, Came, GapsAddUp
<1> QED BY <1>1, <1>2, FlowStepInv, PTL DEF FlowSpec

-----------------------------------------------------------------------------
(* The window of the application (Presentation), for any number of moves,   *)
(* sessions and timeouts.  ViewAgrees speaks of moments when nothing is     *)
(* under way; the invariant says of every moment how far the transition is  *)
(* (Shape), which profile the bridge was asked for and the snapshot shows   *)
(* (Asked, Told), and that the end of a session is never forgotten: the     *)
(* window comes back at once, after the transition (pending), or because    *)
(* the transition itself looks once more (Alive).                           *)

Modes == {"full", "visible", "hidden", "restoring", "entering", "exiting", "none"}
Kinds == {"none", "full", "enter", "light", "hide"}
Stages == {"none", "begin", "ask", "wait", "show"}
Transitions == [kind : Kinds, at : Stages,
                prev : Modes, got : BOOLEAN, ran : BOOLEAN]
Screens == [mode : Modes, before : Modes, pending : BOOLEAN, tr : Transitions,
            win : {"shown", "hidden"}, was : BOOLEAN, mis : BOOLEAN, handled : 0 .. 2,
            tray : BOOLEAN, lived : BOOLEAN]
Cores == [session : {"off", "ready", "running", "mismatch"}, gen : {0, 1},
          profile : {"full", "lightweight", "background"}, down : {"no", "asked", "done"}]

ModeProfile(m) == CASE m = "visible" -> "lightweight"
                    [] m = "hidden" -> "background"
                    [] OTHER -> "full"

(* Which mode a transition is in, from its start to its end.                *)
Shape(v) ==
    /\ v.tr.at = "none" => /\ v.tr = Resting /\ ~v.pending /\ v.mode \in {"full", "visible", "hidden"}
                           /\ v.win = IF v.mode = "hidden" THEN "hidden" ELSE "shown"
    /\ v.tr.at # "none" => v.tr.kind # "none"
    /\ v.tr.at = "begin" => v.tr.kind = "full" /\ v.mode = "visible"
    /\ v.tr.at \in {"ask", "wait"} =>
         CASE v.tr.kind = "enter" -> v.mode = IF v.tr.at = "ask" THEN "full" ELSE "entering"
           [] v.tr.kind = "hide" -> v.mode \in {"full", "visible", "hidden"}
           [] v.tr.kind = "light" -> v.mode \in {"visible", "hidden"}
           [] OTHER -> v.mode = "restoring"
    /\ v.tr.at = "show" =>
         v.mode = CASE v.tr.kind = "hide" -> "hidden" [] v.tr.kind = "full" -> "full" [] OTHER -> "visible"
    /\ v.tr.kind \in {"enter", "light"} => v.tr.ran

(* The profile the bridge k was asked for.                                  *)
Asked(v, k) ==
    /\ v.tr.at = "none" => k.profile = ModeProfile(v.mode)
    /\ v.tr.at \in {"wait", "show"} => k.profile = Profile(v.tr.kind)

(* The snapshot s has it, but for the wait, which knows when it does.       *)
Told(v, s, k) ==
    /\ v.tr.at # "wait" => s.profile = k.profile
    /\ v.tr.at = "wait" => (v.tr.got <=> s.profile = Profile(v.tr.kind))

Alive(v, s) ==
    /\ v.tr.at = "none" /\ v.mode = "visible" => Running(s)
    /\ v.mode = "hidden" /\ v.lived /\ ~Running(s) => v.pending \/ (v.tr.kind = "hide" /\ v.tr.ran)
    /\ v.mode # "hidden" /\ v.tr.kind = "hide" /\ v.lived => v.tr.ran

SoundScreen(v, s, k) == v \in Screens /\ Shape(v) /\ Asked(v, k) /\ Alive(v, s)

(* What the invariant is about: the application is not leaving, and no      *)
(* profile wait has timed out.                                              *)
InUse == exit \in {"open", "closing"} /\ used.late = 0

PresInv ==
    /\ ui \in Screens /\ snap \in Cores /\ core \in Cores
    /\ used \in [moves : Nat, late : Nat]
    /\ ui.was = Running(snap)
    /\ InUse => SoundScreen(ui, snap, core) /\ Told(ui, snap, core)

(* What Begin makes of a screen.                                            *)
LEMMA Begun ==
    ASSUME NEW v \in Screens, NEW kind \in Kinds, NEW at \in Stages, NEW ran \in BOOLEAN
    PROVE  /\ Begin(v, kind, at, ran) \in Screens /\ Begin(v, kind, at, ran).was = v.was
           /\ Begin(v, kind, at, ran).tr.kind = kind /\ Begin(v, kind, at, ran).tr.at = at
           /\ Begin(v, kind, at, ran).tr.ran = ran /\ Begin(v, kind, at, ran).mode = v.mode
           /\ Begin(v, kind, at, ran).lived = v.lived /\ Begin(v, kind, at, ran).pending = v.pending
<1>1. PICK no \in BOOLEAN : no = FALSE
  OBVIOUS
<1>2. PICK t : t = [kind |-> kind, at |-> at, prev |-> v.mode, got |-> no, ran |-> ran]
  OBVIOUS
<1>3. t \in Transitions /\ t.kind = kind /\ t.at = at /\ t.ran = ran
  <2>1. v.mode \in Modes
    BY DEF Screens
  <2> QED BY <1>2, <2>1 DEF Transitions
<1>4. Begin(v, kind, at, ran) = [v EXCEPT !.tr = t]
  BY <1>1, <1>2 DEF Begin
<1> QED BY <1>3, <1>4 DEF Screens

LEMMA Words ==
    /\ \A x \in {"full", "enter", "light", "hide"} : x \in Kinds
    /\ \A x \in {"begin", "ask", "wait", "show"} : x \in Stages
    /\ \E yes, no \in BOOLEAN : yes = TRUE /\ no = FALSE
  BY DEF Kinds, Stages

(* The async functions leave a screen, and never touch what it knows of the *)
(* session (was).                                                           *)
LEMMA ScreenTypes ==
    ASSUME NEW v \in Screens, NEW s \in Cores
    PROVE  /\ ShowFull(v) \in Screens /\ ShowFull(v).was = v.was
           /\ Enter(v, s) \in Screens /\ Enter(v, s).was = v.was
           /\ ShowLight(v, s) \in Screens /\ ShowLight(v, s).was = v.was
           /\ Hide(v, s) \in Screens /\ Hide(v, s).was = v.was
<1>0. v.mode \in Modes /\ v.tr \in Transitions
  BY DEF Screens
<1>1. PICK yes \in BOOLEAN, no \in BOOLEAN : yes = TRUE /\ no = FALSE
  OBVIOUS
<1>2. /\ "full" \in Kinds /\ "enter" \in Kinds /\ "light" \in Kinds /\ "hide" \in Kinds
      /\ "begin" \in Stages /\ "ask" \in Stages
  BY Words
<1>9. yes \in BOOLEAN /\ no \in BOOLEAN
  BY <1>1
<1>3. ShowFull(v) \in Screens /\ ShowFull(v).was = v.was
  <2>1. CASE v.mode = "full"
    <3>1. ShowFull(v) = [v EXCEPT !.win = "shown"]
      BY <2>1 DEF ShowFull
    <3> QED BY <3>1 DEF Screens
  <2>2. CASE v.mode # "full" /\ v.tr # Resting
    <3>1. ShowFull(v) = [v EXCEPT !.pending = yes]
      BY <1>1, <2>2 DEF ShowFull
    <3> QED BY <3>1 DEF Screens
  <2>3. CASE v.tr = Resting /\ v.mode = "visible"
    <3>1. ShowFull(v) = Begin(v, "full", "begin", no)
      BY <1>1, <2>3 DEF ShowFull
    <3> QED BY <1>1, <1>2, <3>1, Begun
  <2>4. CASE v.mode # "full" /\ v.tr = Resting /\ v.mode # "visible"
    <3>1. PICK b0 : b0 = Begin(v, "full", "ask", no)
      OBVIOUS
    <3>2. ShowFull(v) = [b0 EXCEPT !.mode = "restoring"]
      BY <1>1, <2>4, <3>1 DEF ShowFull
    <3>3. b0 \in Screens /\ b0.was = v.was
      BY <1>1, <1>2, <3>1, Begun
    <3> QED BY <3>2, <3>3 DEF Screens, Modes
  <2> QED BY <2>1, <2>2, <2>3, <2>4
<1>4. Enter(v, s) \in Screens /\ Enter(v, s).was = v.was
  <2>1. Enter(v, s) = v \/ Enter(v, s) = Begin(v, "enter", "ask", yes)
    BY <1>1 DEF Enter
  <2>2. Begin(v, "enter", "ask", yes) \in Screens /\ Begin(v, "enter", "ask", yes).was = v.was
    BY <1>2, <1>9, Begun
  <2> QED BY <2>1, <2>2
<1>5. ShowLight(v, s) \in Screens /\ ShowLight(v, s).was = v.was
  <2>1. \/ ShowLight(v, s) = v \/ ShowLight(v, s) = Enter(v, s) \/ ShowLight(v, s) = ShowFull(v)
        \/ ShowLight(v, s) = Begin(v, "light", "ask", yes)
    BY <1>1 DEF ShowLight
  <2>2. Begin(v, "light", "ask", yes) \in Screens /\ Begin(v, "light", "ask", yes).was = v.was
    BY <1>2, <1>9, Begun
  <2> QED BY <1>3, <1>4, <2>1, <2>2
<1>6. Hide(v, s) \in Screens /\ Hide(v, s).was = v.was
  <2>1. CASE v.tr # Resting \/ ~v.tray
    BY <2>1 DEF Hide
  <2>2. CASE ~(v.tr # Resting \/ ~v.tray)
    <3>1. PICK ran \in BOOLEAN : ran = Running(s)
      BY DEF Running
    <3>2. PICK u : u = [v EXCEPT !.before = v.mode, !.lived = ran]
      OBVIOUS
    <3>3. u \in Screens /\ u.was = v.was
      BY <1>0, <3>1, <3>2 DEF Screens
    <3>4. Hide(v, s) = Begin(u, "hide", "ask", ran)
      BY <2>2, <3>1, <3>2 DEF Hide
    <3>5. Begin(u, "hide", "ask", ran) \in Screens /\ Begin(u, "hide", "ask", ran).was = u.was
      <4>1. ran \in BOOLEAN
        BY <3>1
      <4> QED BY <1>2, <3>3, <4>1, Begun
    <3> QED BY <3>3, <3>4, <3>5
  <2> QED BY <2>1, <2>2
<1> QED BY <1>3, <1>4, <1>5, <1>6

(* A transition begins only when none is under way.                         *)
Starts1(v, w) == w.tr = v.tr \/ (v.tr.at = "none" /\ w.tr.at \in {"begin", "ask"})

LEMMA AtRest ==
    ASSUME NEW v \in Screens, Shape(v)
    PROVE  v.tr = Resting <=> v.tr.at = "none"
  BY DEF Shape, Resting

(* The full interface comes at once, begins to come, or waits; either way   *)
(* no end of a session is forgotten.                                        *)
LEMMA FullComes ==
    ASSUME NEW v \in Screens, Shape(v), NEW k, Asked(v, k), NEW w, w = ShowFull(v)
    PROVE  /\ Shape(w) /\ Asked(w, k) /\ Starts1(v, w)
           /\ w.mode = "hidden" => w.pending
           /\ w.tr.kind = "hide" => w.tr = v.tr /\ w.mode = v.mode
           /\ w.lived = v.lived
           /\ ~(w.tr.at = "none" /\ w.mode = "visible")
<1>00. PICK yes \in BOOLEAN, no \in BOOLEAN : yes = TRUE /\ no = FALSE
  BY Words
<1>01. /\ "full" \in Kinds /\ "enter" \in Kinds /\ "light" \in Kinds /\ "hide" \in Kinds
       /\ "begin" \in Stages /\ "ask" \in Stages /\ yes \in BOOLEAN /\ no \in BOOLEAN
  BY <1>00, Words
<1>1. CASE v.mode = "full"
  <2>1. w = [v EXCEPT !.win = "shown"]
    BY <1>00, <1>1 DEF ShowFull
  <2>2. w.tr = v.tr /\ w.mode = v.mode /\ w.pending = v.pending /\ w.win = "shown" /\ w.lived = v.lived
    BY <2>1 DEF Screens
  <2> QED BY <1>1, <2>2 DEF Shape, Asked, Starts1
<1>2. CASE v.mode # "full" /\ v.tr # Resting
  <2>1. w = [v EXCEPT !.pending = TRUE]
    BY <1>00, <1>2 DEF ShowFull
  <2>2. /\ w.tr = v.tr /\ w.mode = v.mode /\ w.pending /\ w.win = v.win
        /\ w.lived = v.lived /\ v.tr.at # "none"
    BY <1>2, <2>1, AtRest DEF Screens
  <2> QED BY <2>2 DEF Shape, Asked, Starts1
<1>3. CASE v.mode # "full" /\ v.tr = Resting /\ v.mode = "visible"
  <2>1. w = Begin(v, "full", "begin", no)
    BY <1>00, <1>3 DEF ShowFull
  <2>2. /\ w.tr.kind = "full" /\ w.tr.at = "begin" /\ w.mode = "visible" /\ v.tr.at = "none"
        /\ w.lived = v.lived
    BY <1>3, <2>1, <1>01, Begun, AtRest
  <2> QED BY <2>2 DEF Shape, Asked, Starts1
<1>4. CASE v.mode # "full" /\ v.tr = Resting /\ v.mode # "visible"
  <2>1. PICK u : u = Begin(v, "full", "ask", no)
    OBVIOUS
  <2>2. u \in Screens /\ u.lived = v.lived
    <3>1. "full" \in Kinds /\ "ask" \in Stages /\ no \in BOOLEAN
      BY <1>01
    <3>2. /\ Begin(v, "full", "ask", no) \in Screens
          /\ Begin(v, "full", "ask", no).lived = v.lived
      BY <3>1, Begun
    <3> QED BY <2>1, <3>2
  <2>3. w = [u EXCEPT !.mode = "restoring"]
    BY <1>00, <1>4, <2>1 DEF ShowFull
  <2>4. w.tr = u.tr /\ w.mode = "restoring" /\ w.lived = v.lived
    BY <2>2, <2>3 DEF Screens
  <2>5. w.tr.kind = "full" /\ w.tr.at = "ask" /\ v.tr.at = "none"
    <3>a. "full" \in Kinds /\ "ask" \in Stages /\ no \in BOOLEAN /\ v \in Screens
      BY <1>01
    <3>0. /\ Begin(v, "full", "ask", no).tr.kind = "full"
          /\ Begin(v, "full", "ask", no).tr.at = "ask"
      <4>1. \A x \in Kinds : \A y \in Stages : \A r \in BOOLEAN :
              Begin(v, x, y, r).tr.kind = x /\ Begin(v, x, y, r).tr.at = y
        BY Begun
      <4> QED BY <3>a, <4>1
    <3>1. u.tr.kind = "full" /\ u.tr.at = "ask"
      BY <2>1, <3>0
    <3> QED BY <1>4, <2>4, <3>1, AtRest
  <2> QED BY <2>4, <2>5 DEF Shape, Asked, Starts1
<1> QED BY <1>1, <1>2, <1>3, <1>4

(* The same from the end of a transition, before the screen is at rest.     *)
LEMMA FullFollows ==
    ASSUME NEW v \in Screens, v.tr = Resting, ~v.pending, v.mode \in {"full", "visible", "hidden", "entering"},
           NEW k, v.mode = "full" => k.profile = "full", NEW w, w = ShowFull(v)
    PROVE  /\ Shape(w) /\ Asked(w, k) /\ w.tr.at \in {"none", "begin", "ask"}
           /\ w.mode # "hidden" /\ (w.tr.at = "none" => w.mode = "full") /\ w.tr.kind # "hide"
<1>00. PICK yes \in BOOLEAN, no \in BOOLEAN : yes = TRUE /\ no = FALSE
  BY Words
<1>01. /\ "full" \in Kinds /\ "enter" \in Kinds /\ "light" \in Kinds /\ "hide" \in Kinds
       /\ "begin" \in Stages /\ "ask" \in Stages /\ yes \in BOOLEAN /\ no \in BOOLEAN
  BY <1>00, Words
<1>0. v.tr.at = "none" /\ v.tr.kind = "none"
  BY DEF Resting
<1>1. CASE v.mode = "full"
  <2>1. w = [v EXCEPT !.win = "shown"]
    BY <1>00, <1>1 DEF ShowFull
  <2>2. w.tr = v.tr /\ w.mode = v.mode /\ w.pending = v.pending /\ w.win = "shown"
    BY <2>1 DEF Screens
  <2> QED BY <1>0, <1>1, <2>2 DEF Shape, Asked, ModeProfile
<1>2. CASE v.mode = "visible"
  <2>1. w = Begin(v, "full", "begin", no)
    BY <1>00, <1>2 DEF ShowFull
  <2>2. w.tr.kind = "full" /\ w.tr.at = "begin" /\ w.mode = "visible"
    BY <1>2, <2>1, <1>01, Begun, SMTT(30)
  <2> QED BY <2>2 DEF Shape, Asked
<1>3. CASE v.mode \in {"hidden", "entering"}
  <2>1. PICK u : u = Begin(v, "full", "ask", no)
    OBVIOUS
  <2>2. u \in Screens
    BY <2>1, <1>01, Begun
  <2>3. w = [u EXCEPT !.mode = "restoring"]
    BY <1>00, <1>3, <2>1 DEF ShowFull
  <2>4. w.tr = u.tr /\ w.mode = "restoring"
    BY <2>2, <2>3 DEF Screens
  <2>5. w.tr.kind = "full" /\ w.tr.at = "ask"
    <3>a. "full" \in Kinds /\ "ask" \in Stages /\ no \in BOOLEAN /\ v \in Screens
      BY <1>01
    <3>0. /\ Begin(v, "full", "ask", no).tr.kind = "full"
          /\ Begin(v, "full", "ask", no).tr.at = "ask"
      <4>1. \A x \in Kinds : \A y \in Stages : \A r \in BOOLEAN :
              Begin(v, x, y, r).tr.kind = x /\ Begin(v, x, y, r).tr.at = y
        BY Begun
      <4> QED BY <3>a, <4>1
    <3>1. u.tr.kind = "full" /\ u.tr.at = "ask"
      BY <2>1, <3>0
    <3> QED BY <2>4, <3>1
  <2> QED BY <2>4, <2>5 DEF Shape, Asked
<1> QED BY <1>1, <1>2, <1>3

(* Entering the monitor from the full interface, showing it, hiding.        *)
LEMMA Enters ==
    ASSUME NEW v \in Screens, Shape(v), NEW s, NEW k, Asked(v, k), v.mode = "full", NEW w, w = Enter(v, s)
    PROVE  /\ Shape(w) /\ Asked(w, k) /\ Starts1(v, w) /\ w.mode = "full"
           /\ ~Running(s) => w = v
           /\ w.lived = v.lived /\ (w.tr.kind = "hide" => w = v)
<1>00. PICK yes \in BOOLEAN, no \in BOOLEAN : yes = TRUE /\ no = FALSE
  BY Words
<1>01. /\ "full" \in Kinds /\ "enter" \in Kinds /\ "light" \in Kinds /\ "hide" \in Kinds
       /\ "begin" \in Stages /\ "ask" \in Stages /\ yes \in BOOLEAN /\ no \in BOOLEAN
  BY <1>00, Words
<1>1. CASE v.tr # Resting \/ ~Running(s) \/ ~Ready(s)
  BY <1>1 DEF Enter, Starts1
<1>2. CASE ~(v.tr # Resting \/ ~Running(s) \/ ~Ready(s))
  <2>1. w = Begin(v, "enter", "ask", yes)
    BY <1>00, <1>2 DEF Enter
  <2>2. /\ w.tr.kind = "enter" /\ w.tr.at = "ask" /\ w.tr.ran /\ w.mode = "full" /\ v.tr.at = "none"
        /\ w.lived = v.lived
    <3>1. /\ w.tr.kind = "enter" /\ w.tr.at = "ask" /\ w.tr.ran = yes /\ w.mode = v.mode
          /\ w.lived = v.lived
      BY <2>1, <1>01, Begun, SMTT(30)
    <3> QED BY <1>00, <1>2, <3>1, AtRest
  <2> QED BY <1>2, <2>2 DEF Shape, Asked, Starts1
<1> QED BY <1>1, <1>2

LEMMA Lights ==
    ASSUME NEW v \in Screens, NEW s \in Cores, NEW k, SoundScreen(v, s, k), NEW w, w = ShowLight(v, s)
    PROVE  SoundScreen(w, s, k) /\ Starts1(v, w)
<1>00. PICK yes \in BOOLEAN, no \in BOOLEAN : yes = TRUE /\ no = FALSE
  BY Words
<1>01. /\ "full" \in Kinds /\ "enter" \in Kinds /\ "light" \in Kinds /\ "hide" \in Kinds
       /\ "begin" \in Stages /\ "ask" \in Stages /\ yes \in BOOLEAN /\ no \in BOOLEAN
  BY <1>00, Words
<1>0. w \in Screens /\ Shape(v) /\ Asked(v, k) /\ Alive(v, s)
  BY ScreenTypes DEF SoundScreen
<1>1. CASE v.mode = "full"
  <2>1. w = Enter(v, s)
    BY <1>00, <1>1 DEF ShowLight
  <2> QED BY <1>0, <1>1, <2>1, Enters DEF SoundScreen, Alive
<1>2. CASE v.mode # "full" /\ ~Running(s)
  <2>1. w = ShowFull(v)
    BY <1>00, <1>2 DEF ShowLight
  <2> QED BY <1>0, <2>1, FullComes DEF SoundScreen, Alive
<1>3. CASE v.mode # "full" /\ Running(s)
  <2>1. CASE v.tr # Resting
    <3>1. w = v
      BY <1>00, <1>3, <2>1 DEF ShowLight
    <3> QED BY <3>1 DEF SoundScreen, Starts1
  <2>2. CASE v.tr = Resting
    <3>1. w = Begin(v, "light", "ask", yes)
      BY <1>00, <1>3, <2>2 DEF ShowLight
    <3>2. w.tr.kind = "light" /\ w.tr.at = "ask" /\ w.tr.ran /\ w.mode = v.mode /\ v.tr.at = "none"
      <4>1. w.tr.kind = "light" /\ w.tr.at = "ask" /\ w.tr.ran = yes /\ w.mode = v.mode
        BY <3>1, <1>01, Begun, SMTT(30)
      <4> QED BY <1>0, <1>00, <2>2, <4>1, AtRest
    <3>3. v.mode \in {"visible", "hidden"}
      BY <1>0, <1>3, <3>2 DEF Shape
    <3> QED BY <1>0, <1>3, <3>2, <3>3 DEF SoundScreen, Shape, Asked, Alive, Starts1
  <2> QED BY <2>1, <2>2
<1> QED BY <1>1, <1>2, <1>3

LEMMA Hides ==
    ASSUME NEW v \in Screens, NEW s \in Cores, NEW k, SoundScreen(v, s, k), NEW w, w = Hide(v, s)
    PROVE  SoundScreen(w, s, k) /\ Starts1(v, w)
<1>00. PICK yes \in BOOLEAN, no \in BOOLEAN : yes = TRUE /\ no = FALSE
  BY Words
<1>01. /\ "full" \in Kinds /\ "enter" \in Kinds /\ "light" \in Kinds /\ "hide" \in Kinds
       /\ "begin" \in Stages /\ "ask" \in Stages /\ yes \in BOOLEAN /\ no \in BOOLEAN
  BY <1>00, Words
<1>0. w \in Screens /\ Shape(v) /\ Asked(v, k) /\ Alive(v, s)
  BY ScreenTypes DEF SoundScreen
<1>1. CASE v.tr # Resting \/ ~v.tray
  <2>1. w = v
    BY <1>1 DEF Hide
  <2> QED BY <2>1 DEF SoundScreen, Starts1
<1>2. CASE ~(v.tr # Resting \/ ~v.tray)
  <2>1. PICK ran \in BOOLEAN : ran = Running(s)
    BY DEF Running
  <2>2. PICK u : u = [v EXCEPT !.before = v.mode, !.lived = ran]
    OBVIOUS
  <2>3. u \in Screens /\ u.mode = v.mode /\ u.lived = ran
    BY <2>1, <2>2 DEF Screens
  <2>4. w = Begin(u, "hide", "ask", ran)
    BY <1>2, <2>1, <2>2 DEF Hide
  <2>5. /\ w.tr.kind = "hide" /\ w.tr.at = "ask" /\ w.tr.ran = ran /\ w.mode = v.mode /\ w.lived = ran
        /\ v.tr.at = "none"
    <3>1. w.tr.kind = "hide" /\ w.tr.at = "ask" /\ w.tr.ran = ran /\ w.mode = u.mode /\ w.lived = u.lived
      <4>1. ran \in BOOLEAN
        BY <2>1
      <4>2. u \in Screens
        BY <2>3
      <4>3. /\ Begin(u, "hide", "ask", ran).tr.kind = "hide" /\ Begin(u, "hide", "ask", ran).tr.at = "ask"
            /\ Begin(u, "hide", "ask", ran).tr.ran = ran
            /\ Begin(u, "hide", "ask", ran).mode = u.mode /\ Begin(u, "hide", "ask", ran).lived = u.lived
        BY <4>1, <4>2, <1>01, Begun
      <4> QED BY <2>4, <4>3
    <3> QED BY <1>0, <1>2, <2>3, <3>1, AtRest
  <2>6. v.mode \in {"full", "visible", "hidden"}
    BY <1>0, <2>5 DEF Shape
  <2> QED BY <1>0, <2>1, <2>5, <2>6 DEF SoundScreen, Shape, Asked, Alive, Starts1
<1> QED BY <1>1, <1>2

(* _handleControllerUpdate, in its three parts.                             *)
LEMMA Reacts ==
    ASSUME NEW v \in Screens, NEW s \in Cores, NEW h, h = Handle(v, s)
    PROVE  /\ h \in Screens /\ h.was = Running(s)
           /\ \A s0, k : SoundScreen(v, s0, k) /\ v.was = Running(s0)
                => SoundScreen(h, s, k) /\ Starts1(v, h)
<1>1. PICK mismatch \in BOOLEAN : mismatch = (s.session = "mismatch")
  OBVIOUS
<1>2. PICK v1 : v1 = IF mismatch /\ ~v.mis THEN ShowFull(v) ELSE v
  OBVIOUS
<1>3. PICK fresh \in BOOLEAN :
        fresh = (Ready(s) /\ (s.gen # v.handled \/ (~v.was /\ Running(s) /\ ~mismatch)))
  BY DEF Ready
<1>4. PICK v2 : v2 = IF fresh /\ v1.mode = "full" /\ ~mismatch THEN Enter(v1, s) ELSE v1
  OBVIOUS
<1>5. PICK v3 : v3 = IF v.was /\ ~Running(s) /\ v2.mode \notin {"full", "exiting"} THEN ShowFull(v2) ELSE v2
  OBVIOUS
<1>6. PICK runs \in BOOLEAN, lived \in BOOLEAN, handled \in 0 .. 2 :
        /\ runs = Running(s) /\ lived = (v3.lived \/ (Running(s) /\ v.mode = "hidden"))
        /\ handled = IF fresh THEN s.gen ELSE v3.handled
  <2>1. v1 \in Screens
    BY <1>2, ScreenTypes
  <2>2. v2 \in Screens
    BY <1>4, <2>1, ScreenTypes
  <2>3. v3 \in Screens
    BY <1>5, <2>2, ScreenTypes
  <2>4. s.gen \in 0 .. 2 /\ v3.handled \in 0 .. 2
    BY <2>3 DEF Cores, Screens
  <2>5. (v3.lived \/ (Running(s) /\ v.mode = "hidden")) \in BOOLEAN
    BY <2>3 DEF Screens
  <2>6. Running(s) \in BOOLEAN
    BY DEF Running
  <2> QED BY <2>4, <2>5, <2>6
<1>7. v1 \in Screens /\ v2 \in Screens /\ v3 \in Screens
  <2>1. v1 \in Screens
    BY <1>2, ScreenTypes
  <2>2. v2 \in Screens
    BY <1>4, <2>1, ScreenTypes
  <2> QED BY <1>5, <2>1, <2>2, ScreenTypes
<1>8. h = [v3 EXCEPT !.mis = mismatch, !.was = runs, !.handled = handled, !.lived = lived]
  BY <1>1, <1>2, <1>3, <1>4, <1>5, <1>6, ZenonT(60) DEF Handle
<1>9. /\ h \in Screens /\ h.was = runs /\ h.tr = v3.tr /\ h.mode = v3.mode /\ h.pending = v3.pending
      /\ h.win = v3.win /\ h.lived = lived
  <2>1. lived \in BOOLEAN /\ runs \in BOOLEAN /\ mismatch \in BOOLEAN /\ handled \in 0 .. 2
    BY <1>1, <1>6
  <2> QED BY <1>7, <1>8, <2>1, ZenonT(60) DEF Screens
<1>10. ASSUME NEW s0, NEW k, SoundScreen(v, s0, k), v.was = Running(s0)
       PROVE  SoundScreen(h, s, k) /\ Starts1(v, h)
  <2>0. Shape(v) /\ Asked(v, k) /\ Alive(v, s0)
    BY <1>10 DEF SoundScreen
  <2>1. /\ Shape(v1) /\ Asked(v1, k) /\ Starts1(v, v1) /\ v1.lived = v.lived
        /\ v1 = v \/ (/\ v1.mode = "hidden" => v1.pending
                      /\ v1.tr.kind = "hide" => v1.tr = v.tr /\ v1.mode = v.mode
                      /\ ~(v1.tr.at = "none" /\ v1.mode = "visible"))
    <3>1. CASE v1 = v
      BY <2>0, <3>1 DEF Starts1
    <3>2. CASE v1 = ShowFull(v)
      BY <2>0, <3>2, FullComes
    <3> QED BY <1>2, <3>1, <3>2
  <2>2. /\ Shape(v2) /\ Asked(v2, k) /\ Starts1(v1, v2) /\ v2.lived = v1.lived
        /\ v2 = v1 \/ (v2.mode = "full" /\ v2.tr.kind # "hide")
    <3>1. CASE v2 = v1
      BY <2>1, <3>1 DEF Starts1
    <3>2. CASE v1.mode = "full" /\ v2 = Enter(v1, s)
      BY <1>7, <2>1, <3>2, Enters
    <3> QED BY <1>4, <3>1, <3>2
  <2>3. /\ Shape(v3) /\ Asked(v3, k) /\ Starts1(v2, v3) /\ v3.lived = v2.lived
        /\ \/ v3 = v2 /\ ~(v.was /\ ~Running(s) /\ v2.mode \notin {"full", "exiting"})
           \/ /\ v3.mode = "hidden" => v3.pending
              /\ v3.tr.kind = "hide" => v3.tr = v2.tr /\ v3.mode = v2.mode
              /\ ~(v3.tr.at = "none" /\ v3.mode = "visible") /\ ~Running(s)
    <3>1. CASE v.was /\ ~Running(s) /\ v2.mode \notin {"full", "exiting"}
      <4>1. v3 = ShowFull(v2)
        BY <1>5, <3>1
      <4> QED BY <1>7, <2>2, <3>1, <4>1, FullComes
    <3>2. CASE ~(v.was /\ ~Running(s) /\ v2.mode \notin {"full", "exiting"})
      <4>1. v3 = v2
        BY <1>5, <3>2
      <4> QED BY <2>2, <3>2, <4>1 DEF Starts1
    <3> QED BY <3>1, <3>2
  <2>4. Shape(h) /\ Asked(h, k)
    BY <1>9, <2>3 DEF Shape, Asked
  <2>5. Starts1(v, h)
    BY <1>9, <2>1, <2>2, <2>3 DEF Starts1
  <2>6. lived => v.lived \/ (Running(s) /\ v.mode = "hidden")
    BY <1>6, <2>1, <2>2, <2>3
  <2>7. h.tr.at = "none" /\ h.mode = "visible" => Running(s)
    <3> SUFFICES ASSUME h.tr.at = "none", h.mode = "visible", ~Running(s) PROVE FALSE
      OBVIOUS
    <3>1. v3 = v2 /\ ~v.was
      BY <1>9, <2>3
    <3>2. v2 = v1
      BY <1>9, <2>2, <3>1
    <3>3. v1 = v
      BY <1>9, <2>1, <3>1, <3>2
    <3> QED BY <1>9, <1>10, <2>0, <3>1, <3>2, <3>3 DEF Alive
  <2>8. h.mode = "hidden" /\ h.lived /\ ~Running(s) => h.pending \/ (h.tr.kind = "hide" /\ h.tr.ran)
    <3> SUFFICES ASSUME h.mode = "hidden", h.lived, ~Running(s), ~h.pending
                 PROVE  h.tr.kind = "hide" /\ h.tr.ran
      OBVIOUS
    <3>1. v3 = v2 /\ ~v.was
      BY <1>9, <2>3
    <3>2. v2 = v1
      BY <1>9, <2>2, <3>1
    <3>3. v1 = v
      BY <1>9, <2>1, <3>1, <3>2
    <3>4. v.lived
      BY <1>9, <2>6
    <3> QED BY <1>9, <1>10, <2>0, <3>1, <3>2, <3>3, <3>4 DEF Alive
  <2>9. h.mode # "hidden" /\ h.tr.kind = "hide" /\ h.lived => h.tr.ran
    <3> SUFFICES ASSUME h.mode # "hidden", h.tr.kind = "hide", h.lived PROVE h.tr.ran
      OBVIOUS
    <3>1. v3.tr = v2.tr /\ v3.mode = v2.mode
      BY <1>9, <2>3
    <3>2. v2 = v1
      BY <1>9, <2>2, <3>1
    <3>3. v1.tr = v.tr /\ v1.mode = v.mode
      BY <1>9, <2>1, <3>1, <3>2
    <3>4. v.lived
      BY <1>9, <2>6, <3>1, <3>2, <3>3
    <3> QED BY <1>9, <2>0, <3>1, <3>2, <3>3, <3>4 DEF Alive
  <2> QED BY <1>9, <2>4, <2>5, <2>7, <2>8, <2>9 DEF SoundScreen, Alive
<1> QED BY <1>6, <1>9, <1>10

(* The end of a transition.                                                 *)
LEMMA Finished ==
    ASSUME NEW v \in Screens
    PROVE  FinishTransition(v) \in Screens /\ FinishTransition(v).was = v.was
<1>1. Resting \in Transitions
  BY DEF Resting, Transitions, Kinds, Stages, Modes
<1>2. PICK no \in BOOLEAN : no = FALSE
  OBVIOUS
<1>3. PICK f : f = [v EXCEPT !.tr = Resting]
  OBVIOUS
<1>4. f \in Screens /\ f.was = v.was
  BY <1>1, <1>3 DEF Screens
<1>5. PICK g : g = [f EXCEPT !.pending = no]
  OBVIOUS
<1>6. g \in Screens /\ g.was = v.was
  <2>1. no \in BOOLEAN
    BY <1>2
  <2> QED BY <1>4, <1>5, <2>1 DEF Screens
<1>7. FinishTransition(v) = f \/ FinishTransition(v) = ShowFull(g)
  BY <1>2, <1>3, <1>5 DEF FinishTransition
<1>8. ShowFull(g) \in Screens /\ ShowFull(g).was = v.was
  <2>1. \A x \in Screens : ShowFull(x) \in Screens /\ ShowFull(x).was = x.was
    <3>1. PICK s \in Cores : TRUE
      <4>1. [session |-> "off", gen |-> 0, profile |-> "full", down |-> "no"] \in Cores
        BY DEF Cores
      <4> QED BY <4>1
    <3> QED BY <3>1, ScreenTypes
  <2> QED BY <1>6, <2>1
<1> QED BY <1>4, <1>7, <1>8

LEMMA Concluded ==
    ASSUME NEW v \in Screens, NEW s \in Cores, NEW w, w = Conclude(v, s)
    PROVE  /\ w \in Screens /\ w.was = v.was
           /\ \A k : SoundScreen(v, s, k) /\ v.tr.at = "show"
                => SoundScreen(w, s, k) /\ w.tr.at \in {"none", "begin", "ask"}
<1>1. PICK shown : shown = [v EXCEPT !.win = IF v.mode = "hidden" THEN "hidden" ELSE "shown"]
  OBVIOUS
<1>2. /\ shown \in Screens /\ shown.was = v.was /\ shown.mode = v.mode /\ shown.tr = v.tr
      /\ shown.pending = v.pending /\ shown.lived = v.lived
      /\ shown.win = IF v.mode = "hidden" THEN "hidden" ELSE "shown"
  BY <1>1 DEF Screens
<1>3. PICK done : done = FinishTransition(shown)
  OBVIOUS
<1>4. done \in Screens /\ done.was = v.was
  BY <1>2, <1>3, Finished
<1>5. w = IF v.tr.kind # "full" /\ v.tr.ran /\ ~Running(s) THEN ShowFull(done) ELSE done
  BY <1>1, <1>3 DEF Conclude
<1>6. w \in Screens /\ w.was = v.was
  BY <1>4, <1>5, ScreenTypes
<1>7. ASSUME NEW k, SoundScreen(v, s, k), v.tr.at = "show"
      PROVE  SoundScreen(w, s, k) /\ w.tr.at \in {"none", "begin", "ask"}
  <2>1. Shape(v) /\ Asked(v, k) /\ Alive(v, s)
    BY <1>7 DEF SoundScreen
  <2>2. /\ v.mode \in {"full", "visible", "hidden"} /\ k.profile = ModeProfile(v.mode)
        /\ v.mode = "full" => k.profile = "full"
    <3>1. v.tr.kind \in {"full", "enter", "light", "hide"}
      BY <1>7, <2>1 DEF Shape, Screens, Transitions, Kinds
    <3> QED BY <1>7, <2>1, <3>1 DEF Shape, Asked, Profile, ModeProfile
  <2>3. PICK f : f = [shown EXCEPT !.tr = Resting]
    OBVIOUS
  <2>4. /\ f \in Screens /\ f.tr = Resting /\ f.mode = v.mode /\ f.pending = v.pending
        /\ f.lived = v.lived /\ f.win = shown.win
    <3>1. Resting \in Transitions
      BY DEF Resting, Transitions, Kinds, Stages, Modes
    <3> QED BY <1>2, <2>3, <3>1 DEF Screens
  <2>5. CASE v.pending
    <3>1. PICK no \in BOOLEAN : no = FALSE
      OBVIOUS
    <3>2. PICK g : g = [f EXCEPT !.pending = no]
      OBVIOUS
    <3>3. g \in Screens /\ g.tr = Resting /\ g.mode = v.mode /\ g.pending = no
      <4>1. no \in BOOLEAN
        BY <3>1
      <4> QED BY <2>4, <3>2, <4>1 DEF Screens
    <3>4. done = ShowFull(g)
      BY <1>3, <2>3, <2>4, <2>5, <3>1, <3>2 DEF FinishTransition
    <3>5. /\ Shape(done) /\ Asked(done, k) /\ done.tr.at \in {"none", "begin", "ask"}
          /\ done.mode # "hidden" /\ (done.tr.at = "none" => done.mode = "full") /\ done.tr.kind # "hide"
      BY <2>2, <3>1, <3>3, <3>4, FullFollows
    <3>6. CASE w = done
      BY <1>4, <3>5, <3>6 DEF SoundScreen, Alive
    <3>7. CASE w = ShowFull(done)
      <4>1. /\ Shape(w) /\ Asked(w, k) /\ Starts1(done, w)
            /\ w.mode = "hidden" => w.pending
            /\ w.tr.kind = "hide" => w.tr = done.tr
            /\ ~(w.tr.at = "none" /\ w.mode = "visible")
        BY <1>4, <3>5, <3>7, FullComes
      <4> QED BY <1>6, <3>5, <4>1 DEF SoundScreen, Alive, Starts1
    <3> QED BY <1>5, <3>6, <3>7
  <2>6. CASE ~v.pending
    <3>1. done = f
      BY <1>3, <2>3, <2>4, <2>6 DEF FinishTransition
    <3>2. done.tr.at = "none" /\ done.tr.kind = "none"
      BY <2>4, <3>1 DEF Resting
    <3>3. Shape(done) /\ Asked(done, k)
      BY <1>2, <2>2, <2>4, <2>6, <3>1, <3>2 DEF Shape, Asked
    <3>4. CASE v.tr.kind # "full" /\ v.tr.ran /\ ~Running(s)
      <4>1. w = ShowFull(done)
        BY <1>5, <3>4
      <4>2. /\ Shape(w) /\ Asked(w, k) /\ Starts1(done, w)
            /\ w.mode = "hidden" => w.pending
            /\ w.tr.kind = "hide" => w.tr = done.tr
            /\ ~(w.tr.at = "none" /\ w.mode = "visible")
        BY <1>4, <3>3, <4>1, FullComes
      <4> QED BY <1>6, <3>2, <4>2 DEF SoundScreen, Alive, Starts1
    <3>5. CASE ~(v.tr.kind # "full" /\ v.tr.ran /\ ~Running(s))
      <4>1. w = done
        BY <1>5, <3>5
      <4>2. v.mode = "visible" => Running(s)
        <5> SUFFICES ASSUME v.mode = "visible" PROVE Running(s)
          OBVIOUS
        <5>1. v.tr.kind \in {"enter", "light"}
          BY <1>7, <2>1 DEF Shape, Screens, Transitions, Kinds
        <5> QED BY <2>1, <3>5, <5>1 DEF Shape
      <4>3. ~(v.mode = "hidden" /\ v.lived /\ ~Running(s))
        BY <2>1, <2>6, <3>5 DEF Alive
      <4>4. Alive(w, s)
        BY <2>4, <3>1, <3>2, <4>1, <4>2, <4>3 DEF Alive
      <4> QED BY <1>6, <3>2, <3>3, <4>1, <4>4 DEF SoundScreen
    <3> QED BY <3>4, <3>5
  <2> QED BY <2>5, <2>6
<1> QED BY <1>6, <1>7

(* Entering the monitor is called off.                                      *)
LEMMA CalledOff ==
    ASSUME NEW v \in Screens, v.mode = "entering", NEW k, NEW w, w = ShowFull(FinishTransition(v))
    PROVE  /\ Shape(w) /\ Asked(w, k) /\ w.tr.at \in {"none", "begin", "ask"}
           /\ (w.mode = "hidden" => w.pending) /\ w.tr.kind # "hide"
           /\ ~(w.tr.at = "none" /\ w.mode = "visible")
<1>1. PICK f : f = [v EXCEPT !.tr = Resting]
  OBVIOUS
<1>2. f \in Screens /\ f.tr = Resting /\ f.mode = "entering" /\ f.pending = v.pending
  <2>1. Resting \in Transitions
    BY DEF Resting, Transitions, Kinds, Stages, Modes
  <2> QED BY <1>1, <2>1 DEF Screens
<1>3. CASE v.pending
  <2>1. PICK no \in BOOLEAN : no = FALSE
    OBVIOUS
  <2>2. PICK g : g = [f EXCEPT !.pending = no]
    OBVIOUS
  <2>3. g \in Screens /\ g.tr = Resting /\ g.mode = "entering" /\ g.pending = no
    <3>1. no \in BOOLEAN
      BY <2>1
    <3> QED BY <1>2, <2>2, <3>1 DEF Screens
  <2>4. PICK done : done = ShowFull(g)
    OBVIOUS
  <2>5. /\ Shape(done) /\ Asked(done, k) /\ done.tr.at \in {"none", "begin", "ask"}
        /\ done.tr.kind # "hide"
    BY <2>1, <2>3, <2>4, FullFollows
  <2>6. FinishTransition(v) = done
    BY <1>1, <1>2, <1>3, <2>1, <2>2, <2>4 DEF FinishTransition
  <2>7. w = ShowFull(done) /\ done \in Screens
    BY <2>6, Finished
  <2>8. /\ Shape(w) /\ Asked(w, k) /\ Starts1(done, w)
        /\ w.mode = "hidden" => w.pending
        /\ w.tr.kind = "hide" => w.tr = done.tr
        /\ ~(w.tr.at = "none" /\ w.mode = "visible")
    BY <2>5, <2>7, FullComes
  <2> QED BY <2>5, <2>8 DEF Starts1
<1>4. CASE ~v.pending
  <2>1. w = ShowFull(f)
    BY <1>1, <1>2, <1>4 DEF FinishTransition
  <2> QED BY <1>2, <1>4, <2>1, FullFollows
<1> QED BY <1>3, <1>4

(* The wait for the profile is over.                                        *)
LEMMA AnswerTypes ==
    ASSUME ui \in Screens, NEW ok \in BOOLEAN
    PROVE  Answered(ok) \in Screens /\ Answered(ok).was = ui.was
<1>1. ui.mode \in Modes /\ ui.tr \in Transitions /\ ui.tr.prev \in Modes
  BY DEF Screens, Transitions
<1>2. \A a \in {"show"} : [ui.tr EXCEPT !.at = a] \in Transitions
  BY <1>1 DEF Transitions, Stages
<1>3. PICK t \in Transitions : t = [ui.tr EXCEPT !.at = "show"]
  BY <1>2
<1>4. \A m \in Modes : /\ [ui EXCEPT !.mode = m, !.tr = t] \in Screens
                       /\ [ui EXCEPT !.mode = m, !.tr = t].was = ui.was
                       /\ [ui EXCEPT !.mode = m, !.win = "hidden", !.tr = t] \in Screens
                       /\ [ui EXCEPT !.mode = m, !.win = "hidden", !.tr = t].was = ui.was
  BY DEF Screens
<1>l. PICK lived \in BOOLEAN : lived = (ui.lived \/ Running(snap))
  <2>1. (ui.lived \/ Running(snap)) \in BOOLEAN
    OBVIOUS
  <2> QED BY <2>1
<1>h. /\ [ui EXCEPT !.mode = "hidden", !.tr = t, !.lived = lived] \in Screens
      /\ [ui EXCEPT !.mode = "hidden", !.tr = t, !.lived = lived].was = ui.was
  BY <1>l DEF Screens, Modes
<1>5. FinishTransition(ui) \in Screens /\ FinishTransition(ui).was = ui.was
  BY Finished
<1>6. ShowFull(FinishTransition(ui)) \in Screens /\ ShowFull(FinishTransition(ui)).was = ui.was
  <2>1. PICK s \in Cores : TRUE
    <3>1. [session |-> "off", gen |-> 0, profile |-> "full", down |-> "no"] \in Cores
      BY DEF Cores
    <3> QED BY <3>1
  <2> QED BY <1>5, <2>1, ScreenTypes
<1>7. \A m : [ui EXCEPT !.mode = m, !.tr.at = "show"] = [ui EXCEPT !.mode = m, !.tr = t]
  BY <1>3 DEF Screens
<1>8. \A m : [ui EXCEPT !.mode = m, !.win = "hidden", !.tr.at = "show"]
               = [ui EXCEPT !.mode = m, !.win = "hidden", !.tr = t]
  BY <1>3 DEF Screens
<1>i. [ui EXCEPT !.mode = "hidden", !.tr.at = "show", !.lived = @ \/ Running(snap)]
        = [ui EXCEPT !.mode = "hidden", !.tr = t, !.lived = lived]
  BY <1>3, <1>l DEF Screens
<1>9. PICK m \in Modes : m = IF ok THEN "full" ELSE ui.tr.prev
  BY <1>1 DEF Modes
<1>10. \/ Answered(ok) = ShowFull(FinishTransition(ui))
       \/ Answered(ok) = [ui EXCEPT !.mode = "visible", !.win = "hidden", !.tr = t]
       \/ Answered(ok) = [ui EXCEPT !.mode = "hidden", !.tr = t, !.lived = lived]
       \/ Answered(ok) = [ui EXCEPT !.mode = "visible", !.tr = t]
       \/ Answered(ok) = [ui EXCEPT !.mode = m, !.tr = t]
  BY <1>7, <1>8, <1>9, <1>i, ZenonT(60) DEF Answered
<1>11. "visible" \in Modes /\ "hidden" \in Modes
  BY DEF Modes
<1> QED BY <1>4, <1>6, <1>10, <1>11, <1>h

LEMMA Answers ==
    ASSUME SoundScreen(ui, snap, core), Told(ui, snap, core), ui.tr.at = "wait", ui.tr.got,
           NEW w, w = Answered(TRUE)
    PROVE  SoundScreen(w, snap, core) /\ Told(w, snap, core)
<1>1. ui \in Screens /\ Shape(ui) /\ Asked(ui, core) /\ Alive(ui, snap) /\ ui.tr \in Transitions
  BY DEF SoundScreen, Screens
<1>2. snap.profile = core.profile /\ core.profile = Profile(ui.tr.kind)
  BY <1>1 DEF Asked, Told
<1>3. w \in Screens
  BY <1>1, AnswerTypes
<1>a. PICK t : t = [ui.tr EXCEPT !.at = "show"]
  OBVIOUS
<1>b. t.at = "show" /\ t.kind = ui.tr.kind /\ t.ran = ui.tr.ran
  BY <1>1, <1>a DEF Transitions
<1>4. CASE ui.tr.kind = "enter" /\ ~Running(snap)
  <2>1. w = ShowFull(FinishTransition(ui))
    BY <1>4 DEF Answered
  <2>2. ui.mode = "entering"
    BY <1>1, <1>4 DEF Shape
  <2>3. /\ Shape(w) /\ Asked(w, core) /\ w.tr.at \in {"none", "begin", "ask"}
        /\ (w.mode = "hidden" => w.pending) /\ w.tr.kind # "hide"
        /\ ~(w.tr.at = "none" /\ w.mode = "visible")
    BY <1>1, <2>1, <2>2, CalledOff
  <2> QED BY <1>2, <1>3, <2>3 DEF SoundScreen, Alive, Told
<1>5. CASE ui.tr.kind = "enter" /\ Running(snap)
  <2>1. w = [ui EXCEPT !.mode = "visible", !.win = "hidden", !.tr.at = "show"]
    BY <1>5 DEF Answered
  <2>2. /\ w.mode = "visible" /\ w.tr.at = "show" /\ w.tr.kind = "enter" /\ w.tr.ran = ui.tr.ran
    <3>1. w.mode = "visible" /\ w.tr = t
      BY <1>1, <1>a, <2>1 DEF Screens
    <3> QED BY <1>5, <1>b, <3>1
  <2> QED BY <1>1, <1>2, <1>3, <1>5, <2>2 DEF SoundScreen, Shape, Asked, Alive, Told, Profile
<1>6. CASE ui.tr.kind = "hide"
  <2>1. PICK lived : lived = (ui.lived \/ Running(snap))
    OBVIOUS
  <2>2. w = [ui EXCEPT !.mode = "hidden", !.tr.at = "show", !.lived = lived]
    BY <1>6, <2>1 DEF Answered
  <2>3. /\ w.mode = "hidden" /\ w.tr.at = "show" /\ w.tr.kind = "hide" /\ w.tr.ran = ui.tr.ran
        /\ w.lived = lived /\ w.pending = ui.pending
    <3>1. w.mode = "hidden" /\ w.tr = t /\ w.lived = lived /\ w.pending = ui.pending
      BY <1>1, <1>a, <2>2 DEF Screens
    <3> QED BY <1>6, <1>b, <3>1
  <2>4. w.lived /\ ~Running(snap) => ui.lived
    BY <2>1, <2>3
  <2>5. Alive(w, snap)
    <3>1. ui.lived /\ ~Running(snap) => w.pending \/ w.tr.ran
      BY <1>1, <1>6, <2>3 DEF Alive
    <3> QED BY <2>3, <2>4, <3>1 DEF Alive
  <2> QED BY <1>1, <1>2, <1>3, <1>6, <2>3, <2>5 DEF SoundScreen, Shape, Asked, Told, Profile
<1>7. CASE ui.tr.kind = "light"
  <2>1. w = [ui EXCEPT !.mode = "visible", !.tr.at = "show"]
    BY <1>7 DEF Answered
  <2>2. /\ w.mode = "visible" /\ w.tr.at = "show" /\ w.tr.kind = "light" /\ w.tr.ran = ui.tr.ran
    <3>1. w.mode = "visible" /\ w.tr = t
      BY <1>1, <1>a, <2>1 DEF Screens
    <3> QED BY <1>7, <1>b, <3>1
  <2> QED BY <1>1, <1>2, <1>3, <1>7, <2>2 DEF SoundScreen, Shape, Asked, Alive, Told, Profile
<1>8. CASE ui.tr.kind \notin {"enter", "hide", "light"}
  <2>1. w = [ui EXCEPT !.mode = "full", !.tr.at = "show"]
    BY <1>8 DEF Answered
  <2>2. w.mode = "full" /\ w.tr.at = "show" /\ w.tr.kind = ui.tr.kind
    <3>1. w.mode = "full" /\ w.tr = t
      BY <1>1, <1>a, <2>1 DEF Screens
    <3> QED BY <1>b, <3>1
  <2>3. ui.tr.kind = "full"
    BY <1>1, <1>8 DEF Shape, Transitions, Kinds
  <2> QED BY <1>1, <1>2, <1>3, <2>2, <2>3 DEF SoundScreen, Shape, Asked, Alive, Told, Profile
<1> QED BY <1>4, <1>5, <1>6, <1>7, <1>8

LEMMA Fulls ==
    ASSUME NEW v \in Screens, NEW s \in Cores, NEW k, SoundScreen(v, s, k), NEW w, w = ShowFull(v)
    PROVE  SoundScreen(w, s, k) /\ Starts1(v, w)
<1>1. w \in Screens
  BY ScreenTypes
<1>2. Shape(v) /\ Asked(v, k) /\ Alive(v, s)
  BY DEF SoundScreen
<1>3. /\ Shape(w) /\ Asked(w, k) /\ Starts1(v, w)
      /\ w.mode = "hidden" => w.pending
      /\ w.tr.kind = "hide" => w.tr = v.tr /\ w.mode = v.mode
      /\ w.lived = v.lived
      /\ ~(w.tr.at = "none" /\ w.mode = "visible")
  BY <1>2, FullComes
<1> QED BY <1>1, <1>2, <1>3 DEF SoundScreen, Alive

LEMMA ToldStays ==
    ASSUME NEW v, NEW w, NEW s, NEW k, Told(v, s, k), Starts1(v, w)
    PROVE  Told(w, s, k)
  BY DEF Told, Starts1

(* What a click makes of the screen.                                        *)
LEMMA Clicks ==
    ASSUME PresInv,
           \/ ui' = ShowFull(ui) \/ ui' = ShowLight(ui, snap) \/ ui' = Hide(ui, snap) \/ ui' = ui,
           snap' = snap, core' = core, InUse' => InUse, used' \in [moves : Nat, late : Nat]
    PROVE  PresInv'
<1>1. ui \in Screens /\ snap \in Cores /\ core \in Cores /\ ui.was = Running(snap)
  BY DEF PresInv
<1>2. ui' \in Screens /\ ui'.was = ui.was
  BY <1>1, ScreenTypes
<1>3. ASSUME InUse' PROVE SoundScreen(ui', snap, core) /\ Told(ui', snap, core)
  <2>1. SoundScreen(ui, snap, core) /\ Told(ui, snap, core)
    BY <1>3 DEF PresInv
  <2>2. SoundScreen(ui', snap, core) /\ (Starts1(ui, ui') \/ ui' = ui)
    <3>1. CASE ui' = ShowFull(ui)
      BY <1>1, <2>1, <3>1, Fulls
    <3>2. CASE ui' = ShowLight(ui, snap)
      BY <1>1, <2>1, <3>2, Lights
    <3>3. CASE ui' = Hide(ui, snap)
      BY <1>1, <2>1, <3>3, Hides
    <3>4. CASE ui' = ui
      BY <2>1, <3>4
    <3> QED BY <3>1, <3>2, <3>3, <3>4
  <2> QED BY <2>1, <2>2, ToldStays
<1>4. ui'.was = Running(snap')
  BY <1>1, <1>2
<1>5. (InUse => SoundScreen(ui, snap, core) /\ Told(ui, snap, core))'
  BY <1>3
<1> QED BY <1>1, <1>2, <1>4, <1>5 DEF PresInv

LEMMA ScreenMoves ==
    ASSUME PresInv, WindowFocus \/ TrayClick \/ Choose \/ CloseWindow
    PROVE  PresInv'
<1>1. used' \in [moves : Nat, late : Nat] /\ used'.late = used.late
  BY DEF PresInv, Move, WindowFocus, TrayClick, Choose, CloseWindow
<1>2. InUse' => InUse
  BY <1>1 DEF InUse, WindowFocus, TrayClick, Choose, CloseWindow
<1>3. snap' = snap /\ core' = core
  BY DEF WindowFocus, TrayClick, Choose, CloseWindow
<1>4. \/ ui' = ShowFull(ui) \/ ui' = ShowLight(ui, snap) \/ ui' = Hide(ui, snap) \/ ui' = ui
  BY DEF WindowFocus, TrayClick, Choose, CloseWindow
<1> QED BY <1>1, <1>2, <1>3, <1>4, Clicks

LEMMA UpdateStep ==
    ASSUME PresInv, Update
    PROVE  PresInv'
<1>1. ui \in Screens /\ snap \in Cores /\ core \in Cores /\ ui.was = Running(snap)
  BY DEF PresInv
<1>2. PICK h : h = Handle(ui, core)
  OBVIOUS
<1>3. h \in Screens /\ h.was = Running(core) /\ h.tr \in Transitions
  BY <1>1, <1>2, Reacts DEF Screens
<1>4. PICK got \in BOOLEAN : got = (h.tr.got \/ (h.tr.at = "wait" /\ Profile(h.tr.kind) = core.profile))
  BY <1>3 DEF Transitions
<1>5. PICK t : t = [h.tr EXCEPT !.got = got]
  OBVIOUS
<1>6. /\ t \in Transitions /\ t.got = got /\ t.at = h.tr.at /\ t.kind = h.tr.kind /\ t.ran = h.tr.ran
      /\ h.tr.at # "wait" => t = h.tr
  <2>1. got \in BOOLEAN
    BY <1>4
  <2>2. t \in Transitions /\ t.got = got /\ t.at = h.tr.at /\ t.kind = h.tr.kind /\ t.ran = h.tr.ran
    BY <1>3, <1>5, <2>1 DEF Transitions
  <2>3. h.tr.at # "wait" => t = h.tr
    <3>1. h.tr.at # "wait" => got = h.tr.got
      BY <1>3, <1>4 DEF Transitions
    <3> QED BY <1>3, <1>5, <3>1 DEF Transitions
  <2> QED BY <2>2, <2>3
<1>7. ui' = [h EXCEPT !.tr = t]
  <2>1. ui' = [h EXCEPT !.tr.got = @ \/ (h.tr.at = "wait" /\ Profile(h.tr.kind) = core.profile)]
    BY <1>2 DEF Update
  <2> QED BY <1>3, <1>4, <1>5, <2>1 DEF Screens
<1>8. /\ ui' \in Screens /\ ui'.was = h.was /\ ui'.tr = t /\ ui'.mode = h.mode /\ ui'.pending = h.pending
      /\ ui'.win = h.win /\ ui'.lived = h.lived
  BY <1>3, <1>6, <1>7 DEF Screens
<1>9. snap' = core /\ core' = core /\ exit' = exit /\ used' = used
  BY DEF Update
<1>10. ASSUME InUse PROVE SoundScreen(ui', core, core) /\ Told(ui', core, core)
  <2>1. SoundScreen(ui, snap, core) /\ Told(ui, snap, core)
    BY <1>10 DEF PresInv
  <2>2. SoundScreen(h, core, core) /\ Starts1(ui, h)
    BY <1>1, <1>2, <2>1, Reacts
  <2>3. Shape(h) /\ Asked(h, core) /\ Alive(h, core)
    BY <2>2 DEF SoundScreen
  <2>4. Shape(ui')
    <3>1. CASE h.tr.at # "wait"
      BY <1>6, <1>8, <2>3, <3>1 DEF Shape
    <3>2. CASE h.tr.at = "wait"
      BY <1>6, <1>8, <2>3, <3>2 DEF Shape
    <3> QED BY <3>1, <3>2
  <2>5. Asked(ui', core) /\ Alive(ui', core)
    BY <1>6, <1>8, <2>3 DEF Asked, Alive
  <2>6. t.at = "wait" => (got <=> core.profile = Profile(t.kind))
    <3> SUFFICES ASSUME t.at = "wait" PROVE got /\ core.profile = Profile(t.kind)
      OBVIOUS
    <3>1. core.profile = Profile(t.kind)
      BY <1>6, <2>3 DEF Asked
    <3> QED BY <1>4, <1>6, <3>1
  <2>7. Told(ui', core, core)
    BY <1>6, <1>8, <2>6 DEF Told
  <2> QED BY <1>8, <2>4, <2>5, <2>7 DEF SoundScreen
<1>11. InUse' <=> InUse
  BY <1>9 DEF InUse
<1>12. (InUse => SoundScreen(ui, snap, core) /\ Told(ui, snap, core))'
  BY <1>9, <1>10, <1>11
<1> QED BY <1>1, <1>3, <1>8, <1>9, <1>12 DEF PresInv

LEMMA RestoreStep ==
    ASSUME PresInv, BeginRestore
    PROVE  PresInv'
<1>1. ui \in Screens /\ snap \in Cores /\ core \in Cores /\ ui.was = Running(snap) /\ ui.tr.at = "begin"
  BY DEF PresInv, BeginRestore
<1>2. PICK t : t = [ui.tr EXCEPT !.at = "ask"]
  OBVIOUS
<1>3. t \in Transitions /\ t.at = "ask" /\ t.kind = ui.tr.kind /\ t.ran = ui.tr.ran
  <2>1. ui.tr \in Transitions /\ "ask" \in Stages
    BY <1>1 DEF Screens, Stages
  <2> QED BY <1>2, <2>1 DEF Transitions
<1>4. ui' = [ui EXCEPT !.mode = "restoring", !.tr = t]
  BY <1>1, <1>2 DEF BeginRestore, Screens
<1>5. ui' \in Screens /\ ui'.was = ui.was /\ ui'.mode = "restoring" /\ ui'.tr = t /\ ui'.lived = ui.lived
  <2>1. "restoring" \in Modes
    BY DEF Modes
  <2> QED BY <1>1, <1>3, <1>4, <2>1 DEF Screens
<1>6. snap' = snap /\ core' = core /\ exit' = exit /\ used' = used
  BY DEF BeginRestore
<1>7. ASSUME InUse PROVE SoundScreen(ui', snap, core) /\ Told(ui', snap, core)
  <2>1. Shape(ui) /\ Told(ui, snap, core)
    BY <1>7 DEF PresInv, SoundScreen
  <2>2. ui.tr.kind = "full" /\ snap.profile = core.profile
    BY <1>1, <2>1 DEF Shape, Told
  <2> QED BY <1>3, <1>5, <2>2 DEF SoundScreen, Shape, Asked, Alive, Told
<1>8. (InUse => SoundScreen(ui, snap, core) /\ Told(ui, snap, core))'
  BY <1>6, <1>7 DEF InUse
<1>9. used' \in [moves : Nat, late : Nat]
  BY <1>6 DEF PresInv
<1> QED BY <1>1, <1>5, <1>6, <1>8, <1>9 DEF PresInv

LEMMA AskStep ==
    ASSUME PresInv, AskProfile
    PROVE  PresInv'
<1>1. ui \in Screens /\ snap \in Cores /\ core \in Cores /\ ui.was = Running(snap) /\ ui.tr.at = "ask"
  BY DEF PresInv, AskProfile
<1>2. PICK p : p = Profile(ui.tr.kind)
  OBVIOUS
<1>3. p \in {"full", "lightweight", "background"}
  BY <1>2 DEF Profile
<1>4. PICK got \in BOOLEAN : got = (snap.profile = p)
  OBVIOUS
<1>5. PICK t : t = [ui.tr EXCEPT !.at = "wait", !.got = got]
  OBVIOUS
<1>6. t \in Transitions /\ t.at = "wait" /\ t.got = got /\ t.kind = ui.tr.kind /\ t.ran = ui.tr.ran
  <2>1. ui.tr \in Transitions /\ "wait" \in Stages /\ got \in BOOLEAN
    BY <1>1, <1>4 DEF Screens, Stages
  <2> QED BY <1>5, <2>1 DEF Transitions
<1>7. PICK m : m = IF ui.tr.kind = "enter" THEN "entering" ELSE ui.mode
  OBVIOUS
<1>8. ui' = [ui EXCEPT !.mode = m, !.tr = t]
  BY <1>1, <1>2, <1>4, <1>5, <1>7 DEF AskProfile, Screens
<1>9. /\ ui' \in Screens /\ ui'.was = ui.was /\ ui'.mode = m /\ ui'.tr = t /\ ui'.lived = ui.lived
      /\ ui'.pending = ui.pending
  <2>1. m \in Modes
    BY <1>1, <1>7 DEF Screens, Modes
  <2> QED BY <1>1, <1>6, <1>8, <2>1 DEF Screens
<1>10. core' \in Cores /\ (snap.profile = core.profile => core'.profile = p)
  <2>1. core' = IF snap.profile = p THEN core ELSE [core EXCEPT !.profile = p]
    BY <1>2 DEF AskProfile
  <2>2. CASE snap.profile # p
    BY <1>1, <1>3, <2>1, <2>2 DEF Cores
  <2>3. CASE snap.profile = p
    BY <1>1, <2>1, <2>3
  <2> QED BY <2>2, <2>3
<1>11. snap' = snap /\ exit' = exit /\ used' = used
  BY DEF AskProfile
<1>12. ASSUME InUse PROVE SoundScreen(ui', snap, core') /\ Told(ui', snap, core')
  <2>1. Shape(ui) /\ Alive(ui, snap)
    BY <1>12 DEF PresInv, SoundScreen
  <2>2. Shape(ui')
    BY <1>1, <1>6, <1>7, <1>9, <2>1 DEF Shape
  <2>3. Asked(ui', core') /\ Told(ui', snap, core')
    <3>1. snap.profile = core.profile
      BY <1>1, <1>12 DEF PresInv, Told
    <3> QED BY <1>2, <1>4, <1>6, <1>9, <1>10, <3>1 DEF Asked, Told
  <2>4. Alive(ui', snap)
    BY <1>1, <1>6, <1>7, <1>9, <2>1 DEF Alive, Shape
  <2> QED BY <1>9, <2>2, <2>3, <2>4 DEF SoundScreen
<1>13. (InUse => SoundScreen(ui, snap, core) /\ Told(ui, snap, core))'
  BY <1>11, <1>12 DEF InUse
<1>14. used' \in [moves : Nat, late : Nat]
  BY <1>11 DEF PresInv
<1> QED BY <1>1, <1>9, <1>10, <1>11, <1>13, <1>14 DEF PresInv

LEMMA ProfileStep ==
    ASSUME PresInv, ProfileComes \/ ProfileTimesOut
    PROVE  PresInv'
<1>1. ui \in Screens /\ snap \in Cores /\ core \in Cores /\ ui.was = Running(snap) /\ ui.tr.at = "wait"
  BY DEF PresInv, ProfileComes, ProfileTimesOut
<1>2. PICK yes \in BOOLEAN, no \in BOOLEAN : yes = TRUE /\ no = FALSE
  BY Words
<1>3. ui' = Answered(yes) \/ ui' = Answered(no)
  BY <1>2 DEF ProfileComes, ProfileTimesOut
<1>4. ui' \in Screens /\ ui'.was = ui.was
  <2>1. yes \in BOOLEAN /\ no \in BOOLEAN
    BY <1>2
  <2> QED BY <1>1, <1>3, <2>1, AnswerTypes
<1>5. snap' = snap /\ core' = core /\ exit' = exit
  BY DEF ProfileComes, ProfileTimesOut
<1>6. used' \in [moves : Nat, late : Nat] /\ (ProfileTimesOut => used'.late # 0)
  <2>1. used \in [moves : Nat, late : Nat]
    BY DEF PresInv
  <2>2. CASE ProfileComes
    <3>1. used' = used /\ ~ProfileTimesOut
      BY <2>2 DEF ProfileComes, ProfileTimesOut
    <3> QED BY <2>1, <3>1
  <2>3. CASE ProfileTimesOut
    <3>1. used' = [used EXCEPT !.late = @ + 1]
      BY <2>3 DEF ProfileTimesOut
    <3> QED BY <2>1, <3>1
  <2> QED BY <2>2, <2>3
<1>7. ASSUME InUse' PROVE SoundScreen(ui', snap, core) /\ Told(ui', snap, core)
  <2>1. ProfileComes
    BY <1>6, <1>7 DEF InUse
  <2>2. ui.tr.got /\ ui' = Answered(TRUE) /\ used' = used
    BY <2>1 DEF ProfileComes
  <2>3. SoundScreen(ui, snap, core) /\ Told(ui, snap, core)
    BY <1>5, <1>7, <2>2 DEF PresInv, InUse
  <2> QED BY <1>1, <2>2, <2>3, Answers
<1>8. (InUse => SoundScreen(ui, snap, core) /\ Told(ui, snap, core))'
  BY <1>5, <1>7
<1> QED BY <1>1, <1>4, <1>5, <1>6, <1>8 DEF PresInv

LEMMA ConcludeStep ==
    ASSUME PresInv, EndTransition
    PROVE  PresInv'
<1>1. ui \in Screens /\ snap \in Cores /\ core \in Cores /\ ui.was = Running(snap) /\ ui.tr.at = "show"
  BY DEF PresInv, EndTransition
<1>2. ui' = Conclude(ui, snap) /\ snap' = snap /\ core' = core /\ exit' = exit /\ used' = used
  BY DEF EndTransition
<1>3. ui' \in Screens /\ ui'.was = ui.was
  BY <1>1, <1>2, Concluded
<1>4. ASSUME InUse PROVE SoundScreen(ui', snap, core) /\ Told(ui', snap, core)
  <2>1. SoundScreen(ui, snap, core) /\ Told(ui, snap, core)
    BY <1>4 DEF PresInv
  <2>2. SoundScreen(ui', snap, core) /\ ui'.tr.at \in {"none", "begin", "ask"}
    BY <1>1, <1>2, <2>1, Concluded
  <2> QED BY <1>1, <2>1, <2>2 DEF Told
<1>5. (InUse => SoundScreen(ui, snap, core) /\ Told(ui, snap, core))'
  BY <1>2, <1>4 DEF InUse
<1>6. used' \in [moves : Nat, late : Nat]
  BY <1>2 DEF PresInv
<1> QED BY <1>1, <1>2, <1>3, <1>5, <1>6 DEF PresInv

(* The bridge itself: its session and its end do not change the profile.    *)
LEMMA BridgeStep ==
    ASSUME PresInv, SessionChanges \/ ExitStep \/ BridgeDown
    PROVE  PresInv'
<1>1. ui \in Screens /\ snap \in Cores /\ core \in Cores /\ ui.was = Running(snap)
  BY DEF PresInv
<1>2. core' \in Cores /\ core'.profile = core.profile
  <2>1. CASE SessionChanges
    <3>1. PICK x \in {"off", "ready", "running", "mismatch"} :
             core' = [core EXCEPT !.session = x, !.gen = IF core.session = "off" THEN 1 - core.gen ELSE @]
      BY <2>1 DEF SessionChanges
    <3>2. PICK g \in {0, 1} : g = IF core.session = "off" THEN 1 - core.gen ELSE core.gen
      BY <1>1 DEF Cores
    <3>3. core' = [core EXCEPT !.session = x, !.gen = g]
      BY <1>1, <3>1, <3>2 DEF Cores
    <3> QED BY <1>1, <3>3 DEF Cores
  <2>2. CASE BridgeDown
    <3>1. core' = [core EXCEPT !.down = "done"]
      BY <2>2 DEF BridgeDown
    <3> QED BY <1>1, <3>1 DEF Cores
  <2>3. CASE ExitStep
    <3>1. core' = core \/ core' = [core EXCEPT !.down = "asked"]
      BY <2>3 DEF ExitStep
    <3> QED BY <1>1, <3>1 DEF Cores
  <2> QED BY <2>1, <2>2, <2>3
<1>3. snap' = snap /\ used' \in [moves : Nat, late : Nat] /\ used'.late = used.late
  <2>1. used \in [moves : Nat, late : Nat]
    BY DEF PresInv
  <2>2. snap' = snap /\ (used' = used \/ used' = [used EXCEPT !.moves = @ + 1])
    BY DEF SessionChanges, ExitStep, BridgeDown, Move
  <2> QED BY <2>1, <2>2
<1>4. ui' \in Screens /\ ui'.was = ui.was /\ (InUse' => InUse /\ ui' = ui)
  <2>1. CASE ui' = ui /\ exit' = exit
    BY <1>1, <1>3, <2>1 DEF InUse
  <2>2. CASE ExitStep
    <3>1. exit' \notin {"open", "closing"}
      BY <2>2 DEF ExitStep
    <3>2. CASE ui' = ui
      BY <1>1, <3>1, <3>2 DEF InUse
    <3>3. CASE ui' = [ui EXCEPT !.mode = "exiting", !.tray = FALSE]
      <4>1. PICK no \in BOOLEAN : no = FALSE
        OBVIOUS
      <4>2. ui' = [ui EXCEPT !.mode = "exiting", !.tray = no]
        BY <3>3, <4>1
      <4>3. no \in BOOLEAN /\ "exiting" \in Modes
        BY <4>1 DEF Modes
      <4>4. ui' \in Screens /\ ui'.was = ui.was
        BY <1>1, <4>2, <4>3 DEF Screens
      <4> QED BY <3>1, <4>4 DEF InUse
    <3> QED BY <2>2, <3>2, <3>3 DEF ExitStep
  <2> QED BY <2>1, <2>2 DEF SessionChanges, BridgeDown
<1>5. (InUse => SoundScreen(ui, snap, core) /\ Told(ui, snap, core))'
  <2> SUFFICES ASSUME InUse' PROVE SoundScreen(ui, snap, core') /\ Told(ui, snap, core')
    BY <1>3, <1>4
  <2>1. SoundScreen(ui, snap, core) /\ Told(ui, snap, core)
    BY <1>4 DEF PresInv
  <2> QED BY <1>2, <2>1 DEF SoundScreen, Asked, Told
<1> QED BY <1>1, <1>2, <1>3, <1>4, <1>5 DEF PresInv

LEMMA ScreenStarts ==
    ASSUME PresInit
    PROVE  PresInv
<1>1. PICK tray \in BOOLEAN, s \in {"off", "ready", "running"} :
         /\ core = [session |-> s, gen |-> 0, profile |-> "full", down |-> "no"]
         /\ ui = [mode |-> "full", before |-> "full", pending |-> FALSE, tr |-> Resting,
                  win |-> "shown", was |-> s = "running", mis |-> FALSE,
                  handled |-> IF s = "off" THEN 2 ELSE 0, tray |-> tray, lived |-> FALSE]
  BY DEF PresInit
<1>2. PICK no \in BOOLEAN, was \in BOOLEAN, handled \in 0 .. 2 :
        no = FALSE /\ was = (s = "running") /\ handled = IF s = "off" THEN 2 ELSE 0
  <2>1. (s = "running") \in BOOLEAN
    OBVIOUS
  <2>2. (IF s = "off" THEN 2 ELSE 0) \in 0 .. 2
    OBVIOUS
  <2> QED BY <2>1, <2>2
<1>3. ui = [mode |-> "full", before |-> "full", pending |-> no, tr |-> Resting,
            win |-> "shown", was |-> was, mis |-> no, handled |-> handled, tray |-> tray, lived |-> no]
  BY <1>1, <1>2
<1>4. core \in Cores /\ snap = core /\ exit = "open" /\ used \in [moves : Nat, late : Nat]
  BY <1>1 DEF PresInit, Cores
<1>5. Resting \in Transitions /\ "full" \in Modes
  BY DEF Resting, Transitions, Kinds, Stages, Modes
<1>6. ui \in Screens
  <2>1. no \in BOOLEAN /\ was \in BOOLEAN /\ tray \in BOOLEAN /\ handled \in 0 .. 2
    BY <1>2
  <2> QED BY <1>3, <1>5, <2>1 DEF Screens
<1>7. ui.was = Running(snap)
  BY <1>1, <1>2, <1>3, <1>4 DEF Running
<1>8. ui.tr = Resting /\ ui.mode = "full" /\ ui.win = "shown" /\ ~ui.pending /\ core.profile = "full"
  BY <1>1
<1>9. SoundScreen(ui, snap, core) /\ Told(ui, snap, core)
  BY <1>4, <1>6, <1>8 DEF SoundScreen, Shape, Asked, Alive, Told, Resting, ModeProfile
<1> QED BY <1>4, <1>6, <1>7, <1>9 DEF PresInv

(* Whatever updates, clicks and transitions came between: once all is still *)
(* and no profile wait has timed out, the window is one of the three views, *)
(* the bridge sends what that view shows, the monitor is there only while a *)
(* session runs, and the end of a session that ran when hiding began, when  *)
(* the window became the tray view, or since, has brought the window back   *)
(* from the tray.  A session that starts and ends inside the awaits of      *)
(* _hideToTray is not looked for by the code, and is left out (main.dart).  *)
THEOREM ViewsAgree == PresSpec => []ViewAgrees
<1>1. PresInit => PresInv
  BY ScreenStarts
<1>2. PresInv /\ [PresNext]_presVars => PresInv'
  <2> SUFFICES ASSUME PresInv, [PresNext]_presVars PROVE PresInv'
    OBVIOUS
  <2>1. CASE Update
    BY <2>1, UpdateStep
  <2>2. CASE Transition
    BY <2>2, RestoreStep, AskStep, ProfileStep, ConcludeStep DEF Transition
  <2>3. CASE WindowFocus \/ TrayClick \/ Choose \/ CloseWindow
    BY <2>3, ScreenMoves
  <2>4. CASE SessionChanges \/ ExitStep \/ BridgeDown
    BY <2>4, BridgeStep
  <2>5. CASE UNCHANGED presVars
    BY <2>5 DEF PresInv, InUse, presVars
  <2> QED BY <2>1, <2>2, <2>3, <2>4, <2>5 DEF PresNext
<1>3. PresInv => ViewAgrees
  <2> SUFFICES ASSUME PresInv, Settled, used.late = 0
               PROVE  /\ ~ui.pending
                      /\ \/ ui.mode = "full" /\ ui.win = "shown" /\ snap.profile = "full"
                         \/ ui.mode = "visible" /\ ui.win = "shown" /\ snap.profile = "lightweight" /\ Running(snap)
                         \/ /\ ui.mode = "hidden" /\ ui.win = "hidden" /\ snap.profile = "background"
                            /\ Running(snap) \/ ~ui.lived
    BY DEF ViewAgrees
  <2>1. ui.tr.at = "none" /\ ui.tr.kind = "none" /\ core = snap /\ InUse
    BY DEF Settled, Resting, InUse
  <2>2. Shape(ui) /\ Asked(ui, core) /\ Alive(ui, snap)
    BY <2>1 DEF PresInv, SoundScreen
  <2>3. ~ui.pending /\ ui.mode \in {"full", "visible", "hidden"}
        /\ ui.win = (IF ui.mode = "hidden" THEN "hidden" ELSE "shown")
    BY <2>1, <2>2 DEF Shape
  <2>4. snap.profile = ModeProfile(ui.mode)
    BY <2>1, <2>2 DEF Asked
  <2>5. /\ ui.mode = "visible" => Running(snap)
        /\ ui.mode = "hidden" => Running(snap) \/ ~ui.lived
    BY <2>1, <2>2, <2>3 DEF Alive
  <2> QED BY <2>3, <2>4, <2>5 DEF ModeProfile
<1> QED BY <1>1, <1>2, <1>3, PTL DEF PresSpec

-----------------------------------------------------------------------------
(* The wire formats (Wire), for payloads of any size, any alteration of a   *)
(* datagram and any set of builds.  What a datagram is taken for rests on   *)
(* one fact: the three lengths account for every cell of it, so each cell   *)
(* the decoder reads is there, and it is the one the encoder would write.   *)

Protocols == {"relay", "direct"}

(* How many fields the kind with this code has.                           *)
FieldCount(p, code) == Len(Fields(p)[FrameKind(p)[code]])

LEMMA RelayLayout ==
    /\ FrameKind("relay") = <<"client_control", "server_control", "data", "probe">>
    /\ Fields("relay")["client_control"] = <<>> /\ Fields("relay")["server_control"] = <<>>
    /\ Len(Fields("relay")["data"]) = 7 /\ Len(Fields("relay")["probe"]) = 6
  BY DEF FrameKind, Fields, RelayFields

LEMMA DirectLayout ==
    /\ FrameKind("direct") = <<"check", "heartbeat", "data">>
    /\ Len(Fields("direct")["check"]) = 8 /\ Len(Fields("direct")["heartbeat"]) = 8
    /\ Len(Fields("direct")["data"]) = 9
<1>1. Len(PathFields) = 5 /\ PathFields \in Seq({"set", "target"})
  BY DEF PathFields
<1>2. /\ FrameKind("direct") = <<"check", "heartbeat", "data">>
      /\ Fields("direct")["check"] = PathFields \o <<"set", "phase", "zero">>
      /\ Fields("direct")["heartbeat"] = PathFields \o <<"set", "phase", "zero">>
      /\ Fields("direct")["data"] = PathFields \o <<"set", "set", "set", "any">>
  BY DEF FrameKind, Fields, DirectFields
<1>3. PICK D : D = {"set", "target", "phase", "zero", "any"}
  OBVIOUS
<1>4. /\ <<"set", "phase", "zero">> \in Seq(D) /\ <<"set", "set", "set", "any">> \in Seq(D)
      /\ PathFields \in Seq(D)
      /\ Len(<<"set", "phase", "zero">>) = 3 /\ Len(<<"set", "set", "set", "any">>) = 4
  BY <1>3 DEF PathFields
<1>5. /\ Len(PathFields \o <<"set", "phase", "zero">>) = 8
      /\ Len(PathFields \o <<"set", "set", "set", "any">>) = 9
  <2>1. \A t \in Seq(D) : Len(PathFields \o t) = Len(PathFields) + Len(t)
    BY <1>4, ConcatProperties
  <2> QED BY <1>1, <1>4, <2>1
<1> QED BY <1>2, <1>5

(* Codes name kinds, one each, and every kind has a number of fields and a  *)
(* limit.                                                                   *)
LEMMA Layout ==
    ASSUME NEW p \in Protocols, NEW code \in DOMAIN FrameKind(p)
    PROVE  /\ code \in Nat /\ FieldCount(p, code) \in Nat /\ MaxPayload(FrameKind(p)[code]) \in Nat
           /\ FrameKind(p)[code] \in ToSet(FrameKind(p)) /\ FrameKind(p)[code] # "none"
           /\ (CHOOSE x \in DOMAIN FrameKind(p) : FrameKind(p)[x] = FrameKind(p)[code]) = code
<1>1. /\ MaxPayload("data") \in Nat /\ MaxPayload("client_control") \in Nat /\ MaxPayload("server_control") \in Nat
      /\ MaxPayload("probe") \in Nat /\ MaxPayload("check") \in Nat /\ MaxPayload("heartbeat") \in Nat
  BY WireAssumption DEF MaxPayload
<1>2. FrameKind(p)[code] \in ToSet(FrameKind(p))
  BY DEF ToSet
<1>3. CASE p = "relay"
  <2>1. code \in {1, 2, 3, 4}
    BY <1>3, RelayLayout
  <2>2. \A x \in DOMAIN FrameKind(p) : FrameKind(p)[x] = FrameKind(p)[code] => x = code
    BY <1>3, RelayLayout
  <2>3. FieldCount(p, code) \in Nat
    <3>1. Len(Fields("relay")["client_control"]) = 0 /\ Len(Fields("relay")["server_control"]) = 0
      BY RelayLayout
    <3> QED BY <1>3, <2>1, <3>1, RelayLayout DEF FieldCount
  <2>4. MaxPayload(FrameKind(p)[code]) \in Nat /\ FrameKind(p)[code] # "none"
    BY <1>1, <1>3, <2>1, RelayLayout
  <2> QED BY <1>2, <2>1, <2>2, <2>3, <2>4
<1>4. CASE p = "direct"
  <2>1. code \in {1, 2, 3}
    BY <1>4, DirectLayout
  <2>2. \A x \in DOMAIN FrameKind(p) : FrameKind(p)[x] = FrameKind(p)[code] => x = code
    BY <1>4, DirectLayout
  <2>3. FieldCount(p, code) \in Nat
    BY <1>4, <2>1, DirectLayout DEF FieldCount
  <2>4. MaxPayload(FrameKind(p)[code]) \in Nat /\ FrameKind(p)[code] # "none"
    BY <1>1, <1>4, <2>1, DirectLayout
  <2> QED BY <1>2, <2>1, <2>2, <2>3, <2>4
<1> QED BY <1>3, <1>4 DEF Protocols

(* A frame a program can build: a kind of its protocol, as many fields as   *)
(* that has.                                                                *)
WellFormed(f) ==
    \E p \in Protocols : \E code \in DOMAIN FrameKind(p) :
        /\ f = [protocol |-> p, kind |-> FrameKind(p)[code], fields |-> f.fields, payload |-> f.payload]
        /\ f.fields \in Seq(Nat) /\ Len(f.fields) = FieldCount(p, code)
        /\ f.payload \in Seq(Nat)

(* The cells e of an encoded frame.                                         *)
Written(p, code, fields, payload, e) ==
    /\ e \in Seq(Nat) /\ Len(e) = CommonHeaderLen + FieldCount(p, code) + Len(payload)
    /\ e[1] = Magic(p) /\ e[2] = Major(p) /\ e[3] = Minor /\ e[4] = code /\ e[5] = 0
    /\ e[6] = CommonHeaderLen + FieldCount(p, code) /\ e[7] = 0 /\ e[8] = Len(payload)
    /\ \A i \in 1 .. FieldCount(p, code) : e[CommonHeaderLen + i] = fields[i]
    /\ \A i \in 1 .. Len(payload) : e[CommonHeaderLen + FieldCount(p, code) + i] = payload[i]

LEMMA EncodedCells ==
    ASSUME NEW p \in Protocols, NEW code \in DOMAIN FrameKind(p), NEW fields \in Seq(Nat), NEW payload \in Seq(Nat),
           Len(fields) = FieldCount(p, code),
           NEW e, e = put_common_header(p, FrameKind(p)[code], payload) \o fields \o payload
    PROVE  Written(p, code, fields, payload, e)
<1>1. PICK m, j : m = Magic(p) /\ j = Major(p)
  OBVIOUS
<1>2. m \in Nat /\ j \in Nat
  BY <1>1 DEF Magic, Major
<1>3. PICK n : n = FieldCount(p, code)
  OBVIOUS
<1>4. n \in Nat /\ code \in Nat
  BY <1>3, Layout
<1>5. PICK h : h = put_common_header(p, FrameKind(p)[code], payload)
  OBVIOUS
<1>6. h = <<m, j, 0, code, 0, 8 + n, 0, Len(payload)>>
  <2>1. (CHOOSE x \in DOMAIN FrameKind(p) : FrameKind(p)[x] = FrameKind(p)[code]) = code
    BY Layout
  <2> QED BY <1>1, <1>3, <1>5, <2>1
       DEF put_common_header, HeaderLen, CommonHeaderLen, FieldCount, Minor
<1>7. h \in Seq(Nat) /\ Len(h) = 8
  BY <1>2, <1>4, <1>6
<1>8. e = (h \o fields) \o payload
  BY <1>5
<1>9. PICK g : g = h \o fields
  OBVIOUS
<1>10. /\ g \in Seq(Nat) /\ Len(g) = 8 + n
       /\ \A i \in 1 .. 8 + n : g[i] = IF i <= 8 THEN h[i] ELSE fields[i - 8]
  <2>1. Len(fields) = n /\ fields \in Seq(Nat)
    BY <1>3
  <2>2. /\ g \in Seq(Nat) /\ Len(g) = Len(h) + Len(fields)
        /\ \A i \in 1 .. Len(h) + Len(fields) : g[i] = IF i <= Len(h) THEN h[i] ELSE fields[i - Len(h)]
    BY <1>7, <1>9, <2>1, ConcatProperties
  <2> QED BY <1>7, <2>1, <2>2
<1>11. /\ e \in Seq(Nat) /\ Len(e) = 8 + n + Len(payload)
       /\ \A i \in 1 .. 8 + n + Len(payload) : e[i] = IF i <= 8 + n THEN g[i] ELSE payload[i - (8 + n)]
  <2>1. e = g \o payload
    BY <1>8, <1>9
  <2>2. /\ e \in Seq(Nat) /\ Len(e) = Len(g) + Len(payload)
        /\ \A i \in 1 .. Len(g) + Len(payload) : e[i] = IF i <= Len(g) THEN g[i] ELSE payload[i - Len(g)]
    BY <1>10, <2>1, ConcatProperties
  <2> QED BY <1>10, <2>2
<1>12. PICK q \in Nat : q = Len(payload)
  OBVIOUS
<1>12a. \A i \in 1 .. 8 : e[i] = h[i]
  <2> SUFFICES ASSUME NEW i \in 1 .. 8 PROVE e[i] = h[i]
    OBVIOUS
  <2>1. i \in 1 .. 8 + n + q /\ i <= 8 + n /\ i \in 1 .. 8 + n /\ i <= 8
    BY ONLY <1>4, <1>12, i \in 1 .. 8
  <2> QED BY <1>10, <1>11, <1>12, <2>1
<1>12b. \A i \in 1 .. n : e[8 + i] = fields[i]
  <2> SUFFICES ASSUME NEW i \in 1 .. n PROVE e[8 + i] = fields[i]
    OBVIOUS
  <2>1. /\ 8 + i \in 1 .. 8 + n + q /\ 8 + i <= 8 + n /\ 8 + i \in 1 .. 8 + n /\ ~(8 + i <= 8)
        /\ (8 + i) - 8 = i
    BY ONLY <1>4, <1>12, i \in 1 .. n
  <2> QED BY <1>10, <1>11, <1>12, <2>1
<1>12c. \A i \in 1 .. Len(payload) : e[8 + n + i] = payload[i]
  BY ONLY <1>4, <1>10, <1>11, <1>12
<1>13. /\ e[1] = m /\ e[2] = j /\ e[3] = 0 /\ e[4] = code /\ e[5] = 0
       /\ e[6] = 8 + n /\ e[7] = 0 /\ e[8] = Len(payload)
  <2>1. e[1] = h[1] /\ e[2] = h[2] /\ e[3] = h[3] /\ e[4] = h[4]
        /\ e[5] = h[5] /\ e[6] = h[6] /\ e[7] = h[7] /\ e[8] = h[8]
    BY ONLY <1>12a
  <2> QED BY <1>6, <2>1
<1> QED BY <1>1, <1>3, <1>11, <1>12b, <1>12c, <1>13 DEF Written, CommonHeaderLen, Minor

(* What is known of a datagram d that was taken for the frame f.            *)
ReadFrom(p, code, d, f) ==
    /\ f = [protocol |-> p, kind |-> FrameKind(p)[code], fields |-> f.fields, payload |-> f.payload]
    /\ f.fields \in Seq(Nat) /\ Len(f.fields) = FieldCount(p, code)
    /\ f.payload \in Seq(Nat) /\ Len(f.payload) = d[8]
    /\ ValidFields(p, FrameKind(p)[code], f.fields) /\ d[8] <= MaxPayload(FrameKind(p)[code])
    /\ d[1] = Magic(p) /\ d[2] = Major(p) /\ d[3] <= Minor /\ d[4] = code /\ d[5] = 0 /\ d[7] = 0
    /\ d[6] \in Nat /\ d[6] >= CommonHeaderLen + FieldCount(p, code) /\ Len(d) = d[6] + d[8]
    /\ \A i \in 1 .. FieldCount(p, code) : f.fields[i] = d[CommonHeaderLen + i]
    /\ \A i \in 1 .. Len(f.payload) : f.payload[i] = d[d[6] + i]

LEMMA DecodedCells ==
    ASSUME NEW p \in Protocols, NEW d \in Seq(Nat), NEW f, f = decode_frame(p, d), f # NoWireFrame
    PROVE  \E code \in DOMAIN FrameKind(p) : ReadFrom(p, code, d, f)
<1>1. HeaderOk(p, d)
  BY DEF decode_frame
<1>2. Len(d) >= 8 /\ d[4] \in DOMAIN FrameKind(p)
  BY <1>1 DEF HeaderOk, CommonHeaderLen
<1>3. PICK code \in DOMAIN FrameKind(p) : code = d[4]
  BY <1>2
<1>4. PICK k : k = FrameKind(p)[code]
  OBVIOUS
<1>5. LengthsOk(p, k, d) /\ ValidFields(p, k, ReadFields(p, k, d))
      /\ f = [protocol |-> p, kind |-> k, fields |-> ReadFields(p, k, d), payload |-> ReadPayload(d)]
  BY <1>1, <1>3, <1>4 DEF decode_frame
<1>6. PICK n \in Nat : n = FieldCount(p, code)
  BY Layout
<1>7. PICK h \in Nat, m \in Nat, l \in Nat : h = d[6] /\ m = d[8] /\ l = Len(d)
  <2>1. 6 \in 1 .. Len(d) /\ 8 \in 1 .. Len(d) /\ Len(d) \in Nat
    BY <1>2
  <2> QED BY <2>1
<1>8. h >= 8 + n /\ m <= MaxPayload(k) /\ l = h + m
  BY <1>4, <1>5, <1>6, <1>7 DEF LengthsOk, HeaderLen, CommonHeaderLen, FieldCount
<1>9. \A i \in 1 .. l : d[i] \in Nat
  BY <1>7
<1>10. PICK fields : fields = [i \in 1 .. n |-> d[8 + i]]
  OBVIOUS
<1>11. ReadFields(p, k, d) = fields
  <2>1. \A i \in 1 .. n : 8 + i <= l
    BY ONLY <1>8, n \in Nat, h \in Nat, m \in Nat, l \in Nat
  <2>2. \A i \in 1 .. n : At(d, 8 + i) = d[8 + i]
    BY <1>7, <2>1 DEF At
  <2>3. ReadFields(p, k, d) = [i \in 1 .. n |-> At(d, 8 + i)]
    BY <1>4, <1>6 DEF ReadFields, FieldCount, CommonHeaderLen
  <2> QED BY <1>10, <2>2, <2>3
<1>12. PICK payload : payload = [i \in 1 .. m |-> d[h + i]]
  OBVIOUS
<1>13. ReadPayload(d) = payload
  <2>1. \A i \in 1 .. m : h + i <= l
    BY ONLY <1>8, n \in Nat, h \in Nat, m \in Nat, l \in Nat
  <2>2. \A i \in 1 .. m : At(d, h + i) = d[h + i]
    BY <1>7, <2>1 DEF At
  <2>3. ReadPayload(d) = [i \in 1 .. m |-> At(d, h + i)]
    BY <1>7 DEF ReadPayload
  <2> QED BY <1>12, <2>2, <2>3
<1>14. fields \in Seq(Nat) /\ Len(fields) = n /\ \A i \in 1 .. n : fields[i] = d[8 + i]
  <2>1. \A i \in 1 .. n : 8 + i \in 1 .. l
    BY ONLY <1>8, n \in Nat, h \in Nat, m \in Nat, l \in Nat
  <2>2. \A i \in 1 .. n : d[8 + i] \in Nat
    BY <1>9, <2>1
  <2> QED BY <1>10, <2>2
<1>15. payload \in Seq(Nat) /\ Len(payload) = m /\ \A i \in 1 .. m : payload[i] = d[h + i]
  <2>1. \A i \in 1 .. m : h + i \in 1 .. l
    BY ONLY <1>8, n \in Nat, h \in Nat, m \in Nat, l \in Nat
  <2>2. \A i \in 1 .. m : d[h + i] \in Nat
    BY <1>9, <2>1
  <2> QED BY <1>12, <2>2
<1>16. f.fields = fields /\ f.payload = payload
  BY <1>5, <1>11, <1>13
<1>17. f = [protocol |-> p, kind |-> FrameKind(p)[code], fields |-> f.fields, payload |-> f.payload]
  BY <1>4, <1>5, <1>11, <1>13, <1>16
<1>18. ValidFields(p, FrameKind(p)[code], f.fields)
  BY <1>4, <1>5, <1>11, <1>16
<1>19. d[1] = Magic(p) /\ d[2] = Major(p) /\ d[3] <= Minor /\ d[5] = 0 /\ d[7] = 0
  BY <1>1 DEF HeaderOk
<1>20. d[8] <= MaxPayload(FrameKind(p)[code])
  BY <1>4, <1>7, <1>8
<1>21. d[6] >= CommonHeaderLen + FieldCount(p, code) /\ Len(d) = d[6] + d[8]
  BY <1>6, <1>7, <1>8 DEF CommonHeaderLen
<1>22. /\ f.fields \in Seq(Nat) /\ Len(f.fields) = FieldCount(p, code)
       /\ \A i \in 1 .. FieldCount(p, code) : f.fields[i] = d[CommonHeaderLen + i]
  BY <1>6, <1>14, <1>16 DEF CommonHeaderLen
<1>23. /\ f.payload \in Seq(Nat) /\ Len(f.payload) = d[8]
       /\ \A i \in 1 .. Len(f.payload) : f.payload[i] = d[d[6] + i]
  BY <1>7, <1>15, <1>16
<1>24. code = d[4] /\ d[6] \in Nat
  BY <1>3, <1>7
<1> QED BY <1>17, <1>18, <1>19, <1>20, <1>21, <1>22, <1>23, <1>24 DEF ReadFrom

(* Whatever a datagram became on its way: what is taken for a frame is      *)
(* accounted for, cell by cell.                                             *)
Accounted(p, d, f, e) ==
    /\ Beyond \notin ToSet(f.fields) \cup ToSet(f.payload)
    /\ e # Rejected
    /\ Len(d) - Len(e) = d[6] - HeaderLen(p, f.kind)
    /\ SubSeq(d, 1, HeaderLen(p, f.kind))
         = [SubSeq(e, 1, HeaderLen(p, f.kind)) EXCEPT ![3] = d[3], ![6] = d[6]]
    /\ SubSeq(d, Len(d) - Len(f.payload) + 1, Len(d)) = f.payload

LEMMA AllCellsCount ==
    ASSUME NEW p \in Protocols, NEW d \in Seq(Nat), NEW f, f = decode_frame(p, d), f # NoWireFrame,
           NEW e, e = encode(f)
    PROVE  Accounted(p, d, f, e)
<1>0. PICK code \in DOMAIN FrameKind(p) : ReadFrom(p, code, d, f)
  BY DecodedCells
<1>1. /\ f = [protocol |-> p, kind |-> FrameKind(p)[code], fields |-> f.fields, payload |-> f.payload]
      /\ f.fields \in Seq(Nat) /\ Len(f.fields) = FieldCount(p, code)
      /\ f.payload \in Seq(Nat) /\ Len(f.payload) = d[8]
      /\ ValidFields(p, FrameKind(p)[code], f.fields) /\ d[8] <= MaxPayload(FrameKind(p)[code])
      /\ d[1] = Magic(p) /\ d[2] = Major(p) /\ d[3] <= Minor /\ d[4] = code /\ d[5] = 0 /\ d[7] = 0
      /\ d[6] \in Nat /\ d[6] >= CommonHeaderLen + FieldCount(p, code) /\ Len(d) = d[6] + d[8]
      /\ \A i \in 1 .. FieldCount(p, code) : f.fields[i] = d[CommonHeaderLen + i]
      /\ \A i \in 1 .. Len(f.payload) : f.payload[i] = d[d[6] + i]
  BY <1>0 DEF ReadFrom
<1>2. f.protocol = p /\ f.kind = FrameKind(p)[code]
  BY <1>1
<1>3. PICK n \in Nat : n = FieldCount(p, code)
  BY Layout
<1>4. HeaderLen(p, f.kind) = 8 + n
  BY <1>2, <1>3 DEF HeaderLen, FieldCount, CommonHeaderLen
<1>5. PICK x, y : x = f.fields /\ y = f.payload
  OBVIOUS
<1>6. x \in Seq(Nat) /\ y \in Seq(Nat) /\ Len(x) = n /\ Len(y) = d[8]
  BY <1>1, <1>3, <1>5
<1>7. PICK h \in Nat, m \in Nat, l \in Nat : h = d[6] /\ m = Len(y) /\ l = Len(d)
  BY <1>1, <1>6, SMTT(30)
<1>8. h >= 8 + n /\ l = h + m
  BY <1>1, <1>3, <1>6, <1>7 DEF CommonHeaderLen
<1>9. Beyond \notin ToSet(x) \cup ToSet(y)
  <2>1. ToSet(x) \subseteq Nat /\ ToSet(y) \subseteq Nat
    <3>1. /\ \A i \in DOMAIN x : x[i] \in Nat
          /\ \A i \in DOMAIN y : y[i] \in Nat
      <4>1. \A s \in Seq(Nat) : \A i \in DOMAIN s : s[i] \in Nat
        OBVIOUS
      <4> QED BY <1>6, <4>1
    <3> QED BY <3>1 DEF ToSet
  <2> QED BY <2>1 DEF Beyond
<1>10. e = put_common_header(p, FrameKind(p)[code], y) \o x \o y
  BY <1>1, <1>2, <1>5, <1>6 DEF encode
<1>11. /\ e \in Seq(Nat) /\ Len(e) = CommonHeaderLen + FieldCount(p, code) + Len(y)
       /\ e[1] = Magic(p) /\ e[2] = Major(p) /\ e[3] = Minor /\ e[4] = code /\ e[5] = 0
       /\ e[6] = CommonHeaderLen + FieldCount(p, code) /\ e[7] = 0 /\ e[8] = Len(y)
       /\ \A i \in 1 .. FieldCount(p, code) : e[CommonHeaderLen + i] = x[i]
       /\ \A i \in 1 .. Len(y) : e[CommonHeaderLen + FieldCount(p, code) + i] = y[i]
  <2>1. x \in Seq(Nat) /\ y \in Seq(Nat) /\ Len(x) = FieldCount(p, code)
    BY <1>3, <1>6
  <2>2. Written(p, code, x, y, e)
    BY <1>10, <2>1, EncodedCells
  <2> QED BY <2>2 DEF Written
<1>12. Len(e) = 8 + n + m /\ \A i \in 1 .. n : e[8 + i] = x[i]
  BY <1>3, <1>7, <1>11 DEF CommonHeaderLen
<1>13. e # Rejected
  <2>1. Len(e) # 0
    BY ONLY <1>12, n \in Nat, m \in Nat
  <2> QED BY <2>1 DEF Rejected
<1>14. Len(d) - Len(e) = d[6] - (8 + n)
  BY ONLY <1>7, <1>8, <1>12, n \in Nat, m \in Nat, h \in Nat, l \in Nat, SMTT(30)
<1>15. \A i \in 1 .. n : d[8 + i] = x[i]
  BY <1>1, <1>3, <1>5 DEF CommonHeaderLen
<1>16. /\ d[1] = e[1] /\ d[2] = e[2] /\ d[4] = e[4] /\ d[5] = e[5] /\ d[7] = e[7] /\ d[8] = e[8]
  BY <1>1, <1>6, <1>11
<1>17. \A i \in 1 .. 8 + n : i # 3 /\ i # 6 => d[i] = e[i]
  <2> SUFFICES ASSUME NEW i \in 1 .. 8 + n, i # 3, i # 6 PROVE d[i] = e[i]
    OBVIOUS
  <2>1. CASE i <= 8
    <3>1. i \in {1, 2, 4, 5, 7, 8}
      BY <2>1
    <3> QED BY <1>16, <3>1
  <2>2. CASE ~(i <= 8)
    <3>1. PICK j \in 1 .. n : i = 8 + j
      <4>1. i - 8 \in 1 .. n /\ i = 8 + (i - 8)
        BY ONLY <2>2, n \in Nat, i \in 1 .. 8 + n
      <4> QED BY <4>1
    <3> QED BY <1>12, <1>15, <3>1
  <2> QED BY <2>1, <2>2
<1>18. SubSeq(d, 1, 8 + n) = [SubSeq(e, 1, 8 + n) EXCEPT ![3] = d[3], ![6] = d[6]]
  <2>1. PICK s, t : s = SubSeq(d, 1, 8 + n) /\ t = SubSeq(e, 1, 8 + n)
    OBVIOUS
  <2>2. /\ s \in Seq(Nat) /\ Len(s) = 8 + n /\ \A i \in 1 .. 8 + n : s[i] = d[i]
    <3>1. 8 + n \in Int /\ 1 \in Int /\ 1 <= 8 + n /\ (8 + n) - 1 + 1 = 8 + n
          /\ \A i \in 1 .. 8 + n : i \in 1 .. l /\ 1 + i - 1 = i
      BY ONLY <1>8, n \in Nat, h \in Nat, m \in Nat, l \in Nat
    <3>2. \A i \in 1 .. 8 + n : d[i] \in Nat
      BY <1>7, <3>1
    <3> QED BY <2>1, <3>1, <3>2, SubSeqProperties
  <2>3. /\ t \in Seq(Nat) /\ Len(t) = 8 + n /\ \A i \in 1 .. 8 + n : t[i] = e[i]
    <3>1. 8 + n \in Int /\ 1 \in Int /\ 1 <= 8 + n /\ (8 + n) - 1 + 1 = 8 + n
          /\ \A i \in 1 .. 8 + n : i \in 1 .. 8 + n + m /\ 1 + i - 1 = i
      BY ONLY n \in Nat, h \in Nat, m \in Nat
    <3>2. \A i \in 1 .. 8 + n : e[i] \in Nat
      <4>1. \A i \in 1 .. Len(e) : e[i] \in Nat
        BY <1>11, SMTT(30)
      <4> QED BY <1>12, <3>1, <4>1
    <3> QED BY <2>1, <3>1, <3>2, SubSeqProperties
  <2>4. PICK a, b0 : a = d[3] /\ b0 = d[6]
    OBVIOUS
  <2>5. s = [t EXCEPT ![3] = a, ![6] = b0]
    <3>1. DOMAIN s = 1 .. 8 + n /\ DOMAIN t = 1 .. 8 + n
      BY <2>2, <2>3
    <3>2. s[3] = a /\ s[6] = b0
      <4>1. 3 \in 1 .. 8 + n /\ 6 \in 1 .. 8 + n
        BY ONLY n \in Nat
      <4> QED BY <2>2, <2>4, <4>1
    <3>3. \A i \in 1 .. 8 + n : i # 3 /\ i # 6 => s[i] = t[i]
      BY <1>17, <2>2, <2>3
    <3>4. s = [i \in 1 .. 8 + n |-> s[i]]
      BY <2>2, <3>1
    <3> QED BY <3>1, <3>2, <3>3, <3>4
  <2> QED BY <2>1, <2>4, <2>5
<1>19. SubSeq(d, l - m + 1, l) = y
  <2>1. PICK s : s = SubSeq(d, l - m + 1, l)
    OBVIOUS
  <2>2. /\ l - m + 1 \in Int /\ l \in Int /\ l - (l - m + 1) + 1 = m
        /\ (IF l - m + 1 <= l THEN l - (l - m + 1) + 1 ELSE 0) = m
        /\ \A i \in (l - m + 1) .. l : i \in 1 .. l
        /\ \A i \in 1 .. m : (l - m + 1) + i - 1 = h + i
    BY ONLY <1>8, n \in Nat, h \in Nat, m \in Nat, l \in Nat
  <2>3. \A i \in (l - m + 1) .. l : d[i] \in Nat
    BY <1>7, <2>2, SMTT(30)
  <2>4. s \in Seq(Nat) /\ Len(s) = m /\ \A i \in 1 .. m : s[i] = d[h + i]
    <3>1. /\ SubSeq(d, l - m + 1, l) \in Seq(Nat)
          /\ Len(SubSeq(d, l - m + 1, l)) = IF l - m + 1 <= l THEN l - (l - m + 1) + 1 ELSE 0
          /\ \A i \in 1 .. l - (l - m + 1) + 1 : SubSeq(d, l - m + 1, l)[i] = d[(l - m + 1) + i - 1]
      BY <2>2, <2>3, SubSeqProperties
    <3>2. s \in Seq(Nat) /\ Len(s) = m
      BY <2>1, <2>2, <3>1
    <3>3. \A i \in 1 .. m : s[i] = d[(l - m + 1) + i - 1]
      BY <2>1, <2>2, <3>1
    <3> QED BY <2>2, <3>2, <3>3
  <2>5. \A i \in 1 .. m : y[i] = d[h + i]
    BY <1>1, <1>5, <1>7
  <2>6. s = y
    BY <1>6, <1>7, <2>4, <2>5, SeqEqual
  <2> QED BY <2>1, <2>6
<1>20. SubSeq(d, Len(d) - Len(f.payload) + 1, Len(d)) = f.payload
  BY <1>5, <1>7, <1>19
<1> QED BY <1>1, <1>4, <1>5, <1>9, <1>13, <1>14, <1>18, <1>20 DEF Accounted

LEMMA EncodeWritten ==
    ASSUME NEW p \in Protocols, NEW code \in DOMAIN FrameKind(p), NEW g,
           g = [protocol |-> p, kind |-> FrameKind(p)[code], fields |-> g.fields, payload |-> g.payload],
           g.fields \in Seq(Nat), Len(g.fields) = FieldCount(p, code), g.payload \in Seq(Nat)
    PROVE  encode(g) = Rejected \/ Written(p, code, g.fields, g.payload, encode(g))
<1>1. g.protocol = p /\ g.kind = FrameKind(p)[code]
  OBVIOUS
<1>2. \/ encode(g) = Rejected
      \/ encode(g) = put_common_header(p, FrameKind(p)[code], g.payload) \o g.fields \o g.payload
  BY <1>1 DEF encode
<1>3. CASE encode(g) = put_common_header(p, FrameKind(p)[code], g.payload) \o g.fields \o g.payload
  BY <1>3, EncodedCells
<1> QED BY <1>2, <1>3

LEMMA EncodeCells ==
    ASSUME NEW g, WellFormed(g)
    PROVE  encode(g) \in Seq(Nat)
<1>1. PICK p \in Protocols : \E code \in DOMAIN FrameKind(p) :
        /\ g = [protocol |-> p, kind |-> FrameKind(p)[code], fields |-> g.fields, payload |-> g.payload]
        /\ g.fields \in Seq(Nat) /\ Len(g.fields) = FieldCount(p, code)
        /\ g.payload \in Seq(Nat)
  BY DEF WellFormed
<1>2. PICK code \in DOMAIN FrameKind(p) :
        /\ g = [protocol |-> p, kind |-> FrameKind(p)[code], fields |-> g.fields, payload |-> g.payload]
        /\ g.fields \in Seq(Nat) /\ Len(g.fields) = FieldCount(p, code)
        /\ g.payload \in Seq(Nat)
  BY <1>1
<1>3. encode(g) = Rejected \/ Written(p, code, g.fields, g.payload, encode(g))
  BY <1>2, EncodeWritten
<1>4. Rejected \in Seq(Nat)
  BY DEF Rejected
<1>5. Written(p, code, g.fields, g.payload, encode(g)) => encode(g) \in Seq(Nat)
  BY DEF Written
<1> QED BY <1>3, <1>4, <1>5

(* What arrives as it was sent is taken for what was sent.                  *)
LEMMA Intact ==
    ASSUME NEW g, WellFormed(g), NEW p \in Protocols, NEW f, f = decode_frame(p, encode(g)), f # NoWireFrame
    PROVE  f = g
<1>1. PICK q \in Protocols : \E code \in DOMAIN FrameKind(q) :
        /\ g = [protocol |-> q, kind |-> FrameKind(q)[code], fields |-> g.fields, payload |-> g.payload]
        /\ g.fields \in Seq(Nat) /\ Len(g.fields) = FieldCount(q, code)
        /\ g.payload \in Seq(Nat)
  BY DEF WellFormed
<1>2. PICK code \in DOMAIN FrameKind(q) :
        /\ g = [protocol |-> q, kind |-> FrameKind(q)[code], fields |-> g.fields, payload |-> g.payload]
        /\ g.fields \in Seq(Nat) /\ Len(g.fields) = FieldCount(q, code)
        /\ g.payload \in Seq(Nat)
  BY <1>1
<1>3. PICK d \in Seq(Nat) : d = encode(g)
  BY EncodeCells
<1>4. d # Rejected
  <2>1. Len(d) >= 8
    BY <1>3 DEF decode_frame, HeaderOk, CommonHeaderLen
  <2> QED BY <2>1 DEF Rejected
<1>5. Written(q, code, g.fields, g.payload, d)
  BY <1>2, <1>3, <1>4, EncodeWritten
<1>6. PICK other \in DOMAIN FrameKind(p) : ReadFrom(p, other, d, f)
  BY <1>3, DecodedCells
<1>7. p = q
  <2>1. d[1] = Magic(p) /\ d[1] = Magic(q)
    BY <1>5, <1>6 DEF Written, ReadFrom
  <2> QED BY <2>1 DEF Magic, Protocols
<1>8. other = code
  BY <1>5, <1>6 DEF Written, ReadFrom
<1>9. PICK n \in Nat : n = FieldCount(p, code)
  BY <1>7, Layout
<1>10. PICK x, y, u, v : x = f.fields /\ y = f.payload /\ u = g.fields /\ v = g.payload
  OBVIOUS
<1>11. /\ x \in Seq(Nat) /\ Len(x) = n /\ \A i \in 1 .. n : x[i] = d[8 + i]
       /\ y \in Seq(Nat) /\ Len(y) = d[8] /\ \A i \in 1 .. Len(y) : y[i] = d[d[6] + i]
  BY <1>6, <1>8, <1>9, <1>10 DEF ReadFrom, CommonHeaderLen
<1>12. /\ u \in Seq(Nat) /\ Len(u) = n /\ \A i \in 1 .. n : d[8 + i] = u[i]
       /\ v \in Seq(Nat) /\ d[8] = Len(v) /\ d[6] = 8 + n /\ \A i \in 1 .. Len(v) : d[8 + n + i] = v[i]
  BY <1>2, <1>5, <1>7, <1>9, <1>10 DEF Written, CommonHeaderLen
<1>13. x = u
  <2>1. Len(x) = Len(u) /\ \A i \in 1 .. Len(x) : x[i] = u[i]
    BY <1>11, <1>12
  <2> QED BY <1>11, <1>12, <2>1, SeqEqual
<1>14. y = v
  <2>1. Len(y) = Len(v) /\ \A i \in 1 .. Len(y) : y[i] = v[i]
    BY <1>11, <1>12
  <2> QED BY <1>11, <1>12, <2>1, SeqEqual
<1>15. f = [protocol |-> p, kind |-> FrameKind(p)[code], fields |-> x, payload |-> y]
  BY <1>6, <1>8, <1>10 DEF ReadFrom
<1>16. g = [protocol |-> p, kind |-> FrameKind(p)[code], fields |-> u, payload |-> v]
  BY <1>2, <1>7, <1>10
<1> QED BY <1>13, <1>14, <1>15, <1>16

(* The frames of the model are frames a program can build.                  *)
LEMMA FramesWellFormed ==
    ASSUME NEW g \in Frames
    PROVE  WellFormed(g)
<1>0. PICK p \in Protocols :
        g \in {[protocol |-> p, kind |-> k,
             fields |-> [i \in 1 .. Len(Fields(p)[k]) |->
                            CASE Fields(p)[k][i] = "zero"   -> 0
                              [] Fields(p)[k][i] = "phase"  -> 2
                              [] Fields(p)[k][i] = "target" -> 2
                              [] OTHER -> IF i % 2 = 1 THEN 3 ELSE 1],
             payload |-> [i \in 1 .. n |-> 3]] : k \in ToSet(FrameKind(p)), n \in 0 .. MaxDataPayload}
  BY DEF Frames, Protocols
<1>1. PICK k \in ToSet(FrameKind(p)), n \in 0 .. MaxDataPayload :
        g = [protocol |-> p, kind |-> k,
             fields |-> [i \in 1 .. Len(Fields(p)[k]) |->
                            CASE Fields(p)[k][i] = "zero"   -> 0
                              [] Fields(p)[k][i] = "phase"  -> 2
                              [] Fields(p)[k][i] = "target" -> 2
                              [] OTHER -> IF i % 2 = 1 THEN 3 ELSE 1],
             payload |-> [i \in 1 .. n |-> 3]]
  BY <1>0
<1>2. PICK code \in DOMAIN FrameKind(p) : k = FrameKind(p)[code]
  BY <1>1 DEF ToSet
<1>3. PICK m \in Nat : m = Len(Fields(p)[k]) /\ m = FieldCount(p, code)
  BY <1>2, Layout DEF FieldCount
<1>4. PICK v : v = [i \in 1 .. m |->
                            CASE Fields(p)[k][i] = "zero"   -> 0
                              [] Fields(p)[k][i] = "phase"  -> 2
                              [] Fields(p)[k][i] = "target" -> 2
                              [] OTHER -> IF i % 2 = 1 THEN 3 ELSE 1]
  OBVIOUS
<1>5. v \in Seq(Nat) /\ Len(v) = m
  <2>1. \A i \in 1 .. m : v[i] \in Nat
    BY <1>4
  <2>2. v = [i \in 1 .. m |-> v[i]]
    BY <1>4
  <2> QED BY <2>1, <2>2
<1>6. PICK w : w = [i \in 1 .. n |-> 3]
  OBVIOUS
<1>7. w \in Seq(Nat)
  <2>1. PICK l \in Nat : l = n
    BY WireAssumption
  <2>2. w = [i \in 1 .. l |-> 3]
    BY <1>6, <2>1
  <2> QED BY <2>2
<1>8. g = [protocol |-> p, kind |-> FrameKind(p)[code], fields |-> v, payload |-> w]
  BY <1>1, <1>2, <1>3, <1>4, <1>6
<1>9. /\ g = [protocol |-> p, kind |-> FrameKind(p)[code], fields |-> g.fields, payload |-> g.payload]
      /\ g.fields \in Seq(Nat) /\ Len(g.fields) = FieldCount(p, code) /\ g.payload \in Seq(Nat)
  BY <1>3, <1>5, <1>7, <1>8
<1> QED BY <1>9 DEF WellFormed

(* The frame that was sent stays a frame, the datagram a datagram, and it   *)
(* is as it was sent until something alters it.                             *)
FrameInv ==
    /\ WellFormed(frame) /\ datagram \in Seq(Nat) /\ damage \in Nat
    /\ damage = 0 => datagram = encode(frame)

LEMMA Alters ==
    ASSUME FrameInv, FrameStep
    PROVE  FrameInv'
<1>1. /\ datagram' \in Seq(Nat) => FrameInv'
  <2>1. damage' = damage + 1 /\ frame' = frame
    BY DEF FrameStep, ChangeCell, Truncate, Append1, ExtendHeader, Altered
  <2>2. damage' \in Nat /\ damage' # 0
    BY <2>1 DEF FrameInv
  <2> QED BY <2>1, <2>2 DEF FrameInv
<1>2. datagram \in Seq(Nat) /\ Cells \subseteq Nat
  BY DEF FrameInv, Cells
<1>3. CASE ChangeCell
  <2>1. PICK i \in DOMAIN datagram :
          \/ \E v \in Cells : datagram' = [datagram EXCEPT ![i] = v]
          \/ \E n \in {-1, 1} : datagram[i] + n >= 0 /\ datagram' = [datagram EXCEPT ![i] = @ + n]
    BY <1>3 DEF ChangeCell, Altered
  <2>2. PICK v \in Nat : datagram' = [datagram EXCEPT ![i] = v]
    <3>1. CASE \E v \in Cells : datagram' = [datagram EXCEPT ![i] = v]
      BY <1>2, <3>1
    <3>2. CASE \E n \in {-1, 1} : datagram[i] + n >= 0 /\ datagram' = [datagram EXCEPT ![i] = @ + n]
      <4>1. PICK n \in {-1, 1} : datagram[i] + n >= 0 /\ datagram' = [datagram EXCEPT ![i] = datagram[i] + n]
        BY <3>2
      <4>2. datagram[i] \in Nat
        BY <1>2
      <4>3. datagram[i] + n \in Nat
        BY <4>1, <4>2
      <4> QED BY <4>1, <4>3
    <3> QED BY <2>1, <3>1, <3>2
  <2>3. i \in 1 .. Len(datagram)
    BY <1>2
  <2> QED BY <1>1, <1>2, <2>2, <2>3, ExceptSeq
<1>4. CASE Truncate
  <2>1. PICK n \in 0 .. Len(datagram) : datagram' = SubSeq(datagram, 1, n)
    BY <1>4 DEF Truncate, Altered
  <2>2. n \in Int /\ 1 \in Int /\ \A i \in 1 .. n : datagram[i] \in Nat
    BY <1>2
  <2>3. SubSeq(datagram, 1, n) \in Seq(Nat)
    BY <2>2, SubSeqProperties
  <2> QED BY <1>1, <2>1, <2>3
<1>5. CASE Append1
  <2>1. PICK v \in Cells : datagram' = Append(datagram, v)
    BY <1>5 DEF Append1, Altered
  <2> QED BY <1>1, <1>2, <2>1
<1>6. CASE ExtendHeader
  <2>1. PICK v \in Cells :
          datagram' = InsertAt([datagram EXCEPT ![6] = @ + 1], datagram[6] + 1, v)
    BY <1>6 DEF ExtendHeader, Altered
  <2>2. Len(datagram) >= 8 /\ datagram[6] <= Len(datagram)
    BY <1>6 DEF ExtendHeader, CommonHeaderLen
  <2>3. PICK h \in Nat : h = datagram[6] /\ 6 \in 1 .. Len(datagram)
    BY <1>2, <2>2
  <2>4. PICK d : d = [datagram EXCEPT ![6] = h + 1]
    OBVIOUS
  <2>5. d \in Seq(Nat) /\ Len(d) = Len(datagram)
    <3>1. h + 1 \in Nat
      BY <2>3
    <3> QED BY <1>2, <2>3, <2>4, <3>1, ExceptSeq
  <2>6. datagram' = SubSeq(d, 1, h) \o <<v>> \o SubSeq(d, h + 1, Len(d))
    <3>1. datagram' = InsertAt(d, h + 1, v) /\ (h + 1) - 1 = h
      BY <2>1, <2>3, <2>4
    <3> QED BY <3>1 DEF InsertAt
  <2>7. SubSeq(d, 1, h) \in Seq(Nat) /\ SubSeq(d, h + 1, Len(d)) \in Seq(Nat)
    <3>1. h \in 0 .. Len(d) /\ Len(d) \in Nat
      BY <2>2, <2>3, <2>5
    <3>2. \A i \in 1 .. Len(d) : d[i] \in Nat
      BY <2>5
    <3>3. /\ \A i \in 1 .. h : d[i] \in Nat
          /\ \A i \in (h + 1) .. Len(d) : d[i] \in Nat
      BY <3>1, <3>2
    <3>4. h + 1 \in Int /\ 1 \in Int /\ h \in Int /\ Len(d) \in Int
      BY <3>1
    <3> QED BY <3>3, <3>4, SubSeqProperties
  <2>8. <<v>> \in Seq(Nat)
    BY <1>2
  <2> QED BY <1>1, <2>6, <2>7, <2>8, ConcatProperties
<1> QED BY <1>3, <1>4, <1>5, <1>6 DEF FrameStep

(* Of the two protocols at most one takes a datagram.                       *)
LEMMA WholeFrames ==
    ASSUME FrameInv
    PROVE  FramesAreWhole
<1>1. datagram \in Seq(Nat)
  BY DEF FrameInv
<1>2. ASSUME NEW p \in Protocols, decode_frame(p, datagram) # NoWireFrame
      PROVE  /\ Accounted(p, datagram, decode_frame(p, datagram), encode(decode_frame(p, datagram)))
             /\ damage = 0 => decode_frame(p, datagram) = frame
             /\ \A q \in Protocols \ {p} : decode_frame(q, datagram) = NoWireFrame
  <2>1. PICK f : f = decode_frame(p, datagram)
    OBVIOUS
  <2>2. PICK e : e = encode(f)
    OBVIOUS
  <2>3. Accounted(p, datagram, f, e)
    BY <1>1, <1>2, <2>1, <2>2, AllCellsCount
  <2>4. damage = 0 => f = frame
    BY <1>2, <2>1, Intact DEF FrameInv
  <2>5. ASSUME NEW q \in Protocols \ {p}, decode_frame(q, datagram) # NoWireFrame
        PROVE  FALSE
    <3>1. HeaderOk(p, datagram) /\ HeaderOk(q, datagram)
      BY <1>2, <2>5 DEF decode_frame
    <3>2. Magic(p) = Magic(q)
      BY <3>1 DEF HeaderOk
    <3> QED BY <2>5, <3>2 DEF Magic, Protocols
  <2> QED BY <2>1, <2>2, <2>3, <2>4, <2>5
<1>3. Protocols = {"relay", "direct"}
  BY DEF Protocols
<1> QED BY <1>2, <1>3 DEF FramesAreWhole, Accounted

(* The negotiation: what the relay answered says all that matters of it.    *)
Lower == IF talk.client < talk.relay THEN talk.client ELSE talk.relay

TalkTypes ==
    talk \in [state : {"start", "answered", "joined", "incompatible"}, client : Nat, relay : Nat,
              choice : {"tcp", "udp"}, udp : BOOLEAN, schema : {1, 2},
              answer : {"none", "UnsupportedBootstrapSchema", "UnsupportedProtocol",
                        "MissingRequiredCapabilities", "ServerHello"},
              enabled : SUBSET Known, version : [major : Nat, minor : Nat]]

Granted(enabled, choice, udp) ==
    /\ {"resume", choice} \subseteq enabled
    /\ "udp" \in enabled => udp

RelayAnswered ==
    talk.state = "answered" =>
        \/ /\ talk.answer = "ServerHello"
           /\ talk.version = [major |-> Major("relay"), minor |-> Lower]
           /\ Granted(talk.enabled, talk.choice, talk.udp)
        \/ /\ talk.answer # "ServerHello"
           /\ talk.schema # 1 \/ (talk.choice = "udp" /\ ~talk.udp)

TalkInv == TalkTypes /\ RelayAnswered /\ NegotiationHolds

(* Two builds always have a version in common, and the newest of them is    *)
(* that of the older build.                                                 *)
LEMMA NewestCommon ==
    ASSUME NEW x \in Nat, NEW y \in Nat
    PROVE  select_protocol(<<Range0(x)>>, <<Range0(y)>>)
             = [major |-> Major("relay"), minor |-> IF x < y THEN x ELSE y]
<1>1. PICK l \in Nat : l = IF x < y THEN x ELSE y
  OBVIOUS
<1>2. PICK r, s : r = Range0(x) /\ s = Range0(y)
  OBVIOUS
<1>3. /\ r.major = Major("relay") /\ r.min_minor = 0 /\ r.max_minor = x
      /\ s.major = Major("relay") /\ s.min_minor = 0 /\ s.max_minor = y
  BY <1>2 DEF Range0
<1>4. ToSet(<<r>>) = {r} /\ ToSet(<<s>>) = {s}
  <2>1. DOMAIN <<r>> = {1} /\ <<r>>[1] = r /\ DOMAIN <<s>> = {1} /\ <<s>>[1] = s
    OBVIOUS
  <2>2. ToSet(<<r>>) = {<<r>>[i] : i \in DOMAIN <<r>>} /\ ToSet(<<s>>) = {<<s>>[i] : i \in DOMAIN <<s>>}
    BY DEF ToSet
  <2>3. ToSet(<<r>>) = {<<r>>[i] : i \in {1}} /\ ToSet(<<s>>) = {<<s>>[i] : i \in {1}}
    BY ONLY <2>1, <2>2
  <2>4. {<<r>>[i] : i \in {1}} = {r} /\ {<<s>>[i] : i \in {1}} = {s}
    BY ONLY <2>1
  <2> QED BY <2>3, <2>4
<1>5. PICK v : v = [major |-> Major("relay"), minor |-> l]
  OBVIOUS
<1>6. Common(<<r>>, <<s>>) = {v}
  <2>1. PICK mj, vs : mj = Major("relay") /\ vs = [major : {mj}, minor : {x, y}]
    OBVIOUS
  <2>2. Common(<<r>>, <<s>>)
          = {w \in [major : {t.major : t \in {r}}, minor : {t.max_minor : t \in {r} \cup {s}}] :
               \E t \in {r}, u \in {s} :
                   /\ t.major = u.major
                   /\ w.major = t.major
                   /\ w.minor = (IF t.max_minor < u.max_minor THEN t.max_minor ELSE u.max_minor)
                   /\ w.minor >= t.min_minor /\ w.minor >= u.min_minor}
    BY <1>4 DEF Common
  <2>3. {t.major : t \in {r}} = {mj} /\ {t.max_minor : t \in {r} \cup {s}} = {x, y}
    BY <1>3, <2>1
  <2>4. Common(<<r>>, <<s>>)
          = {w \in vs :
               \E t \in {r}, u \in {s} :
                   /\ t.major = u.major
                   /\ w.major = t.major
                   /\ w.minor = (IF t.max_minor < u.max_minor THEN t.max_minor ELSE u.max_minor)
                   /\ w.minor >= t.min_minor /\ w.minor >= u.min_minor}
    BY <2>1, <2>2, <2>3
  <2>5. \A w \in Common(<<r>>, <<s>>) : w \in vs /\ w.major = mj /\ w.minor = l
    BY <1>1, <1>3, <2>1, <2>4
  <2>6. \A w \in Common(<<r>>, <<s>>) : w = v
    BY <1>5, <2>1, <2>5
  <2>7. v \in vs /\ v.major = mj /\ v.minor = l /\ l >= 0 /\ l \in {x, y}
    BY <1>1, <1>5, <2>1
  <2>8. v \in Common(<<r>>, <<s>>)
    <3>1. l = (IF r.max_minor < s.max_minor THEN r.max_minor ELSE s.max_minor)
          /\ l >= r.min_minor /\ l >= s.min_minor /\ r.major = s.major /\ mj = r.major
      BY <1>1, <1>3, <2>1, <2>7
    <3>2. \E t \in {r}, u \in {s} :
                   /\ t.major = u.major
                   /\ v.major = t.major
                   /\ v.minor = (IF t.max_minor < u.max_minor THEN t.max_minor ELSE u.max_minor)
                   /\ v.minor >= t.min_minor /\ v.minor >= u.min_minor
      <4>1. r \in {r} /\ s \in {s}
        OBVIOUS
      <4>2. r.major = s.major /\ v.major = r.major
        BY <2>7, <3>1
      <4>3. v.minor = (IF r.max_minor < s.max_minor THEN r.max_minor ELSE s.max_minor)
        BY <2>7, <3>1
      <4>4. v.minor >= r.min_minor /\ v.minor >= s.min_minor
        BY <2>7, <3>1
      <4> QED BY ONLY <4>1, <4>2, <4>3, <4>4
    <3> QED BY ONLY <2>4, <2>7, <3>2
  <2> QED BY <2>6, <2>8
<1>7. ~\E t \in ToSet(<<r>>) \cup ToSet(<<s>>) : t.min_minor > t.max_minor
  BY <1>3, <1>4
<1>8. (CHOOSE t \in {v} : \A w \in {v} : Newer(t, w)) = v
  <2>1. Newer(v, v)
    BY <1>5 DEF Newer
  <2> QED BY <2>1
<1>9. select_protocol(<<r>>, <<s>>) = v
  BY <1>6, <1>7, <1>8 DEF select_protocol
<1> QED BY <1>1, <1>2, <1>5, <1>9

(* A relay grants what it requires and what it has, or refuses because the  *)
(* chosen transport is not there.                                           *)
LEMMA Grants ==
    ASSUME NEW choice \in {"tcp", "udp"}, NEW udp \in BOOLEAN, NEW available,
           available = {"tcp", "resume", "room_path_probe"} \cup (IF udp THEN {"udp"} ELSE {}),
           NEW caps,
           caps = select_capabilities({"resume", choice}, {"tcp", "udp", "room_path_probe"}, available)
    PROVE  /\ caps.enabled \subseteq Known /\ caps.ok \in BOOLEAN
           /\ caps.ok => Granted(caps.enabled, choice, udp)
           /\ ~caps.ok => choice = "udp" /\ ~udp
<1>1. PICK need : need = {"resume", choice}
  OBVIOUS
<1>2. PICK had : had = available \cap Known
  OBVIOUS
<1>3. had = available
  BY <1>2 DEF Known
<1>4. CASE need \subseteq had
  <2>1. PICK on : on = need \cup ({"tcp", "udp", "room_path_probe"} \cap available \cap Known)
    OBVIOUS
  <2>2. caps.ok = TRUE /\ caps.enabled = on
    BY <1>1, <1>2, <1>4, <2>1 DEF select_capabilities
  <2>3. on \subseteq Known /\ need \subseteq on
    BY <1>1, <2>1 DEF Known
  <2>4. on \subseteq available
    BY <1>3, <1>4, <2>1
  <2>5. "udp" \in on => udp
    BY <2>4
  <2> QED BY <1>1, <2>2, <2>3, <2>5 DEF Granted
<1>5. CASE ~(need \subseteq had)
  <2>1. PICK no : no = FALSE
    OBVIOUS
  <2>2. caps.ok = FALSE /\ caps.enabled = {}
    BY <1>1, <1>2, <1>5 DEF select_capabilities
  <2>3. choice = "udp" /\ ~udp
    BY <1>1, <1>3, <1>5
  <2> QED BY <2>2, <2>3
<1> QED BY <1>4, <1>5

LEMMA HelloAnswered ==
    ASSUME TalkInv, RelayNegotiates
    PROVE  TalkInv'
<1>1. PICK mine \in Nat, its \in Nat, choice \in {"tcp", "udp"}, udp \in BOOLEAN, schema \in {1, 2} :
        /\ mine = talk.client /\ its = talk.relay /\ choice = talk.choice
        /\ udp = talk.udp /\ schema = talk.schema
  <2>1. talk.client \in Nat /\ talk.relay \in Nat /\ talk.choice \in {"tcp", "udp"} /\ talk.schema \in {1, 2}
    BY DEF TalkInv, TalkTypes
  <2>2. talk.udp \in BOOLEAN
    BY DEF TalkInv, TalkTypes
  <2> QED BY <2>1, <2>2, Zenon
<1>2. PICK available :
        available = {"tcp", "resume", "room_path_probe"} \cup (IF udp THEN {"udp"} ELSE {})
  OBVIOUS
<1>3. PICK version : version = select_protocol(<<Range0(mine)>>, <<Range0(its)>>)
  OBVIOUS
<1>4. PICK caps :
        caps = select_capabilities({"resume", choice}, {"tcp", "udp", "room_path_probe"}, available)
  OBVIOUS
<1>5. PICK answer :
        answer = IF schema # 1 THEN "UnsupportedBootstrapSchema"
                 ELSE IF version = NoVersion THEN "UnsupportedProtocol"
                 ELSE IF ~caps.ok THEN "MissingRequiredCapabilities"
                 ELSE "ServerHello"
  OBVIOUS
<1>6. talk' = [talk EXCEPT !.state = "answered", !.answer = answer,
                          !.version = version, !.enabled = caps.enabled]
  BY <1>1, <1>2, <1>3, <1>4, <1>5 DEF RelayNegotiates, Required
<1>7. version = [major |-> Major("relay"), minor |-> IF mine < its THEN mine ELSE its]
  BY <1>3, NewestCommon
<1>8. version # NoVersion /\ version \in [major : Nat, minor : Nat]
  BY <1>7 DEF NoVersion, Major
<1>9. /\ caps.enabled \subseteq Known /\ caps.ok \in BOOLEAN
      /\ caps.ok => Granted(caps.enabled, choice, udp)
      /\ ~caps.ok => choice = "udp" /\ ~udp
  BY <1>2, <1>4, Grants, ZenonT(60)
<1>10. PICK enabled \in SUBSET Known, ok \in BOOLEAN : enabled = caps.enabled /\ ok = caps.ok
  BY <1>9
<1>11. talk \in [state : {"start", "answered", "joined", "incompatible"}, client : Nat, relay : Nat,
              choice : {"tcp", "udp"}, udp : BOOLEAN, schema : {1, 2},
              answer : {"none", "UnsupportedBootstrapSchema", "UnsupportedProtocol",
                        "MissingRequiredCapabilities", "ServerHello"},
              enabled : SUBSET Known, version : [major : Nat, minor : Nat]]
  BY DEF TalkInv, TalkTypes
<1>12. answer \in {"UnsupportedBootstrapSchema", "UnsupportedProtocol",
                  "MissingRequiredCapabilities", "ServerHello"}
  BY <1>5
<1>13. /\ talk'.state = "answered" /\ talk'.answer = answer /\ talk'.version = version
       /\ talk'.enabled = enabled /\ talk'.client = mine /\ talk'.relay = its
       /\ talk'.choice = choice /\ talk'.udp = udp /\ talk'.schema = schema
  BY <1>1, <1>6, <1>10, <1>11
<1>14. TalkTypes'
  <2>1. talk' \in [state : {"start", "answered", "joined", "incompatible"}, client : Nat, relay : Nat,
              choice : {"tcp", "udp"}, udp : BOOLEAN, schema : {1, 2},
              answer : {"none", "UnsupportedBootstrapSchema", "UnsupportedProtocol",
                        "MissingRequiredCapabilities", "ServerHello"},
              enabled : SUBSET Known, version : [major : Nat, minor : Nat]]
    BY ONLY <1>6, <1>8, <1>10, <1>11, <1>12
  <2> QED BY <2>1 DEF TalkTypes
<1>15. \/ /\ answer = "ServerHello"
          /\ version = [major |-> Major("relay"), minor |-> IF mine < its THEN mine ELSE its]
          /\ Granted(enabled, choice, udp)
       \/ /\ answer # "ServerHello"
          /\ schema # 1 \/ (choice = "udp" /\ ~udp)
  <2>1. CASE answer = "ServerHello"
    <3>1. ok
      BY <1>5, <1>10, <2>1
    <3> QED BY <1>7, <1>9, <1>10, <2>1, <3>1
  <2>2. CASE answer # "ServerHello"
    <3>1. schema # 1 \/ ~ok
      BY <1>5, <1>8, <1>10, <2>2
    <3> QED BY <1>9, <1>10, <2>2, <3>1
  <2> QED BY <2>1, <2>2
<1>16. Lower' = IF mine < its THEN mine ELSE its
  BY <1>13 DEF Lower
<1>17. RelayAnswered'
  BY <1>13, <1>15, <1>16 DEF RelayAnswered
<1>18. NegotiationHolds'
  BY <1>13 DEF NegotiationHolds
<1> QED BY <1>14, <1>17, <1>18 DEF TalkInv

LEMMA ClientDecides ==
    ASSUME TalkInv, ClientNegotiates
    PROVE  TalkInv'
<1>1. PICK mine \in Nat, its \in Nat, choice \in {"tcp", "udp"}, udp \in BOOLEAN, schema \in {1, 2} :
        /\ mine = talk.client /\ its = talk.relay /\ choice = talk.choice
        /\ udp = talk.udp /\ schema = talk.schema
  <2>1. talk.client \in Nat /\ talk.relay \in Nat /\ talk.choice \in {"tcp", "udp"} /\ talk.schema \in {1, 2}
    BY DEF TalkInv, TalkTypes
  <2>2. talk.udp \in BOOLEAN
    BY DEF TalkInv, TalkTypes
  <2> QED BY <2>1, <2>2, Zenon
<1>2. PICK answer, version, enabled :
        answer = talk.answer /\ version = talk.version /\ enabled = talk.enabled
  OBVIOUS
<1>3. PICK new : new = IF /\ answer = "ServerHello"
                          /\ version = [major |-> Major("relay"), minor |-> mine]
                          /\ {"resume", choice} \subseteq enabled
                       THEN "joined" ELSE "incompatible"
  OBVIOUS
<1>4. talk' = [talk EXCEPT !.state = new]
  BY <1>1, <1>2, <1>3 DEF ClientNegotiates, Required
<1>5. talk \in [state : {"start", "answered", "joined", "incompatible"}, client : Nat, relay : Nat,
              choice : {"tcp", "udp"}, udp : BOOLEAN, schema : {1, 2},
              answer : {"none", "UnsupportedBootstrapSchema", "UnsupportedProtocol",
                        "MissingRequiredCapabilities", "ServerHello"},
              enabled : SUBSET Known, version : [major : Nat, minor : Nat]]
  BY DEF TalkInv, TalkTypes
<1>6. new \in {"joined", "incompatible"}
  BY <1>3
<1>7. TalkTypes'
  <2>1. talk' \in [state : {"start", "answered", "joined", "incompatible"}, client : Nat, relay : Nat,
              choice : {"tcp", "udp"}, udp : BOOLEAN, schema : {1, 2},
              answer : {"none", "UnsupportedBootstrapSchema", "UnsupportedProtocol",
                        "MissingRequiredCapabilities", "ServerHello"},
              enabled : SUBSET Known, version : [major : Nat, minor : Nat]]
    BY ONLY <1>4, <1>5, <1>6
  <2> QED BY <2>1 DEF TalkTypes
<1>8. /\ talk'.state = new /\ talk'.version = version
      /\ talk'.enabled = enabled /\ talk'.client = mine /\ talk'.relay = its
      /\ talk'.choice = choice /\ talk'.udp = udp /\ talk'.schema = schema
  BY <1>1, <1>2, <1>4, <1>5
<1>9. PICK low \in Nat : low = IF mine < its THEN mine ELSE its
  OBVIOUS
<1>10. \/ /\ answer = "ServerHello"
          /\ version = [major |-> Major("relay"), minor |-> low]
          /\ Granted(enabled, choice, udp)
       \/ /\ answer # "ServerHello"
          /\ schema # 1 \/ (choice = "udp" /\ ~udp)
  <2>1. talk.state = "answered" /\ Lower = low
    BY <1>1, <1>9 DEF ClientNegotiates, Lower
  <2> QED BY <1>1, <1>2, <2>1 DEF TalkInv, RelayAnswered
<1>11. ASSUME new = "joined"
       PROVE  /\ version.minor = low /\ {"resume", choice} \subseteq enabled
              /\ "udp" \in enabled => udp
  BY <1>3, <1>10, <1>11 DEF Granted
<1>12. ASSUME new = "incompatible"
       PROVE  schema # 1 \/ mine > its \/ (choice = "udp" /\ ~udp)
  <2>1. CASE answer # "ServerHello"
    BY <1>10, <2>1
  <2>2. CASE answer = "ServerHello"
    <3>1. low # mine
      BY <1>3, <1>10, <1>12, <2>2 DEF Granted
    <3> QED BY <1>9, <3>1
  <2> QED BY <2>1, <2>2
<1>13. RelayAnswered'
  BY <1>6, <1>8 DEF RelayAnswered
<1>14. NegotiationHolds'
  BY <1>8, <1>9, <1>11, <1>12 DEF NegotiationHolds
<1> QED BY <1>7, <1>13, <1>14 DEF TalkInv

(* A frame is read as it was written, and the two ends agree about the      *)
(* version and the transport: decode_frame and encode of both frame.rs,     *)
(* select_protocol and select_capabilities of bootstrap.rs and the          *)
(* negotiate of the relay and of the client, for payloads of every length,  *)
(* any damage on the way and builds of every minor.                         *)
THEOREM WireIsAgreed == WireSpec => []WireAgrees
<1>1. FrameInit /\ TalkInit => FrameInv /\ TalkInv
  <2> SUFFICES ASSUME FrameInit, TalkInit PROVE FrameInv /\ TalkInv
    OBVIOUS
  <2>1. frame \in Frames /\ datagram = encode(frame) /\ damage = 0
    BY DEF FrameInit
  <2>2. WellFormed(frame)
    BY <2>1, FramesWellFormed
  <2>3. FrameInv
    BY <2>1, <2>2, EncodeCells DEF FrameInv
  <2>4. /\ talk \in [state : {"start"}, client : Builds, relay : Builds,
                     choice : {"tcp", "udp"}, udp : BOOLEAN, schema : {1, 2},
                     answer : {"none"}, enabled : {{}}, version : {NoVersion}]
        /\ Builds \subseteq Nat /\ NoVersion \in [major : Nat, minor : Nat]
    BY WireAssumption DEF TalkInit, NoVersion
  <2>5. TalkTypes
    BY <2>4 DEF TalkTypes
  <2>6. talk.state = "start"
    BY <2>4
  <2> QED BY <2>3, <2>5, <2>6 DEF TalkInv, RelayAnswered, NegotiationHolds
<1>2. FrameInv /\ TalkInv /\ [FrameStep \/ RelayNegotiates \/ ClientNegotiates]_wireVars
        => FrameInv' /\ TalkInv'
  <2> SUFFICES ASSUME FrameInv, TalkInv, [FrameStep \/ RelayNegotiates \/ ClientNegotiates]_wireVars
               PROVE  FrameInv' /\ TalkInv'
    OBVIOUS
  <2>1. CASE FrameStep
    <3>1. talk' = talk
      BY <2>1 DEF FrameStep, ChangeCell, Truncate, Append1, ExtendHeader, Altered
    <3>2. TalkInv'
      BY <3>1 DEF TalkInv, TalkTypes, RelayAnswered, NegotiationHolds, Lower
    <3> QED BY <2>1, <3>2, Alters
  <2>2. CASE UNCHANGED frameVars
    <3>1. FrameInv'
      BY <2>2 DEF FrameInv, frameVars
    <3>2. CASE UNCHANGED talk
      BY <3>1, <3>2 DEF TalkInv, TalkTypes, RelayAnswered, NegotiationHolds, Lower
    <3>3. CASE RelayNegotiates
      BY <3>1, <3>3, HelloAnswered
    <3>4. CASE ClientNegotiates
      BY <3>1, <3>4, ClientDecides
    <3>5. CASE FrameStep
      BY <2>1, <3>5
    <3> QED BY <3>2, <3>3, <3>4, <3>5 DEF wireVars
  <2>3. RelayNegotiates \/ ClientNegotiates \/ UNCHANGED wireVars => UNCHANGED frameVars
    BY DEF RelayNegotiates, ClientNegotiates, wireVars
  <2> QED BY <2>1, <2>2, <2>3
<1>3. FrameInv /\ TalkInv => WireAgrees
  BY WholeFrames DEF WireAgrees, TalkInv
<1> QED BY <1>1, <1>2, <1>3, PTL DEF WireSpec

--------------------------------------------------------------------------------
(* The traffic budget (TrafficBudgetSpec), for every limit, every window   *)
(* and every pattern of arrivals.  SlidingBound is not inductive: what is  *)
(* kept is that the open window holds exactly the frames since it opened   *)
(* (Windowed), that nothing was charged from its end on, and that the      *)
(* RateWindow ticks before it hold one limit's worth at most.              *)
Charges == [at : Nat, size : Nat, probe : BOOLEAN, passed : BOOLEAN]
Whats == {"packets", "bytes", "probes"}

LEMMA WeightType ==
    ASSUME NEW x \in Charges, NEW what \in Whats
    PROVE  Weight(x, what) \in Nat
  BY DEF Weight, Whats, Charges

(* Adding up the charged frames, one after the other.                      *)
TotalFoldRun(f, nought, evs, R, what, from, to) ==
    /\ f \in [0..Len(evs) -> R]
    /\ f[0] = nought
    /\ \A i \in 1..Len(evs) : f[i] = Added(f[i - 1], evs[i], what, from, to)
    /\ FoldLeft(LAMBDA total, x : Added(total, x, what, from, to), nought, evs) = f[Len(evs)]

LEMMA TotalFold ==
    ASSUME NEW what, NEW from, NEW to, NEW R, NEW E, NEW nought \in R, NEW evs \in Seq(E),
           \A r \in R : \A e \in E : Added(r, e, what, from, to) \in R
    PROVE  \E f : TotalFoldRun(f, nought, evs, R, what, from, to)
<1> DEFINE n == Len(evs)
           stage == [i \in 1..n |-> [r \in R |-> Added(r, evs[i], what, from, to)]]
           Step(it) == [s \in SUBSET (1..n) |->
                           IF s = {} THEN nought
                           ELSE Added(it[s \ {Max(s)}], evs[Max(s)], what, from, to)]
           it == CHOOSE x : x = Step(x)
<1>1. n \in Nat /\ DOMAIN evs = 1..n /\ \A i \in 1..n : evs[i] \in E
  OBVIOUS
<1> HIDE DEF n
<1>2. stage \in [1..n -> [R -> R]]
  BY <1>1
<1>3. PICK g : FoldsOver(g, n, R, nought, stage)
  <2> HIDE DEF stage
  <2> QED BY <1>1, <1>2, FoldExists
<1>4. g = Step(g)
  <2>1. ASSUME NEW s \in SUBSET (1..n), s # {}
        PROVE  g[s] = Added(g[s \ {Max(s)}], evs[Max(s)], what, from, to)
    <3>1. Max(s) \in 1..n
      <4>1. s \subseteq 0..n
        BY <1>1
      <4> QED BY <4>1, <2>1, <1>1, MaxOfBounded
    <3>2. g[s \ {Max(s)}] \in R /\ g[s] = stage[Max(s)][g[s \ {Max(s)}]]
      BY <2>1, <1>3 DEF FoldsOver
    <3> QED BY <3>1, <3>2
  <2>2. g[{}] = nought /\ DOMAIN g = SUBSET (1..n) /\ g = [s \in SUBSET (1..n) |-> g[s]]
    BY <1>3 DEF FoldsOver
  <2> HIDE DEF stage
  <2> QED BY <2>1, <2>2
<1>5. it = Step(it)
  <2> HIDE DEF Step
  <2> QED BY <1>4
<1>6. FoldLeft(LAMBDA total, x : Added(total, x, what, from, to), nought, evs) = it[1..n]
  BY Zenon, <1>1 DEF FoldLeft, MapThenFoldSet
<1>7. it[{}] = nought
  BY <1>5
<1>8. ASSUME NEW k \in 1..n
      PROVE  it[1..k] = Added(it[1..(k - 1)], evs[k], what, from, to)
  <2>0. n \in Nat
    BY <1>1
  <2>1. k \in Nat \ {0} /\ 1..k # {}
    <3>1. k \in Nat \ {0}
      BY ONLY <2>0, k \in 1..n
    <3>2. 1 \in 1..k
      BY ONLY <3>1
    <3> QED BY <3>1, <3>2
  <2>2. 1..k \in SUBSET (1..n)
    BY ONLY <2>0, k \in 1..n
  <2>3. Max(1..k) = k /\ (1..k) \ {k} = 1..(k - 1)
    BY <2>1, LastOfRange
  <2>4. it[1..k] = Added(it[(1..k) \ {Max(1..k)}], evs[Max(1..k)], what, from, to)
    <3> HIDE DEF it
    <3> QED BY Zenon, <1>5, <2>1, <2>2
  <2> HIDE DEF it
  <2> QED BY ONLY <2>3, <2>4
<1>9. ASSUME NEW k \in 1..n, it[1..(k - 1)] \in R
      PROVE  it[1..k] = stage[k][it[1..(k - 1)]]
  <2> HIDE DEF it
  <2> QED BY <1>8, <1>9
<1>10. \E f : Runs(f, n, R, nought, stage) /\ f[n] = it[1..n]
  <2>1. n \in Nat /\ stage \in [1..n -> [R -> R]] /\ it[{}] = nought
    BY ONLY <1>1, <1>2, <1>7
  <2>2. \A k \in 1..n : it[1..(k - 1)] \in R => it[1..k] = stage[k][it[1..(k - 1)]]
    <3> HIDE DEF it, stage, n
    <3> QED BY ONLY <1>9
  <2> HIDE DEF it, stage, Step, n
  <2> QED BY ONLY nought \in R, <2>1, <2>2, RunOfFold, SMTT(30)
<1>11. PICK f : Runs(f, n, R, nought, stage) /\ f[n] = it[1..n]
  BY <1>10
<1>12. ASSUME NEW i \in 1..n
       PROVE  f[i] = Added(f[i - 1], evs[i], what, from, to)
  <2>1. f[i - 1] \in R /\ f[i] = stage[i][f[i - 1]]
    <3>1. i - 1 \in 0..n
      BY <1>1
    <3> HIDE DEF stage
    <3> QED BY <3>1, <1>11 DEF Runs
  <2> QED BY <2>1
<1>13. f \in [0..n -> R] /\ f[0] = nought
  BY <1>11 DEF Runs
<1> HIDE DEF it
<1>14. TotalFoldRun(f, nought, evs, R, what, from, to)
  BY <1>6, <1>11, <1>12, <1>13 DEF n, TotalFoldRun
<1> QED BY <1>14

LEMMA TotalRun ==
    ASSUME NEW s \in Seq(Charges), NEW what \in Whats, NEW from \in Int, NEW to \in Int
    PROVE  \E f : /\ TotalFoldRun(f, 0, s, Nat, what, from, to)
                  /\ Total(s, what, from, to) = f[Len(s)]
<1>1. ASSUME NEW r \in Nat, NEW x \in Charges
      PROVE  Added(r, x, what, from, to) \in Nat
  BY WeightType DEF Added
<1>2. PICK f : TotalFoldRun(f, 0, s, Nat, what, from, to)
  BY <1>1, TotalFold
<1>3. Total(s, what, from, to) = f[Len(s)]
  BY <1>2 DEF TotalFoldRun, Total
<1> QED BY <1>2, <1>3

LEMMA TotalType ==
    ASSUME NEW s \in Seq(Charges), NEW what \in Whats, NEW from \in Int, NEW to \in Int
    PROVE  Total(s, what, from, to) \in Nat
<1>1. PICK f : /\ TotalFoldRun(f, 0, s, Nat, what, from, to)
               /\ Total(s, what, from, to) = f[Len(s)]
  BY TotalRun
<1>2. Len(s) \in 0..Len(s)
  OBVIOUS
<1> QED BY <1>1, <1>2 DEF TotalFoldRun

(* One more frame adds its weight, if it lies in the interval.             *)
LEMMA TotalAppend ==
    ASSUME NEW s \in Seq(Charges), NEW x \in Charges,
           NEW what \in Whats, NEW from \in Int, NEW to \in Int
    PROVE  Total(Append(s, x), what, from, to) = Added(Total(s, what, from, to), x, what, from, to)
<1> DEFINE n == Len(s)
<1>1. /\ n \in Nat /\ Append(s, x) \in Seq(Charges) /\ Len(Append(s, x)) = n + 1
      /\ Append(s, x)[n + 1] = x /\ \A i \in 1..n : Append(s, x)[i] = s[i]
  OBVIOUS
<1>2. PICK f : /\ TotalFoldRun(f, 0, s, Nat, what, from, to)
               /\ Total(s, what, from, to) = f[n]
  BY TotalRun
<1>3. PICK g : /\ TotalFoldRun(g, 0, Append(s, x), Nat, what, from, to)
               /\ Total(Append(s, x), what, from, to) = g[n + 1]
  <2>1. Append(s, x) \in Seq(Charges)
    BY <1>1
  <2>2. \E g : /\ TotalFoldRun(g, 0, Append(s, x), Nat, what, from, to)
               /\ Total(Append(s, x), what, from, to) = g[Len(Append(s, x))]
    BY <2>1, TotalRun
  <2>3. Len(Append(s, x)) = n + 1
    BY <1>1
  <2> QED BY ONLY <2>2, <2>3
<1>4. /\ f[0] = 0 /\ \A i \in 1..n : f[i] = Added(f[i - 1], s[i], what, from, to)
  BY <1>2 DEF TotalFoldRun
<1>5. /\ g[0] = 0
      /\ \A i \in 1..(n + 1) : g[i] = Added(g[i - 1], Append(s, x)[i], what, from, to)
  BY <1>1, <1>3 DEF TotalFoldRun
<1> DEFINE T == {i \in 0..n : f[i] = g[i]}
<1> HIDE DEF n
<1>6. 0 \in T
  BY <1>1, <1>4, <1>5
<1>7. ASSUME NEW i \in 0..n, i # n, i \in T
      PROVE  i + 1 \in T
  <2>1. i + 1 \in 1..n /\ i + 1 \in 1..(n + 1) /\ (i + 1) - 1 = i /\ i + 1 \in 0..n
    BY ONLY <1>1, i \in 0..n, i # n
  <2>2. f[i + 1] = Added(f[i], s[i + 1], what, from, to)
    BY <1>4, <2>1
  <2>3. g[i + 1] = Added(g[i], s[i + 1], what, from, to)
    BY <1>1, <1>5, <2>1
  <2> QED BY <1>7, <2>1, <2>2, <2>3
<1>8. n \in T
  <2>1. n \in 0..n
    BY <1>1
  <2> HIDE DEF T
  <2> QED BY <1>1, <1>6, <1>7, <2>1, CountsUp
<1>9. g[n + 1] = Added(g[n], x, what, from, to)
  <2>1. n + 1 \in 1..(n + 1) /\ (n + 1) - 1 = n
    BY <1>1
  <2> QED BY <1>1, <1>5, <2>1
<1> QED BY <1>2, <1>3, <1>8, <1>9

(* An interval is the sum of its halves.                                   *)
LEMMA TotalSplits ==
    ASSUME NEW s \in Seq(Charges), NEW what \in Whats,
           NEW from \in Int, NEW mid \in Int, NEW to \in Int, from <= mid, mid <= to
    PROVE  Total(s, what, from, to) = Total(s, what, from, mid) + Total(s, what, mid, to)
<1> DEFINE n == Len(s)
<1>1. n \in Nat /\ \A i \in 1..n : s[i] \in Charges
  OBVIOUS
<1>2. PICK f : TotalFoldRun(f, 0, s, Nat, what, from, to) /\ Total(s, what, from, to) = f[n]
  BY TotalRun
<1>3. PICK g : TotalFoldRun(g, 0, s, Nat, what, from, mid) /\ Total(s, what, from, mid) = g[n]
  BY TotalRun
<1>4. PICK h : TotalFoldRun(h, 0, s, Nat, what, mid, to) /\ Total(s, what, mid, to) = h[n]
  BY TotalRun
<1>5. /\ f \in [0..n -> Nat] /\ f[0] = 0
      /\ \A i \in 1..n : f[i] = Added(f[i - 1], s[i], what, from, to)
  BY <1>2 DEF TotalFoldRun
<1>6. /\ g \in [0..n -> Nat] /\ g[0] = 0
      /\ \A i \in 1..n : g[i] = Added(g[i - 1], s[i], what, from, mid)
  BY <1>3 DEF TotalFoldRun
<1>7. /\ h \in [0..n -> Nat] /\ h[0] = 0
      /\ \A i \in 1..n : h[i] = Added(h[i - 1], s[i], what, mid, to)
  BY <1>4 DEF TotalFoldRun
<1> DEFINE T == {i \in 0..n : f[i] = g[i] + h[i]}
<1> HIDE DEF n
<1>8. 0 \in T
  BY <1>1, <1>5, <1>6, <1>7
<1>9. ASSUME NEW i \in 0..n, i # n, i \in T
      PROVE  i + 1 \in T
  <2>1. i + 1 \in 1..n /\ (i + 1) - 1 = i /\ i + 1 \in 0..n
    BY ONLY <1>1, i \in 0..n, i # n
  <2>2. /\ f[i + 1] = Added(f[i], s[i + 1], what, from, to)
        /\ g[i + 1] = Added(g[i], s[i + 1], what, from, mid)
        /\ h[i + 1] = Added(h[i], s[i + 1], what, mid, to)
    BY <1>5, <1>6, <1>7, <2>1
  <2>3. f[i] = g[i] + h[i] /\ f[i] \in Nat /\ g[i] \in Nat /\ h[i] \in Nat
    BY <1>5, <1>6, <1>7, <1>9
  <2>4. PICK at, w : at = s[i + 1].at /\ w = Weight(s[i + 1], what)
    OBVIOUS
  <2>5. at \in Nat /\ w \in Nat
    BY <1>1, <2>1, <2>4, WeightType DEF Charges
  <2>6. /\ f[i + 1] = IF from <= at /\ at < to THEN f[i] + w ELSE f[i]
        /\ g[i + 1] = IF from <= at /\ at < mid THEN g[i] + w ELSE g[i]
        /\ h[i + 1] = IF mid <= at /\ at < to THEN h[i] + w ELSE h[i]
    BY <2>2, <2>4 DEF Added
  <2>7. f[i + 1] = g[i + 1] + h[i + 1]
    BY ONLY <2>3, <2>5, <2>6, from \in Int, mid \in Int, to \in Int, from <= mid, mid <= to
  <2> QED BY <2>1, <2>7
<1>10. n \in T
  <2>1. n \in 0..n
    BY <1>1
  <2> HIDE DEF T
  <2> QED BY <1>1, <1>8, <1>9, <2>1, CountsUp
<1> QED BY <1>2, <1>3, <1>4, <1>10

(* A smaller interval holds no more.                                       *)
LEMMA TotalGrows ==
    ASSUME NEW s \in Seq(Charges), NEW what \in Whats,
           NEW from \in Int, NEW a \in Int, NEW z \in Int, NEW to \in Int,
           from <= a, a <= z, z <= to
    PROVE  Total(s, what, a, z) <= Total(s, what, from, to)
<1>1. Total(s, what, from, to) = Total(s, what, from, a) + Total(s, what, a, to)
  <2>1. a <= to
    OBVIOUS
  <2> QED BY <2>1, TotalSplits
<1>2. Total(s, what, a, to) = Total(s, what, a, z) + Total(s, what, z, to)
  BY TotalSplits
<1>3. /\ Total(s, what, from, a) \in Nat /\ Total(s, what, a, to) \in Nat
      /\ Total(s, what, a, z) \in Nat /\ Total(s, what, z, to) \in Nat
  BY TotalType
<1> QED BY <1>1, <1>2, <1>3

(* A kind of traffic with its window: what the open window holds, that     *)
(* nothing was charged from its end on, what the ticks before it hold, and *)
(* the bound on every interval.                                            *)
Windowed(s, what, start, amount, limit, n) ==
    /\ \A to \in Int : to > n => Total(s, what, start, to) = amount
    /\ \A to \in Int : to >= start + RateWindow => Total(s, what, start + RateWindow, to) = 0
    /\ Total(s, what, start - RateWindow, start) <= limit
    /\ \A t \in Int : Total(s, what, t, t + RateWindow) <= 2 * limit

(* Opening a fresh window once RateWindow has passed.                      *)
LEMMA WindowReopens ==
    ASSUME NEW s \in Seq(Charges), NEW what \in Whats, NEW start \in Nat, NEW n \in Nat,
           NEW limit \in Nat, NEW amount \in 0..limit,
           Windowed(s, what, start, amount, limit, n), n - start >= RateWindow
    PROVE  Windowed(s, what, n, 0, limit, n)
<1> USE BudgetAssumption
<1>1. /\ \A to \in Int : to > n => Total(s, what, start, to) = amount
      /\ \A to \in Int : to >= start + RateWindow => Total(s, what, start + RateWindow, to) = 0
      /\ \A t \in Int : Total(s, what, t, t + RateWindow) <= 2 * limit
  BY DEF Windowed
<1>2. ASSUME NEW a \in Int, NEW to \in Int, start + RateWindow <= a, a <= to
      PROVE  Total(s, what, a, to) = 0
  <2>1. start + RateWindow \in Int /\ start + RateWindow <= to
    BY <1>2
  <2>2. Total(s, what, start + RateWindow, to) = 0
    BY <1>1, <2>1
  <2>3. Total(s, what, a, to) <= Total(s, what, start + RateWindow, to)
    BY <1>2, <2>1, TotalGrows
  <2>4. Total(s, what, a, to) \in Nat
    BY TotalType
  <2> QED BY <2>2, <2>3, <2>4
<1>3. \A to \in Int : to > n => Total(s, what, n, to) = 0
  BY <1>2
<1>4. \A to \in Int : to >= n + RateWindow => Total(s, what, n + RateWindow, to) = 0
  <2> TAKE to \in Int
  <2> HAVE to >= n + RateWindow
  <2>1. n + RateWindow \in Int /\ start + RateWindow <= n + RateWindow
    OBVIOUS
  <2> QED BY <1>2, <2>1
<1>5. Total(s, what, n - RateWindow, n) <= limit
  <2>1. /\ n - RateWindow \in Int /\ n + 1 \in Int /\ start <= n - RateWindow
        /\ n - RateWindow <= n /\ n <= n + 1 /\ n + 1 > n
    OBVIOUS
  <2>2. Total(s, what, n - RateWindow, n) <= Total(s, what, start, n + 1)
    BY <2>1, TotalGrows
  <2>3. Total(s, what, start, n + 1) = amount
    BY <1>1, <2>1
  <2>4. Total(s, what, n - RateWindow, n) \in Nat
    BY <2>1, TotalType
  <2> QED BY <2>2, <2>3, <2>4
<1> QED BY <1>1, <1>3, <1>4, <1>5 DEF Windowed

(* Charging a frame of weight k to the open window.                        *)
LEMMA WindowCharges ==
    ASSUME NEW s \in Seq(Charges), NEW what \in Whats, NEW start \in Nat, NEW n \in Nat,
           NEW limit \in Nat, NEW amount \in 0..limit,
           NEW x \in Charges, x.at = n, start <= n,
           Windowed(s, what, start, amount, limit, n), n - start < RateWindow,
           amount + Weight(x, what) <= limit
    PROVE  Windowed(Append(s, x), what, start, amount + Weight(x, what), limit, n)
<1> USE BudgetAssumption
<1> DEFINE k == Weight(x, what)
<1>0. k \in Nat
  BY WeightType
<1>1. /\ \A to \in Int : to > n => Total(s, what, start, to) = amount
      /\ \A to \in Int : to >= start + RateWindow => Total(s, what, start + RateWindow, to) = 0
      /\ Total(s, what, start - RateWindow, start) <= limit
      /\ \A t \in Int : Total(s, what, t, t + RateWindow) <= 2 * limit
  BY DEF Windowed
<1>2. ASSUME NEW from \in Int, NEW to \in Int
      PROVE  Total(Append(s, x), what, from, to) =
                IF from <= n /\ n < to THEN Total(s, what, from, to) + k
                ELSE Total(s, what, from, to)
  BY TotalAppend DEF Added
<1> HIDE DEF k
<1>3. \A to \in Int : to > n => Total(Append(s, x), what, start, to) = amount + k
  <2> TAKE to \in Int
  <2> HAVE to > n
  <2>1. Total(Append(s, x), what, start, to) = Total(s, what, start, to) + k
    BY <1>2
  <2> QED BY <1>1, <2>1
<1>4. \A to \in Int : to >= start + RateWindow =>
         Total(Append(s, x), what, start + RateWindow, to) = 0
  <2> TAKE to \in Int
  <2> HAVE to >= start + RateWindow
  <2>1. start + RateWindow \in Int /\ ~(start + RateWindow <= n)
    OBVIOUS
  <2>2. Total(Append(s, x), what, start + RateWindow, to) = Total(s, what, start + RateWindow, to)
    BY <1>2, <2>1
  <2> QED BY <1>1, <2>2
<1>5. Total(Append(s, x), what, start - RateWindow, start) <= limit
  <2>1. start - RateWindow \in Int /\ ~(n < start)
    OBVIOUS
  <2>2. Total(Append(s, x), what, start - RateWindow, start) = Total(s, what, start - RateWindow, start)
    BY <1>2, <2>1
  <2> QED BY <1>1, <2>2
<1>6. \A t \in Int : Total(Append(s, x), what, t, t + RateWindow) <= 2 * limit
  <2> TAKE t \in Int
  <2>1. t + RateWindow \in Int
    OBVIOUS
  <2>2. CASE ~(t <= n /\ n < t + RateWindow)
    <3>1. Total(Append(s, x), what, t, t + RateWindow) = Total(s, what, t, t + RateWindow)
      BY <1>2, <2>1, <2>2
    <3> QED BY <1>1, <3>1
  <2>3. CASE t <= n /\ n < t + RateWindow
    <3>1. Total(Append(s, x), what, t, t + RateWindow) = Total(s, what, t, t + RateWindow) + k
      BY <1>2, <2>1, <2>3
    <3>2. /\ Total(s, what, t, t + RateWindow) \in Nat
          /\ Total(s, what, start, t + RateWindow) = amount
      BY <1>1, <2>1, <2>3, TotalType
    <3>3. CASE t <= start
      <4>1. start <= t + RateWindow /\ start - RateWindow \in Int /\ start - RateWindow <= t
        BY <2>3
      <4>2. Total(s, what, t, t + RateWindow)
              = Total(s, what, t, start) + Total(s, what, start, t + RateWindow)
        BY <2>1, <3>3, <4>1, TotalSplits
      <4>3. Total(s, what, t, start) <= Total(s, what, start - RateWindow, start)
        BY <3>3, <4>1, TotalGrows
      <4>4. /\ Total(s, what, t, start) \in Nat
            /\ Total(s, what, start - RateWindow, start) \in Nat
        BY <4>1, TotalType
      <4>5. amount + k <= limit
        BY DEF k
      <4>6. Total(s, what, start - RateWindow, start) <= limit
        BY <1>1
      <4> HIDE DEF k
      <4>7. /\ k \in Nat /\ limit \in Nat /\ amount \in Nat
            /\ Total(Append(s, x), what, t, t + RateWindow)
                 = (Total(s, what, t, start) + amount) + k
        BY <1>0, <3>1, <3>2, <4>2
      <4>8. ASSUME NEW A \in Nat, NEW cap \in Nat, NEW am \in Nat, NEW kk \in Nat, NEW lim \in Nat,
                   A <= cap, cap <= lim, am + kk <= lim
            PROVE  (A + am) + kk <= 2 * lim
        BY ONLY <4>8
      <4>9. (Total(s, what, t, start) + amount) + k <= 2 * limit
        BY ONLY <4>3, <4>4, <4>5, <4>6, <4>7, <4>8
      <4> QED BY <4>7, <4>9
    <3>4. CASE ~(t <= start)
      <4>1. start <= t /\ t <= t + RateWindow
        BY <3>4
      <4>2. Total(s, what, t, t + RateWindow) <= Total(s, what, start, t + RateWindow)
        BY <2>1, <4>1, TotalGrows
      <4>3. amount + k <= limit
        BY DEF k
      <4>4. k \in Nat /\ limit \in Nat /\ amount \in Nat
        BY <1>0
      <4>5. ASSUME NEW A \in Nat, NEW am \in Nat, NEW kk \in Nat, NEW lim \in Nat,
                   A <= am, am + kk <= lim
            PROVE  A + kk <= 2 * lim
        BY ONLY <4>5
      <4>6. Total(s, what, t, t + RateWindow) + k <= 2 * limit
        BY ONLY <3>2, <4>2, <4>3, <4>4, <4>5
      <4> QED BY <3>1, <4>6
    <3> QED BY <3>3, <3>4
  <2> QED BY <2>2, <2>3
<1> QED BY <1>3, <1>4, <1>5, <1>6 DEF Windowed, k

(* A frame that does not count for this kind changes nothing, whether its  *)
(* window is still open or not.                                            *)
LEMMA WindowIgnores ==
    ASSUME NEW s \in Seq(Charges), NEW what \in Whats, NEW start \in Nat, NEW n \in Nat,
           NEW limit \in Nat, NEW amount \in 0..limit,
           NEW x \in Charges, Weight(x, what) = 0,
           Windowed(s, what, start, amount, limit, n)
    PROVE  Windowed(Append(s, x), what, start, amount, limit, n)
<1>1. ASSUME NEW from \in Int, NEW to \in Int
      PROVE  Total(Append(s, x), what, from, to) = Total(s, what, from, to)
  <2>1. Total(s, what, from, to) \in Nat
    BY TotalType
  <2> QED BY <2>1, TotalAppend DEF Added
<1>2. start + RateWindow \in Int /\ start - RateWindow \in Int
      /\ \A t \in Int : t + RateWindow \in Int
  BY BudgetAssumption
<1>3. \A to \in Int : to > n => Total(Append(s, x), what, start, to) = amount
  BY <1>1 DEF Windowed
<1>4. \A to \in Int : to >= start + RateWindow =>
         Total(Append(s, x), what, start + RateWindow, to) = 0
  BY <1>1, <1>2 DEF Windowed
<1>5. Total(Append(s, x), what, start - RateWindow, start) <= limit
  BY <1>1, <1>2 DEF Windowed
<1>6. \A t \in Int : Total(Append(s, x), what, t, t + RateWindow) <= 2 * limit
  <2> TAKE t \in Int
  <2>1. Total(Append(s, x), what, t, t + RateWindow) = Total(s, what, t, t + RateWindow)
    BY <1>1, <1>2
  <2> QED BY <2>1 DEF Windowed
<1> QED BY <1>3, <1>4, <1>5, <1>6 DEF Windowed

LEMMA WindowTicks ==
    ASSUME NEW s \in Seq(Charges), NEW what \in Whats, NEW start \in Nat, NEW n \in Nat,
           NEW limit \in Nat, NEW amount \in 0..limit,
           Windowed(s, what, start, amount, limit, n)
    PROVE  Windowed(s, what, start, amount, limit, n + 1)
<1>1. \A to \in Int : to > n + 1 => to > n
  OBVIOUS
<1> QED BY <1>1 DEF Windowed

--------------------------------------------------------------------------------
(* The inductive invariant, of a budget m, a history s and a time n.       *)
Metered(m, s, n) ==
    /\ m \in Budgets /\ s \in Seq(Charges) /\ n \in Nat
    /\ m.started <= n /\ m.probeStarted <= n
    /\ Windowed(s, "packets", m.started, m.packets, PacketLimit, n)
    /\ Windowed(s, "bytes", m.started, m.bytes, ByteBurst, n)
    /\ Windowed(s, "probes", m.probeStarted, m.probes, ProbeLimit, n)

BudgetInv == Metered(budget, charged, now)

LEMMA LimitsAreNat ==
    /\ PacketLimit \in Nat /\ ByteBurst \in Nat /\ ProbeLimit \in Nat
    /\ "packets" \in Whats /\ "bytes" \in Whats /\ "probes" \in Whats
  BY BudgetAssumption DEF Whats

(* Setting the fields of one of the two windows leaves the other alone.    *)
TrafficPart(m, start, packets, bytes) ==
    [m EXCEPT !.started = start, !.packets = packets, !.bytes = bytes]
ProbePart(m, start, probes) == [m EXCEPT !.probeStarted = start, !.probes = probes]

LEMMA TrafficFields ==
    ASSUME NEW m \in Budgets, NEW start \in Nat,
           NEW packets \in 0..PacketLimit, NEW bytes \in 0..ByteBurst
    PROVE  /\ TrafficPart(m, start, packets, bytes) \in Budgets
           /\ TrafficPart(m, start, packets, bytes).started = start
           /\ TrafficPart(m, start, packets, bytes).packets = packets
           /\ TrafficPart(m, start, packets, bytes).bytes = bytes
           /\ TrafficPart(m, start, packets, bytes).probeStarted = m.probeStarted
           /\ TrafficPart(m, start, packets, bytes).probes = m.probes
<1> DEFINE w == TrafficPart(m, start, packets, bytes)
<1>1. /\ m.probeStarted \in Nat /\ m.probes \in 0..ProbeLimit
      /\ w = [started |-> start, packets |-> packets, bytes |-> bytes,
              probeStarted |-> m.probeStarted, probes |-> m.probes]
  <2>1. /\ m.probeStarted \in Nat /\ m.probes \in 0..ProbeLimit
    BY DEF Budgets
  <2>2. m = [started |-> m.started, packets |-> m.packets, bytes |-> m.bytes,
             probeStarted |-> m.probeStarted, probes |-> m.probes]
    BY DEF Budgets
  <2> DEFINE r == [started |-> m.started, packets |-> m.packets, bytes |-> m.bytes,
                   probeStarted |-> m.probeStarted, probes |-> m.probes]
  <2>3. w = [r EXCEPT !.started = start, !.packets = packets, !.bytes = bytes]
    BY <2>2 DEF TrafficPart
  <2>4. w = [started |-> start, packets |-> packets, bytes |-> bytes,
                probeStarted |-> m.probeStarted, probes |-> m.probes]
    BY ONLY <2>3
  <2> QED BY <2>1, <2>4
<1> HIDE DEF w
<1>2. /\ w \in Budgets /\ w.started = start /\ w.packets = packets /\ w.bytes = bytes
      /\ w.probeStarted = m.probeStarted /\ w.probes = m.probes
  BY ONLY <1>1, start \in Nat, packets \in 0..PacketLimit, bytes \in 0..ByteBurst DEF Budgets
<1> QED BY <1>2 DEF w

LEMMA ProbeFields ==
    ASSUME NEW m \in Budgets, NEW start \in Nat, NEW probes \in 0..ProbeLimit
    PROVE  /\ ProbePart(m, start, probes) \in Budgets
           /\ ProbePart(m, start, probes).probeStarted = start
           /\ ProbePart(m, start, probes).probes = probes
           /\ ProbePart(m, start, probes).started = m.started
           /\ ProbePart(m, start, probes).packets = m.packets
           /\ ProbePart(m, start, probes).bytes = m.bytes
<1> DEFINE w == ProbePart(m, start, probes)
<1>1. /\ m.started \in Nat /\ m.packets \in 0..PacketLimit /\ m.bytes \in 0..ByteBurst
      /\ w = [started |-> m.started, packets |-> m.packets, bytes |-> m.bytes,
              probeStarted |-> start, probes |-> probes]
  <2>1. /\ m.started \in Nat /\ m.packets \in 0..PacketLimit /\ m.bytes \in 0..ByteBurst
    BY DEF Budgets
  <2>2. m = [started |-> m.started, packets |-> m.packets, bytes |-> m.bytes,
             probeStarted |-> m.probeStarted, probes |-> m.probes]
    BY DEF Budgets
  <2> DEFINE r == [started |-> m.started, packets |-> m.packets, bytes |-> m.bytes,
                   probeStarted |-> m.probeStarted, probes |-> m.probes]
  <2>3. w = [r EXCEPT !.probeStarted = start, !.probes = probes]
    BY <2>2 DEF ProbePart
  <2>4. w = [started |-> m.started, packets |-> m.packets, bytes |-> m.bytes,
                probeStarted |-> start, probes |-> probes]
    BY ONLY <2>3
  <2> QED BY <2>1, <2>4
<1> HIDE DEF w
<1>2. /\ w \in Budgets /\ w.probeStarted = start /\ w.probes = probes
      /\ w.started = m.started /\ w.packets = m.packets /\ w.bytes = m.bytes
  BY ONLY <1>1, start \in Nat, probes \in 0..ProbeLimit DEF Budgets
<1> QED BY <1>2 DEF w

(* check_traffic opens a fresh window when it is time, whatever it decides *)
(* about the frame.                                                        *)
LEMMA TrafficWindowMetered ==
    ASSUME NEW m, NEW s, NEW n, Metered(m, s, n)
    PROVE  /\ Metered(TrafficWindow(m, n), s, n)
           /\ n - TrafficWindow(m, n).started < RateWindow
<1>0. /\ m \in Budgets /\ s \in Seq(Charges) /\ n \in Nat
      /\ m.started \in Nat /\ m.packets \in 0..PacketLimit /\ m.bytes \in 0..ByteBurst
      /\ RateWindow \in Nat \ {0}
  BY BudgetAssumption DEF Metered, Budgets
<1>1. CASE n - m.started >= RateWindow
  <2> DEFINE w == TrafficPart(m, n, 0, 0)
  <2>1. TrafficWindow(m, n) = w
    BY <1>1 DEF TrafficWindow, TrafficPart
  <2>2. /\ w \in Budgets /\ w.started = n /\ w.packets = 0 /\ w.bytes = 0
        /\ w.probeStarted = m.probeStarted /\ w.probes = m.probes
    <3>1. 0 \in 0..PacketLimit /\ 0 \in 0..ByteBurst
      BY LimitsAreNat
    <3> HIDE DEF w
    <3> QED BY <1>0, <3>1, TrafficFields DEF w
  <2>3. Windowed(s, "packets", n, 0, PacketLimit, n)
    BY <1>0, <1>1, LimitsAreNat, WindowReopens DEF Metered
  <2>4. Windowed(s, "bytes", n, 0, ByteBurst, n)
    BY <1>0, <1>1, LimitsAreNat, WindowReopens DEF Metered
  <2> HIDE DEF w
  <2> QED BY <1>0, <2>1, <2>2, <2>3, <2>4 DEF Metered
<1>2. CASE ~(n - m.started >= RateWindow)
  <2>1. TrafficWindow(m, n) = m
    BY <1>2 DEF TrafficWindow
  <2> QED BY <1>0, <1>2, <2>1
<1> QED BY <1>1, <1>2

LEMMA ProbeWindowMetered ==
    ASSUME NEW m, NEW s, NEW n, Metered(m, s, n)
    PROVE  /\ Metered(ProbeWindow(m, n), s, n)
           /\ n - ProbeWindow(m, n).probeStarted < RateWindow
<1>0. /\ m \in Budgets /\ s \in Seq(Charges) /\ n \in Nat
      /\ m.probeStarted \in Nat /\ m.probes \in 0..ProbeLimit
      /\ RateWindow \in Nat \ {0}
  BY BudgetAssumption DEF Metered, Budgets
<1>1. CASE n - m.probeStarted >= RateWindow
  <2> DEFINE w == ProbePart(m, n, 0)
  <2>1. ProbeWindow(m, n) = w
    BY <1>1 DEF ProbeWindow, ProbePart
  <2>2. /\ w \in Budgets /\ w.started = m.started /\ w.packets = m.packets /\ w.bytes = m.bytes
        /\ w.probeStarted = n /\ w.probes = 0
    <3>1. 0 \in 0..ProbeLimit
      BY LimitsAreNat
    <3> HIDE DEF w
    <3> QED BY <1>0, <3>1, ProbeFields DEF w
  <2>3. Windowed(s, "probes", n, 0, ProbeLimit, n)
    BY <1>0, <1>1, LimitsAreNat, WindowReopens DEF Metered
  <2> HIDE DEF w
  <2> QED BY <1>0, <2>1, <2>2, <2>3 DEF Metered
<1>2. CASE ~(n - m.probeStarted >= RateWindow)
  <2>1. ProbeWindow(m, n) = m
    BY <1>2 DEF ProbeWindow
  <2> QED BY <1>0, <1>2, <2>1
<1> QED BY <1>1, <1>2

(* A frame that fits is charged; passed says whether a probe limit that    *)
(* was asked agreed; q is the budget after both.                           *)
LEMMA FrameMetered ==
    ASSUME NEW m, NEW s, NEW n, Metered(m, s, n),
           NEW size \in Nat, NEW probe \in BOOLEAN, NEW passed \in BOOLEAN,
           TrafficFits(m, size, n),
           NEW q \in Budgets,
           /\ q.started = CheckTraffic(m, size, n).started
           /\ q.packets = CheckTraffic(m, size, n).packets
           /\ q.bytes = CheckTraffic(m, size, n).bytes,
           q.probeStarted <= n,
           Windowed(Append(s, [at |-> n, size |-> size, probe |-> probe, passed |-> passed]),
                    "probes", q.probeStarted, q.probes, ProbeLimit, n)
    PROVE  Metered(q, Append(s, [at |-> n, size |-> size, probe |-> probe, passed |-> passed]), n)
<1> DEFINE w == TrafficWindow(m, n)
           x == [at |-> n, size |-> size, probe |-> probe, passed |-> passed]
<1>1. Metered(w, s, n) /\ n - w.started < RateWindow
  BY TrafficWindowMetered
<1> HIDE DEF w
<1>2. /\ w \in Budgets /\ s \in Seq(Charges) /\ n \in Nat /\ w.started <= n
      /\ Windowed(s, "packets", w.started, w.packets, PacketLimit, n)
      /\ Windowed(s, "bytes", w.started, w.bytes, ByteBurst, n)
  BY <1>1 DEF Metered
<1>3. /\ w.started \in Nat /\ w.packets \in 0..PacketLimit /\ w.bytes \in 0..ByteBurst
  BY <1>2 DEF Budgets
<1>4. x \in Charges /\ x.at = n /\ Weight(x, "packets") = 1 /\ Weight(x, "bytes") = size
  BY <1>2 DEF Charges, Weight
<1>5. w.packets + 1 <= PacketLimit /\ w.bytes + size <= ByteBurst
  BY DEF TrafficFits, w
<1>6. CheckTraffic(m, size, n) = [w EXCEPT !.packets = @ + 1, !.bytes = @ + size]
  BY DEF CheckTraffic, w
<1>7. q.started = w.started /\ q.packets = w.packets + 1 /\ q.bytes = w.bytes + size
  BY <1>2, <1>6 DEF Budgets
<1> HIDE DEF x
<1>8. Windowed(Append(s, x), "packets", w.started, w.packets + Weight(x, "packets"), PacketLimit, n)
  BY <1>1, <1>2, <1>3, <1>4, <1>5, LimitsAreNat, WindowCharges
<1>9. Windowed(Append(s, x), "bytes", w.started, w.bytes + Weight(x, "bytes"), ByteBurst, n)
  BY <1>1, <1>2, <1>3, <1>4, <1>5, LimitsAreNat, WindowCharges
<1>10. Append(s, x) \in Seq(Charges)
  BY <1>2, <1>4
<1>11. Windowed(Append(s, x), "probes", q.probeStarted, q.probes, ProbeLimit, n)
  BY DEF x
<1>12. Metered(q, Append(s, x), n)
  BY <1>2, <1>4, <1>7, <1>8, <1>9, <1>10, <1>11 DEF Metered
<1> QED BY <1>12 DEF x

LEMMA CheckedTraffic ==
    ASSUME NEW m, NEW s, NEW n, Metered(m, s, n), NEW size \in Nat
    PROVE  /\ CheckTraffic(m, size, n) \in Budgets
           /\ CheckTraffic(m, size, n).probeStarted = m.probeStarted
           /\ CheckTraffic(m, size, n).probes = m.probes
           /\ ~TrafficFits(m, size, n) => Metered(CheckTraffic(m, size, n), s, n)
<1> DEFINE w == TrafficWindow(m, n)
<1>0. m \in Budgets
  BY DEF Metered
<1>1. Metered(w, s, n)
  BY TrafficWindowMetered
<1>2. w.probeStarted = m.probeStarted /\ w.probes = m.probes
  BY <1>0 DEF TrafficWindow, Budgets
<1>3. CASE ~TrafficFits(m, size, n)
  <2>1. CheckTraffic(m, size, n) = w
    BY <1>3 DEF CheckTraffic
  <2> QED BY <1>1, <1>2, <2>1 DEF Metered
<1>4. CASE TrafficFits(m, size, n)
  <2>1. w.packets + 1 <= PacketLimit /\ w.bytes + size <= ByteBurst
    BY <1>4 DEF TrafficFits
  <2>2. CheckTraffic(m, size, n) = [w EXCEPT !.packets = @ + 1, !.bytes = @ + size]
    BY <1>4 DEF CheckTraffic
  <2>3. w \in Budgets
    BY <1>1 DEF Metered
  <2> HIDE DEF w
  <2>4. w.started \in Nat /\ w.packets \in Nat /\ w.bytes \in Nat
    BY <2>3 DEF Budgets
  <2>5. w.packets + 1 \in 0..PacketLimit /\ w.bytes + size \in 0..ByteBurst
    BY <2>1, <2>4, LimitsAreNat
  <2>6. CheckTraffic(m, size, n)
          = TrafficPart(w, w.started, w.packets + 1, w.bytes + size)
    BY <2>2, <2>3 DEF Budgets, TrafficPart
  <2>7. /\ CheckTraffic(m, size, n) \in Budgets
        /\ CheckTraffic(m, size, n).probeStarted = w.probeStarted
        /\ CheckTraffic(m, size, n).probes = w.probes
    BY <2>3, <2>4, <2>5, <2>6, TrafficFields, SMTT(30)
  <2> QED BY <1>2, <1>4, <2>7
<1> QED BY <1>3, <1>4

LEMMA DataMetered ==
    ASSUME BudgetInv, NEW size \in Sizes, Data(size)
    PROVE  BudgetInv'
<1>1. Metered(budget, charged, now) /\ size \in Nat
  BY SpecAssumption DEF BudgetInv
<1>2. budget' = CheckTraffic(budget, size, now) /\ now' = now
  BY DEF Data
<1>3. CASE ~TrafficFits(budget, size, now)
  <2>1. charged' = charged
    BY <1>3 DEF Data, Record
  <2>2. Metered(CheckTraffic(budget, size, now), charged, now)
    BY <1>1, <1>3, CheckedTraffic
  <2> QED BY <1>2, <2>1, <2>2 DEF BudgetInv
<1>4. CASE TrafficFits(budget, size, now)
  <2> DEFINE x == [at |-> now, size |-> size, probe |-> FALSE, passed |-> TRUE]
             q == CheckTraffic(budget, size, now)
  <2>1. charged' = Append(charged, x)
    BY <1>4 DEF Data, Record
  <2>2. /\ budget \in Budgets /\ charged \in Seq(Charges) /\ now \in Nat
        /\ budget.probeStarted <= now
        /\ Windowed(charged, "probes", budget.probeStarted, budget.probes, ProbeLimit, now)
    BY <1>1 DEF Metered
  <2>3. budget.probeStarted \in Nat /\ budget.probes \in 0..ProbeLimit
    BY <2>2 DEF Budgets
  <2>4. x \in Charges /\ Weight(x, "probes") = 0
    BY <1>1, <2>2 DEF Charges, Weight
  <2>5. Windowed(Append(charged, x), "probes", budget.probeStarted, budget.probes, ProbeLimit, now)
    <3> HIDE DEF x
    <3> QED BY <2>2, <2>3, <2>4, LimitsAreNat, WindowIgnores
  <2>6. q \in Budgets /\ q.probeStarted = budget.probeStarted /\ q.probes = budget.probes
    BY <1>1, CheckedTraffic
  <2> HIDE DEF q
  <2>7. Metered(q, Append(charged, x), now)
    BY <1>1, <1>4, <2>2, <2>5, <2>6, FrameMetered DEF q
  <2> QED BY <1>2, <2>1, <2>7 DEF BudgetInv, q
<1> QED BY <1>3, <1>4


(* A probe that passes the traffic budget is counted by the probe window,  *)
(* which it may reopen; one the probe limit refuses counts for nothing.    *)
LEMMA ProbeMetered ==
    ASSUME BudgetInv, NEW size \in Sizes, ProbeFrame(size)
    PROVE  BudgetInv'
<1> DEFINE q == CheckTraffic(budget, size, now)
<1>1. Metered(budget, charged, now) /\ size \in Nat
  BY SpecAssumption DEF BudgetInv
<1>2. now' = now
  BY DEF ProbeFrame
<1>3. CASE ~TrafficFits(budget, size, now)
  <2>1. charged' = charged /\ budget' = q
    BY <1>3 DEF ProbeFrame, Record
  <2>2. Metered(q, charged, now)
    BY <1>1, <1>3, CheckedTraffic
  <2> QED BY <1>2, <2>1, <2>2 DEF BudgetInv
<1>4. CASE TrafficFits(budget, size, now)
  <2> DEFINE v == ProbeFits(q, now)
             x == [at |-> now, size |-> size, probe |-> TRUE, passed |-> v]
             w == ProbeWindow(budget, now)
             d == ProbeWindow(q, now)
  <2>0. charged' = Append(charged, x) /\ budget' = CheckProbe(q, now)
    <3>1. /\ Record(size, TRUE, TRUE, TRUE /\ v)
          /\ budget' = CheckProbe(q, now)
      BY <1>4 DEF ProbeFrame
    <3>2. (TRUE /\ v) = v
      BY DEF ProbeFits
    <3> QED BY <3>1, <3>2 DEF Record
  <2>1. q \in Budgets /\ q.probeStarted = budget.probeStarted /\ q.probes = budget.probes
    BY <1>1, CheckedTraffic
  <2>2. budget \in Budgets /\ charged \in Seq(Charges) /\ now \in Nat
    BY <1>1 DEF Metered
  <2>3. Metered(w, charged, now) /\ now - w.probeStarted < RateWindow
    BY <1>1, ProbeWindowMetered
  <2>4. /\ d \in Budgets /\ d.started = q.started /\ d.packets = q.packets /\ d.bytes = q.bytes
        /\ d.probeStarted = w.probeStarted /\ d.probes = w.probes
    <3>1. CASE now - budget.probeStarted >= RateWindow
      <4> DEFINE e == ProbePart(q, now, 0)
                 g == ProbePart(budget, now, 0)
      <4>1. d = e /\ w = g
        BY <2>1, <3>1 DEF ProbeWindow, ProbePart
      <4>2. 0 \in 0..ProbeLimit
        BY LimitsAreNat
      <4> HIDE DEF q, d, w, e, g
      <4>3. /\ e \in Budgets /\ e.started = q.started /\ e.packets = q.packets
            /\ e.bytes = q.bytes /\ e.probeStarted = now /\ e.probes = 0
        BY <2>1, <2>2, <4>2, ProbeFields DEF e
      <4>4. g.probeStarted = now /\ g.probes = 0
        BY <2>2, <4>2, ProbeFields DEF g
      <4> QED BY <4>1, <4>3, <4>4
    <3>2. CASE ~(now - budget.probeStarted >= RateWindow)
      <4>1. d = q /\ w = budget
        BY <2>1, <3>2 DEF ProbeWindow
      <4> QED BY <2>1, <4>1
    <3> QED BY <3>1, <3>2
  <2>5. /\ w.probeStarted <= now
        /\ Windowed(charged, "probes", w.probeStarted, w.probes, ProbeLimit, now)
        /\ w.probeStarted \in Nat /\ w.probes \in 0..ProbeLimit
    BY <2>3 DEF Metered, Budgets
  <2>6. v \in BOOLEAN /\ (v <=> d.probes + 1 <= ProbeLimit)
    BY DEF ProbeFits
  <2>7. CheckProbe(q, now) = IF v THEN [d EXCEPT !.probes = @ + 1] ELSE d
    BY DEF CheckProbe
  <2> HIDE DEF q, d, v, w
  <2>8. /\ x \in Charges /\ x.at = now
        /\ v => Weight(x, "probes") = 1
        /\ ~v => Weight(x, "probes") = 0
    BY <1>1, <2>2, <2>6 DEF Charges, Weight
  <2>9. /\ CheckProbe(q, now) \in Budgets
        /\ CheckProbe(q, now).started = q.started /\ CheckProbe(q, now).packets = q.packets
        /\ CheckProbe(q, now).bytes = q.bytes /\ CheckProbe(q, now).probeStarted <= now
        /\ Windowed(Append(charged, x), "probes", CheckProbe(q, now).probeStarted,
                    CheckProbe(q, now).probes, ProbeLimit, now)
    <3> HIDE DEF x
    <3>1. CASE v
      <4> DEFINE e == ProbePart(d, d.probeStarted, d.probes + 1)
      <4>1. CheckProbe(q, now) = e
        BY <2>4, <2>7, <3>1 DEF Budgets, ProbePart
      <4>2. d.probes + 1 \in 0..ProbeLimit /\ d.probeStarted \in Nat
        BY <2>4, <2>5, <2>6, <3>1, LimitsAreNat
      <4> HIDE DEF e
      <4>3. /\ e \in Budgets /\ e.probeStarted = d.probeStarted /\ e.probes = d.probes + 1
            /\ e.started = d.started /\ e.packets = d.packets /\ e.bytes = d.bytes
        BY <2>4, <4>2, ProbeFields DEF e
      <4>4. w.probes + Weight(x, "probes") <= ProbeLimit
        BY <2>4, <2>6, <2>8, <3>1
      <4>5. Windowed(Append(charged, x), "probes", w.probeStarted,
                    w.probes + Weight(x, "probes"), ProbeLimit, now)
        BY <2>2, <2>3, <2>5, <2>8, <4>4, LimitsAreNat, WindowCharges
      <4>6. e.probeStarted = w.probeStarted /\ e.probes = w.probes + Weight(x, "probes")
        BY <2>4, <2>8, <3>1, <4>3
      <4> QED BY <2>4, <2>5, <4>1, <4>3, <4>5, <4>6
    <3>2. CASE ~v
      <4>1. CheckProbe(q, now) = d
        BY <2>7, <3>2
      <4>2. Windowed(Append(charged, x), "probes", w.probeStarted, w.probes, ProbeLimit, now)
        BY <2>2, <2>5, <2>8, <3>2, LimitsAreNat, WindowIgnores
      <4> QED BY <2>4, <2>5, <4>1, <4>2
    <3> QED BY <3>1, <3>2
  <2>10. Metered(CheckProbe(q, now), Append(charged, x), now)
    BY <1>1, <1>4, <2>6, <2>9, FrameMetered DEF q
  <2> QED BY <1>2, <2>0, <2>10 DEF BudgetInv
<1> QED BY <1>3, <1>4

LEMMA TickMetered ==
    ASSUME BudgetInv, BudgetTick
    PROVE  BudgetInv'
<1>1. /\ budget \in Budgets /\ charged \in Seq(Charges) /\ now \in Nat
      /\ budget.started <= now /\ budget.probeStarted <= now
      /\ now' = now + 1 /\ budget' = budget /\ charged' = charged
  BY DEF BudgetInv, Metered, BudgetTick
<1>2. /\ budget.started \in Nat /\ budget.packets \in 0..PacketLimit
      /\ budget.bytes \in 0..ByteBurst
      /\ budget.probeStarted \in Nat /\ budget.probes \in 0..ProbeLimit
  BY <1>1 DEF Budgets
<1>3. /\ Windowed(charged, "packets", budget.started, budget.packets, PacketLimit, now)
      /\ Windowed(charged, "bytes", budget.started, budget.bytes, ByteBurst, now)
      /\ Windowed(charged, "probes", budget.probeStarted, budget.probes, ProbeLimit, now)
  BY DEF BudgetInv, Metered
<1>4. Windowed(charged, "packets", budget.started, budget.packets, PacketLimit, now + 1)
  BY <1>1, <1>2, <1>3, LimitsAreNat, WindowTicks
<1>5. Windowed(charged, "bytes", budget.started, budget.bytes, ByteBurst, now + 1)
  BY <1>1, <1>2, <1>3, LimitsAreNat, WindowTicks
<1>6. Windowed(charged, "probes", budget.probeStarted, budget.probes, ProbeLimit, now + 1)
  BY <1>1, <1>2, <1>3, LimitsAreNat, WindowTicks
<1>7. now + 1 \in Nat /\ budget.started <= now + 1 /\ budget.probeStarted <= now + 1
  BY <1>1, <1>2
<1> QED BY <1>1, <1>4, <1>5, <1>6, <1>7 DEF BudgetInv, Metered

(* Before the first frame every total is zero.                             *)
LEMMA StartMetered ==
    ASSUME BudgetInit
    PROVE  BudgetInv
<1> DEFINE m == NewBudget(0)
<1>1. now = 0 /\ budget = m /\ charged = <<>>
  BY DEF BudgetInit
<1>2. ASSUME NEW what \in Whats, NEW from \in Int, NEW to \in Int
      PROVE  Total(<<>>, what, from, to) = 0
  <2>1. <<>> \in Seq(Charges) /\ Len(<<>>) = 0
    OBVIOUS
  <2>2. PICK f : /\ TotalFoldRun(f, 0, <<>>, Nat, what, from, to)
                 /\ Total(<<>>, what, from, to) = f[Len(<<>>)]
    BY <2>1, TotalRun
  <2> QED BY <2>1, <2>2 DEF TotalFoldRun
<1>3. ASSUME NEW what \in Whats, NEW limit \in Nat
      PROVE  Windowed(<<>>, what, 0, 0, limit, 0)
  <2>1. /\ 0 + RateWindow \in Int /\ 0 - RateWindow \in Int /\ 0 \in Int
        /\ \A t \in Int : t + RateWindow \in Int
    BY BudgetAssumption
  <2>2. Total(<<>>, what, 0 - RateWindow, 0) <= limit
    BY <1>2, <2>1
  <2>3. \A t \in Int : Total(<<>>, what, t, t + RateWindow) <= 2 * limit
    BY <1>2, <2>1
  <2>4. \A to \in Int : to > 0 => Total(<<>>, what, 0, to) = 0
    BY <1>2, <2>1
  <2>5. \A to \in Int : to >= 0 + RateWindow => Total(<<>>, what, 0 + RateWindow, to) = 0
    BY <1>2, <2>1
  <2> QED BY <2>2, <2>3, <2>4, <2>5 DEF Windowed
<1>4. /\ m \in Budgets /\ m.started = 0 /\ m.packets = 0 /\ m.bytes = 0
      /\ m.probeStarted = 0 /\ m.probes = 0
  <2>1. 0 \in 0..PacketLimit /\ 0 \in 0..ByteBurst /\ 0 \in 0..ProbeLimit /\ 0 \in Nat
    BY LimitsAreNat
  <2> QED BY <2>1 DEF NewBudget, Budgets
<1> HIDE DEF m
<1> QED BY <1>1, <1>3, <1>4, LimitsAreNat DEF BudgetInv, Metered

LEMMA BudgetStep ==
    ASSUME BudgetInv, [BudgetNext]_budgetVars
    PROVE  BudgetInv'
<1>1. CASE \E size \in Sizes : Data(size) \/ ProbeFrame(size)
  BY <1>1, DataMetered, ProbeMetered
<1>2. CASE BudgetTick
  BY <1>2, TickMetered
<1>3. CASE UNCHANGED budgetVars
  BY <1>3 DEF budgetVars, BudgetInv
<1> QED BY <1>1, <1>2, <1>3 DEF BudgetNext

(* check_traffic and check_probe count in fixed windows, yet no interval   *)
(* of RateWindow ticks, wherever it starts, lets more than two windows'    *)
(* worth of packets, bytes or probes through.                              *)
THEOREM BudgetSlides == BudgetSpec => []SlidingBound
<1>1. BudgetInv => SlidingBound
  <2> SUFFICES ASSUME BudgetInv, NEW t \in 0..MaxTime
               PROVE  /\ Total(charged, "packets", t, t + RateWindow) <= 2 * PacketLimit
                      /\ Total(charged, "bytes", t, t + RateWindow) <= 2 * ByteBurst
                      /\ Total(charged, "probes", t, t + RateWindow) <= 2 * ProbeLimit
    BY DEF SlidingBound
  <2>1. t \in Int
    BY SpecAssumption
  <2> QED BY <2>1 DEF BudgetInv, Metered, Windowed
<1> QED BY <1>1, StartMetered, BudgetStep, PTL DEF BudgetSpec

--------------------------------------------------------------------------------
(* Light pings (Probes), for every number of pings.  What carries          *)
(* EveryRelayIsTold: a batch for all relays holds the target of each of    *)
(* them, also of one that shares its endpoint (Deduplicated drops no       *)
(* value); a task that is done has left a report for its target; and       *)
(* upsert keeps one report of a target.                                    *)
LightTasks == [phase : {"connect", "send", "wait", "done"}, id : Int, pipe : Seq(Int),
               owed : Int, received : Int]

LightTypes ==
    /\ shop.relays \in [1..2 -> Preset]
    /\ shop = [relays |-> shop.relays, sel |-> shop.sel, changes |-> shop.changes]
    /\ light = [targets |-> light.targets, tasks |-> light.tasks,
                reports |-> light.reports, full |-> light.full]
    /\ light.tasks \in [DOMAIN light.targets -> LightTasks]

Reported(targets, tasks, reports) ==
    \A i \in DOMAIN targets : tasks[i].phase = "done" => \E r \in reports : r.target = targets[i]

OneOfEach(reports) == \A r1, r2 \in reports : r1.target = r2.target => r1 = r2

LightInv ==
    /\ LightTypes
    /\ light.full => \A i \in 1..2 : Target(shop.sel, shop.relays[i]) \in Range(light.targets)
    /\ Reported(light.targets, light.tasks, light.reports)
    /\ OneOfEach(light.reports)

(* deduplicate_light_ping_targets, one target after the other.             *)
PushFoldRun(f, nought, evs, R) ==
    /\ f \in [0..Len(evs) -> R]
    /\ f[0] = nought
    /\ \A i \in 1..Len(evs) : f[i] = Pushed(f[i - 1], evs[i])
    /\ FoldLeft(Pushed, nought, evs) = f[Len(evs)]

LEMMA PushFold ==
    ASSUME NEW R, NEW E, NEW nought \in R, NEW evs \in Seq(E),
           \A r \in R : \A e \in E : Pushed(r, e) \in R
    PROVE  \E f : PushFoldRun(f, nought, evs, R)
<1> DEFINE n == Len(evs)
           stage == [i \in 1..n |-> [r \in R |-> Pushed(r, evs[i])]]
           Step(it) == [s \in SUBSET (1..n) |->
                           IF s = {} THEN nought
                           ELSE Pushed(it[s \ {Max(s)}], evs[Max(s)])]
           it == CHOOSE x : x = Step(x)
<1>1. n \in Nat /\ DOMAIN evs = 1..n /\ \A i \in 1..n : evs[i] \in E
  OBVIOUS
<1> HIDE DEF n
<1>2. stage \in [1..n -> [R -> R]]
  BY <1>1
<1>3. PICK g : FoldsOver(g, n, R, nought, stage)
  <2> HIDE DEF stage
  <2> QED BY <1>1, <1>2, FoldExists
<1>4. g = Step(g)
  <2>1. ASSUME NEW s \in SUBSET (1..n), s # {}
        PROVE  g[s] = Pushed(g[s \ {Max(s)}], evs[Max(s)])
    <3>1. Max(s) \in 1..n
      <4>1. s \subseteq 0..n
        BY <1>1
      <4> QED BY <4>1, <2>1, <1>1, MaxOfBounded
    <3>2. g[s \ {Max(s)}] \in R /\ g[s] = stage[Max(s)][g[s \ {Max(s)}]]
      BY <2>1, <1>3 DEF FoldsOver
    <3> QED BY <3>1, <3>2
  <2>2. g[{}] = nought /\ DOMAIN g = SUBSET (1..n) /\ g = [s \in SUBSET (1..n) |-> g[s]]
    BY <1>3 DEF FoldsOver
  <2> HIDE DEF stage
  <2> QED BY <2>1, <2>2
<1>5. it = Step(it)
  <2> HIDE DEF Step
  <2> QED BY <1>4
<1>6. FoldLeft(Pushed, nought, evs) = it[1..n]
  BY Zenon, <1>1 DEF FoldLeft, MapThenFoldSet
<1>7. it[{}] = nought
  BY <1>5
<1>8. ASSUME NEW k \in 1..n
      PROVE  it[1..k] = Pushed(it[1..(k - 1)], evs[k])
  <2>0. n \in Nat
    BY <1>1
  <2>1. k \in Nat \ {0} /\ 1..k # {}
    <3>1. k \in Nat \ {0}
      BY ONLY <2>0, k \in 1..n
    <3>2. 1 \in 1..k
      BY ONLY <3>1
    <3> QED BY <3>1, <3>2
  <2>2. 1..k \in SUBSET (1..n)
    BY ONLY <2>0, k \in 1..n
  <2>3. Max(1..k) = k /\ (1..k) \ {k} = 1..(k - 1)
    BY <2>1, LastOfRange
  <2>4. it[1..k] = Pushed(it[(1..k) \ {Max(1..k)}], evs[Max(1..k)])
    <3> HIDE DEF it
    <3> QED BY Zenon, <1>5, <2>1, <2>2
  <2> HIDE DEF it
  <2> QED BY ONLY <2>3, <2>4
<1>9. ASSUME NEW k \in 1..n, it[1..(k - 1)] \in R
      PROVE  it[1..k] = stage[k][it[1..(k - 1)]]
  <2> HIDE DEF it
  <2> QED BY <1>8, <1>9
<1>10. \E f : Runs(f, n, R, nought, stage) /\ f[n] = it[1..n]
  <2>1. n \in Nat /\ stage \in [1..n -> [R -> R]] /\ it[{}] = nought
    BY ONLY <1>1, <1>2, <1>7
  <2>2. \A k \in 1..n : it[1..(k - 1)] \in R => it[1..k] = stage[k][it[1..(k - 1)]]
    <3> HIDE DEF it, stage, n
    <3> QED BY ONLY <1>9
  <2> HIDE DEF it, stage, Step, n
  <2> QED BY ONLY nought \in R, <2>1, <2>2, RunOfFold, SMTT(30)
<1>11. PICK f : Runs(f, n, R, nought, stage) /\ f[n] = it[1..n]
  BY <1>10
<1>12. ASSUME NEW i \in 1..n
       PROVE  f[i] = Pushed(f[i - 1], evs[i])
  <2>1. f[i - 1] \in R /\ f[i] = stage[i][f[i - 1]]
    <3>1. i - 1 \in 0..n
      BY <1>1
    <3> HIDE DEF stage
    <3> QED BY <3>1, <1>11 DEF Runs
  <2> QED BY <2>1
<1>13. f \in [0..n -> R] /\ f[0] = nought
  BY <1>11 DEF Runs
<1> HIDE DEF it
<1>14. PushFoldRun(f, nought, evs, R)
  BY <1>6, <1>11, <1>12, <1>13 DEF n, PushFoldRun
<1> QED BY <1>14

(* Every element of s is in Deduplicated(s), and nothing else.             *)
LEMMA DeduplicatedKeepsAll ==
    ASSUME NEW E, NEW evs \in Seq(E)
    PROVE  /\ Deduplicated(evs) \in Seq(E)
           /\ \A i \in 1..Len(evs) : evs[i] \in Range(Deduplicated(evs))
<1> DEFINE R == Seq(E)
           n == Len(evs)
<1>0. n \in Nat /\ (\A i \in 1..n : evs[i] \in E) /\ <<>> \in R
  OBVIOUS
<1>1. ASSUME NEW u \in R, NEW t \in E
      PROVE  Pushed(u, t) \in R
  BY DEF Pushed
<1>2. PICK f : PushFoldRun(f, <<>>, evs, R)
  <2> HIDE DEF R
  <2> QED BY <1>0, <1>1, PushFold
<1>3. /\ f \in [0..n -> R] /\ f[0] = <<>>
      /\ \A i \in 1..n : f[i] = Pushed(f[i - 1], evs[i])
      /\ Deduplicated(evs) = f[n]
  BY <1>2 DEF PushFoldRun, Deduplicated
<1> DEFINE T == {k \in 0..n : \A i \in 1..k : evs[i] \in Range(f[k])}
<1> HIDE DEF n
<1>4. 0 \in T
  BY <1>0
<1>5. ASSUME NEW k \in 0..n, k # n, k \in T
      PROVE  k + 1 \in T
  <2>1. k + 1 \in 1..n /\ (k + 1) - 1 = k /\ k + 1 \in 0..n
    BY ONLY <1>0, k \in 0..n, k # n
  <2>2. f[k + 1] = Pushed(f[k], evs[k + 1]) /\ f[k] \in Seq(E)
    BY <1>3, <2>1
  <2>3. Range(f[k]) \subseteq Range(f[k + 1]) /\ evs[k + 1] \in Range(f[k + 1])
    <3>1. CASE evs[k + 1] \in Range(f[k])
      BY <2>2, <3>1 DEF Pushed
    <3>2. CASE evs[k + 1] \notin Range(f[k])
      <4> DEFINE u == f[k]
                 t == evs[k + 1]
      <4>1. f[k + 1] = Append(u, t) /\ u \in Seq(E) /\ t \in E
        BY <1>0, <2>1, <2>2, <3>2 DEF Pushed
      <4> HIDE DEF u, t
      <4>2. /\ Len(u) \in Nat /\ DOMAIN u = 1..Len(u)
            /\ DOMAIN Append(u, t) = 1..(Len(u) + 1)
            /\ Append(u, t)[Len(u) + 1] = t
            /\ \A i \in 1..Len(u) : Append(u, t)[i] = u[i]
        BY <4>1
      <4>3. Range(u) \subseteq Range(Append(u, t)) /\ t \in Range(Append(u, t))
        BY ONLY <4>2 DEF Range
      <4> QED BY <4>1, <4>3 DEF u, t
    <3> QED BY <3>1, <3>2
  <2>4. ASSUME NEW i \in 1..(k + 1)
        PROVE  evs[i] \in Range(f[k + 1])
    <3>1. i \in 1..k \/ i = k + 1
      BY <2>1
    <3>2. \A i1 \in 1..k : evs[i1] \in Range(f[k])
      BY <1>5
    <3> QED BY <3>1, <3>2, <2>3
  <2> QED BY <2>1, <2>4
<1>6. n \in T
  <2>1. n \in 0..n
    BY <1>0
  <2> HIDE DEF T
  <2> QED BY <1>0, <1>4, <1>5, <2>1, CountsUp
<1>7. n \in 0..n
  BY <1>0
<1> QED BY <1>3, <1>6, <1>7 DEF n

LEMMA TaskRecord ==
    ASSUME NEW t \in LightTasks
    PROVE  /\ t.phase \in {"connect", "send", "wait", "done"} /\ t.id \in Int
           /\ t.pipe \in Seq(Int) /\ t.owed \in Int /\ t.received \in Int
           /\ t = [phase |-> t.phase, id |-> t.id, pipe |-> t.pipe,
                   owed |-> t.owed, received |-> t.received]
  BY DEF LightTasks

LEMMA TaskIs ==
    ASSUME NEW ph \in {"connect", "send", "wait", "done"}, NEW id \in Int, NEW pipe \in Seq(Int),
           NEW owed \in Int, NEW received \in Int
    PROVE  [phase |-> ph, id |-> id, pipe |-> pipe, owed |-> owed, received |-> received]
              \in LightTasks
  BY DEF LightTasks

(* A fresh batch has nobody done and no report.                            *)
LEMMA StartTold ==
    ASSUME LightInv, NEW E, NEW targets \in Seq(E), NEW full \in BOOLEAN, Start(targets, full),
           shop'.relays \in [1..2 -> Preset],
           shop' = [relays |-> shop'.relays, sel |-> shop'.sel, changes |-> shop'.changes],
           full => \A i \in 1..2 : Target(shop'.sel, shop'.relays[i]) \in Range(targets)
    PROVE  LightInv'
<1>1. /\ light'.targets = targets
      /\ light'.tasks = [i \in DOMAIN targets |-> NewTask]
      /\ light'.reports = {} /\ light'.full = full
      /\ light' = [targets |-> light'.targets, tasks |-> light'.tasks,
                   reports |-> light'.reports, full |-> light'.full]
  BY DEF Start
<1>2. NewTask \in LightTasks /\ NewTask.phase = "connect"
  BY DEF NewTask, LightTasks
<1>3. light'.tasks \in [DOMAIN light'.targets -> LightTasks]
  BY <1>1, <1>2
<1>4. Reported(light'.targets, light'.tasks, light'.reports)
  BY <1>1, <1>2 DEF Reported
<1>5. OneOfEach(light'.reports)
  BY <1>1 DEF OneOfEach
<1>6. LightTypes'
  BY <1>1, <1>3 DEF LightTypes
<1> QED BY <1>1, <1>4, <1>5, <1>6 DEF LightInv

(* A task that is not done yet moves.                                      *)
LEMMA TaskMoves ==
    ASSUME LightInv, NEW i \in DOMAIN light.targets, NEW t \in LightTasks, t.phase # "done",
           light' = [light EXCEPT !.tasks[i] = t], shop' = shop
    PROVE  LightInv'
<1>1. /\ light'.targets = light.targets
      /\ light'.tasks = [light.tasks EXCEPT ![i] = t]
      /\ light'.reports = light.reports /\ light'.full = light.full
      /\ light' = [targets |-> light'.targets, tasks |-> light'.tasks,
                   reports |-> light'.reports, full |-> light'.full]
      /\ light.tasks \in [DOMAIN light.targets -> LightTasks]
  BY DEF LightInv, LightTypes
<1>2. light'.tasks \in [DOMAIN light'.targets -> LightTasks]
  BY <1>1
<1>3. Reported(light'.targets, light'.tasks, light'.reports)
  BY <1>1 DEF LightInv, Reported
<1>4. LightTypes'
  BY <1>1, <1>2 DEF LightInv, LightTypes
<1> QED BY <1>1, <1>3, <1>4 DEF LightInv

(* A task is done and its report takes the place of an earlier one.        *)
LEMMA TaskReports ==
    ASSUME LightInv, NEW i \in DOMAIN light.targets, NEW t \in LightTasks, Report(i, t),
           shop' = shop
    PROVE  LightInv'
<1> DEFINE d == [t EXCEPT !.phase = "done"]
           here == light.targets[i]
           mine == [target |-> here, ok |-> t.received > 0]
           reps == {r \in light.reports : r.target # here} \cup {mine}
<1>0. /\ light.tasks \in [DOMAIN light.targets -> LightTasks]
      /\ light = [targets |-> light.targets, tasks |-> light.tasks,
                  reports |-> light.reports, full |-> light.full]
  BY DEF LightInv, LightTypes
<1>1. d \in LightTasks
  BY DEF LightTasks
<1>2. light' = [light EXCEPT !.tasks[i] = d, !.reports = reps]
  BY Zenon DEF Report
<1>3. mine.target = here
  OBVIOUS
<1> HIDE DEF d, mine
<1>4. /\ light'.targets = light.targets
      /\ light'.tasks = [light.tasks EXCEPT ![i] = d]
      /\ light'.reports = reps /\ light'.full = light.full
      /\ light' = [targets |-> light'.targets, tasks |-> light'.tasks,
                   reports |-> light'.reports, full |-> light'.full]
  <2> HIDE DEF reps
  <2> QED BY <1>0, <1>2
<1>5. light'.tasks \in [DOMAIN light'.targets -> LightTasks]
  BY <1>0, <1>1, <1>4
<1>6. Reported(light'.targets, light'.tasks, light'.reports)
  <2> SUFFICES ASSUME NEW j \in DOMAIN light.targets, light'.tasks[j].phase = "done"
               PROVE  \E r \in reps : r.target = light.targets[j]
    BY <1>4 DEF Reported
  <2>1. CASE light.targets[j] = here
    BY <1>3, <2>1
  <2>2. CASE light.targets[j] # here
    <3>1. light.tasks[j].phase = "done"
      BY <1>0, <1>4, <2>2
    <3>2. PICK r \in light.reports : r.target = light.targets[j]
      BY <3>1 DEF LightInv, Reported
    <3> QED BY <2>2, <3>2
  <2> QED BY <2>1, <2>2
<1>7. OneOfEach(light'.reports)
  BY <1>3, <1>4 DEF LightInv, OneOfEach
<1>8. LightTypes'
  BY <1>4, <1>5 DEF LightInv, LightTypes
<1> QED BY <1>4, <1>6, <1>7, <1>8 DEF LightInv

LEMMA NextPingTold ==
    ASSUME LightInv, NEW i \in DOMAIN light.targets, NEW t \in LightTasks, NextPing(i, t),
           shop' = shop
    PROVE  LightInv'
<1>1. CASE t.id = Pings
  BY <1>1, TaskReports DEF NextPing
<1>2. CASE t.id # Pings
  <2> DEFINE d == [t EXCEPT !.id = @ + 1, !.phase = "send"]
  <2>0. /\ t.id + 1 \in Int
        /\ d = [phase |-> "send", id |-> t.id + 1, pipe |-> t.pipe,
                owed |-> t.owed, received |-> t.received]
    <3> DEFINE u == [phase |-> t.phase, id |-> t.id, pipe |-> t.pipe,
                     owed |-> t.owed, received |-> t.received]
    <3>1. t = u /\ t.id \in Int
      BY TaskRecord
    <3>2. d = [u EXCEPT !.id = t.id + 1, !.phase = "send"]
      <4> HIDE DEF u
      <4> QED BY ONLY <3>1
    <3>3. d = [phase |-> "send", id |-> t.id + 1, pipe |-> t.pipe,
               owed |-> t.owed, received |-> t.received]
      <4> HIDE DEF d
      <4> QED BY ONLY <3>2
    <3>4. t.id + 1 \in Int
      <4> HIDE DEF u
      <4> QED BY ONLY <3>1
    <3> QED BY <3>3, <3>4
  <2>1. d \in LightTasks /\ d.phase # "done"
    <3>1. d \in LightTasks
      <4> HIDE DEF d
      <4> QED BY <2>0, TaskRecord, TaskIs
    <3> QED BY <2>0, <3>1
  <2>2. light' = [light EXCEPT !.tasks[i] = d]
    BY <1>2 DEF NextPing
  <2> HIDE DEF d
  <2> QED BY <2>1, <2>2, TaskMoves
<1> QED BY <1>1, <1>2

LEMMA TasksKeepTold ==
    ASSUME LightInv, NEW i \in DOMAIN light.targets,
           Connect(i) \/ SendPing(i) \/ RelayAnswers(i) \/ ReadPong(i) \/ PingTimesOut(i)
    PROVE  LightInv'
<1> DEFINE t == light.tasks[i]
<1>0. t \in LightTasks
  BY DEF LightInv, LightTypes
<1>1. /\ t.id \in Int /\ t.pipe \in Seq(Int) /\ t.owed \in Int /\ t.received \in Int
      /\ t.phase \in {"connect", "send", "wait", "done"}
  BY <1>0 DEF LightTasks
<1>2. shop' = shop
  BY DEF Connect, SendPing, RelayAnswers, ReadPong, PingTimesOut
<1>3. /\ light = [targets |-> light.targets, tasks |-> light.tasks,
                  reports |-> light.reports, full |-> light.full]
      /\ DOMAIN light.tasks = DOMAIN light.targets
  BY DEF LightInv, LightTypes
<1>4. CASE Connect(i)
  <2>1. CASE light' = [light EXCEPT !.tasks[i].phase = "send"]
    <3> DEFINE d == [t EXCEPT !.phase = "send"]
    <3>1. d \in LightTasks /\ d.phase # "done"
      BY <1>0 DEF LightTasks
    <3>2. light' = [light EXCEPT !.tasks[i] = d]
      BY <2>1, <1>3
    <3> HIDE DEF d
    <3> QED BY <1>2, <3>1, <3>2, TaskMoves
  <2>2. CASE Report(i, t)
    BY <1>0, <1>2, <2>2, TaskReports
  <2> QED BY <1>4, <2>1, <2>2 DEF Connect
<1>5. CASE SendPing(i)
  <2>1. CASE light' = [light EXCEPT !.tasks[i].phase = "wait", !.tasks[i].owed = @ + 1]
    <3> DEFINE d == [t EXCEPT !.phase = "wait", !.owed = @ + 1]
    <3>0. /\ t.owed + 1 \in Int
          /\ d = [phase |-> "wait", id |-> t.id, pipe |-> t.pipe,
                  owed |-> t.owed + 1, received |-> t.received]
      <4> DEFINE u == [phase |-> t.phase, id |-> t.id, pipe |-> t.pipe,
                       owed |-> t.owed, received |-> t.received]
      <4>1. t = u
        <5> HIDE DEF t
        <5> QED BY <1>0, TaskRecord
      <4>2. d = [u EXCEPT !.phase = "wait", !.owed = t.owed + 1]
        <5> HIDE DEF u, t
        <5> QED BY ONLY <4>1
      <4>3. d = [phase |-> "wait", id |-> t.id, pipe |-> t.pipe,
                 owed |-> t.owed + 1, received |-> t.received]
        <5> HIDE DEF d, t
        <5> QED BY ONLY <4>2
      <4>4. t.owed + 1 \in Int
        <5> HIDE DEF t
        <5> QED BY ONLY <1>1
      <4> QED BY <4>3, <4>4
    <3>1. d \in LightTasks /\ d.phase # "done"
      <4>1. d \in LightTasks
        <5> HIDE DEF d, t
        <5> QED BY <1>1, <3>0, TaskIs
      <4> QED BY <3>0, <4>1
    <3>2. light' = [light EXCEPT !.tasks[i] = d]
      BY <2>1, <1>3
    <3> HIDE DEF d
    <3> QED BY <1>2, <3>1, <3>2, TaskMoves
  <2>2. CASE Report(i, t)
    BY <1>0, <1>2, <2>2, TaskReports
  <2> QED BY <1>5, <2>1, <2>2 DEF SendPing
<1>6. CASE RelayAnswers(i)
  <2> DEFINE oldest == IF t.phase = "wait" THEN t.id - t.owed + 1 ELSE t.id - t.owed
             d == [t EXCEPT !.owed = @ - 1, !.pipe = Append(@, oldest)]
  <2>1. oldest \in Int
    BY <1>1
  <2>2. light' = [light EXCEPT !.tasks[i].owed = @ - 1, !.tasks[i].pipe = Append(@, oldest)]
    BY <1>6 DEF RelayAnswers
  <2> HIDE DEF oldest
  <2>3. Append(t.pipe, oldest) \in Seq(Int) /\ t.owed - 1 \in Int
    BY <1>1, <2>1
  <2>4. d \in LightTasks /\ d.phase = t.phase
    BY <1>0, <2>3 DEF LightTasks
  <2>5. light' = [light EXCEPT !.tasks[i] = d]
    BY <2>2, <1>3
  <2>6. t.phase # "done"
    BY <1>6 DEF RelayAnswers
  <2> HIDE DEF d
  <2> QED BY <1>2, <2>4, <2>5, <2>6, TaskMoves
<1>7. CASE ReadPong(i)
  <2> DEFINE d == [t EXCEPT !.pipe = Tail(@), !.received = IF Head(t.pipe) = t.id THEN @ + 1 ELSE @]
  <2>1. NextPing(i, d) /\ t.pipe # <<>>
    BY <1>7 DEF ReadPong
  <2>2. Tail(t.pipe) \in Seq(Int)
    BY <1>1, <2>1
  <2>3. d \in LightTasks
    <3> DEFINE n == IF Head(t.pipe) = t.id THEN t.received + 1 ELSE t.received
    <3>1. n \in Int
      BY <1>1
    <3>2. d = [phase |-> t.phase, id |-> t.id, pipe |-> Tail(t.pipe),
               owed |-> t.owed, received |-> n]
      <4> DEFINE u == [phase |-> t.phase, id |-> t.id, pipe |-> t.pipe,
                       owed |-> t.owed, received |-> t.received]
      <4>1. t = u
        <5> HIDE DEF t
        <5> QED BY <1>0, TaskRecord
      <4>2. d = [u EXCEPT !.pipe = Tail(t.pipe), !.received = n]
        <5>1. d = [t EXCEPT !.pipe = Tail(t.pipe), !.received = n]
          OBVIOUS
        <5> HIDE DEF u, t, n, d
        <5> QED BY ONLY <4>1, <5>1
      <4> HIDE DEF t, n, d
      <4> QED BY ONLY <4>2
    <3> HIDE DEF d, n, t
    <3> QED BY <1>1, <2>2, <3>1, <3>2, TaskIs
  <2> HIDE DEF d
  <2> QED BY <1>2, <2>1, <2>3, NextPingTold
<1>8. CASE PingTimesOut(i)
  BY <1>0, <1>2, <1>8, NextPingTold DEF PingTimesOut
<1> QED BY <1>4, <1>5, <1>6, <1>7, <1>8

LEMMA AllRelaysTold ==
    ASSUME LightInv, TestRelayLatency
    PROVE  LightInv'
<1> DEFINE s == [i \in DOMAIN shop.relays |-> Target(shop.sel, shop.relays[i])]
           E == {s[i] : i \in 1..2}
<1>1. /\ shop.relays \in [1..2 -> Preset]
      /\ shop = [relays |-> shop.relays, sel |-> shop.sel, changes |-> shop.changes]
  BY DEF LightInv, LightTypes
<1>2. shop' = [shop EXCEPT !.changes = @ + 1] /\ Start(Deduplicated(s), TRUE)
  BY DEF TestRelayLatency
<1>3. /\ shop'.relays = shop.relays /\ shop'.sel = shop.sel
      /\ shop' = [relays |-> shop'.relays, sel |-> shop'.sel, changes |-> shop'.changes]
  BY <1>1, <1>2
<1>4. s \in Seq(E) /\ Len(s) = 2 /\ \A i \in 1..2 : s[i] = Target(shop.sel, shop.relays[i])
  BY <1>1
<1> HIDE DEF s, E
<1>5. Deduplicated(s) \in Seq(E) /\ \A i \in 1..2 : s[i] \in Range(Deduplicated(s))
  BY <1>4, DeduplicatedKeepsAll
<1>6. \A i \in 1..2 : Target(shop'.sel, shop'.relays[i]) \in Range(Deduplicated(s))
  BY <1>3, <1>4, <1>5
<1>7. TRUE \in BOOLEAN /\ Start(Deduplicated(s), TRUE) /\ shop'.relays \in [1..2 -> Preset]
  BY <1>1, <1>2, <1>3
<1> QED BY Zenon, <1>3, <1>5, <1>6, <1>7, StartTold

LEMMA SaveKeepsTold ==
    ASSUME LightInv, NEW i \in DOMAIN shop.relays, NEW r \in Preset, SaveRelay(i, r)
    PROVE  LightInv'
<1> DEFINE s == <<Target(shop.sel, r)>>
           E == {Target(shop.sel, r)}
<1>1. /\ shop.relays \in [1..2 -> Preset]
      /\ shop = [relays |-> shop.relays, sel |-> shop.sel, changes |-> shop.changes]
  BY DEF LightInv, LightTypes
<1>2. shop' = [shop EXCEPT !.relays[i] = r, !.changes = @ + 1] /\ Start(s, FALSE)
  BY DEF SaveRelay
<1>3. /\ shop'.relays = [shop.relays EXCEPT ![i] = r]
      /\ shop' = [relays |-> shop'.relays, sel |-> shop'.sel, changes |-> shop'.changes]
  BY <1>1, <1>2
<1>4. s \in Seq(E)
  OBVIOUS
<1>5. shop'.relays \in [1..2 -> Preset]
  BY <1>1, <1>3
<1> HIDE DEF s, E
<1>6. FALSE \in BOOLEAN /\ Start(s, FALSE)
  BY <1>2
<1> QED BY Zenon, <1>3, <1>4, <1>5, <1>6, StartTold

LEMMA SelectKeepsTold ==
    ASSUME LightInv, NEW sel, SelectTransport(sel)
    PROVE  LightInv'
<1>1. /\ shop' = [shop EXCEPT !.sel = sel, !.changes = @ + 1]
      /\ light' = [light EXCEPT !.full = FALSE]
  BY DEF SelectTransport
<1>2. /\ shop = [relays |-> shop.relays, sel |-> shop.sel, changes |-> shop.changes]
      /\ light = [targets |-> light.targets, tasks |-> light.tasks,
                  reports |-> light.reports, full |-> light.full]
  BY DEF LightInv, LightTypes
<1>3. /\ shop'.relays = shop.relays
      /\ shop' = [relays |-> shop'.relays, sel |-> shop'.sel, changes |-> shop'.changes]
      /\ light'.targets = light.targets /\ light'.tasks = light.tasks
      /\ light'.reports = light.reports /\ light'.full = FALSE
      /\ light' = [targets |-> light'.targets, tasks |-> light'.tasks,
                   reports |-> light'.reports, full |-> light'.full]
  BY <1>1, <1>2
<1>4. LightTypes'
  BY <1>3 DEF LightInv, LightTypes
<1> QED BY <1>3, <1>4 DEF LightInv

LEMMA LightStep ==
    ASSUME LightInv, [LightNext \/ ReadyNext]_probeVars
    PROVE  LightInv'
<1>1. CASE UNCHANGED <<shop, light>>
  BY <1>1 DEF LightInv, LightTypes
<1>2. CASE LightNext
  <2>1. CASE \E i \in DOMAIN light.targets :
                Connect(i) \/ SendPing(i) \/ RelayAnswers(i) \/ ReadPong(i) \/ PingTimesOut(i)
    BY <2>1, TasksKeepTold
  <2>2. CASE TestRelayLatency
    BY <2>2, AllRelaysTold
  <2>3. CASE \E i \in DOMAIN shop.relays, r \in Preset : SaveRelay(i, r)
    BY <2>3, SaveKeepsTold
  <2>4. CASE \E sel \in {"default", "tcp", "udp"} : SelectTransport(sel)
    BY <2>4, SelectKeepsTold
  <2> QED BY <1>2, <2>1, <2>2, <2>3, <2>4 DEF LightNext
<1>3. ReadyNext => UNCHANGED <<shop, light>>
  BY DEF ReadyNext, StartReadiness, JoinPeers, SendSample, ExpectGame, SampleTimesOut,
         ReadFails, FinishProbe, Lose, DeliverSample
<1> QED BY <1>1, <1>2, <1>3 DEF probeVars

LEMMA LightStarts ==
    ASSUME ProbeInit
    PROVE  LightInv
<1>1. shop \in [relays : [1..2 -> Preset], sel : {"default"}, changes : {0}]
  BY DEF ProbeInit
<1>2. light = [targets |-> <<>>, tasks |-> <<>>, reports |-> {}, full |-> FALSE]
  BY DEF ProbeInit
<1>3. /\ shop.relays \in [1..2 -> Preset]
      /\ shop = [relays |-> shop.relays, sel |-> shop.sel, changes |-> shop.changes]
  BY <1>1
<1>4. /\ light.targets = <<>> /\ light.tasks = <<>> /\ light.reports = {} /\ light.full = FALSE
      /\ light = [targets |-> light.targets, tasks |-> light.tasks,
                  reports |-> light.reports, full |-> light.full]
  BY <1>2
<1>5. <<>> \in [DOMAIN <<>> -> LightTasks] /\ DOMAIN <<>> = {}
  OBVIOUS
<1> QED BY <1>3, <1>4, <1>5 DEF LightInv, LightTypes, Reported, OneOfEach

(* Every relay of the catalogue is told (deduplicate_light_ping_targets,   *)
(* upsert_light_ping_report, map_connection_tests): once a batch is done,  *)
(* each shows exactly one result, also one that shares its endpoint with   *)
(* another.                                                                *)
THEOREM RelaysAreTold == ProbeSpec => []EveryRelayIsTold
<1>1. LightInv => EveryRelayIsTold
  <2> SUFFICES ASSUME LightInv, light.full,
                      \A i \in DOMAIN light.targets : light.tasks[i].phase = "done",
                      NEW i \in 1..2
               PROVE  Cardinality(Shown(i)) = 1
    BY DEF EveryRelayIsTold, LightInv, LightTypes
  <2> DEFINE g == Target(shop.sel, shop.relays[i])
  <2>1. PICK j \in DOMAIN light.targets : light.targets[j] = g
    BY DEF LightInv, Range
  <2>2. PICK r \in light.reports : r.target = g
    BY <2>1 DEF LightInv, Reported
  <2>3. Shown(i) = {r}
    BY <2>2 DEF LightInv, OneOfEach, Shown
  <2> QED BY <2>3, FS_Singleton
<1> QED BY <1>1, LightStarts, LightStep, PTL DEF ProbeSpec

--------------------------------------------------------------------------------
(* The readiness probe (Probes), for every number of samples.  What        *)
(* carries ReportIsTrue: no packet of a later sample is on the way, and    *)
(* the packet that arrived during its own sample is counted or still in    *)
(* the inbox, where the receiver will find it before it can give up.       *)
SentBefore(k, n) == \A j \in k.air \cup Range(k.inbox) : j < n
Credited(k, n) == k.broken \/ k.arrived = k.received + n
Pending(k) == IF k.i \in Range(k.inbox) THEN 1 ELSE 0

Cases == [running : BOOLEAN, phase : {"idle", "join", "send", "wait", "report"}, udp : BOOLEAN,
          i : Nat, air : SUBSET Nat, inbox : Seq(Nat), sent : Nat, received : Nat,
          latencies : Seq(Nat), arrived : Nat, broken : BOOLEAN]

ReadyInv ==
    /\ ready \in Cases
    /\ ready.phase = "wait" => SentBefore(ready, ready.i + 1) /\ Credited(ready, Pending(ready))
    /\ ready.phase # "wait" => SentBefore(ready, ready.i) /\ Credited(ready, 0)
    /\ ready.phase = "join" => ready.arrived = ready.received

(* A value no other exceeds.                                               *)
LEMMA LargestExists ==
    ASSUME NEW s \in Seq(Nat), s # <<>>
    PROVE  \E j \in 1..Len(s) : \A l \in 1..Len(s) : s[l] <= s[j]
<1> DEFINE n == Len(s)
           T == {m \in 0..n : m = 0 \/ \E j \in 1..m : \A l \in 1..m : s[l] <= s[j]}
<1>1. n \in Nat /\ n # 0 /\ \A j \in 1..n : s[j] \in Nat
  OBVIOUS
<1> HIDE DEF n
<1>2. 0 \in T
  BY <1>1
<1>3. ASSUME NEW m \in 0..n, m # n, m \in T
      PROVE  m + 1 \in T
  <2>1. m \in Nat /\ m + 1 \in 1..n /\ m + 1 \in 0..n /\ s[m + 1] \in Nat
    BY <1>1, <1>3
  <2>2. CASE m = 0
    <3>1. m + 1 \in 1..(m + 1) /\ \A l \in 1..(m + 1) : l = m + 1
      BY <2>2
    <3>2. \A l \in 1..(m + 1) : s[l] <= s[m + 1]
      BY <2>1, <3>1
    <3> QED BY <2>1, <3>1, <3>2
  <2>3. CASE m # 0
    <3>1. PICK j \in 1..m : \A l \in 1..m : s[l] <= s[j]
      BY <1>3, <2>3
    <3>2. /\ \A l \in 1..(m + 1) : l \in 1..m \/ l = m + 1
          /\ \A l \in 1..m : l \in 1..n /\ l \in 1..(m + 1)
          /\ m + 1 \in 1..(m + 1)
      BY <1>1, <2>1
    <3>3. s[j] \in Nat /\ \A l \in 1..m : s[l] \in Nat
      BY <1>1, <3>2
    <3>4. CASE s[m + 1] <= s[j]
      <4>1. \A l \in 1..(m + 1) : s[l] <= s[j]
        BY <3>1, <3>2, <3>4
      <4> QED BY <2>1, <3>2, <4>1
    <3>5. CASE ~(s[m + 1] <= s[j])
      <4>1. \A l \in 1..(m + 1) : s[l] <= s[m + 1]
        BY <2>1, <3>1, <3>2, <3>3, <3>5, SMTT(30)
      <4> QED BY <2>1, <3>2, <4>1
    <3> QED BY <3>4, <3>5
  <2> QED BY <2>2, <2>3
<1>4. n \in T
  <2>1. n \in 0..n
    BY <1>1
  <2> HIDE DEF T
  <2> QED BY <1>1, <1>2, <1>3, <2>1, CountsUp
<1> QED BY <1>1, <1>4 DEF n

(* The value at a place of the sorted values has that many at or below it  *)
(* and is the least such.                                                  *)
Enough(s, k) == {v \in Range(s) : Cardinality({i \in DOMAIN s : s[i] <= v}) >= k}

LEMMA SortedIs ==
    ASSUME NEW s \in Seq(Nat), NEW k \in 1..Len(s)
    PROVE  /\ Sorted(s, k) \in Enough(s, k)
           /\ \A v \in Enough(s, k) : Sorted(s, k) <= v
<1>1. Len(s) \in Nat /\ s # <<>> /\ DOMAIN s = 1..Len(s) /\ \A i \in 1..Len(s) : s[i] \in Nat
  OBVIOUS
<1>2. PICK j \in 1..Len(s) : \A l \in 1..Len(s) : s[l] <= s[j]
  BY <1>1, LargestExists
<1>3. s[j] \in Enough(s, k)
  <2>1. {i \in DOMAIN s : s[i] <= s[j]} = 1..Len(s)
    BY <1>1, <1>2
  <2>2. Cardinality(1..Len(s)) = Len(s)
    <3>1. 1 \in Int /\ Len(s) \in Int /\ ~(1 > Len(s)) /\ Len(s) - 1 + 1 = Len(s)
      BY <1>1
    <3> QED BY <3>1, FS_Interval
  <2>3. s[j] \in Range(s)
    BY <1>1 DEF Range
  <2>4. Cardinality({i \in DOMAIN s : s[i] <= s[j]}) = Len(s)
    BY Zenon, <2>1, <2>2
  <2>5. Cardinality({i \in DOMAIN s : s[i] <= s[j]}) >= k
    <3> DEFINE m == Cardinality({i \in DOMAIN s : s[i] <= s[j]})
    <3>1. m = Len(s)
      BY <2>4
    <3> HIDE DEF m
    <3>2. m >= k
      BY <1>1, <3>1
    <3> QED BY <3>2 DEF m
  <2> QED BY Zenon, <2>3, <2>5 DEF Enough
<1>4. Enough(s, k) \subseteq Nat
  BY <1>1 DEF Enough, Range
<1>5. PICK w \in Enough(s, k) : \A v \in Enough(s, k) : w <= v
  BY <1>3, <1>4, LeastExists
<1>6. Sorted(s, k) = Min(Enough(s, k))
  BY DEF Sorted, Enough
<1> QED BY <1>5, <1>6 DEF Min

LEMMA SortedRises ==
    ASSUME NEW s \in Seq(Nat), NEW k \in 1..Len(s), NEW l \in 1..Len(s), k <= l
    PROVE  Sorted(s, k) <= Sorted(s, l)
<1>1. Sorted(s, l) \in Enough(s, l)
  BY SortedIs
<1>2. Enough(s, l) \subseteq Enough(s, k)
  <2> SUFFICES ASSUME NEW v \in Range(s), Cardinality({i \in DOMAIN s : s[i] <= v}) >= l
               PROVE  Cardinality({i \in DOMAIN s : s[i] <= v}) >= k
    BY DEF Enough
  <2>1. Cardinality({i \in DOMAIN s : s[i] <= v}) \in Nat
    <3>1. IsFiniteSet(1..Len(s)) /\ {i \in DOMAIN s : s[i] <= v} \in SUBSET (1..Len(s))
      BY FS_Interval
    <3> QED BY <3>1, FS_Subset, FS_CardinalityType
  <2> QED BY <2>1
<1> QED BY <1>1, <1>2, SortedIs

(* The quantiles of the report are in order.                               *)
LEMMA QuantilesInOrder ==
    ASSUME NEW k \in Cases
    PROVE  LET r == CaseReport(k)
           IN  r.shape # <<>> => \A i \in 1..3 : r.shape[i] <= r.shape[i + 1]
<1> DEFINE s == k.latencies
           n == Len(s)
           p == ((n - 1) * 50 + 99) \div 100 + 1
           q == ((n - 1) * 95 + 99) \div 100 + 1
<1>1. s \in Seq(Nat)
  BY DEF Cases
<1>2. CASE s = <<>>
  <2>1. CaseReport(k).shape = <<>>
    BY <1>2 DEF CaseReport
  <2> QED BY <2>1
<1>3. CASE s # <<>>
  <2>1. n \in Nat \ {0}
    BY <1>1, <1>3
  <2>2. CaseReport(k).shape = <<Sorted(s, 1), Sorted(s, p), Sorted(s, q), Sorted(s, n)>>
    BY <1>3 DEF CaseReport, Percentile
  <2>3. 1 <= p /\ p <= q /\ q <= n /\ p \in Int /\ q \in Int
    <3> HIDE DEF n
    <3> QED BY <2>1
  <2> HIDE DEF s, p, q
  <2>4. 1 \in 1..n /\ p \in 1..n /\ q \in 1..n /\ n \in 1..n
    BY <2>1, <2>3
  <2>5. /\ Sorted(s, 1) <= Sorted(s, p) /\ Sorted(s, p) <= Sorted(s, q)
        /\ Sorted(s, q) <= Sorted(s, n)
    BY <1>1, <2>3, <2>4, SortedRises
  <2> QED BY <2>2, <2>5
<1> QED BY <1>2, <1>3

(* A sample ends without a packet being taken: what was below stays below. *)
LEMMA EndedKeeps ==
    ASSUME NEW k \in Cases, SentBefore(k, k.i + 1), k.broken \/ k.arrived = k.received,
           ready' = Ended(k)
    PROVE  ReadyInv'
<1>1. /\ ready'.phase \in {"report", "send"} /\ ready'.i = k.i + 1
      /\ ready'.air = k.air /\ ready'.inbox = k.inbox
      /\ ready'.received = k.received /\ ready'.arrived = k.arrived
      /\ ready'.broken = k.broken
  BY DEF Cases, Ended
<1>2. ready' \in Cases
  <2> DEFINE ph == IF k.i + 1 = Samples THEN "report" ELSE "send"
  <2>1. k.i + 1 \in Nat /\ ph \in {"idle", "join", "send", "wait", "report"}
    BY DEF Cases
  <2>2. ready' = [k EXCEPT !.i = k.i + 1, !.phase = ph]
    BY DEF Ended, Cases
  <2> HIDE DEF ph
  <2> QED BY <2>1, <2>2 DEF Cases
<1>3. k.arrived \in Nat /\ k.received \in Nat
  BY DEF Cases
<1>4. SentBefore(ready', ready'.i)
  BY <1>1 DEF SentBefore
<1>5. Credited(ready', 0)
  BY <1>1, <1>3 DEF Credited
<1> QED BY <1>1, <1>2, <1>4, <1>5 DEF ReadyInv

LEMMA ReadySends ==
    ASSUME ReadyInv, SendSample
    PROVE  ReadyInv'
<1> DEFINE k == [ready EXCEPT !.sent = @ + 1]
<1>1. ready \in Cases /\ ready.phase = "send" /\ SentBefore(ready, ready.i) /\ Credited(ready, 0)
  BY DEF ReadyInv, SendSample
<1>2. /\ ready.i \in Nat /\ ready.sent + 1 \in Nat /\ ready.air \cup {ready.i} \in SUBSET Nat
      /\ ready.arrived \in Nat /\ ready.received \in Nat /\ ready.inbox \in Seq(Nat)
      /\ ready.air \in SUBSET Nat
  BY <1>1 DEF Cases
<1>3. \A j \in ready.air \cup Range(ready.inbox) : j \in Nat /\ j < ready.i
  BY <1>1, <1>2 DEF SentBefore, Range
<1>4. CASE ready' = [k EXCEPT !.phase = "wait", !.air = @ \cup {k.i}]
  <2>0. ready' = [ready EXCEPT !.sent = ready.sent + 1, !.phase = "wait",
                               !.air = ready.air \cup {ready.i}]
    BY <1>1, <1>4 DEF Cases
  <2>1. /\ ready'.phase = "wait" /\ ready'.i = ready.i
        /\ ready'.air = ready.air \cup {ready.i} /\ ready'.inbox = ready.inbox
        /\ ready'.received = ready.received /\ ready'.arrived = ready.arrived
        /\ ready'.broken = ready.broken
    BY <1>1, <2>0 DEF Cases
  <2>2. ready' \in Cases
    BY <1>1, <1>2, <2>0 DEF Cases
  <2>3. Pending(ready') = 0
    BY <1>2, <1>3, <2>1 DEF Pending
  <2>4. SentBefore(ready', ready'.i + 1)
    BY <1>2, <1>3, <2>1 DEF SentBefore
  <2>5. Credited(ready', Pending(ready'))
    BY <1>1, <2>1, <2>3 DEF Credited
  <2> QED BY <2>1, <2>2, <2>4, <2>5 DEF ReadyInv
<1>5. CASE ready' = Ended([k EXCEPT !.broken = TRUE])
  <2> DEFINE d == [k EXCEPT !.broken = TRUE]
  <2>1. d = [ready EXCEPT !.sent = ready.sent + 1, !.broken = TRUE]
    BY <1>1 DEF Cases
  <2>2. d \in Cases /\ d.broken /\ d.i = ready.i /\ d.air = ready.air /\ d.inbox = ready.inbox
    <3> HIDE DEF d
    <3>1. d \in Cases
      BY <1>1, <1>2, <2>1 DEF Cases
    <3> QED BY <1>1, <2>1, <3>1 DEF Cases
  <2> HIDE DEF d
  <2>3. SentBefore(d, d.i + 1)
    BY <1>2, <1>3, <2>2 DEF SentBefore
  <2> QED BY <1>5, <2>2, <2>3, EndedKeeps DEF d
<1> QED BY <1>4, <1>5 DEF SendSample

(* A packet comes; only the one of the sample under way counts as arrived. *)
LEMMA ReadyDelivers ==
    ASSUME ReadyInv, NEW j \in ready.air, NEW again \in BOOLEAN, DeliverSample(j, again)
    PROVE  ReadyInv'
<1> DEFINE air == IF again THEN ready.air ELSE ready.air \ {j}
           inbox == IF j \in Range(ready.inbox) THEN ready.inbox ELSE Append(ready.inbox, j)
           hit == ready.phase = "wait" /\ ready.i = j /\ j \notin Range(ready.inbox)
           arrived == IF hit THEN ready.arrived + 1 ELSE ready.arrived
<1>1. ready \in Cases /\ ready.phase \in {"send", "wait"}
  BY DEF ReadyInv, DeliverSample
<1>2. /\ ready.i \in Nat /\ ready.arrived \in Nat /\ ready.received \in Nat
      /\ ready.inbox \in Seq(Nat) /\ ready.air \in SUBSET Nat /\ j \in Nat
  BY <1>1 DEF Cases
<1>3. air \in SUBSET Nat /\ air \subseteq ready.air
  BY <1>2
<1>4. inbox \in Seq(Nat) /\ Range(inbox) = Range(ready.inbox) \cup {j}
  <2>1. CASE j \in Range(ready.inbox)
    BY <1>2, <2>1
  <2>2. CASE j \notin Range(ready.inbox)
    <3> DEFINE u == ready.inbox
    <3>1. inbox = Append(u, j) /\ u \in Seq(Nat)
      BY <1>2, <2>2
    <3> HIDE DEF u, inbox
    <3>2. /\ Len(u) \in Nat /\ DOMAIN u = 1..Len(u)
          /\ DOMAIN Append(u, j) = 1..(Len(u) + 1)
          /\ Append(u, j)[Len(u) + 1] = j
          /\ \A l \in 1..Len(u) : Append(u, j)[l] = u[l]
      BY <3>1, <1>2
    <3>3. Range(Append(u, j)) = Range(u) \cup {j}
      BY ONLY <3>2 DEF Range
    <3>4. Append(u, j) \in Seq(Nat)
      BY <1>2, <3>1
    <3> QED BY <3>1, <3>3, <3>4 DEF u
  <2> QED BY <2>1, <2>2
<1>5. arrived \in Nat
  BY <1>2
<1>6. ready' = [ready EXCEPT !.air = air, !.inbox = inbox, !.arrived = arrived]
  BY Zenon, <1>1 DEF DeliverSample
<1> HIDE DEF air, inbox, arrived
<1>7. /\ ready'.phase = ready.phase /\ ready'.i = ready.i /\ ready'.air = air
      /\ ready'.inbox = inbox /\ ready'.received = ready.received
      /\ ready'.arrived = arrived /\ ready'.broken = ready.broken
  BY <1>1, <1>6 DEF Cases
<1>8. ready' \in Cases
  BY <1>1, <1>3, <1>4, <1>5, <1>6 DEF Cases
<1>9. \A n \in Nat : SentBefore(ready, n) => SentBefore(ready', n)
  BY <1>3, <1>4, <1>7 DEF SentBefore
<1>10. CASE ready.phase = "send"
  <2>1. SentBefore(ready', ready'.i) /\ Credited(ready, 0)
    BY <1>2, <1>7, <1>9, <1>10 DEF ReadyInv
  <2>2. arrived = ready.arrived
    BY <1>10 DEF arrived
  <2>3. Credited(ready', 0)
    BY <1>7, <2>1, <2>2 DEF Credited
  <2> QED BY <1>7, <1>8, <1>10, <2>1, <2>3 DEF ReadyInv
<1>11. CASE ready.phase = "wait"
  <2>1. SentBefore(ready', ready'.i + 1) /\ Credited(ready, Pending(ready))
    BY <1>2, <1>7, <1>9, <1>11 DEF ReadyInv
  <2>2. CASE hit
    <3>1. arrived = ready.arrived + 1 /\ Pending(ready) = 0 /\ Pending(ready') = 1
      BY <1>4, <1>7, <2>2 DEF arrived, Pending
    <3> QED BY <1>2, <1>7, <1>8, <1>11, <2>1, <3>1 DEF ReadyInv, Credited
  <2>3. CASE ~hit
    <3>1. arrived = ready.arrived /\ Pending(ready') = Pending(ready)
      BY <1>4, <1>7, <1>11, <2>3 DEF arrived, Pending
    <3> QED BY <1>7, <1>8, <1>11, <2>1, <3>1 DEF ReadyInv, Credited
  <2> QED BY <2>2, <2>3
<1> QED BY <1>1, <1>10, <1>11

LEMMA ReadyLoses ==
    ASSUME ReadyInv, NEW j \in ready.air, Lose(j)
    PROVE  ReadyInv'
<1> DEFINE air == ready.air \ {j}
<1>1. ready \in Cases /\ ready' = [ready EXCEPT !.air = air] /\ ready.phase \in {"send", "wait"}
  BY DEF ReadyInv, Lose
<1>2. air \in SUBSET Nat /\ air \subseteq ready.air
  BY <1>1 DEF Cases
<1> HIDE DEF air
<1>3. /\ ready'.phase = ready.phase /\ ready'.i = ready.i /\ ready'.air = air
      /\ ready'.inbox = ready.inbox /\ ready'.received = ready.received
      /\ ready'.arrived = ready.arrived /\ ready'.broken = ready.broken
  BY <1>1 DEF Cases
<1>4. ready' \in Cases
  BY <1>1, <1>2 DEF Cases
<1>5. SentBefore(ready, ready.i + 1) => SentBefore(ready', ready'.i + 1)
  BY <1>2, <1>3 DEF SentBefore
<1>6. SentBefore(ready, ready.i) => SentBefore(ready', ready'.i)
  BY <1>2, <1>3 DEF SentBefore
<1>7. \A n : Credited(ready, n) => Credited(ready', n)
  BY <1>3 DEF Credited
<1>8. Pending(ready') = Pending(ready)
  BY <1>3 DEF Pending
<1> QED BY <1>1, <1>3, <1>4, <1>5, <1>6, <1>7, <1>8 DEF ReadyInv

(* The receiver takes the first packet that is for it: another sample's is *)
(* skipped, its own ends the sample and counts.                            *)
LEMMA ReadyExpects ==
    ASSUME ReadyInv, ExpectGame
    PROVE  ReadyInv'
<1> DEFINE W == Waiting(ready)
           n == Min(W)
           j == ready.inbox[n]
           rest == RemoveAt(ready.inbox, n)
           k == [ready EXCEPT !.inbox = rest]
<1>1. /\ ready \in Cases /\ ready.phase = "wait" /\ W # {}
      /\ SentBefore(ready, ready.i + 1) /\ Credited(ready, Pending(ready))
  BY DEF ReadyInv, ExpectGame
<1>0. IF j = k.i
        THEN \E ms \in 1..2 :
               ready' = Ended([k EXCEPT !.received = @ + 1, !.latencies = Append(@, ms)])
        ELSE ready' = k
  BY DEF ExpectGame
<1>2. /\ ready.i \in Nat /\ ready.arrived \in Nat /\ ready.received \in Nat
      /\ ready.inbox \in Seq(Nat) /\ ready.air \in SUBSET Nat /\ ready.latencies \in Seq(Nat)
  BY <1>1 DEF Cases
<1>3. n \in 1..Len(ready.inbox)
  <2>1. W \subseteq 1..Len(ready.inbox) /\ W \subseteq Nat
    BY <1>2 DEF Waiting
  <2> HIDE DEF W
  <2>2. \E x \in W : \A y \in W : x <= y
    BY <1>1, <2>1, LeastExists
  <2>3. Min(W) \in W
    BY <2>2 DEF Min
  <2> QED BY <2>1, <2>3
<1> HIDE DEF n
<1>4. /\ rest \in Seq(Nat) /\ Range(rest) \subseteq Range(ready.inbox)
      /\ j \in Range(ready.inbox)
      /\ \A x \in Range(ready.inbox) : x # j => x \in Range(rest)
  <2> DEFINE u == ready.inbox
  <2>1. /\ rest \in Seq(Nat) /\ Len(rest) = Len(u) - 1
        /\ \A l \in 1..Len(u) - 1 : rest[l] = IF l < n THEN u[l] ELSE u[l + 1]
    BY <1>2, <1>3, RemovedAt
  <2>2. u \in Seq(Nat) /\ Len(u) \in Nat /\ DOMAIN u = 1..Len(u) /\ DOMAIN rest = 1..Len(u) - 1
    BY <1>2, <2>1
  <2> HIDE DEF rest, u
  <2>3. Range(rest) \subseteq Range(u)
    <3> SUFFICES ASSUME NEW l \in 1..Len(u) - 1
                 PROVE  rest[l] \in Range(u)
      BY <2>2 DEF Range
    <3>1. l \in 1..Len(u) /\ l + 1 \in 1..Len(u)
      BY <2>2
    <3> QED BY <2>1, <2>2, <3>1 DEF Range
  <2>4. j = u[n] /\ j \in Range(u)
    BY <1>3, <2>2 DEF Range, u
  <2>5. ASSUME NEW x \in Range(u), x # j
        PROVE  x \in Range(rest)
    <3>1. PICK l \in 1..Len(u) : u[l] = x
      BY <2>2 DEF Range
    <3>2. CASE l < n
      <4>1. l \in 1..Len(u) - 1
        BY <1>3, <2>2, <3>2 DEF u
      <4> QED BY <2>1, <2>2, <3>1, <3>2, <4>1 DEF Range
    <3>3. CASE ~(l < n)
      <4>1. l # n
        BY <2>4, <2>5, <3>1
      <4>2. l - 1 \in 1..Len(u) - 1 /\ ~(l - 1 < n) /\ (l - 1) + 1 = l
        BY <1>3, <2>2, <3>3, <4>1 DEF u
      <4> QED BY <2>1, <2>2, <3>1, <4>2 DEF Range
    <3> QED BY <3>2, <3>3
  <2> QED BY <2>1, <2>3, <2>4, <2>5 DEF u
<1> HIDE DEF rest
<1>5. /\ k \in Cases /\ k.phase = "wait" /\ k.i = ready.i /\ k.air = ready.air /\ k.inbox = rest
      /\ k.received = ready.received /\ k.arrived = ready.arrived /\ k.broken = ready.broken
      /\ k.latencies = ready.latencies
  <2>1. k \in Cases
    BY <1>1, <1>4 DEF Cases
  <2> QED BY <1>1, <2>1 DEF Cases
<1>6. SentBefore(k, k.i + 1)
  BY <1>1, <1>4, <1>5 DEF SentBefore
<1>7. CASE j = ready.i
  <2>1. PICK ms \in 1..2 :
           ready' = Ended([k EXCEPT !.received = @ + 1, !.latencies = Append(@, ms)])
    <3> HIDE DEF k, j
    <3> QED BY <1>0, <1>5, <1>7
  <2> DEFINE d == [k EXCEPT !.received = k.received + 1, !.latencies = Append(k.latencies, ms)]
  <2>2. ready' = Ended(d)
    BY <2>1
  <2>3. k.received + 1 \in Nat /\ Append(k.latencies, ms) \in Seq(Nat) /\ k.arrived \in Nat
    BY <1>2, <1>5
  <2> HIDE DEF k
  <2>4. /\ d.i = k.i /\ d.air = k.air /\ d.inbox = k.inbox
        /\ d.received = k.received + 1 /\ d.arrived = k.arrived /\ d.broken = k.broken
    BY <1>5 DEF Cases
  <2>5. d \in Cases
    BY <1>5, <2>3 DEF Cases
  <2> HIDE DEF d
  <2>6. SentBefore(d, d.i + 1)
    BY <1>6, <2>4 DEF SentBefore
  <2>7. d.broken \/ d.arrived = d.received
    <3>1. Pending(ready) = 1
      BY <1>4, <1>7 DEF Pending
    <3> QED BY <1>1, <1>5, <2>4, <3>1 DEF Credited
  <2> QED BY <2>2, <2>5, <2>6, <2>7, EndedKeeps
<1>8. CASE j # ready.i
  <2>1. ready' = k
    <3> HIDE DEF k, j
    <3> QED BY <1>0, <1>5, <1>8
  <2> HIDE DEF k
  <2>2. Pending(k) = Pending(ready)
    BY <1>4, <1>5, <1>8 DEF Pending
  <2>3. Credited(k, Pending(k))
    BY <1>1, <1>5, <2>2 DEF Credited
  <2> QED BY <1>5, <1>6, <2>1, <2>3 DEF ReadyInv
<1> QED BY <1>7, <1>8

(* When the receiver gives up, its packet is not in the inbox.             *)
LEMMA ReadyGivesUp ==
    ASSUME ReadyInv, SampleTimesOut \/ ReadFails
    PROVE  ReadyInv'
<1>1. /\ ready \in Cases /\ ready.phase = "wait" /\ SentBefore(ready, ready.i + 1)
      /\ Credited(ready, Pending(ready))
  BY DEF ReadyInv, SampleTimesOut, ReadFails
<1>2. /\ ready.i \in Nat /\ ready.inbox \in Seq(Nat)
      /\ ready.arrived \in Nat /\ ready.received \in Nat
  BY <1>1 DEF Cases
<1>3. CASE SampleTimesOut
  <2>1. ready.i \notin Range(ready.inbox)
    <3> SUFFICES ASSUME NEW n \in DOMAIN ready.inbox, ready.inbox[n] = ready.i
                 PROVE  FALSE
      BY DEF Range
    <3>1. n \in Waiting(ready)
      BY DEF Waiting
    <3> QED BY <1>3, <3>1 DEF SampleTimesOut
  <2>2. ready' = Ended(ready) /\ Pending(ready) = 0
    BY <1>3, <2>1 DEF SampleTimesOut, Pending
  <2>3. ready.broken \/ ready.arrived = ready.received
    BY <1>1, <1>2, <2>2 DEF Credited
  <2> QED BY <1>1, <2>2, <2>3, EndedKeeps
<1>4. CASE ReadFails
  <2> DEFINE d == [ready EXCEPT !.broken = TRUE]
  <2>1. ready' = Ended(d)
    BY <1>4 DEF ReadFails
  <2>2. /\ d.broken /\ d.i = ready.i /\ d.air = ready.air /\ d.inbox = ready.inbox
    BY <1>1 DEF Cases
  <2>3. d \in Cases
    BY <1>1 DEF Cases
  <2> HIDE DEF d
  <2>4. SentBefore(d, d.i + 1)
    BY <1>1, <2>2 DEF SentBefore
  <2> QED BY <2>1, <2>2, <2>3, <2>4, EndedKeeps
<1> QED BY <1>3, <1>4

(* A case starts with nothing on the way.                                  *)
LEMMA NoCaseIsSound ==
    /\ NoCase \in Cases /\ NoCase.phase = "idle" /\ SentBefore(NoCase, NoCase.i) /\ Credited(NoCase, 0)
<1>1. /\ NoCase.phase = "idle" /\ NoCase.i = 0 /\ NoCase.air = {} /\ NoCase.inbox = <<>>
      /\ NoCase.received = 0 /\ NoCase.arrived = 0
  BY DEF NoCase
<1>2. NoCase \in Cases
  <2>1. <<>> \in Seq(Nat) /\ {} \in SUBSET Nat /\ FALSE \in BOOLEAN /\ 0 \in Nat
    OBVIOUS
  <2> QED BY <2>1 DEF NoCase, Cases
<1>3. SentBefore(NoCase, NoCase.i)
  BY <1>1 DEF SentBefore, Range
<1>4. Credited(NoCase, 0)
  BY <1>1 DEF Credited
<1> QED BY <1>1, <1>2, <1>3, <1>4

LEMMA ReadyBegins ==
    ASSUME ReadyInv, StartReadiness \/ JoinPeers \/ FinishProbe
    PROVE  ReadyInv'
<1>1. CASE StartReadiness
  <2>1. PICK u \in BOOLEAN :
           ready' = [NoCase EXCEPT !.running = TRUE, !.phase = "join", !.udp = u]
    BY <1>1 DEF StartReadiness
  <2>2. ready' \in Cases
    BY <2>1, NoCaseIsSound DEF Cases
  <2>3. /\ ready'.phase = "join" /\ ready'.i = NoCase.i /\ ready'.air = NoCase.air
        /\ ready'.inbox = NoCase.inbox /\ ready'.received = NoCase.received
        /\ ready'.arrived = NoCase.arrived /\ ready'.broken = NoCase.broken
    BY <2>1, NoCaseIsSound DEF Cases
  <2>4. SentBefore(ready', ready'.i)
    BY <2>3, NoCaseIsSound DEF SentBefore
  <2>5. Credited(ready', 0)
    BY <2>3, NoCaseIsSound DEF Credited
  <2>6. ready'.arrived = ready'.received
    BY <2>3 DEF NoCase
  <2> QED BY <2>2, <2>3, <2>4, <2>5, <2>6 DEF ReadyInv
<1>2. CASE JoinPeers
  <2>1. /\ ready \in Cases /\ ready.phase = "join" /\ SentBefore(ready, ready.i)
        /\ ready.arrived = ready.received /\ ready.received \in Nat
    BY <1>2 DEF JoinPeers, ReadyInv, Cases
  <2>2. PICK ok \in BOOLEAN :
           ready' = [ready EXCEPT !.phase = IF ok THEN "send" ELSE "report", !.broken = ~ok]
    BY <1>2 DEF JoinPeers
  <2> DEFINE ph == IF ok THEN "send" ELSE "report"
             no == ~ok
  <2>3. ready' = [ready EXCEPT !.phase = ph, !.broken = no]
    BY Zenon, <2>2
  <2>4. no \in BOOLEAN /\ ph \in {"send", "report"}
    OBVIOUS
  <2> HIDE DEF ph, no
  <2>6. ready' \in Cases
    BY <2>1, <2>3, <2>4 DEF Cases
  <2>7. /\ ready'.phase = ph /\ ready'.i = ready.i /\ ready'.air = ready.air
        /\ ready'.inbox = ready.inbox /\ ready'.received = ready.received
        /\ ready'.arrived = ready.arrived /\ ready'.broken = no
    BY <2>1, <2>3 DEF Cases
  <2>8. SentBefore(ready', ready'.i)
    BY <2>1, <2>7 DEF SentBefore
  <2>9. Credited(ready', 0)
    BY <2>1, <2>7 DEF Credited
  <2> QED BY <2>4, <2>6, <2>7, <2>8, <2>9 DEF ReadyInv
<1>3. CASE FinishProbe
  <2>1. ready' = NoCase
    BY <1>3 DEF FinishProbe
  <2> QED BY <2>1, NoCaseIsSound DEF ReadyInv
<1> QED BY <1>1, <1>2, <1>3

LEMMA ReadyStep ==
    ASSUME ReadyInv, [LightNext \/ ReadyNext]_probeVars
    PROVE  ReadyInv'
<1>1. CASE UNCHANGED ready
  BY <1>1 DEF ReadyInv, SentBefore, Credited, Pending
<1>2. LightNext => UNCHANGED ready
  BY DEF LightNext, TestRelayLatency, SaveRelay, SelectTransport, Connect, SendPing,
         RelayAnswers, ReadPong, PingTimesOut
<1>3. CASE ReadyNext
  <2>1. CASE \E j \in ready.air : Lose(j) \/ (\E again \in BOOLEAN : DeliverSample(j, again))
    BY <2>1, ReadyLoses, ReadyDelivers
  <2>2. CASE SendSample
    BY <2>2, ReadySends
  <2>3. CASE ExpectGame
    BY <2>3, ReadyExpects
  <2>4. CASE SampleTimesOut \/ ReadFails
    BY <2>4, ReadyGivesUp
  <2>5. CASE StartReadiness \/ JoinPeers \/ FinishProbe
    BY <2>5, ReadyBegins
  <2> QED BY <1>3, <2>1, <2>2, <2>3, <2>4, <2>5 DEF ReadyNext
<1> QED BY <1>1, <1>2, <1>3 DEF probeVars

(* The readiness report is true (expect_game_with_timeout, sample_direction,*)
(* readiness_case_report): a packet that reached its receiver during its   *)
(* own sample is counted, so a late, doubled or reordered one never makes  *)
(* another sample look lost; and the quantiles are in order.               *)
THEOREM ReportsAreTrue == ProbeSpec => []ReportIsTrue
<1>1. ProbeInit => ReadyInv
  BY NoCaseIsSound DEF ProbeInit, ReadyInv
<1>2. ReadyInv => ReportIsTrue
  <2> SUFFICES ASSUME ReadyInv, ready.phase = "report"
               PROVE  LET r == CaseReport(ready)
                      IN  /\ ready.broken \/ r.missing = ready.sent - ready.arrived
                          /\ r.shape # <<>> => \A i \in 1..3 : r.shape[i] <= r.shape[i + 1]
    BY DEF ReportIsTrue
  <2>1. ready \in Cases /\ Credited(ready, 0) /\ ready.arrived \in Nat /\ ready.received \in Nat
    BY DEF ReadyInv, Cases
  <2>2. CaseReport(ready).missing = ready.sent - ready.received
    BY DEF CaseReport
  <2>3. ready.broken \/ CaseReport(ready).missing = ready.sent - ready.arrived
    BY <2>1, <2>2 DEF Credited
  <2> QED BY <2>1, <2>3, QuantilesInOrder
<1> QED BY <1>1, <1>2, ReadyStep, PTL DEF ProbeSpec

--------------------------------------------------------------------------------
(* The verdict (SessionHealth), for every order in which faults are added  *)
(* up.  Each rule of classify_quality and of the paths is met by more      *)
(* measurements once it is met, and the worst of several verdicts rises    *)
(* when one of them does.                                                  *)

Qualities == {"unavailable", "good", "watch", "poor"}

HealthWindows ==
    [packets : {0, 1}, starting : BOOLEAN, direct : [1..2 -> {0, 1}], drops : {0, 1},
     gaps : {0, 1, 10}, reordered : {0, 10}, stall : 0..2, timeouts : {0, 1, 3}]

MeasuredPaths ==
    [completed : {5, 20}, stale : BOOLEAN, missing : {0, 2, 3}, p95 : 0..2, jitter : 0..2]

ViewInv == view \in [window : HealthWindows, paths : SUBSET MeasuredPaths]

(* The position of each verdict.                                           *)
LEMMA Ranks ==
    /\ Rank("unavailable") = 1 /\ Rank("good") = 2 /\ Rank("watch") = 3 /\ Rank("poor") = 4
    /\ \A q \in Qualities : Rank(q) \in 1..4 /\ Verdict[Rank(q)] = q
<1>1. Verdict[1] = "unavailable" /\ Verdict[2] = "good" /\ Verdict[3] = "watch" /\ Verdict[4] = "poor"
  BY DEF Verdict
<1>2. ASSUME NEW j \in 1..4
      PROVE  Rank(Verdict[j]) = j
  <2> DEFINE i == CHOOSE i \in 1..4 : Verdict[i] = Verdict[j]
  <2>1. i \in 1..4 /\ Verdict[i] = Verdict[j]
    OBVIOUS
  <2>2. i = j
    <3> HIDE DEF i
    <3> QED BY <2>1, <1>1
  <2> QED BY <2>2 DEF Rank
<1>3. /\ Rank("unavailable") = 1 /\ Rank("good") = 2 /\ Rank("watch") = 3 /\ Rank("poor") = 4
  BY <1>1, <1>2
<1> QED BY <1>1, <1>3 DEF Qualities

(* The worst of some verdicts is one of them, and none is worse.           *)
LEMMA WorstIsOne ==
    ASSUME NEW Q \in SUBSET Qualities, Q # {}
    PROVE  Worst(Q) \in Q /\ \A q \in Q : Rank(q) <= Rank(Worst(Q))
<1> DEFINE T == {Rank(q) : q \in Q}
<1>1. T \subseteq 0..4 /\ T # {}
  BY Ranks
<1>2. Max(T) \in T /\ \A i \in T : i <= Max(T)
  <2> HIDE DEF T
  <2> QED BY <1>1, MaxOfBounded
<1>3. PICK q \in Q : Max(T) = Rank(q)
  <2>1. \A m \in T : \E q \in Q : m = Rank(q)
    OBVIOUS
  <2> HIDE DEF T
  <2> QED BY <1>2, <2>1
<1>4. Worst(Q) = Verdict[Max(T)]
  BY DEF Worst
<1>5. Worst(Q) = q
  BY <1>3, <1>4, Ranks
<1> QED BY <1>2, <1>3, <1>5

(* When each verdict of Q is matched by one of R that is no better, the    *)
(* worst of R is no better than the worst of Q.                            *)
LEMMA WorstRises ==
    ASSUME NEW Q \in SUBSET Qualities, Q # {}, NEW R \in SUBSET Qualities,
           \A q \in Q : \E r \in R : Rank(q) <= Rank(r)
    PROVE  Rank(Worst(Q)) <= Rank(Worst(R))
<1>1. Worst(Q) \in Q
  BY WorstIsOne
<1>2. PICK r \in R : Rank(Worst(Q)) <= Rank(r)
  BY <1>1
<1>3. Worst(R) \in R /\ Rank(r) <= Rank(Worst(R))
  BY <1>2, WorstIsOne
<1>4. Rank(Worst(Q)) \in 1..4 /\ Rank(r) \in 1..4 /\ Rank(Worst(R)) \in 1..4
  BY <1>1, <1>2, <1>3, Ranks
<1> QED BY ONLY <1>2, <1>3, <1>4

(* The drops of the LAN data plane are those of its two peers.             *)
LEMMA DirectSum ==
    ASSUME NEW w \in HealthWindows
    PROVE  DirectDrops(w) = w.direct[1] + w.direct[2]
<1> DEFINE d == w.direct
           Chosen(s) == CHOOSE x \in s : TRUE
           Stage(g) == [s \in SUBSET (1..2) |-> IF s = {} THEN 0 ELSE d[Chosen(s)] + g[s \ {Chosen(s)}]]
           it == CHOOSE g : g = Stage(g)
           g == [s \in SUBSET (1..2) |-> (IF 1 \in s THEN d[1] ELSE 0) + (IF 2 \in s THEN d[2] ELSE 0)]
<1>1. d \in [1..2 -> {0, 1}] /\ DOMAIN d = 1..2
  BY DEF HealthWindows
<1>2. ASSUME NEW s \in SUBSET (1..2), s # {}
      PROVE  Chosen(s) \in s /\ Chosen(s) \in {1, 2} /\ s \ {Chosen(s)} \in SUBSET (1..2)
  <2>1. Chosen(s) \in s
    BY Zenon, <1>2
  <2> HIDE DEF Chosen
  <2>2. Chosen(s) \in 1..2 /\ s \ {Chosen(s)} \in SUBSET (1..2)
    BY <2>1
  <2>3. \A x \in 1..2 : x \in {1, 2}
    OBVIOUS
  <2> QED BY Zenon, <2>1, <2>2, <2>3
<1>3. d[1] \in Nat /\ d[2] \in Nat
  BY <1>1
<1> HIDE DEF d
<1>4. g = Stage(g)
  <2>1. ASSUME NEW s \in SUBSET (1..2), s # {}
        PROVE  g[s] = d[Chosen(s)] + g[s \ {Chosen(s)}]
    <3> DEFINE c0 == Chosen(s)
    <3>1. c0 \in s /\ c0 \in {1, 2} /\ s \ {c0} \in SUBSET (1..2)
      BY <1>2, <2>1
    <3> HIDE DEF c0
    <3>2. g[s] = d[c0] + g[s \ {c0}]
      BY <3>1, <1>3
    <3> QED BY <3>2 DEF c0
  <2>2. g[{}] = 0
    BY <1>3
  <2> QED BY <2>1, <2>2
<1>5. it = Stage(it)
  <2> HIDE DEF Stage
  <2> QED BY <1>4
<1>6. DirectDrops(w) = it[1..2]
  BY Zenon, <1>1 DEF DirectDrops, MapThenSumSet, MapThenFoldSet, d
<1> HIDE DEF it
<1>7. /\ it[{}] = 0
      /\ \A s \in SUBSET (1..2) : s # {} => it[s] = d[Chosen(s)] + it[s \ {Chosen(s)}]
  <2>1. \A s \in SUBSET (1..2) : it[s] = Stage(it)[s]
    BY <1>5
  <2> QED BY <2>1
<1>8. it[{1}] = d[1] /\ it[{2}] = d[2]
  <2>1. Chosen({1}) = 1 /\ {1} \ {1} = {} /\ Chosen({2}) = 2 /\ {2} \ {2} = {}
    OBVIOUS
  <2> HIDE DEF Chosen
  <2>2. it[{1}] = d[1] + it[{}] /\ it[{2}] = d[2] + it[{}]
    BY <2>1, <1>7
  <2> QED BY <2>2, <1>7, <1>3
<1>9. it[1..2] = d[1] + d[2]
  <2> DEFINE c0 == Chosen(1..2)
  <2>1. c0 \in {1, 2}
    BY <1>2
  <2>2. it[1..2] = d[c0] + it[(1..2) \ {c0}]
    <3>1. 1..2 \in SUBSET (1..2) /\ 1..2 # {}
      OBVIOUS
    <3> HIDE DEF Chosen
    <3> QED BY Zenon, <3>1, <1>7
  <2>3. (1..2) \ {1} = {2} /\ (1..2) \ {2} = {1}
    OBVIOUS
  <2> HIDE DEF c0
  <2>4. CASE c0 = 1
    BY ONLY <2>4, <2>2, <2>3, <1>8
  <2>5. CASE c0 = 2
    <3>1. it[1..2] = d[2] + d[1]
      BY ONLY <2>5, <2>2, <2>3, <1>8
    <3>2. d[2] + d[1] = d[1] + d[2]
      BY ONLY <1>3
    <3> QED BY ONLY <3>1, <3>2
  <2> QED BY <2>1, <2>4, <2>5
<1> QED BY <1>6, <1>9 DEF d

(* What the losses of a path amount to.                                    *)
LEMMA LossOfPath ==
    ASSUME NEW p \in MeasuredPaths
    PROVE  /\ loss_basis_points(p) \in Nat
           /\ loss_basis_points(p) >= 200 <=> p.missing >= 2
           /\ p.missing = 3 => loss_basis_points(p) >= 1000
<1>1. p.completed \in {5, 20} /\ p.missing \in {0, 2, 3}
  BY DEF MeasuredPaths
<1>2. CASE p.completed = 5
  BY <1>1, <1>2 DEF loss_basis_points
<1>3. CASE p.completed = 20
  BY <1>1, <1>3 DEF loss_basis_points
<1> QED BY <1>1, <1>2, <1>3

LEMMA QualityOf ==
    ASSUME NEW w \in HealthWindows
    PROVE  classify_quality(w) \in Qualities
BY DEF classify_quality, Qualities

LEMMA QualityOfPath ==
    ASSUME NEW p
    PROVE  PathVerdict(p) \in Qualities
BY DEF PathVerdict, Qualities

(* Counters that rise, and a verdict that meets the same rules.            *)
LEMMA MoreFaultsWorse ==
    ASSUME NEW w \in HealthWindows, NEW z \in HealthWindows,
           z.packets = w.packets, z.starting = w.starting, z.direct[2] = w.direct[2],
           w.direct[1] <= z.direct[1], w.drops <= z.drops, w.gaps <= z.gaps,
           w.reordered <= z.reordered, w.stall <= z.stall, w.timeouts <= z.timeouts
    PROVE  Rank(classify_quality(w)) <= Rank(classify_quality(z))
<1> DEFINE Evident(v) == v.packets > 0 \/ DirectDrops(v) > 0
           Poor(v) == \/ DirectDrops(v) > 0 \/ v.drops > 0
                      \/ v.gaps >= 10
                      \/ v.stall = 2
                      \/ v.timeouts >= 3
           Watched(v) == v.gaps >= 1 \/ v.reordered >= 10 \/ v.stall > 0 \/ v.timeouts > 0
<1>1. ASSUME NEW v \in HealthWindows
      PROVE  /\ v.starting \in BOOLEAN /\ v.packets \in Nat /\ v.drops \in Nat /\ v.gaps \in Nat
             /\ v.reordered \in Nat /\ v.stall \in 0..2 /\ v.timeouts \in Nat
             /\ v.direct[1] \in Nat /\ v.direct[2] \in Nat
             /\ DirectDrops(v) = v.direct[1] + v.direct[2]
  BY DirectSum DEF HealthWindows
<1>2. DirectDrops(w) \in Nat /\ DirectDrops(z) \in Nat /\ DirectDrops(w) <= DirectDrops(z)
  BY <1>1
<1>3. Evident(w) => Evident(z)
  BY <1>1, <1>2
<1>4. Poor(w) => Poor(z)
  BY <1>1, <1>2
<1>5. Watched(w) => Watched(z)
  BY <1>1
<1>6. ASSUME NEW v \in HealthWindows
      PROVE  classify_quality(v) = IF v.starting \/ ~Evident(v) THEN "unavailable"
                                   ELSE IF Poor(v) THEN "poor"
                                   ELSE IF Watched(v) THEN "watch" ELSE "good"
  BY DEF classify_quality
<1> HIDE DEF Evident, Poor, Watched
<1>7. Evident(w) \in BOOLEAN /\ Poor(w) \in BOOLEAN /\ Watched(w) \in BOOLEAN
      /\ Evident(z) \in BOOLEAN /\ Poor(z) \in BOOLEAN /\ Watched(z) \in BOOLEAN
  BY DEF Evident, Poor, Watched
<1> QED BY <1>1, <1>3, <1>4, <1>5, <1>6, <1>7, Ranks

(* One more fault of a window raises a counter and nothing else.           *)
LEMMA WorseWindow ==
    ASSUME NEW w \in HealthWindows, NEW f
    PROVE  /\ Worse(f, w) \in HealthWindows
           /\ Rank(classify_quality(w)) <= Rank(classify_quality(Worse(f, w)))
<1> DEFINE z == Worse(f, w)
<1>1. /\ w.starting \in BOOLEAN /\ w.packets \in {0, 1} /\ w.drops \in {0, 1} /\ w.gaps \in {0, 1, 10}
      /\ w.reordered \in {0, 10} /\ w.stall \in 0..2 /\ w.timeouts \in {0, 1, 3}
      /\ w.direct \in [1..2 -> {0, 1}]
  BY DEF HealthWindows
<1>2. z \in HealthWindows
  <2>1. \/ z = [w EXCEPT !.direct[1] = 1]
        \/ z = [w EXCEPT !.drops = 1]
        \/ z = [w EXCEPT !.gaps = IF w.gaps = 0 THEN 1 ELSE 10]
        \/ z = [w EXCEPT !.reordered = 10]
        \/ z = [w EXCEPT !.stall = IF w.stall < 2 THEN w.stall + 1 ELSE w.stall]
        \/ z = [w EXCEPT !.timeouts = IF w.timeouts = 0 THEN 1 ELSE 3]
    BY DEF Worse
  <2>2. IF w.stall < 2 THEN w.stall + 1 \in 0..2 ELSE w.stall \in 0..2
    BY <1>1
  <2> HIDE DEF z
  <2> QED BY <2>1, <2>2, <1>1 DEF HealthWindows
<1>3. /\ z.packets = w.packets /\ z.starting = w.starting /\ z.direct[2] = w.direct[2]
      /\ w.direct[1] <= z.direct[1] /\ w.drops <= z.drops /\ w.gaps <= z.gaps
      /\ w.reordered <= z.reordered /\ w.stall <= z.stall /\ w.timeouts <= z.timeouts
  <2>1. w \in HealthWindows /\ w.direct[1] \in {0, 1} /\ w.direct[2] \in {0, 1}
    BY <1>1
  <2>2. CASE f = "direct"
    BY <2>1, <2>2, <1>1 DEF Worse, HealthWindows
  <2>3. CASE f = "queue"
    BY <2>1, <2>3, <1>1 DEF Worse, HealthWindows
  <2>4. CASE f = "gaps"
    BY <2>1, <2>4, <1>1 DEF Worse, HealthWindows
  <2>5. CASE f = "reordered"
    BY <2>1, <2>5, <1>1 DEF Worse, HealthWindows
  <2>6. CASE f = "stall"
    BY <2>1, <2>6, <1>1 DEF Worse, HealthWindows
  <2>7. CASE f \notin {"direct", "queue", "gaps", "reordered", "stall"}
    BY <2>1, <2>7, <1>1 DEF Worse, HealthWindows
  <2> QED BY <2>2, <2>3, <2>4, <2>5, <2>6, <2>7
<1> HIDE DEF z
<1>4. Rank(classify_quality(w)) <= Rank(classify_quality(z))
  BY <1>2, <1>3, MoreFaultsWorse
<1> QED BY <1>2, <1>4 DEF z

(* A path that loses more, or is slower, is no better.                     *)
LEMMA WorsePath ==
    ASSUME NEW p \in MeasuredPaths, NEW r \in MeasuredPaths,
           r.completed = p.completed, p.missing <= r.missing, p.p95 <= r.p95, p.jitter <= r.jitter
    PROVE  Rank(PathVerdict(p)) <= Rank(PathVerdict(r))
<1> DEFINE Sustained == p.completed >= 10
           Poor(q) == q.p95 = 2 \/ q.jitter = 2 \/ q.missing = 3
           Watched(q) == q.p95 >= 1 \/ q.jitter >= 1 \/ q.missing >= 2
<1>1. ASSUME NEW q \in MeasuredPaths
      PROVE  q.completed \in Nat /\ q.missing \in {0, 2, 3} /\ q.p95 \in 0..2 /\ q.jitter \in 0..2
  BY DEF MeasuredPaths
<1>2. ASSUME NEW q \in MeasuredPaths, q.completed = p.completed
      PROVE  PathVerdict(q) = IF Sustained /\ Poor(q) THEN "poor"
                              ELSE IF Watched(q) THEN "watch" ELSE "good"
  <2>1. q.missing \in {0, 2, 3}
    BY <1>1
  <2>2. loss_basis_points(q) >= 200 <=> q.missing >= 2
    BY LossOfPath
  <2>3. q.missing = 3 => loss_basis_points(q) >= 1000
    BY LossOfPath
  <2>4. (loss_basis_points(q) >= 200 /\ q.missing >= 2) <=> q.missing >= 2
    BY <2>2
  <2>5. q.missing >= 3 <=> q.missing = 3
    BY <2>1
  <2>6. q.missing = 3 => q.missing >= 2
    OBVIOUS
  <2> QED BY <1>2, <2>3, <2>4, <2>5, <2>6 DEF PathVerdict
<1>3. Poor(p) => Poor(r)
  BY <1>1
<1>4. Watched(p) => Watched(r)
  BY <1>1
<1> HIDE DEF Poor, Watched, Sustained
<1> QED BY <1>2, <1>3, <1>4, Ranks

(* What may happen to a path.                                              *)
LEMMA WorsenedPath ==
    ASSUME NEW p \in MeasuredPaths, NEW r,
           r \in {[p EXCEPT !.missing = IF @ = 0 THEN 2 ELSE 3], [p EXCEPT !.p95 = IF @ < 2 THEN @ + 1 ELSE @],
                  [p EXCEPT !.jitter = IF @ < 2 THEN @ + 1 ELSE @]}
    PROVE  /\ r \in MeasuredPaths
           /\ Current(r) = Current(p)
           /\ Rank(PathVerdict(p)) <= Rank(PathVerdict(r))
<1>1. p.completed \in {5, 20} /\ p.stale \in BOOLEAN /\ p.missing \in {0, 2, 3} /\ p.p95 \in 0..2 /\ p.jitter \in 0..2
  BY DEF MeasuredPaths
<1>2. (IF p.p95 < 2 THEN p.p95 + 1 ELSE p.p95) \in 0..2 /\ (IF p.jitter < 2 THEN p.jitter + 1 ELSE p.jitter) \in 0..2
  BY <1>1
<1>3. r \in MeasuredPaths
  BY <1>1, <1>2 DEF MeasuredPaths
<1>4. r.completed = p.completed /\ r.stale = p.stale /\ p.missing <= r.missing /\ p.p95 <= r.p95 /\ p.jitter <= r.jitter
  BY <1>1, <1>2 DEF MeasuredPaths
<1>5. Current(r) = Current(p)
  BY <1>4 DEF Current
<1> QED BY <1>3, <1>4, <1>5, WorsePath

(* The verdicts of a view are never none.                                  *)
Opinions(v) == {classify_quality(v.window)} \cup {PathVerdict(p) : p \in {q \in v.paths : Current(q)}}

LEMMA OpinionsExist ==
    ASSUME NEW v \in [window : HealthWindows, paths : SUBSET MeasuredPaths]
    PROVE  Opinions(v) \in SUBSET Qualities /\ Opinions(v) # {} /\ assess_smoothness(v) = Worst(Opinions(v))
BY QualityOf, QualityOfPath DEF Opinions, assess_smoothness

(* One more fault of the window, or of a path, keeps the types and never   *)
(* improves the verdict.                                                   *)
LEMMA VerdictRises ==
    ASSUME ViewInv, ViewNext
    PROVE  ViewInv' /\ Rank(assess_smoothness(view)) <= Rank(assess_smoothness(view'))
<1>1. view.window \in HealthWindows /\ view.paths \in SUBSET MeasuredPaths
      /\ view = [window |-> view.window, paths |-> view.paths]
  BY DEF ViewInv
<1> DEFINE Q == Opinions(view)
           R == Opinions(view')
<1>2. ViewInv' /\ \A q \in Q : \E r \in R : Rank(q) <= Rank(r)
  <2>1. CASE WindowWorsens
    <3>1. PICK f : view' = [view EXCEPT !.window = Worse(f, view.window)]
      BY <2>1 DEF WindowWorsens
    <3>2. view'.window = Worse(f, view.window) /\ view'.paths = view.paths
          /\ view' = [window |-> Worse(f, view.window), paths |-> view.paths]
      BY <3>1, <1>1
    <3>3. ViewInv'
      BY <3>2, <1>1, WorseWindow DEF ViewInv
    <3>4. Rank(classify_quality(view.window)) <= Rank(classify_quality(view'.window))
      BY <3>2, <1>1, WorseWindow
    <3>5. ASSUME NEW p \in {q \in view.paths : Current(q)}
          PROVE  Rank(PathVerdict(p)) <= Rank(PathVerdict(p)) /\ PathVerdict(p) \in R
      BY <3>2, QualityOfPath, Ranks DEF Opinions
    <3>6. classify_quality(view'.window) \in R
      BY DEF Opinions
    <3> HIDE DEF R
    <3> QED BY <3>3, <3>4, <3>5, <3>6 DEF Opinions
  <2>2. CASE PathWorsens
    <3>1. PICK p \in view.paths :
            \E r \in {[p EXCEPT !.missing = IF @ = 0 THEN 2 ELSE 3], [p EXCEPT !.p95 = IF @ < 2 THEN @ + 1 ELSE @],
                      [p EXCEPT !.jitter = IF @ < 2 THEN @ + 1 ELSE @]} :
              view' = [view EXCEPT !.paths = (view.paths \ {p}) \cup {r}]
      BY <2>2 DEF PathWorsens
    <3>1a. PICK r \in {[p EXCEPT !.missing = IF @ = 0 THEN 2 ELSE 3], [p EXCEPT !.p95 = IF @ < 2 THEN @ + 1 ELSE @],
                    [p EXCEPT !.jitter = IF @ < 2 THEN @ + 1 ELSE @]} :
              view' = [view EXCEPT !.paths = (view.paths \ {p}) \cup {r}]
      BY <3>1
    <3>2. r \in MeasuredPaths /\ Current(r) = Current(p) /\ Rank(PathVerdict(p)) <= Rank(PathVerdict(r))
      <4>1. p \in MeasuredPaths
        BY <1>1
      <4> QED BY <4>1, WorsenedPath
    <3>3. view'.window = view.window /\ view'.paths = (view.paths \ {p}) \cup {r}
          /\ view' = [window |-> view.window, paths |-> (view.paths \ {p}) \cup {r}]
      BY <3>1a, <1>1
    <3>4. ViewInv'
      BY <3>2, <3>3, <1>1 DEF ViewInv
    <3>5. classify_quality(view.window) \in R
          /\ Rank(classify_quality(view.window)) <= Rank(classify_quality(view.window))
      BY <3>3, <1>1, QualityOf, Ranks DEF Opinions
    <3>6. ASSUME NEW q \in view.paths, Current(q)
          PROVE  \E o \in R : Rank(PathVerdict(q)) <= Rank(o)
      <4>1. CASE q = p
        <5>1. Current(r) /\ r \in view'.paths
          BY <4>1, <3>2, <3>3, <3>6
        <5>2. PathVerdict(r) \in R
          BY <5>1 DEF Opinions
        <5> QED BY <5>2, <3>2, <4>1
      <4>2. CASE q # p
        <5>1. PathVerdict(q) \in R
          BY <4>2, <3>3, <3>6 DEF Opinions
        <5>2. Rank(PathVerdict(q)) <= Rank(PathVerdict(q))
          BY QualityOfPath, Ranks
        <5> QED BY <5>1, <5>2
      <4> QED BY <4>1, <4>2
    <3> HIDE DEF R
    <3> QED BY <3>4, <3>5, <3>6 DEF Opinions
  <2> QED BY <2>1, <2>2 DEF ViewNext
<1>3. view \in [window : HealthWindows, paths : SUBSET MeasuredPaths]
      /\ view' \in [window : HealthWindows, paths : SUBSET MeasuredPaths]
  BY <1>2 DEF ViewInv
<1>4. /\ Q \in SUBSET Qualities /\ Q # {} /\ assess_smoothness(view) = Worst(Q)
      /\ R \in SUBSET Qualities /\ R # {} /\ assess_smoothness(view') = Worst(R)
  BY <1>3, OpinionsExist
<1> HIDE DEF Q, R
<1>5. Rank(Worst(Q)) <= Rank(Worst(R))
  BY <1>2, <1>4, WorstRises
<1> QED BY <1>2, <1>4, <1>5

(* Worse never looks better (WorseNeverLooksBetter): one more fault, with  *)
(* the rest of the measurements unchanged, never improves what             *)
(* assess_smoothness shows, whatever faults there were before and however  *)
(* many paths the room has.                                                *)
THEOREM VerdictNeverImproves == ViewSpec => WorseNeverLooksBetter
<1>1. ViewInit => ViewInv
  <2> SUFFICES ASSUME ViewInit PROVE ViewInv
    OBVIOUS
  <2>1. \A n \in {5, 20}, s \in BOOLEAN : NewPath(n, s) \in MeasuredPaths
    BY DEF NewPath, MeasuredPaths
  <2>2. [p \in 1..2 |-> 0] \in [1..2 -> {0, 1}]
    OBVIOUS
  <2>3. view.window \in [packets : {0, 1}, starting : BOOLEAN, direct : {[p \in 1..2 |-> 0]},
                         drops : {0}, gaps : {0}, reordered : {0}, stall : {0}, timeouts : {0}]
        /\ view.paths \in {{}, {NewPath(5, FALSE)}, {NewPath(20, FALSE)}, {NewPath(20, TRUE)}}
        /\ view = [window |-> view.window, paths |-> view.paths]
    BY DEF ViewInit
  <2>4. view.window \in HealthWindows
    BY <2>2, <2>3 DEF HealthWindows
  <2>5. view.paths \in SUBSET MeasuredPaths
    BY <2>1, <2>3
  <2> QED BY <2>3, <2>4, <2>5 DEF ViewInv
<1>2. ViewInv /\ [ViewNext]_healthVars
        => ViewInv' /\ [Rank(assess_smoothness(view')) >= Rank(assess_smoothness(view))]_view
  <2> SUFFICES ASSUME ViewInv, [ViewNext]_healthVars
               PROVE  ViewInv' /\ [Rank(assess_smoothness(view')) >= Rank(assess_smoothness(view))]_view
    OBVIOUS
  <2>1. CASE UNCHANGED healthVars
    BY <2>1 DEF ViewInv, healthVars
  <2>2. CASE ViewNext
    <3>1. ViewInv' /\ Rank(assess_smoothness(view)) <= Rank(assess_smoothness(view'))
      BY <2>2, VerdictRises
    <3> QED BY ONLY <3>1
  <2> QED BY <2>1, <2>2
<1> QED BY <1>1, <1>2, PTL DEF ViewSpec, WorseNeverLooksBetter

--------------------------------------------------------------------------------
(* The invitation to a LAN room (LanInvite), for every set of network      *)
(* adapters, limit of candidates and timeouts.                             *)

(* A set in which of two different members one is before the other.        *)
Chain(U, before) ==
    /\ \A x \in U : <<x, x>> \notin before
    /\ \A x, y, z \in U : <<x, y>> \in before /\ <<y, z>> \in before => <<x, z>> \in before
    /\ \A x, y \in U : x # y => <<x, y>> \in before \/ <<y, x>> \in before

(* Who comes later in the chain has more members before it, so counting    *)
(* them gives every member a place of its own: Ordered lists the members   *)
(* of U, each once.                                                        *)
Lists(s, U) ==
    /\ s \in [1 .. Cardinality(U) -> U]
    /\ \A x \in U : \E i \in 1 .. Cardinality(U) : s[i] = x
    /\ \A i, j \in 1 .. Cardinality(U) : s[i] = s[j] => i = j

LEMMA OrderedLists ==
    ASSUME NEW U, IsFiniteSet(U), NEW before, Chain(U, before)
    PROVE  /\ Lists(Ordered(U, before), U)
           /\ \A i, j \in 1 .. Cardinality(U) :
                 i < j => <<Ordered(U, before)[i], Ordered(U, before)[j]>> \in before
<1> DEFINE n == Cardinality(U)
           Earlier(x) == {y \in U : <<y, x>> \in before}
           f == [x \in U |-> Cardinality(Earlier(x)) + 1]
           s == Ordered(U, before)
<1>1. n \in Nat
  BY FS_CardinalityType
<1>2. ASSUME NEW x \in U
      PROVE  IsFiniteSet(Earlier(x)) /\ Cardinality(Earlier(x)) \in Nat /\ Cardinality(Earlier(x)) < n
  <2>1. Earlier(x) \in SUBSET U /\ Earlier(x) # U
    BY DEF Chain
  <2> HIDE DEF Earlier
  <2>2. IsFiniteSet(Earlier(x)) /\ Cardinality(Earlier(x)) <= n /\ Cardinality(Earlier(x)) # n
    BY <2>1, FS_Subset
  <2>3. Cardinality(Earlier(x)) \in Nat
    BY <2>2, FS_CardinalityType
  <2> HIDE DEF n
  <2> QED BY <1>1, <2>2, <2>3
<1>3. ASSUME NEW x \in U, NEW y \in U, <<x, y>> \in before
      PROVE  Cardinality(Earlier(x)) < Cardinality(Earlier(y))
  <2>1. Earlier(x) \in SUBSET Earlier(y)
    BY <1>3 DEF Chain
  <2>2. x \in Earlier(y) /\ x \notin Earlier(x)
    BY <1>3 DEF Chain
  <2> DEFINE a == Earlier(x)
             b0 == Earlier(y)
  <2>3. IsFiniteSet(b0) /\ Cardinality(a) \in Nat /\ Cardinality(b0) \in Nat
    BY <1>2
  <2>4. a \in SUBSET b0 /\ a # b0
    BY <2>1, <2>2
  <2> HIDE DEF a, b0
  <2>5. Cardinality(a) <= Cardinality(b0) /\ Cardinality(a) # Cardinality(b0)
    BY <2>3, <2>4, FS_Subset
  <2>6. Cardinality(a) < Cardinality(b0)
    BY <2>3, <2>5
  <2> QED BY <2>6 DEF a, b0
<1>4. ASSUME NEW x \in U, NEW y \in U, Cardinality(Earlier(x)) = Cardinality(Earlier(y))
      PROVE  x = y
  <2>1. <<x, y>> \notin before /\ <<y, x>> \notin before
    <3> HIDE DEF Earlier
    <3> QED BY <1>2, <1>3, <1>4
  <2> QED BY <2>1 DEF Chain
<1>5. f \in Injection(U, 1 .. n)
  <2>1. \A x \in U : Cardinality(Earlier(x)) + 1 \in 1 .. n
    <3> HIDE DEF Earlier, n
    <3> QED BY <1>1, <1>2
  <2>2. \A x, y \in U : Cardinality(Earlier(x)) + 1 = Cardinality(Earlier(y)) + 1 => x = y
    <3> HIDE DEF Earlier
    <3> QED BY <1>2, <1>4
  <2> HIDE DEF Earlier, n
  <2> QED BY <2>1, <2>2 DEF Injection, IsInjective
<1>6. \A i \in 1 .. n : \E x \in U : Cardinality(Earlier(x)) = i - 1
  <2>1. IsFiniteSet(1 .. n) /\ Cardinality(1 .. n) = n
    <3> HIDE DEF n
    <3> QED BY <1>1, FS_Interval
  <2>2. f \in Surjection(U, 1 .. n)
    <3> HIDE DEF f
    <3> QED BY <1>5, <2>1, FS_Injection
  <2>3. \A i \in 1 .. n : \E x \in U : f[x] = i
    <3> HIDE DEF f, n
    <3> QED BY <2>2 DEF Surjection
  <2> HIDE DEF Earlier, n
  <2> QED BY <2>3, <1>1, <1>2
<1>7. ASSUME NEW i \in 1 .. n
      PROVE  s[i] \in U /\ Cardinality(Earlier(s[i])) = i - 1
  <2>1. s[i] = CHOOSE x \in U : Cardinality(Earlier(x)) = i - 1
    <3>1. s = [k \in 1 .. n |-> CHOOSE x \in U : Cardinality(Earlier(x)) = k - 1]
      BY DEF Ordered
    <3> HIDE DEF s, Earlier, n
    <3> QED BY Zenon, <3>1
  <2> HIDE DEF Earlier, s
  <2> QED BY Zenon, <2>1, <1>6
<1>8. s \in [1 .. n -> U]
  <2>1. s = [k \in 1 .. n |-> CHOOSE x \in U : Cardinality(Earlier(x)) = k - 1]
    BY DEF Ordered
  <2> HIDE DEF s, n, Earlier
  <2> QED BY <2>1, <1>7
<1>9. ASSUME NEW x \in U
      PROVE  \E i \in 1 .. n : s[i] = x
  <2> DEFINE i == f[x]
  <2>1. i \in 1 .. n /\ i - 1 = Cardinality(Earlier(x))
    <3>1. f[x] = Cardinality(Earlier(x)) + 1 /\ f[x] \in 1 .. n
      <4>1. f[x] = Cardinality(Earlier(x)) + 1
        OBVIOUS
      <4> HIDE DEF f
      <4> QED BY <4>1, <1>5 DEF Injection
    <3> HIDE DEF f, Earlier
    <3> QED BY <3>1, <1>2
  <2> HIDE DEF i, s, Earlier
  <2> QED BY <2>1, <1>7, <1>4
<1>10. ASSUME NEW i \in 1 .. n, NEW j \in 1 .. n, s[i] = s[j]
       PROVE  i = j
  <2>1. i - 1 = j - 1
    <3> HIDE DEF s, Earlier
    <3> QED BY <1>7, <1>10
  <2> QED BY <2>1
<1>11. ASSUME NEW i \in 1 .. n, NEW j \in 1 .. n, i < j
       PROVE  <<s[i], s[j]>> \in before
  <2>1. s[i] \in U /\ s[j] \in U /\ s[i] # s[j]
    <3> HIDE DEF s, Earlier
    <3> QED BY <1>7, <1>10, <1>11
  <2>2. <<s[j], s[i]>> \notin before
    <3> SUFFICES ASSUME <<s[j], s[i]>> \in before PROVE FALSE
      OBVIOUS
    <3>1. Cardinality(Earlier(s[j])) < Cardinality(Earlier(s[i]))
      <4> HIDE DEF s, Earlier
      <4> QED BY <2>1, <1>3
    <3>2. j - 1 < i - 1
      <4> HIDE DEF s, Earlier
      <4> QED BY <3>1, <1>7
    <3> QED BY <3>2, <1>11
  <2> HIDE DEF s
  <2> QED BY <2>1, <2>2 DEF Chain
<1> HIDE DEF s
<1>12. Lists(s, U)
  BY <1>8, <1>9, <1>10 DEF Lists
<1> QED BY <1>11, <1>12 DEF s

(* What is left of a sequence at some of its places.                       *)
LEMMA FilteredIs ==
    ASSUME NEW E, NEW s \in Seq(E), NEW places \in SUBSET (DOMAIN s)
    PROVE  /\ Filtered(s, places) \in Seq(E)
           /\ Len(Filtered(s, places)) <= Len(s)
           /\ ToSet(Filtered(s, places)) = {s[i] : i \in places}
           /\ (\A i, j \in places : s[i] = s[j] => i = j)
                => \A i, j \in DOMAIN Filtered(s, places) :
                      Filtered(s, places)[i] = Filtered(s, places)[j] => i = j
<1> DEFINE before == {q \in places \X places : q[1] < q[2]}
           p == Ordered(places, before)
           c0 == Cardinality(places)
           t == Filtered(s, places)
<1>1. Len(s) \in Nat /\ DOMAIN s = 1 .. Len(s) /\ places \subseteq 1 .. Len(s)
      /\ \A i \in 1 .. Len(s) : s[i] \in E
  OBVIOUS
<1>2. IsFiniteSet(places) /\ c0 \in Nat /\ c0 <= Len(s)
  <2>1. IsFiniteSet(1 .. Len(s)) /\ Cardinality(1 .. Len(s)) = Len(s)
    BY <1>1, FS_Interval
  <2>2. IsFiniteSet(places) /\ c0 <= Len(s)
    BY <1>1, <2>1, FS_Subset
  <2> QED BY <2>2, FS_CardinalityType
<1>3. Chain(places, before)
  <2>1. places \subseteq Nat
    BY <1>1
  <2>2. \A x, y \in places : <<x, y>> \in before <=> x < y
    OBVIOUS
  <2> HIDE DEF before
  <2>3. \A x, y \in places : x # y => x < y \/ y < x
    BY <2>1
  <2>4. \A x, y, z \in places : x < y /\ y < z => x < z
    BY <2>1
  <2>5. \A x \in places : ~(x < x)
    BY <2>1
  <2> QED BY <2>2, <2>3, <2>4, <2>5 DEF Chain
<1>4. Lists(p, places)
  <2> HIDE DEF before
  <2> QED BY <1>2, <1>3, OrderedLists
<1> HIDE DEF before
<1>5. /\ p \in [1 .. c0 -> places]
      /\ \A x \in places : \E i \in 1 .. c0 : p[i] = x
      /\ \A i, j \in 1 .. c0 : p[i] = p[j] => i = j
  <2> HIDE DEF p
  <2> QED BY <1>4 DEF Lists
<1>6. t = [i \in DOMAIN p |-> s[p[i]]]
  BY DEF Filtered, before
<1> HIDE DEF p, t, c0
<1>7. t \in [1 .. c0 -> E] /\ \A i \in 1 .. c0 : t[i] = s[p[i]] /\ p[i] \in places
  <2>1. DOMAIN p = 1 .. c0 /\ \A i \in 1 .. c0 : p[i] \in places
    BY <1>5
  <2> QED BY <1>1, <1>6, <2>1
<1>8. t \in Seq(E) /\ Len(t) = c0 /\ DOMAIN t = 1 .. c0
  BY <1>2, <1>7
<1>9. ToSet(t) = {s[i] : i \in places}
  <2>1. ToSet(t) = {t[i] : i \in 1 .. c0}
    BY <1>8 DEF ToSet
  <2> QED BY <2>1, <1>5, <1>7
<1>10. (\A i, j \in places : s[i] = s[j] => i = j) => \A i, j \in DOMAIN t : t[i] = t[j] => i = j
  BY <1>5, <1>7, <1>8
<1> QED BY <1>2, <1>8, <1>9, <1>10 DEF t

(* The first so many of a sequence.                                        *)
LEMMA TakenIs ==
    ASSUME NEW E, NEW s \in Seq(E), NEW n \in Nat
    PROVE  Taken(s, n) \in Seq(E) /\ Len(Taken(s, n)) \in Nat /\ Len(Taken(s, n)) <= n
<1> DEFINE k == IF Len(s) < n THEN Len(s) ELSE n
<1>1. k \in Nat /\ k <= Len(s) /\ k <= n
  OBVIOUS
<1> HIDE DEF k
<1>2. \A i \in 1 .. k : s[i] \in E
  BY <1>1
<1>3. SubSeq(s, 1, k) = [i \in 1 .. k |-> s[i]]
  BY <1>1
<1>4. SubSeq(s, 1, k) \in Seq(E) /\ Len(SubSeq(s, 1, k)) = k
  BY <1>1, <1>2, <1>3
<1>5. Taken(s, n) = SubSeq(s, 1, k)
  BY DEF Taken, k
<1> QED BY <1>1, <1>4, <1>5

(* Dropping what came before keeps every value, once.                      *)
LEMMA DistinctIs ==
    ASSUME NEW E, NEW s \in Seq(E)
    PROVE  /\ Distinct(s) \in Seq(E)
           /\ Len(Distinct(s)) <= Len(s)
           /\ ToSet(Distinct(s)) = ToSet(s)
           /\ \A i, j \in DOMAIN Distinct(s) : Distinct(s)[i] = Distinct(s)[j] => i = j
<1> DEFINE I == {i \in DOMAIN s : \A j \in 1 .. i - 1 : s[j] # s[i]}
<1>1. I \in SUBSET (DOMAIN s) /\ DOMAIN s = 1 .. Len(s) /\ Len(s) \in Nat
  OBVIOUS
<1>2. ASSUME NEW i \in I, NEW j \in I, s[i] = s[j]
      PROVE  i = j
  <2>1. i \in 1 .. Len(s) /\ j \in 1 .. Len(s)
    BY <1>1
  <2>2. ~(i < j)
    BY <1>2, <2>1
  <2>3. ~(j < i)
    BY <1>2, <2>1
  <2> QED BY ONLY <2>1, <2>2, <2>3, <1>1
<1>3. ASSUME NEW k \in DOMAIN s
      PROVE  \E i \in I : s[i] = s[k]
  <2> DEFINE T == {i \in 1 .. Len(s) : s[i] = s[k]}
  <2>1. T \subseteq Nat /\ T # {}
    BY <1>1
  <2>2. PICK m \in T : \A i \in T : m <= i
    <3> HIDE DEF T
    <3> QED BY <2>1, LeastExists
  <2>3. \A j \in 1 .. m - 1 : s[j] # s[m]
    <3> SUFFICES ASSUME NEW j \in 1 .. m - 1, s[j] = s[m] PROVE FALSE
      OBVIOUS
    <3>1. m \in 1 .. Len(s) /\ s[m] = s[k]
      BY <2>2
    <3>2. j \in 1 .. Len(s) /\ j < m
      BY <3>1, <1>1
    <3>3. j \in T
      BY <3>1, <3>2
    <3> HIDE DEF T
    <3>4. m <= j
      BY <3>3, <2>2
    <3> QED BY ONLY <3>1, <3>2, <3>4, <1>1
  <2> QED BY <2>2, <2>3, <1>1
<1>4. {s[i] : i \in I} = ToSet(s)
  <2> HIDE DEF I
  <2> QED BY <1>1, <1>3 DEF ToSet
<1>5. Distinct(s) = Filtered(s, I)
  BY DEF Distinct
<1> HIDE DEF I
<1>6. \A i, j \in I : s[i] = s[j] => i = j
  BY <1>2
<1>7. I \in SUBSET (DOMAIN s)
  BY <1>1
<1>8. /\ Filtered(s, I) \in Seq(E) /\ Len(Filtered(s, I)) <= Len(s)
      /\ ToSet(Filtered(s, I)) = {s[i] : i \in I}
      /\ \A i, j \in DOMAIN Filtered(s, I) : Filtered(s, I)[i] = Filtered(s, I)[j] => i = j
  BY ONLY s \in Seq(E), <1>6, <1>7, FilteredIs
<1> QED BY <1>4, <1>5, <1>8

(* What an adapter has once it is enumerated, what is offered of it, and   *)
(* what an endpoint is bound to.                                           *)
Usable == {a \in RawAddresses : is_usable_unicast(a)}
AdapterSet == [index : Adapters, addresses : (SUBSET Usable) \ {{}}]
Offers == [address : Usable, index : Adapters]
EndpointSet == [address : Usable, scope : Nat]
Fitting == {e \in EndpointSet :
               /\ e.address.family = 6 => e.scope # 0
               /\ e.address.family = 4 => e.scope = 0}

LEMMA UsableAre ==
    /\ Usable = {Address(4, "global", 1), Address(6, "link", 1)}
    /\ \A a, o \in Usable :
          /\ a.family \in {4, 6} /\ a.reach \in {"global", "link"}
          /\ address_sort_key(a, o) <=> a.family = 4 /\ o.family = 6
          /\ a.family = o.family => a = o
<1>1. Usable = {Address(4, "global", 1), Address(6, "link", 1)}
  BY DEF Usable, RawAddresses, is_usable_unicast, Address
<1>2. ASSUME NEW a \in Usable, NEW o \in Usable
      PROVE  /\ a.family \in {4, 6} /\ a.reach \in {"global", "link"}
             /\ address_sort_key(a, o) <=> a.family = 4 /\ o.family = 6
             /\ a.family = o.family => a = o
  BY <1>1 DEF Address, address_sort_key, Preference
<1> QED BY <1>1, <1>2

LEMMA PreferenceOrders ==
    ASSUME NEW U \in SUBSET Offers
    PROVE  Chain(U, ByPreference(U))
<1>1. Adapters \subseteq Nat
  BY InviteAssumption
<1>2. ASSUME NEW x \in U, NEW y \in U
      PROVE  <<x, y>> \in ByPreference(U) <=>
                \/ x.address.family = 4 /\ y.address.family = 6
                \/ x.address.family = y.address.family /\ x.index < y.index
  <2>1. x.address \in Usable /\ y.address \in Usable
    BY DEF Offers
  <2>2. x.address.family = y.address.family <=> x.address = y.address
    BY <2>1, UsableAre
  <2>3. address_sort_key(x.address, y.address) <=> x.address.family = 4 /\ y.address.family = 6
    BY <2>1, UsableAre
  <2>4. <<x, y>> \in ByPreference(U) <=>
           \/ address_sort_key(x.address, y.address)
           \/ x.address = y.address /\ x.index < y.index
    BY DEF ByPreference
  <2> QED BY <2>2, <2>3, <2>4
<1>3. ASSUME NEW x \in U
      PROVE  x.index \in Nat /\ x.address.family \in {4, 6}
  <2>1. x.address \in Usable /\ x.index \in Adapters
    BY DEF Offers
  <2> QED BY <2>1, <1>1, UsableAre
<1>4. ASSUME NEW x \in U, NEW y \in U, x.address.family = y.address.family, x.index = y.index
      PROVE  x = y
  <2>1. x.address \in Usable /\ y.address \in Usable
    BY DEF Offers
  <2>2. x.address = y.address
    BY <2>1, <1>4, UsableAre
  <2> QED BY <2>2, <1>4 DEF Offers
<1>5. \A x \in U : <<x, x>> \notin ByPreference(U)
  BY <1>2, <1>3
<1>6. \A x, y, z \in U : <<x, y>> \in ByPreference(U) /\ <<y, z>> \in ByPreference(U)
                            => <<x, z>> \in ByPreference(U)
  BY <1>2, <1>3
<1>7. \A x, y \in U : x # y => <<x, y>> \in ByPreference(U) \/ <<y, x>> \in ByPreference(U)
  <2> SUFFICES ASSUME NEW x \in U, NEW y \in U, x # y
               PROVE  <<x, y>> \in ByPreference(U) \/ <<y, x>> \in ByPreference(U)
    OBVIOUS
  <2>1. x.address.family # y.address.family \/ x.index # y.index
    BY <1>4
  <2> QED BY <2>1, <1>2, <1>3
<1> QED BY <1>5, <1>6, <1>7 DEF Chain

LEMMA IndexOrders ==
    ASSUME NEW U \in SUBSET AdapterSet, \A x, y \in U : x.index = y.index => x = y
    PROVE  Chain(U, ByIndex(U))
<1>1. \A x \in U : x.index \in Nat
  BY InviteAssumption DEF AdapterSet
<1>2. \A x, y \in U : <<x, y>> \in ByIndex(U) <=> x.index < y.index
  BY DEF ByIndex
<1>3. \A x \in U : <<x, x>> \notin ByIndex(U)
  BY <1>1, <1>2
<1>4. \A x, y, z \in U : <<x, y>> \in ByIndex(U) /\ <<y, z>> \in ByIndex(U) => <<x, z>> \in ByIndex(U)
  BY <1>1, <1>2
<1>5. \A x, y \in U : x # y => <<x, y>> \in ByIndex(U) \/ <<y, x>> \in ByIndex(U)
  <2> SUFFICES ASSUME NEW x \in U, NEW y \in U, x # y
               PROVE  <<x, y>> \in ByIndex(U) \/ <<y, x>> \in ByIndex(U)
    OBVIOUS
  <2>1. x.index # y.index
    OBVIOUS
  <2> QED BY <2>1, <1>1, <1>2
<1> QED BY <1>3, <1>4, <1>5 DEF Chain

(* A list of a finite set is a sequence of its members.                    *)
LEMMA ListIsSequence ==
    ASSUME NEW E, NEW U \in SUBSET E, IsFiniteSet(U), NEW before, Chain(U, before)
    PROVE  /\ Ordered(U, before) \in Seq(E)
           /\ Len(Ordered(U, before)) = Cardinality(U)
           /\ ToSet(Ordered(U, before)) = U
<1> DEFINE s == Ordered(U, before)
           n == Cardinality(U)
<1>1. Lists(s, U)
  BY OrderedLists
<1>2. n \in Nat
  BY FS_CardinalityType
<1> HIDE DEF s, n
<1>3. /\ s \in [1 .. n -> U]
      /\ \A x \in U : \E i \in 1 .. n : s[i] = x
  BY <1>1 DEF Lists, n
<1>4. s \in Seq(E) /\ Len(s) = n /\ DOMAIN s = 1 .. n
  BY <1>2, <1>3
<1>5. ToSet(s) = U
  BY <1>3, <1>4 DEF ToSet
<1> QED BY <1>4, <1>5 DEF s, n

(* The adapters are enumerated in full, in the order of their indices.     *)
LEMMA Enumerated ==
    ASSUME interfaces \in [Adapters -> SUBSET RawAddresses]
    PROVE  /\ enumerate_lan_adapters \in Seq(AdapterSet)
           /\ \A picked \in SUBSET ToSet(enumerate_lan_adapters) :
                 Ordered(picked, ByIndex(picked)) \in Seq(AdapterSet)
<1> DEFINE J == {j \in Adapters : \E a \in interfaces[j] : is_usable_unicast(a)}
           Found(i) == [index |-> i, addresses |-> {a \in interfaces[i] : is_usable_unicast(a)}]
           found == {Found(i) : i \in J}
           f == [i \in J |-> Found(i)]
<1>1. IsFiniteSet(J) /\ J \subseteq Adapters
  <2>1. J \in SUBSET Adapters
    OBVIOUS
  <2> HIDE DEF J
  <2> QED BY <2>1, FS_Subset, InviteAssumption
<1>2. ASSUME NEW i \in J
      PROVE  Found(i) \in AdapterSet /\ Found(i).index = i
  <2>1. {a \in interfaces[i] : is_usable_unicast(a)} \in (SUBSET Usable) \ {{}}
    BY <1>1 DEF Usable
  <2> QED BY <2>1, <1>1 DEF AdapterSet
<1> HIDE DEF J, Found
<1>3. found \in SUBSET AdapterSet /\ \A x, y \in found : x.index = y.index => x = y
  BY <1>2
<1>4. IsFiniteSet(found)
  <2>1. f \in Surjection(J, found)
    BY DEF Surjection
  <2> HIDE DEF f, found
  <2> QED BY <2>1, <1>1, FS_Surjection
<1>5. enumerate_lan_adapters = Ordered(found, ByIndex(found))
  BY DEF enumerate_lan_adapters, J, Found
<1> HIDE DEF found
<1>6. Chain(found, ByIndex(found))
  BY <1>3, IndexOrders
<1>7. enumerate_lan_adapters \in Seq(AdapterSet) /\ ToSet(enumerate_lan_adapters) = found
  <2> DEFINE before == ByIndex(found)
  <2> HIDE DEF before
  <2>1. Chain(found, before)
    BY <1>6 DEF before
  <2>2. Ordered(found, before) \in Seq(AdapterSet) /\ ToSet(Ordered(found, before)) = found
    BY <1>3, <1>4, <2>1, ListIsSequence
  <2> QED BY <2>2, <1>5 DEF before
<1>8. ASSUME NEW picked \in SUBSET found
      PROVE  Ordered(picked, ByIndex(picked)) \in Seq(AdapterSet)
  <2>1. IsFiniteSet(picked) /\ picked \in SUBSET AdapterSet
    BY <1>3, <1>4, FS_Subset
  <2> DEFINE before == ByIndex(picked)
  <2>2. Chain(picked, before)
    BY <2>1, <1>3, IndexOrders
  <2> HIDE DEF before
  <2>3. Ordered(picked, before) \in Seq(AdapterSet)
    BY <2>1, <2>2, ListIsSequence
  <2> QED BY <2>3 DEF before
<1> QED BY <1>7, <1>8

LEMMA DefaultAdapters ==
    ASSUME NEW adapters \in Seq(AdapterSet)
    PROVE  default_lan_adapters(adapters) \in Seq(AdapterSet)
<1> DEFINE I == {i \in DOMAIN adapters : is_recommended(adapters[i])}
<1>1. I \in SUBSET (DOMAIN adapters)
  OBVIOUS
<1> HIDE DEF I
<1>2. Filtered(adapters, I) \in Seq(AdapterSet)
  BY <1>1, FilteredIs
<1>3. MaxCandidates \in Nat
  BY InviteAssumption
<1>4. \A s \in Seq(AdapterSet) : Taken(s, MaxCandidates) \in Seq(AdapterSet)
  BY <1>3, TakenIs
<1> QED BY <1>2, <1>4 DEF default_lan_adapters, I

(* Every adapter has one or two addresses to offer, and they are its own.  *)
LEMMA PreferredAre ==
    ASSUME NEW ad \in AdapterSet
    PROVE  LET s == preferred_family_addresses(ad)
           IN  /\ s \in Seq(Offers) /\ Len(s) \in Nat \ {0}
               /\ \A i \in DOMAIN s : s[i].address \in ad.addresses /\ s[i].index = ad.index
<1> DEFINE best(family) == {a \in ad.addresses :
                /\ a.family = family
                /\ ~\E o \in ad.addresses : o.family = family /\ address_sort_key(o, a)}
           U == {[address |-> a, index |-> ad.index] : a \in best(4) \cup best(6)}
           s == preferred_family_addresses(ad)
<1>1. ad.addresses \in SUBSET Usable /\ ad.addresses # {} /\ ad.index \in Adapters
  BY DEF AdapterSet
<1>2. best(4) \cup best(6) = ad.addresses
  <2>1. ASSUME NEW a \in ad.addresses
        PROVE  a \in best(4) \/ a \in best(6)
    <3>1. a.family \in {4, 6}
      BY <1>1, UsableAre
    <3>2. \A o \in ad.addresses : o.family = a.family => ~address_sort_key(o, a)
      BY <1>1, UsableAre
    <3> QED BY <3>1, <3>2
  <2> QED BY <2>1
<1> HIDE DEF best
<1>3. U = {[address |-> a, index |-> ad.index] : a \in ad.addresses}
  BY <1>2
<1>4. U \in SUBSET Offers /\ U # {} /\ \A x \in U : x.address \in ad.addresses /\ x.index = ad.index
  <2>1. \A a \in ad.addresses : [address |-> a, index |-> ad.index] \in Offers
    BY <1>1 DEF Offers
  <2>2. U \in SUBSET Offers /\ U # {}
    BY <1>1, <1>3, <2>1
  <2>3. ASSUME NEW x \in U
        PROVE  x.address \in ad.addresses /\ x.index = ad.index
    <3>1. PICK a \in ad.addresses : x = [address |-> a, index |-> ad.index]
      BY <1>3
    <3> QED BY <3>1
  <2> QED BY <2>2, <2>3
<1>5. IsFiniteSet(U)
  <2> DEFINE o4 == [address |-> Address(4, "global", 1), index |-> ad.index]
             o6 == [address |-> Address(6, "link", 1), index |-> ad.index]
  <2>1. U \in SUBSET {o4, o6}
    BY <1>1, <1>3, UsableAre
  <2> HIDE DEF o4, o6, U
  <2>2. IsFiniteSet({o4} \cup {o6})
    BY FS_Singleton, FS_AddElement
  <2>3. {o4} \cup {o6} = {o4, o6}
    OBVIOUS
  <2> QED BY <2>1, <2>2, <2>3, FS_Subset
<1>6. s = Ordered(U, ByPreference(U))
  BY DEF preferred_family_addresses, best
<1> HIDE DEF s, U
<1>7. s \in Seq(Offers) /\ Len(s) = Cardinality(U) /\ ToSet(s) = U
  <2> DEFINE before == ByPreference(U)
  <2>1. Chain(U, before)
    BY <1>4, PreferenceOrders
  <2> HIDE DEF before
  <2>2. /\ Ordered(U, before) \in Seq(Offers) /\ Len(Ordered(U, before)) = Cardinality(U)
        /\ ToSet(Ordered(U, before)) = U
    BY <1>4, <1>5, <2>1, ListIsSequence
  <2> QED BY <2>2, <1>6 DEF before
<1>8. Len(s) \in Nat \ {0}
  BY <1>4, <1>5, <1>7, FS_EmptySet, FS_CardinalityType
<1>9. \A i \in DOMAIN s : s[i] \in U
  BY <1>7 DEF ToSet
<1>10. \A i \in DOMAIN s : s[i].address \in ad.addresses /\ s[i].index = ad.index
  BY <1>4, <1>9
<1> QED BY <1>7, <1>8, <1>10 DEF s

LEMMA JoinedIs ==
    ASSUME NEW E, NEW s \in Seq(E), NEW t \in Seq(E)
    PROVE  /\ s \o t \in Seq(E) /\ Len(s \o t) = Len(s) + Len(t)
           /\ \A i \in 1 .. Len(s) : (s \o t)[i] = s[i]
  OBVIOUS

(* What is offered of a selection begins with an address of each adapter,  *)
(* and is no more than a Join Code carries.                                *)
LEMMA CandidatesAre ==
    ASSUME NEW adapters \in Seq(AdapterSet), Len(adapters) \in 1 .. MaxCandidates
    PROVE  LET s == lan_candidate_addresses(adapters)
           IN  /\ s \in Seq(Offers) /\ Len(s) <= MaxCandidates /\ Len(adapters) <= Len(s)
               /\ \A i \in DOMAIN adapters :
                     s[i].address \in adapters[i].addresses /\ s[i].index = adapters[i].index
<1> DEFINE n == Len(adapters)
           choices == [i \in DOMAIN adapters |-> preferred_family_addresses(adapters[i])]
           firsts == [i \in DOMAIN adapters |-> choices[i][1]]
           J == {j \in DOMAIN choices : Len(choices[j]) > 1}
           others == {choices[i][2] : i \in J}
           rest == Taken(Ordered(others, ByPreference(others)), MaxCandidates - Len(firsts))
           s == lan_candidate_addresses(adapters)
<1>1. /\ n \in Nat /\ n >= 1 /\ n <= MaxCandidates /\ MaxCandidates \in Nat
      /\ DOMAIN adapters = 1 .. n /\ \A i \in 1 .. n : adapters[i] \in AdapterSet
  BY InviteAssumption
<1>2. DOMAIN choices = 1 .. n /\ \A i \in 1 .. n : choices[i] = preferred_family_addresses(adapters[i])
  BY <1>1
<1> HIDE DEF choices, n
<1>3. ASSUME NEW i \in 1 .. n
      PROVE  /\ choices[i] \in Seq(Offers) /\ Len(choices[i]) \in Nat \ {0}
             /\ \A k \in DOMAIN choices[i] :
                   choices[i][k].address \in adapters[i].addresses /\ choices[i][k].index = adapters[i].index
  BY <1>1, <1>2, PreferredAre
<1>4. ASSUME NEW i \in 1 .. n
      PROVE  /\ choices[i][1] \in Offers
             /\ choices[i][1].address \in adapters[i].addresses /\ choices[i][1].index = adapters[i].index
  <2>1. 1 \in DOMAIN choices[i]
    BY <1>3
  <2> QED BY <2>1, <1>3
<1>5. /\ firsts \in Seq(Offers) /\ Len(firsts) = n /\ DOMAIN firsts = 1 .. n
      /\ \A i \in 1 .. n : firsts[i] = choices[i][1]
  BY <1>1, <1>4
<1> HIDE DEF firsts
<1>6. J \subseteq 1 .. n /\ IsFiniteSet(J)
  <2>1. J \in SUBSET (1 .. n)
    BY <1>2
  <2>2. IsFiniteSet(1 .. n)
    BY <1>1, FS_Interval
  <2> HIDE DEF J
  <2> QED BY <2>1, <2>2, FS_Subset
<1>7. \A i \in J : choices[i][2] \in Offers
  <2> SUFFICES ASSUME NEW i \in J PROVE choices[i][2] \in Offers
    OBVIOUS
  <2>1. i \in 1 .. n /\ Len(choices[i]) > 1
    BY <1>6
  <2>2. 2 \in DOMAIN choices[i]
    BY <2>1, <1>3
  <2> QED BY <2>1, <2>2, <1>3
<1> HIDE DEF J
<1>8. others \in SUBSET Offers /\ IsFiniteSet(others)
  <2>1. others \in SUBSET Offers
    BY <1>7
  <2> DEFINE f == [i \in J |-> choices[i][2]]
  <2>2. f \in Surjection(J, others)
    BY DEF Surjection
  <2> HIDE DEF f, others
  <2> QED BY <1>6, <2>1, <2>2, FS_Surjection
<1> HIDE DEF others
<1>9. Ordered(others, ByPreference(others)) \in Seq(Offers)
  <2> DEFINE before == ByPreference(others)
  <2>1. Chain(others, before)
    BY <1>8, PreferenceOrders
  <2> HIDE DEF before
  <2>2. Ordered(others, before) \in Seq(Offers)
    BY <1>8, <2>1, ListIsSequence
  <2> QED BY <2>2 DEF before
<1>10. rest \in Seq(Offers) /\ Len(rest) \in Nat /\ Len(rest) <= MaxCandidates - n
  <2> DEFINE o == Ordered(others, ByPreference(others))
             m == MaxCandidates - Len(firsts)
  <2>1. m \in Nat /\ m = MaxCandidates - n
    BY <1>1, <1>5
  <2> HIDE DEF o, m
  <2>2. o \in Seq(Offers)
    BY <1>9 DEF o
  <2>3. Taken(o, m) \in Seq(Offers) /\ Len(Taken(o, m)) \in Nat /\ Len(Taken(o, m)) <= m
    BY <2>1, <2>2, TakenIs
  <2> QED BY <2>1, <2>3 DEF o, m
<1>11. s = firsts \o rest
  BY DEF lan_candidate_addresses, firsts, others, J, choices
<1> HIDE DEF s, rest
<1>12. s \in Seq(Offers) /\ Len(s) = n + Len(rest) /\ \A i \in 1 .. n : s[i] = firsts[i]
  <2>1. /\ s \in Seq(Offers) /\ Len(s) = Len(firsts) + Len(rest)
        /\ \A i \in 1 .. Len(firsts) : s[i] = firsts[i]
    BY <1>5, <1>10, <1>11, JoinedIs
  <2> QED BY ONLY <1>5, <2>1
<1>13. Len(s) <= MaxCandidates /\ n <= Len(s)
  BY <1>1, <1>10, <1>12
<1>14. \A i \in 1 .. n : s[i].address \in adapters[i].addresses /\ s[i].index = adapters[i].index
  BY <1>4, <1>5, <1>12
<1> QED BY <1>1, <1>12, <1>13, <1>14 DEF s, n

(* The endpoints offered of a selection: valid, different, few enough, and *)
(* each selected adapter has one.                                          *)
LEMMA EndpointsAre ==
    ASSUME NEW adapters \in Seq(AdapterSet), Len(adapters) \in 1 .. MaxCandidates
    PROVE  LET s == Endpoints(adapters)
           IN  /\ s \in Seq(Fitting) /\ Len(s) <= MaxCandidates
               /\ \A i, j \in DOMAIN s : s[i] = s[j] => i = j
               /\ \A i \in DOMAIN adapters : \E e \in ToSet(s) :
                     /\ e.address \in adapters[i].addresses
                     /\ e.scope \in {0, adapters[i].index}
<1> DEFINE all == lan_candidate_addresses(adapters)
           scoped == [i \in DOMAIN all |-> scoped_address(all[i])]
           s == Endpoints(adapters)
<1>1. /\ all \in Seq(Offers) /\ Len(all) <= MaxCandidates /\ Len(adapters) <= Len(all)
      /\ \A i \in DOMAIN adapters :
            all[i].address \in adapters[i].addresses /\ all[i].index = adapters[i].index
  BY CandidatesAre
<1> HIDE DEF all
<1>2. ASSUME NEW o \in Offers
      PROVE  /\ scoped_address(o) \in Fitting /\ scoped_address(o).address = o.address
             /\ scoped_address(o).scope \in {0, o.index}
  <2>1. o.address \in Usable /\ o.index \in Adapters
    BY DEF Offers
  <2>2. o.index \in Nat \ {0} /\ o.address.family \in {4, 6}
    BY <2>1, InviteAssumption, UsableAre
  <2> QED BY <2>1, <2>2 DEF scoped_address, Fitting, EndpointSet
<1>3. /\ Len(all) \in Nat /\ DOMAIN all = 1 .. Len(all)
      /\ \A i \in 1 .. Len(all) : all[i] \in Offers
  BY <1>1
<1>4. /\ scoped \in Seq(Fitting) /\ Len(scoped) = Len(all) /\ DOMAIN scoped = 1 .. Len(all)
      /\ \A i \in 1 .. Len(all) : scoped[i] = scoped_address(all[i])
  BY <1>2, <1>3
<1>5. s = Distinct(scoped)
  BY DEF Endpoints, all
<1> HIDE DEF scoped, s
<1>6. /\ s \in Seq(Fitting) /\ Len(s) <= Len(all) /\ ToSet(s) = ToSet(scoped)
      /\ \A i, j \in DOMAIN s : s[i] = s[j] => i = j
  BY <1>4, <1>5, DistinctIs
<1>7. Len(s) <= MaxCandidates
  BY <1>1, <1>3, <1>6, InviteAssumption
<1>8. ASSUME NEW i \in DOMAIN adapters
      PROVE  \E e \in ToSet(s) : e.address \in adapters[i].addresses /\ e.scope \in {0, adapters[i].index}
  <2>1. i \in 1 .. Len(all)
    BY <1>1, <1>3
  <2>2. all[i] \in Offers /\ scoped[i] = scoped_address(all[i]) /\ scoped[i] \in ToSet(s)
    BY <2>1, <1>3, <1>4, <1>6 DEF ToSet
  <2>3. scoped[i].address \in adapters[i].addresses /\ scoped[i].scope \in {0, adapters[i].index}
    BY <2>2, <1>1, <1>2
  <2> QED BY <2>2, <2>3
<1> QED BY <1>6, <1>7, <1>8 DEF s

(* Bound endpoints that an open room has: everything that validation asks. *)
Sound(bound) ==
    /\ bound \in Seq(Fitting) /\ Len(bound) \in 1 .. MaxCandidates
    /\ \A i, j \in DOMAIN bound : bound[i] = bound[j] => i = j

Codes == [room : Nat, endpoints : Seq(Fitting)]

(* Such endpoints pass the validation of the descriptor and of the code,   *)
(* and the code names exactly them.                                        *)
LEMMA SoundPasses ==
    ASSUME NEW bound, Sound(bound), NEW prio \in [DOMAIN bound -> Nat \ {0}]
    PROVE  validate_candidates([i \in DOMAIN bound |-> [endpoint |-> bound[i], priority |-> prio[i]]])
<1> DEFINE cs == [i \in DOMAIN bound |-> [endpoint |-> bound[i], priority |-> prio[i]]]
           n == Len(bound)
<1>1. n \in Nat /\ DOMAIN bound = 1 .. n /\ \A i \in 1 .. n : bound[i] \in Fitting
  BY DEF Sound
<1> HIDE DEF n
<1>2. /\ DOMAIN cs = 1 .. n
      /\ \A i \in 1 .. n : cs[i].endpoint = bound[i] /\ cs[i].priority \in Nat \ {0}
  BY <1>1
<1>3. cs \in Seq([endpoint : Fitting, priority : Nat \ {0}]) /\ Len(cs) = n
  BY <1>1
<1> HIDE DEF cs
<1>4. ASSUME NEW i \in 1 .. n
      PROVE  ValidCandidate(cs[i])
  <2>1. bound[i].address \in Usable /\ bound[i] \in Fitting
    BY <1>1 DEF Fitting, EndpointSet
  <2>2. bound[i].address.reach \in {"global", "link"}
    BY <2>1, UsableAre
  <2>3. cs[i].priority > 0
    BY <1>2
  <2> QED BY <1>2, <2>1, <2>2, <2>3 DEF ValidCandidate, Fitting
<1>5. \A i, j \in DOMAIN cs : cs[i].endpoint = cs[j].endpoint => i = j
  BY <1>1, <1>2 DEF Sound
<1>6. Len(cs) \in 1 .. MaxCandidates
  BY <1>3 DEF Sound, n
<1>7. validate_candidates(cs)
  BY <1>2, <1>4, <1>5, <1>6 DEF validate_candidates
<1> QED BY <1>7 DEF cs

LEMMA SoundCode ==
    ASSUME NEW bound, Sound(bound), NEW room \in Nat \ {0}
    PROVE  /\ EncodeCode(room, bound) = [room |-> room, endpoints |-> bound]
           /\ EncodeCode(room, bound) # NoCode
<1> DEFINE prio == [i \in DOMAIN bound |-> 1]
           written == [i \in DOMAIN bound |->
                [bound[i] EXCEPT !.scope = IF bound[i].address.family = 4 THEN 0 ELSE bound[i].scope]]
<1>1. /\ Len(bound) \in Nat /\ DOMAIN bound = 1 .. Len(bound)
      /\ \A i \in 1 .. Len(bound) : bound[i] \in Fitting
      /\ bound = [k \in 1 .. Len(bound) |-> bound[k]]
  BY DEF Sound
<1>2. \A i \in DOMAIN bound :
        [bound[i] EXCEPT !.scope = IF bound[i].address.family = 4 THEN 0 ELSE bound[i].scope] = bound[i]
  BY <1>1 DEF Fitting, EndpointSet
<1>3. written = bound
  <2>1. DOMAIN written = DOMAIN bound /\ \A i \in DOMAIN bound : written[i] = bound[i]
    BY <1>2
  <2>2. written = [i \in DOMAIN written |-> written[i]]
    OBVIOUS
  <2> HIDE DEF written
  <2> QED BY <1>1, <2>1, <2>2
<1>4. validate_candidates([i \in DOMAIN bound |-> [endpoint |-> bound[i], priority |-> 1]])
  <2>1. prio \in [DOMAIN bound -> Nat \ {0}] /\ \A i \in DOMAIN bound : prio[i] = 1
    OBVIOUS
  <2> HIDE DEF prio
  <2>2. validate_candidates([i \in DOMAIN bound |-> [endpoint |-> bound[i], priority |-> prio[i]]])
    BY <2>1, SoundPasses
  <2>3. [i \in DOMAIN bound |-> [endpoint |-> bound[i], priority |-> prio[i]]]
          = [i \in DOMAIN bound |-> [endpoint |-> bound[i], priority |-> 1]]
    BY <2>1
  <2> QED BY <2>2, <2>3
<1>5. EncodeCode(room, bound) = [room |-> room, endpoints |-> written]
  BY <1>4 DEF EncodeCode
<1> HIDE DEF written
<1>6. EncodeCode(room, bound) = [room |-> room, endpoints |-> bound]
  BY <1>3, <1>5
<1>7. [room |-> room, endpoints |-> bound].room # NoCode.room
  BY DEF NoCode
<1> QED BY <1>6, <1>7

(* The invariant: an open room advertises what it bound, sound endpoints   *)
(* of a selection that was accepted; a failed one was refused or bound     *)
(* nothing; and while the guest probes, the time of a probe is not over,   *)
(* so the time of the whole never cuts the results.                        *)
HostTypes ==
    host \in [state : {"idle", "picked", "open", "failed"}, room : Nat, adapters : Seq(AdapterSet),
              bound : Seq(Fitting), code : Codes]

HostOK ==
    /\ host.state = "failed" => Len(host.adapters) \notin 1 .. MaxCandidates \/ host.bound = <<>>
    /\ host.state = "open" =>
          /\ Len(host.adapters) \in 1 .. MaxCandidates
          /\ Sound(host.bound)
          /\ host.code.endpoints = host.bound

GuestTypes ==
    guest \in [state : {"idle", "probing", "found", "joined", "refused"}, clock : Nat,
               pending : SUBSET Fitting, results : SUBSET Fitting, answered : SUBSET Fitting,
               code : Codes]

GuestOK ==
    /\ guest.state = "idle" => guest.clock = 0
    /\ guest.state = "probing" /\ guest.pending # {} => guest.clock < AttemptTimeout
    /\ guest.state \in {"idle", "probing", "found"} => guest.results = guest.answered

InviteInv ==
    /\ interfaces \in [Adapters -> SUBSET RawAddresses]
    /\ HostTypes /\ HostOK /\ GuestTypes /\ GuestOK

LEMMA InviteInvInit == InviteInit => InviteInv
<1> SUFFICES ASSUME InviteInit PROVE InviteInv
  OBVIOUS
<1>1. NoCode \in Codes
  BY DEF NoCode, Codes
<1>2. HostTypes /\ HostOK
  BY <1>1 DEF InviteInit, NoHost, HostTypes, HostOK
<1>3. GuestTypes /\ GuestOK
  BY <1>1 DEF InviteInit, NoGuest, GuestTypes, GuestOK
<1> QED BY <1>2, <1>3 DEF InviteInv, InviteInit

LEMMA PickStep ==
    ASSUME InviteInv, PickAdapters
    PROVE  InviteInv'
<1>1. /\ interfaces \in [Adapters -> SUBSET RawAddresses] /\ HostTypes /\ GuestTypes /\ GuestOK
      /\ UNCHANGED <<interfaces, guest>>
  BY DEF InviteInv, PickAdapters
<1>2. PICK chosen \in Seq(AdapterSet) : host' = [host EXCEPT !.state = "picked", !.adapters = chosen]
  <2>1. enumerate_lan_adapters \in Seq(AdapterSet)
    BY <1>1, Enumerated
  <2>2. CASE host' = [host EXCEPT !.state = "picked", !.adapters = default_lan_adapters(enumerate_lan_adapters)]
    BY <2>1, <2>2, DefaultAdapters
  <2>3. CASE \E picked \in SUBSET ToSet(enumerate_lan_adapters) :
               host' = [host EXCEPT !.state = "picked", !.adapters = Ordered(picked, ByIndex(picked))]
    BY <1>1, <2>3, Enumerated
  <2> QED BY <2>2, <2>3 DEF PickAdapters
<1>3. HostTypes' /\ host'.state = "picked"
  BY <1>1, <1>2 DEF HostTypes
<1>4. HostOK'
  BY <1>3 DEF HostOK
<1> QED BY <1>1, <1>3, <1>4 DEF InviteInv, GuestTypes, GuestOK

LEMMA CreateStep ==
    ASSUME InviteInv, CreateRoom
    PROVE  InviteInv'
<1> DEFINE adapters == host.adapters
           refused == Len(adapters) \notin 1 .. MaxCandidates
           offered == IF refused THEN <<>> ELSE Endpoints(adapters)
           Bound(free) == Filtered(offered, {i \in DOMAIN offered : offered[i] \in free})
           Cands(bound) == [i \in DOMAIN bound |-> [endpoint |-> bound[i], priority |-> Len(bound) - i + 1]]
           Ok(bound) == ~refused /\ bound # <<>> /\ validate_candidates(Cands(bound))
           Code(bound) == IF Ok(bound) THEN EncodeCode(host.room + 1, bound) ELSE NoCode
<1>1. /\ interfaces \in [Adapters -> SUBSET RawAddresses] /\ HostTypes /\ GuestTypes /\ GuestOK
      /\ UNCHANGED <<interfaces, guest>> /\ host.state = "picked"
  BY DEF InviteInv, CreateRoom
<1>2. adapters \in Seq(AdapterSet) /\ host.room \in Nat
  BY <1>1 DEF HostTypes
<1>3. PICK free : host' = [host EXCEPT !.state = IF Code(Bound(free)) = NoCode THEN "failed" ELSE "open",
                                       !.room = host.room + 1, !.bound = Bound(free), !.code = Code(Bound(free))]
  BY DEF CreateRoom
<1> DEFINE bound == Bound(free)
<1>4. /\ offered \in Seq(Fitting)
      /\ ~refused => Len(offered) <= MaxCandidates /\ \A i, j \in DOMAIN offered : offered[i] = offered[j] => i = j
      /\ refused => Len(offered) = 0
  <2>1. CASE refused
    BY <2>1
  <2>2. CASE ~refused
    BY <2>2, <1>2, EndpointsAre
  <2> QED BY <2>1, <2>2
<1> HIDE DEF offered
<1>5. /\ bound \in Seq(Fitting) /\ Len(bound) <= Len(offered)
      /\ ~refused => \A i, j \in DOMAIN bound : bound[i] = bound[j] => i = j
  <2> DEFINE I == {i \in DOMAIN offered : offered[i] \in free}
  <2>1. I \in SUBSET (DOMAIN offered)
    OBVIOUS
  <2>2. ~refused => \A i, j \in I : offered[i] = offered[j] => i = j
    BY <1>4
  <2> HIDE DEF I, refused
  <2>3. /\ Filtered(offered, I) \in Seq(Fitting) /\ Len(Filtered(offered, I)) <= Len(offered)
        /\ ~refused => \A i, j \in DOMAIN Filtered(offered, I) :
                          Filtered(offered, I)[i] = Filtered(offered, I)[j] => i = j
    BY <1>4, <2>1, <2>2, FilteredIs
  <2> QED BY <2>3 DEF I
<1> HIDE DEF bound, Bound
<1>6. Len(bound) \in Nat /\ Len(offered) \in Nat /\ MaxCandidates \in Nat /\ DOMAIN bound = 1 .. Len(bound)
  BY <1>4, <1>5, InviteAssumption
<1>7. ASSUME ~refused, bound # <<>>
      PROVE  Sound(bound)
  <2>1. Len(bound) # 0
    BY <1>5, <1>7
  <2>2. Len(bound) \in 1 .. MaxCandidates
    <3>1. Len(offered) <= MaxCandidates
      BY <1>4, <1>7
    <3> QED BY ONLY <1>5, <1>6, <2>1, <3>1
  <2> QED BY <1>5, <1>7, <2>2 DEF Sound
<1>8. ASSUME Sound(bound)
      PROVE  validate_candidates(Cands(bound))
  <2> DEFINE prio == [i \in DOMAIN bound |-> Len(bound) - i + 1]
  <2>1. prio \in [DOMAIN bound -> Nat \ {0}] /\ \A i \in DOMAIN bound : prio[i] = Len(bound) - i + 1
    BY <1>6
  <2> HIDE DEF prio
  <2>2. validate_candidates([i \in DOMAIN bound |-> [endpoint |-> bound[i], priority |-> prio[i]]])
    BY <1>8, <2>1, SoundPasses
  <2>3. [i \in DOMAIN bound |-> [endpoint |-> bound[i], priority |-> prio[i]]] = Cands(bound)
    BY <2>1
  <2> HIDE DEF Cands
  <2> QED BY <2>2, <2>3
<1> HIDE DEF Cands, refused, adapters
<1>9. CASE Ok(bound)
  <2>1. Sound(bound) /\ ~refused
    BY <1>7, <1>9
  <2>2. host.room + 1 \in Nat \ {0}
    BY <1>2
  <2>3. Code(bound) = [room |-> host.room + 1, endpoints |-> bound] /\ Code(bound) # NoCode
    BY <1>9, <2>1, <2>2, SoundCode
  <2> HIDE DEF Code
  <2>4. host' = [host EXCEPT !.state = "open", !.room = host.room + 1, !.bound = bound,
                             !.code = [room |-> host.room + 1, endpoints |-> bound]]
    BY <1>3, <2>3 DEF bound
  <2>5. [room |-> host.room + 1, endpoints |-> bound] \in Codes
    BY <2>2, <1>5 DEF Codes
  <2>6. /\ HostTypes' /\ host'.state = "open" /\ host'.adapters = host.adapters
        /\ host'.bound = bound /\ host'.code.endpoints = bound
    BY <1>1, <1>5, <2>2, <2>4, <2>5 DEF HostTypes
  <2>7. HostOK'
    BY <2>1, <2>6 DEF HostOK, refused, adapters
  <2> QED BY <1>1, <2>6, <2>7 DEF InviteInv, GuestTypes, GuestOK
<1>10. CASE ~Ok(bound)
  <2>1. Code(bound) = NoCode
    BY <1>10
  <2>2. refused \/ bound = <<>>
    BY <1>7, <1>8, <1>10
  <2> HIDE DEF Code
  <2>3. host' = [host EXCEPT !.state = "failed", !.room = host.room + 1, !.bound = bound, !.code = NoCode]
    BY <1>3, <2>1 DEF bound
  <2>4. NoCode \in Codes
    BY DEF NoCode, Codes
  <2>5. host.room + 1 \in Nat
    BY <1>2
  <2>6. /\ HostTypes' /\ host'.state = "failed" /\ host'.adapters = host.adapters /\ host'.bound = bound
    BY <1>1, <1>5, <2>3, <2>4, <2>5 DEF HostTypes
  <2>7. HostOK'
    BY <2>2, <2>6 DEF HostOK, refused, adapters
  <2> QED BY <1>1, <2>6, <2>7 DEF InviteInv, GuestTypes, GuestOK
<1> QED BY <1>9, <1>10

LEMMA ReopenStep ==
    ASSUME InviteInv, ReopenRoom
    PROVE  InviteInv'
<1>1. /\ interfaces \in [Adapters -> SUBSET RawAddresses] /\ HostTypes /\ HostOK /\ GuestTypes /\ GuestOK
      /\ UNCHANGED <<interfaces, guest>> /\ host.state = "open"
      /\ host' = [host EXCEPT !.room = 2, !.code = EncodeCode(2, host.bound)]
  BY DEF InviteInv, ReopenRoom
<1>2. Sound(host.bound) /\ Len(host.adapters) \in 1 .. MaxCandidates
  BY <1>1 DEF HostOK
<1>3. EncodeCode(2, host.bound) = [room |-> 2, endpoints |-> host.bound]
  BY <1>2, SoundCode
<1>4. [room |-> 2, endpoints |-> host.bound] \in Codes
  BY <1>2 DEF Codes, Sound
<1>5. /\ HostTypes' /\ host'.state = "open" /\ host'.adapters = host.adapters
      /\ host'.bound = host.bound /\ host'.code.endpoints = host.bound
  <2> DEFINE code == [room |-> 2, endpoints |-> host.bound]
  <2>1. code \in Codes /\ code.endpoints = host.bound
    BY <1>4
  <2>2. host' = [host EXCEPT !.room = 2, !.code = code]
    BY <1>1, <1>3
  <2> HIDE DEF code
  <2>3. HostTypes'
    <3>1. HostTypes
      BY <1>1
    <3> QED BY ONLY <2>1, <2>2, <3>1 DEF HostTypes
  <2>4. /\ host'.state = host.state /\ host'.adapters = host.adapters
        /\ host'.bound = host.bound /\ host'.code = code
    BY <1>1, <2>2 DEF HostTypes
  <2> QED BY <1>1, <2>1, <2>3, <2>4
<1>6. HostOK'
  BY <1>2, <1>5 DEF HostOK
<1> QED BY <1>1, <1>5, <1>6 DEF InviteInv, GuestTypes, GuestOK

(* The steps of the guest.                                                 *)
LEMMA GuestStep ==
    ASSUME InviteInv, Probe \/ Answer \/ Refuse \/ Tick \/ ProbesEnd \/ JoinAt
    PROVE  InviteInv'
<1>1. /\ interfaces \in [Adapters -> SUBSET RawAddresses] /\ HostTypes /\ HostOK /\ GuestTypes /\ GuestOK
      /\ UNCHANGED <<interfaces, host>>
  BY DEF InviteInv, Probe, Answer, Refuse, Tick, ProbesEnd, JoinAt
<1>2. /\ guest.state \in {"idle", "probing", "found", "joined", "refused"} /\ guest.clock \in Nat
      /\ guest.pending \in SUBSET Fitting /\ guest.results \in SUBSET Fitting
      /\ guest.answered \in SUBSET Fitting
  BY <1>1 DEF GuestTypes
<1>3. AttemptTimeout \in Nat \ {0} /\ TotalTimeout \in Nat /\ AttemptTimeout <= TotalTimeout
  BY InviteAssumption
<1>4. CASE Probe
  <2>1. ToSet(host.code.endpoints) \in SUBSET Fitting /\ host.code \in Codes
    BY <1>1 DEF HostTypes, Codes, ToSet
  <2>2. guest.state = "idle" /\ guest.clock = 0 /\ guest.results = guest.answered
    BY <1>1, <1>4 DEF Probe, GuestOK
  <2>3. guest' = [guest EXCEPT !.state = "probing", !.code = host.code, !.pending = ToSet(host.code.endpoints)]
    BY <1>4 DEF Probe
  <2>4. GuestTypes'
    BY <1>1, <2>1, <2>3 DEF GuestTypes
  <2>5. guest'.state = "probing" /\ guest'.clock = 0 /\ guest'.results = guest'.answered
    BY <1>1, <2>2, <2>3 DEF GuestTypes
  <2>6. GuestOK'
    BY <1>3, <2>5 DEF GuestOK
  <2> QED BY <1>1, <2>4, <2>6 DEF InviteInv, HostTypes, HostOK
<1>5. CASE Answer
  <2>1. PICK e \in guest.pending :
          /\ guest.state = "probing"
          /\ guest' = [guest EXCEPT !.pending = @ \ {e},
                !.results  = IF guest.code.room = host.room THEN @ \cup {e} ELSE @,
                !.answered = IF guest.code.room = host.room THEN @ \cup {e} ELSE @]
    BY <1>5 DEF Answer
  <2>2. guest.results = guest.answered /\ guest.clock < AttemptTimeout
    BY <1>1, <2>1 DEF GuestOK
  <2>3. GuestTypes'
    <3>1. /\ guest.results \cup {e} \in SUBSET Fitting /\ guest.answered \cup {e} \in SUBSET Fitting
          /\ guest.pending \ {e} \in SUBSET Fitting
      BY <1>2
    <3> QED BY <1>1, <1>2, <2>1, <3>1 DEF GuestTypes
  <2>4. guest'.state = "probing" /\ guest'.clock = guest.clock /\ guest'.results = guest'.answered
    BY <1>1, <2>1, <2>2 DEF GuestTypes
  <2>5. GuestOK'
    BY <2>2, <2>4 DEF GuestOK
  <2> QED BY <1>1, <2>3, <2>5 DEF InviteInv, HostTypes, HostOK
<1>6. CASE Refuse
  <2>1. PICK e \in guest.pending :
          guest.state = "probing" /\ guest' = [guest EXCEPT !.pending = @ \ {e}]
    BY <1>6 DEF Refuse
  <2>2. guest.results = guest.answered /\ guest.clock < AttemptTimeout
    BY <1>1, <2>1 DEF GuestOK
  <2>3. GuestTypes'
    <3>1. guest.pending \ {e} \in SUBSET Fitting
      BY <1>2
    <3> QED BY <1>1, <2>1, <3>1 DEF GuestTypes
  <2>4. guest'.state = "probing" /\ guest'.clock = guest.clock /\ guest'.results = guest'.answered
    BY <1>1, <2>1, <2>2 DEF GuestTypes
  <2>5. GuestOK'
    BY <2>2, <2>4 DEF GuestOK
  <2> QED BY <1>1, <2>3, <2>5 DEF InviteInv, HostTypes, HostOK
<1>7. CASE Tick
  <2>1. /\ guest.state = "probing"
        /\ guest' = [guest EXCEPT !.clock = guest.clock + 1,
                                  !.pending = IF guest.clock + 1 >= AttemptTimeout THEN {} ELSE guest.pending]
    BY <1>7 DEF Tick
  <2>2. guest.results = guest.answered
    BY <1>1, <2>1 DEF GuestOK
  <2>3. GuestTypes'
    <3> DEFINE left == IF guest.clock + 1 >= AttemptTimeout THEN {} ELSE guest.pending
    <3>1. guest.clock + 1 \in Nat /\ left \in SUBSET Fitting
      BY <1>2
    <3>2. guest' = [guest EXCEPT !.clock = guest.clock + 1, !.pending = left]
      BY <2>1
    <3> HIDE DEF left
    <3> QED BY <1>1, <3>1, <3>2 DEF GuestTypes
  <2>4. /\ guest'.state = "probing" /\ guest'.clock = guest.clock + 1 /\ guest'.results = guest'.answered
        /\ guest'.pending = IF guest.clock + 1 >= AttemptTimeout THEN {} ELSE guest.pending
    BY <1>1, <2>1, <2>2 DEF GuestTypes
  <2>5. guest'.pending # {} => guest'.clock < AttemptTimeout
    BY <1>2, <1>3, <2>4
  <2>6. GuestOK'
    BY <2>4, <2>5 DEF GuestOK
  <2> QED BY <1>1, <2>3, <2>6 DEF InviteInv, HostTypes, HostOK
<1>8. CASE ProbesEnd
  <2>1. guest.state = "probing" /\ guest.results = guest.answered
    BY <1>1, <1>8 DEF ProbesEnd, GuestOK
  <2>2. ~(guest.pending # {} /\ guest.clock >= TotalTimeout)
    <3>1. guest.pending # {} => guest.clock < AttemptTimeout
      BY <1>1, <2>1 DEF GuestOK
    <3> QED BY ONLY <1>2, <1>3, <3>1
  <2>3. guest' = [guest EXCEPT !.state = "found"]
    BY <1>8, <2>2 DEF ProbesEnd
  <2>4. GuestTypes' /\ guest'.state = "found" /\ guest'.results = guest'.answered
    BY <1>1, <2>1, <2>3 DEF GuestTypes
  <2>5. GuestOK'
    BY <2>4 DEF GuestOK
  <2> QED BY <1>1, <2>4, <2>5 DEF InviteInv, HostTypes, HostOK
<1>9. CASE JoinAt
  <2>1. PICK verdict \in {"joined", "refused"} : guest' = [guest EXCEPT !.state = verdict]
    BY <1>9 DEF JoinAt
  <2>2. GuestTypes' /\ guest'.state \in {"joined", "refused"}
    BY <1>1, <2>1 DEF GuestTypes
  <2>3. GuestOK'
    BY <2>2 DEF GuestOK
  <2> QED BY <1>1, <2>2, <2>3 DEF InviteInv, HostTypes, HostOK
<1> QED BY <1>4, <1>5, <1>6, <1>7, <1>8, <1>9

(* The invitation leads home (InvitationLeadsHome): for every set of       *)
(* interfaces and addresses, every selection and every subset of addresses *)
(* that can be bound, an accepted selection opens a room, each selected    *)
(* adapter has an address among those offered, the Join Code names exactly *)
(* the bound ones, and the guest is shown every answer.                    *)
THEOREM InvitationsLeadHome == InviteSpec => []InvitationLeadsHome
<1>1. InviteInv /\ [InviteNext]_inviteVars => InviteInv'
  <2> SUFFICES ASSUME InviteInv, [InviteNext]_inviteVars PROVE InviteInv'
    OBVIOUS
  <2>1. CASE UNCHANGED inviteVars
    BY <2>1 DEF inviteVars, InviteInv, HostTypes, HostOK, GuestTypes, GuestOK
  <2>2. CASE InviteNext
    BY <2>2, PickStep, CreateStep, ReopenStep, GuestStep DEF InviteNext
  <2> QED BY <2>1, <2>2
<1>2. InviteInv => InvitationLeadsHome
  <2> SUFFICES ASSUME InviteInv PROVE InvitationLeadsHome
    OBVIOUS
  <2>1. host.adapters \in Seq(AdapterSet)
    BY DEF InviteInv, HostTypes
  <2>2. HostOK /\ GuestOK
    BY DEF InviteInv
  <2>3. ASSUME host.state = "open"
        PROVE  /\ ToSet(host.code.endpoints) = ToSet(host.bound)
               /\ \A i \in DOMAIN host.adapters : \E e \in ToSet(Endpoints(host.adapters)) :
                     /\ e.address \in host.adapters[i].addresses
                     /\ e.scope \in {0, host.adapters[i].index}
    <3>1. Len(host.adapters) \in 1 .. MaxCandidates /\ host.code.endpoints = host.bound
      BY <2>2, <2>3 DEF HostOK
    <3> QED BY <2>1, <3>1, EndpointsAre
  <2> QED BY <2>2, <2>3 DEF HostOK, GuestOK, InvitationLeadsHome
<1> QED BY <1>1, <1>2, InviteInvInit, PTL DEF InviteSpec

================================================================================

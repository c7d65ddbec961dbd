------------------------------ MODULE Watchlist ------------------------------
(***************************************************************************)
(* The markets a reader follows (frontend/src/hooks/useWatchlist.js,               *)
(* hooks/useWatchToggle.js) and the notes that confirm it                          *)
(* (components/toast/ToastProvider.jsx).                                          *)
(*                                                                         *)
(* The list lies in the browser.  Each tab keeps a copy, forgotten when the         *)
(* browser tells it of another tab's change, which it hears only while some part     *)
(* of the page listens.  A note goes after four seconds, or when it is closed.        *)
(***************************************************************************)
EXTENDS Naturals, FiniteSets

CONSTANTS Tabs, Markets, None,
          MaxToggles       \* bound on the toggles

VARIABLES kept,            \* what lies in the browser
          tab

vars == <<kept, tab>>

Copies == [ids : SUBSET Markets]
ConstantsOK == None \notin Copies /\ MaxToggles \in Nat

Init ==
    /\ kept = {}
    /\ tab = [t \in Tabs |-> [cache |-> None, listening |-> FALSE, told |-> FALSE,
                              missed |-> FALSE,      \* another tab's change came while nothing listened
                              note |-> "none", toggles |-> 0]]

Tab(t, r) == tab' = [tab EXCEPT ![t] = r] /\ UNCHANGED kept

(* A copy is read when there is none. *)
Ids(t) == IF tab[t].cache = None THEN kept ELSE tab[t].cache.ids

Mount(t)   == ~tab[t].listening /\ Tab(t, [tab[t] EXCEPT !.listening = TRUE, !.cache = [ids |-> Ids(t)]])
Unmount(t) == tab[t].listening /\ Tab(t, [tab[t] EXCEPT !.listening = FALSE, !.told = FALSE,
                                                        !.missed = @ \/ tab[t].told])

IsWatched(t, m) == m \in Ids(t)
Toggled(ids, m) == IF m \in ids THEN ids \ {m} ELSE ids \union {m}

(* Writing keeps the copy, and the browser tells the other tabs. *)
Write(t, ids, note) ==
    /\ kept' = ids
    /\ tab' = [s \in Tabs |->
                 IF s = t THEN [tab[t] EXCEPT !.cache = [ids |-> ids], !.note = note,
                                              !.toggles = @ + 1]
                 ELSE IF tab[s].listening THEN [tab[s] EXCEPT !.told = TRUE]
                 ELSE [tab[s] EXCEPT !.missed = @ \/ tab[s].cache # None]]

Toggle(t, m) ==
    /\ tab[t].listening /\ tab[t].toggles < MaxToggles
    /\ Write(t, Toggled(Ids(t), m), IF IsWatched(t, m) THEN "removed" ELSE "added")

(* Mutant of Told: the copy is kept when another tab changes the list. *)
ToldNothing(r) == [r EXCEPT !.told = FALSE]

Told(r) == [r EXCEPT !.told = FALSE, !.cache = None, !.missed = FALSE]

StorageEvent(t) == tab[t].told /\ Tab(t, Told(tab[t]))
-----------------------------------------------------------------------------
(* The notes.                                                                *)
NoteShown(t) == tab[t].note \in {"added", "removed"}

(* The four seconds pass, or the note or its link is pressed; then it slides away. *)
Dismiss(t) == NoteShown(t) /\ Tab(t, [tab[t] EXCEPT !.note = "leaving"])
Gone(t)    == tab[t].note = "leaving" /\ Tab(t, [tab[t] EXCEPT !.note = "none"])

Next ==
    \E t \in Tabs :
        \/ Mount(t) \/ Unmount(t) \/ StorageEvent(t) \/ Dismiss(t) \/ Gone(t)
        \/ \E m \in Markets : Toggle(t, m)

Spec == Init /\ [][Next]_vars
-----------------------------------------------------------------------------
TabType ==
    [cache : Copies \union {None}, listening : BOOLEAN, told : BOOLEAN, missed : BOOLEAN,
     note : {"none", "added", "removed", "leaving"}, toggles : 0..MaxToggles]

(* The lists hold markets. *)
TypeOK == kept \subseteq Markets /\ tab \in [Tabs -> TabType]

(* A tab that has heard everything shows what is kept. *)
CopyIsCurrent == \A t \in Tabs : (~tab[t].told /\ ~tab[t].missed) => Ids(t) = kept

(* A toggle changes one market of the list, unless its tab has not yet heard of another   *)
(* tab's change, or missed it.                                                             *)
TogglesOneMarket ==
    \A t \in Tabs : (tab'[t].toggles # tab[t].toggles /\ ~tab[t].told /\ ~tab[t].missed) =>
        \E m \in Markets : kept' = Toggled(kept, m)

(* What every step keeps. *)
ListsInv == TypeOK /\ CopyIsCurrent

(* No step of the lists does more than that. *)
OthersBookmarksKept == [][TogglesOneMarket]_vars
=============================================================================

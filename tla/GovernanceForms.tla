-------------------------- MODULE GovernanceForms --------------------------
(***************************************************************************)
(* The forms of the governance settings on the review page                   *)
(* (frontend/src/components/layouts/admin/ModeratorMarketReview.jsx).  Each    *)
(* form loads all settings, edits its own and saves all of them with the      *)
(* version it loaded; the server refuses another version than its own         *)
(* (backend repository/markets/description_amendments.go), except 0.          *)
(***************************************************************************)
EXTENDS Naturals

CONSTANTS Settings,     \* one form per setting: proposals, amendments, answers
          None,
          MaxVersion,   \* bound on the version of the server
          MaxOpens      \* bound on the openings of each form

VARIABLES form, server

vars == <<form, server>>

Values == [Settings -> BOOLEAN]
Default == [s \in Settings |-> FALSE]

Requests == [values : Values, version : Nat]
Fields   == [values : Values, version : Nat, draft : BOOLEAN, loading : BOOLEAN,
             saving : Requests \union {None}, open : BOOLEAN, opens : Nat]

ConstantsOK == None \notin Requests /\ MaxVersion \in Nat \ {0} /\ MaxOpens \in Nat

(* Before any load: defaults, and version 0. *)
Blank == [values |-> Default, version |-> 0, draft |-> FALSE, loading |-> TRUE, saving |-> None,
          open |-> FALSE, opens |-> 0]

Init ==
    /\ form = [s \in Settings |-> Blank]
    /\ server = [values |-> Default, version |-> 1, saved |-> FALSE]

(* The tab of the form mounts it anew and forgets what was loading.  A save that  *)
(* outlives its form is left out: here a form stays until its save is answered.    *)
Open(s) ==
    /\ form[s].opens < MaxOpens /\ form[s].saving = None
    /\ form' = [form EXCEPT ![s] = [Blank EXCEPT !.open = TRUE, !.opens = form[s].opens + 1]]
    /\ UNCHANGED server

Show(s, f) == [f EXCEPT !.values = server.values, !.version = server.version,
                        !.draft = server.values[s]]

(* loadSettings; a failed load leaves the defaults and enables the form. *)
LoadAnswered(s) ==
    /\ form[s].open /\ form[s].loading
    /\ \E ok \in BOOLEAN :
           form' = [form EXCEPT ![s] = [(IF ok THEN Show(s, @) ELSE @) EXCEPT !.loading = FALSE]]
    /\ UNCHANGED server

Enabled(s) == form[s].open /\ ~form[s].loading /\ form[s].saving = None
Changed(s) == form[s].draft # form[s].values[s]

Toggle(s) ==
    /\ Enabled(s)
    /\ form' = [form EXCEPT ![s].draft = ~@]
    /\ UNCHANGED server

(* Mutant of Request: the version is left out, which the API fills with 0. *)
RequestUnversioned(s) == [values |-> [form[s].values EXCEPT ![s] = form[s].draft], version |-> 0]

Request(s) == [values |-> [form[s].values EXCEPT ![s] = form[s].draft], version |-> form[s].version]

Save(s) ==
    /\ Enabled(s) /\ Changed(s)
    /\ form' = [form EXCEPT ![s].saving = Request(s)]
    /\ UNCHANGED server

Accepts(r) == ~server.saved \/ r.version \in {0, server.version}

(* The first save creates the row with version 1, the version of the defaults. *)
SaveAccepted(s) ==
    /\ form[s].saving # None /\ Accepts(form[s].saving) /\ server.version < MaxVersion
    /\ LET saved == [values |-> form[s].saving.values, saved |-> TRUE,
                     version |-> IF server.saved THEN server.version + 1 ELSE 1]
       IN  /\ server' = saved
           /\ form' = [form EXCEPT ![s] = [@ EXCEPT !.values = saved.values, !.saving = None,
                                                    !.version = saved.version,
                                                    !.draft = saved.values[s]]]

SaveFailed(s) ==
    /\ form[s].saving # None
    /\ form' = [form EXCEPT ![s].saving = None]
    /\ UNCHANGED server

Next == \E s \in Settings :
    \/ Open(s) \/ LoadAnswered(s) \/ Toggle(s) \/ Save(s) \/ SaveAccepted(s) \/ SaveFailed(s)

Spec == Init /\ [][Next]_vars
-----------------------------------------------------------------------------
(* The fields stay in their sets, and no version is newer than the server's. *)
TypeOK ==
    /\ form \in [Settings -> Fields]
    /\ server \in [values : Values, version : 1..MaxVersion, saved : BOOLEAN]
    /\ \A s \in Settings : form[s].version <= server.version

(* A save never reverts a setting of another form, thanks to the version, but for *)
(* two gaps: a form whose load failed saves its defaults with version 0, and the   *)
(* defaults share version 1 with the first row that was ever saved.                *)
SavesItsOwn ==
    \A s \in Settings : server'.values[s] # server.values[s] =>
        \E f \in Settings : /\ form[f].saving # None /\ form'[f].saving = None
                            /\ f = s \/ form[f].version = 0 \/ server.version = 1

(* No step of the forms does otherwise. *)
OthersSettingsKept == [][SavesItsOwn]_vars

(* What makes it hold of every step: a save carries the version of its form and differs     *)
(* from its values in the form's own setting; a form of the server's version, above 1,       *)
(* shows the server's values; before the first save the version is 1.                        *)
VersionsTell ==
    /\ ~server.saved => server.version = 1
    /\ \A s \in Settings :
           /\ form[s].version = server.version /\ server.version > 1 =>
                  form[s].values = server.values
           /\ form[s].saving # None =>
                  /\ ~form[s].loading /\ form[s].saving.version = form[s].version
                  /\ \A t \in Settings \ {s} : form[s].saving.values[t] = form[s].values[t]

SettingsInv == TypeOK /\ VersionsTell
=============================================================================

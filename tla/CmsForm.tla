------------------------------- MODULE CmsForm -------------------------------
(***************************************************************************)
(* The forms of the site's texts and switches (frontend/src/pages/admin/        *)
(* SocialShareEditor.jsx, HomeEditor.jsx, ReportingVisibilityEditor.jsx): each   *)
(* loads everything, edits it and saves all of it with the version it loaded.    *)
(*                                                                         *)
(* Contents are abstracted to the revision they were taken from.  Revisions       *)
(* count every change; versions are what the server compares, and the defaults     *)
(* share version 1 with the first row that is saved.                               *)
(***************************************************************************)
EXTENDS Naturals

CONSTANTS None,
          MaxRevision      \* bound on the changes of the content

VARIABLES form,
          content          \* what the server keeps

vars == <<form, content>>

Kinds == {"share", "home", "reporting"}

Contents == [row : BOOLEAN, version : Nat, revision : Nat]
Requests == [what : {"save", "upload"}, version : Nat, revision : Nat \union {None},
             got : Contents \union {None}]
Fields   == [kind : Kinds, loading : BOOLEAN, version : Nat, revision : Nat \union {None},
             typed : BOOLEAN, requests : SUBSET Requests]

ConstantsOK == MaxRevision \in Nat /\ None \notin Nat \union Contents

(* Before any load the fields are blank and the version is 0. *)
Init ==
    /\ \E k \in Kinds :
        form = [kind |-> k, loading |-> TRUE, version |-> 0, revision |-> None, typed |-> FALSE,
                requests |-> {}]
    /\ content = [row |-> form.kind = "home", version |-> 1, revision |-> 0]

Form(f) == form' = f /\ UNCHANGED content

(* Mutant of Filled: an answer brings its version, and the fields stay as they are. *)
FilledVersion(f, c) == [f EXCEPT !.version = c.version, !.typed = FALSE]

Filled(f, c) == [f EXCEPT !.version = c.version, !.revision = c.revision, !.typed = FALSE]

(* A failed load leaves the blanks, and the form opens all the same. *)
Loaded(kind) ==
    /\ form.kind = kind /\ form.loading
    /\ \/ Form([Filled(form, content) EXCEPT !.loading = FALSE])
       \/ Form([form EXCEPT !.loading = FALSE])

LoadShare     == Loaded("share")
LoadHome      == Loaded("home")
LoadReporting == Loaded("reporting")

Shown == ~form.loading
Under(what) == \E r \in form.requests : r.what = what

(* The fields stay editable during a save. *)
ShareFields     == Shown /\ form.kind = "share"
HomeFields      == Shown /\ form.kind = "home"
ReportingFields == Shown /\ form.kind = "reporting"

Switch == ~form.typed /\ Form([form EXCEPT !.typed = TRUE])

TypeShare       == ShareFields /\ Switch
TypeHome        == HomeFields /\ Switch
ToggleReporting == ReportingFields /\ Switch
-----------------------------------------------------------------------------
Ask(what) ==
    Form([form EXCEPT !.requests = @ \union
        {[what |-> what, version |-> form.version, revision |-> form.revision, got |-> None]}])

SaveShareOffered     == ShareFields /\ ~Under("save")
SaveHomeOffered      == HomeFields /\ ~Under("save")
SaveReportingOffered == ReportingFields /\ ~Under("save")

SaveShare     == SaveShareOffered /\ Ask("save")
SaveHome      == SaveHomeOffered /\ Ask("save")
SaveReporting == SaveReportingOffered /\ Ask("save")

(* An image is uploaded beside a save. *)
UploadOffered == ShareFields /\ ~Under("upload")
Upload == UploadOffered /\ Ask("upload")

(* The server compares the versions of a save, except 0 and except before there is *)
(* a row; an upload carries no version (external).                                 *)
Accepts(r) ==
    /\ r.got = None
    /\ r.what = "upload" \/ ~content.row \/ r.version \in {0, content.version}

Changed(c) == [row |-> TRUE, revision |-> c.revision + 1,
               version |-> IF c.row THEN c.version + 1 ELSE 1]

ServerTakes(r) ==
    /\ Accepts(r) /\ content.revision < MaxRevision
    /\ content' = Changed(content)
    /\ form' = [form EXCEPT !.requests = (@ \ {r}) \union {[r EXCEPT !.got = content']}]

OtherAdminSaves ==
    /\ content.revision < MaxRevision
    /\ content' = Changed(content)
    /\ UNCHANGED form

(* The answer fills the form, over what was typed meanwhile; the homepage keeps its title. *)
Merged(f, c) == [Filled(f, c) EXCEPT !.typed = f.typed]

Answered(r) ==
    /\ r.got # None
    /\ Form([(IF form.kind = "home" THEN Merged(form, r.got) ELSE Filled(form, r.got))
                EXCEPT !.requests = @ \ {r}])

Failed(r) == Form([form EXCEPT !.requests = @ \ {r}])

Next ==
    \/ LoadShare \/ LoadHome \/ LoadReporting
    \/ TypeShare \/ TypeHome \/ ToggleReporting
    \/ SaveShare \/ SaveHome \/ SaveReporting \/ Upload \/ OtherAdminSaves
    \/ \E r \in form.requests : ServerTakes(r) \/ Answered(r) \/ Failed(r)

Spec == Init /\ [][Next]_vars
-----------------------------------------------------------------------------
(* The preview: the image is fetched anew when the version changes. *)
PreviewImage == form.version
Preview == IF Shown /\ form.kind = "share" THEN PreviewImage ELSE 0

(* The fields stay in their sets; nothing is newer than what the server keeps. *)
TypeOK ==
    /\ form \in Fields /\ content \in Contents
    /\ content.version >= 1 /\ content.revision <= MaxRevision
    /\ content.version <= content.revision + 1
    /\ form.version <= content.version /\ Preview <= content.version

(* A save overwrites no change that its form has not seen, but for two gaps: a form whose *)
(* load failed saves its blanks with version 0, and the defaults share version 1 with the  *)
(* first row.                                                                              *)
SavesWhatItSaw ==
    \A r \in form.requests :
        (r.what = "save" /\ content' # content /\ r \notin form'.requests) =>
            r.revision = content.revision \/ r.version = 0 \/ content.version = 1

(* No step of a form does otherwise. *)
UnseenChangesKept == [][SavesWhatItSaw]_vars

(* What makes it hold of every step: whatever carries the version of the server, above 1,  *)
(* carries its revision, too, and before there is a row the version is 1.                  *)
Knows(x, c) ==
    /\ x.version <= c.version
    /\ x.version = c.version /\ c.version > 1 => x.revision = c.revision

VersionsTell ==
    /\ ~content.row => content.version = 1
    /\ Knows(form, content)
    /\ \A r \in form.requests : Knows(r, content) /\ (r.got # None => Knows(r.got, content))

CmsInv == TypeOK /\ VersionsTell
=============================================================================

------------------------------- MODULE Session -------------------------------
(***************************************************************************)
(* Logging in and out, and the pages a login opens                           *)
(* (frontend/src/helpers/AuthContent.jsx, helpers/AppRoutes.jsx,                 *)
(* components/modals/login/LoginModal.jsx,                                       *)
(* components/profile/account/ChangePasswordForm.jsx).                           *)
(*                                                                         *)
(* A login is shown by the page and stored in the browser.  Its profile is read   *)
(* again whenever another token is shown; the read of a token that is no longer    *)
(* shown is ignored, unless it is refused.  Changing the password logs out two      *)
(* seconds later.  The page is one of Visited.                                     *)
(***************************************************************************)
EXTENDS Naturals, FiniteSets

CONSTANTS Users, None,
          Roles,           \* the roles users may have
          Visited,         \* the pages the user goes to by himself
          MaxLogins,       \* bound on the logins
          MaxTimers        \* bound on the changes of a password that wait to log out

VARIABLES session,
          accounts         \* on the server: the role of a user, who must change the password

vars == <<session, accounts>>

AllRoles == {"ADMIN", "MODERATOR", "SUSPENDED", "REGULAR"}
Tokens       == 1..MaxLogins
StoredLogins == [token : Tokens, user : Users]
ShownLogins  == [token : Tokens, user : Users, must : BOOLEAN]

Init ==
    /\ accounts \in [role : [Users -> Roles], must : [Users -> BOOLEAN], moderated : BOOLEAN]
    /\ session = [shown |-> None, stored |-> None, path |-> "home", modal |-> FALSE,
                  logins |-> {}, tokens |-> 0, expired |-> {}, reads |-> {},
                  changing |-> None, timers |-> 0,
                  reloaded |-> FALSE,   \* the page was loaded anew during this login
                  refused |-> FALSE]    \* a token that was no longer shown was refused

Set(s) == session' = s /\ UNCHANGED accounts
Shown == session.shown
-----------------------------------------------------------------------------
(* Which page a path opens: AppRoutes.                                       *)
Gated   == {"home", "old", "oldMarket", "users", "about", "faq", "topic", "group", "markets", "stats"}
Free    == {"style", "newMarkets", "market"}
Own     == {"portfolio", "profile"}
Makers  == {"create", "oldCreate"}
Boards  == {"admin", "oldReview", "stewardship", "amendments", "tags", "cms", "adminUsers"}
Paths   == Gated \union Free \union Own \union Makers \union Boards \union {"review", "changepassword"}

ConstantsOK ==
    /\ Roles \subseteq AllRoles /\ Visited \subseteq Paths /\ {MaxLogins, MaxTimers} \subseteq Nat
    /\ None \notin StoredLogins \union ShownLogins \union Users

IsLoggedIn == Shown # None
MustChange == IsLoggedIn /\ Shown.must
Role       == accounts.role[Shown.user]
IsAdmin    == IsLoggedIn /\ Role = "ADMIN"
CanCreate  == /\ IsLoggedIn /\ Role \notin {"ADMIN", "SUSPENDED"}
              /\ accounts.moderated => Role = "MODERATOR"

HomePage == IF MustChange THEN "changepassword" ELSE "home"

AdminDashboard(path) ==
    IF MustChange THEN "changepassword" ELSE IF IsAdmin THEN path ELSE HomePage

PublicPage(path) == IF MustChange THEN "changepassword" ELSE path

OwnPage(path) == IF IsLoggedIn /\ ~IsAdmin THEN path ELSE HomePage

MakerPage(path) ==
    IF MustChange THEN "changepassword" ELSE IF CanCreate THEN path ELSE HomePage

PageOf(path) ==
    CASE path \in Gated  -> PublicPage(path)
      [] path \in Free   -> path
      [] path \in Own    -> OwnPage(path)
      [] path \in Makers -> MakerPage(path)
      [] path \in Boards -> AdminDashboard(path)
      [] path = "review" -> IF IsAdmin THEN path ELSE HomePage
      [] path = "changepassword" -> IF IsLoggedIn THEN path ELSE HomePage

(* The old pages stand beside the sidebar, the others under the bar. *)
SidebarPages == {"old", "oldMarket", "oldCreate", "oldReview", "about", "profile", "style"}
                \union Boards

(* The links of the sidebar, ... *)
SidebarLinks ==
    CASE ~IsLoggedIn -> {"home", "markets", "about", "faq", "stats"}
      [] IsAdmin     -> {"review", "adminUsers", "cms", "markets", "about", "faq", "stats"}
      [] MustChange  -> {"changepassword", "home"}
      [] OTHER       -> {"profile", "home", "markets", "about", "faq", "stats"}
                        \union (IF CanCreate THEN {"create"} ELSE {})

CreateLink == IF CanCreate /\ ~MustChange THEN {"create"} ELSE {}

(* ... those below it on a small screen, where the profile is for whoever is logged in, ... *)
BottomLinks == {"home", "markets"} \union CreateLink \union (IF IsLoggedIn THEN {"profile"} ELSE {})

(* ... and those of the bar, of its menus and of its foot on a small screen, where the       *)
(* balance, the bets and the bookmarks lead everybody to the portfolio.                        *)
BarLinks ==
    {"home", "newMarkets", "stats", "faq"} \union CreateLink
        \union (IF IsLoggedIn THEN {"portfolio"} ELSE {}) \union (IF IsAdmin THEN {"review"} ELSE {})
-----------------------------------------------------------------------------
(* The profile of the token that is shown is read; other reads are ignored from now on. *)
Read(s) ==
    [s EXCEPT !.reads =
        IF s.shown = None \/ s.shown.must \/ s.shown.token \in {r.token : r \in @} THEN @
        ELSE @ \union {[token |-> s.shown.token, user |-> s.shown.user]}]

(* Mutant of Ignored: an answer is stored whichever token is shown. *)
IgnoredNever(r) == FALSE

Ignored(r) == IF Shown = None THEN TRUE ELSE Shown.token # r.token

ReadAnswered ==
    \E r \in session.reads :
        Set([session EXCEPT !.reads = @ \ {r},
                            !.stored = IF Ignored(r) THEN @ ELSE [token |-> r.token, user |-> r.user]])

(* A refusal empties the storage; the page logs out when the token is the one it shows. *)
ReadRefused ==
    \E r \in session.reads :
        /\ r.token \in session.expired
        /\ Set([session EXCEPT !.reads = @ \ {r}, !.stored = None,
                               !.refused = @ \/ (Shown # None /\ Ignored(r)),
                               !.shown = IF Shown # None /\ Shown.token = r.token THEN None ELSE @])

ReadFailed ==
    \E r \in session.reads :
        /\ r.token \notin session.expired
        /\ Set([session EXCEPT !.reads = @ \ {r}])

TokenExpires ==
    /\ IsLoggedIn /\ Shown.token \notin session.expired
    /\ Set([session EXCEPT !.expired = @ \union {Shown.token}])
-----------------------------------------------------------------------------
(* Logging in.  The modal may be closed, and opened anew, while a login is under way. *)
OpenModal  == ~IsLoggedIn /\ ~session.modal /\ Set([session EXCEPT !.modal = TRUE])
CloseModal == session.modal /\ Set([session EXCEPT !.modal = FALSE])

Submit(user) ==
    /\ session.modal /\ session.tokens + Cardinality(session.logins) < MaxLogins
    /\ user \notin session.logins
    /\ Set([session EXCEPT !.logins = @ \union {user}])

Destination(must) == IF must THEN "changepassword" ELSE session.path

LoginAnswered(user) ==
    /\ user \in session.logins
    /\ LET token == session.tokens + 1
       IN  Set(Read([session EXCEPT !.logins = @ \ {user}, !.tokens = token, !.modal = FALSE,
                       !.stored = [token |-> token, user |-> user],
                       !.shown = [token |-> token, user |-> user, must |-> accounts.must[user]],
                       !.path = Destination(accounts.must[user]),
                       !.reloaded = FALSE, !.refused = FALSE]))

LoginFailed(user) ==
    user \in session.logins /\ Set([session EXCEPT !.logins = @ \ {user}])

LoggedOut(s) == [s EXCEPT !.shown = None, !.stored = None]

LeftPrivate == IF PageOf(session.path) = session.path /\ session.path \in Own \union {"create", "changepassword"}
               THEN "home" ELSE session.path

Logout == IsLoggedIn /\ Set([LoggedOut(session) EXCEPT !.path = LeftPrivate])

Visit(path) == path # session.path /\ Set([session EXCEPT !.path = path])

(* Loading the page anew: what was asked is answered to nobody.  The stored login is *)
(* shown, unless it has expired; that it must change the password is not stored.     *)
Stored(s) ==
    IF s.stored = None THEN [s EXCEPT !.shown = None]
    ELSE IF s.stored.token \in s.expired THEN LoggedOut(s)
    ELSE [s EXCEPT !.shown = [token |-> s.stored.token, user |-> s.stored.user, must |-> FALSE]]

Reload ==
    Set(Read(Stored([session EXCEPT !.reads = {}, !.logins = {}, !.modal = FALSE,
                       !.changing = None, !.timers = 0, !.reloaded = TRUE])))
-----------------------------------------------------------------------------
(* Changing the password. *)
ChangeOffered == IsLoggedIn /\ PageOf(session.path) \in {"changepassword", "portfolio"}

ChangePassword == ChangeOffered /\ session.changing = None /\ Set([session EXCEPT !.changing = Shown.user])

(* The server changes it for the login it was asked with. *)
PasswordChanged ==
    /\ session.changing # None /\ session.timers < MaxTimers
    /\ accounts' = [accounts EXCEPT !.must[session.changing] = FALSE]
    /\ session' = [session EXCEPT !.changing = None, !.timers = @ + 1]

ChangeFailed == session.changing # None /\ Set([session EXCEPT !.changing = None])

(* The timer of the form outlives the form, and logs out whoever is logged in. *)
TimerFires ==
    /\ session.timers > 0
    /\ Set([LoggedOut(session) EXCEPT !.timers = @ - 1, !.path = "home"])

Next ==
    \/ ReadAnswered \/ ReadRefused \/ ReadFailed \/ TokenExpires
    \/ OpenModal \/ CloseModal \/ Logout \/ Reload
    \/ ChangePassword \/ PasswordChanged \/ ChangeFailed \/ TimerFires
    \/ \E u \in Users : Submit(u) \/ LoginAnswered(u) \/ LoginFailed(u)
    \/ \E p \in Visited : Visit(p)

Spec == Init /\ [][Next]_vars
-----------------------------------------------------------------------------
SessionType ==
    [shown : ShownLogins \union {None}, stored : StoredLogins \union {None}, path : Paths,
     modal : BOOLEAN, logins : SUBSET Users, tokens : 0..MaxLogins, expired : SUBSET Tokens,
     reads : SUBSET StoredLogins, changing : Users \union {None}, timers : 0..MaxTimers,
     reloaded : BOOLEAN, refused : BOOLEAN]

(* The path is one the router knows, and at most one login is stored and shown. *)
TypeOK ==
    /\ session \in SessionType /\ PageOf(session.path) \in Paths
    /\ accounts \in [role : [Users -> AllRoles], must : [Users -> BOOLEAN], moderated : BOOLEAN]
    /\ session.tokens + Cardinality(session.logins) <= MaxLogins

(* A login has a token of its own: whatever still goes by the token shown is of its user. *)
TokensAreOwn ==
    /\ \A r \in session.reads : r.token <= session.tokens
    /\ session.stored # None => session.stored.token <= session.tokens
    /\ IsLoggedIn => /\ Shown.token <= session.tokens
                     /\ \A r \in session.reads : r.token = Shown.token => r.user = Shown.user

(* That a password must be changed is known of a login until the page is loaded anew. *)
MustIsKnown == (IsLoggedIn /\ accounts.must[Shown.user] /\ ~session.reloaded) => Shown.must

(* What is stored is the login that is shown, so that a reload keeps it, unless a login *)
(* that had ended was refused late: that empties the storage under the new login.        *)
StorageFollows ==
    session.refused \/ IF Shown = None THEN session.stored = None
                       ELSE session.stored = [token |-> Shown.token, user |-> Shown.user]

(* Whoever must change the password sees only the pages without a gate, until the page *)
(* is loaded anew, which forgets it.                                                     *)
MustChangeIsGated ==
    (IsLoggedIn /\ accounts.must[Shown.user] /\ ~session.reloaded) =>
        \A p \in Paths : PageOf(p) \in Free \union Own \union {"review", "changepassword"}

LinksAt(path) == IF path \in SidebarPages THEN SidebarLinks \union BottomLinks ELSE BarLinks

(* A link that is offered opens its page, or the change of the password, but for the pages of *)
(* their own that admins are offered too: the router sends them home.                           *)
LinksOpen ==
    \A at \in Paths : \A p \in LinksAt(at) :
        PageOf(p) \in {p, "changepassword"} \/ (IsAdmin /\ p \in Own)

(* What every step keeps. *)
LoginInv ==
    /\ TypeOK /\ IsFiniteSet(session.logins)
    /\ StorageFollows /\ TokensAreOwn /\ MustIsKnown
=============================================================================

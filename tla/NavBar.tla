-------------------------------- MODULE NavBar --------------------------------
(***************************************************************************)
(* The bar of the site (frontend/src/components/navbar/Navbar.jsx, with            *)
(* components/utils/userFinanceTools/FetchUserCredit.jsx and the shared requests    *)
(* of api/httpClient.js): its menus, how it hides while scrolling, the credit and   *)
(* the number of reviews that wait.                                               *)
(*                                                                         *)
(* A second request for the same thing with the same token joins the one that is    *)
(* under way: a credit asked after a trade may be the one read before it.            *)
(***************************************************************************)
EXTENDS Naturals

CONSTANTS Users, None,
          MaxTrades,       \* bound on the trades
          MaxLogins,       \* bound on the logins
          Bottom           \* the deepest scroll position; the bar is gone from 2 on

VARIABLES bar,
          balance          \* on the server: of each user, the number of his trades

vars == <<bar, balance>>

Credits == [of : Users, got : Nat]
Fetches == [of : Users, login : 0..MaxLogins, got : Nat \union {None}]
ConstantsOK == {MaxTrades, MaxLogins, Bottom} \subseteq Nat /\ None \notin Users \union Nat

Init ==
    /\ balance = [u \in Users |-> 0]
    /\ bar = [user |-> None, logins |-> 0, credit |-> None, fetches |-> {},
              layer |-> "none", scroll |-> 0, fixed |-> FALSE, visible |-> TRUE,
              tags |-> FALSE, language |-> "en",
              stale |-> FALSE]      \* a fetch joined an older one, failed, or met another user's

Bar(b) == bar' = b /\ UNCHANGED balance
IsLoggedIn == bar.user # None
-----------------------------------------------------------------------------
(* The credit.                                                               *)

(* Mutant of Fetch: requests under way are joined by a cache that also keeps answers. *)
FetchOnce(b, u) ==
    IF b.credit # None THEN b
    ELSE [b EXCEPT !.fetches = {[of |-> u, login |-> b.logins, got |-> None]}]

Fetch(b, u) ==
    IF \E f \in b.fetches : f.of = u /\ f.login = b.logins
    THEN [b EXCEPT !.stale = TRUE]
    ELSE [b EXCEPT !.fetches = @ \union {[of |-> u, login |-> b.logins, got |-> None]},
                   !.stale = @ /\ b.fetches # {}]

(* Another login shows the credit of the one before it until its own comes. *)
Login(u) ==
    /\ ~IsLoggedIn /\ bar.logins < MaxLogins
    /\ Bar([Fetch([bar EXCEPT !.user = u, !.logins = @ + 1, !.layer = "none"], u)
              EXCEPT !.stale = @ \/ bar.fetches # {}])

Logout == IsLoggedIn /\ Bar([bar EXCEPT !.user = None, !.layer = "none"])

(* A trade of the user, and the event that asks for the credit again. *)
Trade ==
    /\ IsLoggedIn /\ balance[bar.user] < MaxTrades
    /\ balance' = [balance EXCEPT ![bar.user] = @ + 1]
    /\ bar' = Fetch(bar, bar.user)

(* The server reads the balance at some moment of the request (external). *)
CreditRead ==
    \E f \in bar.fetches :
        /\ f.got = None
        /\ Bar([bar EXCEPT !.fetches = (@ \ {f}) \union {[f EXCEPT !.got = balance[f.of]]}])

CreditAnswered ==
    \E f \in bar.fetches :
        /\ f.got # None
        /\ Bar([bar EXCEPT !.fetches = @ \ {f}, !.credit = [of |-> f.of, got |-> f.got]])

CreditFailed ==
    \E f \in bar.fetches : Bar([bar EXCEPT !.fetches = @ \ {f}, !.stale = TRUE])
-----------------------------------------------------------------------------
(* Hiding while scrolling: gone when scrolled past, back when scrolled up.   *)
Threshold == 1

Visible(y) ==
    IF y > Threshold THEN bar.fixed /\ y < bar.scroll
    ELSE TRUE

Fixed(y) == y > Threshold \/ (bar.fixed /\ y > 0)

(* The chip of the user closes when the bar hides. *)
Scroll(y) ==
    /\ y # bar.scroll /\ bar.layer \in {"none", "chip"}
    /\ Bar([bar EXCEPT !.scroll = y, !.fixed = Fixed(y), !.visible = Visible(y),
                       !.layer = IF Visible(y) THEN @ ELSE "none"])

PlaceholderShown == bar.fixed
SectionsShown == ~bar.fixed
-----------------------------------------------------------------------------
(* Menus, sheets and modals: one at a time covers the page.                  *)
ChipShown == IsLoggedIn /\ bar.visible
SignInShown == ~IsLoggedIn

Show(layer) == bar.layer = "none" /\ Bar([bar EXCEPT !.layer = layer])

OpenChip     == ChipShown /\ Show("chip")
OpenLanguage == SignInShown /\ bar.visible /\ Show("language")
OpenSheet(s) == s \in {"more", "search"} /\ Show(s)
OpenModal(m) == SignInShown /\ m \in {"login", "register"} /\ Show(m)

(* From the sheet, and from one modal to another. *)
SwitchModal(m) ==
    /\ SignInShown /\ m # bar.layer
    /\ \/ bar.layer = "more" /\ m \in {"login", "register"}
       \/ bar.layer = "login" /\ m \in {"register", "forgot"}
       \/ bar.layer \in {"register", "forgot"} /\ m = "login"
    /\ Bar([bar EXCEPT !.layer = m])

ChipItems == IF bar.layer = "chip" THEN {"profile", "watchlist", "language", "faq", "logout"} ELSE {}
MoreItems == IF bar.layer # "more" THEN {}
             ELSE {"stats", "faq", "language"} \union (IF IsLoggedIn THEN {"bets", "watchlist", "logout"} ELSE {})

SetLanguage(code) ==
    /\ code \in {"en", "es"} \ {bar.language}
    /\ \/ bar.layer = "language" /\ Bar([bar EXCEPT !.language = code, !.layer = "none"])
       \/ "language" \in ChipItems \union MoreItems /\ Bar([bar EXCEPT !.language = code])

(* Any other item, a press outside, a swipe. *)
Close == bar.layer # "none" /\ Bar([bar EXCEPT !.layer = "none"])
SignOut == "logout" \in ChipItems \union MoreItems /\ Logout

TagsLoaded == ~bar.tags /\ Bar([bar EXCEPT !.tags = TRUE])

Next ==
    \/ \E u \in Users : Login(u)
    \/ Logout \/ SignOut \/ Trade \/ CreditRead \/ CreditAnswered \/ CreditFailed
    \/ \E y \in 0..Bottom : Scroll(y)
    \/ OpenChip \/ OpenLanguage \/ Close \/ TagsLoaded
    \/ \E s \in {"more", "search"} : OpenSheet(s)
    \/ \E m \in {"login", "register", "forgot"} : OpenModal(m) \/ SwitchModal(m)
    \/ \E code \in {"en", "es"} : SetLanguage(code)

Spec == Init /\ [][Next]_vars
-----------------------------------------------------------------------------
BarType ==
    [user : Users \union {None}, logins : 0..MaxLogins, credit : Credits \union {None},
     fetches : SUBSET Fetches,
     layer : {"none", "chip", "language", "more", "search", "login", "register", "forgot"},
     scroll : 0..Bottom, fixed : BOOLEAN, visible : BOOLEAN, tags : BOOLEAN,
     language : {"en", "es"}, stale : BOOLEAN]

(* The bar is in its place at the top, and hidden only while it floats; the chip is open   *)
(* only when it is seen, and a modal for logging in only for one who is not logged in.       *)
TypeOK ==
    /\ bar \in BarType /\ balance \in [Users -> Nat]
    /\ (bar.scroll = 0 => SectionsShown) /\ (~bar.visible => PlaceholderShown)
    /\ (bar.layer = "chip" => ChipShown)
    /\ (bar.layer \in {"login", "register", "forgot"} => SignInShown)

(* The credit in the bar is the credit of the one who is logged in, as his last trade left  *)
(* it, unless a fetch joined an older one, failed, or met a fetch for another user.           *)
CreditIsCurrent ==
    (IsLoggedIn /\ bar.fetches = {} /\ ~bar.stale) =>
        bar.credit = [of |-> bar.user, got |-> balance[bar.user]]

(* But for that, one fetch is under way at most, for him and of what his last trade left. *)
FetchIsCurrent ==
    ~bar.stale =>
        /\ \A f, g \in bar.fetches : f = g
        /\ IsLoggedIn => \A f \in bar.fetches :
               /\ f.of = bar.user /\ f.login = bar.logins
               /\ f.got \in {None, balance[bar.user]}

(* What every step keeps. *)
BarInv == TypeOK /\ CreditIsCurrent /\ FetchIsCurrent
=============================================================================

----------------------------- MODULE SiteProofs -----------------------------
(***************************************************************************)
(* Theorems about what visitors see and send, for all constants.  For each     *)
(* component: the conditions its invariant is made of, that Init establishes    *)
(* it and that every step keeps it; at the end the site as a whole.             *)
(***************************************************************************)
EXTENDS Site, FiniteSetTheorems, WellFoundedInduction, TLAPS

-----------------------------------------------------------------------------
(* The market page.                                                          *)
(* The sets of the fields, named for the provers; an answer added later is 0. *)
ShownLists == Market!Lists \union {<<>>}
HeldLists  == Market!Lists \union {None}
UrlPlaces  == Market!Places \union {0}
Chosen     == Market!Markets \union {0, None}
Addresses  == Market!Markets \union {0}
DetailSet  == Market!Markets \union {None}
FetchSet   == Market!Fetches \union {None}
TagStates  == {"loading", "loaded", "failed"}

GroupRec ==
    [options : ShownLists, loading : BOOLEAN, loaded : BOOLEAN, load : HeldLists,
     poll : HeldLists, selected : Market!Places, activity : Market!Places,
     urlIdx : UrlPlaces, chosen : Chosen]
PageRec ==
    [url : Market!Markets, address : Addresses, visible : BOOLEAN,
     details : DetailSet, error : BOOLEAN, fetch : FetchSet,
     refetch : BOOLEAN, tags : TagStates, group : GroupRec]

LEMMA GroupRecIs == GroupRec = Market!GroupType
  BY DEF GroupRec, Market!GroupType, ShownLists, HeldLists, UrlPlaces, Chosen

LEMMA PageRecIs == PageRec = Market!PageType
  BY GroupRecIs DEF PageRec, Market!PageType, Addresses, DetailSet, FetchSet, TagStates

(* A fetch under way is of the market on the route and gives up in time; a group shows what was *)
(* loaded, its chosen option and the place of the market.                                      *)
FetchGood(f, url) == f # None => f.market = url /\ (f.backoff => f.attempt < MaxAttempts)

MembersGood(g, url, address) ==
    /\ g \in GroupRec
    /\ g.loaded => g.options # <<>>
    /\ g.chosen # None => g.options[g.selected] = g.chosen /\ address = g.chosen
    /\ g.urlIdx = Market!IndexIn(g.options, url)

MarketPageGood(p) ==
    /\ p \in PageRec /\ p.details \in {None, p.url}
    /\ FetchGood(p.fetch, p.url) /\ MembersGood(p.group, p.url, p.address)

LEMMA PageInvIs == Market!PageInv <=> MarketPageGood(page) /\ options \in Market!Lists
<1>1. page \in PageRec => page.group \in GroupRec
  BY DEF PageRec
<1> QED
  BY <1>1, PageRecIs DEF Market!PageInv, Market!TypeOK, Market!DetailsOfTheMarket, Market!LoadedGroupStays,
     Market!ChosenOptionStays, Market!PlaceIsKnown, Market!SelectedAnswer, MarketPageGood, FetchGood, MembersGood

LEMMA PageInvIsNext == Market!PageInv' <=> MarketPageGood(page') /\ options' \in Market!Lists
<1>1. page' \in PageRec => page'.group \in GroupRec
  BY DEF PageRec
<1> QED
  BY <1>1, PageRecIs DEF Market!PageInv, Market!TypeOK, Market!DetailsOfTheMarket, Market!LoadedGroupStays,
     Market!ChosenOptionStays, Market!PlaceIsKnown, Market!SelectedAnswer, MarketPageGood, FetchGood, MembersGood

LEMMA PageInvShows ==
    Market!PageInv => Market!DetailsOfTheMarket /\ Market!LoadedGroupStays /\ Market!ChosenOptionStays
  BY DEF Market!PageInv

(* The options of the group, in either order, are places of the page and hold every market. *)
LEMMA ListsAre ==
    ASSUME Market!ConstantsOK
    PROVE  /\ \A list \in Market!Lists :
                  /\ list # <<>> /\ DOMAIN list \subseteq Market!Places
                  /\ \A i \in DOMAIN list : list[i] \in Addresses
                  /\ \A m \in Market!Markets : \E i \in DOMAIN list : list[i] = m
           /\ TheOptions \in Market!Lists /\ <<0>> \o TheOptions \in Market!Lists
           /\ 1 \in Market!Places /\ 0 \notin Market!Places
<1>1. /\ TheOptions \in Seq(Market!Markets) /\ TheOptions # <<>>
      /\ \A m \in Market!Markets : \E i \in DOMAIN TheOptions : TheOptions[i] = m
  BY DEF Market!ConstantsOK, Market!Markets, Market!Range
<1>2. Len(TheOptions) \in Nat /\ DOMAIN TheOptions = 1..Len(TheOptions)
      /\ \A i \in DOMAIN TheOptions : TheOptions[i] \in Market!Markets
  BY <1>1
<1> DEFINE opts == TheOptions
           longer == <<0>> \o opts
<1>3. /\ longer # <<>> /\ DOMAIN longer = 1..(Len(opts) + 1)
      /\ longer[1] = 0 /\ \A i \in 1..Len(opts) : longer[i + 1] = opts[i]
      /\ \A i \in DOMAIN longer : longer[i] = IF i = 1 THEN 0 ELSE opts[i - 1]
  <2>1. opts \in Seq(Market!Markets)
    BY <1>1
  <2> HIDE DEF opts
  <2> QED
    BY <2>1
<1>4. Market!Lists = {opts, longer} /\ Market!Places = 1..(Len(opts) + 1)
  BY DEF Market!Lists, Market!Places
<1>5. TheOptions = opts /\ <<0>> \o TheOptions = longer
  OBVIOUS
<1>6. /\ opts # <<>> /\ Len(opts) \in Nat /\ DOMAIN opts = 1..Len(opts)
      /\ \A i \in DOMAIN opts : opts[i] \in Market!Markets
      /\ \A m \in Market!Markets : \E i \in DOMAIN opts : opts[i] = m
  BY <1>1, <1>2
<1> HIDE DEF opts, longer
<1>7. /\ opts # <<>> /\ DOMAIN opts \subseteq Market!Places
      /\ \A i \in DOMAIN opts : opts[i] \in Addresses
      /\ \A m \in Market!Markets : \E i \in DOMAIN opts : opts[i] = m
  BY <1>4, <1>6 DEF Addresses
<1>8. DOMAIN longer = Market!Places /\ \A i \in DOMAIN longer : longer[i] \in Addresses
  <2>1. \A i \in DOMAIN longer : i # 1 => i - 1 \in DOMAIN opts
    BY <1>3, <1>6
  <2> QED
    BY <1>3, <1>4, <1>6, <2>1 DEF Addresses
<1>9. ASSUME NEW m \in Market!Markets
      PROVE  \E i \in DOMAIN longer : longer[i] = m
  <2>1. PICK i \in DOMAIN opts : opts[i] = m
    BY <1>6
  <2>2. i + 1 \in DOMAIN longer /\ longer[i + 1] = m
    BY <1>3, <1>6, <2>1
  <2> QED
    BY <2>2
<1>10. 1 \in Market!Places /\ 0 \notin Market!Places
  BY <1>4, <1>6
<1> QED
  BY <1>3, <1>4, <1>5, <1>7, <1>8, <1>9, <1>10

LEMMA PageSets ==
    ASSUME Market!ConstantsOK
    PROVE  /\ <<>> \in ShownLists /\ Market!Lists \subseteq ShownLists
           /\ None \in HeldLists /\ Market!Lists \subseteq HeldLists
           /\ \A x \in HeldLists : x # None => x \in Market!Lists
           /\ 0 \in UrlPlaces /\ Market!Places \subseteq UrlPlaces
           /\ None \in Chosen /\ Addresses \subseteq Chosen /\ Market!Markets \subseteq Addresses
           /\ None \in DetailSet /\ Market!Markets \subseteq DetailSet
           /\ None \in FetchSet /\ Market!Fetches \subseteq FetchSet
           /\ \A x \in FetchSet : x # None => x \in Market!Fetches
           /\ MaxAttempts \in Nat /\ None \notin Market!Lists /\ None \notin Market!Fetches
           /\ None \notin Addresses
  BY DEF ShownLists, HeldLists, UrlPlaces, Chosen, Addresses, DetailSet, FetchSet, Market!ConstantsOK

(* The place of a market in a list. *)
LEMMA PlaceIn ==
    ASSUME Market!ConstantsOK, NEW m \in Market!Markets
    PROVE  /\ \A list \in Market!Lists : Market!IndexIn(list, m) \in Market!Places
           /\ Market!IndexIn(<<>>, m) = 0
<1>1. ASSUME NEW list \in Market!Lists
      PROVE  Market!IndexIn(list, m) \in Market!Places
  <2>1. DOMAIN list \subseteq Market!Places /\ \E i \in DOMAIN list : list[i] = m
    BY ListsAre
  <2>2. m \in Market!Range(list)
    BY <2>1 DEF Market!Range
  <2>3. (CHOOSE i \in DOMAIN list : list[i] = m) \in DOMAIN list
    BY <2>1
  <2> QED
    BY <2>1, <2>2, <2>3 DEF Market!IndexIn
<1>2. m \notin Market!Range(<<>>)
  BY DEF Market!Range
<1> QED
  BY <1>1, <1>2 DEF Market!IndexIn

LEMMA FetchIs ==
    ASSUME Market!ConstantsOK, NEW m \in Market!Markets, NEW silent \in BOOLEAN
    PROVE  /\ Market!Fetch(m, silent, 0) \in FetchSet
           /\ FetchGood(Market!Fetch(m, silent, 0), m)
<1> DEFINE zero == 0
<1>1. zero \in 0..MaxAttempts
  BY PageSets
<1>2. Market!Fetch(m, silent, zero) = [market |-> m, silent |-> silent, attempt |-> zero, backoff |-> FALSE]
  BY DEF Market!Fetch
<1> HIDE DEF zero
<1>3. Market!Fetch(m, silent, zero) \in Market!Fetches
  BY <1>1, <1>2 DEF Market!Fetches
<1>4. FetchGood(Market!Fetch(m, silent, zero), m)
  BY <1>2 DEF FetchGood
<1> QED
  BY <1>3, <1>4, PageSets DEF zero

LEMMA NoGroupGood ==
    ASSUME Market!ConstantsOK, NEW url \in Market!Markets, NEW address
    PROVE  MembersGood(Market!NoGroup, url, address)
<1> DEFINE one == 1
           zero == 0
           g == Market!NoGroup
<1>1. one \in Market!Places /\ zero \in UrlPlaces
  BY ListsAre, PageSets
<1>2. g = [options |-> <<>>, loading |-> TRUE, loaded |-> FALSE, load |-> None, poll |-> None,
           selected |-> one, activity |-> one, urlIdx |-> zero, chosen |-> None]
  BY DEF Market!NoGroup
<1>3. zero = Market!IndexIn(<<>>, url)
  BY PlaceIn
<1> HIDE DEF one, zero, g
<1>4. g \in GroupRec
  BY <1>1, <1>2, PageSets DEF GroupRec
<1>5. MembersGood(g, url, address)
  BY <1>2, <1>3, <1>4 DEF MembersGood
<1> QED
  BY <1>5 DEF g

LEMMA SetFetch ==
    ASSUME NEW p, MarketPageGood(p), NEW f \in FetchSet, FetchGood(f, p.url)
    PROVE  MarketPageGood([p EXCEPT !.fetch = f])
  BY DEF MarketPageGood, PageRec

LEMMA SetGroup ==
    ASSUME NEW p, MarketPageGood(p), NEW g, MembersGood(g, p.url, p.address)
    PROVE  MarketPageGood([p EXCEPT !.group = g])
  BY DEF MarketPageGood, PageRec, MembersGood

(* Fields of a group that the chosen option and the place do not read. *)
LEMMA SetLoads ==
    ASSUME NEW g, NEW url, NEW address, MembersGood(g, url, address),
           NEW load \in HeldLists, NEW poll \in HeldLists, NEW loading \in BOOLEAN
    PROVE  MembersGood([g EXCEPT !.load = load, !.poll = poll, !.loading = loading], url, address)
  BY DEF MembersGood, GroupRec

(* Mounting the layout or dropping it keeps a good page good. *)
LEMMA MountedGood ==
    ASSUME Market!ConstantsOK, options \in Market!Lists, NEW p, MarketPageGood(p)
    PROVE  MarketPageGood(Market!Mounted(p))
<1>1. p \in PageRec /\ p.url \in Market!Markets /\ p.group \in GroupRec /\ MembersGood(p.group, p.url, p.address)
  BY DEF MarketPageGood, PageRec
<1>2. MarketPageGood([p EXCEPT !.group = Market!NoGroup])
  BY <1>1, NoGroupGood, SetGroup
<1>3. MarketPageGood([p EXCEPT !.group.load = options])
  <2> DEFINE g == [p.group EXCEPT !.load = options, !.poll = p.group.poll, !.loading = p.group.loading]
  <2>1. p.group.poll \in HeldLists /\ p.group.loading \in BOOLEAN /\ options \in HeldLists
    BY <1>1, PageSets DEF GroupRec
  <2>2. MembersGood(g, p.url, p.address)
    BY <1>1, <2>1, SetLoads
  <2>3. [p.group EXCEPT !.load = options] = g
    BY <1>1 DEF GroupRec
  <2>4. [p EXCEPT !.group.load = options] = [p EXCEPT !.group = [p.group EXCEPT !.load = options]]
    BY <1>1 DEF PageRec
  <2> QED
    BY <2>2, <2>3, <2>4, SetGroup
<1> QED
  BY <1>2, <1>3 DEF Market!Mounted

(* New options keep the option the user chose when they are the same, and drop it otherwise. *)
LEMMA WithOptionsGood ==
    ASSUME Market!ConstantsOK, page.url \in Market!Markets, NEW list \in Market!Lists,
           NEW g, MembersGood(g, page.url, page.address)
    PROVE  /\ MembersGood(Market!WithOptions(g, list), page.url, page.address)
           /\ Market!WithOptions(g, list).options = list
<1> DEFINE idx == Market!IndexIn(list, page.url)
           chosen == IF list = g.options THEN g.chosen ELSE None
           selected == IF Market!Preselected(g, idx) THEN idx ELSE g.selected
           activity == IF Market!Preselected(g, idx) THEN idx ELSE g.activity
           r == Market!WithOptions(g, list)
<1>1. g \in GroupRec /\ g.selected \in Market!Places /\ g.activity \in Market!Places /\ g.chosen \in Chosen
  BY DEF MembersGood, GroupRec
<1>2. idx \in Market!Places /\ idx \in UrlPlaces /\ list \in ShownLists /\ list # <<>>
  BY PlaceIn, PageSets, ListsAre
<1>3. chosen \in Chosen /\ selected \in Market!Places /\ activity \in Market!Places
  BY <1>1, <1>2, PageSets
<1>4. chosen # None => list = g.options /\ chosen = g.chosen /\ selected = g.selected
  BY DEF Market!Preselected, MembersGood
<1>5. \/ r = [g EXCEPT !.options = list, !.urlIdx = idx, !.chosen = chosen]
         /\ selected = g.selected /\ activity = g.activity
      \/ r = [[g EXCEPT !.options = list, !.urlIdx = idx, !.chosen = chosen]
                 EXCEPT !.selected = selected, !.activity = activity]
  BY DEF Market!WithOptions
<1>6. idx = Market!IndexIn(list, page.url)
  OBVIOUS
<1> HIDE DEF idx, chosen, selected, activity, r
<1>7. /\ r \in GroupRec /\ r.options = list /\ r.urlIdx = idx /\ r.chosen = chosen
      /\ r.selected = selected /\ r.loaded = g.loaded
  BY <1>1, <1>2, <1>3, <1>5 DEF GroupRec
<1>8. MembersGood(r, page.url, page.address)
  BY <1>2, <1>4, <1>6, <1>7 DEF MembersGood
<1> QED
  BY <1>7, <1>8 DEF r

LEMMA PageInitInv == Market!ConstantsOK /\ Market!Init => Market!PageInv
<1> SUFFICES ASSUME Market!ConstantsOK, Market!Init
             PROVE  Market!PageInv
  OBVIOUS
<1>1. PICK m \in Market!Markets :
          page = [url |-> m, address |-> m, visible |-> TRUE, details |-> None, error |-> FALSE,
                  fetch |-> Market!Fetch(m, FALSE, 0), refetch |-> FALSE,
                  tags |-> "loading", group |-> Market!NoGroup]
  BY DEF Market!Init
<1> DEFINE f == Market!Fetch(m, FALSE, 0)
           g == Market!NoGroup
<1>2. f \in FetchSet /\ FetchGood(f, m)
  BY FetchIs
<1>3. MembersGood(g, m, m)
  BY NoGroupGood
<1>4. page = [url |-> m, address |-> m, visible |-> TRUE, details |-> None, error |-> FALSE,
              fetch |-> f, refetch |-> FALSE, tags |-> "loading", group |-> g]
  BY <1>1
<1> HIDE DEF f, g
<1>5. m \in Addresses /\ "loading" \in TagStates /\ g \in GroupRec
  BY <1>3, PageSets DEF TagStates, MembersGood
<1>6. page \in PageRec
  BY <1>2, <1>4, <1>5, PageSets DEF PageRec
<1>7. MarketPageGood(page)
  BY <1>2, <1>3, <1>4, <1>6 DEF MarketPageGood
<1>8. options \in Market!Lists
  BY ListsAre DEF Market!Init
<1> QED
  BY <1>7, <1>8, PageInvIs

(* The route, the polls and the tab. *)
LEMMA PageNavigates ==
    ASSUME Market!ConstantsOK, MarketPageGood(page), options \in Market!Lists,
           NEW m \in Market!Markets, Market!Navigate(m)
    PROVE  MarketPageGood(page') /\ options' \in Market!Lists
<1> DEFINE f == Market!Fetch(m, FALSE, 0)
           g == Market!NoGroup
<1>1. page \in PageRec
  BY DEF MarketPageGood
<1>2. f \in FetchSet /\ FetchGood(f, m)
  BY FetchIs
<1>3. MembersGood(g, m, m)
  BY NoGroupGood
<1>4. /\ page' = [page EXCEPT !.url = m, !.address = m, !.details = None, !.error = FALSE,
                              !.fetch = f, !.group = g]
      /\ options' = options
  BY DEF Market!Navigate
<1> HIDE DEF f, g
<1>5. m \in Addresses /\ g \in GroupRec
  BY <1>3, PageSets DEF MembersGood
<1>6. /\ page' \in PageRec /\ page'.url = m /\ page'.address = m /\ page'.details = None
      /\ page'.fetch = f /\ page'.group = g
  BY <1>1, <1>2, <1>4, <1>5, PageSets DEF PageRec
<1>7. MarketPageGood(page')
  BY <1>2, <1>3, <1>6 DEF MarketPageGood
<1> QED
  BY <1>4, <1>7

LEMMA PageTicks ==
    ASSUME Market!ConstantsOK, MarketPageGood(page), options \in Market!Lists,
           Market!Poll \/ Market!SwitchTab \/ Market!Traded \/ Market!TagsAnswered \/ Market!GroupPoll
    PROVE  MarketPageGood(page') /\ options' \in Market!Lists
<1>1. /\ page \in PageRec /\ page.url \in Market!Markets /\ page.visible \in BOOLEAN
      /\ page.fetch \in FetchSet /\ FetchGood(page.fetch, page.url)
      /\ page.group \in GroupRec /\ MembersGood(page.group, page.url, page.address)
      /\ page.group.load \in HeldLists /\ page.group.poll \in HeldLists /\ page.group.loading \in BOOLEAN
  BY DEF MarketPageGood, PageRec, GroupRec
<1>2. options \in HeldLists
  BY PageSets
<1>3. CASE Market!Poll
  <2>1. page' = [page EXCEPT !.fetch = Market!Fetch(page.url, TRUE, 0)] /\ options' = options
    BY <1>3 DEF Market!Poll
  <2> QED
    BY <1>1, <2>1, FetchIs, SetFetch
<1>4. CASE Market!SwitchTab
  <2> DEFINE visible == ~page.visible
             f == IF page.visible \/ page.details = None THEN page.fetch ELSE Market!Fetch(page.url, TRUE, 0)
             poll == IF page.visible \/ Market!View # "market" THEN page.group.poll ELSE options
             g == [page.group EXCEPT !.load = page.group.load, !.poll = poll, !.loading = page.group.loading]
             p == [page EXCEPT !.visible = visible]
  <2>1. f \in FetchSet /\ FetchGood(f, page.url) /\ poll \in HeldLists /\ visible \in BOOLEAN
    BY <1>1, <1>2, FetchIs
  <2>2. /\ page' = [page EXCEPT !.visible = visible, !.fetch = f, !.group.poll = poll]
        /\ options' = options
    BY <1>4 DEF Market!SwitchTab
  <2> HIDE DEF visible, f, poll
  <2>3. [page.group EXCEPT !.poll = poll] = g
    BY <1>1 DEF GroupRec
  <2>4. MembersGood(g, page.url, page.address)
    BY <1>1, <2>1, SetLoads
  <2>5. page' = [page EXCEPT !.visible = visible, !.fetch = f, !.group = g]
    BY <1>1, <2>2, <2>3 DEF PageRec
  <2> HIDE DEF g
  <2>6. MarketPageGood(p) /\ p.url = page.url /\ p.address = page.address
    BY <1>1, <2>1 DEF MarketPageGood, PageRec
  <2>7. page' = [[p EXCEPT !.fetch = f] EXCEPT !.group = g]
    BY <1>1, <2>5 DEF PageRec
  <2> HIDE DEF p
  <2> DEFINE q == [p EXCEPT !.fetch = f]
  <2>8. MarketPageGood(q)
    BY <2>1, <2>6, SetFetch
  <2>9. q.url = page.url /\ q.address = page.address
    BY <2>6 DEF MarketPageGood, PageRec
  <2>10. page' = [q EXCEPT !.group = g]
    BY <2>7
  <2> HIDE DEF q
  <2> QED
    <3>1. MembersGood(g, q.url, q.address)
      BY <2>4, <2>9
    <3> HIDE DEF g
    <3>2. MarketPageGood([q EXCEPT !.group = g])
      BY <2>8, <3>1, SetGroup
    <3> QED
      BY <2>2, <2>10, <3>2
<1>5. CASE Market!Traded
  <2>1. page' = [page EXCEPT !.refetch = TRUE] /\ options' = options
    BY <1>5 DEF Market!Traded
  <2> QED
    BY <1>1, <2>1 DEF MarketPageGood, PageRec
<1>6. CASE Market!TagsAnswered
  <2>1. PICK result \in TagStates : page' = [page EXCEPT !.tags = result] /\ options' = options
    BY <1>6 DEF Market!TagsAnswered, TagStates
  <2> QED
    BY <1>1, <2>1 DEF MarketPageGood, PageRec
<1>7. CASE Market!GroupPoll
  <2> DEFINE g == [page.group EXCEPT !.load = page.group.load, !.poll = options, !.loading = page.group.loading]
  <2>1. page' = [page EXCEPT !.group.poll = options] /\ options' = options
    BY <1>7 DEF Market!GroupPoll
  <2>2. [page.group EXCEPT !.poll = options] = g
    BY <1>1 DEF GroupRec
  <2>3. MembersGood(g, page.url, page.address)
    BY <1>1, <1>2, SetLoads
  <2>4. page' = [page EXCEPT !.group = g]
    BY <1>1, <2>1, <2>2 DEF PageRec
  <2> HIDE DEF g
  <2> QED
    BY <2>1, <2>3, <2>4, SetGroup
<1> QED
  BY <1>3, <1>4, <1>5, <1>6, <1>7

(* The fetch of the market: its answer, its failures and its retries. *)
LEMMA PageFetches ==
    ASSUME Market!ConstantsOK, MarketPageGood(page), options \in Market!Lists,
           \/ Market!FetchSucceeded \/ Market!FetchTooMany \/ Market!RetryFires
           \/ Market!FetchFailed \/ Market!RefetchData
    PROVE  MarketPageGood(page') /\ options' \in Market!Lists
<1>1. /\ page \in PageRec /\ page.url \in Market!Markets
      /\ page.fetch \in FetchSet /\ FetchGood(page.fetch, page.url)
      /\ page.group \in GroupRec /\ MembersGood(page.group, page.url, page.address)
      /\ page.group.load \in HeldLists /\ page.group.poll \in HeldLists /\ page.group.loaded \in BOOLEAN
  BY DEF MarketPageGood, PageRec, GroupRec
<1>2. MarketPageGood(Market!Idle) /\ Market!Idle \in PageRec /\ Market!Idle.url = page.url
  <2>1. FetchGood(None, page.url) /\ None \in FetchSet
    BY PageSets DEF FetchGood
  <2>2. Market!Idle = [page EXCEPT !.fetch = None]
    BY DEF Market!Idle
  <2> QED
    BY <1>1, <2>1, <2>2, SetFetch DEF MarketPageGood, PageRec
<1>3. MarketPageGood(Market!Failed)
  <2> DEFINE p == [Market!Idle EXCEPT !.error = TRUE]
  <2>1. MarketPageGood(p)
    BY <1>2 DEF MarketPageGood, PageRec
  <2>2. Market!Failed = IF page.fetch.silent THEN Market!Idle ELSE Market!Mounted(p)
    BY DEF Market!Failed
  <2> HIDE DEF p
  <2> QED
    BY <1>2, <2>1, <2>2, MountedGood
<1>4. CASE Market!FetchSucceeded
  <2> DEFINE market == page.fetch.market
             p == [Market!Idle EXCEPT !.details = market]
  <2>1. page.fetch # None /\ page' = Market!Mounted(p) /\ options' = options
    BY <1>4 DEF Market!FetchSucceeded
  <2>2. market = page.url
    BY <1>1, <2>1 DEF FetchGood
  <2> HIDE DEF market
  <2>3. MarketPageGood(p)
    BY <1>1, <1>2, <2>2, PageSets DEF MarketPageGood, PageRec
  <2> HIDE DEF p
  <2> QED
    BY <2>1, <2>3, MountedGood
<1>5. CASE Market!FetchTooMany
  <2>1. /\ page.fetch # None /\ options' = options
        /\ page' = IF page.fetch.attempt < MaxAttempts THEN [page EXCEPT !.fetch.backoff = TRUE]
                   ELSE Market!Failed
    BY <1>5 DEF Market!FetchTooMany
  <2>2. ASSUME page.fetch.attempt < MaxAttempts
        PROVE  MarketPageGood([page EXCEPT !.fetch.backoff = TRUE])
    <3> DEFINE f == [page.fetch EXCEPT !.backoff = TRUE]
    <3>1. page.fetch \in Market!Fetches /\ page.fetch.market = page.url
      BY <1>1, <2>1, PageSets DEF FetchGood
    <3>2. f \in Market!Fetches /\ FetchGood(f, page.url)
      BY <2>2, <3>1 DEF Market!Fetches, FetchGood
    <3>3. [page EXCEPT !.fetch.backoff = TRUE] = [page EXCEPT !.fetch = f]
      BY <1>1 DEF PageRec
    <3> HIDE DEF f
    <3> QED
      BY <3>2, <3>3, SetFetch, PageSets
  <2> QED
    BY <1>3, <2>1, <2>2
<1>6. CASE Market!RetryFires
  <2> DEFINE attempt == page.fetch.attempt + 1
             f == [page.fetch EXCEPT !.attempt = attempt, !.backoff = FALSE]
  <2>1. /\ page.fetch # None /\ page.fetch.backoff /\ options' = options
        /\ page' = [page EXCEPT !.fetch.attempt = attempt, !.fetch.backoff = FALSE]
    BY <1>6 DEF Market!RetryFires
  <2>2. page.fetch \in Market!Fetches /\ page.fetch.market = page.url /\ page.fetch.attempt < MaxAttempts
    BY <1>1, <2>1, PageSets DEF FetchGood
  <2>3. attempt \in 0..MaxAttempts
    BY <2>2, PageSets DEF Market!Fetches
  <2> HIDE DEF attempt
  <2>4. f \in Market!Fetches /\ FetchGood(f, page.url)
    BY <2>2, <2>3 DEF Market!Fetches, FetchGood
  <2>5. page' = [page EXCEPT !.fetch = f]
    BY <1>1, <2>1, <2>2 DEF PageRec, Market!Fetches
  <2> HIDE DEF f
  <2> QED
    <3>1. f \in FetchSet
      BY <2>4, PageSets
    <3>2. MarketPageGood([page EXCEPT !.fetch = f])
      BY <2>4, <3>1, SetFetch
    <3> QED
      BY <2>1, <2>5, <3>2
<1>7. CASE Market!FetchFailed
  BY <1>3, <1>7 DEF Market!FetchFailed
<1>8. CASE Market!RefetchData
  <2> DEFINE f == Market!Fetch(page.url, FALSE, 0)
             load == IF Market!View = "market" THEN options ELSE page.group.load
             loading == ~page.group.loaded
             g == [page.group EXCEPT !.load = load, !.poll = page.group.poll, !.loading = loading]
             p == [page EXCEPT !.refetch = FALSE, !.error = FALSE, !.fetch = f,
                               !.group.load = load, !.group.loading = loading]
  <2>1. page' = Market!Mounted(p) /\ options' = options
    BY <1>8 DEF Market!RefetchData
  <2>2. f \in FetchSet /\ FetchGood(f, page.url) /\ load \in HeldLists /\ loading \in BOOLEAN
    BY <1>1, FetchIs, PageSets
  <2> HIDE DEF f, load, loading
  <2>3. [page.group EXCEPT !.load = load, !.loading = loading] = g
    BY <1>1 DEF GroupRec
  <2>4. MembersGood(g, page.url, page.address)
    BY <1>1, <2>2, SetLoads
  <2>5. p = [page EXCEPT !.refetch = FALSE, !.error = FALSE, !.fetch = f, !.group = g]
    <3>1. p = [page EXCEPT !.refetch = FALSE, !.error = FALSE, !.fetch = f,
                           !.group = [page.group EXCEPT !.load = load, !.loading = loading]]
      BY <1>1 DEF PageRec
    <3> QED
      BY <2>3, <3>1
  <2>6. g \in GroupRec
    BY <2>4 DEF MembersGood
  <2> HIDE DEF g, p
  <2>7. /\ p \in PageRec /\ p.url = page.url /\ p.address = page.address /\ p.details = page.details
        /\ p.fetch = f /\ p.group = g
    BY <1>1, <2>2, <2>5, <2>6 DEF PageRec
  <2>8. MarketPageGood(p)
    BY <2>2, <2>4, <2>7 DEF MarketPageGood
  <2> QED
    BY <2>1, <2>8, MountedGood
<1> QED
  BY <1>4, <1>5, <1>6, <1>7, <1>8

(* The options of the group: what a poll or a load brings, and what a failed load leaves. *)
LEMMA PageLists ==
    ASSUME Market!ConstantsOK, MarketPageGood(page), options \in Market!Lists,
           Market!GroupPollAnswered \/ Market!GroupLoaded \/ Market!GroupLoadFailed
    PROVE  MarketPageGood(page') /\ options' \in Market!Lists
<1> DEFINE old == page.group
<1>1. /\ page \in PageRec /\ page.url \in Market!Markets /\ old \in GroupRec
      /\ MembersGood(old, page.url, page.address) /\ old.load \in HeldLists /\ old.poll \in HeldLists
  BY DEF MarketPageGood, PageRec, GroupRec
<1>2. CASE Market!GroupPollAnswered
  <2>1. PICK ok \in BOOLEAN :
            page' = [page EXCEPT !.group =
                        [(IF ok THEN Market!WithOptions(@, page.group.poll) ELSE @) EXCEPT !.poll = None]]
    BY <1>2 DEF Market!GroupPollAnswered
  <2> DEFINE g == IF ok THEN Market!WithOptions(old, old.poll) ELSE old
             h == [g EXCEPT !.load = g.load, !.poll = None, !.loading = g.loading]
  <2>2. old.poll \in Market!Lists /\ options' = options
    BY <1>1, <1>2, PageSets DEF Market!GroupPollAnswered
  <2>3. MembersGood(g, page.url, page.address)
    BY <1>1, <2>2, WithOptionsGood
  <2>4. page' = [page EXCEPT !.group = [g EXCEPT !.poll = None]]
    BY <2>1
  <2> HIDE DEF g
  <2>5. g \in GroupRec /\ g.load \in HeldLists /\ g.loading \in BOOLEAN /\ None \in HeldLists
    BY <2>3, PageSets DEF MembersGood, GroupRec
  <2>6. [g EXCEPT !.poll = None] = h
    BY <2>5 DEF GroupRec
  <2>7. MembersGood(h, page.url, page.address)
    BY <2>3, <2>5, SetLoads
  <2>8. page' = [page EXCEPT !.group = h]
    BY <2>4, <2>6
  <2> HIDE DEF h
  <2> QED
    BY <2>2, <2>7, <2>8, SetGroup
<1>3. CASE Market!GroupLoaded
  <2> DEFINE g == Market!WithOptions(old, old.load)
             h == [g EXCEPT !.load = None, !.loading = FALSE, !.loaded = TRUE]
  <2>1. page' = [page EXCEPT !.group = h] /\ old.load # None /\ options' = options
    BY <1>3 DEF Market!GroupLoaded
  <2>2. old.load \in Market!Lists /\ old.load # <<>>
    BY <1>1, <2>1, PageSets, ListsAre
  <2>3. MembersGood(g, page.url, page.address) /\ g.options # <<>>
    BY <1>1, <2>2, WithOptionsGood
  <2> HIDE DEF g
  <2>4. MembersGood(h, page.url, page.address)
    BY <2>3, PageSets DEF MembersGood, GroupRec
  <2> HIDE DEF h
  <2> QED
    BY <2>1, <2>4, SetGroup
<1>4. CASE Market!GroupLoadFailed
  <2> DEFINE g == [old EXCEPT !.load = None, !.loading = FALSE]
             zero == 0
             none == <<>>
             h == [g EXCEPT !.options = none, !.urlIdx = zero, !.chosen = None]
             new == IF g.loaded THEN g ELSE h
  <2>1. page' = [page EXCEPT !.group = new] /\ options' = options
    BY <1>4 DEF Market!GroupLoadFailed
  <2>2. MembersGood(g, page.url, page.address)
    BY <1>1, PageSets DEF MembersGood, GroupRec
  <2>3. zero \in UrlPlaces /\ none \in ShownLists /\ None \in Chosen /\ zero = Market!IndexIn(none, page.url)
    BY <1>1, PageSets, PlaceIn
  <2> HIDE DEF g, zero, none
  <2>4. ~g.loaded => MembersGood(h, page.url, page.address)
    BY <2>2, <2>3 DEF MembersGood, GroupRec
  <2>5. MembersGood(new, page.url, page.address)
    BY <2>2, <2>4
  <2> HIDE DEF new
  <2> QED
    BY <2>1, <2>5, SetGroup
<1> QED
  BY <1>2, <1>3, <1>4

(* The option the user picks is a place of the options on screen. *)
LEMMA PagePicks ==
    ASSUME Market!ConstantsOK, MarketPageGood(page), options \in Market!Lists,
           NEW i, Market!SelectIdx(i) \/ Market!PickActivity(i)
    PROVE  MarketPageGood(page') /\ options' \in Market!Lists
<1> DEFINE old == page.group
           answer == old.options[i]
<1>1. /\ page \in PageRec /\ old \in GroupRec /\ MembersGood(old, page.url, page.address)
      /\ old.options \in ShownLists /\ i \in DOMAIN old.options /\ options' = options
  BY DEF MarketPageGood, PageRec, GroupRec, Market!SelectIdx, Market!PickActivity
<1>2. old.options \in Market!Lists
  BY <1>1 DEF ShownLists
<1>3. i \in Market!Places /\ answer \in Addresses /\ answer \in Chosen /\ answer # None
  BY <1>1, <1>2, ListsAre, PageSets
<1>4. CASE Market!SelectIdx(i)
  <2> DEFINE g == [old EXCEPT !.selected = i, !.activity = i, !.chosen = answer]
             p == [page EXCEPT !.address = answer]
  <2>1. page' = [page EXCEPT !.group.selected = i, !.group.activity = i, !.group.chosen = answer,
                             !.address = answer]
    BY <1>4 DEF Market!SelectIdx
  <2>2. answer = old.options[i]
    OBVIOUS
  <2> HIDE DEF answer
  <2>3. page' = [page EXCEPT !.group = g, !.address = answer]
    BY <1>1, <2>1 DEF PageRec
  <2> HIDE DEF old
  <2>4. MembersGood(g, page.url, answer)
    BY <1>1, <1>3, <2>2 DEF MembersGood, GroupRec
  <2>5. g \in GroupRec
    BY <2>4 DEF MembersGood
  <2> HIDE DEF g
  <2>6. /\ page' \in PageRec /\ page'.url = page.url /\ page'.address = answer
        /\ page'.details = page.details /\ page'.fetch = page.fetch /\ page'.group = g
    BY <1>1, <1>3, <2>3, <2>5 DEF PageRec
  <2>7. MarketPageGood(page')
    BY <2>4, <2>6 DEF MarketPageGood
  <2> QED
    BY <1>1, <2>7
<1>5. CASE Market!PickActivity(i)
  <2> DEFINE g == [old EXCEPT !.activity = i]
  <2>1. page' = [page EXCEPT !.group = g]
    BY <1>1, <1>5 DEF Market!PickActivity, PageRec
  <2>2. MembersGood(g, page.url, page.address)
    BY <1>1, <1>3 DEF MembersGood, GroupRec
  <2> HIDE DEF g
  <2> QED
    BY <1>1, <2>1, <2>2, SetGroup
<1> QED
  BY <1>4, <1>5

LEMMA PageNextInv ==
    ASSUME Market!ConstantsOK, Market!PageInv, [Market!Next]_<<page, options>>
    PROVE  Market!PageInv'
<1>1. MarketPageGood(page) /\ options \in Market!Lists
  BY PageInvIs
<1>2. CASE UNCHANGED <<page, options>>
  BY <1>1, <1>2, PageInvIsNext
<1>3. CASE \E m \in Market!Markets : Market!Navigate(m)
  BY <1>1, <1>3, PageNavigates, PageInvIsNext
<1>4. CASE Market!Poll \/ Market!SwitchTab \/ Market!Traded \/ Market!TagsAnswered \/ Market!GroupPoll
  BY <1>1, <1>4, PageTicks, PageInvIsNext
<1>5. CASE \/ Market!FetchSucceeded \/ Market!FetchTooMany \/ Market!RetryFires
           \/ Market!FetchFailed \/ Market!RefetchData
  BY <1>1, <1>5, PageFetches, PageInvIsNext
<1>6. CASE Market!GroupPollAnswered \/ Market!GroupLoaded \/ Market!GroupLoadFailed
  BY <1>1, <1>6, PageLists, PageInvIsNext
<1>7. CASE \E i \in 1..(Len(TheOptions) + 1) : Market!SelectIdx(i) \/ Market!PickActivity(i)
  BY <1>1, <1>7, PagePicks, PageInvIsNext
<1>8. CASE Market!AnswerAdded
  <2>1. page' = page /\ options' = <<0>> \o TheOptions
    BY <1>8 DEF Market!AnswerAdded
  <2> QED
    BY <1>1, <2>1, ListsAre, PageInvIsNext
<1> QED
  BY <1>2, <1>3, <1>4, <1>5, <1>6, <1>7, <1>8 DEF Market!Next
-----------------------------------------------------------------------------
(* The lists of what was done.                                               *)
ViewFits(v, f) ==
    /\ v \in Feed!ViewType
    /\ v.status = "ready" =>
           /\ v.rows # None /\ v.rows.market = f.market
           /\ v.rows.page = IF Feed!Paged(f) THEN v.page ELSE None
    /\ v.status = "loading" => (v.fetch = Feed!Loud \/ v.replaced)

FeedGood(f) ==
    /\ f \in Feed!FeedType
    /\ f.view # None => (Feed!Paged(f) \/ Feed!Whole(f)) /\ ViewFits(f.view, f)
    /\ (f.view = None /\ (Feed!Paged(f) \/ Feed!Whole(f))) => f.labelled # f.language

LedgerGood(l) == l \in [Followed -> [bets : Feed!Pages, positions : Feed!Pages]]

OutOfSight(l) == l.kind = "positions" /\ ~l.token

ListGood(l) ==
    /\ l \in Feed!ListType
    /\ OutOfSight(l) => l.load = None /\ l.rows = None
    /\ l.load # None => ~l.failed
    /\ l.failed => l.rows = None
    /\ (~l.effect /\ l.load # None) => l.load = [page |-> l.page, trigger |-> l.trigger]
    /\ (~l.effect /\ l.load = None /\ l.rows # None /\ (l.trigger = 0 \/ l.page = 0)) =>
           (l.rows.page = l.page /\ l.rows.trigger = l.trigger)

LEMMA FeedConstants ==
    ASSUME Feed!ConstantsOK
    PROVE  /\ MaxListed \in Nat /\ MaxListed > 0 /\ MaxPage \in Nat /\ MaxRefreshes \in Nat
           /\ None \notin Feed!Cuts /\ None \notin Feed!ViewType /\ None \notin Feed!Turns
           /\ None \notin Feed!Rows /\ None # Feed!Loud /\ None # Feed!Silent /\ None \notin Nat
           /\ None \notin Feed!ListType /\ None \notin Feed!FeedType /\ Feed!Loud # Feed!Silent
<1>1. Feed!Loud # Feed!Silent
  <2>1. Feed!Loud.silent = FALSE /\ Feed!Silent.silent = TRUE
    BY DEF Feed!Loud, Feed!Silent
  <2> QED
    BY <2>1
<1> QED
  BY <1>1 DEF Feed!ConstantsOK

(* A list of a page stands empty only past its last row. *)
LEMMA EmptyPastTheLast ==
    ASSUME Feed!ConstantsOK, FeedGood(ui), ui.view # None,
           Feed!Shows = "empty", ui.view.rows.total > 0
    PROVE  ui.view.page > 0
<1>1. ui.view \in Feed!ViewType /\ ViewFits(ui.view, ui)
  BY DEF FeedGood, ViewFits
<1>2. ui.view.status \in {"loading", "ready", "error"} /\ ui.view.page \in Feed!Pages
  BY <1>1 DEF Feed!ViewType
<1>3. ui.view.status = "ready" /\ Feed!RowsOnPage = 0
  BY <1>2 DEF Feed!Shows, Feed!View
<1>4. ui.view.rows # None /\ ui.view.rows.page = IF Feed!Paged(ui) THEN ui.view.page ELSE None
  BY <1>1, <1>3 DEF ViewFits
<1>5. ~(ui.view.rows.total > ui.view.page)
  BY <1>3, <1>4 DEF Feed!RowsOnPage, Feed!View
<1>6. ui.view.rows.total \in Nat /\ ui.view.page \in Nat
  BY <1>1, <1>2, <1>4 DEF Feed!ViewType, Feed!Cuts, Feed!Pages
<1> QED
  BY <1>5, <1>6

LEMMA FeedInvIs ==
    ASSUME Feed!ConstantsOK, Feed!FeedInv
    PROVE  /\ ui # None => FeedGood(ui) /\ LedgerGood(second)
           /\ third # None => ListGood(third)
<1>1. ui # None => FeedGood(ui) /\ LedgerGood(second)
  BY DEF Feed!FeedInv, Feed!TypeOK, Feed!FeedRows, Feed!EmptyOnlyIf, Feed!Listed, Feed!View,
     Feed!Blank, Feed!FeedType, FeedGood, ViewFits, LedgerGood
<1>2. third # None => ListGood(third)
  BY DEF Feed!FeedInv, Feed!TypeOK, Feed!LoadIsCurrent, Feed!LoggedOut, ListGood, OutOfSight
<1> QED
  BY <1>1, <1>2

LEMMA FeedFrom ==
    ASSUME Feed!ConstantsOK, ui # None => FeedGood(ui) /\ LedgerGood(second),
           third # None => ListGood(third)
    PROVE  Feed!FeedInv /\ Feed!ListIsCurrent /\ Feed!RowsOfThePage
<1>1. third # None => (Feed!Header.next => Feed!RowsShown) /\ (third.failed => ~Feed!RowsShown)
  <2> SUFFICES ASSUME third # None
               PROVE  /\ third.rows # None => Feed!RowsShown
                      /\ third.rows = None => ~Feed!RowsShown
                      /\ third.failed => third.rows = None
                      /\ Feed!Header.next = (third.rows # None /\ third.rows.more)
    OBVIOUS
  <2>1. third \in Feed!ListType /\ third.kind \in Feed!Kinds
    BY DEF ListGood, Feed!ListType
  <2> QED
    BY <2>1 DEF ListGood, OutOfSight, Feed!Header, Feed!HasNextPage, Feed!RowsShown, Feed!BetsShown,
       Feed!PositionRowsShown, Feed!LeaderboardShown, Feed!Kinds
<1>2. Feed!TypeOK
  BY <1>1 DEF Feed!TypeOK, FeedGood, LedgerGood, ListGood
<1>3. Feed!FeedRows
  BY DEF Feed!FeedRows, Feed!Listed, Feed!View, FeedGood, ViewFits
<1>4. Feed!EmptyOnlyIf
  BY EmptyPastTheLast DEF Feed!EmptyOnlyIf, Feed!Listed, Feed!View, Feed!Blank, FeedGood
<1>5. Feed!LoadIsCurrent
  BY DEF Feed!LoadIsCurrent, Feed!LoggedOut, ListGood, OutOfSight
<1>6. Feed!ListIsCurrent
  <2> SUFFICES ASSUME ui # None, ui.view # None
               PROVE  /\ ui.view.status = "ready" =>
                             ui.view.rows.market = ui.market /\ ui.view.rows.page \in {None, ui.view.page}
                      /\ ui.view.status = "loading" /\ ui.view.fetch = None => ui.view.replaced
    BY DEF Feed!ListIsCurrent, Feed!Listed, Feed!View
  <2> QED
    BY FeedConstants DEF FeedGood, ViewFits
<1>7. Feed!RowsOfThePage
  <2>1. Feed!RowsShown => third.rows # None
    BY DEF Feed!RowsShown, Feed!BetsShown, Feed!PositionRowsShown, Feed!LeaderboardShown
  <2> QED
    BY <2>1 DEF Feed!RowsOfThePage, Feed!Header, ListGood
<1> QED
  BY <1>2, <1>3, <1>4, <1>5, <1>6, <1>7 DEF Feed!FeedInv

LEMMA EmptyPastTheLastNext ==
    ASSUME Feed!ConstantsOK, FeedGood(ui'), ui'.view # None,
           Feed!Shows' = "empty", ui'.view.rows.total > 0
    PROVE  ui'.view.page > 0
<1>1. ui'.view \in Feed!ViewType /\ ViewFits(ui'.view, ui')
  BY DEF FeedGood, ViewFits
<1>2. ui'.view.status \in {"loading", "ready", "error"} /\ ui'.view.page \in Feed!Pages
  BY <1>1 DEF Feed!ViewType
<1>3. ui'.view.status = "ready" /\ Feed!RowsOnPage' = 0
  BY <1>2 DEF Feed!Shows, Feed!View
<1>4. ui'.view.rows # None /\ ui'.view.rows.page = IF Feed!Paged(ui') THEN ui'.view.page ELSE None
  BY <1>1, <1>3 DEF ViewFits
<1>5. ~(ui'.view.rows.total > ui'.view.page)
  BY <1>3, <1>4 DEF Feed!RowsOnPage, Feed!View, Feed!Paged
<1>6. ui'.view.rows.total \in Nat /\ ui'.view.page \in Nat
  BY <1>1, <1>2, <1>4 DEF Feed!ViewType, Feed!Cuts, Feed!Pages
<1> QED
  BY <1>5, <1>6

LEMMA FeedFromNext ==
    ASSUME Feed!ConstantsOK, ui' # None => FeedGood(ui') /\ LedgerGood(second'),
           third' # None => ListGood(third')
    PROVE  Feed!FeedInv'
<1>1. third' # None => (Feed!Header.next' => Feed!RowsShown') /\ (third'.failed => ~Feed!RowsShown')
  <2> SUFFICES ASSUME third' # None
               PROVE  /\ third'.rows # None => Feed!RowsShown'
                      /\ third'.rows = None => ~Feed!RowsShown'
                      /\ third'.failed => third'.rows = None
                      /\ Feed!Header.next' = (third'.rows # None /\ third'.rows.more)
    OBVIOUS
  <2>1. third' \in Feed!ListType /\ third'.kind \in Feed!Kinds
    BY DEF ListGood, Feed!ListType
  <2> QED
    BY <2>1 DEF ListGood, OutOfSight, Feed!Header, Feed!HasNextPage, Feed!RowsShown, Feed!BetsShown,
       Feed!PositionRowsShown, Feed!LeaderboardShown, Feed!Kinds
<1>2. Feed!TypeOK'
  BY <1>1 DEF Feed!TypeOK, FeedGood, LedgerGood, ListGood
<1>3. Feed!FeedRows'
  BY DEF Feed!FeedRows, Feed!Listed, Feed!View, FeedGood, ViewFits, Feed!Paged, Feed!Whole
<1>4. Feed!EmptyOnlyIf'
  BY EmptyPastTheLastNext DEF Feed!EmptyOnlyIf, Feed!Listed, Feed!View, Feed!Blank, FeedGood,
     Feed!Paged, Feed!Whole
<1>5. Feed!LoadIsCurrent'
  BY DEF Feed!LoadIsCurrent, Feed!LoggedOut, ListGood, OutOfSight
<1> QED
  BY <1>2, <1>3, <1>4, <1>5 DEF Feed!FeedInv

LEMMA FeedInitInv == Feed!ConstantsOK /\ Feed!Init => Feed!FeedInv
<1> SUFFICES ASSUME Feed!ConstantsOK, Feed!Init
             PROVE  Feed!FeedInv
  OBVIOUS
<1>1. CASE Feed!FeedInit /\ third = None
  <2>1. PICK m \in Followed, token \in BOOLEAN, l \in Languages :
            ui = [market |-> m, token |-> token, language |-> l, tab |-> "comments", labelled |-> l,
                  view |-> None, comments |-> <<>>, sort |-> "recent"]
    BY <1>1 DEF Feed!FeedInit
  <2> DEFINE comments == <<>>
  <2>2. comments \in {<<>>, <<FALSE>>, <<TRUE>>}
    OBVIOUS
  <2>3. ui = [market |-> m, token |-> token, language |-> l, tab |-> "comments", labelled |-> l,
              view |-> None, comments |-> comments, sort |-> "recent"]
    BY <2>1
  <2> HIDE DEF comments
  <2>4. ui \in Feed!FeedType /\ ui.view = None /\ ui.tab = "comments"
    BY <2>2, <2>3 DEF Feed!FeedType, Feed!Tabs
  <2>5. FeedGood(ui)
    BY <2>4 DEF FeedGood, Feed!Paged, Feed!Whole
  <2>6. LedgerGood(second)
    BY <1>1, FeedConstants DEF Feed!FeedInit, LedgerGood, Feed!Pages
  <2> QED
    BY <1>1, <2>5, <2>6, FeedFrom
<1>2. CASE Feed!ListInit /\ ui = None /\ second = None
  <2>1. PICK kind \in Feed!Kinds, token \in BOOLEAN : third = Feed!Opened(kind, 0, token)
    BY <1>2 DEF Feed!ListInit
  <2>2. ListGood(third)
    BY <2>1, FeedConstants DEF ListGood, OutOfSight, Feed!Opened, Feed!ListType
  <2> QED
    BY <1>2, <2>2, FeedFrom
<1> QED
  BY <1>1, <1>2 DEF Feed!Init

(* A tab is mounted. *)
LEMMA MountedIsGood ==
    ASSUME Feed!ConstantsOK, NEW f \in Feed!FeedType
    PROVE  FeedGood(Feed!Mounted(f))
<1> DEFINE zero == 0
           fresh == Feed!Fresh
           view == IF Feed!Paged(f) \/ Feed!Whole(f) THEN fresh ELSE None
           comments == <<>>
           g == Feed!Mounted(f)
<1>1. zero \in Feed!Pages
  BY FeedConstants DEF Feed!Pages
<1>2. fresh = [page |-> zero, rows |-> None, status |-> "loading", fetch |-> Feed!Loud, replaced |-> FALSE]
  BY DEF Feed!Fresh
<1> HIDE DEF zero, fresh
<1>3. fresh \in Feed!ViewType /\ fresh.status = "loading" /\ fresh.fetch = Feed!Loud
  BY <1>1, <1>2 DEF Feed!ViewType
<1>4. comments \in {<<>>, <<FALSE>>, <<TRUE>>} /\ view \in Feed!ViewType \union {None}
  BY <1>3
<1>5. g = [f EXCEPT !.view = view, !.comments = comments, !.sort = "recent"]
  BY DEF Feed!Mounted, fresh
<1>6. (view # None) <=> (Feed!Paged(f) \/ Feed!Whole(f))
  BY <1>3, FeedConstants
<1>7. view # None => view = fresh
  OBVIOUS
<1> HIDE DEF view, comments, g
<1>8. /\ g \in Feed!FeedType /\ g.view = view /\ g.tab = f.tab /\ g.token = f.token
  BY <1>4, <1>5 DEF Feed!FeedType
<1>9. FeedGood(g)
  BY <1>3, <1>6, <1>7, <1>8 DEF FeedGood, ViewFits, Feed!Paged, Feed!Whole
<1> QED
  BY <1>9 DEF g

(* The view changes, and perhaps the market, whose rows are then fetched again. *)
LEMMA ViewChanges ==
    ASSUME Feed!ConstantsOK, FeedGood(ui), ui.view # None, NEW market \in Followed, NEW v,
           v \in Feed!ViewType,
           v.status = "ready" =>
               /\ market = ui.market /\ v.rows # None /\ v.rows.market = ui.market
               /\ v.rows.page = IF Feed!Paged(ui) THEN v.page ELSE None,
           v.status = "loading" => (v.fetch = Feed!Loud \/ v.replaced),
           ui' = [ui EXCEPT !.market = market, !.view = v]
    PROVE  FeedGood(ui')
<1>1. ui \in Feed!FeedType /\ (Feed!Paged(ui) \/ Feed!Whole(ui))
  BY DEF FeedGood
<1>2. /\ ui' \in Feed!FeedType /\ ui'.view = v /\ ui'.market = market
      /\ ui'.tab = ui.tab /\ ui'.token = ui.token
  BY <1>1 DEF Feed!FeedType
<1>3. v # None
  BY FeedConstants
<1> QED
  BY <1>1, <1>2, <1>3 DEF FeedGood, ViewFits, Feed!Paged, Feed!Whole

LEMMA ViewOnlyChanges ==
    ASSUME Feed!ConstantsOK, FeedGood(ui), ui.view # None, NEW v,
           v \in Feed!ViewType,
           v.status = "ready" =>
               /\ v.rows # None /\ v.rows.market = ui.market
               /\ v.rows.page = IF Feed!Paged(ui) THEN v.page ELSE None,
           v.status = "loading" => (v.fetch = Feed!Loud \/ v.replaced),
           ui' = [ui EXCEPT !.view = v]
    PROVE  FeedGood(ui')
<1>1. ui \in Feed!FeedType /\ (Feed!Paged(ui) \/ Feed!Whole(ui))
  BY DEF FeedGood
<1>2. /\ ui' \in Feed!FeedType /\ ui'.view = v /\ ui'.market = ui.market
      /\ ui'.tab = ui.tab /\ ui'.token = ui.token
  BY <1>1 DEF Feed!FeedType
<1>3. v # None
  BY FeedConstants
<1> QED
  BY <1>1, <1>2, <1>3 DEF FeedGood, ViewFits, Feed!Paged, Feed!Whole

(* A fetch is started for a page. *)
LEMMA StartedIs ==
    ASSUME NEW v \in Feed!ViewType, NEW number \in Feed!Pages
    PROVE  LET s == Feed!Started([v EXCEPT !.page = number])
           IN  s \in Feed!ViewType /\ s.status = "loading" /\ s.fetch = Feed!Loud
<1> DEFINE turned == [v EXCEPT !.page = number]
<1>1. turned \in Feed!ViewType
  BY DEF Feed!ViewType
<1> HIDE DEF turned
<1>2. LET s == Feed!Started(turned)
      IN  s \in Feed!ViewType /\ s.status = "loading" /\ s.fetch = Feed!Loud
  BY <1>1 DEF Feed!Started, Feed!ViewType
<1> QED
  BY <1>2 DEF turned

LEMMA FeedMounts ==
    ASSUME Feed!ConstantsOK, FeedGood(ui),
           \/ \E t \in Feed!Tabs : Feed!SelectTab(t)
           \/ \E l \in Languages : Feed!SwitchLanguage(l)
    PROVE  FeedGood(ui') /\ second' = second
<1>1. ui \in Feed!FeedType
  BY DEF FeedGood
<1>2. CASE \E t \in Feed!Tabs : Feed!SelectTab(t)
  <2>1. PICK t \in Feed!Tabs : Feed!SelectTab(t)
    BY <1>2
  <2>2. [ui EXCEPT !.tab = t, !.labelled = ui.language] \in Feed!FeedType
    BY <1>1 DEF Feed!FeedType
  <2> QED
    BY <2>1, <2>2, MountedIsGood DEF Feed!SelectTab, Feed!Feed
<1>3. CASE \E l \in Languages : Feed!SwitchLanguage(l)
  <2>1. PICK l \in Languages : Feed!SwitchLanguage(l)
    BY <1>3
  <2>2. [ui EXCEPT !.language = l] \in Feed!FeedType
    BY <1>1 DEF Feed!FeedType
  <2>3. CASE l = ui.labelled
    BY <2>1, <2>2, <2>3, MountedIsGood DEF Feed!SwitchLanguage, Feed!Feed
  <2>4. CASE l # ui.labelled
    <3> DEFINE comments == <<>>
    <3>1. comments \in {<<>>, <<FALSE>>, <<TRUE>>}
      OBVIOUS
    <3>2. ui' = [ui EXCEPT !.language = l, !.view = None, !.comments = comments] /\ second' = second
      BY <2>1, <2>4 DEF Feed!SwitchLanguage, Feed!Feed
    <3> HIDE DEF comments
    <3>3. ui' \in Feed!FeedType /\ ui'.view = None /\ ui'.language = l /\ ui'.labelled = ui.labelled
      BY <1>1, <3>1, <3>2 DEF Feed!FeedType
    <3> QED
      BY <2>4, <3>2, <3>3 DEF FeedGood
  <2> QED
    BY <2>3, <2>4
<1> QED
  BY <1>2, <1>3

LEMMA FeedFetches ==
    ASSUME Feed!ConstantsOK, FeedGood(ui), LedgerGood(second),
           Feed!Traded \/ Feed!LiveTick \/ Feed!FetchAnswered \/ Feed!FetchFailed
           \/ Feed!NextPage \/ Feed!PrevPage
    PROVE  FeedGood(ui') /\ second' = second
<1>1. /\ ui \in Feed!FeedType /\ ui.view # None /\ ui.view \in Feed!ViewType /\ second' = second
      /\ ViewFits(ui.view, ui) /\ ui.market \in Followed
  BY DEF FeedGood, ViewFits, Feed!FeedType, Feed!Traded, Feed!LiveTick, Feed!FetchAnswered,
     Feed!FetchFailed, Feed!NextPage, Feed!PrevPage, Feed!Listed, Feed!View, Feed!Feed, Feed!Paging
<1>2. /\ ui.view.page \in Feed!Pages /\ MaxListed \in Nat /\ ui.view.fetch \in {None, Feed!Loud, Feed!Silent}
      /\ ui.view.replaced \in BOOLEAN
      /\ ui.view.status \in {"loading", "ready", "error"} /\ None # Feed!Loud /\ None # Feed!Silent
      /\ Feed!Loud # Feed!Silent /\ None \notin Feed!Cuts
  BY <1>1, FeedConstants DEF Feed!ViewType
<1>3. CASE Feed!Traded
  <2> DEFINE zero == 0
             v == Feed!Started([ui.view EXCEPT !.page = zero])
  <2>1. zero \in Feed!Pages
    BY <1>2 DEF Feed!Pages
  <2>2. ui' = [ui EXCEPT !.view = v]
    BY <1>3 DEF Feed!Traded, Feed!Feed
  <2> HIDE DEF zero
  <2>3. v \in Feed!ViewType /\ v.status = "loading" /\ v.fetch = Feed!Loud
    BY <1>1, <2>1, StartedIs
  <2> HIDE DEF v
  <2> QED
    BY <1>1, <2>2, <2>3, ViewOnlyChanges
<1>4. CASE Feed!LiveTick
  <2> DEFINE fetch == IF ui.tab = "bets" /\ ui.view.page # 0 THEN None ELSE Feed!Silent
             replaced == ui.view.replaced \/ ui.view.fetch = Feed!Loud
             v == [ui.view EXCEPT !.fetch = fetch, !.replaced = replaced]
  <2>1. fetch \in {None, Feed!Loud, Feed!Silent} /\ replaced \in BOOLEAN
    BY <1>2
  <2>2. ui' = [ui EXCEPT !.view = v]
    BY <1>4 DEF Feed!LiveTick, Feed!Feed, Feed!View
  <2>3. ui.view.status = "loading" => replaced
    BY <1>1 DEF ViewFits
  <2> HIDE DEF fetch, replaced
  <2>4. /\ v \in Feed!ViewType /\ v.status = ui.view.status /\ v.rows = ui.view.rows
        /\ v.page = ui.view.page /\ v.replaced = replaced
    BY <1>1, <2>1 DEF Feed!ViewType
  <2> HIDE DEF v
  <2>5. v.status = "ready" =>
            /\ v.rows # None /\ v.rows.market = ui.market
            /\ v.rows.page = IF Feed!Paged(ui) THEN v.page ELSE None
    BY <1>1, <2>4 DEF ViewFits
  <2> QED
    BY <1>1, <2>2, <2>3, <2>4, <2>5, ViewOnlyChanges
<1>5. CASE Feed!FetchAnswered
  <2> DEFINE number == IF Feed!Paged(ui) THEN ui.view.page ELSE None
             total == Feed!Total
             rows == [market |-> ui.market, page |-> number, total |-> total]
             v == [ui.view EXCEPT !.fetch = None, !.status = "ready", !.replaced = FALSE, !.rows = rows]
  <2>1. number \in Feed!Pages \union {None}
    BY <1>2
  <2>2. total \in Feed!Pages
    <3>1. second[ui.market] \in [bets : Feed!Pages, positions : Feed!Pages]
      BY <1>1 DEF LedgerGood
    <3> QED
      BY <3>1 DEF Feed!Total
  <2>3. ui' = [ui EXCEPT !.view = v]
    BY <1>5 DEF Feed!FetchAnswered, Feed!Feed, Feed!View
  <2> HIDE DEF number, total
  <2>4. rows \in Feed!Cuts /\ rows.market = ui.market /\ rows.page = number
    BY <1>1, <2>1, <2>2 DEF Feed!Cuts
  <2> HIDE DEF rows
  <2>5. v \in Feed!ViewType /\ v.status = "ready" /\ v.rows = rows /\ v.page = ui.view.page
    BY <1>1, <2>4 DEF Feed!ViewType
  <2> HIDE DEF v
  <2>6. /\ v.rows # None /\ v.rows.market = ui.market
        /\ v.rows.page = IF Feed!Paged(ui) THEN v.page ELSE None
    BY <1>2, <2>4, <2>5 DEF number
  <2>7. v.status # "loading"
    BY <2>5
  <2> QED
    BY <1>1, <2>3, <2>5, <2>6, <2>7, ViewOnlyChanges
<1>6. CASE Feed!FetchFailed
  <2> DEFINE status == IF ui.view.fetch = Feed!Loud THEN "error" ELSE ui.view.status
             v == [ui.view EXCEPT !.fetch = None, !.status = status]
  <2>1. /\ status \in {"loading", "ready", "error"}
        /\ status = "loading" => ui.view.replaced
        /\ status = "ready" => ui.view.status = "ready"
    BY <1>1, <1>2 DEF ViewFits
  <2>2. ui' = [ui EXCEPT !.view = v]
    BY <1>6 DEF Feed!FetchFailed, Feed!Feed, Feed!View
  <2> HIDE DEF status
  <2>3. /\ v \in Feed!ViewType /\ v.status = status /\ v.rows = ui.view.rows
        /\ v.page = ui.view.page /\ v.replaced = ui.view.replaced
    BY <1>1, <2>1 DEF Feed!ViewType
  <2> HIDE DEF v
  <2>4. v.status = "ready" =>
            /\ v.rows # None /\ v.rows.market = ui.market
            /\ v.rows.page = IF Feed!Paged(ui) THEN v.page ELSE None
    BY <1>1, <2>1, <2>3 DEF ViewFits
  <2> QED
    BY <1>1, <2>1, <2>2, <2>3, <2>4, ViewOnlyChanges
<1>7. ASSUME NEW number \in Feed!Pages, Feed!Paging(number)
      PROVE  FeedGood(ui')
  <2>1. CASE Feed!Paged(ui)
    <3> DEFINE v == Feed!Started([ui.view EXCEPT !.page = number])
    <3>1. ui' = [ui EXCEPT !.view = v]
      BY <1>7, <2>1 DEF Feed!Paging, Feed!Feed
    <3>2. v \in Feed!ViewType /\ v.status = "loading" /\ v.fetch = Feed!Loud
      BY <1>1, StartedIs
    <3> HIDE DEF v
    <3> QED
      BY <1>1, <3>1, <3>2, ViewOnlyChanges
  <2>2. CASE ~Feed!Paged(ui)
    <3> DEFINE v == [ui.view EXCEPT !.page = number]
    <3>1. ui' = [ui EXCEPT !.view = v]
      BY <1>7, <2>2 DEF Feed!Paging, Feed!Feed
    <3>2. /\ v \in Feed!ViewType /\ v.status = ui.view.status /\ v.rows = ui.view.rows
          /\ v.replaced = ui.view.replaced /\ v.fetch = ui.view.fetch
      BY <1>1 DEF Feed!ViewType
    <3> HIDE DEF v
    <3>3. v.status = "ready" =>
              /\ v.rows # None /\ v.rows.market = ui.market
              /\ v.rows.page = IF Feed!Paged(ui) THEN v.page ELSE None
      BY <1>1, <2>2, <3>2 DEF ViewFits
    <3>4. v.status = "loading" => (v.fetch = Feed!Loud \/ v.replaced)
      BY <1>1, <3>2 DEF ViewFits
    <3> QED
      BY <1>1, <3>1, <3>2, <3>3, <3>4, ViewOnlyChanges
  <2> QED
    BY <2>1, <2>2
<1>8. CASE Feed!NextPage
  <2>1. ui.view.page < MaxListed /\ Feed!Paging(ui.view.page + 1)
    BY <1>8 DEF Feed!NextPage, Feed!View
  <2>2. ui.view.page + 1 \in Feed!Pages
    BY <1>2, <2>1 DEF Feed!Pages
  <2> QED
    BY <1>1, <1>7, <2>1, <2>2
<1>9. CASE Feed!PrevPage
  <2>1. ui.view.page > 0 /\ Feed!Paging(ui.view.page - 1)
    BY <1>9 DEF Feed!PrevPage, Feed!View
  <2>2. ui.view.page - 1 \in Feed!Pages
    BY <1>2, <2>1 DEF Feed!Pages
  <2> QED
    BY <1>1, <1>7, <2>1, <2>2
<1> QED
  BY <1>1, <1>3, <1>4, <1>5, <1>6, <1>8, <1>9

LEMMA FeedRest ==
    ASSUME Feed!ConstantsOK, FeedGood(ui), LedgerGood(second),
           \/ \E m \in Followed : Feed!SwitchMarket(m) \/ Feed!LedgerMoves(m)
           \/ Feed!AddComment \/ Feed!ToggleLike \/ \E s \in {"recent", "top"} : Feed!SortComments(s)
    PROVE  FeedGood(ui') /\ LedgerGood(second')
<1>1. ui \in Feed!FeedType /\ MaxListed \in Nat
  BY FeedConstants DEF FeedGood
<1>2. CASE \E m \in Followed : Feed!SwitchMarket(m)
  <2>1. PICK m \in Followed : Feed!SwitchMarket(m)
    BY <1>2
  <2>2. second' = second
    BY <2>1 DEF Feed!SwitchMarket, Feed!Feed
  <2>3. CASE ui.view # None
    <3> DEFINE zero == 0
               v == Feed!Started([ui.view EXCEPT !.page = zero])
    <3>1. zero \in Feed!Pages /\ ui.view \in Feed!ViewType
      BY <1>1, <2>3 DEF Feed!Pages, Feed!FeedType
    <3>2. ui' = [ui EXCEPT !.market = m, !.view = v]
      BY <2>1, <2>3 DEF Feed!SwitchMarket, Feed!Feed, Feed!Listed, Feed!View
    <3> HIDE DEF zero
    <3>3. v \in Feed!ViewType /\ v.status = "loading" /\ v.fetch = Feed!Loud
      BY <3>1, StartedIs
    <3> HIDE DEF v
    <3> QED
      BY <2>2, <2>3, <3>2, <3>3, ViewChanges
  <2>4. CASE ui.view = None
    <3>1. ui' = [ui EXCEPT !.market = m, !.view = ui.view]
      BY <2>1, <2>4 DEF Feed!SwitchMarket, Feed!Feed, Feed!Listed, Feed!View
    <3>2. /\ ui' \in Feed!FeedType /\ ui'.view = None /\ ui'.tab = ui.tab /\ ui'.token = ui.token
          /\ ui'.labelled = ui.labelled /\ ui'.language = ui.language
      BY <1>1, <2>4, <3>1 DEF Feed!FeedType
    <3> QED
      BY <2>2, <2>4, <3>2 DEF FeedGood, Feed!Paged, Feed!Whole
  <2> QED
    BY <2>3, <2>4
<1>3. CASE \E m \in Followed : Feed!LedgerMoves(m)
  <2>1. PICK m \in Followed : Feed!LedgerMoves(m)
    BY <1>3
  <2>2. PICK n \in 0..MaxListed :
            second' = [second EXCEPT ![m] = [bets |-> second[m].bets + 1, positions |-> n]]
    BY <2>1 DEF Feed!LedgerMoves
  <2>3. second[m] \in [bets : Feed!Pages, positions : Feed!Pages] /\ second[m].bets < MaxListed
    BY <2>1 DEF LedgerGood, Feed!LedgerMoves
  <2>4. [bets |-> second[m].bets + 1, positions |-> n] \in [bets : Feed!Pages, positions : Feed!Pages]
    BY <1>1, <2>3 DEF Feed!Pages
  <2>5. LedgerGood(second')
    BY <2>2, <2>4 DEF LedgerGood
  <2>6. ui' = ui
    BY <2>1 DEF Feed!LedgerMoves
  <2> QED
    BY <2>5, <2>6
<1>4. ASSUME NEW comments \in {<<>>, <<FALSE>>, <<TRUE>>}, NEW sort \in {"recent", "top"},
             ui' = [ui EXCEPT !.comments = comments, !.sort = sort], second' = second
      PROVE  FeedGood(ui') /\ LedgerGood(second')
  <2>1. /\ ui' \in Feed!FeedType /\ ui'.view = ui.view /\ ui'.tab = ui.tab /\ ui'.token = ui.token
        /\ ui'.labelled = ui.labelled /\ ui'.language = ui.language /\ ui'.market = ui.market
    BY <1>1, <1>4 DEF Feed!FeedType
  <2> QED
    BY <1>4, <2>1 DEF FeedGood, ViewFits, Feed!Paged, Feed!Whole
<1>5. CASE Feed!AddComment
  <2> DEFINE comments == <<FALSE>>
  <2>1. comments \in {<<>>, <<FALSE>>, <<TRUE>>}
    OBVIOUS
  <2>2. ui' = [ui EXCEPT !.comments = comments, !.sort = "recent"] /\ second' = second
    BY <1>5 DEF Feed!AddComment, Feed!Feed
  <2> HIDE DEF comments
  <2> QED
    BY <1>4, <2>1, <2>2
<1>6. CASE Feed!ToggleLike
  <2> DEFINE liked == ~ui.comments[1]
             comments == <<liked>>
  <2>1. second' = second /\ ui.sort \in {"recent", "top"}
    BY <1>1, <1>6 DEF Feed!ToggleLike, Feed!FeedType, Feed!Feed
  <2>2. comments \in {<<FALSE>>, <<TRUE>>}
    <3>1. liked \in BOOLEAN
      OBVIOUS
    <3> HIDE DEF liked
    <3> QED
      BY <3>1
  <2>3. ui' = [ui EXCEPT !.comments = comments]
    BY <1>6 DEF Feed!ToggleLike, Feed!Feed
  <2> HIDE DEF comments
  <2>4. ui' = [ui EXCEPT !.comments = comments, !.sort = ui.sort]
    BY <1>1, <2>3 DEF Feed!FeedType
  <2> QED
    BY <1>4, <2>1, <2>2, <2>4
<1>7. CASE \E s \in {"recent", "top"} : Feed!SortComments(s)
  <2>1. PICK s \in {"recent", "top"} : ui' = [ui EXCEPT !.sort = s] /\ second' = second
    BY <1>7 DEF Feed!SortComments, Feed!Feed
  <2>2. ui.comments \in {<<>>, <<FALSE>>, <<TRUE>>}
    BY <1>1 DEF Feed!FeedType
  <2>3. ui' = [ui EXCEPT !.comments = ui.comments, !.sort = s]
    BY <1>1, <2>1 DEF Feed!FeedType
  <2> QED
    BY <1>4, <2>1, <2>2, <2>3
<1> QED
  BY <1>2, <1>3, <1>5, <1>6, <1>7

LEMMA ListSteps ==
    ASSUME Feed!ConstantsOK, ListGood(third), Feed!ListNext
    PROVE  ListGood(third')
<1>1. /\ third \in Feed!ListType /\ MaxPage \in Nat /\ MaxRefreshes \in Nat
      /\ third.page \in 0..MaxPage /\ third.trigger \in 0..MaxRefreshes
      /\ None \notin Feed!Turns /\ None \notin Feed!Rows
  BY FeedConstants DEF ListGood, Feed!ListType
<1>2. CASE \E kind \in Feed!Kinds : Feed!OpenTab(kind)
  <2>1. PICK kind \in Feed!Kinds : third' = Feed!Opened(kind, third.trigger, third.token)
    BY <1>2 DEF Feed!OpenTab, Feed!List
  <2> QED
    BY <1>1, <2>1 DEF ListGood, OutOfSight, Feed!Opened, Feed!ListType
<1>3. CASE Feed!Load
  <2>1. CASE Feed!Skipped
    <3>1. third' = [third EXCEPT !.effect = FALSE, !.load = None]
      BY <1>3, <2>1 DEF Feed!Load, Feed!List
    <3>2. /\ third' \in Feed!ListType /\ third'.load = None /\ third'.rows = third.rows
          /\ third'.page = third.page /\ third'.trigger = third.trigger
          /\ third'.failed = third.failed /\ third'.kind = third.kind /\ third'.token = third.token
      BY <1>1, <3>1 DEF Feed!ListType
    <3>3. ~(third'.trigger = 0 \/ third'.page = 0)
      BY <1>1, <2>1, <3>2 DEF Feed!Skipped
    <3> QED
      BY <3>2, <3>3 DEF ListGood, OutOfSight
  <2>2. CASE ~Feed!Skipped /\ Feed!LoggedOut
    <3>1. third' = [third EXCEPT !.effect = FALSE, !.load = None, !.failed = FALSE, !.rows = None]
      BY <1>3, <2>2 DEF Feed!Load, Feed!List
    <3> QED
      BY <1>1, <3>1 DEF ListGood, OutOfSight, Feed!ListType
  <2>3. CASE ~Feed!Skipped /\ ~Feed!LoggedOut
    <3> DEFINE load == [page |-> third.page, trigger |-> third.trigger]
    <3>1. third' = [third EXCEPT !.effect = FALSE, !.failed = FALSE, !.load = load]
      BY <1>3, <2>3 DEF Feed!Load, Feed!List
    <3>2. load \in Feed!Turns /\ load # None
      BY <1>1 DEF Feed!Turns
    <3> HIDE DEF load
    <3>3. /\ third' \in Feed!ListType /\ third'.load = load /\ ~third'.failed
          /\ third'.page = third.page /\ third'.trigger = third.trigger
          /\ third'.kind = third.kind /\ third'.token = third.token
      BY <1>1, <3>1, <3>2 DEF Feed!ListType
    <3> QED
      BY <2>3, <3>2, <3>3 DEF ListGood, OutOfSight, Feed!LoggedOut, load
  <2> QED
    BY <2>1, <2>2, <2>3
<1>4. CASE Feed!LoadAnswered
  <2>1. PICK more \in BOOLEAN :
            third' = [third EXCEPT !.load = None,
                        !.rows = [page |-> third.load.page, trigger |-> third.load.trigger,
                                  more |-> more /\ third.load.page < MaxPage]]
    BY <1>4 DEF Feed!LoadAnswered, Feed!List
  <2> DEFINE further == more /\ third.load.page < MaxPage
             rows == [page |-> third.load.page, trigger |-> third.load.trigger, more |-> further]
  <2>2. third.load # None /\ ~third.effect
    BY <1>4 DEF Feed!LoadAnswered
  <2>3. third.load = [page |-> third.page, trigger |-> third.trigger]
    BY <2>2 DEF ListGood
  <2>4. further \in BOOLEAN
    OBVIOUS
  <2> HIDE DEF further
  <2>5. rows \in Feed!Rows /\ rows.page = third.page /\ rows.trigger = third.trigger
    BY <1>1, <2>3, <2>4 DEF Feed!Rows
  <2>6. third' = [third EXCEPT !.load = None, !.rows = rows]
    BY <2>1 DEF further
  <2> HIDE DEF rows
  <2>7. /\ third' \in Feed!ListType /\ third'.load = None /\ third'.rows = rows
        /\ third'.page = third.page /\ third'.trigger = third.trigger /\ third'.failed = third.failed
        /\ third'.kind = third.kind /\ third'.token = third.token
    BY <1>1, <2>5, <2>6 DEF Feed!ListType
  <2> QED
    BY <2>2, <2>5, <2>7 DEF ListGood, OutOfSight
<1>5. CASE Feed!LoadFailed
  <2>1. third' = [third EXCEPT !.load = None, !.rows = None, !.failed = TRUE]
    BY <1>5 DEF Feed!LoadFailed, Feed!List
  <2> QED
    BY <1>1, <2>1 DEF ListGood, OutOfSight, Feed!ListType
<1>6. ASSUME NEW number \in 0..MaxPage, NEW trigger \in 0..MaxRefreshes, NEW token \in BOOLEAN,
             third.token => token,
             third' = [third EXCEPT !.page = number, !.trigger = trigger, !.token = token, !.effect = TRUE]
      PROVE  ListGood(third')
  <2>1. /\ third' \in Feed!ListType /\ third'.effect /\ third'.load = third.load /\ third'.rows = third.rows
        /\ third'.failed = third.failed /\ third'.kind = third.kind /\ third'.token = token
    BY <1>1, <1>6 DEF Feed!ListType
  <2> QED
    BY <1>6, <2>1 DEF ListGood, OutOfSight
<1>7. third.token \in BOOLEAN
  BY <1>1 DEF Feed!ListType
<1>8. CASE Feed!TurnOn
  <2> DEFINE number == third.page + 1
  <2>1. number \in 0..MaxPage
    BY <1>1, <1>8 DEF Feed!TurnOn
  <2>2. third' = [third EXCEPT !.page = number, !.trigger = third.trigger, !.token = third.token, !.effect = TRUE]
    BY <1>1, <1>8 DEF Feed!TurnOn, Feed!List, Feed!ListType
  <2> HIDE DEF number
  <2> QED
    BY <1>1, <1>6, <1>7, <2>1, <2>2
<1>9. CASE Feed!Previous
  <2> DEFINE number == third.page - 1
  <2>1. number \in 0..MaxPage
    BY <1>1, <1>9 DEF Feed!Previous
  <2>2. third' = [third EXCEPT !.page = number, !.trigger = third.trigger, !.token = third.token, !.effect = TRUE]
    BY <1>1, <1>9 DEF Feed!Previous, Feed!List, Feed!ListType
  <2> HIDE DEF number
  <2> QED
    BY <1>1, <1>6, <1>7, <2>1, <2>2
<1>10. CASE Feed!Refresh
  <2> DEFINE trigger == third.trigger + 1
             zero == 0
  <2>1. trigger \in 0..MaxRefreshes /\ zero \in 0..MaxPage
    BY <1>1, <1>10 DEF Feed!Refresh
  <2>2. third' = [third EXCEPT !.page = zero, !.trigger = trigger, !.token = third.token, !.effect = TRUE]
    BY <1>1, <1>10 DEF Feed!Refresh, Feed!List, Feed!ListType
  <2> HIDE DEF trigger, zero
  <2> QED
    BY <1>6, <1>7, <2>1, <2>2
<1>11. CASE Feed!LogIn
  <2> DEFINE zero == 0
  <2>1. zero \in 0..MaxPage
    BY <1>1
  <2>2. third' = [third EXCEPT !.page = zero, !.trigger = third.trigger, !.token = TRUE, !.effect = TRUE]
    BY <1>1, <1>11 DEF Feed!LogIn, Feed!List, Feed!ListType
  <2> HIDE DEF zero
  <2> QED
    BY <1>1, <1>6, <2>1, <2>2
<1> QED
  BY <1>2, <1>3, <1>4, <1>5, <1>8, <1>9, <1>10, <1>11 DEF Feed!ListNext

LEMMA FeedNextInv ==
    ASSUME Feed!ConstantsOK, Feed!FeedInv, [Feed!Next]_<<ui, second, third>>
    PROVE  Feed!FeedInv'
<1>1. /\ ui # None => FeedGood(ui) /\ LedgerGood(second)
      /\ third # None => ListGood(third)
  BY FeedInvIs
<1>2. CASE UNCHANGED <<ui, second, third>>
  BY <1>1, <1>2, FeedFromNext
<1>3. CASE ui # None /\ Feed!FeedNext /\ UNCHANGED third
  <2>1. FeedGood(ui) /\ LedgerGood(second)
    BY <1>1, <1>3
  <2>2. \/ \/ \E t \in Feed!Tabs : Feed!SelectTab(t)
           \/ \E l \in Languages : Feed!SwitchLanguage(l)
        \/ Feed!Traded \/ Feed!LiveTick \/ Feed!FetchAnswered \/ Feed!FetchFailed
           \/ Feed!NextPage \/ Feed!PrevPage
        \/ \/ \E m \in Followed : Feed!SwitchMarket(m) \/ Feed!LedgerMoves(m)
           \/ Feed!AddComment \/ Feed!ToggleLike \/ \E s \in {"recent", "top"} : Feed!SortComments(s)
    BY <1>3 DEF Feed!FeedNext
  <2>3. FeedGood(ui') /\ LedgerGood(second')
    BY <2>1, <2>2, FeedMounts, FeedFetches, FeedRest
  <2> QED
    BY <1>1, <1>3, <2>3, FeedFromNext
<1>4. CASE third # None /\ Feed!ListNext /\ UNCHANGED <<ui, second>>
  <2>1. ListGood(third')
    BY <1>1, <1>4, ListSteps
  <2> QED
    BY <1>1, <1>4, <2>1, FeedFromNext
<1> QED
  BY <1>2, <1>3, <1>4 DEF Feed!Next

LEMMA FeedInvShows ==
    Feed!ConstantsOK /\ Feed!FeedInv => Feed!ListIsCurrent /\ Feed!EmptyOnlyIf /\ Feed!RowsOfThePage
  BY FeedInvIs, FeedFrom DEF Feed!FeedInv
-----------------------------------------------------------------------------
(* The older page of a market or a group.                                    *)
(* The sets of the fields, named for the provers. *)
Kinds   == {"group", "single"}
Modals  == {"none", "trade", "resolve"}
Modes   == {"exclusive_yes", "manual", "na"}
Queues  == {"loading", "ready", "busy"}
Picks   == Answers \union {None}
Seen    == Older!Snapshots \union {None}
Loading == Older!Loads \union {None}
Saving  == Older!Savings \union {None}
Amends  == [sending : BOOLEAN, out : SUBSET Older!Amendments, failed : SUBSET (0..MaxRequests)]
Counts  == 0..MaxRequests
Resolutions == SUBSET Older!Resolutions

OlderPage ==
    [kind : Kinds, seen : Seen, load : Loading, failed : BOOLEAN, open : BOOLEAN, modal : Modals,
     trade : Picks, trading : Nat, winner : Picks, mode : Modes, resolutions : Resolutions,
     text : BOOLEAN, amend : Amends, policy : BOOLEAN, saving : Saving, queue : Queues, sent : Counts,
     overlapped : BOOLEAN, astray : BOOLEAN, lost : BOOLEAN]

LEMMA OlderPageIs == OlderPage = Older!PageType
  BY DEF OlderPage, Older!PageType, Kinds, Modals, Modes, Queues, Picks, Seen, Loading, Saving,
     Amends, Counts, Resolutions

ContractType == [resolved : BOOLEAN, marks : Nat, policy : BOOLEAN, notes : [Answers -> Nat]]

PageGood(p) ==
    p \in OlderPage /\ (p.seen = None => p.modal = "none" /\ ~p.text /\ p.winner = None)

AmendGood(amend, text, notes) ==
    amend.failed = {} =>
        /\ \A m, n \in amend.out : m.id = n.id /\ (m.answer = n.answer => m = n)
        /\ \A m \in amend.out : ~m.done => notes[m.answer] = 0
        /\ \A a \in Answers : notes[a] <= 1
        /\ amend.out # {} => amend.sending
        /\ (text /\ ~amend.sending) => \A a \in Answers : notes[a] = 0

Puts(seen, saved, shown) == shown = saved \/ (seen # None /\ seen.policy # saved)

PolicyGood(p, saved) ==
    /\ p.seen = None => (p.saving = None /\ ~p.policy /\ ~saved)
    /\ ((p.saving = None \/ ~p.saving.done) /\ p.load # None /\ p.load.got # None /\ ~p.lost) =>
           p.load.got.policy = saved
    /\ ((p.saving = None \/ ~p.saving.done) /\ p.seen # None /\ ~p.failed /\ p.load = None /\ ~p.lost) =>
           p.seen.policy = saved
    /\ (p.saving = None /\ ~p.astray /\ ~p.lost) => Puts(p.seen, saved, p.policy)
    /\ p.saving # None =>
           /\ p.policy = p.saving.policy \/ p.seen.policy = p.policy
           /\ (p.saving.done => p.saving.policy = saved)
           /\ (~p.saving.done /\ ~p.saving.moved /\ ~p.astray /\ ~p.lost) =>
                  Puts(p.seen, saved, ~p.saving.policy)

(* What a step leaves alone: the load, the amendment and the policy, or all but the amendment. *)
SameForms(p, q) ==
    /\ q \in OlderPage
    /\ q.seen = p.seen /\ q.failed = p.failed /\ q.policy = p.policy /\ q.saving = p.saving
    /\ q.astray = p.astray /\ q.lost = p.lost /\ q.amend = p.amend /\ q.text = p.text /\ q.kind = p.kind

SameRest(p, q) ==
    /\ q \in OlderPage
    /\ q.seen = p.seen /\ q.failed = p.failed /\ q.policy = p.policy /\ q.saving = p.saving
    /\ q.astray = p.astray /\ q.lost = p.lost /\ q.overlapped = p.overlapped /\ q.load = p.load /\ q.kind = p.kind
    /\ q.resolutions = p.resolutions /\ q.modal = p.modal /\ q.winner = p.winner

ResolutionsGood(p, c) ==
    /\ c.resolved = (c.marks > 0)
    /\ p.kind = "group" => c.marks <= 1 /\ \A r, s \in p.resolutions : (~r.lost /\ ~s.lost) => r = s
    /\ c.marks > 1 => p.overlapped
    /\ ~p.overlapped =>
           /\ \A r, s \in p.resolutions : (Older!AtServer(r) /\ Older!AtServer(s)) => r = s
           /\ \A r \in p.resolutions : r.stage = "found open" => ~c.resolved

OlderGood(p, c) ==
    /\ PageGood(p) /\ c \in ContractType /\ AmendGood(p.amend, p.text, c.notes)
    /\ PolicyGood(p, c.policy) /\ ResolutionsGood(p, c)

LEMMA OlderInvIs == Older!GroupInv <=> OlderGood(ui, second)
  BY OlderPageIs DEF Older!GroupInv, Older!TypeOK, Older!AmendedOnceSoFar, Older!LoadRepairs, Older!Unserved,
     Older!Ready, Older!OneResolutionOfGroup, Older!MarksAreCounted, OlderGood, PageGood, ContractType,
     AmendGood, PolicyGood, Puts, ResolutionsGood

LEMMA OlderInvIsNext == Older!GroupInv' <=> OlderGood(ui', second')
  BY OlderPageIs DEF Older!GroupInv, Older!TypeOK, Older!AmendedOnceSoFar, Older!LoadRepairs, Older!Unserved,
     Older!Ready, Older!OneResolutionOfGroup, Older!MarksAreCounted, OlderGood, PageGood, ContractType,
     AmendGood, PolicyGood, Puts, ResolutionsGood

LEMMA OlderInvShows ==
    ASSUME Older!GroupInv
    PROVE  Older!AmendedTwiceOnlyAfterFailure /\ Older!OneResolutionOfGroup /\ Older!PolicyShownIsSaved
<1>1. OlderGood(ui, second)
  BY OlderInvIs
<1>2. \A a \in Answers : second.notes[a] \in Nat
  BY <1>1 DEF OlderGood, ContractType
<1>3. Older!AmendedTwiceOnlyAfterFailure
  BY <1>1, <1>2 DEF Older!AmendedTwiceOnlyAfterFailure, OlderGood, AmendGood
<1>4. Older!PolicyShownIsSaved
  BY <1>1 DEF Older!PolicyShownIsSaved, Older!Ready, OlderGood, PolicyGood, Puts
<1> QED
  BY <1>3, <1>4 DEF Older!GroupInv

LEMMA OlderConstants ==
    ASSUME Older!ConstantsOK
    PROVE  /\ MaxRequests \in Nat /\ None \notin Older!Snapshots /\ None \notin Older!Loads
           /\ None \notin Older!Savings /\ None \notin Answers
  BY DEF Older!ConstantsOK

LEMMA FieldSets ==
    ASSUME Older!ConstantsOK
    PROVE  /\ {"none", "trade", "resolve"} \subseteq Modals /\ {"loading", "ready", "busy"} \subseteq Queues
           /\ {"exclusive_yes", "manual", "na"} = Modes /\ Kinds = {"group", "single"}
           /\ Answers \subseteq Picks /\ None \in Picks
           /\ None \in Seen /\ Older!Snapshots \subseteq Seen /\ \A x \in Seen : x # None => x \in Older!Snapshots
           /\ None \in Loading /\ Older!Loads \subseteq Loading /\ \A x \in Loading : x # None => x \in Older!Loads
           /\ None \in Saving /\ Older!Savings \subseteq Saving /\ \A x \in Saving : x # None => x \in Older!Savings
           /\ 0 \in Counts /\ \A n \in Counts : n \in Nat /\ (n < MaxRequests => n + 1 \in Counts)
           /\ None \notin Older!Snapshots /\ None \notin Older!Loads /\ None \notin Older!Savings
  BY OlderConstants DEF Modals, Modes, Queues, Kinds, Picks, Seen, Loading, Saving, Counts

LEMMA AmendIs ==
    ASSUME NEW amend
    PROVE  amend \in Amends <=>
               amend \in [sending : BOOLEAN, out : SUBSET Older!Amendments,
                         failed : SUBSET (0..MaxRequests)]
  BY DEF Amends

LEMMA FirstAnswer ==
    ASSUME Older!ConstantsOK
    PROVE  /\ (CHOOSE a \in Answers : TRUE) \in Answers
           /\ Older!Options # {} /\ Older!Options \subseteq Answers
           /\ (CHOOSE a \in Older!Options : TRUE) \in Answers
<1>1. PICK a \in Answers : TRUE
  BY DEF Older!ConstantsOK
<1>2. (CHOOSE b \in Answers : TRUE) \in Answers
  BY <1>1
<1>3. Older!Options # {} /\ Older!Options \subseteq Answers
  BY <1>1, <1>2 DEF Older!Options
<1>4. PICK b \in Older!Options : TRUE
  BY <1>3
<1>5. (CHOOSE x \in Older!Options : TRUE) \in Older!Options
  BY <1>4
<1> QED
  BY <1>2, <1>3, <1>5

LEMMA OlderInitInv == Older!ConstantsOK /\ Older!Init => Older!GroupInv
<1> SUFFICES ASSUME Older!ConstantsOK, Older!Init
             PROVE  Older!GroupInv
  OBVIOUS
<1> DEFINE zero == 0
           load == [got |-> None]
           amend == Older!NoForm
           notes == [a \in Answers |-> 0]
<1>1. zero \in Counts /\ zero \in Nat
  BY OlderConstants, FieldSets
<1>2. load \in Older!Loads /\ load.got = None
  BY DEF Older!Loads
<1>3. /\ amend \in Amends
      /\ amend.out = {}
  BY DEF Older!NoForm, Amends
<1>4. notes \in [Answers -> Nat] /\ \A a \in Answers : notes[a] = 0
  OBVIOUS
<1>13. {} \in Resolutions
  BY DEF Resolutions
<1>5. second = [resolved |-> FALSE, marks |-> zero, policy |-> FALSE, notes |-> notes]
  BY DEF Older!Init
<1>6. PICK kind \in {"group", "single"} :
          ui = [kind |-> kind, seen |-> None, load |-> load, failed |-> FALSE, open |-> TRUE,
                modal |-> "none", trade |-> None, trading |-> zero, winner |-> None,
                mode |-> "exclusive_yes", resolutions |-> {}, text |-> FALSE, amend |-> amend,
                policy |-> FALSE, saving |-> None, queue |-> "loading", sent |-> zero,
                overlapped |-> FALSE, astray |-> FALSE, lost |-> FALSE]
  BY DEF Older!Init
<1> HIDE DEF zero, load, amend, notes
<1>7. ui \in OlderPage
  BY <1>1, <1>2, <1>3, <1>6, <1>13, FieldSets DEF OlderPage
<1>8. PageGood(ui)
  BY <1>6, <1>7 DEF PageGood
<1>9. second \in ContractType
  BY <1>1, <1>4, <1>5 DEF ContractType
<1>10. AmendGood(ui.amend, ui.text, second.notes)
  <2>1. ui.amend = amend /\ second.notes = notes
    BY <1>5, <1>6
  <2> QED
    BY <1>3, <1>4, <2>1 DEF AmendGood
<1>11. PolicyGood(ui, second.policy)
  BY <1>2, <1>5, <1>6 DEF PolicyGood, Puts
<1>12. ResolutionsGood(ui, second)
  <2>1. second.marks = zero /\ second.resolved = FALSE /\ ui.resolutions = {}
    BY <1>5, <1>6
  <2>2. (zero > 0) = FALSE /\ zero <= 1 /\ ~(zero > 1)
    BY DEF zero
  <2> QED
    BY <2>1, <2>2 DEF ResolutionsGood
<1> QED
  BY <1>8, <1>9, <1>10, <1>11, <1>12, OlderInvIs DEF OlderGood

(* A step that leaves the forms alone; it may drop the load under way for a new one. *)
LEMMA OlderQuiet ==
    ASSUME Older!ConstantsOK, OlderGood(ui, second), second' = second, SameForms(ui, ui'),
           ui.seen = None => ui'.modal = "none" /\ ui'.winner = None,
           ui'.load = ui.load \/ (ui'.load # None /\ ui'.load.got = None),
           ResolutionsGood(ui', second)
    PROVE  OlderGood(ui', second')
<1>1. PageGood(ui')
  BY DEF OlderGood, PageGood, SameForms
<1>2. PolicyGood(ui', second.policy)
  BY DEF OlderGood, PolicyGood, SameForms
<1>3. AmendGood(ui'.amend, ui'.text, second.notes)
  BY DEF OlderGood, SameForms
<1> QED
  BY <1>1, <1>2, <1>3 DEF OlderGood

(* A form that only the buttons and the clock move. *)
LEMMA OlderButtons ==
    ASSUME Older!ConstantsOK, OlderGood(ui, second),
           \/ Older!CloseTimePasses \/ Older!OpenTrade \/ Older!Order \/ Older!CloseModal
           \/ Older!OpenResolve \/ Older!QueueLoads \/ Older!ReviewAddition
           \/ \E m \in {"exclusive_yes", "manual", "na"} : Older!SetResolveMode(m)
           \/ \E a \in Answers : Older!SelectTrade(a) \/ Older!SetWinner(a)
    PROVE  OlderGood(ui', second')
<1>1. /\ ui \in OlderPage /\ ui.sent \in Counts /\ ui.trading \in Nat
      /\ ui.seen = None => ui.modal = "none" /\ ui.winner = None
  BY DEF OlderGood, PageGood, OlderPage
<1>2. ASSUME SameForms(ui, ui'), ui'.load = ui.load, ui'.resolutions = ui.resolutions,
             ui'.overlapped = ui.overlapped, second' = second,
             ui.seen = None => ui'.modal = "none" /\ ui'.winner = None
      PROVE  OlderGood(ui', second')
  <2>1. ResolutionsGood(ui', second)
    BY <1>2 DEF OlderGood, SameForms, ResolutionsGood
  <2> QED
    BY <1>2, <2>1, OlderQuiet
<1>3. CASE Older!CloseTimePasses
  <2>1. ui' = [ui EXCEPT !.open = FALSE] /\ second' = second
    BY <1>3 DEF Older!CloseTimePasses, Older!Page
  <2> QED
    BY <1>1, <1>2, <2>1 DEF OlderPage, SameForms
<1>4. ASSUME NEW modal \in Modals, ui.seen = None => modal = "none", ui' = [ui EXCEPT !.modal = modal],
             second' = second
      PROVE  OlderGood(ui', second')
  BY <1>1, <1>2, <1>4 DEF OlderPage, SameForms
<1>5. CASE Older!OpenTrade
  <2>1. /\ ui' = [ui EXCEPT !.modal = "trade"] /\ second' = second /\ ui.seen # None
    BY <1>5 DEF Older!OpenTrade, Older!Page, Older!TradeOffered, Older!CanTradeSingle, Older!CanTrade,
       Older!Ready
  <2> QED
    BY <1>4, <2>1, FieldSets
<1>6. CASE Older!CloseModal
  <2>1. ui' = [ui EXCEPT !.modal = "none"] /\ second' = second
    BY <1>6 DEF Older!CloseModal, Older!Page
  <2> QED
    BY <1>4, <2>1, FieldSets
<1>7. CASE Older!OpenResolve
  <2>1. ui' = [ui EXCEPT !.modal = "resolve"] /\ second' = second /\ ui.seen # None
    BY <1>7 DEF Older!OpenResolve, Older!Page, Older!CanResolve, Older!Ready
  <2> QED
    BY <1>4, <2>1, FieldSets
<1>8. ui.sent < MaxRequests => ui.sent + 1 \in Counts
  BY <1>1, FieldSets
<1>9. CASE Older!Order
  <2> DEFINE trading == ui.trading + 1
             sent == ui.sent + 1
  <2>1. trading \in Nat /\ sent \in Counts
    BY <1>1, <1>8, <1>9 DEF Older!Order, Older!CanSend
  <2>2. ui' = [ui EXCEPT !.trading = trading, !.sent = sent] /\ second' = second
    BY <1>9 DEF Older!Order, Older!Page
  <2> HIDE DEF trading, sent
  <2> QED
    BY <1>1, <1>2, <2>1, <2>2 DEF OlderPage, SameForms
<1>10. CASE Older!QueueLoads
  <2>1. ui' = [ui EXCEPT !.queue = "ready"] /\ second' = second /\ "ready" \in Queues
    BY <1>10, FieldSets DEF Older!QueueLoads, Older!Page
  <2> QED
    BY <1>1, <1>2, <2>1 DEF OlderPage, SameForms
<1>11. CASE Older!ReviewAddition
  <2> DEFINE sent == ui.sent + 1
  <2>1. sent \in Counts /\ "busy" \in Queues
    BY <1>8, <1>11, FieldSets DEF Older!ReviewAddition, Older!CanSend
  <2>2. ui' = [ui EXCEPT !.queue = "busy", !.sent = sent] /\ second' = second
    BY <1>11 DEF Older!ReviewAddition, Older!Page
  <2> HIDE DEF sent
  <2> QED
    BY <1>1, <1>2, <2>1, <2>2 DEF OlderPage, SameForms
<1>12. CASE \E m \in {"exclusive_yes", "manual", "na"} : Older!SetResolveMode(m)
  <2>1. PICK m \in Modes : ui' = [ui EXCEPT !.mode = m] /\ second' = second
    BY <1>12, FieldSets DEF Older!SetResolveMode, Older!Page
  <2> QED
    BY <1>1, <1>2, <2>1 DEF OlderPage, SameForms
<1>13. CASE \E a \in Answers : Older!SelectTrade(a)
  <2>1. PICK a \in Picks : ui' = [ui EXCEPT !.trade = a] /\ second' = second
    BY <1>13, FieldSets DEF Older!SelectTrade, Older!Page
  <2> QED
    BY <1>1, <1>2, <2>1 DEF OlderPage, SameForms
<1>14. CASE \E a \in Answers : Older!SetWinner(a)
  <2>1. PICK a \in Picks : ui' = [ui EXCEPT !.winner = a] /\ second' = second /\ ui.seen # None
    BY <1>14, FieldSets DEF Older!SetWinner, Older!Page, Older!ResolveShown, Older!Ready
  <2> QED
    BY <1>1, <1>2, <2>1 DEF OlderPage, SameForms
<1> QED
  BY <1>3, <1>5, <1>6, <1>7, <1>9, <1>10, <1>11, <1>12, <1>13, <1>14

(* A refresh drops the load under way for a new one. *)
LEMMA ReloadingIs ==
    ASSUME Older!ConstantsOK
    PROVE  \E load \in Loading : /\ load # None /\ load.got = None
                                 /\ \A p : Older!Reloading(p) = [p EXCEPT !.load = load]
<1> DEFINE load == [got |-> None]
<1>1. load \in Older!Loads /\ load.got = None
  BY DEF Older!Loads
<1>2. \A p : Older!Reloading(p) = [p EXCEPT !.load = load]
  BY DEF Older!Reloading
<1> HIDE DEF load
<1> QED
  BY <1>1, <1>2, FieldSets

(* What is answered and makes the page load again. *)
LEMMA OlderReloads ==
    ASSUME Older!ConstantsOK, OlderGood(ui, second),
           Older!HandleTransactionSuccess \/ Older!SubmitAnswerAddition \/ Older!AdditionReviewed
    PROVE  OlderGood(ui', second')
<1>1. /\ ui \in OlderPage /\ ui.sent \in Counts /\ ui.trading \in Nat /\ ui.modal \in Modals
      /\ ui.seen = None => ui.modal = "none" /\ ui.winner = None
  BY DEF OlderGood, PageGood, OlderPage
<1>2. PICK load \in Loading : /\ load # None /\ load.got = None
                              /\ \A p : Older!Reloading(p) = [p EXCEPT !.load = load]
  BY ReloadingIs
<1>3. ASSUME SameForms(ui, ui'), ui'.load \in {load, ui.load}, ui'.resolutions = ui.resolutions,
             ui'.overlapped = ui.overlapped,
             second' = second, ui.modal = "none" => ui'.modal = "none", ui'.winner = ui.winner
      PROVE  OlderGood(ui', second')
  <2>1. ResolutionsGood(ui', second)
    BY <1>3 DEF OlderGood, SameForms, ResolutionsGood
  <2>2. ui.seen = None => ui'.modal = "none" /\ ui'.winner = None
    BY <1>1, <1>3
  <2>3. ui'.load = ui.load \/ (ui'.load # None /\ ui'.load.got = None)
    BY <1>2, <1>3
  <2> QED
    BY <1>3, <2>1, <2>2, <2>3, OlderQuiet
<1>4. CASE Older!HandleTransactionSuccess
  <2> DEFINE trading == ui.trading - 1
             modal == IF ui.modal = "trade" THEN "none" ELSE ui.modal
             p == [ui EXCEPT !.trading = trading, !.modal = modal]
  <2>1. trading \in Nat /\ modal \in Modals /\ (ui.modal = "none" => modal = "none")
    BY <1>1, <1>4, FieldSets DEF Older!HandleTransactionSuccess
  <2>2. ui' = [p EXCEPT !.load = load] /\ second' = second
    BY <1>2, <1>4 DEF Older!HandleTransactionSuccess, Older!Page
  <2> HIDE DEF trading, modal
  <2>3. SameForms(ui, p) /\ p.resolutions = ui.resolutions /\ p.overlapped = ui.overlapped /\ p.modal = modal /\ p.winner = ui.winner
    BY <1>1, <2>1 DEF OlderPage, SameForms
  <2> HIDE DEF p
  <2>4. /\ SameForms(ui, ui') /\ ui'.resolutions = ui.resolutions /\ ui'.overlapped = ui.overlapped /\ ui'.modal = modal
        /\ ui'.winner = ui.winner /\ ui'.load = load
    BY <1>2, <2>2, <2>3 DEF OlderPage, SameForms
  <2> QED
    BY <1>3, <2>1, <2>2, <2>4
<1>5. ASSUME NEW p, SameForms(ui, p), p.resolutions = ui.resolutions, p.overlapped = ui.overlapped, p.modal = ui.modal,
             p.winner = ui.winner, ui' = [p EXCEPT !.load = load], second' = second
      PROVE  OlderGood(ui', second')
  <2>1. /\ SameForms(ui, ui') /\ ui'.resolutions = ui.resolutions /\ ui'.overlapped = ui.overlapped /\ ui'.modal = ui.modal
        /\ ui'.winner = ui.winner /\ ui'.load = load
    BY <1>2, <1>5 DEF OlderPage, SameForms
  <2> QED
    BY <1>3, <1>5, <2>1
<1>6. CASE Older!SubmitAnswerAddition
  <2> DEFINE sent == ui.sent + 1
             p == [ui EXCEPT !.sent = sent]
  <2>1. sent \in Counts
    BY <1>1, <1>6, FieldSets DEF Older!SubmitAnswerAddition, Older!CanSend
  <2>2. ui' = [p EXCEPT !.load = load] /\ second' = second
    BY <1>2, <1>6 DEF Older!SubmitAnswerAddition, Older!Page
  <2> HIDE DEF sent
  <2>3. SameForms(ui, p) /\ p.resolutions = ui.resolutions /\ p.overlapped = ui.overlapped /\ p.modal = ui.modal /\ p.winner = ui.winner
    BY <1>1, <2>1 DEF OlderPage, SameForms
  <2> HIDE DEF p
  <2> QED
    BY <1>5, <2>2, <2>3
<1>7. CASE Older!Page(Older!Reloading([ui EXCEPT !.queue = "loading"]))
  <2> DEFINE p == [ui EXCEPT !.queue = "loading"]
  <2>1. ui' = [p EXCEPT !.load = load] /\ second' = second
    BY <1>2, <1>7 DEF Older!Page
  <2>2. SameForms(ui, p) /\ p.resolutions = ui.resolutions /\ p.overlapped = ui.overlapped /\ p.modal = ui.modal /\ p.winner = ui.winner
    BY <1>1, FieldSets DEF OlderPage, SameForms
  <2> HIDE DEF p
  <2> QED
    BY <1>5, <2>1, <2>2
<1>8. CASE Older!Page([ui EXCEPT !.queue = "ready"])
  <2>1. ui' = [ui EXCEPT !.queue = "ready"] /\ second' = second /\ "ready" \in Queues
    BY <1>8, FieldSets DEF Older!Page
  <2>2. /\ SameForms(ui, ui') /\ ui'.resolutions = ui.resolutions /\ ui'.overlapped = ui.overlapped /\ ui'.modal = ui.modal
        /\ ui'.winner = ui.winner /\ ui'.load = ui.load
    BY <1>1, <2>1 DEF OlderPage, SameForms
  <2> QED
    BY <1>3, <2>1, <2>2
<1> QED
  BY <1>4, <1>6, <1>7, <1>8 DEF Older!AdditionReviewed

(* Resolving: the requests, the server, and their answers. *)
LEMMA OlderResolves ==
    ASSUME Older!ConstantsOK, OlderGood(ui, second),
           Older!ConfirmResolution \/ Older!ResolutionAnswered \/ Older!ResolutionLost
    PROVE  OlderGood(ui', second')
<1>1. /\ ui \in OlderPage /\ ui.sent \in Counts /\ ui.modal \in Modals
      /\ ui.resolutions \in SUBSET Older!Resolutions
      /\ ResolutionsGood(ui, second) /\ ui.overlapped \in BOOLEAN
      /\ ui.kind \in {"group", "single"} /\ "none" \in Modals
      /\ ui.seen = None => ui.modal = "none" /\ ui.winner = None
  BY FieldSets DEF OlderGood, PageGood, OlderPage, Resolutions
<1>2. PICK load \in Loading : /\ load # None /\ load.got = None
                              /\ \A p : Older!Reloading(p) = [p EXCEPT !.load = load]
  BY ReloadingIs
<1>3. ASSUME SameForms(ui, ui'), ui'.load \in {load, ui.load}, ResolutionsGood(ui', second),
             second' = second, ui.modal = "none" => ui'.modal = "none", ui'.winner = ui.winner
      PROVE  OlderGood(ui', second')
  <2>2. ui.seen = None => ui'.modal = "none" /\ ui'.winner = None
    BY <1>1, <1>3
  <2>3. ui'.load = ui.load \/ (ui'.load # None /\ ui'.load.got = None)
    BY <1>2, <1>3
  <2> QED
    BY <1>3, <2>2, <2>3, OlderQuiet
<1>4. ASSUME NEW accepted
      PROVE  /\ Older!Closes(ui.modal, accepted) \in Modals
             /\ ui.modal = "none" => Older!Closes(ui.modal, accepted) = "none"
  BY <1>1 DEF Older!Closes
<1>5. CASE Older!ConfirmResolution
  <2> DEFINE sent == ui.sent + 1
             new == [id |-> ui.sent, stage |-> "sent", lost |-> FALSE]
             overlapped == ui.overlapped \/ \E r \in ui.resolutions : Older!AtServer(r)
             resolutions == ui.resolutions \union {new}
  <2>1. sent \in Counts
    BY <1>1, <1>5, FieldSets DEF Older!ConfirmResolution, Older!CanSend
  <2>2. new \in Older!Resolutions /\ ~new.lost /\ new.stage = "sent"
    BY <1>1 DEF Older!Resolutions, Older!Stages, Counts
  <2>3. ui.kind = "group" => \A r \in ui.resolutions : r.lost
    BY <1>5 DEF Older!ConfirmResolution, Older!Confirmable
  <2>4. /\ ui' = [ui EXCEPT !.sent = sent, !.overlapped = overlapped, !.resolutions = resolutions]
        /\ second' = second
    BY <1>5 DEF Older!ConfirmResolution, Older!Page
  <2>5. /\ overlapped \in BOOLEAN
        /\ ~overlapped => ~ui.overlapped /\ \A r \in ui.resolutions : ~Older!AtServer(r)
    BY <1>1
  <2> HIDE DEF sent, new, overlapped
  <2>6. resolutions \in Resolutions /\ \A r \in resolutions : r = new \/ r \in ui.resolutions
    BY <1>1, <2>2 DEF Resolutions
  <2> HIDE DEF resolutions
  <2>7. /\ SameForms(ui, ui') /\ ui'.resolutions = resolutions /\ ui'.modal = ui.modal
        /\ ui'.winner = ui.winner /\ ui'.load = ui.load /\ ui'.overlapped = overlapped
    BY <1>1, <2>1, <2>4, <2>5, <2>6 DEF OlderPage, SameForms
  <2>8. ResolutionsGood(ui', second)
    <3>1. ui'.kind = ui.kind
      BY <2>7 DEF SameForms
    <3>2. ui.kind = "group" => \A r, s \in resolutions : (~r.lost /\ ~s.lost) => r = s
      BY <2>3, <2>6
    <3>3. ~overlapped => \A r, s \in resolutions : (Older!AtServer(r) /\ Older!AtServer(s)) => r = s
      BY <2>5, <2>6
    <3>4. ~overlapped => \A r \in resolutions : r.stage = "found open" => ~second.resolved
      BY <1>1, <2>2, <2>5, <2>6 DEF ResolutionsGood
    <3> QED
      BY <1>1, <2>5, <2>7, <3>1, <3>2, <3>3, <3>4 DEF ResolutionsGood
  <2> QED
    BY <1>3, <2>4, <2>7, <2>8
<1>6. CASE Older!ResolutionAnswered
  <2>1. PICK r \in ui.resolutions :
            LET accepted == r.stage = "accepted"
                left == [ui EXCEPT !.resolutions = @ \ {r}, !.modal = Older!Closes(@, accepted)]
            IN  Older!Page(IF accepted THEN Older!Reloading(left) ELSE left)
    BY <1>6 DEF Older!ResolutionAnswered
  <2> DEFINE accepted == r.stage = "accepted"
             resolutions == ui.resolutions \ {r}
             modal == Older!Closes(ui.modal, accepted)
             left == [ui EXCEPT !.resolutions = resolutions, !.modal = modal]
  <2>2. /\ resolutions \in Resolutions /\ resolutions \subseteq ui.resolutions
        /\ modal \in Modals /\ (ui.modal = "none" => modal = "none")
    BY <1>1, <1>4 DEF Resolutions
  <2>a. left = [ui EXCEPT !.resolutions = @ \ {r}, !.modal = Older!Closes(@, accepted)]
    BY <1>1 DEF OlderPage
  <2> HIDE DEF accepted, resolutions, modal, left
  <2>3. /\ ui' = [left EXCEPT !.load = load] \/ ui' = left
        /\ second' = second
    BY <1>2, <2>1, <2>a DEF Older!Page, accepted
  <2>4. /\ SameForms(ui, left) /\ left.resolutions = resolutions /\ left.modal = modal
        /\ left.winner = ui.winner /\ left.load = ui.load /\ left.overlapped = ui.overlapped
    BY <1>1, <2>2 DEF OlderPage, SameForms, left
  <2>5. /\ SameForms(ui, ui') /\ ui'.resolutions = resolutions /\ ui'.modal = modal
        /\ ui'.winner = ui.winner /\ ui'.load \in {load, ui.load} /\ ui'.overlapped = ui.overlapped
    BY <1>2, <2>3, <2>4 DEF OlderPage, SameForms
  <2>6. ResolutionsGood(ui', second)
    BY <1>1, <2>2, <2>5 DEF ResolutionsGood, SameForms
  <2> QED
    BY <1>3, <2>2, <2>3, <2>5, <2>6
<1>7. CASE Older!ResolutionLost
  <2>1. PICK r \in ui.resolutions :
            /\ ~r.lost
            /\ Older!Page([ui EXCEPT !.resolutions = (@ \ {r}) \union {[r EXCEPT !.lost = TRUE]},
                                     !.modal = Older!Closes(@, FALSE)])
    BY <1>7 DEF Older!ResolutionLost
  <2> DEFINE new == [r EXCEPT !.lost = TRUE]
             resolutions == (ui.resolutions \ {r}) \union {new}
             modal == Older!Closes(ui.modal, FALSE)
  <2>2. modal \in Modals /\ (ui.modal = "none" => modal = "none")
    BY <1>4
  <2>3. ui' = [ui EXCEPT !.resolutions = resolutions, !.modal = modal] /\ second' = second
    BY <1>1, <2>1 DEF Older!Page, OlderPage
  <2>4. new \in Older!Resolutions /\ new.lost /\ new.stage = r.stage
    BY <1>1 DEF Older!Resolutions
  <2> HIDE DEF new, modal
  <2>5. resolutions \in Resolutions /\ \A s \in resolutions : s = new \/ s \in ui.resolutions \ {r}
    BY <1>1, <2>4 DEF Resolutions
  <2> HIDE DEF resolutions
  <2>6. /\ SameForms(ui, ui') /\ ui'.resolutions = resolutions /\ ui'.modal = modal
        /\ ui'.winner = ui.winner /\ ui'.load = ui.load /\ ui'.overlapped = ui.overlapped
    BY <1>1, <2>2, <2>3, <2>5 DEF OlderPage, SameForms
  <2>7. Older!AtServer(new) = Older!AtServer(r)
    BY <2>4 DEF Older!AtServer
  <2>8. ResolutionsGood(ui', second)
    <3>1. ui'.kind = ui.kind
      BY <2>6 DEF SameForms
    <3>2. ui.kind = "group" => \A x, y \in resolutions : (~x.lost /\ ~y.lost) => x = y
      BY <1>1, <2>4, <2>5 DEF ResolutionsGood
    <3>3. ~ui.overlapped => \A x, y \in resolutions : (Older!AtServer(x) /\ Older!AtServer(y)) => x = y
      BY <1>1, <2>5, <2>7 DEF ResolutionsGood
    <3>4. ~ui.overlapped => \A x \in resolutions : x.stage = "found open" => ~second.resolved
      BY <1>1, <2>4, <2>5 DEF ResolutionsGood
    <3> QED
      BY <1>1, <2>6, <3>1, <3>2, <3>3, <3>4 DEF ResolutionsGood
  <2> QED
    BY <1>3, <2>2, <2>3, <2>6, <2>8
<1> QED
  BY <1>5, <1>6, <1>7

(* The server's part of a resolution: it looks, and later marks. *)
LEMMA OlderServes ==
    ASSUME Older!ConstantsOK, OlderGood(ui, second), NEW r \in ui.resolutions,
           NEW stage \in Older!Stages, Older!AtServer(r),
           ui' = [ui EXCEPT !.resolutions = Older!Staged(r, stage)],
           second' \in ContractType, second'.policy = second.policy, second'.notes = second.notes,
           second'.resolved = (second'.marks > 0),
           ui.kind = "group" => second'.marks <= 1,
           second'.marks > 1 => ui.overlapped,
           stage = "found open" => ~second'.resolved,
           second'.resolved # second.resolved => stage \notin {"sent", "found open"}
    PROVE  OlderGood(ui', second')
<1>1. /\ ui \in OlderPage /\ PageGood(ui) /\ ui.resolutions \subseteq Older!Resolutions
      /\ ResolutionsGood(ui, second) /\ second \in ContractType
  BY DEF OlderGood, PageGood, OlderPage, Resolutions
<1> DEFINE new == [r EXCEPT !.stage = stage]
           resolutions == (ui.resolutions \ {r}) \union {new}
<1>2. ui' = [ui EXCEPT !.resolutions = resolutions]
  BY DEF Older!Staged
<1>3. new \in Older!Resolutions /\ new.stage = stage /\ new.lost = r.lost
  BY <1>1 DEF Older!Resolutions
<1> HIDE DEF new
<1>4. resolutions \in Resolutions /\ \A s \in resolutions : s = new \/ s \in ui.resolutions \ {r}
  BY <1>1, <1>3 DEF Resolutions
<1> HIDE DEF resolutions
<1>5. /\ ui' \in OlderPage
      /\ ui'.seen = ui.seen /\ ui'.failed = ui.failed /\ ui'.policy = ui.policy
      /\ ui'.saving = ui.saving /\ ui'.astray = ui.astray /\ ui'.lost = ui.lost /\ ui'.amend = ui.amend
      /\ ui'.text = ui.text /\ ui'.load = ui.load /\ ui'.kind = ui.kind
      /\ ui'.overlapped = ui.overlapped
      /\ ui'.resolutions = resolutions /\ ui'.modal = ui.modal /\ ui'.winner = ui.winner
  BY <1>1, <1>2, <1>4 DEF OlderPage
<1>6. ResolutionsGood(ui', second')
  <2>1. ui.kind = "group" => \A x, y \in resolutions : (~x.lost /\ ~y.lost) => x = y
    BY <1>1, <1>3, <1>4 DEF ResolutionsGood
  <2>2. ~ui.overlapped => \A x \in ui.resolutions \ {r} : ~Older!AtServer(x)
    BY <1>1 DEF ResolutionsGood
  <2>3. ~ui.overlapped => \A x, y \in resolutions : (Older!AtServer(x) /\ Older!AtServer(y)) => x = y
    BY <1>4, <2>2
  <2>4. ~ui.overlapped => \A x \in resolutions : x.stage = "found open" => ~second'.resolved
    BY <1>3, <1>4, <2>2 DEF Older!AtServer
  <2> QED
    BY <1>5, <2>1, <2>3, <2>4 DEF ResolutionsGood
<1>7. PageGood(ui') /\ AmendGood(ui'.amend, ui'.text, second'.notes)
  BY <1>5 DEF OlderGood, PageGood
<1>8. PolicyGood(ui', second'.policy)
  BY <1>5 DEF OlderGood, PolicyGood
<1> QED
  BY <1>6, <1>7, <1>8 DEF OlderGood

LEMMA OlderServerResolves ==
    ASSUME Older!ConstantsOK, OlderGood(ui, second), Older!ServerLooks \/ Older!ServerMarks
    PROVE  OlderGood(ui', second')
<1>1. ResolutionsGood(ui, second) /\ second \in ContractType
  BY DEF OlderGood
<1>2. second.marks \in Nat /\ second.resolved \in BOOLEAN
  BY <1>1 DEF ContractType
<1>a. /\ "refused" \in Older!Stages /\ "found open" \in Older!Stages /\ "accepted" \in Older!Stages
      /\ "refused" \notin {"sent", "found open"} /\ "accepted" \notin {"sent", "found open"}
  BY DEF Older!Stages
<1>3. CASE Older!ServerLooks
  <2> DEFINE stage == IF second.resolved THEN "refused" ELSE "found open"
  <2>1. PICK r \in ui.resolutions :
          /\ r.stage = "sent" /\ second' = second
          /\ ui' = [ui EXCEPT !.resolutions = Older!Staged(r, stage)]
    BY <1>3 DEF Older!ServerLooks, Older!Page
  <2>2. stage \in Older!Stages /\ (stage = "found open" => ~second.resolved)
    BY <1>a
  <2>3. Older!AtServer(r)
    BY <2>1 DEF Older!AtServer
  <2>4. /\ second.resolved = (second.marks > 0) /\ (ui.kind = "group" => second.marks <= 1)
        /\ second.marks > 1 => ui.overlapped
    BY <1>1 DEF ResolutionsGood
  <2> HIDE DEF stage
  <2> QED
    BY <1>1, <2>1, <2>2, <2>3, <2>4, OlderServes
<1>4. CASE Older!ServerMarks
  <2> DEFINE stage == IF Older!Markable THEN "accepted" ELSE "refused"
             marks == IF Older!Markable THEN second.marks + 1 ELSE second.marks
  <2>1. PICK r \in ui.resolutions :
          /\ r.stage = "found open"
          /\ ui' = [ui EXCEPT !.resolutions = Older!Staged(r, stage)]
          /\ second' = [second EXCEPT !.resolved = TRUE, !.marks = marks]
    BY <1>1, <1>4 DEF Older!ServerMarks, ContractType
  <2>2. stage \in Older!Stages /\ stage # "found open" /\ stage \notin {"sent", "found open"}
    BY <1>a
  <2>3. Older!AtServer(r)
    BY <2>1 DEF Older!AtServer
  <2>4. /\ second.resolved = (second.marks > 0) /\ (ui.kind = "group" => second.marks <= 1)
        /\ second.marks > 1 => ui.overlapped
        /\ ~ui.overlapped => ~second.resolved
    BY <1>1, <2>1 DEF ResolutionsGood
  <2>5. marks \in Nat /\ marks > 0 /\ (marks > 1 => ui.overlapped) /\ (ui.kind = "group" => marks <= 1)
    <3>1. CASE Older!Markable
      <4>1. ui.kind = "group" => ~second.resolved
        BY <3>1 DEF Older!Markable
      <4>2. ~second.resolved => ~(second.marks > 0)
        BY <2>4
      <4>3. marks = second.marks + 1
        BY <3>1
      <4> HIDE DEF marks
      <4> QED
        BY <1>2, <2>4, <4>1, <4>2, <4>3
    <3>2. CASE ~Older!Markable
      <4>1. second.resolved /\ marks = second.marks
        BY <1>2, <3>2 DEF Older!Markable
      <4> HIDE DEF marks
      <4> QED
        BY <1>2, <2>4, <4>1
    <3> QED
      BY <3>1, <3>2
  <2> HIDE DEF stage, marks
  <2>6. /\ second' \in ContractType /\ second'.resolved = TRUE /\ second'.marks = marks
        /\ second'.policy = second.policy /\ second'.notes = second.notes
    BY <1>1, <2>1, <2>5 DEF ContractType
  <2>7. second'.resolved = (second'.marks > 0)
    BY <2>5, <2>6
  <2> QED
    BY <2>1, <2>2, <2>3, <2>5, <2>6, <2>7, OlderServes
<1> QED
  BY <1>3, <1>4

(* A step of the amendment: the rest is as it was. *)
LEMMA OlderAmend ==
    ASSUME Older!ConstantsOK, OlderGood(ui, second), SameRest(ui, ui'), ui.seen = None => ~ui'.text,
           second' \in ContractType, second'.resolved = second.resolved, second'.marks = second.marks,
           second'.policy = second.policy,
           AmendGood(ui'.amend, ui'.text, second'.notes)
    PROVE  OlderGood(ui', second')
<1>1. PageGood(ui')
  BY DEF OlderGood, PageGood, SameRest
<1>2. PolicyGood(ui', second'.policy)
  BY DEF OlderGood, PolicyGood, SameRest
<1>3. ResolutionsGood(ui', second')
  BY DEF OlderGood, SameRest, ResolutionsGood
<1> QED
  BY <1>1, <1>2, <1>3 DEF OlderGood

LEMMA OlderWrites ==
    ASSUME Older!ConstantsOK, OlderGood(ui, second), Older!WriteAmendment \/ Older!SubmitAmendment
    PROVE  OlderGood(ui', second')
<1>1. /\ ui \in OlderPage /\ PageGood(ui) /\ second \in ContractType /\ ui.sent \in Counts
      /\ ui.amend \in Amends
      /\ second.notes \in [Answers -> Nat] /\ AmendGood(ui.amend, ui.text, second.notes)
      /\ ui.text \in BOOLEAN /\ MaxRequests \in Nat
  BY OlderConstants DEF OlderGood, PageGood, OlderPage, ContractType
<1>3. CASE Older!WriteAmendment
  <2>1. /\ ui.seen # None /\ ui.amend = Older!NoForm /\ \A a \in Answers : second.notes[a] = 0
        /\ ui' = [ui EXCEPT !.text = TRUE] /\ second' = second
    BY <1>3 DEF Older!WriteAmendment, Older!CanProposeDescriptionAmendment, Older!Ready, Older!Page
  <2>2. SameRest(ui, ui') /\ ui'.amend = ui.amend /\ ui'.text = TRUE
    BY <1>1, <2>1 DEF OlderPage, SameRest
  <2>3. AmendGood(ui'.amend, ui'.text, second'.notes)
    BY <2>1, <2>2 DEF AmendGood, Older!NoForm
  <2> QED
    BY <1>1, <2>1, <2>2, <2>3, OlderAmend
<1>4. CASE Older!SubmitAmendment
  <2> DEFINE sent == ui.sent + 1
             Sent(a) == [answer |-> a, id |-> ui.sent, done |-> FALSE]
             out == ui.amend.out \union {Sent(a) : a \in Older!Options}
             amend == [ui.amend EXCEPT !.sending = TRUE, !.out = out]
  <2>1. /\ ui.seen # None /\ ui.text /\ ~ui.amend.sending /\ ui.sent < MaxRequests /\ second' = second
        /\ ui' = [ui EXCEPT !.sent = sent, !.amend = amend]
    BY <1>4 DEF Older!SubmitAmendment, Older!AmendButton, Older!CanSend, Older!Ready, Older!Page,
       Older!CanProposeDescriptionAmendment
  <2>2. \A a \in Answers : /\ Sent(a) \in Older!Amendments /\ Sent(a).answer = a
                           /\ Sent(a).id = ui.sent /\ ~Sent(a).done
    BY <1>1 DEF Older!Amendments, Counts
  <2>3. sent \in Counts
    BY <1>1, <2>1, FieldSets
  <2>4. ui.amend.out \subseteq Older!Amendments
    BY <1>1 DEF Amends
  <2> HIDE DEF Sent, sent
  <2>5. out \in SUBSET Older!Amendments
    BY <2>2, <2>4, FirstAnswer
  <2>6. ui.amend.failed = {} =>
            /\ ui.amend.out = {} /\ \A a \in Answers : second.notes[a] = 0
            /\ \A m \in out : m.answer \in Answers /\ m = Sent(m.answer) /\ m.id = ui.sent
    BY <1>1, <2>1, <2>2, FirstAnswer DEF AmendGood
  <2> HIDE DEF out
  <2>7. /\ amend \in Amends
        /\ amend.sending /\ amend.out = out /\ amend.failed = ui.amend.failed
    BY <1>1, <2>5 DEF Amends
  <2> HIDE DEF amend
  <2>8. AmendGood(amend, TRUE, second.notes)
    BY <1>1, <2>6, <2>7 DEF AmendGood
  <2>9. SameRest(ui, ui') /\ ui'.amend = amend /\ ui'.text = TRUE
    BY <1>1, <2>1, <2>3, <2>7 DEF OlderPage, SameRest
  <2>10. AmendGood(ui'.amend, ui'.text, second'.notes)
    BY <2>1, <2>8, <2>9
  <2> QED
    BY <1>1, <2>1, <2>9, <2>10, OlderAmend
<1> QED
  BY <1>3, <1>4

LEMMA OlderAmended ==
    ASSUME Older!ConstantsOK, OlderGood(ui, second),
           Older!ServerAmends \/ Older!AmendmentAnswered \/ Older!AmendmentFails
    PROVE  OlderGood(ui', second')
<1>1. /\ ui \in OlderPage /\ PageGood(ui) /\ second \in ContractType /\ ui.sent \in Counts
      /\ ui.amend \in Amends
      /\ ui.amend.out \subseteq Older!Amendments
      /\ second.notes \in [Answers -> Nat] /\ AmendGood(ui.amend, ui.text, second.notes)
      /\ ui.text \in BOOLEAN /\ (ui.seen = None => ~ui.text)
  BY DEF OlderGood, PageGood, OlderPage, ContractType, Amends
<1>3. CASE Older!ServerAmends
  <2>1. PICK m \in ui.amend.out :
            /\ ~m.done
            /\ second' = [second EXCEPT !.notes[m.answer] = @ + 1]
            /\ ui' = [ui EXCEPT !.amend.out = (@ \ {m}) \union {[m EXCEPT !.done = TRUE]}]
    BY <1>3 DEF Older!ServerAmends
  <2> DEFINE new == [m EXCEPT !.done = TRUE]
             out == (ui.amend.out \ {m}) \union {new}
             amend == [ui.amend EXCEPT !.out = out]
             more == second.notes[m.answer] + 1
             notes == [second.notes EXCEPT ![m.answer] = more]
  <2>2. m \in Older!Amendments /\ m.answer \in Answers
    BY <1>1 DEF Older!Amendments
  <2>3. new \in Older!Amendments /\ new.answer = m.answer /\ new.id = m.id /\ new.done
    BY <2>2 DEF Older!Amendments
  <2>4. ui' = [ui EXCEPT !.amend = amend] /\ second' = [second EXCEPT !.notes = notes]
    <3>1. second' = [second EXCEPT !.notes = notes]
      BY <1>1, <2>1 DEF ContractType
    <3>2. ui' = [ui EXCEPT !.amend.out = out]
      BY <2>1
    <3> HIDE DEF out, notes
    <3>3. ui' = [ui EXCEPT !.amend = amend]
      BY <1>1, <3>2 DEF OlderPage, Amends
    <3> QED
      BY <3>1, <3>3
  <2>5. more \in Nat /\ notes \in [Answers -> Nat] /\ notes[m.answer] = more
        /\ \A a \in Answers : a # m.answer => notes[a] = second.notes[a]
    BY <1>1, <2>2
  <2> HIDE DEF new, notes
  <2>6. out \in SUBSET Older!Amendments /\ \A n \in out : n = new \/ n \in ui.amend.out \ {m}
    BY <1>1, <2>3
  <2> HIDE DEF out
  <2>7. /\ amend \in Amends
        /\ amend.sending = ui.amend.sending /\ amend.out = out /\ amend.failed = ui.amend.failed
    BY <1>1, <2>6 DEF Amends
  <2> HIDE DEF amend
  <2>8. AmendGood(amend, ui.text, notes)
    <3> SUFFICES ASSUME ui.amend.failed = {}
                 PROVE  /\ \A k, n \in out : k.id = n.id /\ (k.answer = n.answer => k = n)
                        /\ \A n \in out : ~n.done => notes[n.answer] = 0
                        /\ \A a \in Answers : notes[a] <= 1
                        /\ ui.amend.sending
      BY <2>7 DEF AmendGood
    <3>1. /\ \A k, n \in ui.amend.out : k.id = n.id /\ (k.answer = n.answer => k = n)
          /\ \A n \in ui.amend.out : ~n.done => second.notes[n.answer] = 0
          /\ \A a \in Answers : second.notes[a] <= 1
          /\ ui.amend.sending
      BY <1>1, <2>1 DEF AmendGood
    <3>2. more = 1
      BY <2>1, <3>1
    <3>3. \A k, n \in out : k.id = n.id /\ (k.answer = n.answer => k = n)
      BY <2>1, <2>3, <2>6, <3>1
    <3>4. \A n \in out : n.answer \in Answers
      BY <2>6 DEF Older!Amendments
    <3>5. \A n \in out : ~n.done => notes[n.answer] = 0
      BY <2>1, <2>3, <2>5, <2>6, <3>1, <3>4
    <3>6. \A a \in Answers : notes[a] <= 1
      BY <2>5, <3>1, <3>2
    <3> QED
      BY <3>1, <3>3, <3>5, <3>6
  <2>9. SameRest(ui, ui') /\ ui'.amend = amend /\ ui'.text = ui.text
    BY <1>1, <2>4, <2>7 DEF OlderPage, SameRest
  <2>10. /\ second' \in ContractType /\ second'.notes = notes
         /\ second'.resolved = second.resolved /\ second'.policy = second.policy
         /\ second'.marks = second.marks
    BY <1>1, <2>4, <2>5 DEF ContractType
  <2>11. AmendGood(ui'.amend, ui'.text, second'.notes)
    BY <2>8, <2>9, <2>10
  <2> QED
    BY <1>1, <2>9, <2>10, <2>11, OlderAmend
<1>4. CASE Older!AmendmentAnswered
  <2>1. PICK m \in ui.amend.out :
            LET left == ui.amend.out \ {m}
                all  == m.id \notin ui.amend.failed /\ \A n \in left : n.id # m.id
            IN  /\ m.done
                /\ Older!Page([ui EXCEPT !.amend.out = left, !.amend.sending = @ /\ ~all,
                                         !.text = @ /\ ~all])
    BY <1>4 DEF Older!AmendmentAnswered
  <2> DEFINE left == ui.amend.out \ {m}
             all == m.id \notin ui.amend.failed /\ \A n \in left : n.id # m.id
             sending == ui.amend.sending /\ ~all
             text == ui.text /\ ~all
             amend == [ui.amend EXCEPT !.out = left, !.sending = sending]
  <2>2. sending \in BOOLEAN /\ text \in BOOLEAN /\ left \in SUBSET Older!Amendments
    BY <1>1
  <2>3. ui' = [ui EXCEPT !.amend = amend, !.text = text] /\ second' = second
    <3>1. ui' = [ui EXCEPT !.amend.out = left, !.amend.sending = sending, !.text = text]
      BY <1>1, <2>1 DEF Older!Page, OlderPage, Amends
    <3>2. second' = second
      BY <2>1 DEF Older!Page
    <3> HIDE DEF left, all, sending, text
    <3> QED
      BY <1>1, <3>1, <3>2 DEF OlderPage, Amends
  <2>4. ui.amend.failed = {} =>
            /\ left # {} => ~all
            /\ ui.amend.sending
    BY <1>1 DEF AmendGood
  <2>5. /\ all => ~text
        /\ ~all => (sending = ui.amend.sending)
        /\ text => ui.text
    BY <1>1 DEF Amends
  <2> HIDE DEF left, all, sending, text
  <2>6. /\ amend \in Amends
        /\ amend.sending = sending /\ amend.out = left /\ amend.failed = ui.amend.failed
    BY <1>1, <2>2 DEF Amends
  <2> HIDE DEF amend
  <2>7. left \subseteq ui.amend.out
    BY DEF left
  <2>8. AmendGood(amend, text, second.notes)
    BY <1>1, <2>4, <2>5, <2>6, <2>7 DEF AmendGood
  <2>9. SameRest(ui, ui') /\ ui'.amend = amend /\ ui'.text = text
    BY <1>1, <2>2, <2>3, <2>6 DEF OlderPage, SameRest
  <2>10. AmendGood(ui'.amend, ui'.text, second'.notes) /\ (ui.seen = None => ~ui'.text)
    BY <1>1, <2>3, <2>5, <2>8, <2>9
  <2> QED
    BY <1>1, <2>3, <2>9, <2>10, OlderAmend
<1>5. CASE Older!AmendmentFails
  <2>1. PICK m \in ui.amend.out :
            Older!Page([ui EXCEPT !.amend = [sending |-> @.sending /\ m.id \in @.failed,
                                             out |-> @.out \ {m}, failed |-> @.failed \union {m.id}]])
    BY <1>5 DEF Older!AmendmentFails
  <2> DEFINE left == ui.amend.out \ {m}
             sending == ui.amend.sending /\ m.id \in ui.amend.failed
             failed == ui.amend.failed \union {m.id}
             amend == [sending |-> sending, out |-> left, failed |-> failed]
  <2>2. ui' = [ui EXCEPT !.amend = amend] /\ second' = second
    BY <2>1 DEF Older!Page
  <2>3. /\ left \in SUBSET Older!Amendments /\ sending \in BOOLEAN
        /\ failed \in SUBSET (0..MaxRequests) /\ failed # {}
    BY <1>1 DEF Amends, Older!Amendments
  <2> HIDE DEF left, sending, failed
  <2>4. /\ amend \in Amends
        /\ amend.failed # {}
    BY <2>3 DEF Amends
  <2> HIDE DEF amend
  <2>5. AmendGood(amend, ui.text, second.notes)
    BY <2>4 DEF AmendGood
  <2>6. SameRest(ui, ui') /\ ui'.amend = amend /\ ui'.text = ui.text
    BY <1>1, <2>2, <2>4 DEF OlderPage, SameRest
  <2>7. AmendGood(ui'.amend, ui'.text, second'.notes)
    BY <2>2, <2>5, <2>6
  <2> QED
    BY <1>1, <2>2, <2>6, <2>7, OlderAmend
<1> QED
  BY <1>3, <1>4, <1>5

(* A step of the load or of the policy: the other forms are as they were. *)
LEMMA OlderPolicy ==
    ASSUME Older!ConstantsOK, OlderGood(ui, second), ui' \in OlderPage,
           ui'.amend = ui.amend, ui'.text = ui.text, ui'.kind = ui.kind,
           ui'.resolutions = ui.resolutions, ui'.overlapped = ui.overlapped, ui'.modal = ui.modal,
           ui'.seen = None => (ui.seen = None /\ ui'.winner = ui.winner),
           second' \in ContractType, second'.notes = second.notes, second'.resolved = second.resolved,
           second'.marks = second.marks, PolicyGood(ui', second'.policy)
    PROVE  OlderGood(ui', second')
  BY DEF OlderGood, PageGood, ResolutionsGood

LEMMA OlderLoads ==
    ASSUME Older!ConstantsOK, OlderGood(ui, second),
           Older!LoadRead \/ Older!LoadAnswered \/ Older!LoadFailed
    PROVE  OlderGood(ui', second')
<1>1. /\ ui \in OlderPage /\ PolicyGood(ui, second.policy) /\ second \in ContractType
      /\ ui.load \in Loading /\ ui.saving \in Saving
      /\ ui.seen \in Seen /\ ui.policy \in BOOLEAN
      /\ second.policy \in BOOLEAN /\ second.resolved \in BOOLEAN
      /\ ui.winner \in Picks /\ ui.trade \in Picks
      /\ None \notin Older!Snapshots /\ None \notin Older!Loads /\ None \notin Older!Savings
  BY OlderConstants DEF OlderGood, PageGood, OlderPage, ContractType
<1>2. CASE Older!LoadRead
  <2> DEFINE got == Older!Snapshot
             load == [got |-> got]
  <2>1. got \in Older!Snapshots /\ got.policy = second.policy
    BY <1>1 DEF Older!Snapshot, Older!Snapshots
  <2>2. ui.load \in Older!Loads /\ second' = second /\ ui' = [ui EXCEPT !.load.got = got]
    BY <1>1, <1>2, FieldSets DEF Older!LoadRead, Older!Page
  <2> HIDE DEF got
  <2>3. load \in Older!Loads /\ load.got = got
    BY <2>1 DEF Older!Loads
  <2>4. ui' = [ui EXCEPT !.load = load]
    BY <1>1, <2>2 DEF OlderPage, Older!Loads
  <2> HIDE DEF load
  <2>5. /\ ui' \in OlderPage /\ ui'.load = load
        /\ ui'.seen = ui.seen /\ ui'.failed = ui.failed /\ ui'.policy = ui.policy
        /\ ui'.saving = ui.saving /\ ui'.astray = ui.astray /\ ui'.lost = ui.lost /\ ui'.amend = ui.amend
        /\ ui'.text = ui.text /\ ui'.kind = ui.kind
        /\ ui'.resolutions = ui.resolutions /\ ui'.overlapped = ui.overlapped /\ ui'.modal = ui.modal /\ ui'.winner = ui.winner
    BY <1>1, <2>3, <2>4, FieldSets DEF OlderPage
  <2>6. PolicyGood(ui', second.policy)
    BY <1>1, <2>1, <2>3, <2>5 DEF PolicyGood
  <2> QED
    BY <1>1, <2>2, <2>5, <2>6, OlderPolicy
<1>3. CASE Older!LoadAnswered
  <2> DEFINE got == ui.load.got
             moves == got.policy # (ui.seen # None /\ ui.seen.policy)
             first == CHOOSE a \in Older!Options : TRUE
             winner == IF ui.winner = None THEN first ELSE ui.winner
             trade == IF ui.trade = None THEN first ELSE ui.trade
             policy == IF moves THEN got.policy ELSE ui.policy
             saving == IF ui.saving # None /\ moves THEN [ui.saving EXCEPT !.moved = TRUE] ELSE ui.saving
             lost == ui.lost /\ ~(moves /\ got.policy = second.policy)
  <2>1. /\ ui.load # None /\ got # None /\ second' = second
        /\ ui' = [ui EXCEPT !.load = None, !.seen = got, !.failed = FALSE, !.winner = winner,
                            !.trade = trade, !.policy = policy, !.saving = saving, !.lost = lost]
    BY <1>3 DEF Older!LoadAnswered, Older!Page, Older!Moves, Older!Ready
  <2>2. got \in Older!Snapshots /\ got.policy \in BOOLEAN
    BY <1>1, <2>1, FieldSets DEF Older!Loads, Older!Snapshots
  <2>3. winner \in Picks /\ trade \in Picks /\ policy \in BOOLEAN
    BY <1>1, <2>2, FirstAnswer, FieldSets
  <2>4. /\ saving \in Saving
        /\ saving = None <=> ui.saving = None
        /\ saving # None => /\ saving.policy = ui.saving.policy /\ saving.done = ui.saving.done
                            /\ ~saving.moved => (~ui.saving.moved /\ ~moves)
    <3>1. CASE ui.saving # None /\ moves
      <4>1. ui.saving \in Older!Savings
        BY <1>1, <3>1, FieldSets
      <4>2. saving = [ui.saving EXCEPT !.moved = TRUE]
        BY <3>1
      <4> HIDE DEF saving
      <4>3. /\ saving \in Older!Savings /\ saving.policy = ui.saving.policy
            /\ saving.done = ui.saving.done /\ saving.moved = TRUE
        BY <4>1, <4>2 DEF Older!Savings
      <4> QED
        BY <1>1, <3>1, <4>3, FieldSets
    <3>2. CASE ~(ui.saving # None /\ moves)
      BY <1>1, <3>2
    <3> QED
      BY <3>1, <3>2
  <2>5. /\ moves => policy = got.policy
        /\ ~moves => policy = ui.policy /\ got.policy = (ui.seen # None /\ ui.seen.policy)
    OBVIOUS
  <2>b. lost \in BOOLEAN /\ (~lost => ~ui.lost \/ (moves /\ got.policy = second.policy))
    OBVIOUS
  <2> HIDE DEF got, moves, first, winner, trade, policy, saving, lost
  <2>6. /\ ui' \in OlderPage /\ ui'.load = None
        /\ ui'.seen = got /\ ui'.failed = FALSE /\ ui'.policy = policy
        /\ ui'.saving = saving /\ ui'.astray = ui.astray /\ ui'.lost = lost /\ ui'.amend = ui.amend
        /\ ui'.text = ui.text /\ ui'.kind = ui.kind
        /\ ui'.resolutions = ui.resolutions /\ ui'.overlapped = ui.overlapped /\ ui'.modal = ui.modal
    <3>1. None \in Loading /\ got \in Seen /\ FALSE \in BOOLEAN
      BY <2>2, FieldSets
    <3>2. ui' \in OlderPage
      BY <1>1, <2>1, <2>3, <2>4, <2>b, <3>1 DEF OlderPage
    <3> QED
      BY <1>1, <2>1, <3>2 DEF OlderPage
  <2>7. ((saving = None \/ ~saving.done) /\ ~lost) => got.policy = second.policy
    BY <1>1, <2>1, <2>4, <2>b DEF PolicyGood, got
  <2>8. (saving = None /\ ~ui.astray /\ ~lost) => policy = second.policy
    <3> SUFFICES ASSUME saving = None, ~ui.astray, ~lost
                 PROVE  policy = second.policy
      OBVIOUS
    <3>1. got.policy = second.policy /\ ui.saving = None
      BY <2>4, <2>7
    <3>2. /\ ~ui.lost => Puts(ui.seen, second.policy, ui.policy)
          /\ ui.seen = None => ~ui.policy /\ ~second.policy
      BY <1>1, <3>1 DEF PolicyGood
    <3>3. CASE moves
      BY <2>5, <3>1, <3>3
    <3>4. CASE ~moves
      <4>1. policy = ui.policy /\ second.policy = (ui.seen # None /\ ui.seen.policy)
        BY <2>5, <3>1, <3>4
      <4>2. CASE ui.seen = None
        BY <1>1, <3>2, <4>1, <4>2
      <4>3. CASE ui.seen # None
        <5>1. ui.seen.policy \in BOOLEAN
          BY <1>1, <4>3, FieldSets DEF Older!Snapshots
        <5>2. second.policy = ui.seen.policy
          BY <1>1, <4>1, <4>3, <5>1
        <5> QED
          BY <2>b, <3>2, <3>4, <4>1, <5>2 DEF Puts
      <4> QED
        BY <4>2, <4>3
    <3> QED
      BY <3>3, <3>4
  <2>9. saving # None =>
            /\ policy = saving.policy \/ got.policy = policy
            /\ saving.done => saving.policy = second.policy
            /\ (~saving.done /\ ~saving.moved /\ ~ui.astray /\ ~lost) => Puts(got, second.policy, ~saving.policy)
    <3> SUFFICES ASSUME saving # None
                 PROVE  /\ policy = saving.policy \/ got.policy = policy
                        /\ saving.done => saving.policy = second.policy
                        /\ (~saving.done /\ ~saving.moved /\ ~ui.astray /\ ~lost) =>
                               Puts(got, second.policy, ~saving.policy)
      OBVIOUS
    <3>1. ui.saving # None /\ saving.policy = ui.saving.policy /\ saving.done = ui.saving.done
      BY <2>4
    <3>2. /\ ui.seen # None
          /\ ui.policy = ui.saving.policy \/ ui.seen.policy = ui.policy
          /\ ui.saving.done => ui.saving.policy = second.policy
          /\ (~ui.saving.done /\ ~ui.saving.moved /\ ~ui.astray /\ ~ui.lost) =>
                 Puts(ui.seen, second.policy, ~ui.saving.policy)
      BY <1>1, <3>1 DEF PolicyGood
    <3>3. ui.seen.policy \in BOOLEAN
      BY <1>1, <3>2, FieldSets DEF Older!Snapshots
    <3>4. ~moves => policy = ui.policy /\ got.policy = ui.seen.policy
      BY <2>2, <2>5, <3>2, <3>3
    <3>5. policy = saving.policy \/ got.policy = policy
      BY <2>5, <3>1, <3>2, <3>4
    <3>6. (~saving.done /\ ~saving.moved /\ ~ui.astray /\ ~lost) => Puts(got, second.policy, ~saving.policy)
      <4> SUFFICES ASSUME ~saving.done, ~saving.moved, ~ui.astray, ~lost
                   PROVE  Puts(got, second.policy, ~saving.policy)
        OBVIOUS
      <4>1. ~ui.saving.moved /\ ~moves /\ ~ui.lost
        BY <2>4, <2>b
      <4>2. Puts(ui.seen, second.policy, ~ui.saving.policy) /\ got.policy = ui.seen.policy
        BY <3>1, <3>2, <3>4, <4>1
      <4> QED
        BY <2>1, <3>1, <4>2 DEF Puts
    <3> QED
      BY <3>1, <3>2, <3>5, <3>6
  <2>10. PolicyGood(ui', second.policy)
    BY <2>1, <2>6, <2>7, <2>8, <2>9 DEF PolicyGood, Puts
  <2>11. ui'.seen # None
    BY <2>1, <2>6
  <2> QED
    BY <1>1, <2>1, <2>6, <2>10, <2>11, OlderPolicy
<1>4. CASE Older!LoadFailed
  <2>1. second' = second /\ ui' = [ui EXCEPT !.load = None, !.failed = TRUE]
    BY <1>4 DEF Older!LoadFailed, Older!Page
  <2>2. /\ ui' \in OlderPage /\ ui'.load = None
        /\ ui'.seen = ui.seen /\ ui'.failed = TRUE /\ ui'.policy = ui.policy
        /\ ui'.saving = ui.saving /\ ui'.astray = ui.astray /\ ui'.lost = ui.lost /\ ui'.amend = ui.amend
        /\ ui'.text = ui.text /\ ui'.kind = ui.kind
        /\ ui'.resolutions = ui.resolutions /\ ui'.overlapped = ui.overlapped /\ ui'.modal = ui.modal /\ ui'.winner = ui.winner
    BY <1>1, <2>1, FieldSets DEF OlderPage
  <2>3. PolicyGood(ui', second.policy)
    BY <1>1, <2>2 DEF PolicyGood
  <2> QED
    BY <1>1, <2>1, <2>2, <2>3, OlderPolicy
<1> QED
  BY <1>2, <1>3, <1>4

LEMMA OlderSaves ==
    ASSUME Older!ConstantsOK, OlderGood(ui, second),
           \/ Older!ToggleAnswerAdditionPolicy \/ Older!ServerSaves
           \/ Older!SaveAnswered \/ Older!SaveFailed
    PROVE  OlderGood(ui', second')
<1>1. /\ ui \in OlderPage /\ PolicyGood(ui, second.policy) /\ second \in ContractType
      /\ ui.load \in Loading /\ ui.saving \in Saving
      /\ ui.seen \in Seen /\ ui.policy \in BOOLEAN
      /\ second.policy \in BOOLEAN /\ ui.sent \in Counts /\ ui.astray \in BOOLEAN /\ ui.lost \in BOOLEAN
      /\ None \notin Older!Snapshots /\ None \notin Older!Loads /\ None \notin Older!Savings
      /\ MaxRequests \in Nat
  BY OlderConstants DEF OlderGood, PageGood, OlderPage, ContractType
<1>2. CASE Older!ToggleAnswerAdditionPolicy
  <2> DEFINE sent == ui.sent + 1
             policy == ~ui.policy
             saving == [policy |-> policy, done |-> FALSE, moved |-> FALSE]
  <2>1. /\ ui.saving = None /\ ui.seen # None /\ ui.sent < MaxRequests /\ second' = second
        /\ ui' = [ui EXCEPT !.sent = sent, !.policy = policy, !.saving = saving]
    BY <1>2 DEF Older!ToggleAnswerAdditionPolicy, Older!CanManageAnswerAdditions, Older!Ready,
       Older!CanSend, Older!Page
  <2>2. sent \in Counts /\ policy \in BOOLEAN /\ (~policy) = ui.policy
    BY <1>1, <2>1, FieldSets
  <2> HIDE DEF sent, policy
  <2>3. saving \in Older!Savings /\ saving.policy = policy /\ ~saving.done /\ ~saving.moved
    BY <2>2 DEF Older!Savings
  <2> HIDE DEF saving
  <2>4. /\ ui' \in OlderPage /\ ui'.load = ui.load
        /\ ui'.seen = ui.seen /\ ui'.failed = ui.failed /\ ui'.policy = policy
        /\ ui'.saving = saving /\ ui'.astray = ui.astray /\ ui'.lost = ui.lost /\ ui'.amend = ui.amend
        /\ ui'.text = ui.text /\ ui'.kind = ui.kind
        /\ ui'.resolutions = ui.resolutions /\ ui'.overlapped = ui.overlapped /\ ui'.modal = ui.modal /\ ui'.winner = ui.winner
    BY <1>1, <2>1, <2>2, <2>3, FieldSets DEF OlderPage
  <2>5. ~(ui.astray \/ ui.lost) => Puts(ui.seen, second.policy, ui.policy)
    BY <1>1, <2>1 DEF PolicyGood
  <2>6. ~(ui.astray \/ ui.lost) => Puts(ui.seen, second.policy, ~saving.policy)
    BY <2>2, <2>3, <2>5
  <2>7. PolicyGood(ui', second.policy)
    BY <1>1, <2>1, <2>3, <2>4, <2>6 DEF PolicyGood
  <2> QED
    BY <1>1, <2>1, <2>4, <2>7, OlderPolicy
<1>3. CASE Older!ServerSaves
  <2> DEFINE saving == [ui.saving EXCEPT !.done = TRUE]
             saved == ui.saving.policy
  <2>1. /\ ui.saving # None /\ ui.saving \in Older!Savings
        /\ second' = [second EXCEPT !.policy = saved]
        /\ ui' = [ui EXCEPT !.saving.done = TRUE]
    BY <1>1, <1>3, FieldSets DEF Older!ServerSaves
  <2>2. /\ saving \in Older!Savings /\ saving.policy = saved /\ saving.done = TRUE
        /\ saving.moved = ui.saving.moved /\ saved \in BOOLEAN
    BY <2>1 DEF Older!Savings
  <2>3. ui' = [ui EXCEPT !.saving = saving]
    BY <1>1, <2>1 DEF OlderPage
  <2> HIDE DEF saving
  <2>4. /\ ui' \in OlderPage /\ ui'.load = ui.load
        /\ ui'.seen = ui.seen /\ ui'.failed = ui.failed /\ ui'.policy = ui.policy
        /\ ui'.saving = saving /\ ui'.astray = ui.astray /\ ui'.lost = ui.lost /\ ui'.amend = ui.amend
        /\ ui'.text = ui.text /\ ui'.kind = ui.kind
        /\ ui'.resolutions = ui.resolutions /\ ui'.overlapped = ui.overlapped /\ ui'.modal = ui.modal /\ ui'.winner = ui.winner
    BY <1>1, <2>2, <2>3, FieldSets DEF OlderPage
  <2>5. /\ second' \in ContractType /\ second'.policy = saved /\ second'.notes = second.notes
        /\ second'.resolved = second.resolved /\ second'.marks = second.marks
    BY <1>1, <2>1, <2>2 DEF ContractType
  <2>6. ui.seen # None /\ (ui.policy = ui.saving.policy \/ ui.seen.policy = ui.policy)
    BY <1>1, <2>1 DEF PolicyGood
  <2>7. saving # None
    BY <1>1, <2>2
  <2>8. PolicyGood(ui', saved)
    BY <2>2, <2>4, <2>6, <2>7 DEF PolicyGood
  <2> QED
    BY <2>4, <2>5, <2>8, OlderPolicy
<1>4. CASE Older!SaveAnswered
  <2> DEFINE load == [got |-> None]
             p == [ui EXCEPT !.saving = None, !.astray = FALSE, !.lost = FALSE]
  <2>1. /\ ui.saving # None /\ ui.saving.done /\ second' = second
        /\ ui' = [p EXCEPT !.load = load]
    BY <1>4 DEF Older!SaveAnswered, Older!Page, Older!Reloading
  <2>2. load \in Older!Loads /\ load.got = None
    BY DEF Older!Loads
  <2> HIDE DEF load
  <2>3. ui' = [ui EXCEPT !.saving = None, !.astray = FALSE, !.lost = FALSE, !.load = load]
    BY <1>1, <2>1 DEF OlderPage
  <2>4. /\ ui' \in OlderPage /\ ui'.load = load
        /\ ui'.seen = ui.seen /\ ui'.failed = ui.failed /\ ui'.policy = ui.policy
        /\ ui'.saving = None /\ ui'.astray = FALSE /\ ui'.lost = FALSE /\ ui'.amend = ui.amend
        /\ ui'.text = ui.text /\ ui'.kind = ui.kind
        /\ ui'.resolutions = ui.resolutions /\ ui'.overlapped = ui.overlapped /\ ui'.modal = ui.modal /\ ui'.winner = ui.winner
    BY <1>1, <2>2, <2>3, FieldSets DEF OlderPage
  <2>5. /\ ui.seen # None /\ (ui.policy = ui.saving.policy \/ ui.seen.policy = ui.policy)
        /\ ui.saving.policy = second.policy
    BY <1>1, <2>1 DEF PolicyGood
  <2>6. Puts(ui.seen, second.policy, ui.policy)
    BY <2>5 DEF Puts
  <2>7. load # None
    BY <1>1, <2>2
  <2>8. PolicyGood(ui', second.policy)
    BY <2>2, <2>4, <2>5, <2>6, <2>7 DEF PolicyGood
  <2> QED
    BY <1>1, <2>1, <2>4, <2>8, OlderPolicy
<1>5. CASE Older!SaveFailed
  <2> DEFINE policy == ~ui.saving.policy
             astray == ui.astray \/ ui.saving.moved
             lost == ui.lost \/ ui.saving.done
             p == [ui EXCEPT !.policy = policy, !.astray = astray, !.lost = lost]
  <2>1. /\ ui.saving # None /\ second' = second
        /\ ui' = [p EXCEPT !.saving = None]
    BY <1>5 DEF Older!SaveFailed, Older!Page, Older!Reverted
  <2>2. /\ policy \in BOOLEAN /\ astray \in BOOLEAN /\ lost \in BOOLEAN
        /\ ~lost => ~ui.lost /\ ~ui.saving.done
    OBVIOUS
  <2>3. /\ ui.seen # None
        /\ (~astray /\ ~lost) => Puts(ui.seen, second.policy, policy)
    BY <1>1, <2>1 DEF PolicyGood
  <2> HIDE DEF policy, astray, lost
  <2>4. ui' = [ui EXCEPT !.policy = policy, !.astray = astray, !.lost = lost, !.saving = None]
    BY <1>1, <2>1 DEF OlderPage
  <2>5. /\ ui' \in OlderPage /\ ui'.load = ui.load
        /\ ui'.seen = ui.seen /\ ui'.failed = ui.failed /\ ui'.policy = policy
        /\ ui'.saving = None /\ ui'.astray = astray /\ ui'.lost = lost /\ ui'.amend = ui.amend
        /\ ui'.text = ui.text /\ ui'.kind = ui.kind
        /\ ui'.resolutions = ui.resolutions /\ ui'.overlapped = ui.overlapped /\ ui'.modal = ui.modal /\ ui'.winner = ui.winner
    BY <1>1, <2>2, <2>4, FieldSets DEF OlderPage
  <2>6. PolicyGood(ui', second.policy)
    BY <1>1, <2>1, <2>2, <2>3, <2>5 DEF PolicyGood
  <2> QED
    BY <1>1, <2>1, <2>5, <2>6, OlderPolicy
<1> QED
  BY <1>2, <1>3, <1>4, <1>5

LEMMA OlderNextInv ==
    ASSUME Older!ConstantsOK, Older!GroupInv, [Older!Next]_<<ui, second>>
    PROVE  Older!GroupInv'
<1>1. OlderGood(ui, second)
  BY OlderInvIs
<1>2. CASE UNCHANGED <<ui, second>>
  BY <1>1, <1>2, OlderInvIsNext
<1>3. CASE \/ Older!CloseTimePasses \/ Older!OpenTrade \/ Older!Order \/ Older!CloseModal
           \/ Older!OpenResolve \/ Older!QueueLoads \/ Older!ReviewAddition
           \/ \E m \in {"exclusive_yes", "manual", "na"} : Older!SetResolveMode(m)
           \/ \E a \in Answers : Older!SelectTrade(a) \/ Older!SetWinner(a)
  BY <1>1, <1>3, OlderButtons, OlderInvIsNext
<1>4. CASE Older!HandleTransactionSuccess \/ Older!SubmitAnswerAddition \/ Older!AdditionReviewed
  BY <1>1, <1>4, OlderReloads, OlderInvIsNext
<1>5. CASE Older!ConfirmResolution \/ Older!ResolutionAnswered \/ Older!ResolutionLost
  BY <1>1, <1>5, OlderResolves, OlderInvIsNext
<1>6. CASE Older!ServerLooks \/ Older!ServerMarks
  BY <1>1, <1>6, OlderServerResolves, OlderInvIsNext
<1>7. CASE Older!WriteAmendment \/ Older!SubmitAmendment
  BY <1>1, <1>7, OlderWrites, OlderInvIsNext
<1>8. CASE Older!ServerAmends \/ Older!AmendmentAnswered \/ Older!AmendmentFails
  BY <1>1, <1>8, OlderAmended, OlderInvIsNext
<1>9. CASE Older!LoadRead \/ Older!LoadAnswered \/ Older!LoadFailed
  BY <1>1, <1>9, OlderLoads, OlderInvIsNext
<1>10. CASE \/ Older!ToggleAnswerAdditionPolicy \/ Older!ServerSaves
            \/ Older!SaveAnswered \/ Older!SaveFailed
  BY <1>1, <1>10, OlderSaves, OlderInvIsNext
<1> QED
  BY <1>2, <1>3, <1>4, <1>5, <1>6, <1>7, <1>8, <1>9, <1>10 DEF Older!Next
-----------------------------------------------------------------------------
(* The bookmarks. *)
LEMMA ListsInitInv == Bookmarks!ConstantsOK /\ Bookmarks!Init => Bookmarks!ListsInv
<1> SUFFICES ASSUME Bookmarks!ConstantsOK, Bookmarks!Init
             PROVE  Bookmarks!ListsInv
  OBVIOUS
<1>1. ui = {} /\ second \in [Windows -> Bookmarks!TabType]
  BY DEF Bookmarks!Init, Bookmarks!TabType, Bookmarks!ConstantsOK
<1>2. \A w \in Windows : second[w].cache = None
  BY DEF Bookmarks!Init
<1> QED
  BY <1>1, <1>2 DEF Bookmarks!ListsInv, Bookmarks!TypeOK, Bookmarks!CopyIsCurrent, Bookmarks!Ids

(* What a tab shows is a set of markets. *)
LEMMA IdsAreMarkets ==
    ASSUME Bookmarks!ConstantsOK, Bookmarks!ListsInv, NEW w \in Windows
    PROVE  Bookmarks!Ids(w) \subseteq Followed /\ Bookmarks!Ids(w) \in SUBSET Followed
  BY DEF Bookmarks!ListsInv, Bookmarks!TypeOK, Bookmarks!Ids, Bookmarks!TabType, Bookmarks!Copies

(* A step of one tab alone: it keeps a copy that was current. *)
LEMMA TabSteps ==
    ASSUME Bookmarks!ListsInv, NEW w \in Windows, NEW r \in Bookmarks!TabType, Bookmarks!Tab(w, r),
           (~r.told /\ ~r.missed) => (IF r.cache = None THEN ui ELSE r.cache.ids) = ui
    PROVE  Bookmarks!ListsInv'
<1>1. second' \in [Windows -> Bookmarks!TabType] /\ ui' = ui
  BY DEF Bookmarks!ListsInv, Bookmarks!TypeOK, Bookmarks!Tab
<1>2. \A x \in Windows : second'[x] = IF x = w THEN r ELSE second[x]
  BY DEF Bookmarks!ListsInv, Bookmarks!TypeOK, Bookmarks!Tab
<1>3. Bookmarks!CopyIsCurrent'
  BY <1>1, <1>2 DEF Bookmarks!ListsInv, Bookmarks!CopyIsCurrent, Bookmarks!Ids
<1> QED
  BY <1>1, <1>3 DEF Bookmarks!ListsInv, Bookmarks!TypeOK

LEMMA TabStepsInv ==
    ASSUME Bookmarks!ConstantsOK, Bookmarks!ListsInv, NEW w \in Windows,
           \/ Bookmarks!Mount(w) \/ Bookmarks!Unmount(w) \/ Bookmarks!StorageEvent(w)
           \/ Bookmarks!Dismiss(w) \/ Bookmarks!Gone(w)
    PROVE  Bookmarks!ListsInv' /\ second'[w].toggles = second[w].toggles
           /\ \A x \in Windows \ {w} : second'[x] = second[x]
<1> DEFINE old == second[w]
<1>1. /\ second \in [Windows -> Bookmarks!TabType] /\ old \in Bookmarks!TabType
      /\ (~old.told /\ ~old.missed) => (IF old.cache = None THEN ui ELSE old.cache.ids) = ui
  BY DEF Bookmarks!ListsInv, Bookmarks!TypeOK, Bookmarks!CopyIsCurrent, Bookmarks!Ids
<1>2. Bookmarks!Ids(w) = IF old.cache = None THEN ui ELSE old.cache.ids
  BY DEF Bookmarks!Ids
<1>3. ASSUME NEW r \in Bookmarks!TabType, Bookmarks!Tab(w, r), r.toggles = old.toggles,
             (~r.told /\ ~r.missed) => (IF r.cache = None THEN ui ELSE r.cache.ids) = ui
      PROVE  Bookmarks!ListsInv' /\ second'[w].toggles = second[w].toggles
             /\ \A x \in Windows \ {w} : second'[x] = second[x]
  <2>1. Bookmarks!ListsInv'
    BY <1>3, TabSteps
  <2> QED
    BY <1>1, <1>3, <2>1 DEF Bookmarks!Tab
<1>4. CASE Bookmarks!Mount(w)
  <2> DEFINE copy == [ids |-> Bookmarks!Ids(w)]
  <2>1. copy \in Bookmarks!Copies /\ copy # None /\ copy.ids = Bookmarks!Ids(w)
    BY IdsAreMarkets DEF Bookmarks!Copies, Bookmarks!ConstantsOK
  <2> HIDE DEF copy
  <2> DEFINE r == [old EXCEPT !.listening = TRUE, !.cache = copy]
  <2>2. r \in Bookmarks!TabType
    BY <1>1, <2>1 DEF Bookmarks!TabType
  <2>3. Bookmarks!Tab(w, r)
    BY <1>4 DEF Bookmarks!Mount, copy
  <2>4. r.toggles = old.toggles /\ r.told = old.told /\ r.missed = old.missed /\ r.cache = copy
    BY <1>1 DEF Bookmarks!TabType
  <2> QED
    BY <1>1, <1>2, <1>3, <2>1, <2>2, <2>3, <2>4
<1>5. CASE Bookmarks!Unmount(w)
  <2> DEFINE r == [old EXCEPT !.listening = FALSE, !.told = FALSE, !.missed = @ \/ old.told]
  <2>1. r = [old EXCEPT !.listening = FALSE, !.told = FALSE, !.missed = old.missed \/ old.told]
    BY <1>1 DEF Bookmarks!TabType
  <2>2. r \in Bookmarks!TabType
    BY <1>1, <2>1 DEF Bookmarks!TabType
  <2>3. Bookmarks!Tab(w, r)
    BY <1>5 DEF Bookmarks!Unmount
  <2>4. r.toggles = old.toggles /\ r.missed = (old.missed \/ old.told) /\ r.cache = old.cache
    BY <1>1, <2>1 DEF Bookmarks!TabType
  <2> QED
    BY <1>1, <1>2, <1>3, <2>2, <2>3, <2>4
<1>6. CASE Bookmarks!StorageEvent(w)
  <2> DEFINE r == Bookmarks!Told(old)
  <2>1. r = [old EXCEPT !.told = FALSE, !.cache = None, !.missed = FALSE]
    BY DEF Bookmarks!Told
  <2>2. r \in Bookmarks!TabType
    BY <1>1, <2>1 DEF Bookmarks!TabType
  <2>3. Bookmarks!Tab(w, r)
    BY <1>6 DEF Bookmarks!StorageEvent
  <2>4. r.toggles = old.toggles /\ r.cache = None
    BY <1>1, <2>1 DEF Bookmarks!TabType
  <2> QED
    BY <1>1, <1>2, <1>3, <2>2, <2>3, <2>4
<1>7. CASE Bookmarks!Dismiss(w)
  <2> DEFINE r == [old EXCEPT !.note = "leaving"]
  <2>1. r \in Bookmarks!TabType
    BY <1>1 DEF Bookmarks!TabType
  <2>2. Bookmarks!Tab(w, r)
    BY <1>7 DEF Bookmarks!Dismiss
  <2>3. r.toggles = old.toggles /\ r.cache = old.cache /\ r.told = old.told /\ r.missed = old.missed
    BY <1>1 DEF Bookmarks!TabType
  <2> QED
    BY <1>1, <1>2, <1>3, <2>1, <2>2, <2>3
<1>8. CASE Bookmarks!Gone(w)
  <2> DEFINE r == [old EXCEPT !.note = "none"]
  <2>1. r \in Bookmarks!TabType
    BY <1>1 DEF Bookmarks!TabType
  <2>2. Bookmarks!Tab(w, r)
    BY <1>8 DEF Bookmarks!Gone
  <2>3. r.toggles = old.toggles /\ r.cache = old.cache /\ r.told = old.told /\ r.missed = old.missed
    BY <1>1 DEF Bookmarks!TabType
  <2> QED
    BY <1>1, <1>2, <1>3, <2>1, <2>2, <2>3
<1> QED
  BY <1>4, <1>5, <1>6, <1>7, <1>8

(* A toggle writes the copy of its tab and tells or passes the others by. *)
LEMMA TogglesInv ==
    ASSUME Bookmarks!ConstantsOK, Bookmarks!ListsInv, NEW w \in Windows, NEW m \in Followed,
           Bookmarks!Toggle(w, m)
    PROVE  /\ Bookmarks!ListsInv' /\ ui' = Bookmarks!Toggled(Bookmarks!Ids(w), m)
           /\ \A x \in Windows \ {w} : second'[x].toggles = second[x].toggles
<1> DEFINE ids == Bookmarks!Toggled(Bookmarks!Ids(w), m)
           note == IF Bookmarks!IsWatched(w, m) THEN "removed" ELSE "added"
           copy == [ids |-> ids]
<1>1. /\ second \in [Windows -> Bookmarks!TabType] /\ MaxToggles \in Nat
      /\ \A x \in Windows : /\ second[x] \in Bookmarks!TabType
                            /\ second[x].toggles \in 0..MaxToggles
  BY DEF Bookmarks!ListsInv, Bookmarks!TypeOK, Bookmarks!TabType, Bookmarks!ConstantsOK
<1>2. ids \in SUBSET Followed /\ note \in {"removed", "added"}
  BY IdsAreMarkets DEF Bookmarks!Toggled
<1>3. Bookmarks!Write(w, ids, note) /\ second[w].toggles < MaxToggles
  BY DEF Bookmarks!Toggle
<1>4. copy \in Bookmarks!Copies /\ copy # None /\ copy.ids = ids
  BY <1>2 DEF Bookmarks!Copies, Bookmarks!ConstantsOK
<1>5. ui' = ids
  BY <1>3 DEF Bookmarks!Write
<1>6. second' = [x \in Windows |->
        IF x = w THEN [second[w] EXCEPT !.cache = copy, !.note = note, !.toggles = second[w].toggles + 1]
        ELSE IF second[x].listening THEN [second[x] EXCEPT !.told = TRUE]
        ELSE [second[x] EXCEPT !.missed = second[x].missed \/ second[x].cache # None]]
  BY <1>1, <1>3 DEF Bookmarks!Write, Bookmarks!TabType
<1> HIDE DEF copy, note, ids
<1>7. ASSUME NEW x \in Windows
      PROVE  /\ second'[x] \in Bookmarks!TabType
             /\ x # w => second'[x].toggles = second[x].toggles
             /\ x = w => second'[x].cache = copy
             /\ (x # w /\ second[x].listening) => second'[x].told
             /\ (x # w /\ ~second[x].listening) =>
                    /\ second'[x].missed = (second[x].missed \/ second[x].cache # None)
                    /\ second'[x].cache = second[x].cache
  <2>1. CASE x = w
    <3>1. second[w].toggles + 1 \in 0..MaxToggles
      BY <1>1, <1>3
    <3>2. second'[x] = [second[w] EXCEPT !.cache = copy, !.note = note,
                                         !.toggles = second[w].toggles + 1]
      BY <1>6, <2>1
    <3> HIDE DEF copy, note
    <3> QED
      BY <1>1, <1>2, <1>4, <2>1, <3>1, <3>2 DEF Bookmarks!TabType
  <2>2. CASE x # w /\ second[x].listening
    <3>1. second'[x] = [second[x] EXCEPT !.told = TRUE]
      BY <1>6, <2>2
    <3> QED
      BY <1>1, <2>2, <3>1 DEF Bookmarks!TabType
  <2>3. CASE x # w /\ ~second[x].listening
    <3>1. second'[x] = [second[x] EXCEPT !.missed = second[x].missed \/ second[x].cache # None]
      BY <1>6, <2>3
    <3> QED
      BY <1>1, <2>3, <3>1 DEF Bookmarks!TabType
  <2> QED
    BY <2>1, <2>2, <2>3
<1>8. second' \in [Windows -> Bookmarks!TabType]
  BY <1>6, <1>7
<1>9. Bookmarks!CopyIsCurrent'
  BY <1>4, <1>5, <1>7 DEF Bookmarks!CopyIsCurrent, Bookmarks!Ids
<1>10. ui' \subseteq Followed
  BY <1>2, <1>5
<1> QED
  BY <1>5, <1>7, <1>8, <1>9, <1>10 DEF Bookmarks!ListsInv, Bookmarks!TypeOK, ids

LEMMA ListsNextInv ==
    ASSUME Bookmarks!ConstantsOK, Bookmarks!ListsInv, [Bookmarks!Next]_<<ui, second>>
    PROVE  Bookmarks!ListsInv' /\ Bookmarks!TogglesOneMarket
<1>1. CASE UNCHANGED <<ui, second>>
  BY <1>1 DEF Bookmarks!ListsInv, Bookmarks!TypeOK, Bookmarks!CopyIsCurrent, Bookmarks!Ids,
     Bookmarks!TogglesOneMarket
<1>2. CASE Bookmarks!Next
  <2>1. PICK w \in Windows :
            \/ Bookmarks!Mount(w) \/ Bookmarks!Unmount(w) \/ Bookmarks!StorageEvent(w)
            \/ Bookmarks!Dismiss(w) \/ Bookmarks!Gone(w)
            \/ \E m \in Followed : Bookmarks!Toggle(w, m)
    BY <1>2 DEF Bookmarks!Next
  <2>2. CASE \/ Bookmarks!Mount(w) \/ Bookmarks!Unmount(w) \/ Bookmarks!StorageEvent(w)
             \/ Bookmarks!Dismiss(w) \/ Bookmarks!Gone(w)
    BY <2>2, TabStepsInv DEF Bookmarks!TogglesOneMarket
  <2>3. CASE \E m \in Followed : Bookmarks!Toggle(w, m)
    <3>1. PICK m \in Followed : Bookmarks!Toggle(w, m)
      BY <2>3
    <3>2. /\ Bookmarks!ListsInv' /\ ui' = Bookmarks!Toggled(Bookmarks!Ids(w), m)
          /\ \A x \in Windows \ {w} : second'[x].toggles = second[x].toggles
      BY <3>1, TogglesInv
    <3>3. (~second[w].told /\ ~second[w].missed) => Bookmarks!Ids(w) = ui
      BY DEF Bookmarks!ListsInv, Bookmarks!CopyIsCurrent
    <3> QED
      BY <3>2, <3>3 DEF Bookmarks!TogglesOneMarket
  <2> QED
    BY <2>1, <2>2, <2>3
<1> QED
  BY <1>1, <1>2
-----------------------------------------------------------------------------
(* The search of the bar. *)
LEMMA BoxInitInv == Search!ConstantsOK /\ Search!Init => Search!BoxInv
<1> SUFFICES ASSUME Search!ConstantsOK, Search!Init
             PROVE  Search!BoxInv
  OBVIOUS
<1>1. PICK where \in {"bar", "sheet"} :
          ui = [where |-> where, text |-> None, open |-> FALSE, active |-> 0,
                timer |-> FALSE, asked |-> {}, results |-> 0, of |-> None, went |-> None,
                dragging |-> FALSE, down |-> 0]
  BY DEF Search!Init
<1>2. 0 \in 0..MaxResults /\ 0 \in 0..2
  BY DEF Search!ConstantsOK
<1>3. ui \in Search!BoxType
  BY <1>1, <1>2 DEF Search!BoxType, Search!Found
<1> QED
  BY <1>1, <1>3 DEF Search!BoxInv, Search!TypeOK, Search!ResultsFit, Search!AskedIsTyped,
     Search!Settled

(* A step that moves neither the text nor what is asked for it. *)
LEMMA BoxQuiet ==
    ASSUME Search!BoxInv, ui' \in Search!BoxType,
           ui'.where = ui.where, ui'.timer = ui.timer, ui'.asked = ui.asked,
           ui'.text = ui.text, ui'.of = ui.of,
           ui'.dragging => (ui'.where = "sheet" /\ ui'.open)
    PROVE  Search!BoxInv'
  BY DEF Search!BoxInv, Search!TypeOK, Search!ResultsFit, Search!AskedIsTyped, Search!Settled,
     Search!SheetShown

(* Going to a place empties the box. *)
LEMMA BoxGoes ==
    ASSUME Search!ConstantsOK, Search!BoxInv, ui.where = "bar",
           NEW place \in Search!Places, Search!GoTo(place)
    PROVE  Search!BoxInv'
<1>1. ui \in Search!BoxType
  BY DEF Search!BoxInv, Search!TypeOK
<1>2. ui' = [ui EXCEPT !.open = FALSE, !.text = None, !.timer = FALSE, !.asked = {},
               !.results = 0, !.of = None, !.went = place]
  BY DEF Search!GoTo, Search!Box
<1>3. 0 \in Search!Found
  BY DEF Search!Found, Search!ConstantsOK
<1>4. ui' \in Search!BoxType
  BY <1>1, <1>2, <1>3 DEF Search!BoxType
<1>5. /\ ui'.where = "bar" /\ ui'.timer = FALSE /\ ui'.asked = {} /\ ui'.of = None /\ ui'.text = None
      /\ ui'.dragging = ui.dragging
  BY <1>1, <1>2 DEF Search!BoxType
<1>6. ~ui.dragging
  BY DEF Search!BoxInv, Search!TypeOK, Search!SheetShown
<1> QED
  BY <1>4, <1>5, <1>6 DEF Search!BoxInv, Search!TypeOK, Search!ResultsFit, Search!AskedIsTyped,
     Search!Settled

LEMMA BoxTypes ==
    ASSUME Search!ConstantsOK, Search!BoxInv, NEW text \in Search!Search \union {None},
           Search!Type(text)
    PROVE  Search!BoxInv'
<1>1. ui \in Search!BoxType
  BY DEF Search!BoxInv, Search!TypeOK
<1> DEFINE timer == text \in SearchTexts
           results == IF text \in SearchTexts THEN ui.results ELSE 0
           of == IF text \in SearchTexts THEN ui.of ELSE text
<1>2. timer \in BOOLEAN /\ results \in Search!Found /\ of \in Search!Search \union {None}
  BY <1>1 DEF Search!Found, Search!ConstantsOK, Search!BoxType
<1>3. /\ ~timer => of = text
      /\ timer => text \in SearchTexts
  OBVIOUS
<1>4. /\ ui' = [ui EXCEPT !.text = text, !.open = TRUE, !.timer = timer, !.asked = {},
                  !.results = results, !.of = of]
      /\ ui.where = "bar"
  BY DEF Search!Type, Search!Box
<1> HIDE DEF timer, results, of
<1>5. ui' \in Search!BoxType
  BY <1>1, <1>2, <1>4 DEF Search!BoxType
<1>6. /\ ui'.where = "bar" /\ ui'.timer = timer /\ ui'.asked = {} /\ ui'.of = of
      /\ ui'.text = text /\ ui'.dragging = ui.dragging
  BY <1>1, <1>2, <1>4 DEF Search!BoxType
<1>7. ~ui.dragging
  BY <1>4 DEF Search!BoxInv, Search!TypeOK, Search!SheetShown
<1> QED
  BY <1>3, <1>5, <1>6, <1>7 DEF Search!BoxInv, Search!TypeOK, Search!ResultsFit,
     Search!AskedIsTyped, Search!Settled

(* The timer asks for the text in the box; what it found, or found nothing, is of that text. *)
LEMMA BoxAnswers ==
    ASSUME Search!ConstantsOK, Search!BoxInv,
           Search!TimerFires \/ Search!Answered \/ Search!Failed
    PROVE  Search!BoxInv'
<1>1. /\ ui \in Search!BoxType /\ (ui.where = "sheet" => ~ui.timer /\ ui.asked = {})
      /\ ui.asked \subseteq {ui.text} /\ (ui.timer => ui.text \in SearchTexts)
      /\ (ui.dragging => ui.where = "sheet" /\ ui.open)
  BY DEF Search!BoxInv, Search!TypeOK, Search!AskedIsTyped, Search!Settled, Search!SheetShown
<1>2. CASE Search!TimerFires
  <2> DEFINE asked == ui.asked \union {ui.text}
  <2>1. ui.timer /\ asked \in SUBSET SearchTexts /\ asked = {ui.text}
    BY <1>1, <1>2 DEF Search!TimerFires, Search!BoxType
  <2>2. ui' = [ui EXCEPT !.timer = FALSE, !.asked = asked]
    BY <1>2 DEF Search!TimerFires, Search!Box
  <2> HIDE DEF asked
  <2>3. ui' \in Search!BoxType
    BY <1>1, <2>1, <2>2 DEF Search!BoxType
  <2>4. /\ ui'.where = ui.where /\ ui'.timer = FALSE /\ ui'.asked = asked /\ ui'.of = ui.of
        /\ ui'.text = ui.text /\ ui'.dragging = ui.dragging /\ ui'.open = ui.open
    BY <1>1, <2>1, <2>2 DEF Search!BoxType
  <2>5. ui.where = "bar"
    BY <1>1, <2>1 DEF Search!BoxType
  <2> QED
    BY <1>1, <2>1, <2>3, <2>4, <2>5 DEF Search!BoxInv, Search!TypeOK, Search!ResultsFit,
       Search!AskedIsTyped, Search!Settled, Search!SheetShown
<1>3. ASSUME NEW text \in ui.asked, NEW n \in Search!Found, NEW active \in 0..MaxResults,
             ui' = [ui EXCEPT !.asked = @ \ {text}, !.results = n, !.of = text, !.active = active]
      PROVE  Search!BoxInv'
  <2> DEFINE asked == ui.asked \ {text}
  <2>1. asked \in SUBSET SearchTexts /\ asked = {} /\ text = ui.text /\ text \in Search!Search
    BY <1>1 DEF Search!BoxType, Search!Search
  <2>2. ui' = [ui EXCEPT !.asked = asked, !.results = n, !.of = text, !.active = active]
    BY <1>3
  <2> HIDE DEF asked
  <2>3. ui' \in Search!BoxType
    BY <1>1, <2>1, <2>2 DEF Search!BoxType
  <2>4. /\ ui'.where = ui.where /\ ui'.timer = ui.timer /\ ui'.asked = {} /\ ui'.of = text
        /\ ui'.text = ui.text /\ ui'.dragging = ui.dragging /\ ui'.open = ui.open
    BY <1>1, <2>1, <2>2 DEF Search!BoxType
  <2> QED
    BY <1>1, <2>1, <2>3, <2>4 DEF Search!BoxInv, Search!TypeOK, Search!ResultsFit,
       Search!AskedIsTyped, Search!Settled, Search!SheetShown
<1>4. CASE Search!Answered
  <2>1. PICK text \in ui.asked, n \in Search!Found :
            ui' = [ui EXCEPT !.asked = @ \ {text}, !.results = n, !.of = text, !.active = 0]
    BY <1>4 DEF Search!Answered, Search!Box
  <2>2. 0 \in 0..MaxResults
    BY DEF Search!ConstantsOK
  <2> QED
    BY <1>3, <2>1, <2>2
<1>5. CASE Search!Failed
  <2>1. PICK text \in ui.asked :
            ui' = [ui EXCEPT !.asked = @ \ {text}, !.results = 0, !.of = text]
    BY <1>5 DEF Search!Failed, Search!Box
  <2>2. 0 \in Search!Found /\ ui.active \in 0..MaxResults
    BY <1>1 DEF Search!ConstantsOK, Search!Found, Search!BoxType
  <2>3. ui' = [ui EXCEPT !.asked = @ \ {text}, !.results = 0, !.of = text, !.active = ui.active]
    BY <1>1, <2>1 DEF Search!BoxType
  <2> QED
    BY <1>3, <2>2, <2>3
<1> QED
  BY <1>2, <1>4, <1>5

LEMMA BoxMoves ==
    ASSUME Search!ConstantsOK, Search!BoxInv,
           \/ \E text \in Search!Search \union {None} : Search!SheetType(text)
           \/ Search!ClosePanel \/ Search!Focus \/ Search!OpenSheet \/ Search!SheetGo
           \/ Search!Link \/ Search!Grab \/ Search!Drag
           \/ \E down \in BOOLEAN : Search!Move(down)
           \/ \E flick \in BOOLEAN : Search!Drop(flick)
    PROVE  Search!BoxInv'
<1>1. /\ ui \in Search!BoxType /\ MaxResults \in Nat
      /\ (ui.where = "sheet" => ~ui.timer /\ ui.asked = {})
      /\ (ui.dragging => ui.where = "sheet" /\ ui.open)
  BY DEF Search!BoxInv, Search!TypeOK, Search!AskedIsTyped, Search!Settled, Search!SheetShown,
     Search!ConstantsOK
<1>2. CASE \E text \in Search!Search \union {None} : Search!SheetType(text)
  <2>1. PICK text \in Search!Search \union {None} :
            ui.where = "sheet" /\ ui.open /\ ui' = [ui EXCEPT !.text = text]
    BY <1>2 DEF Search!SheetType, Search!SheetShown, Search!Box
  <2>2. ui' \in Search!BoxType
    BY <1>1, <2>1 DEF Search!BoxType
  <2>3. /\ ui'.where = "sheet" /\ ui'.timer = ui.timer /\ ui'.asked = ui.asked
        /\ ui'.text = text /\ ui'.open = ui.open
    BY <1>1, <2>1 DEF Search!BoxType
  <2> QED
    BY <1>1, <2>1, <2>2, <2>3 DEF Search!BoxInv, Search!TypeOK, Search!ResultsFit,
       Search!AskedIsTyped, Search!Settled, Search!SheetShown
<1>3. CASE Search!ClosePanel
  <2>1. ui.where = "bar" /\ ui' = [ui EXCEPT !.open = FALSE]
    BY <1>3 DEF Search!ClosePanel, Search!Box
  <2> QED
    BY <1>1, <2>1, BoxQuiet DEF Search!BoxType
<1>4. CASE Search!Focus
  <2>1. ui' = [ui EXCEPT !.open = TRUE, !.went = None]
    BY <1>4 DEF Search!Focus, Search!Box
  <2> QED
    BY <1>1, <2>1, BoxQuiet DEF Search!BoxType
<1>5. CASE Search!OpenSheet
  <2> DEFINE top == 0
  <2>0. top \in 0..2
    OBVIOUS
  <2>1. ui' = [ui EXCEPT !.open = TRUE, !.down = top, !.went = None]
    BY <1>5 DEF Search!OpenSheet, Search!Box
  <2> HIDE DEF top
  <2>2. ui' \in Search!BoxType
    BY <1>1, <2>0, <2>1 DEF Search!BoxType
  <2>3. /\ ui'.where = ui.where /\ ui'.timer = ui.timer /\ ui'.asked = ui.asked /\ ui'.open
        /\ ui'.text = ui.text /\ ui'.of = ui.of /\ ui'.dragging = ui.dragging
    BY <1>1, <2>0, <2>1 DEF Search!BoxType
  <2> QED
    BY <1>1, <2>2, <2>3, BoxQuiet
<1>6. CASE Search!SheetGo
  <2> DEFINE place == [market |-> 0, of |-> ui.text]
  <2>1. place \in Search!Places
    BY <1>1 DEF Search!Places, Search!BoxType
  <2>2. ui' = [ui EXCEPT !.open = FALSE, !.dragging = FALSE, !.went = place]
    BY <1>6 DEF Search!SheetGo, Search!Box
  <2> HIDE DEF place
  <2> QED
    BY <1>1, <2>1, <2>2, BoxQuiet DEF Search!BoxType
<1>7. CASE Search!Link
  <2>1. ui' = [ui EXCEPT !.open = FALSE, !.dragging = FALSE, !.went = None]
    BY <1>7 DEF Search!Link, Search!Box
  <2> QED
    BY <1>1, <2>1, BoxQuiet DEF Search!BoxType
<1>8. CASE Search!Grab
  <2> DEFINE top == 0
  <2>0. top \in 0..2
    OBVIOUS
  <2>1. ui.where = "sheet" /\ ui.open /\ ui' = [ui EXCEPT !.dragging = TRUE, !.down = top]
    BY <1>8 DEF Search!Grab, Search!SheetShown, Search!Box
  <2> HIDE DEF top
  <2>2. ui' \in Search!BoxType
    BY <1>1, <2>0, <2>1 DEF Search!BoxType
  <2>3. /\ ui'.where = ui.where /\ ui'.timer = ui.timer /\ ui'.asked = ui.asked /\ ui'.open = ui.open
        /\ ui'.text = ui.text /\ ui'.of = ui.of
    BY <1>1, <2>0, <2>1 DEF Search!BoxType
  <2> QED
    BY <2>1, <2>2, <2>3, BoxQuiet
<1>9. CASE Search!Drag
  <2>1. PICK d \in 1..2 : ui' = [ui EXCEPT !.down = d]
    BY <1>9 DEF Search!Drag, Search!Box
  <2> QED
    BY <1>1, <2>1, BoxQuiet DEF Search!BoxType
<1>10. CASE \E down \in BOOLEAN : Search!Move(down)
  <2>1. PICK down \in BOOLEAN : Search!Move(down)
    BY <1>10
  <2> DEFINE active == IF down THEN ui.active + 1 ELSE ui.active - 1
  <2>2. active \in 0..MaxResults
    BY <1>1, <2>1 DEF Search!Move, Search!BoxType, Search!Found
  <2>3. ui' = [ui EXCEPT !.active = active]
    BY <1>1, <2>1 DEF Search!Move, Search!Box, Search!BoxType
  <2> HIDE DEF active
  <2> QED
    BY <1>1, <2>2, <2>3, BoxQuiet DEF Search!BoxType
<1>11. CASE \E flick \in BOOLEAN : Search!Drop(flick)
  <2>1. PICK flick \in BOOLEAN : Search!Drop(flick)
    BY <1>11
  <2> DEFINE open == ~(ui.down = 2 \/ (ui.down = 1 /\ flick))
             top == 0
  <2>2. open \in BOOLEAN /\ top \in 0..2
    OBVIOUS
  <2>3. ui' = [ui EXCEPT !.dragging = FALSE, !.down = top, !.open = open]
    BY <1>1, <2>1 DEF Search!Drop, Search!Box
  <2> HIDE DEF open, top
  <2>4. ui' \in Search!BoxType
    BY <1>1, <2>2, <2>3 DEF Search!BoxType
  <2>5. /\ ui'.where = ui.where /\ ui'.timer = ui.timer /\ ui'.asked = ui.asked
        /\ ui'.text = ui.text /\ ui'.of = ui.of /\ ~ui'.dragging
    BY <1>1, <2>2, <2>3 DEF Search!BoxType
  <2> QED
    BY <2>4, <2>5, BoxQuiet
<1> QED
  BY <1>2, <1>3, <1>4, <1>5, <1>6, <1>7, <1>8, <1>9, <1>10, <1>11

LEMMA BoxNextInv ==
    ASSUME Search!ConstantsOK, Search!BoxInv, [Search!Next]_ui
    PROVE  Search!BoxInv'
<1>1. CASE UNCHANGED ui
  BY <1>1 DEF Search!BoxInv, Search!TypeOK, Search!ResultsFit, Search!AskedIsTyped,
     Search!Settled, Search!SheetShown
<1>2. ui \in Search!BoxType /\ MaxResults \in Nat
  BY DEF Search!BoxInv, Search!TypeOK, Search!ConstantsOK
<1>3. CASE \E i \in 1..MaxResults : Search!Press(i)
  <2>1. PICK i \in 1..MaxResults : Search!Press(i)
    BY <1>3
  <2>2. [market |-> i, of |-> ui.of] \in Search!Places
    BY <1>2 DEF Search!Places, Search!BoxType
  <2> QED
    BY <2>1, <2>2, BoxGoes DEF Search!Press, Search!PanelShown
<1>4. CASE Search!SeeAll
  <2>1. [market |-> 0, of |-> ui.text] \in Search!Places
    BY <1>2 DEF Search!Places, Search!BoxType
  <2> QED
    BY <1>4, <2>1, BoxGoes DEF Search!SeeAll, Search!PanelShown
<1>5. CASE Search!Enter
  <2> DEFINE place == IF ui.active \in 1..ui.results THEN [market |-> ui.active, of |-> ui.of]
                      ELSE [market |-> 0, of |-> ui.text]
  <2>1. place \in Search!Places
    BY <1>2 DEF Search!Places, Search!BoxType
  <2>2. Search!GoTo(place) /\ ui.where = "bar"
    BY <1>5 DEF Search!Enter
  <2> HIDE DEF place
  <2> QED
    BY <2>1, <2>2, BoxGoes
<1>6. CASE \E text \in Search!Search \union {None} : Search!Type(text)
  BY <1>6, BoxTypes
<1> QED
  BY <1>1, <1>3, <1>4, <1>5, <1>6, BoxAnswers, BoxMoves DEF Search!Next
-----------------------------------------------------------------------------
(* The page of markets: its view, its table, its search and its panel.       *)
ViewGood(v) ==
    v \in [place : Browse!Places, status : TableStatuses, moves : 0..MaxMoves, tags : BOOLEAN]

TableRows(t, listing) == t.rows = [i \in 1..t.next |-> [of |-> listing, page |-> i - 1]]

TableGood(t, listing) ==
    /\ t \in Browse!TableType
    /\ t.inFlight => t.loading \/ t.more
    /\ t.hasMore => t.next <= LastPage
    /\ \A p, q \in t.asked : (~p.late /\ ~q.late) => p = q
    /\ (\E q \in t.asked : ~q.late) => t.inFlight
    /\ t.ending => ~t.inFlight /\ (t.loading \/ t.more)
    /\ ~t.crossed =>
           /\ TableRows(t, listing)
           /\ t.asked \subseteq {Browse!Request(listing, t.next)}
           /\ ~t.inFlight => t.asked = {}

TableGone(t) == t.asked = {} /\ t.rows = <<>> /\ t.next = 0

SeekGood(s, q) ==
    /\ s \in Browse!SeekType
    /\ \A p \in s.asked : p.text # None
    /\ s.results # None => s.results.of.text \in BarTexts
    /\ ~s.mixed =>
           /\ \A p, r \in s.asked : p = r
           /\ (s.searching /\ ~s.timer) =>
                  /\ s.asked \subseteq {q}
                  /\ s.asked = {} => (s.results # None /\ s.results.of = q)

PanelGood(p, place, shown) ==
    /\ p \in Browse!PanelType
    /\ p.asked \in {None, place} /\ p.pinsAsked \in {None, place}
    /\ p.asked = None => p.layout # None /\ p.layout.of = place
    /\ p.pins # None \/ p.pinsAsked # None => p.layout # None /\ p.layout.pinned /\ shown
    /\ (p.pinsAsked = None /\ p.pins # None) => p.pins.of = place

(* What the page in view lists, and what is asked of it. *)
Lists(v, p)   == Browse!Listing(v.place, p.layout)
Asks(s, v, p) == [text |-> s.text, status |-> v.status, scope |-> Lists(v, p).scope]

BrowseGood(v, t, s, p) ==
    /\ ViewGood(v)
    /\ TableGood(t, Lists(v, p)) /\ (s.searching => TableGone(t))
    /\ SeekGood(s, Asks(s, v, p))
    /\ PanelGood(p, v.place, ~s.searching)

LEMMA LayoutsAre ==
    /\ \A l \in Browse!Layouts : l.of \in Browse!Places /\ l.scope \in Browse!Scopes /\ l.pinned \in BOOLEAN
    /\ \A p \in Browse!PanelType : p.layout \in Browse!Layouts \union {None}
  BY DEF Browse!Layouts, Browse!PanelType

LEMMA BrowseInvIs ==
    ASSUME Browse!ConstantsOK
    PROVE  Browse!BrowseInv <=> BrowseGood(ui, second, third, fourth)
<1>1. fourth \in Browse!PanelType => (fourth.layout # None => fourth.layout.of \in Browse!Places)
  BY LayoutsAre
<1>2. Browse!Question = Asks(third, ui, fourth) /\ Browse!Here = Lists(ui, fourth)
  BY DEF Browse!Question, Browse!Here, Lists, Asks
<1> QED
  BY <1>1, <1>2 DEF Browse!BrowseInv, Browse!TypeOK, Browse!RowsOfTheView, Browse!SearchAndPanelFit,
     Browse!NextPageAsked, Browse!HiddenIsEmpty, Browse!OneRequestCounts, Browse!QuestionAsked,
     Browse!PanelAsked, Browse!ResultsShown, Browse!PanelShown, Browse!TableShown, BrowseGood,
     ViewGood, TableGood, TableRows, TableGone, SeekGood, PanelGood

LEMMA BrowseFrom ==
    ASSUME Browse!ConstantsOK, BrowseGood(ui', second', third', fourth')
    PROVE  Browse!BrowseInv'
<1>1. fourth' \in Browse!PanelType /\ (fourth'.layout # None => fourth'.layout.of \in Browse!Places)
  BY LayoutsAre DEF BrowseGood, PanelGood
<1>2. Browse!Question' = Asks(third', ui', fourth') /\ Browse!Here' = Lists(ui', fourth')
  BY DEF Browse!Question, Browse!Here, Lists, Asks
<1>3. /\ ViewGood(ui') /\ TableGood(second', Browse!Here') /\ (third'.searching => TableGone(second'))
      /\ SeekGood(third', Browse!Question') /\ PanelGood(fourth', ui'.place, ~third'.searching)
  BY <1>2 DEF BrowseGood
<1>4. (third'.searching /\ ~third'.timer /\ third'.asked = {} /\ ~third'.mixed)
      => third'.results.of = Browse!Question'
  BY <1>3 DEF SeekGood
<1>5. Browse!TypeOK'
  BY <1>1, <1>3 DEF Browse!TypeOK, Browse!ResultsShown, Browse!PanelShown, ViewGood, TableGood, SeekGood
<1>6. /\ Browse!RowsOfTheView' /\ Browse!NextPageAsked' /\ Browse!OneRequestCounts'
      /\ Browse!HiddenIsEmpty'
  BY <1>3 DEF Browse!RowsOfTheView, Browse!NextPageAsked, Browse!OneRequestCounts,
     Browse!HiddenIsEmpty, Browse!TableShown, TableGood, TableRows, TableGone
<1>7. Browse!SearchAndPanelFit' /\ Browse!PanelAsked'
  BY <1>3, <1>4 DEF Browse!SearchAndPanelFit, Browse!PanelAsked, Browse!TableShown, PanelGood
<1>8. Browse!QuestionAsked'
  BY <1>3 DEF Browse!QuestionAsked, SeekGood
<1> QED
  BY <1>5, <1>6, <1>7, <1>8 DEF Browse!BrowseInv

(* The listing is one, and the pages of no other tag. *)
LEMMA ListsIs ==
    ASSUME Browse!ConstantsOK, NEW place \in Browse!Places, NEW layout \in Browse!Layouts \union {None}
    PROVE  Browse!Listing(place, layout) \in Browse!Listings
<1>1. Browse!ScopeOf(place, layout) \in Browse!Scopes
  BY LayoutsAre DEF Browse!ScopeOf, Browse!Places, Browse!Scopes, Browse!Front
<1> QED
  BY <1>1 DEF Browse!Listing, Browse!Listings

LEMMA ListsOf ==
    ASSUME Browse!ConstantsOK, NEW v, NEW p, ViewGood(v), p \in Browse!PanelType
    PROVE  Lists(v, p) \in Browse!Listings /\ Lists(v, p).scope \in Browse!Scopes
<1>1. v.place \in Browse!Places /\ p.layout \in Browse!Layouts \union {None}
  BY LayoutsAre DEF ViewGood
<1>2. Lists(v, p) \in Browse!Listings
  BY <1>1, ListsIs DEF Lists
<1> QED
  BY <1>2 DEF Browse!Listings

LEMMA RequestType ==
    ASSUME NEW listing \in Browse!Listings, NEW page_ \in 0..LastPage
    PROVE  /\ Browse!Request(listing, page_) \in Browse!Requests
           /\ ~Browse!Request(listing, page_).late
           /\ Browse!Request(listing, page_).page = page_
           /\ Browse!Request(listing, page_).of = listing
           /\ Browse!Request(listing, page_).append <=> page_ # 0
  BY DEF Browse!Request, Browse!Requests

(* A new table, with its first request or without. *)
LEMMA FreshIsGood ==
    ASSUME Browse!ConstantsOK, NEW listing \in Browse!Listings
    PROVE  /\ TableGood(Browse!Fresh(listing), listing)
           /\ TableGood([Browse!Fresh(listing) EXCEPT !.asked = {}], listing)
<1> DEFINE first == Browse!Request(listing, 0)
           rows == <<>>
           zero == 0
<1>1. LastPage \in Nat /\ zero \in 0..LastPage + 1 /\ zero <= LastPage
  BY DEF Browse!ConstantsOK
<1>2. first \in Browse!Requests /\ ~first.late
  BY <1>1, RequestType
<1>3. rows \in Seq(Browse!Pages) /\ rows = [i \in 1..zero |-> [of |-> listing, page |-> i - 1]]
  OBVIOUS
<1>4. first = Browse!Request(listing, zero)
  OBVIOUS
<1>5. Browse!Fresh(listing) = [rows |-> rows, next |-> zero, hasMore |-> TRUE, loading |-> TRUE, more |-> FALSE,
                             failed |-> FALSE, inFlight |-> TRUE, asked |-> {first}, ending |-> FALSE,
                             crossed |-> FALSE]
  BY DEF Browse!Fresh
<1> HIDE DEF first, rows, zero
<1>6. ASSUME NEW asked \in SUBSET {first}, NEW t,
             t = [rows |-> rows, next |-> zero, hasMore |-> TRUE, loading |-> TRUE, more |-> FALSE,
                  failed |-> FALSE, inFlight |-> TRUE, asked |-> asked, ending |-> FALSE,
                  crossed |-> FALSE]
      PROVE  TableGood(t, listing)
  <2>1. t \in Browse!TableType
    BY <1>1, <1>2, <1>3, <1>6 DEF Browse!TableType
  <2>2. /\ t.rows = rows /\ t.next = zero /\ t.loading /\ t.inFlight /\ t.asked = asked /\ ~t.ending
    BY <1>6
  <2> QED
    BY <1>1, <1>2, <1>3, <1>4, <2>1, <2>2 DEF TableGood, TableRows
<1>8. TableGood(Browse!Fresh(listing), listing)
  BY <1>5, <1>6
<1>9. TableGood([Browse!Fresh(listing) EXCEPT !.asked = {}], listing)
  <2> DEFINE fresh == Browse!Fresh(listing)
             t == [fresh EXCEPT !.asked = {}]
  <2>1. TableGood(fresh, listing)
    BY <1>8
  <2>2. ~fresh.ending
    BY <1>5
  <2> HIDE DEF fresh
  <2>3. /\ t \in Browse!TableType /\ t.rows = fresh.rows /\ t.next = fresh.next
        /\ t.hasMore = fresh.hasMore /\ t.loading = fresh.loading /\ t.more = fresh.more
        /\ t.inFlight = fresh.inFlight /\ t.ending = fresh.ending /\ t.crossed = fresh.crossed
        /\ t.asked = {}
    BY <2>1 DEF TableGood, Browse!TableType
  <2> HIDE DEF t
  <2>4. TableGood(t, listing)
    BY <2>1, <2>2, <2>3 DEF TableGood, TableRows
  <2> QED
    BY <2>4 DEF t, fresh
<1> QED
  BY <1>8, <1>9

(* A table that is not there is one of anything. *)
LEMMA GoneIsGood ==
    ASSUME NEW t, NEW was, NEW listing, TableGood(t, was), TableGone(t)
    PROVE  TableGood(t, listing)
<1>1. t.rows = [i \in 1..t.next |-> [of |-> listing, page |-> i - 1]]
  BY DEF TableGone
<1> QED
  BY <1>1 DEF TableGood, TableRows, TableGone

LEMMA FreshIsGone ==
    ASSUME NEW listing, NEW t, t = [Browse!Fresh(listing) EXCEPT !.asked = {}]
    PROVE  TableGone(t)
  BY DEF Browse!Fresh, TableGone

LEMMA BrowseInitInv == Browse!ConstantsOK /\ Browse!Init => Browse!BrowseInv
<1> SUFFICES ASSUME Browse!ConstantsOK, Browse!Init
             PROVE  Browse!BrowseInv
  OBVIOUS
<1>1. PICK place \in Browse!Places, status \in TableStatuses :
          ui = [place |-> place, status |-> status, moves |-> 0, tags |-> FALSE]
  BY DEF Browse!Init
<1>2. /\ second = Browse!Fresh(Browse!Here) /\ third = Browse!Blank
      /\ fourth = [layout |-> None, asked |-> ui.place, pins |-> None, pinsAsked |-> None]
  BY DEF Browse!Init
<1>3. MaxMoves \in Nat /\ MaxSearches \in Nat /\ None \notin Browse!Places
  BY DEF Browse!ConstantsOK
<1>4. ViewGood(ui) /\ ui.place = place
  BY <1>1, <1>3 DEF ViewGood
<1>5. fourth \in Browse!PanelType /\ Browse!Here = Lists(ui, fourth)
  BY <1>2, <1>4 DEF Browse!PanelType, Browse!Here, Lists
<1>6. TableGood(second, Lists(ui, fourth))
  BY <1>2, <1>4, <1>5, ListsOf, FreshIsGood
<1>7. third \in Browse!SeekType /\ ~third.searching
  BY <1>2, <1>3 DEF Browse!Blank, Browse!SeekType
<1>8. SeekGood(third, Asks(third, ui, fourth))
  BY <1>2, <1>7 DEF SeekGood, Browse!Blank
<1>9. PanelGood(fourth, ui.place, ~third.searching)
  BY <1>2, <1>3, <1>4, <1>5 DEF PanelGood
<1> QED
  BY <1>4, <1>6, <1>7, <1>8, <1>9, BrowseInvIs DEF BrowseGood

(* The request that is answered leaves the table. *)
LEMMA DoneIs ==
    ASSUME NEW t \in Browse!TableType, NEW request \in t.asked
    PROVE  LET d == Browse!Done(t, request)
           IN  /\ d \in Browse!TableType
               /\ d.rows = t.rows /\ d.next = t.next /\ d.hasMore = t.hasMore /\ d.loading = t.loading
               /\ d.more = t.more /\ d.crossed = t.crossed
               /\ d.inFlight = (t.inFlight /\ request.late) /\ d.asked = t.asked \ {request}
               /\ d.ending = (t.ending \/ ~request.late)
<1> DEFINE d == Browse!Done(t, request)
           flies == t.inFlight /\ request.late
           ending == t.ending \/ ~request.late
           asked == t.asked \ {request}
<1>1. flies \in BOOLEAN /\ ending \in BOOLEAN /\ asked \in SUBSET Browse!Requests
  BY DEF Browse!TableType
<1>2. d = [t EXCEPT !.asked = asked, !.inFlight = flies, !.ending = ending]
  BY DEF Browse!Done
<1> HIDE DEF d, flies, ending, asked
<1>3. /\ d \in Browse!TableType
      /\ d.rows = t.rows /\ d.next = t.next /\ d.hasMore = t.hasMore /\ d.loading = t.loading
      /\ d.more = t.more /\ d.crossed = t.crossed
      /\ d.inFlight = flies /\ d.asked = asked /\ d.ending = ending
  BY <1>1, <1>2 DEF Browse!TableType
<1> QED
  BY <1>3 DEF d, flies, ending, asked

(* A page is added where the rows end. *)
LEMMA RowsGrow ==
    ASSUME NEW listing, NEW next_ \in Nat, NEW rows,
           rows = [i \in 1..next_ |-> [of |-> listing, page |-> i - 1]]
    PROVE  /\ Browse!Added(rows, [of |-> listing, page |-> next_])
                  = [i \in 1..next_ + 1 |-> [of |-> listing, page |-> i - 1]]
           /\ next_ = 0 => <<[of |-> listing, page |-> next_]>>
                  = [i \in 1..next_ + 1 |-> [of |-> listing, page |-> i - 1]]
<1> DEFINE p == [of |-> listing, page |-> next_]
           more == [i \in 1..next_ + 1 |-> [of |-> listing, page |-> i - 1]]
           Pages == {[of |-> listing, page |-> n] : n \in Nat}
<1>1. rows \in Seq(Pages) /\ Len(rows) = next_ /\ DOMAIN rows = 1..next_
  <2>1. \A i \in 1..next_ : [of |-> listing, page |-> i - 1] \in Pages
    OBVIOUS
  <2> HIDE DEF Pages
  <2> QED
    BY <2>1
<1>2. p \in Pages
  OBVIOUS
<1>3. \A i \in 1..next_ : rows[i] # p
  <2>1. \A i \in 1..next_ : rows[i].page = i - 1
    OBVIOUS
  <2>2. p.page = next_
    OBVIOUS
  <2> QED
    BY <2>1, <2>2
<1>4. Browse!Added(rows, p) = Append(rows, p)
  BY <1>1, <1>3 DEF Browse!Added
<1>5. \A i \in 1..next_ + 1 : more[i] = [of |-> listing, page |-> i - 1]
  OBVIOUS
<1>6. more[next_ + 1] = p
  OBVIOUS
<1>7. \A i \in 1..next_ : more[i] = rows[i]
  OBVIOUS
<1>8. more \in Seq(Pages) /\ Len(more) = next_ + 1
  <2>1. \A i \in 1..next_ + 1 : [of |-> listing, page |-> i - 1] \in Pages
    OBVIOUS
  <2> HIDE DEF Pages
  <2> QED
    BY <2>1
<1> HIDE DEF p, more, Pages
<1>9. Append(rows, p) \in Seq(Pages) /\ Len(Append(rows, p)) = next_ + 1
  BY <1>1, <1>2
<1>10. Append(rows, p) = more
  BY <1>1, <1>2, <1>6, <1>7, <1>8, <1>9
<1>11. next_ = 0 => <<p>> = more
  BY <1>2, <1>6, <1>8
<1> QED
  BY <1>4, <1>10, <1>11 DEF p, more

LEMMA PageLoads ==
    ASSUME Browse!ConstantsOK, NEW listing \in Browse!Listings, NEW t, TableGood(t, listing),
           NEW request \in t.asked
    PROVE  LET one == [of |-> request.of, page |-> request.page]
           IN  TableGood(Browse!Done([t EXCEPT !.rows = IF request.append THEN Browse!Added(@, one) ELSE <<one>>,
                                               !.next = request.page + 1,
                                               !.hasMore = request.page < LastPage], request), listing)
<1> DEFINE one == [of |-> request.of, page |-> request.page]
           rows == IF request.append THEN Browse!Added(t.rows, one) ELSE <<one>>
           next == request.page + 1
           has == request.page < LastPage
           l == [t EXCEPT !.rows = rows, !.next = next, !.hasMore = has]
           d == Browse!Done(l, request)
<1>1. /\ t \in Browse!TableType /\ t.asked \subseteq Browse!Requests /\ t.rows \in Seq(Browse!Pages)
      /\ t.next \in 0..LastPage + 1 /\ LastPage \in Nat
  BY DEF TableGood, Browse!TableType, Browse!ConstantsOK
<1>2. request.page \in 0..LastPage /\ request.of \in Browse!Listings /\ request.late \in BOOLEAN
  BY <1>1 DEF Browse!Requests
<1>3. next \in 0..LastPage + 1 /\ has \in BOOLEAN /\ (has => next <= LastPage)
  BY <1>1, <1>2
<1>4. one \in Browse!Pages
  BY <1>2 DEF Browse!Pages
<1>5. rows \in Seq(Browse!Pages)
  <2> HIDE DEF one
  <2> QED
    BY <1>1, <1>4 DEF Browse!Added
<1>6. ~t.crossed => rows = [i \in 1..next |-> [of |-> listing, page |-> i - 1]]
  <2> SUFFICES ASSUME ~t.crossed
               PROVE  rows = [i \in 1..next |-> [of |-> listing, page |-> i - 1]]
    OBVIOUS
  <2>1. request = Browse!Request(listing, t.next)
    BY DEF TableGood
  <2>2. request.of = listing /\ request.page = t.next /\ (request.append <=> t.next # 0)
    BY <2>1 DEF Browse!Request
  <2>3. t.rows = [i \in 1..t.next |-> [of |-> listing, page |-> i - 1]]
    BY DEF TableGood, TableRows
  <2>4. one = [of |-> listing, page |-> t.next] /\ next = t.next + 1
    BY <2>2
  <2>5. t.next \in Nat
    BY <1>1
  <2>6. /\ Browse!Added(t.rows, [of |-> listing, page |-> t.next])
                 = [i \in 1..t.next + 1 |-> [of |-> listing, page |-> i - 1]]
        /\ t.next = 0 => <<[of |-> listing, page |-> t.next]>>
                 = [i \in 1..t.next + 1 |-> [of |-> listing, page |-> i - 1]]
    BY <2>3, <2>5, RowsGrow
  <2> HIDE DEF one, next
  <2> QED
    BY <2>2, <2>4, <2>6
<1>7. ~t.crossed => ~request.late /\ t.asked \ {request} = {}
  BY DEF TableGood, Browse!Request
<1> HIDE DEF rows, next, has
<1>8. /\ l \in Browse!TableType /\ l.rows = rows /\ l.next = next /\ l.hasMore = has /\ l.asked = t.asked
      /\ l.loading = t.loading /\ l.more = t.more /\ l.inFlight = t.inFlight /\ l.ending = t.ending
      /\ l.crossed = t.crossed
  BY <1>1, <1>3, <1>5 DEF Browse!TableType
<1> HIDE DEF l
<1>9. /\ d \in Browse!TableType
      /\ d.rows = rows /\ d.next = next /\ d.hasMore = has /\ d.loading = t.loading
      /\ d.more = t.more /\ d.crossed = t.crossed
      /\ d.inFlight = (t.inFlight /\ request.late) /\ d.asked = t.asked \ {request}
      /\ d.ending = (t.ending \/ ~request.late)
  BY <1>8, DoneIs
<1> HIDE DEF d
<1>10. TableGood(d, listing)
  BY <1>3, <1>6, <1>7, <1>9 DEF TableGood, TableRows
<1> QED
  BY <1>10 DEF d, l, has, next, rows, one

LEMMA PageFails ==
    ASSUME NEW listing, NEW t, TableGood(t, listing), NEW request \in t.asked
    PROVE  TableGood(Browse!Done([t EXCEPT !.failed = TRUE], request), listing)
<1> DEFINE l == [t EXCEPT !.failed = TRUE]
           d == Browse!Done(l, request)
<1>1. t \in Browse!TableType
  BY DEF TableGood
<1>2. /\ l \in Browse!TableType /\ l.rows = t.rows /\ l.next = t.next /\ l.hasMore = t.hasMore
      /\ l.asked = t.asked /\ l.loading = t.loading /\ l.more = t.more /\ l.inFlight = t.inFlight
      /\ l.ending = t.ending /\ l.crossed = t.crossed
  BY <1>1 DEF Browse!TableType
<1>3. ~t.crossed => ~request.late /\ t.asked \ {request} = {}
  BY DEF TableGood, Browse!Request
<1> HIDE DEF l
<1>4. /\ d \in Browse!TableType
      /\ d.rows = t.rows /\ d.next = t.next /\ d.hasMore = t.hasMore /\ d.loading = t.loading
      /\ d.more = t.more /\ d.crossed = t.crossed
      /\ d.inFlight = (t.inFlight /\ request.late) /\ d.asked = t.asked \ {request}
      /\ d.ending = (t.ending \/ ~request.late)
  BY <1>2, DoneIs
<1> HIDE DEF d
<1>5. TableGood(d, listing)
  BY <1>3, <1>4 DEF TableGood, TableRows
<1> QED
  BY <1>5 DEF d, l

(* Another listing: only the requests of further pages are left under way, all late. *)
LEMMA ReloadIsGood ==
    ASSUME Browse!ConstantsOK, NEW was, NEW listing \in Browse!Listings, TableGood(second, was)
    PROVE  TableGood(Browse!Reload(listing), listing)
<1> DEFINE first == Browse!Request(listing, 0)
           Late(r) == [r EXCEPT !.late = TRUE]
           kept == {Late(r) : r \in {q \in second.asked : Browse!Kept(q)}}
           asked == kept \union {first}
           rows == <<>>
           zero == 0
           crossed == second.crossed \/ \E r \in second.asked : r.append
           t == Browse!Reload(listing)
<1>1. /\ second \in Browse!TableType /\ second.asked \subseteq Browse!Requests
      /\ LastPage \in Nat /\ zero \in 0..LastPage + 1 /\ zero <= LastPage
  BY DEF TableGood, Browse!TableType, Browse!ConstantsOK
<1>2. first \in Browse!Requests /\ ~first.late /\ first = Browse!Request(listing, zero)
  BY <1>1, RequestType
<1>3. \A r \in Browse!Requests : Late(r) \in Browse!Requests /\ Late(r).late
  BY DEF Browse!Requests
<1>4. kept \subseteq Browse!Requests /\ \A q \in kept : q.late
  <2> HIDE DEF Late
  <2> QED
    BY <1>1, <1>3
<1>5. ~crossed => kept = {}
  BY DEF Browse!Kept
<1>6. /\ asked \in SUBSET Browse!Requests /\ \A q \in asked : q.late \/ q = first
      /\ ~crossed => asked = {first}
  <2> HIDE DEF kept, first, crossed
  <2> QED
    BY <1>2, <1>4, <1>5
<1>7. rows \in Seq(Browse!Pages) /\ rows = [i \in 1..zero |-> [of |-> listing, page |-> i - 1]]
  OBVIOUS
<1>8. crossed \in BOOLEAN
  BY <1>1 DEF Browse!TableType
<1>9. t = [second EXCEPT !.rows = rows, !.hasMore = TRUE, !.next = zero, !.loading = TRUE,
                         !.failed = FALSE, !.inFlight = TRUE, !.ending = FALSE, !.asked = asked,
                         !.crossed = crossed]
  BY DEF Browse!Reload
<1> HIDE DEF first, kept, asked, rows, zero, crossed, t
<1>10. /\ t \in Browse!TableType /\ t.rows = rows /\ t.next = zero /\ t.loading /\ t.inFlight
       /\ ~t.ending /\ t.asked = asked /\ t.crossed = crossed
  BY <1>1, <1>6, <1>7, <1>8, <1>9 DEF Browse!TableType
<1>11. TableGood(t, listing)
  BY <1>1, <1>2, <1>6, <1>7, <1>10 DEF TableGood, TableRows
<1> QED
  BY <1>11 DEF t

(* The table, with the rest at rest: a table that is not there has nothing to answer. *)
LEMMA TableSteps ==
    ASSUME Browse!ConstantsOK, BrowseGood(ui, second, third, fourth),
           Browse!FetchMore \/ Browse!PageLoaded \/ Browse!PageFailed \/ Browse!Shown
    PROVE  BrowseGood(ui', second', third', fourth')
<1> DEFINE here == Lists(ui, fourth)
<1>1. /\ second \in Browse!TableType /\ LastPage \in Nat /\ here \in Browse!Listings
      /\ second.next \in 0..LastPage + 1 /\ TableGood(second, here)
      /\ (third.searching => TableGone(second))
  BY ListsOf DEF BrowseGood, PanelGood, TableGood, Browse!TableType, Browse!ConstantsOK
<1>0. Browse!Here = here
  BY DEF Browse!Here, Lists
<1> HIDE DEF here
<1>2. CASE Browse!FetchMore
  <2> DEFINE new == Browse!Request(here, second.next)
             asked == second.asked \union {new}
  <2>1. ~second.inFlight /\ second.hasMore /\ ~second.loading /\ ~second.more /\ ~third.searching
    BY <1>1, <1>2 DEF Browse!FetchMore, Browse!EndInView, Browse!TableSays, Browse!TableShown
  <2>2. second.next \in 0..LastPage
    BY <1>1, <2>1 DEF TableGood
  <2>3. new \in Browse!Requests /\ ~new.late
    BY <1>1, <2>2, RequestType
  <2>4. asked \in SUBSET Browse!Requests
    BY <1>1, <2>3 DEF Browse!TableType
  <2>5. second' = [second EXCEPT !.more = TRUE, !.failed = FALSE, !.inFlight = TRUE, !.asked = asked]
    BY <1>0, <1>2 DEF Browse!FetchMore
  <2>6. /\ \A q \in second.asked : q.late
        /\ ~second.ending
        /\ ~second.crossed => second.asked = {}
    BY <1>1, <2>1 DEF TableGood
  <2>7. \A q \in asked : q.late \/ q = new
    BY <2>6
  <2>8. ~second.crossed => asked \subseteq {Browse!Request(here, second.next)}
    BY <2>6
  <2> HIDE DEF new, asked
  <2>9. /\ second' \in Browse!TableType /\ second'.rows = second.rows /\ second'.next = second.next
        /\ second'.hasMore = second.hasMore /\ second'.more /\ second'.inFlight
        /\ second'.asked = asked /\ second'.ending = second.ending /\ second'.crossed = second.crossed
    BY <1>1, <2>4, <2>5 DEF Browse!TableType
  <2>10. TableGood(second', here)
    BY <1>1, <2>3, <2>6, <2>7, <2>8, <2>9 DEF TableGood, TableRows
  <2> QED
    BY <1>2, <2>1, <2>10 DEF Browse!FetchMore, BrowseGood, here
<1>3. CASE Browse!PageLoaded
  <2>1. PICK request \in second.asked :
          second' = LET one == [of |-> request.of, page |-> request.page]
                    IN  Browse!Done([second EXCEPT !.rows = IF request.append THEN Browse!Added(@, one)
                                                            ELSE <<one>>,
                                                   !.next = request.page + 1,
                                                   !.hasMore = request.page < LastPage], request)
    BY <1>3 DEF Browse!PageLoaded
  <2>2. TableGood(second', here) /\ ~third.searching
    BY <1>1, <2>1, PageLoads DEF TableGone
  <2> QED
    BY <1>3, <2>2 DEF Browse!PageLoaded, BrowseGood, here
<1>4. CASE Browse!PageFailed
  <2>1. TableGood(second', here) /\ ~third.searching
    BY <1>1, <1>4, PageFails DEF Browse!PageFailed, TableGone
  <2> QED
    BY <1>4, <2>1 DEF Browse!PageFailed, BrowseGood, here
<1>5. CASE Browse!Shown
  <2>1. second.ending /\ second' = [second EXCEPT !.ending = FALSE, !.loading = FALSE, !.more = FALSE]
    BY <1>5 DEF Browse!Shown
  <2>2. ~second.inFlight
    BY <1>1, <2>1 DEF TableGood
  <2>3. /\ second' \in Browse!TableType /\ second'.rows = second.rows /\ second'.next = second.next
        /\ second'.hasMore = second.hasMore /\ second'.inFlight = second.inFlight
        /\ second'.asked = second.asked /\ ~second'.ending /\ second'.crossed = second.crossed
    BY <1>1, <2>1 DEF Browse!TableType
  <2>4. TableGood(second', here) /\ (third.searching => TableGone(second'))
    BY <1>1, <2>2, <2>3 DEF TableGood, TableRows, TableGone
  <2> QED
    BY <1>5, <2>4 DEF Browse!Shown, BrowseGood, here
<1> QED
  BY <1>2, <1>3, <1>4, <1>5

(* The table and the panel come and go with the results. *)
LEMMA TableOfSeeks ==
    ASSUME Browse!ConstantsOK, BrowseGood(ui, second, third, fourth), NEW r,
           r.searching \in BOOLEAN, Browse!Seeks(r)
    PROVE  /\ TableGood(second', Lists(ui, fourth)) /\ (r.searching => TableGone(second'))
           /\ third' = r
<1>1. Lists(ui, fourth) \in Browse!Listings /\ Browse!Here = Lists(ui, fourth)
  BY ListsOf DEF BrowseGood, PanelGood, Browse!Here, Lists
<1>2. third' = r /\ second' = Browse!TableAfter(r)
  BY DEF Browse!Seeks
<1>3. CASE r.searching
  <2>1. second' = [Browse!Fresh(Lists(ui, fourth)) EXCEPT !.asked = {}]
    BY <1>1, <1>2, <1>3 DEF Browse!TableAfter
  <2> QED
    BY <1>1, <1>2, <2>1, FreshIsGood, FreshIsGone
<1>4. CASE ~r.searching
  <2>1. second' = IF third.searching THEN Browse!Fresh(Lists(ui, fourth)) ELSE second
    BY <1>1, <1>2, <1>4 DEF Browse!TableAfter
  <2> QED
    BY <1>1, <1>2, <1>4, <2>1, FreshIsGood DEF BrowseGood
<1> QED
  BY <1>3, <1>4

LEMMA PanelOfSeeks ==
    ASSUME Browse!ConstantsOK, BrowseGood(ui, second, third, fourth), NEW r, r.searching \in BOOLEAN
    PROVE  /\ PanelGood(Browse!PanelAfter(r), ui.place, ~r.searching)
           /\ Browse!PanelAfter(r).layout = fourth.layout
<1>1. /\ fourth \in Browse!PanelType /\ PanelGood(fourth, ui.place, ~third.searching)
      /\ third.searching \in BOOLEAN /\ ui.place \in Browse!Places
  BY DEF BrowseGood, PanelGood, SeekGood, Browse!SeekType, ViewGood
<1> DEFINE asks == Browse!AsksPins(ui.place)
<1>2. asks \in {None, ui.place} /\ (asks # None => fourth.layout # None /\ fourth.layout.pinned)
  BY DEF Browse!AsksPins
<1> HIDE DEF asks
<1>3. ASSUME NEW asked \in {None, ui.place}, NEW p,
             asked # None => ~r.searching /\ fourth.layout # None /\ fourth.layout.pinned,
             p = [fourth EXCEPT !.pins = None, !.pinsAsked = asked]
      PROVE  PanelGood(p, ui.place, ~r.searching) /\ p.layout = fourth.layout
  <2>1. /\ p \in Browse!PanelType /\ p.layout = fourth.layout /\ p.asked = fourth.asked
        /\ p.pins = None /\ p.pinsAsked = asked
    BY <1>1, <1>3 DEF Browse!PanelType
  <2> QED
    BY <1>1, <1>3, <2>1 DEF PanelGood
<1>4. CASE r.searching
  BY <1>3, <1>4 DEF Browse!PanelAfter, Browse!Unpinned
<1>5. CASE ~r.searching /\ third.searching
  <2>1. Browse!PanelAfter(r) = [Browse!Unpinned EXCEPT !.pinsAsked = asks]
    BY <1>5 DEF Browse!PanelAfter, asks
  <2>2. Browse!PanelAfter(r) = [fourth EXCEPT !.pins = None, !.pinsAsked = asks]
    BY <1>1, <2>1 DEF Browse!Unpinned, Browse!PanelType
  <2> QED
    BY <1>2, <1>3, <1>5, <2>2
<1>6. CASE ~r.searching /\ ~third.searching
  BY <1>1, <1>6 DEF Browse!PanelAfter, PanelGood
<1> QED
  BY <1>4, <1>5, <1>6

(* A search that is put away or will be asked again. *)
LEMMA SeekRests ==
    ASSUME NEW s, NEW r, NEW q, NEW p, SeekGood(s, q), r \in Browse!SeekType, r.asked = s.asked,
           r.mixed = s.mixed, r.results \in {None, s.results}, r.timer \/ ~r.searching
    PROVE  SeekGood(r, p)
  BY DEF SeekGood

(* A step of the bar: the page and the layout stay. *)
LEMMA SeekShows ==
    ASSUME Browse!ConstantsOK, BrowseGood(ui, second, third, fourth), NEW r, r.searching \in BOOLEAN,
           Browse!Seeks(r), fourth' = Browse!PanelAfter(third'), UNCHANGED ui,
           SeekGood(r, Asks(r, ui, fourth))
    PROVE  BrowseGood(ui', second', third', fourth')
<1>1. /\ TableGood(second', Lists(ui, fourth)) /\ (r.searching => TableGone(second'))
      /\ third' = r
  BY TableOfSeeks
<1>2. PanelGood(fourth', ui.place, ~r.searching) /\ fourth'.layout = fourth.layout
  BY <1>1, PanelOfSeeks
<1>3. Lists(ui', fourth') = Lists(ui, fourth) /\ Asks(third', ui', fourth') = Asks(r, ui, fourth)
  BY <1>1, <1>2 DEF Lists, Asks
<1> QED
  BY <1>1, <1>2, <1>3 DEF BrowseGood

LEMMA SeekSteps ==
    ASSUME Browse!ConstantsOK, BrowseGood(ui, second, third, fourth),
           \/ Browse!TimerFires \/ Browse!SearchAnswered \/ Browse!Clear
           \/ \E text \in BarTexts \union {None} : Browse!Type(text)
    PROVE  BrowseGood(ui', second', third', fourth')
<1> DEFINE q == Asks(third, ui, fourth)
<1>1. /\ third \in Browse!SeekType /\ third.sent \in 0..MaxSearches /\ MaxSearches \in Nat
      /\ third.text \in BarTexts \union {None} /\ third.asked \subseteq Browse!Queries
      /\ third.results \in Browse!Results \union {None} /\ third.searching \in BOOLEAN
      /\ ui.status \in TableStatuses /\ Lists(ui, fourth).scope \in Browse!Scopes
      /\ SeekGood(third, q)
  BY ListsOf DEF BrowseGood, ViewGood, PanelGood, SeekGood, Browse!SeekType, Browse!ConstantsOK
<1>2. CASE Browse!TimerFires
  <2> DEFINE searching == third.text # None
             results == IF third.text = None THEN None ELSE third.results
             asked == IF third.text = None THEN third.asked ELSE third.asked \union {q}
             sent == IF third.text = None THEN third.sent ELSE third.sent + 1
             mixed == third.asked # {} /\ (third.text # None \/ third.mixed)
             r == [third EXCEPT !.timer = FALSE, !.searching = searching, !.results = results,
                                !.asked = asked, !.sent = sent, !.mixed = mixed]
  <2>0. Browse!Question = q
    BY DEF Browse!Question, Browse!Here, Lists, Asks
  <2>1. /\ third.timer /\ third.sent < MaxSearches /\ Browse!Seeks(r)
        /\ fourth' = Browse!PanelAfter(third') /\ UNCHANGED ui
    BY <1>2, <2>0 DEF Browse!TimerFires
  <2>2. q \in Browse!Queries /\ q.text = third.text
    BY <1>1 DEF Asks, Browse!Queries
  <2> HIDE DEF q
  <2>3. sent \in 0..MaxSearches
    BY <1>1, <2>1
  <2>4. /\ searching \in BOOLEAN /\ results \in Browse!Results \union {None}
        /\ asked \in SUBSET Browse!Queries /\ mixed \in BOOLEAN
    BY <1>1, <2>2 DEF Browse!SeekType
  <2>5. /\ \A p \in asked : p.text # None
        /\ results # None => results.of.text \in BarTexts
        /\ ~mixed => \A p, s \in asked : p = s
        /\ (~mixed /\ searching) => asked = {q}
    BY <1>1, <2>2 DEF SeekGood
  <2> HIDE DEF searching, results, asked, sent, mixed
  <2>6. /\ r \in Browse!SeekType /\ r.text = third.text /\ ~r.timer /\ r.searching = searching
        /\ r.results = results /\ r.asked = asked /\ r.mixed = mixed
    BY <1>1, <2>3, <2>4 DEF Browse!SeekType
  <2> HIDE DEF r
  <2>7. SeekGood(r, q)
    BY <2>5, <2>6 DEF SeekGood
  <2>9. Asks(r, ui, fourth) = q
    BY <2>6 DEF Asks, q
  <2> QED
    BY <2>1, <2>4, <2>6, <2>7, <2>9, SeekShows
<1>3. CASE Browse!SearchAnswered
  <2>1. PICK p \in third.asked, ok \in BOOLEAN :
            third' = [third EXCEPT !.asked = @ \ {p}, !.results = [of |-> p, ok |-> ok]]
    BY <1>3 DEF Browse!SearchAnswered
  <2> DEFINE asked == third.asked \ {p}
             results == [of |-> p, ok |-> ok]
  <2>2. /\ asked \in SUBSET Browse!Queries /\ results \in Browse!Results /\ results.of = p
        /\ p.text \in BarTexts
    BY <1>1, <2>1 DEF Browse!Results, Browse!Queries, SeekGood
  <2>3. /\ third' = [third EXCEPT !.asked = asked, !.results = results]
        /\ asked \subseteq third.asked
    BY <2>1
  <2> HIDE DEF results, q
  <2>5. results # None
    BY <2>2 DEF Browse!ConstantsOK
  <2> HIDE DEF asked
  <2>6. /\ third' \in Browse!SeekType /\ third'.text = third.text /\ third'.timer = third.timer
        /\ third'.searching = third.searching /\ third'.results = results /\ third'.asked = asked
        /\ third'.mixed = third.mixed
    BY <1>1, <2>2, <2>3 DEF Browse!SeekType
  <2>7. (~third.mixed /\ third.searching /\ ~third.timer) => p = q
    BY <1>1, <2>1 DEF SeekGood
  <2>8. SeekGood(third', q)
    BY <1>1, <2>2, <2>3, <2>5, <2>6, <2>7 DEF SeekGood
  <2>9. /\ UNCHANGED <<ui, second, fourth>> /\ Asks(third', ui', fourth') = q
        /\ Lists(ui', fourth') = Lists(ui, fourth)
    BY <1>3, <2>6 DEF Browse!SearchAnswered, Asks, Lists, q
  <2> QED
    BY <2>6, <2>8, <2>9 DEF BrowseGood
<1>4. CASE Browse!Clear
  <2> DEFINE r == [third EXCEPT !.text = None, !.timer = TRUE, !.results = None, !.searching = FALSE]
  <2>1. Browse!Seeks(r) /\ fourth' = Browse!PanelAfter(third') /\ UNCHANGED ui
    BY <1>4 DEF Browse!Clear
  <2>2. /\ r \in Browse!SeekType /\ r.timer /\ r.results = None /\ r.asked = third.asked
        /\ r.mixed = third.mixed /\ ~r.searching /\ r.searching \in BOOLEAN
    BY <1>1 DEF Browse!SeekType
  <2> HIDE DEF r, q
  <2>3. SeekGood(r, Asks(r, ui, fourth))
    BY <1>1, <2>2, SeekRests
  <2> QED
    BY <2>1, <2>2, <2>3, SeekShows
<1>5. CASE \E text \in BarTexts \union {None} : Browse!Type(text)
  <2>1. PICK text \in BarTexts \union {None} :
            third' = [third EXCEPT !.text = text, !.timer = TRUE] /\ UNCHANGED <<ui, second, fourth>>
    BY <1>5 DEF Browse!Type
  <2>2. /\ third' \in Browse!SeekType /\ third'.timer /\ third'.results = third.results
        /\ third'.asked = third.asked /\ third'.mixed = third.mixed
        /\ third'.searching = third.searching
    BY <1>1, <2>1 DEF Browse!SeekType
  <2> HIDE DEF q
  <2>3. SeekGood(third', Asks(third', ui', fourth'))
    BY <1>1, <2>2, SeekRests
  <2> QED
    BY <2>1, <2>2, <2>3 DEF BrowseGood, Lists
<1> QED
  BY <1>2, <1>3, <1>4, <1>5

(* The search after the listing has become another one. *)
LEMMA RetimedGood ==
    ASSUME Browse!ConstantsOK, BrowseGood(ui, second, third, fourth), NEW there, NEW r,
           r = Browse!Retimed(there)
    PROVE  /\ r \in Browse!SeekType /\ r.text = third.text /\ r.searching = third.searching
           /\ r.asked = third.asked /\ r.mixed = third.mixed /\ r.results = third.results
           /\ SeekGood(r, [text |-> r.text, status |-> ui.status, scope |-> there.scope])
<1> DEFINE timer == third.timer \/ there.scope # Lists(ui, fourth).scope
<1>1. third \in Browse!SeekType /\ SeekGood(third, Asks(third, ui, fourth))
  BY DEF BrowseGood, SeekGood
<1>2. r = [third EXCEPT !.timer = timer] /\ timer \in BOOLEAN
  <2>1. third.timer \in BOOLEAN
    BY <1>1 DEF Browse!SeekType
  <2> QED
    BY <2>1 DEF Browse!Retimed, Browse!Here, Lists
<1> HIDE DEF timer
<1>3. /\ r \in Browse!SeekType /\ r.text = third.text /\ r.searching = third.searching
      /\ r.asked = third.asked /\ r.mixed = third.mixed /\ r.results = third.results
      /\ r.timer = timer
  BY <1>1, <1>2 DEF Browse!SeekType
<1>4. CASE timer
  BY <1>1, <1>3, <1>4, SeekRests
<1>5. CASE ~timer
  <2>1. /\ [text |-> r.text, status |-> ui.status, scope |-> there.scope]
               = Asks(third, ui, fourth)
        /\ ~third.timer
    BY <1>3, <1>5 DEF timer, Asks
  <2> QED
    BY <1>1, <1>3, <1>5, <2>1 DEF SeekGood
<1> QED
  BY <1>3, <1>4, <1>5

(* The layout comes, and with it perhaps another tag. *)
LEMMA LayoutComes ==
    ASSUME Browse!ConstantsOK, BrowseGood(ui, second, third, fourth), Browse!LayoutAnswered
    PROVE  BrowseGood(ui', second', third', fourth')
<1>1. PICK pinned \in BOOLEAN, scope \in Browse!Scopes :
        LET layout == [of |-> fourth.asked, pinned |-> pinned, scope |-> scope]
            there  == Browse!Listing(ui.place, layout)
        IN  /\ fourth.asked # None
            /\ fourth' \in Browse!PinsOf(layout)
            /\ second' = IF there # Browse!Here /\ Browse!TableShown THEN Browse!Reload(there) ELSE second
            /\ third' = Browse!Retimed(there)
            /\ UNCHANGED ui
  BY DEF Browse!LayoutAnswered
<1> DEFINE layout == [of |-> fourth.asked, pinned |-> pinned, scope |-> scope]
           there  == Browse!Listing(ui.place, layout)
<1>2. /\ ViewGood(ui) /\ ui.place \in Browse!Places /\ fourth \in Browse!PanelType
      /\ PanelGood(fourth, ui.place, ~third.searching) /\ third.searching \in BOOLEAN
      /\ TableGood(second, Lists(ui, fourth)) /\ (third.searching => TableGone(second))
      /\ None \notin Browse!Layouts \union Browse!Pins \union Browse!Places
  BY DEF BrowseGood, ViewGood, PanelGood, SeekGood, Browse!SeekType, Browse!ConstantsOK
<1>3. fourth.asked = ui.place
  BY <1>1, <1>2 DEF PanelGood
<1>4. layout \in Browse!Layouts /\ layout.of = ui.place /\ layout.pinned = pinned
  BY <1>2, <1>3 DEF Browse!Layouts
<1>5. layout # None
  BY <1>2, <1>4
<1>6. there \in Browse!Listings
  BY <1>2, <1>4, ListsIs
<1>7. /\ fourth' \in Browse!PinsOf(layout)
      /\ second' = IF there # Lists(ui, fourth) /\ ~third.searching THEN Browse!Reload(there) ELSE second
      /\ third' = Browse!Retimed(there) /\ ui' = ui
  BY <1>1 DEF Browse!Here, Browse!TableShown, Lists
<1> HIDE DEF layout
<1>8. PanelGood(fourth', ui.place, ~third.searching) /\ fourth'.layout = layout
  <2> DEFINE asks == IF layout.pinned /\ ~third.searching THEN ui.place ELSE None
             pins == IF layout.pinned THEN fourth.pins ELSE None
  <2>1. /\ asks \in Browse!Places \union {None} /\ asks \in {None, ui.place}
        /\ pins \in Browse!Pins \union {None} /\ (pins # None => layout.pinned /\ ~third.searching)
        /\ (asks = None => pins = None) /\ (asks # None => layout.pinned /\ ~third.searching)
    BY <1>2 DEF PanelGood, Browse!PanelType
  <2>2. \/ fourth' = [Browse!Unpinned EXCEPT !.layout = layout, !.asked = None, !.pinsAsked = asks,
                                            !.pins = pins]
        \/ layout.pinned /\ fourth' = [fourth EXCEPT !.layout = layout, !.asked = None]
    BY <1>7 DEF Browse!PinsOf, Browse!TableShown
  <2> HIDE DEF asks, pins
  <2>3. CASE fourth' = [Browse!Unpinned EXCEPT !.layout = layout, !.asked = None, !.pinsAsked = asks,
                                              !.pins = pins]
    <3>1. /\ fourth' \in Browse!PanelType /\ fourth'.layout = layout /\ fourth'.asked = None
          /\ fourth'.pinsAsked = asks /\ fourth'.pins = pins
      <4>1. fourth' = [fourth EXCEPT !.layout = layout, !.asked = None, !.pinsAsked = asks, !.pins = pins]
        BY <1>2, <2>3 DEF Browse!Unpinned, Browse!PanelType
      <4> QED
        BY <1>2, <1>4, <2>1, <4>1 DEF Browse!PanelType
    <3> QED
      BY <1>4, <1>5, <2>1, <3>1 DEF PanelGood
  <2>4. CASE layout.pinned /\ fourth' = [fourth EXCEPT !.layout = layout, !.asked = None]
    <3>1. /\ fourth' \in Browse!PanelType /\ fourth'.layout = layout /\ fourth'.asked = None
          /\ fourth'.pinsAsked = fourth.pinsAsked /\ fourth'.pins = fourth.pins
      BY <1>2, <1>4, <2>4 DEF Browse!PanelType
    <3> QED
      BY <1>2, <1>4, <1>5, <2>4, <3>1 DEF PanelGood
  <2> QED
    BY <2>2, <2>3, <2>4
<1>9. Lists(ui', fourth') = there
  BY <1>7, <1>8 DEF Lists
<1> HIDE DEF there
<1>10. TableGood(second', there) /\ (third.searching => TableGone(second'))
  BY <1>2, <1>6, <1>7, ReloadIsGood, GoneIsGood
<1>11. /\ third'.searching = third.searching
       /\ SeekGood(third', [text |-> third'.text, status |-> ui.status, scope |-> there.scope])
  BY <1>7, RetimedGood
<1> QED
  BY <1>2, <1>7, <1>8, <1>9, <1>10, <1>11 DEF BrowseGood, Asks

LEMMA PinsCome ==
    ASSUME Browse!ConstantsOK, BrowseGood(ui, second, third, fourth), Browse!PinsAnswered
    PROVE  BrowseGood(ui', second', third', fourth')
<1>1. /\ fourth \in Browse!PanelType /\ PanelGood(fourth, ui.place, ~third.searching)
      /\ ui.place \in Browse!Places /\ None \notin Browse!Pins \union Browse!Places
  BY DEF BrowseGood, ViewGood, PanelGood, Browse!ConstantsOK
<1>2. PICK ok \in BOOLEAN :
          /\ fourth.pinsAsked # None
          /\ fourth' = [fourth EXCEPT !.pins = IF ok THEN [of |-> fourth.pinsAsked] ELSE None,
                                      !.pinsAsked = None]
          /\ UNCHANGED <<ui, second, third>>
  BY DEF Browse!PinsAnswered
<1> DEFINE pins == IF ok THEN [of |-> fourth.pinsAsked] ELSE None
<1>3. fourth.pinsAsked = ui.place
  BY <1>1, <1>2 DEF PanelGood
<1>4. pins \in Browse!Pins \union {None} /\ (pins # None => pins.of = ui.place)
  BY <1>1, <1>3 DEF Browse!Pins
<1>5. fourth' = [fourth EXCEPT !.pins = pins, !.pinsAsked = None]
  BY <1>2
<1> HIDE DEF pins
<1>6. /\ fourth' \in Browse!PanelType /\ fourth'.layout = fourth.layout
      /\ fourth'.asked = fourth.asked /\ fourth'.pinsAsked = None /\ fourth'.pins = pins
  BY <1>1, <1>4, <1>5 DEF Browse!PanelType
<1>7. PanelGood(fourth', ui.place, ~third.searching)
  BY <1>1, <1>3, <1>4, <1>6 DEF PanelGood
<1>8. Lists(ui', fourth') = Lists(ui, fourth) /\ Asks(third', ui', fourth') = Asks(third, ui, fourth)
  BY <1>2, <1>6 DEF Lists, Asks
<1> QED
  BY <1>2, <1>7, <1>8 DEF BrowseGood

(* Another page, another status, or the tags. *)
LEMMA ViewSteps ==
    ASSUME Browse!ConstantsOK, BrowseGood(ui, second, third, fourth),
           \/ Browse!TagsAnswered
           \/ \E place \in Browse!Places : Browse!GoTo(place)
           \/ \E status \in TableStatuses : Browse!Select(status)
    PROVE  BrowseGood(ui', second', third', fourth')
<1>1. /\ third \in Browse!SeekType /\ third.searching \in BOOLEAN /\ ui.place \in Browse!Places
      /\ ui.moves \in 0..MaxMoves /\ MaxMoves \in Nat /\ fourth \in Browse!PanelType
      /\ ui \in [place : Browse!Places, status : TableStatuses, moves : 0..MaxMoves, tags : BOOLEAN]
      /\ None \notin Browse!Places /\ ViewGood(ui) /\ TableGood(second, Lists(ui, fourth))
      /\ SeekGood(third, Asks(third, ui, fourth)) /\ (third.searching => TableGone(second))
      /\ PanelGood(fourth, ui.place, ~third.searching)
      /\ fourth.layout \in Browse!Layouts \union {None}
  BY LayoutsAre DEF BrowseGood, ViewGood, SeekGood, PanelGood, Browse!SeekType, Browse!ConstantsOK
<1>2. CASE Browse!TagsAnswered
  <2> DEFINE r == [third EXCEPT !.results = None, !.searching = FALSE]
  <2>1. /\ ui' = [ui EXCEPT !.tags = TRUE] /\ Browse!Seeks(r)
        /\ fourth' = [Browse!PanelAfter(third') EXCEPT !.asked = ui.place]
    BY <1>2 DEF Browse!TagsAnswered
  <2>2. /\ r \in Browse!SeekType /\ ~r.searching /\ r.searching \in BOOLEAN
        /\ r.results = None /\ r.asked = third.asked /\ r.mixed = third.mixed
    BY <1>1 DEF Browse!SeekType
  <2> HIDE DEF r
  <2>3. TableGood(second', Lists(ui, fourth)) /\ third' = r
    BY <2>1, <2>2, TableOfSeeks
  <2>4. ViewGood(ui') /\ ui'.place = ui.place
    BY <1>1, <2>1 DEF ViewGood
  <2>5. PanelGood(fourth', ui.place, ~r.searching) /\ fourth'.layout = fourth.layout
    <3> DEFINE after == Browse!PanelAfter(r)
    <3>1. PanelGood(after, ui.place, ~r.searching) /\ after.layout = fourth.layout
      BY <2>2, PanelOfSeeks
    <3>2. fourth' = [after EXCEPT !.asked = ui.place]
      BY <2>1, <2>3
    <3> HIDE DEF after
    <3>3. /\ fourth' \in Browse!PanelType /\ fourth'.layout = after.layout /\ fourth'.asked = ui.place
          /\ fourth'.pins = after.pins /\ fourth'.pinsAsked = after.pinsAsked
      BY <1>1, <3>1, <3>2 DEF PanelGood, Browse!PanelType
    <3> QED
      BY <1>1, <3>1, <3>3 DEF PanelGood
  <2>6. SeekGood(third', Asks(third', ui', fourth'))
    BY <1>1, <2>2, <2>3, SeekRests
  <2>7. Lists(ui', fourth') = Lists(ui, fourth)
    BY <2>4, <2>5 DEF Lists
  <2> QED
    BY <2>2, <2>3, <2>4, <2>5, <2>6, <2>7 DEF BrowseGood
<1>3. CASE \E place \in Browse!Places : Browse!GoTo(place)
  <2>1. PICK place \in Browse!Places : Browse!GoTo(place)
    BY <1>3
  <2> DEFINE moves == ui.moves + 1
             asks == Browse!AsksPins(place)
             there == Browse!Listing(place, fourth.layout)
             r == Browse!Retimed(there)
  <2>2. /\ moves \in 0..MaxMoves /\ asks \in Browse!Places \union {None} /\ asks \in {None, place}
        /\ (asks # None => fourth.layout # None /\ fourth.layout.pinned)
    <3>1. ui.moves < MaxMoves
      BY <2>1 DEF Browse!GoTo
    <3> QED
      BY <1>1, <3>1 DEF Browse!AsksPins
  <2>3. /\ ui' = [ui EXCEPT !.place = place, !.moves = moves]
        /\ fourth' = [fourth EXCEPT !.asked = place, !.pinsAsked = asks]
        /\ third' = [r EXCEPT !.results = None, !.searching = FALSE]
        /\ second' = IF third.searching THEN Browse!Fresh(there) ELSE Browse!Reload(there)
        /\ place # ui.place
    BY <2>1 DEF Browse!GoTo
  <2>4. there \in Browse!Listings
    BY <1>1, ListsIs
  <2>5. /\ r \in Browse!SeekType /\ r.asked = third.asked /\ r.mixed = third.mixed
    BY RetimedGood
  <2> HIDE DEF moves, asks, there, r
  <2>6. ViewGood(ui') /\ ui'.place = place
    BY <1>1, <2>2, <2>3 DEF ViewGood
  <2>7. TableGood(second', there)
    BY <1>1, <2>3, <2>4, FreshIsGood, ReloadIsGood
  <2>8. /\ third' \in Browse!SeekType /\ ~third'.searching /\ third'.results = None
        /\ third'.asked = third.asked /\ third'.mixed = third.mixed
    BY <2>3, <2>5 DEF Browse!SeekType
  <2>9. SeekGood(third', Asks(third', ui', fourth'))
    BY <1>1, <2>8, SeekRests
  <2>10. /\ fourth' \in Browse!PanelType /\ fourth'.layout = fourth.layout
         /\ fourth'.asked = place /\ fourth'.pinsAsked = asks /\ fourth'.pins = fourth.pins
    BY <1>1, <2>2, <2>3 DEF Browse!PanelType
  <2>11. Lists(ui', fourth') = there
    BY <2>6, <2>10 DEF Lists, there
  <2>12. PanelGood(fourth', place, ~third'.searching)
    <3>1. fourth.pins # None => asks = place
      BY <1>1 DEF PanelGood, asks, Browse!AsksPins
    <3> QED
      BY <1>1, <2>2, <2>8, <2>10, <3>1 DEF PanelGood
  <2> QED
    BY <2>6, <2>7, <2>8, <2>9, <2>11, <2>12 DEF BrowseGood
<1>4. CASE \E status \in TableStatuses : Browse!Select(status)
  <2>1. PICK status \in TableStatuses : Browse!Select(status)
    BY <1>4
  <2> DEFINE moves == ui.moves + 1
  <2>2. moves \in 0..MaxMoves
    <3>1. ui.moves < MaxMoves
      BY <2>1 DEF Browse!Select
    <3> QED
      BY <1>1, <3>1
  <2>3. /\ ui' = [ui EXCEPT !.status = status, !.moves = moves]
        /\ fourth' = fourth
        /\ third' = [third EXCEPT !.timer = TRUE]
        /\ second' = IF ~third.searching THEN Browse!Fresh(Lists(ui, fourth)) ELSE second
    BY <2>1 DEF Browse!Select, Browse!TableShown, Browse!Here, Lists
  <2> HIDE DEF moves
  <2>4. ViewGood(ui') /\ ui'.place = ui.place
    BY <1>1, <2>2, <2>3 DEF ViewGood
  <2>5. /\ TableGood(second', Lists(ui, fourth)) /\ (third.searching => TableGone(second'))
        /\ Lists(ui', fourth') = Lists(ui, fourth)
    BY <1>1, <2>3, <2>4, ListsOf, FreshIsGood DEF Lists
  <2>6. /\ third' \in Browse!SeekType /\ third'.timer /\ third'.results = third.results
        /\ third'.asked = third.asked /\ third'.mixed = third.mixed
        /\ third'.searching = third.searching
    BY <1>1, <2>3 DEF Browse!SeekType
  <2>7. SeekGood(third', Asks(third', ui', fourth'))
    BY <1>1, <2>6, SeekRests
  <2> QED
    BY <1>1, <2>3, <2>4, <2>5, <2>6, <2>7 DEF BrowseGood
<1> QED
  BY <1>2, <1>3, <1>4

LEMMA BrowseNextInv ==
    ASSUME Browse!ConstantsOK, Browse!BrowseInv, [Browse!Next]_<<ui, second, third, fourth>>
    PROVE  Browse!BrowseInv'
<1>1. BrowseGood(ui, second, third, fourth)
  BY BrowseInvIs
<1>2. CASE UNCHANGED <<ui, second, third, fourth>>
  BY <1>1, <1>2, BrowseFrom
<1>3. CASE Browse!FetchMore \/ Browse!PageLoaded \/ Browse!PageFailed \/ Browse!Shown
  BY <1>1, <1>3, TableSteps, BrowseFrom
<1>4. CASE \/ Browse!TimerFires \/ Browse!SearchAnswered \/ Browse!Clear
           \/ \E text \in BarTexts \union {None} : Browse!Type(text)
  BY <1>1, <1>4, SeekSteps, BrowseFrom
<1>5. CASE Browse!LayoutAnswered \/ Browse!PinsAnswered
  BY <1>1, <1>5, LayoutComes, PinsCome, BrowseFrom
<1>6. CASE \/ Browse!TagsAnswered
           \/ \E place \in Browse!Places : Browse!GoTo(place)
           \/ \E status \in TableStatuses : Browse!Select(status)
  BY <1>1, <1>6, ViewSteps, BrowseFrom
<1> QED
  BY <1>2, <1>3, <1>4, <1>5, <1>6 DEF Browse!Next

LEMMA BrowseInvShows ==
    Browse!BrowseInv => Browse!RowsOfTheView /\ Browse!SearchAndPanelFit
  BY DEF Browse!BrowseInv
-----------------------------------------------------------------------------
(* The cards, their filters and their rows.  Each part has a type of its own. *)
CardsGood(c) ==
    /\ c \in Grid!CardType /\ c.shown <= c.now
    /\ \A s \in Grid!Statuses : c.kept[s] <= c.now
    /\ \A r \in c.asked : r.number < c.sent /\ (r.got # None => r.got.at <= c.now)
    /\ ~c.doubled =>
           /\ \A r, s \in c.asked : (~r.late /\ ~s.late) => r = s
           /\ c.timer => \A r \in c.asked : r.late
           /\ \A r \in c.asked : (~r.late /\ r.got # None) => r.got.at >= c.shown
    /\ c.hidden => ~c.timer

FilterGood(f) ==
    f \in Grid!FilterType /\ f.written = f.url /\ (~f.timer => f.input = f.url)

RowsGood(g) ==
    /\ g \in Grid!GridType
    /\ g.loading <=> g.timer # None
    /\ (g.told = [in |-> TRUE] /\ g.shown < g.total) => g.loading

LEMMA GridInvIs ==
    ASSUME Grid!ConstantsOK
    PROVE  Grid!GridInv <=> /\ ui \in {"cards", "filters", "rows"}
                            /\ ui = "cards" => CardsGood(second)
                            /\ ui = "filters" => FilterGood(third)
                            /\ ui = "rows" => RowsGood(fourth)
<1>1. \A g \in Grid!GridType :
          Grid!Fewer(Screen, g.total - g.shown) > 0 => g.shown < g.total
  BY DEF Grid!Fewer, Grid!GridType, Grid!ConstantsOK
<1>2. ui = "rows" => (Grid!TypeOK <=> fourth \in Grid!GridType)
  BY <1>1 DEF Grid!TypeOK, Grid!Skeletons, Grid!HasMore
<1>3. CASE ui = "cards"
  BY <1>3 DEF CardsGood, Grid!GridInv, Grid!TypeOK, Grid!CardsAreOfThePast, Grid!OneFetch,
     Grid!HiddenRests, Grid!WrittenIsUrl, Grid!AddressFollows, Grid!TimersRun, Grid!Pending
<1>4. CASE ui = "filters"
  BY <1>4 DEF FilterGood, Grid!GridInv, Grid!TypeOK, Grid!CardsAreOfThePast, Grid!OneFetch,
     Grid!HiddenRests, Grid!WrittenIsUrl, Grid!AddressFollows, Grid!TimersRun
<1>5. CASE ui = "rows"
  BY <1>2, <1>5 DEF RowsGood, Grid!GridInv, Grid!CardsAreOfThePast, Grid!OneFetch,
     Grid!HiddenRests, Grid!WrittenIsUrl, Grid!AddressFollows, Grid!TimersRun, Grid!HasMore
<1>6. CASE ui \notin {"cards", "filters", "rows"}
  BY <1>6 DEF Grid!GridInv, Grid!TypeOK
<1> QED
  BY <1>3, <1>4, <1>5, <1>6

LEMMA GridInvIsNext ==
    ASSUME Grid!ConstantsOK
    PROVE  Grid!GridInv' <=> /\ ui' \in {"cards", "filters", "rows"}
                             /\ ui' = "cards" => CardsGood(second')
                             /\ ui' = "filters" => FilterGood(third')
                             /\ ui' = "rows" => RowsGood(fourth')
<1>1. \A g \in Grid!GridType :
          Grid!Fewer(Screen, g.total - g.shown) > 0 => g.shown < g.total
  BY DEF Grid!Fewer, Grid!GridType, Grid!ConstantsOK
<1>2. ui' = "rows" => (Grid!TypeOK' <=> fourth' \in Grid!GridType)
  BY <1>1 DEF Grid!TypeOK, Grid!Skeletons, Grid!HasMore
<1>3. CASE ui' = "cards"
  BY <1>3 DEF CardsGood, Grid!GridInv, Grid!TypeOK, Grid!CardsAreOfThePast, Grid!OneFetch,
     Grid!HiddenRests, Grid!WrittenIsUrl, Grid!AddressFollows, Grid!TimersRun, Grid!Pending
<1>4. CASE ui' = "filters"
  BY <1>4 DEF FilterGood, Grid!GridInv, Grid!TypeOK, Grid!CardsAreOfThePast, Grid!OneFetch,
     Grid!HiddenRests, Grid!WrittenIsUrl, Grid!AddressFollows, Grid!TimersRun
<1>5. CASE ui' = "rows"
  BY <1>2, <1>5 DEF RowsGood, Grid!GridInv, Grid!CardsAreOfThePast, Grid!OneFetch,
     Grid!HiddenRests, Grid!WrittenIsUrl, Grid!AddressFollows, Grid!TimersRun, Grid!HasMore
<1>6. CASE ui' \notin {"cards", "filters", "rows"}
  BY <1>6 DEF Grid!GridInv, Grid!TypeOK
<1> QED
  BY <1>3, <1>4, <1>5, <1>6

LEMMA GridInitInv == Grid!ConstantsOK /\ Grid!Init => Grid!GridInv
<1> SUFFICES ASSUME Grid!ConstantsOK, Grid!Init
             PROVE  Grid!GridInv
  OBVIOUS
<1>1. MaxVersions \in Nat \ {0} /\ MaxCards \in Nat /\ Screen \in Nat /\ None \notin Grid!Waits
  BY DEF Grid!ConstantsOK
<1>2. CASE ui = "cards"
  <2> DEFINE first == [number |-> 0, got |-> None, late |-> FALSE]
             asked == {first}
             kept == [s \in Grid!Statuses |-> 0]
             now == 1
             zero == 0
  <2>1. first \in [number : Nat, got : Grid!Visits \union {None}, late : BOOLEAN]
    OBVIOUS
  <2>2. /\ now \in 0..MaxVersions /\ zero \in 0..MaxVersions /\ kept \in [Grid!Statuses -> 0..MaxVersions]
        /\ "active" \in Grid!Statuses /\ now \in Nat /\ zero <= now
    BY <1>1 DEF Grid!Statuses
  <2>3. second = [status |-> "active", kept |-> kept, shown |-> zero, hidden |-> FALSE,
                  timer |-> FALSE, asked |-> asked, sent |-> now, now |-> now, loading |-> TRUE,
                  doubled |-> FALSE]
    BY <1>2 DEF Grid!Init, Grid!CardsInit
  <2>4. \A r \in asked : r.number < now /\ r.got = None /\ r = first
    OBVIOUS
  <2>5. \A s \in Grid!Statuses : kept[s] <= now
    OBVIOUS
  <2>6. asked \in SUBSET [number : Nat, got : Grid!Visits \union {None}, late : BOOLEAN]
    BY <2>1
  <2> HIDE DEF first, asked, kept, now, zero
  <2>7. second \in Grid!CardType
    BY <2>2, <2>3, <2>6 DEF Grid!CardType
  <2>8. /\ second.asked = asked /\ second.sent = now /\ second.now = now /\ second.shown = zero
        /\ second.kept = kept /\ second.timer = FALSE
    BY <2>3
  <2>9. CardsGood(second)
    BY <2>2, <2>4, <2>5, <2>7, <2>8 DEF CardsGood
  <2> QED
    BY <1>2, <2>9, GridInvIs
<1>3. CASE ui = "filters"
  <2>1. third = [url |-> None, status |-> "active", input |-> None, written |-> None,
                 timer |-> FALSE, drawer |-> FALSE]
    BY <1>3 DEF Grid!Init, Grid!FilterInit
  <2>2. FilterGood(third)
    BY <2>1 DEF FilterGood, Grid!FilterType, Grid!Statuses
  <2> QED
    BY <1>3, <2>2, GridInvIs
<1>4. CASE ui = "rows"
  <2>1. PICK n \in 0..MaxCards :
            fourth = [total |-> n, shown |-> Grid!Fewer(Screen, n), loading |-> TRUE,
                      timer |-> [upTo |-> n], had |-> n > 0, in |-> TRUE, told |-> None,
                      ref |-> TRUE, late |-> FALSE]
    BY <1>4 DEF Grid!Init, Grid!GridInit
  <2> DEFINE shown == Grid!Fewer(Screen, n)
             wait == [upTo |-> n]
             had == n > 0
  <2>2. shown \in 0..MaxCards /\ wait \in Grid!Waits /\ had \in BOOLEAN
    BY <1>1 DEF Grid!Fewer, Grid!Waits
  <2>3. fourth = [total |-> n, shown |-> shown, loading |-> TRUE, timer |-> wait, had |-> had,
                  in |-> TRUE, told |-> None, ref |-> TRUE, late |-> FALSE]
    BY <2>1
  <2> HIDE DEF shown, wait, had
  <2>4. fourth \in Grid!GridType
    BY <2>2, <2>3 DEF Grid!GridType
  <2>5. fourth.loading = TRUE /\ fourth.timer = wait
    BY <2>3
  <2>6. RowsGood(fourth)
    BY <1>1, <2>2, <2>4, <2>5 DEF RowsGood
  <2> QED
    BY <1>4, <2>6, GridInvIs
<1> QED
  BY <1>2, <1>3, <1>4 DEF Grid!Init

LEMMA CardsGo ==
    ASSUME Grid!ConstantsOK, ui = "cards", NEW c, Grid!Cards(c), CardsGood(c)
    PROVE  Grid!GridInv'
<1>1. ui' = "cards" /\ second' = c
  BY DEF Grid!Cards
<1> QED
  BY <1>1, GridInvIsNext

(* What a request adds. *)
LEMMA CardsSent ==
    ASSUME NEW c \in Grid!CardType
    PROVE  LET d == Grid!Sent(c)
               new == [number |-> c.sent, got |-> None, late |-> FALSE]
           IN  /\ d \in Grid!CardType /\ d.asked = c.asked \union {new} /\ d.sent = c.sent + 1
               /\ d.status = c.status /\ d.kept = c.kept /\ d.shown = c.shown /\ d.hidden = c.hidden
               /\ d.timer = c.timer /\ d.now = c.now /\ d.doubled = c.doubled
<1> DEFINE new == [number |-> c.sent, got |-> None, late |-> FALSE]
           asked == c.asked \union {new}
           sent == c.sent + 1
           d == Grid!Sent(c)
<1>1. c.sent \in Nat
  BY DEF Grid!CardType
<1>2. asked \in SUBSET [number : Nat, got : Grid!Visits \union {None}, late : BOOLEAN] /\ sent \in Nat
  <2>1. new \in [number : Nat, got : Grid!Visits \union {None}, late : BOOLEAN]
    BY <1>1
  <2>2. c.asked \in SUBSET [number : Nat, got : Grid!Visits \union {None}, late : BOOLEAN]
    BY DEF Grid!CardType
  <2> HIDE DEF new
  <2> QED
    BY <1>1, <2>1, <2>2
<1>3. d = [c EXCEPT !.asked = asked, !.sent = sent]
  BY DEF Grid!Sent
<1> HIDE DEF asked, sent, d
<1>4. /\ d \in Grid!CardType /\ d.asked = asked /\ d.sent = sent
      /\ d.status = c.status /\ d.kept = c.kept /\ d.shown = c.shown /\ d.hidden = c.hidden
      /\ d.timer = c.timer /\ d.now = c.now /\ d.doubled = c.doubled
  BY <1>2, <1>3 DEF Grid!CardType
<1> QED
  BY <1>4 DEF d, asked, sent

(* A request while none that counts is under way, or a visit doubled them. *)
LEMMA CardsSentGood ==
    ASSUME NEW c, CardsGood(c), ~c.timer, c.doubled \/ \A r \in c.asked : r.late
    PROVE  CardsGood(Grid!Sent(c))
<1> DEFINE d == Grid!Sent(c)
           new == [number |-> c.sent, got |-> None, late |-> FALSE]
<1>1. /\ d \in Grid!CardType /\ d.asked = c.asked \union {new} /\ d.sent = c.sent + 1
      /\ d.status = c.status /\ d.kept = c.kept /\ d.shown = c.shown /\ d.hidden = c.hidden
      /\ d.timer = c.timer /\ d.now = c.now /\ d.doubled = c.doubled
  BY CardsSent DEF CardsGood
<1>2. new.number = c.sent /\ new.got = None
  OBVIOUS
<1>3. /\ c.sent \in Nat
      /\ \A r \in c.asked : r.number \in Nat
  BY DEF CardsGood, Grid!CardType
<1> HIDE DEF d, new
<1>4. \A r \in d.asked : r.number < d.sent /\ (r.got # None => r.got.at <= d.now)
  BY <1>1, <1>2, <1>3 DEF CardsGood
<1>5. ~d.doubled => \A r \in d.asked : r.late \/ r = new
  BY <1>1
<1>6. CardsGood(d)
  BY <1>1, <1>2, <1>4, <1>5 DEF CardsGood
<1> QED
  BY <1>6 DEF d

(* The clock of the server, the page hidden, and the server's reading. *)
LEMMA CardsQuiet ==
    ASSUME Grid!ConstantsOK, ui = "cards", CardsGood(second),
           Grid!Changed \/ Grid!Served \/ Grid!Hide
    PROVE  Grid!GridInv' /\ second'.shown = second.shown
<1>1. /\ second \in Grid!CardType /\ second.now \in 0..MaxVersions /\ MaxVersions \in Nat
      /\ second.shown \in 0..MaxVersions
      /\ second.asked \in SUBSET [number : Nat, got : Grid!Visits \union {None}, late : BOOLEAN]
      /\ \A r \in second.asked : r.got # None => r.got.at \in 0..MaxVersions
      /\ None \notin Grid!Visits
  BY DEF CardsGood, Grid!CardType, Grid!ConstantsOK, Grid!Visits
<1>2. CASE Grid!Changed
  <2> DEFINE now == second.now + 1
             c == [second EXCEPT !.now = now]
  <2>1. now \in 0..MaxVersions /\ now >= second.now
    BY <1>1, <1>2 DEF Grid!Changed
  <2>2. Grid!Cards(c)
    BY <1>2 DEF Grid!Changed
  <2>3. \A v \in 0..MaxVersions : v <= second.now => v <= now
    BY <1>1, <2>1
  <2> HIDE DEF now
  <2>4. /\ c \in Grid!CardType /\ c.asked = second.asked /\ c.sent = second.sent
        /\ c.kept = second.kept /\ c.shown = second.shown /\ c.hidden = second.hidden
        /\ c.timer = second.timer /\ c.now = now /\ c.doubled = second.doubled
    BY <1>1, <2>1 DEF Grid!CardType
  <2>5. \A s \in Grid!Statuses : second.kept[s] \in 0..MaxVersions
    BY <1>1 DEF Grid!CardType
  <2> HIDE DEF c
  <2>6. CardsGood(c)
    BY <1>1, <2>3, <2>4, <2>5 DEF CardsGood
  <2>7. second' = c
    BY <2>2 DEF Grid!Cards
  <2> QED
    BY <2>2, <2>4, <2>6, <2>7, CardsGo
<1>3. CASE Grid!Served
  <2>1. PICK r \in second.asked :
            /\ r.got = None
            /\ Grid!Cards([second EXCEPT !.asked = (@ \ {r}) \union {[r EXCEPT !.got = [at |-> second.now]]}])
    BY <1>3 DEF Grid!Served
  <2> DEFINE visit == [at |-> second.now]
             read == [r EXCEPT !.got = visit]
             asked == (second.asked \ {r}) \union {read}
             c == [second EXCEPT !.asked = asked]
  <2>2. visit \in Grid!Visits /\ visit.at = second.now
    BY <1>1 DEF Grid!Visits
  <2>3. Grid!Cards(c)
    BY <2>1
  <2> HIDE DEF visit
  <2>4. /\ read \in [number : Nat, got : Grid!Visits \union {None}, late : BOOLEAN]
        /\ read.number = r.number /\ read.late = r.late /\ read.got = visit
    BY <1>1, <2>1, <2>2
  <2> HIDE DEF read
  <2>5. /\ asked \in SUBSET [number : Nat, got : Grid!Visits \union {None}, late : BOOLEAN]
        /\ \A q \in asked : q \in second.asked \ {r} \/ q = read
    BY <1>1, <2>4
  <2> HIDE DEF asked
  <2>6. /\ c \in Grid!CardType /\ c.asked = asked /\ c.sent = second.sent
        /\ c.kept = second.kept /\ c.shown = second.shown /\ c.hidden = second.hidden
        /\ c.timer = second.timer /\ c.now = second.now /\ c.doubled = second.doubled
    BY <1>1, <2>5 DEF Grid!CardType
  <2> HIDE DEF c
  <2>7. \A q \in asked : q.number < second.sent /\ (q.got # None => q.got.at <= second.now)
    BY <1>1, <2>2, <2>4, <2>5 DEF CardsGood
  <2>8. ~second.doubled =>
             /\ \A q, s \in asked : (~q.late /\ ~s.late) => q = s
             /\ second.timer => \A q \in asked : q.late
             /\ \A q \in asked : (~q.late /\ q.got # None) => q.got.at >= second.shown
    <3>1. second.now >= second.shown
      BY <1>1 DEF CardsGood
    <3> QED
      BY <2>1, <2>2, <2>4, <2>5, <3>1 DEF CardsGood
  <2>9. CardsGood(c)
    BY <2>6, <2>7, <2>8 DEF CardsGood
  <2>10. second' = c
    BY <2>3 DEF Grid!Cards
  <2> QED
    BY <2>3, <2>6, <2>9, <2>10, CardsGo
<1>4. CASE Grid!Hide
  <2> DEFINE c == [second EXCEPT !.hidden = TRUE, !.timer = FALSE]
  <2>1. Grid!Cards(c)
    BY <1>4 DEF Grid!Hide
  <2>2. /\ c \in Grid!CardType /\ c.asked = second.asked /\ c.sent = second.sent
        /\ c.kept = second.kept /\ c.shown = second.shown /\ c.hidden = TRUE
        /\ c.timer = FALSE /\ c.now = second.now /\ c.doubled = second.doubled
    BY <1>1 DEF Grid!CardType
  <2> HIDE DEF c
  <2>3. CardsGood(c)
    BY <2>2 DEF CardsGood
  <2>4. second' = c
    BY <2>1 DEF Grid!Cards
  <2> QED
    BY <2>1, <2>2, <2>3, <2>4, CardsGo
<1> QED
  BY <1>2, <1>3, <1>4

(* A fetch ends. *)
LEMMA CardsEnd ==
    ASSUME Grid!ConstantsOK, ui = "cards", CardsGood(second), NEW r \in second.asked,
           NEW kept \in [Grid!Statuses -> 0..MaxVersions], NEW shown \in 0..MaxVersions,
           NEW timer \in BOOLEAN, NEW doubled \in BOOLEAN, NEW loading \in BOOLEAN,
           \A s \in Grid!Statuses : kept[s] <= second.now,
           shown <= second.now, second.hidden => ~timer,
           Grid!Cards([second EXCEPT !.asked = @ \ {r}, !.kept = kept, !.shown = shown,
                                     !.loading = loading, !.timer = timer, !.doubled = doubled]),
           \/ doubled
           \/ \A q \in second.asked \ {r} : q.late
           \/ timer = second.timer /\ shown = second.shown /\ ~second.doubled
    PROVE  Grid!GridInv'
<1> DEFINE asked == second.asked \ {r}
           c == [second EXCEPT !.asked = asked, !.kept = kept, !.shown = shown,
                               !.loading = loading, !.timer = timer, !.doubled = doubled]
<1>1. second \in Grid!CardType
  BY DEF CardsGood
<1>2. /\ asked \in SUBSET [number : Nat, got : Grid!Visits \union {None}, late : BOOLEAN]
      /\ asked \subseteq second.asked
  BY <1>1 DEF Grid!CardType
<1>3. Grid!Cards(c)
  OBVIOUS
<1>4. \/ doubled
      \/ \A q \in asked : q.late
      \/ timer = second.timer /\ shown = second.shown /\ ~second.doubled
  OBVIOUS
<1> HIDE DEF asked
<1>5. /\ c \in Grid!CardType /\ c.asked = asked /\ c.sent = second.sent
      /\ c.kept = kept /\ c.shown = shown /\ c.hidden = second.hidden
      /\ c.timer = timer /\ c.now = second.now /\ c.doubled = doubled
  BY <1>1, <1>2 DEF Grid!CardType
<1> HIDE DEF c
<1>6. ~doubled =>
          /\ \A q, s \in asked : (~q.late /\ ~s.late) => q = s
          /\ timer => \A q \in asked : q.late
          /\ \A q \in asked : (~q.late /\ q.got # None) => q.got.at >= shown
  BY <1>2, <1>4 DEF CardsGood
<1>7. CardsGood(c)
  BY <1>2, <1>5, <1>6 DEF CardsGood
<1> QED
  BY <1>3, <1>7, CardsGo

LEMMA CardsEnds ==
    ASSUME Grid!ConstantsOK, ui = "cards", CardsGood(second), Grid!Answered \/ Grid!Failed
    PROVE  Grid!GridInv' /\ (~second.doubled => second'.shown >= second.shown)
<1>1. /\ second \in Grid!CardType /\ second.now \in 0..MaxVersions /\ MaxVersions \in Nat
      /\ second.shown \in 0..MaxVersions /\ second.status \in Grid!Statuses
      /\ second.kept \in [Grid!Statuses -> 0..MaxVersions]
      /\ second.timer \in BOOLEAN /\ second.doubled \in BOOLEAN /\ second.loading \in BOOLEAN
      /\ \A r \in second.asked : r.got # None => r.got.at \in 0..MaxVersions
      /\ None \notin Grid!Visits /\ second.hidden \in BOOLEAN
  BY DEF CardsGood, Grid!CardType, Grid!ConstantsOK, Grid!Visits
<1>2. ASSUME NEW r \in second.asked, r.late, Grid!Cards([second EXCEPT !.asked = @ \ {r}])
      PROVE  Grid!GridInv' /\ second'.shown = second.shown
  <2> DEFINE asked == second.asked \ {r}
             c == [second EXCEPT !.asked = asked]
  <2>1. asked \in SUBSET [number : Nat, got : Grid!Visits \union {None}, late : BOOLEAN]
        /\ asked \subseteq second.asked
    BY <1>1 DEF Grid!CardType
  <2>2. Grid!Cards(c)
    BY <1>2
  <2> HIDE DEF asked
  <2>3. /\ c \in Grid!CardType /\ c.asked = asked /\ c.sent = second.sent
        /\ c.kept = second.kept /\ c.shown = second.shown /\ c.hidden = second.hidden
        /\ c.timer = second.timer /\ c.now = second.now /\ c.doubled = second.doubled
    BY <1>1, <2>1 DEF Grid!CardType
  <2> HIDE DEF c
  <2>4. CardsGood(c)
    BY <2>1, <2>3 DEF CardsGood
  <2>5. second' = c
    BY <2>2 DEF Grid!Cards
  <2> QED
    BY <2>2, <2>3, <2>4, <2>5, CardsGo
<1>3. ASSUME NEW r \in second.asked, ~r.late,
             NEW kept \in [Grid!Statuses -> 0..MaxVersions], NEW shown \in 0..MaxVersions,
             \A s \in Grid!Statuses : kept[s] <= second.now, shown <= second.now,
             Grid!Cards(Grid!Scheduled(
                 [second EXCEPT !.asked = @ \ {r}, !.kept = kept, !.shown = shown,
                                !.loading = FALSE, !.doubled = @ /\ Grid!Pending # {r}]))
      PROVE  Grid!GridInv' /\ second'.shown = shown
  <2> DEFINE timer == ~second.hidden
             doubled == second.doubled /\ Grid!Pending # {r}
             c == [second EXCEPT !.asked = @ \ {r}, !.kept = kept, !.shown = shown,
                                 !.loading = FALSE, !.timer = timer, !.doubled = doubled]
  <2>1. timer \in BOOLEAN /\ doubled \in BOOLEAN /\ (second.hidden => ~timer)
    BY <1>1
  <2>2. Grid!Cards(c)
    BY <1>1, <1>3 DEF Grid!Scheduled, Grid!CardType
  <2>3. doubled \/ \A q \in second.asked \ {r} : q.late
    <3>1. CASE second.doubled
      BY <3>1 DEF Grid!Pending
    <3>2. CASE ~second.doubled
      BY <1>3, <3>2 DEF CardsGood
    <3> QED
      BY <3>1, <3>2
  <2> HIDE DEF timer, doubled
  <2>4. Grid!GridInv'
    BY <1>3, <2>1, <2>2, <2>3, CardsEnd
  <2>5. c.shown = shown /\ second' = c
    BY <1>1, <2>2 DEF Grid!Cards, Grid!CardType
  <2> QED
    BY <2>4, <2>5
<1>4. CASE Grid!Answered
  <2>1. PICK r \in second.asked :
            /\ r.got # None
            /\ LET rest == [second EXCEPT !.asked = @ \ {r}] IN
               Grid!Cards(IF r.late THEN rest
                          ELSE Grid!Scheduled([rest EXCEPT !.kept[second.status] = r.got.at, !.shown = r.got.at,
                                             !.loading = FALSE,
                                             !.doubled = @ /\ Grid!Pending # {r}]))
    BY <1>4 DEF Grid!Answered
  <2>2. CASE r.late
    BY <1>1, <1>2, <2>1, <2>2
  <2>3. CASE ~r.late
    <3> DEFINE kept == [second.kept EXCEPT ![second.status] = r.got.at]
               shown == r.got.at
    <3>1. shown \in 0..MaxVersions /\ kept \in [Grid!Statuses -> 0..MaxVersions] /\ shown <= second.now
      BY <1>1, <2>1 DEF CardsGood
    <3>2. \A s \in Grid!Statuses : kept[s] <= second.now
      BY <1>1, <3>1 DEF CardsGood
    <3> DEFINE rest == [second EXCEPT !.asked = @ \ {r}]
    <3>5. Grid!Cards(Grid!Scheduled([rest EXCEPT !.kept[second.status] = r.got.at, !.shown = r.got.at,
                         !.loading = FALSE, !.doubled = @ /\ Grid!Pending # {r}]))
      BY <2>1, <2>3
    <3>6. rest.kept = second.kept /\ rest.doubled = second.doubled
      BY <1>1 DEF Grid!CardType
    <3>7. [rest EXCEPT !.kept[second.status] = r.got.at, !.shown = r.got.at,
                       !.loading = FALSE, !.doubled = @ /\ Grid!Pending # {r}]
          = [rest EXCEPT !.kept = kept, !.shown = shown,
                         !.loading = FALSE, !.doubled = @ /\ Grid!Pending # {r}]
      <4> HIDE DEF rest
      <4> QED
        BY <3>6
    <3>8. [rest EXCEPT !.kept = kept, !.shown = shown,
                       !.loading = FALSE, !.doubled = @ /\ Grid!Pending # {r}]
          = [second EXCEPT !.asked = @ \ {r}, !.kept = kept, !.shown = shown,
                           !.loading = FALSE, !.doubled = @ /\ Grid!Pending # {r}]
      <4> HIDE DEF kept, shown
      <4> QED
        BY <1>1 DEF Grid!CardType
    <3>3. Grid!Cards(Grid!Scheduled(
              [second EXCEPT !.asked = @ \ {r}, !.kept = kept, !.shown = shown,
                             !.loading = FALSE, !.doubled = @ /\ Grid!Pending # {r}]))
      BY <3>5, <3>7, <3>8
    <3>4. ~second.doubled => shown >= second.shown
      BY <2>1, <2>3 DEF CardsGood
    <3> HIDE DEF kept, shown
    <3> QED
      BY <1>3, <2>3, <3>1, <3>2, <3>3, <3>4
  <2> QED
    BY <2>2, <2>3
<1>5. CASE Grid!Failed
  <2>1. PICK r \in second.asked :
            LET rest == [second EXCEPT !.asked = @ \ {r}] IN
            Grid!Cards(IF r.late THEN rest
                       ELSE Grid!Scheduled([rest EXCEPT !.loading = FALSE, !.doubled = @ /\ Grid!Pending # {r}]))
    BY <1>5 DEF Grid!Failed
  <2>2. CASE r.late
    BY <1>1, <1>2, <2>1, <2>2
  <2>3. CASE ~r.late
    <3>1. Grid!Cards(Grid!Scheduled(
              [second EXCEPT !.asked = @ \ {r}, !.kept = second.kept, !.shown = second.shown,
                             !.loading = FALSE, !.doubled = @ /\ Grid!Pending # {r}]))
      BY <1>1, <2>1, <2>3 DEF Grid!CardType
    <3>2. (\A s \in Grid!Statuses : second.kept[s] <= second.now) /\ second.shown <= second.now
      BY DEF CardsGood
    <3> DEFINE kept == second.kept
               shown == second.shown
    <3>3. /\ kept \in [Grid!Statuses -> 0..MaxVersions] /\ shown \in 0..MaxVersions
          /\ \A s \in Grid!Statuses : kept[s] <= second.now
          /\ shown <= second.now /\ shown >= second.shown
      BY <1>1, <3>2
    <3>4. Grid!Cards(Grid!Scheduled(
              [second EXCEPT !.asked = @ \ {r}, !.kept = kept, !.shown = shown,
                             !.loading = FALSE, !.doubled = @ /\ Grid!Pending # {r}]))
      BY <3>1
    <3> HIDE DEF kept, shown
    <3> QED
      BY <1>3, <2>3, <3>3, <3>4
  <2> QED
    BY <2>2, <2>3
<1> QED
  BY <1>4, <1>5

(* A fetch begins. *)
LEMMA CardsBegin ==
    ASSUME Grid!ConstantsOK, ui = "cards", CardsGood(second),
           \/ Grid!TimerFires \/ Grid!ComeBack
           \/ \E status \in Grid!Statuses : Grid!Show(status)
    PROVE  Grid!GridInv' /\ (second'.status = second.status => second'.shown = second.shown)
<1>1. /\ second \in Grid!CardType /\ second.doubled \in BOOLEAN
      /\ second.kept \in [Grid!Statuses -> 0..MaxVersions]
  BY DEF CardsGood, Grid!CardType
<1>2. CASE Grid!TimerFires
  <2> DEFINE c == [second EXCEPT !.timer = FALSE]
  <2>1. second.timer /\ Grid!Cards(Grid!Sent(c))
    BY <1>2 DEF Grid!TimerFires
  <2>2. /\ c \in Grid!CardType /\ c.asked = second.asked /\ c.sent = second.sent
        /\ c.kept = second.kept /\ c.shown = second.shown /\ c.hidden = second.hidden
        /\ c.timer = FALSE /\ c.now = second.now /\ c.doubled = second.doubled
    BY <1>1 DEF Grid!CardType
  <2> HIDE DEF c
  <2>3. CardsGood(c) /\ (c.doubled \/ \A r \in c.asked : r.late)
    BY <2>1, <2>2 DEF CardsGood
  <2>4. CardsGood(Grid!Sent(c)) /\ Grid!Sent(c).shown = c.shown
    BY <2>2, <2>3, CardsSent, CardsSentGood
  <2>5. second' = Grid!Sent(c)
    BY <2>1 DEF Grid!Cards
  <2> QED
    BY <2>1, <2>2, <2>4, <2>5, CardsGo
<1>3. CASE Grid!ComeBack
  <2> DEFINE doubled == second.doubled \/ Grid!Pending # {}
             c == [second EXCEPT !.hidden = FALSE, !.doubled = doubled]
  <2>1. second.hidden /\ Grid!Cards(Grid!Sent(c)) /\ doubled \in BOOLEAN
    BY <1>1, <1>3 DEF Grid!ComeBack, Grid!CardType
  <2>2. doubled \/ (~second.doubled /\ \A r \in second.asked : r.late)
    BY DEF Grid!Pending
  <2> HIDE DEF doubled
  <2>3. /\ c \in Grid!CardType /\ c.asked = second.asked /\ c.sent = second.sent
        /\ c.kept = second.kept /\ c.shown = second.shown /\ c.hidden = FALSE
        /\ c.timer = second.timer /\ c.now = second.now /\ c.doubled = doubled
    BY <1>1, <2>1 DEF Grid!CardType
  <2> HIDE DEF c
  <2>4. CardsGood(c) /\ ~c.timer /\ (c.doubled \/ \A r \in c.asked : r.late)
    BY <2>1, <2>2, <2>3 DEF CardsGood
  <2>5. CardsGood(Grid!Sent(c)) /\ Grid!Sent(c).shown = c.shown
    BY <2>3, <2>4, CardsSent, CardsSentGood
  <2>6. second' = Grid!Sent(c)
    BY <2>1 DEF Grid!Cards
  <2> QED
    BY <2>1, <2>3, <2>5, <2>6, CardsGo
<1>4. CASE \E status \in Grid!Statuses : Grid!Show(status)
  <2>1. PICK status \in Grid!Statuses : Grid!Show(status)
    BY <1>4
  <2> DEFINE shown == second.kept[status]
             loading == second.kept[status] = 0
             asked == {[r EXCEPT !.late = TRUE] : r \in second.asked}
             c == [second EXCEPT !.status = status, !.shown = shown, !.loading = loading,
                                 !.timer = FALSE, !.doubled = FALSE, !.asked = asked]
  <2>2. status # second.status /\ Grid!Cards(Grid!Sent(c))
    BY <2>1 DEF Grid!Show
  <2>3. shown \in 0..MaxVersions /\ loading \in BOOLEAN /\ shown <= second.now
    BY <1>1 DEF CardsGood
  <2>4. ASSUME NEW r \in second.asked
        PROVE  LET q == [r EXCEPT !.late = TRUE]
               IN  /\ q \in [number : Nat, got : Grid!Visits \union {None}, late : BOOLEAN]
                   /\ q.late /\ q.number = r.number /\ q.got = r.got
    BY <1>1 DEF Grid!CardType
  <2>5. /\ asked \in SUBSET [number : Nat, got : Grid!Visits \union {None}, late : BOOLEAN]
        /\ \A q \in asked : q.late /\ \E r \in second.asked : q.number = r.number /\ q.got = r.got
    BY <2>4
  <2> HIDE DEF asked, shown, loading
  <2>6. /\ c \in Grid!CardType /\ c.asked = asked /\ c.sent = second.sent
        /\ c.kept = second.kept /\ c.shown = shown /\ c.hidden = second.hidden
        /\ c.timer = FALSE /\ c.now = second.now /\ c.doubled = FALSE /\ c.status = status
    BY <1>1, <2>3, <2>5 DEF Grid!CardType
  <2> HIDE DEF c
  <2>7. CardsGood(c) /\ \A r \in c.asked : r.late
    BY <2>3, <2>5, <2>6 DEF CardsGood
  <2>8. CardsGood(Grid!Sent(c)) /\ Grid!Sent(c).status = status
    BY <2>6, <2>7, CardsSent, CardsSentGood
  <2>9. second' = Grid!Sent(c)
    BY <2>2 DEF Grid!Cards
  <2> QED
    BY <2>2, <2>8, <2>9, CardsGo
<1> QED
  BY <1>2, <1>3, <1>4

(* The filters. *)
LEMMA FilterGoes ==
    ASSUME Grid!ConstantsOK, ui = "filters", NEW f, Grid!Filter(f), FilterGood(f)
    PROVE  Grid!GridInv'
<1>1. ui' = "filters" /\ third' = f
  BY DEF Grid!Filter
<1> QED
  BY <1>1, GridInvIsNext

LEMMA FilterSteps ==
    ASSUME Grid!ConstantsOK, ui = "filters", FilterGood(third),
           \/ Grid!WriteSearch \/ Grid!ClearAll \/ Grid!Drawer
           \/ \E status \in Grid!Statuses : Grid!Choose(status)
           \/ \E text \in GridTexts \union {None} : Grid!Type(text) \/ Grid!Navigate(text)
    PROVE  Grid!GridInv'
<1>1. third \in Grid!FilterType /\ third.written = third.url /\ (~third.timer => third.input = third.url)
  BY DEF FilterGood
<1>2. "active" \in Grid!Statuses
  BY DEF Grid!Statuses
<1>4. CASE Grid!WriteSearch
  <2> DEFINE text == third.input
             f == [third EXCEPT !.timer = FALSE, !.written = text, !.url = text]
  <2>1. text \in GridTexts \union {None} /\ Grid!Filter(f)
    BY <1>1, <1>4 DEF Grid!WriteSearch, Grid!FilterType
  <2>2. f.written = f.url /\ f.input = f.url
    BY <1>1 DEF Grid!FilterType
  <2>3. f \in Grid!FilterType
    <3> HIDE DEF text
    <3> QED
      BY <1>1, <2>1 DEF Grid!FilterType
  <2> QED
    BY <2>1, <2>2, <2>3, FilterGoes DEF FilterGood
<1>5. CASE Grid!ClearAll
  <2> DEFINE f == [third EXCEPT !.input = None, !.written = None, !.url = None,
                                !.status = "active", !.timer = FALSE]
  <2>1. Grid!Filter(f)
    BY <1>5 DEF Grid!ClearAll
  <2>2. f \in Grid!FilterType /\ f.written = f.url /\ f.input = f.url
    BY <1>1, <1>2 DEF Grid!FilterType
  <2> QED
    BY <2>1, <2>2, FilterGoes DEF FilterGood
<1>6. CASE Grid!Drawer
  <2> DEFINE drawer == ~third.drawer
             f == [third EXCEPT !.drawer = drawer]
  <2>1. drawer \in BOOLEAN
    BY <1>1 DEF Grid!FilterType
  <2>2. Grid!Filter(f)
    BY <1>1, <1>6 DEF Grid!Drawer, Grid!FilterType
  <2> HIDE DEF drawer
  <2>3. f \in Grid!FilterType /\ f.written = third.written /\ f.url = third.url
        /\ f.input = third.input /\ f.timer = third.timer
    BY <1>1, <2>1 DEF Grid!FilterType
  <2> QED
    BY <1>1, <2>2, <2>3, FilterGoes DEF FilterGood
<1>7. CASE \E status \in Grid!Statuses : Grid!Choose(status)
  <2>1. PICK status \in Grid!Statuses : Grid!Choose(status)
    BY <1>7
  <2> DEFINE f == [third EXCEPT !.status = status]
  <2>2. Grid!Filter(f)
    BY <2>1 DEF Grid!Choose
  <2>3. f \in Grid!FilterType /\ f.written = third.written /\ f.url = third.url
        /\ f.input = third.input /\ f.timer = third.timer
    BY <1>1 DEF Grid!FilterType
  <2> QED
    BY <1>1, <2>2, <2>3, FilterGoes DEF FilterGood
<1>8. CASE \E text \in GridTexts \union {None} : Grid!Type(text)
  <2>1. PICK text \in GridTexts \union {None} : Grid!Type(text)
    BY <1>8
  <2> DEFINE timer == text # third.written
             f == [third EXCEPT !.input = text, !.timer = timer]
  <2>2. Grid!Filter(f)
    BY <2>1 DEF Grid!Type
  <2>3. timer \in BOOLEAN /\ (~timer => text = third.url)
    BY <1>1
  <2> HIDE DEF timer
  <2>4. f \in Grid!FilterType /\ f.written = third.written /\ f.url = third.url
        /\ f.input = text /\ f.timer = timer
    BY <1>1, <2>3 DEF Grid!FilterType
  <2> QED
    BY <1>1, <2>2, <2>3, <2>4, FilterGoes DEF FilterGood
<1>9. CASE \E text \in GridTexts \union {None} : Grid!Navigate(text)
  <2>1. PICK text \in GridTexts \union {None} : Grid!Navigate(text)
    BY <1>9
  <2> DEFINE timer == third.timer /\ third.input = text
             f == [third EXCEPT !.url = text, !.written = text, !.input = text, !.timer = timer]
  <2>2. Grid!Filter([third EXCEPT !.url = text, !.written = text, !.input = text,
                                  !.timer = @ /\ third.input = text])
    BY <1>1, <2>1 DEF Grid!Navigate, Grid!Picked
  <2>3. Grid!Filter(f)
    BY <1>1, <2>2 DEF Grid!FilterType
  <2>4. timer \in BOOLEAN
    BY <1>1 DEF Grid!FilterType
  <2> HIDE DEF timer
  <2>5. f \in Grid!FilterType /\ f.written = f.url /\ f.input = f.url
    BY <1>1, <2>4 DEF Grid!FilterType
  <2> QED
    BY <2>3, <2>5, FilterGoes DEF FilterGood
<1> QED
  BY <1>4, <1>5, <1>6, <1>7, <1>8, <1>9

(* The rows. *)
LEMMA RowsGo ==
    ASSUME Grid!ConstantsOK, ui = "rows", NEW g, Grid!Grid(g), RowsGood(g)
    PROVE  Grid!GridInv'
<1>1. ui' = "rows" /\ fourth' = g
  BY DEF Grid!Grid
<1> QED
  BY <1>1, GridInvIsNext

(* More rows are asked for, and their wait is timed. *)
LEMMA RowsNext ==
    ASSUME Grid!ConstantsOK, NEW g \in Grid!GridType, g.loading <=> g.timer # None
    PROVE  LET h == Grid!LoadNext(g)
           IN  /\ h \in Grid!GridType /\ h.loading /\ h.timer # None
               /\ h.total = g.total /\ h.shown = g.shown /\ h.told = g.told
<1> DEFINE wait == [upTo |-> g.total]
           h == Grid!LoadNext(g)
<1>1. wait \in Grid!Waits /\ wait # None
  BY DEF Grid!Waits, Grid!GridType, Grid!ConstantsOK
<1>2. h = IF g.loading THEN g ELSE [g EXCEPT !.loading = TRUE, !.timer = wait]
  BY DEF Grid!LoadNext
<1> HIDE DEF wait, h
<1>3. /\ h \in Grid!GridType /\ h.loading /\ h.timer # None
      /\ h.total = g.total /\ h.shown = g.shown /\ h.told = g.told
  BY <1>1, <1>2 DEF Grid!GridType
<1> QED
  BY <1>3 DEF h

(* A change of the rows, after which the page looks whether more are to come. *)
LEMMA RowsRendered ==
    ASSUME Grid!ConstantsOK, ui = "rows", NEW g \in Grid!GridType, Grid!Rendered(g),
           g.loading <=> g.timer # None,
           (/\ g.told = [in |-> TRUE] /\ g.shown < g.total
            /\ g.loading = fourth.loading /\ (g.shown < g.total <=> fourth.shown < fourth.total))
               => g.loading
    PROVE  Grid!GridInv'
<1>1. CASE Grid!Grid(g) /\ <<g.loading, Grid!HasMore(g), g.total>>
                            = <<fourth.loading, Grid!HasMore(fourth), fourth.total>>
  <2>1. g.loading = fourth.loading /\ (g.shown < g.total <=> fourth.shown < fourth.total)
    BY <1>1 DEF Grid!HasMore
  <2> QED
    BY <1>1, <2>1, RowsGo DEF RowsGood
<1>2. ASSUME NEW more \in Grid!GridType, more.loading <=> more.timer # None,
             Grid!Grid([more EXCEPT !.told = None])
      PROVE  Grid!GridInv'
  <2> DEFINE h == [more EXCEPT !.told = None]
  <2>1. h \in Grid!GridType /\ h.loading = more.loading /\ h.timer = more.timer /\ h.told = None
    BY DEF Grid!GridType
  <2>2. None # [in |-> TRUE]
    <3>1. [in |-> TRUE] \in Grid!Sights
      BY DEF Grid!Sights
    <3> QED
      BY <3>1 DEF Grid!ConstantsOK
  <2> QED
    BY <1>2, <2>1, <2>2, RowsGo DEF RowsGood
<1>3. CASE Grid!Grid([(IF Grid!HasMore(g) /\ g.ref THEN Grid!LoadNext(g) ELSE g) EXCEPT !.told = None])
  <2>1. CASE Grid!HasMore(g) /\ g.ref
    BY <1>2, <1>3, <2>1, RowsNext
  <2>2. CASE ~(Grid!HasMore(g) /\ g.ref)
    BY <1>2, <1>3, <2>2
  <2> QED
    BY <2>1, <2>2
<1> QED
  BY <1>1, <1>3 DEF Grid!Rendered

LEMMA RowsSteps ==
    ASSUME Grid!ConstantsOK, ui = "rows", RowsGood(fourth),
           \/ Grid!ChunkShown \/ Grid!Assumed \/ Grid!Scroll \/ Grid!Told
           \/ \E n \in 0..MaxCards : Grid!Listed(n) \/ Grid!Restart(n)
    PROVE  Grid!GridInv'
<1>1. /\ fourth \in Grid!GridType
      /\ fourth.loading <=> fourth.timer # None
      /\ (fourth.told = [in |-> TRUE] /\ fourth.shown < fourth.total) => fourth.loading
      /\ MaxCards \in Nat /\ Screen \in Nat /\ Chunk \in Nat /\ None \notin Grid!Sights
  BY DEF RowsGood, Grid!ConstantsOK
<1>2. \A k \in Nat, m \in 0..MaxCards : Grid!Fewer(k, m) \in 0..MaxCards
  BY <1>1 DEF Grid!Fewer
<1>3. CASE Grid!ChunkShown
  <2> DEFINE shown == Grid!Fewer(fourth.shown + Chunk, fourth.timer.upTo)
             g == [fourth EXCEPT !.loading = FALSE, !.timer = None, !.shown = shown]
  <2>1. fourth.shown + Chunk \in Nat /\ fourth.timer.upTo \in 0..MaxCards
    BY <1>1, <1>3 DEF Grid!ChunkShown, Grid!GridType, Grid!Waits
  <2>2. shown \in 0..MaxCards
    BY <1>2, <2>1
  <2>3. fourth.timer # None /\ Grid!Rendered(g)
    BY <1>1, <1>3 DEF Grid!ChunkShown, Grid!GridType
  <2> HIDE DEF shown
  <2>4. g \in Grid!GridType /\ g.loading = FALSE /\ g.timer = None
    BY <1>1, <2>2 DEF Grid!GridType
  <2> HIDE DEF g
  <2> QED
    BY <1>1, <2>3, <2>4, RowsRendered
<1>4. CASE Grid!Assumed
  <2> DEFINE g == [fourth EXCEPT !.late = FALSE, !.ref = TRUE]
  <2>1. Grid!Grid(g)
    BY <1>4 DEF Grid!Assumed
  <2>2. /\ g \in Grid!GridType /\ g.loading = fourth.loading /\ g.timer = fourth.timer
        /\ g.told = fourth.told /\ g.shown = fourth.shown /\ g.total = fourth.total
    BY <1>1 DEF Grid!GridType
  <2> HIDE DEF g
  <2> QED
    BY <1>1, <2>1, <2>2, RowsGo DEF RowsGood
<1>5. CASE Grid!Scroll
  <2> DEFINE in == ~fourth.in
             g == [fourth EXCEPT !.in = in]
  <2>1. Grid!Grid(g) /\ in \in BOOLEAN
    BY <1>1, <1>5 DEF Grid!Scroll, Grid!GridType
  <2> HIDE DEF in
  <2>2. /\ g \in Grid!GridType /\ g.loading = fourth.loading /\ g.timer = fourth.timer
        /\ g.told = fourth.told /\ g.shown = fourth.shown /\ g.total = fourth.total
    BY <1>1, <2>1 DEF Grid!GridType
  <2> HIDE DEF g
  <2> QED
    BY <1>1, <2>1, <2>2, RowsGo DEF RowsGood
<1>6. CASE Grid!Told
  <2> DEFINE sight == [in |-> fourth.in]
             told == [fourth EXCEPT !.told = sight, !.ref = fourth.in]
  <2>1. sight \in Grid!Sights /\ fourth.in \in BOOLEAN /\ (sight = [in |-> TRUE] => fourth.in)
    BY <1>1 DEF Grid!Sights, Grid!GridType
  <2>2. Grid!Rendered(IF fourth.in /\ Grid!HasMore(fourth) THEN Grid!LoadNext(told) ELSE told)
    BY <1>6 DEF Grid!Told
  <2> HIDE DEF sight
  <2>3. /\ told \in Grid!GridType /\ told.loading = fourth.loading /\ told.timer = fourth.timer
        /\ told.told = sight /\ told.shown = fourth.shown /\ told.total = fourth.total
    BY <1>1, <2>1 DEF Grid!GridType
  <2> HIDE DEF told
  <2>4. CASE fourth.in /\ Grid!HasMore(fourth)
    <3>1. Grid!Rendered(Grid!LoadNext(told))
      BY <2>2, <2>4
    <3> QED
      BY <1>1, <2>3, <3>1, RowsNext, RowsRendered
  <2>5. CASE ~(fourth.in /\ Grid!HasMore(fourth))
    <3>1. Grid!Rendered(told) /\ ~(fourth.in /\ fourth.shown < fourth.total)
      BY <2>2, <2>5 DEF Grid!HasMore
    <3> QED
      BY <1>1, <2>1, <2>3, <3>1, RowsRendered
  <2> QED
    BY <2>4, <2>5
<1>7. CASE \E n \in 0..MaxCards : Grid!Listed(n)
  <2>1. PICK n \in 0..MaxCards : Grid!Listed(n)
    BY <1>7
  <2> DEFINE g == [fourth EXCEPT !.total = n]
             first == Grid!Fewer(Screen, n)
             h == Grid!FirstCards(g)
  <2>2. /\ g \in Grid!GridType /\ g.loading = fourth.loading /\ g.timer = fourth.timer
        /\ g.told = fourth.told /\ g.total = n /\ g.shown = fourth.shown
    BY <1>1 DEF Grid!GridType
  <2>3. Grid!Rendered(h) /\ first \in 0..MaxCards
    BY <1>1, <1>2, <2>1 DEF Grid!Listed
  <2>4. h = g \/ h = [g EXCEPT !.had = TRUE, !.loading = FALSE, !.timer = None, !.shown = first]
    BY <2>2 DEF Grid!FirstCards
  <2> HIDE DEF g, h, first
  <2>5. CASE h = g
    BY <1>1, <2>2, <2>3, <2>5, RowsRendered
  <2>6. CASE h = [g EXCEPT !.had = TRUE, !.loading = FALSE, !.timer = None, !.shown = first]
    <3>1. /\ h \in Grid!GridType /\ h.loading = FALSE /\ h.timer = None
          /\ h.told = fourth.told /\ h.shown = first /\ h.total = n
      BY <2>2, <2>3, <2>6 DEF Grid!GridType
    <3> QED
      BY <1>1, <2>3, <3>1, RowsRendered
  <2> QED
    BY <2>4, <2>5, <2>6
<1>8. CASE \E n \in 0..MaxCards : Grid!Restart(n)
  <2>1. PICK n \in 0..MaxCards : Grid!Restart(n)
    BY <1>8
  <2> DEFINE none == 0
             g == [[fourth EXCEPT !.total = n]
                     EXCEPT !.shown = none, !.loading = FALSE, !.timer = None, !.late = TRUE]
  <2>2. Grid!Rendered(g)
    BY <2>1 DEF Grid!Restart, Grid!Restarted
  <2>4. none \in 0..MaxCards
    BY <1>1
  <2> HIDE DEF none
  <2>3. g \in Grid!GridType /\ g.loading = FALSE /\ g.timer = None /\ g.told = fourth.told
    BY <1>1, <2>4 DEF Grid!GridType
  <2> HIDE DEF g
  <2> QED
    BY <1>1, <2>2, <2>3, RowsRendered
<1> QED
  BY <1>3, <1>4, <1>5, <1>6, <1>7, <1>8

LEMMA GridNextInv ==
    ASSUME Grid!ConstantsOK, Grid!GridInv, [Grid!Next]_<<ui, second, third, fourth>>
    PROVE  Grid!GridInv' /\ Grid!StepsForward
<1>1. /\ ui \in {"cards", "filters", "rows"}
      /\ ui = "cards" => CardsGood(second)
      /\ ui = "filters" => FilterGood(third)
      /\ ui = "rows" => RowsGood(fourth)
  BY GridInvIs
<1>2. ui = "cards" => second.shown \in Nat
  BY <1>1 DEF CardsGood, Grid!CardType
<1>3. CASE UNCHANGED <<ui, second, third, fourth>>
  BY <1>1, <1>2, <1>3, GridInvIsNext DEF Grid!StepsForward
<1>4. CASE Grid!Next /\ ui = "cards"
  <2>1. \/ Grid!Changed \/ Grid!Served \/ Grid!Answered \/ Grid!Failed \/ Grid!TimerFires
        \/ Grid!Hide \/ Grid!ComeBack \/ \E status \in Grid!Statuses : Grid!Show(status)
    BY <1>4 DEF Grid!Next
  <2> QED
    BY <1>1, <1>2, <1>4, <2>1, CardsQuiet, CardsEnds, CardsBegin DEF Grid!StepsForward
<1>5. CASE Grid!Next /\ ui = "filters"
  BY <1>1, <1>5, FilterSteps DEF Grid!Next, Grid!StepsForward
<1>6. CASE Grid!Next /\ ui = "rows"
  BY <1>1, <1>6, RowsSteps DEF Grid!Next, Grid!StepsForward
<1> QED
  BY <1>1, <1>3, <1>4, <1>5, <1>6

LEMMA GridInvShows ==
    Grid!ConstantsOK /\ Grid!GridInv => Grid!TypeOK /\ Grid!RowsKeepComing /\ Grid!AddressFollows
  BY DEF Grid!GridInv, Grid!TimersRun, Grid!RowsKeepComing
-----------------------------------------------------------------------------
(* The form that proposes a market.                                          *)
LEMMA SequenceFacts ==
    ASSUME NEW S, NEW s \in Seq(S)
    PROVE  /\ Len(s) \in Nat /\ DOMAIN s = 1..Len(s)
           /\ \A i \in DOMAIN s : s[i] \in S
           /\ \A e \in S : Append(s, e) \in Seq(S) /\ Len(Append(s, e)) = Len(s) + 1
  OBVIOUS

LEMMA SequenceOfTwo == ASSUME NEW S, NEW a \in S, NEW b \in S PROVE <<a, b>> \in Seq(S) /\ Len(<<a, b>>) = 2
  OBVIOUS

LEMMA SequenceExcept ==
    ASSUME NEW S, NEW s \in Seq(S), NEW i \in DOMAIN s, NEW e \in S
    PROVE  [s EXCEPT ![i] = e] \in Seq(S) /\ Len([s EXCEPT ![i] = e]) = Len(s)
  OBVIOUS

LEMMA SequencePart ==
    ASSUME NEW S, NEW s \in Seq(S), NEW m \in Int, NEW n \in Int, 1 <= m, n <= Len(s)
    PROVE  SubSeq(s, m, n) \in Seq(S) /\ Len(SubSeq(s, m, n)) = IF m <= n THEN n - m + 1 ELSE 0
  OBVIOUS

LEMMA SequenceJoin ==
    ASSUME NEW S, NEW s \in Seq(S), NEW t \in Seq(S)
    PROVE  s \o t \in Seq(S) /\ Len(s \o t) = Len(s) + Len(t)
  OBVIOUS

(* A sequence is one shorter without one of its places. *)
LEMMA SequenceWithout ==
    ASSUME NEW S, NEW s \in Seq(S), NEW i \in DOMAIN s
    PROVE  LET rest == SubSeq(s, 1, i - 1) \o SubSeq(s, i + 1, Len(s))
           IN  rest \in Seq(S) /\ Len(rest) = Len(s) - 1
<1> DEFINE before == SubSeq(s, 1, i - 1)
           after == SubSeq(s, i + 1, Len(s))
<1>1. i \in Nat /\ 1 <= i /\ i <= Len(s) /\ Len(s) \in Nat
  BY SequenceFacts
<1>2. before \in Seq(S) /\ Len(before) = i - 1
  <2>1. before \in Seq(S) /\ Len(before) = IF 1 <= i - 1 THEN i - 1 - 1 + 1 ELSE 0
    BY <1>1, SequencePart
  <2> HIDE DEF before
  <2> QED
    BY <1>1, <2>1
<1>3. after \in Seq(S) /\ Len(after) = Len(s) - i
  <2>1. after \in Seq(S) /\ Len(after) = IF i + 1 <= Len(s) THEN Len(s) - (i + 1) + 1 ELSE 0
    BY <1>1, SequencePart
  <2> HIDE DEF after
  <2> QED
    BY <1>1, <2>1
<1> HIDE DEF before, after
<1>4. before \o after \in Seq(S) /\ Len(before \o after) = Len(before) + Len(after)
  BY <1>2, <1>3, SequenceJoin
<1>5. Len(before) + Len(after) = Len(s) - 1
  BY <1>1, <1>2, <1>3
<1> QED
  BY <1>4, <1>5 DEF before, after

(* The sets of the fields, named for the provers. *)
ProposalKinds == {"binary", "group"}
FieldLists    == Seq(Proposal!Texts)
TagSets       == SUBSET ProposalTags
Knowns        == {{}, ProposalTags}
Caps          == {HardCap, SetupCap}
Creations     == [of : 0..MaxRequests] \union {None}
RequestSets   == SUBSET Proposal!Requests
Numbers       == 0..MaxRequests

Draft ==
    [kind : ProposalKinds, answers : FieldLists, tags : TagSets, known : Knowns,
     fits : BOOLEAN, cap : Caps, loading : BOOLEAN, created : Creations, left : BOOLEAN,
     asked : RequestSets, sent : Numbers, made : Nat, again : BOOLEAN, lost : BOOLEAN, stayed : BOOLEAN]

LEMMA DraftIs == Draft = Proposal!FormType
  BY DEF Draft, Proposal!FormType, ProposalKinds, FieldLists, TagSets, Knowns, Caps, Creations,
     RequestSets, Numbers

DraftGood(p) ==
    p \in Draft /\ Len(p.answers) >= 2 /\ IsFiniteSet(p.tags) /\ Cardinality(p.tags) <= MaxTags

NumbersGood(p) ==
    /\ p.created # None => p.created.of < p.sent
    /\ \A request \in p.asked : request.number < p.sent

OnceGood(p) ==
    ~(p.again \/ p.lost \/ p.stayed) =>
        /\ \A r, s \in p.asked : r = s
        /\ p.made <= 1
        /\ \A r \in p.asked : r.served <=> p.made = 1
        /\ (p.asked = {} /\ ~p.left) => p.made = 0

GroupsGood(asked) ==
    \A request \in asked :
        request.kind = "group" => request.fields >= 2 /\ Cardinality(request.answers) = request.fields

ProposalGood(p) == DraftGood(p) /\ NumbersGood(p) /\ OnceGood(p) /\ GroupsGood(p.asked)

LEMMA ProposalSets ==
    /\ \A S : Proposal!IsFiniteSet(S) <=> IsFiniteSet(S)
    /\ \A S : Proposal!Cardinality(S) = Cardinality(S)
  BY DEF Proposal!IsFiniteSet, IsFiniteSet, Proposal!Cardinality, Cardinality

LEMMA ProposalInvIs == Proposal!ProposalInv <=> ProposalGood(ui)
<1>1. Proposal!TypeOK /\ Proposal!IsFiniteSet(ui.tags) <=> DraftGood(ui) /\ NumbersGood(ui)
  BY DraftIs, ProposalSets DEF Proposal!TypeOK, Proposal!Panel, DraftGood, NumbersGood
<1>2. Proposal!OneProposal <=> OnceGood(ui)
  BY DEF Proposal!OneProposal, OnceGood
<1>3. Proposal!GroupsAreGroups <=> GroupsGood(ui.asked)
  BY ProposalSets DEF Proposal!GroupsAreGroups, GroupsGood
<1> QED
  BY <1>1, <1>2, <1>3 DEF Proposal!ProposalInv, ProposalGood

LEMMA ProposalInvIsNext == Proposal!ProposalInv' <=> ProposalGood(ui')
<1>1. (Proposal!TypeOK /\ Proposal!IsFiniteSet(ui.tags))' <=> DraftGood(ui') /\ NumbersGood(ui')
  BY DraftIs, ProposalSets DEF Proposal!TypeOK, Proposal!Panel, DraftGood, NumbersGood
<1>2. Proposal!OneProposal' <=> OnceGood(ui')
  BY DEF Proposal!OneProposal, OnceGood
<1>3. Proposal!GroupsAreGroups' <=> GroupsGood(ui'.asked)
  BY ProposalSets DEF Proposal!GroupsAreGroups, GroupsGood
<1> QED
  BY <1>1, <1>2, <1>3 DEF Proposal!ProposalInv, ProposalGood

LEMMA ProposalInvShows ==
    Proposal!ProposalInv => Proposal!PaidTwiceOnlyAfterPress /\ Proposal!GroupsAreGroups
<1> SUFFICES ASSUME Proposal!ProposalInv
             PROVE  Proposal!PaidTwiceOnlyAfterPress /\ Proposal!GroupsAreGroups
  OBVIOUS
<1>1. ui.made \in Nat /\ OnceGood(ui)
  BY ProposalInvIs DEF ProposalGood, DraftGood, Draft
<1>2. Proposal!PaidTwiceOnlyAfterPress
  BY <1>1 DEF Proposal!PaidTwiceOnlyAfterPress, OnceGood
<1> QED
  BY <1>2 DEF Proposal!ProposalInv

LEMMA ProposalConstants ==
    ASSUME Proposal!ConstantsOK
    PROVE  /\ MaxTags \in Nat /\ HardCap \in Nat /\ SetupCap \in Nat /\ MaxRequests \in Nat
           /\ None \in Creations /\ \A c \in Creations : c # None => c \in [of : 0..MaxRequests]
           /\ \A n \in Numbers : n \in Nat /\ ([of |-> n] \in Creations) /\ [of |-> n] # None
           /\ \A n \in Numbers : n < MaxRequests => n + 1 \in Numbers
  BY DEF Proposal!ConstantsOK, Creations, Numbers

LEMMA ProposalInitInv == Proposal!ConstantsOK /\ Proposal!Init => Proposal!ProposalInv
<1> SUFFICES ASSUME Proposal!ConstantsOK, Proposal!Init
             PROVE  Proposal!ProposalInv
  OBVIOUS
<1> DEFINE fields == <<"", "">>
           zero == 0
<1>1. fields \in FieldLists /\ Len(fields) = 2
  <2>1. "" \in Proposal!Texts
    BY DEF Proposal!Texts
  <2> QED
    BY <2>1, SequenceOfTwo DEF FieldLists
<1>2. zero \in Numbers /\ zero \in Nat /\ HardCap \in Caps /\ {} \in Knowns /\ {} \in TagSets
      /\ {} \in RequestSets /\ "binary" \in ProposalKinds
  BY ProposalConstants DEF Numbers, Caps, Knowns, TagSets, RequestSets, ProposalKinds
<1>3. ui = [kind |-> "binary", answers |-> fields, tags |-> {}, known |-> {}, fits |-> TRUE,
            cap |-> HardCap, loading |-> TRUE, created |-> None, left |-> FALSE,
            asked |-> {}, sent |-> zero, made |-> zero,
            again |-> FALSE, lost |-> FALSE, stayed |-> FALSE]
  BY DEF Proposal!Init
<1>4. zero = 0
  OBVIOUS
<1> HIDE DEF fields, zero
<1>5. ui \in Draft
  BY <1>1, <1>2, <1>3, ProposalConstants DEF Draft
<1>6. DraftGood(ui)
  <2>1. ui.answers = fields /\ ui.tags = {} /\ MaxTags \in Nat
    BY <1>3, ProposalConstants
  <2>2. IsFiniteSet(ui.tags) /\ Cardinality(ui.tags) = 0
    BY <2>1, FS_EmptySet
  <2>3. Cardinality(ui.tags) <= MaxTags
    BY <2>1, <2>2
  <2>4. Len(ui.answers) = 2
    BY <1>1, <2>1
  <2> QED
    BY <1>5, <2>2, <2>3, <2>4 DEF DraftGood
<1>7. NumbersGood(ui) /\ OnceGood(ui) /\ GroupsGood(ui.asked)
  BY <1>3, <1>4 DEF NumbersGood, OnceGood, GroupsGood
<1> QED
  BY <1>6, <1>7, ProposalInvIs DEF ProposalGood

(* A step of the fields leaves the proposals alone, and the other way round. *)
SameAsked(p, q) ==
    /\ q.created = p.created /\ q.left = p.left /\ q.asked = p.asked /\ q.sent = p.sent
    /\ q.made = p.made /\ q.again = p.again /\ q.lost = p.lost /\ q.stayed = p.stayed

LEMMA DraftSteps ==
    ASSUME ProposalGood(ui), DraftGood(ui'), SameAsked(ui, ui')
    PROVE  ProposalGood(ui')
  BY DEF ProposalGood, NumbersGood, OnceGood, SameAsked

SameDraft(p, q) == q \in Draft /\ q.answers = p.answers /\ q.tags = p.tags

LEMMA AskedSteps ==
    ASSUME ProposalGood(ui), SameDraft(ui, ui'), NumbersGood(ui'), OnceGood(ui'), GroupsGood(ui'.asked)
    PROVE  ProposalGood(ui')
  BY DEF ProposalGood, DraftGood, SameDraft

LEMMA ProposalWrites ==
    ASSUME Proposal!ConstantsOK, ProposalGood(ui),
           \/ Proposal!SetupLoaded \/ Proposal!TagsLoaded \/ Proposal!WriteRest
           \/ \E kind \in {"binary", "group"} : Proposal!Choose(kind)
    PROVE  ProposalGood(ui')
<1>1. ui \in Draft /\ DraftGood(ui)
  BY DEF ProposalGood, DraftGood
<1>2. CASE Proposal!SetupLoaded
  <2>1. PICK cap \in Caps : ui' = [ui EXCEPT !.loading = FALSE, !.cap = cap]
    <3>1. PICK ok \in BOOLEAN :
              ui' = [ui EXCEPT !.loading = FALSE, !.cap = IF ok THEN SetupCap ELSE @]
      BY <1>2 DEF Proposal!SetupLoaded, Proposal!Form
    <3> DEFINE cap == IF ok THEN SetupCap ELSE ui.cap
    <3>2. cap \in Caps
      BY <1>1 DEF Draft, Caps
    <3>3. ui' = [ui EXCEPT !.loading = FALSE, !.cap = cap]
      BY <3>1
    <3> QED
      BY <3>2, <3>3
  <2>2. DraftGood(ui') /\ SameAsked(ui, ui')
    BY <1>1, <2>1 DEF DraftGood, Draft, SameAsked
  <2> QED
    BY <2>2, DraftSteps
<1>3. CASE Proposal!TagsLoaded
  <2>1. ui' = [ui EXCEPT !.known = ProposalTags] /\ ProposalTags \in Knowns
    BY <1>3 DEF Proposal!TagsLoaded, Proposal!Form, Knowns
  <2>2. DraftGood(ui') /\ SameAsked(ui, ui')
    BY <1>1, <2>1 DEF DraftGood, Draft, SameAsked
  <2> QED
    BY <2>2, DraftSteps
<1>4. CASE Proposal!WriteRest
  <2>1. ui' = [ui EXCEPT !.fits = ~@]
    BY <1>4 DEF Proposal!WriteRest, Proposal!Form
  <2>2. DraftGood(ui') /\ SameAsked(ui, ui')
    BY <1>1, <2>1 DEF DraftGood, Draft, SameAsked
  <2> QED
    BY <2>2, DraftSteps
<1>5. CASE \E kind \in {"binary", "group"} : Proposal!Choose(kind)
  <2>1. PICK kind \in ProposalKinds : ui' = [ui EXCEPT !.kind = kind]
    BY <1>5 DEF Proposal!Choose, Proposal!Form, ProposalKinds
  <2>2. DraftGood(ui') /\ SameAsked(ui, ui')
    BY <1>1, <2>1 DEF DraftGood, Draft, SameAsked
  <2> QED
    BY <2>2, DraftSteps
<1> QED
  BY <1>2, <1>3, <1>4, <1>5

(* The tags stay few: a tag is added only below the limit. *)
LEMMA ProposalTagsKept ==
    ASSUME Proposal!ConstantsOK, ProposalGood(ui), NEW tag \in ProposalTags, Proposal!ToggleTag(tag)
    PROVE  ProposalGood(ui')
<1>1. /\ ui \in Draft /\ Len(ui.answers) >= 2 /\ IsFiniteSet(ui.tags) /\ Cardinality(ui.tags) <= MaxTags
      /\ ui.tags \subseteq ProposalTags /\ MaxTags \in Nat /\ Cardinality(ui.tags) \in Nat
  BY ProposalConstants, FS_CardinalityType DEF ProposalGood, DraftGood, Draft, TagSets
<1>2. ASSUME NEW tags \in TagSets, IsFiniteSet(tags), Cardinality(tags) <= MaxTags,
             ui' = [ui EXCEPT !.tags = tags]
      PROVE  ProposalGood(ui')
  <2>1. DraftGood(ui') /\ SameAsked(ui, ui')
    BY <1>1, <1>2 DEF DraftGood, Draft, SameAsked
  <2> QED
    BY <2>1, DraftSteps
<1>3. CASE tag \in ui.tags
  <2> DEFINE tags == ui.tags \ {tag}
  <2>1. ui' = [ui EXCEPT !.tags = tags]
    BY <1>3 DEF Proposal!ToggleTag, Proposal!Form
  <2>2. IsFiniteSet(tags) /\ Cardinality(tags) = Cardinality(ui.tags) - 1
    BY <1>1, <1>3, FS_RemoveElement
  <2>3. tags \in TagSets /\ Cardinality(tags) <= MaxTags
    BY <1>1, <2>2 DEF TagSets
  <2> HIDE DEF tags
  <2> QED
    BY <1>2, <2>1, <2>2, <2>3
<1>4. CASE tag \notin ui.tags
  <2> DEFINE tags == ui.tags \union {tag}
  <2>1. ui' = [ui EXCEPT !.tags = tags] /\ Cardinality(ui.tags) < MaxTags
    BY <1>4, ProposalSets DEF Proposal!ToggleTag, Proposal!Form
  <2>2. IsFiniteSet(tags) /\ Cardinality(tags) = Cardinality(ui.tags) + 1
    BY <1>1, <1>4, FS_AddElement
  <2>3. tags \in TagSets /\ Cardinality(tags) <= MaxTags
    BY <1>1, <2>1, <2>2 DEF TagSets
  <2> HIDE DEF tags
  <2> QED
    BY <1>2, <2>1, <2>2, <2>3
<1> QED
  BY <1>3, <1>4

(* The fields of the answers are never fewer than two. *)
LEMMA FieldsLonger ==
    ASSUME NEW s \in FieldLists, Len(s) >= 2
    PROVE  Append(s, "") \in FieldLists /\ Len(Append(s, "")) >= 2
<1> DEFINE longer == Append(s, "")
<1>1. "" \in Proposal!Texts /\ s \in Seq(Proposal!Texts)
  BY DEF Proposal!Texts, FieldLists
<1>2. longer \in Seq(Proposal!Texts) /\ Len(longer) = Len(s) + 1 /\ Len(s) \in Nat
  BY <1>1, SequenceFacts
<1> HIDE DEF longer
<1>3. longer \in FieldLists /\ Len(longer) >= 2
  BY <1>2 DEF FieldLists
<1> QED
  BY <1>3 DEF longer

LEMMA FieldsShorter ==
    ASSUME NEW s \in FieldLists, Len(s) > 2, NEW i \in DOMAIN s
    PROVE  Proposal!RemoveAt(s, i) \in FieldLists /\ Len(Proposal!RemoveAt(s, i)) >= 2
<1> DEFINE rest == SubSeq(s, 1, i - 1) \o SubSeq(s, i + 1, Len(s))
<1>1. s \in Seq(Proposal!Texts)
  BY DEF FieldLists
<1>2. rest \in Seq(Proposal!Texts) /\ Len(rest) = Len(s) - 1 /\ Len(s) \in Nat
  BY <1>1, SequenceFacts, SequenceWithout
<1>3. Proposal!RemoveAt(s, i) = rest
  BY DEF Proposal!RemoveAt
<1> HIDE DEF rest
<1> QED
  BY <1>2, <1>3 DEF FieldLists

LEMMA FieldsChanged ==
    ASSUME NEW s \in FieldLists, NEW i \in DOMAIN s, NEW label \in Proposal!Texts
    PROVE  [s EXCEPT ![i] = label] \in FieldLists /\ Len([s EXCEPT ![i] = label]) = Len(s)
  BY DEF FieldLists

LEMMA FieldsKept ==
    ASSUME ProposalGood(ui), ui' = [ui EXCEPT !.answers = ui'.answers],
           ui'.answers \in FieldLists, Len(ui'.answers) >= 2
    PROVE  ProposalGood(ui')
<1>1. ui \in Draft /\ DraftGood(ui)
  BY DEF ProposalGood, DraftGood
<1> DEFINE answers == ui'.answers
<1>2. answers \in FieldLists /\ Len(answers) >= 2 /\ ui' = [ui EXCEPT !.answers = answers]
  OBVIOUS
<1> HIDE DEF answers
<1>3. DraftGood(ui') /\ SameAsked(ui, ui')
  BY <1>1, <1>2 DEF DraftGood, Draft, SameAsked
<1> QED
  BY <1>3, DraftSteps

LEMMA ProposalFields ==
    ASSUME Proposal!ConstantsOK, ProposalGood(ui),
           \/ Proposal!AddAnswer
           \/ \E i \in DOMAIN ui.answers :
                 Proposal!RemoveAnswer(i) \/ \E label \in ProposalLabels \union {""} : Proposal!WriteAnswer(i, label)
    PROVE  ProposalGood(ui')
<1>1. ui \in Draft /\ ui.answers \in FieldLists /\ Len(ui.answers) >= 2
  BY DEF ProposalGood, DraftGood, Draft
<1>2. \E answers \in FieldLists : Len(answers) >= 2 /\ ui' = [ui EXCEPT !.answers = answers]
  <2>1. CASE Proposal!AddAnswer
    BY <1>1, <2>1, FieldsLonger DEF Proposal!AddAnswer, Proposal!Form
  <2>2. CASE \E i \in DOMAIN ui.answers : Proposal!RemoveAnswer(i)
    <3>1. PICK i \in DOMAIN ui.answers :
              Len(ui.answers) > 2 /\ ui' = [ui EXCEPT !.answers = Proposal!RemoveAt(ui.answers, i)]
      BY <2>2 DEF Proposal!RemoveAnswer, Proposal!RemoveOffered, Proposal!Form
    <3>2. /\ Proposal!RemoveAt(ui.answers, i) \in FieldLists
          /\ Len(Proposal!RemoveAt(ui.answers, i)) >= 2
      BY <1>1, <3>1, FieldsShorter
    <3> QED
      BY <3>1, <3>2
  <2>3. CASE \E i \in DOMAIN ui.answers : \E label \in ProposalLabels \union {""} : Proposal!WriteAnswer(i, label)
    <3>1. PICK i \in DOMAIN ui.answers, label \in ProposalLabels \union {""} :
              ui' = [ui EXCEPT !.answers = [ui.answers EXCEPT ![i] = label]]
      <4>1. PICK i \in DOMAIN ui.answers, label \in ProposalLabels \union {""} :
                ui' = [ui EXCEPT !.answers[i] = label]
        BY <2>3 DEF Proposal!WriteAnswer, Proposal!Form
      <4>2. ui' = [ui EXCEPT !.answers = [ui.answers EXCEPT ![i] = label]]
        BY <4>1
      <4> QED
        BY <4>2
    <3> DEFINE changed == [ui.answers EXCEPT ![i] = label]
    <3>2. changed \in FieldLists /\ Len(changed) = Len(ui.answers)
      <4>1. label \in Proposal!Texts
        BY DEF Proposal!Texts
      <4> QED
        BY <1>1, <4>1, FieldsChanged
    <3>3. ui' = [ui EXCEPT !.answers = changed]
      BY <3>1
    <3> HIDE DEF changed
    <3> QED
      BY <1>1, <3>2, <3>3
  <2> QED
    BY <2>1, <2>2, <2>3
<1>3. PICK answers \in FieldLists : Len(answers) >= 2 /\ ui' = [ui EXCEPT !.answers = answers]
  BY <1>2
<1>4. ui'.answers = answers
  BY <1>1, <1>3 DEF Draft
<1> QED
  BY <1>3, <1>4, FieldsKept

(* The labels of an accepted group are as many as its fields. *)
LEMMA GroupsAccepted ==
    ASSUME ui \in Draft
    PROVE  /\ Proposal!Written \in SUBSET ProposalLabels /\ Cardinality(Proposal!Filled) \in Nat
           /\ Proposal!Different => Cardinality(Proposal!Written) = Cardinality(Proposal!Filled)
<1>1. ui.answers \in Seq(Proposal!Texts) /\ Len(ui.answers) \in Nat
  BY SequenceFacts DEF Draft, FieldLists
<1>6. DOMAIN ui.answers = 1..Len(ui.answers) /\ \A i \in DOMAIN ui.answers : ui.answers[i] \in Proposal!Texts
  BY <1>1, SequenceFacts
<1>2. Proposal!Filled \subseteq 1..Len(ui.answers)
  BY <1>6 DEF Proposal!Filled
<1>3. IsFiniteSet(Proposal!Filled)
  <2>1. 0 \in Int /\ 1 \in Int /\ Len(ui.answers) \in Int
    BY <1>1
  <2>2. IsFiniteSet(1..Len(ui.answers))
    BY <2>1, FS_Interval
  <2> QED
    BY <1>2, <2>2, FS_Subset
<1>4. Proposal!Written \in SUBSET ProposalLabels
  BY <1>6 DEF Proposal!Written, Proposal!Filled, Proposal!Texts
<1>5. ASSUME Proposal!Different
      PROVE  Cardinality(Proposal!Written) = Cardinality(Proposal!Filled)
  <2> DEFINE f == [i \in Proposal!Filled |-> ui.answers[i]]
  <2>1. f \in Bijection(Proposal!Filled, Proposal!Written)
    BY <1>5 DEF Proposal!Different, Proposal!Written, Bijection, Injection, Surjection, IsInjective
  <2>2. ExistsBijection(Proposal!Filled, Proposal!Written)
    BY <2>1 DEF ExistsBijection
  <2> QED
    BY <1>3, <2>2, FS_Bijection
<1> QED
  BY <1>3, <1>4, <1>5, FS_CardinalityType

(* The first press asks for one proposal, a press while it is under way is told apart. *)
LEMMA ProposalSubmits ==
    ASSUME Proposal!ConstantsOK, ProposalGood(ui), Proposal!Submit
    PROVE  ProposalGood(ui')
<1>1. /\ ui \in Draft /\ NumbersGood(ui) /\ OnceGood(ui) /\ GroupsGood(ui.asked)
      /\ ui.sent \in Numbers /\ ui.sent \in Nat /\ ui.kind \in ProposalKinds
      /\ ui.asked \in RequestSets /\ ui.again \in BOOLEAN /\ ui.made \in Nat
  BY ProposalConstants DEF ProposalGood, DraftGood, Draft
<1> DEFINE answers == IF ui.kind = "group" THEN Proposal!Written ELSE {}
           fields == IF ui.kind = "group" THEN Cardinality(Proposal!Filled) ELSE 0
           request == [number |-> ui.sent, kind |-> ui.kind, answers |-> answers,
                       fields |-> fields, served |-> FALSE]
           sent == ui.sent + 1
           asked == ui.asked \union {request}
           again == ui.again \/ ui.asked # {}
<1>2. ui.sent < MaxRequests /\ ~ui.left
      /\ \/ ~Proposal!Accepted /\ ui' = [ui EXCEPT !.created = None]
         \/ Proposal!Accepted /\ ui' = [ui EXCEPT !.created = None, !.sent = sent, !.asked = asked, !.again = again]
  BY ProposalSets DEF Proposal!Submit, Proposal!Form
<1>3. CASE ui' = [ui EXCEPT !.created = None]
  <2>1. SameDraft(ui, ui') /\ ui'.created = None /\ ui'.asked = ui.asked /\ ui'.sent = ui.sent
        /\ ui'.made = ui.made /\ ui'.again = ui.again /\ ui'.lost = ui.lost /\ ui'.stayed = ui.stayed
        /\ ui'.left = ui.left
    BY <1>1, <1>3, ProposalConstants DEF Draft, SameDraft
  <2>2. NumbersGood(ui') /\ OnceGood(ui') /\ GroupsGood(ui'.asked)
    BY <1>1, <2>1 DEF NumbersGood, OnceGood
  <2> QED
    BY <2>1, <2>2, AskedSteps
<1>4. CASE /\ Proposal!Accepted
           /\ ui' = [ui EXCEPT !.created = None, !.sent = sent, !.asked = asked, !.again = again]
  <2>1. answers \in SUBSET ProposalLabels /\ fields \in Nat
    BY <1>1, GroupsAccepted
  <2>2. ui.kind = "group" => fields >= 2 /\ Cardinality(answers) = fields
    <3> SUFFICES ASSUME ui.kind = "group"
                 PROVE  fields >= 2 /\ Cardinality(answers) = fields
      OBVIOUS
    <3>1. Cardinality(Proposal!Filled) >= 2 /\ Proposal!Different
      BY <1>4, ProposalSets DEF Proposal!Accepted, Proposal!AnswersAccepted
    <3> QED
      BY <1>1, <3>1, GroupsAccepted
  <2> HIDE DEF answers, fields
  <2>3. /\ request \in Proposal!Requests /\ request.number = ui.sent /\ request.kind = ui.kind
        /\ request.answers = answers /\ request.fields = fields /\ ~request.served
    BY <1>1, <2>1 DEF Proposal!Requests, Numbers, ProposalKinds
  <2>4. sent \in Numbers /\ sent > ui.sent /\ sent \in Nat
    BY <1>1, <1>2, ProposalConstants
  <2> HIDE DEF request
  <2>5. asked \in RequestSets /\ again \in BOOLEAN
    BY <1>1, <2>3 DEF RequestSets
  <2>6. GroupsGood(asked)
    BY <1>1, <2>2, <2>3 DEF GroupsGood
  <2>7. \A r \in asked : r.number < sent
    <3>1. \A r \in ui.asked : r.number \in Nat
      BY <1>1, ProposalConstants DEF RequestSets, Proposal!Requests
    <3> QED
      BY <1>1, <2>3, <3>1 DEF NumbersGood
  <2>8. ~again => ~ui.again /\ asked = {request} /\ ui.asked = {}
    OBVIOUS
  <2> HIDE DEF sent, asked, again
  <2>9. SameDraft(ui, ui') /\ ui'.created = None /\ ui'.asked = asked /\ ui'.sent = sent
        /\ ui'.made = ui.made /\ ui'.again = again /\ ui'.lost = ui.lost /\ ui'.stayed = ui.stayed
        /\ ui'.left = ui.left
    BY <1>1, <1>4, <2>4, <2>5, ProposalConstants DEF Draft, SameDraft
  <2>10. NumbersGood(ui')
    BY <2>7, <2>9 DEF NumbersGood
  <2>11. OnceGood(ui')
    <3> SUFFICES ASSUME ~(again \/ ui.lost \/ ui.stayed)
                 PROVE  /\ \A r, s \in asked : r = s
                        /\ ui.made <= 1
                        /\ \A r \in asked : r.served <=> ui.made = 1
                        /\ (asked = {} /\ ~ui.left) => ui.made = 0
      BY <2>9 DEF OnceGood
    <3>1. ui.made = 0 /\ asked = {request}
      BY <1>1, <1>2, <2>8 DEF OnceGood
    <3> QED
      BY <2>3, <3>1
  <2> QED
    BY <2>6, <2>9, <2>10, <2>11, AskedSteps
<1> QED
  BY <1>2, <1>3, <1>4

LEMMA ProposalServes ==
    ASSUME Proposal!ConstantsOK, ProposalGood(ui), Proposal!Serve
    PROVE  ProposalGood(ui')
<1>1. /\ ui \in Draft /\ NumbersGood(ui) /\ OnceGood(ui) /\ GroupsGood(ui.asked)
      /\ ui.asked \in RequestSets /\ ui.made \in Nat
  BY DEF ProposalGood, DraftGood, Draft
<1>2. PICK request \in ui.asked :
          /\ ~request.served
          /\ ui' = [ui EXCEPT !.asked = (@ \ {request}) \union {[request EXCEPT !.served = TRUE]},
                              !.made = @ + 1]
  BY DEF Proposal!Serve
<1> DEFINE new == [request EXCEPT !.served = TRUE]
           asked == (ui.asked \ {request}) \union {new}
           made == ui.made + 1
<1>3. request \in Proposal!Requests
  BY <1>1 DEF RequestSets
<1>4. /\ new \in Proposal!Requests /\ new.number = request.number /\ new.kind = request.kind
      /\ new.answers = request.answers /\ new.fields = request.fields /\ new.served
  BY <1>3 DEF Proposal!Requests
<1>5. ui' = [ui EXCEPT !.asked = asked, !.made = made] /\ made \in Nat
  BY <1>1, <1>2
<1> HIDE DEF new
<1>6. asked \in RequestSets /\ GroupsGood(asked)
  BY <1>1, <1>2, <1>4 DEF RequestSets, GroupsGood
<1>7. \A r \in asked : r.number < ui.sent
  BY <1>1, <1>2, <1>4 DEF NumbersGood
<1>8. (\A r, s \in ui.asked : r = s) => asked = {new}
  BY <1>2
<1>9. made = ui.made + 1
  OBVIOUS
<1> HIDE DEF asked, made
<1>10. SameDraft(ui, ui') /\ ui'.created = ui.created /\ ui'.asked = asked /\ ui'.sent = ui.sent
       /\ ui'.made = made /\ ui'.again = ui.again /\ ui'.lost = ui.lost /\ ui'.stayed = ui.stayed
       /\ ui'.left = ui.left
  BY <1>1, <1>5, <1>6 DEF Draft, SameDraft
<1>11. NumbersGood(ui')
  BY <1>1, <1>7, <1>10 DEF NumbersGood
<1>12. OnceGood(ui')
  <2> SUFFICES ASSUME ~(ui.again \/ ui.lost \/ ui.stayed)
               PROVE  /\ \A r, s \in asked : r = s
                      /\ made <= 1
                      /\ \A r \in asked : r.served <=> made = 1
                      /\ (asked = {} /\ ~ui.left) => made = 0
    BY <1>10 DEF OnceGood
  <2>1. ui.made = 0 /\ asked = {new}
    BY <1>1, <1>2, <1>8 DEF OnceGood
  <2> QED
    BY <1>4, <1>9, <2>1
<1> QED
  BY <1>6, <1>10, <1>11, <1>12, AskedSteps

(* What ends a proposal: its answer, the answer without a market, a refusal, a lost answer. *)
LEMMA ProposalEnds ==
    ASSUME Proposal!ConstantsOK, ProposalGood(ui),
           Proposal!Answered \/ Proposal!AnsweredBare \/ Proposal!Refused \/ Proposal!Lost
    PROVE  ProposalGood(ui')
<1>1. /\ ui \in Draft /\ NumbersGood(ui) /\ OnceGood(ui) /\ GroupsGood(ui.asked)
      /\ ui.asked \in RequestSets /\ ui.made \in Nat /\ ui.sent \in Numbers
  BY DEF ProposalGood, DraftGood, Draft
<1>2. \A request \in ui.asked :
          /\ request \in Proposal!Requests /\ request.number < ui.sent /\ request.number \in Numbers
          /\ ui.asked \ {request} \in RequestSets /\ GroupsGood(ui.asked \ {request})
  BY <1>1 DEF NumbersGood, RequestSets, GroupsGood, Proposal!Requests, Numbers
<1>3. ASSUME NEW request \in ui.asked, SameDraft(ui, ui'), ui'.asked = ui.asked \ {request}, ui'.sent = ui.sent,
             ui'.made = ui.made, ui'.again = ui.again,
             ui'.created = ui.created \/ ui'.created.of = request.number,
             \/ ui'.lost \/ ui'.stayed
             \/ /\ ui'.lost = ui.lost /\ ui'.stayed = ui.stayed
                /\ ui'.left \/ (~request.served /\ ui'.left = ui.left)
      PROVE  ProposalGood(ui')
  <2>1. NumbersGood(ui') /\ GroupsGood(ui'.asked)
    BY <1>1, <1>2, <1>3 DEF NumbersGood
  <2>2. OnceGood(ui')
    BY <1>1, <1>3 DEF OnceGood
  <2> QED
    BY <1>3, <2>1, <2>2, AskedSteps
<1>4. CASE Proposal!Answered
  <2>1. PICK request \in ui.asked :
            ui' = [[ui EXCEPT !.asked = @ \ {request}] EXCEPT !.left = TRUE]
    BY <1>4 DEF Proposal!Answered, Proposal!Leaves
  <2> DEFINE asked == ui.asked \ {request}
  <2>2. asked \in RequestSets
    BY <1>2
  <2>3. ui' = [[ui EXCEPT !.asked = asked] EXCEPT !.left = TRUE]
    BY <2>1
  <2> HIDE DEF asked
  <2>4. /\ SameDraft(ui, ui') /\ ui'.asked = asked /\ ui'.sent = ui.sent /\ ui'.made = ui.made
        /\ ui'.again = ui.again /\ ui'.created = ui.created /\ ui'.lost = ui.lost
        /\ ui'.stayed = ui.stayed /\ ui'.left
    BY <1>1, <2>2, <2>3 DEF Draft, SameDraft
  <2> QED
    BY <1>3, <2>4 DEF asked
<1>5. CASE Proposal!AnsweredBare
  <2>1. PICK request \in ui.asked :
            ui' = [ui EXCEPT !.asked = @ \ {request}, !.stayed = TRUE, !.created = [of |-> request.number]]
    BY <1>5 DEF Proposal!AnsweredBare
  <2> DEFINE asked == ui.asked \ {request}
             created == [of |-> request.number]
  <2>2. asked \in RequestSets /\ created \in Creations /\ created.of = request.number
    BY <1>2, ProposalConstants
  <2>3. ui' = [ui EXCEPT !.asked = asked, !.stayed = TRUE, !.created = created]
    BY <2>1
  <2> HIDE DEF asked, created
  <2>4. /\ SameDraft(ui, ui') /\ ui'.asked = asked /\ ui'.sent = ui.sent /\ ui'.made = ui.made
        /\ ui'.again = ui.again /\ ui'.created = created /\ ui'.lost = ui.lost
        /\ ui'.stayed = TRUE
    BY <1>1, <2>2, <2>3 DEF Draft, SameDraft
  <2> QED
    BY <1>3, <2>2, <2>4 DEF asked
<1>6. CASE Proposal!Refused
  <2>1. PICK request \in ui.asked : ~request.served /\ ui' = [ui EXCEPT !.asked = @ \ {request}]
    BY <1>6 DEF Proposal!Refused
  <2> DEFINE asked == ui.asked \ {request}
  <2>2. asked \in RequestSets
    BY <1>2
  <2>3. ui' = [ui EXCEPT !.asked = asked]
    BY <2>1
  <2> HIDE DEF asked
  <2>4. /\ SameDraft(ui, ui') /\ ui'.asked = asked /\ ui'.sent = ui.sent /\ ui'.made = ui.made
        /\ ui'.again = ui.again /\ ui'.created = ui.created /\ ui'.lost = ui.lost
        /\ ui'.stayed = ui.stayed /\ ui'.left = ui.left
    BY <1>1, <2>2, <2>3 DEF Draft, SameDraft
  <2> QED
    BY <1>3, <2>1, <2>4 DEF asked
<1>7. CASE Proposal!Lost
  <2>1. PICK request \in ui.asked : ui' = [ui EXCEPT !.asked = @ \ {request}, !.lost = TRUE]
    BY <1>7 DEF Proposal!Lost
  <2> DEFINE asked == ui.asked \ {request}
  <2>2. asked \in RequestSets
    BY <1>2
  <2>3. ui' = [ui EXCEPT !.asked = asked, !.lost = TRUE]
    BY <2>1
  <2> HIDE DEF asked
  <2>4. /\ SameDraft(ui, ui') /\ ui'.asked = asked /\ ui'.sent = ui.sent /\ ui'.made = ui.made
        /\ ui'.again = ui.again /\ ui'.created = ui.created /\ ui'.lost
    BY <1>1, <2>2, <2>3 DEF Draft, SameDraft
  <2> QED
    BY <1>3, <2>4 DEF asked
<1> QED
  BY <1>4, <1>5, <1>6, <1>7

LEMMA ProposalNextInv ==
    ASSUME Proposal!ConstantsOK, Proposal!ProposalInv, [Proposal!Next]_ui
    PROVE  Proposal!ProposalInv'
<1>1. ProposalGood(ui)
  BY ProposalInvIs
<1>2. CASE UNCHANGED ui
  BY <1>1, <1>2, ProposalInvIsNext
<1>3. CASE \/ Proposal!SetupLoaded \/ Proposal!TagsLoaded \/ Proposal!WriteRest
           \/ \E kind \in {"binary", "group"} : Proposal!Choose(kind)
  BY <1>1, <1>3, ProposalWrites, ProposalInvIsNext
<1>4. CASE \E tag \in ProposalTags : Proposal!ToggleTag(tag)
  BY <1>1, <1>4, ProposalTagsKept, ProposalInvIsNext
<1>5. CASE \/ Proposal!AddAnswer
           \/ \E i \in DOMAIN ui.answers :
                 Proposal!RemoveAnswer(i) \/ \E label \in ProposalLabels \union {""} : Proposal!WriteAnswer(i, label)
  BY <1>1, <1>5, ProposalFields, ProposalInvIsNext
<1>6. CASE Proposal!Submit
  BY <1>1, <1>6, ProposalSubmits, ProposalInvIsNext
<1>7. CASE Proposal!Serve
  BY <1>1, <1>7, ProposalServes, ProposalInvIsNext
<1>8. CASE Proposal!Answered \/ Proposal!AnsweredBare \/ Proposal!Refused \/ Proposal!Lost
  BY <1>1, <1>8, ProposalEnds, ProposalInvIsNext
<1> QED
  BY <1>2, <1>3, <1>4, <1>5, <1>6, <1>7, <1>8 DEF Proposal!Next
-----------------------------------------------------------------------------
(* The session. *)
LEMMA LoginCounts ==
    \A S : Login!Cardinality(S) = Cardinality(S) /\ (Login!IsFiniteSet(S) <=> IsFiniteSet(S))
  BY DEF Login!Cardinality, Cardinality, Login!IsFiniteSet, IsFiniteSet

(* Every path has a page. *)
LEMMA PagesArePaths == \A path \in Login!Paths : Login!PageOf(path) \in Login!Paths
  BY DEF Login!Paths, Login!PageOf, Login!Gated, Login!Free, Login!Own, Login!Makers, Login!Boards,
     Login!PublicPage, Login!OwnPage, Login!MakerPage, Login!AdminDashboard, Login!HomePage

LEMMA LoginFacts ==
    ASSUME Login!ConstantsOK, Login!LoginInv
    PROVE  /\ Roles \subseteq Login!AllRoles /\ Visited \subseteq Login!Paths
           /\ MaxLogins \in Nat /\ MaxTimers \in Nat
           /\ None \notin Members /\ None \notin Login!StoredLogins /\ None \notin Login!ShownLogins
           /\ ui \in Login!SessionType
           /\ second \in [role : [Members -> Login!AllRoles], must : [Members -> BOOLEAN],
                          moderated : BOOLEAN]
           /\ IsFiniteSet(ui.logins) /\ Cardinality(ui.logins) \in Nat
           /\ ui.tokens + Cardinality(ui.logins) <= MaxLogins
           /\ \A r \in ui.reads : r.token <= ui.tokens
           /\ ui.stored # None => ui.stored.token <= ui.tokens
           /\ ui.shown # None =>
                  /\ ui.shown.token <= ui.tokens
                  /\ \A r \in ui.reads : r.token = ui.shown.token => r.user = ui.shown.user
           /\ (ui.shown # None /\ second.must[ui.shown.user] /\ ~ui.reloaded) => ui.shown.must
           /\ \/ ui.refused
              \/ IF ui.shown = None THEN ui.stored = None
                 ELSE ui.stored = [token |-> ui.shown.token, user |-> ui.shown.user]
<1>1. IsFiniteSet(ui.logins) /\ ui.tokens + Cardinality(ui.logins) <= MaxLogins
  BY LoginCounts DEF Login!LoginInv, Login!TypeOK
<1>2. Cardinality(ui.logins) \in Nat
  BY <1>1, FS_CardinalityType
<1> QED
  BY <1>1, <1>2 DEF Login!LoginInv, Login!TypeOK, Login!ConstantsOK, Login!TokensAreOwn,
     Login!MustIsKnown, Login!StorageFollows, Login!IsLoggedIn, Login!Shown

LEMMA LoginFrom ==
    ASSUME ui' \in Login!SessionType,
           second' \in [role : [Members -> Login!AllRoles], must : [Members -> BOOLEAN],
                        moderated : BOOLEAN],
           IsFiniteSet(ui'.logins), ui'.tokens + Cardinality(ui'.logins) <= MaxLogins,
           \A r \in ui'.reads : r.token <= ui'.tokens,
           ui'.stored # None => ui'.stored.token <= ui'.tokens,
           ui'.shown # None =>
               /\ ui'.shown.token <= ui'.tokens
               /\ \A r \in ui'.reads : r.token = ui'.shown.token => r.user = ui'.shown.user,
           (ui'.shown # None /\ second'.must[ui'.shown.user] /\ ~ui'.reloaded) => ui'.shown.must,
           \/ ui'.refused
           \/ IF ui'.shown = None THEN ui'.stored = None
              ELSE ui'.stored = [token |-> ui'.shown.token, user |-> ui'.shown.user]
    PROVE  Login!LoginInv'
<1>1. ui'.path \in Login!Paths
  BY DEF Login!SessionType
<1>2. (Login!PageOf(ui.path) \in Login!Paths)'
  BY <1>1 DEF Login!Paths, Login!PageOf, Login!Gated, Login!Free, Login!Own, Login!Makers,
     Login!Boards, Login!PublicPage, Login!OwnPage, Login!MakerPage, Login!AdminDashboard,
     Login!HomePage
<1>3. Login!TypeOK' /\ Login!IsFiniteSet(ui'.logins)
  BY <1>2, LoginCounts DEF Login!TypeOK
<1>4. Login!TokensAreOwn' /\ Login!MustIsKnown' /\ Login!StorageFollows'
  BY DEF Login!TokensAreOwn, Login!MustIsKnown, Login!StorageFollows, Login!IsLoggedIn, Login!Shown
<1> QED
  BY <1>3, <1>4 DEF Login!LoginInv

LEMMA LoginInitInv == Login!ConstantsOK /\ Login!Init => Login!LoginInv
<1> SUFFICES ASSUME Login!ConstantsOK, Login!Init
             PROVE  Login!LoginInv
  OBVIOUS
<1>1. "home" \in Login!Paths /\ 0 \in 0..MaxLogins /\ 0 \in 0..MaxTimers /\ MaxLogins \in Nat
  BY DEF Login!Paths, Login!Gated, Login!ConstantsOK
<1>2. ui \in Login!SessionType
  BY <1>1 DEF Login!Init, Login!SessionType
<1>3. second \in [role : [Members -> Login!AllRoles], must : [Members -> BOOLEAN], moderated : BOOLEAN]
  <2>1. second \in [role : [Members -> Roles], must : [Members -> BOOLEAN], moderated : BOOLEAN]
    BY DEF Login!Init
  <2>2. second.role \in [Members -> Login!AllRoles]
    BY <2>1 DEF Login!ConstantsOK
  <2> QED
    BY <2>1, <2>2
<1>4. /\ ui.shown = None /\ ui.stored = None /\ ui.logins = {} /\ ui.reads = {} /\ ui.tokens = 0
      /\ ui.path = "home"
  BY DEF Login!Init
<1>5. Login!Cardinality(ui.logins) = 0 /\ Login!IsFiniteSet(ui.logins)
  BY <1>4, FS_EmptySet, LoginCounts
<1>6. Login!PageOf(ui.path) \in Login!Paths
  BY <1>1, <1>4, PagesArePaths
<1> QED
  BY <1>1, <1>2, <1>3, <1>4, <1>5, <1>6 DEF Login!LoginInv, Login!TypeOK, Login!TokensAreOwn,
     Login!MustIsKnown, Login!StorageFollows, Login!IsLoggedIn, Login!Shown

(* A step that moves neither what is shown nor what is stored. *)
LEMMA LoginQuiet ==
    ASSUME Login!ConstantsOK, Login!LoginInv, ui' \in Login!SessionType,
           second' \in [role : [Members -> Login!AllRoles], must : [Members -> BOOLEAN],
                        moderated : BOOLEAN],
           \A w \in Members : second'.must[w] => second.must[w],
           ui'.shown = ui.shown, ui'.stored = ui.stored, ui'.tokens = ui.tokens,
           ui'.reads \subseteq ui.reads, ui'.refused = ui.refused, ui'.reloaded = ui.reloaded,
           IsFiniteSet(ui'.logins), ui'.tokens + Cardinality(ui'.logins) <= MaxLogins
    PROVE  Login!LoginInv'
<1>1. /\ ui \in Login!SessionType
      /\ \A r \in ui.reads : r.token <= ui.tokens
      /\ ui.stored # None => ui.stored.token <= ui.tokens
      /\ ui.shown # None =>
             /\ ui.shown.token <= ui.tokens
             /\ \A r \in ui.reads : r.token = ui.shown.token => r.user = ui.shown.user
      /\ (ui.shown # None /\ second.must[ui.shown.user] /\ ~ui.reloaded) => ui.shown.must
      /\ \/ ui.refused
         \/ IF ui.shown = None THEN ui.stored = None
            ELSE ui.stored = [token |-> ui.shown.token, user |-> ui.shown.user]
  BY LoginFacts
<1>2. ui.shown # None => ui.shown.user \in Members
  BY <1>1 DEF Login!SessionType, Login!ShownLogins
<1> QED
  BY <1>1, <1>2, LoginFrom

LEMMA LoginQuietSteps ==
    ASSUME Login!ConstantsOK, Login!LoginInv,
           \/ Login!ReadFailed \/ Login!TokenExpires \/ Login!OpenModal \/ Login!CloseModal
           \/ Login!ChangePassword \/ Login!ChangeFailed \/ \E p \in Visited : Login!Visit(p)
    PROVE  Login!LoginInv'
<1>1. /\ ui \in Login!SessionType /\ Visited \subseteq Login!Paths
      /\ second \in [role : [Members -> Login!AllRoles], must : [Members -> BOOLEAN],
                     moderated : BOOLEAN]
      /\ IsFiniteSet(ui.logins) /\ ui.tokens + Cardinality(ui.logins) <= MaxLogins
  BY LoginFacts
<1>2. ASSUME ui' \in Login!SessionType, UNCHANGED second,
             ui'.shown = ui.shown, ui'.stored = ui.stored, ui'.tokens = ui.tokens,
             ui'.reads \subseteq ui.reads, ui'.refused = ui.refused, ui'.reloaded = ui.reloaded,
             ui'.logins = ui.logins
      PROVE  Login!LoginInv'
  BY <1>1, <1>2, LoginQuiet
<1>3. CASE Login!ReadFailed
  <2>1. PICK r \in ui.reads : ui' = [ui EXCEPT !.reads = @ \ {r}] /\ UNCHANGED second
    BY <1>3 DEF Login!ReadFailed, Login!Set
  <2> DEFINE reads == ui.reads \ {r}
  <2>2. reads \in SUBSET Login!StoredLogins /\ reads \subseteq ui.reads
    BY <1>1 DEF Login!SessionType
  <2>3. ui' = [ui EXCEPT !.reads = reads]
    BY <2>1
  <2> HIDE DEF reads
  <2> QED
    BY <1>1, <1>2, <2>1, <2>2, <2>3 DEF Login!SessionType
<1>4. CASE Login!TokenExpires
  <2> DEFINE expired == ui.expired \union {ui.shown.token}
  <2>1. expired \in SUBSET Login!Tokens
    BY <1>1, <1>4 DEF Login!SessionType, Login!TokenExpires, Login!IsLoggedIn, Login!Shown,
       Login!ShownLogins
  <2>2. ui' = [ui EXCEPT !.expired = expired] /\ UNCHANGED second
    BY <1>4 DEF Login!TokenExpires, Login!Set, Login!Shown
  <2> HIDE DEF expired
  <2> QED
    BY <1>1, <1>2, <2>1, <2>2 DEF Login!SessionType
<1>5. CASE Login!OpenModal \/ Login!CloseModal
  <2>1. PICK open \in BOOLEAN : ui' = [ui EXCEPT !.modal = open] /\ UNCHANGED second
    BY <1>5 DEF Login!OpenModal, Login!CloseModal, Login!Set
  <2> QED
    BY <1>1, <1>2, <2>1 DEF Login!SessionType
<1>6. CASE Login!ChangePassword
  <2>1. /\ ui' = [ui EXCEPT !.changing = ui.shown.user] /\ UNCHANGED second
        /\ ui.shown # None
    BY <1>6 DEF Login!ChangePassword, Login!ChangeOffered, Login!IsLoggedIn, Login!Set, Login!Shown
  <2>2. ui.shown.user \in Members
    BY <1>1, <2>1 DEF Login!SessionType, Login!ShownLogins
  <2> DEFINE who == ui.shown.user
  <2>3. who \in Members /\ ui' = [ui EXCEPT !.changing = who]
    BY <2>1, <2>2
  <2> HIDE DEF who
  <2> QED
    BY <1>1, <1>2, <2>1, <2>3 DEF Login!SessionType
<1>7. CASE Login!ChangeFailed
  <2>1. ui' = [ui EXCEPT !.changing = None] /\ UNCHANGED second
    BY <1>7 DEF Login!ChangeFailed, Login!Set
  <2> QED
    BY <1>1, <1>2, <2>1 DEF Login!SessionType
<1>8. CASE \E p \in Visited : Login!Visit(p)
  <2>1. PICK p \in Login!Paths : ui' = [ui EXCEPT !.path = p] /\ UNCHANGED second
    BY <1>1, <1>8 DEF Login!Visit, Login!Set
  <2> QED
    BY <1>1, <1>2, <2>1 DEF Login!SessionType
<1> QED
  BY <1>3, <1>4, <1>5, <1>6, <1>7, <1>8

(* The server changes the password: there is one that must be changed less. *)
LEMMA LoginPassword ==
    ASSUME Login!ConstantsOK, Login!LoginInv, Login!PasswordChanged
    PROVE  Login!LoginInv'
<1>1. /\ ui \in Login!SessionType /\ ui.changing \in Members
      /\ MaxTimers \in Nat /\ ui.timers \in 0..MaxTimers /\ ui.timers < MaxTimers
      /\ second \in [role : [Members -> Login!AllRoles], must : [Members -> BOOLEAN],
                     moderated : BOOLEAN]
      /\ IsFiniteSet(ui.logins) /\ ui.tokens + Cardinality(ui.logins) <= MaxLogins
  BY LoginFacts DEF Login!PasswordChanged, Login!SessionType
<1> DEFINE must == [second.must EXCEPT ![ui.changing] = FALSE]
           later == ui.timers + 1
<1>2. must \in [Members -> BOOLEAN] /\ later \in 0..MaxTimers
  BY <1>1
<1>3. second' = [second EXCEPT !.must = must] /\ ui' = [ui EXCEPT !.changing = None, !.timers = later]
  BY <1>1 DEF Login!PasswordChanged
<1>4. \A w \in Members : must[w] => second.must[w]
  BY <1>1
<1> HIDE DEF must, later
<1>5. /\ second' \in [role : [Members -> Login!AllRoles], must : [Members -> BOOLEAN],
                      moderated : BOOLEAN]
      /\ second'.must = must
  BY <1>1, <1>2, <1>3
<1>6. ui' \in Login!SessionType
  BY <1>1, <1>2, <1>3 DEF Login!SessionType
<1>7. /\ ui'.shown = ui.shown /\ ui'.stored = ui.stored /\ ui'.tokens = ui.tokens
      /\ ui'.reads = ui.reads /\ ui'.refused = ui.refused /\ ui'.reloaded = ui.reloaded
      /\ ui'.logins = ui.logins
  BY <1>1, <1>2, <1>3 DEF Login!SessionType
<1> QED
  BY <1>1, <1>4, <1>5, <1>6, <1>7, LoginQuiet

LEMMA LoginSends ==
    ASSUME Login!ConstantsOK, Login!LoginInv, NEW w \in Members,
           Login!Submit(w) \/ Login!LoginFailed(w)
    PROVE  Login!LoginInv'
<1>1. /\ ui \in Login!SessionType /\ MaxLogins \in Nat
      /\ second \in [role : [Members -> Login!AllRoles], must : [Members -> BOOLEAN],
                     moderated : BOOLEAN]
      /\ IsFiniteSet(ui.logins) /\ ui.tokens + Cardinality(ui.logins) <= MaxLogins
      /\ ui.tokens \in 0..MaxLogins /\ Cardinality(ui.logins) \in Nat
  BY LoginFacts DEF Login!SessionType
<1>2. ASSUME NEW logins \in SUBSET Members, ui' = [ui EXCEPT !.logins = logins], UNCHANGED second,
             IsFiniteSet(logins), ui.tokens + Cardinality(logins) <= MaxLogins
      PROVE  Login!LoginInv'
  <2>1. ui' \in Login!SessionType
    BY <1>1, <1>2 DEF Login!SessionType
  <2>2. /\ ui'.shown = ui.shown /\ ui'.stored = ui.stored /\ ui'.tokens = ui.tokens
        /\ ui'.reads = ui.reads /\ ui'.refused = ui.refused /\ ui'.reloaded = ui.reloaded
        /\ ui'.logins = logins
    BY <1>1, <1>2 DEF Login!SessionType
  <2>3. second' = second
    BY <1>2
  <2> QED
    BY <1>1, <1>2, <2>1, <2>2, <2>3, LoginQuiet
<1>3. CASE Login!Submit(w)
  <2> DEFINE logins == ui.logins \union {w}
  <2>1. /\ ui' = [ui EXCEPT !.logins = logins] /\ UNCHANGED second
        /\ w \notin ui.logins /\ ui.tokens + Cardinality(ui.logins) < MaxLogins
    BY <1>3, LoginCounts DEF Login!Submit, Login!Set
  <2>2. IsFiniteSet(logins) /\ Cardinality(logins) = Cardinality(ui.logins) + 1
    BY <1>1, <2>1, FS_AddElement
  <2>3. logins \in SUBSET Members
    BY <1>1 DEF Login!SessionType
  <2> HIDE DEF logins
  <2>4. ui.tokens + Cardinality(logins) <= MaxLogins
    BY <1>1, <2>1, <2>2
  <2> QED
    BY <1>2, <2>1, <2>2, <2>3, <2>4
<1>4. CASE Login!LoginFailed(w)
  <2> DEFINE logins == ui.logins \ {w}
  <2>1. /\ ui' = [ui EXCEPT !.logins = logins] /\ UNCHANGED second /\ w \in ui.logins
    BY <1>4 DEF Login!LoginFailed, Login!Set
  <2>2. IsFiniteSet(logins) /\ Cardinality(logins) = Cardinality(ui.logins) - 1
    BY <1>1, <2>1, FS_RemoveElement
  <2>3. logins \in SUBSET Members
    BY <1>1 DEF Login!SessionType
  <2> HIDE DEF logins
  <2>4. ui.tokens + Cardinality(logins) <= MaxLogins
    BY <1>1, <2>1, <2>2
  <2> QED
    BY <1>2, <2>1, <2>2, <2>3, <2>4
<1> QED
  BY <1>3, <1>4

(* The profile is read: an answer for the token shown is stored, a refusal ends it. *)
LEMMA LoginReads ==
    ASSUME Login!ConstantsOK, Login!LoginInv, Login!ReadAnswered \/ Login!ReadRefused
    PROVE  Login!LoginInv'
<1>1. /\ ui \in Login!SessionType
      /\ second \in [role : [Members -> Login!AllRoles], must : [Members -> BOOLEAN],
                     moderated : BOOLEAN]
      /\ IsFiniteSet(ui.logins) /\ ui.tokens + Cardinality(ui.logins) <= MaxLogins
      /\ None \notin Login!StoredLogins /\ None \notin Login!ShownLogins
      /\ \A r \in ui.reads : r.token <= ui.tokens
      /\ ui.stored # None => ui.stored.token <= ui.tokens
      /\ ui.shown # None =>
             /\ ui.shown.token <= ui.tokens
             /\ \A r \in ui.reads : r.token = ui.shown.token => r.user = ui.shown.user
      /\ (ui.shown # None /\ second.must[ui.shown.user] /\ ~ui.reloaded) => ui.shown.must
      /\ \/ ui.refused
         \/ IF ui.shown = None THEN ui.stored = None
            ELSE ui.stored = [token |-> ui.shown.token, user |-> ui.shown.user]
  BY LoginFacts
<1>2. ASSUME NEW r \in ui.reads, NEW stored \in Login!StoredLogins \union {None},
             NEW shown \in {ui.shown, None}, NEW refused \in BOOLEAN,
             ui' = [ui EXCEPT !.reads = ui.reads \ {r}, !.stored = stored, !.shown = shown,
                              !.refused = refused],
             UNCHANGED second,
             stored # None => stored.token <= ui.tokens,
             \/ refused
             \/ IF shown = None THEN stored = None
                ELSE stored = [token |-> shown.token, user |-> shown.user]
      PROVE  Login!LoginInv'
  <2> DEFINE reads == ui.reads \ {r}
  <2>1. reads \in SUBSET Login!StoredLogins /\ reads \subseteq ui.reads
    BY <1>1 DEF Login!SessionType
  <2>2. ui' = [ui EXCEPT !.reads = reads, !.stored = stored, !.shown = shown, !.refused = refused]
    BY <1>2
  <2>3. shown \in Login!ShownLogins \union {None}
    BY <1>1 DEF Login!SessionType
  <2> HIDE DEF reads
  <2>4. ui' \in Login!SessionType
    BY <1>1, <2>1, <2>2, <2>3 DEF Login!SessionType
  <2>5. /\ ui'.shown = shown /\ ui'.stored = stored /\ ui'.tokens = ui.tokens
        /\ ui'.reads = reads /\ ui'.refused = refused /\ ui'.reloaded = ui.reloaded
        /\ ui'.logins = ui.logins
    BY <1>1, <2>1, <2>2, <2>3 DEF Login!SessionType
  <2>6. second' = second
    BY <1>2
  <2> QED
    BY <1>1, <1>2, <2>1, <2>4, <2>5, <2>6, LoginFrom
<1>3. CASE Login!ReadAnswered
  <2>1. PICK r \in ui.reads :
            /\ UNCHANGED second
            /\ ui' = [ui EXCEPT !.reads = @ \ {r},
                                !.stored = IF Login!Ignored(r) THEN @ ELSE [token |-> r.token, user |-> r.user]]
    BY <1>3 DEF Login!ReadAnswered, Login!Set
  <2> DEFINE stored == IF Login!Ignored(r) THEN ui.stored ELSE [token |-> r.token, user |-> r.user]
  <2>2. r \in Login!StoredLogins
    BY <1>1 DEF Login!SessionType
  <2>3. stored \in Login!StoredLogins \union {None}
    BY <1>1, <2>2 DEF Login!SessionType, Login!StoredLogins
  <2>4. stored # None => stored.token <= ui.tokens
    BY <1>1
  <2>5. \/ ui.refused
        \/ IF ui.shown = None THEN stored = None
           ELSE stored = [token |-> ui.shown.token, user |-> ui.shown.user]
    BY <1>1 DEF Login!Ignored, Login!Shown
  <2>6. ui' = [ui EXCEPT !.reads = ui.reads \ {r}, !.stored = stored, !.shown = ui.shown,
                         !.refused = ui.refused]
    BY <1>1, <2>1 DEF Login!SessionType
  <2>7. ui.refused \in BOOLEAN /\ UNCHANGED second
    BY <1>1, <2>1 DEF Login!SessionType
  <2> HIDE DEF stored
  <2> QED
    BY <1>2, <2>3, <2>4, <2>5, <2>6, <2>7
<1>4. CASE Login!ReadRefused
  <2>1. PICK r \in ui.reads :
            /\ UNCHANGED second
            /\ ui' = [ui EXCEPT !.reads = @ \ {r}, !.stored = None,
                        !.refused = @ \/ (ui.shown # None /\ Login!Ignored(r)),
                        !.shown = IF ui.shown # None /\ ui.shown.token = r.token THEN None ELSE @]
    BY <1>4 DEF Login!ReadRefused, Login!Set, Login!Shown
  <2> DEFINE refused == ui.refused \/ (ui.shown # None /\ Login!Ignored(r))
             shown == IF ui.shown # None /\ ui.shown.token = r.token THEN None ELSE ui.shown
  <2>2. shown \in {ui.shown, None} /\ refused \in BOOLEAN
    BY <1>1 DEF Login!SessionType
  <2>3. ui' = [ui EXCEPT !.reads = ui.reads \ {r}, !.stored = None, !.shown = shown,
                         !.refused = refused]
    BY <1>1, <2>1 DEF Login!SessionType
  <2>4. refused \/ shown = None
    BY DEF Login!Ignored, Login!Shown
  <2>5. UNCHANGED second
    BY <2>1
  <2> HIDE DEF refused, shown
  <2> QED
    BY <1>2, <2>2, <2>3, <2>4, <2>5
<1> QED
  BY <1>3, <1>4

(* Nobody is logged in any more. *)
LEMMA LoginEnds ==
    ASSUME Login!ConstantsOK, Login!LoginInv, Login!Logout \/ Login!TimerFires
    PROVE  Login!LoginInv'
<1>1. /\ ui \in Login!SessionType
      /\ second \in [role : [Members -> Login!AllRoles], must : [Members -> BOOLEAN],
                     moderated : BOOLEAN]
      /\ IsFiniteSet(ui.logins) /\ ui.tokens + Cardinality(ui.logins) <= MaxLogins
      /\ \A r \in ui.reads : r.token <= ui.tokens
      /\ MaxTimers \in Nat /\ ui.timers \in 0..MaxTimers
  BY LoginFacts DEF Login!SessionType
<1>2. PICK path \in Login!Paths, timers \in 0..MaxTimers :
          ui' = [ui EXCEPT !.shown = None, !.stored = None, !.path = path, !.timers = timers]
  <2>1. CASE Login!Logout
    <3> DEFINE path == Login!LeftPrivate
    <3>1. path \in Login!Paths
      BY <1>1 DEF Login!LeftPrivate, Login!SessionType, Login!Paths, Login!Gated
    <3>2. ui' = [ui EXCEPT !.shown = None, !.stored = None, !.path = path, !.timers = ui.timers]
      BY <1>1, <2>1 DEF Login!Logout, Login!Set, Login!LoggedOut, Login!SessionType
    <3> HIDE DEF path
    <3> QED
      BY <1>1, <3>1, <3>2
  <2>2. CASE Login!TimerFires
    <3>1. ui.timers - 1 \in 0..MaxTimers /\ "home" \in Login!Paths
      BY <1>1, <2>2 DEF Login!TimerFires, Login!Paths, Login!Gated
    <3>2. ui' = [ui EXCEPT !.shown = None, !.stored = None, !.path = "home", !.timers = ui.timers - 1]
      BY <1>1, <2>2 DEF Login!TimerFires, Login!Set, Login!LoggedOut, Login!SessionType
    <3> QED
      BY <3>1, <3>2
  <2> QED
    BY <2>1, <2>2
<1>3. second' = second
  BY DEF Login!Logout, Login!TimerFires, Login!Set
<1>4. ui' \in Login!SessionType
  BY <1>1, <1>2 DEF Login!SessionType
<1>5. /\ ui'.shown = None /\ ui'.stored = None /\ ui'.tokens = ui.tokens
      /\ ui'.reads = ui.reads /\ ui'.logins = ui.logins
  BY <1>1, <1>2 DEF Login!SessionType
<1> QED
  BY <1>1, <1>3, <1>4, <1>5, LoginFrom

(* The profile of a new login is read, unless its password must be changed. *)
LEMMA LoginReadStarts ==
    ASSUME NEW s \in Login!SessionType
    PROVE  LET r == Login!Read(s)
           IN  /\ r \in Login!SessionType
               /\ r.shown = s.shown /\ r.stored = s.stored /\ r.tokens = s.tokens
               /\ r.logins = s.logins /\ r.refused = s.refused /\ r.reloaded = s.reloaded
               /\ \A q \in r.reads : \/ q \in s.reads
                                     \/ /\ s.shown # None
                                        /\ q.token = s.shown.token /\ q.user = s.shown.user
<1> DEFINE r == Login!Read(s)
           own == [token |-> s.shown.token, user |-> s.shown.user]
           quiet == s.shown = None \/ s.shown.must \/ s.shown.token \in {q.token : q \in s.reads}
           reads == IF quiet THEN s.reads ELSE s.reads \union {own}
<1>1. s.shown # None => own \in Login!StoredLogins
  BY DEF Login!SessionType, Login!ShownLogins, Login!StoredLogins
<1>2. reads \in SUBSET Login!StoredLogins
  BY <1>1 DEF Login!SessionType
<1>3. r = [s EXCEPT !.reads = reads]
  BY DEF Login!Read
<1>4. \A q \in reads : \/ q \in s.reads
                       \/ s.shown # None /\ q.token = s.shown.token /\ q.user = s.shown.user
  OBVIOUS
<1> HIDE DEF reads, r, own, quiet
<1>5. /\ r \in Login!SessionType
      /\ r.shown = s.shown /\ r.stored = s.stored /\ r.tokens = s.tokens
      /\ r.logins = s.logins /\ r.refused = s.refused /\ r.reloaded = s.reloaded
      /\ r.reads = reads
  BY <1>2, <1>3 DEF Login!SessionType
<1> QED
  BY <1>4, <1>5 DEF r

LEMMA LoginBegins ==
    ASSUME Login!ConstantsOK, Login!LoginInv, NEW w \in Members, Login!LoginAnswered(w)
    PROVE  Login!LoginInv'
<1>1. /\ ui \in Login!SessionType /\ MaxLogins \in Nat
      /\ second \in [role : [Members -> Login!AllRoles], must : [Members -> BOOLEAN],
                     moderated : BOOLEAN]
      /\ IsFiniteSet(ui.logins) /\ ui.tokens + Cardinality(ui.logins) <= MaxLogins
      /\ \A r \in ui.reads : r.token <= ui.tokens
      /\ None \notin Login!StoredLogins /\ None \notin Login!ShownLogins
      /\ ui.tokens \in 0..MaxLogins /\ w \in ui.logins /\ Cardinality(ui.logins) \in Nat
  BY LoginFacts DEF Login!SessionType, Login!LoginAnswered
<1> DEFINE token == ui.tokens + 1
           logins == ui.logins \ {w}
           stored == [token |-> token, user |-> w]
           must == second.must[w]
           shown == [token |-> token, user |-> w, must |-> must]
           path == Login!Destination(must)
           s == [ui EXCEPT !.logins = logins, !.tokens = token, !.modal = FALSE, !.stored = stored,
                           !.shown = shown, !.path = path, !.reloaded = FALSE, !.refused = FALSE]
<1>2. /\ IsFiniteSet(logins) /\ Cardinality(logins) = Cardinality(ui.logins) - 1
      /\ Cardinality(logins) \in Nat /\ logins \in SUBSET Members
  <2>1. IsFiniteSet(logins) /\ Cardinality(logins) = Cardinality(ui.logins) - 1
    BY <1>1, FS_RemoveElement
  <2>2. Cardinality(logins) \in Nat
    BY <2>1, FS_CardinalityType
  <2> QED
    BY <1>1, <2>1, <2>2 DEF Login!SessionType
<1>3. token \in Login!Tokens /\ token \in 0..MaxLogins /\ token + Cardinality(logins) <= MaxLogins
  <2> HIDE DEF logins
  <2> QED
    BY <1>1, <1>2 DEF Login!Tokens
<1>4. must \in BOOLEAN /\ path \in Login!Paths
  BY <1>1 DEF Login!Destination, Login!SessionType, Login!Paths
<1>5. stored \in Login!StoredLogins /\ shown \in Login!ShownLogins
  <2> HIDE DEF token, must
  <2> QED
    BY <1>3, <1>4 DEF Login!StoredLogins, Login!ShownLogins
<1>6. second' = second /\ ui' = Login!Read(s)
  BY <1>1 DEF Login!LoginAnswered, Login!Set, Login!SessionType
<1>7. /\ stored # None /\ stored.token = token
      /\ shown # None /\ shown.token = token /\ shown.user = w /\ shown.must = must
      /\ stored = [token |-> shown.token, user |-> shown.user]
  BY <1>1, <1>5
<1>8. \A r \in ui.reads : r.token <= ui.tokens /\ r.token # token /\ r.token <= token
  <2>1. \A r \in ui.reads : r.token \in Nat
    BY <1>1 DEF Login!SessionType, Login!StoredLogins, Login!Tokens
  <2> QED
    BY <1>1, <2>1
<1>9. must = second.must[w] /\ token \in Nat
  BY <1>1
<1> HIDE DEF token, logins, stored, must, shown, path
<1>10. /\ s \in Login!SessionType
       /\ s.shown = shown /\ s.stored = stored /\ s.tokens = token /\ s.logins = logins
       /\ s.reads = ui.reads /\ s.refused = FALSE /\ s.reloaded = FALSE
  BY <1>1, <1>2, <1>3, <1>4, <1>5 DEF Login!SessionType
<1> HIDE DEF s
<1>11. /\ ui' \in Login!SessionType
       /\ ui'.shown = shown /\ ui'.stored = stored /\ ui'.tokens = token /\ ui'.logins = logins
       /\ \A q \in ui'.reads : \/ q \in ui.reads
                               \/ q.token = token /\ q.user = w
  BY <1>6, <1>7, <1>10, LoginReadStarts
<1>12. \A r \in ui'.reads : r.token <= token /\ (r.token = token => r.user = w)
  BY <1>8, <1>9, <1>11
<1> QED
  BY <1>1, <1>2, <1>3, <1>6, <1>7, <1>9, <1>11, <1>12, LoginFrom

LEMMA LoginReloads ==
    ASSUME Login!ConstantsOK, Login!LoginInv, Login!Reload
    PROVE  Login!LoginInv'
<1>1. /\ ui \in Login!SessionType /\ MaxLogins \in Nat
      /\ second \in [role : [Members -> Login!AllRoles], must : [Members -> BOOLEAN],
                     moderated : BOOLEAN]
      /\ ui.stored # None => ui.stored.token <= ui.tokens
      /\ None \notin Login!StoredLogins /\ None \notin Login!ShownLogins
      /\ ui.tokens \in 0..MaxLogins /\ 0 \in 0..MaxTimers
  BY LoginFacts DEF Login!SessionType
<1> DEFINE kept == ui.stored # None /\ ui.stored.token \notin ui.expired
           shown == [token |-> ui.stored.token, user |-> ui.stored.user, must |-> FALSE]
           now == IF kept THEN shown ELSE None
           then == IF kept THEN ui.stored ELSE None
           none == 0
           empty == [ui EXCEPT !.reads = {}, !.logins = {}, !.modal = FALSE, !.changing = None,
                               !.timers = none, !.reloaded = TRUE]
           s == [empty EXCEPT !.shown = now, !.stored = then]
<1>2. ui.stored # None => ui.stored \in Login!StoredLogins
  BY <1>1 DEF Login!SessionType
<1>3. kept => /\ shown \in Login!ShownLogins /\ shown # None /\ shown.token = ui.stored.token
              /\ shown.user = ui.stored.user
              /\ ui.stored = [token |-> shown.token, user |-> shown.user]
  <2> SUFFICES ASSUME kept
               PROVE  /\ shown \in Login!ShownLogins /\ shown # None /\ shown.token = ui.stored.token
                      /\ shown.user = ui.stored.user
                      /\ ui.stored = [token |-> shown.token, user |-> shown.user]
    OBVIOUS
  <2>1. ui.stored \in Login!StoredLogins
    BY <1>2
  <2>2. ui.stored = [token |-> ui.stored.token, user |-> ui.stored.user]
    BY <2>1 DEF Login!StoredLogins
  <2>3. ui.stored.token \in Login!Tokens /\ ui.stored.user \in Members
    BY <2>1 DEF Login!StoredLogins
  <2>4. shown \in Login!ShownLogins
    BY <2>3 DEF Login!ShownLogins
  <2>5. shown.token = ui.stored.token /\ shown.user = ui.stored.user
    OBVIOUS
  <2> QED
    BY <1>1, <2>2, <2>4, <2>5
<1>4. /\ now \in Login!ShownLogins \union {None} /\ then \in Login!StoredLogins \union {None}
      /\ none \in 0..MaxTimers
      /\ IF now = None THEN then = None ELSE then = [token |-> now.token, user |-> now.user]
      /\ now # None => now.token = ui.stored.token /\ ui.stored # None
      /\ then # None => then = ui.stored
  BY <1>1, <1>2, <1>3
<1>5. empty = [ui EXCEPT !.reads = {}, !.logins = {}, !.modal = FALSE, !.changing = None,
                         !.timers = 0, !.reloaded = TRUE]
  OBVIOUS
<1>6. second' = second /\ ui' = Login!Read(Login!Stored(empty))
  BY <1>5 DEF Login!Reload, Login!Set
<1> HIDE DEF none
<1>7. /\ empty \in Login!SessionType /\ empty.stored = ui.stored /\ empty.expired = ui.expired
      /\ empty.tokens = ui.tokens /\ empty.logins = {} /\ empty.reads = {} /\ empty.reloaded = TRUE
  BY <1>1, <1>4 DEF Login!SessionType
<1> HIDE DEF empty
<1>8. Login!Stored(empty) = s
  <2>1. CASE ui.stored = None
    <3>1. Login!Stored(empty) = [empty EXCEPT !.shown = None]
      BY <1>7, <2>1 DEF Login!Stored
    <3>2. now = None /\ then = None /\ empty.stored = None
      BY <1>7, <2>1
    <3> HIDE DEF now, then
    <3> QED
      BY <1>7, <3>1, <3>2 DEF Login!SessionType
  <2>2. CASE ui.stored # None /\ ui.stored.token \in ui.expired
    <3>1. Login!Stored(empty) = [empty EXCEPT !.shown = None, !.stored = None]
      BY <1>7, <2>2 DEF Login!Stored, Login!LoggedOut
    <3> QED
      BY <2>2, <3>1
  <2>3. CASE kept
    <3>1. Login!Stored(empty) = [empty EXCEPT !.shown = shown]
      BY <1>7, <2>3 DEF Login!Stored
    <3>2. now = shown /\ then = empty.stored
      BY <1>7, <2>3
    <3> HIDE DEF now, then, shown
    <3> QED
      BY <1>7, <3>1, <3>2 DEF Login!SessionType
  <2> QED
    BY <2>1, <2>2, <2>3
<1> HIDE DEF now, then, kept, shown
<1>9. /\ s \in Login!SessionType
      /\ s.shown = now /\ s.stored = then /\ s.tokens = ui.tokens /\ s.logins = {}
      /\ s.reads = {} /\ s.reloaded = TRUE
  BY <1>4, <1>7 DEF Login!SessionType
<1> HIDE DEF s
<1>10. /\ ui' \in Login!SessionType
       /\ ui'.shown = now /\ ui'.stored = then /\ ui'.tokens = ui.tokens /\ ui'.logins = {}
       /\ ui'.reloaded = TRUE
       /\ \A q \in ui'.reads : now # None /\ q.token = now.token /\ q.user = now.user
  BY <1>6, <1>8, <1>9, LoginReadStarts
<1>11. IsFiniteSet(ui'.logins) /\ Cardinality(ui'.logins) = 0
  BY <1>10, FS_EmptySet
<1> QED
  BY <1>1, <1>4, <1>6, <1>10, <1>11, LoginFrom

LEMMA LoginNextInv ==
    ASSUME Login!ConstantsOK, Login!LoginInv, [Login!Next]_<<ui, second>>
    PROVE  Login!LoginInv'
<1>1. CASE UNCHANGED <<ui, second>>
  <2>1. ui' = ui /\ second' = second
    BY <1>1
  <2> QED
    BY <2>1, LoginFacts, LoginFrom
<1>2. CASE Login!Next
  BY <1>2, LoginQuietSteps, LoginPassword, LoginSends, LoginReads, LoginEnds, LoginBegins,
     LoginReloads DEF Login!Next
<1> QED
  BY <1>1, <1>2

(* Whoever is known to have to change the password sees no gated page; and every link leads on, *)
(* but for the pages of their own that admins are offered.                                      *)
LEMMA LoginInvShows ==
    Login!LoginInv => Login!StorageFollows /\ Login!MustChangeIsGated /\ Login!LinksOpen
<1> SUFFICES ASSUME Login!LoginInv
             PROVE  Login!MustChangeIsGated /\ Login!LinksOpen
  BY DEF Login!LoginInv
<1> USE DEF Login!Paths, Login!PageOf, Login!Gated, Login!Free, Login!Own, Login!Makers,
        Login!Boards, Login!PublicPage, Login!OwnPage, Login!MakerPage, Login!AdminDashboard,
        Login!HomePage
<1> DEFINE Opens(p) == \/ Login!PageOf(p) \in {p, "changepassword"}
                       \/ Login!IsAdmin /\ p \in Login!Own
<1>1. Login!MustChangeIsGated
  <2>1. (Login!IsLoggedIn /\ second.must[Login!Shown.user] /\ ~ui.reloaded) => Login!MustChange
    BY DEF Login!LoginInv, Login!MustIsKnown, Login!MustChange
  <2> QED
    BY <2>1 DEF Login!MustChangeIsGated
<1>2. ASSUME NEW p \in Login!SidebarLinks
      PROVE  Opens(p)
  <2>1. CASE ~Login!IsLoggedIn
    BY <2>1 DEF Login!SidebarLinks, Login!MustChange
  <2>2. CASE Login!IsAdmin
    BY <2>2 DEF Login!SidebarLinks, Login!MustChange, Login!IsAdmin
  <2>3. CASE Login!IsLoggedIn /\ ~Login!IsAdmin /\ Login!MustChange
    <3>1. p \in {"changepassword", "home"}
      BY <2>3 DEF Login!SidebarLinks
    <3> QED
      BY <2>3, <3>1
  <2>4. CASE Login!IsLoggedIn /\ ~Login!IsAdmin /\ ~Login!MustChange
    <3>1. p \in {"profile", "home", "markets", "about", "faq", "stats"} \/ (p = "create" /\ Login!CanCreate)
      BY <2>4 DEF Login!SidebarLinks
    <3> QED
      BY <2>4, <3>1
  <2> QED
    BY <2>1, <2>2, <2>3, <2>4
<1>3. \A p \in {"home", "markets", "newMarkets", "stats", "faq"} : Opens(p)
  BY DEF Login!MustChange
<1>4. \A p \in Login!CreateLink : Opens(p)
  <2>1. \A p \in Login!CreateLink : p = "create" /\ Login!CanCreate
    BY DEF Login!CreateLink
  <2> QED
    BY <2>1
<1>5. Login!IsLoggedIn => Opens("profile") /\ Opens("portfolio")
  BY DEF Login!MustChange
<1>6. Login!IsAdmin => Opens("review")
  BY DEF Login!MustChange
<1>7. \A p \in Login!BottomLinks : Opens(p)
  BY <1>3, <1>4, <1>5 DEF Login!BottomLinks
<1>8. \A p \in Login!BarLinks : Opens(p)
  BY <1>3, <1>4, <1>5, <1>6 DEF Login!BarLinks
<1>9. \A at \in Login!Paths : \A p \in Login!LinksAt(at) : Opens(p)
  <2> HIDE DEF Opens
  <2> QED
    BY <1>2, <1>7, <1>8 DEF Login!LinksAt
<1> QED
  BY <1>1, <1>9 DEF Login!LinksOpen
-----------------------------------------------------------------------------
(* The bar at the top. *)
LEMMA BarInitInv == Bar!ConstantsOK /\ Bar!Init => Bar!BarInv
<1> SUFFICES ASSUME Bar!ConstantsOK, Bar!Init
             PROVE  Bar!BarInv
  OBVIOUS
<1>1. 0 \in 0..MaxLogins /\ 0 \in 0..PageEnd
  BY DEF Bar!ConstantsOK
<1>2. ui \in Bar!BarType
  BY <1>1 DEF Bar!Init, Bar!BarType
<1>3. second \in [Users -> Nat]
  BY DEF Bar!Init
<1>4. ui.user = None /\ ui.fetches = {} /\ ui.layer = "none" /\ ui.visible /\ ~ui.fixed
  BY DEF Bar!Init
<1> QED
  BY <1>2, <1>3, <1>4 DEF Bar!BarInv, Bar!TypeOK, Bar!CreditIsCurrent, Bar!FetchIsCurrent,
     Bar!SectionsShown, Bar!PlaceholderShown, Bar!ChipShown, Bar!SignInShown, Bar!IsLoggedIn

LEMMA BarFacts ==
    ASSUME Bar!ConstantsOK, Bar!BarInv
    PROVE  /\ MaxTrades \in Nat /\ MaxLogins \in Nat /\ PageEnd \in Nat
           /\ None \notin Users /\ None \notin Nat
           /\ ui \in Bar!BarType /\ second \in [Users -> Nat]
           /\ ui.scroll = 0 => ~ui.fixed
           /\ ~ui.visible => ui.fixed
           /\ ui.layer = "chip" => ui.user # None /\ ui.visible
           /\ ui.layer \in {"login", "register", "forgot"} => ui.user = None
           /\ (ui.user # None /\ ui.fetches = {} /\ ~ui.stale) =>
                  ui.credit = [of |-> ui.user, got |-> second[ui.user]]
           /\ (~ui.stale) =>
                  /\ \A f, g \in ui.fetches : f = g
                  /\ ui.user # None => \A f \in ui.fetches :
                         f.of = ui.user /\ f.login = ui.logins /\ f.got \in {None, second[ui.user]}
  BY DEF Bar!ConstantsOK, Bar!BarInv, Bar!TypeOK, Bar!CreditIsCurrent, Bar!FetchIsCurrent,
     Bar!SectionsShown, Bar!PlaceholderShown, Bar!ChipShown, Bar!SignInShown, Bar!IsLoggedIn

LEMMA BarFrom ==
    ASSUME ui' \in Bar!BarType, second' \in [Users -> Nat],
           ui'.scroll = 0 => ~ui'.fixed,
           ~ui'.visible => ui'.fixed,
           ui'.layer = "chip" => ui'.user # None /\ ui'.visible,
           ui'.layer \in {"login", "register", "forgot"} => ui'.user = None,
           (ui'.user # None /\ ui'.fetches = {} /\ ~ui'.stale) =>
               ui'.credit = [of |-> ui'.user, got |-> second'[ui'.user]],
           (~ui'.stale) =>
               /\ \A f, g \in ui'.fetches : f = g
               /\ ui'.user # None => \A f \in ui'.fetches :
                      f.of = ui'.user /\ f.login = ui'.logins /\ f.got \in {None, second'[ui'.user]}
    PROVE  Bar!BarInv'
  BY DEF Bar!BarInv, Bar!TypeOK, Bar!CreditIsCurrent, Bar!FetchIsCurrent,
     Bar!SectionsShown, Bar!PlaceholderShown, Bar!ChipShown, Bar!SignInShown, Bar!IsLoggedIn

(* A step that leaves the credit and what is asked for it alone. *)
LEMMA BarQuiet ==
    ASSUME Bar!ConstantsOK, Bar!BarInv, ui' \in Bar!BarType, second' = second,
           ui'.user \in {ui.user, None}, ui'.logins = ui.logins, ui'.credit = ui.credit,
           ui'.fetches = ui.fetches, ui'.stale = ui.stale,
           ui'.scroll = 0 => ~ui'.fixed,
           ~ui'.visible => ui'.fixed,
           ui'.layer = "chip" => ui'.user # None /\ ui'.visible,
           ui'.layer \in {"login", "register", "forgot"} => ui'.user = None
    PROVE  Bar!BarInv'
<1>1. second' \in [Users -> Nat]
  BY BarFacts
<1>2. (ui'.user # None /\ ui'.fetches = {} /\ ~ui'.stale) =>
          ui'.credit = [of |-> ui'.user, got |-> second'[ui'.user]]
  BY BarFacts
<1>3. (~ui'.stale) =>
          /\ \A f, g \in ui'.fetches : f = g
          /\ ui'.user # None => \A f \in ui'.fetches :
                 f.of = ui'.user /\ f.login = ui'.logins /\ f.got \in {None, second'[ui'.user]}
  BY BarFacts
<1> QED
  BY <1>1, <1>2, <1>3, BarFrom

(* The layers: what is shown changes, or the one who is logged in leaves. *)
LEMMA BarLayers ==
    ASSUME Bar!ConstantsOK, Bar!BarInv,
           \/ Bar!Logout \/ Bar!SignOut \/ Bar!OpenChip \/ Bar!OpenLanguage \/ Bar!Close
           \/ Bar!TagsLoaded
           \/ \E s \in {"more", "search"} : Bar!OpenSheet(s)
           \/ \E m \in {"login", "register", "forgot"} : Bar!OpenModal(m) \/ Bar!SwitchModal(m)
           \/ \E code \in {"en", "es"} : Bar!SetLanguage(code)
    PROVE  Bar!BarInv'
<1>1. /\ ui \in Bar!BarType
      /\ ui.scroll = 0 => ~ui.fixed
      /\ ~ui.visible => ui.fixed
      /\ ui.layer = "chip" => ui.user # None /\ ui.visible
      /\ ui.layer \in {"login", "register", "forgot"} => ui.user = None
  BY BarFacts
<1>2. ASSUME NEW layer \in {"none", "chip", "language", "more", "search", "login", "register", "forgot"},
             NEW who \in {ui.user, None}, NEW code \in {"en", "es"}, NEW loaded \in BOOLEAN,
             ui' = [ui EXCEPT !.user = who, !.layer = layer, !.language = code, !.tags = loaded],
             UNCHANGED second,
             layer = "chip" => who # None /\ ui.visible,
             layer \in {"login", "register", "forgot"} => who = None
      PROVE  Bar!BarInv'
  <2>1. ui' \in Bar!BarType
    BY <1>1, <1>2 DEF Bar!BarType
  <2>2. /\ ui'.user = who /\ ui'.logins = ui.logins /\ ui'.credit = ui.credit
        /\ ui'.fetches = ui.fetches /\ ui'.stale = ui.stale /\ ui'.scroll = ui.scroll
        /\ ui'.fixed = ui.fixed /\ ui'.visible = ui.visible /\ ui'.layer = layer
    BY <1>1, <1>2 DEF Bar!BarType
  <2> QED
    BY <1>1, <1>2, <2>1, <2>2, BarQuiet
<1>3. CASE Bar!Logout \/ Bar!SignOut
  <2>1. ui' = [ui EXCEPT !.user = None, !.layer = "none"] /\ UNCHANGED second
    BY <1>3 DEF Bar!Logout, Bar!SignOut, Bar!Bar
  <2>2. ui' = [ui EXCEPT !.user = None, !.layer = "none", !.language = ui.language, !.tags = ui.tags]
    BY <1>1, <2>1 DEF Bar!BarType
  <2> QED
    BY <1>1, <1>2, <2>1, <2>2 DEF Bar!BarType
<1>4. ASSUME NEW layer \in {"none", "chip", "language", "more", "search", "login", "register", "forgot"},
             ui' = [ui EXCEPT !.layer = layer], UNCHANGED second,
             layer = "chip" => ui.user # None /\ ui.visible,
             layer \in {"login", "register", "forgot"} => ui.user = None
      PROVE  Bar!BarInv'
  <2>1. ui' = [ui EXCEPT !.user = ui.user, !.layer = layer, !.language = ui.language, !.tags = ui.tags]
    BY <1>1, <1>4 DEF Bar!BarType
  <2>2. ui.language \in {"en", "es"} /\ ui.tags \in BOOLEAN
    BY <1>1 DEF Bar!BarType
  <2> QED
    BY <1>2, <1>4, <2>1, <2>2
<1>5. CASE Bar!OpenChip \/ Bar!OpenLanguage \/ Bar!Close
  BY <1>4, <1>5 DEF Bar!OpenChip, Bar!OpenLanguage, Bar!Close, Bar!Show, Bar!Bar,
     Bar!ChipShown, Bar!IsLoggedIn
<1>6. CASE Bar!TagsLoaded
  <2>1. ui' = [ui EXCEPT !.tags = TRUE] /\ UNCHANGED second
    BY <1>6 DEF Bar!TagsLoaded, Bar!Bar
  <2>2. ui' = [ui EXCEPT !.user = ui.user, !.layer = ui.layer, !.language = ui.language, !.tags = TRUE]
    BY <1>1, <2>1 DEF Bar!BarType
  <2> QED
    BY <1>1, <1>2, <2>1, <2>2 DEF Bar!BarType
<1>7. CASE \E s \in {"more", "search"} : Bar!OpenSheet(s)
  BY <1>4, <1>7 DEF Bar!OpenSheet, Bar!Show, Bar!Bar
<1>8. CASE \E m \in {"login", "register", "forgot"} : Bar!OpenModal(m) \/ Bar!SwitchModal(m)
  BY <1>4, <1>8 DEF Bar!OpenModal, Bar!SwitchModal, Bar!Show, Bar!Bar, Bar!SignInShown,
     Bar!IsLoggedIn
<1>9. CASE \E code \in {"en", "es"} : Bar!SetLanguage(code)
  <2>1. PICK code \in {"en", "es"} : Bar!SetLanguage(code)
    BY <1>9
  <2>2. /\ UNCHANGED second
        /\ \/ ui' = [ui EXCEPT !.language = code, !.layer = "none"]
           \/ ui' = [ui EXCEPT !.language = code]
    BY <2>1 DEF Bar!SetLanguage, Bar!Bar
  <2>3. CASE ui' = [ui EXCEPT !.language = code, !.layer = "none"]
    <3>1. ui' = [ui EXCEPT !.user = ui.user, !.layer = "none", !.language = code, !.tags = ui.tags]
      BY <1>1, <2>3 DEF Bar!BarType
    <3> QED
      BY <1>1, <1>2, <2>2, <3>1 DEF Bar!BarType
  <2>4. CASE ui' = [ui EXCEPT !.language = code]
    <3>1. ui' = [ui EXCEPT !.user = ui.user, !.layer = ui.layer, !.language = code, !.tags = ui.tags]
      BY <1>1, <2>4 DEF Bar!BarType
    <3> QED
      BY <1>1, <1>2, <2>2, <3>1 DEF Bar!BarType
  <2> QED
    BY <2>2, <2>3, <2>4
<1> QED
  BY <1>3, <1>5, <1>6, <1>7, <1>8, <1>9

LEMMA BarScrolls ==
    ASSUME Bar!ConstantsOK, Bar!BarInv, NEW y \in 0..PageEnd, Bar!Scroll(y)
    PROVE  Bar!BarInv'
<1>1. ui \in Bar!BarType /\ PageEnd \in Nat /\ (ui.layer = "chip" => ui.user # None)
  BY BarFacts
<1> DEFINE layer == IF Bar!Visible(y) THEN ui.layer ELSE "none"
           fixed == Bar!Fixed(y)
           visible == Bar!Visible(y)
<1>2. fixed \in BOOLEAN /\ visible \in BOOLEAN /\ layer \in {"none", "chip"}
  BY <1>1 DEF Bar!Fixed, Bar!Visible, Bar!Scroll, Bar!BarType
<1>3. ui' = [ui EXCEPT !.scroll = y, !.fixed = fixed, !.visible = visible, !.layer = layer]
      /\ UNCHANGED second
  BY DEF Bar!Scroll, Bar!Bar
<1>4. /\ y = 0 => ~fixed
      /\ ~visible => fixed
      /\ layer = "chip" => ui.user # None /\ visible
  BY <1>1 DEF Bar!Fixed, Bar!Visible, Bar!Threshold
<1> HIDE DEF fixed, visible, layer
<1>5. ui' \in Bar!BarType
  BY <1>1, <1>2, <1>3 DEF Bar!BarType
<1>6. /\ ui'.user = ui.user /\ ui'.logins = ui.logins /\ ui'.credit = ui.credit
      /\ ui'.fetches = ui.fetches /\ ui'.stale = ui.stale /\ ui'.scroll = y
      /\ ui'.fixed = fixed /\ ui'.visible = visible /\ ui'.layer = layer
  BY <1>1, <1>2, <1>3 DEF Bar!BarType
<1> QED
  BY <1>2, <1>3, <1>4, <1>5, <1>6, BarQuiet


(* What a fetch for w does to the bar: it joins one for him and this login, or is the one more. *)
LEMMA BarFetches ==
    ASSUME NEW b \in Bar!BarType, NEW w \in Users
    PROVE  LET r == Bar!Fetch(b, w)
           IN  /\ r \in Bar!BarType
               /\ r.user = b.user /\ r.logins = b.logins /\ r.credit = b.credit
               /\ r.layer = b.layer /\ r.scroll = b.scroll /\ r.fixed = b.fixed
               /\ r.visible = b.visible
               /\ \/ r.stale
                  \/ /\ r.fetches = b.fetches \union {[of |-> w, login |-> b.logins, got |-> None]}
                     /\ ~b.stale \/ b.fetches = {}
                     /\ \A f \in b.fetches : ~(f.of = w /\ f.login = b.logins)
<1> DEFINE r == Bar!Fetch(b, w)
           new == [of |-> w, login |-> b.logins, got |-> None]
<1>1. CASE \E f \in b.fetches : f.of = w /\ f.login = b.logins
  <2>1. r = [b EXCEPT !.stale = TRUE]
    BY <1>1 DEF Bar!Fetch
  <2> HIDE DEF r
  <2>2. /\ r \in Bar!BarType
        /\ r.user = b.user /\ r.logins = b.logins /\ r.credit = b.credit
        /\ r.layer = b.layer /\ r.scroll = b.scroll /\ r.fixed = b.fixed
        /\ r.visible = b.visible /\ r.stale
    BY <2>1 DEF Bar!BarType
  <2> QED
    BY <2>2 DEF r
<1>2. CASE ~\E f \in b.fetches : f.of = w /\ f.login = b.logins
  <2>1. new \in Bar!Fetches
    BY DEF Bar!Fetches, Bar!BarType
  <2> DEFINE fetches == b.fetches \union {new}
             stale == b.stale /\ b.fetches # {}
  <2>2. fetches \in SUBSET Bar!Fetches /\ stale \in BOOLEAN
    BY <2>1 DEF Bar!BarType
  <2>3. r = [b EXCEPT !.fetches = fetches, !.stale = stale]
    BY <1>2 DEF Bar!Fetch, Bar!BarType
  <2> HIDE DEF r, fetches, stale
  <2>4. /\ r \in Bar!BarType
        /\ r.user = b.user /\ r.logins = b.logins /\ r.credit = b.credit
        /\ r.layer = b.layer /\ r.scroll = b.scroll /\ r.fixed = b.fixed
        /\ r.visible = b.visible /\ r.fetches = fetches /\ r.stale = stale
    BY <2>2, <2>3 DEF Bar!BarType
  <2>5. ~stale => ~b.stale \/ b.fetches = {}
    BY DEF stale
  <2> QED
    BY <1>2, <2>4, <2>5 DEF r, fetches
<1> QED
  BY <1>1, <1>2

LEMMA BarLogins ==
    ASSUME Bar!ConstantsOK, Bar!BarInv, NEW w \in Users, Bar!Login(w)
    PROVE  Bar!BarInv'
<1> DEFINE b == [ui EXCEPT !.user = w, !.logins = ui.logins + 1, !.layer = "none"]
           r == Bar!Fetch(b, w)
           stale == r.stale \/ ui.fetches # {}
<1>1. /\ ui \in Bar!BarType /\ second \in [Users -> Nat] /\ MaxLogins \in Nat /\ None \notin Users
      /\ (ui.scroll = 0 => ~ui.fixed) /\ (~ui.visible => ui.fixed)
      /\ ui.logins < MaxLogins
  BY BarFacts DEF Bar!Login
<1>2. ui.logins + 1 \in 0..MaxLogins
  BY <1>1 DEF Bar!BarType
<1>3. /\ b \in Bar!BarType /\ b.user = w /\ b.fetches = ui.fetches /\ b.layer = "none"
      /\ b.scroll = ui.scroll /\ b.fixed = ui.fixed /\ b.visible = ui.visible
  BY <1>1, <1>2 DEF Bar!BarType
<1>4. UNCHANGED second /\ ui' = [r EXCEPT !.stale = r.stale \/ ui.fetches # {}]
  <2>1. b = [ui EXCEPT !.user = w, !.logins = @ + 1, !.layer = "none"]
    BY <1>1 DEF Bar!BarType
  <2>2. UNCHANGED second /\ ui' = [r EXCEPT !.stale = @ \/ ui.fetches # {}]
    BY <2>1 DEF Bar!Login, Bar!Bar
  <2>3. r \in Bar!BarType
    BY <1>3, BarFetches
  <2> HIDE DEF r, b
  <2> QED
    BY <2>2, <2>3 DEF Bar!BarType
<1> HIDE DEF b
<1>5. /\ r \in Bar!BarType
      /\ r.user = w /\ r.layer = "none" /\ r.scroll = ui.scroll /\ r.fixed = ui.fixed
      /\ r.visible = ui.visible /\ r.logins = b.logins
      /\ \/ r.stale
         \/ r.fetches = ui.fetches \union {[of |-> w, login |-> b.logins, got |-> None]}
  BY <1>3, BarFetches
<1> HIDE DEF r
<1>6. stale \in BOOLEAN /\ ui' = [r EXCEPT !.stale = stale]
  BY <1>4, <1>5 DEF Bar!BarType
<1>7. ~stale => r.fetches = {[of |-> w, login |-> b.logins, got |-> None]}
  BY <1>5
<1> HIDE DEF stale
<1>8. /\ ui' \in Bar!BarType /\ ui'.stale = stale
      /\ ui'.user = w /\ ui'.layer = "none" /\ ui'.scroll = ui.scroll /\ ui'.fixed = ui.fixed
      /\ ui'.visible = ui.visible /\ ui'.logins = b.logins /\ ui'.fetches = r.fetches
  BY <1>5, <1>6 DEF Bar!BarType
<1>9. second' \in [Users -> Nat]
  BY <1>1, <1>4
<1> DEFINE new == [of |-> w, login |-> b.logins, got |-> None]
<1>11. new.of = w /\ new.login = b.logins /\ new.got = None /\ (~stale => r.fetches = {new})
  BY <1>7
<1> HIDE DEF new
<1>10. (~ui'.stale) =>
          /\ \A f, g \in ui'.fetches : f = g
          /\ \A f \in ui'.fetches :
                 f.of = ui'.user /\ f.login = ui'.logins /\ f.got \in {None, second'[ui'.user]}
          /\ ui'.fetches # {}
  BY <1>8, <1>11
<1> QED
  BY <1>1, <1>8, <1>9, <1>10, BarFrom

LEMMA BarTrades ==
    ASSUME Bar!ConstantsOK, Bar!BarInv, Bar!Trade
    PROVE  Bar!BarInv'
<1> DEFINE w == ui.user
           r == Bar!Fetch(ui, w)
<1>1. /\ ui \in Bar!BarType /\ second \in [Users -> Nat] /\ w \in Users
      /\ (ui.scroll = 0 => ~ui.fixed) /\ (~ui.visible => ui.fixed)
      /\ (ui.layer = "chip" => ui.visible)
      /\ ui.layer \notin {"login", "register", "forgot"} /\ w # None
  BY BarFacts DEF Bar!Trade, Bar!IsLoggedIn, Bar!BarType
<1>2. second' = [second EXCEPT ![w] = second[w] + 1] /\ ui' = r
  BY <1>1 DEF Bar!Trade
<1>3. second' \in [Users -> Nat]
  BY <1>1, <1>2
<1>4. /\ r \in Bar!BarType
      /\ r.user = ui.user /\ r.logins = ui.logins /\ r.layer = ui.layer /\ r.scroll = ui.scroll
      /\ r.fixed = ui.fixed /\ r.visible = ui.visible
      /\ \/ r.stale
         \/ /\ r.fetches = ui.fetches \union {[of |-> w, login |-> ui.logins, got |-> None]}
            /\ ~ui.stale \/ ui.fetches = {}
            /\ \A f \in ui.fetches : ~(f.of = w /\ f.login = ui.logins)
  BY <1>1, BarFetches
<1>5. r.stale \/ r.fetches = {[of |-> w, login |-> ui.logins, got |-> None]}
  BY <1>1, <1>4, BarFacts
<1> HIDE DEF r
<1> DEFINE new == [of |-> w, login |-> ui.logins, got |-> None]
<1>7. new.of = w /\ new.login = ui.logins /\ new.got = None /\ (r.stale \/ r.fetches = {new})
  BY <1>5
<1> HIDE DEF new
<1>8. ui'.fetches = r.fetches /\ ui'.stale = r.stale /\ ui'.user = w /\ ui'.logins = ui.logins
  BY <1>2, <1>4
<1>6. (~ui'.stale) =>
          /\ \A f, g \in ui'.fetches : f = g
          /\ \A f \in ui'.fetches :
                 f.of = ui'.user /\ f.login = ui'.logins /\ f.got \in {None, second'[ui'.user]}
          /\ ui'.fetches # {}
  BY <1>7, <1>8
<1> QED
  BY <1>1, <1>2, <1>3, <1>4, <1>6, BarFrom

(* A fetch is read by the server, answered or lost. *)
LEMMA BarCredits ==
    ASSUME Bar!ConstantsOK, Bar!BarInv, Bar!CreditRead \/ Bar!CreditAnswered \/ Bar!CreditFailed
    PROVE  Bar!BarInv'
<1>1. /\ ui \in Bar!BarType /\ second \in [Users -> Nat] /\ None \notin Nat /\ None \notin Users
      /\ (ui.scroll = 0 => ~ui.fixed) /\ (~ui.visible => ui.fixed)
      /\ (ui.layer = "chip" => ui.user # None /\ ui.visible)
      /\ (ui.layer \in {"login", "register", "forgot"} => ui.user = None)
  BY BarFacts
<1>2. (~ui.stale) =>
          /\ \A f, g \in ui.fetches : f = g
          /\ ui.user # None => \A f \in ui.fetches :
                 f.of = ui.user /\ f.login = ui.logins /\ f.got \in {None, second[ui.user]}
  BY BarFacts
<1>3. ASSUME NEW fetches \in SUBSET Bar!Fetches, NEW credit \in Bar!Credits \union {None},
             NEW stale \in BOOLEAN, UNCHANGED second,
             ui' = [ui EXCEPT !.fetches = fetches, !.credit = credit, !.stale = stale],
             ~stale =>
                 /\ \A f, g \in fetches : f = g
                 /\ ui.user # None => \A f \in fetches :
                        f.of = ui.user /\ f.login = ui.logins /\ f.got \in {None, second[ui.user]},
             (ui.user # None /\ fetches = {} /\ ~stale) =>
                 credit = [of |-> ui.user, got |-> second[ui.user]]
      PROVE  Bar!BarInv'
  <2>1. ui' \in Bar!BarType
    BY <1>1, <1>3 DEF Bar!BarType
  <2>2. /\ ui'.user = ui.user /\ ui'.layer = ui.layer /\ ui'.scroll = ui.scroll
        /\ ui'.fixed = ui.fixed /\ ui'.visible = ui.visible /\ ui'.logins = ui.logins
        /\ ui'.fetches = fetches /\ ui'.credit = credit /\ ui'.stale = stale
    BY <1>1, <1>3 DEF Bar!BarType
  <2>3. second' = second
    BY <1>3
  <2> QED
    BY <1>1, <1>3, <2>1, <2>2, <2>3, BarFrom
<1>4. CASE Bar!CreditRead
  <2>1. PICK f \in ui.fetches :
            /\ f.got = None /\ UNCHANGED second
            /\ ui' = [ui EXCEPT !.fetches = (@ \ {f}) \union {[f EXCEPT !.got = second[f.of]]}]
    BY <1>4 DEF Bar!CreditRead, Bar!Bar
  <2> DEFINE read == [f EXCEPT !.got = second[f.of]]
             fetches == (ui.fetches \ {f}) \union {read}
  <2>2. f \in Bar!Fetches /\ second[f.of] \in Nat
    BY <1>1, <2>1 DEF Bar!BarType, Bar!Fetches
  <2>3. /\ read \in Bar!Fetches /\ read.of = f.of /\ read.login = f.login
        /\ read.got = second[f.of]
    BY <2>2 DEF Bar!Fetches
  <2> HIDE DEF read
  <2>4. fetches \in SUBSET Bar!Fetches /\ fetches # {}
    BY <1>1, <2>3 DEF Bar!BarType
  <2>5. ~ui.stale => fetches = {read}
    BY <1>2, <2>1
  <2>6. ui' = [ui EXCEPT !.fetches = fetches, !.credit = ui.credit, !.stale = ui.stale]
    BY <1>1, <2>1 DEF Bar!BarType, read
  <2>7. ui.credit \in Bar!Credits \union {None} /\ ui.stale \in BOOLEAN
    BY <1>1 DEF Bar!BarType
  <2>8. (~ui.stale /\ ui.user # None) =>
             read.of = ui.user /\ read.login = ui.logins /\ read.got \in {None, second[ui.user]}
    BY <1>2, <2>1, <2>3
  <2> HIDE DEF fetches
  <2>9. UNCHANGED second
    BY <2>1
  <2>10. ~ui.stale =>
            /\ \A g, h \in fetches : g = h
            /\ ui.user # None => \A g \in fetches :
                   g.of = ui.user /\ g.login = ui.logins /\ g.got \in {None, second[ui.user]}
    BY <2>5, <2>8
  <2>11. (ui.user # None /\ fetches = {} /\ ~ui.stale) => ui.credit = [of |-> ui.user, got |-> second[ui.user]]
    BY <2>4
  <2> QED
    BY <1>3, <2>4, <2>6, <2>7, <2>9, <2>10, <2>11
<1>5. CASE Bar!CreditAnswered
  <2>1. PICK f \in ui.fetches :
            /\ f.got # None /\ UNCHANGED second
            /\ ui' = [ui EXCEPT !.fetches = @ \ {f}, !.credit = [of |-> f.of, got |-> f.got]]
    BY <1>5 DEF Bar!CreditAnswered, Bar!Bar
  <2> DEFINE fetches == ui.fetches \ {f}
             credit == [of |-> f.of, got |-> f.got]
  <2>2. f \in Bar!Fetches
    BY <1>1, <2>1 DEF Bar!BarType
  <2>3. credit \in Bar!Credits
    BY <2>1, <2>2 DEF Bar!Fetches, Bar!Credits
  <2>4. fetches \in SUBSET Bar!Fetches /\ ui.stale \in BOOLEAN
    BY <1>1 DEF Bar!BarType
  <2>5. (ui.user # None /\ ~ui.stale) => credit = [of |-> ui.user, got |-> second[ui.user]]
    BY <1>2, <2>1
  <2>6. ui' = [ui EXCEPT !.fetches = fetches, !.credit = credit, !.stale = ui.stale]
    BY <1>1, <2>1 DEF Bar!BarType
  <2>7. ~ui.stale =>
            /\ \A g, h \in fetches : g = h
            /\ ui.user # None => \A g \in fetches :
                   g.of = ui.user /\ g.login = ui.logins /\ g.got \in {None, second[ui.user]}
    BY <1>2
  <2> HIDE DEF fetches, credit
  <2>8. UNCHANGED second
    BY <2>1
  <2>9. credit \in Bar!Credits \union {None}
    BY <2>3
  <2>10. (ui.user # None /\ fetches = {} /\ ~ui.stale) => credit = [of |-> ui.user, got |-> second[ui.user]]
    BY <2>5
  <2> QED
    BY <1>3, <2>4, <2>6, <2>7, <2>8, <2>9, <2>10
<1>6. CASE Bar!CreditFailed
  <2>1. PICK f \in ui.fetches :
            ui' = [ui EXCEPT !.fetches = @ \ {f}, !.stale = TRUE] /\ UNCHANGED second
    BY <1>6 DEF Bar!CreditFailed, Bar!Bar
  <2> DEFINE fetches == ui.fetches \ {f}
  <2>2. fetches \in SUBSET Bar!Fetches /\ ui.credit \in Bar!Credits \union {None}
    BY <1>1 DEF Bar!BarType
  <2>3. ui' = [ui EXCEPT !.fetches = fetches, !.credit = ui.credit, !.stale = TRUE]
    BY <1>1, <2>1 DEF Bar!BarType
  <2> HIDE DEF fetches
  <2> QED
    BY <1>3, <2>1, <2>2, <2>3
<1> QED
  BY <1>4, <1>5, <1>6

LEMMA BarNextInv ==
    ASSUME Bar!ConstantsOK, Bar!BarInv, [Bar!Next]_<<ui, second>>
    PROVE  Bar!BarInv'
<1>1. CASE UNCHANGED <<ui, second>>
  BY <1>1 DEF Bar!BarInv, Bar!TypeOK, Bar!CreditIsCurrent, Bar!FetchIsCurrent,
     Bar!SectionsShown, Bar!PlaceholderShown, Bar!ChipShown, Bar!SignInShown, Bar!IsLoggedIn
<1>2. CASE Bar!Next
  BY <1>2, BarLayers, BarScrolls, BarLogins, BarTrades, BarCredits DEF Bar!Next
<1> QED
  BY <1>1, <1>2
-----------------------------------------------------------------------------
(* The price chart.                                                          *)
(* A set of natural numbers that is not empty has a least element. *)
LEMMA LeastNumber ==
    ASSUME NEW T, T \subseteq Nat, T # {}
    PROVE  \E x \in T : \A y \in T : x <= y
<1> DEFINE Smaller == OpToRel(<, Nat)
<1>1. \E x \in T : \A y \in T : ~(<<y, x>> \in Smaller)
  BY WFMin, NatLessThanWellFounded, Zenon
<1>2. \A x, y \in Nat : y < x => <<y, x>> \in Smaller
  BY DEF OpToRel
<1> HIDE DEF Smaller
<1>3. PICK x \in T : \A y \in T : ~(<<y, x>> \in Smaller)
  BY <1>1
<1>4. ASSUME NEW y \in T PROVE x <= y
  <2>1. x \in Nat /\ y \in Nat
    OBVIOUS
  <2>2. ~(y < x)
    BY <1>2, <1>3, <2>1, Zenon
  <2> QED
    BY <2>1, <2>2
<1> QED
  BY <1>4

(* Changes that are not none have a first and a last one. *)
LEMMA EarliestIs ==
    ASSUME NEW S \in SUBSET Chart!Changes, S # {}
    PROVE  Chart!Earliest(S) \in S /\ \A d \in S : Chart!Earliest(S).t <= d.t
<1> DEFINE T == {c.t : c \in S}
<1>1. T \in SUBSET Nat /\ T # {}
  BY DEF Chart!Changes
<1>2. PICK x \in T : \A y \in T : x <= y
  <2> HIDE DEF T
  <2> QED
    BY <1>1, LeastNumber
<1>3. \E c \in S : \A d \in S : c.t <= d.t
  BY <1>2
<1> QED
  BY <1>3 DEF Chart!Earliest

LEMMA LatestIs ==
    ASSUME Chart!ConstantsOK, NEW S \in SUBSET Chart!Changes, S # {}
    PROVE  Chart!Latest(S) \in S /\ \A d \in S : Chart!Latest(S).t >= d.t
<1> DEFINE T == {MaxTicks - c.t : c \in S}
<1>1. T \in SUBSET Nat /\ T # {}
  BY DEF Chart!Changes, Chart!ConstantsOK
<1>2. PICK x \in T : \A y \in T : x <= y
  <2> HIDE DEF T
  <2> QED
    BY <1>1, LeastNumber
<1>3. PICK c \in S : x = MaxTicks - c.t
  BY <1>2
<1>4. \A d \in S : c.t >= d.t
  <2> SUFFICES ASSUME NEW d \in S
               PROVE  c.t >= d.t
    OBVIOUS
  <2>1. MaxTicks - c.t <= MaxTicks - d.t
    BY <1>2, <1>3
  <2>2. c.t \in Nat /\ d.t \in Nat /\ MaxTicks \in Nat
    BY DEF Chart!Changes, Chart!ConstantsOK
  <2> QED
    BY <2>1, <2>2
<1>5. \E e \in S : \A d \in S : e.t >= d.t
  BY <1>4
<1> QED
  BY <1>5 DEF Chart!Latest

(* What the invariant says of the fields. *)
LEMMA ChartFields ==
    ASSUME Chart!ConstantsOK, Chart!ChartInv
    PROVE  /\ ui.kind \in {"binary", "multi"} /\ ui.now \in 2..MaxTicks /\ MaxTicks \in Nat
           /\ ui.range \in {"ALL", "short"} /\ ui.revealed \in BOOLEAN
           /\ ui.hover \in Int \union {None} /\ ui.drag \in Chart!Drags \union {None}
           /\ ui.select \in Chart!Drags \union {None}
           /\ ui.changes \in [Chart!Lines -> SUBSET Chart!Changes]
           /\ \A l \in Chart!Lines : ui.changes[l] \in SUBSET Chart!Changes
           /\ Probabilities \subseteq 0..10 /\ Chart!Real \subseteq Chart!Lines
  BY DEF Chart!ChartInv, Chart!ChartType, Chart!ConstantsOK, Chart!Real, Chart!Lines

(* A probability that is shown is one, whatever the moment. *)
LEMMA CurrentIs ==
    ASSUME Chart!ConstantsOK, Chart!ChartInv, NEW l \in Chart!Lines
    PROVE  Chart!Current(l) \in 0..10
<1> DEFINE S == ui.changes[l]
<1>1. S \in SUBSET Chart!Changes /\ Probabilities \subseteq 0..10
  BY ChartFields
<1>2. CASE S = {}
  BY <1>2 DEF Chart!Current
<1>3. CASE S # {}
  <2> HIDE DEF S
  <2>1. Chart!Latest(S) \in S
    BY <1>1, <1>3, LatestIs
  <2>2. Chart!Latest(S).p \in 0..10
    BY <1>1, <2>1 DEF Chart!Changes
  <2>3. Chart!Current(l) = Chart!Latest(S).p
    BY <1>3 DEF Chart!Current, S
  <2> QED
    BY <2>2, <2>3
<1> QED
  BY <1>2, <1>3

(* The window begins before now. *)
LEMMA WindowIs ==
    ASSUME Chart!ConstantsOK, Chart!ChartInv
    PROVE  /\ Chart!Window \in Int /\ Chart!Window >= 1
           /\ Chart!WinStart \in Int /\ Chart!WinStart < ui.now
<1>1. Chart!Known \in SUBSET Chart!Changes
  BY ChartFields DEF Chart!Known
<1>2. ui.now \in Nat
  BY ChartFields
<1>3. \A c \in Chart!Known : c.t <= ui.now
  BY ChartFields DEF Chart!Known, Chart!ChartInv, Chart!ChangesAreOfThePast
<1>4. Chart!Cardinality({}) = 0
  BY FS_EmptySet DEF Chart!Cardinality, Cardinality
<1>5. CASE ui.range = "ALL" /\ Chart!Cardinality(Chart!Known) > 1
  <2>1. Chart!Known # {}
    BY <1>4, <1>5
  <2>2. Chart!Earliest(Chart!Known) \in Chart!Known
    BY <1>1, <2>1, EarliestIs
  <2> DEFINE first == Chart!Earliest(Chart!Known).t
  <2>3. first \in Nat /\ first <= ui.now
    BY <1>1, <1>3, <2>2 DEF Chart!Changes
  <2>4. Chart!Window = ui.now - first + 1
    BY <1>5 DEF Chart!Window
  <2> HIDE DEF first
  <2> QED
    BY <1>2, <2>3, <2>4 DEF Chart!WinStart
<1>6. CASE ~(ui.range = "ALL" /\ Chart!Cardinality(Chart!Known) > 1)
  BY <1>2, <1>6 DEF Chart!Window, Chart!WinStart
<1> QED
  BY <1>5, <1>6

LEMMA MomentIs ==
    ASSUME Chart!ConstantsOK, Chart!ChartInv, NEW x \in Chart!Positions
    PROVE  Chart!Moment(x) \in Int /\ Chart!Moment(x) >= 2 * Chart!WinStart
<1> DEFINE w == Chart!Window
           s == Chart!WinStart
<1>1. w \in Int /\ w >= 1 /\ s \in Int
  BY WindowIs
<1>2. Chart!Moment(x) = 2 * s + x * w
  BY DEF Chart!Moment
<1> HIDE DEF w, s
<1>3. x = 0 \/ x = 1 \/ x = 2
  BY DEF Chart!Positions
<1>4. Chart!Moment(x) \in Int /\ Chart!Moment(x) >= 2 * s
  BY <1>1, <1>2, <1>3
<1> QED
  BY <1>4 DEF s

(* Later moments are at the right. *)
LEMMA MomentsGrow ==
    ASSUME Chart!ConstantsOK, Chart!ChartInv, NEW x \in Chart!Positions, NEW y \in Chart!Positions, x <= y
    PROVE  Chart!Moment(x) <= Chart!Moment(y)
<1> DEFINE w == Chart!Window
           s == Chart!WinStart
<1>1. w \in Int /\ w >= 1 /\ s \in Int
  BY WindowIs
<1>2. Chart!Moment(x) = 2 * s + x * w /\ Chart!Moment(y) = 2 * s + y * w
  BY DEF Chart!Moment
<1> HIDE DEF w, s
<1>3. x \in {0, 1, 2} /\ y \in {0, 1, 2}
  BY DEF Chart!Positions
<1> QED
  BY <1>1, <1>2, <1>3

(* A latest change of a line has a probability. *)
LEMMA SomeProbability ==
    ASSUME Chart!ConstantsOK, Chart!ChartInv, NEW l \in Chart!Lines,
           NEW S \in SUBSET ui.changes[l], S # {}
    PROVE  Chart!Latest(S).p \in 0..10 /\ Chart!Earliest(S).p \in 0..10
<1>1. S \in SUBSET Chart!Changes /\ Probabilities \subseteq 0..10
  BY ChartFields
<1>2. Chart!Latest(S) \in Chart!Changes /\ Chart!Earliest(S) \in Chart!Changes
  BY <1>1, LatestIs, EarliestIs
<1> QED
  BY <1>1, <1>2 DEF Chart!Changes

LEMMA AnchorIs ==
    ASSUME Chart!ConstantsOK, Chart!ChartInv, NEW l \in Chart!Lines
    PROVE  Chart!Anchor(l) \in 0..10
<1> DEFINE before == {c \in ui.changes[l] : c.t < Chart!WinStart}
           within == Chart!Within(l)
<1>1. before \in SUBSET ui.changes[l] /\ within \in SUBSET ui.changes[l]
  BY DEF Chart!Within
<1>2. Chart!Anchor(l) = IF before # {} THEN Chart!Latest(before).p
                        ELSE IF within # {} THEN Chart!Earliest(within).p ELSE Chart!Current(l)
  BY DEF Chart!Anchor
<1> HIDE DEF before, within
<1>3. CASE before # {}
  BY <1>1, <1>2, <1>3, SomeProbability
<1>4. CASE before = {} /\ within # {}
  BY <1>1, <1>2, <1>4, SomeProbability
<1>5. CASE before = {} /\ within = {}
  BY <1>2, <1>5, CurrentIs
<1> QED
  BY <1>3, <1>4, <1>5

LEMMA ValueOnIs ==
    ASSUME Chart!ConstantsOK, Chart!ChartInv, NEW l \in Chart!Lines, NEW h
    PROVE  Chart!ValueOn(l, h) \in 0..10
<1> DEFINE past == {c \in Chart!Within(l) : 2 * c.t <= h}
<1>1. past \in SUBSET ui.changes[l]
  BY DEF Chart!Within
<1>2. Chart!ValueOn(l, h) = IF h >= 2 * ui.now THEN Chart!Current(l)
                            ELSE IF past # {} THEN Chart!Latest(past).p ELSE Chart!Anchor(l)
  BY DEF Chart!ValueOn
<1> HIDE DEF past
<1>3. Chart!Current(l) \in 0..10 /\ Chart!Anchor(l) \in 0..10
  BY CurrentIs, AnchorIs
<1>4. past # {} => Chart!Latest(past).p \in 0..10
  BY <1>1, SomeProbability
<1> QED
  BY <1>2, <1>3, <1>4

LEMMA ValueAtIs ==
    ASSUME Chart!ConstantsOK, Chart!ChartInv, NEW l \in Chart!Lines, NEW h
    PROVE  Chart!ValueAt(l, h) \in 0..10
<1>1. "first" \in Chart!Lines
  BY DEF Chart!Lines
<1>2. Chart!ValueOn("first", h) \in 0..10
  BY <1>1, ValueOnIs
<1>3. Chart!ValueOn(l, h) \in 0..10
  BY ValueOnIs
<1> QED
  BY <1>2, <1>3 DEF Chart!ValueAt

(* Within the window a line shows the last change at or before the moment. *)
LEMMA ValueTells ==
    ASSUME Chart!ConstantsOK, Chart!ChartInv, NEW l \in Chart!Lines, NEW h \in Int,
           h >= 2 * Chart!WinStart, h < 2 * ui.now, Chart!InForce(l, h) # {}
    PROVE  Chart!ValueOn(l, h) = Chart!Latest(Chart!InForce(l, h)).p
<1> DEFINE all == ui.changes[l]
           force == Chart!InForce(l, h)
           past == {c \in Chart!Within(l) : 2 * c.t <= h}
           before == {c \in all : c.t < Chart!WinStart}
           start == Chart!WinStart
<1>1. all \in SUBSET Chart!Changes /\ ui.now \in Nat
  BY ChartFields
<1>2. start \in Int
  BY WindowIs
<1>3. \A c \in all : c.t \in Nat
  BY <1>1 DEF Chart!Changes
<1>4. force = {c \in all : 2 * c.t <= h}
  BY DEF Chart!InForce
<1>5. past = {c \in all : c.t >= start /\ c.t < ui.now /\ 2 * c.t <= h}
  BY DEF Chart!Within
<1>6. Chart!ValueOn(l, h) = IF past # {} THEN Chart!Latest(past).p ELSE Chart!Anchor(l)
  <2>1. ~(h >= 2 * ui.now)
    BY <1>1
  <2> QED
    BY <2>1 DEF Chart!ValueOn
<1>7. before # {} => Chart!Anchor(l) = Chart!Latest(before).p
  BY DEF Chart!Anchor
<1>8. before = {c \in all : c.t < start}
  OBVIOUS
<1>9. \A c, d \in all : c.t = d.t => c = d
  BY DEF Chart!ChartInv, Chart!ChangesAreOfThePast
<1>10. force # {} /\ h >= 2 * start /\ h < 2 * ui.now
  OBVIOUS
<1> HIDE DEF all, force, past, before, start
<1>11. force \in SUBSET Chart!Changes /\ past \in SUBSET Chart!Changes
  BY <1>1, <1>4, <1>5
<1>12. Chart!Latest(force) \in force /\ \A d \in force : Chart!Latest(force).t >= d.t
  BY <1>10, <1>11, LatestIs
<1>13. CASE past # {}
  <2>1. Chart!Latest(past) \in past /\ \A d \in past : Chart!Latest(past).t >= d.t
    BY <1>11, <1>13, LatestIs
  <2> DEFINE f == Chart!Latest(force)
             g == Chart!Latest(past)
  <2>2. f \in all /\ g \in all /\ g \in force /\ f.t \in Nat /\ g.t \in Nat
    BY <1>3, <1>4, <1>5, <1>12, <2>1
  <2>3. f.t >= g.t
    BY <1>12, <2>2
  <2>4. f \in past
    <3>1. g.t >= start
      BY <1>5, <2>1
    <3>2. 2 * f.t <= h
      BY <1>4, <1>12
    <3> HIDE DEF f, g
    <3>3. f.t >= start /\ f.t < ui.now
      BY <1>1, <1>2, <1>10, <2>2, <2>3, <3>1, <3>2
    <3> QED
      BY <1>5, <2>2, <3>2, <3>3
  <2>5. g.t >= f.t
    BY <2>1, <2>4
  <2>6. f = g
    BY <1>9, <2>2, <2>3, <2>5
  <2>7. Chart!ValueOn(l, h) = Chart!Latest(past).p
    BY <1>6, <1>13
  <2> QED
    BY <2>6, <2>7 DEF force
<1>14. CASE past = {}
  <2>1. \A c \in all : c \in force <=> c \in before
    <3> SUFFICES ASSUME NEW c \in all
                 PROVE  c \in force <=> c \in before
      OBVIOUS
    <3>1. c.t \in Nat /\ (c \in force <=> 2 * c.t <= h) /\ (c \in before <=> c.t < start)
      BY <1>3, <1>4, <1>8
    <3>2. ~(c.t >= start /\ c.t < ui.now /\ 2 * c.t <= h)
      BY <1>5, <1>14
    <3> QED
      BY <1>1, <1>2, <1>10, <3>1, <3>2
  <2>2. force = before
    BY <1>4, <1>8, <2>1
  <2>3. Chart!ValueOn(l, h) = Chart!Latest(before).p
    BY <1>6, <1>7, <1>10, <1>14, <2>2
  <2> QED
    BY <2>2, <2>3 DEF force
<1> QED
  BY <1>13, <1>14

LEMMA ChartInitInv == Chart!ConstantsOK /\ Chart!Init => Chart!ChartInv
<1> SUFFICES ASSUME Chart!ConstantsOK, Chart!Init
             PROVE  Chart!ChartInv
  OBVIOUS
<1>1. PICK kind \in {"binary", "multi"}, p \in Probabilities, q \in Probabilities \union {None} :
          ui = [kind |-> kind, now |-> 2, range |-> "ALL", hover |-> None, drag |-> None,
                select |-> None, revealed |-> FALSE,
                changes |-> [first  |-> {[t |-> 1, p |-> p]},
                             second |-> IF q = None THEN {} ELSE {[t |-> 0, p |-> q]}]]
  BY DEF Chart!Init
<1> DEFINE one == {[t |-> 1, p |-> p]}
           two == IF q = None THEN {} ELSE {[t |-> 0, p |-> q]}
           both == [first |-> one, second |-> two]
<1>2. one \in SUBSET Chart!Changes /\ two \in SUBSET Chart!Changes
  BY DEF Chart!Changes, Chart!ConstantsOK
<1>3. /\ \A c, d \in one : c.t <= 2 /\ c = d
      /\ \A c, d \in two : c.t <= 2 /\ c = d
  OBVIOUS
<1>4. ui = [kind |-> kind, now |-> 2, range |-> "ALL", hover |-> None, drag |-> None,
            select |-> None, revealed |-> FALSE, changes |-> both]
  BY <1>1
<1> HIDE DEF one, two
<1>5. both \in [Chart!Lines -> SUBSET Chart!Changes]
  BY <1>2 DEF Chart!Lines
<1>6. both["first"] = one /\ both["second"] = two
  OBVIOUS
<1> HIDE DEF both
<1>7. ui \in Chart!ChartType
  BY <1>4, <1>5 DEF Chart!ChartType, Chart!ConstantsOK
<1>8. Chart!ChangesAreOfThePast
  BY <1>3, <1>4, <1>6 DEF Chart!ChangesAreOfThePast, Chart!Lines
<1> QED
  BY <1>4, <1>7, <1>8 DEF Chart!ChartInv, Chart!OneHighlight

(* The sets of the fields, named for the provers. *)
ChartNows  == 2..MaxTicks
ChartHover == Int \union {None}
ChartDrags == Chart!Drags \union {None}
ChartLines == [Chart!Lines -> SUBSET Chart!Changes]
ChartKinds == {"binary", "multi"}
ChartRanges == {"ALL", "short"}
ChartRec ==
    [kind : ChartKinds, now : ChartNows, range : ChartRanges, hover : ChartHover,
     drag : ChartDrags, select : ChartDrags, revealed : BOOLEAN, changes : ChartLines]

LEMMA ChartRecIs == ChartRec = Chart!ChartType
  BY DEF ChartRec, Chart!ChartType, ChartNows, ChartHover, ChartDrags, ChartLines, ChartKinds, ChartRanges

(* One thing is pointed at, dragged or selected. *)
PointsApart(c) ==
    /\ c.drag # None => c.select = None /\ c.hover = None
    /\ c.select # None => c.hover = None

(* Pointing, dragging, the timer and the animation leave the changes alone. *)
LEMMA ChartMoves ==
    ASSUME Chart!ConstantsOK, Chart!ChartInv,
           \/ Chart!Tick \/ Chart!Reveal \/ Chart!OnLeave \/ Chart!OnUp \/ Chart!ClearRange
           \/ \E r \in {"ALL", "short"} : Chart!SetRange(r)
           \/ \E x \in Chart!Positions : Chart!OnMove(x) \/ Chart!OnDown(x) \/ Chart!Scrub(x)
    PROVE  Chart!ChartInv'
<1>1. ui \in ChartRec /\ PointsApart(ui) /\ MaxTicks \in Nat
  BY ChartRecIs DEF Chart!ChartInv, Chart!ConstantsOK, Chart!OneHighlight, PointsApart
<1>2. ui.now \in 2..MaxTicks /\ None \in ChartDrags /\ None \in ChartHover
  BY <1>1 DEF ChartRec, ChartNows, ChartDrags, ChartHover
<1> DEFINE Kept == /\ ui' \in ChartRec /\ ui'.changes = ui.changes /\ ui'.now \in {ui.now, ui.now + 1}
                   /\ PointsApart(ui')
<1>3. Kept
  <2>1. CASE Chart!Tick
    <3> DEFINE new == ui.now + 1
    <3>1. new \in ChartNows
      BY <1>1, <1>2, <2>1 DEF Chart!Tick, ChartNows
    <3>2. ui' = [ui EXCEPT !.now = new]
      BY <2>1 DEF Chart!Tick, Chart!Chart
    <3>3. new \in {ui.now, ui.now + 1}
      OBVIOUS
    <3> HIDE DEF new
    <3> QED
      BY <1>1, <3>1, <3>2, <3>3 DEF ChartRec, PointsApart
  <2>2. CASE Chart!Reveal
    BY <1>1, <1>2, <2>2 DEF Chart!Reveal, Chart!Chart, ChartRec, PointsApart
  <2>3. CASE Chart!OnLeave
    BY <1>1, <1>2, <2>3 DEF Chart!OnLeave, Chart!Chart, ChartRec, PointsApart
  <2>4. CASE Chart!ClearRange
    BY <1>1, <1>2, <2>4 DEF Chart!ClearRange, Chart!CloseButton, Chart!Chart, ChartRec, PointsApart
  <2>5. CASE Chart!OnUp
    <3> DEFINE d == ui.drag
               chosen == IF d.from = d.to THEN None
                         ELSE [from |-> Chart!Least(d.from, d.to), to |-> Chart!Most(d.from, d.to)]
    <3>1. d \in Chart!Drags /\ ui.hover = None
      BY <1>1, <2>5 DEF Chart!OnUp, ChartRec, ChartDrags, PointsApart
    <3>2. chosen \in ChartDrags
      BY <3>1 DEF ChartDrags, Chart!Drags, Chart!Positions, Chart!Least, Chart!Most
    <3>3. ui' = [ui EXCEPT !.drag = None, !.select = chosen]
      BY <2>5 DEF Chart!OnUp, Chart!Chart
    <3> HIDE DEF chosen
    <3> QED
      BY <1>1, <1>2, <3>1, <3>2, <3>3 DEF ChartRec, PointsApart
  <2>6. ASSUME NEW r \in {"ALL", "short"}, Chart!SetRange(r)
        PROVE  Kept
    <3>1. r \in ChartRanges
      BY DEF ChartRanges
    <3> QED
      BY <1>1, <1>2, <2>6, <3>1 DEF Chart!SetRange, Chart!Chart, ChartRec, PointsApart
  <2>7. ASSUME NEW x \in Chart!Positions, Chart!OnMove(x)
        PROVE  Kept
    <3> DEFINE moment == Chart!Moment(x)
    <3>1. moment \in ChartHover
      BY MomentIs DEF ChartHover
    <3>2. CASE ui.drag # None
      <4> DEFINE drag == [ui.drag EXCEPT !.to = x]
      <4>1. drag \in ChartDrags
        BY <1>1, <3>2 DEF ChartRec, ChartDrags, Chart!Drags
      <4>2. ui' = [ui EXCEPT !.drag = drag, !.hover = None]
        BY <2>7, <3>2 DEF Chart!OnMove, Chart!Chart
      <4>3. ui.select = None
        BY <1>1, <3>2 DEF PointsApart
      <4> HIDE DEF drag
      <4> QED
        BY <1>1, <1>2, <4>1, <4>2, <4>3 DEF ChartRec, PointsApart
    <3>3. CASE ui.drag = None
      <4>1. ui.select = None /\ ui' = [ui EXCEPT !.hover = moment]
        BY <2>7, <3>3 DEF Chart!OnMove, Chart!Chart
      <4> HIDE DEF moment
      <4> QED
        BY <1>1, <1>2, <3>1, <3>3, <4>1 DEF ChartRec, PointsApart
    <3> QED
      BY <3>2, <3>3
  <2>8. ASSUME NEW x \in Chart!Positions, Chart!OnDown(x)
        PROVE  Kept
    <3> DEFINE drag == [from |-> x, to |-> x]
    <3>1. drag \in ChartDrags
      BY DEF Chart!Drags, ChartDrags
    <3>2. ui' = [ui EXCEPT !.drag = drag, !.select = None, !.hover = None]
      BY <2>8 DEF Chart!OnDown, Chart!Chart
    <3> HIDE DEF drag
    <3> QED
      BY <1>1, <1>2, <3>1, <3>2 DEF ChartRec, PointsApart
  <2>9. ASSUME NEW x \in Chart!Positions, Chart!Scrub(x)
        PROVE  Kept
    <3> DEFINE moment == Chart!Moment(x)
    <3>1. moment \in ChartHover
      BY MomentIs DEF ChartHover
    <3>2. ui.select = None /\ ui.drag = None /\ ui' = [ui EXCEPT !.hover = moment]
      BY <2>9 DEF Chart!Scrub, Chart!Chart
    <3> HIDE DEF moment
    <3> QED
      BY <1>1, <1>2, <3>1, <3>2 DEF ChartRec, PointsApart
  <2> QED
    BY <2>1, <2>2, <2>3, <2>4, <2>5, <2>6, <2>7, <2>8, <2>9
<1>4. \A l \in Chart!Lines : \A c \in ui.changes[l] : c.t \in Nat
  BY ChartFields DEF Chart!Changes
<1>5. \A l \in Chart!Lines : \A c, d \in ui.changes[l] : c.t <= ui.now /\ (c.t = d.t => c = d)
  BY DEF Chart!ChartInv, Chart!ChangesAreOfThePast
<1>6. ui'.changes = ui.changes /\ ui'.now \in {ui.now, ui.now + 1} /\ ui'.now >= ui.now
      /\ ui.now \in Nat /\ ui'.now \in Nat
  BY <1>2, <1>3
<1>7. Chart!ChangesAreOfThePast'
  <2>1. \A l \in Chart!Lines : \A c, d \in ui.changes[l] : c.t <= ui'.now /\ (c.t = d.t => c = d)
    BY <1>4, <1>5, <1>6
  <2> QED
    BY <1>6, <2>1 DEF Chart!ChangesAreOfThePast
<1>8. Chart!OneHighlight' /\ ui' \in Chart!ChartType
  BY <1>3, ChartRecIs DEF PointsApart, Chart!OneHighlight
<1> QED
  BY <1>7, <1>8 DEF Chart!ChartInv

(* A poll brings a change of now, which is later than those there are. *)
LEMMA ChartPolls ==
    ASSUME Chart!ConstantsOK, Chart!ChartInv, NEW l \in Chart!Lines, NEW p \in Probabilities,
           Chart!Poll(l, p)
    PROVE  Chart!ChartInv'
<1> DEFINE new == [t |-> ui.now, p |-> p]
           more == ui.changes[l] \union {new}
           changes == [ui.changes EXCEPT ![l] = more]
<1>1. /\ ui \in Chart!ChartType /\ Chart!ChangesAreOfThePast /\ Chart!OneHighlight
      /\ ui.now \in 2..MaxTicks /\ MaxTicks \in Nat
      /\ ui.changes \in [Chart!Lines -> SUBSET Chart!Changes]
  BY ChartFields DEF Chart!ChartInv
<1>2. ui' = [ui EXCEPT !.changes = changes] /\ \A c \in ui.changes[l] : c.t < ui.now
  BY DEF Chart!Poll, Chart!Chart
<1>3. new \in Chart!Changes /\ new.t = ui.now
  BY <1>1 DEF Chart!Changes
<1>4. \A c, d \in more : c.t <= ui.now /\ (c.t = d.t => c = d)
  <2>1. \A c \in ui.changes[l] : c.t \in Nat
    BY <1>1 DEF Chart!Changes
  <2>2. \A c, d \in ui.changes[l] : c.t <= ui.now /\ (c.t = d.t => c = d)
    BY <1>1 DEF Chart!ChangesAreOfThePast
  <2> HIDE DEF new
  <2> QED
    BY <1>1, <1>2, <1>3, <2>1, <2>2
<1>5. more \in SUBSET Chart!Changes
  BY <1>1, <1>3
<1> HIDE DEF new, more
<1>6. changes \in [Chart!Lines -> SUBSET Chart!Changes]
  BY <1>1, <1>5
<1>7. \A k \in Chart!Lines : changes[k] = IF k = l THEN more ELSE ui.changes[k]
  BY <1>1
<1> HIDE DEF changes
<1>8. ui' \in Chart!ChartType /\ ui'.changes = changes /\ ui'.now = ui.now /\ Chart!OneHighlight'
  BY <1>1, <1>2, <1>6 DEF Chart!ChartType, Chart!OneHighlight
<1>9. Chart!ChangesAreOfThePast'
  BY <1>1, <1>4, <1>7, <1>8 DEF Chart!ChangesAreOfThePast
<1> QED
  BY <1>8, <1>9 DEF Chart!ChartInv

LEMMA ChartNextInv ==
    ASSUME Chart!ConstantsOK, Chart!ChartInv, [Chart!Next]_ui
    PROVE  Chart!ChartInv'
<1>1. CASE UNCHANGED ui
  BY <1>1 DEF Chart!ChartInv, Chart!ChangesAreOfThePast, Chart!OneHighlight
<1>2. CASE \E l \in Chart!Lines, p \in Probabilities : Chart!Poll(l, p)
  BY <1>2, ChartPolls
<1>3. CASE Chart!Next /\ ~\E l \in Chart!Lines, p \in Probabilities : Chart!Poll(l, p)
  BY <1>3, ChartMoves DEF Chart!Next
<1> QED
  BY <1>1, <1>2, <1>3

(* The stretch of time that is shown is one of the chart. *)
LEMMA RangeIs ==
    ASSUME Chart!ConstantsOK, Chart!ChartInv, Chart!Highlight
    PROVE  /\ ui.hover = None /\ Chart!ActiveRange.from \in Chart!Positions
           /\ Chart!RangeInfo.t1 \in Int /\ Chart!RangeInfo.t2 \in Int
           /\ Chart!RangeInfo.t1 >= 2 * Chart!WinStart /\ Chart!RangeInfo.t1 <= Chart!RangeInfo.t2
           /\ \A l \in Chart!Lines : Chart!RangeInfo.end[l] = Chart!ValueAt(l, Chart!RangeInfo.t2)
<1> DEFINE r == Chart!ActiveRange
           low == Chart!Least(r.from, r.to)
           high == Chart!Most(r.from, r.to)
<1>1. r \in Chart!Drags
  BY ChartFields DEF Chart!Highlight, Chart!ActiveRange
<1>2. r.from \in Chart!Positions /\ r.to \in Chart!Positions
  BY <1>1 DEF Chart!Drags
<1>3. ui.hover = None
  BY DEF Chart!Highlight, Chart!ActiveRange, Chart!ChartInv, Chart!OneHighlight
<1> HIDE DEF r
<1>4. low \in Chart!Positions /\ high \in Chart!Positions /\ low <= high
  BY <1>2 DEF Chart!Least, Chart!Most, Chart!Positions
<1>5. /\ Chart!RangeInfo.t1 = Chart!Moment(low) /\ Chart!RangeInfo.t2 = Chart!Moment(high)
      /\ \A l \in Chart!Lines : Chart!RangeInfo.end[l] = Chart!ValueAt(l, Chart!Moment(high))
  BY DEF Chart!RangeInfo, r
<1> HIDE DEF low, high
<1>6. /\ Chart!Moment(low) \in Int /\ Chart!Moment(low) >= 2 * Chart!WinStart
      /\ Chart!Moment(high) \in Int
  BY <1>4, MomentIs
<1>7. Chart!Moment(low) <= Chart!Moment(high)
  BY <1>4, MomentsGrow
<1> QED
  BY <1>2, <1>3, <1>5, <1>6, <1>7 DEF r

LEMMA LabelIs ==
    ASSUME Chart!ConstantsOK, Chart!ChartInv
    PROVE  \E h : \A l \in Chart!Lines : Chart!LabelProbability(l) = Chart!ValueAt(l, h)
<1>1. CASE ui.hover # None
  BY <1>1 DEF Chart!LabelProbability
<1>2. CASE ui.hover = None /\ Chart!ActiveRange # None
  <2>1. \A l \in Chart!Lines : Chart!RangeInfo.end[l] = Chart!ValueAt(l, Chart!RangeInfo.t2)
    BY <1>2, RangeIs DEF Chart!Highlight
  <2>2. \A l \in Chart!Lines : Chart!LabelProbability(l) = Chart!RangeInfo.end[l]
    BY <1>2 DEF Chart!LabelProbability
  <2> QED
    BY <2>1, <2>2
<1>3. CASE ui.hover = None /\ Chart!ActiveRange = None
  BY <1>3 DEF Chart!LabelProbability
<1> QED
  BY <1>1, <1>2, <1>3

(* The heights of the two lines, which of a YES and NO market are one above the other. *)
LEMMA HeightsAre ==
    ASSUME Chart!ConstantsOK, Chart!ChartInv
    PROVE  /\ Chart!Y["first"] \in 0..10 /\ Chart!Y["second"] \in 0..10
           /\ ui.kind = "binary" => Chart!Y["first"] + Chart!Y["second"] = 10
<1>1. PICK h : \A l \in Chart!Lines : Chart!LabelProbability(l) = Chart!ValueAt(l, h)
  BY LabelIs
<1>2. "first" \in Chart!Lines /\ "second" \in Chart!Lines
  BY DEF Chart!Lines
<1> DEFINE one == Chart!ValueAt("first", h)
           two == Chart!ValueAt("second", h)
<1>3. one \in 0..10 /\ two \in 0..10
  BY <1>2, ValueAtIs
<1>4. ui.kind = "binary" => two = 10 - one
  BY DEF Chart!ValueAt
<1>5. Chart!Y["first"] = 10 - one /\ Chart!Y["second"] = 10 - two
  BY <1>1, <1>2 DEF Chart!Y, Chart!Height
<1> HIDE DEF one, two
<1> QED
  BY <1>3, <1>4, <1>5

(* Where the labels are, and when they overlap. *)
LEMMA TopsAre ==
    ASSUME Chart!ConstantsOK, Chart!ChartInv
    PROVE  /\ Chart!Tops["first"] \in 0..8 /\ Chart!Tops["second"] \in 0..8
           /\ Chart!LabelsOverlapOnlyAtEdges
<1> DEFINE y == Chart!Y
           a == y["first"]
           b == y["second"]
           tops == Chart!Tops
           atBottom == \A l \in Chart!Lines : y[l] > 10 - 2 * 2
           atTop    == y[Chart!Upper(y)] = 0 /\ \A l \in Chart!Lines : y[l] <= 2
           s == tops["first"]
           t == tops["second"]
           edge == Chart!LabelsOverlapOnlyAtEdges
           Fine == s \in 0..8 /\ t \in 0..8 /\ edge
<1>1. a \in 0..10 /\ b \in 0..10 /\ (ui.kind = "binary" => a + b = 10)
  BY HeightsAre
<1>2. edge <=> (Chart!Overlaps(tops) => ui.kind = "multi" /\ (atBottom \/ atTop))
  BY DEF Chart!LabelsOverlapOnlyAtEdges, Chart!Height, Chart!LabelHeight
<1>3. tops = IF ui.kind = "binary" THEN Chart!BinaryTops(y) ELSE Chart!MultiTops(y)
  BY DEF Chart!Tops
<1>4. Chart!Lines = {"first", "second"} /\ ui.kind \in {"binary", "multi"}
  BY ChartFields DEF Chart!Lines
<1>5. Chart!Overlaps(tops) <=> s - t \in (-1)..1
  BY DEF Chart!Overlaps, Chart!LabelHeight
<1>6. Chart!Upper(y) = IF a <= b THEN "first" ELSE "second"
  BY DEF Chart!Upper
<1>7. ASSUME NEW n \in Int
      PROVE  Chart!Clamp(n) = IF n - 1 > 8 THEN 8 ELSE IF n - 1 < 0 THEN 0 ELSE n - 1
  BY <1>7 DEF Chart!Clamp, Chart!Most, Chart!Least, Chart!Height, Chart!LabelHeight
<1>8. ASSUME ui.kind = "binary" PROVE Fine
  <2>1. CASE a - b \in (-1)..1
    <3>1. (a + b) \div 2 - 1 = 4 /\ (a + b) \div 2 + 1 = 6
      BY <1>1, <1>8
    <3>2. \A l \in Chart!Lines : tops[l] = Chart!Clamp(IF l = Chart!Upper(y) THEN 4 ELSE 6)
      BY <1>3, <1>8, <2>1, <3>1 DEF Chart!BinaryTops, Chart!LabelHeight
    <3>3. Chart!Clamp(4) = 3 /\ Chart!Clamp(6) = 5
      BY <1>7
    <3>4. s - t \notin (-1)..1 /\ s \in 0..8 /\ t \in 0..8
      BY <1>4, <1>6, <3>2, <3>3
    <3> HIDE DEF s, t, edge, a, b
    <3> QED
      BY <1>2, <1>5, <3>4
  <2>2. CASE a - b \notin (-1)..1
    <3>1. \A l \in Chart!Lines : tops[l] = Chart!Clamp(y[l])
      BY <1>3, <1>8, <2>2 DEF Chart!BinaryTops, Chart!LabelHeight
    <3>2. s = Chart!Clamp(a) /\ t = Chart!Clamp(b)
      BY <1>4, <3>1
    <3>3. /\ s = IF a - 1 > 8 THEN 8 ELSE IF a - 1 < 0 THEN 0 ELSE a - 1
          /\ t = IF b - 1 > 8 THEN 8 ELSE IF b - 1 < 0 THEN 0 ELSE b - 1
      BY <1>1, <1>7, <3>2
    <3> HIDE DEF s, t, edge, a, b
    <3> QED
      BY <1>1, <1>2, <1>5, <1>8, <2>2, <3>3
  <2> QED
    BY <2>1, <2>2
<1>9. ASSUME ui.kind = "multi" PROVE Fine
  <2>1. \A l \in Chart!Lines :
            tops[l] = Chart!Clamp(IF l = Chart!Upper(y) THEN y[l] ELSE Chart!Most(y[l], y[Chart!Upper(y)] + 2))
    BY <1>3, <1>9 DEF Chart!MultiTops, Chart!LabelHeight
  <2>2. CASE a <= b
    <3> DEFINE low == IF b < a + 2 THEN a + 2 ELSE b
    <3>1. s = Chart!Clamp(a) /\ t = Chart!Clamp(low)
      BY <1>4, <1>6, <2>1, <2>2 DEF Chart!Most
    <3>2. /\ s = IF a - 1 > 8 THEN 8 ELSE IF a - 1 < 0 THEN 0 ELSE a - 1
          /\ t = IF low - 1 > 8 THEN 8 ELSE IF low - 1 < 0 THEN 0 ELSE low - 1
      BY <1>1, <1>7, <3>1
    <3>3. (atBottom <=> a > 6 /\ b > 6) /\ (atTop <=> a = 0 /\ a <= 2 /\ b <= 2)
      BY <1>4, <1>6, <2>2
    <3> HIDE DEF s, t, edge, a, b, atBottom, atTop
    <3> QED
      BY <1>1, <1>2, <1>5, <1>9, <2>2, <3>2, <3>3
  <2>3. CASE ~(a <= b)
    <3> DEFINE low == IF a < b + 2 THEN b + 2 ELSE a
    <3>1. t = Chart!Clamp(b) /\ s = Chart!Clamp(low)
      BY <1>4, <1>6, <2>1, <2>3 DEF Chart!Most
    <3>2. /\ t = IF b - 1 > 8 THEN 8 ELSE IF b - 1 < 0 THEN 0 ELSE b - 1
          /\ s = IF low - 1 > 8 THEN 8 ELSE IF low - 1 < 0 THEN 0 ELSE low - 1
      BY <1>1, <1>7, <3>1
    <3>3. (atBottom <=> a > 6 /\ b > 6) /\ (atTop <=> b = 0 /\ a <= 2 /\ b <= 2)
      BY <1>4, <1>6, <2>3
    <3> HIDE DEF s, t, edge, a, b, atBottom, atTop
    <3> QED
      BY <1>1, <1>2, <1>5, <1>9, <2>3, <3>2, <3>3
  <2> QED
    BY <2>2, <2>3
<1> QED
  BY <1>4, <1>8, <1>9

(* A line that is drawn from what is known shows it. *)
LEMMA RealValueIs ==
    ASSUME NEW l \in Chart!Real, NEW h
    PROVE  Chart!ValueAt(l, h) = Chart!ValueOn(l, h)
  BY DEF Chart!ValueAt, Chart!Real

LEMMA ChartInvShows ==
    Chart!ConstantsOK /\ Chart!ChartInv =>
        Chart!TypeOK /\ Chart!ChartTellsThePast /\ Chart!LabelsOverlapOnlyAtEdges
<1> SUFFICES ASSUME Chart!ConstantsOK, Chart!ChartInv
             PROVE  Chart!TypeOK /\ Chart!ChartTellsThePast /\ Chart!LabelsOverlapOnlyAtEdges
  OBVIOUS
<1>1. /\ Chart!Tops["first"] \in 0..8 /\ Chart!Tops["second"] \in 0..8
      /\ Chart!LabelsOverlapOnlyAtEdges
  BY TopsAre
<1>2. Chart!Lines = {"first", "second"} /\ Chart!Real \subseteq Chart!Lines
  BY ChartFields DEF Chart!Lines
<1>3. Chart!TypeOK
  <2>1. Chart!EndDots => \A l \in Chart!Real : Chart!LabelProbability(l) = Chart!Current(l)
    <3> SUFFICES ASSUME Chart!EndDots, NEW l \in Chart!Real
                 PROVE  Chart!LabelProbability(l) = Chart!Current(l)
      OBVIOUS
    <3>1. Chart!LabelProbability(l) = Chart!ValueAt(l, 2 * ui.now)
      BY DEF Chart!EndDots, Chart!Grey, Chart!Crosshair, Chart!Highlight, Chart!LabelProbability
    <3>2. Chart!ValueAt(l, 2 * ui.now) = Chart!ValueOn(l, 2 * ui.now)
      BY RealValueIs
    <3>3. ui.now \in Nat
      BY ChartFields
    <3>4. 2 * ui.now >= 2 * ui.now
      BY <3>3
    <3> QED
      BY <3>1, <3>2, <3>4 DEF Chart!ValueOn
  <2>2. Chart!Highlight => ~Chart!Crosshair /\ Chart!ActiveRange.from \in Chart!Positions
    BY RangeIs DEF Chart!Crosshair
  <2>3. \A l \in Chart!Lines : Chart!Anchor(l) \in 0..10
    BY AnchorIs
  <2>4. \A l \in Chart!Lines : Chart!Tops[l] \in 0..(Chart!Height - Chart!LabelHeight)
    BY <1>1, <1>2 DEF Chart!Height, Chart!LabelHeight
  <2> QED
    BY <2>1, <2>2, <2>3, <2>4 DEF Chart!TypeOK, Chart!ChartInv
<1>4. Chart!ChartTellsThePast
  <2> DEFINE true(l, h) == Chart!InForce(l, h) # {} =>
                               Chart!ValueAt(l, h) = Chart!Latest(Chart!InForce(l, h)).p
  <2>1. ASSUME NEW l \in Chart!Real, NEW h \in Int, h >= 2 * Chart!WinStart, h < 2 * ui.now
        PROVE  true(l, h)
    <3> SUFFICES ASSUME Chart!InForce(l, h) # {}
                 PROVE  Chart!ValueAt(l, h) = Chart!Latest(Chart!InForce(l, h)).p
      OBVIOUS
    <3>1. l \in Chart!Lines
      BY <1>2
    <3>2. Chart!ValueOn(l, h) = Chart!Latest(Chart!InForce(l, h)).p
      BY <2>1, <3>1, ValueTells
    <3> QED
      BY <3>2, RealValueIs
  <2>2. ui.hover \in Int \union {None} /\ ui.now \in Nat /\ Chart!WinStart \in Int
    BY ChartFields, WindowIs
  <2>3. Chart!Highlight =>
            /\ Chart!RangeInfo.t1 \in Int /\ Chart!RangeInfo.t2 \in Int
            /\ Chart!RangeInfo.t1 >= 2 * Chart!WinStart /\ Chart!RangeInfo.t1 <= Chart!RangeInfo.t2
    BY RangeIs
  <2>4. ASSUME NEW l \in Chart!Real, ui.hover # None, ui.hover >= 2 * Chart!WinStart, ui.hover < 2 * ui.now
        PROVE  true(l, ui.hover)
    BY <2>1, <2>2, <2>4
  <2>5. ASSUME NEW l \in Chart!Real, Chart!Highlight, Chart!RangeInfo.t2 < 2 * ui.now
        PROVE  true(l, Chart!RangeInfo.t1) /\ true(l, Chart!RangeInfo.t2)
    <3> DEFINE one == Chart!RangeInfo.t1
               two == Chart!RangeInfo.t2
               start == Chart!WinStart
    <3>1. one \in Int /\ two \in Int /\ one >= 2 * start /\ one <= two /\ two < 2 * ui.now /\ start \in Int
      BY <2>2, <2>3, <2>5
    <3> HIDE DEF true
    <3>2. /\ one \in Int /\ one >= 2 * start /\ one < 2 * ui.now
          /\ two \in Int /\ two >= 2 * start /\ two < 2 * ui.now
      <4> HIDE DEF one, two, start
      <4> QED
        BY <2>2, <3>1
    <3> QED
      BY <2>1, <2>5, <3>2
  <2> QED
    BY <2>4, <2>5 DEF Chart!ChartTellsThePast
<1> QED
  BY <1>1, <1>3, <1>4
-----------------------------------------------------------------------------
(* The share card.                                                           *)
(* The sets of the fields, named for the provers. *)
ShareLine   == [before : Percents \union {None}, since : Seq(Percents)]
ShareLines  == Seq(ShareLine)
SharePolls  == 0..MaxPolls
ShareCopies == {None, "drawing", "writing"}
ShareToasts == {None, "link", "image", "failed"}
ShareRec ==
    [open : BOOLEAN, binary : BOOLEAN, lines : ShareLines, polls : SharePolls,
     copying : ShareCopies, toast : ShareToasts]

LEMMA ShareTypeIs == Share!TypeOK <=> ui \in ShareRec /\ ui.lines # <<>>
  BY DEF Share!TypeOK, ShareRec, ShareLines, ShareLine, SharePolls, ShareCopies, ShareToasts

LEMMA ShareTypeIsNext == Share!TypeOK' <=> ui' \in ShareRec /\ ui'.lines # <<>>
  BY DEF Share!TypeOK, ShareRec, ShareLines, ShareLine, SharePolls, ShareCopies, ShareToasts

LEMMA ShareInit == Share!ConstantsOK /\ Share!Init => Share!TypeOK
<1> SUFFICES ASSUME Share!ConstantsOK, Share!Init
             PROVE  Share!TypeOK
  OBVIOUS
<1>1. PICK n \in 0..MaxAnswers :
          \E lines \in [1..(IF n = 0 THEN 1 ELSE n) -> Share!Answer] :
              ui = [open |-> FALSE, binary |-> n = 0, lines |-> lines, polls |-> 0,
                    copying |-> None, toast |-> None]
  BY DEF Share!Init
<1> DEFINE k == IF n = 0 THEN 1 ELSE n
<1>2. PICK lines \in [1..k -> Share!Answer] :
          ui = [open |-> FALSE, binary |-> n = 0, lines |-> lines, polls |-> 0,
                copying |-> None, toast |-> None]
  BY <1>1
<1>3. k \in Nat /\ k >= 1
  BY DEF Share!ConstantsOK
<1> HIDE DEF k
<1>4. Share!Answer \subseteq ShareLine
  <2>1. <<>> \in Seq(Percents) /\ \A p \in Percents : <<p>> \in Seq(Percents)
    OBVIOUS
  <2> DEFINE some == {<<p>> : p \in Percents}
             all  == Seq(Percents)
  <2>2. some \subseteq all /\ <<>> \in all
    BY <2>1
  <2>3. Share!Answer = [before : Percents \union {None}, since : {<<>>} \union some]
        /\ ShareLine = [before : Percents \union {None}, since : all]
    BY DEF Share!Answer, ShareLine
  <2> HIDE DEF some, all
  <2> QED
    BY <2>2, <2>3
<1>5. lines \in ShareLines /\ lines # <<>>
  <2>1. lines \in [1..k -> ShareLine]
    BY <1>4
  <2> HIDE DEF ShareLine
  <2>2. lines \in Seq(ShareLine)
    BY <1>3, <2>1
  <2>3. Len(lines) = k
    BY <1>3, <2>1
  <2>4. lines # <<>>
    BY <1>3, <2>2, <2>3
  <2> QED
    BY <2>2, <2>4 DEF ShareLines
<1>6. 0 \in SharePolls
  BY DEF SharePolls, Share!ConstantsOK
<1>7. None \in ShareCopies /\ None \in ShareToasts
  BY DEF ShareCopies, ShareToasts
<1>8. ui \in ShareRec
  BY <1>2, <1>5, <1>6, <1>7 DEF ShareRec
<1> QED
  BY <1>2, <1>5, <1>8, ShareTypeIs

LEMMA SharePollKeeps ==
    ASSUME Share!ConstantsOK, Share!TypeOK, NEW i \in Share!Lines, NEW p \in Percents, Share!Poll(i, p)
    PROVE  Share!TypeOK'
<1> DEFINE since == Append(ui.lines[i].since, p)
           line  == [ui.lines[i] EXCEPT !.since = since]
           lines == [ui.lines EXCEPT ![i] = line]
           polls == ui.polls + 1
<1>1. ui \in ShareRec /\ ui.lines # <<>>
  BY ShareTypeIs
<1>2. ui.lines \in Seq(ShareLine) /\ i \in DOMAIN ui.lines
  BY <1>1 DEF ShareRec, ShareLines, Share!Lines
<1>3. ui.lines[i] \in ShareLine
  BY <1>2
<1>4. since \in Seq(Percents)
  BY <1>3 DEF ShareLine
<1>5. ui' = [ui EXCEPT !.polls = polls, !.lines = lines]
  BY DEF Share!Poll, Share!Card
<1>6. polls \in SharePolls
  BY <1>1 DEF Share!Poll, ShareRec, SharePolls, Share!ConstantsOK
<1> HIDE DEF since
<1>7. line \in ShareLine
  BY <1>3, <1>4 DEF ShareLine
<1> HIDE DEF line
<1>8. lines \in Seq(ShareLine) /\ lines # <<>>
  <2>1. lines \in Seq(ShareLine) /\ DOMAIN lines = DOMAIN ui.lines
    BY <1>2, <1>7
  <2> QED
    BY <1>2, <2>1
<1> HIDE DEF lines, polls
<1>9. ui' \in ShareRec /\ ui'.lines # <<>>
  BY <1>1, <1>5, <1>6, <1>8 DEF ShareRec, ShareLines
<1> QED
  BY <1>9, ShareTypeIsNext

LEMMA ShareNext ==
    ASSUME Share!ConstantsOK, Share!TypeOK, [Share!Next]_ui
    PROVE  Share!TypeOK'
<1>1. ui \in ShareRec /\ ui.lines # <<>>
  BY ShareTypeIs
<1>2. /\ {None, "drawing", "writing"} = ShareCopies
      /\ {None, "link", "image", "failed"} = ShareToasts
  BY DEF ShareCopies, ShareToasts
<1> DEFINE Kept == ui' \in ShareRec /\ ui'.lines # <<>>
<1>3. CASE UNCHANGED ui
  BY <1>1, <1>3, ShareTypeIsNext
<1>4. CASE \E i \in Share!Lines, p \in Percents : Share!Poll(i, p)
  BY <1>4, SharePollKeeps
<1>5. CASE Share!Open
  <2>1. Kept
    BY <1>1, <1>2, <1>5 DEF Share!Open, Share!Card, ShareRec
  <2> QED
    BY <2>1, ShareTypeIsNext
<1>6. CASE Share!Close
  <2>1. Kept
    BY <1>1, <1>6 DEF Share!Close, Share!Card, ShareRec
  <2> QED
    BY <2>1, ShareTypeIsNext
<1>7. CASE Share!CopyLink
  <2>1. PICK ok \in BOOLEAN : ui' = [ui EXCEPT !.toast = IF ok THEN "link" ELSE "failed"]
    BY <1>7 DEF Share!CopyLink, Share!Card
  <2> DEFINE toast == IF ok THEN "link" ELSE "failed"
  <2>2. ui' = [ui EXCEPT !.toast = toast] /\ toast \in ShareToasts
    BY <1>2, <2>1
  <2> HIDE DEF toast
  <2>3. Kept
    BY <1>1, <2>2 DEF ShareRec
  <2> QED
    BY <2>3, ShareTypeIsNext
<1>8. CASE Share!ShareX
  <2>1. Kept
    BY <1>1, <1>2, <1>8 DEF Share!ShareX, Share!Card, ShareRec
  <2> QED
    BY <2>1, ShareTypeIsNext
<1>9. CASE Share!CopyImage
  <2>1. Kept
    BY <1>1, <1>2, <1>9 DEF Share!CopyImage, Share!Card, ShareRec
  <2> QED
    BY <2>1, ShareTypeIsNext
<1>10. CASE Share!Draw
  <2>1. Kept
    BY <1>1, <1>2, <1>10 DEF Share!Draw, Share!Card, ShareRec
  <2> QED
    BY <2>1, ShareTypeIsNext
<1>11. CASE Share!Written
  <2>1. PICK ok \in BOOLEAN : ui' = [ui EXCEPT !.copying = None, !.toast = IF ok THEN "image" ELSE "failed"]
    BY <1>11 DEF Share!Written, Share!Card
  <2> DEFINE toast == IF ok THEN "image" ELSE "failed"
  <2>2. ui' = [ui EXCEPT !.copying = None, !.toast = toast] /\ toast \in ShareToasts /\ None \in ShareCopies
    BY <1>2, <2>1
  <2> HIDE DEF toast
  <2>3. Kept
    BY <1>1, <2>2 DEF ShareRec
  <2> QED
    BY <2>3, ShareTypeIsNext
<1> QED
  BY <1>3, <1>4, <1>5, <1>6, <1>7, <1>8, <1>9, <1>10, <1>11 DEF Share!Next

(* What is put before the rest comes first. *)
LEMMA HeadOfThree ==
    ASSUME NEW S, NEW s \in Seq(S), NEW x, NEW y
    PROVE  Head(<<x>> \o s \o <<y>>) = x
<1> DEFINE T == S \union {x, y}
<1>1. <<x>> \in Seq(T) /\ s \in Seq(T) /\ <<y>> \in Seq(T)
  OBVIOUS
<1> DEFINE front == <<x>> \o s
<1>2. front \in Seq(T) /\ Len(front) = 1 + Len(s) /\ front[1] = x /\ Len(s) \in Nat
  BY <1>1
<1> HIDE DEF front
<1>3. (front \o <<y>>)[1] = front[1] /\ front \o <<y>> \in Seq(T) /\ front \o <<y>> # <<>>
  BY <1>1, <1>2
<1>4. Head(front \o <<y>>) = x
  BY <1>2, <1>3
<1> QED
  BY <1>4 DEF front

LEMMA ShareShows == Share!TypeOK => Share!CardTellsThePast
<1> SUFFICES ASSUME Share!TypeOK, NEW i \in Share!Lines, ui.lines[i].before # None
             PROVE  Share!Head(Share!Series(ui.lines[i])) = ui.lines[i].before
  BY DEF Share!CardTellsThePast
<1> DEFINE a == ui.lines[i]
<1>1. ui \in ShareRec /\ a \in ShareLine
  <2>1. ui \in ShareRec
    BY ShareTypeIs
  <2>2. ui.lines \in Seq(ShareLine)
    BY <2>1 DEF ShareRec, ShareLines
  <2> QED
    BY <2>1, <2>2 DEF Share!Lines
<1>2. a.since \in Seq(Percents) /\ Share!Anchor(a) = a.before
  BY <1>1 DEF ShareLine, Share!Anchor
<1> HIDE DEF a
<1>3. Share!Series(a) = <<a.before>> \o a.since \o <<Share!Probability(a)>>
  BY <1>2 DEF Share!Series
<1>4. Head(Share!Series(a)) = a.before
  BY <1>2, <1>3, HeadOfThree
<1> QED
  BY <1>4 DEF a
-----------------------------------------------------------------------------
(* The cards of the markets.                                                 *)
(* While nothing is listed anew and no filter chosen, the cards stay. *)
LEMMA CardsStay ==
    ASSUME ui' = ui
    PROVE  Deck!Cards' = Deck!Cards
  BY DEF Deck!Cards, Deck!GroupCard, Deck!QuestionCard, Deck!MatchCard, Deck!PredictionCard, Deck!IsMatch,
     Deck!Home, Deck!Away, Deck!First, Deck!Before, Deck!Playing, Deck!GroupChildren, Deck!Listed,
     Deck!Standalone, Deck!IsDraw

LEMMA ShownStay ==
    ASSUME ui' = ui, second' = second
    PROVE  Deck!Shown' = Deck!Shown
<1>1. Deck!Cards' = Deck!Cards
  BY CardsStay
<1>2. \A c : Deck!Passes(c)' <=> Deck!Passes(c)
  BY DEF Deck!Passes, Deck!Texts
<1> QED
  BY <1>1, <1>2 DEF Deck!Shown

LEMMA DeckInit == Deck!Init => Deck!TypeOK
  BY DEF Deck!Init, Deck!TypeOK

LEMMA DeckNext ==
    ASSUME Deck!TypeOK, [Deck!Next]_<<ui, second, third>>
    PROVE  Deck!TypeOK'
<1>1. /\ ui \in Deck!Listings
      /\ second \in [search : CardAnswers \union {None}, event : Deck!Events \union {None},
                      chip : CardTags \union {None}]
      /\ third # None => third = [cards |-> Deck!Shown]
  BY DEF Deck!TypeOK
<1>2. ASSUME NEW f \in [search : CardAnswers \union {None}, event : Deck!Events \union {None},
                        chip : CardTags \union {None}],
             Deck!Choose(f)
      PROVE  Deck!TypeOK'
  BY <1>1, <1>2 DEF Deck!Choose, Deck!TypeOK, Deck!Listings, Deck!Labels, Deck!Places, Deck!Events, Deck!Draw
<1>3. ASSUME NEW text \in CardAnswers \union {None}, Deck!Choose([second EXCEPT !.search = text])
      PROVE  Deck!TypeOK'
  BY <1>1, <1>2, <1>3
<1>4. ASSUME NEW event \in Deck!Events \union {None}, Deck!Choose([second EXCEPT !.event = event])
      PROVE  Deck!TypeOK'
  BY <1>1, <1>2, <1>4
<1>5. ASSUME NEW chip \in CardTags \union {None}, Deck!Choose([second EXCEPT !.chip = chip])
      PROVE  Deck!TypeOK'
  BY <1>1, <1>2, <1>5
<1>6. CASE ui' = ui /\ second' = second /\ (third' = third \/ third' = [cards |-> Deck!Shown])
  <2>1. Deck!Shown' = Deck!Shown
    BY <1>6, ShownStay
  <2>2. ui' \in Deck!Listings
    BY <1>1, <1>6
  <2>3. Deck!Listings' = Deck!Listings
    BY DEF Deck!Listings, Deck!Labels, Deck!Places, Deck!Draw
  <2> QED
    BY <1>1, <1>6, <2>1, <2>2, <2>3 DEF Deck!TypeOK, Deck!Events
<1>7. CASE Deck!Look \/ UNCHANGED <<ui, second, third>>
  BY <1>6, <1>7 DEF Deck!Look
<1> QED
  BY <1>3, <1>4, <1>5, <1>7 DEF Deck!Next
-----------------------------------------------------------------------------
(* A market of a group is on its card alone, and any other on its own. *)
OwnCard(i) == IF ui[i].group = None THEN Deck!QuestionCard(i) ELSE Deck!GroupCard(ui[i].group)

LEMMA OptionsAre ==
    /\ \A g : Deck!GroupCard(g).options = Deck!GroupChildren(g)
    /\ \A g : Deck!GroupCard(g).type = (IF Deck!IsMatch(g) THEN "match" ELSE "prediction")
    /\ \A i : Deck!QuestionCard(i).options = {i} /\ Deck!QuestionCard(i).type = "question"
    /\ \A i : Deck!QuestionCard(i).league = ui[i].tag
  BY DEF Deck!GroupCard, Deck!MatchCard, Deck!PredictionCard, Deck!QuestionCard

LEMMA OwnCardIs ==
    ASSUME Deck!ConstantsOK, NEW i \in 1..MarketCount
    PROVE  Deck!Offered(i) = {OwnCard(i)}
<1>1. /\ Deck!Standalone = {j \in 1..MarketCount : ui[j].group = None}
      /\ \A g : Deck!GroupChildren(g) = {j \in 1..MarketCount : ui[j].group = g}
      /\ Deck!Listed = {ui[j].group : j \in 1..MarketCount} \ {None}
  BY DEF Deck!Standalone, Deck!GroupChildren, Deck!Listed
<1>2. Deck!Cards = {Deck!GroupCard(g) : g \in Deck!Listed} \union {Deck!QuestionCard(j) : j \in Deck!Standalone}
  BY DEF Deck!Cards
<1>3. CASE ui[i].group = None
  <2>1. OwnCard(i) = Deck!QuestionCard(i) /\ i \in Deck!Standalone
    BY <1>1, <1>3 DEF OwnCard
  <2>2. \A g \in Deck!Listed : i \notin Deck!GroupCard(g).options
    BY <1>1, <1>3, OptionsAre
  <2>3. \A j \in Deck!Standalone : i \in Deck!QuestionCard(j).options => j = i
    BY OptionsAre
  <2>4. i \in Deck!QuestionCard(i).options
    BY OptionsAre
  <2> QED
    BY <1>2, <2>1, <2>2, <2>3, <2>4 DEF Deck!Offered
<1>4. CASE ui[i].group # None
  <2>1. OwnCard(i) = Deck!GroupCard(ui[i].group) /\ ui[i].group \in Deck!Listed
    BY <1>1, <1>4 DEF OwnCard
  <2>2. \A g \in Deck!Listed : i \in Deck!GroupCard(g).options => g = ui[i].group
    BY <1>1, OptionsAre
  <2>3. \A j \in Deck!Standalone : i \notin Deck!QuestionCard(j).options
    BY <1>1, <1>4, OptionsAre
  <2>4. i \in Deck!GroupCard(ui[i].group).options
    BY <1>1, OptionsAre
  <2> QED
    BY <1>2, <2>1, <2>2, <2>3, <2>4 DEF Deck!Offered
<1> QED
  BY <1>3, <1>4

(* The answers of two are told apart by their places and the order of the list. *)
LEMMA FirstIs ==
    ASSUME Deck!ConstantsOK, ui \in Deck!Listings, NEW i \in 1..MarketCount, NEW j \in 1..MarketCount, i # j
    PROVE  /\ Deck!First({i}) = i
           /\ Deck!First({i, j}) \in {i, j}
<1>1. \A k \in {i} \ {i} : Deck!Before(i, k)
  OBVIOUS
<1>2. Deck!First({i}) = i
  BY <1>1 DEF Deck!First
<1>3. ui[i].place \in 1..2 /\ ui[j].place \in 1..2 /\ MarketCount \in Nat
  BY DEF Deck!Listings, Deck!Places, Deck!ConstantsOK
<1>4. Deck!Before(i, j) \/ Deck!Before(j, i)
  BY <1>3 DEF Deck!Before
<1>5. \E k \in {i, j} : \A m \in {i, j} \ {k} : Deck!Before(k, m)
  BY <1>4
<1> QED
  BY <1>2, <1>5 DEF Deck!First

(* A match has a draw and two other answers. *)
LEMMA MatchIs ==
    ASSUME Deck!ConstantsOK, ui \in Deck!Listings, NEW g \in Deck!Listed, Deck!IsMatch(g)
    PROVE  \E x, y \in 1..MarketCount : x # y /\ Deck!Playing(g) = {x, y}
<1> DEFINE all == Deck!GroupChildren(g)
           playing == Deck!Playing(g)
<1>1. all \in SUBSET (1..MarketCount) /\ MarketCount \in Nat /\ g # None
  BY DEF Deck!GroupChildren, Deck!ConstantsOK, Deck!Listed
<1>2. \A i, j \in all : i # j => ui[i].label # ui[j].label
  BY <1>1 DEF Deck!GroupChildren, Deck!Listings
<1>3. playing = {i \in all : ui[i].label # Deck!Draw} /\ playing # all
  BY DEF Deck!Playing, Deck!IsDraw, Deck!IsMatch
<1>4. PICK d \in all : ui[d].label = Deck!Draw
  BY <1>3
<1>5. playing = all \ {d}
  BY <1>2, <1>3, <1>4
<1>6. Deck!Cardinality(all) = Cardinality(all)
  BY DEF Deck!Cardinality, Cardinality
<1>7. Cardinality(all) = 3
  BY <1>6 DEF Deck!IsMatch
<1> HIDE DEF all, playing
<1>8. IsFiniteSet(1..MarketCount)
  BY <1>1, FS_Interval
<1>9. IsFiniteSet(all)
  BY <1>1, <1>8, FS_Subset
<1>10. IsFiniteSet(playing) /\ Cardinality(playing) = 2
  BY <1>4, <1>5, <1>7, <1>9, FS_RemoveElement
<1>11. playing # {}
  BY <1>10, FS_EmptySet
<1>12. PICK x \in playing : TRUE
  BY <1>11
<1>13. IsFiniteSet(playing \ {x}) /\ Cardinality(playing \ {x}) = 1
  BY <1>10, <1>12, FS_RemoveElement
<1>14. PICK y : playing \ {x} = {y}
  BY <1>13, FS_Singleton
<1>15. playing = {x, y} /\ x # y
  BY <1>12, <1>14
<1>16. x \in 1..MarketCount /\ y \in 1..MarketCount
  BY <1>1, <1>5, <1>15
<1> QED
  BY <1>15, <1>16 DEF playing

LEMMA MatchTeams ==
    ASSUME Deck!ConstantsOK, ui \in Deck!Listings, NEW g \in Deck!Listed, Deck!IsMatch(g)
    PROVE  {Deck!Home(g), Deck!Away(g)} = Deck!Playing(g) /\ Deck!Home(g) # Deck!Away(g)
<1>1. PICK x, y \in 1..MarketCount : x # y /\ Deck!Playing(g) = {x, y}
  BY MatchIs
<1>2. Deck!Home(g) = Deck!First({x, y}) /\ Deck!Away(g) = Deck!First({x, y} \ {Deck!Home(g)})
  BY <1>1 DEF Deck!Home, Deck!Away
<1>3. Deck!First({x, y}) \in {x, y} /\ Deck!First({x}) = x
  BY <1>1, FirstIs
<1>4. Deck!First({y}) = y
  BY <1>1, FirstIs
<1>5. CASE Deck!Home(g) = x
  <2>1. {x, y} \ {x} = {y}
    BY <1>1
  <2> QED
    BY <1>1, <1>2, <1>4, <1>5, <2>1
<1>6. CASE Deck!Home(g) = y
  <2>1. {x, y} \ {y} = {x}
    BY <1>1
  <2> QED
    BY <1>1, <1>2, <1>3, <1>6, <2>1
<1> QED
  BY <1>2, <1>3, <1>5, <1>6

LEMMA DeckShows == Deck!ConstantsOK /\ Deck!TypeOK => Deck!MarketsAreOnCards
<1> SUFFICES ASSUME Deck!ConstantsOK, Deck!TypeOK
             PROVE  Deck!MarketsAreOnCards
  OBVIOUS
<1>1. ui \in Deck!Listings /\ (third # None => third = [cards |-> Deck!Shown])
  BY DEF Deck!TypeOK
<1>2. ASSUME NEW i \in 1..MarketCount
      PROVE  Deck!Cardinality(Deck!Offered(i)) = 1
  <2>1. Deck!Offered(i) = {OwnCard(i)}
    BY OwnCardIs
  <2>2. Cardinality({OwnCard(i)}) = 1
    BY FS_Singleton
  <2> QED
    BY <2>1, <2>2 DEF Deck!Cardinality, Cardinality
<1>3. ASSUME NEW c \in Deck!Cards, c.type = "match"
      PROVE  {c.home, c.away} = {i \in c.options : ~Deck!IsDraw(i)} /\ c.home # c.away
  <2>1. PICK g \in Deck!Listed : c = Deck!GroupCard(g)
    BY <1>3, OptionsAre DEF Deck!Cards
  <2>2. Deck!IsMatch(g)
    BY <1>3, <2>1, OptionsAre
  <2>3. c.home = Deck!Home(g) /\ c.away = Deck!Away(g) /\ c.options = Deck!GroupChildren(g)
    BY <2>1, <2>2 DEF Deck!GroupCard, Deck!MatchCard
  <2>4. {Deck!Home(g), Deck!Away(g)} = Deck!Playing(g) /\ Deck!Home(g) # Deck!Away(g)
    BY <1>1, <2>2, MatchTeams
  <2> QED
    BY <2>3, <2>4 DEF Deck!Playing
<1>4. ASSUME third # None, NEW i \in 1..MarketCount, second.event = None,
             second.search \in {None, ui[i].label},
             second.chip \in {None} \union (IF ui[i].group # None THEN {} ELSE {ui[i].tag})
      PROVE  \E c \in third.cards : i \in c.options
  <2> DEFINE c == OwnCard(i)
  <2>1. c \in Deck!Cards /\ i \in c.options
    BY OwnCardIs DEF Deck!Offered
  <2>2. ui[i].label \in Deck!Texts(c)
    BY <2>1 DEF Deck!Texts
  <2>3. second.chip # None => c.league = second.chip
    <3> SUFFICES ASSUME second.chip # None
                 PROVE  c.league = second.chip
      OBVIOUS
    <3>1. ui[i].group = None /\ second.chip = ui[i].tag
      BY <1>4
    <3>2. c = Deck!QuestionCard(i)
      BY <3>1 DEF OwnCard
    <3> QED
      BY <3>1, <3>2, OptionsAre
  <2>4. c \in Deck!Shown
    BY <1>4, <2>1, <2>2, <2>3 DEF Deck!Shown, Deck!Passes
  <2>5. third.cards = Deck!Shown
    BY <1>1, <1>4
  <2> QED
    BY <2>1, <2>4, <2>5
<1> QED
  BY <1>2, <1>3, <1>4 DEF Deck!MarketsAreOnCards
-----------------------------------------------------------------------------
(* The site as a whole: the market page keeps its invariant always, for it rests while another *)
(* component runs, and each of the others while it runs.                                        *)
SiteInv ==
    /\ Market!PageInv
    /\ form = "feed" => Feed!FeedInv
    /\ form = "chart" => Chart!ChartInv
    /\ form = "share" => Share!TypeOK
    /\ form = "older" => Older!GroupInv
    /\ form = "bookmarks" => Bookmarks!ListsInv
    /\ form = "search" => Search!BoxInv
    /\ form = "browse" => Browse!BrowseInv
    /\ form = "grid" => Grid!GridInv
    /\ form = "deck" => Deck!TypeOK
    /\ form = "proposal" => Proposal!ProposalInv
    /\ form = "login" => Login!LoginInv
    /\ form = "bar" => Bar!BarInv

(* A step of the whole is a step of the component that runs, or none of it. *)
LEMMA SiteSteps ==
    [Next]_vars =>
        /\ form' = form
        /\ [Market!Next]_<<page, options>>
        /\ form = "feed" => [Feed!Next]_<<ui, second, third>>
        /\ form = "chart" => [Chart!Next]_ui
        /\ form = "share" => [Share!Next]_ui
        /\ form = "older" => [Older!Next]_<<ui, second>>
        /\ form = "bookmarks" => [Bookmarks!Next]_<<ui, second>>
        /\ form = "search" => [Search!Next]_ui
        /\ form = "browse" => [Browse!Next]_<<ui, second, third, fourth>>
        /\ form = "grid" => [Grid!Next]_<<ui, second, third, fourth>>
        /\ form = "deck" => [Deck!Next]_<<ui, second, third>>
        /\ form = "proposal" => [Proposal!Next]_ui
        /\ form = "login" => [Login!Next]_<<ui, second>>
        /\ form = "bar" => [Bar!Next]_<<ui, second>>
<1>1. CASE form = "market" /\ Market!Next /\ StillShared
  BY <1>1 DEF StillShared
<1>2. CASE form # "market" /\ NextShared /\ UNCHANGED <<form, page, options>>
  BY <1>2 DEF NextShared
<1>3. CASE UNCHANGED vars
  BY <1>3 DEF vars, shared
<1> QED
  BY <1>1, <1>2, <1>3 DEF Next

(* The site starts with the invariant of the component that runs. *)
LEMMA SiteInvInit == Init => SiteInv
<1>1. Init => Market!Init /\ (form # "market" => InitShared)
  BY DEF Init, InitShared
<1>2. InitShared => /\ form = "feed" => Feed!Init
                    /\ form = "chart" => Chart!Init
                    /\ form = "share" => Share!Init
                    /\ form = "older" => Older!Init
                    /\ form = "bookmarks" => Bookmarks!Init
                    /\ form = "search" => Search!Init
                    /\ form = "browse" => Browse!Init
  BY DEF InitShared
<1>3. InitShared => /\ form = "grid" => Grid!Init
                    /\ form = "deck" => Deck!Init
                    /\ form = "proposal" => Proposal!Init
                    /\ form = "login" => Login!Init
                    /\ form = "bar" => Bar!Init
  BY DEF InitShared
<1> QED
  BY <1>1, <1>2, <1>3, SiteAssumption, PageInitInv, FeedInitInv, OlderInitInv, ListsInitInv,
     BoxInitInv, BrowseInitInv, GridInitInv, ProposalInitInv, LoginInitInv, BarInitInv,
     ChartInitInv, ShareInit, DeckInit
     DEF SiteInv

(* Each component keeps its invariant; the bookmarks and the cards keep their promise of steps. *)
LEMMA SiteInvStep ==
    ASSUME SiteInv, [Next]_vars
    PROVE  /\ SiteInv'
           /\ form = "bookmarks" => Bookmarks!TogglesOneMarket
           /\ form = "grid" => Grid!StepsForward
<1>1. form' = form
  BY SiteSteps
<1>2. Market!PageInv'
  BY SiteAssumption, SiteSteps, PageNextInv DEF SiteInv
<1>3. form = "feed" => Feed!FeedInv'
  BY SiteAssumption, SiteSteps, FeedNextInv DEF SiteInv
<1>4. form = "older" => Older!GroupInv'
  BY SiteAssumption, SiteSteps, OlderNextInv DEF SiteInv
<1>5. form = "bookmarks" => Bookmarks!ListsInv' /\ Bookmarks!TogglesOneMarket
  BY SiteAssumption, SiteSteps, ListsNextInv DEF SiteInv
<1>6. form = "search" => Search!BoxInv'
  BY SiteAssumption, SiteSteps, BoxNextInv DEF SiteInv
<1>7. form = "browse" => Browse!BrowseInv'
  BY SiteAssumption, SiteSteps, BrowseNextInv DEF SiteInv
<1>8. form = "grid" => Grid!GridInv' /\ Grid!StepsForward
  BY SiteAssumption, SiteSteps, GridNextInv DEF SiteInv
<1>9. form = "proposal" => Proposal!ProposalInv'
  BY SiteAssumption, SiteSteps, ProposalNextInv DEF SiteInv
<1>10. form = "login" => Login!LoginInv'
  BY SiteAssumption, SiteSteps, LoginNextInv DEF SiteInv
<1>11. form = "bar" => Bar!BarInv'
  BY SiteAssumption, SiteSteps, BarNextInv DEF SiteInv
<1>12. form = "chart" => Chart!ChartInv'
  BY SiteAssumption, SiteSteps, ChartNextInv DEF SiteInv
<1>13. form = "share" => Share!TypeOK'
  BY SiteAssumption, SiteSteps, ShareNext DEF SiteInv
<1>14. form = "deck" => Deck!TypeOK'
  BY SiteSteps, DeckNext DEF SiteInv
<1> QED
  BY <1>1, <1>2, <1>3, <1>4, <1>5, <1>6, <1>7, <1>8, <1>9, <1>10, <1>11, <1>12, <1>13, <1>14
     DEF SiteInv
-----------------------------------------------------------------------------
(* MarketPage: whatever the order in which fetches, retries, polls and refreshes answer and     *)
(* however often the user moves, the page shows the market of its route, keeps a group it has    *)
(* loaded, and leaves the user on the option that was chosen.                                    *)
THEOREM PageAlwaysShowsTheMarket == Spec => []PageShowsTheMarket
<1>1. SiteInv => PageShowsTheMarket
  BY PageInvShows DEF SiteInv, PageShowsTheMarket
<1> QED
  BY <1>1, SiteInvInit, SiteInvStep, PTL DEF Spec

(* ActivityFeed, SearchBox, MarketBrowse, Watchlist and NavBar: a list, a result, a page of      *)
(* rows, a copy of the bookmarks or a credit at rest is the one that was asked for last, but for *)
(* the orders of answers that the components' histories name.                                    *)
THEOREM AnswersAlwaysFit == Spec => []AnswersFit
<1>1. SiteInv => AnswersFit
  BY SiteAssumption, FeedInvShows, BrowseInvShows
     DEF SiteInv, AnswersFit, Search!BoxInv, Bookmarks!ListsInv, Bar!BarInv
<1> QED
  BY <1>1, SiteInvInit, SiteInvStep, PTL DEF Spec

(* GroupPage and ProposalForm: an amendment is recorded twice only after a part of it failed,    *)
(* a group is resolved once and a market twice only by confirmations that overlapped, the policy  *)
(* that is shown is the saved one but after a lost answer or a failure behind a load that had     *)
(* moved the toggle, and a proposal is paid twice only after a press on one that was under way,    *)
(* for any number of requests.                                                                    *)
THEOREM AllIsSentOnce == Spec => []SentOnce
<1>1. SiteInv => SentOnce
  BY OlderInvShows, ProposalInvShows DEF SiteInv, SentOnce
<1> QED
  BY <1>1, SiteInvInit, SiteInvStep, PTL DEF Spec

(* Session: what the browser stores follows the login through reloads, expiry and logout, a      *)
(* password that must be changed is asked for on the gated pages, and every link that is         *)
(* offered opens its page, but for the pages of their own that admins are offered and sent away   *)
(* from.                                                                                         *)
THEOREM LoginsAreKept == Spec => []LoginIsKept
<1>1. SiteInv => LoginIsKept
  BY LoginInvShows DEF SiteInv, LoginIsKept
<1> QED
  BY <1>1, SiteInvInit, SiteInvStep, PTL DEF Spec

(* Watchlist and CardGrid: a tab that missed no other's change toggles one market of the kept    *)
(* bookmarks and no other, and cards are never replaced by older ones while the status stays,     *)
(* but after two requests that overlapped.                                                       *)
THEOREM NothingIsEverUndone == Spec => NothingIsUndone
<1>1. SiteInv /\ [Next]_vars
        => [/\ form = "bookmarks" => Bookmarks!TogglesOneMarket
            /\ form = "grid" => Grid!StepsForward]_vars
  BY SiteInvStep
<1>2. SiteInv /\ [Next]_vars => SiteInv'
  BY SiteInvStep
<1> QED
  BY <1>1, <1>2, SiteInvInit, PTL DEF Spec, NothingIsUndone

(* CardGrid and MarketCards: a list that says it is loading has a timer that will bring its rows, *)
(* one whose end is in sight with rows left is loading, the filter in the box is the one in the   *)
(* address once its delay is over, and every market is on one card that a search for it leaves,    *)
(* for any number of markets, groups, cards and texts.                                            *)
THEOREM CardsAreAlwaysComplete == Spec => []CardsAreComplete
<1>1. SiteInv => CardsAreComplete
  BY SiteAssumption, GridInvShows, DeckShows DEF SiteInv, CardsAreComplete
<1> QED
  BY <1>1, SiteInvInit, SiteInvStep, PTL DEF Spec

(* PriceChart and ShareCard: the chart tells of a moment the probability that was in force then,  *)
(* wherever its window has moved, its labels overlap only at an edge, and the shared card starts   *)
(* its hour with what was known before it, for any changes and any number of answers.             *)
THEOREM ChartsAlwaysTellThePast == Spec => []ChartsTellThePast
<1>1. SiteInv => ChartsTellThePast
  BY SiteAssumption, ChartInvShows, ShareShows DEF SiteInv, ChartsTellThePast
<1> QED
  BY <1>1, SiteInvInit, SiteInvStep, PTL DEF Spec

(* Every component: the fields stay in their sets, what a component shows is what it should    *)
(* from its state, and the counters stay within their bounds.                                    *)
THEOREM SiteTypeCorrect == Spec => []TypeOK
<1>1. SiteInv => /\ Market!TypeOK
                 /\ form = "feed" => Feed!TypeOK
                 /\ form = "chart" => Chart!TypeOK
                 /\ form = "share" => Share!TypeOK
                 /\ form = "older" => Older!TypeOK
                 /\ form = "bookmarks" => Bookmarks!TypeOK
  BY SiteAssumption, ChartInvShows
     DEF SiteInv, Market!PageInv, Feed!FeedInv, Older!GroupInv, Bookmarks!ListsInv
<1>2. SiteInv => /\ form = "search" => Search!TypeOK
                 /\ form = "browse" => Browse!TypeOK
                 /\ form = "grid" => Grid!TypeOK
                 /\ form = "deck" => Deck!TypeOK
                 /\ form = "proposal" => Proposal!TypeOK
                 /\ form = "login" => Login!TypeOK
                 /\ form = "bar" => Bar!TypeOK
  BY DEF SiteInv, Search!BoxInv, Browse!BrowseInv, Grid!GridInv, Proposal!ProposalInv, Login!LoginInv,
     Bar!BarInv
<1>3. SiteInv => TypeOK
  BY <1>1, <1>2 DEF TypeOK
<1> QED
  BY <1>3, SiteInvInit, SiteInvStep, PTL DEF Spec
=============================================================================

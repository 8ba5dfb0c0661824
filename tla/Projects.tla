------------------------------ MODULE Projects ------------------------------
(***************************************************************************)
(* The projects on the map: the list and the filter bar that narrows it,   *)
(* the dot pointed at, the project whose card is open, and the card's own  *)
(* queries and lists.  The components the card lists are drawn by the EAO  *)
(* layer from what the card says is on, hidden and selected; that is       *)
(* `shown`.                                                                *)
(*                                                                         *)
(* React's effects run before the next event, so a step ends with theirs   *)
(* (Settles).  Names, text and places on the screen are left out.          *)
(***************************************************************************)
EXTENDS ProjectFilters, ComponentGrouping, FiniteSetsExt

CONSTANTS
  Ids, NoProject,     \* projects of EPIC.Track
  Lists, NoList,      \* the lists map-api may serve
  Menus, NoMenu,      \* the code tables behind the two menus
  Listings, NoListing,\* by project, the components map-api may list
  NoFeature,
  COLLAPSED_LABELS,   \* labels shown of a submission that is not expanded
  MaxActs,            \* bound: what the user does
  MaxTurns            \* bound: requests that fail, and answers that differ from
                      \* the one they replace

ASSUME ProjectsAssumption ==
  /\ \A l \in Lists : DOMAIN l \subseteq Ids /\ IsFiniteSet(DOMAIN l)
  /\ DOMAIN Listings = Ids /\ \A p \in Ids : \A cs \in Listings[p] : IsListing(cs)
  /\ \A m \in Menus : DOMAIN m = Groups
  /\ \A m \in Menus, g \in Groups : IsFiniteSet(m[g]) /\ NoValue \notin m[g]
  /\ NoProject \notin Ids
  /\ {COLLAPSED_LABELS, MaxActs, MaxTurns} \subseteq Nat

VARIABLES
  list,        \* the query for the projects
  menu,        \* the query for the options
  filters, hovered, selected,
  card,        \* by project, the query for the card
  components,  \* by project, the query for its components
  works,       \* by project, the query for its works
  panel,       \* what the user did in the open card
  shown,       \* what the EAO layer is told to draw
  tool, focused,  \* Select area, and whether one of its rows is focused
  wishes,      \* history: what the user last asked of a feature with an eye
  kept,        \* history: sensitive features when the first eye was used
  acts, turns

bar    == <<list, menu, filters>>
asked  == <<card, components, works>>
opened == <<hovered, selected, panel, shown, wishes, kept>>
area   == <<tool, focused>>
bounds == <<acts, turns>>
vars   == <<bar, asked, opened, area, bounds>>

(* A query: what it last answered, and whether its last try failed *)
Query(nothing) == [data |-> nothing, error |-> "none"]
Waiting(q, nothing) == q.data = nothing /\ q.error = "none"

(* "gone" is map-api's 404 for a project that is no longer open. *)
Errors == {"none", "failed", "gone"}

Fresh   == [off |-> {}, hidden |-> <<>>, key |-> NoFeature,
            closed |-> {}, expanded |-> {}, worksOpen |-> TRUE]
Nothing == [features |-> {}, footprints |-> {}, selected |-> {}]

-----------------------------------------------------------------------------
(* The bar and the dots *)

ProjectsOf(l)  == IF l.data = NoList THEN <<>> ELSE l.data
VisibleIn(l, f) == FilterProjects(ProjectsOf(l), f)
Visible == VisibleIn(list, filters)
Offered(g) == IF menu.data = NoMenu THEN {} ELSE menu.data[g]
Counts(g)  == FacetCounts(ProjectsOf(list), filters, g, Offered(g))

LoadFailed == list.error # "none" /\ DOMAIN ProjectsOf(list) = {}
NoMatches  ==
  /\ list.data # NoList /\ list.error = "none"
  /\ AnyFilterActive(filters)
  /\ DOMAIN ProjectsOf(list) # {} /\ Visible = {}

(* Over the map: one message at most, with the way out of it *)
Message == IF LoadFailed THEN "could not be loaded"
           ELSE IF NoMatches THEN "no match" ELSE "none"

MenuFailed(g) == menu.error # "none" /\ menu.data = NoMenu /\ Offered(g) = {}

-----------------------------------------------------------------------------
(* The card *)

(* The sections are there once the project has answered, unless a refresh  *)
(* of it failed.                                                           *)
SectionsOn(p, c) == p # NoProject /\ c[p].data # NoProject /\ c[p].error = "none"

(* Grouped once a listing (useMemo) *)
AllListings == (UNION {Listings[p] : p \in Ids}) \cup {<<>>}
GroupsOf == [cs \in AllListings |-> GroupComponents(cs)]
PlacesOf == [cs \in AllListings |-> RowPlaces(GroupsOf[cs])]

ListedIn(p, cs) == IF cs[p].data = NoListing THEN <<>> ELSE cs[p].data
IdsListed(cs)   == ToSet(IdsOf(cs))
StartHidden(cs) == {c.id : c \in {x \in ToSet(cs) : x.sensitive}}

(* <<>> until an eye is used; then the features it left hidden *)
HiddenFeatures(pan, cs) == IF pan.hidden = <<>> THEN StartHidden(cs) ELSE pan.hidden[1]

Revealed(pan, cs) ==
  (UNION {ToSet(s.ids) : s \in {t \in Submissions(GroupsOf[cs]) : t.key \notin pan.off}})
    \ HiddenFeatures(pan, cs)

OnMap(pan, cs) ==
  LET revealed == Revealed(pan, cs) IN
  [features   |-> revealed,
   footprints |-> {c.id : c \in {x \in ToSet(cs) : x.footprint}} \ revealed,
   selected   |-> IF pan.key = NoFeature THEN {}
                  ELSE FindVariant(GroupsOf[cs], pan.key) \cap revealed]

(* The rows the user can reach: none while the list waits or failed *)
RowsOffered ==
  /\ SectionsOn(selected, card)
  /\ components[selected].data # NoListing
  /\ components[selected].error = "none"

Listed == IF SectionsOn(selected, card) THEN ListedIn(selected, components) ELSE <<>>
Rows   == GroupsOf[Listed]

ShownLabels(s, pan) ==
  {s.labels[n] : n \in {m \in DOMAIN s.labels :
     \/ Len(s.labels) <= COLLAPSED_LABELS \/ s.key \in pan.expanded
     \/ m <= COLLAPSED_LABELS
     \/ \E v \in ToSet(s.labels[m].variants) : v.key = pan.key}}

OpenLabels(pan) ==
  IF ~ RowsOffered THEN {}
  ELSE UNION {UNION {ShownLabels(s, pan) : s \in ToSet(g.submissions)}
                : g \in {h \in ToSet(Rows) : h.type \notin pan.closed}}

(* An eye is on the label's line, and on each of its comments if several. *)
Eyes == UNION {{ToSet(l.ids)} \cup {ToSet(v.ids) : v \in ToSet(l.variants)}
                 : l \in OpenLabels(panel)}

RowKeys(pan) == UNION {{v.key : v \in ToSet(l.variants)} : l \in OpenLabels(pan)}

WorksListed ==
  SectionsOn(selected, card) /\ works[selected] = [data |-> "some", error |-> "none"]

-----------------------------------------------------------------------------
(* The effects at the end of a step.  `sel` and `hov` are what the step    *)
(* chose, `pan` what it left of the panel, `wish` of the history.  A card  *)
(* of a project the map does not draw closes; another card starts afresh;  *)
(* the last effect of a card that goes clears the map.                     *)

SurvivesAnything(sel) == sel                 \* a mutant: no effect on visibleIds

Survives(sel) ==
  IF list'.data # NoList /\ sel \notin VisibleIn(list', filters') THEN NoProject ELSE sel

ClearsUp(on, pan, cs) == IF on THEN OnMap(pan, cs) ELSE Nothing

Settles(sel, hov, pan, wish, keep) ==
  LET on   == SectionsOn(selected', card')
      stay == on /\ selected' = selected /\ SectionsOn(selected, card)
      p    == IF stay THEN pan ELSE Fresh
  IN /\ selected' = Survives(sel)
     /\ hovered' = IF hov \in VisibleIn(list', filters') THEN hov ELSE NoProject
     /\ panel'  = p
     /\ shown'  = ClearsUp(on, p, IF on THEN ListedIn(selected', components') ELSE <<>>)
     /\ wishes' = IF stay THEN wish ELSE <<>>
     /\ kept'   = IF stay THEN keep ELSE {}

Stays == Settles(selected, hovered, panel, wishes, kept)

Act  == acts < MaxActs /\ acts' = acts + 1 /\ UNCHANGED turns
Turn == turns < MaxTurns /\ turns' = turns + 1 /\ UNCHANGED acts

Init ==
  /\ list = Query(NoList) /\ menu = Query(NoMenu) /\ filters = NO_FILTERS
  /\ hovered = NoProject /\ selected = NoProject
  /\ card = [p \in Ids |-> Query(NoProject)]
  /\ components = [p \in Ids |-> Query(NoListing)]
  /\ works = [p \in Ids |-> Query("none")]
  /\ panel = Fresh /\ shown = Nothing /\ tool = "none" /\ focused = FALSE
  /\ wishes = <<>> /\ kept = {}
  /\ acts = 0 /\ turns = 0

-----------------------------------------------------------------------------
(* The list and the menus *)

(* The first answer, or one of the refetches of every PROJECTS_REFRESH_MS *)
AnswerList(l) ==
  /\ list.data # NoList \/ list.error = "none"
  /\ list # [data |-> l, error |-> "none"]
  /\ list' = [data |-> l, error |-> "none"]

ListAnswered(l) ==
  /\ AnswerList(l)
  /\ IF list.data \in {l, NoList} THEN UNCHANGED bounds ELSE Turn
  /\ UNCHANGED <<menu, filters, asked, area>> /\ Stays

ListFails ==
  /\ list.error = "none"
  /\ list' = [list EXCEPT !.error = "failed"]
  /\ Turn
  /\ UNCHANGED <<menu, filters, asked, area>> /\ Stays

(* The refetch's clock, or Try again: a list that never came waits afresh. *)
AskedIfLoaded ==                             \* a mutant: the interval starts with a first answer
  list.data # NoList /\ list.error # "none" /\ list' = [list EXCEPT !.error = "none"]

AskList == list.data = NoList /\ list.error # "none" /\ list' = Query(NoList)

ListAsked ==
  /\ AskList
  /\ UNCHANGED <<menu, filters, asked, area, bounds>> /\ Stays

(* Try again, in the message over the map *)
TryAgain ==
  /\ Message = "could not be loaded"
  /\ AskList
  /\ Act
  /\ UNCHANGED <<menu, filters, asked, area>> /\ Stays

MenuAnswered(m) ==
  /\ menu.data # NoMenu \/ menu.error = "none"
  /\ menu # [data |-> m, error |-> "none"]
  /\ menu' = [data |-> m, error |-> "none"]
  /\ IF menu.data \in {m, NoMenu} THEN UNCHANGED bounds ELSE Turn
  /\ UNCHANGED <<list, filters, asked, area>> /\ Stays

MenuFails ==
  /\ menu.error = "none"
  /\ menu' = [menu EXCEPT !.error = "failed"]
  /\ Turn
  /\ UNCHANGED <<list, filters, asked, area>> /\ Stays

(* Try again, in place of the menu's rows *)
RetryMenu ==
  /\ \E g \in Groups : MenuFailed(g)
  /\ menu' = Query(NoMenu)
  /\ Act
  /\ UNCHANGED <<list, filters, asked, area>> /\ Stays

-----------------------------------------------------------------------------
(* The bar *)

Filter(f) ==
  /\ filters' = f
  /\ Act
  /\ UNCHANGED <<list, menu, asked, area>> /\ Stays

PressOption(g, o) ==
  /\ ~ MenuFailed(g) /\ o \in Offered(g)
  /\ Filter([filters EXCEPT ![g] = ToggleOption(@, o)])

PressAll(g) ==
  /\ ~ MenuFailed(g)
  /\ Filter([filters EXCEPT ![g] = ToggleAll(@, Offered(g))])

PressToggle(t) == Filter([filters EXCEPT ![t] = ~ @])

(* In the bar, and in the message over a map that matches nothing *)
ClearFilters == AnyFilterActive(filters) /\ Filter(NO_FILTERS)

-----------------------------------------------------------------------------
(* Dots, footprints and search results *)

(* Queries that failed with nothing to show are asked again when observed. *)
Observed(q, nothing) == IF q.data = nothing THEN Query(nothing) ELSE q

Choose(p) ==
  /\ card' = IF p = selected \/ p = NoProject THEN card
             ELSE [card EXCEPT ![p] = Observed(@, NoProject)]
  /\ components' = IF p = selected \/ p = NoProject THEN components
                   ELSE [components EXCEPT ![p] = Observed(@, NoListing)]
  /\ works' = IF p = selected \/ p = NoProject THEN works
              ELSE [works EXCEPT ![p] = Observed(@, "none")]
  /\ Act
  /\ UNCHANGED <<bar, area>>
  /\ Settles(p, hovered, panel, wishes, kept)

OpenDot(p) == p \in Visible /\ p # selected /\ Choose(p)

(* A boundary opens its project too, but not for Select area. *)
OpenFootprint(p) == tool # "select" /\ p \in Visible /\ p # selected /\ Choose(p)

(* Search reaches every project; of one a filter hides, no card opens.     *)
FindProject(p) == Choose(IF p \in Visible THEN p ELSE NoProject)

CloseCard == selected # NoProject /\ Choose(NoProject)

Hover(p) ==
  /\ p \in Visible \cup {NoProject} /\ p # hovered
  /\ Act
  /\ UNCHANGED <<bar, asked, area>>
  /\ Settles(selected, p, panel, wishes, kept)

-----------------------------------------------------------------------------
(* The card's answers *)

CardAnswered ==
  /\ selected # NoProject
  /\ card[selected] # [data |-> selected, error |-> "none"]
  /\ card[selected].data = NoProject => card[selected].error = "none"
  /\ card' = [card EXCEPT ![selected] = [data |-> selected, error |-> "none"]]
  /\ IF SectionsOn(selected, card) THEN UNCHANGED <<components, works>>
     ELSE /\ components' = [components EXCEPT ![selected] = Observed(@, NoListing)]
          /\ works' = [works EXCEPT ![selected] = Observed(@, "none")]
  /\ UNCHANGED bounds
  /\ UNCHANGED <<bar, area>> /\ Stays

CardFails(e) ==
  /\ selected # NoProject
  /\ card[selected].error = "none"
  /\ card' = [card EXCEPT ![selected].error = e]
  /\ Turn
  /\ UNCHANGED <<bar, components, works, area>> /\ Stays

ComponentsAnswered(cs) ==
  /\ SectionsOn(selected, card)
  /\ components[selected].data = NoListing => components[selected].error = "none"
  /\ components[selected] # [data |-> cs, error |-> "none"]
  /\ components' = [components EXCEPT ![selected] = [data |-> cs, error |-> "none"]]
  /\ IF components[selected].data \in {cs, NoListing} THEN UNCHANGED bounds ELSE Turn
  /\ UNCHANGED <<bar, card, works, area>> /\ Stays

ComponentsFail ==
  /\ SectionsOn(selected, card)
  /\ components[selected].error = "none"
  /\ components' = [components EXCEPT ![selected].error = "failed"]
  /\ Turn
  /\ UNCHANGED <<bar, card, works, area>> /\ Stays

WorksAnswered ==
  /\ SectionsOn(selected, card)
  /\ works[selected] = Query("none")
  /\ works' = [works EXCEPT ![selected].data = "some"]
  /\ UNCHANGED bounds
  /\ UNCHANGED <<bar, card, components, area>> /\ Stays

WorksFail ==
  /\ SectionsOn(selected, card)
  /\ works[selected].error = "none"
  /\ works' = [works EXCEPT ![selected].error = "failed"]
  /\ Turn
  /\ UNCHANGED <<bar, card, components, area>> /\ Stays

-----------------------------------------------------------------------------
(* The card's lists *)

Panel(pan, wish, keep) ==
  /\ Act
  /\ UNCHANGED <<bar, asked>>
  /\ Settles(selected, hovered, pan, wish, keep)

Wished(ids, on) == [i \in DOMAIN wishes \cup ids |-> IF i \in ids THEN on ELSE wishes[i]]

HiddenAtFirst == StartHidden(Listed)         \* a mutant: an eye forgets the eyes before it

(* What the first eye finds hidden *)
HiddenSoFar == HiddenFeatures(panel, Listed)

(* An eye shows its features unless one of them is shown. *)
PressEye(ids) ==
  LET on     == ids \subseteq HiddenSoFar
      hidden == IF on THEN HiddenSoFar \ ids ELSE HiddenSoFar \cup ids
  IN /\ ids \in Eyes
     /\ Panel([panel EXCEPT !.hidden = <<hidden>>], Wished(ids, on),
              IF panel.hidden = <<>> THEN StartHidden(Listed) ELSE kept)
     /\ UNCHANGED area

PressSwitch(key) ==
  /\ RowsOffered
  /\ \E g \in ToSet(Rows) : g.type \notin panel.closed
                            /\ \E s \in ToSet(g.submissions) : s.key = key
  /\ Panel([panel EXCEPT !.off = ToggleOption(@, key)], wishes, kept)
  /\ UNCHANGED area

(* Selecting a row takes the focus from Select area's. *)
SelectRow(key) ==
  /\ key \in RowKeys(panel)
  /\ focused' = FALSE
  /\ Panel([panel EXCEPT !.key = IF @ = key THEN NoFeature ELSE key], wishes, kept)
  /\ UNCHANGED tool

(* A listed feature drawn under a click of the map, unless a tool has them *)
PicksHeard == tool # "select"

PicksInPlace(place) == [panel EXCEPT !.key = place.row]   \* a mutant: folds stay folded

PickPanel(place) ==
  [panel EXCEPT !.key = place.row,
                !.closed = @ \ {place.type},
                !.expanded = IF place.index > COLLAPSED_LABELS
                             THEN @ \cup {place.submission} ELSE @]

PickOnMap(i) ==
  /\ PicksHeard
  /\ i \in IdsListed(Listed) \cap shown.features
  /\ Panel(PickPanel(PlacesOf[Listed][i]), wishes, kept)
  /\ UNCHANGED area

ToggleType(type) ==
  /\ RowsOffered /\ \E g \in ToSet(Rows) : g.type = type
  /\ Panel([panel EXCEPT !.closed = ToggleOption(@, type)], wishes, kept)
  /\ UNCHANGED area

ShowAll(key) ==
  /\ RowsOffered
  /\ \E g \in ToSet(Rows) : /\ g.type \notin panel.closed
                            /\ \E s \in ToSet(g.submissions) :
                                 s.key = key /\ Len(s.labels) > COLLAPSED_LABELS
  /\ Panel([panel EXCEPT !.expanded = ToggleOption(@, key)], wishes, kept)
  /\ UNCHANGED area

ToggleWorks ==
  /\ WorksListed
  /\ Panel([panel EXCEPT !.worksOpen = ~ @], wishes, kept)
  /\ UNCHANGED area

-----------------------------------------------------------------------------
(* Select area beside the card: its tool, and the focus of one of its rows *)

SwitchTool ==
  /\ tool' = IF tool = "select" THEN "none" ELSE "select"
  /\ focused' = FALSE
  /\ UNCHANGED <<bar, asked, bounds>> /\ Stays

FocusRow ==
  /\ tool = "select"
  /\ focused' = ~ focused
  /\ Panel([panel EXCEPT !.key = IF focused' THEN NoFeature ELSE @], wishes, kept)
  /\ UNCHANGED tool

-----------------------------------------------------------------------------
Answers ==
  \/ \E l \in Lists : ListAnswered(l)
  \/ ListFails \/ ListAsked
  \/ \E m \in Menus : MenuAnswered(m)
  \/ MenuFails
  \/ CardAnswered \/ (\E e \in {"failed", "gone"} : CardFails(e))
  \/ (selected # NoProject /\ \E cs \in Listings[selected] : ComponentsAnswered(cs))
  \/ ComponentsFail \/ WorksAnswered \/ WorksFail

Acts ==
  \/ TryAgain \/ RetryMenu
  \/ \E g \in Groups : PressAll(g) \/ \E o \in Offered(g) : PressOption(g, o)
  \/ \E t \in {"certificateIssued", "inProgressWorks"} : PressToggle(t)
  \/ ClearFilters
  \/ \E p \in Ids : OpenDot(p) \/ OpenFootprint(p)
  \/ CloseCard
  \/ \E p \in Ids \cup {NoProject} : Hover(p)
  \/ \E ids \in Eyes : PressEye(ids)
  \/ \E s \in Submissions(Rows) : PressSwitch(s.key) \/ ShowAll(s.key)
  \/ \E key \in RowKeys(panel) : SelectRow(key)
  \/ \E i \in IdsListed(Listed) : PickOnMap(i)
  \/ \E type \in ToSet(TYPE_SECTIONS) : ToggleType(type)
  \/ ToggleWorks \/ SwitchTool \/ FocusRow

Next == Answers \/ Acts

(* The list is asked for every PROJECTS_REFRESH_MS, whatever came of the   *)
(* last try, and a request for a list that never came ends.                *)
Fairness ==
  /\ WF_list(AskList)
  /\ WF_list(list.data = NoList /\ \E l \in Lists : AnswerList(l))

Spec == Init /\ [][Next]_vars /\ Fairness

-----------------------------------------------------------------------------
(* Properties *)

AllIds == UNION {IdsListed(cs) : cs \in AllListings}
AllKeys == UNION {{SubmissionKey(c) : c \in ToSet(cs)} : cs \in AllListings}

(* Every variable keeps its type; the filters hold only options that some  *)
(* menu has offered (FiltersContext.tsx, MapLayersSection.tsx).            *)
TypeOK ==
  /\ list.data \in Lists \cup {NoList} /\ list.error \in Errors
  /\ menu.data \in Menus \cup {NoMenu} /\ menu.error \in Errors
  /\ \A g \in Groups : filters[g] \subseteq UNION {m[g] : m \in Menus}
  /\ {hovered, selected} \subseteq Ids \cup {NoProject}
  /\ panel.off \cup panel.expanded \subseteq AllKeys
  /\ panel.key \in AllIds \cup {NoFeature}
  /\ panel.closed \subseteq ToSet(TYPE_SECTIONS) /\ panel.worksOpen \in BOOLEAN
  /\ shown.features \cup shown.footprints \cup shown.selected \cup kept \subseteq AllIds
  /\ tool \in {"none", "select"} /\ focused \in BOOLEAN
  /\ acts \in 0..MaxActs /\ turns \in 0..MaxTurns

(* The number beside an option is what ticking it alone would leave, and   *)
(* the number beside "All" what ticking all that is offered would leave,   *)
(* whatever else is ticked and however the code tables and the projects    *)
(* have moved apart (filterUtils.ts, facetCounts and facetTotal).  Where   *)
(* all of it is ticked, pressing that row clears the facet instead.        *)
CountsDeliver ==
  \A g \in Groups :
    LET Left(chosen) == Cardinality(VisibleIn(list, [filters EXCEPT ![g] = chosen])) IN
    /\ \A o \in Offered(g) : Counts(g)[o] = Left({o})
    /\ Offered(g) # {} => FacetTotal(Counts(g)) = Left(Offered(g))

(* A card and a hovered name are of a project whose dot is on the map:     *)
(* neither outlives a filter, or an answer, that takes the dot away        *)
(* (ProjectsControl.tsx, the effects on visibleIds).                       *)
OnlyWhatIsDrawn ==
  list.data # NoList => {selected, hovered} \subseteq Visible \cup {NoProject}

(* The map is told only of components the open card lists; a card that     *)
(* closed, changed project or lost its project leaves nothing drawn or     *)
(* highlighted (MapLayersSection.tsx, useShowOnMap).                       *)
NothingLeftBehind ==
  shown # Nothing =>
    /\ SectionsOn(selected, card)
    /\ shown.features \cup shown.footprints \cup shown.selected \subseteq IdsListed(Listed)

(* What is highlighted is drawn, and belongs to the selected row, through  *)
(* every eye, switch and refetch (MapLayersSection.tsx, highlighted).      *)
HighlightIsDrawn ==
  shown.selected \subseteq shown.features \cap FindVariant(Rows, panel.key)

(* A feature listed as sensitive when the user first touches an eye, or    *)
(* before that, is drawn only once an eye of its own row asks for it       *)
(* (MapLayersSection.tsx, startHidden).  One that a later refetch brings   *)
(* is out of the code's reach: the eyes then start from what they left.    *)
SensitiveOnAsking ==
  LET guarded == IF panel.hidden = <<>> THEN StartHidden(Listed) ELSE kept IN
  \A i \in guarded \cap shown.features : i \in DOMAIN wishes /\ wishes[i]

(* What the user hid with an eye stays off the map while the card is open, *)
(* and a footprint so hidden is named to the layer that would draw it      *)
(* anyway, whatever other eyes, switches and refetches follow.             *)
HiddenStaysHidden ==
  \A i \in DOMAIN wishes : ~ wishes[i] =>
    /\ i \notin shown.features
    /\ \A c \in ToSet(Listed) : c.id = i /\ c.footprint => i \in shown.footprints

(* One highlight of the user's choosing: a row of the card and a row of    *)
(* Select area are never both (MapLayersSection.tsx, select, useMapPicks   *)
(* and the effect on focused).                                             *)
OneHighlight == ~ (focused /\ panel.key # NoFeature)

(* Every listed feature is in one row, the one a click of the map is sent  *)
(* to, and submissions are told apart (componentGrouping.ts).              *)
EachHasItsRow ==
  LET places == Places(Rows) IN
  /\ \A i \in IdsListed(Listed) :
       /\ Cardinality({p \in places : p.id = i}) = 1
       /\ i \in FindVariant(Rows, PlacesOf[Listed][i].row)
  /\ \A g, h \in ToSet(Rows) : \A s \in ToSet(g.submissions), t \in ToSet(h.submissions) :
       s.key = t.key => s = t

(* Whatever selects a row leaves it in view: a click of the map, which may *)
(* pick one in a folded section or behind "Show all", unfolds them         *)
(* (MapLayersSection.tsx, useMapPicks; SubmissionGroup.tsx, shownLabels).  *)
SelectedRowIsSeen ==
  [][panel'.key \notin {panel.key, NoFeature} /\ RowsOffered
       => panel'.key \in RowKeys(panel')]_vars

(* A project list that could not be loaded is loaded in the end, with      *)
(* nobody pressing Try again (useProjects.ts, refetchInterval).            *)
ListComesBack == LoadFailed ~> list.data # NoList

(* What the map draws, hovers and highlights is what the card lists and     *)
(* selects (ProjectsControl.tsx; MapLayersSection.tsx).                     *)
MapFollowsCard ==
  /\ TypeOK /\ OnlyWhatIsDrawn /\ NothingLeftBehind
  /\ HighlightIsDrawn /\ OneHighlight /\ EachHasItsRow

(* The eyes are obeyed, both ways (MapLayersSection.tsx, hidden).           *)
EyesAreObeyed == SensitiveOnAsking /\ HiddenStaysHidden

=============================================================================

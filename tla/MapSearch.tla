----------------------------- MODULE MapSearch ------------------------------
(***************************************************************************)
(* The search field over the projects of the map and the places of the BC  *)
(* Address Geocoder.  Projects are matched in the list the bar holds, as   *)
(* the user types; places are asked for after a pause, and answered when   *)
(* they like.  A row taken goes to a project or pins a place.              *)
(*                                                                         *)
(* The browser may lose the network.  A fetch of places that starts, or is *)
(* to be tried again, waits then for the network: it is pending, and not   *)
(* fetching.                                                               *)
(*                                                                         *)
(* A query is long enough to be asked, or it is NoQuery.  How names are    *)
(* matched, the pills and the camera's zoom are left out.                  *)
(***************************************************************************)
EXTENDS Projects

CONSTANTS
  Queries, NoQuery,
  Named,      \* by query, the projects whose name has it, in the list's order
  Found,      \* by query, the places the geocoder answers, in its order
  NoPlaces, NoRow, NoPin,
  MaxKeys,    \* bound: what the user does in the field, and losses of the network
  MaxMixed    \* bound: what the user does on the map while the field is used

ASSUME SearchAssumption ==
  /\ NoQuery \notin Queries
  /\ DOMAIN Named = Queries /\ DOMAIN Found = Queries
  /\ \A q \in Queries : Named[q] \in Seq(Ids) /\ Found[q] \in Seq(ToSet(Found[q]))
  /\ \A p \in Ids : NoRow # [kind |-> "project", project |-> p]
  /\ \A q \in Queries : \A n \in DOMAIN Found[q] :
       NoRow # [kind |-> "place", n |-> n, place |-> Found[q][n]]
  /\ {MaxKeys, MaxMixed} \subseteq Nat

VARIABLES
  query, debounced,  \* what is typed, and what was when the user last paused
  menuOpen, activeKey,
  places,            \* by query, the geocoder's answer
  online, held,      \* the browser's network; the queries whose fetch waits for it
  pin,
  pointed,           \* history: the row last highlighted, or pressed
  keys,
  habit              \* bound: whether the user works the card, or the field

net   == <<online, held>>
field == <<query, debounced, menuOpen, activeKey, places, net, pin, pointed, keys>>
allVars == <<vars, field, habit>>

-----------------------------------------------------------------------------
(* What the menu lists *)

ProjectRow(p) == [kind |-> "project", project |-> p]
PlaceRow(place, n) == [kind |-> "place", n |-> n, place |-> place]

MatchProjects ==
  IF query = NoQuery THEN <<>>
  ELSE LET named == Named[query]
       IN At(named, {n \in DOMAIN named : named[n] \in DOMAIN ProjectsOf(list)})

Answered == debounced # NoQuery /\ places[debounced].data # NoPlaces
PlacesListed == IF Answered THEN places[debounced].data ELSE <<>>

(* Projects first, and the keyboard walks one list. *)
RowsListed ==
  LET matches == MatchProjects
      found   == PlacesListed
  IN [n \in DOMAIN matches |-> ProjectRow(matches[n])]
       \o [n \in DOMAIN found |-> PlaceRow(found[n], n)]

KeyByPlace(row) ==                    \* a mutant: a place is known by its number
  IF row.kind = "project" THEN <<"project", row.project>> ELSE <<"place", row.n>>

(* The geocoder issues no ids: a place is its number and its name. *)
RowKey(row) ==
  IF row.kind = "project" THEN <<"project", row.project>>
  ELSE <<"place", row.n, row.place.name>>

(* 0 for a highlight that is not in the list *)
ActiveIndex ==
  LET rows == RowsListed
      at   == {n \in DOMAIN rows : RowKey(rows[n]) = activeKey}
  IN IF activeKey = NoRow \/ at = {} THEN 0 ELSE Min(at)

(* 0 is the field itself: Up passes through it, Down does not. *)
SteppedIndex(current, delta, count) ==
  IF count = 0 THEN 0
  ELSE CASE current = 0 /\ delta = -1 -> count
         [] current = count /\ delta = 1 -> 1
         [] OTHER -> current + delta

Searchable == query # NoQuery
SettledQuery == debounced = query

(* Pending, and pending and fetching *)
Pending == debounced # NoQuery /\ Waiting(places[debounced], NoPlaces)
Asking == Pending /\ debounced \notin held

Loading == Searchable /\ (~ SettledQuery \/ Asking)
PlacesFailed ==
  /\ Searchable /\ SettledQuery /\ ~ Asking
  /\ places[debounced].error # "none"
ShowDropdown == menuOpen /\ Searchable

NothingMatches == ShowDropdown /\ ~ Loading /\ RowsListed = <<>> /\ ~ PlacesFailed

-----------------------------------------------------------------------------
SearchInit ==
  /\ Init
  /\ query = NoQuery /\ debounced = NoQuery /\ menuOpen = FALSE
  /\ activeKey = NoRow /\ pointed = NoRow /\ pin = NoPin /\ keys = 0
  /\ places = [q \in Queries |-> Query(NoPlaces)]
  /\ online = TRUE /\ held = {}
  /\ habit \in {"card", "field"}

Key == keys < MaxKeys /\ keys' = keys + 1

Type(q) ==
  /\ q # query
  /\ query' = q /\ menuOpen' = TRUE
  /\ Key /\ UNCHANGED <<vars, debounced, activeKey, places, net, pin, pointed>>

(* A fetch that starts offline is held. *)
Asked(q) == places' = [places EXCEPT ![q] = Observed(@, NoPlaces)]
HeldOf(q) == IF online \/ places[q].data # NoPlaces THEN {} ELSE {q}

(* PLACE_SEARCH_DEBOUNCE_MS without a key: the query is asked, unless it   *)
(* was answered before; the one it replaces is aborted.                    *)
Pause ==
  /\ debounced # query
  /\ debounced' = query
  /\ IF query = NoQuery THEN UNCHANGED <<places, held>>
     ELSE Asked(query) /\ held' = held \cup HeldOf(query)
  /\ UNCHANGED <<vars, query, menuOpen, activeKey, online, pin, pointed, keys>>

PlacesAnswered ==
  /\ Asking
  /\ places' = [places EXCEPT ![debounced].data = Found[debounced]]
  /\ UNCHANGED <<vars, query, debounced, menuOpen, activeKey, net, pin, pointed, keys>>

PlacesFail ==
  /\ Asking /\ turns < MaxTurns
  /\ places' = [places EXCEPT ![debounced].error = "failed"]
  /\ turns' = turns + 1
  /\ UNCHANGED <<bar, asked, opened, area, acts>>
  /\ UNCHANGED <<query, debounced, menuOpen, activeKey, net, pin, pointed, keys>>

(* The network: a try lost with it is not repeated before it is back.      *)
GoOffline ==
  /\ online /\ online' = FALSE
  /\ Key /\ UNCHANGED <<vars, query, debounced, menuOpen, activeKey, places, held, pin, pointed>>

HoldRetry ==
  /\ Asking /\ ~ online
  /\ held' = held \cup {debounced}
  /\ UNCHANGED <<vars, query, debounced, menuOpen, activeKey, places, online, pin, pointed, keys>>

(* What was held goes on, in view or not, and a query in view that failed  *)
(* is asked again.                                                         *)
BackOnline ==
  /\ ~ online /\ online' = TRUE /\ held' = {}
  /\ \E unseen \in SUBSET (held \ {debounced}) :
       places' = [q \in Queries |->
         IF q \in unseen THEN [places[q] EXCEPT !.data = Found[q]]
         ELSE IF q = debounced THEN Observed(places[q], NoPlaces) ELSE places[q]]
  /\ UNCHANGED <<vars, query, debounced, menuOpen, activeKey, pin, pointed, keys>>

(* The field, by keyboard *)
Arrow(delta) ==
  /\ IF ShowDropdown
       THEN LET next == SteppedIndex(ActiveIndex, delta, Len(RowsListed)) IN
            /\ activeKey' = IF next = 0 THEN NoRow ELSE RowKey(RowsListed[next])
            /\ pointed' = IF next = 0 THEN NoRow ELSE RowsListed[next]
            /\ UNCHANGED menuOpen
       ELSE menuOpen' = TRUE /\ UNCHANGED <<activeKey, pointed>>
  /\ Key /\ UNCHANGED <<vars, query, debounced, places, net, pin>>

Escape ==
  /\ menuOpen
  /\ menuOpen' = FALSE /\ activeKey' = NoRow
  /\ Key /\ UNCHANGED <<vars, query, debounced, places, net, pin, pointed>>

(* Leaving the field keeps its highlight. *)
FocusOrBlur ==
  /\ menuOpen' = ~ menuOpen
  /\ Key /\ UNCHANGED <<vars, query, debounced, activeKey, places, net, pin, pointed>>

PinFor(row) ==
  IF row.kind = "place" THEN row
  ELSE IF row.project \in Visible THEN NoPin ELSE row

Take(row) ==
  /\ pin' = PinFor(row)
  /\ menuOpen' = FALSE /\ activeKey' = NoRow
  /\ IF row.kind = "project" THEN FindProject(row.project) ELSE UNCHANGED vars
  /\ Key /\ UNCHANGED <<query, debounced, places, net>>

Enter ==
  /\ ShowDropdown /\ ActiveIndex > 0
  /\ Take(RowsListed[ActiveIndex])
  /\ UNCHANGED pointed

PressRow(n) ==
  /\ ShowDropdown
  /\ Take(RowsListed[n])
  /\ pointed' = RowsListed[n]

ClearField ==
  /\ query # NoQuery
  /\ query' = NoQuery /\ debounced' = NoQuery
  /\ menuOpen' = FALSE /\ activeKey' = NoRow /\ pin' = NoPin
  /\ Key /\ UNCHANGED <<vars, places, net, pointed>>

-----------------------------------------------------------------------------
InField ==
  \/ \E q \in Queries \cup {NoQuery} : Type(q)
  \/ Pause \/ PlacesAnswered \/ PlacesFail
  \/ GoOffline \/ HoldRetry \/ BackOnline
  \/ \E delta \in {1, -1} : Arrow(delta)
  \/ Escape \/ FocusOrBlur \/ Enter \/ ClearField
  \/ \E n \in DOMAIN RowsListed : PressRow(n)

(* What the map does beside the field: the list, the toggles, the card *)
OnTheMap ==
  \/ \E l \in Lists : ListAnswered(l)
  \/ \E t \in {"certificateIssued", "inProgressWorks"} : PressToggle(t)
  \/ ClearFilters \/ CloseCard

SearchNext ==
  /\ \/ habit = "card" /\ Next /\ UNCHANGED field
     \/ /\ habit = "field"
        /\ InField \/ (OnTheMap /\ UNCHANGED field)
        /\ acts' <= MaxMixed
  /\ UNCHANGED habit

(* Besides the list's: the pause ends, and so does a request for places,   *)
(* if only by being held.  The network need not come back.                 *)
SearchFairness ==
  /\ WF_debounced(habit = "field" /\ debounced # query /\ debounced' = query)
  /\ WF_<<places, held>>(
       /\ habit = "field" /\ Asking
       /\ \/ places' = [places EXCEPT ![debounced].data = Found[debounced]] /\ UNCHANGED held
          \/ ~ online /\ held' = held \cup {debounced} /\ UNCHANGED places)

SearchSpec == SearchInit /\ [][SearchNext]_allVars /\ Fairness /\ SearchFairness

-----------------------------------------------------------------------------
(* Properties *)

(* Where Enter goes is what the user highlighted: that project, or the     *)
(* place of that number and name, however the list changed under the       *)
(* highlight (MapSearch.tsx, activeIndex; searchUtils.ts, rowKey).  The    *)
(* first places of two queries that have one name are one row to the code, *)
(* and one here, though they may lie in two localities.                    *)
SameEntry(row, other) ==
  /\ other # NoRow /\ row.kind = other.kind
  /\ row.kind = "place" => row.n = other.n /\ row.place.name = other.place.name
  /\ row.kind = "project" => row.project = other.project

EnterTakesTheHighlighted ==
  [][habit = "field" =>
       /\ pin' \notin {pin, NoPin} => SameEntry(pin', pointed')
       /\ selected' \notin {selected, NoProject} =>
            SameEntry(ProjectRow(selected'), pointed')]_allVars

(* "No projects or places match" is said only of the query in the field,   *)
(* when the geocoder has answered that very query with nothing and no      *)
(* project of the list has it (MapSearch.tsx, settled; SearchDropdown.tsx) *)
(* - but for a query held offline, of which the code says so unasked.      *)
SaysNothingOnlyOfNothing ==
  NothingMatches /\ query \notin held =>
    /\ places[query].data = <<>> /\ Found[query] = <<>>
    /\ \A p \in ToSet(Named[query]) : p \notin DOMAIN ProjectsOf(list)

(* The field does not say "Searching" for ever: a query that was aborted   *)
(* is asked again when it is typed again, and a failure or the loss of the *)
(* network ends it (usePlaceSearch.ts; MapSearch.tsx, loading).            *)
SearchSettles == Loading ~> ~ Loading

(* The field means what it says: while no fetch is held for want of a       *)
(* network an empty answer is one, and Enter takes the row highlighted      *)
(* (MapSearch.tsx).                                                         *)
FieldMeansWhatItSays ==
  []SaysNothingOnlyOfNothing /\ EnterTakesTheHighlighted

(* Left alone, the list of projects and the search come to rest             *)
(* (useProjects.ts; usePlaceSearch.ts).                                     *)
ComesToRest == ListComesBack /\ SearchSettles

=============================================================================

----------------------------- MODULE PanelCache -----------------------------
(***************************************************************************)
(* The favourites of the widget: two lists painted before they are stored, *)
(* over the two tables of map-api.  Every change of a list drops the GET of *)
(* it that is under way, is put back if it is refused, and is followed by  *)
(* another GET.  A request is one step of map-api here; Favourites has the *)
(* steps inside it.  The order of a list, its notices and what is read     *)
(* aloud are left out.                                                     *)
(***************************************************************************)
EXTENDS Integers, FiniteSets, Sequences, SequencesExt

CONSTANTS
  Layers,         \* catalogue layers that can be starred
  NoLayer,
  Restricted,     \* those of them a user was given
  Names,          \* names a folder may be given
  DefaultName,    \* what a blank one becomes
  Layer0,         \* favourites before the widget is opened: layer of each row
  Folder0,        \* the folder each of them is in
  Shelves0,       \* folders before the widget is opened, by id
  LayerCap, FolderCap,    \* MAX_FAVOURITE_LAYERS, MAX_FAVOURITE_FOLDERS
  MaxCalls,       \* bound: changes the user makes
  MaxFaults       \* bound: calls that fail or lose their answer, and GETs that fail

Top == 0                                          \* folderId null

ASSUME PanelAssumption ==
  /\ NoLayer \notin Layers /\ Restricted \subseteq Layers
  /\ DefaultName \in Names
  /\ Layer0 \in Seq(Layers) /\ IsInjective(Layer0)
  /\ Shelves0 \in Seq([name : Names, isCollapsed : BOOLEAN])
  /\ Folder0 \in [DOMAIN Layer0 -> {Top} \cup DOMAIN Shelves0]
  /\ {LayerCap, FolderCap, MaxCalls, MaxFaults} \subseteq Nat

VARIABLES
  given,          \* the layer each favourite id was handed out for, by id
  stored,         \* folder of each row of user_favourite_layers, by id
  made,           \* folder ids handed out
  shelves,        \* user_favourite_folders, by id
  favourites,     \* the favourites painted: id and folder of each layer
  folders,        \* the folders painted, by id
  favouritesStatus, foldersStatus,    \* of their queries
  favouritesGet, foldersGet,      \* the GETs under way
  calls,          \* mutations under way, by number
  sent,           \* changes made so far
  lastPendingId,  \* stand-ins handed out
  starPending,    \* favouritePendingIds
  editing,        \* the folder being named
  filing,         \* the layer held in a folder that is being saved
  faults, misses

tables == <<given, stored, made, shelves>>
favouriteList == <<favourites, favouritesStatus, favouritesGet>>
folderList    == <<folders, foldersStatus, foldersGet>>
lists  == <<favouriteList, folderList>>
panel  == <<starPending, editing, filing>>
vars == <<tables, lists, calls, sent, lastPendingId, panel, faults, misses>>

Shelf == [name : Names, isCollapsed : BOOLEAN]
Entry == [id : Int, folder : Int]

Over(f, D, S) == DOMAIN f \subseteq D /\ f \in [DOMAIN f -> S]
Without(f, D) == [x \in DOMAIN f \ D |-> f[x]]
With(f, x, y) == [z \in DOMAIN f \cup {x} |-> IF z = x THEN y ELSE f[z]]

Idle  == [step |-> "idle", rows |-> <<>>]
Asked == [step |-> "asked", rows |-> <<>>]

NotEditing == [kind |-> "none", layer |-> NoLayer]
NoFiling   == [layer |-> NoLayer, folder |-> Top]

NeverPending(id) == FALSE                                    \* a mutant

isPendingId(id) == id < 0

-----------------------------------------------------------------------------
(* What the panel shows and offers *)

Toggles(C) == {n \in DOMAIN C : C[n].op \in {"star", "unstar"}}

(* content: with nothing cached a list that is loading or has failed hides  *)
(* the folders and the draft as well                                        *)
ListShown == favouritesStatus = "success" \/ DOMAIN favourites # {}

(* A layer is shown in the draft that was opened for it, or held in the one *)
(* that is being saved.                                                     *)
Drafted == IF editing.kind = "draft" THEN editing.layer ELSE NoLayer
Shown   == DOMAIN favourites \ {Drafted}
ShownFolder(l) == IF l = filing.layer THEN filing.folder ELSE favourites[l].folder

(* groupByFolder *)
TopLevel    == {l \in Shown : ShownFolder(l) \notin DOMAIN folders}
InFolder(f) == {l \in Shown : ShownFolder(l) = f}

AtFolderCap == Cardinality(DOMAIN folders) >= FolderCap

StarEnabled(l) == l \notin starPending \cup Restricted

(* moveDestinations: the current one is where the layer is shown *)
Current(l) == IF ShownFolder(l) \in DOMAIN folders THEN ShownFolder(l) ELSE Top

(* MoveToGroupMenu *)
Offered(l, f) ==
  l \notin starPending /\ ~isPendingId(f) /\ f # Current(l)

(* removeFavourite and moveFavourite have the last word *)
Removable(l) ==
  l \in DOMAIN favourites \ Restricted /\ ~isPendingId(favourites[l].id)

Movable(l, f) ==
  /\ l \in DOMAIN favourites /\ ~isPendingId(favourites[l].id)
  /\ ~isPendingId(f) /\ favourites[l].folder # f

-----------------------------------------------------------------------------
(* Mutations: onMutate, and what is sent *)

Call(op, l, id, f, shelf) ==
  [op |-> op, layer |-> l, id |-> id, folder |-> f, shelf |-> shelf,
   favourites |-> favourites, folders |-> folders, step |-> "sent"]

Send(c) ==
  /\ sent < MaxCalls
  /\ sent' = sent + 1
  /\ calls' = With(calls, sent + 1, c)

PaintFavourites(entries) ==
  favourites' = entries /\ favouritesStatus' = "success" /\ favouritesGet' = Idle

PaintFolders(entries) ==
  folders' = entries /\ foldersStatus' = "success" /\ foldersGet' = Idle


AddFavourite(l) ==
  /\ l \notin DOMAIN favourites /\ StarEnabled(l)
  /\ lastPendingId' = lastPendingId - 1
  /\ Send(Call("star", l, lastPendingId', Top, <<>>))
  /\ PaintFavourites(With(favourites, l, [id |-> lastPendingId', folder |-> Top]))
  /\ starPending' = starPending \cup {l}
  /\ UNCHANGED <<tables, folderList, editing, filing, faults, misses>>

RemoveFavourite(l) ==
  /\ StarEnabled(l) /\ Removable(l)
  /\ Send(Call("unstar", l, favourites[l].id, Top, <<>>))
  /\ PaintFavourites(Without(favourites, {l}))
  /\ starPending' = starPending \cup {l}
  /\ UNCHANGED <<tables, folderList, lastPendingId, editing, filing,
                 faults, misses>>

MoveFavourite(l, f) ==
  /\ Movable(l, f)
  /\ Send(Call("move", l, favourites[l].id, f, <<>>))
  /\ PaintFavourites([favourites EXCEPT ![l].folder = f])
  /\ UNCHANGED <<tables, folderList, lastPendingId, panel, faults, misses>>

MoveFromMenu(l, f) == l \in Shown /\ Offered(l, f) /\ MoveFavourite(l, f)

(* A drag asks nothing of the menu; a drafted row has no grip *)
DropOn(l, f) == l \in Shown /\ MoveFavourite(l, f)

(* "New folder", from the header or from a layer's menu *)
OpenDraft(l) ==
  /\ ~AtFolderCap /\ sent < MaxCalls
  /\ IF l = NoLayer THEN editing.kind # "draft" ELSE l \in Shown \ starPending /\ ListShown
  /\ editing' = [kind |-> "draft", layer |-> l]
  /\ UNCHANGED <<tables, lists, calls, sent, lastPendingId, starPending, filing,
                 faults, misses>>

CancelEdit ==
  /\ editing # NotEditing /\ ListShown
  /\ editing' = NotEditing
  /\ UNCHANGED <<tables, lists, calls, sent, lastPendingId, starPending, filing,
                 faults, misses>>

(* createFolder; the layer of the draft is held until the folder is saved *)
CommitDraft(name) ==
  LET shelf == [name |-> name, isCollapsed |-> FALSE]
  IN /\ editing.kind = "draft" /\ ListShown
     /\ editing' = NotEditing
     /\ lastPendingId' = lastPendingId - 1
     /\ Send(Call("create", editing.layer, Top, lastPendingId', shelf))
     /\ PaintFolders(With(folders, lastPendingId', shelf))
     /\ filing' = IF editing.layer = NoLayer THEN filing
                  ELSE [layer |-> editing.layer, folder |-> lastPendingId']
     /\ UNCHANGED <<tables, favouriteList, starPending, faults, misses>>

(* A patch holds only what is changed *)
Patched(shelf, patch) ==
  [k \in DOMAIN shelf |-> IF k \in DOMAIN patch THEN patch[k] ELSE shelf[k]]

UpdateFolder(f, patch) ==
  /\ Send(Call("update", NoLayer, Top, f, patch))
  /\ PaintFolders([folders EXCEPT ![f] = Patched(@, patch)])
  /\ UNCHANGED <<tables, favouriteList, lastPendingId, starPending,
                 filing, faults, misses>>

(* From the name being typed over to Enter or blur.  A folder that is still  *)
(* being saved keeps its name.                                              *)
RenameFolder(f, name) ==
  /\ f \in DOMAIN folders /\ ~isPendingId(f)
  /\ UpdateFolder(f, [name |-> name])
  /\ UNCHANGED editing

SetFolderCollapsed(f) ==
  /\ f \in DOMAIN folders /\ ~isPendingId(f)
  /\ UpdateFolder(f, [isCollapsed |-> ~folders[f].isCollapsed])
  /\ UNCHANGED editing

DeleteFolder(f) ==
  /\ f \in DOMAIN folders /\ ~isPendingId(f)
  /\ Send(Call("ungroup", NoLayer, Top, f, <<>>))
  /\ PaintFolders(Without(folders, {f}))
  /\ UNCHANGED <<tables, favouriteList, lastPendingId, panel, faults,
                 misses>>

-----------------------------------------------------------------------------
(* The requests in map-api *)

Done(n)        == calls' = [calls EXCEPT ![n].step = "done"]
DoneWith(n, i) == calls' = [calls EXCEPT ![n].step = "done", ![n].id = i]
Refuse(n)      == calls' = [calls EXCEPT ![n].step = "refused"]

RowsOf(l) == {i \in DOMAIN stored : given[i] = l}

(* add_favourite: the cap first, then the row already there or a new one *)
ServeStar(n, l) ==
  /\ UNCHANGED <<made, shelves>>
  /\ IF Cardinality(DOMAIN stored) >= LayerCap
     THEN Refuse(n) /\ UNCHANGED <<given, stored>>
     ELSE IF RowsOf(l) # {}
     THEN \E i \in RowsOf(l) : DoneWith(n, i) /\ UNCHANGED <<given, stored>>
     ELSE /\ given' = Append(given, l)
          /\ stored' = With(stored, Len(given) + 1, Top)
          /\ DoneWith(n, Len(given) + 1)

(* 204 whether or not the row was there *)
ServeUnstar(n, i) ==
  /\ stored' = Without(stored, {i})
  /\ Done(n)
  /\ UNCHANGED <<given, made, shelves>>

ServeMove(n, i, f) ==
  /\ IF i \in DOMAIN stored /\ f \in {Top} \cup DOMAIN shelves
     THEN stored' = [stored EXCEPT ![i] = f] /\ Done(n)
     ELSE Refuse(n) /\ UNCHANGED stored
  /\ UNCHANGED <<given, made, shelves>>

ServeCreate(n, shelf) ==
  /\ IF Cardinality(DOMAIN shelves) >= FolderCap
     THEN Refuse(n) /\ UNCHANGED <<made, shelves>>
     ELSE /\ made' = made + 1
          /\ shelves' = With(shelves, made', shelf)
          /\ DoneWith(n, made')
  /\ UNCHANGED <<given, stored>>

ServeUpdate(n, f, patch) ==
  /\ IF f \in DOMAIN shelves
     THEN shelves' = [shelves EXCEPT ![f] = Patched(@, patch)] /\ Done(n)
     ELSE Refuse(n) /\ UNCHANGED shelves
  /\ UNCHANGED <<given, stored, made>>

ServeUngroup(n, f) ==
  /\ shelves' = Without(shelves, {f})
  /\ stored' = [i \in DOMAIN stored |-> IF stored[i] = f THEN Top ELSE stored[i]]
  /\ Done(n)
  /\ UNCHANGED <<given, made>>

Serve(n) ==
  LET c == calls[n]
  IN /\ c.step = "sent"
     /\ CASE c.op = "star"    -> ServeStar(n, c.layer)
          [] c.op = "unstar"  -> ServeUnstar(n, c.id)
          [] c.op = "move"    -> ServeMove(n, c.id, c.folder)
          [] c.op = "create"  -> ServeCreate(n, c.shelf)
          [] c.op = "update"  -> ServeUpdate(n, c.folder, c.shelf)
          [] c.op = "ungroup" -> ServeUngroup(n, c.folder)
     /\ UNCHANGED <<lists, sent, lastPendingId, panel, faults, misses>>

(* A call that never arrives, and an answer that does not come back *)
Lost(n) ==
  /\ faults + misses < MaxFaults /\ calls[n].step \in {"sent", "done"}
  /\ faults' = faults + 1
  /\ Refuse(n)
  /\ UNCHANGED <<tables, lists, sent, lastPendingId, panel, misses>>

-----------------------------------------------------------------------------
(* The answers in the widget *)

Answered(n) == calls[n].step \in {"done", "refused"}

(* onError puts the list back, onSuccess may write it; a write clears the   *)
(* error of the last GET                                                    *)
FavouritesAfter(c, entries) ==
  /\ favourites' = IF c.step = "refused" THEN c.favourites ELSE entries
  /\ favouritesStatus' = IF c.step = "refused" \/ entries # favourites
                         THEN "success" ELSE favouritesStatus

FoldersAfter(c, entries) ==
  /\ folders' = IF c.step = "refused" THEN c.folders ELSE entries
  /\ foldersStatus' = IF c.step = "refused" \/ entries # folders
                      THEN "success" ELSE foldersStatus
  /\ foldersGet' = Asked

(* settle: while the other toggle is out the list is left alone *)
Settled(C) == Toggles(C) = {}

AnswerToggle(n) ==
  LET c == calls[n]
  IN /\ n \in Toggles(calls) /\ Answered(n)
     /\ calls' = Without(calls, {n})
     /\ FavouritesAfter(c, IF c.op = "star" /\ c.layer \in DOMAIN favourites
                          THEN [favourites EXCEPT ![c.layer].id = c.id]
                          ELSE favourites)
     /\ starPending' = starPending \ {c.layer}
     /\ favouritesGet' = IF Settled(calls') THEN Asked ELSE favouritesGet
     /\ UNCHANGED <<tables, folderList, sent, lastPendingId, editing,
                    filing, faults, misses>>

AnswerMove(n) ==
  LET c == calls[n]
  IN /\ c.op = "move" /\ Answered(n)
     /\ calls' = Without(calls, {n})
     /\ FavouritesAfter(c, favourites)
     /\ favouritesGet' = Asked
     /\ UNCHANGED <<tables, folderList, sent, lastPendingId, panel,
                    faults, misses>>

(* deleteFolder refetches both: the layers inside came back out *)
AnswerFolder(n) ==
  LET c == calls[n]
  IN /\ c.op \in {"update", "ungroup"} /\ Answered(n)
     /\ calls' = Without(calls, {n})
     /\ FoldersAfter(c, folders)
     /\ favouritesGet' = IF c.op = "ungroup" THEN Asked ELSE favouritesGet
     /\ UNCHANGED <<tables, favourites, favouritesStatus, sent, lastPendingId, panel, faults, misses>>

(* The stand-in is traded for the row *)
Renumbered(pending, id) ==
  [f \in (DOMAIN folders \ {pending}) \cup {id} |->
     IF f = id THEN folders[pending] ELSE folders[f]]

HeldForGood(f) == filing                                     \* a mutant

ReleasedFiling(f) == NoFiling

(* The folder is saved or refused.  If it was opened to file a layer, the   *)
(* layer is moved now; either way it is held no longer.                     *)
AnswerCreate(n) ==
  LET c == calls[n]
      moves == c.step = "done" /\ Movable(c.layer, c.id)
  IN /\ c.op = "create" /\ Answered(n)
     /\ FoldersAfter(c, IF c.folder \in DOMAIN folders
                       THEN Renumbered(c.folder, c.id) ELSE folders)
     /\ filing' = IF c.layer = NoLayer THEN filing ELSE ReleasedFiling(c.folder)
     /\ IF moves
        THEN /\ calls' = With(Without(calls, {n}), n,
                              Call("move", c.layer, favourites[c.layer].id, c.id, <<>>))
             /\ PaintFavourites([favourites EXCEPT ![c.layer].folder = c.id])
        ELSE /\ calls' = Without(calls, {n})
             /\ UNCHANGED favouriteList
     /\ UNCHANGED <<tables, sent, lastPendingId, starPending, editing, faults, misses>>

-----------------------------------------------------------------------------
(* The GETs: served, then painted *)

FavouritesServed ==
  /\ favouritesGet.step = "asked"
  /\ favouritesGet' =
       [step |-> "served",
        rows |-> [l \in {given[i] : i \in DOMAIN stored} |->
                    LET i == CHOOSE j \in RowsOf(l) : TRUE
                    IN [id |-> i, folder |-> stored[i]]]]
  /\ UNCHANGED <<tables, favourites, favouritesStatus, folderList, calls, sent,
                 lastPendingId, panel, faults, misses>>

FavouritesArrive ==
  /\ favouritesGet.step = "served"
  /\ PaintFavourites(favouritesGet.rows)
  /\ UNCHANGED <<tables, folderList, calls, sent, lastPendingId, panel,
                 faults, misses>>

FoldersServed ==
  /\ foldersGet.step = "asked"
  /\ foldersGet' = [step |-> "served", rows |-> shelves]
  /\ UNCHANGED <<tables, favouriteList, folders, foldersStatus, calls, sent,
                 lastPendingId, panel, faults, misses>>

FoldersArrive ==
  /\ foldersGet.step = "served"
  /\ PaintFolders(foldersGet.rows)
  /\ UNCHANGED <<tables, favouriteList, calls, sent, lastPendingId,
                 panel, faults, misses>>

(* What was cached stays, under a notice with "Try again" *)
GetFails ==
  /\ faults + misses < MaxFaults
  /\ misses' = misses + 1
  /\ \/ /\ favouritesGet # Idle /\ favouritesGet' = Idle
        /\ favouritesStatus' = "error"
        /\ UNCHANGED <<favourites, folderList>>
     \/ /\ foldersGet # Idle /\ foldersGet' = Idle
        /\ foldersStatus' = "error"
        /\ UNCHANGED <<folders, favouriteList>>
  /\ UNCHANGED <<tables, calls, sent, lastPendingId, panel, faults>>

(* "Try again" of either list, and the network coming back to a list that   *)
(* is stale: not one that a call out has just written                       *)
Stale(status) == status = "success" /\ DOMAIN calls = {}

Retry ==
  /\ \/ /\ favouritesStatus = "error" \/ Stale(favouritesStatus)
        /\ favouritesGet = Idle
        /\ favouritesGet' = Asked
        /\ UNCHANGED <<favourites, favouritesStatus, folderList>>
     \/ /\ foldersStatus = "error" \/ Stale(foldersStatus)
        /\ foldersGet = Idle
        /\ foldersGet' = Asked
        /\ UNCHANGED <<folders, foldersStatus, favouriteList>>
  /\ UNCHANGED <<tables, calls, sent, lastPendingId, panel, faults, misses>>

-----------------------------------------------------------------------------
Init ==
  /\ given = Layer0 /\ stored = Folder0
  /\ made = Len(Shelves0) /\ shelves = Shelves0
  /\ favourites = <<>> /\ folders = <<>>
  /\ favouritesGet = Asked /\ foldersGet = Asked
  /\ favouritesStatus = "pending" /\ foldersStatus = "pending"
  /\ calls = <<>> /\ sent = 0 /\ lastPendingId = 0
  /\ starPending = {} /\ editing = NotEditing /\ filing = NoFiling
  /\ faults = 0 /\ misses = 0

(* What the row of a folder offers: its chevron, its menu, and a place to   *)
(* drop a layer                                                             *)
FolderRow(f) ==
  \/ SetFolderCollapsed(f) \/ DeleteFolder(f)
  \/ \E name \in Names \ {folders[f].name} : RenameFolder(f, name)
  \/ \E l \in Layers : DropOn(l, f)

User ==
  \/ \E l \in Layers :
       \/ AddFavourite(l) \/ RemoveFavourite(l)
       \/ \E f \in {Top} \cup DOMAIN folders : MoveFromMenu(l, f)
       \/ DropOn(l, Top)
  \/ \E l \in Layers \cup {NoLayer} : OpenDraft(l)
  \/ ListShown /\ \E f \in DOMAIN folders : FolderRow(f)
  \/ CancelEdit
  \/ \E name \in Names : CommitDraft(name)
  \/ Retry

Answer(n) == AnswerToggle(n) \/ AnswerMove(n) \/ AnswerFolder(n) \/ AnswerCreate(n)

Get == FavouritesServed \/ FavouritesArrive \/ FoldersServed \/ FoldersArrive

Next ==
  \/ User
  \/ \E n \in DOMAIN calls : Serve(n) \/ Lost(n) \/ Answer(n)
  \/ Get \/ GetFails

Spec == Init /\ [][Next]_vars

(* Requests are answered; nobody has to touch the panel *)
Fairness ==
  /\ WF_vars(\E n \in DOMAIN calls : Serve(n) \/ Answer(n))
  /\ WF_vars(FavouritesServed \/ FavouritesArrive)
  /\ WF_vars(FoldersServed \/ FoldersArrive)

FairSpec == Spec /\ Fairness

-----------------------------------------------------------------------------
IsCall(c) ==
  /\ c.op \in {"star", "unstar", "move", "create", "update", "ungroup"}
  /\ c.layer \in Layers \cup {NoLayer} /\ {c.id, c.folder} \subseteq Int
  /\ Over(c.shelf, {"name", "isCollapsed"}, Names \cup BOOLEAN)
  /\ Over(c.favourites, Layers, Entry) /\ DOMAIN c.folders \subseteq Int
  /\ c.step \in {"sent", "done", "refused"}

TypeOK ==
  /\ given \in Seq(Layers) /\ made \in Nat
  /\ Over(stored, DOMAIN given, Nat) /\ Over(shelves, 1..made, Shelf)
  /\ Over(favourites, Layers, Entry)
  /\ DOMAIN folders \subseteq Int /\ folders \in [DOMAIN folders -> Shelf]
  /\ {favouritesStatus, foldersStatus} \subseteq {"pending", "error", "success"}
  /\ {favouritesGet.step, foldersGet.step} \subseteq {"idle", "asked", "served"}
  /\ DOMAIN calls \subseteq 1..sent /\ \A n \in DOMAIN calls : IsCall(calls[n])
  /\ starPending \subseteq Layers /\ editing.kind \in {"none", "draft"}
  /\ {editing.layer, filing.layer} \subseteq Layers \cup {NoLayer}
  /\ {sent, faults, misses} \subseteq Nat /\ lastPendingId \in Int

(* However lists are put back and refetched in the meantime, a DELETE or a  *)
(* PATCH names a row that map-api handed out for that layer, and a folder   *)
(* it handed out, never a stand-in (pendingIds).                            *)
CallsNameStoredRows ==
  \A n \in DOMAIN calls :
    LET c == calls[n]
    IN /\ c.op \in {"unstar", "move"} => /\ c.id \in DOMAIN given
                                         /\ given[c.id] = c.layer
       /\ c.op = "move" => c.folder \in 0..made
       /\ c.op \in {"update", "ungroup"} => c.folder \in 1..made

(* The two lists are fetched, painted and put back separately and may       *)
(* disagree: every favourite is still in exactly one place of the panel     *)
(* (groupByFolder).                                                         *)
EveryFavouriteShownOnce ==
  \A l \in DOMAIN favourites \ {Drafted} :
    Cardinality({f \in DOMAIN folders : l \in InFolder(f)}) =
      IF l \in TopLevel THEN 0 ELSE 1

PanelIsTables ==
  /\ folders = shelves
  /\ DOMAIN favourites = {given[i] : i \in DOMAIN stored}
  /\ \A i \in DOMAIN stored : favourites[given[i]] = [id |-> i, folder |-> stored[i]]

(* When nothing is under way the panel shows what is stored, however the    *)
(* changes overlapped and whichever of them was refused or lost its answer. *)
SettledPanelIsTables ==
  DOMAIN calls = {} /\ favouritesGet = Idle /\ foldersGet = Idle /\ misses = 0 =>
    PanelIsTables

(* Once nobody touches the panel it comes to show what is stored, if the    *)
(* lists can be fetched.                                                    *)
AgreesInTheEnd == <>[](misses > 0 \/ PanelIsTables)

(* A layer held in a folder that is being saved is let go again, whether    *)
(* the folder is saved, refused, or overtaken by another.                   *)
HeldNotForEver == filing # NoFiling ~> filing = NoFiling

(* A call names what map-api stores, every favourite is in one place of the *)
(* panel at any time, and a settled panel is the tables (pendingIds.ts;     *)
(* grouping.ts; useFavouriteLayers.ts, settle).                             *)
PanelIsTrue ==
  TypeOK /\ CallsNameStoredRows /\ EveryFavouriteShownOnce /\ SettledPanelIsTables

(* Left alone, the panel shows what is stored and holds no layer back       *)
(* (useFavouriteLayers.ts, settle; FavouritesSection.tsx, filing).          *)
ComesToRest == AgreesInTheEnd /\ HeldNotForEver

=============================================================================

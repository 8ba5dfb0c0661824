---------------------------- MODULE CachesProofs ----------------------------
(***************************************************************************)
(* Proofs about the two caches of the system.                              *)
(*                                                                         *)
(* PanelCache, for any layers, folders, calls and faults: what is sent     *)
(* names rows of map-api, a favourite is in one place of the panel at a    *)
(* time, and a settled panel is the two tables.                            *)
(*                                                                         *)
(* UpstreamReads, for any number of threads, tokens, locks, versions and   *)
(* failures: one refresh at a time, no token back that was refused, no     *)
(* answer behind one given before, and how many search a key.              *)
(***************************************************************************)
EXTENDS PanelCache, UpstreamReads, FiniteSetTheorems, TLAPS

-----------------------------------------------------------------------------
(* The inductive invariant: types, and ids *)

Lists == UNION {[D -> Entry] : D \in SUBSET Layers}
Shelvings == UNION {[D -> Shelf] : D \in SUBSET Int}
Patches == UNION {[D -> Names \cup BOOLEAN] : D \in SUBSET {"name", "isCollapsed"}}

Record == [op : {"star", "unstar", "move", "create", "update", "ungroup"},
           layer : Layers \cup {NoLayer}, id : Int, folder : Int, shelf : Patches,
           favourites : Lists, folders : Shelvings, step : {"sent", "done", "refused"}]

Status == {"pending", "error", "success"}
Progress == {"idle", "asked", "served"}

(* An id that is not a stand-in was handed out for this very layer, or is   *)
(* that of a folder.                                                        *)
Own(g, id, l) == id \in DOMAIN g /\ g[id] = l
OwnIds(g, entries) ==
  \A l \in DOMAIN entries : ~isPendingId(entries[l].id) => Own(g, entries[l].id, l)
OwnFolders(m, entries) == \A f \in DOMAIN entries : ~isPendingId(f) => f \in 1..m

IsPatch(p) ==
  /\ "name" \in DOMAIN p => p["name"] \in Names
  /\ "isCollapsed" \in DOMAIN p => p["isCollapsed"] \in BOOLEAN

(* What a call is to name, has been told, and will put back if refused *)
NamesRows(g, m, c) ==
  /\ (c.op \in {"unstar", "move"} \/ (c.op = "star" /\ c.step = "done")) =>
       Own(g, c.id, c.layer)
  /\ c.op = "star" => c.layer \in Layers
  /\ c.op = "move" => c.folder \in 0..m
  /\ c.op \in {"update", "ungroup"} => c.folder \in 1..m
  /\ c.op = "create" => c.shelf \in Shelf /\ (c.step = "done" => c.id \in 1..m)
  /\ c.op = "update" => IsPatch(c.shelf)
  /\ OwnIds(g, c.favourites) /\ OwnFolders(m, c.folders)

TablesHold ==
  /\ given \in Seq(Layers) /\ made \in Nat
  /\ Over(stored, DOMAIN given, Nat) /\ Over(shelves, 1..made, Shelf)
FavouritesHold ==
  /\ favourites \in Lists /\ favouritesGet.rows \in Lists
  /\ OwnIds(given, favourites) /\ OwnIds(given, favouritesGet.rows)
  /\ favouritesStatus \in Status /\ favouritesGet.step \in Progress
FoldersHold ==
  /\ folders \in Shelvings /\ foldersGet.rows \in Shelvings
  /\ OwnFolders(made, folders) /\ OwnFolders(made, foldersGet.rows)
  /\ foldersStatus \in Status /\ foldersGet.step \in Progress
CallsHold ==
  /\ sent \in Nat /\ DOMAIN calls \subseteq 1..sent
  /\ \A n \in DOMAIN calls : calls[n] \in Record /\ NamesRows(given, made, calls[n])
RestHolds ==
  /\ starPending \subseteq Layers /\ editing.kind \in {"none", "draft"}
  /\ {editing.layer, filing.layer} \subseteq Layers \cup {NoLayer}
  /\ {faults, misses} \subseteq Nat /\ lastPendingId \in Int /\ lastPendingId <= 0

Sound == TablesHold /\ FavouritesHold /\ FoldersHold /\ CallsHold /\ RestHolds

-----------------------------------------------------------------------------
(* The inductive invariant: lists and tables *)

(* add_favourite looks for the row first. *)
RowsAreOne == \A i, j \in DOMAIN stored : given[i] = given[j] => i = j

AreTable(g, s, entries) ==
  /\ DOMAIN entries = {g[i] : i \in DOMAIN s}
  /\ \A i \in DOMAIN s : entries[g[i]] = [id |-> i, folder |-> s[i]]

OfFavourites(C) == {n \in DOMAIN C : C[n].op \in {"star", "unstar", "move", "ungroup"}}
OfFolders(C) == {n \in DOMAIN C : C[n].op \in {"create", "update", "ungroup"}}

(* With no change of a list out, what is fetched or painted is the table,   *)
(* unless a GET has failed.                                                 *)
FavouritesFollow ==
  misses = 0 /\ OfFavourites(calls) = {} =>
    /\ favouritesGet.step = "served" => AreTable(given, stored, favouritesGet.rows)
    /\ favouritesGet = Idle => AreTable(given, stored, favourites)
FoldersFollow ==
  misses = 0 /\ OfFolders(calls) = {} =>
    /\ foldersGet.step = "served" => foldersGet.rows = shelves
    /\ foldersGet = Idle => folders = shelves

PanelInv == Sound /\ RowsAreOne /\ FavouritesFollow /\ FoldersFollow

-----------------------------------------------------------------------------
(* Lists, and folders *)

LEMMA ListsAre == \A f : f \in Lists <=> Over(f, Layers, Entry)
BY DEF Lists, Over

LEMMA ShelvingsAre ==
  \A f : f \in Shelvings <=> DOMAIN f \subseteq Int /\ f \in [DOMAIN f -> Shelf]
BY DEF Shelvings

LEMMA NothingThere ==
  /\ DOMAIN <<>> = {} /\ <<>> \in Lists /\ <<>> \in Shelvings /\ <<>> \in Patches
<1>1. DOMAIN <<>> = {}
  OBVIOUS
<1>2. <<>> = [x \in {} |-> {}]
  BY <1>1
<1>3. \A S : <<>> \in [{} -> S]
  BY <1>2
<1> QED BY <1>1, <1>3 DEF Lists, Shelvings, Patches

LEMMA ListAt ==
  ASSUME NEW f \in Lists
  PROVE  /\ DOMAIN f \subseteq Layers
         /\ \A l \in DOMAIN f : f[l] \in Entry /\ f[l].id \in Int /\ f[l].folder \in Int
BY ListsAre DEF Over, Entry

LEMMA ListWith ==
  ASSUME NEW g, NEW f \in Lists, OwnIds(g, f), NEW l \in Layers, NEW e \in Entry,
         ~isPendingId(e.id) => Own(g, e.id, l)
  PROVE  With(f, l, e) \in Lists /\ OwnIds(g, With(f, l, e))
<1> DEFINE w == With(f, l, e)
<1>1. /\ DOMAIN w = DOMAIN f \cup {l} /\ w[l] = e
      /\ \A k \in DOMAIN f \ {l} : w[k] = f[k]
      /\ w = [k \in DOMAIN w |-> w[k]]
  BY DEF With
<1> HIDE DEF w
<1>2. DOMAIN w \subseteq Layers /\ \A k \in DOMAIN w : w[k] \in Entry
  BY <1>1, ListAt
<1>3. Over(w, Layers, Entry)
  BY <1>1, <1>2 DEF Over
<1>4. OwnIds(g, w)
  BY <1>1 DEF OwnIds
<1> QED BY <1>3, <1>4, ListsAre DEF w

LEMMA ListWithout ==
  ASSUME NEW g, NEW f \in Lists, OwnIds(g, f), NEW D
  PROVE  Without(f, D) \in Lists /\ OwnIds(g, Without(f, D))
<1> DEFINE w == Without(f, D)
<1>1. /\ DOMAIN w = DOMAIN f \ D /\ \A k \in DOMAIN w : w[k] = f[k]
      /\ w = [k \in DOMAIN w |-> w[k]]
  BY DEF Without
<1> HIDE DEF w
<1>2. Over(w, Layers, Entry)
  BY <1>1, ListAt DEF Over
<1>3. OwnIds(g, w)
  BY <1>1 DEF OwnIds
<1> QED BY <1>2, <1>3, ListsAre DEF w

(* A list in which one entry has another folder, or an id of its own *)
LEMMA ListChanged ==
  ASSUME NEW g, NEW f \in Lists, OwnIds(g, f), NEW l \in DOMAIN f, NEW w, NEW e \in Entry,
         w = [f EXCEPT ![l] = e], ~isPendingId(e.id) => Own(g, e.id, l)
  PROVE  w \in Lists /\ OwnIds(g, w)
<1>1. /\ DOMAIN w = DOMAIN f /\ w[l] = e
      /\ \A k \in DOMAIN f \ {l} : w[k] = f[k]
      /\ w = [k \in DOMAIN w |-> w[k]]
  OBVIOUS
<1>2. Over(w, Layers, Entry)
  BY <1>1, ListAt DEF Over
<1>3. OwnIds(g, w)
  BY <1>1 DEF OwnIds
<1> QED BY <1>2, <1>3, ListsAre

LEMMA EntryChanged ==
  ASSUME NEW e \in Entry, NEW i \in Int
  PROVE  /\ [e EXCEPT !.folder = i] \in Entry /\ [e EXCEPT !.folder = i].id = e.id
         /\ [e EXCEPT !.id = i] \in Entry /\ [e EXCEPT !.id = i].id = i
BY DEF Entry

LEMMA FolderChanged ==
  ASSUME NEW g, NEW f \in Lists, OwnIds(g, f), NEW l \in DOMAIN f, NEW i \in Int
  PROVE  /\ [f EXCEPT ![l].folder = i] \in Lists /\ OwnIds(g, [f EXCEPT ![l].folder = i])
         /\ Own(g, i, l) => /\ [f EXCEPT ![l].id = i] \in Lists
                            /\ OwnIds(g, [f EXCEPT ![l].id = i])
<1>1. /\ [f EXCEPT ![l].folder = i] = [f EXCEPT ![l] = [f[l] EXCEPT !.folder = i]]
      /\ [f EXCEPT ![l].id = i] = [f EXCEPT ![l] = [f[l] EXCEPT !.id = i]]
  OBVIOUS
<1>2. f[l] \in Entry /\ (~isPendingId(f[l].id) => Own(g, f[l].id, l))
  BY ListAt DEF OwnIds
<1>3. ASSUME NEW e \in Entry, ~isPendingId(e.id) => Own(g, e.id, l)
      PROVE  [f EXCEPT ![l] = e] \in Lists /\ OwnIds(g, [f EXCEPT ![l] = e])
  BY <1>3, ListChanged
<1>4. [f EXCEPT ![l].folder = i] \in Lists /\ OwnIds(g, [f EXCEPT ![l].folder = i])
  <2>1. [f[l] EXCEPT !.folder = i] \in Entry /\ [f[l] EXCEPT !.folder = i].id = f[l].id
    BY <1>2, EntryChanged
  <2> QED BY <1>1, <1>2, <1>3, <2>1
<1>5. ASSUME Own(g, i, l)
      PROVE  [f EXCEPT ![l].id = i] \in Lists /\ OwnIds(g, [f EXCEPT ![l].id = i])
  <2>1. [f[l] EXCEPT !.id = i] \in Entry /\ [f[l] EXCEPT !.id = i].id = i
    BY <1>2, EntryChanged
  <2> QED BY <1>1, <1>3, <1>5, <2>1
<1> QED BY <1>4, <1>5

LEMMA ShelvingWith ==
  ASSUME NEW m, NEW f \in Shelvings, OwnFolders(m, f), NEW i \in Int, NEW s \in Shelf,
         isPendingId(i) \/ i \in 1..m
  PROVE  With(f, i, s) \in Shelvings /\ OwnFolders(m, With(f, i, s))
<1> DEFINE w == With(f, i, s)
<1>1. /\ DOMAIN w = DOMAIN f \cup {i} /\ w[i] = s
      /\ \A k \in DOMAIN f \ {i} : w[k] = f[k]
      /\ w = [k \in DOMAIN w |-> w[k]]
  BY DEF With
<1> HIDE DEF w
<1>2. DOMAIN w \subseteq Int /\ \A k \in DOMAIN w : w[k] \in Shelf
  BY <1>1, ShelvingsAre
<1>3. w \in Shelvings
  BY <1>1, <1>2, ShelvingsAre
<1>4. OwnFolders(m, w)
  BY <1>1 DEF OwnFolders
<1> QED BY <1>3, <1>4 DEF w

LEMMA ShelvingWithout ==
  ASSUME NEW m, NEW f \in Shelvings, OwnFolders(m, f), NEW D
  PROVE  Without(f, D) \in Shelvings /\ OwnFolders(m, Without(f, D))
<1> DEFINE w == Without(f, D)
<1>1. /\ DOMAIN w = DOMAIN f \ D /\ \A k \in DOMAIN w : w[k] = f[k]
      /\ w = [k \in DOMAIN w |-> w[k]]
  BY DEF Without
<1> HIDE DEF w
<1>2. w \in Shelvings
  BY <1>1, ShelvingsAre
<1>3. OwnFolders(m, w)
  BY <1>1 DEF OwnFolders
<1> QED BY <1>2, <1>3 DEF w

LEMMA PatchedIsShelf ==
  ASSUME NEW s \in Shelf, NEW p \in Patches, IsPatch(p)
  PROVE  Patched(s, p) \in Shelf
<1>1. DOMAIN s = {"name", "isCollapsed"} /\ s["name"] \in Names /\ s["isCollapsed"] \in BOOLEAN
  BY DEF Shelf
<1> DEFINE n == IF "name" \in DOMAIN p THEN p["name"] ELSE s["name"]
           b == IF "isCollapsed" \in DOMAIN p THEN p["isCollapsed"] ELSE s["isCollapsed"]
<1>2. n \in Names /\ b \in BOOLEAN
  BY <1>1 DEF IsPatch
<1>3. Patched(s, p) = [name |-> n, isCollapsed |-> b]
  BY <1>1 DEF Patched
<1> HIDE DEF n, b
<1> QED BY <1>2, <1>3 DEF Shelf

LEMMA PatchesAre ==
  /\ \A n \in Names : [name |-> n] \in Patches /\ IsPatch([name |-> n])
  /\ \A b \in BOOLEAN : [isCollapsed |-> b] \in Patches /\ IsPatch([isCollapsed |-> b])
  /\ \A s \in Shelf : s \in Patches
<1>1. ASSUME NEW n \in Names PROVE [name |-> n] \in Patches /\ IsPatch([name |-> n])
  <2>1. [name |-> n] \in [{"name"} -> Names \cup BOOLEAN]
    OBVIOUS
  <2> QED BY <2>1 DEF Patches, IsPatch
<1>2. ASSUME NEW b \in BOOLEAN
      PROVE  [isCollapsed |-> b] \in Patches /\ IsPatch([isCollapsed |-> b])
  <2>1. [isCollapsed |-> b] \in [{"isCollapsed"} -> Names \cup BOOLEAN]
    OBVIOUS
  <2> QED BY <2>1 DEF Patches, IsPatch
<1>3. ASSUME NEW s \in Shelf PROVE s \in Patches
  <2>1. s \in [{"name", "isCollapsed"} -> Names \cup BOOLEAN]
    BY DEF Shelf
  <2> QED BY <2>1 DEF Patches
<1> QED BY <1>1, <1>2, <1>3

-----------------------------------------------------------------------------
(* What is written at once *)

LEMMA IdleIs ==
  /\ Idle.step = "idle" /\ Idle.rows \in Lists /\ Idle.rows \in Shelvings
  /\ Asked.step = "asked" /\ Asked.rows \in Lists /\ Asked.rows \in Shelvings
  /\ DOMAIN Idle.rows = {} /\ DOMAIN Asked.rows = {} /\ Asked # Idle
BY NothingThere DEF Idle, Asked

LEMMA PaintsFavourites ==
  ASSUME NEW f \in Lists, OwnIds(given, f), PaintFavourites(f), given' = given
  PROVE  FavouritesHold'
<1>1. OwnIds(given, Idle.rows)
  BY IdleIs DEF OwnIds
<1> QED BY <1>1, IdleIs DEF FavouritesHold, PaintFavourites, Status, Progress

LEMMA PaintsFolders ==
  ASSUME NEW f \in Shelvings, OwnFolders(made, f), PaintFolders(f), made' = made
  PROVE  FoldersHold'
<1>1. OwnFolders(made, Idle.rows)
  BY IdleIs DEF OwnFolders
<1> QED BY <1>1, IdleIs DEF FoldersHold, PaintFolders, Status, Progress

LEMMA FavouritesReplaced ==
  ASSUME FavouritesHold, given' = given, favourites' \in Lists, OwnIds(given, favourites'),
         favouritesStatus' \in {"success", favouritesStatus},
         favouritesGet' \in {Asked, favouritesGet}
  PROVE  FavouritesHold'
<1>1. OwnIds(given, Asked.rows)
  BY IdleIs DEF OwnIds
<1> QED BY <1>1, IdleIs DEF FavouritesHold, Status, Progress

LEMMA FoldersReplaced ==
  ASSUME FoldersHold, made' = made, folders' \in Shelvings, OwnFolders(made, folders'),
         foldersStatus' \in {"success", foldersStatus}, foldersGet' \in {Asked, foldersGet}
  PROVE  FoldersHold'
<1>1. OwnFolders(made, Asked.rows)
  BY IdleIs DEF OwnFolders
<1> QED BY <1>1, IdleIs DEF FoldersHold, Status, Progress

LEMMA FavouritesStay ==
  FavouritesHold /\ UNCHANGED <<favouriteList, given>> => FavouritesHold'
BY DEF FavouritesHold, favouriteList

LEMMA FoldersStay ==
  FoldersHold /\ UNCHANGED <<folderList, made>> => FoldersHold'
BY DEF FoldersHold, folderList

LEMMA TablesStay == TablesHold /\ UNCHANGED tables => TablesHold'
BY DEF TablesHold, tables, Over

LEMMA CallIs ==
  ASSUME Sound, NEW op \in {"star", "unstar", "move", "create", "update", "ungroup"},
         NEW l \in Layers \cup {NoLayer}, NEW id \in Int, NEW f \in Int, NEW s \in Patches
  PROVE  LET c == Call(op, l, id, f, s)
         IN  /\ c \in Record /\ c.op = op /\ c.layer = l /\ c.id = id /\ c.folder = f
             /\ c.shelf = s /\ c.favourites = favourites /\ c.folders = folders
             /\ c.step = "sent" /\ OwnIds(given, c.favourites) /\ OwnFolders(made, c.folders)
BY DEF Call, Record, Sound, FavouritesHold, FoldersHold

LEMMA Sends ==
  ASSUME CallsHold, UNCHANGED <<given, made>>, NEW c \in Record, NamesRows(given, made, c),
         Send(c)
  PROVE  CallsHold'
<1>1. sent + 1 \notin DOMAIN calls
  BY DEF CallsHold
<1>2. /\ DOMAIN calls' = DOMAIN calls \cup {sent + 1} /\ calls'[sent + 1] = c
      /\ \A n \in DOMAIN calls : calls'[n] = calls[n]
  BY <1>1 DEF Send, With
<1> QED BY <1>2 DEF Send, CallsHold

LEMMA Forgets ==
  ASSUME CallsHold, UNCHANGED <<given, made, sent>>, NEW n, calls' = Without(calls, {n})
  PROVE  CallsHold'
BY DEF Without, CallsHold

-----------------------------------------------------------------------------
(* What the user does *)

LEMMA AddFavouriteHolds ==
  ASSUME Sound, NEW l \in Layers, AddFavourite(l) PROVE Sound'
<1> DEFINE id == lastPendingId'
           c == Call("star", l, id, Top, <<>>)
           e == [id |-> id, folder |-> Top]
<1>1. /\ lastPendingId' = lastPendingId - 1 /\ Send(c)
      /\ PaintFavourites(With(favourites, l, e)) /\ starPending' = starPending \cup {l}
      /\ UNCHANGED <<tables, folderList, editing, filing, faults, misses>>
  BY DEF AddFavourite
<1>2. id \in Int /\ id < 0 /\ RestHolds'
  BY <1>1 DEF Sound, RestHolds
<1>3. c \in Record /\ NamesRows(given, made, c)
  BY <1>2, CallIs, NothingThere DEF NamesRows, Top
<1>4. e \in Entry /\ isPendingId(e.id)
  BY <1>2 DEF Entry, Top, isPendingId
<1> HIDE DEF c, e
<1>5. CallsHold'
  BY <1>1, <1>3, Sends DEF Sound, tables
<1>6. FavouritesHold'
  BY <1>1, <1>4, ListWith, PaintsFavourites DEF Sound, FavouritesHold, tables
<1> QED BY <1>1, <1>2, <1>5, <1>6, TablesStay, FoldersStay DEF Sound, tables

LEMMA RemoveFavouriteHolds ==
  ASSUME Sound, NEW l \in Layers, RemoveFavourite(l) PROVE Sound'
<1> DEFINE c == Call("unstar", l, favourites[l].id, Top, <<>>)
<1>1. /\ Removable(l) /\ Send(c)
      /\ PaintFavourites(Without(favourites, {l})) /\ starPending' = starPending \cup {l}
      /\ UNCHANGED <<tables, folderList, lastPendingId, editing, filing, faults, misses>>
  BY DEF RemoveFavourite
<1>2. favourites[l].id \in Int /\ Own(given, favourites[l].id, l)
  BY <1>1, ListAt DEF Removable, Sound, FavouritesHold, OwnIds
<1>3. c \in Record /\ NamesRows(given, made, c)
  BY <1>2, CallIs, NothingThere DEF NamesRows, Top
<1> HIDE DEF c
<1>5. CallsHold' /\ RestHolds'
  BY <1>1, <1>3, Sends DEF Sound, tables, RestHolds
<1>6. FavouritesHold'
  BY <1>1, ListWithout, PaintsFavourites DEF Sound, FavouritesHold, tables
<1> QED BY <1>1, <1>5, <1>6, TablesStay, FoldersStay DEF Sound, tables

(* A layer that can be moved is sent by the id of its row, to a folder that *)
(* has one.                                                                 *)
LEMMA MovableIs ==
  ASSUME Sound, NEW l, NEW f \in {Top} \cup 1..made, Movable(l, f)
  PROVE  /\ l \in DOMAIN favourites /\ l \in Layers /\ f \in Int
         /\ [favourites EXCEPT ![l].folder = f] \in Lists
         /\ OwnIds(given, [favourites EXCEPT ![l].folder = f])
         /\ Call("move", l, favourites[l].id, f, <<>>) \in Record
         /\ NamesRows(given, made, Call("move", l, favourites[l].id, f, <<>>))
<1> DEFINE c == Call("move", l, favourites[l].id, f, <<>>)
<1>1. /\ l \in DOMAIN favourites /\ l \in Layers /\ f \in Int /\ f \in 0..made
      /\ favourites \in Lists /\ OwnIds(given, favourites)
  BY ListAt DEF Movable, Sound, FavouritesHold, TablesHold, Top
<1>2. favourites[l].id \in Int /\ Own(given, favourites[l].id, l)
  BY <1>1, ListAt DEF Movable, OwnIds
<1>3. c \in Record /\ NamesRows(given, made, c)
  BY <1>1, <1>2, CallIs, NothingThere DEF NamesRows
<1> HIDE DEF c
<1>4. /\ [favourites EXCEPT ![l].folder = f] \in Lists
      /\ OwnIds(given, [favourites EXCEPT ![l].folder = f])
  BY <1>1, FolderChanged
<1> QED BY <1>1, <1>3, <1>4 DEF c

LEMMA MoveFavouriteHolds ==
  ASSUME Sound, NEW l, NEW f, f = Top \/ f \in DOMAIN folders, MoveFavourite(l, f)
  PROVE  Sound'
<1>1. /\ Movable(l, f) /\ Send(Call("move", l, favourites[l].id, f, <<>>))
      /\ PaintFavourites([favourites EXCEPT ![l].folder = f])
      /\ UNCHANGED <<tables, folderList, lastPendingId, panel, faults, misses>>
  BY DEF MoveFavourite
<1>2. f \in {Top} \cup 1..made
  BY <1>1 DEF Movable, Sound, FoldersHold, OwnFolders
<1>3. /\ [favourites EXCEPT ![l].folder = f] \in Lists
      /\ OwnIds(given, [favourites EXCEPT ![l].folder = f])
      /\ Call("move", l, favourites[l].id, f, <<>>) \in Record
      /\ NamesRows(given, made, Call("move", l, favourites[l].id, f, <<>>))
  BY <1>1, <1>2, MovableIs
<1>4. CallsHold' /\ RestHolds'
  BY <1>1, <1>3, Sends DEF Sound, tables, panel, RestHolds
<1>5. FavouritesHold'
  BY <1>1, <1>3, PaintsFavourites DEF tables
<1> QED BY <1>1, <1>4, <1>5, TablesStay, FoldersStay DEF Sound, tables

LEMMA CommitDraftHolds ==
  ASSUME Sound, NEW name \in Names, CommitDraft(name) PROVE Sound'
<1> DEFINE s == [name |-> name, isCollapsed |-> FALSE]
           id == lastPendingId'
           c == Call("create", editing.layer, Top, id, s)
<1>1. /\ lastPendingId' = lastPendingId - 1 /\ Send(c) /\ editing' = NotEditing
      /\ PaintFolders(With(folders, id, s))
      /\ filing' = IF editing.layer = NoLayer THEN filing
                   ELSE [layer |-> editing.layer, folder |-> id]
      /\ UNCHANGED <<tables, favouriteList, starPending, faults, misses>>
  BY DEF CommitDraft
<1>2. id \in Int /\ id < 0 /\ RestHolds'
  BY <1>1 DEF Sound, RestHolds, NotEditing
<1>3. s \in Shelf /\ s \in Patches /\ editing.layer \in Layers \cup {NoLayer}
  BY PatchesAre DEF Shelf, Sound, RestHolds
<1> HIDE DEF s
<1>4. c \in Record /\ NamesRows(given, made, c)
  <2>1. /\ c \in Record /\ c.op = "create" /\ c.shelf = s /\ c.step = "sent"
        /\ OwnIds(given, c.favourites) /\ OwnFolders(made, c.folders)
    BY <1>2, <1>3, CallIs DEF Top
  <2> QED BY <1>3, <2>1 DEF NamesRows
<1> HIDE DEF c
<1>5. CallsHold'
  BY <1>1, <1>4, Sends DEF Sound, tables
<1>6. FoldersHold'
  BY <1>1, <1>2, <1>3, ShelvingWith, PaintsFolders
  DEF Sound, FoldersHold, tables, isPendingId
<1> QED BY <1>1, <1>2, <1>5, <1>6, TablesStay, FavouritesStay DEF Sound, tables

LEMMA UpdateFolderHolds ==
  ASSUME Sound, NEW f \in DOMAIN folders, ~isPendingId(f), NEW p \in Patches, IsPatch(p),
         UpdateFolder(f, p), UNCHANGED editing
  PROVE  Sound'
<1> DEFINE c == Call("update", NoLayer, Top, f, p)
           w == [folders EXCEPT ![f] = Patched(folders[f], p)]
<1>1. /\ Send(c) /\ PaintFolders(w)
      /\ UNCHANGED <<tables, favouriteList, lastPendingId, starPending, filing, faults, misses>>
  BY DEF UpdateFolder
<1>2. f \in 1..made /\ f \in Int /\ Patched(folders[f], p) \in Shelf
  BY PatchedIsShelf, ShelvingsAre DEF Sound, FoldersHold, OwnFolders, TablesHold
<1>3. c \in Record /\ NamesRows(given, made, c)
  BY <1>2, CallIs DEF NamesRows, Top
<1>4. /\ DOMAIN w = DOMAIN folders /\ w[f] = Patched(folders[f], p)
      /\ \A g \in DOMAIN folders \ {f} : w[g] = folders[g]
      /\ w = [g \in DOMAIN w |-> w[g]]
  OBVIOUS
<1> HIDE DEF c, w
<1>5. w \in Shelvings /\ OwnFolders(made, w)
  BY <1>2, <1>4, ShelvingsAre DEF Sound, FoldersHold, OwnFolders
<1>6. CallsHold' /\ RestHolds'
  BY <1>1, <1>3, Sends DEF Sound, tables, RestHolds
<1>7. FoldersHold'
  BY <1>1, <1>5, PaintsFolders DEF tables
<1> QED BY <1>1, <1>6, <1>7, TablesStay, FavouritesStay DEF Sound, tables

LEMMA DeleteFolderHolds ==
  ASSUME Sound, NEW f, DeleteFolder(f) PROVE Sound'
<1> DEFINE c == Call("ungroup", NoLayer, Top, f, <<>>)
<1>1. /\ f \in DOMAIN folders /\ ~isPendingId(f) /\ Send(c)
      /\ PaintFolders(Without(folders, {f}))
      /\ UNCHANGED <<tables, favouriteList, lastPendingId, panel, faults, misses>>
  BY DEF DeleteFolder
<1>2. f \in 1..made /\ f \in Int
  BY <1>1 DEF Sound, FoldersHold, OwnFolders, TablesHold
<1>3. c \in Record /\ NamesRows(given, made, c)
  <2>1. <<>> \in Patches /\ Top \in Int /\ NoLayer \in Layers \cup {NoLayer}
    BY NothingThere DEF Top
  <2>2. /\ c \in Record /\ c.op = "ungroup" /\ c.folder = f
        /\ OwnIds(given, c.favourites) /\ OwnFolders(made, c.folders)
    BY <1>2, <2>1, CallIs
  <2> HIDE DEF c
  <2> QED BY <1>2, <2>2 DEF NamesRows
<1> HIDE DEF c
<1>4. CallsHold' /\ RestHolds'
  BY <1>1, <1>3, Sends DEF Sound, tables, RestHolds, panel
<1>5. FoldersHold'
  BY <1>1, ShelvingWithout, PaintsFolders DEF Sound, FoldersHold, tables
<1> QED BY <1>1, <1>4, <1>5, TablesStay, FavouritesStay DEF Sound, tables

(* A step that sends nothing and leaves the tables *)
LEMMA CallsStay == CallsHold /\ UNCHANGED <<given, made, sent, calls>> => CallsHold'
BY DEF CallsHold

LEMMA RetryHolds == Sound /\ Retry => Sound'
<1> SUFFICES ASSUME Sound, Retry PROVE Sound'
  OBVIOUS
<1>1. UNCHANGED <<tables, calls, sent, lastPendingId, panel, faults, misses>>
  BY DEF Retry
<1>2. FavouritesHold'
  <2>1. favourites' = favourites /\ favouritesStatus' = favouritesStatus
        /\ favouritesGet' \in {Asked, favouritesGet}
    BY DEF Retry, favouriteList
  <2> QED BY <1>1, <2>1, FavouritesReplaced DEF Sound, FavouritesHold, tables
<1>3. FoldersHold'
  <2>1. folders' = folders /\ foldersStatus' = foldersStatus
        /\ foldersGet' \in {Asked, foldersGet}
    BY DEF Retry, folderList
  <2> QED BY <1>1, <2>1, FoldersReplaced DEF Sound, FoldersHold, tables
<1> QED BY <1>1, <1>2, <1>3, TablesStay, CallsStay DEF Sound, RestHolds, panel, tables

LEMMA UserHolds == Sound /\ User => Sound'
<1> SUFFICES ASSUME Sound, User PROVE Sound'
  OBVIOUS
<1>1. ASSUME NEW l, NEW f, f = Top \/ f \in DOMAIN folders, MoveFromMenu(l, f) \/ DropOn(l, f)
      PROVE  Sound'
  BY <1>1, MoveFavouriteHolds DEF MoveFromMenu, DropOn
<1>2. CASE (\E l \in Layers \cup {NoLayer} : OpenDraft(l)) \/ CancelEdit
  <2>1. /\ UNCHANGED <<tables, lists, calls, sent, lastPendingId, starPending, filing,
                       faults, misses>>
        /\ editing'.kind \in {"none", "draft"} /\ editing'.layer \in Layers \cup {NoLayer}
    BY <1>2 DEF OpenDraft, CancelEdit, NotEditing
  <2> QED
    BY <2>1, TablesStay, CallsStay, FavouritesStay, FoldersStay
    DEF Sound, RestHolds, lists, tables
<1>3. ASSUME NEW f \in DOMAIN folders, FolderRow(f) PROVE Sound'
  <2>1. CASE SetFolderCollapsed(f)
    <3>1. (~folders[f].isCollapsed) \in BOOLEAN
      OBVIOUS
    <3> QED BY <2>1, <3>1, PatchesAre, UpdateFolderHolds DEF SetFolderCollapsed
  <2>2. ASSUME NEW name \in Names, RenameFolder(f, name) PROVE Sound'
    BY <2>2, PatchesAre, UpdateFolderHolds DEF RenameFolder
  <2> QED BY <1>1, <1>3, <2>1, <2>2, DeleteFolderHolds DEF FolderRow
<1> QED
  BY <1>1, <1>2, <1>3, AddFavouriteHolds, RemoveFavouriteHolds, CommitDraftHolds, RetryHolds
  DEF User

-----------------------------------------------------------------------------
(* What map-api does *)

Extends(h, g) == DOMAIN g \subseteq DOMAIN h /\ \A i \in DOMAIN g : h[i] = g[i]

LEMMA NamesGrow ==
  ASSUME NEW g, NEW h, Extends(h, g), NEW m \in Nat, NEW k \in Nat, m <= k
  PROVE  /\ \A f : OwnIds(g, f) => OwnIds(h, f)
         /\ \A f : OwnFolders(m, f) => OwnFolders(k, f)
         /\ \A c : NamesRows(g, m, c) => NamesRows(h, k, c)
<1>1. \A id, l : Own(g, id, l) => Own(h, id, l)
  BY DEF Own, Extends
<1>2. \A f : OwnIds(g, f) => OwnIds(h, f)
  BY <1>1 DEF OwnIds
<1>3. \A f : OwnFolders(m, f) => OwnFolders(k, f)
  BY DEF OwnFolders
<1>4. ASSUME NEW c, NamesRows(g, m, c) PROVE NamesRows(h, k, c)
  BY <1>1, <1>2, <1>3, <1>4 DEF NamesRows
<1> QED BY <1>2, <1>3, <1>4

(* A request that has been served or lost has been told an id of its own,   *)
(* if any, and the tables have grown.                                       *)
LEMMA ServedHolds ==
  ASSUME Sound, TablesHold', Extends(given', given), made <= made',
         UNCHANGED <<lists, sent, lastPendingId, panel>>,
         faults' \in Nat, misses' \in Nat, NEW n \in DOMAIN calls,
         \/ Refuse(n)
         \/ Done(n) /\ calls[n].op \notin {"star", "create"}
         \/ \E i \in Int : /\ DoneWith(n, i)
                           /\ \/ calls[n].op = "star" /\ Own(given', i, calls[n].layer)
                              \/ calls[n].op = "create" /\ i \in 1..made'
  PROVE  Sound'
<1>1. made \in Nat /\ made' \in Nat
  BY DEF Sound, TablesHold
<1>2. FavouritesHold' /\ FoldersHold' /\ RestHolds'
  BY <1>1, NamesGrow
  DEF Sound, FavouritesHold, FoldersHold, RestHolds, lists, favouriteList, folderList, panel
<1>3. calls[n] \in Record /\ NamesRows(given, made, calls[n])
  BY DEF Sound, CallsHold
<1>4. NamesRows(given', made', calls[n])
  BY <1>1, <1>3, NamesGrow
<1>5. ASSUME NEW d \in Record, NamesRows(given', made', d), calls' = [calls EXCEPT ![n] = d]
      PROVE  CallsHold'
  <2>1. DOMAIN calls' = DOMAIN calls /\ sent' = sent /\ sent \in Nat
    BY <1>5 DEF Sound, CallsHold
  <2>2. ASSUME NEW k \in DOMAIN calls
        PROVE  calls'[k] \in Record /\ NamesRows(given', made', calls'[k])
    <3>1. CASE k = n
      BY <1>5, <3>1
    <3>2. CASE k # n
      <4>1. calls'[k] = calls[k] /\ calls[k] \in Record /\ NamesRows(given, made, calls[k])
        BY <1>5, <3>2 DEF Sound, CallsHold
      <4> QED BY <1>1, <4>1, NamesGrow
    <3> QED BY <3>1, <3>2
  <2> QED BY <2>1, <2>2 DEF Sound, CallsHold
<1>6. CallsHold'
  <2>1. CASE Refuse(n)
    <3> DEFINE d == [calls[n] EXCEPT !.step = "refused"]
    <3>1. calls' = [calls EXCEPT ![n] = d]
      BY <2>1 DEF Refuse
    <3>2. /\ d \in Record /\ d.op = calls[n].op /\ d.layer = calls[n].layer
          /\ d.id = calls[n].id /\ d.folder = calls[n].folder /\ d.shelf = calls[n].shelf
          /\ d.favourites = calls[n].favourites /\ d.folders = calls[n].folders
          /\ d.step = "refused"
      BY <1>3 DEF Record
    <3> HIDE DEF d
    <3>3. NamesRows(given', made', d)
      BY <1>4, <3>2 DEF NamesRows
    <3> QED BY <1>5, <3>1, <3>2, <3>3
  <2>2. CASE Done(n) /\ calls[n].op \notin {"star", "create"}
    <3> DEFINE d == [calls[n] EXCEPT !.step = "done"]
    <3>1. calls' = [calls EXCEPT ![n] = d]
      BY <2>2 DEF Done
    <3>2. /\ d \in Record /\ d.op = calls[n].op /\ d.layer = calls[n].layer
          /\ d.id = calls[n].id /\ d.folder = calls[n].folder /\ d.shelf = calls[n].shelf
          /\ d.favourites = calls[n].favourites /\ d.folders = calls[n].folders
      BY <1>3 DEF Record
    <3> HIDE DEF d
    <3>3. NamesRows(given', made', d)
      BY <1>4, <2>2, <3>2 DEF NamesRows
    <3> QED BY <1>5, <3>1, <3>2, <3>3
  <2>3. ASSUME NEW i \in Int, DoneWith(n, i),
               \/ calls[n].op = "star" /\ Own(given', i, calls[n].layer)
               \/ calls[n].op = "create" /\ i \in 1..made'
        PROVE  CallsHold'
    <3> DEFINE d == [[calls[n] EXCEPT !.step = "done"] EXCEPT !.id = i]
    <3>1. calls' = [calls EXCEPT ![n] = d]
      BY <2>3 DEF DoneWith
    <3>2. /\ d \in Record /\ d.op = calls[n].op /\ d.layer = calls[n].layer
          /\ d.id = i /\ d.folder = calls[n].folder /\ d.shelf = calls[n].shelf
          /\ d.favourites = calls[n].favourites /\ d.folders = calls[n].folders
      BY <1>3 DEF Record
    <3> HIDE DEF d
    <3>3. NamesRows(given', made', d)
      BY <1>4, <2>3, <3>2 DEF NamesRows
    <3> QED BY <1>5, <3>1, <3>2, <3>3
  <2> QED BY <2>1, <2>2, <2>3
<1> QED BY <1>2, <1>6 DEF Sound

LEMMA ServeStarTables ==
  ASSUME Sound, NEW l \in Layers, NEW n, ServeStar(n, l)
  PROVE  /\ TablesHold' /\ Extends(given', given) /\ made' = made
         /\ Refuse(n) \/ \E i \in Int : DoneWith(n, i) /\ Own(given', i, l)
<1> USE DEF Sound, TablesHold, Extends
<1>1. CASE UNCHANGED <<given, stored>>
  <2>1. TablesHold' /\ Extends(given', given) /\ made' = made
    BY <1>1 DEF ServeStar, Over
  <2>2. \A i \in RowsOf(l) : i \in Int /\ Own(given, i, l)
    BY DEF RowsOf, Own, Over
  <2> QED BY <1>1, <2>1, <2>2 DEF ServeStar, Own
<1>2. CASE /\ given' = Append(given, l) /\ stored' = With(stored, Len(given) + 1, Top)
           /\ DoneWith(n, Len(given) + 1)
  <2>1. UNCHANGED <<made, shelves>>
    BY DEF ServeStar
  <2>2. /\ given' \in Seq(Layers) /\ DOMAIN given' = DOMAIN given \cup {Len(given) + 1}
        /\ given'[Len(given) + 1] = l /\ \A i \in DOMAIN given : given'[i] = given[i]
        /\ Len(given) + 1 \in Int
    BY <1>2
  <2>3. /\ DOMAIN stored' = DOMAIN stored \cup {Len(given) + 1}
        /\ \A i \in DOMAIN stored' : stored'[i] \in Nat
        /\ stored' = [i \in DOMAIN stored' |-> stored'[i]]
    BY <1>2 DEF With, Top, Over
  <2>4. TablesHold'
    BY <2>1, <2>2, <2>3 DEF Over
  <2> QED BY <1>2, <2>1, <2>2, <2>4 DEF Own
<1> QED BY <1>1, <1>2 DEF ServeStar

LEMMA ServeOtherTables ==
  ASSUME Sound, NEW n \in DOMAIN calls,
         LET c == calls[n]
         IN \/ c.op = "unstar" /\ ServeUnstar(n, c.id)
            \/ c.op = "move" /\ ServeMove(n, c.id, c.folder)
            \/ c.op = "update" /\ ServeUpdate(n, c.folder, c.shelf)
            \/ c.op = "ungroup" /\ ServeUngroup(n, c.folder)
  PROVE  TablesHold' /\ given' = given /\ made' = made /\ (Refuse(n) \/ Done(n))
<1> DEFINE c == calls[n]
<1>0. c \in Record /\ c.folder \in Int /\ c.shelf \in Patches /\ NamesRows(given, made, c)
  BY DEF Sound, CallsHold, Record
<1> USE DEF Sound, TablesHold, Over
<1>1. CASE c.op = "unstar" /\ ServeUnstar(n, c.id)
  BY <1>1 DEF ServeUnstar, Without
<1>2. CASE c.op = "move" /\ ServeMove(n, c.id, c.folder)
  <2>1. c.folder \in {Top} \cup DOMAIN shelves => c.folder \in Nat
    BY DEF Top
  <2> QED BY <1>2, <2>1 DEF ServeMove
<1>3. CASE c.op = "update" /\ ServeUpdate(n, c.folder, c.shelf)
  <2>1. IsPatch(c.shelf)
    BY <1>0, <1>3 DEF NamesRows
  <2>2. c.folder \in DOMAIN shelves => Patched(shelves[c.folder], c.shelf) \in Shelf
    BY <1>0, <2>1, PatchedIsShelf
  <2> QED BY <1>3, <2>2 DEF ServeUpdate
<1>4. CASE c.op = "ungroup" /\ ServeUngroup(n, c.folder)
  BY <1>4 DEF ServeUngroup, Without, Top
<1> QED BY <1>1, <1>2, <1>3, <1>4

LEMMA ServeHolds ==
  ASSUME Sound, NEW n \in DOMAIN calls, Serve(n) PROVE Sound'
<1> DEFINE c == calls[n]
<1>0. /\ UNCHANGED <<lists, sent, lastPendingId, panel, faults, misses>>
      /\ faults' \in Nat /\ misses' \in Nat /\ made \in Nat
      /\ c \in Record /\ NamesRows(given, made, c)
  BY DEF Serve, Sound, RestHolds, CallsHold, TablesHold
<1>1. CASE c.op = "star"
  <2>1. c.layer \in Layers /\ ServeStar(n, c.layer)
    BY <1>0, <1>1 DEF NamesRows, Serve
  <2>2. /\ TablesHold' /\ Extends(given', given) /\ made' = made
        /\ Refuse(n) \/ \E i \in Int : DoneWith(n, i) /\ Own(given', i, c.layer)
    BY <2>1, ServeStarTables
  <2> QED BY <1>0, <1>1, <2>2, ServedHolds
<1>2. CASE c.op = "create"
  <2>1. ServeCreate(n, c.shelf) /\ c.shelf \in Shelf
    BY <1>0, <1>2 DEF Serve, NamesRows
  <2>2. TablesHold' /\ Extends(given', given) /\ made <= made' /\ made' \in Nat
    <3>1. given' = given /\ stored' = stored
      BY <2>1 DEF ServeCreate
    <3>2. CASE UNCHANGED <<made, shelves>>
      BY <1>0, <3>1, <3>2 DEF Sound, TablesHold, Extends, Over
    <3>3. CASE made' = made + 1 /\ shelves' = With(shelves, made', c.shelf)
      <4>1. /\ DOMAIN shelves' = DOMAIN shelves \cup {made + 1}
            /\ \A f \in DOMAIN shelves' : shelves'[f] \in Shelf
            /\ shelves' = [f \in DOMAIN shelves' |-> shelves'[f]]
        BY <2>1, <3>3 DEF With, Sound, TablesHold, Over
      <4> QED BY <1>0, <3>1, <3>3, <4>1 DEF Sound, TablesHold, Extends, Over
    <3> QED BY <2>1, <3>2, <3>3 DEF ServeCreate
  <2>3. Refuse(n) \/ \E i \in Int : DoneWith(n, i) /\ i \in 1..made'
    BY <1>0, <2>1 DEF ServeCreate
  <2> QED BY <1>0, <1>2, <2>2, <2>3, ServedHolds
<1>3. CASE c.op \notin {"star", "create"}
  <2>1. TablesHold' /\ given' = given /\ made' = made /\ (Refuse(n) \/ Done(n))
    BY <1>0, <1>3, ServeOtherTables DEF Serve, Record
  <2>2. Extends(given', given) /\ made <= made'
    BY <1>0, <2>1 DEF Extends
  <2> QED BY <1>0, <1>3, <2>1, <2>2, ServedHolds
<1> QED BY <1>1, <1>2, <1>3

LEMMA LostHolds ==
  ASSUME Sound, NEW n \in DOMAIN calls, Lost(n) PROVE Sound'
<1>1. /\ Refuse(n) /\ UNCHANGED <<tables, lists, sent, lastPendingId, panel>>
      /\ faults' \in Nat /\ misses' \in Nat
  BY DEF Lost, Sound, RestHolds
<1>2. TablesHold' /\ Extends(given', given) /\ made <= made'
  BY <1>1, TablesStay DEF Sound, TablesHold, Extends, tables
<1> QED BY <1>1, <1>2, ServedHolds

-----------------------------------------------------------------------------
(* The answers, and the GETs *)

LEMMA AnswerToggleHolds ==
  ASSUME Sound, NEW n \in DOMAIN calls, AnswerToggle(n) PROVE Sound'
<1> DEFINE c == calls[n]
           e == IF c.op = "star" /\ c.layer \in DOMAIN favourites
                THEN [favourites EXCEPT ![c.layer].id = c.id] ELSE favourites
<1>1. /\ c.op \in {"star", "unstar"} /\ c.step \in {"done", "refused"}
      /\ calls' = Without(calls, {n}) /\ FavouritesAfter(c, e)
      /\ starPending' = starPending \ {c.layer} /\ favouritesGet' \in {Asked, favouritesGet}
      /\ UNCHANGED <<tables, folderList, sent, lastPendingId, editing, filing, faults, misses>>
  BY DEF AnswerToggle, Toggles, Answered
<1>2. /\ c.id \in Int /\ c.favourites \in Lists /\ OwnIds(given, c.favourites)
      /\ (c.op = "star" /\ c.step = "done") => Own(given, c.id, c.layer)
      /\ favourites \in Lists /\ OwnIds(given, favourites)
  BY DEF Sound, CallsHold, FavouritesHold, NamesRows, Record
<1>3. c.step = "done" => e \in Lists /\ OwnIds(given, e)
  BY <1>1, <1>2, FolderChanged
<1> HIDE DEF e
<1>4. /\ favourites' \in Lists /\ OwnIds(given, favourites')
      /\ favouritesStatus' \in {"success", favouritesStatus}
  BY <1>1, <1>2, <1>3 DEF FavouritesAfter
<1>5. FavouritesHold'
  BY <1>1, <1>4, FavouritesReplaced DEF Sound, tables
<1>6. CallsHold' /\ RestHolds'
  BY <1>1, Forgets DEF Sound, RestHolds, tables
<1> QED BY <1>1, <1>5, <1>6, TablesStay, FoldersStay DEF Sound, tables

LEMMA AnswerMoveHolds ==
  ASSUME Sound, NEW n \in DOMAIN calls, AnswerMove(n) PROVE Sound'
<1> DEFINE c == calls[n]
<1>1. /\ calls' = Without(calls, {n}) /\ FavouritesAfter(c, favourites) /\ favouritesGet' = Asked
      /\ UNCHANGED <<tables, folderList, sent, lastPendingId, panel, faults, misses>>
  BY DEF AnswerMove
<1>2. /\ c.favourites \in Lists /\ OwnIds(given, c.favourites)
      /\ favourites \in Lists /\ OwnIds(given, favourites)
  BY DEF Sound, CallsHold, FavouritesHold, NamesRows, Record
<1>4. /\ favourites' \in Lists /\ OwnIds(given, favourites')
      /\ favouritesStatus' \in {"success", favouritesStatus}
  BY <1>1, <1>2 DEF FavouritesAfter
<1>5. FavouritesHold'
  BY <1>1, <1>4, FavouritesReplaced DEF Sound, tables
<1>6. CallsHold' /\ RestHolds'
  BY <1>1, Forgets DEF Sound, RestHolds, tables, panel
<1> QED BY <1>1, <1>5, <1>6, TablesStay, FoldersStay DEF Sound, tables

LEMMA AnswerFolderHolds ==
  ASSUME Sound, NEW n \in DOMAIN calls, AnswerFolder(n) PROVE Sound'
<1> DEFINE c == calls[n]
<1>1. /\ calls' = Without(calls, {n}) /\ FoldersAfter(c, folders)
      /\ favouritesGet' \in {Asked, favouritesGet}
      /\ UNCHANGED <<tables, favourites, favouritesStatus, sent, lastPendingId, panel, faults,
                     misses>>
  BY DEF AnswerFolder
<1>2. /\ c.folders \in Shelvings /\ OwnFolders(made, c.folders)
      /\ folders \in Shelvings /\ OwnFolders(made, folders)
  BY DEF Sound, CallsHold, FoldersHold, NamesRows, Record
<1>4. FoldersHold'
  BY <1>1, <1>2, FoldersReplaced DEF FoldersAfter, Sound, tables
<1>5. FavouritesHold'
  BY <1>1, FavouritesReplaced DEF Sound, FavouritesHold, tables
<1>6. CallsHold' /\ RestHolds'
  BY <1>1, Forgets DEF Sound, RestHolds, tables, panel
<1> QED BY <1>1, <1>4, <1>5, <1>6, TablesStay DEF Sound, tables

LEMMA RenumberedIs ==
  ASSUME NEW m \in Nat, folders \in Shelvings, OwnFolders(m, folders),
         NEW f \in DOMAIN folders, NEW i \in 1..m
  PROVE  Renumbered(f, i) \in Shelvings /\ OwnFolders(m, Renumbered(f, i))
<1> DEFINE w == Renumbered(f, i)
<1>1. /\ DOMAIN w = (DOMAIN folders \ {f}) \cup {i}
      /\ \A g \in DOMAIN w : w[g] \in {folders[h] : h \in DOMAIN folders}
      /\ w = [g \in DOMAIN w |-> w[g]]
  BY DEF Renumbered
<1> HIDE DEF w
<1>2. w \in Shelvings
  BY <1>1, ShelvingsAre
<1>3. OwnFolders(m, w)
  BY <1>1 DEF OwnFolders
<1> QED BY <1>2, <1>3 DEF w

LEMMA AnswerCreateHolds ==
  ASSUME Sound, NEW n \in DOMAIN calls, AnswerCreate(n) PROVE Sound'
<1> DEFINE c == calls[n]
           e == IF c.folder \in DOMAIN folders THEN Renumbered(c.folder, c.id) ELSE folders
           d == Call("move", c.layer, favourites[c.layer].id, c.id, <<>>)
<1>1. /\ c.op = "create" /\ c.step \in {"done", "refused"} /\ FoldersAfter(c, e)
      /\ filing' \in {filing, NoFiling}
      /\ UNCHANGED <<tables, sent, lastPendingId, starPending, editing, faults, misses>>
  BY DEF AnswerCreate, Answered, ReleasedFiling
<1>2. /\ made \in Nat /\ c.folders \in Shelvings /\ OwnFolders(made, c.folders)
      /\ folders \in Shelvings /\ OwnFolders(made, folders)
      /\ c.step = "done" => c.id \in 1..made
  BY <1>1 DEF Sound, TablesHold, CallsHold, FoldersHold, NamesRows, Record
<1>3. c.step = "done" => e \in Shelvings /\ OwnFolders(made, e)
  BY <1>2, RenumberedIs
<1> HIDE DEF e
<1>4. FoldersHold'
  BY <1>1, <1>2, <1>3, FoldersReplaced DEF FoldersAfter, Sound, tables
<1>5. RestHolds'
  BY <1>1 DEF Sound, RestHolds, NoFiling
<1>6. CASE c.step = "done" /\ Movable(c.layer, c.id)
  <2>1. /\ calls' = With(Without(calls, {n}), n, d)
        /\ PaintFavourites([favourites EXCEPT ![c.layer].folder = c.id])
    BY <1>6 DEF AnswerCreate
  <2>2. /\ [favourites EXCEPT ![c.layer].folder = c.id] \in Lists
        /\ OwnIds(given, [favourites EXCEPT ![c.layer].folder = c.id])
        /\ d \in Record /\ NamesRows(given, made, d)
    BY <1>2, <1>6, MovableIs
  <2>3. FavouritesHold'
    BY <1>1, <2>1, <2>2, PaintsFavourites DEF tables
  <2> HIDE DEF d
  <2>4. /\ DOMAIN calls' = DOMAIN calls /\ calls'[n] = d
        /\ \A k \in DOMAIN calls \ {n} : calls'[k] = calls[k]
    BY <2>1 DEF With, Without
  <2>5. CallsHold'
    BY <1>1, <2>2, <2>4 DEF Sound, CallsHold, tables
  <2> QED BY <1>1, <1>4, <1>5, <2>3, <2>5, TablesStay DEF Sound
<1>7. CASE ~(c.step = "done" /\ Movable(c.layer, c.id))
  <2>1. calls' = Without(calls, {n}) /\ UNCHANGED favouriteList
    BY <1>7 DEF AnswerCreate
  <2>2. CallsHold'
    BY <1>1, <2>1, Forgets DEF Sound, tables
  <2> QED BY <1>1, <1>4, <1>5, <2>1, <2>2, TablesStay, FavouritesStay DEF Sound, tables
<1> QED BY <1>6, <1>7

LEMMA RowOf ==
  ASSUME RowsAreOne, NEW i \in DOMAIN stored
  PROVE  (CHOOSE j \in RowsOf(given[i]) : TRUE) = i
BY DEF RowsAreOne, RowsOf

ServedRows == [l \in {given[i] : i \in DOMAIN stored} |->
                 LET i == CHOOSE j \in RowsOf(l) : TRUE
                 IN [id |-> i, folder |-> stored[i]]]

LEMMA ServedAre ==
  ASSUME Sound, RowsAreOne
  PROVE  /\ ServedRows \in Lists /\ OwnIds(given, ServedRows)
         /\ AreTable(given, stored, ServedRows)
<1>1. /\ DOMAIN ServedRows = {given[i] : i \in DOMAIN stored}
      /\ \A i \in DOMAIN stored : ServedRows[given[i]] = [id |-> i, folder |-> stored[i]]
      /\ ServedRows = [l \in DOMAIN ServedRows |-> ServedRows[l]]
  BY RowOf DEF ServedRows
<1>2. \A i \in DOMAIN stored : /\ i \in DOMAIN given /\ i \in Nat /\ given[i] \in Layers
                               /\ stored[i] \in Nat
  BY DEF Sound, TablesHold, Over
<1>3. AreTable(given, stored, ServedRows)
  BY <1>1 DEF AreTable
<1>4. \A l \in DOMAIN ServedRows : \E i \in DOMAIN stored :
        l = given[i] /\ ServedRows[l] = [id |-> i, folder |-> stored[i]]
  BY <1>1
<1>5. Over(ServedRows, Layers, Entry)
  <2>1. \A i \in DOMAIN stored : [id |-> i, folder |-> stored[i]] \in Entry
    BY <1>2 DEF Entry
  <2>2. DOMAIN ServedRows \subseteq Layers /\ \A l \in DOMAIN ServedRows : ServedRows[l] \in Entry
    BY <1>2, <1>4, <2>1
  <2> QED BY <1>1, <2>2 DEF Over
<1>6. OwnIds(given, ServedRows)
  BY <1>2, <1>4 DEF OwnIds, Own
<1> QED BY <1>3, <1>5, <1>6, ListsAre

LEMMA GetHolds == Sound /\ RowsAreOne /\ (Get \/ GetFails) => Sound'
<1> SUFFICES ASSUME Sound, RowsAreOne, Get \/ GetFails PROVE Sound'
  OBVIOUS
<1>0. shelves \in Shelvings /\ OwnFolders(made, shelves)
  BY ShelvingsAre DEF Sound, TablesHold, Over, OwnFolders
<1>1. UNCHANGED <<tables, calls, sent, lastPendingId, panel, faults>> /\ misses' \in Nat
  BY DEF Get, GetFails, FavouritesServed, FavouritesArrive, FoldersServed, FoldersArrive,
         Sound, RestHolds
<1>2. FavouritesHold'
  <2>1. CASE FavouritesServed
    <3>1. favouritesGet' = [step |-> "served", rows |-> ServedRows]
          /\ UNCHANGED <<favourites, favouritesStatus>>
      BY <2>1 DEF FavouritesServed, ServedRows
    <3> QED
      BY <1>1, <3>1, ServedAre DEF Sound, FavouritesHold, Progress, tables
  <2>2. CASE FavouritesArrive
    BY <1>1, <2>2, PaintsFavourites DEF FavouritesArrive, Sound, FavouritesHold, tables
  <2>3. CASE FoldersServed \/ FoldersArrive
    BY <1>1, <2>3, FavouritesStay DEF FoldersServed, FoldersArrive, Sound, tables
  <2>4. CASE GetFails
    <3>1. OwnIds(given, Idle.rows)
      BY IdleIs DEF OwnIds
    <3> QED
      BY <1>1, <2>4, <3>1, IdleIs
      DEF GetFails, Sound, FavouritesHold, favouriteList, Status, Progress, tables
  <2> QED BY <2>1, <2>2, <2>3, <2>4 DEF Get
<1>3. FoldersHold'
  <2>1. CASE FoldersServed
    BY <1>0, <1>1, <2>1 DEF FoldersServed, Sound, FoldersHold, Progress, tables
  <2>2. CASE FoldersArrive
    BY <1>1, <2>2, PaintsFolders DEF FoldersArrive, Sound, FoldersHold, tables
  <2>3. CASE FavouritesServed \/ FavouritesArrive
    BY <1>1, <2>3, FoldersStay DEF FavouritesServed, FavouritesArrive, Sound, tables
  <2>4. CASE GetFails
    <3>1. OwnFolders(made, Idle.rows)
      BY IdleIs DEF OwnFolders
    <3> QED
      BY <1>1, <2>4, <3>1, IdleIs
      DEF GetFails, Sound, FoldersHold, folderList, Status, Progress, tables
  <2> QED BY <2>1, <2>2, <2>3, <2>4 DEF Get
<1> QED BY <1>1, <1>2, <1>3, TablesStay, CallsStay DEF Sound, RestHolds, panel, tables

LEMMA SoundStep == Sound /\ RowsAreOne /\ [Next]_vars => Sound'
<1> SUFFICES ASSUME Sound, RowsAreOne, [Next]_vars PROVE Sound'
  OBVIOUS
<1>1. ASSUME NEW n \in DOMAIN calls, Serve(n) \/ Lost(n) \/ Answer(n) PROVE Sound'
  BY <1>1, ServeHolds, LostHolds, AnswerToggleHolds, AnswerMoveHolds, AnswerFolderHolds,
     AnswerCreateHolds DEF Answer
<1>2. CASE UNCHANGED vars
  BY <1>2, TablesStay, FavouritesStay, FoldersStay, CallsStay
  DEF vars, lists, tables, panel, Sound, RestHolds
<1> QED BY <1>1, <1>2, UserHolds, GetHolds DEF Next

-----------------------------------------------------------------------------
(* The lists follow the tables *)

LEMMA RowsStayOne == Sound /\ RowsAreOne /\ [Next]_vars => RowsAreOne'
<1> SUFFICES ASSUME Sound, RowsAreOne, [Next]_vars PROVE RowsAreOne'
  OBVIOUS
<1>1. ASSUME UNCHANGED given, DOMAIN stored' \subseteq DOMAIN stored PROVE RowsAreOne'
  BY <1>1 DEF RowsAreOne
<1>2. ASSUME NEW n \in DOMAIN calls, Serve(n) PROVE RowsAreOne'
  <2> DEFINE c == calls[n]
  <2>1. ASSUME ServeStar(n, c.layer), given' # given PROVE RowsAreOne'
    <3>1. /\ given' = Append(given, c.layer) /\ RowsOf(c.layer) = {}
          /\ DOMAIN stored' = DOMAIN stored \cup {Len(given) + 1}
      BY <2>1 DEF ServeStar, With
    <3>2. /\ given \in Seq(Layers) /\ DOMAIN stored \subseteq DOMAIN given
      BY DEF Sound, TablesHold, Over
    <3>3. /\ given'[Len(given) + 1] = c.layer
          /\ \A i \in DOMAIN stored : given'[i] = given[i] /\ given[i] # c.layer
      BY <3>1, <3>2 DEF RowsOf
    <3> QED BY <3>1, <3>3 DEF RowsAreOne
  <2>2. CASE ServeStar(n, c.layer) /\ given' = given
    <3>1. Append(given, c.layer) # given
      <4>1. given \in Seq(Layers)
        BY DEF Sound, TablesHold
      <4>2. Len(Append(given, c.layer)) = Len(given) + 1 /\ Len(given) \in Nat
        BY <4>1
      <4> QED BY <4>2
    <3> QED BY <1>1, <2>2, <3>1 DEF ServeStar
  <2>3. CASE ServeUnstar(n, c.id) \/ ServeMove(n, c.id, c.folder)
    BY <1>1, <2>3 DEF ServeUnstar, ServeMove, Without
  <2>4. CASE \/ ServeCreate(n, c.shelf) \/ ServeUpdate(n, c.folder, c.shelf)
             \/ ServeUngroup(n, c.folder)
    BY <1>1, <2>4 DEF ServeCreate, ServeUpdate, ServeUngroup
  <2>5. c.op \in {"star", "unstar", "move", "create", "update", "ungroup"}
    BY DEF Sound, CallsHold, Record
  <2> QED BY <1>2, <2>1, <2>2, <2>3, <2>4, <2>5 DEF Serve
<1>3. CASE UNCHANGED tables
  BY <1>1, <1>3 DEF tables
<1>4. ASSUME NEW n \in DOMAIN calls, Lost(n) \/ Answer(n) PROVE UNCHANGED tables
  BY <1>4 DEF Lost, Answer, AnswerToggle, AnswerMove, AnswerFolder, AnswerCreate
<1>5. ASSUME User \/ Get \/ GetFails \/ UNCHANGED vars PROVE UNCHANGED tables
  <2>1. ASSUME User PROVE UNCHANGED tables
    BY <2>1 DEF User, AddFavourite, RemoveFavourite, MoveFromMenu, DropOn, MoveFavourite,
      OpenDraft, FolderRow, SetFolderCollapsed, DeleteFolder, RenameFolder, UpdateFolder,
      CancelEdit, CommitDraft, Retry
  <2> QED
    BY <1>5, <2>1 DEF Get, GetFails, FavouritesServed, FavouritesArrive, FoldersServed,
      FoldersArrive, vars
<1> QED BY <1>2, <1>3, <1>4, <1>5 DEF Next

(* What a step does to the calls that are out *)
LEMMA SendsOf ==
  ASSUME Sound, NEW c, Send(c)
  PROVE  /\ OfFavourites(calls') = {} =>
              /\ OfFavourites(calls) = {} /\ c.op \notin {"star", "unstar", "move", "ungroup"}
         /\ OfFolders(calls') = {} =>
              OfFolders(calls) = {} /\ c.op \notin {"create", "update", "ungroup"}
<1>1. sent + 1 \notin DOMAIN calls
  BY DEF Sound, CallsHold
<1>2. /\ DOMAIN calls' = DOMAIN calls \cup {sent + 1} /\ calls'[sent + 1] = c
      /\ \A n \in DOMAIN calls : calls'[n] = calls[n]
  BY <1>1 DEF Send, With
<1> QED BY <1>2 DEF OfFavourites, OfFolders

LEMMA ServesOf ==
  ASSUME Sound, NEW n \in DOMAIN calls,
         Refuse(n) \/ Done(n) \/ \E i \in Int : DoneWith(n, i)
  PROVE  /\ OfFavourites(calls') = OfFavourites(calls)
         /\ OfFolders(calls') = OfFolders(calls)
<1>1. DOMAIN calls' = DOMAIN calls
  BY DEF Refuse, Done, DoneWith
<1>2. \A k \in DOMAIN calls : calls'[k].op = calls[k].op
  BY DEF Refuse, Done, DoneWith, Sound, CallsHold, Record
<1> QED BY <1>1, <1>2 DEF OfFavourites, OfFolders

LEMMA ForgetsOf ==
  ASSUME NEW n \in DOMAIN calls, calls' = Without(calls, {n})
  PROVE  /\ OfFavourites(calls') = OfFavourites(calls) \ {n}
         /\ OfFolders(calls') = OfFolders(calls) \ {n}
BY DEF Without, OfFavourites, OfFolders

LEMMA FavouritesFollowStill ==
  ASSUME FavouritesFollow, UNCHANGED <<given, stored, misses>>,
         \/ favourites' = favourites /\ favouritesGet' = favouritesGet
         \/ favouritesGet' = Asked,
         OfFavourites(calls') = {} /\ favouritesGet' # Asked => OfFavourites(calls) = {}
  PROVE  FavouritesFollow'
<1>1. Asked # Idle /\ Asked.step # "served"
  BY IdleIs
<1> QED BY <1>1 DEF FavouritesFollow

LEMMA FoldersFollowStill ==
  ASSUME FoldersFollow, UNCHANGED <<shelves, misses>>,
         \/ folders' = folders /\ foldersGet' = foldersGet
         \/ foldersGet' = Asked,
         OfFolders(calls') = {} /\ foldersGet' # Asked => OfFolders(calls) = {}
  PROVE  FoldersFollow'
<1>1. Asked # Idle /\ Asked.step # "served"
  BY IdleIs
<1> QED BY <1>1 DEF FoldersFollow

LEMMA UserFollows ==
  Sound /\ FavouritesFollow /\ FoldersFollow /\ User => FavouritesFollow' /\ FoldersFollow'
<1> SUFFICES ASSUME Sound, FavouritesFollow, FoldersFollow, User
             PROVE  FavouritesFollow' /\ FoldersFollow'
  OBVIOUS
<1>1. ASSUME NEW op, NEW l, NEW id, NEW f, NEW s
      PROVE  Call(op, l, id, f, s).op = op
  BY DEF Call
<1>2. ASSUME NEW c, c.op \in {"star", "unstar", "move"}, Send(c),
             UNCHANGED <<tables, folderList, misses>>
      PROVE  FavouritesFollow' /\ FoldersFollow'
  <2>1. OfFavourites(calls') # {} /\ (OfFolders(calls') = {} => OfFolders(calls) = {})
    BY <1>2, SendsOf
  <2>2. FavouritesFollow'
    BY <2>1 DEF FavouritesFollow
  <2>3. FoldersFollow'
    BY <1>2, <2>1, FoldersFollowStill DEF tables, folderList
  <2> QED BY <2>2, <2>3
<1>3. ASSUME NEW c, c.op \in {"create", "update", "ungroup"}, Send(c),
             UNCHANGED <<tables, favouriteList, misses>>
      PROVE  FavouritesFollow' /\ FoldersFollow'
  <2>1. OfFolders(calls') # {} /\ (OfFavourites(calls') = {} => OfFavourites(calls) = {})
    BY <1>3, SendsOf
  <2>2. FoldersFollow'
    BY <2>1 DEF FoldersFollow
  <2>3. FavouritesFollow'
    BY <1>3, <2>1, FavouritesFollowStill DEF tables, favouriteList
  <2> QED BY <2>2, <2>3
<1>4. ASSUME NEW l, AddFavourite(l) \/ RemoveFavourite(l) \/ \E f : MoveFavourite(l, f)
      PROVE  FavouritesFollow' /\ FoldersFollow'
  <2>1. PICK op \in {"star", "unstar", "move"} :
          \E id, f : Send(Call(op, l, id, f, <<>>))
    BY <1>4 DEF AddFavourite, RemoveFavourite, MoveFavourite
  <2>2. UNCHANGED <<tables, folderList, misses>>
    BY <1>4 DEF AddFavourite, RemoveFavourite, MoveFavourite
  <2>3. PICK id, f : Send(Call(op, l, id, f, <<>>))
    BY <2>1
  <2>4. Call(op, l, id, f, <<>>).op \in {"star", "unstar", "move"}
    BY <1>1
  <2> QED BY <1>2, <2>2, <2>3, <2>4
<1>5. ASSUME (\E f : DeleteFolder(f) \/ \E p : UpdateFolder(f, p))
               \/ \E name \in Names : CommitDraft(name)
      PROVE  FavouritesFollow' /\ FoldersFollow'
  <2>1. PICK op \in {"create", "update", "ungroup"} :
          \E l, id, f, s : Send(Call(op, l, id, f, s))
    BY <1>5 DEF DeleteFolder, UpdateFolder, CommitDraft
  <2>2. UNCHANGED <<tables, favouriteList, misses>>
    BY <1>5 DEF DeleteFolder, UpdateFolder, CommitDraft
  <2>3. PICK l, id, f, s : Send(Call(op, l, id, f, s))
    BY <2>1
  <2>4. Call(op, l, id, f, s).op \in {"create", "update", "ungroup"}
    BY <1>1
  <2> QED BY <1>3, <2>2, <2>3, <2>4
<1>6. ASSUME Retry \/ CancelEdit \/ \E l : OpenDraft(l)
      PROVE  FavouritesFollow' /\ FoldersFollow'
  <2>1. /\ UNCHANGED <<tables, calls, misses>>
        /\ \/ favourites' = favourites /\ favouritesGet' = favouritesGet
           \/ favouritesGet' = Asked
        /\ \/ folders' = folders /\ foldersGet' = foldersGet
           \/ foldersGet' = Asked
    BY <1>6 DEF Retry, CancelEdit, OpenDraft, lists, favouriteList, folderList
  <2> QED BY <2>1, FavouritesFollowStill, FoldersFollowStill DEF tables
<1> QED
  BY <1>4, <1>5, <1>6 DEF User, FolderRow, SetFolderCollapsed, RenameFolder, MoveFromMenu,
     DropOn

LEMMA ServeFollows ==
  ASSUME Sound, FavouritesFollow, FoldersFollow, NEW n \in DOMAIN calls, Serve(n)
  PROVE  FavouritesFollow' /\ FoldersFollow'
<1> DEFINE c == calls[n]
<1>1. /\ c \in Record /\ NamesRows(given, made, c) /\ made + 1 \in Int
      /\ UNCHANGED <<favourites, favouritesGet, folders, foldersGet, misses>>
  BY DEF Serve, Sound, CallsHold, TablesHold, lists, favouriteList, folderList
<1>2. CASE c.op = "star"
  <2>1. c.layer \in Layers /\ ServeStar(n, c.layer)
    BY <1>1, <1>2 DEF NamesRows, Serve
  <2>2. Refuse(n) \/ \E i \in Int : DoneWith(n, i)
    BY <2>1, ServeStarTables
  <2>3. OfFavourites(calls') # {} /\ OfFolders(calls') = OfFolders(calls)
    BY <1>2, <2>2, ServesOf DEF OfFavourites
  <2> QED BY <1>1, <2>1, <2>3, FoldersFollowStill DEF FavouritesFollow, ServeStar
<1>3. CASE c.op = "create"
  <2>1. ServeCreate(n, c.shelf)
    BY <1>3 DEF Serve
  <2>2. Refuse(n) \/ \E i \in Int : DoneWith(n, i)
    BY <1>1, <2>1 DEF ServeCreate
  <2>3. OfFolders(calls') # {} /\ OfFavourites(calls') = OfFavourites(calls)
    BY <1>3, <2>2, ServesOf DEF OfFolders
  <2> QED BY <1>1, <2>1, <2>3, FavouritesFollowStill DEF FoldersFollow, ServeCreate
<1>4. CASE c.op \notin {"star", "create"}
  <2>1. Refuse(n) \/ Done(n)
    BY <1>1, <1>4, ServeOtherTables DEF Serve, Record
  <2>2. OfFolders(calls') = OfFolders(calls) /\ OfFavourites(calls') = OfFavourites(calls)
    BY <2>1, ServesOf
  <2>3. CASE c.op \in {"unstar", "move"}
    <3>1. n \in OfFavourites(calls') /\ UNCHANGED shelves
      BY <2>2, <2>3 DEF OfFavourites, Serve, ServeUnstar, ServeMove
    <3> QED BY <1>1, <2>2, <3>1, FoldersFollowStill DEF FavouritesFollow
  <2>4. CASE c.op = "update"
    <3>1. n \in OfFolders(calls') /\ UNCHANGED <<given, stored>>
      BY <2>2, <2>4 DEF OfFolders, Serve, ServeUpdate
    <3> QED BY <1>1, <2>2, <3>1, FavouritesFollowStill DEF FoldersFollow
  <2>5. CASE c.op = "ungroup"
    <3>1. n \in OfFolders(calls') /\ n \in OfFavourites(calls')
      BY <2>2, <2>5 DEF OfFolders, OfFavourites
    <3> QED BY <3>1 DEF FoldersFollow, FavouritesFollow
  <2> QED BY <1>1, <1>4, <2>3, <2>4, <2>5 DEF Record
<1> QED BY <1>2, <1>3, <1>4

LEMMA AnswerFollows ==
  ASSUME Sound, FavouritesFollow, FoldersFollow, NEW n \in DOMAIN calls, Lost(n) \/ Answer(n)
  PROVE  FavouritesFollow' /\ FoldersFollow'
<1>1. CASE Lost(n)
  <2>1. OfFolders(calls') = OfFolders(calls) /\ OfFavourites(calls') = OfFavourites(calls)
    BY <1>1, ServesOf DEF Lost
  <2> QED
    BY <1>1, <2>1, FavouritesFollowStill, FoldersFollowStill
    DEF Lost, lists, tables, favouriteList, folderList
<1>2. CASE AnswerToggle(n)
  <2>1. /\ calls' = Without(calls, {n}) /\ n \in Toggles(calls)
        /\ favouritesGet' = IF Settled(calls') THEN Asked ELSE favouritesGet
        /\ UNCHANGED <<tables, folderList, misses>>
    BY <1>2 DEF AnswerToggle
  <2>2. OfFolders(calls') = OfFolders(calls)
    BY <2>1, ForgetsOf DEF Toggles, OfFolders
  <2>3. ~Settled(calls') => OfFavourites(calls') # {}
    BY DEF Settled, Toggles, OfFavourites
  <2>4. FavouritesFollow'
    BY <2>1, <2>3, IdleIs DEF FavouritesFollow
  <2> QED BY <2>1, <2>2, <2>4, FoldersFollowStill DEF folderList, tables
<1>3. CASE AnswerMove(n)
  <2>1. /\ calls' = Without(calls, {n}) /\ calls[n].op = "move" /\ favouritesGet' = Asked
        /\ UNCHANGED <<tables, folderList, misses>>
    BY <1>3 DEF AnswerMove
  <2>2. OfFolders(calls') = OfFolders(calls)
    BY <2>1, ForgetsOf DEF OfFolders
  <2> QED
    BY <2>1, <2>2, FavouritesFollowStill, FoldersFollowStill DEF folderList, tables
<1>4. CASE AnswerFolder(n)
  <2>1. /\ calls' = Without(calls, {n}) /\ foldersGet' = Asked
        /\ calls[n].op \in {"update", "ungroup"}
        /\ favouritesGet' = IF calls[n].op = "ungroup" THEN Asked ELSE favouritesGet
        /\ UNCHANGED <<tables, favourites, misses>>
    BY <1>4 DEF AnswerFolder, FoldersAfter
  <2>2. calls[n].op = "update" => OfFavourites(calls') = OfFavourites(calls)
    BY <2>1, ForgetsOf DEF OfFavourites
  <2> QED
    BY <2>1, <2>2, FavouritesFollowStill, FoldersFollowStill DEF tables
<1>5. CASE AnswerCreate(n)
  <2> DEFINE c == calls[n]
             d == Call("move", c.layer, favourites[c.layer].id, c.id, <<>>)
  <2>1. /\ c.op = "create" /\ foldersGet' = Asked /\ UNCHANGED <<tables, misses>>
    BY <1>5 DEF AnswerCreate, FoldersAfter
  <2>2. FoldersFollow'
    BY <2>1, FoldersFollowStill DEF tables
  <2>3. CASE calls' = With(Without(calls, {n}), n, d)
    <3>1. n \in OfFavourites(calls')
      BY <2>3 DEF With, Call, OfFavourites
    <3> QED BY <2>2, <3>1 DEF FavouritesFollow
  <2>4. CASE calls' = Without(calls, {n}) /\ UNCHANGED favouriteList
    <3>1. OfFavourites(calls') = OfFavourites(calls)
      BY <2>1, <2>4, ForgetsOf DEF OfFavourites
    <3> QED BY <2>1, <2>2, <2>4, <3>1, FavouritesFollowStill DEF favouriteList, tables
  <2> QED BY <1>5, <2>3, <2>4 DEF AnswerCreate
<1> QED BY <1>1, <1>2, <1>3, <1>4, <1>5 DEF Answer

LEMMA GetFollows ==
  ASSUME Sound, RowsAreOne, FavouritesFollow, FoldersFollow, Get \/ GetFails
  PROVE  FavouritesFollow' /\ FoldersFollow'
<1>1. CASE FavouritesServed
  <2>1. /\ favouritesGet' = [step |-> "served", rows |-> ServedRows]
        /\ UNCHANGED <<tables, folders, foldersGet, calls, misses>>
    BY <1>1 DEF FavouritesServed, ServedRows, folderList
  <2>2. AreTable(given', stored', favouritesGet'.rows) /\ favouritesGet' # Idle
    BY <2>1, ServedAre DEF tables, Idle
  <2> QED BY <2>1, <2>2, FoldersFollowStill DEF FavouritesFollow, tables
<1>2. CASE FavouritesArrive
  <2>1. /\ favouritesGet.step = "served" /\ favourites' = favouritesGet.rows
        /\ favouritesGet' = Idle /\ UNCHANGED <<tables, folders, foldersGet, calls, misses>>
    BY <1>2 DEF FavouritesArrive, PaintFavourites, folderList
  <2>2. FavouritesFollow'
    BY <2>1, IdleIs DEF FavouritesFollow, tables
  <2> QED BY <2>1, <2>2, FoldersFollowStill DEF tables
<1>3. CASE FoldersServed
  <2>1. /\ foldersGet' = [step |-> "served", rows |-> shelves] /\ foldersGet' # Idle
        /\ UNCHANGED <<tables, favourites, favouritesGet, calls, misses>>
    BY <1>3 DEF FoldersServed, Idle, favouriteList
  <2> QED BY <2>1, FavouritesFollowStill DEF FoldersFollow, tables
<1>4. CASE FoldersArrive
  <2>1. /\ foldersGet.step = "served" /\ folders' = foldersGet.rows
        /\ foldersGet' = Idle /\ UNCHANGED <<tables, favourites, favouritesGet, calls, misses>>
    BY <1>4 DEF FoldersArrive, PaintFolders, favouriteList
  <2>2. FoldersFollow'
    BY <2>1, IdleIs DEF FoldersFollow, tables
  <2> QED BY <2>1, <2>2, FavouritesFollowStill DEF tables
<1>5. CASE GetFails
  <2>1. misses' # 0
    BY <1>5 DEF GetFails, Sound, RestHolds
  <2> QED BY <2>1 DEF FavouritesFollow, FoldersFollow
<1> QED BY <1>1, <1>2, <1>3, <1>4, <1>5 DEF Get

-----------------------------------------------------------------------------
(* The theorem *)

LEMMA InitHolds == Init => PanelInv
<1> SUFFICES ASSUME Init PROVE PanelInv
  OBVIOUS
<1>1. /\ given = Layer0 /\ Layer0 \in Seq(Layers) /\ IsInjective(Layer0)
      /\ stored = Folder0 /\ Folder0 \in [DOMAIN Layer0 -> {0} \cup DOMAIN Shelves0]
      /\ shelves = Shelves0 /\ made = Len(Shelves0) /\ Shelves0 \in Seq(Shelf)
  BY PanelAssumption DEF Init, Shelf, Top
<1>2. TablesHold
  <2>1. /\ made \in Nat /\ DOMAIN shelves = 1..made
        /\ shelves \in [1..made -> Shelf]
    BY <1>1
  <2>2. DOMAIN stored = DOMAIN given /\ stored \in [DOMAIN given -> Nat]
    BY <1>1
  <2> QED BY <1>1, <2>1, <2>2 DEF TablesHold, Over
<1>3. RowsAreOne
  <2>1. \A i, j \in DOMAIN Layer0 : Layer0[i] = Layer0[j] => i = j
    BY <1>1 DEF IsInjective
  <2> QED BY <1>1, <2>1 DEF RowsAreOne
<1>4. FavouritesHold /\ FoldersHold
  BY NothingThere, IdleIs
  DEF Init, FavouritesHold, FoldersHold, OwnIds, OwnFolders, Status, Progress
<1>5. CallsHold /\ RestHolds
  BY NothingThere DEF Init, CallsHold, RestHolds, NotEditing, NoFiling
<1>6. FavouritesFollow /\ FoldersFollow
  BY IdleIs DEF Init, FavouritesFollow, FoldersFollow
<1> QED BY <1>2, <1>3, <1>4, <1>5, <1>6 DEF PanelInv, Sound

LEMMA NextHolds == PanelInv /\ [Next]_vars => PanelInv'
<1> SUFFICES ASSUME PanelInv, [Next]_vars PROVE PanelInv'
  OBVIOUS
<1>1. Sound /\ RowsAreOne /\ FavouritesFollow /\ FoldersFollow
  BY DEF PanelInv
<1>2. Sound' /\ RowsAreOne'
  BY <1>1, SoundStep, RowsStayOne
<1>3. FavouritesFollow' /\ FoldersFollow'
  <2>1. CASE User
    BY <1>1, <2>1, UserFollows
  <2>2. ASSUME NEW n \in DOMAIN calls, Serve(n) \/ Lost(n) \/ Answer(n)
        PROVE  FavouritesFollow' /\ FoldersFollow'
    BY <1>1, <2>2, ServeFollows, AnswerFollows
  <2>3. CASE Get \/ GetFails
    BY <1>1, <2>3, GetFollows
  <2>4. CASE UNCHANGED vars
    <3>1. UNCHANGED <<tables, favourites, favouritesGet, folders, foldersGet, calls, misses>>
      BY <2>4 DEF vars, lists, favouriteList, folderList
    <3> QED BY <1>1, <3>1, FavouritesFollowStill, FoldersFollowStill DEF tables
  <2> QED BY <2>1, <2>2, <2>3, <2>4 DEF Next
<1> QED BY <1>2, <1>3 DEF PanelInv

LEMMA ShownOnce == EveryFavouriteShownOnce
<1> SUFFICES ASSUME NEW l \in DOMAIN favourites \ {Drafted}
             PROVE  Cardinality({f \in DOMAIN folders : l \in InFolder(f)}) =
                      IF l \in TopLevel THEN 0 ELSE 1
  BY DEF EveryFavouriteShownOnce
<1> DEFINE s == ShownFolder(l)
<1>1. {f \in DOMAIN folders : l \in InFolder(f)} = IF s \in DOMAIN folders THEN {s} ELSE {}
  BY DEF InFolder, Shown
<1>2. l \in TopLevel <=> s \notin DOMAIN folders
  BY DEF TopLevel, Shown
<1> HIDE DEF s
<1>3. Cardinality({s}) = 1 /\ Cardinality({}) = 0
  BY FS_Singleton, FS_EmptySet
<1> QED BY <1>1, <1>2, <1>3

LEMMA InvIsTrue == PanelInv => PanelIsTrue
<1> SUFFICES ASSUME PanelInv PROVE PanelIsTrue
  OBVIOUS
<1>1. \A n \in DOMAIN calls : IsCall(calls[n])
  <2> SUFFICES ASSUME NEW n \in DOMAIN calls PROVE IsCall(calls[n])
    OBVIOUS
  <2>1. calls[n] \in Record
    BY DEF PanelInv, Sound, CallsHold
  <2>2. Over(calls[n].shelf, {"name", "isCollapsed"}, Names \cup BOOLEAN)
    BY <2>1 DEF Record, Patches, Over
  <2>3. Over(calls[n].favourites, Layers, Entry) /\ DOMAIN calls[n].folders \subseteq Int
    BY <2>1, ListsAre, ShelvingsAre DEF Record
  <2> QED BY <2>1, <2>2, <2>3 DEF IsCall, Record
<1>2. TypeOK
  BY <1>1, ListsAre, ShelvingsAre
  DEF PanelInv, Sound, TablesHold, FavouritesHold, FoldersHold, CallsHold, RestHolds,
      Status, Progress, TypeOK
<1>3. CallsNameStoredRows
  BY DEF PanelInv, Sound, CallsHold, NamesRows, Own, CallsNameStoredRows
<1>4. SettledPanelIsTables
  BY DEF PanelInv, FavouritesFollow, FoldersFollow, OfFavourites, OfFolders, AreTable,
         SettledPanelIsTables, PanelIsTables
<1> QED BY <1>2, <1>3, <1>4, ShownOnce DEF PanelIsTrue

(* Whatever is starred, filed, renamed or deleted, refused, lost or fetched *)
(* and in whatever order it is answered: what is sent names a row and a     *)
(* folder map-api handed out (pendingIds.ts), a favourite is in one place   *)
(* of the panel (grouping.ts), and with nothing under way and no GET failed *)
(* the panel is the two tables (useFavouriteLayers.ts, settle).             *)
THEOREM PanelTheorem == Spec => []PanelIsTrue
<1>1. Init => PanelInv
  BY InitHolds
<1>2. PanelInv /\ [Next]_vars => PanelInv'
  BY NextHolds
<1>3. PanelInv => PanelIsTrue
  BY InvIsTrue
<1> QED BY <1>1, <1>2, <1>3, PTL DEF Spec

-----------------------------------------------------------------------------
(* Reads from EPIC.Track and the warehouse                                 *)

Values == 0..MaxVersions

LEMMA Constants ==
  /\ MaxVersions \in Nat /\ MaxVersions >= 1 /\ MaxFailures \in Nat
  /\ NoThread \notin Threads /\ NoToken \notin Tokens /\ NoLock \notin Locks
BY UpstreamAssumption

(* What a reader hands over, and how the thread that has it goes on *)
LEMMA ReadingTyped ==
  ASSUME ReadsTypeOK, NEW t \in Threads, NEW r \in Answers, NEW c \in Answers,
         NEW v \in Values, Reading(t, r, c, v)
  PROVE  /\ pc' \in [Threads -> Steps] /\ got' \in [Threads -> Values]
         /\ newest' \in [Lasting -> Values]
         /\ tries' \in [Threads -> 0..1] /\ part' \in [Threads -> 0..1]
         /\ bearer' \in [Threads -> Tokens \cup {NoToken}]
         /\ lock' \in [Threads -> Locks \cup {NoLock}]
         /\ \A u \in Threads : pc'[u] = "queue" => lock'[u] # NoLock
BY Constants DEF ReadsTypeOK, Reading, Goto, Latest, Values, Steps, Lasting, Answers

(* Every action leads from well-typed states to well-typed ones; the ones  *)
(* that hand an answer over by ReadingTyped.                               *)
LEMMA TypeStep == ReadsTypeOK /\ ReadsNext => ReadsTypeOK'
<1> SUFFICES ASSUME ReadsTypeOK, ReadsNext PROVE ReadsTypeOK'
  OBVIOUS
<1> USE Constants DEF Values
<1>1. ASSUME NEW t \in Threads, Advance(t), UNCHANGED mix PROVE ReadsTypeOK'
  <2> USE <1>1
  <2>1. CASE Acquire(t)
    BY <2>1 DEF ReadsTypeOK, Acquire, At, Goto, Steps, Refreshing, Flying, shared, threads, upstream
  <2>2. CASE TakeToken(t)
    BY <2>2
      DEF ReadsTypeOK, TakeToken, At, Goto, Steps, Refreshing, Flying, shared, threads, upstream
  <2>3. CASE Login(t)
    BY <2>3
      DEF ReadsTypeOK, Login, InUse, At, Goto, Steps, Refreshing, Flying, shared, threads, upstream
  <2>4. CASE Stow(t)
    BY <2>4 DEF ReadsTypeOK, Stow, At, Goto, Steps, Refreshing, Flying, shared, threads, upstream
  <2>5. CASE Received(t)
    BY <2>5 DEF ReadsTypeOK, Received, Another, At, Goto, Steps, Refreshing, Flying, shared,
       threads, upstream
  <2>6. CASE Join(t)
    BY <2>6 DEF ReadsTypeOK, Join, At, Goto, Steps, Refreshing, Flying, shared, threads, upstream
  <2>7. CASE Take(t)
    BY <2>7 DEF ReadsTypeOK, Take, At, Goto, Steps, Refreshing, Flying, shared, threads, upstream
  <2>8. CASE GiveUp(t)
    BY <2>8 DEF ReadsTypeOK, GiveUp, At, Goto, Steps, Refreshing, Flying, shared, threads, upstream
  <2>9. CASE Found(t)
    BY <2>9 DEF ReadsTypeOK, Found, At, Goto, Steps, Refreshing, Flying, shared, threads, upstream
  <2>10. CASE SearchFails(t)
    BY <2>10
      DEF ReadsTypeOK, SearchFails, At, Goto, Steps, Refreshing, Flying, shared, threads, upstream
  <2>11. CASE Release(t)
    BY <2>11
      DEF ReadsTypeOK, Release, At, Goto, Steps, Refreshing, Flying, shared, threads, upstream
  <2>12. CASE Reply(t)
    BY <2>12 DEF ReadsTypeOK, Reply, Answers, At, Goto, Steps, Refreshing, Flying, shared,
       threads, upstream
  <2>13. CASE StopWaiting(t)
    <3>1. /\ read[t] \in Answers /\ call[t] \in Answers
          /\ cache["last projects"] \in Values
      BY DEF ReadsTypeOK, Answers, Copies
    <3>2. Reading(t, read[t], call[t], cache["last projects"])
      BY <2>13 DEF StopWaiting, Deliver
    <3> QED
      BY <2>13, <3>1, <3>2, ReadingTyped DEF ReadsTypeOK, StopWaiting, Deliver, shared, upstream
  <2>14. CASE LastLook(t)
    <3>1. /\ read[t] \in Answers /\ call[t] \in Answers
          /\ cache["search"] \in Values
      BY DEF ReadsTypeOK, Answers, Copies
    <3>2. Reading(t, read[t], call[t], cache["search"])
      BY <2>14 DEF LastLook, Deliver
    <3> QED
      BY <2>14, <3>1, <3>2, ReadingTyped DEF ReadsTypeOK, LastLook, Deliver, shared, upstream
  <2>15. CASE Pop(t)
    <3>1. /\ read[t] \in Answers /\ call[t] \in Answers
          /\ got[t] \in Values
      BY DEF ReadsTypeOK, Answers, Copies
    <3>2. Reading(t, read[t], call[t], got[t])
      BY <2>15 DEF Pop, Deliver
    <3> QED
      BY <2>15, <3>1, <3>2, ReadingTyped DEF ReadsTypeOK, Pop, Deliver, shared, upstream
  <2>16. CASE Retake(t)
    <3>1. cache["search"] \in Values
      BY DEF ReadsTypeOK, Answers
    <3> QED
      BY <2>16, <3>1 DEF ReadsTypeOK, Retake, Goto, Steps, Flying, shared, upstream
  <2>17. CASE Pick(t)
    <3>0. 1 \in Values
      OBVIOUS
    <3>1. cache["works"] \in Values /\ "works" \in Answers
      BY DEF ReadsTypeOK, Answers, Copies
    <3>2. CASE Reading(t, "works", "works", cache["works"]) /\ Look(t, "works", "works")
      BY <2>17, <3>1, <3>2, ReadingTyped DEF ReadsTypeOK, Pick, Look, shared, upstream
    <3>3. CASE cache["works"] = 0 /\ Look(t, "works", "works")
      BY <2>17, <3>1, <3>3 DEF ReadsTypeOK, Pick, Look, Goto, Steps, Refreshing, shared, upstream
    <3>4. CASE Reading(t, "works", "works", 1) /\ UNCHANGED call
      BY <2>17, <3>0, <3>1, <3>4, ReadingTyped DEF ReadsTypeOK, Pick, shared, upstream
    <3> QED
      BY <2>17, <3>2, <3>3, <3>4 DEF Pick, Look
  <2>18. CASE Recheck(t)
    <3>1. read[t] \in Answers /\ call[t] \in Answers /\ cache["projects"] \in Values
      BY DEF ReadsTypeOK, Answers, Copies
    <3>2. CASE cache["projects"] # 0
      <4>1. Reading(t, read[t], call[t], cache["projects"])
        BY <2>18, <3>2 DEF Recheck, Deliver
      <4> QED
        BY <2>18, <3>1, <3>2, <4>1, ReadingTyped
          DEF ReadsTypeOK, Recheck, Deliver, Returned, upstream
    <3>3. CASE cache["projects"] = 0
      BY <2>18, <3>3 DEF ReadsTypeOK, Recheck, Goto, Steps, Refreshing, upstream
    <3> QED
      BY <3>2, <3>3
  <2>19. ASSUME Raises(t) PROVE
             /\ pc' \in [Threads -> Steps] /\ got' \in [Threads -> Values]
             /\ newest' \in [Lasting -> Values]
             /\ tries' \in [Threads -> 0..1] /\ part' \in [Threads -> 0..1]
             /\ bearer' \in [Threads -> Tokens \cup {NoToken}]
             /\ lock' \in [Threads -> Locks \cup {NoLock}]
             /\ \A u \in Threads : pc'[u] = "queue" => lock'[u] # NoLock
             /\ read' = read /\ call' = call /\ refresh' \in Threads \cup {NoThread}
    <3> DEFINE v == IF call[t] \in Lasting THEN cache[LastGood(call[t])] ELSE 0
    <3>0. cache["last projects"] \in Values /\ cache["last options"] \in Values
      BY DEF ReadsTypeOK, Copies
    <3>1. read[t] \in Answers /\ call[t] \in Answers
      BY DEF ReadsTypeOK
    <3>4. 0 \in Values /\ LastGood(call[t]) \in {"last projects", "last options"}
      BY DEF LastGood
    <3>5. v \in Values
      BY <3>0, <3>4
    <3>2. Reading(t, read[t], call[t], v) /\ UNCHANGED <<read, call>> /\ Returned(t)
      BY <2>19 DEF Raises, Fails, Deliver
    <3> HIDE DEF v
    <3> QED
      BY <3>1, <3>2, <3>5, ReadingTyped DEF Returned, ReadsTypeOK
  <2>20. CASE CallFails(t)
    BY <2>20, <2>19 DEF ReadsTypeOK, CallFails
  <2>21. CASE Refused(t)
    <3>1. CASE tries[t] = 0
      BY <2>21, <3>1 DEF ReadsTypeOK, Refused, Refusing, Goto, Steps, Refreshing
    <3>2. CASE tries[t] # 0
      BY <2>21, <3>2, <2>19 DEF ReadsTypeOK, Refused, Refusing
    <3> QED
      BY <3>1, <3>2
  <2>22. CASE Save(t)
    <3>1. read[t] \in Answers /\ call[t] \in Answers /\ got[t] \in Values
      BY DEF ReadsTypeOK
    <3>2. CASE call[t] = "works"
      <4>1. Reading(t, read[t], call[t], got[t])
        BY <2>22, <3>2 DEF Save, Deliver
      <4> QED
        BY <2>22, <3>1, <3>2, <4>1, ReadingTyped DEF ReadsTypeOK, Save, Deliver, upstream
    <3>3. CASE call[t] # "works"
      BY <2>22, <3>1, <3>3 DEF ReadsTypeOK, Save, Goto, Steps, Refreshing, Flying, upstream
    <3> QED
      BY <3>2, <3>3
  <2>23. CASE Keep(t)
    <3>1. read[t] \in Answers /\ call[t] \in Answers /\ got[t] \in Values
      BY DEF ReadsTypeOK
    <3>2. Reading(t, read[t], call[t], got[t])
      BY <2>23 DEF Keep, Deliver
    <3> QED
      BY <2>23, <3>1, <3>2, ReadingTyped DEF ReadsTypeOK, Keep, Deliver, Returned, upstream
  <2> QED
    BY <2>1, <2>2, <2>3, <2>4, <2>5, <2>6, <2>7, <2>8, <2>9, <2>10, <2>11, <2>12, <2>13, <2>14,
       <2>15, <2>16, <2>17, <2>18, <2>20, <2>21, <2>22, <2>23 DEF Advance
<1>2. ASSUME NEW t \in Threads, NEW r \in mix, Ask(t, r), UNCHANGED mix PROVE ReadsTypeOK'
  <2> DEFINE c == IF r = "works" THEN "projects" ELSE r
  <2>1. r \in Answers /\ c \in Answers
    BY UpstreamAssumption DEF ReadsTypeOK, Answers
  <2>2. cache[c] \in Values
    BY <2>1 DEF ReadsTypeOK
  <2>3. Look(t, r, c) /\ read' = [read EXCEPT ![t] = r]
    BY <1>2 DEF Ask
  <2>4. since' \in [Threads -> Values]
    BY <1>2 DEF Ask, Latest, ReadsTypeOK
  <2> HIDE DEF c
  <2>5. CASE cache[c] # 0
    <3>1. Reading(t, r, c, cache[c])
      BY <2>3, <2>5 DEF Look
    <3> QED
      BY <1>2, <2>1, <2>2, <2>3, <2>4, <3>1, ReadingTyped
      DEF ReadsTypeOK, Ask, Look, shared, upstream
  <2>6. CASE cache[c] = 0
    BY <1>2, <2>1, <2>3, <2>4, <2>6
    DEF ReadsTypeOK, Ask, Look, Goto, Steps, Refreshing, shared, upstream
  <2> QED
    BY <2>5, <2>6
<1>3. ASSUME NEW e \in Expiring, Expire(e), UNCHANGED mix PROVE ReadsTypeOK'
  BY <1>3 DEF ReadsTypeOK, Expire, Expiring, threads, upstream
<1>4. ASSUME ExpireToken, UNCHANGED mix PROVE ReadsTypeOK'
  BY <1>4 DEF ReadsTypeOK, ExpireToken, threads, upstream
<1>5. ASSUME Publish, UNCHANGED mix PROVE ReadsTypeOK'
  BY <1>5 DEF ReadsTypeOK, Publish, threads, shared
<1>6. ASSUME Revoke, UNCHANGED mix PROVE ReadsTypeOK'
  BY <1>6 DEF ReadsTypeOK, Revoke, InUse, threads, shared
<1> QED
  BY <1>1, <1>2, <1>3, <1>4, <1>5, <1>6 DEF ReadsNext

(* The state stays well typed: ReadsTypeOK is a conjunct of NoStampede. *)
THEOREM TypeCorrect == ReadsSpec => []ReadsTypeOK
<1>1. ReadsInit => ReadsTypeOK
  BY Constants DEF ReadsInit, ReadsTypeOK, Steps, Answers
<1>2. ReadsTypeOK /\ UNCHANGED readsVars => ReadsTypeOK'
  BY DEF ReadsTypeOK, readsVars, shared, threads, upstream
<1> QED
  BY <1>1, <1>2, TypeStep, PTL DEF ReadsSpec

-----------------------------------------------------------------------------
(* A step of a thread leaves the others where they are. *)
Apart(t) ==
  \A u \in Threads \ {t} :
    /\ pc'[u] = pc[u] /\ read'[u] = read[u] /\ call'[u] = call[u]
    /\ bearer'[u] = bearer[u] /\ got'[u] = got[u] /\ since'[u] = since[u]
    /\ lock'[u] = lock[u]

(* Where a request is once its reader has returned *)
Finished(t) == pc'[t] \in {"pick", "answered"} /\ bearer'[t] = NoToken

LEMMA ReadingEnds ==
  ASSUME ReadsTypeOK, NEW t \in Threads, NEW r, NEW c, NEW v, Reading(t, r, c, v)
  PROVE  /\ Finished(t)
         /\ \A u \in Threads \ {t} :
              /\ pc'[u] = pc[u] /\ bearer'[u] = bearer[u]
              /\ got'[u] = got[u] /\ lock'[u] = lock[u]
BY DEF ReadsTypeOK, Reading, Finished, Goto

LEMMA StepApart ==
  ASSUME ReadsTypeOK, NEW t \in Threads, Advance(t) \/ \E r \in mix : Ask(t, r)
  PROVE  Apart(t)
<1>0. ASSUME NEW r, NEW c, NEW v, Reading(t, r, c, v)
      PROVE  \A u \in Threads \ {t} :
               /\ pc'[u] = pc[u] /\ bearer'[u] = bearer[u]
               /\ got'[u] = got[u] /\ lock'[u] = lock[u]
  BY <1>0, ReadingEnds
<1>1. CASE Acquire(t) \/ TakeToken(t) \/ Login(t) \/ Stow(t) \/ Received(t)
  BY <1>1 DEF ReadsTypeOK, Apart, Acquire, TakeToken, Login, Stow, Received, Goto, threads
<1>2. CASE Join(t) \/ Take(t) \/ GiveUp(t) \/ Retake(t) \/ Found(t)
  BY <1>2 DEF ReadsTypeOK, Apart, Join, Take, GiveUp, Retake, Found, Goto
<1>3. CASE SearchFails(t) \/ Release(t) \/ Reply(t)
  BY <1>3 DEF ReadsTypeOK, Apart, SearchFails, Release, Reply, Goto
<1>4. CASE StopWaiting(t) \/ LastLook(t) \/ Pop(t)
  BY <1>0, <1>4 DEF Apart, StopWaiting, LastLook, Pop, Deliver
<1>5. CASE Recheck(t)
  BY <1>0, <1>5 DEF ReadsTypeOK, Apart, Recheck, Deliver, Goto
<1>6. CASE Pick(t) \/ \E r \in mix : Ask(t, r)
  BY <1>0, <1>6 DEF ReadsTypeOK, Apart, Pick, Ask, Look, Goto
<1>7. CASE CallFails(t) \/ Refused(t)
  BY <1>0, <1>7 DEF ReadsTypeOK, Apart, CallFails, Refused, Refusing, Raises, Fails, Deliver, Goto
<1>8. CASE Save(t) \/ Keep(t)
  BY <1>0, <1>8 DEF ReadsTypeOK, Apart, Save, Keep, Deliver, Goto
<1> QED
  BY <1>1, <1>2, <1>3, <1>4, <1>5, <1>6, <1>7, <1>8 DEF Advance

-----------------------------------------------------------------------------
(* The refresh of the list: who is in it holds REFRESH_LOCK, and who is in *)
(* a search's flight searches.                                             *)
Alone(t) ==
  /\ InRefresh(t) => refresh = t
  /\ pc[t] \in {"join", "queue", "last", "retake", "search", "release", "pop"} =>
       call[t] = "search"
Alones == \A t \in Threads : Alone(t)

LEMMA AloneStays ==
  ASSUME ReadsTypeOK, Alones, NEW t \in Threads, Apart(t), Alone(t)',
         refresh' = refresh \/ Returned(t)
  PROVE  Alones'
BY DEF Alones, Alone, InRefresh, Apart, Returned, ReadsTypeOK

LEMMA AloneStep == ReadsTypeOK /\ Alones /\ ReadsNext => Alones'
<1> SUFFICES ASSUME ReadsTypeOK, Alones, ReadsNext PROVE Alones'
  OBVIOUS
<1> USE DEF Refreshing
<1>0. ASSUME NEW t \in Threads, Finished(t) PROVE Alone(t)'
  BY <1>0 DEF Alone, InRefresh, Finished
<1>1. ASSUME NEW t \in Threads, Advance(t) PROVE Alones'
  <2>0. Apart(t) /\ Alone(t)
    BY <1>1, StepApart DEF Alones
  <2>1. CASE Acquire(t)
    <3>1. \A u \in Threads \ {t} : ~InRefresh(u)
      BY <2>1, Constants DEF Acquire, Alones, Alone
    <3>2. Alone(t)'
      BY <2>1 DEF ReadsTypeOK, Acquire, Goto, Alone
    <3> QED
      BY <2>0, <3>1, <3>2 DEF Apart, Alones, Alone, InRefresh
  <2>2. CASE TakeToken(t) \/ Login(t) \/ Stow(t) \/ Received(t)
    BY <2>0, <2>2, AloneStays
    DEF ReadsTypeOK, TakeToken, Login, Stow, Received, Another, At, Goto, Alone, InRefresh, shared
  <2>3. CASE Join(t) \/ Take(t) \/ GiveUp(t) \/ Retake(t) \/ Found(t)
    <3>1. Alone(t)' /\ refresh' = refresh
      <4>1. CASE Join(t) \/ Take(t) \/ GiveUp(t)
        BY <2>0, <4>1 DEF ReadsTypeOK, Join, Take, GiveUp, At, Goto, Alone, InRefresh, shared
      <4>2. CASE Retake(t) \/ Found(t)
        BY <2>0, <4>2 DEF ReadsTypeOK, Retake, Found, At, Goto, Alone, InRefresh, shared
      <4> QED
        BY <2>3, <4>1, <4>2
    <3> QED
      BY <2>0, <3>1, AloneStays
  <2>4. CASE SearchFails(t) \/ Release(t) \/ Reply(t)
    <3>1. Alone(t)' /\ refresh' = refresh
      BY <2>0, <2>4 DEF ReadsTypeOK, SearchFails, Release, Reply, At, Goto, Alone, InRefresh, shared
    <3> QED
      BY <2>0, <3>1, AloneStays
  <2>5. CASE StopWaiting(t) \/ LastLook(t) \/ Pop(t)
    <3>1. Finished(t) /\ refresh' = refresh
      BY <2>5, ReadingEnds DEF StopWaiting, LastLook, Pop, Deliver, shared
    <3> QED
      BY <1>0, <2>0, <3>1, AloneStays
  <2>6. CASE Recheck(t)
    <3>1. CASE cache["projects"] # 0
      BY <1>0, <2>0, <2>6, <3>1, ReadingEnds, AloneStays DEF Recheck, Deliver
    <3>2. CASE cache["projects"] = 0
      BY <2>0, <2>6, <3>2, AloneStays DEF ReadsTypeOK, Recheck, At, Goto, Alone, InRefresh
    <3> QED
      BY <3>1, <3>2
  <2>7. CASE Pick(t)
    <3>1. Alone(t)' /\ refresh' = refresh
      BY <1>0, <2>7, ReadingEnds
      DEF ReadsTypeOK, Pick, Look, Goto, Alone, InRefresh, shared
    <3> QED
      BY <2>0, <3>1, AloneStays
  <2>8. CASE CallFails(t)
    BY <1>0, <2>0, <2>8, ReadingEnds, AloneStays DEF CallFails, Raises, Fails, Deliver
  <2>9. CASE Refused(t)
    <3>1. CASE tries[t] = 0
      BY <2>0, <2>9, <3>1, AloneStays
      DEF ReadsTypeOK, Refused, Refusing, At, Goto, Alone, InRefresh
    <3>2. CASE tries[t] # 0
      BY <1>0, <2>0, <2>9, <3>2, ReadingEnds, AloneStays
      DEF Refused, Refusing, Raises, Fails, Deliver
    <3> QED
      BY <3>1, <3>2
  <2>10. CASE Save(t)
    <3>1. CASE call[t] = "works"
      BY <1>0, <2>0, <2>10, <3>1, ReadingEnds, AloneStays DEF Save, Deliver
    <3>2. CASE call[t] # "works"
      BY <2>0, <2>10, <3>2, AloneStays DEF ReadsTypeOK, Save, At, Goto, Alone, InRefresh
    <3> QED
      BY <3>1, <3>2
  <2>11. CASE Keep(t)
    BY <1>0, <2>0, <2>11, ReadingEnds, AloneStays DEF Keep, Deliver
  <2> QED
    BY <1>1, <2>1, <2>2, <2>3, <2>4, <2>5, <2>6, <2>7, <2>8, <2>9, <2>10, <2>11 DEF Advance
<1>2. ASSUME NEW t \in Threads, NEW r \in mix, Ask(t, r) PROVE Alones'
  <2>0. Apart(t)
    BY <1>2, StepApart
  <2>1. refresh' = refresh
    BY <1>2 DEF Ask, shared
  <2>2. Alone(t)'
    BY <1>0, <1>2, ReadingEnds DEF ReadsTypeOK, Ask, Look, Goto, Alone, InRefresh
  <2> QED
    BY <2>0, <2>1, <2>2, AloneStays
<1>3. CASE (\E e \in Expiring : Expire(e)) \/ ExpireToken \/ Publish \/ Revoke
  BY <1>3 DEF Expire, ExpireToken, Publish, Revoke, Alones, Alone, InRefresh, shared, threads
<1> QED
  BY <1>1, <1>2, <1>3 DEF ReadsNext

LEMMA AlwaysAlone == ReadsSpec => []Alones
<1>1. ReadsInit => Alones
  BY DEF ReadsInit, Alones, Alone, InRefresh, Refreshing
<1>2. Alones /\ UNCHANGED readsVars => Alones'
  BY DEF Alones, Alone, InRefresh, readsVars, shared, threads
<1> QED
  BY <1>1, <1>2, AloneStep, TypeCorrect, PTL DEF ReadsSpec

(* However many threads miss the list at once and whatever fails, one of   *)
(* them at a time is between taking REFRESH_LOCK and returning from the    *)
(* refresh (open_projects).                                                *)
THEOREM RefreshTheorem == ReadsSpec => []OneRefresh
<1>1. Alones => OneRefresh
  BY DEF Alones, Alone, OneRefresh
<1> QED
  BY <1>1, AlwaysAlone, PTL

-----------------------------------------------------------------------------
(* The token.  One between its answer and the cache is nobody else's, and  *)
(* was never refused.                                                      *)
Stowing(t) ==
  pc[t] = "stow" =>
    /\ bearer[t] \in Tokens /\ bearer[t] \notin dropped /\ bearer[t] # token
    /\ \A u \in Threads \ {t} : bearer[u] # bearer[t]

TokenInv == DroppedTokenIsGone /\ \A t \in Threads : Stowing(t)

(* A step that fetches no token, and drops none as refused *)
Quiet(t) ==
  /\ pc'[t] # "stow" /\ bearer'[t] \in {bearer[t], NoToken}
  /\ UNCHANGED <<token, dropped>>

LEMMA QuietStep ==
  ASSUME ReadsTypeOK, TokenInv, NEW t \in Threads, Apart(t), Quiet(t)
  PROVE  TokenInv'
BY Constants DEF ReadsTypeOK, TokenInv, DroppedTokenIsGone, Stowing, Apart, Quiet

LEMMA TokenStep == ReadsTypeOK /\ TokenInv /\ ReadsNext => TokenInv'
<1> SUFFICES ASSUME ReadsTypeOK, TokenInv, ReadsNext PROVE TokenInv'
  OBVIOUS
<1>0. ASSUME NEW t \in Threads, Finished(t), UNCHANGED <<token, dropped>> PROVE Quiet(t)
  BY <1>0 DEF Quiet, Finished
<1>1. ASSUME NEW t \in Threads, Advance(t) PROVE TokenInv'
  <2>0. Apart(t)
    BY <1>1, StepApart
  <2>1. CASE TakeToken(t)
    <3>1. /\ bearer'[t] = token /\ pc'[t] # "stow"
          /\ UNCHANGED <<token, dropped>>
      BY <2>1 DEF ReadsTypeOK, TakeToken, Goto, shared
    <3> QED
      BY <2>0, <3>1 DEF TokenInv, DroppedTokenIsGone, Stowing, Apart
  <2>2. CASE Login(t)
    <3> DEFINE new == CHOOSE n \in Tokens \ InUse : TRUE
    <3>1. /\ new \in Tokens \ InUse /\ bearer'[t] = new
          /\ token' = token /\ dropped' = dropped \ {new}
      BY <2>2 DEF ReadsTypeOK, Login, shared
    <3> HIDE DEF new
    <3>2. new # token /\ \A u \in Threads : bearer[u] # new
      BY <3>1 DEF InUse
    <3> QED
      BY <2>0, <3>1, <3>2 DEF TokenInv, DroppedTokenIsGone, Stowing, Apart
  <2>3. CASE Stow(t)
    <3>1. /\ pc[t] = "stow" /\ pc'[t] # "stow" /\ token' = bearer[t]
          /\ UNCHANGED <<bearer, dropped>>
      BY <2>3 DEF ReadsTypeOK, Stow, At, Goto
    <3> QED
      BY <2>0, <3>1 DEF TokenInv, DroppedTokenIsGone, Stowing, Apart
  <2>4. CASE Refused(t)
    <3>1. /\ token' = NoToken /\ dropped' \subseteq dropped \cup {bearer[t]}
          /\ NoToken \notin dropped'
      BY <2>4, Constants DEF ReadsTypeOK, Refused, Refusing
    <3>2. pc'[t] # "stow" /\ bearer'[t] = NoToken
      <4>1. CASE tries[t] = 0
        BY <2>4, <4>1 DEF ReadsTypeOK, Refused, Refusing, Goto
      <4>2. CASE tries[t] # 0
        BY <2>4, <4>2, ReadingEnds DEF Refused, Refusing, Raises, Fails, Deliver, Finished
      <4> QED
        BY <4>1, <4>2
    <3> QED
      BY <2>0, <3>1, <3>2, Constants DEF TokenInv, DroppedTokenIsGone, Stowing, Apart
  <2>5. CASE Acquire(t) \/ Received(t) \/ Join(t) \/ Take(t) \/ GiveUp(t)
    <3>1. Quiet(t)
      BY <2>5 DEF ReadsTypeOK, Acquire, Received, Another, Join, Take, GiveUp, Goto, Quiet, shared
    <3> QED
      BY <2>0, <3>1, QuietStep
  <2>6. CASE Retake(t) \/ Found(t) \/ SearchFails(t) \/ Release(t) \/ Reply(t)
    <3>1. Quiet(t)
      BY <2>6 DEF ReadsTypeOK, Retake, Found, SearchFails, Release, Reply, Goto, Quiet, shared
    <3> QED
      BY <2>0, <3>1, QuietStep
  <2>7. CASE StopWaiting(t) \/ LastLook(t) \/ Pop(t) \/ CallFails(t) \/ Keep(t)
    <3>1. Finished(t) /\ UNCHANGED <<token, dropped>>
      BY <2>7, ReadingEnds
      DEF StopWaiting, LastLook, Pop, CallFails, Keep, Raises, Fails, Deliver, shared
    <3> QED
      BY <1>0, <2>0, <3>1, QuietStep
  <2>8. CASE Recheck(t) \/ Save(t) \/ Pick(t)
    <3>1. UNCHANGED <<token, dropped>>
      BY <2>8 DEF Recheck, Save, Pick, shared
    <3>2. Finished(t) \/ (pc'[t] # "stow" /\ bearer'[t] = bearer[t])
      BY <2>8, ReadingEnds DEF ReadsTypeOK, Recheck, Save, Pick, Look, Deliver, Goto
    <3> QED
      BY <1>0, <2>0, <3>1, <3>2, QuietStep DEF Quiet
  <2> QED
    BY <1>1, <2>1, <2>2, <2>3, <2>4, <2>5, <2>6, <2>7, <2>8 DEF Advance
<1>2. ASSUME NEW t \in Threads, NEW r \in mix, Ask(t, r) PROVE TokenInv'
  <2>1. UNCHANGED <<token, dropped>>
    BY <1>2 DEF Ask, shared
  <2>2. Finished(t) \/ (pc'[t] # "stow" /\ bearer'[t] = bearer[t])
    BY <1>2, ReadingEnds DEF ReadsTypeOK, Ask, Look, Goto
  <2> QED
    BY <1>0, <1>2, <2>1, <2>2, StepApart, QuietStep DEF Quiet
<1>3. CASE (\E e \in Expiring : Expire(e)) \/ Publish \/ Revoke
  BY <1>3
  DEF Expire, Publish, Revoke, TokenInv, DroppedTokenIsGone, Stowing, shared, threads
<1>4. CASE ExpireToken
  BY <1>4, Constants
  DEF ReadsTypeOK, ExpireToken, TokenInv, DroppedTokenIsGone, Stowing, threads
<1> QED
  BY <1>1, <1>2, <1>3, <1>4 DEF ReadsNext

(* A token a call was refused with and dropped is never cached again,      *)
(* whichever threads hold it still or are fetching others (_token, _call). *)
THEOREM TokenTheorem == ReadsSpec => []DroppedTokenIsGone
<1>1. ReadsInit => TokenInv
  BY Constants DEF ReadsInit, TokenInv, DroppedTokenIsGone, Stowing
<1>2. TokenInv /\ UNCHANGED readsVars => TokenInv'
  BY DEF TokenInv, DroppedTokenIsGone, Stowing, readsVars, shared, threads
<1>3. TokenInv => DroppedTokenIsGone
  BY DEF TokenInv
<1> QED
  BY <1>1, <1>2, <1>3, TokenStep, TypeCorrect, PTL DEF ReadsSpec

-----------------------------------------------------------------------------
(* The answers.  Which read a step belongs to: *)
OnPath(t) ==
  /\ read[t] \in Lasting => call[t] = read[t]
  /\ pc[t] \in {"wait", "recheck"} => call[t] = "projects"
  /\ pc[t] = "keep" => call[t] \in Lasting
  /\ pc[t] = "pick" => read[t] = "works"

Kept(c) == cache[LastGood(c)]
Now(c) == IF c = "projects" THEN world ELSE 1
Keeping(t, c) == call[t] = c /\ pc[t] = "keep"

(* What is cached is no older than its copy, what was answered is in one   *)
(* of the two, and a copy is behind only while somebody is about to keep   *)
(* it.                                                                     *)
Ordered(c) ==
  /\ cache[c] <= Now(c) /\ Kept(c) <= Now(c)
  /\ newest[c] <= Kept(c) \/ newest[c] <= cache[c]
  /\ cache[c] # 0 => Kept(c) <= cache[c]

Copied(c) ==
  cache[c] <= Kept(c) \/ \E u \in Threads : Keeping(u, c) /\ cache[c] <= got[u]

(* What a thread is about to store is newer than the copy; and where it    *)
(* missed the entry, it is owed no more than the copy.                     *)
Brings(t, c) ==
  /\ call[t] = c /\ pc[t] \in {"save", "keep"} =>
       Kept(c) <= got[t] /\ got[t] <= Now(c) /\ (c = "options" => got[t] = 1)
  /\ Keeping(t, c) => got[t] <= cache[c]

Owed(t, c) ==
  /\ read[t] = c /\ pc[t] \notin Resting => since[t] <= Kept(c)
  /\ read[t] = c /\ pc[t] = "answered" => since[t] <= got[t]

AnswerInv ==
  /\ \A t \in Threads : OnPath(t)
  /\ \A c \in Lasting : Ordered(c) /\ Copied(c)
  /\ \A c \in Lasting : \A t \in Threads : Brings(t, c) /\ Owed(t, c)

LEMMA Amounts ==
  ASSUME ReadsTypeOK
  PROVE  /\ world \in Nat /\ world >= 1
         /\ \A c \in Lasting : /\ cache[c] \in Nat /\ Kept(c) \in Nat
                               /\ newest[c] \in Nat /\ Now(c) \in Nat
         /\ \A t \in Threads : got[t] \in Nat /\ since[t] \in Nat
<1>1. \A n \in 0..MaxVersions : n \in Nat
  BY Constants
<1>2. world \in Nat /\ world >= 1
  BY Constants DEF ReadsTypeOK
<1>3. ASSUME NEW c \in Lasting
      PROVE  c \in Answers \cup Copies /\ LastGood(c) \in Answers \cup Copies
  BY DEF Lasting, Answers, Copies, LastGood
<1>4. ASSUME NEW c \in Lasting
      PROVE  cache[c] \in Nat /\ Kept(c) \in Nat /\ newest[c] \in Nat /\ Now(c) \in Nat
  BY <1>1, <1>2, <1>3 DEF ReadsTypeOK, Kept, Now
<1>5. ASSUME NEW t \in Threads PROVE got[t] \in Nat /\ since[t] \in Nat
  BY <1>1 DEF ReadsTypeOK
<1> QED
  BY <1>2, <1>4, <1>5

(* The list, the tables and their copies are left as they are. *)
Untouched ==
  /\ \A c \in Lasting : cache'[c] = cache[c] /\ cache'[LastGood(c)] = Kept(c)
  /\ world' = world

(* Only the answer given to t may be new, and it is in the cache. *)
LEMMA AnswersStay ==
  ASSUME ReadsTypeOK, ReadsTypeOK', AnswerInv, NEW t \in Threads, Apart(t),
         Untouched, pc[t] # "keep", OnPath(t)',
         \A c \in Lasting :
           /\ Brings(t, c)' /\ Owed(t, c)'
           /\ \/ newest'[c] = newest[c]
              \/ newest'[c] <= Kept(c) \/ newest'[c] <= cache[c]
  PROVE  AnswerInv'
<1>1. \A u \in Threads : OnPath(u)'
  BY DEF AnswerInv, Apart, OnPath
<1>2. ASSUME NEW c \in Lasting PROVE Ordered(c)' /\ Copied(c)'
  <2>1. Ordered(c)'
    BY Amounts, <1>2 DEF AnswerInv, Ordered, Untouched, Kept, Now
  <2>2. Copied(c)'
    BY <1>2 DEF AnswerInv, Copied, Untouched, Kept, Keeping, Apart
  <2> QED
    BY <2>1, <2>2
<1>3. ASSUME NEW c \in Lasting, NEW u \in Threads \ {t} PROVE Brings(u, c)' /\ Owed(u, c)'
  BY <1>3 DEF AnswerInv, Brings, Owed, Untouched, Kept, Now, Keeping, Apart
<1> QED
  BY <1>1, <1>2, <1>3 DEF AnswerInv

(* A reader hands v over to t, which was asked for r. *)
LEMMA ReadingGives ==
  ASSUME ReadsTypeOK, NEW t \in Threads, NEW r \in Answers, NEW c, NEW v \in Values,
         Reading(t, r, c, v)
  PROVE  /\ pc'[t] \in {"pick", "answered"} /\ (pc'[t] = "pick" => r = "works")
         /\ r \in Lasting => got'[t] = v
         /\ \A d \in Lasting : newest'[d] = newest[d] \/ (d = r /\ newest'[d] = v)
BY DEF ReadsTypeOK, Reading, Goto, Lasting

LEMMA Handed ==
  ASSUME ReadsTypeOK, ReadsTypeOK', AnswerInv, NEW t \in Threads, Apart(t),
         Untouched, pc[t] # "keep",
         NEW r \in Answers, NEW c, NEW v \in Values, Reading(t, r, c, v), read'[t] = r,
         r \in Lasting =>
           /\ call'[t] = r /\ since'[t] <= v
           /\ v <= Kept(r) \/ v <= cache[r]
  PROVE  AnswerInv'
<1>0. /\ pc'[t] \in {"pick", "answered"} /\ (pc'[t] = "pick" => r = "works")
      /\ r \in Lasting => got'[t] = v
      /\ \A d \in Lasting : newest'[d] = newest[d] \/ (d = r /\ newest'[d] = v)
  BY ReadingGives
<1>1. OnPath(t)'
  BY <1>0 DEF OnPath
<1>2. ASSUME NEW d \in Lasting
      PROVE  /\ Brings(t, d)' /\ Owed(t, d)'
             /\ \/ newest'[d] = newest[d]
                \/ newest'[d] <= Kept(d) \/ newest'[d] <= cache[d]
  BY <1>0, <1>2 DEF Brings, Owed, Keeping, Resting
<1> QED
  BY <1>1, <1>2, AnswersStay

(* A request goes on with what it is reading, and has nothing to store. *)
LEMMA GoesOn ==
  ASSUME ReadsTypeOK, ReadsTypeOK', AnswerInv, NEW t \in Threads, Apart(t),
         Untouched, UNCHANGED newest,
         read'[t] = read[t] /\ call'[t] = call[t] /\ since'[t] = since[t],
         pc[t] \notin Resting \cup {"keep"},
         pc'[t] \notin Resting \cup {"wait", "keep"},
         pc'[t] = "recheck" => pc[t] = "wait",
         pc'[t] = "save" => call[t] = "search"
  PROVE  AnswerInv'
<1>1. OnPath(t)'
  BY DEF AnswerInv, OnPath, Resting
<1>2. ASSUME NEW c \in Lasting PROVE Brings(t, c)' /\ Owed(t, c)'
  BY <1>2 DEF AnswerInv, Brings, Owed, Untouched, Keeping, Resting, Kept, Lasting
<1> QED
  BY <1>1, <1>2, AnswersStay

(* The two steps that write the list, or the tables, and their copies *)
LEMMA Others ==
  ASSUME ReadsTypeOK, Alones, AnswerInv, NEW t \in Threads, NEW u \in Threads \ {t},
         NEW c \in Lasting, call[t] = c, pc[t] \in {"save", "keep"},
         call[u] = c, pc[u] \in {"save", "keep"}
  PROVE  got[u] = got[t]
<1>1. c = "options"
  BY DEF Alones, Alone, InRefresh, Refreshing, Lasting
<1> QED
  BY <1>1 DEF AnswerInv, Brings

LEMMA SaveStep ==
  ASSUME ReadsTypeOK, ReadsTypeOK', Alones, AnswerInv, NEW t \in Threads, Apart(t), Save(t)
  PROVE  AnswerInv'
<1>0. /\ cache' = [cache EXCEPT ![call[t]] = got[t]]
      /\ UNCHANGED <<read, call, world, since>>
      /\ call[t] \in Answers /\ read[t] \in Answers /\ got[t] \in Values /\ pc[t] = "save"
  BY DEF Save, Deliver, ReadsTypeOK, At, Values, upstream
<1>1. CASE call[t] \notin Lasting
  <2>1. Untouched
    BY <1>0, <1>1 DEF Untouched, Kept, LastGood, Lasting, Answers, Copies, ReadsTypeOK
  <2>2. read[t] \notin Lasting
    BY <1>1 DEF AnswerInv, OnPath
  <2>3. CASE call[t] = "works"
    <3>1. Reading(t, read[t], call[t], got[t])
      BY <2>3 DEF Save, Deliver
    <3> QED
      BY <1>0, <2>1, <2>2, <3>1, Handed
  <2>4. CASE call[t] # "works"
    <3>1. call[t] = "search" /\ pc'[t] = "release" /\ UNCHANGED newest
      BY <1>0, <1>1, <2>4 DEF Save, Goto, Lasting, Answers, ReadsTypeOK
    <3> QED
      BY <1>0, <2>1, <3>1, GoesOn DEF Resting
  <2> QED
    BY <2>3, <2>4
<1>2. ASSUME NEW c \in Lasting, call[t] = c PROVE AnswerInv'
  <2>0. /\ pc' = [pc EXCEPT ![t] = "keep"] /\ got' = got /\ newest' = newest
        /\ world' = world
    BY <1>2 DEF Save, Goto, Lasting, upstream
  <2>1. /\ Kept(c) <= got[t] /\ got[t] <= Now(c) /\ (c = "options" => got[t] = 1)
    BY <1>0, <1>2 DEF AnswerInv, Brings
  <2>2. /\ cache'[c] = got[t] /\ \A d \in Lasting : Kept(d)' = Kept(d) /\ Now(d)' = Now(d)
        /\ \A d \in Lasting \ {c} : cache'[d] = cache[d]
    BY <1>0, <1>2 DEF ReadsTypeOK, Kept, LastGood, Now, Lasting, Answers, Copies
  <2>3. cache[c] <= Kept(c) \/ cache[c] <= got[t]
    <3>1. SUFFICES ASSUME NEW u \in Threads, Keeping(u, c), cache[c] <= got[u]
                   PROVE  cache[c] <= got[t]
      BY <1>2 DEF AnswerInv, Copied
    <3>2. u # t
      BY <1>0, <3>1 DEF Keeping
    <3> QED
      BY <1>0, <1>2, <3>1, <3>2, Others DEF Keeping
  <2>4. \A u \in Threads : OnPath(u)'
    BY <1>0, <1>2, <2>0 DEF AnswerInv, OnPath, ReadsTypeOK
  <2>5. Ordered(c)' /\ Copied(c)'
    <3>1. Ordered(c)'
      BY <1>2, <2>0, <2>1, <2>2, <2>3, Amounts DEF AnswerInv, Ordered
    <3>2. Copied(c)'
      BY <1>0, <1>2, <2>0, <2>2, Amounts DEF Copied, Keeping, ReadsTypeOK
    <3> QED
      BY <3>1, <3>2
  <2>6. ASSUME NEW d \in Lasting \ {c} PROVE Ordered(d)' /\ Copied(d)'
    BY <1>0, <2>0, <2>2, <2>6 DEF AnswerInv, Ordered, Copied, Keeping, ReadsTypeOK
  <2>7. ASSUME NEW d \in Lasting, NEW u \in Threads PROVE Brings(u, d)' /\ Owed(u, d)'
    <3>1. Owed(u, d)'
      BY <1>0, <2>0, <2>2 DEF AnswerInv, Owed, Resting, ReadsTypeOK
    <3>2. CASE u = t
      BY <1>0, <1>2, <2>0, <2>1, <2>2, <3>1, <3>2, Amounts DEF Brings, Keeping, ReadsTypeOK
    <3>3. CASE u # t
      <4>1. Keeping(u, c) => got[u] = got[t]
        BY <1>0, <1>2, <3>3, Others DEF Keeping
      <4> QED
        BY <1>0, <2>0, <2>1, <2>2, <3>1, <3>3, <4>1, Amounts
        DEF AnswerInv, Brings, Keeping, ReadsTypeOK
    <3> QED
      BY <3>2, <3>3
  <2> QED
    BY <2>4, <2>5, <2>6, <2>7 DEF AnswerInv
<1> QED
  BY <1>1, <1>2

LEMMA KeepStep ==
  ASSUME ReadsTypeOK, ReadsTypeOK', Alones, AnswerInv, NEW t \in Threads, Apart(t), Keep(t)
  PROVE  AnswerInv'
<1>0. /\ cache' = [cache EXCEPT ![LastGood(call[t])] = got[t]]
      /\ UNCHANGED <<read, call, world, since>>
      /\ call[t] \in Lasting /\ read[t] \in Answers /\ got[t] \in Values /\ pc[t] = "keep"
  BY DEF Keep, Deliver, ReadsTypeOK, At, Values, upstream, AnswerInv, OnPath
<1> SUFFICES ASSUME NEW c \in Lasting, call[t] = c PROVE AnswerInv'
  BY <1>0
<1>1. /\ pc'[t] \in {"pick", "answered"} /\ (pc'[t] = "pick" => read[t] = "works")
      /\ read[t] \in Lasting => got'[t] = got[t]
      /\ \A d \in Lasting :
           newest'[d] = newest[d] \/ (d = read[t] /\ newest'[d] = got[t])
  <2>1. Reading(t, read[t], c, got[t])
    BY DEF Keep, Deliver
  <2> QED
    BY <1>0, <2>1, ReadingGives
<1>2. /\ Kept(c) <= got[t] /\ got[t] <= Now(c) /\ got[t] <= cache[c]
  BY <1>0 DEF AnswerInv, Brings, Keeping
<1>3. /\ \A d \in Lasting : cache'[d] = cache[d] /\ Now(d)' = Now(d)
      /\ Kept(c)' = got[t] /\ \A d \in Lasting \ {c} : Kept(d)' = Kept(d)
  BY <1>0 DEF ReadsTypeOK, Kept, LastGood, Now, Lasting, Answers, Copies
<1>4. \A u \in Threads : OnPath(u)'
  BY <1>0, <1>1 DEF AnswerInv, OnPath, Apart
<1>5. read[t] \in Lasting => read[t] = c
  BY DEF AnswerInv, OnPath
<1>6. Ordered(c)' /\ Copied(c)'
  <2>1. Ordered(c)'
    BY <1>1, <1>2, <1>3, <1>5, Amounts DEF AnswerInv, Ordered
  <2>2. ASSUME NEW u \in Threads, Keeping(u, c), cache[c] <= got[u]
        PROVE  cache[c] <= got[t]
    BY <1>0, <2>2, Others DEF Keeping
  <2>3. cache[c] <= got[t]
    BY <1>2, <2>2, Amounts DEF AnswerInv, Copied
  <2>4. Copied(c)'
    BY <1>3, <2>3 DEF Copied
  <2> QED
    BY <2>1, <2>4
<1>7. ASSUME NEW d \in Lasting \ {c} PROVE Ordered(d)' /\ Copied(d)'
  <2>1. newest'[d] = newest[d]
    BY <1>1, <1>5, <1>7
  <2>2. \A u \in Threads : Keeping(u, d) => Keeping(u, d)' /\ got'[u] = got[u]
    BY <1>7 DEF Keeping, Apart
  <2> QED
    BY <1>3, <1>7, <2>1, <2>2 DEF AnswerInv, Ordered, Copied
<1>8. ASSUME NEW d \in Lasting, NEW u \in Threads PROVE Brings(u, d)' /\ Owed(u, d)'
  <2>1. CASE u = t
    <3>1. Brings(t, d)'
      BY <1>1 DEF Brings, Keeping
    <3>2. read[t] = d => since[t] <= got[t]
      BY <1>0, <1>2, <1>5, Amounts DEF AnswerInv, Owed, Resting
    <3> QED
      BY <1>0, <1>1, <2>1, <3>1, <3>2 DEF Owed, Resting
  <2>2. CASE u # t
    <3>1. call[u] = c /\ pc[u] \in {"save", "keep"} => got[u] = got[t]
      BY <1>0, <2>2, Others
    <3>2. Brings(u, d)'
      BY <1>3, <2>2, <3>1, Amounts DEF AnswerInv, Brings, Keeping, Apart
    <3>3. Owed(u, d)'
      BY <1>2, <1>3, <2>2, Amounts DEF AnswerInv, Owed, Apart
    <3> QED
      BY <3>2, <3>3
  <2> QED
    BY <2>1, <2>2
<1> QED
  BY <1>4, <1>6, <1>7, <1>8 DEF AnswerInv

LEMMA AnswerStep == ReadsTypeOK /\ ReadsTypeOK' /\ Alones /\ AnswerInv /\ ReadsNext => AnswerInv'
<1> SUFFICES ASSUME ReadsTypeOK, ReadsTypeOK', Alones, AnswerInv, ReadsNext PROVE AnswerInv'
  OBVIOUS
<1>1. ASSUME NEW t \in Threads, Advance(t) PROVE AnswerInv'
  <2>0. /\ Apart(t) /\ OnPath(t) /\ Alone(t)
        /\ read[t] \in Answers /\ call[t] \in Answers /\ got[t] \in Values
        /\ \A e \in Answers \cup Copies : cache[e] \in Values
    BY <1>1, StepApart DEF Alones, AnswerInv, ReadsTypeOK, Values
  <2>00. UNCHANGED <<cache, world>> => Untouched
    BY DEF Untouched, Kept
  <2>1. CASE Acquire(t) \/ TakeToken(t) \/ Stow(t)
    <3>1. /\ pc[t] \in {"wait", "token", "stow"} /\ pc'[t] \in {"recheck", "login", "send"}
          /\ (pc'[t] = "recheck" => pc[t] = "wait")
          /\ UNCHANGED <<cache, world, newest, read, call, since>>
      BY <2>1 DEF ReadsTypeOK, Acquire, TakeToken, Stow, At, Goto, shared, upstream
    <3> QED
      BY <2>0, <2>00, <3>1, GoesOn DEF Resting
  <2>2. CASE Login(t) \/ Join(t) \/ Take(t) \/ GiveUp(t)
    <3>1. /\ pc[t] \in {"login", "join", "queue"} /\ pc'[t] \in {"stow", "queue", "retake", "last"}
          /\ UNCHANGED <<cache, world, newest, read, call, since>>
      BY <2>2 DEF ReadsTypeOK, Login, Join, Take, GiveUp, At, Goto, shared, upstream
    <3> QED
      BY <2>0, <2>00, <3>1, GoesOn DEF Resting
  <2>3. CASE Retake(t) \/ Found(t) \/ SearchFails(t) \/ Release(t)
    <3>1. /\ pc[t] \in {"retake", "search", "release"}
          /\ pc'[t] \in {"release", "search", "save", "pop"}
          /\ (pc'[t] = "save" => pc[t] = "search")
          /\ UNCHANGED <<cache, world, newest, read, call, since>>
      BY <2>3 DEF ReadsTypeOK, Retake, Found, SearchFails, Release, At, Goto, shared, upstream
    <3> QED
      BY <2>0, <2>00, <3>1, GoesOn DEF Resting, Alone
  <2>4. CASE Received(t)
    <3>1. /\ pc[t] = "send" /\ pc'[t] \in {"token", "save"}
          /\ got'[t] = IF call[t] = "projects" THEN world ELSE 1
          /\ UNCHANGED <<cache, world, newest, read, call, since>>
      BY <2>4 DEF ReadsTypeOK, Received, At, Goto, shared, upstream
    <3>2. ASSUME NEW c \in Lasting PROVE Brings(t, c)' /\ Owed(t, c)'
      <4>1. Kept(c)' = Kept(c) /\ Now(c)' = Now(c) /\ Kept(c) <= Now(c)
        BY <3>1, <3>2 DEF AnswerInv, Ordered, Kept, Now
      <4>2. Brings(t, c)'
        BY <3>1, <3>2, <4>1, Amounts DEF Brings, Keeping, Now, Lasting
      <4>3. Owed(t, c)'
        BY <3>1, <3>2, <4>1 DEF AnswerInv, Owed, Resting
      <4> QED
        BY <4>2, <4>3
    <3>3. OnPath(t)'
      BY <2>0, <3>1 DEF OnPath
    <3> QED
      BY <2>0, <2>00, <3>1, <3>2, <3>3, AnswersStay
  <2>5. CASE Reply(t)
    <3>1. /\ pc[t] = "answered" /\ pc'[t] = "idle" /\ read'[t] = "search"
          /\ UNCHANGED <<cache, world, newest>>
      BY <2>5 DEF ReadsTypeOK, Reply, At, Goto, shared, upstream
    <3>2. OnPath(t)' /\ \A c \in Lasting : Brings(t, c)' /\ Owed(t, c)'
      BY <3>1 DEF OnPath, Brings, Owed, Keeping, Resting, Lasting
    <3> QED
      BY <2>0, <2>00, <3>1, <3>2, AnswersStay
  <2>6. CASE StopWaiting(t)
    <3>1. /\ pc[t] = "wait" /\ UNCHANGED <<cache, world, read, call, since>>
          /\ Reading(t, read[t], call[t], cache["last projects"])
      BY <2>6 DEF StopWaiting, At, Deliver, shared, upstream
    <3>2. read[t] \in Lasting =>
            /\ call[t] = read[t] /\ since[t] <= Kept(read[t])
            /\ cache["last projects"] = Kept(read[t])
      BY <2>0, <3>1 DEF AnswerInv, OnPath, Owed, Resting, Kept, LastGood
    <3>3. cache["last projects"] \in Values
      BY <2>0 DEF Copies
    <3>4. read[t] \in Lasting => Kept(read[t]) <= Kept(read[t])
      BY Amounts
    <3> QED
      BY <2>0, <2>00, <3>1, <3>2, <3>3, <3>4, Handed
  <2>7. CASE Recheck(t)
    <3>1. /\ pc[t] = "recheck" /\ UNCHANGED <<cache, world, read, call, since>>
      BY <2>7 DEF Recheck, At, Deliver, upstream
    <3>2. CASE cache["projects"] # 0
      <4>1. Reading(t, read[t], call[t], cache["projects"])
        BY <2>7, <3>2 DEF Recheck, Deliver
      <4>2. read[t] \in Lasting =>
              /\ call[t] = read[t] /\ read[t] = "projects"
              /\ since[t] <= Kept(read[t]) /\ Kept(read[t]) <= cache[read[t]]
        BY <2>0, <3>1, <3>2 DEF AnswerInv, OnPath, Owed, Ordered, Resting
      <4>3. cache["projects"] \in Values
        BY <2>0 DEF Answers
      <4>4. read[t] \in Lasting =>
              since[t] <= cache["projects"] /\ cache["projects"] <= cache[read[t]]
        BY <4>2, Amounts
      <4> QED
        BY <2>0, <2>00, <3>1, <4>1, <4>2, <4>3, <4>4, Handed
    <3>3. CASE cache["projects"] = 0
      <4>1. pc'[t] = "token" /\ UNCHANGED newest
        BY <2>7, <3>3 DEF ReadsTypeOK, Recheck, Goto
      <4> QED
        BY <2>0, <2>00, <3>1, <4>1, GoesOn DEF Resting
    <3> QED
      BY <3>2, <3>3
  <2>8. CASE CallFails(t) \/ Refused(t)
    <3>1. /\ pc[t] \in {"login", "send"}
          /\ UNCHANGED <<cache, world, read, call, since>>
      BY <2>8 DEF CallFails, Refused, Refusing, Raises, Fails, Deliver, At
    <3>2. CASE Raises(t)
      <4> DEFINE v == IF call[t] \in Lasting THEN cache[LastGood(call[t])] ELSE 0
      <4>1. Reading(t, read[t], call[t], v)
        BY <3>2 DEF Raises, Fails, Deliver
      <4>2. v \in Values
        <5>1. LastGood(call[t]) \in Copies /\ 0 \in Values
          BY Constants DEF LastGood, Copies, Values
        <5> QED
          BY <2>0, <5>1
      <4>3. read[t] \in Lasting =>
              call[t] = read[t] /\ since[t] <= Kept(read[t]) /\ v = Kept(read[t])
        BY <2>0, <3>1 DEF AnswerInv, OnPath, Owed, Resting, Kept
      <4>4. read[t] \in Lasting => Kept(read[t]) <= Kept(read[t])
        BY Amounts
      <4> HIDE DEF v
      <4> QED
        BY <2>0, <2>00, <3>1, <4>1, <4>2, <4>3, <4>4, Handed
    <3>3. CASE ~Raises(t)
      <4>1. pc'[t] = "token" /\ UNCHANGED newest
        BY <2>8, <3>3 DEF ReadsTypeOK, CallFails, Refused, Refusing, Goto
      <4> QED
        BY <2>0, <2>00, <3>1, <4>1, GoesOn DEF Resting
    <3> QED
      BY <3>2, <3>3
  <2>9. CASE LastLook(t) \/ Pop(t)
    <3>1. /\ pc[t] \in {"last", "pop"} /\ UNCHANGED <<cache, world, read, call, since>>
      BY <2>9 DEF LastLook, Pop, At, Deliver, shared, upstream
    <3>2. read[t] \notin Lasting
      BY <2>0, <3>1 DEF OnPath, Alone, Lasting
    <3>3. PICK v \in Values : Reading(t, read[t], call[t], v)
      BY <2>0, <2>9 DEF LastLook, Pop, Deliver, Answers
    <3> QED
      BY <2>0, <2>00, <3>1, <3>2, <3>3, Handed
  <2>10. CASE Pick(t)
    <3>1. /\ pc[t] = "pick" /\ read[t] = "works" /\ read'[t] = "works"
          /\ UNCHANGED <<cache, world, since>>
      BY <2>0, <2>10 DEF Pick, At, OnPath, shared, upstream
    <3>2. "works" \notin Lasting /\ "works" \in Answers
      BY DEF Lasting, Answers
    <3>3. ASSUME NEW v \in Values, Reading(t, "works", "works", v) PROVE AnswerInv'
      BY <2>0, <2>00, <3>1, <3>2, <3>3, Handed
    <3>4. CASE pc'[t] = "token" /\ UNCHANGED newest
      <4>1. OnPath(t)' /\ \A c \in Lasting : Brings(t, c)' /\ Owed(t, c)'
        BY <3>1, <3>2, <3>4 DEF OnPath, Brings, Owed, Keeping
      <4> QED
        BY <2>0, <2>00, <3>1, <3>4, <4>1, AnswersStay
    <3>5. 1 \in Values /\ cache["works"] \in Values
      BY <2>0, <3>2, Constants DEF Values
    <3> QED
      BY <2>10, <3>3, <3>4, <3>5 DEF Pick, Look, Goto, ReadsTypeOK
  <2>11. CASE Save(t) \/ Keep(t)
    BY <2>0, <2>11, SaveStep, KeepStep
  <2> QED
    BY <1>1, <2>1, <2>2, <2>3, <2>4, <2>5, <2>6, <2>7, <2>8, <2>9, <2>10, <2>11 DEF Advance
<1>2. ASSUME NEW t \in Threads, NEW r \in mix, Ask(t, r) PROVE AnswerInv'
  <2> DEFINE c == IF r = "works" THEN "projects" ELSE r
  <2>0. Apart(t)
    BY <1>2, StepApart
  <2>1. r \in Answers /\ c \in Answers /\ (r \in Lasting => c = r)
    BY UpstreamAssumption DEF ReadsTypeOK, Answers, Lasting
  <2>2. /\ pc[t] = "idle" /\ read'[t] = r /\ call'[t] = c /\ since'[t] = Latest(r)
        /\ Look(t, r, c) /\ Untouched
    BY <1>2 DEF ReadsTypeOK, Ask, Look, At, Untouched, Kept, shared, upstream
  <2>3. cache[c] \in Values
    BY <2>1 DEF ReadsTypeOK, Values
  <2> HIDE DEF c
  <2>4. CASE cache[c] # 0
    <3>1. Reading(t, r, c, cache[c])
      BY <2>2, <2>4 DEF Look
    <3>2. r \in Lasting => since'[t] <= cache[c] /\ cache[c] <= cache[r]
      BY <2>1, <2>2, <2>4, Amounts DEF AnswerInv, Ordered, Latest
    <3> QED
      BY <2>0, <2>1, <2>2, <2>3, <3>1, <3>2, Handed
  <2>5. CASE cache[c] = 0
    <3>1. /\ pc'[t] \in {"wait", "join", "token"} /\ (pc'[t] = "wait" => c = "projects")
          /\ UNCHANGED newest
      BY <2>2, <2>5 DEF ReadsTypeOK, Look, Goto
    <3>2. r \in Lasting => since'[t] <= Kept(r)
      BY <2>1, <2>2, <2>5, Amounts DEF AnswerInv, Ordered, Latest
    <3>3. OnPath(t)'
      BY <2>1, <2>2, <3>1 DEF OnPath
    <3>4. ASSUME NEW d \in Lasting PROVE Brings(t, d)' /\ Owed(t, d)'
      BY <2>2, <3>1, <3>2, <3>4 DEF Brings, Owed, Keeping, Untouched, Kept
    <3> QED
      BY <2>0, <2>2, <3>1, <3>3, <3>4, AnswersStay
  <2> QED
    BY <2>4, <2>5
<1>3. ASSUME NEW e \in Expiring, Expire(e) PROVE AnswerInv'
  <2>1. /\ UNCHANGED <<pc, read, call, got, since, newest, world>>
        /\ cache' = [cache EXCEPT ![e] = 0]
        /\ \A t \in Threads : call[t] = e => pc[t] \in Resting
    BY <1>3 DEF Expire, threads, upstream
  <2>2. ASSUME NEW c \in Lasting
        PROVE  /\ Kept(c)' = Kept(c) /\ Now(c)' = Now(c)
               /\ cache'[c] = cache[c] \/ (cache'[c] = 0 /\ \A t \in Threads : ~Keeping(t, c))
    BY <2>1, <2>2
    DEF ReadsTypeOK, Kept, LastGood, Now, Expiring, Answers, Copies, Lasting, Keeping, Resting
  <2>3. ASSUME NEW c \in Lasting PROVE Ordered(c)' /\ Copied(c)'
    BY <2>1, <2>2, <2>3, Amounts DEF AnswerInv, Ordered, Copied, Keeping
  <2>4. ASSUME NEW c \in Lasting, NEW t \in Threads PROVE Brings(t, c)' /\ Owed(t, c)'
    BY <2>1, <2>2, <2>4 DEF AnswerInv, Brings, Owed, Keeping
  <2>5. \A t \in Threads : OnPath(t)'
    BY <2>1 DEF AnswerInv, OnPath
  <2> QED
    BY <2>3, <2>4, <2>5 DEF AnswerInv
<1>4. CASE ExpireToken \/ Revoke \/ Publish
  <2>1. /\ UNCHANGED <<cache, pc, read, call, got, since, newest>>
        /\ world' = world \/ world' = world + 1
    BY <1>4 DEF ExpireToken, Revoke, Publish, shared, threads, upstream
  <2>2. ASSUME NEW c \in Lasting
        PROVE  Kept(c)' = Kept(c) /\ Now(c)' \in Nat /\ Now(c) <= Now(c)'
    BY <2>1, Amounts DEF Kept, Now
  <2>3. ASSUME NEW c \in Lasting PROVE Ordered(c)' /\ Copied(c)'
    BY <2>1, <2>2, <2>3, Amounts DEF AnswerInv, Ordered, Copied, Keeping
  <2>4. ASSUME NEW c \in Lasting, NEW t \in Threads PROVE Brings(t, c)' /\ Owed(t, c)'
    BY <2>1, <2>2, <2>4, Amounts DEF AnswerInv, Brings, Owed, Keeping
  <2>5. \A t \in Threads : OnPath(t)'
    BY <2>1 DEF AnswerInv, OnPath
  <2> QED
    BY <2>3, <2>4, <2>5 DEF AnswerInv
<1> QED
  BY <1>1, <1>2, <1>3, <1>4 DEF ReadsNext

(* Whoever asks for the list or the tables after somebody was answered is  *)
(* answered with no less, through any outage, expiry and order of the      *)
(* refreshes (open_projects, filter_options, _last_good).                  *)
THEOREM AnswersTheorem == ReadsSpec => []AnswersHold
<1>1. ReadsInit => AnswerInv
  <2> SUFFICES ASSUME ReadsInit PROVE AnswerInv
    OBVIOUS
  <2>1. /\ world = 1 /\ \A t \in Threads : pc[t] = "idle" /\ read[t] = "search"
        /\ \A c \in Lasting : cache[c] = 0 /\ Kept(c) = 0 /\ newest[c] = 0
    BY DEF ReadsInit, Kept, LastGood, Lasting, Answers, Copies
  <2>2. \A c \in Lasting : Ordered(c) /\ Copied(c)
    BY <2>1 DEF Ordered, Copied, Now
  <2>3. \A t \in Threads : OnPath(t) /\ \A c \in Lasting : Brings(t, c) /\ Owed(t, c)
    BY <2>1 DEF OnPath, Brings, Owed, Keeping, Resting, Lasting
  <2> QED
    BY <2>2, <2>3 DEF AnswerInv
<1>2. AnswerInv /\ UNCHANGED readsVars => AnswerInv'
  <2> SUFFICES ASSUME AnswerInv, UNCHANGED readsVars PROVE AnswerInv'
    OBVIOUS
  <2>1. \A c \in Lasting : Ordered(c)' /\ Copied(c)'
    BY DEF AnswerInv, Ordered, Copied, Kept, Now, Keeping, readsVars, shared, threads, upstream
  <2>2. \A t \in Threads : OnPath(t)'
    BY DEF AnswerInv, OnPath, readsVars, threads
  <2>3. \A c \in Lasting : \A t \in Threads : Brings(t, c)' /\ Owed(t, c)'
    BY DEF AnswerInv, Brings, Owed, Kept, Now, Keeping, readsVars, shared, threads, upstream
  <2> QED
    BY <2>1, <2>2, <2>3 DEF AnswerInv
<1>3. AnswerInv => AnswersHold
  BY DEF AnswerInv, Owed, AnswersHold
<1> QED
  BY <1>1, <1>2, <1>3, AnswerStep, AlwaysAlone, TypeCorrect, PTL DEF ReadsSpec

-----------------------------------------------------------------------------
(* Searches in single flight.  Which call a step belongs to, who has a     *)
(* lock, and whose REFRESH_LOCK is: *)
Saving(t) == pc[t] = "save" /\ call[t] = "search"
Holds(t) == pc[t] \in {"retake", "search", "release"} \/ Saving(t)
InFlight(t) == pc[t] \in {"queue", "pop"} \/ Holds(t)

OnCall(t) ==
  /\ pc[t] \in {"wait", "recheck"} => call[t] = "projects"
  /\ pc[t] \in {"token", "login", "stow", "send", "keep"} => call[t] # "search"
  /\ InFlight(t) => lock[t] # NoLock
  /\ Saving(t) => got[t] # 0
  /\ refresh = t => InRefresh(t)

(* A lock is held by the one thread between taking and releasing it. *)
HeldByOne ==
  /\ \A t \in Threads : Holds(t) => lock[t] \in held
  /\ \A t, u \in Threads : Holds(t) /\ Holds(u) /\ lock[t] = lock[u] => t = u
  /\ \A l \in held : \E t \in Threads : Holds(t) /\ lock[t] = l

(* Somebody will take the lock in IN_FLIGHT out of it. *)
ToBePopped ==
  flight # NoLock => \E t \in Threads : InFlight(t) /\ lock[t] = flight

(* The locks a search may still begin or go on under, NoLock among them    *)
(* while the next to join draws one; and those who will forget one although *)
(* nothing was found.                                                      *)
MayLead == {t \in Threads : pc[t] \in {"queue", "retake", "search"} \/ Saving(t)}
Leads == {flight} \cup {lock[t] : t \in MayLead}
Forgetting == {t \in Threads : pc[t] \in {"release", "pop"}}

(* Until something is found there is one of these, and one more a failure. *)
Budget ==
  cache["search"] = 0 =>
    Cardinality(Leads) + Cardinality(Forgetting) <= 1 + failures

Calls == \A t \in Threads : OnCall(t)
FlightInv == Calls /\ HeldByOne /\ ToBePopped /\ Budget /\ SearchesShare

(* A step outside the flight *)
Aside(t) ==
  /\ ~InFlight(t) /\ ~InFlight(t)' /\ UNCHANGED <<flight, held>>
  /\ cache'["search"] = cache["search"] /\ failures' \in {failures, failures + 1}

Searches(t) ==
  \/ Join(t) \/ Take(t) \/ GiveUp(t) \/ Retake(t) \/ Found(t) \/ SearchFails(t)
  \/ (Save(t) /\ Saving(t)) \/ Release(t) \/ Pop(t)

LEMMA DoneAside ==
  ASSUME NEW t \in Threads, Finished(t), refresh' # t
  PROVE  OnCall(t)' /\ ~InFlight(t)'
BY DEF Finished, OnCall, InFlight, Holds, Saving

(* Where a step leads, and that it is one of a search's or beside them *)
LEMMA StepOnCall ==
  ASSUME ReadsTypeOK, Calls, NEW t \in Threads, Advance(t) \/ \E r \in mix : Ask(t, r)
  PROVE  OnCall(t)' /\ (Aside(t) \/ Searches(t))
<1> USE DEF At, Refreshing, InRefresh, Saving, Holds, InFlight
<1>0. OnCall(t) /\ call[t] \in Answers /\ t # NoThread /\ failures \in Nat
  BY Constants DEF Calls, ReadsTypeOK
<1>1. CASE Acquire(t) \/ TakeToken(t) \/ Login(t) \/ Stow(t)
  BY <1>0, <1>1
    DEF ReadsTypeOK, OnCall, Aside, Acquire, TakeToken, Login, Stow, Goto, shared, upstream
<1>2. CASE Received(t)
  BY <1>0, <1>2 DEF ReadsTypeOK, OnCall, Aside, Received, Another, Goto, shared, upstream
<1>3. CASE Reply(t) \/ StopWaiting(t) \/ LastLook(t)
  <2>1. CASE Reply(t)
    BY <1>0, <2>1 DEF ReadsTypeOK, OnCall, Aside, Reply, Goto, shared, upstream
  <2>2. CASE StopWaiting(t)
    BY <1>0, <2>2, ReadingEnds, DoneAside DEF OnCall, Aside, StopWaiting, Deliver, shared, upstream
  <2>3. CASE LastLook(t)
    BY <1>0, <2>3, ReadingEnds, DoneAside DEF OnCall, Aside, LastLook, Deliver, shared, upstream
  <2> QED BY <1>3, <2>1, <2>2, <2>3
<1>4. CASE Recheck(t)
  <2>1. CASE cache["projects"] # 0
    <3>1. Finished(t) /\ refresh' # t /\ UNCHANGED <<flight, held, cache, failures>>
      BY <1>0, <1>4, <2>1, ReadingEnds DEF Recheck, Deliver, Returned, upstream
    <3> QED BY <1>0, <1>4, <3>1, DoneAside DEF Recheck, Aside
  <2>2. CASE cache["projects"] = 0
    BY <1>0, <1>4, <2>2 DEF ReadsTypeOK, OnCall, Aside, Recheck, Goto, upstream
  <2> QED BY <2>1, <2>2
<1>5. ASSUME Raises(t) PROVE Finished(t) /\ refresh' # t
  BY <1>0, <1>5, ReadingEnds DEF Raises, Fails, Deliver, Returned
<1>6. CASE CallFails(t)
  BY <1>0, <1>5, <1>6, DoneAside DEF CallFails, Aside, OnCall
<1>7. CASE Refused(t)
  <2>0. /\ UNCHANGED <<flight, held, cache, failures>> /\ pc[t] = "send"
    BY <1>7 DEF Refused, Refusing
  <2>1. CASE tries[t] = 0
    BY <1>0, <1>7, <2>0, <2>1 DEF ReadsTypeOK, OnCall, Aside, Refused, Refusing, Goto
  <2>2. CASE tries[t] # 0
    BY <1>5, <1>7, <2>0, <2>2, DoneAside DEF Aside, Refused, Refusing
  <2> QED BY <2>1, <2>2
<1>8. CASE Save(t)
  <2>1. CASE call[t] = "search"
    BY <1>0, <1>8, <2>1 DEF ReadsTypeOK, OnCall, Searches, Save, Goto
  <2>2. CASE call[t] = "works"
    <3>1. Finished(t) /\ refresh' # t
      BY <1>0, <1>8, <2>2, ReadingEnds DEF Save, Deliver, OnCall
    <3> QED BY <1>0, <1>8, <2>2, <3>1, DoneAside DEF ReadsTypeOK, Aside, Save, upstream, Answers
  <2>3. CASE call[t] \in {"projects", "options"}
    BY <1>0, <1>8, <2>3 DEF ReadsTypeOK, OnCall, Aside, Save, Goto, upstream, Answers
  <2> QED BY <1>0, <2>1, <2>2, <2>3 DEF Answers
<1>9. CASE Keep(t)
  <2>1. Finished(t) /\ refresh' # t
    BY <1>0, <1>9, ReadingEnds DEF Keep, Deliver, Returned
  <2>2. cache'["search"] = cache["search"]
    BY <1>9 DEF ReadsTypeOK, Keep, LastGood, Answers
  <2> QED BY <1>0, <1>9, <2>1, <2>2, DoneAside DEF Aside, Keep, upstream
<1>10. CASE Pick(t)
  <2>1. ASSUME Reading(t, "works", "works", 1) \/ Reading(t, "works", "works", cache["works"])
        PROVE  OnCall(t)' /\ ~InFlight(t)'
    BY <1>0, <1>10, <2>1, ReadingEnds, DoneAside DEF Pick, OnCall, shared
  <2>2. ASSUME cache["works"] = 0, Look(t, "works", "works")
        PROVE  OnCall(t)' /\ ~InFlight(t)'
    BY <1>0, <1>10, <2>2 DEF ReadsTypeOK, Pick, Look, Goto, OnCall, shared
  <2> QED BY <1>0, <1>10, <2>1, <2>2 DEF Pick, Look, Aside, shared, upstream
<1>11. ASSUME NEW r \in mix, Ask(t, r) PROVE OnCall(t)' /\ Aside(t)
  <2> DEFINE c == IF r = "works" THEN "projects" ELSE r
  <2>0. c \in Answers /\ Look(t, r, c)
    BY <1>11, UpstreamAssumption DEF ReadsTypeOK, Ask, Answers
  <2>1. ~InFlight(t) /\ refresh # t
    BY <1>0, <1>11 DEF Ask, OnCall
  <2> HIDE DEF c
  <2>2. CASE cache[c] # 0
    BY <1>0, <1>11, <2>0, <2>1, <2>2, ReadingEnds, DoneAside DEF Ask, Look, Aside, shared, upstream
  <2>3. CASE cache[c] = 0
    BY <1>0, <1>11, <2>0, <2>1, <2>3
      DEF ReadsTypeOK, Ask, Look, Goto, OnCall, Aside, shared, upstream, Answers
  <2> QED BY <2>2, <2>3
<1>12. CASE Join(t)
  <2>1. lock'[t] = flight' /\ flight' # NoLock
    BY <1>0, <1>12, Constants DEF ReadsTypeOK, Join
  <2> QED BY <1>0, <1>12, <2>1 DEF ReadsTypeOK, OnCall, Join, Goto, Searches
<1>13. CASE Take(t) \/ GiveUp(t) \/ Retake(t) \/ Found(t)
  <2>1. CASE Take(t) \/ GiveUp(t)
    BY <1>0, <2>1 DEF ReadsTypeOK, OnCall, Take, GiveUp, Goto, Searches, shared
  <2>2. CASE Retake(t)
    BY <1>0, <2>2 DEF ReadsTypeOK, OnCall, Retake, Goto, Searches, shared
  <2>3. CASE Found(t)
    BY <1>0, <2>3 DEF ReadsTypeOK, OnCall, Found, Goto, Searches, shared
  <2> QED BY <1>13, <2>1, <2>2, <2>3
<1>14. CASE SearchFails(t) \/ Release(t)
  BY <1>0, <1>14 DEF ReadsTypeOK, OnCall, SearchFails, Release, Goto, Searches, shared
<1>15. CASE Pop(t)
  <2>1. Finished(t) /\ refresh' # t
    BY <1>0, <1>15, ReadingEnds DEF Pop, Deliver, OnCall
  <2> QED BY <1>15, <2>1, DoneAside DEF Searches
<1> QED
  BY <1>1, <1>2, <1>3, <1>4, <1>6, <1>7, <1>8, <1>9, <1>10, <1>11, <1>12, <1>13, <1>14, <1>15
    DEF Advance

(* REFRESH_LOCK changes hands only to and from the thread that steps. *)
LEMMA StepRefresh ==
  ASSUME NEW t \in Threads, Advance(t) \/ \E r \in mix : Ask(t, r)
  PROVE  refresh' \in {refresh, t, NoThread}
<1>1. CASE Acquire(t) \/ TakeToken(t) \/ Login(t) \/ Stow(t) \/ Received(t)
  BY <1>1 DEF Acquire, TakeToken, Login, Stow, Received, shared
<1>2. CASE Pick(t) \/ StopWaiting(t) \/ Recheck(t) \/ Reply(t) \/ LastLook(t) \/ Retake(t)
  BY <1>2 DEF Pick, StopWaiting, Recheck, Reply, LastLook, Retake, Returned, shared
<1>3. CASE Refused(t) \/ CallFails(t) \/ Save(t) \/ Keep(t)
  BY <1>3 DEF Refused, Refusing, CallFails, Raises, Save, Keep, Returned
<1>4. CASE Join(t) \/ Take(t) \/ GiveUp(t) \/ Found(t) \/ SearchFails(t) \/ Release(t) \/ Pop(t)
  BY <1>4 DEF Join, Take, GiveUp, Found, SearchFails, Release, Pop, shared
<1>5. CASE \E r \in mix : Ask(t, r)
  BY <1>5 DEF Ask, shared
<1> QED BY <1>1, <1>2, <1>3, <1>4, <1>5 DEF Advance

LEMMA CallsStep ==
  ASSUME ReadsTypeOK, Calls, NEW t \in Threads, Advance(t) \/ \E r \in mix : Ask(t, r)
  PROVE  Calls'
<1>1. Apart(t) /\ OnCall(t)' /\ refresh' \in {refresh, t, NoThread}
  BY StepApart, StepOnCall, StepRefresh
<1>2. ASSUME NEW u \in Threads \ {t} PROVE OnCall(u)'
  BY <1>1, <1>2, Constants
  DEF Calls, OnCall, Apart, InRefresh, InFlight, Holds, Saving
<1> QED BY <1>1, <1>2 DEF Calls

-----------------------------------------------------------------------------
(* Counting *)

LEMMA ImageFinite ==
  ASSUME NEW D \in SUBSET Threads, NEW f
  PROVE  IsFiniteSet({f[t] : t \in D})
<1> DEFINE I == {f[t] : t \in D}
           g == [t \in D |-> f[t]]
<1>1. IsFiniteSet(D)
  BY UpstreamAssumption, FS_Subset
<1>2. g \in Surjection(D, I)
  BY DEF Surjection
<1> QED BY <1>1, <1>2, FS_Surjection

LEMMA Counted ==
  ASSUME NEW D \in SUBSET Threads, NEW f, NEW x
  PROVE  /\ IsFiniteSet(D) /\ Cardinality(D) \in Nat
         /\ IsFiniteSet({x} \cup {f[t] : t \in D})
         /\ Cardinality({x} \cup {f[t] : t \in D}) \in Nat
<1> DEFINE I == {f[t] : t \in D}
<1>1. IsFiniteSet(D)
  BY UpstreamAssumption, FS_Subset
<1>2. IsFiniteSet(I)
  BY ImageFinite
<1> HIDE DEF I
<1>3. IsFiniteSet(I \cup {x}) /\ I \cup {x} = {x} \cup I
  BY <1>2, FS_AddElement
<1>4. Cardinality(D) \in Nat /\ Cardinality({x} \cup I) \in Nat
  BY <1>1, <1>3, FS_CardinalityType
<1> QED BY <1>1, <1>3, <1>4 DEF I

LEMMA Sizes ==
  /\ IsFiniteSet(Leads) /\ Cardinality(Leads) \in Nat
  /\ IsFiniteSet(Forgetting) /\ Cardinality(Forgetting) \in Nat
  /\ IsFiniteSet(Searching) /\ Cardinality(Searching) \in Nat
  /\ IsFiniteSet(Leads') /\ Cardinality(Leads') \in Nat
  /\ IsFiniteSet(Forgetting') /\ Cardinality(Forgetting') \in Nat
  /\ IsFiniteSet(Searching') /\ Cardinality(Searching') \in Nat
<1>1. /\ MayLead \subseteq Threads /\ MayLead' \subseteq Threads
      /\ Forgetting \subseteq Threads /\ Forgetting' \subseteq Threads
      /\ Searching \subseteq Threads /\ Searching' \subseteq Threads
  BY DEF MayLead, Forgetting, Searching
<1>2. /\ IsFiniteSet(Leads) /\ Cardinality(Leads) \in Nat
      /\ IsFiniteSet(Leads') /\ Cardinality(Leads') \in Nat
  <2>1. ASSUME NEW D \in SUBSET Threads, NEW f, NEW x
        PROVE  /\ IsFiniteSet({x} \cup {f[t] : t \in D})
               /\ Cardinality({x} \cup {f[t] : t \in D}) \in Nat
    BY Counted
  <2> DEFINE Image(x, f, D) == {x} \cup {f[t] : t \in D}
  <2>2. /\ IsFiniteSet(Image(flight, lock, MayLead))
        /\ Cardinality(Image(flight, lock, MayLead)) \in Nat
    BY <1>1, <2>1
  <2>3. /\ IsFiniteSet(Image(flight', lock', MayLead'))
        /\ Cardinality(Image(flight', lock', MayLead')) \in Nat
    BY <1>1, <2>1
  <2>4. Leads = Image(flight, lock, MayLead) /\ Leads' = Image(flight', lock', MayLead')
    BY DEF Leads
  <2> HIDE DEF Image
  <2> QED BY <2>2, <2>3, <2>4
<1>3. ASSUME NEW D \in SUBSET Threads PROVE IsFiniteSet(D) /\ Cardinality(D) \in Nat
  BY Counted
<1> QED BY <1>1, <1>2, <1>3

LEMMA SmallerIsLess ==
  ASSUME NEW T, IsFiniteSet(T), NEW S \in SUBSET T
  PROVE  Cardinality(S) <= Cardinality(T)
BY FS_Subset

(* Who searches does so under a lock of his own. *)
LEMMA OneEach ==
  ASSUME NEW S \in SUBSET Threads, NEW f, NEW T, IsFiniteSet(T),
         \A t \in S : f[t] \in T,
         \A t, u \in S : f[t] = f[u] => t = u
  PROVE  Cardinality(S) <= Cardinality(T)
<1> DEFINE g == [t \in S |-> f[t]]
<1>1. g \in Injection(S, T)
  BY DEF Injection, IsInjective
<1> QED BY <1>1, FS_Injection

-----------------------------------------------------------------------------
(* What stays as it is when nobody in the flight moves *)
LEMMA FlightStays ==
  ASSUME ReadsTypeOK, HeldByOne, ToBePopped, Budget, SearchesShare,
         \A u \in Threads : InFlight(u)' <=> InFlight(u),
         \A u \in Threads : InFlight(u) =>
           pc'[u] = pc[u] /\ call'[u] = call[u] /\ lock'[u] = lock[u],
         UNCHANGED <<flight, held>>, cache'["search"] = cache["search"],
         failures' \in {failures, failures + 1}
  PROVE  HeldByOne' /\ ToBePopped' /\ Budget' /\ SearchesShare'
<1>1. \A u \in Threads : /\ Holds(u)' <=> Holds(u)
                         /\ Holds(u) => lock'[u] = lock[u] /\ InFlight(u)
                         /\ u \in MayLead' <=> u \in MayLead
                         /\ u \in MayLead => lock'[u] = lock[u]
                         /\ u \in Forgetting' <=> u \in Forgetting
                         /\ u \in Searching' <=> u \in Searching
  BY DEF InFlight, Holds, Saving, MayLead, Forgetting, Searching
<1>2. Leads' = Leads /\ Forgetting' = Forgetting /\ Searching' = Searching
  BY <1>1 DEF Leads, MayLead, Forgetting, Searching
<1>3. HeldByOne'
  BY <1>1 DEF HeldByOne
<1>4. ToBePopped'
  BY DEF ToBePopped
<1>5. failures \in Nat
  BY Constants DEF ReadsTypeOK
<1>6. Budget' /\ SearchesShare'
  BY <1>2, <1>5, Sizes DEF Budget, SearchesShare
<1> QED BY <1>3, <1>4, <1>6

LEMMA SearchStep ==
  ASSUME ReadsTypeOK, Alones, FlightInv, NEW t \in Threads, Apart(t), Searches(t)
  PROVE  HeldByOne' /\ ToBePopped' /\ Budget' /\ SearchesShare'
<1> USE DEF At, Holds, InFlight, Saving
<1>0. /\ failures \in Nat /\ OnCall(t) /\ Alone(t)
      /\ HeldByOne /\ ToBePopped /\ Budget /\ SearchesShare
  BY Constants DEF ReadsTypeOK, FlightInv, Calls, Alones
<1>1. CASE Join(t)
  <2>1. /\ pc[t] = "join" /\ pc'[t] = "queue" /\ lock'[t] = flight' /\ flight' # NoLock
        /\ flight # NoLock => flight' = flight
        /\ UNCHANGED <<held, cache, failures>>
    BY <1>1, Constants DEF ReadsTypeOK, Join, Goto, upstream
  <2>2. HeldByOne' /\ ToBePopped'
    BY <1>0, <2>1 DEF HeldByOne, ToBePopped, Apart
  <2>3. MayLead' = MayLead \cup {t} /\ t \notin MayLead
    BY <2>1 DEF MayLead, Apart
  <2>4. Forgetting' = Forgetting /\ Searching' = Searching
    BY <2>1 DEF Forgetting, Searching, Apart
  <2>5. \A u \in MayLead : lock'[u] = lock[u] /\ lock[u] # NoLock
    BY <2>3 DEF MayLead, FlightInv, Calls, OnCall, Apart
  <2>6. Cardinality(Leads') <= Cardinality(Leads)
    <3>1. CASE flight # NoLock
      <4>1. Leads' = Leads
        BY <2>1, <2>3, <2>5, <3>1 DEF Leads
      <4> QED BY <4>1, Sizes
    <3>2. CASE flight = NoLock
      <4> DEFINE L == {lock[u] : u \in MayLead}
      <4>1. NoLock \notin L /\ Leads = L \cup {NoLock} /\ Leads' = L \cup {flight'}
        BY <2>1, <2>3, <2>5, <3>2 DEF Leads
      <4>2. IsFiniteSet(L)
        BY <4>1, Sizes, FS_Subset
      <4> HIDE DEF L
      <4>3. ASSUME NEW x
            PROVE  Cardinality(L \cup {x}) =
                     IF x \in L THEN Cardinality(L) ELSE Cardinality(L) + 1
        BY <4>2, FS_AddElement
      <4>4. Cardinality(L) \in Nat
        BY <4>2, FS_CardinalityType
      <4> QED BY <4>1, <4>3, <4>4
    <3> QED BY <3>1, <3>2
  <2> QED BY <1>0, <2>1, <2>2, <2>4, <2>6, Sizes DEF Budget, SearchesShare
<1>2. CASE Take(t)
  <2>1. /\ pc[t] = "queue" /\ pc'[t] = "retake" /\ lock[t] \notin held
        /\ held' = held \cup {lock[t]} /\ UNCHANGED <<flight, cache, failures, lock, call>>
    BY <1>2 DEF ReadsTypeOK, Take, Goto, upstream
  <2>2. HeldByOne'
    BY <1>0, <2>1 DEF HeldByOne, Apart
  <2>3. ToBePopped'
    BY <1>0, <2>1 DEF ToBePopped, Apart
  <2>4. MayLead' = MayLead /\ Forgetting' = Forgetting /\ Searching' = Searching
    BY <2>1 DEF MayLead, Forgetting, Searching, Apart
  <2>5. Leads' = Leads
    BY <2>1, <2>4 DEF Leads
  <2> QED BY <1>0, <2>1, <2>2, <2>3, <2>4, <2>5 DEF Budget, SearchesShare
<1>3. CASE GiveUp(t)
  <2>1. /\ pc[t] = "queue" /\ pc'[t] = "last" /\ lock[t] \in held
        /\ UNCHANGED <<held, flight, cache, failures>>
    BY <1>3 DEF ReadsTypeOK, GiveUp, Goto, shared, upstream
  <2>2. HeldByOne'
    BY <1>0, <2>1 DEF HeldByOne, Apart
  <2>3. ToBePopped'
    <3>1. PICK u \in Threads : Holds(u) /\ lock[u] = lock[t]
      BY <1>0, <2>1 DEF HeldByOne
    <3>2. u # t /\ InFlight(u)' /\ lock'[u] = lock[t]
      BY <2>1, <3>1 DEF Apart
    <3>3. ASSUME NEW w \in Threads \ {t}, InFlight(w) PROVE InFlight(w)' /\ lock'[w] = lock[w]
      BY <3>3 DEF Apart
    <3> QED BY <1>0, <2>1, <3>2, <3>3 DEF ToBePopped
  <2>4. MayLead' \subseteq MayLead \ {t} /\ Forgetting' = Forgetting /\ Searching' = Searching
    BY <2>1 DEF MayLead, Forgetting, Searching, Apart
  <2>5. Leads' \subseteq Leads
    BY <2>1, <2>4 DEF Leads, MayLead, Apart
  <2>6. Cardinality(Leads') <= Cardinality(Leads)
    BY <2>5, Sizes, SmallerIsLess
  <2> QED BY <1>0, <2>1, <2>2, <2>3, <2>4, <2>6, Sizes DEF Budget, SearchesShare
<1>4. CASE Retake(t)
  <2>1. /\ pc[t] = "retake" /\ UNCHANGED <<held, flight, cache, failures, lock, call>>
        /\ pc'[t] = IF cache["search"] # 0 THEN "release" ELSE "search"
    BY <1>4 DEF ReadsTypeOK, Retake, Goto, shared, upstream
  <2>2. HeldByOne'
    BY <1>0, <2>1 DEF HeldByOne, Apart
  <2>3. ToBePopped'
    BY <1>0, <2>1 DEF ToBePopped, Apart
  <2>4. CASE cache["search"] # 0
    <3>1. Searching' = Searching
      BY <2>1, <2>4 DEF Searching, Apart
    <3> QED BY <1>0, <2>1, <2>2, <2>3, <2>4, <3>1 DEF Budget, SearchesShare
  <2>5. CASE cache["search"] = 0
    <3>1. MayLead' = MayLead /\ Forgetting' = Forgetting
      BY <2>1, <2>5 DEF MayLead, Forgetting, Apart
    <3>2. Leads' = Leads
      BY <2>1, <3>1 DEF Leads
    <3>3. \A u \in Searching' : lock[u] \in Leads /\ Holds(u)
      BY <2>1, <3>1 DEF Searching, MayLead, Leads, Apart
    <3>4. \A u, w \in Searching' : lock[u] = lock[w] => u = w
      BY <1>0, <3>3 DEF HeldByOne, Searching
    <3>5. Cardinality(Searching') <= Cardinality(Leads)
      BY <3>3, <3>4, Sizes, OneEach DEF Searching
    <3> QED
      BY <1>0, <2>1, <2>2, <2>3, <2>5, <3>1, <3>2, <3>5, Sizes DEF Budget, SearchesShare
  <2> QED BY <2>4, <2>5
<1>5. CASE Found(t)
  <2>1. /\ pc[t] = "search" /\ pc'[t] = "save" /\ call[t] = "search"
        /\ UNCHANGED <<held, flight, cache, failures, lock, call>>
    BY <1>0, <1>5 DEF ReadsTypeOK, Found, Goto, Alone, shared, upstream
  <2>2. HeldByOne'
    BY <1>0, <2>1 DEF HeldByOne, Apart
  <2>3. ToBePopped'
    BY <1>0, <2>1 DEF ToBePopped, Apart
  <2>4. MayLead' = MayLead /\ Forgetting' = Forgetting /\ Searching' \subseteq Searching
    BY <2>1 DEF MayLead, Forgetting, Searching, Apart
  <2>5. Leads' = Leads /\ Cardinality(Searching') <= Cardinality(Searching)
    BY <2>1, <2>4, Sizes, SmallerIsLess DEF Leads
  <2> QED BY <1>0, <2>1, <2>2, <2>3, <2>4, <2>5, Sizes DEF Budget, SearchesShare
<1>6. CASE SearchFails(t)
  <2>1. /\ pc[t] = "search" /\ pc'[t] = "release" /\ failures' = failures + 1
        /\ UNCHANGED <<held, flight, cache, lock, call>>
    BY <1>6 DEF ReadsTypeOK, SearchFails, Goto, shared
  <2>2. HeldByOne'
    BY <1>0, <2>1 DEF HeldByOne, Apart
  <2>3. ToBePopped'
    BY <1>0, <2>1 DEF ToBePopped, Apart
  <2>4. /\ MayLead' \subseteq MayLead /\ Searching' \subseteq Searching
        /\ Forgetting' = Forgetting \cup {t} /\ t \notin Forgetting
    BY <2>1 DEF MayLead, Forgetting, Searching, Apart
  <2>5. Leads' \subseteq Leads
    BY <2>1, <2>4 DEF Leads
  <2>6. /\ Cardinality(Leads') <= Cardinality(Leads)
        /\ Cardinality(Searching') <= Cardinality(Searching)
        /\ Cardinality(Forgetting') = Cardinality(Forgetting) + 1
    BY <2>4, <2>5, Sizes, SmallerIsLess, FS_AddElement
  <2> QED BY <1>0, <2>1, <2>2, <2>3, <2>6, Sizes DEF Budget, SearchesShare
<1>7. CASE Save(t) /\ Saving(t)
  <2>1. /\ pc[t] = "save" /\ pc'[t] = "release" /\ cache'["search"] # 0
        /\ UNCHANGED <<held, flight, lock, call, failures>>
    BY <1>0, <1>7 DEF ReadsTypeOK, Save, Goto, OnCall, upstream
  <2>2. HeldByOne'
    BY <1>0, <1>7, <2>1 DEF HeldByOne, Apart
  <2>3. ToBePopped'
    BY <1>0, <2>1 DEF ToBePopped, Apart
  <2>4. Searching' = Searching
    BY <2>1 DEF Searching, Apart
  <2> QED BY <1>0, <2>1, <2>2, <2>3, <2>4 DEF Budget, SearchesShare
<1>8. CASE Release(t)
  <2>1. /\ pc[t] = "release" /\ pc'[t] = "pop" /\ held' = held \ {lock[t]}
        /\ UNCHANGED <<flight, cache, failures, lock, call>>
    BY <1>8 DEF ReadsTypeOK, Release, Goto, upstream
  <2>2. HeldByOne'
    BY <1>0, <2>1 DEF HeldByOne, Apart
  <2>3. ToBePopped'
    BY <1>0, <2>1 DEF ToBePopped, Apart
  <2>4. MayLead' = MayLead /\ Forgetting' = Forgetting /\ Searching' = Searching
    BY <2>1 DEF MayLead, Forgetting, Searching, Apart
  <2>5. Leads' = Leads
    BY <2>1, <2>4 DEF Leads
  <2> QED BY <1>0, <2>1, <2>2, <2>3, <2>4, <2>5 DEF Budget, SearchesShare
<1>9. CASE Pop(t)
  <2>1. /\ pc[t] = "pop" /\ pc'[t] \in {"pick", "answered"} /\ flight' = NoLock
        /\ UNCHANGED <<held, cache, failures>>
    BY <1>9, ReadingEnds DEF Pop, Deliver, Finished, upstream
  <2>2. HeldByOne'
    BY <1>0, <2>1 DEF HeldByOne, Apart
  <2>3. ToBePopped'
    BY <2>1 DEF ToBePopped
  <2>4. /\ MayLead' = MayLead /\ t \notin MayLead /\ Searching' = Searching
        /\ Forgetting' = Forgetting \ {t} /\ t \in Forgetting
    BY <2>1 DEF MayLead, Forgetting, Searching, Apart
  <2>5. Leads' \subseteq Leads \cup {NoLock}
    BY <2>1, <2>4 DEF Leads, MayLead, Apart
  <2>6. Cardinality(Leads') <= Cardinality(Leads) + 1
    <3>1. IsFiniteSet(Leads \cup {NoLock})
          /\ Cardinality(Leads \cup {NoLock}) <= Cardinality(Leads) + 1
      <4>1. IsFiniteSet(Leads) /\ Cardinality(Leads) \in Nat
        BY Sizes
      <4>2. /\ IsFiniteSet(Leads \cup {NoLock})
            /\ Cardinality(Leads \cup {NoLock}) =
                 IF NoLock \in Leads THEN Cardinality(Leads) ELSE Cardinality(Leads) + 1
        BY <4>1, FS_AddElement
      <4> QED BY <4>1, <4>2
    <3>2. Cardinality(Leads') <= Cardinality(Leads \cup {NoLock})
      BY <2>5, <3>1, SmallerIsLess
    <3>3. Cardinality(Leads \cup {NoLock}) \in Nat
      BY <3>1, FS_CardinalityType
    <3> QED BY <3>1, <3>2, <3>3, Sizes
  <2>7. Cardinality(Forgetting') = Cardinality(Forgetting) - 1
    BY <2>4, Sizes, FS_RemoveElement
  <2> QED BY <1>0, <2>1, <2>2, <2>3, <2>4, <2>6, <2>7, Sizes DEF Budget, SearchesShare
<1> QED BY <1>1, <1>2, <1>3, <1>4, <1>5, <1>6, <1>7, <1>8, <1>9 DEF Searches

LEMMA FlightStep == ReadsTypeOK /\ Alones /\ FlightInv /\ ReadsNext => FlightInv'
<1> SUFFICES ASSUME ReadsTypeOK, Alones, FlightInv, ReadsNext PROVE FlightInv'
  OBVIOUS
<1>0. Calls /\ HeldByOne /\ ToBePopped /\ Budget /\ SearchesShare /\ failures \in Nat
  BY Constants DEF FlightInv, ReadsTypeOK
<1>1. ASSUME NEW t \in Threads, Advance(t) \/ \E r \in mix : Ask(t, r)
      PROVE  FlightInv'
  <2>1. Apart(t) /\ Calls'
    BY <1>0, <1>1, StepApart, CallsStep
  <2>2. CASE Searches(t)
    BY <2>1, <2>2, SearchStep DEF FlightInv
  <2>3. CASE Aside(t)
    <3>1. \A u \in Threads : /\ InFlight(u)' <=> InFlight(u)
                             /\ InFlight(u) =>
                                  pc'[u] = pc[u] /\ call'[u] = call[u] /\ lock'[u] = lock[u]
      BY <2>1, <2>3 DEF Apart, Aside, InFlight, Holds, Saving
    <3>2. HeldByOne' /\ ToBePopped' /\ Budget' /\ SearchesShare'
      BY <1>0, <2>3, <3>1, FlightStays DEF Aside
    <3> QED BY <2>1, <3>2 DEF FlightInv
  <2> QED BY <1>0, <1>1, <2>2, <2>3, StepOnCall
<1>2. ASSUME UNCHANGED <<flight, held, refresh, threads>>,
             cache'["search"] = cache["search"], failures' \in {failures, failures + 1}
      PROVE  FlightInv'
  <2>1. Calls'
    BY <1>0, <1>2 DEF Calls, OnCall, InFlight, Holds, Saving, InRefresh, threads
  <2>2. \A u \in Threads : /\ InFlight(u)' <=> InFlight(u)
                           /\ pc'[u] = pc[u] /\ call'[u] = call[u] /\ lock'[u] = lock[u]
    BY <1>2 DEF InFlight, Holds, Saving, threads
  <2>3. HeldByOne' /\ ToBePopped' /\ Budget' /\ SearchesShare'
    BY <1>0, <1>2, <2>2, FlightStays
  <2> QED BY <2>1, <2>3 DEF FlightInv
<1>3. ASSUME NEW e \in Expiring, Expire(e) PROVE FlightInv'
  <2>1. CASE e # "search"
    BY <1>2, <1>3, <2>1 DEF ReadsTypeOK, Expire, Expiring, Answers, upstream
  <2>2. CASE e = "search"
    <3>1. \A u \in Threads : ~InFlight(u)
      BY <1>3, <2>2 DEF Expire, Alones, Alone, InFlight, Holds, Saving, Resting
    <3>2. UNCHANGED <<refresh, flight, held, failures, pc, call, lock, got>>
      BY <1>3 DEF Expire, threads, upstream
    <3>3. Calls' /\ HeldByOne'
      BY <1>0, <3>1, <3>2
      DEF Calls, HeldByOne, OnCall, InFlight, Holds, Saving, InRefresh
    <3>4. flight = NoLock
      BY <1>0, <3>1 DEF ToBePopped
    <3>5. Leads' = {NoLock} /\ Forgetting' = {} /\ Searching' = {}
      BY <3>1, <3>2, <3>4 DEF Leads, MayLead, Forgetting, Searching, InFlight, Holds, Saving
    <3>6. Cardinality({NoLock}) = 1 /\ Cardinality({}) = 0
      BY FS_Singleton, FS_EmptySet
    <3>7. ToBePopped' /\ Budget' /\ SearchesShare'
      BY <1>0, <3>2, <3>4, <3>5, <3>6 DEF ToBePopped, Budget, SearchesShare
    <3> QED BY <3>3, <3>7 DEF FlightInv
  <2> QED BY <2>1, <2>2
<1>4. CASE ExpireToken \/ Publish \/ Revoke
  BY <1>2, <1>4 DEF ExpireToken, Publish, Revoke, shared, upstream
<1> QED BY <1>1, <1>3, <1>4 DEF ReadsNext

LEMMA AlwaysFlight == ReadsSpec => []FlightInv
<1>1. ReadsInit => FlightInv
  <2> SUFFICES ASSUME ReadsInit PROVE FlightInv
    OBVIOUS
  <2>1. /\ \A t \in Threads : ~InFlight(t) /\ pc[t] = "idle" /\ refresh # t
        /\ flight = NoLock /\ held = {} /\ failures = 0
    BY Constants DEF ReadsInit, InFlight, Holds, Saving
  <2>2. Calls /\ HeldByOne /\ ToBePopped
    BY <2>1 DEF Calls, OnCall, HeldByOne, ToBePopped, InFlight, Holds, Saving
  <2>3. Leads = {NoLock} /\ Forgetting = {} /\ Searching = {}
    BY <2>1 DEF Leads, MayLead, Forgetting, Searching, InFlight, Holds, Saving
  <2>4. Cardinality({NoLock}) = 1 /\ Cardinality({}) = 0
    BY FS_Singleton, FS_EmptySet
  <2> QED BY <2>1, <2>2, <2>3, <2>4 DEF FlightInv, Budget, SearchesShare
<1>2. FlightInv /\ UNCHANGED readsVars => FlightInv'
  BY DEF FlightInv, Calls, OnCall, HeldByOne, ToBePopped, Budget, SearchesShare, Leads,
         MayLead, Forgetting, Searching, InFlight, Holds, Saving, InRefresh, readsVars, shared,
         threads, upstream
<1> QED
  BY <1>1, <1>2, FlightStep, TypeCorrect, AlwaysAlone, PTL DEF ReadsSpec

(* However many threads ask at once, give up waiting and fail, a search is *)
(* under way once, and once more for every failure, and where nobody is at *)
(* work REFRESH_LOCK is free, IN_FLIGHT empty and none of its locks held   *)
(* (_single_flight, open_projects).                                        *)
THEOREM StampedeTheorem == ReadsSpec => []NoStampede
<1>1. ReadsTypeOK /\ FlightInv => LocksComeBack
  <2> SUFFICES ASSUME ReadsTypeOK, FlightInv, \A t \in Threads : pc[t] \in Resting
               PROVE  refresh = NoThread /\ flight = NoLock /\ held = {}
    BY DEF LocksComeBack
  <2>1. \A t \in Threads : ~InFlight(t) /\ ~Holds(t) /\ ~InRefresh(t)
    BY DEF Resting, InFlight, Holds, Saving, InRefresh, Refreshing
  <2> QED
    BY <2>1 DEF ReadsTypeOK, FlightInv, Calls, OnCall, HeldByOne, ToBePopped
<1>2. ReadsTypeOK /\ OneRefresh /\ FlightInv => NoStampede
  BY <1>1 DEF NoStampede, FlightInv
<1> QED
  BY <1>2, TypeCorrect, RefreshTheorem, AlwaysFlight, PTL

=============================================================================

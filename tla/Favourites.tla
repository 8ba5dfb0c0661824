----------------------------- MODULE Favourites -----------------------------
(***************************************************************************)
(* The favourites panel of map-api: the layers a user has starred and the  *)
(* folders they file them in (services/user_favourite_layer_service.py,    *)
(* services/user_favourite_folder_service.py and the models under them).   *)
(*                                                                         *)
(* A worker is one thread of the API serving one request at a time.  Each  *)
(* request is a chain of steps, one per SELECT whose answer is used later  *)
(* and one per flush-and-commit: PostgreSQL runs the sessions at READ      *)
(* COMMITTED, so a request of another tab may commit between any two of    *)
(* them.  A flush writes only the columns whose value differs from the one *)
(* that was loaded, and fails when a row it has to write is gone or when a *)
(* folder it refers to is gone.  The last step of every request is the     *)
(* audit hook, which commits whatever the request left in its session.     *)
(***************************************************************************)
EXTENDS Integers, Sequences, FiniteSets

CONSTANTS
  Workers,              \* request threads of the API, over all its replicas
  Users,                \* signed-in users
  Catalogue,            \* catalogue layers a user may star
  SeededLayer,          \* the hosted layer every user is given
  Names,                \* folder names, after folder_name has trimmed them
  DefaultName,          \* what a blank folder name becomes
  Orders,               \* lists of favourite ids a client may send
  MaxFavouriteLayers,   \* MAX_FAVOURITE_LAYERS
  MaxFavouriteFolders,  \* MAX_FAVOURITE_FOLDERS
  Ops,                  \* the operations clients call
  MaxRequests,          \* bound: requests served in a behaviour
  InitialTables         \* the database contents a behaviour may start from

Layers == Catalogue \cup {SeededLayer}

Top == 0                \* folder_id NULL, the top level of the panel

VARIABLES
  favourites,           \* table user_favourite_layers, by id
  folders,              \* table user_favourite_folders, by id
  nextFavourite,        \* the sequences behind the two ids
  nextFolder,
  pc,                   \* the step each worker's request is at
  call,                 \* what the client asked for
  seen,                 \* favourites loaded in the session, as loaded
  seenFolder,           \* the folder loaded in the session, as loaded
  dirty,                \* values assigned to loaded favourites, not flushed
  place,                \* the sort position a request has read
  reply,                \* the status of the response
  served                \* requests started so far

tables  == <<favourites, folders, nextFavourite, nextFolder>>
session == <<seen, seenFolder, dirty, place>>
vars    == <<tables, pc, call, session, reply, served>>

-----------------------------------------------------------------------------
(* Types *)

AllOps == {"list", "add", "remove", "move", "reorder",
           "createFolder", "updateFolder", "deleteFolder"}

FirstStep == [list |-> "ensure", add |-> "count", remove |-> "find",
              move |-> "own", reorder |-> "own",
              createFolder |-> "folderCount", updateFolder |-> "folderLoad",
              deleteFolder |-> "ungroupFind"]

Steps == {"idle", "ensure", "count", "position", "insert", "refind", "list",
          "find", "delete", "own", "load", "target", "check", "reload", "flush",
          "folderCount", "folderPosition", "folderInsert", "folderLoad",
          "folderFlush", "ungroupFind", "ungroupRows", "bottom",
          "folderDelete", "audit"}

Refusals == {"bad", "missing", "full"}          \* 400, 404, 422
Replies  == {"none", "ok", "created", "error"} \cup Refusals

Favourite == [user: Users, layer: Layers, folder: Nat, sort: Int]
Folder    == [user: Users, name: Names, is_collapsed: BOOLEAN, sort: Int]
Filing    == [folder: Nat, sort: Int]   \* the columns a request may rewrite
FolderSeen == [name: Names, is_collapsed: BOOLEAN]
Call      == [op: Ops \cup {"none"}, user: Users, row: Nat, folder: Nat, layer: Layers,
              order: Orders \cup {<<>>}, sent: SUBSET {"name", "is_collapsed"},
              name: Names, is_collapsed: BOOLEAN]

IsTable(table, Row) == /\ table = [i \in DOMAIN table |-> table[i]]
                       /\ DOMAIN table \subseteq Nat
                       /\ \A i \in DOMAIN table : table[i] \in Row

Empty == [i \in {} |-> i]

NoCall ==
  [op |-> "none", user |-> CHOOSE u \in Users : TRUE, row |-> 0, folder |-> Top,
   layer |-> SeededLayer, order |-> <<>>, sent |-> {}, name |-> DefaultName,
   is_collapsed |-> FALSE]

NoFolder == [name |-> DefaultName, is_collapsed |-> FALSE]

(* The constraints of the two tables, and no more users' rows than the cap *)
(* that a client calling one request at a time could have reached.         *)
WellFormed(db) ==
  /\ IsTable(db.favourites, Favourite) /\ IsTable(db.folders, Folder)
  /\ db.nextFavourite \in Nat \ {0} /\ db.nextFolder \in Nat \ {0}
  /\ \A i \in DOMAIN db.favourites : i \in 1..(db.nextFavourite - 1)
  /\ \A f \in DOMAIN db.folders : f \in 1..(db.nextFolder - 1)
  /\ \A i, j \in DOMAIN db.favourites :
       db.favourites[i].user = db.favourites[j].user
         /\ db.favourites[i].layer = db.favourites[j].layer => i = j
  /\ \A i \in DOMAIN db.favourites :
       LET row == db.favourites[i]
       IN row.folder # Top => /\ row.folder \in DOMAIN db.folders
                              /\ db.folders[row.folder].user = row.user
  /\ \A u \in Users :
       Cardinality({i \in DOMAIN db.favourites :
                      /\ db.favourites[i].user = u
                      /\ db.favourites[i].layer # SeededLayer})
         <= MaxFavouriteLayers

ASSUME ConstantsAssumption ==
  /\ IsFiniteSet(Workers) /\ Workers # {}
  /\ Users # {} /\ SeededLayer \notin Catalogue
  /\ DefaultName \in Names
  /\ Orders \subseteq Seq(Nat)
  /\ MaxFavouriteLayers \in Nat /\ MaxFavouriteFolders \in Nat
  /\ Ops \subseteq AllOps
  /\ MaxRequests \in Nat

ASSUME InitialAssumption == \A db \in InitialTables : WellFormed(db)

-----------------------------------------------------------------------------
(* Queries *)

OwnedByAnyone(user) == DOMAIN favourites                     \* a mutant

OwnedBy(user) == {i \in DOMAIN favourites : favourites[i].user = user}

(* find_in_folder: Top is the top level, not any folder *)
Container(user, folder) ==
  {i \in OwnedBy(user) : favourites[i].folder = folder}

(* find_reference *)
Starred(user, layer) == \E i \in OwnedBy(user) : favourites[i].layer = layer

AnyFolder(user, folder) == folder \in DOMAIN folders         \* a mutant

OwnFolder(user, folder) ==
  folder \in DOMAIN folders /\ folders[folder].user = user

(* The cap counts every row, the seeded one with them *)
FullPastCap(user) ==                                         \* a mutant
  Cardinality(OwnedBy(user)) > MaxFavouriteLayers

Full(user) == Cardinality(OwnedBy(user)) >= MaxFavouriteLayers

(* A row the user is not allowed to unstar *)
NeverRestricted(i) == FALSE                                  \* a mutant

restricted(i) == favourites[i].layer = SeededLayer

FoldersOf(user) == {f \in DOMAIN folders : folders[f].user = user}

(* The one-element set with the position above, or below, every position   *)
(* of a set; 1 when there is none.                                         *)
Above(sorts) == IF sorts = {} THEN {1}
                ELSE {s - 1 : s \in {t \in sorts : \A x \in sorts : t <= x}}

Below(sorts) == IF sorts = {} THEN {1}
                ELSE {s + 1 : s \in {t \in sorts : \A x \in sorts : x <= t}}

SortsIn(user, folder) ==
  {favourites[i].sort : i \in Container(user, folder)}

top_sort_order(user, folder)    == Above(SortsIn(user, folder))
bottom_sort_order(user, folder) == Below(SortsIn(user, folder))

(* ORDER BY sort_order, id *)
Precedes(i, filing1, j, filing2) ==
  \/ filing1.sort < filing2.sort
  \/ filing1.sort = filing2.sort /\ i < j

Loaded(ids) == [i \in ids |-> [folder |-> favourites[i].folder,
                               sort   |-> favourites[i].sort]]

Listed(order) == {order[k] : k \in DOMAIN order}

(* A table after an INSERT *)
AppendedPastId(table, id, row) ==                            \* a mutant
  [i \in DOMAIN table \cup {id + 1} |-> IF i = id + 1 THEN row ELSE table[i]]

Appended(table, id, row) ==
  [i \in DOMAIN table \cup {id} |-> IF i = id THEN row ELSE table[i]]

-----------------------------------------------------------------------------
(* Moving through a request *)

At(w, step) == pc[w] = step

Goto(w, step) == /\ pc' = [pc EXCEPT ![w] = step]
                 /\ UNCHANGED reply

Answer(w, status) == /\ pc' = [pc EXCEPT ![w] = "audit"]
                     /\ reply' = [reply EXCEPT ![w] = status]

(* What a client may send: ids it could have read, and one never assigned. *)
Incoming(op, user) ==
  [op     : {op},
   user   : {user},
   row    : IF op \in {"remove", "move"} THEN 1..nextFavourite ELSE {0},
   folder : IF op \in {"move", "reorder"} THEN 0..nextFolder
            ELSE IF op \in {"updateFolder", "deleteFolder"} THEN 1..nextFolder
            ELSE {Top},
   layer  : IF op = "add" THEN Catalogue ELSE {SeededLayer},
   order  : IF op = "reorder" THEN Orders ELSE {<<>>},
   sent   : IF op = "updateFolder" THEN (SUBSET {"name", "is_collapsed"}) \ {{}}
            ELSE {{}},
   name   : IF op \in {"createFolder", "updateFolder"} THEN Names
            ELSE {DefaultName},
   is_collapsed : IF op = "updateFolder" THEN BOOLEAN ELSE {FALSE}]

Receive(w) ==
  /\ At(w, "idle")
  /\ served < MaxRequests
  /\ \E op \in Ops, user \in Users : \E c \in Incoming(op, user) :
       /\ call' = [call EXCEPT ![w] = c]
       /\ Goto(w, FirstStep[op])
  /\ served' = served + 1
  /\ UNCHANGED <<tables, session>>

-----------------------------------------------------------------------------
(* GET /users/me/favourites and POST: seeding and starring *)

(* ensure_local: the row is already there *)
EnsureFinds(w) ==
  /\ At(w, "ensure")
  /\ Starred(call[w].user, SeededLayer)
  /\ Goto(w, "list")
  /\ UNCHANGED <<tables, call, session, served>>

EnsureMisses(w) ==
  /\ At(w, "ensure")
  /\ ~Starred(call[w].user, SeededLayer)
  /\ Goto(w, "position")
  /\ UNCHANGED <<tables, call, session, served>>

(* add_favourite of the service: the cap *)
CountFull(w) ==
  /\ At(w, "count")
  /\ Full(call[w].user)
  /\ Answer(w, "full")
  /\ UNCHANGED <<tables, call, session, served>>

CountFree(w) ==
  /\ At(w, "count")
  /\ ~Full(call[w].user)
  /\ Goto(w, "position")
  /\ UNCHANGED <<tables, call, session, served>>

(* next_sort_order: a favourite goes to the top of the top level *)
ReadPosition(w) ==
  /\ At(w, "position")
  /\ \E p \in top_sort_order(call[w].user, Top) :
       place' = [place EXCEPT ![w] = p]
  /\ Goto(w, "insert")
  /\ UNCHANGED <<tables, call, seen, seenFolder, dirty, served>>

(* uq_user_favourite_layers_identity *)
Duplicate(w) == Starred(call[w].user, call[w].layer)

(* The insert in its savepoint, and the commit *)
Insert(w) ==
  /\ At(w, "insert")
  /\ ~Duplicate(w)
  /\ favourites' = Appended(favourites, nextFavourite,
                            [user |-> call[w].user, layer |-> call[w].layer,
                             folder |-> Top, sort |-> place[w]])
  /\ nextFavourite' = nextFavourite + 1
  /\ IF call[w].op = "list" THEN Goto(w, "list") ELSE Answer(w, "created")
  /\ UNCHANGED <<folders, nextFolder, call, session, served>>

(* The row is refused: IntegrityError *)
InsertConflicts(w) ==
  /\ At(w, "insert")
  /\ Duplicate(w)
  /\ Goto(w, "refind")
  /\ UNCHANGED <<tables, call, session, served>>

FindAgain(w) ==
  /\ At(w, "refind")
  /\ IF ~Starred(call[w].user, call[w].layer) THEN Answer(w, "error")
     ELSE IF call[w].op = "list" THEN Goto(w, "list")
     ELSE Answer(w, "ok")
  /\ UNCHANGED <<tables, call, session, served>>

(* find_by_user, the body of the response *)
List(w) ==
  /\ At(w, "list")
  /\ Answer(w, "ok")
  /\ UNCHANGED <<tables, call, session, served>>

-----------------------------------------------------------------------------
(* DELETE /users/me/favourites/<id> *)

FindToRemove(w) ==
  /\ At(w, "find")
  /\ IF call[w].row \notin OwnedBy(call[w].user) THEN Answer(w, "ok")
     ELSE IF restricted(call[w].row) THEN Answer(w, "bad")
     ELSE Goto(w, "delete")
  /\ UNCHANGED <<tables, call, session, served>>

Delete(w) ==
  /\ At(w, "delete")
  /\ favourites' = [i \in DOMAIN favourites \ {call[w].row} |-> favourites[i]]
  /\ Answer(w, "ok")
  /\ UNCHANGED <<folders, nextFavourite, nextFolder, call, session, served>>

-----------------------------------------------------------------------------
(* PATCH /users/me/favourites/<id> and PUT /users/me/favourites/order *)

(* _own_folder *)
CheckFolder(w) ==
  /\ At(w, "own")
  /\ IF call[w].folder # Top /\ ~OwnFolder(call[w].user, call[w].folder)
     THEN Answer(w, "bad")
     ELSE Goto(w, IF call[w].op = "move" THEN "load" ELSE "check")
  /\ UNCHANGED <<tables, call, session, served>>

LoadToMove(w) ==
  /\ At(w, "load")
  /\ IF call[w].row \in OwnedBy(call[w].user)
     THEN /\ seen' = [seen EXCEPT ![w] = Loaded({call[w].row})]
          /\ Goto(w, "target")
     ELSE /\ Answer(w, "missing")
          /\ UNCHANGED seen
  /\ UNCHANGED <<tables, call, seenFolder, dirty, place, served>>

(* move_to_folder: the position is read before the folder is assigned *)
AssignMove(w) ==
  /\ At(w, "target")
  /\ \E p \in top_sort_order(call[w].user, call[w].folder) :
       dirty' = [dirty EXCEPT ![w] =
                   [i \in {call[w].row} |->
                      [folder |-> call[w].folder, sort |-> p]]]
  /\ Goto(w, "flush")
  /\ UNCHANGED <<tables, call, seen, seenFolder, place, served>>

(* reorder_favourites: the ids must be exactly the container's *)
CheckOrder(w) ==
  /\ At(w, "check")
  /\ LET order == call[w].order
     IN IF /\ Listed(order) = Container(call[w].user, call[w].folder)
           /\ Len(order) = Cardinality(Container(call[w].user, call[w].folder))
        THEN Goto(w, "reload")
        ELSE Answer(w, "bad")
  /\ UNCHANGED <<tables, call, session, served>>

(* How far the loop of reorder_in_folder gets over the rows it has read: an *)
(* id that is no longer among them is a KeyError, after the ids before it   *)
(* have been assigned their positions.                                      *)
Reached(order, rows) ==
  {k \in DOMAIN order : \A m \in 1..k : order[m] \in rows}

(* reorder_in_folder: a second read of the container, and the loop *)
AssignOrder(w) ==
  /\ At(w, "reload")
  /\ LET order == call[w].order
         rows  == Container(call[w].user, call[w].folder)
         done  == Reached(order, rows)
     IN /\ seen' = [seen EXCEPT ![w] = Loaded(rows)]
        /\ dirty' = [dirty EXCEPT ![w] =
                       [i \in {order[k] : k \in done} |->
                          [folder |-> favourites[i].folder,
                           sort |-> CHOOSE k \in done : order[k] = i]]]
        /\ IF done = DOMAIN order THEN Goto(w, "flush") ELSE Answer(w, "error")
  /\ UNCHANGED <<tables, call, seenFolder, place, served>>

-----------------------------------------------------------------------------
(* Flush and commit of the favourites a request has changed *)

Changed(w) == {i \in DOMAIN dirty[w] : dirty[w][i] # seen[w][i]}

RefiledAlways(w) == Changed(w)                               \* a mutant

Refiled(w) == {i \in Changed(w) : dirty[w][i].folder # seen[w][i].folder}

(* A row that is gone is a StaleDataError, a folder that is gone breaks the *)
(* foreign key.                                                             *)
Flushable(w) ==
  /\ Changed(w) \subseteq DOMAIN favourites
  /\ \A i \in Refiled(w) : dirty[w][i].folder \in DOMAIN folders \cup {Top}

Flushed(w) ==
  [i \in DOMAIN favourites |->
     IF i \notin Changed(w) THEN favourites[i]
     ELSE [favourites[i] EXCEPT
             !.folder = IF i \in Refiled(w) THEN dirty[w][i].folder ELSE @,
             !.sort = IF dirty[w][i].sort # seen[w][i].sort
                      THEN dirty[w][i].sort ELSE @]]

Discard(w) == dirty' = [dirty EXCEPT ![w] = Empty]

Flush(w) ==
  /\ At(w, "flush")
  /\ Flushable(w)
  /\ favourites' = Flushed(w)
  /\ Discard(w)
  /\ IF call[w].op = "deleteFolder" THEN Goto(w, "folderDelete")
     ELSE Answer(w, "ok")
  /\ UNCHANGED <<folders, nextFavourite, nextFolder, call, seen, seenFolder,
                 place, served>>

(* The session is rolled back, and the client is told 500 *)
FlushFails(w) ==
  /\ At(w, "flush")
  /\ ~Flushable(w)
  /\ Discard(w)
  /\ Answer(w, "error")
  /\ UNCHANGED <<tables, call, seen, seenFolder, place, served>>

-----------------------------------------------------------------------------
(* The folders *)

CountFolders(w) ==
  /\ At(w, "folderCount")
  /\ IF Cardinality(FoldersOf(call[w].user)) >= MaxFavouriteFolders
     THEN Answer(w, "full")
     ELSE Goto(w, "folderPosition")
  /\ UNCHANGED <<tables, call, session, served>>

ReadFolderPosition(w) ==
  /\ At(w, "folderPosition")
  /\ \E p \in Above({folders[f].sort : f \in FoldersOf(call[w].user)}) :
       place' = [place EXCEPT ![w] = p]
  /\ Goto(w, "folderInsert")
  /\ UNCHANGED <<tables, call, seen, seenFolder, dirty, served>>

InsertFolder(w) ==
  /\ At(w, "folderInsert")
  /\ folders' = Appended(folders, nextFolder,
                         [user |-> call[w].user, name |-> call[w].name,
                          is_collapsed |-> FALSE, sort |-> place[w]])
  /\ nextFolder' = nextFolder + 1
  /\ Answer(w, "created")
  /\ UNCHANGED <<favourites, nextFavourite, call, session, served>>

LoadFolder(w) ==
  /\ At(w, "folderLoad")
  /\ IF OwnFolder(call[w].user, call[w].folder)
     THEN /\ seenFolder' = [seenFolder EXCEPT ![w] =
                              [name |-> folders[call[w].folder].name,
                               is_collapsed |->
                                 folders[call[w].folder].is_collapsed]]
          /\ Goto(w, "folderFlush")
     ELSE /\ Answer(w, "missing")
          /\ UNCHANGED seenFolder
  /\ UNCHANGED <<tables, call, seen, dirty, place, served>>

(* Only a key the client sent is assigned, and only a column whose value    *)
(* then differs from the loaded one is written.                             *)
RewritesUnsent(w, key) ==                                    \* a mutant
  call[w][key] # seenFolder[w][key]

Rewrites(w, key) == key \in call[w].sent /\ call[w][key] # seenFolder[w][key]

Patched(w, folder) ==
  [folder EXCEPT !.name = IF Rewrites(w, "name") THEN call[w].name
                          ELSE folder.name,
                 !.is_collapsed = IF Rewrites(w, "is_collapsed")
                                  THEN call[w].is_collapsed
                                  ELSE folder.is_collapsed]

FlushFolder(w) ==
  /\ At(w, "folderFlush")
  /\ LET f == call[w].folder
     IN \/ /\ f \in DOMAIN folders
           /\ folders' = [folders EXCEPT ![f] = Patched(w, folders[f])]
           /\ Answer(w, "ok")
        \/ /\ f \notin DOMAIN folders
           /\ Answer(w, "error")
           /\ UNCHANGED folders
  /\ UNCHANGED <<favourites, nextFavourite, nextFolder, call, session, served>>

(* delete_folder *)
FindToUngroup(w) ==
  /\ At(w, "ungroupFind")
  /\ IF OwnFolder(call[w].user, call[w].folder) THEN Goto(w, "ungroupRows")
     ELSE Answer(w, "ok")
  /\ UNCHANGED <<tables, call, session, served>>

(* empty_folder: nothing to move, or the rows to move are loaded *)
LoadToUngroup(w) ==
  /\ At(w, "ungroupRows")
  /\ seen' = [seen EXCEPT ![w] =
                Loaded(Container(call[w].user, call[w].folder))]
  /\ Goto(w, IF Container(call[w].user, call[w].folder) = {}
             THEN "folderDelete" ELSE "bottom")
  /\ UNCHANGED <<tables, call, seenFolder, dirty, place, served>>

(* The rows to ungroup that come before this one *)
NoneAhead(w, i) == {}                                        \* a mutant

Ahead(w, i) == {j \in DOMAIN seen[w] : Precedes(j, seen[w][j], i, seen[w][i])}

(* They keep their order and land below what is at the top level *)
AssignUngroup(w) ==
  /\ At(w, "bottom")
  /\ \E p \in bottom_sort_order(call[w].user, Top) :
       dirty' = [dirty EXCEPT ![w] =
                   [i \in DOMAIN seen[w] |->
                      [folder |-> Top,
                       sort |-> p + Cardinality(Ahead(w, i))]]]
  /\ Goto(w, "flush")
  /\ UNCHANGED <<tables, call, seen, seenFolder, place, served>>

(* ON DELETE SET NULL *)
Unfiled(f) ==
  [i \in DOMAIN favourites |->
     IF favourites[i].folder = f THEN [favourites[i] EXCEPT !.folder = Top]
     ELSE favourites[i]]

(* folder.delete(), its own commit.  ON DELETE SET NULL takes out whatever  *)
(* is still filed in the folder.  Once empty_folder has committed, the      *)
(* folder is expired in the session: gone, it cannot be loaded again.       *)
DeleteFolder(w) ==
  /\ At(w, "folderDelete")
  /\ LET f == call[w].folder
     IN \/ /\ f \in DOMAIN folders
           /\ folders' = [g \in DOMAIN folders \ {f} |-> folders[g]]
           /\ favourites' = Unfiled(f)
           /\ Answer(w, "ok")
        \/ /\ f \notin DOMAIN folders
           /\ Answer(w, IF DOMAIN seen[w] = {} THEN "ok" ELSE "error")
           /\ UNCHANGED <<folders, favourites>>
  /\ UNCHANGED <<nextFavourite, nextFolder, call, session, served>>

-----------------------------------------------------------------------------
(* write_audit_event: the commit of the audit row flushes what the request  *)
(* left assigned; if that fails it is logged, swallowed and rolled back.    *)
(* The session then ends.                                                   *)
Audit(w) ==
  /\ At(w, "audit")
  /\ favourites' = IF Flushable(w) THEN Flushed(w) ELSE favourites
  /\ pc' = [pc EXCEPT ![w] = "idle"]
  /\ reply' = [reply EXCEPT ![w] = "none"]
  /\ seen' = [seen EXCEPT ![w] = Empty]
  /\ dirty' = [dirty EXCEPT ![w] = Empty]
  /\ seenFolder' = [seenFolder EXCEPT ![w] = NoFolder]
  /\ place' = [place EXCEPT ![w] = 0]
  /\ call' = [call EXCEPT ![w] = NoCall]
  /\ UNCHANGED <<folders, nextFavourite, nextFolder, served>>

-----------------------------------------------------------------------------
(* Specification *)

Init ==
  /\ \E db \in InitialTables :
       /\ favourites = db.favourites /\ nextFavourite = db.nextFavourite
       /\ folders = db.folders       /\ nextFolder = db.nextFolder
  /\ pc = [w \in Workers |-> "idle"]
  /\ call = [w \in Workers |-> NoCall]
  /\ seen = [w \in Workers |-> Empty]
  /\ seenFolder = [w \in Workers |-> NoFolder]
  /\ dirty = [w \in Workers |-> Empty]
  /\ place = [w \in Workers |-> 0]
  /\ reply = [w \in Workers |-> "none"]
  /\ served = 0

Step(w) ==
  \/ Receive(w)
  \/ EnsureFinds(w) \/ EnsureMisses(w) \/ List(w)
  \/ CountFull(w) \/ CountFree(w)
  \/ ReadPosition(w) \/ Insert(w) \/ InsertConflicts(w) \/ FindAgain(w)
  \/ FindToRemove(w) \/ Delete(w)
  \/ CheckFolder(w) \/ LoadToMove(w) \/ AssignMove(w)
  \/ CheckOrder(w) \/ AssignOrder(w)
  \/ Flush(w) \/ FlushFails(w)
  \/ CountFolders(w) \/ ReadFolderPosition(w) \/ InsertFolder(w)
  \/ LoadFolder(w) \/ FlushFolder(w)
  \/ FindToUngroup(w) \/ LoadToUngroup(w) \/ AssignUngroup(w)
  \/ DeleteFolder(w)
  \/ Audit(w)

Next == \E w \in Workers : Step(w)

Spec == Init /\ [][Next]_vars

-----------------------------------------------------------------------------
(* Properties *)

TablesOK ==
  /\ IsTable(favourites, Favourite) /\ IsTable(folders, Folder)
  /\ nextFavourite \in Nat \ {0}    /\ nextFolder \in Nat \ {0}
  /\ DOMAIN favourites \subseteq 1..(nextFavourite - 1)
  /\ DOMAIN folders \subseteq 1..(nextFolder - 1)

RequestsOK ==
  /\ pc \in [Workers -> Steps]
  /\ call \in [Workers -> Call]
  /\ reply \in [Workers -> Replies]
  /\ served \in 0..MaxRequests

SessionsOK ==
  /\ seen = [w \in Workers |-> seen[w]]
  /\ dirty = [w \in Workers |-> dirty[w]]
  /\ \A w \in Workers : /\ IsTable(seen[w], Filing)
                         /\ DOMAIN seen[w] \subseteq 1..(nextFavourite - 1)
                         /\ IsTable(dirty[w], Filing)
  /\ seenFolder \in [Workers -> FolderSeen]
  /\ place \in [Workers -> Int]

(* Every variable has its type; the ids of the tables, and of what a        *)
(* session has loaded, have been handed out by their sequences.             *)
TypeOK == TablesOK /\ RequestsOK /\ SessionsOK

(* A favourite is filed in a folder that exists and is its owner's.  The    *)
(* database only knows that the folder exists; whose it is rests on         *)
(* _own_folder having been asked, several statements before the write.      *)
FiledInOwnFolder ==
  \A i \in DOMAIN favourites :
    LET row == favourites[i]
    IN row.folder # Top => /\ row.folder \in DOMAIN folders
                           /\ folders[row.folder].user = row.user

(* No layer is starred twice by one user, whatever tabs do at once, and     *)
(* however seeding and starring race.                                       *)
StarredOnce ==
  \A i, j \in DOMAIN favourites :
    /\ favourites[i].user = favourites[j].user
    /\ favourites[i].layer = favourites[j].layer
    => i = j

StarredBy(user) == {i \in DOMAIN favourites :
                      /\ favourites[i].user = user
                      /\ favourites[i].layer # SeededLayer}

(* The cap on favourites is checked by a count and enforced by nothing      *)
(* else, so tabs starring at once overrun it; by no more than one layer for *)
(* each other thread that can be between its count and its insert.          *)
CapOverrunBounded ==
  \A u \in Users : Cardinality(StarredBy(u))
                     <= MaxFavouriteLayers + Cardinality(Workers) - 1

(* A user has each layer once, and no more of them than the cap and the    *)
(* threads allow: the two tables the panel is drawn from never fill up with *)
(* what racing tabs add (add_reference, add_favourite).                    *)
StarsHold == StarredOnce /\ CapOverrunBounded

(* The panel a client is shown holds the seeded layer: once a list request  *)
(* has been answered the row is there, whoever else was seeding it or was   *)
(* trying to take it out.                                                   *)
ListedHasSeed ==
  \A w \in Workers : At(w, "audit") /\ call[w].op = "list"
                       => Starred(call[w].user, SeededLayer)

(* A layer stops being a favourite only when its owner asks for just that:  *)
(* no reorder, no move and no folder that goes away un-favourites it.       *)
OnlyRemovalUnstars ==
  [][\A i \in DOMAIN favourites :
       i \notin DOMAIN favourites' =>
         \E w \in Workers : /\ At(w, "delete")
                             /\ call[w].row = i
                             /\ call[w].user = favourites[i].user]_vars

(* While none of a user's own requests takes a step, nothing another user   *)
(* does changes the user's panel.                                           *)
PanelsAreSeparate ==
  [][\A u \in Users :
       (\A w \in Workers : call[w].user = u => pc'[w] = pc[w])
       => /\ \A i \in DOMAIN favourites : favourites[i].user = u =>
               i \in DOMAIN favourites' /\ favourites'[i] = favourites[i]
          /\ \A f \in DOMAIN folders : folders[f].user = u =>
               f \in DOMAIN folders' /\ folders'[f] = folders[f]]_vars

(* A folder's name changes only by a request that sent a name, and its      *)
(* collapsed flag only by one that sent the flag: a rename and a collapse   *)
(* from two tabs both survive.                                              *)
PatchesDoNotClobber ==
  [][\A f \in DOMAIN folders \cap DOMAIN folders' :
       \A key \in {"name", "is_collapsed"} :
         folders'[f][key] # folders[f][key] =>
           \E w \in Workers : /\ At(w, "folderFlush")
                               /\ call[w].folder = f
                               /\ key \in call[w].sent]_vars

(* reorder_favourites: "a reorder cannot quietly move a layer between       *)
(* folders; that is a move."  No step of a reorder changes where a layer is *)
(* filed, also when another tab files it elsewhere while the reorder holds  *)
(* the row it loaded before.                                                *)
ReorderNeverRefiles ==
  [][\A i \in DOMAIN favourites \cap DOMAIN favourites' :
       favourites'[i].folder # favourites[i].folder =>
         \E w \in Workers : /\ pc'[w] # pc[w]
                             /\ call[w].op \in {"move", "deleteFolder"}]_vars

(* A layer leaves the panel, or its folder, only by a request for just that, *)
(* whatever rows other requests still hold (delete, move_to_folder,         *)
(* empty_folder, reorder_in_folder).                                        *)
OnlyAskedMoves == OnlyRemovalUnstars /\ ReorderNeverRefiles

(* test_put_order_rejects_a_stale_list: "A favourite removed in another tab *)
(* is a 400, not a silent misorder."  A reorder that is answered with an    *)
(* error leaves every favourite where it was.                               *)
FailedReorderMovesNothing ==
  [][\A w \in Workers :
       /\ At(w, "audit") /\ pc'[w] = "idle"
       /\ call[w].op = "reorder" /\ reply[w] \in Refusals \cup {"error"}
       => favourites' = favourites]_vars

(* PUT /order: "Put one container's favourites in the order given [...] The *)
(* result does not depend on what the client sent before."  Once a reorder  *)
(* is written, the ids it sent that are still in the container are in the   *)
(* order it sent them.                                                      *)
ReorderedAsSent ==
  [][\A w \in Workers :
       /\ At(w, "flush") /\ call[w].op = "reorder" /\ reply'[w] = "ok"
       => LET order == call[w].order
              here  == Container(call[w].user, call[w].folder)'
          IN \A k, m \in DOMAIN order :
               k < m /\ {order[k], order[m]} \subseteq here =>
                 Precedes(order[k], favourites'[order[k]],
                          order[m], favourites'[order[m]])]_vars

(* delete_folder: "The layers inside are ungrouped first rather than left   *)
(* to the database's SET NULL, so they come out at the top level with       *)
(* positions of their own."                                                 *)
FolderEmptiedFirst ==
  [][\A f \in DOMAIN folders \ DOMAIN folders' :
       \A i \in DOMAIN favourites : favourites[i].folder # f]_vars

=============================================================================

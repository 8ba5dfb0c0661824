------------------------ MODULE FavouritesInvariant ------------------------
(***************************************************************************)
(* The inductive invariant behind the theorems about Favourites: what a    *)
(* request that is under way knows of the tables, and goes on knowing      *)
(* whatever the other requests commit in the meantime.                     *)
(***************************************************************************)
EXTENDS Favourites

(* The steps each operation goes through. *)
StepsOf ==
  [none         |-> {"idle"},
   list         |-> {"ensure", "position", "insert", "refind", "list", "audit"},
   add          |-> {"count", "position", "insert", "refind", "audit"},
   remove       |-> {"find", "delete", "audit"},
   move         |-> {"own", "load", "target", "flush", "audit"},
   reorder      |-> {"own", "check", "reload", "flush", "audit"},
   createFolder |-> {"folderCount", "folderPosition", "folderInsert", "audit"},
   updateFolder |-> {"folderLoad", "folderFlush", "audit"},
   deleteFolder |-> {"ungroupFind", "ungroupRows", "bottom", "flush",
                     "folderDelete", "audit"}]

OnItsWay(w) == pc[w] \in StepsOf[call[w].op]

(* Only a star names a layer of the catalogue. *)
SeedsOrStars(w) == call[w].op # "add" => call[w].layer = SeededLayer

(* The folder of the request was its user's when it was looked up; it may   *)
(* be gone by now, but it cannot have become somebody else's.               *)
Vouched(w) ==
  call[w].folder # Top =>
    /\ call[w].folder \in 1..(nextFolder - 1)
    /\ call[w].folder \in DOMAIN folders =>
         folders[call[w].folder].user = call[w].user

FolderChecked(w) ==
  \/ pc[w] \in {"load", "target", "folderFlush",
                "ungroupRows", "bottom", "folderDelete"}
  \/ pc[w] = "flush" /\ call[w].op = "deleteFolder"
  => Vouched(w)

(* What a request has loaded is its user's. *)
LoadedOwn(w) ==
  /\ pc[w] = "idle" => DOMAIN seen[w] = {}
  /\ pc[w] = "target" => DOMAIN seen[w] = {call[w].row}
  /\ \A i \in DOMAIN seen[w] \cap DOMAIN favourites :
       favourites[i].user = call[w].user

(* What it has assigned it has loaded, and a folder it assigns is the one   *)
(* it was asked to file into, or the top level when it ungroups.            *)
AssignedLoaded(w) ==
  /\ DOMAIN dirty[w] \subseteq DOMAIN seen[w]
  /\ pc[w] \notin {"flush", "audit"} => DOMAIN dirty[w] = {}
  /\ \A i \in DOMAIN dirty[w] :
       dirty[w][i].folder # seen[w][i].folder =>
         \/ /\ dirty[w][i].folder = Top
            /\ call[w].op = "deleteFolder"
         \/ /\ dirty[w][i].folder = call[w].folder
            /\ call[w].op = "move" /\ Vouched(w)

(* A row about to be removed is its user's and is not the seeded one. *)
Removable(w) ==
  pc[w] = "delete" =>
    /\ call[w].row \in 1..(nextFavourite - 1)
    /\ call[w].row \in DOMAIN favourites =>
         /\ favourites[call[w].row].user = call[w].user
         /\ favourites[call[w].row].layer # SeededLayer

(* Once seeded, the panel of the user of a list request stays seeded. *)
Seeded(w) ==
  \/ pc[w] = "list"
  \/ call[w].op = "list" /\ pc[w] \in {"refind", "audit"}
  => Starred(call[w].user, SeededLayer)

SoundRequest(w) ==
  /\ OnItsWay(w) /\ SeedsOrStars(w) /\ FolderChecked(w) /\ LoadedOwn(w)
  /\ AssignedLoaded(w) /\ Removable(w) /\ Seeded(w)

(* The inductive invariant of the filing and of the seeding. *)
Sound == FiledInOwnFolder /\ \A w \in Workers : SoundRequest(w)

(* The requests that have passed the cap and not yet inserted. *)
PastCap(user) ==
  {w \in Workers : /\ call[w].op = "add" /\ call[w].user = user
                   /\ pc[w] \in {"position", "insert"}}

(* The inductive invariant of the cap: every such request may still add a   *)
(* row, and one that passes the cap saw a free place.                       *)
RoomForPastCap ==
  \A u \in Users :
    Cardinality(StarredBy(u)) + Cardinality(PastCap(u))
      <= MaxFavouriteLayers + Cardinality(Workers) - 1

(* A user waits for the answer to a request before calling the next one;    *)
(* different users do not wait for each other.                              *)
OneAtATime ==
  \A v, w \in Workers :
    /\ pc[v] # "idle" /\ pc[w] # "idle"
    /\ call[v].user = call[w].user
    => v = w

(* What a request knows of the tables when it is its user's only one: all   *)
(* it has read still holds.  The folder it looked up is there, ...          *)
FolderStands(w) ==
  \/ pc[w] \in {"ungroupRows", "bottom", "folderDelete"}
  \/ pc[w] = "flush" /\ call[w].op = "deleteFolder"
  \/ pc[w] \in {"load", "target", "check", "reload", "flush"} /\ call[w].folder # Top
  => OwnFolder(call[w].user, call[w].folder)

(* ... the position it read is still above its list, ...                    *)
PlaceStands(w) ==
  /\ pc[w] = "insert" => place[w] \in top_sort_order(call[w].user, Top)
  /\ pc[w] = "folderInsert" =>
       place[w] \in Above({folders[f].sort : f \in FoldersOf(call[w].user)})

(* ... the rows it loaded are those of the table, ...                       *)
RowsStand(w) ==
  LET c == call[w]
      here == Container(c.user, c.folder)
  IN /\ pc[w] \in {"delete", "target"} => c.row \in OwnedBy(c.user)
     /\ pc[w] = "flush" /\ c.op = "move" => c.row \in OwnedBy(c.user)
     /\ \/ pc[w] = "target"
        \/ pc[w] = "flush" /\ c.op = "move"
        => seen[w] = Loaded({c.row})
     /\ \/ pc[w] = "reload"
        \/ pc[w] = "flush" /\ c.op = "reorder"
        => Listed(c.order) = here /\ Len(c.order) = Cardinality(here)
     /\ \/ pc[w] = "bottom"
        \/ pc[w] = "flush" /\ c.op \in {"reorder", "deleteFolder"}
        => seen[w] = Loaded(here)
     /\ pc[w] = "folderDelete" => here = {}

(* ... and what it assigned them is right for the table it is written to.   *)
AssignedStands(w) ==
  LET c == call[w]
      rows == DOMAIN seen[w]
      rank == [i \in rows |-> CHOOSE k \in DOMAIN c.order : c.order[k] = i]
  IN /\ pc[w] # "flush" => DOMAIN dirty[w] = {}
     /\ pc[w] = "flush" /\ c.op = "move" =>
          \E p \in top_sort_order(c.user, c.folder) :
            dirty[w] = [i \in {c.row} |-> [folder |-> c.folder, sort |-> p]]
     /\ pc[w] = "flush" /\ c.op = "reorder" =>
          dirty[w] = [i \in rows |-> [folder |-> c.folder, sort |-> rank[i]]]
     /\ pc[w] = "flush" /\ c.op = "deleteFolder" =>
          \E p \in bottom_sort_order(c.user, Top) :
            dirty[w] = [i \in rows |->
                          [folder |-> Top, sort |-> p + Cardinality(Ahead(w, i))]]

(* The inductive invariant of users who call one request at a time.         *)
Undisturbed ==
  \A w \in Workers : /\ FolderStands(w) /\ PlaceStands(w)
                      /\ RowsStand(w) /\ AssignedStands(w)

=============================================================================

---------------------------- MODULE MCFavourites ----------------------------
(***************************************************************************)
(* Small instances of Favourites for TLC.                                  *)
(***************************************************************************)
EXTENDS FavouritesRefinement, FavouritesInvariant, TLC

CONSTANTS u1, u2, parks, wells, roads, pip

Row(user, layer, folder, sort) ==
  [user |-> user, layer |-> layer, folder |-> folder, sort |-> sort]

Shelf(user, sort) == [user |-> user, name |-> DefaultName,
                      is_collapsed |-> FALSE, sort |-> sort]

Db(rows, shelves) ==
  [favourites |-> rows, folders |-> shelves,
   nextFavourite |-> Len(rows) + 1, nextFolder |-> Len(shelves) + 1]

(* A user who has never opened the panel. *)
EmptyDb == Db(<<>>, <<>>)

(* Two layers starred, then one filed; and the seeded layer, given. *)
FiledDb == Db(<<Row(u1, parks, Top, 0), Row(u1, pip, 1, 1), Row(u1, wells, Top, 1)>>,
              <<Shelf(u1, 1)>>)

(* Two layers in a folder, of which the second starred leads. *)
FolderDb == Db(<<Row(u1, parks, 1, 1), Row(u1, pip, Top, 1), Row(u1, wells, 1, 0)>>,
               <<Shelf(u1, 1)>>)

(* Two users, each with a folder and a layer in it; one has been given the *)
(* seeded layer and has filed it too.                                      *)
TwoUsersDb == Db(<<Row(u1, parks, 1, 1), Row(u2, parks, 2, 1), Row(u1, pip, 1, 0)>>,
                 <<Shelf(u1, 1), Shelf(u2, 1)>>)

EmptyFiledFolder == {EmptyDb, FiledDb, FolderDb}
JustUsers == {TwoUsersDb}

(* The lists of two or three different ids out of the first three, and those *)
(* of the two that share a container.                                        *)
ShortOrders == {o \in (1..3) \X (1..3) : o[1] # o[2]}
FullOrders  == {o \in (1..3) \X (1..3) \X (1..3) : Cardinality(Listed(o)) = 3}
AllOrders   == ShortOrders \cup FullOrders
PairOrders  == {<<1, 3>>, <<3, 1>>}

OneUser  == {u1}
TwoUsers == {u1, u2}

WorkerSymmetry == Permutations(Workers)

=============================================================================

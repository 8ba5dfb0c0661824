------------------------ MODULE FavouritesRefinement ------------------------
(***************************************************************************)
(* The tables of Favourites read as the panel of FavouritesPanel: rows in  *)
(* sort order, ties on id.                                                 *)
(***************************************************************************)
EXTENDS Favourites

(* The ids of a set in ascending (position, id) order, as find_in_folder   *)
(* and find_by_user return them.                                           *)
InOrder(ids, table) ==
  LET before(i) == {j \in ids : Precedes(j, table[j], i, table[i])}
  IN [k \in 1..Cardinality(ids) |->
        CHOOSE i \in ids : Cardinality(before(i)) = k - 1]

LayersOf(ids, table) ==
  LET list == InOrder(ids, table) IN [k \in DOMAIN list |-> table[list[k]].layer]

PanelOf(user) ==
  [c \in {Top} \cup FoldersOf(user) |->
     LayersOf(Container(user, c), favourites)]

ShelfOf(user) == InOrder(FoldersOf(user), folders)

Panel == INSTANCE FavouritesPanel
           WITH panel <- [u \in Users |-> PanelOf(u)],
                shelf <- [u \in Users |-> ShelfOf(u)]

(* A user who calls one request at a time sees the panel the abstract      *)
(* specification describes: every request is one of its operations, or     *)
(* changes nothing.                                                        *)
ImplementsPanel == Panel!Spec

=============================================================================

--------------------------- MODULE FavouritesPanel ---------------------------
(***************************************************************************)
(* What the favourites panel promises a user, without tables, positions or *)
(* requests: an ordered list of layers at the top level and in each        *)
(* folder, and an ordered list of folders.  Every operation is one step.   *)
(***************************************************************************)
EXTENDS Integers, Sequences, SequencesExt

CONSTANTS Users, Catalogue, SeededLayer

VARIABLES
  panel,    \* by user, then by container, the layers listed in it
  shelf     \* by user, the folders as they are listed

Top == 0

Containers(u) == DOMAIN panel[u]

In(u, c, l) == \E k \in DOMAIN panel[u][c] : panel[u][c][k] = l

Shown(u, l) == \E c \in Containers(u) : In(u, c, l)

(* What is left of a list that has x once, if at all *)
Without(list, x) ==
  LET at == {k \in DOMAIN list : list[k] = x}
  IN IF at = {} THEN list ELSE RemoveAt(list, CHOOSE k \in at : TRUE)

(* A new favourite leads the top level: starred by the user, or given. *)
Star(u, l) ==
  /\ ~Shown(u, l)
  /\ panel' = [panel EXCEPT ![u][Top] = <<l>> \o @]
  /\ UNCHANGED shelf

Unstar(u, l) ==
  /\ Shown(u, l) /\ l # SeededLayer
  /\ panel' = [panel EXCEPT ![u] = [c \in DOMAIN @ |-> Without(@[c], l)]]
  /\ UNCHANGED shelf

(* It leaves the container it was in and leads the one it arrives in. *)
File(u, l, c) ==
  /\ Shown(u, l) /\ c \in Containers(u)
  /\ panel' = [panel EXCEPT ![u] =
                 [d \in DOMAIN @ |-> IF d = c THEN <<l>> \o Without(@[d], l)
                                     ELSE Without(@[d], l)]]
  /\ UNCHANGED shelf

Reorder(u, c) ==
  /\ c \in Containers(u)
  /\ LET n == Len(panel[u][c])
     IN \E turn \in [1..n -> 1..n] :
          /\ \A k, m \in 1..n : turn[k] = turn[m] => k = m
          /\ panel' = [panel EXCEPT ![u][c] = [k \in 1..n |-> @[turn[k]]]]
  /\ UNCHANGED shelf

NewFolder(u, f) ==
  /\ \A v \in Users : f \notin Containers(v)
  /\ panel' = [panel EXCEPT ![u] = [c \in DOMAIN @ \cup {f} |->
                                      IF c = f THEN <<>> ELSE @[c]]]
  /\ shelf' = [shelf EXCEPT ![u] = <<f>> \o @]

(* The layers of a folder follow those of the top level, in their order. *)
EmptyFolder(u, f) ==
  /\ f \in Containers(u) \ {Top}
  /\ panel' = [panel EXCEPT ![u] =
                 [c \in DOMAIN @ |-> IF c = Top THEN @[Top] \o @[f]
                                     ELSE IF c = f THEN <<>> ELSE @[c]]]
  /\ UNCHANGED shelf

(* Only an empty folder goes. *)
DropFolder(u, f) ==
  /\ f \in Containers(u) \ {Top} /\ panel[u][f] = <<>>
  /\ panel' = [panel EXCEPT ![u] = [c \in DOMAIN @ \ {f} |-> @[c]]]
  /\ shelf' = [shelf EXCEPT ![u] = Without(@, f)]

(* A panel shows every layer once and lists every folder once. *)
Proper(u) ==
  /\ Top \in Containers(u)
  /\ \A c, d \in Containers(u) :
       \A k \in DOMAIN panel[u][c], m \in DOMAIN panel[u][d] :
         panel[u][c][k] = panel[u][d][m] => c = d /\ k = m
  /\ \A k, m \in DOMAIN shelf[u] : shelf[u][k] = shelf[u][m] => k = m
  /\ {shelf[u][k] : k \in DOMAIN shelf[u]} = Containers(u) \ {Top}

Init == \A u \in Users : Proper(u)

Next ==
  \E u \in Users :
    \/ \E l \in Catalogue \cup {SeededLayer} : Star(u, l) \/ Unstar(u, l)
    \/ \E c \in Containers(u) :
         \/ \E l \in Catalogue \cup {SeededLayer} : File(u, l, c)
         \/ Reorder(u, c) \/ EmptyFolder(u, c) \/ DropFolder(u, c)
    \/ \E f \in DOMAIN panel'[u] \ Containers(u) : NewFolder(u, f)

Spec == Init /\ [][Next]_<<panel, shelf>>

=============================================================================

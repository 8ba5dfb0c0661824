------------------------- MODULE MCImportedLayers -------------------------
(* ImportedLayers with one layer stored and a file for every way to fail *)
EXTENDS ImportedLayers

CONSTANTS roads, wells, u1, k1

MCNameOf == [k \in Kept |-> roads]

Good  == [ext |-> "geojson", size |-> 1, reads |-> TRUE, prj |-> FALSE,
          drawn |-> 1, bare |-> 0, inBc |-> TRUE]
Bare  == [Good EXCEPT !.drawn = 0, !.bare = 1]
Away  == [Good EXCEPT !.ext = "kml", !.inBc = FALSE]
NoPrj == [Good EXCEPT !.ext = "zip"]
Large == [Good EXCEPT !.size = MaxSize + 1]

MCFiles == {Good, Bare, Away, NoPrj, Large}

=============================================================================

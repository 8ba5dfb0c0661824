---------------------------- MODULE MCLayerIngest ----------------------------
(* LayerIngest on the two layers the application hosts, a few features each *)
EXTENDS LayerIngest

CONSTANTS cron, hand, k1, k2, k3, fine, moved, coarse

MCVertices == [s \in {fine, moved, coarse} |-> IF s = coarse THEN 1 ELSE 3]

F(k, s) == [key |-> k, shape |-> s]

(* The consultation areas: one source layer, a delivered .lyrx, a flattened *)
(* join whose rows are folded by key.                                       *)
PipContent ==
  [e \in Extracts |->
     <<CASE e = "two" -> {F(k1, fine), F(k2, fine)}
         [] e = "redrawn" -> {F(k1, moved), F(k2, fine)}
         [] e = "centroids" -> {F(k1, coarse), F(k2, coarse)}
         [] e = "unclear" -> {F(k1, fine), F(k1, moved)}>>]

PipClasses == [s \in Styles |->
                 IF s = "lyrx" THEN {k1} ELSE IF s = "other" THEN {k3} ELSE {}]

(* EAO's project data: several feature classes, a style of our own, and a   *)
(* record of what each load changed.                                        *)
EaoContent ==
  [e \in Extracts |->
     CASE e = "first" -> <<{F(k1, fine)}, {F(k2, fine)}>>
       [] e = "edited" -> <<{F(k1, moved)}, {F(k3, fine)}>>
       [] e = "torn" -> <<{F(k1, fine)}, {}>>]

EaoClasses == [s \in Styles |-> {}]

Flag(force, shrink, dry) ==
  [force |-> force, allow_shrink |-> shrink, dry_run |-> dry]

Shrinking   == {Flag(FALSE, TRUE, FALSE)}
ForcedOrDry == {Flag(TRUE, FALSE, FALSE), Flag(FALSE, FALSE, TRUE)}

Offer(e, s) == {[extract |-> e, style |-> s]}

PipOffers == Offer("two", "lyrx")
EaoOffers == Offer("first", "v1")

Busy == Steps \ {"idle"}

Kills  == {"crash"} \X Busy
Errors == {"error"} \X Busy

KillsAndErrors == Kills \cup Errors
(* Not between a commit and the record of it *)
RecordedFaults == {f \in KillsAndErrors : f[2] # "record"}
(* And a connection that drops while ogr2ogr stages without it *)
AllFaults ==
  KillsAndErrors \cup ({"disconnect"} \X {"stage"})

=============================================================================

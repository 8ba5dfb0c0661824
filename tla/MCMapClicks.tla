---------------------------- MODULE MCMapClicks -----------------------------
(* MapClicks with a warehouse layer and a hosted one *)
EXTENDS MapClicks

CONSTANTS w, h

MCOrder == <<h, w>>

=============================================================================

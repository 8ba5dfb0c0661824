----------------------------- MODULE MCMapView ------------------------------
(* MapView with two projects *)
EXTENDS MapView

CONSTANTS p, q

MCFloors == {MIN_ZOOM, 10}

=============================================================================

-------------------------- MODULE MCAppliedLayers --------------------------
(* AppliedLayers with one layer switched on before the widget is opened *)
EXTENDS AppliedLayers

CONSTANTS wells, parks, areas

MCStored == <<wells>>

=============================================================================

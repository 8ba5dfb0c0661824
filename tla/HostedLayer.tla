----------------------------- MODULE HostedLayer -----------------------------
(***************************************************************************)
(* What the ingest of a hosted layer promises whoever looks at the map,    *)
(* without jobs, staging or locks: the rows served are always one whole    *)
(* delivery, replaced together with the style that draws them, and never   *)
(* by a delivery that lost too much of what is served unless a person who  *)
(* passed --allow-shrink is doing the load.                                *)
(***************************************************************************)
CONSTANTS
  Extracts,            \* the extracts that may be delivered
  Styles,              \* the styles that may be delivered or built
  RowsOf(_),           \* the rows an extract becomes
  Acceptable(_, _),    \* whether an extract and a style may be served at all
  Shrunk(_, _)         \* whether rows lost too much against the rows served

VARIABLES
  rows,     \* the rows served
  style,    \* the style served
  waived    \* whether the loss of rows is waived

Load(e, s) ==
  /\ Acceptable(e, s)
  /\ rows # {} /\ ~waived => ~Shrunk(RowsOf(e), rows)
  /\ rows' = RowsOf(e)
  /\ style' = s

(* The cache schema is rebuilt: nothing is served. *)
Empty == /\ rows' = {}
         /\ UNCHANGED style

Init == rows = {}

Next == (\E e \in Extracts, s \in Styles : Load(e, s)) \/ Empty

Spec == Init /\ [][Next]_<<rows, style>>

=============================================================================

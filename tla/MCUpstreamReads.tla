--------------------------- MODULE MCUpstreamReads ---------------------------
(***************************************************************************)
(* A small instance of UpstreamReads for TLC.                              *)
(***************************************************************************)
EXTENDS UpstreamReads

(* Two reads of Track share the token, and the works of a project need its *)
(* list; the filters and a search have nothing else in common with them.   *)
Together == {{"projects", "works"}, {"options"}, {"search"}}

=============================================================================

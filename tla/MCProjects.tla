----------------------------- MODULE MCProjects -----------------------------
(* Two projects; a list that loses one of them and gives the other a type  *)
(* no menu offers; a menu that loses a type; a listing whose second row    *)
(* loses a feature to another label, and a project with one component.     *)
(* Three queries: one names both projects, the others none; the first      *)
(* places of two of them share a name, their second places do not, and the *)
(* third finds nothing.                                                    *)
EXTENDS MapSearch

Project(type, region, certificate, inProgress) ==
  [typeId |-> type, regionId |-> region,
   certificateIssued |-> certificate, inProgressWorks |-> inProgress]

MCLists ==
  {[p \in {"p1", "p2"} |-> IF p = "p1" THEN Project("mine", "north", TRUE, FALSE)
                           ELSE Project("dam", NoValue, FALSE, TRUE)],
   [p \in {"p1"} |-> Project("retired", "north", FALSE, TRUE)]}

MCMenus == {[typeId |-> {"mine", "dam"}, regionId |-> {"north"}],
            [typeId |-> {"mine"}, regionId |-> {"north"}]}

Component(id, type, label, comment, footprint, sensitive) ==
  [id |-> id, type |-> type, category |-> "Application", subcategory |-> "none",
   number |-> 0, label |-> label, comment |-> comment,
   footprint |-> footprint, sensitive |-> sensitive]

Boundary == Component("f1", "Project component", 2, 0, TRUE, FALSE)
Road     == Component("f2", "Project component", 1, 0, FALSE, FALSE)
Nest     == Component("f3", "Project component", 1, 0, FALSE, TRUE)

MCListings ==
  [p \in Ids |-> IF p = "p1"
     THEN {<<Nest, Boundary, Road, Component("f4", "Value component", 1, 0, FALSE, FALSE)>>,
           <<Boundary, [Road EXCEPT !.comment = 1], Nest>>}
     ELSE {<<Component("g1", "Value component", 1, 1, FALSE, FALSE)>>}]

MCNamed == [q \in Queries |-> IF q = "q1" THEN <<"p2", "p1">> ELSE <<>>]

Place(name, at) == [name |-> name, at |-> at]

MCFound ==
  [q \in Queries |->
     IF q = "q1" THEN <<Place("river", "north"), Place("creek", "north")>>
     ELSE IF q = "q2" THEN <<Place("river", "south"), Place("lake", "south")>>
     ELSE <<>>]
=============================================================================

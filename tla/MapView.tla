------------------------------ MODULE MapView -------------------------------
(***************************************************************************)
(* What the widget does to the map.  React decides what should be drawn;   *)
(* an effect hands the map one work a change.  A work waits for the style: *)
(* it runs at once when the style is loaded, otherwise at the map's next   *)
(* "styledata" or "idle", and the two ways do not keep one order.          *)
(*                                                                         *)
(* One catalogue layer (its raster and its outline), the two layers        *)
(* map-api hosts (PIP, switched on in the panel; EAO, which follows the    *)
(* filter bar), one imported layer, the highlights, and the dots.  A layer *)
(* drawn by several style layers that are added and removed together is    *)
(* one here.                                                               *)
(***************************************************************************)
EXTENDS Integers, FiniteSets, Sequences, SequencesExt

CONSTANTS
  Projects,       \* the dots
  Open,           \* the project whose panel is open
  Floors,         \* zooms the warehouse may publish for the catalogue layer
  None,           \* no zoom published yet; nothing marked
  MaxActs,        \* bound: changes of what should be drawn
  MaxMoves        \* bound: camera moves and switches of the basemap

MIN_ZOOM      == 3
WMS_MIN_ZOOM  == 8
PipFloor      == 6
Zooms         == MIN_ZOOM..12

ASSUME ViewAssumption ==
  /\ Open \in Projects /\ {MaxActs, MaxMoves} \subseteq Nat
  /\ Floors \subseteq Zooms /\ None \notin Zooms

Pip == <<"hit", "line">>             \* an outline layer: a click needs a fill under it
Eao == <<"footprint", "component">>
Widget == {"raster", "outline", "imported", "marked", "picked", "selected", "dots"}
             \cup ToSet(Pip) \cup ToSet(Eao)
Features == Projects \X ToSet(Eao)

VARIABLES
  want,           \* what the panel, the filter bar and the popup say
  map,            \* the map, and the works that wait for it
  swapping,       \* a basemap's style is being fetched
  acts, moves

viewVars == <<want, map, swapping, acts, moves>>

\* The basemap's trailing block of place names, where it has one.
LabelBlock == "labels"

Absent == [visible |-> FALSE, paint |-> 0, from |-> 0, of |-> {}]

-----------------------------------------------------------------------------
(* Layers of a map m: its stack, bottom first, and the look of each.       *)

On(m, l) == Contains(m.stack, l)
Position(m, l) == CHOOSE i \in DOMAIN m.stack : m.stack[i] = l
Unstacked(m, l) == IF On(m, l) THEN RemoveAt(m.stack, Position(m, l)) ELSE m.stack

Put(m, l, look, before) ==
  [m EXCEPT !.look[l] = look,
            !.stack = IF On(m, before) THEN InsertAt(@, Position(m, before), l)
                      ELSE Append(@, l)]

Take(m, l) == [m EXCEPT !.look[l] = Absent, !.stack = Unstacked(m, l)]

\* The style that follows a change: "styledata" comes with the next frame, and
\* the tiles of what was added or filtered are parsed again.
Touched(m, n) ==
  LET reload == \E l \in Widget : \/ On(n, l) /\ ~On(m, l)
                                  \/ /\ l \notin {"raster", "outline"}
                                     /\ \/ n.look[l].visible # m.look[l].visible
                                        \/ n.look[l].of # m.look[l].of
  IN  [n EXCEPT !.changed = @ \/ n.stack # m.stack \/ n.look # m.look,
                !.ready   = @ /\ ~reload]

ShowWmsAsItWas(m, percent) ==                                \* a mutant
  IF On(m, "raster") THEN [m EXCEPT !.look["raster"].visible = TRUE]
  ELSE Put(m, "raster", [Absent EXCEPT !.visible = TRUE, !.paint = percent,
                                       !.from = WMS_MIN_ZOOM], "none")

ShowWms(m, percent) ==
  IF On(m, "raster")
  THEN [m EXCEPT !.look["raster"] = [@ EXCEPT !.visible = TRUE, !.paint = percent]]
  ELSE Put(m, "raster", [Absent EXCEPT !.visible = TRUE, !.paint = percent,
                                       !.from = WMS_MIN_ZOOM], "none")

ShowOutline(m) ==
  IF On(m, "outline") THEN [m EXCEPT !.look["outline"].visible = TRUE]
  ELSE Put(m, "outline", [Absent EXCEPT !.visible = TRUE, !.from = WMS_MIN_ZOOM], "none")

HideWms(m) ==
  IF On(m, "raster") THEN [m EXCEPT !.look["raster"].visible = FALSE] ELSE m

HideOutline(m) ==
  IF On(m, "outline") THEN [m EXCEPT !.look["outline"].visible = FALSE] ELSE m

SetOpacity(m, percent) ==
  IF On(m, "raster") THEN [m EXCEPT !.look["raster"].paint = percent] ELSE m

SetMinZoom(m, zoom) ==
  IF On(m, "raster") THEN [m EXCEPT !.look["raster"].from = zoom] ELSE m

\* Where the outline stops drawing.
SetMaxZoom(m, zoom) ==
  IF On(m, "outline") THEN [m EXCEPT !.look["outline"].from = zoom] ELSE m

\* Every layer of a hosted style, each hit target under its own outline, all
\* of them under the place names.
ShowLayer(m, l, floor) ==
  IF On(m, l) THEN [m EXCEPT !.look[l].visible = TRUE]
  ELSE Put(m, l, [Absent EXCEPT !.visible = TRUE, !.from = floor], LabelBlock)

ShowHosted(m, specs) ==
  LET floor == IF specs = Pip THEN PipFloor ELSE MIN_ZOOM
  IN  ShowLayer(ShowLayer(m, specs[1], floor), specs[2], floor)

HideHosted(m, specs) ==
  [m EXCEPT !.look = [l \in Widget |->
     IF l \in ToSet(specs) /\ On(m, l) THEN [m.look[l] EXCEPT !.visible = FALSE] ELSE m.look[l]]]

SetLineWidth(m, pixels) ==
  IF On(m, "line") THEN [m EXCEPT !.look["line"].paint = pixels] ELSE m

SetFilters(m, extra) ==
  [m EXCEPT !.look = [l \in Widget |->
     IF l \in ToSet(Eao) /\ On(m, l) THEN [m.look[l] EXCEPT !.of = extra[l]] ELSE m.look[l]]]

RemoveHighlight(m) == Take(m, "marked")

ShowHighlight(m, kind) ==
  Put(RemoveHighlight(m), "marked", [Absent EXCEPT !.visible = TRUE, !.of = {kind}], "none")

\* Features of a hosted layer, matched in its tiles: none before it has tiles.
DrawLocal(m, l, keys, tiles) ==
  IF On(m, tiles) THEN Put(m, l, [Absent EXCEPT !.visible = TRUE, !.of = keys], "none")
  ELSE m

ShowLocalHighlight(m) == DrawLocal(RemoveHighlight(m), "marked", {"local"}, "line")

RemoveComponentHighlight(m) == Take(m, "picked")

ShowComponentHighlight(m, keys) ==
  DrawLocal(RemoveComponentHighlight(m), "picked", keys, "component")

RemoveSelectionOutline(m) == Take(m, "selected")

ShowSelectionOnTop(m, keys) ==                               \* a mutant
  LET bare == RemoveSelectionOutline(m)
  IN  IF ~On(m, "component") THEN bare
      ELSE Put(bare, "selected", [Absent EXCEPT !.visible = TRUE, !.of = keys], "none")

ShowSelectionOutline(m, keys) ==
  LET bare == RemoveSelectionOutline(m)
  IN  IF ~On(m, "component") THEN bare
      ELSE Put(bare, "selected", [Absent EXCEPT !.visible = TRUE, !.of = keys], "picked")

\* Under the metadata highlight, where that has a shape.
ShowImported(m, percent) ==
  IF On(m, "imported") THEN m
  ELSE Put(m, "imported", [Absent EXCEPT !.visible = TRUE, !.paint = percent],
           IF m.look["marked"].of = {"shape"} THEN "marked" ELSE "none")

SetImportedVisibility(m, visible) ==
  IF On(m, "imported") THEN [m EXCEPT !.look["imported"].visible = visible] ELSE m

SetImportedOpacity(m, percent) ==
  IF On(m, "imported") THEN [m EXCEPT !.look["imported"].paint = percent] ELSE m

RemoveImported(m) == Take(m, "imported")

ShowProjects(m, shown) ==
  IF On(m, "dots") THEN [m EXCEPT !.look["dots"].of = shown]
  ELSE Put(m, "dots", [Absent EXCEPT !.visible = TRUE, !.of = shown], "none")

KeepProjectsOnTop(m) ==
  IF On(m, "dots") /\ Last(m.stack) # "dots"
  THEN [m EXCEPT !.stack = Append(Unstacked(m, "dots"), "dots"),
                 !.changed = TRUE]
  ELSE m

-----------------------------------------------------------------------------
(* Works, and when they run.                                               *)

\* What to do, to which layer, with what; and whether a parsed style will do.
Work(does, layer, to) == [does |-> does, layer |-> layer, to |-> to]
AtParsed == {"pick", "unpick", "select", "unselect"}

Worked(m, w) ==
  CASE w.does = "show"       -> ShowWms(m, w.to)
    [] w.does = "showline"   -> ShowOutline(m)
    [] w.does = "hide"       -> HideWms(m)
    [] w.does = "hideline"   -> HideOutline(m)
    [] w.does = "fade"       -> SetOpacity(m, w.to)
    [] w.does = "minzoom"    -> SetMinZoom(m, w.to)
    [] w.does = "maxzoom"    -> SetMaxZoom(m, w.to)
    [] w.does = "showHosted" -> ShowHosted(m, w.to)
    [] w.does = "hideHosted" -> HideHosted(m, w.to)
    [] w.does = "width"      -> SetLineWidth(m, w.to)
    [] w.does = "filter"     -> SetFilters(m, w.to)
    [] w.does = "mark"       -> IF w.to = "local" THEN ShowLocalHighlight(m)
                                ELSE ShowHighlight(m, w.to)
    [] w.does = "unmark"     -> RemoveHighlight(m)
    [] w.does = "pick"       -> ShowComponentHighlight(m, w.to)
    [] w.does = "unpick"     -> RemoveComponentHighlight(m)
    [] w.does = "select"     -> ShowSelectionOutline(m, w.to)
    [] w.does = "unselect"   -> RemoveSelectionOutline(m)
    [] w.does = "import"     -> ShowImported(m, w.to)
    [] w.does = "reveal"     -> SetImportedVisibility(m, w.to)
    [] w.does = "refade"     -> SetImportedOpacity(m, w.to)
    [] w.does = "remove"     -> RemoveImported(m)
    [] w.does = "dots"       -> ShowProjects(m, w.to)

The(S) == CHOOSE x \in S : TRUE

Run(m, w) == The({Touched(m, n) : n \in {Worked(m, w)}})

\* whenStyleReady, and whenStyleParsed for the highlight of a component and
\* the outlines of Select area.  A work that runs at once may overtake one on
\* the same layer that still waits.
Hand(m, w) ==
  IF m.ready \/ (m.parsed /\ w.does \in AtParsed)
  THEN Run([m EXCEPT !.overtaken = @ \/ \E i \in DOMAIN m.deferred :
                                           m.deferred[i].layer = w.layer], w)
  ELSE [m EXCEPT !.deferred = Append(@, w)]

\* One work after the other, each on the map the one before it left.
HandAll(m, works) ==
  LET after[i \in 0..Len(works)] ==
        IF i = 0 THEN m ELSE The({Hand(n, works[i]) : n \in {after[i - 1]}})
  IN  after[Len(works)]
RunAll(m, works) ==
  LET after[i \in 0..Len(works)] ==
        IF i = 0 THEN m ELSE The({Run(n, works[i]) : n \in {after[i - 1]}})
  IN  after[Len(works)]

RunDeferred(m) == RunAll([m EXCEPT !.deferred = <<>>], m.deferred)

-----------------------------------------------------------------------------
(* The effects: what a change from the wanted o to the wanted n hands over. *)

When(condition, works) == IF condition THEN works ELSE <<>>

PaintCatalogue(o, n) ==
     When(o.percent = 0 /\ n.percent # 0,
          <<Work("show", "wms", n.percent), Work("showline", "wms", 0)>>)
  \o When(o.percent # 0 /\ n.percent = 0,
          <<Work("hide", "wms", 0), Work("hideline", "wms", 0)>>)
  \o When(o.percent # 0 /\ n.percent # 0 /\ o.percent # n.percent,
          <<Work("fade", "wms", n.percent)>>)

GateCatalogue(o, n) ==
  When(n.percent # 0 /\ n.floor # None /\ <<o.percent, o.floor>> # <<n.percent, n.floor>>,
       <<Work("minzoom", "wms", n.floor), Work("maxzoom", "wms", n.floor)>>)

DrawPip(o, n) ==
     When(o.pip /\ ~n.pip, <<Work("hideHosted", "pip", Pip)>>)
  \o When(n.pip /\ n.pipStyle /\ <<o.pip, o.pipStyle, o.width>> # <<n.pip, n.pipStyle, n.width>>,
          <<Work("showHosted", "pip", Pip), Work("width", "pip", n.width)>>)

DrawEao(o, n) ==
  When(n.eaoStyle /\ ~o.eaoStyle, <<Work("showHosted", "eao", Eao)>>)

\* Footprints follow the dots, but for those the open panel switched off and
\* the selection does not hold; components are drawn where the panel reveals
\* them or the selection holds them, and their project is shown.
SpecFilters(n) ==
  [footprint |-> {f \in n.shown \X {"footprint"} : f \notin n.hidden \ n.chosen},
   component |-> {f \in n.shown \X {"component"} : f \in n.revealed \cup n.chosen}]

FilterEao(o, n) ==
  When(n.eaoStyle /\ <<o.eaoStyle, o.shown, o.hidden, o.revealed, o.chosen>>
                       # <<n.eaoStyle, n.shown, n.hidden, n.revealed, n.chosen>>,
       <<Work("filter", "eao", SpecFilters(n))>>)

\* An effect whose dependencies changed cleans up before any effect runs again.
Cleanups(o, n) ==
     When(o.eaoStyle /\ o.chosen # {} /\ o.chosen # n.chosen, <<Work("unselect", "eao", {})>>)
  \o When(o.eaoStyle /\ o.picked # {} /\ o.picked # n.picked, <<Work("unpick", "eao", {})>>)
  \o When(o.mark # "none" /\ o.mark # n.mark, <<Work("unmark", "mark", {})>>)

OutlineSelection(o, n) ==
  When(n.eaoStyle /\ n.chosen # {} /\ <<o.eaoStyle, o.chosen>> # <<n.eaoStyle, n.chosen>>,
       <<Work("select", "eao", n.chosen)>>)

HighlightComponent(o, n) ==
  When(n.eaoStyle /\ n.picked # {} /\ <<o.eaoStyle, o.picked>> # <<n.eaoStyle, n.picked>>,
       <<Work("pick", "eao", n.picked)>>)

HighlightMarked(o, n) ==
  When(n.mark # "none" /\ o.mark # n.mark, <<Work("mark", "mark", n.mark)>>)

DrawImported(o, n) ==
     When(o.imported # "gone" /\ o.imported # "new" /\ n.imported = "gone",
          <<Work("remove", "imported", 0)>>)
  \o When(o.imported = "new" /\ n.imported = "on",
          <<Work("import", "imported", n.fade)>>)
  \o When({o.imported, n.imported} = {"on", "off"},
          <<Work("reveal", "imported", n.imported = "on")>>)
  \o When(o.fade # n.fade /\ n.imported \in {"on", "off"},
          <<Work("refade", "imported", n.fade)>>)

DrawDots(o, n) ==
  When(n.loaded /\ <<o.loaded, o.shown>> # <<n.loaded, n.shown>>,
       <<Work("dots", "dots", n.shown)>>)

Effects(o, n) ==
  Cleanups(o, n) \o DrawPip(o, n) \o DrawEao(o, n) \o FilterEao(o, n)
    \o OutlineSelection(o, n) \o HighlightComponent(o, n) \o DrawImported(o, n)
    \o DrawDots(o, n) \o HighlightMarked(o, n) \o PaintCatalogue(o, n) \o GateCatalogue(o, n)

\* A popup's selection goes with the layer it is of.
Marked(n) ==
  IF \/ n.mark \in {"shape", "tiles"} /\ n.percent = 0
     \/ n.mark = "local" /\ ~n.pip
  THEN [n EXCEPT !.mark = "none"] ELSE n

Commit(n) ==
  /\ acts < MaxActs /\ acts' = acts + 1
  /\ want' = Marked(n)
  /\ map'  = HandAll(map, Effects(want, want'))
  /\ UNCHANGED <<swapping, moves>>

-----------------------------------------------------------------------------
(* What changes the wanted view.                                           *)

Start ==
  [percent |-> 0, floor |-> None, pip |-> FALSE, pipStyle |-> FALSE, width |-> 1,
   eaoStyle |-> FALSE, loaded |-> FALSE, shown |-> {}, hidden |-> {}, revealed |-> {},
   chosen |-> {}, picked |-> {}, mark |-> "none", imported |-> "new", fade |-> 2]

\* Every answer in before the map's style is.
Answered ==
  [Start EXCEPT !.pipStyle = TRUE, !.eaoStyle = TRUE, !.loaded = TRUE, !.shown = Projects]

Bare ==
  [stack |-> <<>>, look |-> [l \in Widget |-> Absent], parsed |-> FALSE, ready |-> FALSE,
   changed |-> FALSE, deferred |-> <<>>, overtaken |-> FALSE]

ViewInit ==
  /\ want \in {Start, Answered}
  /\ map = [Bare EXCEPT !.deferred = Effects(Start, want)]
  /\ swapping = FALSE /\ acts = 0 /\ moves = 0

Apply == want.percent = 0 /\ \E p \in {1, 2} : Commit([want EXCEPT !.percent = p])
Unapply == want.percent # 0 /\ Commit([want EXCEPT !.percent = 0])
Slide == want.percent # 0 /\ Commit([want EXCEPT !.percent = 3 - @])
Publish == want.floor = None /\ \E z \in Floors : Commit([want EXCEPT !.floor = z])

TogglePip == Commit([want EXCEPT !.pip = ~@])
PipStyle == want.pip /\ ~want.pipStyle /\ Commit([want EXCEPT !.pipStyle = TRUE])
Widen == want.pip /\ Commit([want EXCEPT !.width = 3 - @])

EaoStyle == ~want.eaoStyle /\ Commit([want EXCEPT !.eaoStyle = TRUE])
LoadProjects == ~want.loaded /\ Commit([want EXCEPT !.loaded = TRUE, !.shown = Projects])
Filter ==
  want.loaded /\ \E S \in (SUBSET Projects) \ {want.shown} : Commit([want EXCEPT !.shown = S])

\* The open project's panel shows or hides a feature, and picks one.
Reveal == \E f \in {<<Open, "component">>} :
  Commit([want EXCEPT !.revealed = SymDiff(@, {f})])
HideFootprint == \E f \in {<<Open, "footprint">>} :
  Commit([want EXCEPT !.hidden = SymDiff(@, {f})])
Pick == Commit([want EXCEPT !.picked = SymDiff(@, {<<Open, "component">>})])

\* Select area takes a feature that is drawn, and drops it.
Choose ==
  /\ map.parsed
  /\ \E f \in Features :
       /\ f \in map.look["footprint"].of \cup map.look["component"].of
       /\ want.chosen = {} /\ Commit([want EXCEPT !.chosen = {f}])
Unchoose == want.chosen # {} /\ Commit([want EXCEPT !.chosen = {}])

Mark ==
  \E k \in {"none", "shape", "tiles", "local"} :
    /\ k # want.mark /\ k # "local" => want.percent # 0
    /\ k = "local" => want.pip /\ On(map, "line")
    /\ Commit([want EXCEPT !.mark = k])

ShowMine == want.imported \in {"new", "off"} /\ Commit([want EXCEPT !.imported = "on"])
HideMine == want.imported = "on" /\ Commit([want EXCEPT !.imported = "off"])
DeleteMine == want.imported \in {"on", "off"} /\ Commit([want EXCEPT !.imported = "gone"])
FadeMine == want.imported \in {"on", "off"} /\ Commit([want EXCEPT !.fade = 3 - @])

\* The camera moves: the tiles in view are not all there.
Pan ==
  /\ map.ready /\ moves < MaxMoves /\ moves' = moves + 1
  /\ map' = [map EXCEPT !.ready = FALSE]
  /\ UNCHANGED <<want, swapping, acts>>

SwitchBasemap ==
  /\ map.parsed /\ ~swapping /\ moves < MaxMoves /\ moves' = moves + 1
  /\ swapping' = TRUE
  /\ UNCHANGED <<want, map, acts>>

-----------------------------------------------------------------------------
(* The map's own steps.                                                    *)

\* The first style is parsed: "styledata".
Load ==
  /\ ~map.parsed
  /\ map' = RunDeferred([map EXCEPT !.parsed = TRUE, !.stack = <<LabelBlock>>])
  /\ UNCHANGED <<want, swapping, acts, moves>>

\* A frame draws what changed: "styledata", the dots' listener first.
Frame ==
  /\ map.changed
  /\ map' = RunDeferred(KeepProjectsOnTop([map EXCEPT !.changed = FALSE]))
  /\ UNCHANGED <<want, swapping, acts, moves>>

TilesArrive ==
  /\ map.parsed /\ ~map.ready /\ ~map.changed
  /\ map' = [map EXCEPT !.ready = TRUE]
  /\ UNCHANGED <<want, swapping, acts, moves>>

IdleUnheard == FALSE /\ UNCHANGED viewVars                   \* a mutant

\* The camera is still and nothing is left to load.
BecomesIdle ==
  /\ map.ready /\ ~map.changed /\ map.deferred # <<>>
  /\ map' = RunDeferred(map)
  /\ UNCHANGED <<want, swapping, acts, moves>>

\* The other basemap's style is in: the widget's layers are carried over,
\* under its place names. The satellite basemap has none.
CarryVisibleLayers(m) ==                                     \* a mutant
  LET kept == SelectSeq(m.stack, LAMBDA l : l \in Widget /\ m.look[l].visible)
  IN  [m EXCEPT !.stack = IF On(m, LabelBlock) THEN kept ELSE Append(kept, LabelBlock),
                !.changed = TRUE, !.ready = FALSE]

CarryWidgetLayers(m) ==
  [m EXCEPT !.stack = IF On(m, LabelBlock) THEN Unstacked(m, LabelBlock)
                      ELSE Append(@, LabelBlock),
            !.changed = TRUE, !.ready = FALSE]

BasemapArrives ==
  /\ swapping /\ swapping' = FALSE
  /\ map' = CarryWidgetLayers(map)
  /\ UNCHANGED <<want, acts, moves>>

Panel == Apply \/ Unapply \/ Slide \/ Publish \/ TogglePip \/ PipStyle \/ Widen
Panels == Reveal \/ HideFootprint \/ Pick \/ Choose \/ Unchoose
Bar == EaoStyle \/ LoadProjects \/ Filter
Mine == ShowMine \/ HideMine \/ DeleteMine \/ FadeMine

ViewNext ==
  \/ Panel \/ Panels \/ Bar \/ Mine \/ Mark
  \/ Pan \/ SwitchBasemap
  \/ Load \/ Frame \/ TilesArrive \/ BecomesIdle \/ BasemapArrives

ViewSpec == ViewInit /\ [][ViewNext]_viewVars

\* The browser draws frames, the style and the tiles arrive, and the user
\* leaves the camera alone sometimes.
ViewFairSpec ==
  ViewSpec /\ WF_viewVars(Load) /\ WF_viewVars(Frame) /\ WF_viewVars(TilesArrive)
           /\ WF_viewVars(BecomesIdle) /\ WF_viewVars(BasemapArrives)

-----------------------------------------------------------------------------
(* Type correctness.                                                       *)

\* The types of the variables.
ViewTypeOK ==
  /\ want.percent \in 0..2 /\ want.floor \in Floors \cup {None}
  /\ want.shown \subseteq Projects /\ want.chosen \subseteq Features
  /\ want.mark \in {"none", "shape", "tiles", "local"}
  /\ want.imported \in {"new", "on", "off", "gone"}
  /\ map.stack \in Seq(Widget \cup {LabelBlock}) /\ IsInjective(map.stack)
  /\ DOMAIN map.look = Widget
  /\ {map.parsed, map.ready, map.changed, map.overtaken, swapping} \subseteq BOOLEAN
  /\ \A i \in DOMAIN map.deferred : map.deferred[i].layer
       \in {"wms", "pip", "eao", "imported", "mark", "dots"}
  /\ acts \in 0..MaxActs /\ moves \in 0..MaxMoves

-----------------------------------------------------------------------------
(* What the user sees.                                                     *)

AtRest == map.parsed /\ map.deferred = <<>>
Look(l) == map.look[l]
Shows(l) == Look(l).visible
DrawsAt(l, z) ==
  Shows(l) /\ IF l = "outline" THEN MIN_ZOOM <= z /\ z < Look(l).from ELSE Look(l).from <= z

\* Once no work waits, and none was overtaken by a later one on its layer, the
\* map draws what the panel, the filter bar and the popup say, as they say it:
\* no layer lingers after it was switched off, none is painted, filtered or
\* outlined as it was a change ago.
DrawsWhatIsWanted ==
  AtRest /\ ~map.overtaken =>
    /\ Shows("raster") = (want.percent # 0) /\ Shows("outline") = (want.percent # 0)
    /\ Shows("raster") => Look("raster").paint = want.percent
    /\ \A l \in ToSet(Pip) : Shows(l) = (want.pip /\ want.pipStyle)
    /\ Shows("line") => Look("line").paint = want.width
    /\ Shows("imported") = (want.imported = "on")
    /\ Shows("imported") => Look("imported").paint = want.fade
    /\ want.imported = "gone" => ~On(map, "imported")
    /\ want.loaded => Look("dots").of = want.shown
    /\ want.eaoStyle =>
         /\ Look("footprint").of = {f \in want.shown \X {"footprint"} :
                                      f \in want.hidden => f \in want.chosen}
         /\ Look("component").of = {f \in want.shown \X {"component"} :
                                      f \in want.revealed \/ f \in want.chosen}
         /\ Look("picked").of = want.picked /\ Look("selected").of = want.chosen
    /\ Look("marked").of = IF want.mark = "none" THEN {} ELSE {want.mark}

\* The row says the layer draws nothing at this zoom.
EffectiveMinZoom == IF want.floor = None THEN WMS_MIN_ZOOM ELSE want.floor
BelowFloor(z) == want.percent # 0 /\ z < EffectiveMinZoom

\* At every zoom, a catalogue layer that is on is drawn by its raster or by its
\* outline and never by both, whatever is still on its way; and once at rest the
\* row's "Zoom in to view" is there exactly where the raster is not.
OutlineTakesOver ==
  /\ On(map, "raster") /\ On(map, "outline") => Look("raster").from = Look("outline").from
  /\ AtRest /\ ~map.overtaken /\ want.percent # 0 =>
       \A z \in Zooms : /\ BelowFloor(z) = ~DrawsAt("raster", z)
                        /\ DrawsAt("outline", z) # DrawsAt("raster", z)

\* The outline of a hosted layer lies over its hit target, the selection's gold
\* under the highlight of the component picked, an import under the shape the
\* popup marks, and what map-api hosts under the basemap's place names.
StackingHolds ==
  LET Under(l, above) == On(map, l) /\ On(map, above) => Position(map, l) < Position(map, above)
  IN  /\ Under("hit", "line") /\ Under("footprint", "component")
      /\ Under("selected", "picked")
      /\ Look("marked").of = {"shape"} => Under("imported", "marked")
      /\ \A l \in ToSet(Pip) \cup ToSet(Eao) : Under(l, LabelBlock)

\* With every change drawn, the dots lie over everything.
DotsOnTop ==
  map.parsed /\ ~map.changed /\ On(map, "dots") => Last(map.stack) = "dots"

\* A basemap takes nothing of the widget's with it, nor its order or looks.
SurvivesBasemap ==
  [][On(map, LabelBlock) # On(map', LabelBlock) /\ map.parsed =>
       /\ map'.look = map.look
       /\ \A l \in Widget : On(map', l) = On(map, l)
       /\ \A l, above \in Widget : On(map, l) /\ On(map, above) =>
            (Position(map', l) < Position(map', above)) =
              (Position(map, l) < Position(map, above))]_viewVars

\* No work waits for ever.
WorksRun == map.deferred # <<>> ~> map.deferred = <<>>

\* eaoVisibility.ts:9: "a project whose dot the filter bar has hidden has no
\* boundary drawn either, so the two always agree".
DotsAndFootprintsAgree ==
  AtRest /\ On(map, "dots") /\ On(map, "footprint") =>
    \A f \in Look("footprint").of : f[1] \in Look("dots").of

\* The stack holds, with the outline and the raster taking over from each other
\* (layerUtils.ts, LayerStack).
StackHolds == ViewTypeOK /\ OutlineTakesOver /\ StackingHolds /\ DotsOnTop

=============================================================================

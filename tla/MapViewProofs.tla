---------------------------- MODULE MapViewProofs ----------------------------
(***************************************************************************)
(* Proofs about MapView, for any projects, zooms, changes and camera moves:*)
(* whatever order the works that wait for the map's style run in, the map  *)
(* ends as the panel, the filter bar and the popup say, with its layers in *)
(* order, and a layer's raster and its outline never both draw at a zoom.  *)
(***************************************************************************)
EXTENDS LayersProofs

-----------------------------------------------------------------------------
(* Views that may be wanted, and changes from one to the next              *)

Wanted ==
  [percent : 0..2, floor : Floors \cup {None}, pip : BOOLEAN, pipStyle : BOOLEAN, width : {1, 2},
   eaoStyle : BOOLEAN, loaded : BOOLEAN, shown : SUBSET Projects, hidden : SUBSET Features,
   revealed : SUBSET Features, chosen : SUBSET Features, picked : SUBSET Features,
   mark : {"none"} \cup Kinds, imported : {"new", "on", "off", "gone"}, fade : {1, 2}]

(* A zoom, a style and the projects, once in, stay; a deleted layer too *)
Changes(o, n) ==
  /\ o.floor # None => n.floor = o.floor
  /\ o.pipStyle => n.pipStyle
  /\ o.eaoStyle => n.eaoStyle
  /\ o.loaded => n.loaded
  /\ o.imported = "new" => n.imported \in {"new", "on"}
  /\ o.imported \in {"on", "off"} => n.imported # "new"
  /\ o.imported = "gone" => n.imported = "gone"

(* Works of some lanes only, and none that marks a hosted feature *)
InLanes(q, S) == \A i \in 1..Len(q) : q[i].layer \in S
Plain(q) == \A i \in 1..Len(q) : ~Local(q[i])

LEMMA ViewValues ==
  ASSUME NEW n \in Wanted
  PROVE  /\ n.percent \in Values /\ 0 \in Values /\ {} \in Values /\ n.width \in Values
         /\ n.fade \in Values /\ n.shown \in Values /\ n.chosen \in Values /\ n.picked \in Values
         /\ (n.imported = "on") \in Values
         /\ n.floor # None => n.floor \in Values
         /\ n.mark # "none" => n.mark \in Kinds
<1>1. \A i \in 0..12 : i \in Values
  BY ValuesHave
<1>2. n.percent \in 0..12 /\ n.width \in 0..12 /\ n.fade \in 0..12
  BY DEF Wanted
<1>3. n.floor # None => n.floor \in 0..12
  <2>1. n.floor # None => n.floor \in Floors
    BY DEF Wanted
  <2>2. Floors \subseteq 3..12
    BY ViewAssumption DEF Zooms, MIN_ZOOM
  <2>3. \A z \in 3..12 : z \in 0..12
    OBVIOUS
  <2> QED BY <2>1, <2>2, <2>3
<1>4. n.shown \in Values /\ n.chosen \in Values /\ n.picked \in Values
  BY DEF Wanted, Values
<1>5. (n.imported = "on") \in Values
  BY DEF Values
<1>6. n.mark # "none" => n.mark \in Kinds
  BY DEF Wanted
<1> QED
  BY <1>1, <1>2, <1>3, <1>4, <1>5, <1>6, ValuesHave

LEMMA FiltersAre ==
  ASSUME NEW n \in Wanted
  PROVE  SpecFilters(n) \in [{"footprint", "component"} -> Values]
<1> DEFINE f == {x \in n.shown \X {"footprint"} : x \notin n.hidden \ n.chosen}
           c == {x \in n.shown \X {"component"} : x \in n.revealed \cup n.chosen}
<1>1. n.shown \subseteq Projects
  BY DEF Wanted
<1>2. f \in SUBSET Features /\ c \in SUBSET Features
  BY <1>1, LayerNames DEF Features
<1>3. f \in Values /\ c \in Values
  BY <1>2 DEF Values
<1>4. SpecFilters(n) = [footprint |-> f, component |-> c]
  BY DEF SpecFilters
<1> HIDE DEF f, c
<1> QED
  BY <1>3, <1>4

LEMMA NoWorks ==
  ASSUME NEW S PROVE <<>> \in Seq(Works) /\ InLanes(<<>>, S) /\ Plain(<<>>)
BY DEF InLanes, Plain

LEMMA OneWork ==
  ASSUME NEW w \in Works, NEW S, w.layer \in S
  PROVE  <<w>> \in Seq(Works) /\ InLanes(<<w>>, S) /\ (~Local(w) => Plain(<<w>>))
<1>1. <<w>> \in Seq(Works) /\ Len(<<w>>) = 1 /\ <<w>>[1] = w
  OBVIOUS
<1> QED
  BY <1>1 DEF InLanes, Plain

LEMMA TwoWorks ==
  ASSUME NEW v \in Works, NEW w \in Works
  PROVE  /\ <<v, w>> = <<v>> \o <<w>>
         /\ \A m : IsMap(m) => RunAll(m, <<v, w>>) = Run(Run(m, v), w)
<1>0. <<v>> \in Seq(Works) /\ <<w>> \in Seq(Works)
  OBVIOUS
<1>1. <<v, w>> = <<v>> \o <<w>>
  <2> DEFINE s == <<v>> \o <<w>>
  <2>1. s \in Seq(Works) /\ Len(s) = 2 /\ s[1] = v /\ s[2] = w
    OBVIOUS
  <2>2. <<v, w>> \in Seq(Works) /\ Len(<<v, w>>) = 2 /\ <<v, w>>[1] = v /\ <<v, w>>[2] = w
    OBVIOUS
  <2> HIDE DEF s
  <2>3. s = <<v, w>>
    BY <2>1, <2>2
  <2> QED BY <2>3 DEF s
<1>2. ASSUME NEW m, IsMap(m) PROVE RunAll(m, <<v, w>>) = Run(Run(m, v), w)
  <2>1. RunAll(m, <<v, w>>) = RunAll(RunAll(m, <<v>>), <<w>>)
    <3>1. RunAll(m, <<v>> \o <<w>>) = RunAll(RunAll(m, <<v>>), <<w>>)
      BY ONLY <1>0, <1>2, RunCat
    <3> QED BY <1>1, <3>1
  <2>2. RunAll(m, <<v>>) = Run(m, v) /\ IsMap(Run(m, v))
    BY <1>2, RunOne, RunIs DEF Carried
  <2> QED BY <2>1, <2>2, RunOne
<1> QED
  BY <1>1, <1>2

(* The works of s and then those of t *)
LEMMA MoreWorks ==
  ASSUME NEW s \in Seq(Works), NEW t \in Seq(Works), NEW S,
         InLanes(s, S), InLanes(t, S)
  PROVE  /\ s \o t \in Seq(Works) /\ InLanes(s \o t, S)
         /\ Plain(s) /\ Plain(t) => Plain(s \o t)
<1>1. /\ Len(s) \in Nat /\ Len(t) \in Nat /\ s \o t \in Seq(Works)
      /\ Len(s \o t) = Len(s) + Len(t)
      /\ \A i \in 1..(Len(s) + Len(t)) : (s \o t)[i] = IF i <= Len(s) THEN s[i] ELSE t[i - Len(s)]
  <2>1. /\ s \o t \in Seq(Works) /\ Len(s \o t) = Len(s) + Len(t)
        /\ \A i \in 1..(Len(s) + Len(t)) : (s \o t)[i] = IF i <= Len(s) THEN s[i] ELSE t[i - Len(s)]
    BY ConcatProperties
  <2> QED BY <2>1
<1>2. ASSUME NEW i \in 1..(Len(s) + Len(t))
      PROVE  \/ \E j \in 1..Len(s) : (s \o t)[i] = s[j]
             \/ \E j \in 1..Len(t) : (s \o t)[i] = t[j]
  <2>1. CASE i <= Len(s)
    <3>1. i \in 1..Len(s)
      BY <1>1, <2>1
    <3> QED BY <1>1, <2>1, <3>1
  <2>2. CASE ~(i <= Len(s))
    <3>1. i - Len(s) \in 1..Len(t)
      BY <1>1, <2>2
    <3> QED BY <1>1, <2>2, <3>1
  <2> QED BY <2>1, <2>2
<1> QED
  BY <1>1, <1>2 DEF InLanes, Plain

LEMMA WhenIs ==
  ASSUME NEW c, NEW q, NEW S, c => q \in Seq(Works) /\ InLanes(q, S) /\ Plain(q)
  PROVE  When(c, q) \in Seq(Works) /\ InLanes(When(c, q), S) /\ Plain(When(c, q))
BY NoWorks DEF When

LEMMA WorkIs ==
  ASSUME NEW d, NEW l, NEW v
  PROVE  /\ Work(d, l, v).does = d /\ Work(d, l, v).layer = l /\ Work(d, l, v).to = v
         /\ Local(Work(d, l, v)) <=> d = "mark" /\ v = "local"
BY DEF Work, Local

(* A work that is one of the works, of a lane in S, and marks nothing local *)
Fits(w, S) == w \in Works /\ w.layer \in S /\ ~Local(w)

(* A sequence of such works *)
Lot(q, S) == q \in Seq(Works) /\ InLanes(q, S) /\ Plain(q)

LEMMA CatalogueWorks ==
  ASSUME NEW v \in Values,
         NEW d \in {"show", "showline", "hide", "hideline", "fade", "minzoom", "maxzoom"}
  PROVE  Fits(Work(d, "wms", v), {"wms"})
BY DEF Work, Works, Fits, Local

LEMMA HostedWorks ==
  ASSUME NEW v \in Values
  PROVE  /\ Fits(Work("showHosted", "pip", Pip), {"pip"})
         /\ Fits(Work("hideHosted", "pip", Pip), {"pip"})
         /\ Fits(Work("width", "pip", v), {"pip"})
         /\ Fits(Work("showHosted", "eao", Eao), {"eao"})
BY DEF Work, Works, Fits, Local

LEMMA FilterWorks ==
  ASSUME NEW e \in [{"footprint", "component"} -> Values]
  PROVE  Fits(Work("filter", "eao", e), {"eao"})
BY LayerNames DEF Work, Works, Fits, Local

LEMMA SelectionWorks ==
  ASSUME NEW v \in Values, NEW d \in {"pick", "unpick", "select", "unselect"}
  PROVE  Fits(Work(d, "eao", v), {"eao"})
BY DEF Work, Works, Fits, Local

LEMMA MarkWorks ==
  ASSUME NEW k \in Kinds, NEW v \in Values
  PROVE  /\ Work("mark", "mark", k) \in Works /\ Work("mark", "mark", k).layer = "mark"
         /\ k # "local" => ~Local(Work("mark", "mark", k))
         /\ Fits(Work("unmark", "mark", v), {"mark"})
BY DEF Work, Works, Fits, Local

LEMMA ImportedWorks ==
  ASSUME NEW v \in Values, NEW d \in {"import", "reveal", "refade", "remove"}
  PROVE  Fits(Work(d, "imported", v), {"imported"})
BY DEF Work, Works, Fits, Local

LEMMA DotsWorks ==
  ASSUME NEW v \in Values
  PROVE  Fits(Work("dots", "dots", v), {"dots"})
BY DEF Work, Works, Fits, Local

LEMMA WhenOne ==
  ASSUME NEW c, NEW S, NEW w, c => Fits(w, S)
  PROVE  Lot(When(c, <<w>>), S)
<1>1. CASE c
  <2>1. Lot(<<w>>, S)
    BY <1>1, OneWork DEF Fits, Lot
  <2> QED BY <1>1, <2>1 DEF When
<1>2. CASE ~c
  <2>1. Lot(<<>>, S)
    BY NoWorks DEF Lot
  <2> QED BY <1>2, <2>1 DEF When
<1> QED
  BY <1>1, <1>2

LEMMA WhenTwo ==
  ASSUME NEW c, NEW S, NEW v, NEW w, c => Fits(v, S) /\ Fits(w, S)
  PROVE  Lot(When(c, <<v, w>>), S)
<1>1. CASE c
  <2>0. v \in Works /\ w \in Works
    BY <1>1 DEF Fits
  <2>1. Lot(<<v>>, S) /\ Lot(<<w>>, S)
    BY <1>1, OneWork DEF Fits, Lot
  <2>2. Lot(<<v>> \o <<w>>, S)
    BY <2>1, MoreWorks DEF Lot
  <2>3. <<v, w>> = <<v>> \o <<w>>
    BY <2>0, TwoWorks
  <2>4. Lot(<<v, w>>, S)
    BY <2>2, <2>3
  <2> QED BY <1>1, <2>4 DEF When
<1>2. CASE ~c
  <2>1. Lot(<<>>, S)
    BY NoWorks DEF Lot
  <2> QED BY <1>2, <2>1 DEF When
<1> QED
  BY <1>1, <1>2

LEMMA LotMore ==
  ASSUME NEW S, NEW s, NEW t, Lot(s, S), Lot(t, S)
  PROVE  Lot(s \o t, S)
BY MoreWorks DEF Lot

LEMMA LotWider ==
  ASSUME NEW S, NEW T, S \subseteq T, NEW q, Lot(q, S)
  PROVE  Lot(q, T)
BY DEF Lot, InLanes

LEMMA PaintWorks ==
  ASSUME NEW o \in Wanted, NEW n \in Wanted
  PROVE  Lot(PaintCatalogue(o, n), {"wms"})
<1> DEFINE a == When(o.percent = 0 /\ n.percent # 0,
                     <<Work("show", "wms", n.percent), Work("showline", "wms", 0)>>)
           b == When(o.percent # 0 /\ n.percent = 0,
                     <<Work("hide", "wms", 0), Work("hideline", "wms", 0)>>)
           c == When(o.percent # 0 /\ n.percent # 0 /\ o.percent # n.percent,
                     <<Work("fade", "wms", n.percent)>>)
<1>1. n.percent \in Values /\ 0 \in Values
  BY ViewValues
<1>2. /\ Fits(Work("show", "wms", n.percent), {"wms"}) /\ Fits(Work("showline", "wms", 0), {"wms"})
      /\ Fits(Work("hide", "wms", 0), {"wms"}) /\ Fits(Work("hideline", "wms", 0), {"wms"})
      /\ Fits(Work("fade", "wms", n.percent), {"wms"})
  BY <1>1, CatalogueWorks
<1>3. Lot(a, {"wms"})
  BY <1>2, WhenTwo
<1>4. Lot(b, {"wms"})
  BY <1>2, WhenTwo
<1>5. Lot(c, {"wms"})
  BY <1>2, WhenOne
<1>6. PaintCatalogue(o, n) = a \o b \o c
  BY DEF PaintCatalogue
<1> HIDE DEF a, b, c
<1>7. Lot(a \o b, {"wms"})
  BY <1>3, <1>4, LotMore
<1>8. Lot((a \o b) \o c, {"wms"})
  BY <1>5, <1>7, LotMore
<1> QED
  BY <1>6, <1>8

LEMMA GateWorks ==
  ASSUME NEW o \in Wanted, NEW n \in Wanted
  PROVE  Lot(GateCatalogue(o, n), {"wms"})
<1>1. n.floor # None => n.floor \in Values
  BY ViewValues
<1>2. n.floor # None => /\ Fits(Work("minzoom", "wms", n.floor), {"wms"})
                        /\ Fits(Work("maxzoom", "wms", n.floor), {"wms"})
  BY <1>1, CatalogueWorks
<1> QED
  BY <1>2, WhenTwo DEF GateCatalogue

LEMMA PipWorks ==
  ASSUME NEW o \in Wanted, NEW n \in Wanted
  PROVE  Lot(DrawPip(o, n), {"pip"})
<1> DEFINE a == When(o.pip /\ ~n.pip, <<Work("hideHosted", "pip", Pip)>>)
           b == When(n.pip /\ n.pipStyle
                       /\ <<o.pip, o.pipStyle, o.width>> # <<n.pip, n.pipStyle, n.width>>,
                     <<Work("showHosted", "pip", Pip), Work("width", "pip", n.width)>>)
<1>1. n.width \in Values
  BY ViewValues
<1>2. /\ Fits(Work("showHosted", "pip", Pip), {"pip"})
      /\ Fits(Work("hideHosted", "pip", Pip), {"pip"})
      /\ Fits(Work("width", "pip", n.width), {"pip"})
  BY <1>1, HostedWorks
<1>3. Lot(a, {"pip"})
  BY <1>2, WhenOne
<1>4. Lot(b, {"pip"})
  BY <1>2, WhenTwo
<1>5. DrawPip(o, n) = a \o b
  BY DEF DrawPip
<1> HIDE DEF a, b
<1> QED
  BY <1>3, <1>4, <1>5, LotMore

LEMMA EaoWorks ==
  ASSUME NEW o \in Wanted, NEW n \in Wanted
  PROVE  /\ Lot(DrawEao(o, n), {"eao"}) /\ Lot(FilterEao(o, n), {"eao"})
         /\ Lot(OutlineSelection(o, n), {"eao"}) /\ Lot(HighlightComponent(o, n), {"eao"})
<1>1. /\ n.chosen \in Values /\ n.picked \in Values /\ 0 \in Values
      /\ SpecFilters(n) \in [{"footprint", "component"} -> Values]
  BY ViewValues, FiltersAre
<1>2. /\ Fits(Work("showHosted", "eao", Eao), {"eao"})
      /\ Fits(Work("filter", "eao", SpecFilters(n)), {"eao"})
      /\ Fits(Work("select", "eao", n.chosen), {"eao"})
      /\ Fits(Work("pick", "eao", n.picked), {"eao"})
  BY <1>1, HostedWorks, FilterWorks, SelectionWorks
<1>3. Lot(DrawEao(o, n), {"eao"})
  BY <1>2, WhenOne DEF DrawEao
<1>4. Lot(FilterEao(o, n), {"eao"})
  BY <1>2, WhenOne DEF FilterEao
<1>5. Lot(OutlineSelection(o, n), {"eao"})
  BY <1>2, WhenOne DEF OutlineSelection
<1>6. Lot(HighlightComponent(o, n), {"eao"})
  BY <1>2, WhenOne DEF HighlightComponent
<1> QED
  BY <1>3, <1>4, <1>5, <1>6

LEMMA ImportedDraws ==
  ASSUME NEW o \in Wanted, NEW n \in Wanted
  PROVE  Lot(DrawImported(o, n), {"imported"}) /\ Lot(DrawDots(o, n), {"dots"})
<1> DEFINE a == When(o.imported # "gone" /\ o.imported # "new" /\ n.imported = "gone",
                     <<Work("remove", "imported", 0)>>)
           b == When(o.imported = "new" /\ n.imported = "on",
                     <<Work("import", "imported", n.fade)>>)
           c == When({o.imported, n.imported} = {"on", "off"},
                     <<Work("reveal", "imported", n.imported = "on")>>)
           d == When(o.fade # n.fade /\ n.imported \in {"on", "off"},
                     <<Work("refade", "imported", n.fade)>>)
<1>1. n.fade \in Values /\ 0 \in Values /\ (n.imported = "on") \in Values /\ n.shown \in Values
  BY ViewValues
<1>2. /\ Fits(Work("remove", "imported", 0), {"imported"})
      /\ Fits(Work("import", "imported", n.fade), {"imported"})
      /\ Fits(Work("reveal", "imported", n.imported = "on"), {"imported"})
      /\ Fits(Work("refade", "imported", n.fade), {"imported"})
      /\ Fits(Work("dots", "dots", n.shown), {"dots"})
  BY <1>1, ImportedWorks, DotsWorks
<1>3. Lot(a, {"imported"}) /\ Lot(b, {"imported"})
  BY <1>2, WhenOne
<1>4. Lot(c, {"imported"}) /\ Lot(d, {"imported"})
  BY <1>2, WhenOne
<1>5. Lot(DrawDots(o, n), {"dots"})
  BY <1>2, WhenOne DEF DrawDots
<1>6. DrawImported(o, n) = a \o b \o c \o d
  BY DEF DrawImported
<1> HIDE DEF a, b, c, d
<1>7. Lot(a \o b, {"imported"})
  BY <1>3, LotMore
<1>8. Lot((a \o b) \o c, {"imported"})
  BY <1>4, <1>7, LotMore
<1>9. Lot(((a \o b) \o c) \o d, {"imported"})
  BY <1>4, <1>8, LotMore
<1> QED
  BY <1>5, <1>6, <1>9

LEMMA CleanupWorks ==
  ASSUME NEW o \in Wanted, NEW n \in Wanted
  PROVE  Lot(Cleanups(o, n), {"eao", "mark"})
<1> DEFINE a == When(o.eaoStyle /\ o.chosen # {} /\ o.chosen # n.chosen,
                     <<Work("unselect", "eao", {})>>)
           b == When(o.eaoStyle /\ o.picked # {} /\ o.picked # n.picked,
                     <<Work("unpick", "eao", {})>>)
           c == When(o.mark # "none" /\ o.mark # n.mark, <<Work("unmark", "mark", {})>>)
<1>1. {} \in Values /\ "shape" \in Kinds
  BY ViewValues DEF Kinds
<1>2. /\ Fits(Work("unselect", "eao", {}), {"eao"}) /\ Fits(Work("unpick", "eao", {}), {"eao"})
      /\ Fits(Work("unmark", "mark", {}), {"mark"})
  BY <1>1, SelectionWorks, MarkWorks
<1>3. Lot(a, {"eao"}) /\ Lot(b, {"eao"}) /\ Lot(c, {"mark"})
  BY <1>2, WhenOne
<1>4. Cleanups(o, n) = a \o b \o c
  BY DEF Cleanups
<1> HIDE DEF a, b, c
<1>5. Lot(a, {"eao", "mark"}) /\ Lot(b, {"eao", "mark"}) /\ Lot(c, {"eao", "mark"})
  BY <1>3, LotWider
<1>6. Lot(a \o b, {"eao", "mark"})
  BY <1>5, LotMore
<1>7. Lot((a \o b) \o c, {"eao", "mark"})
  BY <1>5, <1>6, LotMore
<1> QED
  BY <1>4, <1>7

-----------------------------------------------------------------------------
(* Running the works of an effect                                          *)

LEMMA RunWhenOne ==
  ASSUME NEW m, IsMap(m), NEW c, NEW w, c => w \in Works, NEW k, k = RunAll(m, When(c, <<w>>))
  PROVE  IsMap(k) /\ (c => k = Run(m, w) /\ IsMap(Run(m, w))) /\ (~c => k = m)
<1>1. CASE c
  <2>1. k = RunAll(m, <<w>>)
    BY <1>1 DEF When
  <2>2. RunAll(m, <<w>>) = Run(m, w)
    BY <1>1, RunOne
  <2>3. IsMap(Run(m, w))
    BY <1>1, RunIs DEF Carried
  <2> QED BY <1>1, <2>1, <2>2, <2>3
<1>2. CASE ~c
  <2>1. k = RunAll(m, <<>>)
    BY <1>2 DEF When
  <2>2. RunAll(m, <<>>) = m
    BY RunNone
  <2> QED BY <1>2, <2>1, <2>2
<1> QED
  BY <1>1, <1>2

LEMMA RunWhenTwo ==
  ASSUME NEW m, IsMap(m), NEW c, NEW v, NEW w, c => v \in Works /\ w \in Works,
         NEW k, k = RunAll(m, When(c, <<v, w>>))
  PROVE  /\ IsMap(k)
         /\ c => k = Run(Run(m, v), w) /\ IsMap(Run(m, v)) /\ IsMap(Run(Run(m, v), w))
         /\ ~c => k = m
<1>1. CASE c
  <2>1. k = RunAll(m, <<v, w>>)
    BY <1>1 DEF When
  <2>2. RunAll(m, <<v, w>>) = Run(Run(m, v), w)
    BY <1>1, TwoWorks
  <2>3. IsMap(Run(m, v))
    BY <1>1, RunIs DEF Carried
  <2>4. IsMap(Run(Run(m, v), w))
    BY <1>1, <2>3, RunIs DEF Carried
  <2> QED BY <1>1, <2>1, <2>2, <2>3, <2>4
<1>2. CASE ~c
  <2>1. k = RunAll(m, <<>>)
    BY <1>2 DEF When
  <2>2. RunAll(m, <<>>) = m
    BY RunNone
  <2> QED BY <1>2, <2>1, <2>2
<1> QED
  BY <1>1, <1>2

LEMMA RunApart ==
  ASSUME NEW m, IsMap(m), NEW q, NEW S, q \in Seq(Works), InLanes(q, S),
         NEW lane \in Lanes, lane \notin S
  PROVE  IsMap(RunAll(m, q)) /\ Agree(m, RunAll(m, q), lane)
<1>1. \A i \in 1..Len(q) : q[i].layer # lane
  BY DEF InLanes
<1> QED
  BY <1>1, RunAllApart, RunAllCarried

-----------------------------------------------------------------------------
(* A map that draws a wanted view, lane by lane                            *)

Floor(v) == IF v.floor = None THEN WMS_MIN_ZOOM ELSE v.floor

DrawsWms(v, m) ==
  /\ v.percent # 0 =>
       /\ On(m, "raster") /\ On(m, "outline")
       /\ m.look["raster"].visible = TRUE /\ m.look["outline"].visible = TRUE
       /\ m.look["raster"].paint = v.percent
       /\ m.look["raster"].from = Floor(v) /\ m.look["outline"].from = Floor(v)
  /\ v.percent = 0 => m.look["raster"].visible = FALSE /\ m.look["outline"].visible = FALSE
  /\ v.floor = None => /\ On(m, "raster") => m.look["raster"].from = WMS_MIN_ZOOM
                       /\ On(m, "outline") => m.look["outline"].from = WMS_MIN_ZOOM

DrawsPip(v, m) ==
  /\ v.pip /\ v.pipStyle =>
       /\ m.look["hit"].visible = TRUE /\ m.look["line"].visible = TRUE
       /\ On(m, "line") /\ m.look["line"].paint = v.width
  /\ ~(v.pip /\ v.pipStyle) => m.look["hit"].visible = FALSE /\ m.look["line"].visible = FALSE

DrawsEao(v, m) ==
  /\ v.eaoStyle =>
       /\ On(m, "footprint") /\ On(m, "component")
       /\ m.look["footprint"].of = SpecFilters(v).footprint
       /\ m.look["component"].of = SpecFilters(v).component
       /\ m.look["picked"].of = v.picked /\ m.look["selected"].of = v.chosen
  /\ ~v.eaoStyle => ~On(m, "footprint") /\ ~On(m, "component")
                      /\ ~On(m, "picked") /\ ~On(m, "selected")

DrawsImported(v, m) ==
  /\ On(m, "imported") <=> v.imported \in {"on", "off"}
  /\ v.imported = "on" => m.look["imported"].visible = TRUE
  /\ v.imported # "on" => m.look["imported"].visible = FALSE
  /\ v.imported \in {"on", "off"} => m.look["imported"].paint = v.fade

DrawsMark(v, m) ==
  /\ v.mark = "none" => m.look["marked"].of = {}
  /\ v.mark # "none" => m.look["marked"].of = {v.mark}

DrawsDots(v, m) == v.loaded => On(m, "dots") /\ m.look["dots"].of = v.shown

Draws(v, m) ==
  /\ DrawsWms(v, m) /\ DrawsPip(v, m) /\ DrawsEao(v, m)
  /\ DrawsImported(v, m) /\ DrawsMark(v, m) /\ DrawsDots(v, m)

LEMMA DrawsAlike ==
  ASSUME NEW v, NEW m, NEW k
  PROVE  /\ Agree(m, k, "wms") => (DrawsWms(v, m) => DrawsWms(v, k))
         /\ Agree(m, k, "pip") => (DrawsPip(v, m) => DrawsPip(v, k))
         /\ Agree(m, k, "eao") => (DrawsEao(v, m) => DrawsEao(v, k))
         /\ Agree(m, k, "imported") => (DrawsImported(v, m) => DrawsImported(v, k))
         /\ Agree(m, k, "mark") => (DrawsMark(v, m) => DrawsMark(v, k))
         /\ Agree(m, k, "dots") => (DrawsDots(v, m) => DrawsDots(v, k))
<1>1. Agree(m, k, "wms") => (DrawsWms(v, m) => DrawsWms(v, k))
  BY LanesAre DEF Agree, DrawsWms
<1>2. Agree(m, k, "pip") => (DrawsPip(v, m) => DrawsPip(v, k))
  BY LanesAre DEF Agree, DrawsPip
<1>3. Agree(m, k, "eao") => (DrawsEao(v, m) => DrawsEao(v, k))
  BY LanesAre DEF Agree, DrawsEao
<1>4. Agree(m, k, "imported") => (DrawsImported(v, m) => DrawsImported(v, k))
  BY LanesAre DEF Agree, DrawsImported
<1>5. Agree(m, k, "mark") => (DrawsMark(v, m) => DrawsMark(v, k))
  BY LanesAre DEF Agree, DrawsMark
<1>6. Agree(m, k, "dots") => (DrawsDots(v, m) => DrawsDots(v, k))
  BY LanesAre DEF Agree, DrawsDots
<1> QED
  BY <1>1, <1>2, <1>3, <1>4, <1>5, <1>6

-----------------------------------------------------------------------------
(* What each effect draws                                                  *)

LEMMA PipDrawn ==
  ASSUME NEW o \in Wanted, NEW n \in Wanted, Changes(o, n), NEW m, IsMap(m), DrawsPip(o, m),
         NEW k, k = RunAll(m, DrawPip(o, n))
  PROVE  DrawsPip(n, k)
<1> DEFINE h == Work("hideHosted", "pip", Pip)
           s == Work("showHosted", "pip", Pip)
           w == Work("width", "pip", n.width)
           C == o.pip /\ ~n.pip
           D == n.pip /\ n.pipStyle
           /\ <<o.pip, o.pipStyle, o.width>> # <<n.pip, n.pipStyle, n.width>>
           a == When(C, <<h>>)
           b == When(D, <<s, w>>)
           j == RunAll(m, a)
<1>0. n.width \in Values
  BY ViewValues
<1>1. /\ Fits(h, {"pip"}) /\ Fits(s, {"pip"}) /\ Fits(w, {"pip"})
      /\ h.does = "hideHosted" /\ s.does = "showHosted" /\ w.does = "width" /\ w.to = n.width
  BY <1>0, HostedWorks DEF Work
<1>2. DrawPip(o, n) = a \o b
  BY DEF DrawPip
<1>3. C \in BOOLEAN /\ D \in BOOLEAN
  BY DEF Wanted
<1>4. /\ n.pip \in BOOLEAN /\ o.pip \in BOOLEAN /\ n.pipStyle \in BOOLEAN /\ o.pipStyle \in BOOLEAN
      /\ o.pipStyle => n.pipStyle
      /\ C <=> o.pip /\ ~n.pip
      /\ n.pip /\ n.pipStyle /\ ~D => o.pip /\ o.pipStyle /\ o.width = n.width
      /\ D => n.pip /\ n.pipStyle
  BY DEF Wanted, Changes
<1> HIDE DEF h, s, w, C, D
<1>5. Lot(a, {"pip"})
  BY <1>1, WhenOne
<1>6. Lot(b, {"pip"})
  BY <1>1, WhenTwo
<1> HIDE DEF a, b
<1>7. k = RunAll(j, b)
  BY <1>2, <1>5, <1>6, RunCat DEF Lot
<1>8. IsMap(j) /\ (C => j = Run(m, h)) /\ (~C => j = m)
  BY <1>1, RunWhenOne DEF a, Fits
<1> HIDE DEF j
<1>9. /\ D => k = Run(Run(j, s), w) /\ IsMap(Run(j, s)) /\ IsMap(Run(Run(j, s), w))
      /\ ~D => k = j
  BY <1>1, <1>7, <1>8, RunWhenTwo DEF b, Fits
<1>10. CASE C
  <2>1. LookIs(j.look["hit"], FALSE, m.look["hit"].paint, m.look["hit"].from, m.look["hit"].of)
        /\ LookIs(j.look["line"], FALSE, m.look["line"].paint, m.look["line"].from,
                  m.look["line"].of)
    <3>1. j = Run(m, h) /\ h \in Works /\ h.layer = "pip"
      BY <1>1, <1>8, <1>10 DEF Fits
    <3> QED BY <1>1, <3>1, RunPip
  <2>2. k = j
    BY <1>4, <1>9, <1>10
  <2> QED BY <1>4, <1>10, <2>1, <2>2 DEF DrawsPip, LookIs
<1>11. CASE ~C /\ ~D
  <2>1. k = m
    BY <1>8, <1>9, <1>11
  <2> QED BY <1>4, <1>11, <2>1 DEF DrawsPip
<1>12. CASE D
  <2> DEFINE i == Run(j, s)
  <2>1. IsMap(i) /\ k = Run(i, w)
    BY <1>9, <1>12
  <2>2. /\ On(i, "line") /\ i.look["hit"].visible = TRUE /\ i.look["line"].visible = TRUE
    <3>1. s \in Works /\ s.layer = "pip"
      BY <1>1 DEF Fits
    <3>2. /\ Adds(j, i, {"hit", "line"})
          /\ LookIs(i.look["hit"], TRUE, j.look["hit"].paint,
                    IF On(j, "hit") THEN j.look["hit"].from ELSE PipFloor, j.look["hit"].of)
          /\ LookIs(i.look["line"], TRUE, j.look["line"].paint,
                    IF On(j, "line") THEN j.look["line"].from ELSE PipFloor, j.look["line"].of)
      BY <1>1, <1>8, <3>1, RunPip
    <3> QED BY <3>2 DEF Adds, LookIs
  <2> HIDE DEF i
  <2>3. /\ Adds(i, k, {}) /\ k.look["hit"] = i.look["hit"]
        /\ LookIs(k.look["line"], i.look["line"].visible,
                  IF On(i, "line") THEN w.to ELSE i.look["line"].paint, i.look["line"].from,
                       i.look["line"].of)
    <3>1. w \in Works /\ w.layer = "pip"
      BY <1>1 DEF Fits
    <3> QED BY <1>1, <2>1, <3>1, RunPip
  <2> QED BY <1>1, <1>4, <1>12, <2>2, <2>3 DEF DrawsPip, Adds, LookIs
<1> QED
  BY <1>10, <1>11, <1>12

(* Painted, and not yet gated *)
Painted(o, n, k) ==
  /\ n.percent # 0 =>
       /\ On(k, "raster") /\ On(k, "outline")
       /\ k.look["raster"].visible = TRUE /\ k.look["outline"].visible = TRUE
       /\ k.look["raster"].paint = n.percent
  /\ n.percent = 0 => k.look["raster"].visible = FALSE /\ k.look["outline"].visible = FALSE
  /\ o.percent # 0 /\ n.percent # 0 =>
       k.look["raster"].from = Floor(o) /\ k.look["outline"].from = Floor(o)
  /\ o.floor = None => /\ On(k, "raster") => k.look["raster"].from = WMS_MIN_ZOOM
                       /\ On(k, "outline") => k.look["outline"].from = WMS_MIN_ZOOM

LEMMA WmsDrawn ==
  ASSUME NEW o \in Wanted, NEW n \in Wanted, Changes(o, n), NEW m, IsMap(m), DrawsWms(o, m),
         NEW k, k = RunAll(m, PaintCatalogue(o, n))
  PROVE  IsMap(k) /\ Painted(o, n, k)
<1> DEFINE s == Work("show", "wms", n.percent)  t == Work("showline", "wms", 0)
           h == Work("hide", "wms", 0)  i == Work("hideline", "wms", 0)
           f == Work("fade", "wms", n.percent)
           A == o.percent = 0 /\ n.percent # 0
           B == o.percent # 0 /\ n.percent = 0
           C == o.percent # 0 /\ n.percent # 0 /\ o.percent # n.percent
           a == When(A, <<s, t>>)  b == When(B, <<h, i>>)  c == When(C, <<f>>)
           j == RunAll(m, a)  g == RunAll(j, b)
<1>0. n.percent \in Values /\ 0 \in Values
  BY ViewValues
<1>1. /\ Fits(s, {"wms"}) /\ Fits(t, {"wms"}) /\ Fits(h, {"wms"}) /\ Fits(i, {"wms"})
           /\ Fits(f, {"wms"})
      /\ s.does = "show" /\ t.does = "showline" /\ h.does = "hide" /\ i.does = "hideline"
      /\ f.does = "fade" /\ f.to = n.percent /\ s.to = n.percent
  <2>1. /\ Fits(s, {"wms"}) /\ Fits(t, {"wms"}) /\ Fits(h, {"wms"}) /\ Fits(i, {"wms"})
             /\ Fits(f, {"wms"})
    BY <1>0, CatalogueWorks
  <2> QED BY <2>1 DEF Work
<1>2. PaintCatalogue(o, n) = a \o b \o c
  BY DEF PaintCatalogue
<1>3. A \in BOOLEAN /\ B \in BOOLEAN /\ C \in BOOLEAN
  OBVIOUS
<1>4. /\ A <=> o.percent = 0 /\ n.percent # 0
      /\ B <=> o.percent # 0 /\ n.percent = 0
      /\ C <=> o.percent # 0 /\ n.percent # 0 /\ o.percent # n.percent
  OBVIOUS
<1> HIDE DEF s, t, h, i, f, A, B, C
<1>5. Lot(a, {"wms"}) /\ Lot(b, {"wms"})
  BY <1>1, WhenTwo
<1>6. Lot(c, {"wms"})
  BY <1>1, WhenOne
<1> HIDE DEF a, b, c
<1>7. k = RunAll(g, c)
  <2>1. a \o b \in Seq(Works)
    BY <1>5, LotMore DEF Lot
  <2>2. RunAll(m, a \o b) = g
    BY <1>5, RunCat DEF Lot
  <2>3. RunAll(m, (a \o b) \o c) = RunAll(RunAll(m, a \o b), c)
    BY <1>6, <2>1, RunCat DEF Lot
  <2> QED BY <1>2, <2>2, <2>3
<1>8. /\ IsMap(j) /\ (~A => j = m)
      /\ A => j = Run(Run(m, s), t) /\ IsMap(Run(m, s))
  BY <1>1, RunWhenTwo DEF a, Fits
<1> HIDE DEF j
<1>9. /\ IsMap(g) /\ (~B => g = j)
      /\ B => g = Run(Run(j, h), i) /\ IsMap(Run(j, h))
  BY <1>1, <1>8, RunWhenTwo DEF b, Fits
<1> HIDE DEF g
<1>10. IsMap(k) /\ (~C => k = g) /\ (C => k = Run(g, f))
  BY <1>1, <1>7, <1>9, RunWhenOne DEF c, Fits
<1>11. CASE A
  <2> DEFINE e == Run(m, s)
  <2>0. IsMap(e) /\ k = Run(e, t) /\ o.percent = 0 /\ n.percent # 0
    BY <1>4, <1>8, <1>9, <1>10, <1>11
  <2>1. s \in Works /\ s.layer = "wms" /\ t \in Works /\ t.layer = "wms"
    BY <1>1 DEF Fits
  <2>2. /\ Adds(m, e, {"raster"}) /\ e.look["outline"] = m.look["outline"]
        /\ LookIs(e.look["raster"], TRUE, s.to,
                  IF On(m, "raster") THEN m.look["raster"].from ELSE WMS_MIN_ZOOM,
                       m.look["raster"].of)
    BY <1>1, <2>1, RunWms
  <2> HIDE DEF e
  <2>3. /\ Adds(e, k, {"outline"}) /\ k.look["raster"] = e.look["raster"]
        /\ LookIs(k.look["outline"], TRUE, e.look["outline"].paint,
                  IF On(e, "outline") THEN e.look["outline"].from ELSE WMS_MIN_ZOOM,
                       e.look["outline"].of)
    BY <1>1, <2>0, <2>1, RunWms
  <2>4. /\ On(k, "raster") /\ On(k, "outline") /\ k.look["raster"].visible = TRUE
        /\ k.look["outline"].visible = TRUE /\ k.look["raster"].paint = n.percent
    BY <1>1, <2>2, <2>3 DEF Adds, LookIs
  <2>5. o.floor = None => k.look["raster"].from = WMS_MIN_ZOOM
    BY <2>2, <2>3 DEF DrawsWms, LookIs
  <2>6. o.floor = None => k.look["outline"].from = WMS_MIN_ZOOM
    BY <2>2, <2>3 DEF DrawsWms, LookIs, Adds
  <2> QED BY <1>10, <2>0, <2>4, <2>5, <2>6 DEF Painted
<1>12. CASE B
  <2> DEFINE e == Run(m, h)
  <2>0. IsMap(e) /\ k = Run(e, i) /\ o.percent # 0 /\ n.percent = 0
    BY <1>4, <1>8, <1>9, <1>10, <1>12
  <2>1. h \in Works /\ h.layer = "wms" /\ i \in Works /\ i.layer = "wms"
    BY <1>1 DEF Fits
  <2>2. /\ Adds(m, e, {}) /\ e.look["outline"] = m.look["outline"]
        /\ LookIs(e.look["raster"], FALSE, m.look["raster"].paint, m.look["raster"].from,
                  m.look["raster"].of)
    BY <1>1, <2>1, RunWms
  <2> HIDE DEF e
  <2>3. /\ Adds(e, k, {}) /\ k.look["raster"] = e.look["raster"]
        /\ LookIs(k.look["outline"], FALSE, e.look["outline"].paint, e.look["outline"].from,
                  e.look["outline"].of)
    BY <1>1, <2>0, <2>1, RunWms
  <2>4. k.look["raster"].visible = FALSE /\ k.look["outline"].visible = FALSE
    BY <2>2, <2>3 DEF LookIs
  <2>5. o.floor = None => /\ On(k, "raster") => k.look["raster"].from = WMS_MIN_ZOOM
                          /\ On(k, "outline") => k.look["outline"].from = WMS_MIN_ZOOM
    BY <2>2, <2>3 DEF DrawsWms, LookIs, Adds
  <2> QED BY <1>10, <2>0, <2>4, <2>5 DEF Painted
<1>13. CASE C
  <2>0. k = Run(m, f) /\ o.percent # 0 /\ n.percent # 0
    BY <1>4, <1>8, <1>9, <1>10, <1>13
  <2>1. f \in Works /\ f.layer = "wms"
    BY <1>1 DEF Fits
  <2>2. /\ Adds(m, k, {}) /\ k.look["outline"] = m.look["outline"]
        /\ LookIs(k.look["raster"], m.look["raster"].visible,
                  IF On(m, "raster") THEN f.to ELSE m.look["raster"].paint, m.look["raster"].from,
                       m.look["raster"].of)
    BY <1>1, <2>0, <2>1, RunWms
  <2> QED BY <1>1, <1>10, <2>0, <2>2 DEF DrawsWms, LookIs, Adds, Painted
<1>14. CASE ~A /\ ~B /\ ~C
  <2>0. k = m /\ o.percent = n.percent
    BY <1>4, <1>8, <1>9, <1>10, <1>14
  <2> QED BY <1>10, <2>0 DEF DrawsWms, Painted
<1> QED
  BY <1>11, <1>12, <1>13, <1>14

LEMMA GateDrawn ==
  ASSUME NEW o \in Wanted, NEW n \in Wanted, Changes(o, n), NEW m, IsMap(m), DrawsWms(o, m),
         NEW j, j = RunAll(m, PaintCatalogue(o, n)),
         NEW k, k = RunAll(j, GateCatalogue(o, n))
  PROVE  DrawsWms(n, k)
<1> DEFINE u == Work("minzoom", "wms", n.floor)  w == Work("maxzoom", "wms", n.floor)
           A == n.percent # 0 /\ n.floor # None /\ <<o.percent, o.floor>> # <<n.percent, n.floor>>
<1>0. n.floor # None => n.floor \in Values
  BY ViewValues
<1>1. /\ n.floor # None => Fits(u, {"wms"}) /\ Fits(w, {"wms"})
      /\ u.does = "minzoom" /\ w.does = "maxzoom" /\ u.to = n.floor /\ w.to = n.floor
  <2>1. n.floor # None => Fits(u, {"wms"}) /\ Fits(w, {"wms"})
    BY <1>0, CatalogueWorks
  <2> QED BY <2>1 DEF Work
<1>2. GateCatalogue(o, n) = When(A, <<u, w>>)
  BY DEF GateCatalogue
<1>3. /\ A \in BOOLEAN /\ (A => n.percent # 0 /\ n.floor # None)
      /\ ~A => n.percent = 0 \/ n.floor = None \/ (o.percent = n.percent /\ o.floor = n.floor)
  OBVIOUS
<1>4. n.floor = None => o.floor = None
  BY DEF Changes
<1>5. /\ IsMap(j)
      /\ n.percent # 0 =>
           /\ On(j, "raster") /\ On(j, "outline")
           /\ j.look["raster"].visible = TRUE /\ j.look["outline"].visible = TRUE
           /\ j.look["raster"].paint = n.percent
      /\ n.percent = 0 => j.look["raster"].visible = FALSE /\ j.look["outline"].visible = FALSE
      /\ o.percent # 0 /\ n.percent # 0 =>
           j.look["raster"].from = Floor(o) /\ j.look["outline"].from = Floor(o)
      /\ o.floor = None => /\ On(j, "raster") => j.look["raster"].from = WMS_MIN_ZOOM
                           /\ On(j, "outline") => j.look["outline"].from = WMS_MIN_ZOOM
  <2>1. /\ o \in Wanted /\ n \in Wanted /\ Changes(o, n) /\ IsMap(m) /\ DrawsWms(o, m)
        /\ j = RunAll(m, PaintCatalogue(o, n))
    OBVIOUS
  <2>2. IsMap(j) /\ Painted(o, n, j)
    BY ONLY <2>1, WmsDrawn
  <2> QED BY <2>2 DEF Painted
<1> HIDE DEF u, w, A
<1>6. /\ ~A => k = j
      /\ A => k = Run(Run(j, u), w) /\ IsMap(Run(j, u))
  BY <1>1, <1>2, <1>3, <1>5, RunWhenTwo DEF Fits
<1>7. CASE A
  <2> DEFINE e == Run(j, u)
  <2>0. IsMap(e) /\ k = Run(e, w)
    BY <1>6, <1>7
  <2>1. u \in Works /\ u.layer = "wms" /\ w \in Works /\ w.layer = "wms"
    BY <1>1, <1>3, <1>7 DEF Fits
  <2>2. /\ Adds(j, e, {}) /\ e.look["outline"] = j.look["outline"]
        /\ LookIs(e.look["raster"], j.look["raster"].visible, j.look["raster"].paint,
                  IF On(j, "raster") THEN u.to ELSE j.look["raster"].from, j.look["raster"].of)
    BY <1>1, <1>5, <2>1, RunWms
  <2> HIDE DEF e
  <2>3. /\ Adds(e, k, {}) /\ k.look["raster"] = e.look["raster"]
        /\ LookIs(k.look["outline"], e.look["outline"].visible, e.look["outline"].paint,
                  IF On(e, "outline") THEN w.to ELSE e.look["outline"].from, e.look["outline"].of)
    BY <1>1, <2>0, <2>1, RunWms
  <2>4. On(k, "raster") /\ On(k, "outline")
    BY <1>3, <1>5, <1>7, <2>2, <2>3 DEF Adds
  <2>5. k.look["raster"].from = n.floor /\ k.look["outline"].from = n.floor
    BY <1>1, <1>3, <1>5, <1>7, <2>2, <2>3 DEF Adds, LookIs
  <2>6. /\ k.look["raster"].visible = TRUE /\ k.look["outline"].visible = TRUE
        /\ k.look["raster"].paint = n.percent
    BY <1>3, <1>5, <1>7, <2>2, <2>3 DEF LookIs
  <2> QED BY <1>3, <1>7, <2>4, <2>5, <2>6 DEF DrawsWms, Floor
<1>8. CASE ~A
  <2>1. k = j
    BY <1>6, <1>8
  <2> QED BY <1>3, <1>4, <1>5, <1>8, <2>1 DEF DrawsWms, Floor
<1> QED
  BY <1>7, <1>8

LEMMA DotsDrawn ==
  ASSUME NEW o \in Wanted, NEW n \in Wanted, Changes(o, n), NEW m, IsMap(m), DrawsDots(o, m),
         NEW k, k = RunAll(m, DrawDots(o, n))
  PROVE  DrawsDots(n, k)
<1> DEFINE w == Work("dots", "dots", n.shown)
           A == n.loaded /\ <<o.loaded, o.shown>> # <<n.loaded, n.shown>>
<1>1. Fits(w, {"dots"}) /\ w.does = "dots" /\ w.to = n.shown
  BY ViewValues, DotsWorks DEF Work
<1>2. DrawDots(o, n) = When(A, <<w>>)
  BY DEF DrawDots
<1>3. A \in BOOLEAN /\ (n.loaded /\ ~A => o.loaded /\ o.shown = n.shown)
  BY DEF Wanted
<1> HIDE DEF w, A
<1>4. (A => k = Run(m, w)) /\ (~A => k = m)
  BY <1>1, <1>2, RunWhenOne DEF Fits
<1>5. CASE A
  <2>1. w \in Works /\ w.layer = "dots"
    BY <1>1 DEF Fits
  <2>2. /\ Adds(m, k, {"dots"})
        /\ LookIs(k.look["dots"], IF On(m, "dots") THEN m.look["dots"].visible ELSE TRUE,
                  m.look["dots"].paint, m.look["dots"].from, w.to)
    BY <1>1, <1>4, <1>5, <2>1, RunDots
  <2> QED BY <1>1, <2>2 DEF DrawsDots, Adds, LookIs
<1>6. CASE ~A
  BY <1>3, <1>4, <1>6 DEF DrawsDots
<1> QED
  BY <1>3, <1>5, <1>6

LEMMA ImportedDrawn ==
  ASSUME NEW o \in Wanted, NEW n \in Wanted, Changes(o, n), NEW m, IsMap(m), DrawsImported(o, m),
         NEW k, k = RunAll(m, DrawImported(o, n))
  PROVE  DrawsImported(n, k)
<1> DEFINE r == Work("remove", "imported", 0)
           u == Work("import", "imported", n.fade)
           v == Work("reveal", "imported", n.imported = "on")
           w == Work("refade", "imported", n.fade)
           A == o.imported # "gone" /\ o.imported # "new" /\ n.imported = "gone"
           B == o.imported = "new" /\ n.imported = "on"
           C == {o.imported, n.imported} = {"on", "off"}
           D == o.fade # n.fade /\ n.imported \in {"on", "off"}
           a == When(A, <<r>>)  b == When(B, <<u>>)  c == When(C, <<v>>)  d == When(D, <<w>>)
           g == RunAll(m, a)  h == RunAll(g, b)  j == RunAll(h, c)
<1>0. n.fade \in Values /\ 0 \in Values /\ (n.imported = "on") \in Values
  BY ViewValues
<1>1. /\ Fits(r, {"imported"}) /\ Fits(u, {"imported"}) /\ Fits(v, {"imported"})
           /\ Fits(w, {"imported"})
      /\ r.does = "remove" /\ u.does = "import" /\ v.does = "reveal" /\ w.does = "refade"
      /\ u.to = n.fade /\ w.to = n.fade
      /\ (n.imported = "on" => v.to = TRUE) /\ (n.imported # "on" => v.to = FALSE)
  <2>1. /\ Fits(r, {"imported"}) /\ Fits(u, {"imported"}) /\ Fits(v, {"imported"})
             /\ Fits(w, {"imported"})
    BY <1>0, ImportedWorks
  <2>2. v.to = (n.imported = "on")
    BY DEF Work
  <2> QED BY <2>1, <2>2 DEF Work
<1>2. DrawImported(o, n) = a \o b \o c \o d
  BY DEF DrawImported
<1>3. A \in BOOLEAN /\ B \in BOOLEAN /\ C \in BOOLEAN /\ D \in BOOLEAN
  OBVIOUS
<1>4. /\ A <=> o.imported \in {"on", "off"} /\ n.imported = "gone"
      /\ B <=> o.imported = "new" /\ n.imported = "on"
      /\ C <=> \/ o.imported = "on" /\ n.imported = "off"
               \/ o.imported = "off" /\ n.imported = "on"
      /\ D <=> o.fade # n.fade /\ n.imported \in {"on", "off"}
      /\ o.imported \in {"new", "on", "off", "gone"} /\ n.imported \in {"new", "on", "off", "gone"}
      /\ o.imported = "new" => n.imported \in {"new", "on"}
      /\ o.imported \in {"on", "off"} => n.imported # "new"
      /\ o.imported = "gone" => n.imported = "gone"
  <2>1. o.imported \in {"new", "on", "off", "gone"} /\ n.imported \in {"new", "on", "off", "gone"}
    BY DEF Wanted
  <2>2. C <=> (o.imported = "on" /\ n.imported = "off") \/ (o.imported = "off" /\ n.imported = "on")
    BY <2>1
  <2> QED BY <2>1, <2>2 DEF Changes
<1> HIDE DEF r, u, v, w, A, B, C, D
<1>5. Lot(a, {"imported"}) /\ Lot(b, {"imported"})
  BY <1>1, WhenOne
<1>6. Lot(c, {"imported"}) /\ Lot(d, {"imported"})
  BY <1>1, WhenOne
<1> HIDE DEF a, b, c, d
<1>7. k = RunAll(j, d)
  <2>1. a \o b \in Seq(Works) /\ RunAll(m, a \o b) = h
    BY <1>5, LotMore, RunCat DEF Lot
  <2>2. (a \o b) \o c \in Seq(Works) /\ RunAll(m, (a \o b) \o c) = j
    <3>1. (a \o b) \o c \in Seq(Works)
      BY <2>1, <1>6 DEF Lot
    <3>2. RunAll(m, (a \o b) \o c) = RunAll(RunAll(m, a \o b), c)
      BY <1>6, <2>1, RunCat DEF Lot
    <3> QED BY <2>1, <3>1, <3>2
  <2>3. RunAll(m, ((a \o b) \o c) \o d) = RunAll(RunAll(m, (a \o b) \o c), d)
    BY <1>6, <2>2, RunCat DEF Lot
  <2> QED BY <1>2, <2>2, <2>3
<1>8. IsMap(g) /\ (~A => g = m) /\ (A => g = Run(m, r))
  BY <1>1, RunWhenOne DEF a, Fits
<1> HIDE DEF g
<1>9. IsMap(h) /\ (~B => h = g) /\ (B => h = Run(g, u))
  BY <1>1, <1>8, RunWhenOne DEF b, Fits
<1> HIDE DEF h
<1>10. IsMap(j) /\ (~C => j = h) /\ (C => j = Run(h, v))
  BY <1>1, <1>9, RunWhenOne DEF c, Fits
<1> HIDE DEF j
<1>11. IsMap(k) /\ (~D => k = j) /\ (D => k = Run(j, w))
  BY <1>1, <1>7, <1>10, RunWhenOne DEF d, Fits
<1>12. /\ r \in Works /\ r.layer = "imported" /\ u \in Works /\ u.layer = "imported"
       /\ v \in Works /\ v.layer = "imported" /\ w \in Works /\ w.layer = "imported"
  BY <1>1 DEF Fits
<1>13. CASE A
  <2>1. k = Run(m, r) /\ n.imported = "gone"
    BY <1>4, <1>8, <1>9, <1>10, <1>11, <1>13
  <2>2. Drops(m, k, "imported") /\ k.look["imported"] = Absent
    BY <1>1, <1>12, <2>1, RunImported
  <2> QED BY <2>1, <2>2, AbsentIs DEF DrawsImported, Drops
<1>14. CASE B
  <2>1. j = Run(m, u) /\ n.imported = "on" /\ ~On(m, "imported")
    <3>1. ~On(m, "imported")
      BY <1>4, <1>14 DEF DrawsImported
    <3> QED BY <1>4, <1>8, <1>9, <1>10, <1>14, <3>1
  <2>2. Adds(m, j, {"imported"}) /\ LookIs(j.look["imported"], TRUE, u.to, 0, {})
    BY <1>1, <1>12, <2>1, RunImported
  <2>3. CASE ~D
    <3>1. k = j
      BY <1>11, <2>3
    <3> QED BY <1>1, <2>1, <2>2, <3>1 DEF DrawsImported, Adds, LookIs
  <2>4. CASE D
    <3>1. k = Run(j, w)
      BY <1>11, <2>4
    <3>2. /\ Adds(j, k, {})
          /\ LookIs(k.look["imported"], j.look["imported"].visible,
                    IF On(j, "imported") THEN w.to ELSE j.look["imported"].paint,
                         j.look["imported"].from, j.look["imported"].of)
      BY <1>1, <1>10, <1>12, <3>1, RunImported
    <3> QED BY <1>1, <2>1, <2>2, <3>2 DEF DrawsImported, Adds, LookIs
  <2> QED BY <2>3, <2>4
<1>15. CASE ~A /\ ~B
  <2>0. h = m /\ (n.imported \in {"on", "off"} => o.imported \in {"on", "off"})
        /\ (n.imported \notin {"on", "off"} => o.imported \notin {"on", "off"})
    BY <1>4, <1>8, <1>9, <1>15
  <2>1. /\ On(j, "imported") <=> On(m, "imported")
        /\ n.imported = "on" => j.look["imported"].visible = TRUE
        /\ n.imported # "on" => j.look["imported"].visible = FALSE
        /\ j.look["imported"].paint = m.look["imported"].paint
    <3>1. CASE C
      <4>0. On(m, "imported")
        BY <1>4, <3>1 DEF DrawsImported
      <4>1. /\ Adds(m, j, {})
            /\ LookIs(j.look["imported"],
                      IF On(m, "imported") THEN v.to ELSE m.look["imported"].visible,
                           m.look["imported"].paint, m.look["imported"].from, m.look["imported"].of)
        BY <1>1, <1>10, <1>12, <2>0, <3>1, RunImported
      <4> QED BY <1>1, <4>0, <4>1 DEF Adds, LookIs
    <3>2. CASE ~C
      <4>1. j = m /\ (n.imported = "on" <=> o.imported = "on")
        BY <1>4, <1>10, <1>15, <2>0, <3>2
      <4> QED BY <4>1 DEF DrawsImported
    <3> QED BY <3>1, <3>2
  <2>2. CASE ~D
    <3>1. k = j /\ (n.imported \in {"on", "off"} => o.fade = n.fade)
      BY <1>4, <1>11, <2>2
    <3> QED BY <2>0, <2>1, <3>1 DEF DrawsImported
  <2>3. CASE D
    <3>1. k = Run(j, w) /\ n.imported \in {"on", "off"}
      BY <1>4, <1>11, <2>3
    <3>2. /\ Adds(j, k, {})
          /\ LookIs(k.look["imported"], j.look["imported"].visible,
                    IF On(j, "imported") THEN w.to ELSE j.look["imported"].paint,
                         j.look["imported"].from, j.look["imported"].of)
      BY <1>1, <1>10, <1>12, <3>1, RunImported
    <3> QED BY <1>1, <2>0, <2>1, <3>1, <3>2 DEF DrawsImported, Adds, LookIs
  <2> QED BY <2>2, <2>3
<1> QED
  BY <1>13, <1>14, <1>15

(* What is cleaned up is what no longer is wanted as it was *)
Cleaned(o, n, m, k) ==
  /\ o.eaoStyle /\ o.chosen # {} /\ o.chosen # n.chosen =>
       ~On(k, "selected") /\ k.look["selected"] = Absent
  /\ ~(o.eaoStyle /\ o.chosen # {} /\ o.chosen # n.chosen) =>
       (On(k, "selected") <=> On(m, "selected")) /\ k.look["selected"] = m.look["selected"]
  /\ o.eaoStyle /\ o.picked # {} /\ o.picked # n.picked =>
       ~On(k, "picked") /\ k.look["picked"] = Absent
  /\ ~(o.eaoStyle /\ o.picked # {} /\ o.picked # n.picked) =>
       (On(k, "picked") <=> On(m, "picked")) /\ k.look["picked"] = m.look["picked"]
  /\ o.mark # "none" /\ o.mark # n.mark => k.look["marked"] = Absent
  /\ ~(o.mark # "none" /\ o.mark # n.mark) => k.look["marked"] = m.look["marked"]
  /\ On(k, "footprint") <=> On(m, "footprint")
  /\ On(k, "component") <=> On(m, "component")
  /\ k.look["footprint"] = m.look["footprint"] /\ k.look["component"] = m.look["component"]

LEMMA CleanupsDrawn ==
  ASSUME NEW o \in Wanted, NEW n \in Wanted, NEW m, IsMap(m), NEW k, k = RunAll(m, Cleanups(o, n))
  PROVE  Cleaned(o, n, m, k)
<1> DEFINE u == Work("unselect", "eao", {})
           v == Work("unpick", "eao", {})
           w == Work("unmark", "mark", {})
           A == o.eaoStyle /\ o.chosen # {} /\ o.chosen # n.chosen
           B == o.eaoStyle /\ o.picked # {} /\ o.picked # n.picked
           C == o.mark # "none" /\ o.mark # n.mark
           a == When(A, <<u>>)  b == When(B, <<v>>)  c == When(C, <<w>>)
           h == RunAll(m, a)  j == RunAll(h, b)
<1>0. {} \in Values /\ "shape" \in Kinds
  BY ViewValues DEF Kinds
<1>1. /\ Fits(u, {"eao"}) /\ Fits(v, {"eao"}) /\ Fits(w, {"mark"})
      /\ u.does = "unselect" /\ v.does = "unpick" /\ w.does = "unmark"
  <2>1. /\ Fits(u, {"eao"}) /\ Fits(v, {"eao"}) /\ Fits(w, {"mark"})
    BY <1>0, SelectionWorks, MarkWorks
  <2> QED BY <2>1 DEF Work
<1>2. Cleanups(o, n) = a \o b \o c
  BY DEF Cleanups
<1>4. /\ A <=> o.eaoStyle /\ o.chosen # {} /\ o.chosen # n.chosen
      /\ B <=> o.eaoStyle /\ o.picked # {} /\ o.picked # n.picked
      /\ C <=> o.mark # "none" /\ o.mark # n.mark
  OBVIOUS
<1> HIDE DEF u, v, w, A, B, C
<1>5. Lot(a, {"eao"}) /\ Lot(b, {"eao"}) /\ Lot(c, {"mark"})
  BY <1>1, WhenOne
<1> HIDE DEF a, b, c
<1>7. k = RunAll(j, c)
  <2>1. a \o b \in Seq(Works) /\ RunAll(m, a \o b) = j
    BY <1>5, LotMore, RunCat DEF Lot
  <2>3. RunAll(m, (a \o b) \o c) = RunAll(RunAll(m, a \o b), c)
    BY <1>5, <2>1, RunCat DEF Lot
  <2> QED BY <1>2, <2>1, <2>3
<1>8. IsMap(h) /\ (~A => h = m) /\ (A => h = Run(m, u))
  BY <1>1, RunWhenOne DEF a, Fits
<1> HIDE DEF h
<1>9. IsMap(j) /\ (~B => j = h) /\ (B => j = Run(h, v))
  BY <1>1, <1>8, RunWhenOne DEF b, Fits
<1> HIDE DEF j
<1>10. IsMap(k) /\ (~C => k = j) /\ (C => k = Run(j, w))
  BY <1>1, <1>7, <1>9, RunWhenOne DEF c, Fits
<1>11. /\ u \in Works /\ u.layer = "eao" /\ v \in Works /\ v.layer = "eao"
       /\ w \in Works /\ w.layer = "mark"
  BY <1>1 DEF Fits
<1>12. A => Drops(m, h, "selected") /\ h.look["selected"] = Absent /\ LookKept(m, h, {"selected"})
  BY <1>1, <1>8, <1>11, RunEao
<1>13. B => Drops(h, j, "picked") /\ j.look["picked"] = Absent /\ LookKept(h, j, {"picked"})
  BY <1>1, <1>8, <1>9, <1>11, RunEao
<1>14. C => Drops(j, k, "marked") /\ k.look["marked"] = Absent /\ LookKept(j, k, {"marked"})
  BY <1>1, <1>9, <1>10, <1>11, RunMark
<1> DEFINE E == {"footprint", "component", "marked", "picked", "selected"}
<1>15. E \subseteq Widget
  BY LayerNames
<1>16. \A l \in E : /\ l # "selected" \/ ~A => (On(h, l) <=> On(m, l)) /\ h.look[l] = m.look[l]
                    /\ l = "selected" /\ A => ~On(h, l) /\ h.look[l] = Absent
  BY <1>8, <1>12, <1>15 DEF Drops, LookKept
<1>17. \A l \in E : /\ l # "picked" \/ ~B => (On(j, l) <=> On(h, l)) /\ j.look[l] = h.look[l]
                    /\ l = "picked" /\ B => ~On(j, l) /\ j.look[l] = Absent
  BY <1>9, <1>13, <1>15 DEF Drops, LookKept
<1>18. \A l \in E : /\ l # "marked" \/ ~C => (On(k, l) <=> On(j, l)) /\ k.look[l] = j.look[l]
                    /\ l = "marked" /\ C => ~On(k, l) /\ k.look[l] = Absent
  BY <1>10, <1>14, <1>15 DEF Drops, LookKept
<1>19. /\ "footprint" \in E /\ "component" \in E /\ "marked" \in E /\ "picked" \in E
            /\ "selected" \in E
  OBVIOUS
<1> HIDE DEF E
<1> QED
  BY <1>4, <1>16, <1>17, <1>18, <1>19 DEF Cleaned

LEMMA MarkDrawn ==
  ASSUME NEW o \in Wanted, NEW n \in Wanted, NEW m, IsMap(m),
         o.mark = n.mark => DrawsMark(o, m),
         o.mark # n.mark /\ n.mark = "none" => m.look["marked"] = Absent,
         n.mark = "local" /\ o.mark # n.mark => On(m, "line"),
         NEW k, k = RunAll(m, HighlightMarked(o, n))
  PROVE  DrawsMark(n, k)
<1> DEFINE w == Work("mark", "mark", n.mark)
           A == n.mark # "none" /\ o.mark # n.mark
<1>1. A => w \in Works /\ w.layer = "mark" /\ w.does = "mark" /\ w.to = n.mark
  <2>1. A => n.mark \in Kinds
    BY ViewValues
  <2>2. {} \in Values
    BY ViewValues
  <2>3. A => w \in Works /\ w.layer = "mark"
    BY <2>1, <2>2, MarkWorks
  <2> QED BY <2>3 DEF Work
<1>2. HighlightMarked(o, n) = When(A, <<w>>)
  BY DEF HighlightMarked
<1>3. A \in BOOLEAN /\ (A <=> n.mark # "none" /\ o.mark # n.mark)
  OBVIOUS
<1> HIDE DEF w, A
<1>4. (A => k = Run(m, w)) /\ (~A => k = m)
  BY <1>1, <1>2, RunWhenOne
<1>5. CASE A /\ n.mark = "local"
  <2>1. On(m, "line") => LookIs(k.look["marked"], TRUE, 0, 0, {"local"})
    BY <1>1, <1>4, <1>5, RunMark
  <2> QED BY <1>3, <1>5, <2>1 DEF DrawsMark, LookIs
<1>6. CASE A /\ n.mark # "local"
  <2>1. LookIs(k.look["marked"], TRUE, 0, 0, {w.to})
    BY <1>1, <1>4, <1>6, RunMark
  <2> QED BY <1>1, <1>3, <1>6, <2>1 DEF DrawsMark, LookIs
<1>7. CASE ~A
  <2>1. k = m
    BY <1>4, <1>7
  <2> QED BY <1>3, <1>7, <2>1, AbsentIs DEF DrawsMark
<1> QED
  BY <1>5, <1>6, <1>7

LEMMA EaoShown ==
  ASSUME NEW o \in Wanted, NEW n \in Wanted, NEW m, IsMap(m), NEW k, k = RunAll(m, DrawEao(o, n))
  PROVE  /\ IsMap(k)
         /\ n.eaoStyle /\ ~o.eaoStyle => Adds(m, k, {"footprint", "component"})
              /\ k.look["picked"] = m.look["picked"] /\ k.look["selected"] = m.look["selected"]
         /\ ~(n.eaoStyle /\ ~o.eaoStyle) => k = m
<1> DEFINE w == Work("showHosted", "eao", Eao)
           A == n.eaoStyle /\ ~o.eaoStyle
<1>1. Fits(w, {"eao"}) /\ w.does = "showHosted"
  BY ViewValues, HostedWorks DEF Work
<1>2. DrawEao(o, n) = When(A, <<w>>)
  BY DEF DrawEao
<1>0. A <=> n.eaoStyle /\ ~o.eaoStyle
  OBVIOUS
<1> HIDE DEF w, A
<1>3. w \in Works /\ w.layer = "eao"
  BY <1>1 DEF Fits
<1>4. IsMap(k) /\ (A => k = Run(m, w)) /\ (~A => k = m)
  BY <1>2, <1>3, RunWhenOne
<1>5. A => /\ Adds(m, k, {"footprint", "component"})
           /\ k.look["picked"] = m.look["picked"] /\ k.look["selected"] = m.look["selected"]
  BY <1>1, <1>3, <1>4, RunEao
<1> QED
  BY <1>0, <1>4, <1>5

LEMMA EaoFiltered ==
  ASSUME NEW o \in Wanted, NEW n \in Wanted, NEW m, IsMap(m), NEW k, k = RunAll(m, FilterEao(o, n)),
         n.eaoStyle => On(m, "footprint") /\ On(m, "component")
  PROVE  /\ IsMap(k)
         /\ Adds(m, k, {})
         /\ k.look["picked"] = m.look["picked"] /\ k.look["selected"] = m.look["selected"]
         /\ n.eaoStyle => \/ /\ k.look["footprint"].of = SpecFilters(n).footprint
                             /\ k.look["component"].of = SpecFilters(n).component
                          \/ k = m /\ o.eaoStyle /\ SpecFilters(o) = SpecFilters(n)
<1> DEFINE w == Work("filter", "eao", SpecFilters(n))
           A == n.eaoStyle /\ <<o.eaoStyle, o.shown, o.hidden, o.revealed, o.chosen>>
                       # <<n.eaoStyle, n.shown, n.hidden, n.revealed, n.chosen>>
<1>1. Fits(w, {"eao"}) /\ w.does = "filter" /\ w.to = SpecFilters(n)
  <2>1. Fits(w, {"eao"})
    BY FiltersAre, FilterWorks
  <2> QED BY <2>1 DEF Work
<1>2. FilterEao(o, n) = When(A, <<w>>)
  BY DEF FilterEao
<1>3. n.eaoStyle /\ ~A => o.eaoStyle /\ SpecFilters(o) = SpecFilters(n)
  <2>1. n.eaoStyle /\ ~A => /\ o.eaoStyle = n.eaoStyle /\ o.shown = n.shown /\ o.hidden = n.hidden
                            /\ o.revealed = n.revealed /\ o.chosen = n.chosen
    OBVIOUS
  <2> QED BY <2>1 DEF SpecFilters
<1>4. A => n.eaoStyle
  OBVIOUS
<1> HIDE DEF w, A
<1>5. w \in Works /\ w.layer = "eao"
  BY <1>1 DEF Fits
<1>6. IsMap(k) /\ (A => k = Run(m, w)) /\ (~A => k = m)
  BY <1>2, <1>5, RunWhenOne
<1>7. A => /\ Adds(m, k, {})
           /\ k.look["picked"] = m.look["picked"]
           /\ k.look["selected"] = m.look["selected"]
           /\ LookIs(k.look["footprint"], m.look["footprint"].visible, m.look["footprint"].paint,
                     m.look["footprint"].from, IF On(m, "footprint") THEN w.to["footprint"] ELSE {})
           /\ LookIs(k.look["component"], m.look["component"].visible, m.look["component"].paint,
                     m.look["component"].from, IF On(m, "component") THEN w.to["component"] ELSE {})
  BY <1>1, <1>5, <1>6, RunEao
<1>8. CASE A
  <2>1. Adds(m, k, {})
    BY <1>7, <1>8
  <2>2. /\ k.look["footprint"].of = SpecFilters(n)["footprint"]
        /\ k.look["component"].of = SpecFilters(n)["component"]
    BY <1>1, <1>4, <1>7, <1>8 DEF LookIs
  <2> QED BY <1>6, <1>7, <1>8, <2>1, <2>2
<1>9. CASE ~A
  BY <1>3, <1>6, <1>9 DEF Adds
<1> QED
  BY <1>8, <1>9

LEMMA SelectionDrawn ==
  ASSUME NEW o \in Wanted, NEW n \in Wanted, NEW m, IsMap(m), n.eaoStyle => On(m, "component"),
         NEW j, j = RunAll(m, OutlineSelection(o, n)),
         NEW k, k = RunAll(j, HighlightComponent(o, n))
  PROVE  /\ IsMap(k)
         /\ On(k, "footprint") <=> On(m, "footprint")
         /\ On(k, "component") <=> On(m, "component")
         /\ k.look["footprint"] = m.look["footprint"] /\ k.look["component"] = m.look["component"]
         /\ \/ n.eaoStyle /\ k.look["selected"].of = n.chosen
            \/ /\ (On(k, "selected") <=> On(m, "selected"))
                    /\ k.look["selected"] = m.look["selected"]
               /\ n.eaoStyle => n.chosen = {} \/ (o.eaoStyle /\ o.chosen = n.chosen)
         /\ \/ n.eaoStyle /\ k.look["picked"].of = n.picked
            \/ /\ (On(k, "picked") <=> On(m, "picked")) /\ k.look["picked"] = m.look["picked"]
               /\ n.eaoStyle => n.picked = {} \/ (o.eaoStyle /\ o.picked = n.picked)
<1> DEFINE u == Work("select", "eao", n.chosen)
           w == Work("pick", "eao", n.picked)
           A == n.eaoStyle /\ n.chosen # {} /\ <<o.eaoStyle, o.chosen>> # <<n.eaoStyle, n.chosen>>
           B == n.eaoStyle /\ n.picked # {} /\ <<o.eaoStyle, o.picked>> # <<n.eaoStyle, n.picked>>
<1>1. /\ Fits(u, {"eao"}) /\ u.does = "select" /\ u.to = n.chosen
      /\ Fits(w, {"eao"}) /\ w.does = "pick" /\ w.to = n.picked
  <2>1. n.chosen \in Values /\ n.picked \in Values
    BY ViewValues
  <2>2. Fits(u, {"eao"}) /\ Fits(w, {"eao"})
    BY <2>1, SelectionWorks
  <2> QED BY <2>2 DEF Work
<1>2. OutlineSelection(o, n) = When(A, <<u>>) /\ HighlightComponent(o, n) = When(B, <<w>>)
  BY DEF OutlineSelection, HighlightComponent
<1>3. /\ A => n.eaoStyle
      /\ ~A /\ n.eaoStyle => n.chosen = {} \/ (o.eaoStyle /\ o.chosen = n.chosen)
      /\ B => n.eaoStyle
      /\ ~B /\ n.eaoStyle => n.picked = {} \/ (o.eaoStyle /\ o.picked = n.picked)
  OBVIOUS
<1> HIDE DEF u, w, A, B
<1>4. u \in Works /\ u.layer = "eao" /\ w \in Works /\ w.layer = "eao"
  BY <1>1 DEF Fits
<1>5. IsMap(j) /\ (A => j = Run(m, u)) /\ (~A => j = m)
  BY <1>2, <1>4, RunWhenOne
<1>6. IsMap(k) /\ (B => k = Run(j, w)) /\ (~B => k = j)
  BY <1>2, <1>4, <1>5, RunWhenOne
<1>7. A => /\ RidesOn(m, j, "selected", "component") /\ LookKept(m, j, {"selected"})
           /\ On(m, "component") => LookIs(j.look["selected"], TRUE, 0, 0, u.to)
  BY <1>1, <1>4, <1>5, RunEao
<1>8. B => /\ RidesOn(j, k, "picked", "component") /\ LookKept(j, k, {"picked"})
           /\ On(j, "component") => LookIs(k.look["picked"], TRUE, 0, 0, w.to)
  BY <1>1, <1>4, <1>5, <1>6, RunEao
<1> DEFINE E == {"footprint", "component", "picked", "selected"}
<1>9. E \subseteq Widget
  BY LayerNames
<1>10. \A l \in E : l # "selected" \/ ~A => (On(j, l) <=> On(m, l)) /\ j.look[l] = m.look[l]
  BY <1>5, <1>7, <1>9 DEF RidesOn, LookKept
<1>11. \A l \in E : l # "picked" \/ ~B => (On(k, l) <=> On(j, l)) /\ k.look[l] = j.look[l]
  BY <1>6, <1>8, <1>9 DEF RidesOn, LookKept
<1>12. "footprint" \in E /\ "component" \in E /\ "picked" \in E /\ "selected" \in E
  OBVIOUS
<1> HIDE DEF E
<1>13. A => n.eaoStyle /\ j.look["selected"].of = n.chosen
  BY <1>1, <1>3, <1>7 DEF LookIs
<1>14. On(j, "component") <=> On(m, "component")
  BY <1>10, <1>12
<1>15. B => n.eaoStyle /\ k.look["picked"].of = n.picked
  BY <1>1, <1>3, <1>8, <1>14 DEF LookIs
<1>16. /\ (On(k, "selected") <=> On(j, "selected")) /\ k.look["selected"] = j.look["selected"]
       /\ ~A => (On(j, "selected") <=> On(m, "selected")) /\ j.look["selected"] = m.look["selected"]
       /\ (On(j, "picked") <=> On(m, "picked")) /\ j.look["picked"] = m.look["picked"]
       /\ ~B => (On(k, "picked") <=> On(j, "picked")) /\ k.look["picked"] = j.look["picked"]
  BY <1>10, <1>11, <1>12
<1>17. /\ (On(k, "footprint") <=> On(m, "footprint")) /\ (On(k, "component") <=> On(m, "component"))
       /\ k.look["footprint"] = m.look["footprint"] /\ k.look["component"] = m.look["component"]
  BY <1>10, <1>11, <1>12
<1>18. \/ n.eaoStyle /\ k.look["selected"].of = n.chosen
       \/ /\ (On(k, "selected") <=> On(m, "selected")) /\ k.look["selected"] = m.look["selected"]
          /\ n.eaoStyle => n.chosen = {} \/ (o.eaoStyle /\ o.chosen = n.chosen)
  BY <1>3, <1>13, <1>16
<1>19. \/ n.eaoStyle /\ k.look["picked"].of = n.picked
       \/ /\ (On(k, "picked") <=> On(m, "picked")) /\ k.look["picked"] = m.look["picked"]
          /\ n.eaoStyle => n.picked = {} \/ (o.eaoStyle /\ o.picked = n.picked)
  BY <1>3, <1>15, <1>16
<1> QED
  BY <1>6, <1>17, <1>18, <1>19

LEMMA EaoDrawn ==
  ASSUME NEW o \in Wanted, NEW n \in Wanted, Changes(o, n), NEW m, IsMap(m), DrawsEao(o, m),
         NEW a, IsMap(a), Cleaned(o, n, m, a), NEW b, IsMap(b), Agree(a, b, "eao"),
         NEW c, c = RunAll(b, DrawEao(o, n)),
         NEW d, d = RunAll(c, FilterEao(o, n)),
         NEW e, e = RunAll(d, OutlineSelection(o, n)),
         NEW k, k = RunAll(e, HighlightComponent(o, n))
  PROVE  DrawsEao(n, k)
<1>0. o.eaoStyle => n.eaoStyle
  BY DEF Changes
<1>1. /\ On(b, "selected") <=> On(a, "selected")
      /\ On(b, "picked") <=> On(a, "picked")
      /\ On(b, "footprint") <=> On(m, "footprint")
      /\ On(b, "component") <=> On(m, "component")
      /\ b.look["selected"] = a.look["selected"] /\ b.look["picked"] = a.look["picked"]
      /\ b.look["footprint"] = m.look["footprint"] /\ b.look["component"] = m.look["component"]
  BY LanesAre DEF Agree, Cleaned
<1>2. /\ o.eaoStyle /\ o.chosen = n.chosen => b.look["selected"].of = n.chosen
      /\ n.chosen = {} => b.look["selected"].of = {}
      /\ ~o.eaoStyle => ~On(b, "selected")
  <2>1. ~o.eaoStyle => ~On(b, "selected") /\ ~On(m, "selected")
    BY <1>1 DEF Cleaned, DrawsEao
  <2>2. ~o.eaoStyle => b.look["selected"].of = {}
    BY <2>1, AbsentIs, LayerNames DEF IsMap, Shaped
  <2>3. o.eaoStyle /\ o.chosen = n.chosen => b.look["selected"].of = n.chosen
    BY <1>1 DEF Cleaned, DrawsEao
  <2>4. o.eaoStyle /\ o.chosen # n.chosen /\ n.chosen = {} => b.look["selected"].of = {}
    BY <1>1, AbsentIs DEF Cleaned, DrawsEao
  <2> QED BY <2>1, <2>2, <2>3, <2>4
<1>3. /\ o.eaoStyle /\ o.picked = n.picked => b.look["picked"].of = n.picked
      /\ n.picked = {} => b.look["picked"].of = {}
      /\ ~o.eaoStyle => ~On(b, "picked")
  <2>1. ~o.eaoStyle => ~On(b, "picked") /\ ~On(m, "picked")
    BY <1>1 DEF Cleaned, DrawsEao
  <2>2. ~o.eaoStyle => b.look["picked"].of = {}
    BY <2>1, AbsentIs, LayerNames DEF IsMap, Shaped
  <2>3. o.eaoStyle /\ o.picked = n.picked => b.look["picked"].of = n.picked
    BY <1>1 DEF Cleaned, DrawsEao
  <2>4. o.eaoStyle /\ o.picked # n.picked /\ n.picked = {} => b.look["picked"].of = {}
    BY <1>1, AbsentIs DEF Cleaned, DrawsEao
  <2> QED BY <2>1, <2>2, <2>3, <2>4
<1>4. /\ IsMap(c)
      /\ n.eaoStyle /\ ~o.eaoStyle => Adds(b, c, {"footprint", "component"})
           /\ c.look["picked"] = b.look["picked"] /\ c.look["selected"] = b.look["selected"]
      /\ ~(n.eaoStyle /\ ~o.eaoStyle) => c = b
  BY EaoShown
<1>5. /\ n.eaoStyle => On(c, "footprint") /\ On(c, "component")
      /\ ~n.eaoStyle => ~On(c, "footprint") /\ ~On(c, "component")
      /\ On(c, "selected") <=> On(b, "selected")
      /\ On(c, "picked") <=> On(b, "picked")
      /\ c.look["picked"] = b.look["picked"] /\ c.look["selected"] = b.look["selected"]
      /\ o.eaoStyle => c.look["footprint"].of = SpecFilters(o).footprint
                       /\ c.look["component"].of = SpecFilters(o).component
  BY <1>0, <1>1, <1>4 DEF Adds, DrawsEao
<1>6. /\ IsMap(d)
      /\ Adds(c, d, {})
      /\ d.look["picked"] = c.look["picked"] /\ d.look["selected"] = c.look["selected"]
      /\ n.eaoStyle => \/ /\ d.look["footprint"].of = SpecFilters(n).footprint
                          /\ d.look["component"].of = SpecFilters(n).component
                       \/ d = c /\ o.eaoStyle /\ SpecFilters(o) = SpecFilters(n)
  <2>1. /\ o \in Wanted /\ n \in Wanted /\ IsMap(c) /\ d = RunAll(c, FilterEao(o, n))
        /\ n.eaoStyle => On(c, "footprint") /\ On(c, "component")
    BY <1>4, <1>5
  <2> QED BY ONLY <2>1, EaoFiltered
<1>7. n.eaoStyle => /\ d.look["footprint"].of = SpecFilters(n).footprint
                    /\ d.look["component"].of = SpecFilters(n).component
  BY <1>5, <1>6
<1>8. n.eaoStyle => On(d, "component")
  BY <1>5, <1>6 DEF Adds
<1>9. /\ IsMap(k)
      /\ On(k, "footprint") <=> On(d, "footprint")
      /\ On(k, "component") <=> On(d, "component")
      /\ k.look["footprint"] = d.look["footprint"] /\ k.look["component"] = d.look["component"]
      /\ \/ n.eaoStyle /\ k.look["selected"].of = n.chosen
         \/ /\ (On(k, "selected") <=> On(d, "selected")) /\ k.look["selected"] = d.look["selected"]
            /\ n.eaoStyle => n.chosen = {} \/ (o.eaoStyle /\ o.chosen = n.chosen)
      /\ \/ n.eaoStyle /\ k.look["picked"].of = n.picked
         \/ /\ (On(k, "picked") <=> On(d, "picked")) /\ k.look["picked"] = d.look["picked"]
            /\ n.eaoStyle => n.picked = {} \/ (o.eaoStyle /\ o.picked = n.picked)
  BY <1>6, <1>8, SelectionDrawn
<1>10. n.eaoStyle => k.look["selected"].of = n.chosen
  BY <1>2, <1>5, <1>6, <1>9 DEF Adds
<1>11. n.eaoStyle => k.look["picked"].of = n.picked
  BY <1>3, <1>5, <1>6, <1>9 DEF Adds
<1>12. ~n.eaoStyle => ~On(k, "selected") /\ ~On(k, "picked")
  BY <1>0, <1>2, <1>3, <1>5, <1>6, <1>9 DEF Adds
<1>13. /\ n.eaoStyle => On(k, "footprint") /\ On(k, "component")
       /\ ~n.eaoStyle => ~On(k, "footprint") /\ ~On(k, "component")
  BY <1>5, <1>6, <1>9 DEF Adds
<1> QED
  BY <1>7, <1>9, <1>10, <1>11, <1>12, <1>13 DEF DrawsEao

(* A sequence of works none of which marks a hosted feature the map has no    *)
(* tiles of.                                                                  *)
LinedLot(m, q) == q \in Seq(Works) /\ Lined(m, q)

LEMMA LinedCat ==
  ASSUME NEW m, NEW s, NEW t, LinedLot(m, s), LinedLot(m, t)
  PROVE  LinedLot(m, s \o t)
<1>0. s \in Seq(Works) /\ t \in Seq(Works)
  BY DEF LinedLot
<1>1. /\ s \o t \in Seq(Works) /\ Len(s \o t) = Len(s) + Len(t)
      /\ \A i \in 1..(Len(s) + Len(t)) : (s \o t)[i] = IF i <= Len(s) THEN s[i] ELSE t[i - Len(s)]
  BY <1>0, ConcatProperties
<1>2. Len(s) \in Nat /\ Len(t) \in Nat
  BY <1>0
<1>3. ASSUME NEW i \in 1..(Len(s) + Len(t)), Local((s \o t)[i])
      PROVE  On(m, "line")
  <2>1. CASE i <= Len(s)
    <3>1. i \in 1..Len(s) /\ (s \o t)[i] = s[i]
      BY <1>1, <1>2, <2>1
    <3> QED BY <1>3, <3>1 DEF LinedLot, Lined
  <2>2. CASE ~(i <= Len(s))
    <3>1. i - Len(s) \in 1..Len(t) /\ (s \o t)[i] = t[i - Len(s)]
      BY <1>1, <1>2, <2>2
    <3> QED BY <1>3, <3>1 DEF LinedLot, Lined
  <2> QED BY <2>1, <2>2
<1> QED
  BY <1>1, <1>3 DEF LinedLot, Lined

LEMMA PlainLined ==
  ASSUME NEW m, NEW q, NEW S, Lot(q, S)
  PROVE  LinedLot(m, q)
BY DEF Lot, Plain, LinedLot, Lined

LEMMA MarkLined ==
  ASSUME NEW o \in Wanted, NEW n \in Wanted, NEW m,
         n.mark = "local" /\ o.mark # "local" => On(m, "line")
  PROVE  /\ LinedLot(m, HighlightMarked(o, n)) /\ InLanes(HighlightMarked(o, n), {"mark"})
<1> DEFINE w == Work("mark", "mark", n.mark)
           A == n.mark # "none" /\ o.mark # n.mark
<1>1. A => w \in Works /\ w.layer = "mark" /\ (Local(w) => On(m, "line"))
  <2>1. {} \in Values /\ (A => n.mark \in Kinds)
    BY ViewValues
  <2>2. A => w \in Works /\ w.layer = "mark"
    BY <2>1, MarkWorks
  <2>3. Local(w) => n.mark = "local"
    BY DEF Work, Local
  <2> QED BY <2>2, <2>3
<1>2. HighlightMarked(o, n) = When(A, <<w>>)
  BY DEF HighlightMarked
<1>3. A \in BOOLEAN
  OBVIOUS
<1> HIDE DEF w, A
<1>4. CASE A
  <2>1. <<w>> \in Seq(Works) /\ Len(<<w>>) = 1 /\ <<w>>[1] = w
    BY <1>1, <1>4
  <2>2. LinedLot(m, <<w>>) /\ InLanes(<<w>>, {"mark"})
    BY <1>1, <1>4, <2>1 DEF LinedLot, Lined, InLanes
  <2>3. HighlightMarked(o, n) = <<w>>
    BY <1>2, <1>4 DEF When
  <2> QED BY <2>2, <2>3
<1>5. CASE ~A
  <2>1. HighlightMarked(o, n) = <<>>
    BY <1>2, <1>5 DEF When
  <2>2. LinedLot(m, <<>>) /\ InLanes(<<>>, {"mark"})
    BY DEF LinedLot, Lined, InLanes
  <2> QED BY <2>1, <2>2
<1> QED
  BY <1>3, <1>4, <1>5

(* Run one after the other on a map that draws what was wanted, the effects   *)
(* of a change leave one that draws what is.                                  *)
LEMMA EffectsDrawn ==
  ASSUME NEW o \in Wanted, NEW n \in Wanted, Changes(o, n), NEW m, IsMap(m), Draws(o, m),
         n.mark = "local" /\ o.mark # "local" => On(m, "line")
  PROVE  /\ Effects(o, n) \in Seq(Works) /\ Lined(m, Effects(o, n))
         /\ Draws(n, RunAll(m, Effects(o, n)))
<1> DEFINE q1 == Cleanups(o, n)
           q2 == DrawPip(o, n)
           q3 == DrawEao(o, n)
           q4 == FilterEao(o, n)
           q5 == OutlineSelection(o, n)
           q6 == HighlightComponent(o, n)
           q7 == DrawImported(o, n)
           q8 == DrawDots(o, n)
           q9 == HighlightMarked(o, n)
           q10 == PaintCatalogue(o, n)
           q11 == GateCatalogue(o, n)
           s1 == q1
           s2 == s1 \o q2
           s3 == s2 \o q3
           s4 == s3 \o q4
           s5 == s4 \o q5
           s6 == s5 \o q6
           s7 == s6 \o q7
           s8 == s7 \o q8
           s9 == s8 \o q9
           s10 == s9 \o q10
           s11 == s10 \o q11
           m0 == m
           m1 == RunAll(m0, q1)
           m2 == RunAll(m1, q2)
           m3 == RunAll(m2, q3)
           m4 == RunAll(m3, q4)
           m5 == RunAll(m4, q5)
           m6 == RunAll(m5, q6)
           m7 == RunAll(m6, q7)
           m8 == RunAll(m7, q8)
           m9 == RunAll(m8, q9)
           m10 == RunAll(m9, q10)
           m11 == RunAll(m10, q11)
<1>1. Effects(o, n) = s11
  BY DEF Effects
<1>2. /\ Lot(q1, {"eao", "mark"}) /\ Lot(q2, {"pip"}) /\ Lot(q3, {"eao"}) /\ Lot(q4, {"eao"})
      /\ Lot(q5, {"eao"}) /\ Lot(q6, {"eao"}) /\ Lot(q7, {"imported"}) /\ Lot(q8, {"dots"})
      /\ Lot(q10, {"wms"}) /\ Lot(q11, {"wms"})
  BY CleanupWorks, PipWorks, EaoWorks, ImportedDraws, PaintWorks, GateWorks
<1>3. LinedLot(m, q9) /\ InLanes(q9, {"mark"})
  BY MarkLined
<1>4. /\ LinedLot(m, q1) /\ LinedLot(m, q2) /\ LinedLot(m, q3) /\ LinedLot(m, q4)
      /\ LinedLot(m, q5) /\ LinedLot(m, q6) /\ LinedLot(m, q7) /\ LinedLot(m, q8)
      /\ LinedLot(m, q9) /\ LinedLot(m, q10) /\ LinedLot(m, q11)
  BY <1>2, <1>3, PlainLined
<1>5. /\ q1 \in Seq(Works) /\ q2 \in Seq(Works) /\ q3 \in Seq(Works) /\ q4 \in Seq(Works)
      /\ q5 \in Seq(Works) /\ q6 \in Seq(Works) /\ q7 \in Seq(Works) /\ q8 \in Seq(Works)
      /\ q9 \in Seq(Works) /\ q10 \in Seq(Works) /\ q11 \in Seq(Works)
  BY <1>4 DEF LinedLot
<1>6. /\ InLanes(q1, {"eao", "mark"})
      /\ InLanes(q2, {"pip"})
      /\ InLanes(q3, {"eao"})
      /\ InLanes(q4, {"eao"})
      /\ InLanes(q5, {"eao"})
      /\ InLanes(q6, {"eao"})
      /\ InLanes(q7, {"imported"})
      /\ InLanes(q8, {"dots"})
      /\ InLanes(q9, {"mark"})
      /\ InLanes(q10, {"wms"})
      /\ InLanes(q11, {"wms"})
  BY <1>2, <1>3 DEF Lot
<1>7. /\ m1 = RunAll(m0, q1)
      /\ m2 = RunAll(m1, q2)
      /\ m3 = RunAll(m2, q3)
      /\ m4 = RunAll(m3, q4)
      /\ m5 = RunAll(m4, q5)
      /\ m6 = RunAll(m5, q6)
      /\ m7 = RunAll(m6, q7)
      /\ m8 = RunAll(m7, q8)
      /\ m9 = RunAll(m8, q9)
      /\ m10 = RunAll(m9, q10)
      /\ m11 = RunAll(m10, q11)
      /\ m0 = m
  OBVIOUS
<1>70. /\ q1 = Cleanups(o, n)
       /\ q2 = DrawPip(o, n)
       /\ q3 = DrawEao(o, n)
       /\ q4 = FilterEao(o, n)
       /\ q5 = OutlineSelection(o, n)
       /\ q6 = HighlightComponent(o, n)
       /\ q7 = DrawImported(o, n)
       /\ q8 = DrawDots(o, n)
       /\ q9 = HighlightMarked(o, n)
       /\ q10 = PaintCatalogue(o, n)
       /\ q11 = GateCatalogue(o, n)
  OBVIOUS
<1>71. s1 = q1 /\ s2 = s1 \o q2 /\ s3 = s2 \o q3 /\ s4 = s3 \o q4 /\ s5 = s4 \o q5 /\ s6 = s5 \o q6
       /\ s7 = s6 \o q7 /\ s8 = s7 \o q8 /\ s9 = s8 \o q9 /\ s10 = s9 \o q10 /\ s11 = s10 \o q11
  OBVIOUS
<1> HIDE DEF q1, q2, q3, q4, q5, q6, q7, q8, q9, q10, q11, s1, s2, s3, s4, s5, s6, s7, s8, s9, s10,
     s11, m0, m1, m2, m3, m4, m5, m6, m7, m8, m9, m10, m11
<1>8. IsMap(m0)
  BY <1>7
<1>9. "wms" \in Lanes /\ "pip" \in Lanes /\ "eao" \in Lanes /\ "imported" \in Lanes
      /\ "mark" \in Lanes /\ "dots" \in Lanes
  BY DEF Lanes
<1>m1. IsMap(m1) /\ Agree(m0, m1, "wms") /\ Agree(m0, m1, "pip") /\ Agree(m0, m1, "imported")
       /\ Agree(m0, m1, "dots")
  <2>1. IsMap(m0) /\ q1 \in Seq(Works) /\ InLanes(q1, {"eao", "mark"})
    BY <1>8, <1>5, <1>6
  <2>2. IsMap(RunAll(m0, q1)) /\ Agree(m0, RunAll(m0, q1), "wms")
    BY <1>9, <2>1, RunApart
  <2>3. IsMap(RunAll(m0, q1)) /\ Agree(m0, RunAll(m0, q1), "pip")
    BY <1>9, <2>1, RunApart
  <2>4. IsMap(RunAll(m0, q1)) /\ Agree(m0, RunAll(m0, q1), "imported")
    BY <1>9, <2>1, RunApart
  <2>5. IsMap(RunAll(m0, q1)) /\ Agree(m0, RunAll(m0, q1), "dots")
    BY <1>9, <2>1, RunApart
  <2> QED BY <1>7, <2>2, <2>3, <2>4, <2>5
<1>m2. IsMap(m2) /\ Agree(m1, m2, "wms") /\ Agree(m1, m2, "eao") /\ Agree(m1, m2, "imported")
       /\ Agree(m1, m2, "mark") /\ Agree(m1, m2, "dots")
  <2>1. IsMap(m1) /\ q2 \in Seq(Works) /\ InLanes(q2, {"pip"})
    BY <1>m1, <1>5, <1>6
  <2>2. IsMap(RunAll(m1, q2)) /\ Agree(m1, RunAll(m1, q2), "wms")
    BY <1>9, <2>1, RunApart
  <2>3. IsMap(RunAll(m1, q2)) /\ Agree(m1, RunAll(m1, q2), "eao")
    BY <1>9, <2>1, RunApart
  <2>4. IsMap(RunAll(m1, q2)) /\ Agree(m1, RunAll(m1, q2), "imported")
    BY <1>9, <2>1, RunApart
  <2>5. IsMap(RunAll(m1, q2)) /\ Agree(m1, RunAll(m1, q2), "mark")
    BY <1>9, <2>1, RunApart
  <2>6. IsMap(RunAll(m1, q2)) /\ Agree(m1, RunAll(m1, q2), "dots")
    BY <1>9, <2>1, RunApart
  <2> QED BY <1>7, <2>2, <2>3, <2>4, <2>5, <2>6
<1>m3. IsMap(m3) /\ Agree(m2, m3, "wms") /\ Agree(m2, m3, "pip") /\ Agree(m2, m3, "imported")
       /\ Agree(m2, m3, "mark") /\ Agree(m2, m3, "dots")
  <2>1. IsMap(m2) /\ q3 \in Seq(Works) /\ InLanes(q3, {"eao"})
    BY <1>m2, <1>5, <1>6
  <2>2. IsMap(RunAll(m2, q3)) /\ Agree(m2, RunAll(m2, q3), "wms")
    BY <1>9, <2>1, RunApart
  <2>3. IsMap(RunAll(m2, q3)) /\ Agree(m2, RunAll(m2, q3), "pip")
    BY <1>9, <2>1, RunApart
  <2>4. IsMap(RunAll(m2, q3)) /\ Agree(m2, RunAll(m2, q3), "imported")
    BY <1>9, <2>1, RunApart
  <2>5. IsMap(RunAll(m2, q3)) /\ Agree(m2, RunAll(m2, q3), "mark")
    BY <1>9, <2>1, RunApart
  <2>6. IsMap(RunAll(m2, q3)) /\ Agree(m2, RunAll(m2, q3), "dots")
    BY <1>9, <2>1, RunApart
  <2> QED BY <1>7, <2>2, <2>3, <2>4, <2>5, <2>6
<1>m4. IsMap(m4) /\ Agree(m3, m4, "wms") /\ Agree(m3, m4, "pip") /\ Agree(m3, m4, "imported")
       /\ Agree(m3, m4, "mark") /\ Agree(m3, m4, "dots")
  <2>1. IsMap(m3) /\ q4 \in Seq(Works) /\ InLanes(q4, {"eao"})
    BY <1>m3, <1>5, <1>6
  <2>2. IsMap(RunAll(m3, q4)) /\ Agree(m3, RunAll(m3, q4), "wms")
    BY <1>9, <2>1, RunApart
  <2>3. IsMap(RunAll(m3, q4)) /\ Agree(m3, RunAll(m3, q4), "pip")
    BY <1>9, <2>1, RunApart
  <2>4. IsMap(RunAll(m3, q4)) /\ Agree(m3, RunAll(m3, q4), "imported")
    BY <1>9, <2>1, RunApart
  <2>5. IsMap(RunAll(m3, q4)) /\ Agree(m3, RunAll(m3, q4), "mark")
    BY <1>9, <2>1, RunApart
  <2>6. IsMap(RunAll(m3, q4)) /\ Agree(m3, RunAll(m3, q4), "dots")
    BY <1>9, <2>1, RunApart
  <2> QED BY <1>7, <2>2, <2>3, <2>4, <2>5, <2>6
<1>m5. IsMap(m5) /\ Agree(m4, m5, "wms") /\ Agree(m4, m5, "pip") /\ Agree(m4, m5, "imported")
       /\ Agree(m4, m5, "mark") /\ Agree(m4, m5, "dots")
  <2>1. IsMap(m4) /\ q5 \in Seq(Works) /\ InLanes(q5, {"eao"})
    BY <1>m4, <1>5, <1>6
  <2>2. IsMap(RunAll(m4, q5)) /\ Agree(m4, RunAll(m4, q5), "wms")
    BY <1>9, <2>1, RunApart
  <2>3. IsMap(RunAll(m4, q5)) /\ Agree(m4, RunAll(m4, q5), "pip")
    BY <1>9, <2>1, RunApart
  <2>4. IsMap(RunAll(m4, q5)) /\ Agree(m4, RunAll(m4, q5), "imported")
    BY <1>9, <2>1, RunApart
  <2>5. IsMap(RunAll(m4, q5)) /\ Agree(m4, RunAll(m4, q5), "mark")
    BY <1>9, <2>1, RunApart
  <2>6. IsMap(RunAll(m4, q5)) /\ Agree(m4, RunAll(m4, q5), "dots")
    BY <1>9, <2>1, RunApart
  <2> QED BY <1>7, <2>2, <2>3, <2>4, <2>5, <2>6
<1>m6. IsMap(m6) /\ Agree(m5, m6, "wms") /\ Agree(m5, m6, "pip") /\ Agree(m5, m6, "imported")
       /\ Agree(m5, m6, "mark") /\ Agree(m5, m6, "dots")
  <2>1. IsMap(m5) /\ q6 \in Seq(Works) /\ InLanes(q6, {"eao"})
    BY <1>m5, <1>5, <1>6
  <2>2. IsMap(RunAll(m5, q6)) /\ Agree(m5, RunAll(m5, q6), "wms")
    BY <1>9, <2>1, RunApart
  <2>3. IsMap(RunAll(m5, q6)) /\ Agree(m5, RunAll(m5, q6), "pip")
    BY <1>9, <2>1, RunApart
  <2>4. IsMap(RunAll(m5, q6)) /\ Agree(m5, RunAll(m5, q6), "imported")
    BY <1>9, <2>1, RunApart
  <2>5. IsMap(RunAll(m5, q6)) /\ Agree(m5, RunAll(m5, q6), "mark")
    BY <1>9, <2>1, RunApart
  <2>6. IsMap(RunAll(m5, q6)) /\ Agree(m5, RunAll(m5, q6), "dots")
    BY <1>9, <2>1, RunApart
  <2> QED BY <1>7, <2>2, <2>3, <2>4, <2>5, <2>6
<1>m7. IsMap(m7) /\ Agree(m6, m7, "wms") /\ Agree(m6, m7, "pip") /\ Agree(m6, m7, "eao")
       /\ Agree(m6, m7, "mark") /\ Agree(m6, m7, "dots")
  <2>1. IsMap(m6) /\ q7 \in Seq(Works) /\ InLanes(q7, {"imported"})
    BY <1>m6, <1>5, <1>6
  <2>2. IsMap(RunAll(m6, q7)) /\ Agree(m6, RunAll(m6, q7), "wms")
    BY <1>9, <2>1, RunApart
  <2>3. IsMap(RunAll(m6, q7)) /\ Agree(m6, RunAll(m6, q7), "pip")
    BY <1>9, <2>1, RunApart
  <2>4. IsMap(RunAll(m6, q7)) /\ Agree(m6, RunAll(m6, q7), "eao")
    BY <1>9, <2>1, RunApart
  <2>5. IsMap(RunAll(m6, q7)) /\ Agree(m6, RunAll(m6, q7), "mark")
    BY <1>9, <2>1, RunApart
  <2>6. IsMap(RunAll(m6, q7)) /\ Agree(m6, RunAll(m6, q7), "dots")
    BY <1>9, <2>1, RunApart
  <2> QED BY <1>7, <2>2, <2>3, <2>4, <2>5, <2>6
<1>m8. IsMap(m8) /\ Agree(m7, m8, "wms") /\ Agree(m7, m8, "pip") /\ Agree(m7, m8, "eao")
       /\ Agree(m7, m8, "imported") /\ Agree(m7, m8, "mark")
  <2>1. IsMap(m7) /\ q8 \in Seq(Works) /\ InLanes(q8, {"dots"})
    BY <1>m7, <1>5, <1>6
  <2>2. IsMap(RunAll(m7, q8)) /\ Agree(m7, RunAll(m7, q8), "wms")
    BY <1>9, <2>1, RunApart
  <2>3. IsMap(RunAll(m7, q8)) /\ Agree(m7, RunAll(m7, q8), "pip")
    BY <1>9, <2>1, RunApart
  <2>4. IsMap(RunAll(m7, q8)) /\ Agree(m7, RunAll(m7, q8), "eao")
    BY <1>9, <2>1, RunApart
  <2>5. IsMap(RunAll(m7, q8)) /\ Agree(m7, RunAll(m7, q8), "imported")
    BY <1>9, <2>1, RunApart
  <2>6. IsMap(RunAll(m7, q8)) /\ Agree(m7, RunAll(m7, q8), "mark")
    BY <1>9, <2>1, RunApart
  <2> QED BY <1>7, <2>2, <2>3, <2>4, <2>5, <2>6
<1>m9. IsMap(m9) /\ Agree(m8, m9, "wms") /\ Agree(m8, m9, "pip") /\ Agree(m8, m9, "eao")
       /\ Agree(m8, m9, "imported") /\ Agree(m8, m9, "dots")
  <2>1. IsMap(m8) /\ q9 \in Seq(Works) /\ InLanes(q9, {"mark"})
    BY <1>m8, <1>5, <1>6
  <2>2. IsMap(RunAll(m8, q9)) /\ Agree(m8, RunAll(m8, q9), "wms")
    BY <1>9, <2>1, RunApart
  <2>3. IsMap(RunAll(m8, q9)) /\ Agree(m8, RunAll(m8, q9), "pip")
    BY <1>9, <2>1, RunApart
  <2>4. IsMap(RunAll(m8, q9)) /\ Agree(m8, RunAll(m8, q9), "eao")
    BY <1>9, <2>1, RunApart
  <2>5. IsMap(RunAll(m8, q9)) /\ Agree(m8, RunAll(m8, q9), "imported")
    BY <1>9, <2>1, RunApart
  <2>6. IsMap(RunAll(m8, q9)) /\ Agree(m8, RunAll(m8, q9), "dots")
    BY <1>9, <2>1, RunApart
  <2> QED BY <1>7, <2>2, <2>3, <2>4, <2>5, <2>6
<1>m10. IsMap(m10) /\ Agree(m9, m10, "pip") /\ Agree(m9, m10, "eao") /\ Agree(m9, m10, "imported")
        /\ Agree(m9, m10, "mark") /\ Agree(m9, m10, "dots")
  <2>1. IsMap(m9) /\ q10 \in Seq(Works) /\ InLanes(q10, {"wms"})
    BY <1>m9, <1>5, <1>6
  <2>2. IsMap(RunAll(m9, q10)) /\ Agree(m9, RunAll(m9, q10), "pip")
    BY <1>9, <2>1, RunApart
  <2>3. IsMap(RunAll(m9, q10)) /\ Agree(m9, RunAll(m9, q10), "eao")
    BY <1>9, <2>1, RunApart
  <2>4. IsMap(RunAll(m9, q10)) /\ Agree(m9, RunAll(m9, q10), "imported")
    BY <1>9, <2>1, RunApart
  <2>5. IsMap(RunAll(m9, q10)) /\ Agree(m9, RunAll(m9, q10), "mark")
    BY <1>9, <2>1, RunApart
  <2>6. IsMap(RunAll(m9, q10)) /\ Agree(m9, RunAll(m9, q10), "dots")
    BY <1>9, <2>1, RunApart
  <2> QED BY <1>7, <2>2, <2>3, <2>4, <2>5, <2>6
<1>m11. IsMap(m11) /\ Agree(m10, m11, "pip") /\ Agree(m10, m11, "eao")
        /\ Agree(m10, m11, "imported") /\ Agree(m10, m11, "mark") /\ Agree(m10, m11, "dots")
  <2>1. IsMap(m10) /\ q11 \in Seq(Works) /\ InLanes(q11, {"wms"})
    BY <1>m10, <1>5, <1>6
  <2>2. IsMap(RunAll(m10, q11)) /\ Agree(m10, RunAll(m10, q11), "pip")
    BY <1>9, <2>1, RunApart
  <2>3. IsMap(RunAll(m10, q11)) /\ Agree(m10, RunAll(m10, q11), "eao")
    BY <1>9, <2>1, RunApart
  <2>4. IsMap(RunAll(m10, q11)) /\ Agree(m10, RunAll(m10, q11), "imported")
    BY <1>9, <2>1, RunApart
  <2>5. IsMap(RunAll(m10, q11)) /\ Agree(m10, RunAll(m10, q11), "mark")
    BY <1>9, <2>1, RunApart
  <2>6. IsMap(RunAll(m10, q11)) /\ Agree(m10, RunAll(m10, q11), "dots")
    BY <1>9, <2>1, RunApart
  <2> QED BY <1>7, <2>2, <2>3, <2>4, <2>5, <2>6
<1>s1. LinedLot(m, s1) /\ RunAll(m, s1) = m1
  BY <1>4, <1>7, <1>71
<1>s2. LinedLot(m, s2) /\ RunAll(m, s2) = m2
  <2>1. LinedLot(m, s1 \o q2)
    BY <1>s1, <1>4, LinedCat
  <2>2. RunAll(m, s1 \o q2) = RunAll(RunAll(m, s1), q2)
    BY <1>s1, <1>5, RunCat DEF LinedLot
  <2> QED BY <1>s1, <1>7, <1>71, <2>1, <2>2
<1>s3. LinedLot(m, s3) /\ RunAll(m, s3) = m3
  <2>1. LinedLot(m, s2 \o q3)
    BY <1>s2, <1>4, LinedCat
  <2>2. RunAll(m, s2 \o q3) = RunAll(RunAll(m, s2), q3)
    BY <1>s2, <1>5, RunCat DEF LinedLot
  <2> QED BY <1>s2, <1>7, <1>71, <2>1, <2>2
<1>s4. LinedLot(m, s4) /\ RunAll(m, s4) = m4
  <2>1. LinedLot(m, s3 \o q4)
    BY <1>s3, <1>4, LinedCat
  <2>2. RunAll(m, s3 \o q4) = RunAll(RunAll(m, s3), q4)
    BY <1>s3, <1>5, RunCat DEF LinedLot
  <2> QED BY <1>s3, <1>7, <1>71, <2>1, <2>2
<1>s5. LinedLot(m, s5) /\ RunAll(m, s5) = m5
  <2>1. LinedLot(m, s4 \o q5)
    BY <1>s4, <1>4, LinedCat
  <2>2. RunAll(m, s4 \o q5) = RunAll(RunAll(m, s4), q5)
    BY <1>s4, <1>5, RunCat DEF LinedLot
  <2> QED BY <1>s4, <1>7, <1>71, <2>1, <2>2
<1>s6. LinedLot(m, s6) /\ RunAll(m, s6) = m6
  <2>1. LinedLot(m, s5 \o q6)
    BY <1>s5, <1>4, LinedCat
  <2>2. RunAll(m, s5 \o q6) = RunAll(RunAll(m, s5), q6)
    BY <1>s5, <1>5, RunCat DEF LinedLot
  <2> QED BY <1>s5, <1>7, <1>71, <2>1, <2>2
<1>s7. LinedLot(m, s7) /\ RunAll(m, s7) = m7
  <2>1. LinedLot(m, s6 \o q7)
    BY <1>s6, <1>4, LinedCat
  <2>2. RunAll(m, s6 \o q7) = RunAll(RunAll(m, s6), q7)
    BY <1>s6, <1>5, RunCat DEF LinedLot
  <2> QED BY <1>s6, <1>7, <1>71, <2>1, <2>2
<1>s8. LinedLot(m, s8) /\ RunAll(m, s8) = m8
  <2>1. LinedLot(m, s7 \o q8)
    BY <1>s7, <1>4, LinedCat
  <2>2. RunAll(m, s7 \o q8) = RunAll(RunAll(m, s7), q8)
    BY <1>s7, <1>5, RunCat DEF LinedLot
  <2> QED BY <1>s7, <1>7, <1>71, <2>1, <2>2
<1>s9. LinedLot(m, s9) /\ RunAll(m, s9) = m9
  <2>1. LinedLot(m, s8 \o q9)
    BY <1>s8, <1>4, LinedCat
  <2>2. RunAll(m, s8 \o q9) = RunAll(RunAll(m, s8), q9)
    BY <1>s8, <1>5, RunCat DEF LinedLot
  <2> QED BY <1>s8, <1>7, <1>71, <2>1, <2>2
<1>s10. LinedLot(m, s10) /\ RunAll(m, s10) = m10
  <2>1. LinedLot(m, s9 \o q10)
    BY <1>s9, <1>4, LinedCat
  <2>2. RunAll(m, s9 \o q10) = RunAll(RunAll(m, s9), q10)
    BY <1>s9, <1>5, RunCat DEF LinedLot
  <2> QED BY <1>s9, <1>7, <1>71, <2>1, <2>2
<1>s11. LinedLot(m, s11) /\ RunAll(m, s11) = m11
  <2>1. LinedLot(m, s10 \o q11)
    BY <1>s10, <1>4, LinedCat
  <2>2. RunAll(m, s10 \o q11) = RunAll(RunAll(m, s10), q11)
    BY <1>s10, <1>5, RunCat DEF LinedLot
  <2> QED BY <1>s10, <1>7, <1>71, <2>1, <2>2
<1>20. DrawsWms(o, m0) /\ DrawsPip(o, m0) /\ DrawsEao(o, m0) /\ DrawsImported(o, m0)
       /\ DrawsMark(o, m0) /\ DrawsDots(o, m0)
  BY <1>7 DEF Draws
<1>21. DrawsPip(o, m1)
  <2>1. DrawsPip(o, m1)
    BY <1>m1, <1>20, DrawsAlike
  <2> QED BY <2>1
<1>22. DrawsPip(n, m2)
  BY <1>7, <1>70, <1>m1, <1>21, PipDrawn
<1>23. DrawsPip(n, m11)
  <2>3. DrawsPip(n, m3)
    BY <1>m3, <1>22, DrawsAlike
  <2>4. DrawsPip(n, m4)
    BY <1>m4, <2>3, DrawsAlike
  <2>5. DrawsPip(n, m5)
    BY <1>m5, <2>4, DrawsAlike
  <2>6. DrawsPip(n, m6)
    BY <1>m6, <2>5, DrawsAlike
  <2>7. DrawsPip(n, m7)
    BY <1>m7, <2>6, DrawsAlike
  <2>8. DrawsPip(n, m8)
    BY <1>m8, <2>7, DrawsAlike
  <2>9. DrawsPip(n, m9)
    BY <1>m9, <2>8, DrawsAlike
  <2>10. DrawsPip(n, m10)
    BY <1>m10, <2>9, DrawsAlike
  <2>11. DrawsPip(n, m11)
    BY <1>m11, <2>10, DrawsAlike
  <2> QED BY <2>11
<1>24. DrawsWms(o, m9)
  <2>1. DrawsWms(o, m1)
    BY <1>m1, <1>20, DrawsAlike
  <2>2. DrawsWms(o, m2)
    BY <1>m2, <2>1, DrawsAlike
  <2>3. DrawsWms(o, m3)
    BY <1>m3, <2>2, DrawsAlike
  <2>4. DrawsWms(o, m4)
    BY <1>m4, <2>3, DrawsAlike
  <2>5. DrawsWms(o, m5)
    BY <1>m5, <2>4, DrawsAlike
  <2>6. DrawsWms(o, m6)
    BY <1>m6, <2>5, DrawsAlike
  <2>7. DrawsWms(o, m7)
    BY <1>m7, <2>6, DrawsAlike
  <2>8. DrawsWms(o, m8)
    BY <1>m8, <2>7, DrawsAlike
  <2>9. DrawsWms(o, m9)
    BY <1>m9, <2>8, DrawsAlike
  <2> QED BY <2>9
<1>25. DrawsWms(n, m11)
  BY <1>7, <1>70, <1>m9, <1>24, GateDrawn
<1>26. DrawsImported(o, m6)
  <2>1. DrawsImported(o, m1)
    BY <1>m1, <1>20, DrawsAlike
  <2>2. DrawsImported(o, m2)
    BY <1>m2, <2>1, DrawsAlike
  <2>3. DrawsImported(o, m3)
    BY <1>m3, <2>2, DrawsAlike
  <2>4. DrawsImported(o, m4)
    BY <1>m4, <2>3, DrawsAlike
  <2>5. DrawsImported(o, m5)
    BY <1>m5, <2>4, DrawsAlike
  <2>6. DrawsImported(o, m6)
    BY <1>m6, <2>5, DrawsAlike
  <2> QED BY <2>6
<1>27. DrawsImported(n, m7)
  BY <1>7, <1>70, <1>m6, <1>26, ImportedDrawn
<1>28. DrawsImported(n, m11)
  <2>8. DrawsImported(n, m8)
    BY <1>m8, <1>27, DrawsAlike
  <2>9. DrawsImported(n, m9)
    BY <1>m9, <2>8, DrawsAlike
  <2>10. DrawsImported(n, m10)
    BY <1>m10, <2>9, DrawsAlike
  <2>11. DrawsImported(n, m11)
    BY <1>m11, <2>10, DrawsAlike
  <2> QED BY <2>11
<1>29. DrawsDots(o, m7)
  <2>1. DrawsDots(o, m1)
    BY <1>m1, <1>20, DrawsAlike
  <2>2. DrawsDots(o, m2)
    BY <1>m2, <2>1, DrawsAlike
  <2>3. DrawsDots(o, m3)
    BY <1>m3, <2>2, DrawsAlike
  <2>4. DrawsDots(o, m4)
    BY <1>m4, <2>3, DrawsAlike
  <2>5. DrawsDots(o, m5)
    BY <1>m5, <2>4, DrawsAlike
  <2>6. DrawsDots(o, m6)
    BY <1>m6, <2>5, DrawsAlike
  <2>7. DrawsDots(o, m7)
    BY <1>m7, <2>6, DrawsAlike
  <2> QED BY <2>7
<1>30. DrawsDots(n, m8)
  BY <1>7, <1>70, <1>m7, <1>29, DotsDrawn
<1>31. DrawsDots(n, m11)
  <2>9. DrawsDots(n, m9)
    BY <1>m9, <1>30, DrawsAlike
  <2>10. DrawsDots(n, m10)
    BY <1>m10, <2>9, DrawsAlike
  <2>11. DrawsDots(n, m11)
    BY <1>m11, <2>10, DrawsAlike
  <2> QED BY <2>11
<1>32. Cleaned(o, n, m0, m1)
  BY <1>7, <1>70, <1>8, CleanupsDrawn
<1>33. DrawsEao(n, m6)
  BY <1>7, <1>70, <1>8, <1>m1, <1>m2, <1>20, <1>32, EaoDrawn
<1>34. DrawsEao(n, m11)
  <2>7. DrawsEao(n, m7)
    BY <1>m7, <1>33, DrawsAlike
  <2>8. DrawsEao(n, m8)
    BY <1>m8, <2>7, DrawsAlike
  <2>9. DrawsEao(n, m9)
    BY <1>m9, <2>8, DrawsAlike
  <2>10. DrawsEao(n, m10)
    BY <1>m10, <2>9, DrawsAlike
  <2>11. DrawsEao(n, m11)
    BY <1>m11, <2>10, DrawsAlike
  <2> QED BY <2>11
<1>35. /\ o.mark = n.mark => m8.look["marked"] = m0.look["marked"]
       /\ o.mark # n.mark /\ n.mark = "none" => m8.look["marked"] = Absent
  <2>1. /\ o.mark = n.mark => m1.look["marked"] = m0.look["marked"]
        /\ o.mark # n.mark /\ n.mark = "none" => m1.look["marked"] = Absent
    BY <1>32 DEF Cleaned
  <2>2. m2.look["marked"] = m1.look["marked"]
    BY <1>m2, LanesAre DEF Agree
  <2>3. m3.look["marked"] = m2.look["marked"]
    BY <1>m3, LanesAre DEF Agree
  <2>4. m4.look["marked"] = m3.look["marked"]
    BY <1>m4, LanesAre DEF Agree
  <2>5. m5.look["marked"] = m4.look["marked"]
    BY <1>m5, LanesAre DEF Agree
  <2>6. m6.look["marked"] = m5.look["marked"]
    BY <1>m6, LanesAre DEF Agree
  <2>7. m7.look["marked"] = m6.look["marked"]
    BY <1>m7, LanesAre DEF Agree
  <2>8. m8.look["marked"] = m7.look["marked"]
    BY <1>m8, LanesAre DEF Agree
  <2> QED BY <2>1, <2>2, <2>3, <2>4, <2>5, <2>6, <2>7, <2>8
<1>36. n.mark = "local" /\ o.mark # n.mark => On(m8, "line")
  <2>1. RunAll(m, s8) = m8 /\ s8 \in Seq(Works)
    BY <1>s8 DEF LinedLot
  <2>2. StaysOn(m, m8)
    BY <2>1, RunAllCarried DEF Carried
  <2>3. On(m, "line") => On(m8, "line")
    BY <2>2, LayerNames DEF StaysOn
  <2> QED BY <2>3
<1>37. o.mark = n.mark => DrawsMark(o, m8)
  BY <1>20, <1>35 DEF DrawsMark
<1>38. DrawsMark(n, m9)
  BY <1>7, <1>70, <1>m8, <1>35, <1>36, <1>37, MarkDrawn
<1>39. DrawsMark(n, m11)
  <2>10. DrawsMark(n, m10)
    BY <1>m10, <1>38, DrawsAlike
  <2>11. DrawsMark(n, m11)
    BY <1>m11, <2>10, DrawsAlike
  <2> QED BY <2>11
<1>40. Draws(n, m11)
  BY <1>23, <1>25, <1>28, <1>31, <1>34, <1>39 DEF Draws
<1> QED
  BY <1>1, <1>s11, <1>40 DEF LinedLot

LEMMA EffectsLined ==
  ASSUME NEW o \in Wanted, NEW n \in Wanted, NEW m,
         n.mark = "local" /\ o.mark # "local" => On(m, "line")
  PROVE  Effects(o, n) \in Seq(Works) /\ Lined(m, Effects(o, n))
<1> DEFINE q1 == Cleanups(o, n)
           q2 == DrawPip(o, n)
           q3 == DrawEao(o, n)
           q4 == FilterEao(o, n)
           q5 == OutlineSelection(o, n)
           q6 == HighlightComponent(o, n)
           q7 == DrawImported(o, n)
           q8 == DrawDots(o, n)
           q9 == HighlightMarked(o, n)
           q10 == PaintCatalogue(o, n)
           q11 == GateCatalogue(o, n)
           s1 == q1
           s2 == s1 \o q2
           s3 == s2 \o q3
           s4 == s3 \o q4
           s5 == s4 \o q5
           s6 == s5 \o q6
           s7 == s6 \o q7
           s8 == s7 \o q8
           s9 == s8 \o q9
           s10 == s9 \o q10
           s11 == s10 \o q11
<1>1. Effects(o, n) = s11
  BY DEF Effects
<1>2. /\ Lot(q1, {"eao", "mark"}) /\ Lot(q2, {"pip"}) /\ Lot(q3, {"eao"}) /\ Lot(q4, {"eao"})
      /\ Lot(q5, {"eao"}) /\ Lot(q6, {"eao"}) /\ Lot(q7, {"imported"}) /\ Lot(q8, {"dots"})
      /\ Lot(q10, {"wms"}) /\ Lot(q11, {"wms"})
  BY CleanupWorks, PipWorks, EaoWorks, ImportedDraws, PaintWorks, GateWorks
<1>3. LinedLot(m, q9)
  BY MarkLined
<1>4. /\ LinedLot(m, q1) /\ LinedLot(m, q2) /\ LinedLot(m, q3) /\ LinedLot(m, q4)
      /\ LinedLot(m, q5) /\ LinedLot(m, q6) /\ LinedLot(m, q7) /\ LinedLot(m, q8)
      /\ LinedLot(m, q9) /\ LinedLot(m, q10) /\ LinedLot(m, q11)
  BY <1>2, <1>3, PlainLined
<1> HIDE DEF q1, q2, q3, q4, q5, q6, q7, q8, q9, q10, q11
<1>s2. LinedLot(m, s2)
  BY <1>4, LinedCat
<1>s3. LinedLot(m, s3)
  BY <1>4, <1>s2, LinedCat
<1>s4. LinedLot(m, s4)
  BY <1>4, <1>s3, LinedCat
<1>s5. LinedLot(m, s5)
  BY <1>4, <1>s4, LinedCat
<1>s6. LinedLot(m, s6)
  BY <1>4, <1>s5, LinedCat
<1>s7. LinedLot(m, s7)
  BY <1>4, <1>s6, LinedCat
<1>s8. LinedLot(m, s8)
  BY <1>4, <1>s7, LinedCat
<1>s9. LinedLot(m, s9)
  BY <1>4, <1>s8, LinedCat
<1>s10. LinedLot(m, s10)
  BY <1>4, <1>s9, LinedCat
<1>s11. LinedLot(m, s11)
  BY <1>4, <1>s10, LinedCat
<1> QED
  BY <1>1, <1>s11 DEF LinedLot

-----------------------------------------------------------------------------
(* What the map's own steps do to the stack                                *)

(* A layer's place in the stack, and what lies below what *)
LEMMA PlaceIs ==
  ASSUME NEW m, IsMap(m), NEW a, NEW b, On(m, a), On(m, b)
  PROVE  /\ Position(m, a) < Position(m, b) <=> Below(m.stack, a, b)
         /\ a # b => Below(m.stack, a, b) \/ Below(m.stack, b, a)
         /\ ~(Below(m.stack, a, b) /\ Below(m.stack, b, a))
<1> DEFINE s == m.stack
<1>1. s \in Seq(StackLayers) /\ \A i, j \in 1..Len(s) : s[i] = s[j] => i = j
  BY DEF IsMap, Shaped, Maps, IsInjective
<1>2. /\ Position(m, a) \in 1..Len(s) /\ s[Position(m, a)] = a
      /\ Position(m, b) \in 1..Len(s) /\ s[Position(m, b)] = b
  BY <1>1, PositionIs
<1>3. Len(s) \in Nat
  BY <1>1
<1> HIDE DEF s
<1> DEFINE p == Position(m, a)  q == Position(m, b)
<1> HIDE DEF p, q
<1>4. p \in 1..Len(s) /\ s[p] = a /\ q \in 1..Len(s) /\ s[q] = b
  BY <1>2 DEF p, q
<1>5. Below(s, a, b) <=> p < q
  BY <1>1, <1>4 DEF Below
<1>6. Below(s, b, a) <=> q < p
  BY <1>1, <1>4 DEF Below
<1>7. a # b => p # q
  BY <1>4
<1> QED
  BY <1>3, <1>4, <1>5, <1>6, <1>7 DEF s, p, q

LEMMA UnstackedIs ==
  ASSUME NEW m, IsMap(m), NEW l, NEW t, t = Unstacked(m, l)
  PROVE  /\ t \in Seq(StackLayers) /\ IsInjective(t)
         /\ \A x : Holds(t, x) <=> Holds(m.stack, x) /\ x # l
         /\ \A a, b : a # l /\ b # l /\ Below(m.stack, a, b) => Below(t, a, b)
<1> DEFINE s == m.stack
<1>1. s \in Seq(StackLayers) /\ IsInjective(s)
  BY DEF IsMap, Shaped, Maps
<1>2. CASE On(m, l)
  <2>1. Position(m, l) \in 1..Len(s) /\ s[Position(m, l)] = l
    BY <1>1, <1>2, PositionIs
  <2>2. t = RemoveAt(s, Position(m, l))
    BY <1>2 DEF Unstacked
  <2> DEFINE p == Position(m, l)
  <2> HIDE DEF s, p
  <2>3. /\ t \in Seq(StackLayers) /\ IsInjective(t)
        /\ \A x : Holds(t, x) <=> Holds(s, x) /\ x # s[p]
        /\ \A a, b : a # s[p] /\ b # s[p] /\ Below(s, a, b) => Below(t, a, b)
    BY <1>1, <2>1, <2>2, Removed DEF p
  <2> QED BY <2>1, <2>3 DEF p, s
<1>3. CASE ~On(m, l)
  <2>1. t = s
    BY <1>3 DEF Unstacked
  <2> QED BY <1>1, <1>3, <2>1, OnHolds
<1> QED
  BY <1>2, <1>3

Reordered(m, n, t, c, r) ==
  /\ IsMap(n) /\ Alike(m, n) /\ n.stack = t /\ n.look = m.look /\ n.parsed = m.parsed
  /\ n.deferred = m.deferred /\ n.overtaken = m.overtaken /\ n.changed = c /\ n.ready = r
  /\ \A l : On(n, l) <=> Holds(t, l)
  /\ \A l \in Widget : On(n, l) <=> On(m, l)

(* A stack is as good once layers other than l changed places under it *)
LEMMA Restacked ==
  ASSUME NEW m, IsMap(m), NEW t \in Seq(StackLayers), IsInjective(t), NEW c \in BOOLEAN,
         NEW r \in BOOLEAN, NEW n, n = [m EXCEPT !.stack = t, !.changed = c, !.ready = r],
         \A l \in Widget : Holds(t, l) <=> Holds(m.stack, l)
  PROVE  Reordered(m, n, t, c, r)
<1>1. m \in Maps
  BY DEF IsMap, Shaped
<1>2. /\ n \in Maps /\ n.stack = t /\ n.look = m.look /\ n.parsed = m.parsed
      /\ n.deferred = m.deferred /\ n.overtaken = m.overtaken /\ n.changed = c /\ n.ready = r
  BY <1>1 DEF Maps
<1>3. \A l : On(n, l) <=> Holds(t, l)
  BY <1>2, OnHolds
<1>4. \A l \in Widget : On(n, l) <=> On(m, l)
  BY <1>3, OnHolds
<1>5. IsMap(n)
  BY <1>2, <1>4, LayerNames DEF IsMap, Shaped
<1>6. Alike(m, n)
  BY <1>2, <1>4, LaneNames DEF Alike, Agree
<1> QED
  BY <1>2, <1>3, <1>4, <1>5, <1>6 DEF Reordered

(* The dots' listener *)
LEMMA KeepTopIs ==
  ASSUME NEW m, IsMap(m), NEW n, n = KeepProjectsOnTop(m)
  PROVE  /\ IsMap(n) /\ Alike(m, n) /\ n.look = m.look /\ n.parsed = m.parsed
         /\ n.deferred = m.deferred /\ n.overtaken = m.overtaken /\ n.ready = m.ready
         /\ n.stack # m.stack => n.changed
         /\ \A l : On(n, l) <=> On(m, l)
         /\ Stacked(m) => Stacked(n)
         /\ On(n, "dots") => Last(n.stack) = "dots"
<1> DEFINE u == Unstacked(m, "dots")  t == Append(u, "dots")
<1>1. m \in Maps /\ m.stack \in Seq(StackLayers)
  BY DEF IsMap, Shaped, Maps
<1>2. CASE ~(On(m, "dots") /\ Last(m.stack) # "dots")
  <2>1. n = m
    BY <1>2 DEF KeepProjectsOnTop
  <2> QED BY <1>2, <2>1, CarriedSelf
<1>3. CASE On(m, "dots") /\ Last(m.stack) # "dots"
  <2>1. /\ u \in Seq(StackLayers) /\ IsInjective(u)
        /\ \A x : Holds(u, x) <=> Holds(m.stack, x) /\ x # "dots"
        /\ \A a, b : a # "dots" /\ b # "dots" /\ Below(m.stack, a, b) => Below(u, a, b)
    BY UnstackedIs
  <2>2. "dots" \in StackLayers /\ "dots" \in Widget /\ ~Holds(u, "dots")
    BY <2>1, LayerNames DEF StackLayers
  <2> HIDE DEF u
  <2>3. /\ t \in Seq(StackLayers) /\ IsInjective(t)
        /\ \A x : Holds(t, x) <=> Holds(u, x) \/ x = "dots"
        /\ \A a, b : Below(u, a, b) => Below(t, a, b)
        /\ t[Len(t)] = "dots"
    BY <2>1, <2>2, Appended
  <2>4. n = [m EXCEPT !.stack = t, !.changed = TRUE]
    BY <1>3 DEF KeepProjectsOnTop, u
  <2> HIDE DEF t
  <2>5. n = [m EXCEPT !.stack = t, !.changed = TRUE, !.ready = m.ready] /\ m.ready \in BOOLEAN
    BY <1>1, <2>4 DEF Maps
  <2>6. \A l : Holds(t, l) <=> Holds(m.stack, l)
    BY <1>3, <2>1, <2>3, OnHolds
  <2>7. /\ IsMap(n) /\ Alike(m, n) /\ n.stack = t /\ n.look = m.look /\ n.parsed = m.parsed
        /\ n.deferred = m.deferred /\ n.overtaken = m.overtaken /\ n.changed = TRUE
             /\ n.ready = m.ready
        /\ \A l : On(n, l) <=> Holds(t, l)
    <3>1. /\ IsMap(m) /\ t \in Seq(StackLayers) /\ IsInjective(t) /\ TRUE \in BOOLEAN
               /\ m.ready \in BOOLEAN
          /\ n = [m EXCEPT !.stack = t, !.changed = TRUE, !.ready = m.ready]
          /\ \A l \in Widget : Holds(t, l) <=> Holds(m.stack, l)
      BY <2>3, <2>5, <2>6
    <3>2. Reordered(m, n, t, TRUE, m.ready)
      BY ONLY <3>1, Restacked
    <3> QED BY <3>2 DEF Reordered
  <2>8. \A l : On(n, l) <=> On(m, l)
    BY <2>6, <2>7, OnHolds
  <2>9. \A a, b : a # "dots" /\ b # "dots" /\ Under(m, a, b) => Under(n, a, b)
    BY <2>1, <2>3, <2>7, <2>8 DEF Under
  <2>10. Stacked(m) => Stacked(n)
    BY <2>7, <2>9, LayerNames DEF Stacked, LabelBlock
  <2>11. Last(n.stack) = "dots"
    BY <2>3, <2>7 DEF Last
  <2> QED BY <2>7, <2>8, <2>10, <2>11
<1> QED
  BY <1>2, <1>3

(* The other basemap *)
LEMMA CarryIs ==
  ASSUME NEW m, IsMap(m), NEW n, n = CarryWidgetLayers(m)
  PROVE  /\ IsMap(n) /\ Alike(m, n) /\ n.look = m.look /\ n.parsed = m.parsed
         /\ n.deferred = m.deferred /\ n.overtaken = m.overtaken /\ n.changed = TRUE
         /\ n.ready = FALSE
         /\ \A l \in Widget : On(n, l) <=> On(m, l)
         /\ On(n, LabelBlock) <=> ~On(m, LabelBlock)
         /\ \A a, b \in Widget : Below(m.stack, a, b) => Below(n.stack, a, b)
         /\ Stacked(m) => Stacked(n)
<1> DEFINE t == IF On(m, LabelBlock) THEN Unstacked(m, LabelBlock) ELSE Append(m.stack, LabelBlock)
<1>1. LabelBlock \notin Widget /\ LabelBlock \in StackLayers
  BY NoneIsOff DEF IsMap, StackLayers
<1>2. m.stack \in Seq(StackLayers) /\ IsInjective(m.stack)
  BY DEF IsMap, Shaped, Maps
<1>3. /\ t \in Seq(StackLayers) /\ IsInjective(t)
      /\ \A l \in Widget : Holds(t, l) <=> Holds(m.stack, l)
      /\ Holds(t, LabelBlock) <=> ~On(m, LabelBlock)
      /\ \A a, b \in Widget : Below(m.stack, a, b) => Below(t, a, b)
      /\ ~On(m, LabelBlock) => \A l \in Widget : Holds(m.stack, l) => Below(t, l, LabelBlock)
  <2>1. CASE On(m, LabelBlock)
    <3>1. t = Unstacked(m, LabelBlock)
      BY <2>1
    <3> HIDE DEF t
    <3>2. /\ t \in Seq(StackLayers) /\ IsInjective(t)
          /\ \A x : Holds(t, x) <=> Holds(m.stack, x) /\ x # LabelBlock
          /\ \A a, b : a # LabelBlock /\ b # LabelBlock /\ Below(m.stack, a, b) => Below(t, a, b)
      BY <3>1, UnstackedIs
    <3> QED BY <1>1, <2>1, <3>2
  <2>2. CASE ~On(m, LabelBlock)
    <3>1. t = Append(m.stack, LabelBlock) /\ ~Holds(m.stack, LabelBlock)
      BY <2>2, OnHolds
    <3> HIDE DEF t
    <3>2. /\ t \in Seq(StackLayers) /\ IsInjective(t)
          /\ \A x : Holds(t, x) <=> Holds(m.stack, x) \/ x = LabelBlock
          /\ \A a, b : Below(m.stack, a, b) => Below(t, a, b)
          /\ \A a : Holds(m.stack, a) => Below(t, a, LabelBlock)
      BY <1>1, <1>2, <3>1, Appended
    <3> QED BY <1>1, <2>2, <3>2
  <2> QED BY <2>1, <2>2
<1>4. n = [m EXCEPT !.stack = t, !.changed = TRUE, !.ready = FALSE]
  BY DEF CarryWidgetLayers
<1> HIDE DEF t
<1>5. /\ IsMap(n) /\ Alike(m, n) /\ n.stack = t /\ n.look = m.look /\ n.parsed = m.parsed
      /\ n.deferred = m.deferred /\ n.overtaken = m.overtaken /\ n.changed = TRUE /\ n.ready = FALSE
      /\ \A l : On(n, l) <=> Holds(t, l)
      /\ \A l \in Widget : On(n, l) <=> On(m, l)
  <2>1. /\ IsMap(m) /\ t \in Seq(StackLayers) /\ IsInjective(t) /\ TRUE \in BOOLEAN
             /\ FALSE \in BOOLEAN
        /\ n = [m EXCEPT !.stack = t, !.changed = TRUE, !.ready = FALSE]
        /\ \A l \in Widget : Holds(t, l) <=> Holds(m.stack, l)
    BY <1>3, <1>4
  <2>2. Reordered(m, n, t, TRUE, FALSE)
    BY ONLY <2>1, Restacked
  <2> QED BY <2>2 DEF Reordered
<1>6. \A a, b \in Widget : Under(m, a, b) => Under(n, a, b)
  BY <1>3, <1>5 DEF Under
<1>7. \A l \in Widget : Under(n, l, LabelBlock)
  BY <1>3, <1>5, OnHolds DEF Under
<1>8. Stacked(m) => Stacked(n)
  <2>1. /\ "hit" \in Widget /\ "line" \in Widget /\ "footprint" \in Widget /\ "component" \in Widget
        /\ "selected" \in Widget /\ "picked" \in Widget /\ "imported" \in Widget
             /\ "marked" \in Widget
        /\ \A l \in ToSet(Pip) \cup ToSet(Eao) : l \in Widget
    BY LayerNames
  <2> QED BY <1>5, <1>6, <1>7, <2>1 DEF Stacked
<1> QED
  BY <1>3, <1>5, <1>8

-----------------------------------------------------------------------------
(* The map as it will be, once what waits has run                          *)

LEMMA AlikeBack ==
  ASSUME NEW m, NEW k, Alike(m, k)
  PROVE  Alike(k, m)
BY DEF Alike, Agree

(* Maps that agree, with the same works waiting, end alike *)
LEMMA DeferredAlike ==
  ASSUME NEW m, IsMap(m), NEW k, IsMap(k), Alike(m, k), k.deferred = m.deferred,
         Lined(m, m.deferred), Lined(k, k.deferred)
  PROVE  Alike(RunDeferred(m), RunDeferred(k))
<1> DEFINE e == Emptied(m)  f == Emptied(k)  q == m.deferred
<1>1. IsMap(e) /\ Alike(m, e) /\ e.stack = m.stack /\ q \in Seq(Works)
  BY EmptiedIs
<1>2. IsMap(f) /\ Alike(k, f) /\ f.stack = k.stack
  BY EmptiedIs
<1>3. RunDeferred(m) = RunAll(e, q) /\ RunDeferred(k) = RunAll(f, q)
  BY DEF RunDeferred, Emptied
<1>4. Lined(e, q) /\ Lined(f, q)
  BY <1>1, <1>2 DEF Lined, On
<1> HIDE DEF e, f, q
<1>5. Alike(e, f)
  <2>1. Alike(e, m)
    BY <1>1, AlikeBack
  <2>2. Alike(e, k)
    BY <2>1, AlikeOn
  <2> QED BY <1>2, <2>2, AlikeOn
<1>6. ASSUME NEW lane \in Lanes PROVE Agree(RunAll(e, q), RunAll(f, q), lane)
  <2>1. Agree(e, f, lane)
    BY <1>5 DEF Alike
  <2> QED BY <1>1, <1>2, <1>4, <2>1, RunAllAlike
<1> QED
  BY <1>3, <1>6 DEF Alike

(* With nothing waiting, the map is as it will be *)
LEMMA SettledIs ==
  ASSUME NEW m, IsMap(m), m.deferred = <<>>
  PROVE  RunDeferred(m) = m
<1>1. m \in Maps
  BY DEF IsMap, Shaped
<1>2. Emptied(m) = m
  BY <1>1 DEF Emptied, Maps
<1>3. RunDeferred(m) = RunAll(m, <<>>)
  BY <1>2 DEF RunDeferred, Emptied
<1> QED
  BY <1>3, RunNone

LEMMA DrawsOn ==
  ASSUME NEW v, NEW m, NEW k, Alike(m, k), Draws(v, m)
  PROVE  Draws(v, k)
<1>1. /\ Agree(m, k, "wms") /\ Agree(m, k, "pip") /\ Agree(m, k, "eao")
      /\ Agree(m, k, "imported") /\ Agree(m, k, "mark") /\ Agree(m, k, "dots")
  BY DEF Alike, Lanes
<1> QED
  BY <1>1, DrawsAlike DEF Draws

(* Before the style is parsed every work waits *)
Blank(m) == ~m.parsed /\ ~m.ready /\ ~m.changed /\ m.stack = <<>>

LEMMA HandAllBlank ==
  ASSUME NEW m, IsMap(m), Blank(m), NEW q \in Seq(Works)
  PROVE  Blank(HandAll(m, q))
<1>1. PICK f : HandTrace(f, m, q)
  BY HandAllIs
<1>2. HandAll(m, q) = f[Len(q)] /\ Len(q) \in 0..Len(q)
  BY <1>1, HandAllIs
<1> DEFINE T == {i \in 0..Len(q) : IsMap(f[i]) /\ Blank(f[i])}
<1>3. Len(q) \in Nat /\ f[0] = m /\ \A i \in 1..Len(q) : q[i] \in Works
  BY <1>1 DEF HandTrace
<1>4. 0 \in T
  BY <1>3
<1>5. ASSUME NEW i \in 1..Len(q), i - 1 \in T PROVE i \in T
  <2>1. IsMap(f[i - 1]) /\ Blank(f[i - 1]) /\ f[i] = Hand(f[i - 1], q[i]) /\ q[i] \in Works
    BY <1>1, <1>3, <1>5 DEF HandTrace
  <2>2. ~AtOnce(f[i - 1], q[i])
    BY <2>1 DEF Blank, AtOnce
  <2>3. /\ f[i].stack = f[i - 1].stack /\ f[i].ready = f[i - 1].ready
        /\ f[i].changed = f[i - 1].changed
    BY <2>1, <2>2, HandStays
  <2>5. Handed(f[i - 1], f[i])
    BY <2>1, HandHands
  <2>4. IsMap(f[i]) /\ Blank(f[i])
    BY <2>1, <2>3, <2>5 DEF Blank, Handed
  <2> QED BY <1>3, <2>4
<1> HIDE DEF T
<1>6. \A i \in 0..Len(q) : i \in T
  BY <1>3, <1>4, <1>5, Along
<1> QED
  BY <1>2, <1>6 DEF T

(* The first style, with nothing of the widget's on it yet *)
LEMMA LoadedIs ==
  ASSUME NEW m, IsMap(m), Blank(m),
         NEW n, n = [m EXCEPT !.parsed = TRUE, !.stack = <<LabelBlock>>]
  PROVE  /\ IsMap(n) /\ Alike(m, n) /\ Stacked(n) /\ n.parsed = TRUE /\ n.ready = m.ready
         /\ n.deferred = m.deferred /\ n.overtaken = m.overtaken
         /\ \A l \in Widget : ~On(n, l) /\ ~On(m, l)
<1>1. LabelBlock \notin Widget /\ LabelBlock \in StackLayers
  BY NoneIsOff DEF IsMap, StackLayers
<1>2. /\ <<LabelBlock>> \in Seq(StackLayers) /\ IsInjective(<<LabelBlock>>)
      /\ \A x : Holds(<<LabelBlock>>, x) <=> x = LabelBlock
  BY <1>1 DEF IsInjective, Holds
<1>3. /\ n \in Maps /\ n.stack = <<LabelBlock>> /\ n.look = m.look /\ n.parsed = TRUE
      /\ n.ready = m.ready /\ n.deferred = m.deferred /\ n.overtaken = m.overtaken
  <2>1. m \in Maps
    BY DEF IsMap, Shaped
  <2> QED BY <1>2, <2>1 DEF Maps
<1>4. \A l \in Widget : ~On(n, l)
  BY <1>1, <1>2, <1>3, OnHolds
<1>5. \A l : ~On(m, l)
  BY OnHolds DEF Blank, Holds
<1>6. \A l \in Widget : m.look[l] = Absent
  BY <1>5 DEF IsMap, Shaped
<1>7. IsMap(n)
  BY <1>2, <1>3, <1>4, <1>6, LayerNames DEF IsMap, Shaped
<1>8. Alike(m, n)
  BY <1>3, <1>4, <1>5, LaneNames DEF Alike, Agree
<1>9. Stacked(n)
  BY <1>4, LayerNames DEF Stacked, Under
<1> QED
  BY <1>3, <1>4, <1>5, <1>7, <1>8, <1>9

-----------------------------------------------------------------------------
(* The invariant                                                           *)

(* What is wanted, and what waits, is of its type. *)
Kept(w, m) ==
  /\ w \in Wanted /\ IsMap(m) /\ Lined(m, m.deferred)
  /\ m.ready => m.parsed
  /\ ~m.parsed => Blank(m)

(* Unless a work overtook one that waits, the map will draw what is wanted. *)
WillDraw(w, m) == ~m.overtaken => Draws(w, RunDeferred(m))

TopDots(m) == m.parsed /\ ~m.changed /\ On(m, "dots") => Last(m.stack) = "dots"

ViewInv ==
  /\ Kept(want, map) /\ WillDraw(want, map) /\ Stacked(map) /\ TopDots(map)
  /\ swapping \in BOOLEAN /\ (swapping => map.parsed)
  /\ acts \in 0..MaxActs /\ moves \in 0..MaxMoves

(* A change of what is wanted, handed over *)
LEMMA CommitKeeps ==
  ASSUME NEW o, NEW m, Kept(o, m), WillDraw(o, m), Stacked(m), TopDots(m),
         NEW n \in Wanted, Changes(o, n),
         n.mark = "local" /\ o.mark # "local" => On(m, "line"),
         NEW k, k = HandAll(m, Effects(o, n))
  PROVE  /\ Kept(n, k) /\ WillDraw(n, k) /\ Stacked(k) /\ TopDots(k) /\ k.parsed = m.parsed
         /\ On(k, LabelBlock) <=> On(m, LabelBlock)
<1> DEFINE q == Effects(o, n)
<1>1. o \in Wanted /\ IsMap(m) /\ Lined(m, m.deferred)
  BY DEF Kept
<1>2. q \in Seq(Works) /\ Lined(m, q)
  BY <1>1, EffectsLined
<1> HIDE DEF q
<1>3. Handed(m, k) /\ IsMap(k)
  BY <1>1, <1>2, HandAllKeeps DEF q
<1>4. /\ Lined(k, k.deferred)
      /\ ~k.overtaken => Alike(RunDeferred(k), RunAll(RunDeferred(m), q))
  <2>1. k = HandAll(m, q)
    BY DEF q
  <2> QED BY <1>1, <1>2, <2>1, HandAllFinal
<1>5. WillDraw(n, k)
  <2>1. SUFFICES ASSUME ~k.overtaken PROVE Draws(n, RunDeferred(k))
    BY DEF WillDraw
  <2>2. ~m.overtaken
    BY <1>3, <2>1 DEF Handed
  <2>3. Draws(o, RunDeferred(m))
    BY <2>2 DEF WillDraw
  <2>4. IsMap(RunDeferred(m)) /\ StaysOn(m, RunDeferred(m))
    BY <1>1, FinalIs
  <2>5. On(m, "line") => On(RunDeferred(m), "line")
    BY <2>4, LayerNames DEF StaysOn
  <2>6. Draws(n, RunAll(RunDeferred(m), q))
    BY <1>1, <2>3, <2>4, <2>5, EffectsDrawn DEF q
  <2>7. Alike(RunAll(RunDeferred(m), q), RunDeferred(k))
    BY <1>4, <2>1, AlikeBack
  <2> QED BY <2>6, <2>7, DrawsOn
<1>6. Kept(n, k)
  <2>1. ~k.parsed => Blank(k)
    <3>1. SUFFICES ASSUME ~k.parsed PROVE Blank(k)
      OBVIOUS
    <3>2. Blank(m)
      BY <1>3, <3>1 DEF Handed, Kept
    <3> QED BY <1>1, <1>2, <3>2, HandAllBlank DEF q
  <2>2. k.ready => k.parsed
    BY <1>3 DEF Handed, Kept
  <2> QED BY <1>3, <1>4, <2>1, <2>2 DEF Kept
<1>7. TopDots(k)
  <2>1. ~k.changed => ~m.changed /\ k.stack = m.stack
    BY <1>3 DEF Handed
  <2> QED BY <1>3, <2>1 DEF TopDots, Handed, On
<1> QED
  BY <1>3, <1>5, <1>6, <1>7 DEF Handed

(* What waits runs *)
LEMMA DeferredKeeps ==
  ASSUME NEW w, NEW m, Kept(w, m), m.parsed, WillDraw(w, m), Stacked(m), TopDots(m),
         NEW k, k = RunDeferred(m)
  PROVE  /\ Kept(w, k) /\ WillDraw(w, k) /\ Stacked(k) /\ TopDots(k) /\ k.parsed
         /\ On(k, LabelBlock) <=> On(m, LabelBlock)
<1>1. w \in Wanted /\ IsMap(m)
  BY DEF Kept
<1>2. /\ IsMap(k) /\ k.deferred = <<>> /\ k.parsed = m.parsed /\ k.overtaken = m.overtaken
      /\ k.ready => m.ready
      /\ m.changed => k.changed
      /\ k.stack # m.stack => k.changed
      /\ On(k, LabelBlock) <=> On(m, LabelBlock)
      /\ Stacked(m) => Stacked(k)
  BY <1>1, FinalIs
<1>3. RunDeferred(k) = k
  BY <1>2, SettledIs
<1>4. WillDraw(w, k)
  BY <1>2, <1>3 DEF WillDraw
<1>5. Lined(k, k.deferred)
  BY <1>2 DEF Lined
<1>6. TopDots(k)
  <2>1. ~k.changed => ~m.changed /\ k.stack = m.stack
    BY <1>2
  <2> QED BY <1>2, <2>1 DEF TopDots, On
<1> QED
  BY <1>1, <1>2, <1>4, <1>5, <1>6 DEF Kept

(* The map changes without a work running *)
LEMMA MapKeeps ==
  ASSUME NEW w, NEW m, Kept(w, m), WillDraw(w, m), NEW k, IsMap(k), Alike(m, k), k.parsed,
         k.deferred = m.deferred, k.overtaken = m.overtaken
  PROVE  Kept(w, k) /\ WillDraw(w, k)
<1>1. w \in Wanted /\ IsMap(m) /\ Lined(m, m.deferred)
  BY DEF Kept
<1>2. On(m, "line") <=> On(k, "line")
  BY LanesAre DEF Alike, Agree, Lanes
<1>3. Lined(k, k.deferred)
  BY <1>1, <1>2 DEF Lined
<1>4. Alike(RunDeferred(m), RunDeferred(k))
  BY <1>1, <1>3, DeferredAlike
<1>5. WillDraw(w, k)
  BY <1>4, DrawsOn DEF WillDraw
<1> QED
  BY <1>1, <1>3, <1>5 DEF Kept

Same == map'.parsed = map.parsed /\ (On(map', LabelBlock) <=> On(map, LabelBlock))

LEMMA StartIs ==
  /\ Start \in Wanted /\ Answered \in Wanted
  /\ Changes(Start, Start) /\ Changes(Start, Answered)
  /\ Start.mark = "none" /\ Answered.mark = "none"
<1>1. Start \in Wanted
  BY DEF Start, Wanted
<1>2. Answered = [Start EXCEPT !.pipStyle = TRUE, !.eaoStyle = TRUE, !.loaded = TRUE,
                  !.shown = Projects]
  BY DEF Answered
<1>3. Answered \in Wanted /\ Answered.mark = "none"
  BY <1>1, <1>2 DEF Wanted, Start
<1>4. Changes(Start, Start)
  BY DEF Changes, Start
<1>5. Changes(Start, Answered)
  BY <1>2 DEF Changes, Start
<1>6. Start.mark = "none"
  BY DEF Start
<1> QED
  BY <1>1, <1>3, <1>4, <1>5, <1>6

LEMMA BareIs ==
  /\ IsMap(Bare) /\ Draws(Start, Bare) /\ Blank(Bare) /\ ~Bare.overtaken
  /\ Bare.deferred = <<>> /\ \A l : ~On(Bare, l)
<1>1. /\ Bare.stack = <<>> /\ Bare.parsed = FALSE /\ Bare.ready = FALSE /\ Bare.changed = FALSE
      /\ Bare.deferred = <<>> /\ Bare.overtaken = FALSE /\ Bare.look = [l \in Widget |-> Absent]
  BY DEF Bare
<1>2. \A l : ~On(Bare, l)
  BY <1>1, OnHolds DEF Holds
<1>3. Bare \in Maps
  BY AbsentIs DEF Bare, Maps
<1>4. \A l \in Widget : Bare.look[l] = Absent
  BY <1>1
<1>5. IsInjective(Bare.stack)
  BY <1>1 DEF IsInjective
<1>6. IsMap(Bare)
  BY <1>2, <1>3, <1>4, <1>5 DEF IsMap, Shaped
<1>7. \A l \in Widget : /\ Bare.look[l].visible = FALSE /\ Bare.look[l].of = {}
  BY <1>4, AbsentIs
<1>8. /\ Start.percent = 0 /\ Start.pip = FALSE /\ Start.eaoStyle = FALSE /\ Start.loaded = FALSE
      /\ Start.imported = "new" /\ Start.mark = "none"
  BY DEF Start
<1>9. Draws(Start, Bare)
  BY <1>2, <1>7, <1>8, LayerNames
  DEF Draws, DrawsWms, DrawsPip, DrawsEao, DrawsImported, DrawsMark, DrawsDots
<1> QED
  BY <1>1, <1>2, <1>6, <1>9 DEF Blank

LEMMA ViewStarts == ViewInit => ViewInv
<1> SUFFICES ASSUME ViewInit PROVE ViewInv
  OBVIOUS
<1> DEFINE q == Effects(Start, want)
<1>1. want \in Wanted /\ Changes(Start, want) /\ want.mark = "none" /\ Start \in Wanted
  BY StartIs DEF ViewInit
<1>2. /\ q \in Seq(Works) /\ Draws(want, RunAll(Bare, q))
  BY <1>1, BareIs, EffectsDrawn
<1>3. map = [Bare EXCEPT !.deferred = q]
  BY DEF ViewInit
<1>4. Lined(map, q)
  BY <1>1, EffectsLined
<1> HIDE DEF q
<1>5. Bare \in Maps
  BY BareIs DEF IsMap, Shaped
<1>6. /\ map \in Maps /\ map.stack = Bare.stack /\ map.look = Bare.look /\ map.parsed = Bare.parsed
      /\ map.ready = Bare.ready /\ map.changed = Bare.changed /\ map.overtaken = Bare.overtaken
      /\ map.deferred = q /\ Emptied(map) = Bare
  BY <1>2, <1>3, <1>5, BareIs DEF Maps, Emptied
<1>7. IsMap(map) /\ (Stacked(Bare) <=> Stacked(map))
  BY <1>6, BareIs, SameMap
<1>8. Stacked(Bare)
  BY BareIs DEF Stacked, Under
<1>9. RunDeferred(map) = RunAll(Bare, q)
  BY <1>6 DEF RunDeferred, Emptied
<1>10. WillDraw(want, map)
  BY <1>2, <1>9 DEF WillDraw
<1>11. Blank(map)
  BY <1>6, BareIs DEF Blank
<1>12. Kept(want, map) /\ TopDots(map)
  BY <1>1, <1>4, <1>6, <1>7, <1>11 DEF Kept, TopDots, Blank
<1>13. acts = 0 /\ moves = 0 /\ swapping = FALSE
  BY DEF ViewInit
<1>14. MaxActs \in Nat /\ MaxMoves \in Nat
  BY ViewAssumption
<1>15. acts \in 0..MaxActs /\ moves \in 0..MaxMoves
  BY <1>13, <1>14
<1> QED
  BY <1>7, <1>8, <1>10, <1>12, <1>13, <1>15 DEF ViewInv

LEMMA MarkedIs ==
  ASSUME NEW o, NEW n \in Wanted, Changes(o, n), NEW w, w = Marked(n)
  PROVE  w \in Wanted /\ Changes(o, w) /\ (w.mark = "none" \/ w.mark = n.mark)
<1>1. w = n \/ w = [n EXCEPT !.mark = "none"]
  BY DEF Marked
<1>2. CASE w = n
  BY <1>2
<1>3. CASE w = [n EXCEPT !.mark = "none"]
  <2>1. w \in Wanted /\ w.mark = "none"
    BY <1>3 DEF Wanted
  <2>2. /\ w.floor = n.floor /\ w.pipStyle = n.pipStyle /\ w.eaoStyle = n.eaoStyle
        /\ w.loaded = n.loaded /\ w.imported = n.imported
    BY <1>3 DEF Wanted
  <2>3. Changes(o, w)
    BY <2>2 DEF Changes
  <2> QED BY <2>1, <2>3
<1> QED
  BY <1>1, <1>2, <1>3

LEMMA CommitStep ==
  ASSUME ViewInv, NEW n \in Wanted, Changes(want, n),
         n.mark = "local" /\ want.mark # "local" => On(map, "line"),
         Commit(n)
  PROVE  ViewInv' /\ Same
<1> DEFINE w == Marked(n)
<1>1. w \in Wanted /\ Changes(want, w) /\ (w.mark = "none" \/ w.mark = n.mark)
  BY MarkedIs
<1> HIDE DEF w
<1>2. want' = w /\ map' = HandAll(map, Effects(want, w)) /\ swapping' = swapping /\ moves' = moves
  BY DEF Commit, w
<1>3. w.mark = "local" /\ want.mark # "local" => On(map, "line")
  BY <1>1
<1>4. Kept(want, map) /\ WillDraw(want, map) /\ Stacked(map) /\ TopDots(map)
  BY DEF ViewInv
<1> DEFINE k == HandAll(map, Effects(want, w))
<1>5. /\ Kept(w, k) /\ WillDraw(w, k) /\ Stacked(k) /\ TopDots(k) /\ k.parsed = map.parsed
      /\ On(k, LabelBlock) <=> On(map, LabelBlock)
  BY <1>1, <1>3, <1>4, CommitKeeps
<1> HIDE DEF k
<1>6. acts' \in 0..MaxActs
  BY ViewAssumption DEF Commit, ViewInv
<1>7. map' = k /\ want' = w
  BY <1>2 DEF k
<1>8. Kept(want', map') /\ WillDraw(want', map') /\ Stacked(map') /\ TopDots(map') /\ Same
  BY <1>5, <1>7 DEF Same
<1> QED
  BY <1>2, <1>6, <1>8 DEF ViewInv, Same

LEMMA WantedNow == ViewInv => want \in Wanted /\ IsMap(map)
BY DEF ViewInv, Kept

LEMMA FeaturesAre ==
  <<Open, "component">> \in Features /\ <<Open, "footprint">> \in Features
BY ViewAssumption, LayerNames DEF Features

LEMMA ApplyStep ==
  ASSUME ViewInv, Apply
  PROVE  ViewInv' /\ Same
<1>1. want \in Wanted
  BY WantedNow
<1>2. PICK p \in {1, 2} : Commit([want EXCEPT !.percent = p])
  BY DEF Apply
<1> DEFINE n == [want EXCEPT !.percent = p]
<1>3. n \in Wanted
  BY <1>1, <1>2 DEF Wanted
<1>4. Changes(want, n) /\ n.mark = want.mark
  BY <1>1, <1>2 DEF Wanted, Changes
<1> HIDE DEF n
<1>5. Commit(n)
  BY <1>2 DEF n
<1> QED
  BY <1>3, <1>4, <1>5, CommitStep

LEMMA UnapplyStep ==
  ASSUME ViewInv, Unapply
  PROVE  ViewInv' /\ Same
<1>1. want \in Wanted
  BY WantedNow
<1> DEFINE n == [want EXCEPT !.percent = 0]
<1>2. Commit(n) /\ want.percent # 0
  BY DEF Unapply
<1>3. n \in Wanted
  BY <1>1, <1>2 DEF Wanted
<1>4. Changes(want, n) /\ n.mark = want.mark
  BY <1>1, <1>2 DEF Wanted, Changes
<1> HIDE DEF n
<1>5. Commit(n)
  BY <1>2 DEF n
<1> QED
  BY <1>3, <1>4, <1>5, CommitStep

LEMMA SlideStep ==
  ASSUME ViewInv, Slide
  PROVE  ViewInv' /\ Same
<1>1. want \in Wanted
  BY WantedNow
<1> DEFINE n == [want EXCEPT !.percent = 3 - @]
<1>2. Commit(n) /\ want.percent # 0
  BY DEF Slide
<1>3. n \in Wanted
  BY <1>1, <1>2 DEF Wanted
<1>4. Changes(want, n) /\ n.mark = want.mark
  BY <1>1, <1>2 DEF Wanted, Changes
<1> HIDE DEF n
<1>5. Commit(n)
  BY <1>2 DEF n
<1> QED
  BY <1>3, <1>4, <1>5, CommitStep

LEMMA PublishStep ==
  ASSUME ViewInv, Publish
  PROVE  ViewInv' /\ Same
<1>1. want \in Wanted
  BY WantedNow
<1>2. PICK z \in Floors : want.floor = None /\ Commit([want EXCEPT !.floor = z])
  BY DEF Publish
<1> DEFINE n == [want EXCEPT !.floor = z]
<1>3. n \in Wanted
  BY <1>1, <1>2 DEF Wanted
<1>4. Changes(want, n) /\ n.mark = want.mark
  BY <1>1, <1>2 DEF Wanted, Changes
<1> HIDE DEF n
<1>5. Commit(n)
  BY <1>2 DEF n
<1> QED
  BY <1>3, <1>4, <1>5, CommitStep

LEMMA TogglePipStep ==
  ASSUME ViewInv, TogglePip
  PROVE  ViewInv' /\ Same
<1>1. want \in Wanted
  BY WantedNow
<1> DEFINE n == [want EXCEPT !.pip = ~@]
<1>2. Commit(n)
  BY DEF TogglePip
<1>3. n \in Wanted
  BY <1>1, <1>2 DEF Wanted
<1>4. Changes(want, n) /\ n.mark = want.mark
  BY <1>1, <1>2 DEF Wanted, Changes
<1> HIDE DEF n
<1>5. Commit(n)
  BY <1>2 DEF n
<1> QED
  BY <1>3, <1>4, <1>5, CommitStep

LEMMA PipStyleStep ==
  ASSUME ViewInv, PipStyle
  PROVE  ViewInv' /\ Same
<1>1. want \in Wanted
  BY WantedNow
<1> DEFINE n == [want EXCEPT !.pipStyle = TRUE]
<1>2. Commit(n)
  BY DEF PipStyle
<1>3. n \in Wanted
  BY <1>1, <1>2 DEF Wanted
<1>4. Changes(want, n) /\ n.mark = want.mark
  BY <1>1, <1>2 DEF Wanted, Changes
<1> HIDE DEF n
<1>5. Commit(n)
  BY <1>2 DEF n
<1> QED
  BY <1>3, <1>4, <1>5, CommitStep

LEMMA WidenStep ==
  ASSUME ViewInv, Widen
  PROVE  ViewInv' /\ Same
<1>1. want \in Wanted
  BY WantedNow
<1> DEFINE n == [want EXCEPT !.width = 3 - @]
<1>2. Commit(n)
  BY DEF Widen
<1>3. n \in Wanted
  BY <1>1, <1>2 DEF Wanted
<1>4. Changes(want, n) /\ n.mark = want.mark
  BY <1>1, <1>2 DEF Wanted, Changes
<1> HIDE DEF n
<1>5. Commit(n)
  BY <1>2 DEF n
<1> QED
  BY <1>3, <1>4, <1>5, CommitStep

LEMMA EaoStyleStep ==
  ASSUME ViewInv, EaoStyle
  PROVE  ViewInv' /\ Same
<1>1. want \in Wanted
  BY WantedNow
<1> DEFINE n == [want EXCEPT !.eaoStyle = TRUE]
<1>2. Commit(n)
  BY DEF EaoStyle
<1>3. n \in Wanted
  BY <1>1, <1>2 DEF Wanted
<1>4. Changes(want, n) /\ n.mark = want.mark
  BY <1>1, <1>2 DEF Wanted, Changes
<1> HIDE DEF n
<1>5. Commit(n)
  BY <1>2 DEF n
<1> QED
  BY <1>3, <1>4, <1>5, CommitStep

LEMMA LoadProjectsStep ==
  ASSUME ViewInv, LoadProjects
  PROVE  ViewInv' /\ Same
<1>1. want \in Wanted
  BY WantedNow
<1> DEFINE n == [want EXCEPT !.loaded = TRUE, !.shown = Projects]
<1>2. Commit(n)
  BY DEF LoadProjects
<1>3. n \in Wanted
  BY <1>1, <1>2 DEF Wanted
<1>4. Changes(want, n) /\ n.mark = want.mark
  BY <1>1, <1>2 DEF Wanted, Changes
<1> HIDE DEF n
<1>5. Commit(n)
  BY <1>2 DEF n
<1> QED
  BY <1>3, <1>4, <1>5, CommitStep

LEMMA FilterStep ==
  ASSUME ViewInv, Filter
  PROVE  ViewInv' /\ Same
<1>1. want \in Wanted
  BY WantedNow
<1>2. PICK S \in SUBSET Projects : Commit([want EXCEPT !.shown = S])
  BY DEF Filter
<1> DEFINE n == [want EXCEPT !.shown = S]
<1>3. n \in Wanted
  BY <1>1, <1>2 DEF Wanted
<1>4. Changes(want, n) /\ n.mark = want.mark
  BY <1>1, <1>2 DEF Wanted, Changes
<1> HIDE DEF n
<1>5. Commit(n)
  BY <1>2 DEF n
<1> QED
  BY <1>3, <1>4, <1>5, CommitStep

LEMMA RevealStep ==
  ASSUME ViewInv, Reveal
  PROVE  ViewInv' /\ Same
<1>1. want \in Wanted
  BY WantedNow
<1>2. PICK f \in Features : Commit([want EXCEPT !.revealed = SymDiff(@, {f})])
  BY FeaturesAre DEF Reveal
<1> DEFINE n == [want EXCEPT !.revealed = SymDiff(@, {f})]
<1>3. n \in Wanted
  BY <1>1, <1>2 DEF Wanted, SymDiff
<1>4. Changes(want, n) /\ n.mark = want.mark
  BY <1>1, <1>2 DEF Wanted, Changes
<1> HIDE DEF n
<1>5. Commit(n)
  BY <1>2 DEF n
<1> QED
  BY <1>3, <1>4, <1>5, CommitStep

LEMMA HideFootprintStep ==
  ASSUME ViewInv, HideFootprint
  PROVE  ViewInv' /\ Same
<1>1. want \in Wanted
  BY WantedNow
<1>2. PICK f \in Features : Commit([want EXCEPT !.hidden = SymDiff(@, {f})])
  BY FeaturesAre DEF HideFootprint
<1> DEFINE n == [want EXCEPT !.hidden = SymDiff(@, {f})]
<1>3. n \in Wanted
  BY <1>1, <1>2 DEF Wanted, SymDiff
<1>4. Changes(want, n) /\ n.mark = want.mark
  BY <1>1, <1>2 DEF Wanted, Changes
<1> HIDE DEF n
<1>5. Commit(n)
  BY <1>2 DEF n
<1> QED
  BY <1>3, <1>4, <1>5, CommitStep

LEMMA PickStep ==
  ASSUME ViewInv, Pick
  PROVE  ViewInv' /\ Same
<1>1. want \in Wanted
  BY WantedNow
<1>2. PICK f \in Features : Commit([want EXCEPT !.picked = SymDiff(@, {f})])
  BY FeaturesAre DEF Pick
<1> DEFINE n == [want EXCEPT !.picked = SymDiff(@, {f})]
<1>3. n \in Wanted
  BY <1>1, <1>2 DEF Wanted, SymDiff
<1>4. Changes(want, n) /\ n.mark = want.mark
  BY <1>1, <1>2 DEF Wanted, Changes
<1> HIDE DEF n
<1>5. Commit(n)
  BY <1>2 DEF n
<1> QED
  BY <1>3, <1>4, <1>5, CommitStep

LEMMA ChooseStep ==
  ASSUME ViewInv, Choose
  PROVE  ViewInv' /\ Same
<1>1. want \in Wanted
  BY WantedNow
<1>2. PICK f \in Features : Commit([want EXCEPT !.chosen = {f}])
  BY DEF Choose
<1> DEFINE n == [want EXCEPT !.chosen = {f}]
<1>3. n \in Wanted
  BY <1>1, <1>2 DEF Wanted
<1>4. Changes(want, n) /\ n.mark = want.mark
  BY <1>1, <1>2 DEF Wanted, Changes
<1> HIDE DEF n
<1>5. Commit(n)
  BY <1>2 DEF n
<1> QED
  BY <1>3, <1>4, <1>5, CommitStep

LEMMA UnchooseStep ==
  ASSUME ViewInv, Unchoose
  PROVE  ViewInv' /\ Same
<1>1. want \in Wanted
  BY WantedNow
<1> DEFINE n == [want EXCEPT !.chosen = {}]
<1>2. Commit(n)
  BY DEF Unchoose
<1>3. n \in Wanted
  BY <1>1, <1>2 DEF Wanted
<1>4. Changes(want, n) /\ n.mark = want.mark
  BY <1>1, <1>2 DEF Wanted, Changes
<1> HIDE DEF n
<1>5. Commit(n)
  BY <1>2 DEF n
<1> QED
  BY <1>3, <1>4, <1>5, CommitStep

LEMMA ShowMineStep ==
  ASSUME ViewInv, ShowMine
  PROVE  ViewInv' /\ Same
<1>1. want \in Wanted
  BY WantedNow
<1> DEFINE n == [want EXCEPT !.imported = "on"]
<1>2. Commit(n) /\ want.imported \in {"new", "off"}
  BY DEF ShowMine
<1>3. n \in Wanted
  BY <1>1, <1>2 DEF Wanted
<1>4. Changes(want, n) /\ n.mark = want.mark
  BY <1>1, <1>2 DEF Wanted, Changes
<1> HIDE DEF n
<1>5. Commit(n)
  BY <1>2 DEF n
<1> QED
  BY <1>3, <1>4, <1>5, CommitStep

LEMMA HideMineStep ==
  ASSUME ViewInv, HideMine
  PROVE  ViewInv' /\ Same
<1>1. want \in Wanted
  BY WantedNow
<1> DEFINE n == [want EXCEPT !.imported = "off"]
<1>2. Commit(n) /\ want.imported = "on"
  BY DEF HideMine
<1>3. n \in Wanted
  BY <1>1, <1>2 DEF Wanted
<1>4. Changes(want, n) /\ n.mark = want.mark
  BY <1>1, <1>2 DEF Wanted, Changes
<1> HIDE DEF n
<1>5. Commit(n)
  BY <1>2 DEF n
<1> QED
  BY <1>3, <1>4, <1>5, CommitStep

LEMMA DeleteMineStep ==
  ASSUME ViewInv, DeleteMine
  PROVE  ViewInv' /\ Same
<1>1. want \in Wanted
  BY WantedNow
<1> DEFINE n == [want EXCEPT !.imported = "gone"]
<1>2. Commit(n) /\ want.imported \in {"on", "off"}
  BY DEF DeleteMine
<1>3. n \in Wanted
  BY <1>1, <1>2 DEF Wanted
<1>4. Changes(want, n) /\ n.mark = want.mark
  BY <1>1, <1>2 DEF Wanted, Changes
<1> HIDE DEF n
<1>5. Commit(n)
  BY <1>2 DEF n
<1> QED
  BY <1>3, <1>4, <1>5, CommitStep

LEMMA FadeMineStep ==
  ASSUME ViewInv, FadeMine
  PROVE  ViewInv' /\ Same
<1>1. want \in Wanted
  BY WantedNow
<1> DEFINE n == [want EXCEPT !.fade = 3 - @]
<1>2. Commit(n)
  BY DEF FadeMine
<1>3. n \in Wanted
  BY <1>1, <1>2 DEF Wanted
<1>4. Changes(want, n) /\ n.mark = want.mark
  BY <1>1, <1>2 DEF Wanted, Changes
<1> HIDE DEF n
<1>5. Commit(n)
  BY <1>2 DEF n
<1> QED
  BY <1>3, <1>4, <1>5, CommitStep

LEMMA MarkStep ==
  ASSUME ViewInv, Mark
  PROVE  ViewInv' /\ Same
<1>1. want \in Wanted
  BY WantedNow
<1>2. PICK k \in {"none", "shape", "tiles", "local"} :
        /\ k = "local" => On(map, "line")
        /\ Commit([want EXCEPT !.mark = k])
  BY DEF Mark
<1> DEFINE n == [want EXCEPT !.mark = k]
<1>3. n \in Wanted /\ n.mark = k
  BY <1>1 DEF Wanted, Kinds
<1>4. Changes(want, n)
  BY <1>1 DEF Wanted, Changes
<1> HIDE DEF n
<1>5. Commit(n)
  BY <1>2 DEF n
<1> QED
  BY <1>2, <1>3, <1>4, <1>5, CommitStep

LEMMA PanStep ==
  ASSUME ViewInv, Pan
  PROVE  ViewInv' /\ Same
<1>1. want \in Wanted /\ IsMap(map) /\ map \in Maps
  BY WantedNow DEF IsMap, Shaped
<1>2. /\ map' = [map EXCEPT !.ready = FALSE] /\ want' = want /\ swapping' = swapping /\ acts' = acts
      /\ map.ready
  BY DEF Pan
<1>3. moves' \in 0..MaxMoves
  BY ViewAssumption DEF Pan, ViewInv
<1> DEFINE k == [map EXCEPT !.ready = FALSE]
<1>4. /\ k \in Maps /\ k.stack = map.stack /\ k.look = map.look /\ k.parsed = map.parsed
      /\ k.changed = map.changed /\ k.deferred = map.deferred /\ k.overtaken = map.overtaken
      /\ k.ready = FALSE
  BY <1>1 DEF Maps
<1> HIDE DEF k
<1>5. IsMap(k) /\ Alike(map, k) /\ (Stacked(map) <=> Stacked(k)) /\ \A l : On(k, l) <=> On(map, l)
  BY <1>1, <1>4, SameMap
<1>6. map.parsed
  BY <1>2 DEF ViewInv, Kept
<1>7. Kept(want, k) /\ WillDraw(want, k)
  BY <1>4, <1>5, <1>6, MapKeeps DEF ViewInv
<1>8. TopDots(k)
  BY <1>4, <1>5 DEF TopDots, ViewInv
<1>9. map' = k
  BY <1>2 DEF k
<1> QED
  BY <1>2, <1>3, <1>4, <1>5, <1>7, <1>8, <1>9 DEF ViewInv, Same

LEMMA SwitchStep ==
  ASSUME ViewInv, SwitchBasemap
  PROVE  ViewInv' /\ Same
<1>1. map' = map /\ want' = want /\ acts' = acts /\ swapping' = TRUE /\ map.parsed
  BY DEF SwitchBasemap
<1>2. moves' \in 0..MaxMoves
  BY ViewAssumption DEF SwitchBasemap, ViewInv
<1> QED
  BY <1>1, <1>2 DEF ViewInv, Same

LEMMA TilesStep ==
  ASSUME ViewInv, TilesArrive
  PROVE  ViewInv' /\ Same
<1>1. want \in Wanted /\ IsMap(map) /\ map \in Maps
  BY WantedNow DEF IsMap, Shaped
<1>2. /\ map' = [map EXCEPT !.ready = TRUE] /\ want' = want /\ swapping' = swapping /\ acts' = acts
      /\ map.parsed /\ moves' = moves
  BY DEF TilesArrive
<1> DEFINE k == [map EXCEPT !.ready = TRUE]
<1>4. /\ k \in Maps /\ k.stack = map.stack /\ k.look = map.look /\ k.parsed = map.parsed
      /\ k.changed = map.changed /\ k.deferred = map.deferred /\ k.overtaken = map.overtaken
  BY <1>1 DEF Maps
<1> HIDE DEF k
<1>5. IsMap(k) /\ Alike(map, k) /\ (Stacked(map) <=> Stacked(k)) /\ \A l : On(k, l) <=> On(map, l)
  BY <1>1, <1>4, SameMap
<1>7. Kept(want, k) /\ WillDraw(want, k)
  BY <1>2, <1>4, <1>5, MapKeeps DEF ViewInv
<1>8. TopDots(k)
  BY <1>4, <1>5 DEF TopDots, ViewInv
<1>9. map' = k
  BY <1>2 DEF k
<1> QED
  BY <1>2, <1>4, <1>5, <1>7, <1>8, <1>9 DEF ViewInv, Same

LEMMA IdleStep ==
  ASSUME ViewInv, BecomesIdle
  PROVE  ViewInv' /\ Same
<1>1. /\ map' = RunDeferred(map) /\ want' = want /\ swapping' = swapping /\ acts' = acts
      /\ moves' = moves /\ map.parsed
  BY DEF BecomesIdle, ViewInv, Kept
<1> DEFINE k == RunDeferred(map)
<1>2. /\ Kept(want, k) /\ WillDraw(want, k) /\ Stacked(k) /\ TopDots(k) /\ k.parsed
      /\ On(k, LabelBlock) <=> On(map, LabelBlock)
  BY <1>1, DeferredKeeps DEF ViewInv
<1>3. k.parsed = map.parsed
  BY WantedNow, FinalIs
<1> HIDE DEF k
<1>4. map' = k
  BY <1>1 DEF k
<1> QED
  BY <1>1, <1>2, <1>3, <1>4 DEF ViewInv, Same

LEMMA FrameStep ==
  ASSUME ViewInv, Frame
  PROVE  ViewInv' /\ Same
<1>1. /\ want' = want /\ swapping' = swapping /\ acts' = acts /\ moves' = moves /\ map.changed
      /\ map' = RunDeferred(KeepProjectsOnTop([map EXCEPT !.changed = FALSE]))
  BY DEF Frame
<1>2. want \in Wanted /\ IsMap(map) /\ map \in Maps /\ map.parsed
  BY <1>1, WantedNow DEF IsMap, Shaped, ViewInv, Kept, Blank
<1> DEFINE j == [map EXCEPT !.changed = FALSE]
           i == KeepProjectsOnTop(j)
           k == RunDeferred(i)
<1>3. /\ j \in Maps /\ j.stack = map.stack /\ j.look = map.look /\ j.parsed = map.parsed
      /\ j.deferred = map.deferred /\ j.overtaken = map.overtaken
  BY <1>2 DEF Maps
<1> HIDE DEF j
<1>4. IsMap(j) /\ Alike(map, j) /\ (Stacked(map) <=> Stacked(j)) /\ \A l : On(j, l) <=> On(map, l)
  BY <1>2, <1>3, SameMap
<1>5. /\ IsMap(i) /\ Alike(j, i) /\ i.parsed = j.parsed
      /\ i.deferred = j.deferred /\ i.overtaken = j.overtaken
      /\ \A l : On(i, l) <=> On(j, l)
      /\ Stacked(j) => Stacked(i)
      /\ On(i, "dots") => Last(i.stack) = "dots"
  BY <1>4, KeepTopIs
<1> HIDE DEF i
<1>6. Alike(map, i)
  BY <1>4, <1>5, AlikeOn
<1>7. Kept(want, i) /\ WillDraw(want, i)
  BY <1>2, <1>3, <1>5, <1>6, MapKeeps DEF ViewInv
<1>8. Stacked(i) /\ TopDots(i)
  BY <1>4, <1>5 DEF ViewInv, TopDots
<1>9. /\ Kept(want, k) /\ WillDraw(want, k) /\ Stacked(k) /\ TopDots(k) /\ k.parsed
      /\ On(k, LabelBlock) <=> On(i, LabelBlock)
  BY <1>2, <1>3, <1>5, <1>7, <1>8, DeferredKeeps
<1>10. k.parsed = i.parsed
  BY <1>5, FinalIs
<1> HIDE DEF k
<1>11. map' = k
  BY <1>1 DEF k, i, j
<1> QED
  BY <1>1, <1>2, <1>3, <1>4, <1>5, <1>9, <1>10, <1>11 DEF ViewInv, Same

LEMMA LoadStep ==
  ASSUME ViewInv, Load
  PROVE  ViewInv'
<1>1. /\ want' = want /\ swapping' = swapping /\ acts' = acts /\ moves' = moves /\ ~map.parsed
      /\ map' = RunDeferred([map EXCEPT !.parsed = TRUE, !.stack = <<LabelBlock>>])
  BY DEF Load
<1>2. want \in Wanted /\ IsMap(map) /\ Blank(map)
  BY <1>1, WantedNow DEF ViewInv, Kept
<1> DEFINE j == [map EXCEPT !.parsed = TRUE, !.stack = <<LabelBlock>>]
           k == RunDeferred(j)
<1>3. /\ IsMap(j) /\ Alike(map, j) /\ Stacked(j) /\ j.parsed = TRUE
      /\ j.deferred = map.deferred /\ j.overtaken = map.overtaken
      /\ \A l \in Widget : ~On(j, l) /\ ~On(map, l)
  BY <1>2, LoadedIs
<1> HIDE DEF j
<1>4. Kept(want, j) /\ WillDraw(want, j)
  BY <1>3, MapKeeps DEF ViewInv
<1>5. TopDots(j)
  BY <1>3, LayerNames DEF TopDots
<1>6. Kept(want, k) /\ WillDraw(want, k) /\ Stacked(k) /\ TopDots(k) /\ k.parsed
  BY <1>3, <1>4, <1>5, DeferredKeeps
<1> HIDE DEF k
<1>7. map' = k
  BY <1>1 DEF k, j
<1> QED
  BY <1>1, <1>6, <1>7 DEF ViewInv

LEMMA BasemapStep ==
  ASSUME ViewInv, BasemapArrives
  PROVE  ViewInv'
<1>1. /\ want' = want /\ swapping' = FALSE /\ acts' = acts /\ moves' = moves /\ swapping
      /\ map' = CarryWidgetLayers(map)
  BY DEF BasemapArrives
<1>2. want \in Wanted /\ IsMap(map) /\ map.parsed
  BY <1>1, WantedNow DEF ViewInv
<1> DEFINE k == CarryWidgetLayers(map)
<1>3. /\ IsMap(k) /\ Alike(map, k) /\ k.parsed = map.parsed
      /\ k.deferred = map.deferred /\ k.overtaken = map.overtaken /\ k.changed = TRUE
      /\ Stacked(map) => Stacked(k)
  BY <1>2, CarryIs
<1> HIDE DEF k
<1>4. Kept(want, k) /\ WillDraw(want, k)
  BY <1>2, <1>3, MapKeeps DEF ViewInv
<1>5. TopDots(k)
  BY <1>3 DEF TopDots
<1>6. map' = k
  BY <1>1 DEF k
<1> QED
  BY <1>1, <1>3, <1>4, <1>5, <1>6 DEF ViewInv

LEMMA ViewSteps ==
  ASSUME ViewInv, ViewNext
  PROVE  ViewInv' /\ (Same \/ ~map.parsed \/ BasemapArrives)
<1>1. CASE Panel
  BY <1>1, ApplyStep, UnapplyStep, SlideStep, PublishStep, TogglePipStep, PipStyleStep, WidenStep
  DEF Panel
<1>2. CASE Panels
  BY <1>2, RevealStep, HideFootprintStep, PickStep, ChooseStep, UnchooseStep DEF Panels
<1>3. CASE Bar
  BY <1>3, EaoStyleStep, LoadProjectsStep, FilterStep DEF Bar
<1>4. CASE Mine
  BY <1>4, ShowMineStep, HideMineStep, DeleteMineStep, FadeMineStep DEF Mine
<1>5. CASE Mark
  BY <1>5, MarkStep
<1>6. CASE Pan
  BY <1>6, PanStep
<1>7. CASE SwitchBasemap
  BY <1>7, SwitchStep
<1>8. CASE Load
  <2>1. ~map.parsed
    BY <1>8 DEF Load
  <2> QED BY <1>8, <2>1, LoadStep
<1>9. CASE Frame
  BY <1>9, FrameStep
<1>10. CASE TilesArrive
  BY <1>10, TilesStep
<1>11. CASE BecomesIdle
  BY <1>11, IdleStep
<1>12. CASE BasemapArrives
  BY <1>12, BasemapStep
<1> QED
  BY <1>1, <1>2, <1>3, <1>4, <1>5, <1>6, <1>7, <1>8, <1>9, <1>10, <1>11, <1>12 DEF ViewNext

LEMMA ViewStays == ViewInv /\ UNCHANGED viewVars => ViewInv' /\ Same
BY DEF viewVars, ViewInv, Same

(* The invariant the theorems about the map rest on: works that wait are of    *)
(* their types and need no layer that is not there, the stack is in order, and *)
(* the map will draw what is wanted unless a work overtook another of its      *)
(* layer (layerUtils.ts, whenStyleReady and whenStyleParsed).                  *)
THEOREM ViewInvariant == ViewSpec => []ViewInv
<1>1. ViewInit => ViewInv
  BY ViewStarts
<1>2. ViewInv /\ [ViewNext]_viewVars => ViewInv'
  BY ViewSteps, ViewStays
<1> QED
  BY <1>1, <1>2, PTL DEF ViewSpec

(* Every variable keeps to its type (layerUtils.ts, the map and its styles). *)
THEOREM ViewTypeCorrect == ViewSpec => []ViewTypeOK
<1>1. ViewInv => ViewTypeOK
  <2> SUFFICES ASSUME ViewInv PROVE ViewTypeOK
    OBVIOUS
  <2>1. want \in Wanted /\ IsMap(map) /\ map \in Maps
    BY WantedNow DEF IsMap, Shaped
  <2>2. /\ want.percent \in 0..2 /\ want.floor \in Floors \cup {None}
        /\ want.shown \subseteq Projects /\ want.chosen \subseteq Features
        /\ want.mark \in {"none", "shape", "tiles", "local"}
        /\ want.imported \in {"new", "on", "off", "gone"}
    BY <2>1 DEF Wanted, Kinds
  <2>3. /\ map.stack \in Seq(Widget \cup {LabelBlock}) /\ IsInjective(map.stack)
        /\ DOMAIN map.look = Widget
        /\ {map.parsed, map.ready, map.changed, map.overtaken, swapping} \subseteq BOOLEAN
    BY <2>1 DEF IsMap, Shaped, Maps, StackLayers, ViewInv
  <2>4. \A i \in DOMAIN map.deferred : map.deferred[i].layer
          \in {"wms", "pip", "eao", "imported", "mark", "dots"}
    <3>1. map.deferred \in Seq(Works)
      BY <2>1 DEF Maps
    <3>2. \A i \in DOMAIN map.deferred : map.deferred[i] \in Works
      BY <3>1
    <3> QED BY <3>2, LaneNames DEF Lanes
  <2> QED BY <2>2, <2>3, <2>4 DEF ViewTypeOK, ViewInv
<1> QED
  BY <1>1, ViewInvariant, PTL

(* A hosted outline lies over its hit target, the selection's gold under the   *)
(* component picked, an import under the shape marked, and every hosted layer  *)
(* under the place names (layerUtils.ts, LayerStack; basemaps.ts).             *)
THEOREM ViewStacking == ViewSpec => []StackingHolds
<1>1. ViewInv => StackingHolds
  <2> SUFFICES ASSUME ViewInv PROVE StackingHolds
    OBVIOUS
  <2>1. IsMap(map) /\ Stacked(map)
    BY WantedNow DEF ViewInv
  <2>2. \A a, b : Under(map, a, b) =>
          (On(map, a) /\ On(map, b) => Position(map, a) < Position(map, b))
    BY <2>1, PlaceIs DEF Under
  <2> QED BY <2>1, <2>2 DEF StackingHolds, Stacked, Look
<1> QED
  BY <1>1, ViewInvariant, PTL

(* With every change drawn, the dots lie over everything (projectUtils.ts).    *)
THEOREM ViewDotsOnTop == ViewSpec => []DotsOnTop
<1>1. ViewInv => DotsOnTop
  BY DEF ViewInv, TopDots, DotsOnTop
<1> QED
  BY <1>1, ViewInvariant, PTL

(* A basemap that arrives takes nothing of the widget's with it, nor the order *)
(* or the looks of its layers (basemaps.ts, carryWidgetLayers).                *)
THEOREM ViewSurvivesBasemap == ViewSpec => SurvivesBasemap
<1> DEFINE A == On(map, LabelBlock) # On(map', LabelBlock) /\ map.parsed =>
                  /\ map'.look = map.look
                  /\ \A l \in Widget : On(map', l) = On(map, l)
                  /\ \A l, above \in Widget : On(map, l) /\ On(map, above) =>
                       (Position(map', l) < Position(map', above)) =
                         (Position(map, l) < Position(map, above))
<1>1. ASSUME ViewInv, BasemapArrives PROVE A
  <2>1. IsMap(map) /\ map' = CarryWidgetLayers(map)
    BY <1>1, WantedNow DEF BasemapArrives
  <2>2. /\ IsMap(map') /\ map'.look = map.look
        /\ \A l \in Widget : On(map', l) <=> On(map, l)
        /\ \A a, b \in Widget : Below(map.stack, a, b) => Below(map'.stack, a, b)
    BY <2>1, CarryIs
  <2>3. ASSUME NEW a \in Widget, NEW b \in Widget, On(map, a), On(map, b)
        PROVE  (Position(map', a) < Position(map', b)) = (Position(map, a) < Position(map, b))
    <3>1. On(map', a) /\ On(map', b)
      BY <2>2, <2>3
    <3>2. /\ Position(map, a) < Position(map, b) <=> Below(map.stack, a, b)
          /\ a # b => Below(map.stack, a, b) \/ Below(map.stack, b, a)
          /\ ~(Below(map.stack, a, b) /\ Below(map.stack, b, a))
      BY <2>1, <2>3, PlaceIs
    <3>3. /\ Position(map', a) < Position(map', b) <=> Below(map'.stack, a, b)
          /\ a # b => Below(map'.stack, a, b) \/ Below(map'.stack, b, a)
          /\ ~(Below(map'.stack, a, b) /\ Below(map'.stack, b, a))
      BY <2>2, <3>1, PlaceIs
    <3>4. Below(map.stack, a, b) <=> Below(map'.stack, a, b)
      BY <2>2, <3>2, <3>3
    <3>5. Position(map', a) < Position(map', b) <=> Position(map, a) < Position(map, b)
      BY <3>2, <3>3, <3>4
    <3> QED BY <3>5
  <2>4. \A l \in Widget : On(map', l) = On(map, l)
    BY <2>2 DEF On, Contains
  <2> QED BY <2>2, <2>3, <2>4
<1>2. ASSUME Same PROVE A
  BY <1>2 DEF Same, On, Contains
<1>3. ASSUME ~map.parsed PROVE A
  BY <1>3
<1> HIDE DEF A
<1>4. ViewInv /\ [ViewNext]_viewVars => [A]_viewVars
  BY <1>1, <1>2, <1>3, ViewSteps, ViewStays
<1>5. ViewSpec => [][A]_viewVars
  BY <1>4, ViewInvariant, PTL DEF ViewSpec
<1> QED
  BY <1>5 DEF A, SurvivesBasemap

(* Once no work waits, and none was overtaken by a later one on its layer, the *)
(* map draws what the panel, the filter bar and the popup say, as they say it. *)
THEOREM ViewDrawsWhatIsWanted == ViewSpec => []DrawsWhatIsWanted
<1>1. ViewInv => DrawsWhatIsWanted
  <2> SUFFICES ASSUME ViewInv, AtRest, ~map.overtaken PROVE DrawsWhatIsWanted
    BY DEF DrawsWhatIsWanted
  <2>1. want \in Wanted /\ IsMap(map) /\ map.deferred = <<>>
    BY WantedNow DEF AtRest
  <2>2. RunDeferred(map) = map
    BY <2>1, SettledIs
  <2>3. Draws(want, map)
    BY <2>2 DEF ViewInv, WillDraw
  <2>4. /\ Shows("raster") = (want.percent # 0) /\ Shows("outline") = (want.percent # 0)
        /\ Shows("raster") => Look("raster").paint = want.percent
    BY <2>3 DEF Draws, DrawsWms, Shows, Look
  <2>5. /\ \A l \in ToSet(Pip) : Shows(l) = (want.pip /\ want.pipStyle)
        /\ Shows("line") => Look("line").paint = want.width
    <3>1. want.pip \in BOOLEAN /\ want.pipStyle \in BOOLEAN
      BY <2>1 DEF Wanted
    <3> QED BY <2>3, <3>1, LayerNames DEF Draws, DrawsPip, Shows, Look
  <2>6. /\ Shows("imported") = (want.imported = "on")
        /\ Shows("imported") => Look("imported").paint = want.fade
        /\ want.imported = "gone" => ~On(map, "imported")
    BY <2>3 DEF Draws, DrawsImported, Shows, Look
  <2>7. want.loaded => Look("dots").of = want.shown
    BY <2>3 DEF Draws, DrawsDots, Look
  <2>8. want.eaoStyle =>
          /\ Look("footprint").of = {f \in want.shown \X {"footprint"} :
                                       f \in want.hidden => f \in want.chosen}
          /\ Look("component").of = {f \in want.shown \X {"component"} :
                                       f \in want.revealed \/ f \in want.chosen}
          /\ Look("picked").of = want.picked /\ Look("selected").of = want.chosen
    <3>1. SpecFilters(want).footprint = {f \in want.shown \X {"footprint"} :
                                           f \notin want.hidden \ want.chosen}
      BY DEF SpecFilters
    <3>2. SpecFilters(want).component = {f \in want.shown \X {"component"} :
                                           f \in want.revealed \cup want.chosen}
      BY DEF SpecFilters
    <3>3. {f \in want.shown \X {"footprint"} : f \notin want.hidden \ want.chosen}
            = {f \in want.shown \X {"footprint"} : f \in want.hidden => f \in want.chosen}
      OBVIOUS
    <3>4. {f \in want.shown \X {"component"} : f \in want.revealed \cup want.chosen}
            = {f \in want.shown \X {"component"} : f \in want.revealed \/ f \in want.chosen}
      OBVIOUS
    <3> QED BY <2>3, <3>1, <3>2, <3>3, <3>4 DEF Draws, DrawsEao, Look
  <2>9. Look("marked").of = IF want.mark = "none" THEN {} ELSE {want.mark}
    BY <2>3 DEF Draws, DrawsMark, Look
  <2> QED BY <2>4, <2>5, <2>6, <2>7, <2>8, <2>9 DEF DrawsWhatIsWanted
<1> QED
  BY <1>1, ViewInvariant, PTL

-----------------------------------------------------------------------------
(* Where the raster and the outline take over from each other              *)

Shifts == {"show", "showline", "minzoom", "maxzoom"}

Waits(q, d, i) == \E j \in 1..Len(q) : j < i /\ q[j].does = d

(* The two works of a pair wait next to each other *)
Blocks(q) ==
  \A i \in 1..Len(q) :
    /\ q[i].does = "minzoom" =>
         i + 1 \in 1..Len(q) /\ q[i + 1].does = "maxzoom" /\ q[i + 1].to = q[i].to
    /\ q[i].does = "maxzoom" =>
         i - 1 \in 1..Len(q) /\ q[i - 1].does = "minzoom" /\ q[i - 1].to = q[i].to
    /\ q[i].does = "show" => i + 1 \in 1..Len(q) /\ q[i + 1].does = "showline"

(* A work finds the layers it is for, or comes after the work that puts them on *)
Timely(m, q) ==
  \A i \in 1..Len(q) :
    /\ q[i].does = "minzoom" => On(m, "outline") \/ Waits(q, "showline", i)
    /\ q[i].does = "showline" => On(m, "raster") \/ Waits(q, "show", i)

Even(m, q) ==
  /\ On(m, "outline") => On(m, "raster")
  /\ On(m, "raster") /\ On(m, "outline") => m.look["raster"].from = m.look["outline"].from
  /\ On(m, "raster") /\ ~On(m, "outline") =>
       m.look["raster"].from = WMS_MIN_ZOOM /\ Waits(q, "showline", Len(q) + 1)

(* Once the layer is on, its outline is, or will be *)
Outlined(w, m, q) == w.percent # 0 => On(m, "outline") \/ Waits(q, "showline", Len(q) + 1)

Gates(w, m, q) == Blocks(q) /\ Timely(m, q) /\ Even(m, q) /\ Outlined(w, m, q)

(* A raster without its outline is a change the map has not drawn *)
Halfway(m) == On(m, "raster") /\ ~On(m, "outline") => m.changed /\ ~m.ready

Gated(w, m) == Gates(w, m, m.deferred) /\ Halfway(m)

(* What running a work does to the two layers *)
Shifted(m, w, n) ==
  /\ w.does = "show" =>
       /\ On(n, "raster") /\ (On(n, "outline") <=> On(m, "outline"))
       /\ n.look["outline"].from = m.look["outline"].from
       /\ n.look["raster"].from = IF On(m, "raster") THEN m.look["raster"].from ELSE WMS_MIN_ZOOM
  /\ w.does = "showline" =>
       /\ On(n, "outline") /\ (On(n, "raster") <=> On(m, "raster"))
       /\ n.look["raster"].from = m.look["raster"].from
       /\ n.look["outline"].from = IF On(m, "outline") THEN m.look["outline"].from ELSE WMS_MIN_ZOOM
  /\ w.does \notin {"show", "showline"} =>
       (On(n, "raster") <=> On(m, "raster")) /\ (On(n, "outline") <=> On(m, "outline"))
  /\ w.does = "minzoom" =>
       /\ n.look["outline"].from = m.look["outline"].from
       /\ On(m, "raster") => n.look["raster"].from = w.to
  /\ w.does = "maxzoom" =>
       /\ n.look["raster"].from = m.look["raster"].from
       /\ On(m, "outline") => n.look["outline"].from = w.to
  /\ w.does \notin Shifts =>
       /\ n.look["raster"].from = m.look["raster"].from
       /\ n.look["outline"].from = m.look["outline"].from

LEMMA RunShifts ==
  ASSUME NEW m, IsMap(m), NEW w \in Works, NEW n, n = Run(m, w)
  PROVE  IsMap(n) /\ Shifted(m, w, n)
<1>0. IsMap(n)
  BY RunIs DEF Carried
<1>1. CASE w.layer = "wms"
  <2>1. w.does \in {"show", "showline", "hide", "hideline", "fade", "minzoom", "maxzoom"}
    BY <1>1, WorksAre
  <2>2. CASE w.does = "show"
    <3>1. /\ Adds(m, n, {"raster"}) /\ n.look["outline"] = m.look["outline"]
          /\ LookIs(n.look["raster"], TRUE, w.to,
                    IF On(m, "raster") THEN m.look["raster"].from ELSE WMS_MIN_ZOOM,
                         m.look["raster"].of)
      BY <1>1, <2>2, RunWms
    <3> QED BY <1>0, <2>2, <3>1 DEF Shifted, Adds, LookIs, Shifts
  <2>3. CASE w.does = "showline"
    <3>1. /\ Adds(m, n, {"outline"}) /\ n.look["raster"] = m.look["raster"]
          /\ LookIs(n.look["outline"], TRUE, m.look["outline"].paint,
                    IF On(m, "outline") THEN m.look["outline"].from ELSE WMS_MIN_ZOOM,
                         m.look["outline"].of)
      BY <1>1, <2>3, RunWms
    <3> QED BY <1>0, <2>3, <3>1 DEF Shifted, Adds, LookIs, Shifts
  <2>4. CASE w.does = "hide"
    <3>1. /\ Adds(m, n, {}) /\ n.look["outline"] = m.look["outline"]
          /\ LookIs(n.look["raster"], FALSE, m.look["raster"].paint, m.look["raster"].from,
                    m.look["raster"].of)
      BY <1>1, <2>4, RunWms
    <3> QED BY <1>0, <2>4, <3>1 DEF Shifted, Adds, LookIs, Shifts
  <2>5. CASE w.does = "hideline"
    <3>1. /\ Adds(m, n, {}) /\ n.look["raster"] = m.look["raster"]
          /\ LookIs(n.look["outline"], FALSE, m.look["outline"].paint, m.look["outline"].from,
                    m.look["outline"].of)
      BY <1>1, <2>5, RunWms
    <3> QED BY <1>0, <2>5, <3>1 DEF Shifted, Adds, LookIs, Shifts
  <2>6. CASE w.does = "fade"
    <3>1. /\ Adds(m, n, {}) /\ n.look["outline"] = m.look["outline"]
          /\ LookIs(n.look["raster"], m.look["raster"].visible,
                    IF On(m, "raster") THEN w.to ELSE m.look["raster"].paint, m.look["raster"].from,
                         m.look["raster"].of)
      BY <1>1, <2>6, RunWms
    <3> QED BY <1>0, <2>6, <3>1 DEF Shifted, Adds, LookIs, Shifts
  <2>7. CASE w.does = "minzoom"
    <3>1. /\ Adds(m, n, {}) /\ n.look["outline"] = m.look["outline"]
          /\ LookIs(n.look["raster"], m.look["raster"].visible, m.look["raster"].paint,
                    IF On(m, "raster") THEN w.to ELSE m.look["raster"].from, m.look["raster"].of)
      BY <1>1, <2>7, RunWms
    <3> QED BY <1>0, <2>7, <3>1 DEF Shifted, Adds, LookIs, Shifts
  <2>8. CASE w.does = "maxzoom"
    <3>1. /\ Adds(m, n, {}) /\ n.look["raster"] = m.look["raster"]
          /\ LookIs(n.look["outline"], m.look["outline"].visible, m.look["outline"].paint,
                    IF On(m, "outline") THEN w.to ELSE m.look["outline"].from, m.look["outline"].of)
      BY <1>1, <2>8, RunWms
    <3> QED BY <1>0, <2>8, <3>1 DEF Shifted, Adds, LookIs, Shifts
  <2> QED BY <2>1, <2>2, <2>3, <2>4, <2>5, <2>6, <2>7, <2>8
<1>2. CASE w.layer # "wms"
  <2>1. w.does \notin Shifts
    BY <1>2, WorksAre DEF Shifts
  <2>2. Agree(m, n, "wms")
    BY <1>2, RunIs DEF Apart, Lanes
  <2>3. /\ (On(m, "raster") <=> On(n, "raster")) /\ (On(m, "outline") <=> On(n, "outline"))
        /\ m.look["raster"] = n.look["raster"] /\ m.look["outline"] = n.look["outline"]
    BY <2>2, LanesAre DEF Agree
  <2> QED BY <1>0, <2>1, <2>3 DEF Shifted, Shifts
<1> QED
  BY <1>1, <1>2

(* A layer put on has tiles to fetch; one drawn otherwise may have none *)
LEMMA RunReady ==
  ASSUME NEW m, IsMap(m), NEW w \in Works, w.layer = "wms", NEW n, n = Run(m, w)
  PROVE  /\ w.does = "show" /\ ~On(m, "raster") => ~n.ready /\ n.changed
         /\ w.does = "minzoom" => (n.ready <=> m.ready)
<1> DEFINE k == Worked(m, w)
<1>1. Moves(m, k, "wms")
  BY WorkedMoves
<1>2. n = Touched(m, k)
  BY RunTouches
<1>3. w.to \in Values
  BY WorksAre
<1>s. w.does = "show" => k = ShowWms(m, w.to)
  BY WorkedWms
<1>z. w.does = "minzoom" => k = SetMinZoom(m, w.to)
  BY WorkedWms
<1>4. w.does = "show" => Adds(m, k, {"raster"})
  <2> HIDE DEF k
  <2> QED BY <1>3, <1>s, ShowWmsIs
<1>5. w.does = "minzoom" => Adds(m, k, {})
  <2> HIDE DEF k
  <2> QED BY <1>3, <1>z, SetMinZoomIs
<1> HIDE DEF k
<1>6. k \in Maps /\ k.ready = m.ready /\ k.changed = m.changed /\ m \in Maps
  BY <1>1 DEF Moves, SameControl, IsMap, Shaped
<1> DEFINE reload == \E l \in Widget : \/ On(k, l) /\ ~On(m, l)
                                       \/ /\ l \notin {"raster", "outline"}
                                          /\ \/ k.look[l].visible # m.look[l].visible
                                             \/ k.look[l].of # m.look[l].of
<1>7. /\ n.ready <=> k.ready /\ ~reload
      /\ n.changed <=> k.changed \/ k.stack # m.stack \/ k.look # m.look
  <2>1. n = [k EXCEPT !.changed = @ \/ k.stack # m.stack \/ k.look # m.look,
                      !.ready = @ /\ ~reload]
    BY <1>2 DEF Touched
  <2> HIDE DEF reload
  <2>2. n.ready = (k.ready /\ ~reload)
        /\ n.changed = (k.changed \/ k.stack # m.stack \/ k.look # m.look)
    BY <1>6, <2>1 DEF Maps
  <2> QED BY <2>2
<1>8. w.does = "show" /\ ~On(m, "raster") => reload /\ k.stack # m.stack
  <2>1. w.does = "show" => On(k, "raster")
    BY <1>4 DEF Adds
  <2> QED BY <2>1, LayerNames DEF On
<1>9. w.does = "minzoom" => ~reload
  <2>1. \A l \in Widget \ {"raster", "outline"} : k.look[l] = m.look[l]
    BY <1>1, LanesAre DEF Moves
  <2>2. w.does = "minzoom" => \A l : On(k, l) <=> On(m, l)
    BY <1>5 DEF Adds
  <2> QED BY <2>1, <2>2
<1> HIDE DEF reload
<1> QED
  BY <1>6, <1>7, <1>8, <1>9

-----------------------------------------------------------------------------
(* What waits runs: the raster and the outline all along                   *)

(* A work d is still to come after the i-th *)
Coming(q, d, i) == \E j \in 1..Len(q) : i < j /\ q[j].does = d

Opened(q, i) == i \in 1..Len(q) /\ q[i].does = "minzoom"

(* The map n, once the i-th work of q has run *)
Shifting(q, i, n) ==
  /\ On(n, "outline") => On(n, "raster")
  /\ Opened(q, i) => On(n, "outline") /\ n.look["raster"].from = q[i].to
  /\ ~Opened(q, i) /\ On(n, "outline") => n.look["raster"].from = n.look["outline"].from
  /\ On(n, "raster") /\ ~On(n, "outline") =>
       n.look["raster"].from = WMS_MIN_ZOOM /\ Coming(q, "showline", i)
  /\ Waits(q, "showline", i + 1) => On(n, "outline")
  /\ Waits(q, "show", i + 1) => On(n, "raster")

LEMMA WaitsOn ==
  ASSUME NEW q \in Seq(Works), NEW d
  PROVE  /\ ~Waits(q, d, 1) /\ ~Coming(q, d, Len(q))
         /\ Coming(q, d, 0) <=> Waits(q, d, Len(q) + 1)
         /\ \A i \in 1..Len(q) : /\ Waits(q, d, i + 1) <=> Waits(q, d, i) \/ q[i].does = d
                                 /\ Coming(q, d, i - 1) <=> Coming(q, d, i) \/ q[i].does = d
<1>1. Len(q) \in Nat
  OBVIOUS
<1>2. ~Waits(q, d, 1) /\ ~Coming(q, d, Len(q))
  BY <1>1 DEF Waits, Coming
<1>3. Coming(q, d, 0) <=> Waits(q, d, Len(q) + 1)
  BY <1>1 DEF Waits, Coming
<1>4. ASSUME NEW i \in 1..Len(q)
      PROVE  Waits(q, d, i + 1) <=> Waits(q, d, i) \/ q[i].does = d
  BY <1>1 DEF Waits
<1>5. ASSUME NEW i \in 1..Len(q)
      PROVE  Coming(q, d, i - 1) <=> Coming(q, d, i) \/ q[i].does = d
  BY <1>1 DEF Coming
<1> QED
  BY <1>2, <1>3, <1>4, <1>5

(* What stands before and after a work in the queue *)
LEMMA BlocksAre ==
  ASSUME NEW q \in Seq(Works), Blocks(q), NEW i \in 1..Len(q)
  PROVE  /\ Opened(q, i - 1) <=> q[i].does = "maxzoom"
         /\ Opened(q, i - 1) => q[i - 1].to = q[i].to
         /\ q[i].does = "show" => Coming(q, "showline", i)
<1>1. Len(q) \in Nat /\ i - 1 + 1 = i
  OBVIOUS
<1>2. /\ q[i].does = "maxzoom" => i - 1 \in 1..Len(q) /\ q[i - 1].does = "minzoom"
           /\ q[i - 1].to = q[i].to
      /\ q[i].does = "show" => i + 1 \in 1..Len(q) /\ q[i + 1].does = "showline"
  BY DEF Blocks
<1>3. i - 1 \in 1..Len(q) /\ q[i - 1].does = "minzoom" => q[i].does = "maxzoom"
      /\ q[i].to = q[i - 1].to
  BY <1>1 DEF Blocks
<1>4. q[i].does = "show" => Coming(q, "showline", i)
  BY <1>2 DEF Coming
<1> QED
  BY <1>2, <1>3, <1>4 DEF Opened

LEMMA ShiftStep ==
  ASSUME NEW q \in Seq(Works), Blocks(q), NEW m, Timely(m, q), NEW i \in 1..Len(q),
         NEW k, IsMap(k), Shifting(q, i - 1, k),
         On(m, "raster") => On(k, "raster"), On(m, "outline") => On(k, "outline"),
         NEW n, n = Run(k, q[i])
  PROVE  Shifting(q, i, n)
<1> DEFINE w == q[i]
<1>1. w \in Works /\ i - 1 + 1 = i
  OBVIOUS
<1>2. Shifted(k, w, n)
  BY <1>1, RunShifts
<1>3. /\ Opened(q, i - 1) <=> w.does = "maxzoom"
      /\ Opened(q, i - 1) => q[i - 1].to = w.to
      /\ w.does = "show" => Coming(q, "showline", i)
  BY BlocksAre
<1>4. /\ w.does = "minzoom" => On(m, "outline") \/ Waits(q, "showline", i)
      /\ w.does = "showline" => On(m, "raster") \/ Waits(q, "show", i)
  BY DEF Timely
<1>5. Opened(q, i) <=> w.does = "minzoom"
  BY DEF Opened
<1>6. /\ Waits(q, "show", i + 1) <=> Waits(q, "show", i) \/ w.does = "show"
      /\ Waits(q, "showline", i + 1) <=> Waits(q, "showline", i) \/ w.does = "showline"
      /\ Coming(q, "showline", i - 1) <=> Coming(q, "showline", i) \/ w.does = "showline"
  BY WaitsOn
<1>7. /\ On(k, "outline") => On(k, "raster")
      /\ Opened(q, i - 1) => On(k, "outline") /\ k.look["raster"].from = q[i - 1].to
      /\ ~Opened(q, i - 1) /\ On(k, "outline") => k.look["raster"].from = k.look["outline"].from
      /\ On(k, "raster") /\ ~On(k, "outline") =>
           k.look["raster"].from = WMS_MIN_ZOOM /\ Coming(q, "showline", i - 1)
      /\ Waits(q, "showline", i) => On(k, "outline")
      /\ Waits(q, "show", i) => On(k, "raster")
  BY <1>1 DEF Shifting
<1> DEFINE Goal == Shifting(q, i, n)
<1>a. CASE w.does = "show"
  BY <1>2, <1>3, <1>5, <1>6, <1>7, <1>a DEF Shifted, Shifting, Shifts
<1>b. CASE w.does = "showline"
  BY <1>2, <1>3, <1>4, <1>5, <1>6, <1>7, <1>b DEF Shifted, Shifting, Shifts
<1>c. CASE w.does = "minzoom"
  BY <1>2, <1>3, <1>4, <1>5, <1>6, <1>7, <1>c DEF Shifted, Shifting, Shifts
<1>d. CASE w.does = "maxzoom"
  BY <1>2, <1>3, <1>5, <1>6, <1>7, <1>d DEF Shifted, Shifting, Shifts
<1>e. CASE w.does \notin Shifts
  BY <1>2, <1>3, <1>5, <1>6, <1>7, <1>e DEF Shifted, Shifting, Shifts
<1> QED
  BY <1>a, <1>b, <1>c, <1>d, <1>e DEF Shifts

(* Once what waits has run, both are on or neither, and one takes over from the other *)
LEMMA DeferredShifts ==
  ASSUME NEW w, NEW m, IsMap(m), Gates(w, m, m.deferred), NEW n, n = RunDeferred(m)
  PROVE  Gated(w, n)
<1> DEFINE q == m.deferred
           e == Emptied(m)
<1>1. /\ IsMap(e) /\ e.look = m.look /\ q \in Seq(Works) /\ \A l : On(e, l) <=> On(m, l)
  <2>1. IsMap(e) /\ e.stack = m.stack /\ e.look = m.look /\ q \in Seq(Works)
    BY EmptiedIs
  <2> QED BY <2>1 DEF On
<1>2. n = RunAll(e, q) /\ n.deferred = <<>>
  BY FinalIs
<1>3. Blocks(q) /\ Timely(m, q) /\ Even(m, q) /\ Outlined(w, m, q)
  BY DEF Gates
<1>4. Len(q) \in Nat /\ \A i \in 1..Len(q) : q[i] \in Works
  BY <1>1
<1> HIDE DEF q, e
<1>5. PICK f : RunTrace(f, e, q)
  BY <1>1, RunAllIs
<1>6. n = f[Len(q)]
  BY <1>1, <1>2, <1>5, RunAllIs
<1>7. ASSUME NEW i \in 0..Len(q)
      PROVE  IsMap(f[i]) /\ (On(m, "raster") => On(f[i], "raster"))
             /\ (On(m, "outline") => On(f[i], "outline"))
  <2>1. Carried(e, f[i])
    BY <1>1, <1>5, TraceCarries
  <2>2. IsMap(f[i]) /\ StaysOn(e, f[i])
    BY <2>1 DEF Carried
  <2> QED BY <1>1, <2>2, LayerNames DEF StaysOn
<1> DEFINE T == {i \in 0..Len(q) : Shifting(q, i, f[i])}
<1>8. 0 \in T
  <2>1. f[0] = e /\ 0 + 1 = 1
    BY <1>5 DEF RunTrace
  <2>2. /\ On(m, "outline") => On(m, "raster")
        /\ On(m, "raster") /\ On(m, "outline") => m.look["raster"].from = m.look["outline"].from
        /\ On(m, "raster") /\ ~On(m, "outline") =>
             m.look["raster"].from = WMS_MIN_ZOOM /\ Waits(q, "showline", Len(q) + 1)
    BY <1>3 DEF Even
  <2>3. /\ ~Waits(q, "showline", 1) /\ ~Waits(q, "show", 1)
        /\ Coming(q, "showline", 0) <=> Waits(q, "showline", Len(q) + 1)
    BY <1>1, WaitsOn
  <2>4. ~Opened(q, 0)
    BY <1>4 DEF Opened
  <2>5. Shifting(q, 0, e)
    BY <1>1, <2>1, <2>2, <2>3, <2>4 DEF Shifting
  <2> QED BY <1>4, <2>1, <2>5
<1>9. ASSUME NEW i \in 1..Len(q), i - 1 \in T PROVE i \in T
  <2>1. Shifting(q, i - 1, f[i - 1]) /\ f[i] = Run(f[i - 1], q[i]) /\ i \in 0..Len(q)
        /\ i - 1 \in 0..Len(q)
    BY <1>4, <1>5, <1>9 DEF RunTrace
  <2>2. /\ IsMap(f[i - 1]) /\ (On(m, "raster") => On(f[i - 1], "raster"))
        /\ (On(m, "outline") => On(f[i - 1], "outline"))
    BY <1>7, <2>1
  <2>3. Shifting(q, i, f[i])
    BY <1>1, <1>3, <2>1, <2>2, ShiftStep
  <2> QED BY <2>1, <2>3
<1> HIDE DEF T
<1>10. \A i \in 0..Len(q) : i \in T
  BY <1>4, <1>8, <1>9, Along
<1>11. Shifting(q, Len(q), n) /\ Len(q) \in 0..Len(q)
  BY <1>4, <1>6, <1>10 DEF T
<1>12. ~Coming(q, "showline", Len(q))
  BY <1>1, WaitsOn
<1>13. ~Opened(q, Len(q))
  <2>1. Len(q) + 1 \notin 1..Len(q)
    BY <1>4
  <2> QED BY <1>3, <2>1 DEF Opened, Blocks
<1>14. /\ On(n, "outline") <=> On(n, "raster")
       /\ On(n, "outline") => n.look["raster"].from = n.look["outline"].from
       /\ Waits(q, "showline", Len(q) + 1) => On(n, "outline")
  BY <1>11, <1>12, <1>13 DEF Shifting
<1>15. On(m, "outline") => On(n, "outline")
  BY <1>6, <1>7, <1>11
<1>16. Blocks(<<>>) /\ Timely(n, <<>>)
  BY DEF Blocks, Timely
<1>17. Even(n, <<>>)
  BY <1>14 DEF Even
<1>18. Outlined(w, n, <<>>)
  BY <1>3, <1>14, <1>15 DEF Outlined
<1> QED
  BY <1>2, <1>14, <1>16, <1>17, <1>18 DEF Gated, Gates, Halfway

-----------------------------------------------------------------------------
(* Works handed over, and the raster and the outline                       *)

(* What joins the queue comes after what it needs *)
Joins(m, q, t) ==
  \A i \in 1..Len(t) :
    /\ t[i].does = "minzoom" =>
         On(m, "outline") \/ Waits(q, "showline", Len(q) + 1) \/ Waits(t, "showline", i)
    /\ t[i].does = "showline" =>
         On(m, "raster") \/ Waits(q, "show", Len(q) + 1) \/ Waits(t, "show", i)

LEMMA WaitsCat ==
  ASSUME NEW q \in Seq(Works), NEW t \in Seq(Works), NEW d
  PROVE  /\ \A i \in 1..Len(q) : Waits(q \o t, d, i) <=> Waits(q, d, i)
         /\ \A i \in 1..(Len(t) + 1) :
              Waits(q \o t, d, Len(q) + i) <=> Waits(q, d, Len(q) + 1) \/ Waits(t, d, i)
<1> DEFINE r == q \o t
<1>1. /\ Len(q) \in Nat /\ Len(t) \in Nat /\ Len(r) = Len(q) + Len(t)
      /\ \A i \in 1..(Len(q) + Len(t)) : r[i] = IF i <= Len(q) THEN q[i] ELSE t[i - Len(q)]
  BY ConcatProperties
<1> HIDE DEF r
<1>2. ASSUME NEW i \in 1..Len(q) PROVE Waits(r, d, i) <=> Waits(q, d, i)
  BY <1>1 DEF Waits
<1>3. ASSUME NEW i \in 1..(Len(t) + 1)
      PROVE  Waits(r, d, Len(q) + i) <=> Waits(q, d, Len(q) + 1) \/ Waits(t, d, i)
  <2>1. ASSUME Waits(r, d, Len(q) + i)
        PROVE  Waits(q, d, Len(q) + 1) \/ Waits(t, d, i)
    <3>1. PICK j \in 1..Len(r) : j < Len(q) + i /\ r[j].does = d
      BY <2>1 DEF Waits
    <3>2. CASE j <= Len(q)
      BY <1>1, <3>1, <3>2 DEF Waits
    <3>3. CASE ~(j <= Len(q))
      <4>1. j - Len(q) \in 1..Len(t) /\ j - Len(q) < i /\ r[j] = t[j - Len(q)]
        BY <1>1, <3>1, <3>3
      <4> QED BY <3>1, <4>1 DEF Waits
    <3> QED BY <3>2, <3>3
  <2>2. ASSUME Waits(q, d, Len(q) + 1) PROVE Waits(r, d, Len(q) + i)
    <3>1. PICK j \in 1..Len(q) : q[j].does = d
      BY <2>2 DEF Waits
    <3>2. j \in 1..Len(r) /\ j < Len(q) + i /\ r[j] = q[j]
      BY <1>1, <3>1
    <3> QED BY <3>1, <3>2 DEF Waits
  <2>3. ASSUME Waits(t, d, i) PROVE Waits(r, d, Len(q) + i)
    <3>1. PICK j \in 1..Len(t) : j < i /\ t[j].does = d
      BY <2>3 DEF Waits
    <3>2. /\ Len(q) + j \in 1..Len(r) /\ Len(q) + j < Len(q) + i
          /\ ~(Len(q) + j <= Len(q)) /\ Len(q) + j - Len(q) = j
      BY <1>1, <3>1
    <3>3. r[Len(q) + j] = t[j]
      BY <1>1, <3>2
    <3> QED BY <3>1, <3>2, <3>3 DEF Waits
  <2> QED BY <2>1, <2>2, <2>3
<1> QED
  BY <1>2, <1>3 DEF r

LEMMA BlocksCat ==
  ASSUME NEW q \in Seq(Works), NEW t \in Seq(Works), Blocks(q), Blocks(t)
  PROVE  Blocks(q \o t)
<1> DEFINE r == q \o t
<1>1. /\ Len(q) \in Nat /\ Len(t) \in Nat /\ Len(r) = Len(q) + Len(t)
      /\ \A i \in 1..(Len(q) + Len(t)) : r[i] = IF i <= Len(q) THEN q[i] ELSE t[i - Len(q)]
  BY ConcatProperties
<1> HIDE DEF r
<1>2. SUFFICES ASSUME NEW i \in 1..Len(r)
               PROVE  /\ r[i].does = "minzoom" =>
                           i + 1 \in 1..Len(r) /\ r[i + 1].does = "maxzoom" /\ r[i + 1].to = r[i].to
                      /\ r[i].does = "maxzoom" =>
                           i - 1 \in 1..Len(r) /\ r[i - 1].does = "minzoom" /\ r[i - 1].to = r[i].to
                      /\ r[i].does = "show" => i + 1 \in 1..Len(r) /\ r[i + 1].does = "showline"
  BY DEF Blocks, r
<1>3. CASE i <= Len(q)
  <2>1. i \in 1..Len(q) /\ r[i] = q[i]
    BY <1>1, <1>3
  <2>2. i + 1 \in 1..Len(q) => i + 1 \in 1..Len(r) /\ r[i + 1] = q[i + 1]
    BY <1>1
  <2>3. i - 1 \in 1..Len(q) => i - 1 \in 1..Len(r) /\ r[i - 1] = q[i - 1]
    BY <1>1
  <2>4. /\ q[i].does = "minzoom" =>
             i + 1 \in 1..Len(q) /\ q[i + 1].does = "maxzoom" /\ q[i + 1].to = q[i].to
        /\ q[i].does = "maxzoom" =>
             i - 1 \in 1..Len(q) /\ q[i - 1].does = "minzoom" /\ q[i - 1].to = q[i].to
        /\ q[i].does = "show" => i + 1 \in 1..Len(q) /\ q[i + 1].does = "showline"
    BY <2>1 DEF Blocks
  <2> QED BY <2>1, <2>2, <2>3, <2>4
<1>4. CASE ~(i <= Len(q))
  <2> DEFINE j == i - Len(q)
  <2>1. j \in 1..Len(t) /\ r[i] = t[j]
    BY <1>1, <1>4
  <2>2. j + 1 \in 1..Len(t) => i + 1 \in 1..Len(r) /\ r[i + 1] = t[j + 1]
    <3>1. SUFFICES ASSUME j + 1 \in 1..Len(t) PROVE i + 1 \in 1..Len(r) /\ r[i + 1] = t[j + 1]
      OBVIOUS
    <3>2. i + 1 \in 1..(Len(q) + Len(t)) /\ ~(i + 1 <= Len(q)) /\ i + 1 - Len(q) = j + 1
      BY <1>1, <1>4, <3>1
    <3> QED BY <1>1, <3>2
  <2>3. j - 1 \in 1..Len(t) => i - 1 \in 1..Len(r) /\ r[i - 1] = t[j - 1]
    <3>1. SUFFICES ASSUME j - 1 \in 1..Len(t) PROVE i - 1 \in 1..Len(r) /\ r[i - 1] = t[j - 1]
      OBVIOUS
    <3>2. i - 1 \in 1..(Len(q) + Len(t)) /\ ~(i - 1 <= Len(q)) /\ i - 1 - Len(q) = j - 1
      BY <1>1, <1>4, <3>1
    <3> QED BY <1>1, <3>2
  <2> HIDE DEF j
  <2>4. /\ t[j].does = "minzoom" =>
             j + 1 \in 1..Len(t) /\ t[j + 1].does = "maxzoom" /\ t[j + 1].to = t[j].to
        /\ t[j].does = "maxzoom" =>
             j - 1 \in 1..Len(t) /\ t[j - 1].does = "minzoom" /\ t[j - 1].to = t[j].to
        /\ t[j].does = "show" => j + 1 \in 1..Len(t) /\ t[j + 1].does = "showline"
    BY <2>1 DEF Blocks
  <2> QED BY <2>1, <2>2, <2>3, <2>4
<1> QED
  BY <1>3, <1>4

LEMMA TimelyCat ==
  ASSUME NEW m, NEW q \in Seq(Works), NEW t \in Seq(Works), Timely(m, q), Joins(m, q, t)
  PROVE  Timely(m, q \o t)
<1> DEFINE r == q \o t
<1>1. /\ Len(q) \in Nat /\ Len(t) \in Nat /\ Len(r) = Len(q) + Len(t)
      /\ \A i \in 1..(Len(q) + Len(t)) : r[i] = IF i <= Len(q) THEN q[i] ELSE t[i - Len(q)]
  BY ConcatProperties
<1>3. ASSUME NEW d
      PROVE  /\ \A i \in 1..Len(q) : Waits(r, d, i) <=> Waits(q, d, i)
             /\ \A i \in 1..(Len(t) + 1) :
                  Waits(r, d, Len(q) + i) <=> Waits(q, d, Len(q) + 1) \/ Waits(t, d, i)
  BY WaitsCat
<1> HIDE DEF r
<1>4. Timely(m, r)
  <2>1. SUFFICES ASSUME NEW i \in 1..Len(r)
                 PROVE  /\ r[i].does = "minzoom" => On(m, "outline") \/ Waits(r, "showline", i)
                        /\ r[i].does = "showline" => On(m, "raster") \/ Waits(r, "show", i)
    BY DEF Timely
  <2>2. CASE i <= Len(q)
    <3>1. i \in 1..Len(q) /\ r[i] = q[i]
      BY <1>1, <2>2
    <3>2. /\ q[i].does = "minzoom" => On(m, "outline") \/ Waits(q, "showline", i)
          /\ q[i].does = "showline" => On(m, "raster") \/ Waits(q, "show", i)
      BY <3>1 DEF Timely
    <3> QED BY <1>3, <3>1, <3>2
  <2>3. CASE ~(i <= Len(q))
    <3> DEFINE j == i - Len(q)
    <3>1. j \in 1..Len(t) /\ j \in 1..(Len(t) + 1) /\ r[i] = t[j] /\ i = Len(q) + j
      BY <1>1, <2>3
    <3> HIDE DEF j
    <3>2. /\ t[j].does = "minzoom" =>
               On(m, "outline") \/ Waits(q, "showline", Len(q) + 1) \/ Waits(t, "showline", j)
          /\ t[j].does = "showline" =>
               On(m, "raster") \/ Waits(q, "show", Len(q) + 1) \/ Waits(t, "show", j)
      BY <3>1 DEF Joins
    <3>3. /\ Waits(r, "showline", i) <=> Waits(q, "showline", Len(q) + 1) \/ Waits(t, "showline", j)
          /\ Waits(r, "show", i) <=> Waits(q, "show", Len(q) + 1) \/ Waits(t, "show", j)
      BY <1>3, <3>1
    <3> QED BY <3>1, <3>2, <3>3
  <2> QED BY <2>2, <2>3
<1> QED
  BY <1>4 DEF r

LEMMA WaitsMore ==
  ASSUME NEW q \in Seq(Works), NEW t \in Seq(Works), NEW d
  PROVE  Waits(q \o t, d, Len(q \o t) + 1) <=>
           Waits(q, d, Len(q) + 1) \/ Waits(t, d, Len(t) + 1)
<1>1. Len(q) \in Nat /\ Len(t) \in Nat /\ Len(q \o t) = Len(q) + Len(t)
  BY ConcatProperties
<1>2. Len(t) + 1 \in 1..(Len(t) + 1) /\ Len(q \o t) + 1 = Len(q) + (Len(t) + 1)
  BY <1>1
<1>3. Waits(q \o t, d, Len(q) + (Len(t) + 1)) <=>
        Waits(q, d, Len(q) + 1) \/ Waits(t, d, Len(t) + 1)
  BY <1>2, WaitsCat
<1> QED
  BY <1>2, <1>3

LEMMA GatesCat ==
  ASSUME NEW w, NEW m, NEW q \in Seq(Works), NEW t \in Seq(Works), Gates(w, m, q),
         Blocks(t), Joins(m, q, t)
  PROVE  Gates(w, m, q \o t)
<1>1. Blocks(q \o t)
  BY BlocksCat DEF Gates
<1>2. Timely(m, q \o t)
  BY TimelyCat DEF Gates
<1>3. ASSUME NEW d, Waits(q, d, Len(q) + 1) PROVE Waits(q \o t, d, Len(q \o t) + 1)
  BY <1>3, WaitsMore
<1>4. Even(m, q \o t) /\ Outlined(w, m, q \o t)
  BY <1>3 DEF Gates, Even, Outlined
<1> QED
  BY <1>1, <1>2, <1>4 DEF Gates

(* A layer that comes on leaves what waits in time *)
LEMMA TimelyOn ==
  ASSUME NEW m, NEW n, NEW q, Timely(m, q), On(m, "raster") => On(n, "raster"),
         On(m, "outline") => On(n, "outline")
  PROVE  Timely(n, q)
BY DEF Timely

(* A map that draws the two alike *)
LEMMA GatesAlike ==
  ASSUME NEW w, NEW m, NEW q, Gates(w, m, q), NEW n, On(m, "raster") <=> On(n, "raster"),
         On(m, "outline") <=> On(n, "outline"),
         n.look["raster"].from = m.look["raster"].from,
         n.look["outline"].from = m.look["outline"].from
  PROVE  Gates(w, n, q)
<1>1. Timely(n, q)
  BY TimelyOn DEF Gates
<1>2. Even(n, q) /\ Outlined(w, n, q)
  BY DEF Gates, Even, Outlined
<1> QED
  BY <1>1, <1>2 DEF Gates

LEMMA HandOther ==
  ASSUME NEW w, NEW m, IsMap(m), Gated(w, m), NEW x \in Works, x.does \notin Shifts,
         NEW n, n = Hand(m, x)
  PROVE  Gated(w, n) /\ IsMap(n)
<1>1. m.deferred \in Seq(Works) /\ Gates(w, m, m.deferred) /\ Halfway(m)
  BY EmptiedIs DEF Gated
<1>2. Handed(m, n) /\ IsMap(n)
  BY HandKeeps DEF Handed
<1>3. CASE AtOnce(m, x)
  <2> DEFINE k == Overtakes(m, x)
  <2>1. n = Run(k, x) /\ n.deferred = m.deferred
    BY <1>3, HandIs, HandKeeps
  <2>2. IsMap(k) /\ k.stack = m.stack /\ k.look = m.look
    BY OvertakesIs
  <2> HIDE DEF k
  <2>3. Shifted(k, x, n)
    BY <2>1, <2>2, RunShifts
  <2>4. /\ On(m, "raster") <=> On(n, "raster")
        /\ On(m, "outline") <=> On(n, "outline")
        /\ n.look["raster"].from = m.look["raster"].from
        /\ n.look["outline"].from = m.look["outline"].from
    BY <2>2, <2>3 DEF Shifted, Shifts, On
  <2>5. Gates(w, n, n.deferred)
    BY <1>1, <2>1, <2>4, GatesAlike
  <2>6. Halfway(n)
    BY <1>1, <1>2, <2>4 DEF Halfway, Handed
  <2> QED BY <1>2, <2>5, <2>6 DEF Gated
<1>4. CASE ~AtOnce(m, x)
  <2>1. /\ n.stack = m.stack /\ n.look = m.look /\ n.ready = m.ready
        /\ n.changed = m.changed /\ n.deferred = m.deferred \o <<x>>
    BY <1>4, HandKeeps
  <2>2. <<x>> \in Seq(Works) /\ Len(<<x>>) = 1 /\ <<x>>[1] = x
    OBVIOUS
  <2>3. Blocks(<<x>>) /\ Joins(m, m.deferred, <<x>>)
    BY <2>2 DEF Blocks, Joins, Shifts
  <2>4. Gates(w, m, n.deferred)
    BY <1>1, <2>1, <2>2, <2>3, GatesCat
  <2>5. /\ On(m, "raster") <=> On(n, "raster")
        /\ On(m, "outline") <=> On(n, "outline")
        /\ n.look["raster"].from = m.look["raster"].from
        /\ n.look["outline"].from = m.look["outline"].from
    BY <2>1 DEF On
  <2>6. Gates(w, n, n.deferred)
    BY <2>4, <2>5, GatesAlike
  <2>7. Halfway(n)
    BY <1>1, <2>1, <2>5 DEF Halfway
  <2> QED BY <1>2, <2>6, <2>7 DEF Gated
<1> QED
  BY <1>3, <1>4

(* Works that do not shift the two *)
Others(q) == q \in Seq(Works) /\ \A i \in 1..Len(q) : q[i].does \notin Shifts

LEMMA HandOthers ==
  ASSUME NEW w, NEW m, IsMap(m), Gated(w, m), NEW q, Others(q), NEW n, n = HandAll(m, q)
  PROVE  Gated(w, n) /\ IsMap(n)
<1>1. q \in Seq(Works) /\ Len(q) \in Nat /\ \A i \in 1..Len(q) : q[i] \in Works
      /\ q[i].does \notin Shifts
  BY DEF Others
<1>2. PICK f : HandTrace(f, m, q)
  BY <1>1, HandAllIs
<1>3. n = f[Len(q)]
  BY <1>1, <1>2, HandAllIs
<1> DEFINE T == {i \in 0..Len(q) : Gated(w, f[i]) /\ IsMap(f[i])}
<1>4. 0 \in T
  BY <1>1, <1>2 DEF HandTrace
<1>5. ASSUME NEW i \in 1..Len(q), i - 1 \in T PROVE i \in T
  <2>1. Gated(w, f[i - 1]) /\ IsMap(f[i - 1]) /\ f[i] = Hand(f[i - 1], q[i]) /\ i \in 0..Len(q)
    BY <1>1, <1>2, <1>5 DEF HandTrace
  <2>2. Gated(w, f[i]) /\ IsMap(f[i])
    BY <1>1, <2>1, HandOther
  <2> QED BY <2>1, <2>2
<1> HIDE DEF T
<1>6. \A i \in 0..Len(q) : i \in T
  BY <1>1, <1>4, <1>5, Along
<1> QED
  BY <1>1, <1>3, <1>6 DEF T

-----------------------------------------------------------------------------
(* The catalogue layer comes on, and its zoom is set                       *)

(* Two works that wait, one after the other *)
LEMMA HandTwo ==
  ASSUME NEW m, IsMap(m), NEW x \in Works, NEW y \in Works, x.layer = "wms", y.layer = "wms",
         NEW a, a = Hand(m, x), NEW k, k = HandAll(m, <<x, y>>)
  PROVE  /\ k = Hand(a, y) /\ IsMap(a) /\ IsMap(k) /\ Handed(m, a) /\ Handed(a, k)
         /\ AtOnce(m, x) <=> m.ready
         /\ AtOnce(a, y) <=> a.ready
<1>1. <<x>> \in Seq(Works) /\ <<y>> \in Seq(Works) /\ <<x, y>> = <<x>> \o <<y>>
  BY TwoWorks
<1>2. HandAll(m, <<x>>) = a
  BY HandOne
<1>3. Handed(m, a) /\ IsMap(a)
  BY HandKeeps DEF Handed
<1>4. HandAll(a, <<y>>) = Hand(a, y)
  BY <1>3, HandOne
<1>5. HandAll(m, <<x>> \o <<y>>) = HandAll(HandAll(m, <<x>>), <<y>>)
  BY <1>1, HandCat
<1>6. k = Hand(a, y)
  BY <1>1, <1>2, <1>4, <1>5
<1>h. Handed(a, k)
  BY <1>3, <1>6, HandKeeps
<1>7. Handed(a, k) /\ IsMap(k)
  BY <1>h DEF Handed
<1>8. x.does \notin AtParsed /\ y.does \notin AtParsed
  BY WorksAre DEF AtParsed
<1> QED
  BY <1>3, <1>6, <1>7, <1>8 DEF AtOnce

(* Neither runs before the style is there *)
LEMMA TwoWait ==
  ASSUME NEW m, IsMap(m), NEW x \in Works, NEW y \in Works, x.layer = "wms", y.layer = "wms",
         ~m.ready, NEW k, k = HandAll(m, <<x, y>>)
  PROVE  /\ IsMap(k) /\ k.stack = m.stack /\ k.look = m.look /\ k.ready = m.ready
         /\ k.changed = m.changed /\ k.deferred = m.deferred \o <<x, y>>
<1> DEFINE a == Hand(m, x)
<1>1. k = Hand(a, y) /\ IsMap(a) /\ IsMap(k) /\ ~AtOnce(m, x) /\ (AtOnce(a, y) <=> a.ready)
  BY HandTwo
<1>2. /\ a.stack = m.stack /\ a.look = m.look /\ a.ready = m.ready
      /\ a.changed = m.changed /\ a.deferred = m.deferred \o <<x>>
  BY <1>1, HandStays
<1> HIDE DEF a
<1>3. /\ k.stack = a.stack /\ k.look = a.look /\ k.ready = a.ready
      /\ k.changed = a.changed /\ k.deferred = a.deferred \o <<y>>
  BY <1>1, <1>2, HandStays
<1>4. m.deferred \in Seq(Works)
  BY EmptiedIs
<1>5. (m.deferred \o <<x>>) \o <<y>> = m.deferred \o <<x, y>>
  <2>1. <<x>> \in Seq(Works) /\ <<y>> \in Seq(Works) /\ <<x, y>> = <<x>> \o <<y>>
    BY TwoWorks
  <2>2. (m.deferred \o <<x>>) \o <<y>> = m.deferred \o (<<x>> \o <<y>>)
    BY <1>4, <2>1, ConcatAssociative
  <2> QED BY <2>1, <2>2
<1> QED
  BY <1>1, <1>2, <1>3, <1>5

(* A work that runs at once *)
LEMMA HandNow ==
  ASSUME NEW m, IsMap(m), NEW x \in Works, x.layer = "wms", AtOnce(m, x), NEW n, n = Hand(m, x)
  PROVE  /\ Shifted(m, x, n) /\ n.deferred = m.deferred
         /\ x.does = "show" /\ ~On(m, "raster") => ~n.ready /\ n.changed
         /\ x.does = "minzoom" => (n.ready <=> m.ready)
<1> DEFINE e == Overtakes(m, x)
<1>1. n = Run(e, x) /\ n.deferred = m.deferred
  BY HandIs, HandKeeps
<1>2. IsMap(e) /\ e.stack = m.stack /\ e.look = m.look /\ e.ready = m.ready
  BY OvertakesIs
<1> HIDE DEF e
<1>3. Shifted(e, x, n)
  BY <1>1, <1>2, RunShifts
<1>4. /\ x.does = "show" /\ ~On(e, "raster") => ~n.ready /\ n.changed
      /\ x.does = "minzoom" => (n.ready <=> e.ready)
  BY <1>1, <1>2, RunReady
<1>5. \A l : On(e, l) <=> On(m, l)
  BY <1>2 DEF On
<1>6. Shifted(m, x, n)
  BY <1>2, <1>3, <1>5 DEF Shifted
<1> QED
  BY <1>1, <1>2, <1>4, <1>5, <1>6

(* Both on and alike, or neither *)
Together(m) ==
  /\ On(m, "outline") <=> On(m, "raster")
  /\ On(m, "outline") => m.look["raster"].from = m.look["outline"].from

LEMMA TogetherEven ==
  ASSUME NEW m, NEW q, Together(m)
  PROVE  Even(m, q) /\ Halfway(m)
BY DEF Together, Even, Halfway

LEMMA PairsBlock ==
  ASSUME NEW x \in Works, NEW y \in Works
  PROVE  /\ x.does = "show" /\ y.does = "showline" =>
              Blocks(<<x, y>>) /\ Waits(<<x, y>>, "show", 2)
                /\ Waits(<<x, y>>, "showline", Len(<<x, y>>) + 1)
         /\ x.does = "minzoom" /\ y.does = "maxzoom" /\ x.to = y.to => Blocks(<<x, y>>)
         /\ y.does = "showline" => Blocks(<<y>>) /\ Waits(<<y>>, "showline", Len(<<y>>) + 1)
<1> DEFINE t == <<x, y>>
           u == <<y>>
<1>1. t \in Seq(Works) /\ Len(t) = 2 /\ t[1] = x /\ t[2] = y
  OBVIOUS
<1>2. u \in Seq(Works) /\ Len(u) = 1 /\ u[1] = y
  OBVIOUS
<1> HIDE DEF t, u
<1>3. x.does = "show" /\ y.does = "showline" => Blocks(t)
  BY <1>1 DEF Blocks
<1>4. x.does = "minzoom" /\ y.does = "maxzoom" /\ x.to = y.to => Blocks(t)
  BY <1>1 DEF Blocks
<1>5. y.does = "showline" => Blocks(u) /\ Waits(u, "showline", Len(u) + 1)
  BY <1>2 DEF Blocks, Waits
<1>6. x.does = "show" /\ y.does = "showline" =>
        Waits(t, "show", 2) /\ Waits(t, "showline", Len(t) + 1)
  BY <1>1 DEF Waits
<1> QED
  BY <1>3, <1>4, <1>5, <1>6 DEF t, u

(* The outline alone waits, its raster on *)
LEMMA LineWaits ==
  ASSUME NEW v, NEW m, IsMap(m), NEW q \in Seq(Works), Blocks(q), Timely(m, q), On(m, "raster"),
         Together(m) \/ (~On(m, "outline") /\ m.look["raster"].from = WMS_MIN_ZOOM),
         NEW y \in Works, y.does = "showline"
  PROVE  Gates(v, m, q \o <<y>>)
<1> DEFINE u == <<y>>
<1>1. u \in Seq(Works) /\ Len(u) = 1 /\ u[1] = y
  OBVIOUS
<1>2. Blocks(u) /\ Waits(u, "showline", Len(u) + 1)
  BY PairsBlock
<1> HIDE DEF u
<1>3. Blocks(q \o u)
  BY <1>1, <1>2, BlocksCat
<1>4. Joins(m, q, u)
  BY <1>1 DEF Joins
<1>5. Timely(m, q \o u)
  BY <1>1, <1>4, TimelyCat
<1>6. Waits(q \o u, "showline", Len(q \o u) + 1)
  BY <1>1, <1>2, WaitsMore
<1>7. Even(m, q \o u) /\ Outlined(v, m, q \o u)
  BY <1>6 DEF Even, Together, Outlined
<1> QED
  BY <1>3, <1>5, <1>7 DEF Gates, u

LEMMA PaintGated ==
  ASSUME NEW v, NEW m, IsMap(m), Gated(v, m), NEW x \in Works, NEW y \in Works,
         x.layer = "wms", y.layer = "wms", x.does = "show", y.does = "showline",
         NEW k, k = HandAll(m, <<x, y>>), NEW w
  PROVE  Gated(w, k)
<1> DEFINE q == m.deferred
           t == <<x, y>>
<1>1. q \in Seq(Works) /\ Gates(v, m, q) /\ Halfway(m)
  BY EmptiedIs DEF Gated
<1>t. t \in Seq(Works) /\ Len(t) = 2 /\ t[1] = x /\ t[2] = y
  OBVIOUS
<1>b. Blocks(t) /\ Waits(t, "show", 2) /\ Waits(t, "showline", Len(t) + 1)
  BY PairsBlock
<1>2. CASE ~m.ready
  <2>1. /\ IsMap(k) /\ k.stack = m.stack /\ k.look = m.look /\ k.ready = m.ready
        /\ k.changed = m.changed /\ k.deferred = q \o t
    BY <1>2, TwoWait
  <2> HIDE DEF q, t
  <2>2. Joins(m, q, t)
    <3>1. \A i \in 1..Len(t) : i = 1 \/ i = 2
      BY <1>t
    <3> QED BY <1>t, <1>b, <3>1 DEF Joins
  <2>3. Gates(v, m, q \o t)
    BY <1>1, <1>t, <1>b, <2>2, GatesCat
  <2>4. Waits(q \o t, "showline", Len(q \o t) + 1)
    BY <1>1, <1>t, <1>b, WaitsMore
  <2>5. Gates(w, m, q \o t)
    BY <2>3, <2>4 DEF Gates, Outlined
  <2>6. \A l : On(k, l) <=> On(m, l)
    BY <2>1 DEF On
  <2>7. Gates(w, k, q \o t)
    BY <2>1, <2>5, <2>6, GatesAlike
  <2>8. Halfway(k)
    BY <1>1, <2>1, <2>6 DEF Halfway
  <2> QED BY <2>1, <2>7, <2>8 DEF Gated
<1>3. CASE m.ready
  <2> DEFINE a == Hand(m, x)
  <2>1. /\ k = Hand(a, y) /\ IsMap(a) /\ IsMap(k) /\ Handed(a, k)
        /\ AtOnce(m, x) /\ (AtOnce(a, y) <=> a.ready)
    BY <1>3, HandTwo
  <2>2. /\ Shifted(m, x, a) /\ a.deferred = q
        /\ ~On(m, "raster") => ~a.ready /\ a.changed
    BY <2>1, HandNow
  <2> HIDE DEF a, q, t
  <2>3. Together(m)
    BY <1>1, <1>3 DEF Gates, Even, Halfway, Together
  <2>4. /\ On(a, "raster") /\ (On(a, "outline") <=> On(m, "outline"))
        /\ a.look["outline"].from = m.look["outline"].from
        /\ a.look["raster"].from = IF On(m, "raster") THEN m.look["raster"].from ELSE WMS_MIN_ZOOM
    BY <2>2 DEF Shifted
  <2>5. Blocks(q) /\ Timely(a, q)
    BY <1>1, <2>3, <2>4, TimelyOn DEF Gates
  <2>6. Together(a) \/ (~On(a, "outline") /\ a.look["raster"].from = WMS_MIN_ZOOM)
    BY <2>3, <2>4 DEF Together
  <2>7. CASE ~a.ready
    <3>1. ~AtOnce(a, y)
      BY <2>1, <2>7
    <3>2. /\ k.stack = a.stack /\ k.look = a.look /\ k.ready = a.ready
          /\ k.changed = a.changed /\ k.deferred = a.deferred \o <<y>>
      BY <2>1, <3>1, HandStays
    <3>3. k.deferred = q \o <<y>>
      BY <2>2, <3>2
    <3>4. Gates(w, a, q \o <<y>>)
      BY <1>1, <2>1, <2>4, <2>5, <2>6, LineWaits
    <3>5. \A l : On(k, l) <=> On(a, l)
      BY <3>2 DEF On
    <3>6. Gates(w, k, q \o <<y>>)
      BY <3>2, <3>4, <3>5, GatesAlike
    <3>7. Halfway(k)
      BY <2>2, <2>3, <2>4, <2>7, <3>2, <3>5 DEF Halfway, Together
    <3> QED BY <3>3, <3>6, <3>7 DEF Gated
  <2>8. CASE a.ready
    <3>1. Shifted(a, y, k) /\ k.deferred = q
      BY <2>1, <2>2, <2>8, HandNow
    <3>2. On(m, "raster")
      BY <2>2, <2>8
    <3>3. /\ On(k, "outline") /\ On(k, "raster")
          /\ k.look["raster"].from = k.look["outline"].from
      BY <2>3, <2>4, <3>1, <3>2 DEF Shifted, Together
    <3>4. Even(k, q) /\ Halfway(k)
      BY <3>3, TogetherEven DEF Together
    <3>5. Timely(k, q)
      BY <2>5, <3>3, TimelyOn
    <3>6. Outlined(w, k, q)
      BY <3>3 DEF Outlined
    <3> QED BY <2>5, <3>1, <3>4, <3>5, <3>6 DEF Gated, Gates
  <2> QED BY <2>7, <2>8
<1> QED
  BY <1>2, <1>3

LEMMA GatePairs ==
  ASSUME NEW v, v.percent # 0, NEW m, IsMap(m), Gated(v, m), NEW x \in Works, NEW y \in Works,
         x.layer = "wms", y.layer = "wms", x.does = "minzoom", y.does = "maxzoom", x.to = y.to,
         NEW k, k = HandAll(m, <<x, y>>)
  PROVE  Gated(v, k)
<1> DEFINE q == m.deferred
           t == <<x, y>>
<1>1. q \in Seq(Works) /\ Gates(v, m, q) /\ Halfway(m)
  BY EmptiedIs DEF Gated
<1>t. t \in Seq(Works) /\ Len(t) = 2 /\ t[1] = x /\ t[2] = y
  OBVIOUS
<1>b. Blocks(t)
  BY PairsBlock
<1>2. CASE ~m.ready
  <2>1. /\ IsMap(k) /\ k.stack = m.stack /\ k.look = m.look /\ k.ready = m.ready
        /\ k.changed = m.changed /\ k.deferred = q \o t
    BY <1>2, TwoWait
  <2> HIDE DEF q, t
  <2>2. On(m, "outline") \/ Waits(q, "showline", Len(q) + 1)
    BY <1>1 DEF Gates, Outlined
  <2>3. Joins(m, q, t)
    <3>1. \A i \in 1..Len(t) : i = 1 \/ i = 2
      BY <1>t
    <3> QED BY <1>t, <2>2, <3>1 DEF Joins
  <2>4. Gates(v, m, q \o t)
    BY <1>1, <1>t, <1>b, <2>3, GatesCat
  <2>5. \A l : On(k, l) <=> On(m, l)
    BY <2>1 DEF On
  <2>6. Gates(v, k, q \o t)
    BY <2>1, <2>4, <2>5, GatesAlike
  <2>7. Halfway(k)
    BY <1>1, <2>1, <2>5 DEF Halfway
  <2> QED BY <2>1, <2>6, <2>7 DEF Gated
<1>3. CASE m.ready
  <2> DEFINE a == Hand(m, x)
  <2>1. /\ k = Hand(a, y) /\ IsMap(a) /\ IsMap(k)
        /\ AtOnce(m, x) /\ (AtOnce(a, y) <=> a.ready)
    BY <1>3, HandTwo
  <2>2. Shifted(m, x, a) /\ a.deferred = q /\ (a.ready <=> m.ready)
    BY <2>1, HandNow
  <2> HIDE DEF a, q, t
  <2>3. Shifted(a, y, k) /\ k.deferred = q
    BY <1>3, <2>1, <2>2, HandNow
  <2>4. Together(m)
    BY <1>1, <1>3 DEF Gates, Even, Halfway, Together
  <2>5. /\ On(a, "raster") <=> On(m, "raster")
        /\ On(a, "outline") <=> On(m, "outline")
        /\ On(m, "raster") => a.look["raster"].from = x.to
    BY <2>2 DEF Shifted
  <2>6. /\ On(k, "raster") <=> On(a, "raster")
        /\ On(k, "outline") <=> On(a, "outline")
        /\ k.look["raster"].from = a.look["raster"].from
        /\ On(a, "outline") => k.look["outline"].from = y.to
    BY <2>3 DEF Shifted
  <2>7. Together(k)
    BY <2>4, <2>5, <2>6 DEF Together
  <2>8. Even(k, q) /\ Halfway(k)
    BY <2>7, TogetherEven
  <2>9. Timely(k, q)
    BY <1>1, <2>5, <2>6, TimelyOn DEF Gates
  <2>10. Outlined(v, k, q)
    BY <1>1, <2>5, <2>6 DEF Gates, Outlined
  <2> QED BY <1>1, <2>3, <2>8, <2>9, <2>10 DEF Gated, Gates
<1> QED
  BY <1>2, <1>3

-----------------------------------------------------------------------------
(* The effects of a change, and the raster and the outline                 *)

LEMMA OthersNone == Others(<<>>)
BY DEF Others

LEMMA OthersOne ==
  ASSUME NEW x \in Works, x.does \notin Shifts
  PROVE  Others(<<x>>)
<1> DEFINE t == <<x>>
<1>1. t \in Seq(Works) /\ Len(t) = 1 /\ t[1] = x
  OBVIOUS
<1> HIDE DEF t
<1>2. Others(t)
  BY <1>1 DEF Others
<1> QED
  BY <1>2 DEF t

LEMMA OthersCat ==
  ASSUME NEW s, NEW t, Others(s), Others(t)
  PROVE  Others(s \o t)
<1> DEFINE r == s \o t
<1>1. s \in Seq(Works) /\ t \in Seq(Works)
  BY DEF Others
<1>2. /\ r \in Seq(Works) /\ Len(s) \in Nat /\ Len(t) \in Nat /\ Len(r) = Len(s) + Len(t)
      /\ \A i \in 1..(Len(s) + Len(t)) : r[i] = IF i <= Len(s) THEN s[i] ELSE t[i - Len(s)]
  BY <1>1, ConcatProperties
<1> HIDE DEF r
<1>3. ASSUME NEW i \in 1..Len(r) PROVE r[i].does \notin Shifts
  <2>1. CASE i <= Len(s)
    BY <1>2, <2>1 DEF Others
  <2>2. CASE ~(i <= Len(s))
    <3>1. i - Len(s) \in 1..Len(t) /\ r[i] = t[i - Len(s)]
      BY <1>2, <2>2
    <3> QED BY <3>1 DEF Others
  <2> QED BY <2>1, <2>2
<1>4. Others(r)
  BY <1>2, <1>3 DEF Others
<1> QED
  BY <1>4 DEF r

LEMMA LotOthers ==
  ASSUME NEW q, NEW S, "wms" \notin S, Lot(q, S)
  PROVE  Others(q)
<1>1. q \in Seq(Works) /\ \A i \in 1..Len(q) : q[i] \in Works /\ q[i].layer # "wms"
  BY DEF Lot, InLanes
<1>2. \A x \in Works : x.layer # "wms" => x.does \notin Shifts
  BY WorksAre DEF Shifts
<1> QED
  BY <1>1, <1>2 DEF Others

LEMMA MarkOthers ==
  ASSUME NEW o \in Wanted, NEW n \in Wanted
  PROVE  Others(HighlightMarked(o, n))
<1> DEFINE w == Work("mark", "mark", n.mark)
           A == n.mark # "none" /\ o.mark # n.mark
<1>1. A => w \in Works
  <2>1. {} \in Values /\ (A => n.mark \in Kinds)
    BY ViewValues
  <2> QED BY <2>1, MarkWorks
<1>2. w.does \notin Shifts
  BY DEF Work, Shifts
<1>3. HighlightMarked(o, n) = When(A, <<w>>)
  BY DEF HighlightMarked
<1> HIDE DEF A, w
<1>4. A => Others(<<w>>)
  BY <1>1, <1>2, OthersOne
<1> QED
  BY <1>3, <1>4, OthersNone DEF When

(* Painted, the layer comes on, or its two do not shift *)
LEMMA PaintIs ==
  ASSUME NEW o \in Wanted, NEW n \in Wanted
  PROVE  \/ PaintCatalogue(o, n) = <<Work("show", "wms", n.percent), Work("showline", "wms", 0)>>
         \/ Others(PaintCatalogue(o, n)) /\ (n.percent # 0 => o.percent # 0)
<1> DEFINE u == Work("show", "wms", n.percent)  v == Work("showline", "wms", 0)
           x == Work("hide", "wms", 0)  y == Work("hideline", "wms", 0)
           z == Work("fade", "wms", n.percent)
           A == o.percent = 0 /\ n.percent # 0
           B == o.percent # 0 /\ n.percent = 0
           C == o.percent # 0 /\ n.percent # 0 /\ o.percent # n.percent
<1>1. PaintCatalogue(o, n) = When(A, <<u, v>>) \o When(B, <<x, y>>) \o When(C, <<z>>)
  BY DEF PaintCatalogue
<1>2. n.percent \in Values /\ 0 \in Values
  BY ViewValues
<1>3. u \in Works /\ v \in Works /\ x \in Works /\ y \in Works /\ z \in Works
  <2>1. /\ Fits(u, {"wms"}) /\ Fits(v, {"wms"}) /\ Fits(x, {"wms"}) /\ Fits(y, {"wms"})
        /\ Fits(z, {"wms"})
    BY <1>2, CatalogueWorks
  <2> QED BY <2>1 DEF Fits
<1>4. x.does \notin Shifts /\ y.does \notin Shifts /\ z.does \notin Shifts
  BY DEF Work, Shifts
<1>5. /\ A => ~B /\ ~C
      /\ ~A /\ n.percent # 0 => o.percent # 0
  OBVIOUS
<1> HIDE DEF u, v, x, y, z, A, B, C
<1>6. Others(<<x, y>>) /\ Others(<<z>>)
  <2>1. Others(<<x>>) /\ Others(<<y>>) /\ Others(<<z>>)
    BY <1>3, <1>4, OthersOne
  <2>2. Others(<<x>> \o <<y>>)
    BY <2>1, OthersCat
  <2>3. <<x, y>> = <<x>> \o <<y>>
    BY <1>3, TwoWorks
  <2> QED BY <2>1, <2>2, <2>3
<1>7. CASE A
  <2>1. PaintCatalogue(o, n) = <<u, v>> \o <<>> \o <<>>
    BY <1>1, <1>5, <1>7 DEF When
  <2>2. <<u, v>> \o <<>> \o <<>> = <<u, v>>
    BY <1>3
  <2> QED BY <2>1, <2>2 DEF u, v
<1>8. CASE ~A
  <2>1. Others(When(A, <<u, v>>))
    BY <1>8, OthersNone DEF When
  <2>2. Others(When(B, <<x, y>>)) /\ Others(When(C, <<z>>))
    BY <1>6, OthersNone DEF When
  <2>3. Others(When(A, <<u, v>>) \o When(B, <<x, y>>))
    BY <2>1, <2>2, OthersCat
  <2>4. Others((When(A, <<u, v>>) \o When(B, <<x, y>>)) \o When(C, <<z>>))
    BY <2>2, <2>3, OthersCat
  <2> QED BY <1>1, <1>5, <1>8, <2>4
<1> QED
  BY <1>7, <1>8

LEMMA GateIs ==
  ASSUME NEW o \in Wanted, NEW n \in Wanted
  PROVE  \/ GateCatalogue(o, n) = <<>>
         \/ /\ n.percent # 0 /\ n.floor \in Values
            /\ GateCatalogue(o, n) = <<Work("minzoom", "wms", n.floor),
                                       Work("maxzoom", "wms", n.floor)>>
<1>1. n.floor # None => n.floor \in Values
  BY ViewValues
<1> QED
  BY <1>1 DEF GateCatalogue, When

(* What a change hands over but for the catalogue layer's works *)
Plainly(o, n) ==
  Cleanups(o, n) \o DrawPip(o, n) \o DrawEao(o, n) \o FilterEao(o, n)
    \o OutlineSelection(o, n) \o HighlightComponent(o, n) \o DrawImported(o, n)
    \o DrawDots(o, n) \o HighlightMarked(o, n)

LEMMA PlainlyIs ==
  ASSUME NEW o \in Wanted, NEW n \in Wanted
  PROVE  /\ Others(Plainly(o, n))
         /\ Effects(o, n) = (Plainly(o, n) \o PaintCatalogue(o, n)) \o GateCatalogue(o, n)
<1> DEFINE q1 == Cleanups(o, n)
           q2 == DrawPip(o, n)
           q3 == DrawEao(o, n)
           q4 == FilterEao(o, n)
           q5 == OutlineSelection(o, n)
           q6 == HighlightComponent(o, n)
           q7 == DrawImported(o, n)
           q8 == DrawDots(o, n)
           q9 == HighlightMarked(o, n)
           s2 == q1 \o q2
           s3 == s2 \o q3
           s4 == s3 \o q4
           s5 == s4 \o q5
           s6 == s5 \o q6
           s7 == s6 \o q7
           s8 == s7 \o q8
           s9 == s8 \o q9
<1>1. Plainly(o, n) = s9
  BY DEF Plainly
<1>2. Effects(o, n) = (Plainly(o, n) \o PaintCatalogue(o, n)) \o GateCatalogue(o, n)
  BY DEF Plainly, Effects
<1>3. /\ Lot(q1, {"eao", "mark"}) /\ Lot(q2, {"pip"}) /\ Lot(q3, {"eao"}) /\ Lot(q4, {"eao"})
      /\ Lot(q5, {"eao"}) /\ Lot(q6, {"eao"}) /\ Lot(q7, {"imported"}) /\ Lot(q8, {"dots"})
  BY CleanupWorks, PipWorks, EaoWorks, ImportedDraws
<1>4. Others(q9)
  BY MarkOthers
<1> HIDE DEF q1, q2, q3, q4, q5, q6, q7, q8, q9
<1>5. /\ Others(q1) /\ Others(q2) /\ Others(q3) /\ Others(q4)
      /\ Others(q5) /\ Others(q6) /\ Others(q7) /\ Others(q8)
  BY <1>3, LotOthers
<1>s2. Others(s2)
  BY <1>5, OthersCat
<1>s3. Others(s3)
  BY <1>5, <1>s2, OthersCat
<1>s4. Others(s4)
  BY <1>5, <1>s3, OthersCat
<1>s5. Others(s5)
  BY <1>5, <1>s4, OthersCat
<1>s6. Others(s6)
  BY <1>5, <1>s5, OthersCat
<1>s7. Others(s7)
  BY <1>5, <1>s6, OthersCat
<1>s8. Others(s8)
  BY <1>5, <1>s7, OthersCat
<1>s9. Others(s9)
  BY <1>4, <1>s8, OthersCat
<1> QED
  BY <1>1, <1>2, <1>s9

(* A change of what is wanted *)
LEMMA EffectsGated ==
  ASSUME NEW o \in Wanted, NEW n \in Wanted, NEW m, IsMap(m), Gated(o, m),
         NEW k, k = HandAll(m, Effects(o, n))
  PROVE  Gated(n, k)
<1> DEFINE X == Plainly(o, n)
           P == PaintCatalogue(o, n)
           G == GateCatalogue(o, n)
           i == HandAll(m, X)
           j == HandAll(i, P)
<1>1. Others(X) /\ Effects(o, n) = (X \o P) \o G
  BY PlainlyIs
<1>2. X \in Seq(Works) /\ P \in Seq(Works) /\ G \in Seq(Works)
  BY <1>1, PaintWorks, GateWorks DEF Others, Lot
<1>3. \/ P = <<Work("show", "wms", n.percent), Work("showline", "wms", 0)>>
      \/ Others(P) /\ (n.percent # 0 => o.percent # 0)
  BY PaintIs
<1>4. \/ G = <<>>
      \/ /\ n.percent # 0 /\ n.floor \in Values
         /\ G = <<Work("minzoom", "wms", n.floor), Work("maxzoom", "wms", n.floor)>>
  BY GateIs
<1>v. n.percent \in Values /\ 0 \in Values
  BY ViewValues
<1> HIDE DEF X, P, G
<1>5. Gated(o, i) /\ IsMap(i)
  BY <1>1, HandOthers
<1> HIDE DEF i
<1>6. Gated(n, j) /\ IsMap(j)
  <2>1. CASE P = <<Work("show", "wms", n.percent), Work("showline", "wms", 0)>>
    <3> DEFINE x == Work("show", "wms", n.percent)  y == Work("showline", "wms", 0)
    <3>1. Fits(x, {"wms"}) /\ Fits(y, {"wms"})
      BY <1>v, CatalogueWorks
    <3>2. x \in Works /\ y \in Works /\ x.layer = "wms" /\ y.layer = "wms"
      BY <3>1 DEF Fits
    <3>3. x.does = "show" /\ y.does = "showline"
      BY DEF Work
    <3>4. j = HandAll(i, <<x, y>>)
      BY <2>1
    <3> HIDE DEF x, y, j
    <3>5. Gated(n, j)
      BY <1>5, <3>2, <3>3, <3>4, PaintGated
    <3>6. IsMap(j)
      BY <1>5, <3>2, <3>4, HandTwo
    <3> QED BY <3>5, <3>6
  <2>2. CASE Others(P) /\ (n.percent # 0 => o.percent # 0)
    <3>1. Gated(o, j) /\ IsMap(j)
      BY <1>5, <2>2, HandOthers
    <3> HIDE DEF j
    <3>2. Gated(n, j)
      BY <2>2, <3>1 DEF Gated, Gates, Outlined
    <3> QED BY <3>1, <3>2
  <2> QED BY <1>3, <2>1, <2>2
<1>7. k = HandAll(j, G)
  <2>1. X \o P \in Seq(Works)
    BY <1>2, ConcatProperties
  <2>2. HandAll(m, (X \o P) \o G) = HandAll(HandAll(m, X \o P), G)
    BY <1>2, <2>1, HandCat
  <2>3. HandAll(m, X \o P) = HandAll(HandAll(m, X), P)
    BY <1>2, HandCat
  <2> QED BY <1>1, <2>2, <2>3 DEF i
<1> HIDE DEF j
<1>8. CASE G = <<>>
  <2>1. Gated(n, k)
    BY <1>6, <1>7, <1>8, OthersNone, HandOthers
  <2> QED BY <2>1
<1>9. CASE /\ n.percent # 0 /\ n.floor \in Values
           /\ G = <<Work("minzoom", "wms", n.floor), Work("maxzoom", "wms", n.floor)>>
  <2> DEFINE x == Work("minzoom", "wms", n.floor)  y == Work("maxzoom", "wms", n.floor)
  <2>1. Fits(x, {"wms"}) /\ Fits(y, {"wms"})
    BY <1>9, CatalogueWorks
  <2>2. x \in Works /\ y \in Works /\ x.layer = "wms" /\ y.layer = "wms"
    BY <2>1 DEF Fits
  <2>3. x.does = "minzoom" /\ y.does = "maxzoom" /\ x.to = y.to
    BY DEF Work
  <2>4. k = HandAll(j, <<x, y>>)
    BY <1>7, <1>9
  <2> HIDE DEF x, y
  <2>5. Gated(n, k)
    BY <1>6, <1>9, <2>2, <2>3, <2>4, GatePairs
  <2> QED BY <2>5
<1> QED
  BY <1>4, <1>8, <1>9

-----------------------------------------------------------------------------
(* The two take over from each other, all along                            *)

(* The effects of a change are handed to the map *)
Handing == map' = HandAll(map, Effects(want, want'))

LEMMA NextIs ==
  ASSUME ViewNext
  PROVE  \/ Handing \/ Pan \/ SwitchBasemap \/ Load \/ Frame \/ TilesArrive \/ BecomesIdle
         \/ BasemapArrives
<1>1. \A n : Commit(n) => Handing
  BY DEF Commit, Handing
<1>2. Panel => Handing
  BY <1>1 DEF Panel, Apply, Unapply, Slide, Publish, TogglePip, PipStyle, Widen
<1>3. Panels => Handing
  BY <1>1 DEF Panels, Reveal, HideFootprint, Pick, Choose, Unchoose
<1>4. Bar => Handing
  BY <1>1 DEF Bar, EaoStyle, LoadProjects, Filter
<1>5. Mine => Handing
  BY <1>1 DEF Mine, ShowMine, HideMine, DeleteMine, FadeMine
<1>6. Mark => Handing
  BY <1>1 DEF Mark
<1> QED
  BY <1>2, <1>3, <1>4, <1>5, <1>6 DEF ViewNext

LEMMA OthersWait ==
  ASSUME NEW q, Others(q), NEW m
  PROVE  Blocks(q) /\ Timely(m, q)
BY DEF Others, Blocks, Timely, Shifts

(* Nothing is on yet, and what waits does not put the catalogue layer on *)
LEMMA GatedStarts == ViewInit => Gated(want, map)
<1> SUFFICES ASSUME ViewInit PROVE Gated(want, map)
  OBVIOUS
<1> DEFINE q == Effects(Start, want)
<1>1. want \in Wanted /\ Start \in Wanted
  BY StartIs DEF ViewInit
<1>2. want.percent = 0 /\ Start.percent = 0
  <2>1. Start.percent = 0 /\ Answered.percent = Start.percent
    BY DEF Start, Answered
  <2> QED BY <2>1 DEF ViewInit
<1>3. /\ Others(Plainly(Start, want))
      /\ q = (Plainly(Start, want) \o PaintCatalogue(Start, want)) \o GateCatalogue(Start, want)
  BY <1>1, PlainlyIs
<1>4. Others(PaintCatalogue(Start, want))
  <2>1. PaintCatalogue(Start, want) = <<>> \o <<>> \o <<>>
    BY <1>2 DEF PaintCatalogue, When
  <2>2. Others(<<>> \o <<>>)
    BY OthersNone, OthersCat
  <2>3. Others((<<>> \o <<>>) \o <<>>)
    BY <2>2, OthersNone, OthersCat
  <2> QED BY <2>1, <2>3
<1>5. Others(GateCatalogue(Start, want))
  BY <1>2, OthersNone DEF GateCatalogue, When
<1>6. Others(q)
  <2>1. Others(Plainly(Start, want) \o PaintCatalogue(Start, want))
    BY <1>3, <1>4, OthersCat
  <2>2. Others((Plainly(Start, want) \o PaintCatalogue(Start, want)) \o GateCatalogue(Start, want))
    BY <1>5, <2>1, OthersCat
  <2> QED BY <1>3, <2>2
<1>7. map = [Bare EXCEPT !.deferred = q]
  BY DEF ViewInit
<1> HIDE DEF q
<1>8. Bare \in Maps /\ \A l : ~On(Bare, l)
  BY BareIs DEF IsMap, Shaped
<1>9. map.stack = Bare.stack /\ map.deferred = q
  BY <1>7, <1>8 DEF Maps
<1>10. \A l : ~On(map, l)
  BY <1>8, <1>9 DEF On
<1>11. Blocks(q) /\ Timely(map, q)
  BY <1>6, OthersWait
<1>12. Even(map, q) /\ Outlined(want, map, q) /\ Halfway(map)
  BY <1>2, <1>10 DEF Even, Outlined, Halfway
<1> QED
  BY <1>9, <1>11, <1>12 DEF Gated, Gates

LEMMA HandingGates ==
  ASSUME ViewInv, ViewInv', Gated(want, map), Handing
  PROVE  Gated(want', map')
<1>1. want \in Wanted /\ IsMap(map)
  BY DEF ViewInv, Kept
<1>2. want' \in Wanted
  BY DEF ViewInv, Kept
<1> QED
  BY <1>1, <1>2, EffectsGated DEF Handing

(* The two as they were, with the same works waiting *)
LEMMA GatedAlike ==
  ASSUME NEW w, NEW m, Gated(w, m), NEW n, On(m, "raster") <=> On(n, "raster"),
         On(m, "outline") <=> On(n, "outline"), n.look = m.look, n.deferred = m.deferred
  PROVE  Gates(w, n, n.deferred)
BY GatesAlike DEF Gated

LEMMA PanGates ==
  ASSUME ViewInv, Gated(want, map), Pan
  PROVE  Gated(want', map')
<1>1. map' = [map EXCEPT !.ready = FALSE] /\ map.ready /\ want' = want
  BY DEF Pan
<1>2. map \in Maps
  BY WantedNow DEF IsMap, Shaped
<1>3. /\ map'.stack = map.stack /\ map'.look = map.look /\ map'.deferred = map.deferred
      /\ map'.changed = map.changed /\ map'.ready = FALSE
  BY <1>1, <1>2 DEF Maps
<1>4. \A l : On(map', l) <=> On(map, l)
  BY <1>3 DEF On
<1>5. Gates(want, map', map'.deferred)
  BY <1>3, <1>4, GatedAlike
<1>6. Halfway(map')
  BY <1>1, <1>3, <1>4 DEF Gated, Halfway
<1> QED
  BY <1>1, <1>5, <1>6 DEF Gated

LEMMA TilesGates ==
  ASSUME ViewInv, Gated(want, map), TilesArrive
  PROVE  Gated(want', map')
<1>1. map' = [map EXCEPT !.ready = TRUE] /\ ~map.changed /\ want' = want
  BY DEF TilesArrive
<1>2. map \in Maps
  BY WantedNow DEF IsMap, Shaped
<1>3. /\ map'.stack = map.stack /\ map'.look = map.look /\ map'.deferred = map.deferred
      /\ map'.changed = map.changed
  BY <1>1, <1>2 DEF Maps
<1>4. \A l : On(map', l) <=> On(map, l)
  BY <1>3 DEF On
<1>5. Gates(want, map', map'.deferred)
  BY <1>3, <1>4, GatedAlike
<1>6. Halfway(map')
  BY <1>1, <1>3, <1>4 DEF Gated, Halfway
<1> QED
  BY <1>1, <1>5, <1>6 DEF Gated

LEMMA BasemapGates ==
  ASSUME ViewInv, Gated(want, map), BasemapArrives
  PROVE  Gated(want', map')
<1>1. map' = CarryWidgetLayers(map) /\ want' = want
  BY DEF BasemapArrives
<1>2. IsMap(map)
  BY WantedNow
<1>3. /\ map'.look = map.look /\ map'.deferred = map.deferred /\ map'.changed = TRUE
      /\ map'.ready = FALSE /\ \A l \in Widget : On(map', l) <=> On(map, l)
  BY <1>1, <1>2, CarryIs
<1>4. /\ On(map, "raster") <=> On(map', "raster")
      /\ On(map, "outline") <=> On(map', "outline")
  BY <1>3, LayerNames
<1>5. Gates(want, map', map'.deferred)
  BY <1>3, <1>4, GatedAlike
<1>6. Halfway(map')
  BY <1>3 DEF Halfway
<1> QED
  BY <1>1, <1>5, <1>6 DEF Gated

LEMMA IdleGates ==
  ASSUME ViewInv, Gated(want, map), BecomesIdle
  PROVE  Gated(want', map')
<1>1. map' = RunDeferred(map) /\ want' = want
  BY DEF BecomesIdle
<1>2. IsMap(map) /\ Gates(want, map, map.deferred)
  BY WantedNow DEF Gated
<1> QED
  BY <1>1, <1>2, DeferredShifts

LEMMA FrameGates ==
  ASSUME ViewInv, Gated(want, map), Frame
  PROVE  Gated(want', map')
<1> DEFINE j == [map EXCEPT !.changed = FALSE]
           i == KeepProjectsOnTop(j)
<1>1. map' = RunDeferred(i) /\ want' = want
  BY DEF Frame
<1>2. IsMap(map) /\ map \in Maps
  BY WantedNow DEF IsMap, Shaped
<1>3. j \in Maps /\ j.stack = map.stack /\ j.look = map.look /\ j.deferred = map.deferred
  BY <1>2 DEF Maps
<1> HIDE DEF j
<1>4. IsMap(j) /\ \A l : On(j, l) <=> On(map, l)
  BY <1>2, <1>3, SameMap
<1>5. /\ IsMap(i) /\ i.look = j.look /\ i.deferred = j.deferred
      /\ \A l : On(i, l) <=> On(j, l)
  BY <1>4, KeepTopIs
<1> HIDE DEF i
<1>6. Gates(want, i, i.deferred)
  BY <1>3, <1>4, <1>5, GatedAlike
<1> QED
  BY <1>1, <1>5, <1>6, DeferredShifts

LEMMA LoadGates ==
  ASSUME ViewInv, Gated(want, map), Load
  PROVE  Gated(want', map')
<1> DEFINE j == [map EXCEPT !.parsed = TRUE, !.stack = <<LabelBlock>>]
<1>1. map' = RunDeferred(j) /\ want' = want /\ ~map.parsed
  BY DEF Load
<1>2. IsMap(map) /\ Blank(map) /\ map \in Maps
  BY <1>1, WantedNow DEF ViewInv, Kept, IsMap, Shaped
<1>3. /\ IsMap(j) /\ j.deferred = map.deferred
      /\ \A l \in Widget : ~On(j, l) /\ ~On(map, l)
  BY <1>2, LoadedIs
<1>4. j.look = map.look
  BY <1>2 DEF Maps
<1> HIDE DEF j
<1>5. /\ On(map, "raster") <=> On(j, "raster")
      /\ On(map, "outline") <=> On(j, "outline")
  BY <1>3, LayerNames
<1>6. Gates(want, j, j.deferred)
  BY <1>3, <1>4, <1>5, GatedAlike
<1> QED
  BY <1>1, <1>3, <1>6, DeferredShifts

LEMMA GatesStay ==
  ASSUME ViewInv, Gated(want, map), [ViewNext]_viewVars
  PROVE  Gated(want', map')
<1>1. CASE UNCHANGED viewVars
  BY <1>1 DEF viewVars
<1>2. CASE ViewNext
  <2>1. ViewInv'
    BY <1>2, ViewSteps
  <2>2. SwitchBasemap => want' = want /\ map' = map
    BY DEF SwitchBasemap
  <2> QED
    BY <1>2, <2>1, <2>2, NextIs, HandingGates, PanGates, TilesGates, BasemapGates, IdleGates,
       FrameGates, LoadGates
<1> QED
  BY <1>1, <1>2

(* At every zoom a catalogue layer that is on is drawn by its raster or by its *)
(* outline and never by both, and at rest the row says so where the raster     *)
(* draws nothing (layerUtils.ts, setWmsMinZoom and setOutlineMaxZoom).         *)
THEOREM ViewOutlineTakesOver == ViewSpec => []OutlineTakesOver
<1>1. ViewInv /\ Gated(want, map) => OutlineTakesOver
  <2> SUFFICES ASSUME ViewInv, Gated(want, map) PROVE OutlineTakesOver
    OBVIOUS
  <2>1. On(map, "raster") /\ On(map, "outline") => Look("raster").from = Look("outline").from
    BY DEF Gated, Gates, Even, Look
  <2>2. ASSUME AtRest, ~map.overtaken, want.percent # 0, NEW z \in Zooms
        PROVE  BelowFloor(z) = ~DrawsAt("raster", z) /\ DrawsAt("outline", z) # DrawsAt("raster", z)
    <3>1. want \in Wanted /\ IsMap(map) /\ map.deferred = <<>>
      BY <2>2, WantedNow DEF AtRest
    <3>2. RunDeferred(map) = map
      BY <3>1, SettledIs
    <3>3. Draws(want, map)
      BY <2>2, <3>2 DEF ViewInv, WillDraw
    <3>4. /\ Look("raster").visible = TRUE /\ Look("outline").visible = TRUE
          /\ Look("raster").from = EffectiveMinZoom /\ Look("outline").from = EffectiveMinZoom
      BY <2>2, <3>3 DEF Draws, DrawsWms, Look, Floor, EffectiveMinZoom
    <3>5. EffectiveMinZoom \in Int /\ z \in Int /\ MIN_ZOOM <= z
      <4>1. want.floor # None => want.floor \in Zooms
        BY <3>1, ViewAssumption DEF Wanted
      <4> QED BY <4>1 DEF EffectiveMinZoom, Zooms, MIN_ZOOM, WMS_MIN_ZOOM
    <3>6. DrawsAt("raster", z) = (EffectiveMinZoom <= z)
      BY <3>4 DEF DrawsAt, Shows
    <3>7. DrawsAt("outline", z) = (z < EffectiveMinZoom)
      BY <3>4, <3>5 DEF DrawsAt, Shows
    <3>8. BelowFloor(z) = (z < EffectiveMinZoom)
      BY <2>2 DEF BelowFloor
    <3>9. (z < EffectiveMinZoom) = ~(EffectiveMinZoom <= z)
      BY <3>5
    <3> QED BY <3>6, <3>7, <3>8, <3>9
  <2> QED BY <2>1, <2>2 DEF OutlineTakesOver
<1>2. ViewInit => Gated(want, map)
  BY GatedStarts
<1>3. ViewInv /\ Gated(want, map) /\ [ViewNext]_viewVars => Gated(want, map)'
  BY GatesStay
<1> QED
  BY <1>1, <1>2, <1>3, ViewInvariant, PTL DEF ViewSpec

(* The stack holds, with the outline and the raster taking over from each      *)
(* other (layerUtils.ts, LayerStack).                                          *)
THEOREM ViewStackHolds == ViewSpec => []StackHolds
<1>1. ViewTypeOK /\ OutlineTakesOver /\ StackingHolds /\ DotsOnTop => StackHolds
  BY DEF StackHolds
<1> QED
  BY <1>1, ViewTypeCorrect, ViewOutlineTakesOver, ViewStacking, ViewDotsOnTop, PTL

=============================================================================

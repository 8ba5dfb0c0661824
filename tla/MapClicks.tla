----------------------------- MODULE MapClicks ------------------------------
(***************************************************************************)
(* A click of the map, and what the widget makes of it: the popup of what  *)
(* the layers have there, the card of a project, a feature added to Select *)
(* area, a point of a measured line.  With it, the questions behind the    *)
(* popup (one batch a click, a Retry a layer, the records of a hosted      *)
(* feature) and What's here, whose answers arrive when they like.          *)
(*                                                                         *)
(* A layer has one feature at a point.  Attributes, where a popup is drawn *)
(* and the shape of the line are left out.                                 *)
(***************************************************************************)
EXTENDS Integers, FiniteSets, Sequences, SequencesExt

CONSTANTS
  Warehouse,      \* catalogue layers: map-api asks the warehouse about them
  Hosted,         \* layers of map-api drawn from tiles, with records to ask for
  Imported,       \* the user's own, answered in the browser
  Order,          \* all of them, as the popup lists them
  Boxes, NoBox,   \* points of the map, by the box around the click
  Areas, NoArea,  \* footprints and components of projects
  Keys,           \* features What's here may list, by their key
  Switched,       \* the layers the user switches on and off
  On0,            \* the layers on at the start
  MaxActs,        \* bound: popups opened, searches made and layers switched, in all
  MaxFound,       \* bound: features and failures one search answers with
  MaxPoints,      \* bound: points of a line
  MaxFaults       \* bound: layers and requests that fail

All == Warehouse \cup Hosted \cup Imported

ASSUME ClickAssumption ==
  /\ Warehouse \cap (Hosted \cup Imported) = {} /\ Hosted \cap Imported = {}
  /\ Order \in Seq(All) /\ IsInjective(Order) /\ ToSet(Order) = All
  /\ NoBox \notin Boxes /\ NoArea \notin Areas
  /\ Switched \subseteq All /\ On0 \subseteq All
  /\ {MaxActs, MaxFound, MaxPoints, MaxFaults} \subseteq Nat

VARIABLES
  on,             \* visibleIds and importedShownIds
  click,          \* the click the popup answers
  clicks,         \* clicks counted
  chosen,         \* the feature the user picked
  answers,        \* the queries kept, by their key
  told,           \* the latest click map-api was told of
  retried, retrying,   \* what a Retry answered, by layer; layers asked again
  retries,        \* Retries under way
  records,        \* the query for the records of each hosted feature
  select,         \* the state of Select area
  measure,        \* the line
  queries,        \* searches counted
  searches,       \* What's here under way, by id
  framing,        \* results whose bounds are asked for, to point the camera with
  outcome,        \* of the last step: the result the camera went to, the card opened
  toggles, faults

popup == <<click, chosen, answers, told, retried, retrying, retries>>
tools == <<select, measure, queries, searches, framing>>
vars  == <<on, popup, clicks, records, tools, outcome, toggles, faults>>

NoClick  == [key |-> 0, box |-> NoBox, asked |-> {}, hits |-> {}]
NoOption == <<>>
NoTarget == <<>>
Quiet    == [camera |-> NoTarget, card |-> NoArea]

Statuses == {"found", "empty", "error", "abandoned"}

Over(f, D, S) == DOMAIN f \subseteq D /\ f \in [DOMAIN f -> S]
Within(f, D)  == [x \in DOMAIN f \cap D |-> f[x]]
With(f, x, y) == [z \in DOMAIN f \cup {x} |-> IF z = x THEN y ELSE f[z]]

-----------------------------------------------------------------------------
(* What the popup lists, and what is selected in it *)

Key(c) == <<c.asked, c.box>>

(* A layer that could not answer; one map-api dropped says so the same way. *)
Failed(status) == status \in {"error", "abandoned"}

(* A layer switched off leaves an open popup. *)
Shown(c, vis) == (c.asked \cup c.hits) \cap vis

FailureUnseen(l) ==                                          \* a mutant
  IF l \in DOMAIN retried THEN retried[l].status
  ELSE IF Key(click) \notin DOMAIN answers THEN "pending"
  ELSE LET a == answers[Key(click)] IN
    IF a.status = "success" THEN a.got[l] ELSE "pending"

(* byLayer: a Retry's answer over the click's own *)
Answer(l) ==
  IF l \in DOMAIN retried THEN retried[l].status
  ELSE IF Key(click) \notin DOMAIN answers THEN "pending"
  ELSE LET a == answers[Key(click)] IN
    IF a.status = "success" THEN a.got[l] ELSE a.status

StatusOf(l) == IF l \in Warehouse THEN Answer(l) ELSE "found"

(* isLoading, visibleRows *)
Loading == \E l \in Shown(click, on) : StatusOf(l) = "pending"
Rows    == {l \in Shown(click, on) : StatusOf(l) = "found" \/ Failed(StatusOf(l))}

(* errorFeature stands for a layer that could not answer. *)
Option(l) == <<l, IF Failed(StatusOf(l)) THEN "error" ELSE "feature">>
Options   == {Option(l) : l \in Rows}

(* The first of some layers, as the popup lists them *)
First(L) == Order[Min({n \in DOMAIN Order : Order[n] \in L})]

Selected ==
  LET there == {l \in Rows : ~Failed(StatusOf(l))} IN
  IF chosen \in Options THEN chosen
  ELSE IF there # {} THEN Option(First(there))
  ELSE IF Rows # {} THEN Option(First(Rows)) ELSE NoOption

(* localRows *)
RecordsFailed(l) == l \in Hosted /\ records[l] = "error"

Detailed(l) == Selected # NoOption /\ Selected[1] = l

RetryOffered(l) ==
  /\ Detailed(l)
  /\ \/ Failed(StatusOf(l)) /\ l \notin retrying
     \/ RecordsFailed(l)

-----------------------------------------------------------------------------
(* Select area: its state, and selectAreaReducer on it *)

NoResults == [run |-> FALSE, of |-> {}, rows |-> {}, failed |-> {}]

INITIAL_STATE ==
  [tool |-> "none", selected |-> {}, focused |-> NoTarget, results |-> NoResults,
   queryId |-> 0, queryError |-> FALSE, info |-> NoTarget]
INITIAL_MEASURE == [points |-> 0, finished |-> FALSE]

IsResult(t) == Len(t) = 2                \* a result is <<layer, key>>, an area <<area>>

WithoutResults(s) ==
  [s EXCEPT !.results = NoResults, !.queryId = 0, !.queryError = FALSE,
            !.info = NoTarget,
            !.focused = IF IsResult(s.focused) THEN NoTarget ELSE s.focused]

KeepingTo(s, gone) ==
  [s EXCEPT !.focused = IF s.focused \in gone THEN NoTarget ELSE s.focused,
            !.info    = IF s.info \in gone THEN NoTarget ELSE s.info]

ToggleTool(s, t) ==
  [(IF s.tool = "select" THEN INITIAL_STATE ELSE s)
     EXCEPT !.tool = IF s.tool = t THEN "none" ELSE t]

AddArea(s, a) ==
  IF a \in s.selected THEN s
  ELSE WithoutResults([s EXCEPT !.selected = @ \cup {a}])

RemoveArea(s, a) ==
  WithoutResults(KeepingTo([s EXCEPT !.selected = @ \ {a}], {<<a>>}))

Focus(s, t) == [s EXCEPT !.focused = IF @ = t THEN NoTarget ELSE t]

StartQuery(s, id) == [WithoutResults(s) EXCEPT !.queryId = id]

AnyAnswer(s, id, r) == [s EXCEPT !.queryId = 0, !.results = r]    \* a mutant

FinishQuery(s, id, r) ==
  IF s.queryId # id THEN s ELSE [s EXCEPT !.queryId = 0, !.results = r]

FailQuery(s, id) ==
  IF s.queryId # id THEN s ELSE [s EXCEPT !.queryId = 0, !.queryError = TRUE]

RemoveResult(s, t) ==
  KeepingTo([s EXCEPT !.results.rows = @ \ {t}], {t})

ClearGroup(s, l) ==
  KeepingTo([s EXCEPT !.results.rows = {t \in @ : t[1] # l},
                      !.results.failed = @ \ {l}],
            {t \in s.results.rows : t[1] = l})

-----------------------------------------------------------------------------
(* One render, and the effects that follow it *)

Placing(s, m) == s.tool = "measure" /\ ~m.finished

SelectOwns(s, m) == s.tool = "select"                        \* a mutant

OwnsClicks(s, m) == s.tool = "select" \/ Placing(s, m)

(* The result highlighted on the map, while it is listed *)
Target(s) == IF s.focused \in s.results.rows THEN s.focused ELSE NoTarget

(* A batch nobody listens to any more is aborted, and leaves nothing. *)
Kept(c) == {k \in DOMAIN answers : answers[k].status # "pending" \/ k = Key(c)}

(* The key is asked about when nothing is kept for it; an error is asked    *)
(* again only if another key came between.                                  *)
Asks(c) ==
  /\ c.asked # {}
  /\ \/ Key(c) \notin DOMAIN answers
     \/ Key(c) # Key(click) /\ answers[Key(c)].status = "error"

Observe(c) ==
  LET kept == Within(answers, Kept(c)) IN
  IF Asks(c)
  THEN With(kept, Key(c), [status |-> "pending", click |-> c.key, got |-> <<>>])
  ELSE kept

(* The hosted feature the popup of a result is about *)
InfoRead(s) == IF s.info = NoTarget THEN {} ELSE {s.info[1]} \cap Hosted

Read(c, vis, s) == (Shown(c, vis) \cap Hosted) \cup InfoRead(s)

Records(c, vis, s) ==
  [h \in Hosted |->
    IF h \in Read(c, vis, s)
    THEN IF \/ records[h] = "none"
            \/ records[h] = "error" /\ h \notin Read(click, on, select)
         THEN "pending" ELSE records[h]
    ELSE IF records[h] = "pending" THEN "none" ELSE records[h]]

(* A new target has its bounds asked for; those of the last, when they come,  *)
(* are for nothing.                                                         *)
Frames(s) ==
  IF Target(s) = NoTarget \/ Target(s)[1] \in Imported THEN {} ELSE {Target(s)}

(* Retries are aborted with their click, unless the answer is already in.   *)
Running == {r \in retries : r.step = "in"}

Turn(c) ==
  IF c.key = click.key THEN UNCHANGED <<chosen, retried, retrying, retries>>
  ELSE /\ chosen' = NoOption /\ retried' = <<>> /\ retrying' = {}
       /\ retries' = Running

(* The popup closes when a tool takes the clicks, or nothing is left in it. *)
Render(c, s, m, vis) ==
  LET d == IF OwnsClicks(s, m) \/ Shown(c, vis) = {} THEN NoClick ELSE c IN
  /\ click' = d /\ select' = s /\ measure' = m /\ on' = vis
  /\ answers' = Observe(d)
  /\ told' = IF Asks(d) THEN d.key ELSE told
  /\ records' = Records(d, vis, s)
  /\ framing' = IF Target(s) = Target(select) THEN framing ELSE Frames(s)
  /\ Turn(d)

MayAct == clicks + queries + toggles < MaxActs

-----------------------------------------------------------------------------
(* A click: each handler of it decides for itself.  All look for a dot, and  *)
(* under one none looks further.                                            *)

(* MetaDataControl: hits are the features drawn under the pointer.          *)
Identified(box, dot, hits) ==
  IF OwnsClicks(select, measure) THEN click
  ELSE IF dot # NoArea THEN NoClick
  ELSE LET asked == Warehouse \cap on IN
    IF asked \cup hits = {} THEN NoClick
    ELSE [key |-> clicks + 1, box |-> box, asked |-> asked, hits |-> hits]

(* MapToolsControl *)
Chosen(dot, area) ==
  IF select.tool = "select" /\ dot = NoArea /\ area # NoArea
  THEN AddArea(select, area) ELSE select

(* MeasureLayer *)
Measured ==
  IF Placing(select, measure) THEN [measure EXCEPT !.points = @ + 1] ELSE measure

(* ProjectsControl *)
Opened(dot, area) ==
  IF Placing(select, measure) THEN NoArea
  ELSE IF dot # NoArea THEN dot
  ELSE IF select.tool # "select" THEN area ELSE NoArea

ClickMap(box, dot, area, hits) ==
  LET c == Identified(box, dot, hits) IN
  /\ c.key > clicks => MayAct
  /\ Measured.points <= MaxPoints
  /\ clicks' = IF c.key > clicks THEN c.key ELSE clicks
  /\ Render(c, Chosen(dot, area), Measured, on)
  /\ outcome' = [Quiet EXCEPT !.card = Opened(dot, area)]
  /\ UNCHANGED <<queries, searches, toggles, faults>>

Still == UNCHANGED <<clicks, queries, searches, toggles, faults>>

ToggleLayer(l) ==
  /\ MayAct
  /\ toggles' = toggles + 1
  /\ Render(click, select, measure, IF l \in on THEN on \ {l} ELSE on \cup {l})
  /\ UNCHANGED <<clicks, queries, searches, faults>>

-----------------------------------------------------------------------------
(* The popup *)

ClosePopup == click # NoClick /\ Render(NoClick, select, measure, on) /\ Still

Choose(o) ==
  /\ o # Selected
  /\ chosen' = o
  /\ UNCHANGED <<on, click, answers, told, retried, retrying, retries, clicks,
                 records, tools, toggles, faults>>

(* retryOption: the layer, or the records of the feature *)
RetryLayer(l) ==
  /\ RetryOffered(l) /\ Failed(StatusOf(l))
  /\ told' = click.key
  /\ retrying' = retrying \cup {l}
  /\ retries' = retries \cup {[layer |-> l, click |-> click.key, step |-> "sent",
                               got |-> "empty"]}
  /\ UNCHANGED <<on, click, chosen, answers, retried, clicks, records, tools,
                 toggles, faults>>

RetryRecords(h) ==
  /\ RecordsFailed(h)
  /\ Detailed(h) \/ h \in InfoRead(select)
  /\ records' = [records EXCEPT ![h] = "pending"]
  /\ UNCHANGED <<on, popup, clicks, tools, toggles, faults>>

(* map-api answers a layer of a replaced click without asking.             *)
Says(k, status) ==
  CASE status = "abandoned" -> told > k
    [] status = "error"     -> faults < MaxFaults
    [] OTHER                -> TRUE

Costs(got) == Cardinality({l \in DOMAIN got : got[l] = "error"})

BatchAnswered(k, got) ==
  /\ answers[k].status = "pending"
  /\ \A l \in k[1] : Says(answers[k].click, got[l])
  /\ faults + Costs(got) <= MaxFaults
  /\ faults' = faults + Costs(got)
  /\ answers' = [answers EXCEPT ![k].status = "success", ![k].got = got]
  /\ UNCHANGED <<on, click, chosen, told, retried, retrying, retries, clicks,
                 records, tools, toggles>>

BatchFails(k) ==
  /\ answers[k].status = "pending" /\ faults < MaxFaults
  /\ faults' = faults + 1
  /\ answers' = [answers EXCEPT ![k].status = "error"]
  /\ UNCHANGED <<on, click, chosen, told, retried, retrying, retries, clicks,
                 records, tools, toggles>>

(* A kept answer is 60 s old, and nobody looks at it. *)
Forget(k) ==
  /\ answers[k].status = "success" /\ k # Key(click)
  /\ answers' = Within(answers, DOMAIN answers \ {k})
  /\ UNCHANGED <<on, click, chosen, told, retried, retrying, retries, clicks,
                 records, tools, toggles, faults>>

RetryAnswered(r, status) ==
  /\ r.step = "sent" /\ Says(r.click, status)
  /\ faults' = faults + (IF status = "error" THEN 1 ELSE 0)
  /\ retries' = (retries \ {r}) \cup {[r EXCEPT !.step = "in", !.got = status]}
  /\ UNCHANGED <<on, click, chosen, answers, told, retried, retrying, clicks,
                 records, tools, toggles>>

Outlives(r) ==                                               \* a mutant
  /\ r.step = "in"
  /\ retries' = retries \ {r}
  /\ retried' = With(retried, r.layer, [status |-> r.got, click |-> r.click])
  /\ retrying' = retrying \ {r.layer}
  /\ UNCHANGED <<on, click, chosen, answers, told, clicks, records, tools,
                 toggles, faults>>

(* What ran when the answer was in: nothing, if the click has gone.         *)
RetryLands(r) ==
  /\ r.step = "in"
  /\ retries' = retries \ {r}
  /\ IF r.click = click.key
     THEN /\ retried' = With(retried, r.layer, [status |-> r.got, click |-> r.click])
          /\ retrying' = retrying \ {r.layer}
     ELSE UNCHANGED <<retried, retrying>>
  /\ UNCHANGED <<on, click, chosen, answers, told, clicks, records, tools,
                 toggles, faults>>

(* The row stays as it was, and can be retried again. *)
RetryFails(r) ==
  /\ r.step = "sent" /\ faults < MaxFaults
  /\ faults' = faults + 1
  /\ retries' = retries \ {r}
  /\ retrying' = retrying \ {r.layer}
  /\ UNCHANGED <<on, click, chosen, answers, told, retried, clicks, records, tools, toggles>>

RecordsAnswered(h) ==
  /\ records[h] = "pending"
  /\ \/ records' = [records EXCEPT ![h] = "success"] /\ UNCHANGED faults
     \/ /\ faults < MaxFaults /\ faults' = faults + 1
        /\ records' = [records EXCEPT ![h] = "error"]
  /\ UNCHANGED <<on, popup, clicks, tools, toggles>>

-----------------------------------------------------------------------------
(* The tools: the bar, and the panels under it *)

SwitchTo(t) ==
  Render(click, ToggleTool(select, t), INITIAL_MEASURE, on) /\ Still

Reduce(s) == s # select /\ Render(click, s, measure, on) /\ Still
Remeasure(m) == m # measure /\ Render(click, select, m, on) /\ Still

UndoPoint ==
  /\ Placing(select, measure) /\ measure.points > 0
  /\ Remeasure([measure EXCEPT !.points = @ - 1])
Done ==
  /\ Placing(select, measure) /\ measure.points > 1
  /\ Remeasure([measure EXCEPT !.finished = TRUE])
ClearMeasure == measure.finished /\ Remeasure(INITIAL_MEASURE)

SelectedList ==
  /\ select.tool = "select"
  /\ \/ \E a \in select.selected : Reduce(RemoveArea(select, a)) \/ Reduce(Focus(select, <<a>>))
     \/ select.selected # {} /\ Reduce([INITIAL_STATE EXCEPT !.tool = select.tool])

ResultRow(t) ==
  \/ Reduce(Focus(select, t)) \/ Reduce(RemoveResult(select, t))
  \/ Reduce([select EXCEPT !.info = t])

Group(l) == Reduce(ClearGroup(select, l))

HideInfo == select.info # NoTarget /\ Reduce([select EXCEPT !.info = NoTarget])

ResultList ==
  /\ select.tool = "select"
  /\ \/ \E t \in select.results.rows : ResultRow(t)
     \/ \E l \in select.results.failed \cup {t[1] : t \in select.results.rows} : Group(l)
     \/ HideInfo

(* searchedLayers *)
Searched == on

SearchOffered ==
  /\ select.tool = "select" /\ select.selected # {}
  /\ ~select.results.run /\ select.queryId = 0

(* With nothing on there is nothing to search. *)
WhatsHere ==
  LET id == queries + 1 IN
  /\ SearchOffered
  /\ MayAct
  /\ queries' = id
  /\ IF Searched = {}
     THEN /\ Render(click, FailQuery(StartQuery(select, id), id), measure, on)
          /\ UNCHANGED searches
     ELSE /\ Render(click, StartQuery(select, id), measure, on)
          /\ searches' = With(searches, id, [of |-> select.selected, layers |-> Searched])
  /\ UNCHANGED <<clicks, toggles, faults>>

Over1(id) == searches' = Within(searches, DOMAIN searches \ {id})

SearchAnswered(id, rows, failed) ==
  /\ {t[1] : t \in rows} \cup failed \subseteq searches[id].layers
  /\ Cardinality(rows) + Cardinality(failed) <= MaxFound
  /\ {t[1] : t \in rows} \cap failed = {}
  /\ faults + Cardinality(failed) <= MaxFaults
  /\ faults' = faults + Cardinality(failed)
  /\ Over1(id)
  /\ Render(click,
            FinishQuery(select, id, [run |-> TRUE, of |-> searches[id].of,
                                     rows |-> rows, failed |-> failed]),
            measure, on)
  /\ UNCHANGED <<clicks, queries, toggles>>

SearchFails(id) ==
  /\ faults < MaxFaults /\ faults' = faults + 1
  /\ Over1(id)
  /\ Render(click, FailQuery(select, id), measure, on)
  /\ UNCHANGED <<clicks, queries, toggles>>

(* Bounds arrive, or do not: the camera moves if they are out of view.      *)
BoundsArrive(f) ==
  /\ framing' = framing \ {f}
  /\ \/ outcome' = Quiet
     \/ outcome' = [Quiet EXCEPT !.camera = f]
  /\ UNCHANGED <<on, popup, clicks, records, select, measure, queries, searches, toggles, faults>>

-----------------------------------------------------------------------------
(* Specification *)

Init ==
  /\ on = On0 /\ click = NoClick /\ clicks = 0 /\ chosen = NoOption
  /\ answers = <<>> /\ told = 0
  /\ retried = <<>> /\ retrying = {} /\ retries = {}
  /\ records = [h \in Hosted |-> "none"]
  /\ select = INITIAL_STATE /\ measure = INITIAL_MEASURE
  /\ queries = 0 /\ searches = <<>> /\ framing = {} /\ outcome = Quiet
  /\ toggles = 0 /\ faults = 0

UserActs ==
  \/ ClosePopup
  \/ \E l \in Switched : ToggleLayer(l)
  \/ \E o \in Options : Choose(o)
  \/ \E l \in Rows : RetryLayer(l)
  \/ \E h \in Hosted : RetryRecords(h)
  \/ \E t \in {"select", "measure"} : SwitchTo(t)
  \/ UndoPoint \/ Done \/ ClearMeasure
  \/ SelectedList \/ ResultList \/ WhatsHere

BatchEnds ==
  \E k \in DOMAIN answers :
    \/ \E got \in [k[1] -> Statuses] : BatchAnswered(k, got)
    \/ BatchFails(k)
RetryComesIn ==
  \E r \in retries : \/ \E status \in Statuses : RetryAnswered(r, status)
                     \/ RetryFails(r)
RetryEnds == \E r \in retries : RetryLands(r)
RecordsEnd == \E h \in Hosted : RecordsAnswered(h)
SearchEnds ==
  \E id \in DOMAIN searches :
    \/ \E rows \in SUBSET (searches[id].layers \X Keys),
          failed \in SUBSET searches[id].layers : SearchAnswered(id, rows, failed)
    \/ SearchFails(id)

Next ==
  \/ /\ \/ UserActs \/ BatchEnds \/ RetryComesIn \/ RetryEnds \/ RecordsEnd
        \/ SearchEnds \/ \E k \in DOMAIN answers : Forget(k)
     /\ outcome' = Quiet
  \/ \E box \in Boxes, dot, area \in Areas \cup {NoArea},
        hits \in SUBSET (on \cap (Hosted \cup Imported)) :
       (dot # NoArea => area = NoArea) /\ ClickMap(box, dot, area, hits)
  \/ \E f \in framing : BoundsArrive(f)

Spec == Init /\ [][Next]_vars

(* Every request is answered or fails; nothing is asked of the user.        *)
Fairness ==
  /\ WF_vars(BatchEnds /\ outcome' = Quiet)
  /\ WF_vars(RetryComesIn /\ outcome' = Quiet)
  /\ WF_vars(RetryEnds /\ outcome' = Quiet)
  /\ WF_vars(RecordsEnd /\ outcome' = Quiet)
  /\ WF_vars(SearchEnds /\ outcome' = Quiet)

FairSpec == Spec /\ Fairness

-----------------------------------------------------------------------------
(* Properties *)

Targets == {NoTarget} \cup (All \X Keys)

TypeOK ==
  /\ on \subseteq All /\ clicks \in 0..MaxActs /\ told \in 0..clicks
  /\ click.key \in 0..clicks /\ click.box \in Boxes \cup {NoBox}
  /\ click.asked \subseteq Warehouse /\ click.hits \subseteq Hosted \cup Imported
  /\ chosen \in {NoOption} \cup (All \X {"error", "feature"})
  /\ \A k \in DOMAIN answers :
       /\ answers[k].status \in {"pending", "success", "error"}
       /\ answers[k].status = "success" => answers[k].got \in [k[1] -> Statuses]
  /\ Over(retried, click.asked, [status : Statuses, click : 1..MaxActs])
  /\ retrying \subseteq click.asked
  /\ retries \subseteq [layer : Warehouse, click : 1..MaxActs, step : {"sent", "in"},
                        got : Statuses]
  /\ records \in [Hosted -> {"none", "pending", "success", "error"}]
  /\ select.tool \in {"none", "select", "measure"} /\ select.selected \subseteq Areas
  /\ select.focused \in Targets \cup {<<a>> : a \in Areas} /\ select.info \in Targets
  /\ select.queryId \in 0..queries /\ queries \in 0..MaxActs
  /\ select.results.rows \subseteq All \X Keys /\ select.results.failed \subseteq All
  /\ measure.points \in 0..MaxPoints /\ measure.finished \in BOOLEAN
  /\ DOMAIN searches \subseteq 1..queries
  /\ framing \subseteq All \X Keys
  /\ outcome \in [camera : Targets, card : Areas \cup {NoArea}]
  /\ toggles \in 0..MaxActs /\ faults \in 0..MaxFaults

(* A Retry never outlives the click it belongs to (useMetaData.ts:75): what *)
(* is laid over the popup was asked for its click, and a layer shown as     *)
(* being asked again is, even when the answer was in as the click went.     *)
RetriesDieWithTheirClick ==
  /\ \A l \in DOMAIN retried : retried[l].click = click.key
  /\ \A l \in retrying : \E r \in retries : r.layer = l /\ r.click = click.key

(* The layers map-api drops as replaced are those of a click nobody listens *)
(* to (useMetaData.ts:101): no popup shows a layer that was not asked.      *)
AbandonedIsNeverRead ==
  \A l \in Shown(click, on) : StatusOf(l) # "abandoned"

(* The results, and the search shown as running, are of the areas selected  *)
(* now: "A changed selection discards its results" (SelectAreaContext:106), *)
(* however late the answer to an earlier question comes.                    *)
ResultsAreOfTheSelection ==
  /\ select.results.run => select.results.of = select.selected
  /\ select.queryId # 0 => /\ select.queryId \in DOMAIN searches
                           /\ searches[select.queryId].of = select.selected

(* The highlight and the popup of a result point at a row that is listed.   *)
FocusIsListed ==
  /\ IsResult(select.focused) => select.focused \in select.results.rows
  /\ Len(select.focused) = 1 => select.focused[1] \in select.selected
  /\ select.info # NoTarget => select.info \in select.results.rows

(* The map has one highlight, which the popup and the results both paint    *)
(* and both wipe: they never want it at once.                               *)
OneHighlight == Selected = NoOption \/ Target(select) = NoTarget

(* A click is taken once: what selects a feature or places a point neither  *)
(* opens a popup nor a card, though four handlers hear it.                  *)
ClickIsTakenOnce ==
  [][select'.selected \ select.selected # {} \/ measure'.points > measure.points
       => click' = NoClick /\ outcome' = Quiet]_vars

(* Bounds that come late never move the camera to a result left behind.     *)
CameraFollowsFocus == [][outcome'.camera \in {NoTarget, Target(select)}]_vars

(* A popup does not identify for ever, whatever fails or is asked again.    *)
PopupSettles == Loading ~> ~Loading

(* What's here does not search for ever. *)
SearchSettles == select.queryId # 0 ~> select.queryId = 0

(* The selection, its results, and the one highlight agree                  *)
(* (SelectAreaContext.tsx; useResultHighlight.ts).                          *)
FocusIsSound ==
  TypeOK /\ ResultsAreOfTheSelection /\ FocusIsListed /\ OneHighlight

(* A popup shows answers to its own click, and to what it asked             *)
(* (useMetaData.ts).                                                        *)
PopupIsOfItsClick == RetriesDieWithTheirClick /\ AbandonedIsNeverRead

(* Whatever a step does to the camera, the popup and the card was asked for *)
(* (MetaDataControl.tsx; ProjectsControl.tsx; useResultHighlight.ts).       *)
EffectsAreDue == ClickIsTakenOnce /\ CameraFollowsFocus

(* Left alone, the popup and the search come to rest (useMetaData.ts;       *)
(* SelectAreaContext.tsx, find).                                            *)
ComesToRest == PopupSettles /\ SearchSettles

=============================================================================

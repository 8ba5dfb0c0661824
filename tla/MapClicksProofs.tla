--------------------------- MODULE MapClicksProofs ---------------------------
(***************************************************************************)
(* Proofs about MapClicks for any layers, points, areas and bounds: what   *)
(* the results, the highlight and the popup show belongs together, and a   *)
(* click, a Retry or a search that is answered late changes nothing else.  *)
(***************************************************************************)
EXTENDS MapClicks, FiniteSetTheorems, TLAPS

-----------------------------------------------------------------------------
(* The inductive invariant: Select area *)

Results == All \X Keys
Spots   == {<<a>> : a \in Areas}

(* The state of Select area: what is highlighted or explained is listed, the *)
(* results are of the areas selected, there is none while a search runs, and *)
(* neither results nor a search outside the tool.                            *)
SelectTyped(s) ==
  s \in [tool : {"none", "select", "measure"}, selected : SUBSET Areas,
         focused : Targets \cup Spots,
         results : [run : BOOLEAN, of : SUBSET Areas, rows : SUBSET Results,
                    failed : SUBSET All],
         queryId : Nat, queryError : BOOLEAN, info : Targets]

SelectFits(s) ==
  /\ s.focused \in Results => s.focused \in s.results.rows
  /\ \A a \in Areas : s.focused = <<a>> => a \in s.selected
  /\ s.info # NoTarget => s.info \in s.results.rows
  /\ s.results.run => s.results.of = s.selected
  /\ s.queryId # 0 => s.results.rows = {} /\ ~s.results.run
  /\ s.tool # "select" => s.results.rows = {} /\ s.queryId = 0

Good(s) == SelectTyped(s) /\ SelectFits(s)

(* The search a state waits for, if any, is under way and of its selection. *)
Waits(s, runs) ==
  s.queryId # 0 => /\ s.queryId \in DOMAIN runs
                   /\ runs[s.queryId].of = s.selected

SelectHolds == Good(select) /\ Waits(select, searches)

SearchesHold ==
  /\ DOMAIN searches \subseteq 1..queries
  /\ \A id \in DOMAIN searches : /\ searches[id].of \subseteq Areas
                                 /\ searches[id].layers \subseteq All

(* Bounds are asked for the result highlighted now. *)
FramingHolds == framing \subseteq {Target(select)} \ {NoTarget}

-----------------------------------------------------------------------------
(* The inductive invariant: the popup *)

Click(n) == [key : 0..n, box : Boxes \cup {NoBox}, asked : SUBSET Warehouse,
             hits : SUBSET (Hosted \cup Imported)]

CountsHold ==
  /\ {clicks, queries, toggles, faults} \subseteq Nat
  /\ clicks + queries + toggles <= MaxActs /\ faults <= MaxFaults

ClickHolds ==
  /\ on \subseteq All
  /\ click \in Click(clicks) /\ (click.key = 0 => click = NoClick)
  /\ click # NoClick => ~OwnsClicks(select, measure)
  /\ told \in 0..clicks

ShownHolds ==
  /\ chosen \in {NoOption} \cup (All \X {"error", "feature"})
  /\ records \in [Hosted -> {"none", "pending", "success", "error"}]
  /\ measure \in [points : 0..MaxPoints, finished : BOOLEAN]
  /\ outcome \in [camera : Targets, card : Areas \cup {NoArea}]

(* A batch that is out is that of the popup, which has not been replaced as  *)
(* far as map-api knows, and no layer of it is asked again before it is in.  *)
Listens(k) ==
  /\ k = Key(click) /\ told <= answers[k].click
  /\ DOMAIN retried = {} /\ \A r \in retries : r.click # click.key

IsAnswer(a) == a = [status |-> a.status, click |-> a.click, got |-> a.got]

AnswersHold ==
  /\ click.asked # {} => Key(click) \in DOMAIN answers
  /\ \A k \in DOMAIN answers :
       /\ IsAnswer(answers[k]) /\ k[1] \subseteq Warehouse /\ answers[k].click \in Nat
       /\ answers[k].status \in {"pending", "success", "error"}
       /\ answers[k].status = "pending" => Listens(k)
       /\ answers[k].status = "success" =>
            answers[k].got \in [k[1] -> Statuses \ {"abandoned"}]

(* A Retry that is out is of the click the popup answers. *)
RetriesHold ==
  /\ Over(retried, click.asked, [status : Statuses \ {"abandoned"}, click : 1..MaxActs])
  /\ retrying \subseteq click.asked
  /\ \A r \in retries :
       /\ r \in [layer : Warehouse, click : 1..clicks, step : {"sent", "in"}, got : Statuses]
       /\ r.step = "sent" => r.click = click.key /\ told <= r.click
       /\ r.step = "in" => r.got # "abandoned"
       /\ r.click = click.key => r.layer \in click.asked

PopupHolds == AnswersHold /\ RetriesHold /\ RetriesDieWithTheirClick

ClickInv ==
  /\ SelectHolds /\ SearchesHold /\ FramingHolds
  /\ CountsHold /\ ClickHolds /\ ShownHolds /\ PopupHolds

-----------------------------------------------------------------------------
(* Select area: what the reducer makes of a state *)

LEMMA Tuples ==
  /\ NoTarget \notin Results /\ Len(NoTarget) = 0
  /\ \A t \in Results : t # NoTarget /\ Len(t) = 2
  /\ \A a : <<a>> # NoTarget /\ <<a>> \notin Results /\ Len(<<a>>) = 1 /\ <<a>>[1] = a
BY DEF NoTarget, Results

LEMMA InitialGood ==
  ASSUME NEW t \in {"none", "select", "measure"}
  PROVE  Good([INITIAL_STATE EXCEPT !.tool = t]) /\ Good(INITIAL_STATE)
BY Tuples
DEF Good, SelectTyped, SelectFits, INITIAL_STATE, NoResults, Targets, NoTarget

LEMMA WithoutResultsGood ==
  ASSUME NEW s, SelectTyped(s), \A a \in Areas : s.focused = <<a>> => a \in s.selected
  PROVE  LET w == WithoutResults(s)
         IN  /\ Good(w) /\ w.queryId = 0 /\ w.selected = s.selected /\ w.tool = s.tool
             /\ w.results = NoResults
<1> DEFINE f == IF IsResult(s.focused) THEN NoTarget ELSE s.focused
           w == WithoutResults(s)
<1>1. /\ w = [s EXCEPT !.results = NoResults, !.queryId = 0, !.queryError = FALSE,
                       !.info = NoTarget, !.focused = f]
      /\ f \in Targets \cup Spots /\ f \notin Results /\ (f # NoTarget => f = s.focused)
  BY Tuples DEF WithoutResults, SelectTyped, IsResult, Targets, Results
<1> HIDE DEF f
<1>2. /\ SelectTyped(w) /\ w.results = NoResults /\ w.queryId = 0 /\ w.info = NoTarget
      /\ w.focused = f /\ w.selected = s.selected /\ w.tool = s.tool
  <2>1. NoResults \in [run : BOOLEAN, of : SUBSET Areas, rows : SUBSET Results,
                        failed : SUBSET All]
    BY DEF NoResults
  <2>2. NoTarget \in Targets
    BY DEF Targets
  <2> HIDE DEF w
  <2>3. w = [tool |-> s.tool, selected |-> s.selected, focused |-> f, results |-> NoResults,
             queryId |-> 0, queryError |-> FALSE, info |-> NoTarget]
    BY <1>1 DEF SelectTyped
  <2>4. /\ s.tool \in {"none", "select", "measure"} /\ s.selected \in SUBSET Areas
        /\ f \in Targets \cup Spots
    BY <1>1 DEF SelectTyped
  <2>5. SelectTyped([tool |-> s.tool, selected |-> s.selected, focused |-> f,
                     results |-> NoResults, queryId |-> 0, queryError |-> FALSE,
                     info |-> NoTarget])
    BY ONLY <2>1, <2>2, <2>4 DEF SelectTyped
  <2> QED BY <2>3, <2>5
<1> HIDE DEF w
<1>3. NoResults.rows = {} /\ ~NoResults.run
  BY DEF NoResults
<1>4. SelectFits(w)
  BY <1>1, <1>2, <1>3, Tuples DEF SelectFits
<1> QED BY <1>2, <1>4 DEF Good, w

LEMMA AddAreaGood ==
  ASSUME NEW s, Good(s), NEW a \in Areas
  PROVE  LET w == AddArea(s, a)
         IN  Good(w) /\ w.tool = s.tool /\ (w = s \/ w.queryId = 0)
<1>1. CASE a \in s.selected
  BY <1>1 DEF AddArea
<1>2. CASE a \notin s.selected
  <2> DEFINE t == [s EXCEPT !.selected = @ \cup {a}]
  <2>1. /\ SelectTyped(t) /\ t.focused = s.focused /\ t.selected = s.selected \cup {a}
        /\ t.tool = s.tool
    BY DEF Good, SelectTyped
  <2>2. AddArea(s, a) = WithoutResults(t)
    BY <1>2 DEF AddArea
  <2> HIDE DEF t
  <2> QED BY <2>1, <2>2, WithoutResultsGood DEF Good, SelectFits
<1> QED BY <1>1, <1>2

(* KeepingTo: what is gone is neither highlighted nor explained. *)
LEMMA KeepingIs ==
  ASSUME NEW s, SelectTyped(s), NEW gone
  PROVE  LET w == KeepingTo(s, gone)
         IN  /\ SelectTyped(w) /\ w.results = s.results /\ w.selected = s.selected
             /\ w.tool = s.tool /\ w.queryId = s.queryId
             /\ w.focused = IF s.focused \in gone THEN NoTarget ELSE s.focused
             /\ w.info = IF s.info \in gone THEN NoTarget ELSE s.info
BY DEF KeepingTo, SelectTyped, Targets

LEMMA RemoveAreaGood ==
  ASSUME NEW s, Good(s), NEW a \in Areas
  PROVE  LET w == RemoveArea(s, a)
         IN  Good(w) /\ w.queryId = 0 /\ w.tool = s.tool /\ w.selected \subseteq s.selected
<1> DEFINE t == [s EXCEPT !.selected = @ \ {a}]
           k == KeepingTo(t, {<<a>>})
<1>1. /\ SelectTyped(t) /\ t.focused = s.focused /\ t.selected = s.selected \ {a}
      /\ t.tool = s.tool
  BY DEF Good, SelectTyped
<1>2. RemoveArea(s, a) = WithoutResults(k)
  BY DEF RemoveArea
<1> HIDE DEF t
<1>3. /\ SelectTyped(k) /\ k.selected = s.selected \ {a} /\ k.tool = s.tool
      /\ k.focused = IF s.focused = <<a>> THEN NoTarget ELSE s.focused
  <2>1. /\ SelectTyped(k) /\ k.selected = t.selected /\ k.tool = t.tool
        /\ k.focused = IF t.focused \in {<<a>>} THEN NoTarget ELSE t.focused
    BY <1>1, KeepingIs
  <2> HIDE DEF k
  <2> QED BY <1>1, <2>1
<1> HIDE DEF k
<1>4. \A b \in Areas : k.focused = <<b>> => b \in k.selected
  BY <1>3, Tuples DEF Good, SelectFits
<1> QED BY <1>2, <1>3, <1>4, WithoutResultsGood

LEMMA ToggleToolGood ==
  ASSUME NEW s, Good(s), NEW t \in {"select", "measure"}
  PROVE  LET w == ToggleTool(s, t)
         IN  /\ Good(w) /\ w.selected \subseteq s.selected
             /\ w.queryId = 0 /\ w.results.rows = {}
<1> DEFINE u == IF s.tool = t THEN "none" ELSE t
<1>1. u \in {"none", "select", "measure"}
  OBVIOUS
<1> HIDE DEF u
<1>2. CASE s.tool = "select"
  <2> DEFINE v == [INITIAL_STATE EXCEPT !.tool = u]
  <2>1. ToggleTool(s, t) = v
    BY <1>2 DEF ToggleTool, u
  <2>2. Good(v)
    BY <1>1, InitialGood
  <2>3. v.selected = {} /\ v.queryId = 0 /\ v.results.rows = {}
    BY DEF INITIAL_STATE, NoResults
  <2> QED BY <2>1, <2>2, <2>3
<1>3. CASE s.tool # "select"
  <2> DEFINE v == [s EXCEPT !.tool = u]
  <2>1. ToggleTool(s, t) = v
    BY <1>3 DEF ToggleTool, u
  <2>2. /\ SelectTyped(v) /\ v.tool = u /\ v.selected = s.selected /\ v.results = s.results
        /\ v.queryId = s.queryId /\ v.focused = s.focused /\ v.info = s.info
    BY <1>1 DEF Good, SelectTyped
  <2> HIDE DEF v
  <2> QED BY <1>3, <2>1, <2>2 DEF Good, SelectFits
<1> QED BY <1>2, <1>3

LEMMA FocusGood ==
  ASSUME NEW s, Good(s),
         NEW t, t \in s.results.rows \/ \E a \in s.selected : t = <<a>>
  PROVE  LET w == Focus(s, t)
         IN  Good(w) /\ w.selected = s.selected /\ w.queryId = s.queryId /\ w.tool = s.tool
<1> DEFINE f == IF s.focused = t THEN NoTarget ELSE t
           w == Focus(s, t)
<1>1. t \in Results \cup Spots
  BY DEF Good, SelectTyped, Spots
<1>2. f \in Targets \cup Spots /\ w = [s EXCEPT !.focused = f]
  BY <1>1 DEF Focus, Targets, Results
<1>3. f = NoTarget \/ f = t
  OBVIOUS
<1> HIDE DEF f
<1>4. /\ SelectTyped(w) /\ w.focused = f /\ w.results = s.results /\ w.selected = s.selected
      /\ w.tool = s.tool /\ w.queryId = s.queryId /\ w.info = s.info
  BY <1>2 DEF Good, SelectTyped
<1> HIDE DEF w
<1>5. SelectFits(w)
  <2>1. CASE f = NoTarget
    BY <1>4, <2>1, Tuples DEF Good, SelectFits
  <2>2. CASE t \in s.results.rows /\ f = t
    <3>1. t \in Results
      BY <2>2 DEF Good, SelectTyped
    <3> QED BY <1>4, <2>2, <3>1, Tuples DEF Good, SelectFits
  <2>3. ASSUME NEW a \in s.selected, t = <<a>>, f = t PROVE SelectFits(w)
    <3>1. w.focused \notin Results /\ \A b : w.focused = <<b>> => b = a
      BY <1>4, <2>3, Tuples
    <3> QED BY <1>4, <2>3, <3>1 DEF Good, SelectFits
  <2> QED BY <1>3, <2>1, <2>2, <2>3
<1> QED BY <1>4, <1>5 DEF Good, w

LEMMA StartQueryGood ==
  ASSUME NEW s, Good(s), s.tool = "select", NEW id \in Nat
  PROVE  LET w == StartQuery(s, id)
         IN  Good(w) /\ w.selected = s.selected /\ w.queryId = id
<1> DEFINE r == WithoutResults(s)
           w == StartQuery(s, id)
<1>1. Good(r) /\ r.selected = s.selected /\ r.tool = s.tool /\ r.results = NoResults
  BY WithoutResultsGood DEF Good, SelectFits
<1>2. w = [r EXCEPT !.queryId = id]
  BY DEF StartQuery
<1> HIDE DEF r
<1>3. /\ SelectTyped(w) /\ w.focused = r.focused /\ w.results = r.results /\ w.info = r.info
      /\ w.selected = s.selected /\ w.tool = "select" /\ w.queryId = id
  BY <1>1, <1>2 DEF Good, SelectTyped
<1> HIDE DEF w
<1>4. NoResults.rows = {} /\ ~NoResults.run
  BY DEF NoResults
<1>5. SelectFits(w)
  BY <1>1, <1>3, <1>4 DEF Good, SelectFits
<1> QED BY <1>3, <1>5 DEF Good, w

(* Only the answer to the search that is waited for is taken. *)
LEMMA FinishQueryGood ==
  ASSUME NEW s, Good(s), NEW id, id # 0,
         NEW r \in [run : {TRUE}, of : SUBSET Areas, rows : SUBSET Results,
                    failed : SUBSET All],
         s.queryId = id => r.of = s.selected
  PROVE  LET w == FinishQuery(s, id, r)
         IN  Good(w) /\ w.selected = s.selected /\ ((w = s /\ s.queryId # id) \/ w.queryId = 0)
<1>1. CASE s.queryId # id
  BY <1>1 DEF FinishQuery
<1>2. CASE s.queryId = id
  <2> DEFINE w == [s EXCEPT !.queryId = 0, !.results = r]
  <2>1. FinishQuery(s, id, r) = w
    BY <1>2 DEF FinishQuery
  <2>2. r \in [run : BOOLEAN, of : SUBSET Areas, rows : SUBSET Results, failed : SUBSET All]
    OBVIOUS
  <2>3. /\ SelectTyped(w) /\ w.queryId = 0 /\ w.results = r /\ w.selected = s.selected
        /\ w.tool = s.tool /\ w.focused = s.focused /\ w.info = s.info
    BY <2>2 DEF Good, SelectTyped
  <2> HIDE DEF w
  <2>4. s.results.rows = {} /\ s.tool = "select"
    BY <1>2 DEF Good, SelectFits
  <2>5. SelectFits(w)
    BY <1>2, <2>3, <2>4 DEF Good, SelectFits
  <2> QED BY <2>1, <2>3, <2>5 DEF Good
<1> QED BY <1>1, <1>2

LEMMA FailQueryGood ==
  ASSUME NEW s, Good(s), NEW id
  PROVE  LET w == FailQuery(s, id)
         IN  Good(w) /\ w.selected = s.selected /\ ((w = s /\ s.queryId # id) \/ w.queryId = 0)
<1>1. CASE s.queryId # id
  BY <1>1 DEF FailQuery
<1>2. CASE s.queryId = id
  <2> DEFINE w == [s EXCEPT !.queryId = 0, !.queryError = TRUE]
  <2>1. FailQuery(s, id) = w
    BY <1>2 DEF FailQuery
  <2>2. /\ SelectTyped(w) /\ w.queryId = 0 /\ w.results = s.results
        /\ w.selected = s.selected /\ w.tool = s.tool /\ w.focused = s.focused
        /\ w.info = s.info
    BY DEF Good, SelectTyped
  <2> HIDE DEF w
  <2> QED BY <2>1, <2>2 DEF Good, SelectFits
<1> QED BY <1>1, <1>2

LEMMA InfoGood ==
  ASSUME NEW s, Good(s), NEW t \in s.results.rows \cup {NoTarget}
  PROVE  LET w == [s EXCEPT !.info = t]
         IN  Good(w) /\ w.selected = s.selected /\ w.queryId = s.queryId
<1> DEFINE w == [s EXCEPT !.info = t]
<1>1. t \in Targets
  BY DEF Good, SelectTyped, Targets, Results
<1>2. /\ SelectTyped(w) /\ w.info = t /\ w.queryId = s.queryId /\ w.results = s.results
      /\ w.selected = s.selected /\ w.tool = s.tool /\ w.focused = s.focused
  BY <1>1 DEF Good, SelectTyped
<1> HIDE DEF w
<1> QED BY <1>2 DEF Good, SelectFits, w

(* Rows that are removed take the highlight and the popup with them. *)
FewerRows(t, s) ==
  /\ SelectTyped(t) /\ t.results.rows \subseteq s.results.rows
  /\ t.results.run = s.results.run /\ t.results.of = s.results.of
  /\ t.queryId = s.queryId /\ t.selected = s.selected /\ t.tool = s.tool
  /\ t.focused = s.focused /\ t.info = s.info

LEMMA RowsGoGood ==
  ASSUME NEW s, Good(s), NEW t, FewerRows(t, s),
         NEW gone \in SUBSET Results, s.results.rows \ t.results.rows \subseteq gone
  PROVE  LET w == KeepingTo(t, gone)
         IN  Good(w) /\ w.selected = s.selected /\ w.queryId = s.queryId
<1> DEFINE w == KeepingTo(t, gone)
<1>1. /\ SelectTyped(w) /\ w.results = t.results /\ w.selected = t.selected
      /\ w.tool = t.tool /\ w.queryId = t.queryId
      /\ w.focused = IF t.focused \in gone THEN NoTarget ELSE t.focused
      /\ w.info = IF t.info \in gone THEN NoTarget ELSE t.info
  BY KeepingIs DEF FewerRows
<1> HIDE DEF w
<1>2. SelectFits(w)
  BY <1>1, Tuples DEF Good, SelectFits, FewerRows
<1> QED BY <1>1, <1>2 DEF Good, FewerRows, w

LEMMA RemoveResultGood ==
  ASSUME NEW s, Good(s), NEW t \in s.results.rows
  PROVE  LET w == RemoveResult(s, t)
         IN  Good(w) /\ w.selected = s.selected /\ w.queryId = s.queryId
<1> DEFINE u == [s EXCEPT !.results.rows = @ \ {t}]
<1>1. FewerRows(u, s) /\ u.results.rows = s.results.rows \ {t} /\ {t} \in SUBSET Results
  BY DEF Good, SelectTyped, FewerRows
<1>2. RemoveResult(s, t) = KeepingTo(u, {t})
  BY DEF RemoveResult
<1> HIDE DEF u
<1>3. s.results.rows \ u.results.rows \subseteq {t}
  BY <1>1
<1> QED BY <1>1, <1>2, <1>3, RowsGoGood

LEMMA ClearGroupGood ==
  ASSUME NEW s, Good(s), NEW l
  PROVE  LET w == ClearGroup(s, l)
         IN  Good(w) /\ w.selected = s.selected /\ w.queryId = s.queryId
<1> DEFINE gone == {t \in s.results.rows : t[1] = l}
           u == [s EXCEPT !.results.rows = {t \in @ : t[1] # l},
                          !.results.failed = @ \ {l}]
<1>1. /\ FewerRows(u, s) /\ gone \in SUBSET Results
      /\ u.results.rows = {t \in s.results.rows : t[1] # l}
  BY DEF Good, SelectTyped, FewerRows
<1>2. ClearGroup(s, l) = KeepingTo(u, gone)
  BY DEF ClearGroup
<1> HIDE DEF u
<1>3. s.results.rows \ u.results.rows \subseteq gone
  BY <1>1
<1> HIDE DEF gone
<1> QED BY <1>1, <1>2, <1>3, RowsGoGood

-----------------------------------------------------------------------------
(* A render, and the effects that follow it *)

Rendered ==
  /\ click' # NoClick => ~OwnsClicks(select', measure')
  /\ \/ click' \in {NoClick, click} /\ clicks' = clicks
     \/ /\ (click' = NoClick \/ click'.key = clicks') /\ click' \in Click(clicks')
        /\ clicks' = clicks + 1
  /\ answers' = Observe(click')
  /\ told' = IF Asks(click') THEN click'.key ELSE told
  /\ records' = Records(click', on', select')
  /\ framing' = IF Target(select') = Target(select) THEN framing ELSE Frames(select')
  /\ Turn(click')

LEMMA RenderHere ==
  ASSUME ClickHolds, UNCHANGED clicks, NEW c \in {NoClick, click}, NEW s, NEW m, NEW vis,
         Render(c, s, m, vis)
  PROVE  Rendered /\ select' = s /\ measure' = m /\ on' = vis
<1>1. /\ click' = IF OwnsClicks(s, m) \/ Shown(c, vis) = {} THEN NoClick ELSE c
      /\ select' = s /\ measure' = m /\ on' = vis
      /\ answers' = Observe(click') /\ told' = IF Asks(click') THEN click'.key ELSE told
      /\ records' = Records(click', on', select')
      /\ framing' = IF Target(select') = Target(select) THEN framing ELSE Frames(select')
      /\ Turn(click')
  BY DEF Render
<1> QED BY <1>1 DEF Rendered

(* A click that is new has a key of its own: the one the popup answered goes *)
(* with the Retries of it that are not in yet.                               *)
LEMMA TurnIs ==
  ASSUME CountsHold, ClickHolds, Rendered
  PROVE  /\ click' = click => UNCHANGED <<chosen, retried, retrying, retries>>
         /\ click' # click =>
              /\ chosen' = NoOption /\ retried' = <<>> /\ retrying' = {}
              /\ retries' = Running /\ click'.key \notin 1..clicks
         /\ click' \in Click(clicks') /\ (click'.key = 0 => click' = NoClick)
         /\ clicks' \in Nat /\ clicks <= clicks'
<1>1. NoClick.key = 0 /\ NoClick \in Click(0) /\ click.key \in 0..clicks
  BY DEF NoClick, Click, ClickHolds
<1>2. clicks \in Nat /\ clicks' \in Nat /\ clicks <= clicks'
  BY DEF CountsHold, Rendered
<1>3. NoClick \in Click(clicks') /\ click \in Click(clicks')
  BY <1>1, <1>2 DEF Click, ClickHolds
<1>4. click' \in Click(clicks') /\ (click'.key = 0 => click' = NoClick)
  BY <1>1, <1>2, <1>3 DEF Rendered, ClickHolds
<1>5. click' # click => click'.key # click.key /\ click'.key \notin 1..clicks
  BY <1>1, <1>2, <1>4 DEF Rendered, ClickHolds
<1> QED BY <1>2, <1>4, <1>5 DEF Rendered, Turn

LEMMA KeyIs == \A c : Key(c) = <<c.asked, c.box>> /\ Key(c)[1] = c.asked
BY DEF Key

(* The popup that stays asks nothing again. *)
LEMMA AsksOnce ==
  ASSUME AnswersHold
  PROVE  ~Asks(click)
BY DEF Asks, AnswersHold

LEMMA AnswersRender ==
  ASSUME CountsHold, ClickHolds, PopupHolds, Rendered
  PROVE  AnswersHold'
<1> PICK d : d = click'
  OBVIOUS
<1> DEFINE kept == Within(answers, Kept(d))
           new == [status |-> "pending", click |-> d.key, got |-> <<>>]
<1>1. answers' = IF Asks(d) THEN With(kept, Key(d), new) ELSE kept
  BY DEF Rendered, Observe
<1>2. /\ DOMAIN kept = {k \in DOMAIN answers : answers[k].status # "pending" \/ k = Key(d)}
      /\ \A k \in DOMAIN kept : kept[k] = answers[k]
  BY DEF Within, Kept
<1>3. new.status = "pending" /\ new.click = d.key /\ IsAnswer(new)
  BY DEF IsAnswer
<1> HIDE DEF new, kept
<1>4. CASE Asks(d)
  <2>1. /\ DOMAIN answers' = DOMAIN kept \cup {Key(d)} /\ answers'[Key(d)] = new
        /\ \A k \in DOMAIN kept \ {Key(d)} : answers'[k] = answers[k]
    BY <1>1, <1>2, <1>4 DEF With
  <2>2. d # click /\ d.asked # {} /\ told' = d.key
    BY <1>4, AsksOnce DEF Asks, Rendered, PopupHolds
  <2>3. /\ d \in Click(clicks') /\ clicks' \in Nat
        /\ DOMAIN retried' = {} /\ retries' \subseteq retries /\ d.key \notin 1..clicks
    BY <2>2, TurnIs DEF Running
  <2>4. d.key \in Nat /\ Key(d)[1] \subseteq Warehouse
    BY <2>3, KeyIs DEF Click
  <2>5. \A r \in retries' : r.click # d.key
    BY <2>3 DEF PopupHolds, RetriesHold
  <2>6. Listens(Key(d))'
    BY <1>3, <2>1, <2>2, <2>3, <2>4, <2>5 DEF Listens, Key
  <2>7. Key(d) \in DOMAIN answers' /\ Key(d) = Key(click)'
    BY <2>1 DEF Key
  <2>8. \A k \in DOMAIN answers' \ {Key(d)} :
           k \in DOMAIN answers /\ answers'[k] = answers[k] /\ answers[k].status # "pending"
    BY <1>2, <2>1
  <2> QED BY <1>3, <2>1, <2>4, <2>6, <2>7, <2>8 DEF PopupHolds, AnswersHold
<1>5. CASE ~Asks(d)
  <2>1. answers' = kept /\ told' = told
    BY <1>1, <1>5 DEF Rendered
  <2>2. d.asked # {} => Key(d) \in DOMAIN answers'
    BY <1>2, <1>5, <2>1 DEF Asks
  <2>3. ASSUME NEW k \in DOMAIN answers', answers'[k].status = "pending" PROVE Listens(k)'
    <3>1. k = Key(d) /\ k \in DOMAIN answers /\ answers'[k] = answers[k] /\ Listens(k)
      BY <1>2, <2>1, <2>3 DEF PopupHolds, AnswersHold
    <3>2. DOMAIN retried' = {} /\ retries' \subseteq retries
      BY <3>1, TurnIs DEF Listens, Running
    <3>3. \A r \in retries' : r.click # d.key
      BY <3>1, <3>2, TurnIs DEF Listens, PopupHolds, RetriesHold
    <3> QED BY <2>1, <3>1, <3>2, <3>3 DEF Listens, Key
  <2>4. \A k \in DOMAIN answers' : k \in DOMAIN answers /\ answers'[k] = answers[k]
    BY <1>2, <2>1
  <2>5. Key(d) = Key(click)'
    BY DEF Key
  <2> QED BY <2>2, <2>3, <2>4, <2>5 DEF PopupHolds, AnswersHold
<1> QED BY <1>4, <1>5

LEMMA NothingOver == \A D, S : Over(<<>>, D, S) /\ DOMAIN <<>> = {}
<1>1. DOMAIN <<>> = {}
  OBVIOUS
<1>2. <<>> = [x \in {} |-> {}]
  BY <1>1
<1> QED BY <1>1, <1>2 DEF Over

LEMMA RetriesRender ==
  ASSUME CountsHold, ClickHolds, PopupHolds, Rendered
  PROVE  RetriesHold' /\ RetriesDieWithTheirClick'
<1>1. CASE click' = click
  <2>1. UNCHANGED <<retried, retrying, retries, told, click>>
    BY <1>1, TurnIs, AsksOnce DEF Rendered, PopupHolds
  <2>2. \A r \in retries :
          r \in [layer : Warehouse, click : 1..clicks', step : {"sent", "in"}, got : Statuses]
    BY TurnIs DEF PopupHolds, RetriesHold, CountsHold
  <2>3. RetriesHold'
    BY <2>1, <2>2 DEF PopupHolds, RetriesHold, Over
  <2> QED BY <2>1, <2>3 DEF PopupHolds, RetriesDieWithTheirClick
<1>2. CASE click' # click
  <2>1. /\ retried' = <<>> /\ retrying' = {} /\ retries' = Running
        /\ click'.key \notin 1..clicks /\ clicks' \in Nat /\ clicks <= clicks'
    BY <1>2, TurnIs
  <2>2. \A r \in retries' :
          /\ r \in [layer : Warehouse, click : 1..clicks', step : {"sent", "in"}, got : Statuses]
          /\ r.click \in 1..clicks /\ r.step = "in" /\ r.got # "abandoned"
    BY <2>1 DEF PopupHolds, RetriesHold, Running, CountsHold
  <2>3. RetriesHold'
    BY <2>1, <2>2, NothingOver DEF RetriesHold
  <2> QED BY <2>1, <2>3, NothingOver DEF RetriesDieWithTheirClick
<1> QED BY <1>1, <1>2

LEMMA RecordsRender ==
  ASSUME ShownHolds, Rendered
  PROVE  records' \in [Hosted -> {"none", "pending", "success", "error"}]
<1>1. \A h \in Hosted : records[h] \in {"none", "pending", "success", "error"}
  BY DEF ShownHolds
<1> QED BY <1>1 DEF Rendered, Records

LEMMA FramingRenders ==
  ASSUME FramingHolds, Rendered
  PROVE  FramingHolds'
<1>1. CASE Target(select') = Target(select)
  BY <1>1 DEF FramingHolds, Rendered, Target
<1>2. CASE Target(select') # Target(select)
  <2>1. framing' = Frames(select')
    BY <1>2 DEF Rendered
  <2>2. framing' \subseteq {Target(select')} \ {NoTarget}
    BY <2>1 DEF Frames
  <2> QED BY <2>2 DEF FramingHolds, Target
<1> QED BY <1>1, <1>2

(* What a render leaves of the invariant *)
PageHolds ==
  /\ FramingHolds /\ ClickHolds /\ PopupHolds
  /\ chosen \in {NoOption} \cup (All \X {"error", "feature"})
  /\ records \in [Hosted -> {"none", "pending", "success", "error"}]

LEMMA RenderHolds ==
  ASSUME FramingHolds, CountsHold, ClickHolds, ShownHolds, PopupHolds, Rendered,
         on' \subseteq All
  PROVE  PageHolds'
<1>1. told' \in 0..clicks'
  BY TurnIs DEF Rendered, ClickHolds, CountsHold, Click
<1>2. ClickHolds'
  BY <1>1, TurnIs DEF ClickHolds, Rendered
<1>3. chosen' \in {NoOption} \cup (All \X {"error", "feature"})
  BY TurnIs DEF ShownHolds
<1> QED BY <1>2, <1>3, AnswersRender, RetriesRender, RecordsRender, FramingRenders
        DEF PageHolds, PopupHolds

-----------------------------------------------------------------------------
(* The steps that render *)

LEMMA AllFinite == \A S \in SUBSET All : Cardinality(S) \in Nat
<1>1. Order \in Surjection(1..Len(Order), All)
  BY ClickAssumption DEF Surjection, ToSet
<1>2. Len(Order) \in Nat
  BY ClickAssumption
<1>3. IsFiniteSet(1..Len(Order))
  BY <1>2, FS_Interval
<1>4. IsFiniteSet(All)
  BY <1>1, <1>3, FS_Surjection
<1> QED BY <1>4, FS_Subset, FS_CardinalityType

Lines == [points : 0..MaxPoints, finished : BOOLEAN]

LEMMA QuietTyped ==
  /\ Quiet \in [camera : Targets, card : Areas \cup {NoArea}]
  /\ INITIAL_MEASURE \in Lines
<1>1. Quiet \in [camera : Targets, card : Areas \cup {NoArea}]
  BY DEF Quiet, Targets
<1>2. MaxPoints \in Nat
  BY ClickAssumption
<1>3. INITIAL_MEASURE \in Lines
  BY <1>2 DEF INITIAL_MEASURE, Lines
<1> QED BY <1>1, <1>3

LEMMA RenderStep ==
  ASSUME ClickInv, Rendered, on' \subseteq All, Good(select'), Waits(select', searches'),
         SearchesHold', CountsHold', measure' \in Lines,
         outcome' \in [camera : Targets, card : Areas \cup {NoArea}]
  PROVE  ClickInv'
<1>1. PageHolds'
  BY RenderHolds DEF ClickInv
<1>2. SelectHolds'
  BY DEF SelectHolds, Good, SelectTyped, SelectFits, Waits
<1> QED BY <1>1, <1>2 DEF ClickInv, PageHolds, ShownHolds, Lines

(* A state of Select area that a step may leave when no search ends or begins *)
Follows(s) == /\ Good(s)
              /\ \/ s.queryId = 0
                 \/ s.queryId = select.queryId /\ s.selected = select.selected

LEMMA StillRenders ==
  ASSUME ClickInv, UNCHANGED <<clicks, queries, searches, faults>>, outcome' = Quiet,
         toggles' \in Nat, clicks + queries + toggles' <= MaxActs,
         NEW c \in {NoClick, click}, NEW s, Follows(s), NEW m \in Lines,
         NEW vis \in SUBSET All, Render(c, s, m, vis)
  PROVE  ClickInv'
<1>1. Rendered /\ select' = s /\ measure' = m /\ on' = vis
  BY RenderHere DEF ClickInv
<1>2. Waits(select', searches')
  BY <1>1 DEF Waits, Follows, ClickInv, SelectHolds
<1>3. SearchesHold' /\ CountsHold'
  BY DEF ClickInv, SearchesHold, CountsHold
<1> QED BY <1>1, <1>2, <1>3, QuietTyped, RenderStep DEF Follows

LEMMA InvIs ==
  ASSUME ClickInv
  PROVE  /\ Follows(select) /\ measure \in Lines /\ on \subseteq All
         /\ {clicks, queries, toggles, faults} \subseteq Nat
         /\ clicks + queries + toggles <= MaxActs
BY DEF ClickInv, SelectHolds, Follows, ShownHolds, Lines, ClickHolds, CountsHold

LEMMA ReduceHolds ==
  ASSUME ClickInv, outcome' = Quiet, NEW s, Follows(s), Reduce(s)
  PROVE  ClickInv'
<1>1. /\ Render(click, s, measure, on)
      /\ UNCHANGED <<clicks, queries, searches, toggles, faults>>
  BY DEF Reduce, Still
<1> QED BY <1>1, InvIs, StillRenders

LEMMA RemeasureHolds ==
  ASSUME ClickInv, outcome' = Quiet, NEW m \in Lines, Remeasure(m)
  PROVE  ClickInv'
<1>1. /\ Render(click, select, m, on)
      /\ UNCHANGED <<clicks, queries, searches, toggles, faults>>
  BY DEF Remeasure, Still
<1> QED BY <1>1, InvIs, StillRenders

LEMMA CloseHolds ==
  ASSUME ClickInv, outcome' = Quiet, ClosePopup
  PROVE  ClickInv'
<1>1. /\ Render(NoClick, select, measure, on)
      /\ UNCHANGED <<clicks, queries, searches, toggles, faults>>
  BY DEF ClosePopup, Still
<1> QED BY <1>1, InvIs, StillRenders

LEMMA ToggleHolds ==
  ASSUME ClickInv, outcome' = Quiet, NEW l \in Switched, ToggleLayer(l)
  PROVE  ClickInv'
<1> DEFINE vis == IF l \in on THEN on \ {l} ELSE on \cup {l}
<1>1. /\ Render(click, select, measure, vis)
      /\ UNCHANGED <<clicks, queries, searches, faults>>
      /\ toggles' = toggles + 1 /\ MayAct
  BY DEF ToggleLayer
<1>2. vis \in SUBSET All
  BY InvIs, ClickAssumption
<1>3. toggles' \in Nat /\ clicks + queries + toggles' <= MaxActs
  BY <1>1, InvIs, ClickAssumption DEF MayAct
<1> HIDE DEF vis
<1> QED BY <1>1, <1>2, <1>3, InvIs, StillRenders

LEMMA SwitchHolds ==
  ASSUME ClickInv, outcome' = Quiet, NEW t \in {"select", "measure"}, SwitchTo(t)
  PROVE  ClickInv'
<1>1. /\ Render(click, ToggleTool(select, t), INITIAL_MEASURE, on)
      /\ UNCHANGED <<clicks, queries, searches, toggles, faults>>
  BY DEF SwitchTo, Still
<1>2. Follows(ToggleTool(select, t))
  BY InvIs, ToggleToolGood DEF Follows
<1> QED BY <1>1, <1>2, InvIs, QuietTyped, StillRenders

LEMMA MeasureHolds ==
  ASSUME ClickInv, outcome' = Quiet, UndoPoint \/ Done \/ ClearMeasure
  PROVE  ClickInv'
<1>1. CASE UndoPoint
  <2> DEFINE m == [measure EXCEPT !.points = @ - 1]
  <2>1. m \in Lines /\ Remeasure(m)
    BY <1>1, InvIs, ClickAssumption DEF UndoPoint, Lines
  <2> HIDE DEF m
  <2> QED BY <2>1, RemeasureHolds
<1>2. CASE Done
  <2> DEFINE m == [measure EXCEPT !.finished = TRUE]
  <2>1. m \in Lines /\ Remeasure(m)
    BY <1>2, InvIs DEF Done, Lines
  <2> HIDE DEF m
  <2> QED BY <2>1, RemeasureHolds
<1>3. CASE ClearMeasure
  BY <1>3, QuietTyped, RemeasureHolds DEF ClearMeasure
<1> QED BY <1>1, <1>2, <1>3

LEMMA SelectedListHolds ==
  ASSUME ClickInv, outcome' = Quiet, SelectedList
  PROVE  ClickInv'
<1>1. Good(select) /\ select.selected \subseteq Areas
  BY InvIs DEF Follows, Good, SelectTyped
<1>2. ASSUME NEW a \in select.selected, Reduce(RemoveArea(select, a))
      PROVE  ClickInv'
  <2>1. Follows(RemoveArea(select, a))
    BY <1>1, RemoveAreaGood DEF Follows
  <2> QED BY <1>2, <2>1, ReduceHolds
<1>3. ASSUME NEW a \in select.selected, Reduce(Focus(select, <<a>>))
      PROVE  ClickInv'
  <2>1. Follows(Focus(select, <<a>>))
    BY <1>1, FocusGood DEF Follows
  <2> QED BY <1>3, <2>1, ReduceHolds
<1>4. CASE Reduce([INITIAL_STATE EXCEPT !.tool = select.tool])
  <2>1. Follows([INITIAL_STATE EXCEPT !.tool = select.tool])
    <3>1. Good([INITIAL_STATE EXCEPT !.tool = select.tool])
      BY <1>1, InitialGood DEF Good, SelectTyped
    <3>2. [INITIAL_STATE EXCEPT !.tool = select.tool].queryId = 0
      BY DEF INITIAL_STATE
    <3> QED BY <3>1, <3>2 DEF Follows
  <2> QED BY <1>4, <2>1, ReduceHolds
<1> QED BY <1>2, <1>3, <1>4 DEF SelectedList

LEMMA ResultListHolds ==
  ASSUME ClickInv, outcome' = Quiet, ResultList
  PROVE  ClickInv'
<1>1. Good(select)
  BY InvIs DEF Follows
<1>2. ASSUME NEW t \in select.results.rows, ResultRow(t)
      PROVE  ClickInv'
  <2>1. Follows(Focus(select, t))
    BY <1>1, FocusGood DEF Follows
  <2>2. Follows(RemoveResult(select, t))
    BY <1>1, RemoveResultGood DEF Follows
  <2>3. Follows([select EXCEPT !.info = t])
    BY <1>1, InfoGood DEF Follows
  <2> QED BY <1>2, <2>1, <2>2, <2>3, ReduceHolds DEF ResultRow
<1>3. ASSUME NEW l, Group(l)
      PROVE  ClickInv'
  <2>1. Follows(ClearGroup(select, l))
    BY <1>1, ClearGroupGood DEF Follows
  <2> QED BY <1>3, <2>1, ReduceHolds DEF Group
<1>4. CASE HideInfo
  <2>1. Follows([select EXCEPT !.info = NoTarget])
    BY <1>1, InfoGood DEF Follows
  <2> QED BY <1>4, <2>1, ReduceHolds DEF HideInfo
<1> QED BY <1>2, <1>3, <1>4 DEF ResultList

(* Searches *)

LEMMA WhatsHereHolds ==
  ASSUME ClickInv, outcome' = Quiet, WhatsHere
  PROVE  ClickInv'
<1> PICK id : id = queries + 1
  OBVIOUS
<1>1. /\ queries' = id /\ select.tool = "select" /\ select.queryId = 0
      /\ UNCHANGED <<clicks, toggles, faults>> /\ clicks + queries + toggles < MaxActs
  BY DEF WhatsHere, SearchOffered, MayAct
<1>2. /\ Good(select) /\ id \in Nat /\ id # 0 /\ queries \in Nat /\ select.selected \subseteq Areas
  BY InvIs DEF Follows, Good, SelectTyped
<1>3. CountsHold' /\ UNCHANGED clicks
  BY <1>1, InvIs, ClickAssumption DEF CountsHold, ClickInv
<1>4. /\ Good(StartQuery(select, id))
      /\ StartQuery(select, id).selected = select.selected
      /\ StartQuery(select, id).queryId = id
  BY <1>1, <1>2, StartQueryGood
<1>5. CASE Searched = {}
  <2> DEFINE s == FailQuery(StartQuery(select, id), id)
  <2>1. Render(click, s, measure, on) /\ UNCHANGED searches
    BY <1>5 DEF WhatsHere
  <2>2. Good(s) /\ s.queryId = 0
    BY <1>4, FailQueryGood
  <2> HIDE DEF s
  <2>3. Rendered /\ select' = s /\ measure' = measure /\ on' = on
    BY <1>3, <2>1, RenderHere DEF ClickInv
  <2>4. SearchesHold'
    BY <1>1, <1>2, <2>1 DEF SearchesHold, ClickInv
  <2>5. Waits(select', searches')
    BY <2>2, <2>3 DEF Waits
  <2> QED BY <1>3, <2>2, <2>3, <2>4, <2>5, InvIs, QuietTyped, RenderStep
<1>6. CASE Searched # {}
  <2> DEFINE s == StartQuery(select, id)
             run == [of |-> select.selected, layers |-> Searched]
  <2>1. Render(click, s, measure, on) /\ searches' = With(searches, id, run)
    BY <1>6 DEF WhatsHere
  <2>2. run.of = select.selected /\ run.layers \subseteq All
    BY InvIs DEF Searched
  <2> HIDE DEF s, run
  <2>3. Rendered /\ select' = s /\ measure' = measure /\ on' = on
    BY <1>3, <2>1, RenderHere DEF ClickInv
  <2>4. /\ DOMAIN searches' = DOMAIN searches \cup {id} /\ searches'[id] = run
        /\ \A i \in DOMAIN searches \ {id} : searches'[i] = searches[i]
    BY <2>1 DEF With
  <2>5. SearchesHold'
    <3>1. DOMAIN searches' \subseteq 1..queries'
      BY <1>1, <1>2, <2>4 DEF SearchesHold, ClickInv
    <3> QED BY <1>2, <2>2, <2>4, <3>1 DEF SearchesHold, ClickInv
  <2>6. Waits(select', searches')
    BY <1>4, <2>2, <2>3, <2>4 DEF Waits, s
  <2>7. Good(s)
    BY <1>4 DEF s
  <2> QED BY <1>3, <2>3, <2>5, <2>6, <2>7, InvIs, QuietTyped, RenderStep
<1> QED BY <1>5, <1>6

(* A search that is over leaves the others, and the one waited for. *)
LEMMA OverHolds ==
  ASSUME ClickInv, NEW id, Over1(id), UNCHANGED queries
  PROVE  /\ SearchesHold'
         /\ DOMAIN searches' = DOMAIN searches \ {id}
         /\ \A i \in DOMAIN searches' : searches'[i] = searches[i]
<1>1. /\ DOMAIN searches' = DOMAIN searches \ {id}
      /\ \A i \in DOMAIN searches' : searches'[i] = searches[i]
  BY DEF Over1, Within
<1> QED BY <1>1 DEF SearchesHold, ClickInv

LEMMA SearchEndHolds ==
  ASSUME ClickInv, outcome' = Quiet, NEW id \in DOMAIN searches, Over1(id),
         UNCHANGED <<clicks, queries, toggles>>, faults' \in Nat, faults' <= MaxFaults,
         NEW s, Good(s), s.selected = select.selected,
         (s = select /\ select.queryId # id) \/ s.queryId = 0,
         Render(click, s, measure, on)
  PROVE  ClickInv'
<1>1. Rendered /\ select' = s /\ measure' = measure /\ on' = on
  BY RenderHere DEF ClickInv
<1>2. CountsHold'
  BY DEF CountsHold, ClickInv
<1>3. Waits(select', searches')
  BY <1>1, OverHolds DEF Waits, ClickInv, SelectHolds
<1> QED BY <1>1, <1>2, <1>3, OverHolds, InvIs, QuietTyped, RenderStep

LEMMA SearchAnsweredHolds ==
  ASSUME ClickInv, outcome' = Quiet, NEW id \in DOMAIN searches,
         NEW rows \in SUBSET (searches[id].layers \X Keys),
         NEW failed \in SUBSET searches[id].layers, SearchAnswered(id, rows, failed)
  PROVE  ClickInv'
<1> DEFINE r == [run |-> TRUE, of |-> searches[id].of, rows |-> rows, failed |-> failed]
           s == FinishQuery(select, id, r)
<1>1. /\ Over1(id) /\ Render(click, s, measure, on) /\ UNCHANGED <<clicks, queries, toggles>>
      /\ faults' = faults + Cardinality(failed) /\ faults + Cardinality(failed) <= MaxFaults
  BY DEF SearchAnswered
<1>2. /\ searches[id].of \subseteq Areas /\ searches[id].layers \subseteq All
      /\ id \in 1..queries /\ queries \in Nat
  BY DEF ClickInv, SearchesHold, CountsHold
<1>3. /\ r \in [run : {TRUE}, of : SUBSET Areas, rows : SUBSET Results, failed : SUBSET All]
      /\ r.of = searches[id].of /\ id # 0
  <2>1. rows \subseteq Results /\ failed \subseteq All
    BY <1>2 DEF Results
  <2> QED BY <1>2, <2>1
<1>4. faults' \in Nat /\ faults' <= MaxFaults
  BY <1>1, <1>2, InvIs, AllFinite
<1> HIDE DEF r
<1>5. select.queryId = id => r.of = select.selected
  BY <1>3 DEF ClickInv, SelectHolds, Waits
<1>6. Good(s) /\ s.selected = select.selected /\ ((s = select /\ select.queryId # id) \/ s.queryId = 0)
  BY <1>3, <1>5, InvIs, FinishQueryGood DEF Follows
<1> HIDE DEF s
<1> QED BY <1>1, <1>4, <1>6, SearchEndHolds

LEMMA SearchFailsHolds ==
  ASSUME ClickInv, outcome' = Quiet, NEW id \in DOMAIN searches, SearchFails(id)
  PROVE  ClickInv'
<1> DEFINE s == FailQuery(select, id)
<1>1. /\ Over1(id) /\ Render(click, s, measure, on) /\ UNCHANGED <<clicks, queries, toggles>>
      /\ faults' = faults + 1 /\ faults < MaxFaults
  BY DEF SearchFails
<1>2. faults' \in Nat /\ faults' <= MaxFaults
  BY <1>1, InvIs, ClickAssumption
<1>3. Good(s) /\ s.selected = select.selected /\ ((s = select /\ select.queryId # id) \/ s.queryId = 0)
  BY InvIs, FailQueryGood DEF Follows
<1> HIDE DEF s
<1> QED BY <1>1, <1>2, <1>3, SearchEndHolds

(* A click of the map *)

LEMMA IdentifiedIs ==
  ASSUME ClickInv, NEW box \in Boxes, NEW dot,
         NEW hits \in SUBSET (on \cap (Hosted \cup Imported))
  PROVE  LET c == Identified(box, dot, hits)
         IN  \/ c \in {NoClick, click} /\ ~(c.key > clicks)
             \/ c \in Click(clicks + 1) /\ c.key = clicks + 1
<1>1. ~(NoClick.key > clicks) /\ ~(click.key > clicks) /\ clicks \in Nat
  BY InvIs DEF NoClick, ClickInv, ClickHolds, Click
<1>2. [key |-> clicks + 1, box |-> box, asked |-> Warehouse \cap on, hits |-> hits]
        \in Click(clicks + 1)
  BY <1>1 DEF Click
<1> QED BY <1>1, <1>2 DEF Identified

LEMMA ClickMapRendered ==
  ASSUME ClickInv, NEW box \in Boxes, NEW dot, NEW area,
         NEW hits \in SUBSET (on \cap (Hosted \cup Imported)),
         ClickMap(box, dot, area, hits)
  PROVE  /\ Rendered /\ select' = Chosen(dot, area) /\ measure' = Measured /\ on' = on
         /\ CountsHold'
<1> PICK c : c = Identified(box, dot, hits)
  OBVIOUS
<1>1. /\ c.key > clicks => MayAct
      /\ clicks' = IF c.key > clicks THEN c.key ELSE clicks
      /\ Render(c, Chosen(dot, area), Measured, on)
      /\ UNCHANGED <<queries, searches, toggles, faults>>
  BY DEF ClickMap
<1>2. /\ click' = IF OwnsClicks(select', measure') \/ Shown(c, on') = {} THEN NoClick ELSE c
      /\ select' = Chosen(dot, area) /\ measure' = Measured /\ on' = on
      /\ answers' = Observe(click') /\ told' = IF Asks(click') THEN click'.key ELSE told
      /\ records' = Records(click', on', select')
      /\ framing' = IF Target(select') = Target(select) THEN framing ELSE Frames(select')
      /\ Turn(click')
  BY <1>1 DEF Render
<1>3. clicks \in Nat
  BY InvIs
<1>4. \A n \in Nat : NoClick \in Click(n)
  BY DEF NoClick, Click
<1>5. \/ c \in {NoClick, click} /\ clicks' = clicks
      \/ c \in Click(clicks') /\ c.key = clicks' /\ clicks' = clicks + 1 /\ MayAct
  BY <1>1, <1>3, IdentifiedIs
<1>6. Rendered
  BY <1>2, <1>3, <1>4, <1>5 DEF Rendered
<1>7. CountsHold'
  BY <1>1, <1>5, InvIs, ClickAssumption DEF CountsHold, ClickInv, MayAct
<1> QED BY <1>2, <1>6, <1>7

LEMMA ClickMapHolds ==
  ASSUME ClickInv, NEW box \in Boxes, NEW dot \in Areas \cup {NoArea},
         NEW area \in Areas \cup {NoArea},
         NEW hits \in SUBSET (on \cap (Hosted \cup Imported)),
         ClickMap(box, dot, area, hits)
  PROVE  ClickInv'
<1>1. /\ Rendered /\ select' = Chosen(dot, area) /\ measure' = Measured /\ on' = on
      /\ CountsHold'
  BY ClickMapRendered
<1>2. /\ Measured.points <= MaxPoints /\ UNCHANGED <<queries, searches>>
      /\ outcome' = [Quiet EXCEPT !.card = Opened(dot, area)]
  BY DEF ClickMap
<1>3. Good(select') /\ (select' = select \/ select'.queryId = 0)
  <2>1. CASE select.tool = "select" /\ dot = NoArea /\ area # NoArea
    <3>1. select' = AddArea(select, area) /\ area \in Areas
      BY <1>1, <2>1 DEF Chosen
    <3> QED BY <3>1, InvIs, AddAreaGood DEF Follows
  <2>2. CASE ~(select.tool = "select" /\ dot = NoArea /\ area # NoArea)
    BY <1>1, <2>2, InvIs DEF Chosen, Follows
  <2> QED BY <2>1, <2>2
<1>4. Waits(select', searches')
  BY <1>2, <1>3 DEF Waits, ClickInv, SelectHolds
<1>5. measure' \in Lines
  <2>1. measure \in Lines /\ MaxPoints \in Nat
    BY InvIs, ClickAssumption
  <2>2. CASE Placing(select, measure)
    <3>1. Measured = [measure EXCEPT !.points = @ + 1] /\ Measured.points = measure.points + 1
      BY <2>1, <2>2 DEF Measured, Lines
    <3> QED BY <1>1, <1>2, <2>1, <3>1 DEF Lines
  <2>3. CASE ~Placing(select, measure)
    BY <1>1, <2>1, <2>3 DEF Measured
  <2> QED BY <2>2, <2>3
<1>6. outcome' \in [camera : Targets, card : Areas \cup {NoArea}]
  BY <1>2, QuietTyped DEF Opened
<1>7. SearchesHold'
  BY <1>2 DEF SearchesHold, ClickInv
<1> QED BY <1>1, <1>3, <1>4, <1>5, <1>6, <1>7, InvIs, RenderStep

-----------------------------------------------------------------------------
(* The steps of the popup that leave the page as it is *)

LEMMA PopupStep ==
  ASSUME ClickInv, PopupHolds', framing' \subseteq framing,
         UNCHANGED <<on, click, clicks, select, measure, queries, searches, toggles>>,
         told' \in 0..clicks, faults' \in Nat, faults' <= MaxFaults,
         chosen' \in {NoOption} \cup (All \X {"error", "feature"}),
         records' \in [Hosted -> {"none", "pending", "success", "error"}],
         outcome' \in [camera : Targets, card : Areas \cup {NoArea}]
  PROVE  ClickInv'
<1>1. SelectHolds'
  BY DEF ClickInv, SelectHolds, Good, SelectTyped, SelectFits, Waits
<1>2. SearchesHold'
  BY DEF ClickInv, SearchesHold
<1>3. FramingHolds'
  BY DEF ClickInv, FramingHolds, Target
<1>4. CountsHold'
  BY DEF ClickInv, CountsHold
<1>5. ClickHolds'
  BY DEF ClickInv, ClickHolds, OwnsClicks, Placing
<1>6. ShownHolds'
  BY DEF ClickInv, ShownHolds
<1> QED BY <1>1, <1>2, <1>3, <1>4, <1>5, <1>6 DEF ClickInv

LEMMA PopupIs ==
  ASSUME ClickInv
  PROVE  /\ PopupHolds /\ told \in 0..clicks /\ faults \in Nat /\ faults <= MaxFaults
         /\ chosen \in {NoOption} \cup (All \X {"error", "feature"})
         /\ records \in [Hosted -> {"none", "pending", "success", "error"}]
         /\ click \in Click(clicks) /\ (click.key = 0 => click = NoClick)
         /\ clicks \in Nat /\ clicks <= MaxActs /\ on \subseteq All
         /\ MaxActs \in Nat /\ MaxFaults \in Nat
BY ClickAssumption DEF ClickInv, CountsHold, ClickHolds, ShownHolds

LEMMA PopupSame ==
  ASSUME PopupHolds, UNCHANGED <<click, clicks, answers, told, retried, retrying, retries>>
  PROVE  PopupHolds'
BY DEF PopupHolds, AnswersHold, Listens, RetriesHold, RetriesDieWithTheirClick, Key, Over

LEMMA ChooseHolds ==
  ASSUME ClickInv, outcome' = Quiet, NEW o \in Options, Choose(o)
  PROVE  ClickInv'
<1>1. o \in All \X {"error", "feature"}
  BY PopupIs DEF Options, Option, Rows, Shown
<1>2. UNCHANGED <<on, popup, clicks, records, tools, toggles, faults>> \/ chosen' = o
  BY DEF Choose
<1>3. /\ UNCHANGED <<on, click, clicks, select, measure, queries, searches, toggles, told, faults,
                     records, framing>>
      /\ UNCHANGED <<answers, retried, retrying, retries>> /\ chosen' = o
  BY DEF Choose, tools
<1> QED BY <1>1, <1>3, PopupIs, PopupSame, PopupStep, QuietTyped

(* A layer that can be retried has been answered for the click. *)
LEMMA RetriedIs ==
  ASSUME ClickInv, NEW l \in Rows, RetryLayer(l)
  PROVE  /\ l \in click.asked /\ click.key \in 1..clicks
         /\ \A k \in DOMAIN answers : answers[k].status # "pending"
<1>1. /\ l \in (click.asked \cup click.hits) /\ Failed(StatusOf(l))
  BY DEF Rows, Shown, RetryLayer
<1>2. l \in Warehouse /\ Failed(Answer(l))
  BY <1>1 DEF StatusOf, Failed
<1>3. l \in click.asked
  BY <1>1, <1>2, PopupIs, ClickAssumption DEF Click
<1>4. click.key \in 1..clicks
  BY <1>3, PopupIs DEF NoClick, Click
<1>5. ASSUME NEW k \in DOMAIN answers, answers[k].status = "pending" PROVE FALSE
  <2>1. k = Key(click) /\ DOMAIN retried = {}
    BY <1>5, PopupIs DEF PopupHolds, AnswersHold, Listens
  <2>2. Answer(l) = "pending"
    BY <1>5, <2>1 DEF Answer
  <2> QED BY <1>2, <2>2 DEF Failed
<1> QED BY <1>3, <1>4, <1>5

LEMMA RetryLayerHolds ==
  ASSUME ClickInv, outcome' = Quiet, NEW l \in Rows, RetryLayer(l)
  PROVE  ClickInv'
<1> DEFINE new == [layer |-> l, click |-> click.key, step |-> "sent", got |-> "empty"]
<1>1. /\ told' = click.key /\ retrying' = retrying \cup {l} /\ retries' = retries \cup {new}
      /\ UNCHANGED <<on, click, chosen, answers, retried, clicks, records, toggles, faults>>
      /\ UNCHANGED <<select, measure, queries, searches, framing>>
  BY DEF RetryLayer, tools
<1>2. /\ l \in click.asked /\ click.key \in 1..clicks
      /\ \A k \in DOMAIN answers : answers[k].status # "pending"
  BY RetriedIs
<1>3. new \in [layer : Warehouse, click : 1..clicks, step : {"sent", "in"}, got : Statuses]
  BY <1>2, PopupIs DEF Click, Statuses
<1>4. /\ new.layer = l /\ new.click = click.key /\ new.step = "sent"
  OBVIOUS
<1> HIDE DEF new
<1>5. AnswersHold'
  BY <1>1, <1>2, PopupIs DEF PopupHolds, AnswersHold, Key
<1>6. RetriesHold'
  <2>1. Over(retried', click'.asked, [status : Statuses \ {"abandoned"}, click : 1..MaxActs])
    BY <1>1, PopupIs DEF PopupHolds, RetriesHold
  <2>2. told' <= click.key
    BY <1>1, <1>2
  <2>3. ASSUME NEW r \in retries'
        PROVE  /\ r \in [layer : Warehouse, click : 1..clicks', step : {"sent", "in"}, got : Statuses]
               /\ r.step = "sent" => r.click = click'.key /\ told' <= r.click
               /\ r.step = "in" => r.got # "abandoned"
               /\ r.click = click'.key => r.layer \in click'.asked
    <3>1. CASE r = new
      BY <1>1, <1>2, <1>3, <1>4, <2>2, <3>1
    <3>2. CASE r \in retries
      BY <1>1, <2>2, <3>2, PopupIs DEF PopupHolds, RetriesHold
    <3> QED BY <1>1, <3>1, <3>2
  <2>4. retrying' \subseteq click'.asked
    BY <1>1, <1>2, PopupIs DEF PopupHolds, RetriesHold
  <2> QED BY <2>1, <2>3, <2>4 DEF RetriesHold
<1>7. RetriesDieWithTheirClick'
  BY <1>1, <1>4, PopupIs DEF PopupHolds, RetriesDieWithTheirClick
<1>8. told' \in 0..clicks
  BY <1>1, <1>2
<1> QED BY <1>1, <1>5, <1>6, <1>7, <1>8, PopupIs, PopupStep, QuietTyped DEF PopupHolds

LEMMA RetryRecordsHolds ==
  ASSUME ClickInv, outcome' = Quiet, NEW h \in Hosted, RetryRecords(h)
  PROVE  ClickInv'
<1>1. /\ records' = [records EXCEPT ![h] = "pending"]
      /\ UNCHANGED <<on, clicks, toggles, faults>>
      /\ UNCHANGED <<click, chosen, answers, told, retried, retrying, retries>>
      /\ UNCHANGED <<select, measure, queries, searches, framing>>
  BY DEF RetryRecords, popup, tools
<1> QED BY <1>1, PopupIs, PopupSame, PopupStep, QuietTyped

LEMMA RecordsAnsweredHolds ==
  ASSUME ClickInv, outcome' = Quiet, NEW h \in Hosted, RecordsAnswered(h)
  PROVE  ClickInv'
<1>1. /\ \/ records' = [records EXCEPT ![h] = "success"] /\ UNCHANGED faults
         \/ /\ faults < MaxFaults /\ faults' = faults + 1
            /\ records' = [records EXCEPT ![h] = "error"]
      /\ UNCHANGED <<on, clicks, toggles>>
      /\ UNCHANGED <<click, chosen, answers, told, retried, retrying, retries>>
      /\ UNCHANGED <<select, measure, queries, searches, framing>>
  BY DEF RecordsAnswered, popup, tools
<1>2. /\ records' \in [Hosted -> {"none", "pending", "success", "error"}]
      /\ faults' \in Nat /\ faults' <= MaxFaults
  BY <1>1, PopupIs
<1> QED BY <1>1, <1>2, PopupIs, PopupSame, PopupStep, QuietTyped

LEMMA BoundsArriveHolds ==
  ASSUME ClickInv, NEW f \in framing, BoundsArrive(f)
  PROVE  ClickInv'
<1>1. /\ framing' = framing \ {f}
      /\ outcome' = Quiet \/ outcome' = [Quiet EXCEPT !.camera = f]
      /\ UNCHANGED <<on, clicks, records, toggles, faults>>
      /\ UNCHANGED <<click, chosen, answers, told, retried, retrying, retries>>
      /\ UNCHANGED <<select, measure, queries, searches>>
  BY DEF BoundsArrive, popup
<1>2. f = Target(select) /\ Target(select) \in Targets
  BY DEF ClickInv, FramingHolds, Target, Targets, SelectHolds, Good, SelectTyped, Results
<1>3. outcome' \in [camera : Targets, card : Areas \cup {NoArea}]
  BY <1>1, <1>2, QuietTyped DEF Quiet
<1> QED BY <1>1, <1>3, PopupIs, PopupSame, PopupStep

(* Nothing but the answers kept changes when a batch ends or one is forgotten. *)
LEMMA AnswersStep ==
  ASSUME ClickInv, outcome' = Quiet, AnswersHold', faults' \in Nat, faults' <= MaxFaults,
         UNCHANGED <<on, click, chosen, told, retried, retrying, retries, clicks, records,
                     tools, toggles>>
  PROVE  ClickInv'
<1>1. RetriesHold' /\ RetriesDieWithTheirClick'
  BY PopupIs DEF PopupHolds, RetriesHold, RetriesDieWithTheirClick
<1> QED BY <1>1, PopupIs, PopupStep, QuietTyped DEF PopupHolds, tools

(* map-api drops a layer of a click it was told is replaced: never one whose *)
(* batch somebody listens to, nor one asked again for the click of the popup. *)
LEMMA NotAbandoned ==
  ASSUME NEW n \in Nat, told \in Nat, told <= n, NEW status \in Statuses, Says(n, status)
  PROVE  status \in Statuses \ {"abandoned"}
BY DEF Says, Statuses

LEMMA BatchAnsweredHolds ==
  ASSUME ClickInv, outcome' = Quiet, NEW k \in DOMAIN answers, NEW got \in [k[1] -> Statuses],
         BatchAnswered(k, got)
  PROVE  ClickInv'
<1> DEFINE b == [answers[k] EXCEPT !.status = "success", !.got = got]
<1>1. /\ answers[k].status = "pending" /\ \A l \in k[1] : Says(answers[k].click, got[l])
      /\ faults + Costs(got) <= MaxFaults /\ faults' = faults + Costs(got)
      /\ answers' = [answers EXCEPT ![k] = b]
      /\ UNCHANGED <<on, click, chosen, told, retried, retrying, retries, clicks, records,
                     tools, toggles>>
  BY DEF BatchAnswered
<1>2. /\ Listens(k) /\ answers[k].click \in Nat /\ k[1] \subseteq Warehouse /\ told \in Nat
      /\ IsAnswer(answers[k])
  BY <1>1, PopupIs DEF PopupHolds, AnswersHold
<1>3. got \in [k[1] -> Statuses \ {"abandoned"}]
  <2>1. ASSUME NEW l \in k[1] PROVE got[l] \in Statuses \ {"abandoned"}
    BY <1>1, <1>2, NotAbandoned DEF Listens
  <2> QED BY <2>1
<1>4. /\ b.status = "success" /\ b.click \in Nat /\ IsAnswer(b) /\ b.got = got
  <2>1. DOMAIN answers[k] = {"status", "click", "got"}
    BY <1>2 DEF IsAnswer
  <2>2. /\ DOMAIN b = {"status", "click", "got"} /\ b.click = answers[k].click
        /\ b.status = "success" /\ b.got = got
    BY <2>1
  <2>3. b = [f \in DOMAIN b |-> b[f]]
    OBVIOUS
  <2> HIDE DEF b
  <2>4. b = [status |-> b.status, click |-> b.click, got |-> b.got]
    BY <2>2, <2>3
  <2> QED BY <1>2, <2>2, <2>4 DEF IsAnswer
<1> HIDE DEF b
<1>5. /\ DOMAIN answers' = DOMAIN answers /\ answers'[k] = b
      /\ \A j \in DOMAIN answers \ {k} : answers'[j] = answers[j]
  BY <1>1
<1>6. AnswersHold'
  <2>1. click'.asked # {} => Key(click)' \in DOMAIN answers'
    BY <1>1, <1>5, PopupIs DEF PopupHolds, AnswersHold, Key
  <2>2. \A j \in DOMAIN answers \ {k} : answers'[j].status # "pending"
    BY <1>2, <1>5, PopupIs DEF PopupHolds, AnswersHold, Listens
  <2> QED BY <1>2, <1>3, <1>4, <1>5, <2>1, <2>2, PopupIs DEF PopupHolds, AnswersHold
<1>7. faults' \in Nat /\ faults' <= MaxFaults
  <2>1. Costs(got) \in Nat
    <3>1. {l \in DOMAIN got : got[l] = "error"} \in SUBSET All
      BY <1>2 DEF All
    <3> QED BY <3>1, AllFinite DEF Costs
  <2> QED BY <1>1, <2>1, PopupIs
<1> QED BY <1>1, <1>6, <1>7, AnswersStep

LEMMA BatchFailsHolds ==
  ASSUME ClickInv, outcome' = Quiet, NEW k \in DOMAIN answers, BatchFails(k)
  PROVE  ClickInv'
<1> DEFINE b == [answers[k] EXCEPT !.status = "error"]
<1>1. /\ answers[k].status = "pending" /\ faults < MaxFaults /\ faults' = faults + 1
      /\ answers' = [answers EXCEPT ![k] = b]
      /\ UNCHANGED <<on, click, chosen, told, retried, retrying, retries, clicks, records,
                     tools, toggles>>
  BY DEF BatchFails
<1>2. /\ Listens(k) /\ answers[k].click \in Nat /\ k[1] \subseteq Warehouse
      /\ IsAnswer(answers[k])
  BY <1>1, PopupIs DEF PopupHolds, AnswersHold
<1>3. b = [status |-> "error", click |-> answers[k].click, got |-> answers[k].got]
  BY <1>2 DEF IsAnswer
<1>4. b.status = "error" /\ b.click \in Nat /\ IsAnswer(b)
  BY <1>2, <1>3 DEF IsAnswer
<1> HIDE DEF b
<1>5. /\ DOMAIN answers' = DOMAIN answers /\ answers'[k] = b
      /\ \A j \in DOMAIN answers \ {k} : answers'[j] = answers[j]
  BY <1>1
<1>6. AnswersHold'
  <2>1. click'.asked # {} => Key(click)' \in DOMAIN answers'
    BY <1>1, <1>5, PopupIs DEF PopupHolds, AnswersHold, Key
  <2>2. \A j \in DOMAIN answers \ {k} : answers'[j].status # "pending"
    BY <1>2, <1>5, PopupIs DEF PopupHolds, AnswersHold, Listens
  <2> QED BY <1>2, <1>4, <1>5, <2>1, <2>2, PopupIs DEF PopupHolds, AnswersHold
<1>7. faults' \in Nat /\ faults' <= MaxFaults
  BY <1>1, PopupIs
<1> QED BY <1>1, <1>6, <1>7, AnswersStep

LEMMA ForgetHolds ==
  ASSUME ClickInv, outcome' = Quiet, NEW k \in DOMAIN answers, Forget(k)
  PROVE  ClickInv'
<1>1. /\ k # Key(click) /\ answers' = Within(answers, DOMAIN answers \ {k})
      /\ UNCHANGED <<on, click, chosen, told, retried, retrying, retries, clicks, records,
                     tools, toggles, faults>>
  BY DEF Forget
<1>2. /\ DOMAIN answers' = DOMAIN answers \ {k}
      /\ \A j \in DOMAIN answers' : answers'[j] = answers[j]
  BY <1>1 DEF Within
<1>3. AnswersHold'
  BY <1>1, <1>2, PopupIs DEF PopupHolds, AnswersHold, Listens, Key
<1> QED BY <1>1, <1>3, PopupIs, AnswersStep

(* Retries *)

LEMMA RetriesStep ==
  ASSUME ClickInv, outcome' = Quiet, PopupHolds', faults' \in Nat, faults' <= MaxFaults,
         UNCHANGED <<on, click, chosen, answers, told, clicks, records, tools, toggles>>
  PROVE  ClickInv'
BY PopupIs, PopupStep, QuietTyped DEF tools

(* A Retry that is asked and comes in, is the same Retry. *)
LEMMA RetryAnsweredHolds ==
  ASSUME ClickInv, outcome' = Quiet, NEW r \in retries, NEW status \in Statuses,
         RetryAnswered(r, status)
  PROVE  ClickInv'
<1> DEFINE q == [r EXCEPT !.step = "in", !.got = status]
<1>1. /\ r.step = "sent" /\ Says(r.click, status)
      /\ faults' = faults + (IF status = "error" THEN 1 ELSE 0)
      /\ retries' = (retries \ {r}) \cup {q}
      /\ UNCHANGED <<on, click, chosen, answers, told, retried, retrying, clicks, records,
                     tools, toggles>>
  BY DEF RetryAnswered
<1>2. /\ r \in [layer : Warehouse, click : 1..clicks, step : {"sent", "in"}, got : Statuses]
      /\ r.click = click.key /\ told <= r.click /\ r.layer \in click.asked
      /\ r.click \in Nat /\ told \in Nat
  BY <1>1, PopupIs DEF PopupHolds, RetriesHold
<1>3. status # "abandoned"
  BY <1>1, <1>2, NotAbandoned
<1>4. /\ q \in [layer : Warehouse, click : 1..clicks, step : {"sent", "in"}, got : Statuses]
      /\ q.click = r.click /\ q.layer = r.layer /\ q.step = "in" /\ q.got = status
  BY <1>2
<1> HIDE DEF q
<1>5. AnswersHold'
  <2>1. ASSUME NEW k \in DOMAIN answers, answers[k].status = "pending" PROVE FALSE
    BY <1>2, <2>1, PopupIs DEF PopupHolds, AnswersHold, Listens
  <2> QED BY <1>1, <2>1, PopupIs DEF PopupHolds, AnswersHold, Key
<1>6. RetriesHold'
  <2>1. ASSUME NEW x \in retries'
        PROVE  /\ x \in [layer : Warehouse, click : 1..clicks', step : {"sent", "in"}, got : Statuses]
               /\ x.step = "sent" => x.click = click'.key /\ told' <= x.click
               /\ x.step = "in" => x.got # "abandoned"
               /\ x.click = click'.key => x.layer \in click'.asked
    <3>1. CASE x = q
      BY <1>1, <1>2, <1>3, <1>4, <3>1
    <3>2. CASE x \in retries
      BY <1>1, <3>2, PopupIs DEF PopupHolds, RetriesHold
    <3> QED BY <1>1, <3>1, <3>2
  <2> QED BY <1>1, <2>1, PopupIs DEF PopupHolds, RetriesHold
<1>7. RetriesDieWithTheirClick'
  <2>1. \A x \in retries : \E y \in retries' : y.layer = x.layer /\ y.click = x.click
    BY <1>1, <1>4
  <2> QED BY <1>1, <2>1, PopupIs DEF PopupHolds, RetriesDieWithTheirClick
<1>8. faults' \in Nat /\ faults' <= MaxFaults
  BY <1>1, PopupIs DEF Says
<1> QED BY <1>1, <1>5, <1>6, <1>7, <1>8, RetriesStep DEF PopupHolds

LEMMA RetryLandsHolds ==
  ASSUME ClickInv, outcome' = Quiet, NEW r \in retries, RetryLands(r)
  PROVE  ClickInv'
<1> DEFINE told1 == [status |-> r.got, click |-> r.click]
<1>1. /\ r.step = "in" /\ retries' = retries \ {r}
      /\ UNCHANGED <<on, click, chosen, answers, told, clicks, records, tools, toggles, faults>>
  BY DEF RetryLands
<1>2. /\ r \in [layer : Warehouse, click : 1..clicks, step : {"sent", "in"}, got : Statuses]
      /\ r.got # "abandoned" /\ (r.click = click.key => r.layer \in click.asked)
  BY <1>1, PopupIs DEF PopupHolds, RetriesHold
<1>3. \A x \in retries' : x \in retries
  BY <1>1
<1>4. CASE r.click = click.key
  <2>1. retried' = With(retried, r.layer, told1) /\ retrying' = retrying \ {r.layer}
    BY <1>4 DEF RetryLands
  <2>2. /\ DOMAIN retried' = DOMAIN retried \cup {r.layer} /\ retried'[r.layer] = told1
        /\ \A l \in DOMAIN retried \ {r.layer} : retried'[l] = retried[l]
        /\ retried' = [l \in DOMAIN retried' |-> retried'[l]]
    BY <2>1 DEF With
  <2>3. /\ told1 \in [status : Statuses \ {"abandoned"}, click : 1..MaxActs]
        /\ told1.click = click.key
    BY <1>2, <1>4, PopupIs
  <2> HIDE DEF told1
  <2>4. AnswersHold'
    <3>1. ASSUME NEW k \in DOMAIN answers, answers[k].status = "pending" PROVE FALSE
      BY <1>4, <3>1, PopupIs DEF PopupHolds, AnswersHold, Listens
    <3> QED BY <1>1, <3>1, PopupIs DEF PopupHolds, AnswersHold, Key
  <2>5. Over(retried', click'.asked, [status : Statuses \ {"abandoned"}, click : 1..MaxActs])
    <3>1. ASSUME NEW l \in DOMAIN retried'
          PROVE  /\ l \in click.asked
                 /\ retried'[l] \in [status : Statuses \ {"abandoned"}, click : 1..MaxActs]
      BY <1>2, <1>4, <2>2, <2>3, PopupIs DEF PopupHolds, RetriesHold, Over
    <3> QED BY <1>1, <2>2, <3>1 DEF Over
  <2>6. RetriesHold'
    BY <1>1, <1>3, <2>1, <2>5, PopupIs DEF PopupHolds, RetriesHold
  <2>7. RetriesDieWithTheirClick'
    BY <1>1, <2>1, <2>2, <2>3, PopupIs DEF PopupHolds, RetriesDieWithTheirClick
  <2> QED BY <1>1, <2>4, <2>6, <2>7, PopupIs, RetriesStep DEF PopupHolds
<1>5. CASE r.click # click.key
  <2>1. UNCHANGED <<retried, retrying>>
    BY <1>5 DEF RetryLands
  <2>2. AnswersHold'
    BY <1>1, <1>3, <2>1, PopupIs DEF PopupHolds, AnswersHold, Listens, Key
  <2>3. RetriesHold'
    BY <1>1, <1>3, <2>1, PopupIs DEF PopupHolds, RetriesHold
  <2>4. RetriesDieWithTheirClick'
    BY <1>1, <1>5, <2>1, PopupIs DEF PopupHolds, RetriesDieWithTheirClick
  <2> QED BY <1>1, <2>2, <2>3, <2>4, PopupIs, RetriesStep DEF PopupHolds
<1> QED BY <1>4, <1>5

LEMMA RetryFailsHolds ==
  ASSUME ClickInv, outcome' = Quiet, NEW r \in retries, RetryFails(r)
  PROVE  ClickInv'
<1>1. /\ faults < MaxFaults /\ faults' = faults + 1
      /\ retries' = retries \ {r} /\ retrying' = retrying \ {r.layer}
      /\ UNCHANGED <<on, click, chosen, answers, told, retried, clicks, records, tools, toggles>>
  BY DEF RetryFails
<1>2. \A x \in retries' : x \in retries
  BY <1>1
<1>3. AnswersHold'
  BY <1>1, <1>2, PopupIs DEF PopupHolds, AnswersHold, Listens, Key
<1>4. RetriesHold'
  BY <1>1, <1>2, PopupIs DEF PopupHolds, RetriesHold
<1>5. RetriesDieWithTheirClick'
  BY <1>1, PopupIs DEF PopupHolds, RetriesDieWithTheirClick
<1>6. faults' \in Nat /\ faults' <= MaxFaults
  BY <1>1, PopupIs
<1> QED BY <1>1, <1>3, <1>4, <1>5, <1>6, RetriesStep DEF PopupHolds

-----------------------------------------------------------------------------
(* The invariant holds *)

LEMMA InitHolds ==
  ASSUME Init
  PROVE  ClickInv
<1>1. Good(select) /\ select.queryId = 0 /\ select.focused = NoTarget
  BY InitialGood DEF Init, INITIAL_STATE
<1>2. DOMAIN answers = {} /\ DOMAIN searches = {} /\ answers = <<>> /\ searches = <<>>
  BY NothingOver DEF Init
<1>3. {MaxActs, MaxFound, MaxPoints, MaxFaults} \subseteq Nat /\ On0 \subseteq All
  BY ClickAssumption
<1>4. SelectHolds /\ SearchesHold
  BY <1>1, <1>2 DEF SelectHolds, Waits, SearchesHold
<1>5. FramingHolds /\ CountsHold
  BY <1>3 DEF Init, FramingHolds, CountsHold
<1>6. ClickHolds
  BY <1>3 DEF Init, ClickHolds, NoClick, Click
<1>7. ShownHolds
  BY QuietTyped DEF Init, ShownHolds, Lines
<1>8. AnswersHold
  BY <1>2 DEF Init, AnswersHold, NoClick
<1>9. RetriesHold /\ RetriesDieWithTheirClick
  BY NothingOver DEF Init, RetriesHold, RetriesDieWithTheirClick
<1> QED BY <1>4, <1>5, <1>6, <1>7, <1>8, <1>9 DEF ClickInv, PopupHolds

LEMMA ActsHold ==
  ASSUME ClickInv, UserActs, outcome' = Quiet
  PROVE  ClickInv'
<1>1. CASE ClosePopup
  BY <1>1, CloseHolds
<1>2. ASSUME NEW l \in Switched, ToggleLayer(l) PROVE ClickInv'
  BY <1>2, ToggleHolds
<1>3. ASSUME NEW o \in Options, Choose(o) PROVE ClickInv'
  BY <1>3, ChooseHolds
<1>4. ASSUME NEW l \in Rows, RetryLayer(l) PROVE ClickInv'
  BY <1>4, RetryLayerHolds
<1>5. ASSUME NEW h \in Hosted, RetryRecords(h) PROVE ClickInv'
  BY <1>5, RetryRecordsHolds
<1>6. ASSUME NEW t \in {"select", "measure"}, SwitchTo(t) PROVE ClickInv'
  BY <1>6, SwitchHolds
<1>7. CASE UndoPoint \/ Done \/ ClearMeasure
  BY <1>7, MeasureHolds
<1>8. CASE SelectedList
  BY <1>8, SelectedListHolds
<1>9. CASE ResultList
  BY <1>9, ResultListHolds
<1>10. CASE WhatsHere
  BY <1>10, WhatsHereHolds
<1> QED BY <1>1, <1>2, <1>3, <1>4, <1>5, <1>6, <1>7, <1>8, <1>9, <1>10 DEF UserActs

LEMMA EndsHold ==
  ASSUME ClickInv, outcome' = Quiet,
         BatchEnds \/ RetryComesIn \/ RetryEnds \/ RecordsEnd \/ SearchEnds
           \/ \E k \in DOMAIN answers : Forget(k)
  PROVE  ClickInv'
<1>1. CASE BatchEnds
  BY <1>1, BatchAnsweredHolds, BatchFailsHolds DEF BatchEnds
<1>2. CASE RetryComesIn
  BY <1>2, RetryAnsweredHolds, RetryFailsHolds DEF RetryComesIn
<1>3. CASE RetryEnds
  BY <1>3, RetryLandsHolds DEF RetryEnds
<1>4. CASE RecordsEnd
  BY <1>4, RecordsAnsweredHolds DEF RecordsEnd
<1>5. CASE SearchEnds
  BY <1>5, SearchAnsweredHolds, SearchFailsHolds DEF SearchEnds
<1>6. CASE \E k \in DOMAIN answers : Forget(k)
  BY <1>6, ForgetHolds
<1> QED BY <1>1, <1>2, <1>3, <1>4, <1>5, <1>6

LEMMA NextHolds ==
  ASSUME ClickInv, [Next]_vars
  PROVE  ClickInv'
<1>1. CASE UserActs /\ outcome' = Quiet
  BY <1>1, ActsHold
<1>2. CASE /\ outcome' = Quiet
           /\ \/ BatchEnds \/ RetryComesIn \/ RetryEnds \/ RecordsEnd \/ SearchEnds
              \/ \E k \in DOMAIN answers : Forget(k)
  BY <1>2, EndsHold
<1>3. ASSUME NEW box \in Boxes, NEW dot \in Areas \cup {NoArea},
             NEW area \in Areas \cup {NoArea},
             NEW hits \in SUBSET (on \cap (Hosted \cup Imported)),
             ClickMap(box, dot, area, hits)
      PROVE  ClickInv'
  BY <1>3, ClickMapHolds
<1>4. ASSUME NEW f \in framing, BoundsArrive(f) PROVE ClickInv'
  BY <1>4, BoundsArriveHolds
<1>5. CASE UNCHANGED vars
  <2>1. /\ UNCHANGED <<click, chosen, answers, told, retried, retrying, retries>>
        /\ UNCHANGED <<on, clicks, records, outcome, toggles, faults>>
        /\ UNCHANGED <<select, measure, queries, searches, framing>>
    BY <1>5 DEF vars, popup, tools
  <2>2. outcome \in [camera : Targets, card : Areas \cup {NoArea}]
    BY DEF ClickInv, ShownHolds
  <2> QED BY <2>1, <2>2, PopupIs, PopupSame, PopupStep
<1> QED BY <1>1, <1>2, <1>3, <1>4, <1>5 DEF Next

(* What the widget keeps of a click, of Select area and of the requests     *)
(* under way belongs together, whatever the user does and whenever the      *)
(* answers come (MetaDataControl.tsx; SelectAreaContext.tsx).               *)
THEOREM ClickTheorem == Spec => []ClickInv
BY InitHolds, NextHolds, PTL DEF Spec

-----------------------------------------------------------------------------
(* What follows from it *)

LEMMA FocusFollows ==
  ASSUME ClickInv
  PROVE  FocusIsListed /\ ResultsAreOfTheSelection
<1>1. Good(select) /\ Waits(select, searches)
  BY DEF ClickInv, SelectHolds
<1>2. ResultsAreOfTheSelection
  BY <1>1 DEF ResultsAreOfTheSelection, Waits, Good, SelectFits
<1>3. select.focused \in {NoTarget} \cup Results \cup Spots
  BY <1>1 DEF Good, SelectTyped, Targets, Results
<1>4. IsResult(select.focused) => select.focused \in select.results.rows
  BY <1>1, <1>3, Tuples DEF IsResult, Good, SelectFits, Spots
<1>5. Len(select.focused) = 1 => select.focused[1] \in select.selected
  BY <1>1, <1>3, Tuples DEF Good, SelectFits, Spots
<1> QED BY <1>1, <1>2, <1>4, <1>5 DEF FocusIsListed, Good, SelectFits

(* A popup is open only while no tool takes the clicks: results are listed   *)
(* only in Select area, so they highlight nothing under a popup.             *)
LEMMA OneFollows ==
  ASSUME ClickInv
  PROVE  OneHighlight
<1>1. CASE click # NoClick
  <2>1. select.tool # "select"
    BY <1>1 DEF ClickInv, ClickHolds, OwnsClicks
  <2>2. select.results.rows = {}
    BY <2>1 DEF ClickInv, SelectHolds, Good, SelectFits
  <2> QED BY <2>2 DEF OneHighlight, Target
<1>2. CASE click = NoClick
  <2>1. Rows = {}
    BY <1>2 DEF Rows, Shown, NoClick
  <2>2. chosen \notin Options /\ {l \in Rows : ~Failed(StatusOf(l))} = {}
    BY <2>1 DEF Options
  <2>3. Selected = NoOption
    BY <2>1, <2>2 DEF Selected
  <2> QED BY <2>3 DEF OneHighlight
<1> QED BY <1>1, <1>2

LEMMA TypesFollow ==
  ASSUME ClickInv
  PROVE  TypeOK
<1>1. /\ clicks \in Nat /\ queries \in Nat /\ toggles \in Nat /\ faults \in Nat
      /\ clicks + queries + toggles <= MaxActs /\ faults <= MaxFaults /\ MaxActs \in Nat
  BY ClickAssumption DEF ClickInv, CountsHold
<1>2. Good(select) /\ Waits(select, searches) /\ DOMAIN searches \subseteq 1..queries
  BY DEF ClickInv, SelectHolds, SearchesHold
<1>3. select.queryId \in 0..queries
  <2>1. select.queryId \in Nat
    BY <1>2 DEF Good, SelectTyped
  <2> QED BY <1>1, <1>2, <2>1 DEF Waits
<1>4. /\ select.tool \in {"none", "select", "measure"} /\ select.selected \subseteq Areas
      /\ select.focused \in Targets \cup {<<a>> : a \in Areas} /\ select.info \in Targets
      /\ select.results.rows \subseteq All \X Keys /\ select.results.failed \subseteq All
  BY <1>2 DEF Good, SelectTyped, Results, Spots
<1>5. /\ on \subseteq All /\ clicks \in 0..MaxActs /\ told \in 0..clicks
      /\ click.key \in 0..clicks /\ click.box \in Boxes \cup {NoBox}
      /\ click.asked \subseteq Warehouse /\ click.hits \subseteq Hosted \cup Imported
  BY <1>1, PopupIs DEF Click
<1>6. \A k \in DOMAIN answers :
        /\ answers[k].status \in {"pending", "success", "error"}
        /\ answers[k].status = "success" => answers[k].got \in [k[1] -> Statuses]
  BY PopupIs DEF PopupHolds, AnswersHold
<1>7. /\ Over(retried, click.asked, [status : Statuses, click : 1..MaxActs])
      /\ retrying \subseteq click.asked
  <2>1. Over(retried, click.asked, [status : Statuses \ {"abandoned"}, click : 1..MaxActs])
    BY PopupIs DEF PopupHolds, RetriesHold
  <2> QED BY <2>1, PopupIs DEF PopupHolds, RetriesHold, Over
<1>8. retries \subseteq [layer : Warehouse, click : 1..MaxActs, step : {"sent", "in"},
                         got : Statuses]
  <2>1. \A r \in retries : r \in [layer : Warehouse, click : 1..clicks, step : {"sent", "in"},
                                  got : Statuses]
    BY PopupIs DEF PopupHolds, RetriesHold
  <2>2. \A n \in 1..clicks : n \in 1..MaxActs
    BY <1>1
  <2> QED BY <2>1, <2>2
<1>9. /\ measure.points \in 0..MaxPoints /\ measure.finished \in BOOLEAN
      /\ outcome \in [camera : Targets, card : Areas \cup {NoArea}]
  BY DEF ClickInv, ShownHolds
<1>10. framing \subseteq All \X Keys
  BY <1>4 DEF ClickInv, FramingHolds, Target
<1>11. queries \in 0..MaxActs /\ toggles \in 0..MaxActs /\ faults \in 0..MaxFaults
  BY <1>1
<1> QED BY <1>2, <1>3, <1>4, <1>5, <1>6, <1>7, <1>8, <1>9, <1>10, <1>11, PopupIs DEF TypeOK

(* The selection, its results, and the one highlight agree: no late answer  *)
(* to an earlier question is listed, nothing is highlighted or explained    *)
(* that is not listed, and the popup and the results never both paint the   *)
(* map's highlight (SelectAreaContext.tsx; useResultHighlight.ts).          *)
THEOREM FocusTheorem == Spec => []FocusIsSound
<1>1. ClickInv => FocusIsSound
  BY TypesFollow, FocusFollows, OneFollows DEF FocusIsSound
<1> QED BY <1>1, ClickTheorem, PTL

(* No layer in the popup reads as one map-api dropped, and a Retry ends     *)
(* with its click.                                                          *)
LEMMA PopupFollows ==
  ASSUME ClickInv
  PROVE  PopupIsOfItsClick
<1>1. ASSUME NEW l \in Shown(click, on), StatusOf(l) = "abandoned" PROVE FALSE
  <2>1. l \in Warehouse /\ Answer(l) = "abandoned"
    BY <1>1 DEF StatusOf
  <2>2. l \in click.asked /\ Key(click) \in DOMAIN answers
    BY <1>1, <2>1, PopupIs, ClickAssumption DEF Shown, Click, PopupHolds, AnswersHold
  <2>3. l \notin DOMAIN retried
    BY <2>1, PopupIs DEF Answer, PopupHolds, RetriesHold, Over
  <2>4. answers[Key(click)].status = "success" /\ answers[Key(click)].got[l] = "abandoned"
    BY <2>1, <2>2, <2>3, PopupIs DEF Answer, PopupHolds, AnswersHold
  <2>5. answers[Key(click)].got \in [Key(click)[1] -> Statuses \ {"abandoned"}]
    BY <2>2, <2>4, PopupIs DEF PopupHolds, AnswersHold
  <2> QED BY <2>2, <2>4, <2>5, KeyIs
<1> QED BY <1>1, PopupIs DEF PopupIsOfItsClick, AbandonedIsNeverRead, PopupHolds

(* The popup shows answers to its own click, and to what it asked: a Retry  *)
(* never outlives its click, and what map-api drops of a replaced click is  *)
(* never read, even by a popup that was answered from what is kept          *)
(* (useMetaData.ts).                                                        *)
THEOREM PopupTheorem == Spec => []PopupIsOfItsClick
BY PopupFollows, ClickTheorem, PTL

-----------------------------------------------------------------------------
(* What a step does was asked for *)

(* Only a click adds to the selection or to the line. *)
Tame == select'.selected \subseteq select.selected /\ measure'.points <= measure.points

LEMMA RenderSets ==
  ASSUME NEW c, NEW s, NEW m, NEW vis, Render(c, s, m, vis)
  PROVE  select' = s /\ measure' = m
BY DEF Render

LEMMA PointsAre ==
  ASSUME ClickInv
  PROVE  /\ measure.points \in Nat /\ select.selected \subseteq Areas /\ Good(select)
         /\ measure \in Lines
BY InvIs, ClickAssumption DEF Lines, Follows, Good, SelectTyped

LEMMA ToolsTame ==
  ASSUME ClickInv, (\E t \in {"select", "measure"} : SwitchTo(t)) \/ UndoPoint \/ Done
                     \/ ClearMeasure \/ SelectedList \/ ResultList
  PROVE  Tame
<1>1. ASSUME NEW t \in {"select", "measure"}, SwitchTo(t) PROVE Tame
  <2>1. select' = ToggleTool(select, t) /\ measure' = INITIAL_MEASURE
    BY <1>1, RenderSets DEF SwitchTo
  <2> QED BY <2>1, PointsAre, ToggleToolGood DEF Tame, INITIAL_MEASURE
<1>2. ASSUME NEW m, Remeasure(m), m.points <= measure.points PROVE Tame
  <2>1. select' = select /\ measure' = m
    BY <1>2, RenderSets DEF Remeasure
  <2> QED BY <1>2, <2>1 DEF Tame
<1>3. ASSUME NEW s, Reduce(s), s.selected \subseteq select.selected PROVE Tame
  <2>1. select' = s /\ measure' = measure
    BY <1>3, RenderSets DEF Reduce
  <2> QED BY <1>3, <2>1, PointsAre DEF Tame
<1>4. CASE UndoPoint \/ Done \/ ClearMeasure
  <2>1. /\ [measure EXCEPT !.points = @ - 1].points <= measure.points
        /\ [measure EXCEPT !.finished = TRUE].points <= measure.points
        /\ INITIAL_MEASURE.points <= measure.points
    BY PointsAre DEF Lines, INITIAL_MEASURE
  <2> QED BY <1>2, <1>4, <2>1 DEF UndoPoint, Done, ClearMeasure
<1>5. CASE SelectedList
  <2>1. ASSUME NEW a \in select.selected
        PROVE  /\ RemoveArea(select, a).selected \subseteq select.selected
               /\ Focus(select, <<a>>).selected = select.selected
    BY PointsAre, RemoveAreaGood, FocusGood
  <2>2. [INITIAL_STATE EXCEPT !.tool = select.tool].selected = {}
    BY DEF INITIAL_STATE
  <2> QED BY <1>3, <1>5, <2>1, <2>2 DEF SelectedList
<1>6. CASE ResultList
  <2>1. ASSUME NEW t \in select.results.rows \cup {NoTarget}
        PROVE  [select EXCEPT !.info = t].selected = select.selected
    BY PointsAre, InfoGood
  <2>2. ASSUME NEW t \in select.results.rows
        PROVE  /\ Focus(select, t).selected = select.selected
               /\ RemoveResult(select, t).selected = select.selected
    BY PointsAre, FocusGood, RemoveResultGood
  <2>3. ASSUME NEW l PROVE ClearGroup(select, l).selected = select.selected
    BY PointsAre, ClearGroupGood
  <2>4. ASSUME NEW t \in select.results.rows, ResultRow(t) PROVE Tame
    BY <1>3, <2>1, <2>2, <2>4 DEF ResultRow
  <2>5. ASSUME NEW l, Group(l) PROVE Tame
    BY <1>3, <2>3, <2>5 DEF Group
  <2>6. ASSUME HideInfo PROVE Tame
    BY <1>3, <2>1, <2>6 DEF HideInfo
  <2> QED BY <1>6, <2>4, <2>5, <2>6 DEF ResultList
<1> QED BY <1>1, <1>4, <1>5, <1>6

LEMMA SearchesTame ==
  ASSUME ClickInv, WhatsHere \/ SearchEnds
  PROVE  Tame
<1>1. ASSUME NEW s, Render(click, s, measure, on), s.selected = select.selected PROVE Tame
  <2>1. select' = s /\ measure' = measure
    BY <1>1, RenderSets
  <2> QED BY <1>1, <2>1, PointsAre DEF Tame
<1>2. CASE WhatsHere
  <2> PICK id : id = queries + 1
    OBVIOUS
  <2>1. /\ Good(StartQuery(select, id))
        /\ StartQuery(select, id).selected = select.selected
    BY <1>2, InvIs, PointsAre, StartQueryGood DEF WhatsHere, SearchOffered
  <2>2. FailQuery(StartQuery(select, id), id).selected = select.selected
    BY <2>1, FailQueryGood
  <2> QED BY <1>1, <1>2, <2>1, <2>2 DEF WhatsHere
<1>3. ASSUME NEW id, NEW r PROVE FinishQuery(select, id, r).selected = select.selected
  BY PointsAre DEF FinishQuery, Good, SelectTyped
<1>4. ASSUME NEW id PROVE FailQuery(select, id).selected = select.selected
  BY PointsAre, FailQueryGood
<1>5. CASE SearchEnds
  <2>1. ASSUME NEW id, NEW rows, NEW failed, SearchAnswered(id, rows, failed) PROVE Tame
    BY <1>1, <1>3, <2>1 DEF SearchAnswered
  <2>2. ASSUME NEW id, SearchFails(id) PROVE Tame
    BY <1>1, <1>4, <2>2 DEF SearchFails
  <2> QED BY <1>5, <2>1, <2>2 DEF SearchEnds
<1> QED BY <1>2, <1>5

LEMMA PopupTame ==
  ASSUME ClickInv,
         \/ ClosePopup
         \/ \E l \in Switched : ToggleLayer(l)
         \/ \E o \in Options : Choose(o)
         \/ \E l \in Rows : RetryLayer(l)
         \/ \E h \in Hosted : RetryRecords(h)
         \/ BatchEnds \/ RetryComesIn \/ RetryEnds \/ RecordsEnd
         \/ \E k \in DOMAIN answers : Forget(k)
  PROVE  Tame
<1>1. CASE UNCHANGED <<select, measure>>
  BY <1>1, PointsAre DEF Tame
<1>2. CASE ClosePopup \/ \E l \in Switched : ToggleLayer(l)
  BY <1>1, <1>2, RenderSets DEF ClosePopup, ToggleLayer
<1>3. CASE \/ \E o \in Options : Choose(o)
           \/ \E l \in Rows : RetryLayer(l)
           \/ \E h \in Hosted : RetryRecords(h)
  BY <1>1, <1>3 DEF Choose, RetryLayer, RetryRecords, tools
<1>4. CASE \/ BatchEnds \/ RetryComesIn \/ RetryEnds \/ RecordsEnd
           \/ \E k \in DOMAIN answers : Forget(k)
  <2>1. ASSUME NEW k, NEW got, BatchAnswered(k, got) PROVE Tame
    BY <1>1, <2>1 DEF BatchAnswered, tools
  <2>2. ASSUME NEW r, NEW status, RetryAnswered(r, status) PROVE Tame
    BY <1>1, <2>2 DEF RetryAnswered, tools
  <2>3. ASSUME NEW k, BatchFails(k) \/ Forget(k) PROVE Tame
    BY <1>1, <2>3 DEF BatchFails, Forget, tools
  <2>4. ASSUME NEW r, RetryFails(r) \/ RetryLands(r) PROVE Tame
    BY <1>1, <2>4 DEF RetryFails, RetryLands, tools
  <2>5. ASSUME NEW h, RecordsAnswered(h) PROVE Tame
    BY <1>1, <2>5 DEF RecordsAnswered, tools
  <2> QED BY <1>4, <2>1, <2>2, <2>3, <2>4, <2>5
          DEF BatchEnds, RetryComesIn, RetryEnds, RecordsEnd
<1> QED BY <1>2, <1>3, <1>4

(* A click that adds something is that of a tool, which still takes clicks   *)
(* after it: the popup is closed, and a card opens over no tool that took it. *)
LEMMA TakenOnce ==
  ASSUME ClickInv, NEW box \in Boxes, NEW dot \in Areas \cup {NoArea},
         NEW area \in Areas \cup {NoArea},
         NEW hits \in SUBSET (on \cap (Hosted \cup Imported)),
         ClickMap(box, dot, area, hits)
  PROVE  Tame \/ (click' = NoClick /\ outcome' = Quiet)
<1>1. /\ Rendered /\ select' = Chosen(dot, area) /\ measure' = Measured
      /\ outcome' = [Quiet EXCEPT !.card = Opened(dot, area)]
  BY ClickMapRendered DEF ClickMap
<1>2. OwnsClicks(select', measure') => click' = NoClick
  BY <1>1 DEF Rendered
<1>3. [Quiet EXCEPT !.card = NoArea] = Quiet
  BY DEF Quiet
<1>4. CASE Placing(select, measure)
  <2>1. select.tool = "measure" /\ ~measure.finished
    BY <1>4 DEF Placing
  <2>2. select' = select /\ measure' = [measure EXCEPT !.points = @ + 1]
    BY <1>1, <1>4, <2>1 DEF Chosen, Measured
  <2>3. measure'.finished = measure.finished
    BY <2>2, PointsAre DEF Lines
  <2>4. OwnsClicks(select', measure')
    BY <2>1, <2>2, <2>3 DEF OwnsClicks, Placing
  <2>5. outcome' = Quiet
    BY <1>1, <1>3, <1>4 DEF Opened
  <2> QED BY <1>2, <2>4, <2>5
<1>5. CASE ~Placing(select, measure) /\ select.tool = "select" /\ dot = NoArea /\ area # NoArea
  <2>1. select' = AddArea(select, area) /\ area \in Areas
    BY <1>1, <1>5 DEF Chosen
  <2>2. select'.tool = "select"
    BY <1>5, <2>1, PointsAre, AddAreaGood
  <2>3. OwnsClicks(select', measure')
    BY <2>2 DEF OwnsClicks
  <2>4. outcome' = Quiet
    BY <1>1, <1>3, <1>5 DEF Opened
  <2> QED BY <1>2, <2>3, <2>4
<1>6. CASE ~Placing(select, measure) /\ ~(select.tool = "select" /\ dot = NoArea /\ area # NoArea)
  <2>1. select' = select /\ measure' = measure
    BY <1>1, <1>6 DEF Chosen, Measured
  <2> QED BY <2>1, PointsAre DEF Tame
<1> QED BY <1>4, <1>5, <1>6

LEMMA OnceStep ==
  ASSUME ClickInv, [Next]_vars
  PROVE  Tame \/ (click' = NoClick /\ outcome' = Quiet)
<1>1. CASE UserActs
  BY <1>1, ToolsTame, SearchesTame, PopupTame DEF UserActs
<1>2. CASE \/ BatchEnds \/ RetryComesIn \/ RetryEnds \/ RecordsEnd \/ SearchEnds
           \/ \E k \in DOMAIN answers : Forget(k)
  BY <1>2, SearchesTame, PopupTame
<1>3. ASSUME NEW f \in framing, BoundsArrive(f) PROVE Tame
  BY <1>3, PointsAre DEF BoundsArrive, Tame
<1>4. CASE UNCHANGED vars
  BY <1>4, PointsAre DEF vars, tools, Tame
<1> QED BY <1>1, <1>2, <1>3, <1>4, TakenOnce DEF Next

LEMMA CameraStep ==
  ASSUME ClickInv, Next
  PROVE  outcome'.camera \in {NoTarget, Target(select)}
<1>1. Quiet.camera = NoTarget /\ \A x : [Quiet EXCEPT !.card = x].camera = NoTarget
  BY DEF Quiet
<1>2. ASSUME NEW box, NEW dot, NEW area, NEW hits, ClickMap(box, dot, area, hits)
      PROVE  outcome'.camera = NoTarget
  BY <1>1, <1>2 DEF ClickMap
<1>3. ASSUME NEW f \in framing, BoundsArrive(f)
      PROVE  outcome'.camera \in {NoTarget, Target(select)}
  <2>1. f = Target(select)
    BY DEF ClickInv, FramingHolds
  <2>2. [Quiet EXCEPT !.camera = f].camera = f
    BY DEF Quiet
  <2> QED BY <1>1, <1>3, <2>1, <2>2 DEF BoundsArrive
<1> QED BY <1>1, <1>2, <1>3 DEF Next

(* A click is taken once: what selects a feature or places a point neither  *)
(* opens a popup nor a card.  Bounds that come late never move the camera   *)
(* to a result left behind (MetaDataControl.tsx; ProjectsControl.tsx;       *)
(* useResultHighlight.ts).                                                  *)
THEOREM EffectsTheorem == Spec => EffectsAreDue
<1>1. ClickInv /\ [Next]_vars =>
        [select'.selected \ select.selected # {} \/ measure'.points > measure.points
           => click' = NoClick /\ outcome' = Quiet]_vars
  <2> SUFFICES ASSUME ClickInv, [Next]_vars,
                      select'.selected \ select.selected # {} \/ measure'.points > measure.points,
                      vars' # vars
               PROVE  click' = NoClick /\ outcome' = Quiet
    OBVIOUS
  <2>1. CASE Tame /\ Next
    <3>1. ClickInv'
      BY NextHolds
    <3>2. measure.points \in Nat /\ measure'.points \in Nat
      BY <3>1, ClickAssumption DEF ClickInv, ShownHolds
    <3> QED BY <2>1, <3>2 DEF Tame
  <2> QED BY <2>1, OnceStep
<1>2. ClickInv /\ [Next]_vars => [outcome'.camera \in {NoTarget, Target(select)}]_vars
  BY CameraStep
<1>3. Spec => ClickIsTakenOnce
  BY <1>1, ClickTheorem, PTL DEF Spec, ClickIsTakenOnce
<1>4. Spec => CameraFollowsFocus
  BY <1>2, ClickTheorem, PTL DEF Spec, CameraFollowsFocus
<1> QED BY <1>3, <1>4 DEF EffectsAreDue

=============================================================================

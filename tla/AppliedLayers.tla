--------------------------- MODULE AppliedLayers ---------------------------
(***************************************************************************)
(* The layers a user has switched on: the widget's optimistic list, its    *)
(* toggles and its debounced opacity saves, over the table that map-api    *)
(* keeps.  A call is answered in any order, may fail before it is served   *)
(* and may lose its answer after it was.                                   *)
(***************************************************************************)
EXTENDS Integers, FiniteSets, Sequences, SequencesExt

CONSTANTS
  Layers,         \* catalogue layers the rows of the panel show
  Hosted,         \* layers we host: drawn when on, stored nowhere
  Starred,        \* layers that are favourites
  Percents,       \* opacities the slider stops at
  Default,        \* DEFAULT_LAYER_OPACITY
  MaxVisible,     \* MAX_VISIBLE_LAYERS
  ServerCap,      \* MAX_APPLIED_LAYERS_PER_MAP
  Stored,         \* layers in the table before the widget is opened
  MaxCalls,       \* bound: calls sent when a switch is moved
  MaxDrags,       \* bound: movements of a slider
  MaxFaults       \* bound: calls that fail or lose their answer, GETs that fail

ASSUME AppliedAssumption ==
  /\ Default \in Percents /\ Percents \subseteq 0..100
  /\ {MaxVisible, ServerCap, MaxCalls, MaxDrags,
      MaxFaults} \subseteq Nat
  /\ Stored \in Seq(Layers) /\ IsInjective(Stored)
  /\ Layers \cap Hosted = {} /\ IsFiniteSet(Layers)

VARIABLES
  given,          \* the layer each row id was handed out for, by id
  table,          \* opacity of each row of user_applied_layers, by id
  cache,          \* the list as painted: id and opacity of each layer
  loaded, failed, \* whether there is a list; whether the last GET failed
  fetch,          \* the GET under way
  calls,          \* mutations under way, by number
  sent,           \* mutations sent so far
  pending,        \* pendingIds
  timers,         \* opacityTimers: what each is to save, and what was before
  saving,         \* savingOpacity
  drafts,         \* opacityDrafts, Default where there is none
  hostedOn,       \* localVisibleIds
  drags, faults,
  misses,         \* GETs that failed
  crossed         \* history: layers whose slider met something on its way

table_vars  == <<given, table>>
list        == <<cache, loaded, failed>>
opacityVars == <<timers, saving, drafts, drags>>
vars == <<table_vars, list, fetch, calls, sent, pending, opacityVars,
          hostedOn, faults, misses, crossed>>

StandIn == -1                                     \* PENDING_APPLIED_ID
RowId == {StandIn} \cup Nat
Entry == [id : RowId, opacity : Percents]

Over(f, D, S) == DOMAIN f \subseteq D /\ f \in [DOMAIN f -> S]

Idle  == [step |-> "idle", rows |-> <<>>]
Asked == [step |-> "asked", rows |-> <<>>]

IsCall(c) ==
  /\ DOMAIN c = {"op", "layer", "id", "percent", "list", "prior", "step"}
  /\ c.op \in {"apply", "remove", "save"} /\ c.layer \in Layers
  /\ c.id \in RowId /\ {c.percent, c.prior} \subseteq Percents
  /\ Over(c.list, Layers, Entry)
  /\ c.step \in {"sent", "counted", "done", "refused"}

(* A slider is on its way until its opacity is saved.  What it meets there  *)
(* is only noted: no action reads crossed.                                  *)
OnItsWay == DOMAIN timers \cup saving
Meets(S) == crossed' = crossed \cup S

Without(f, D) == [x \in DOMAIN f \ D |-> f[x]]
With(f, x, y) == [z \in DOMAIN f \cup {x} |-> IF z = x THEN y ELSE f[z]]

-----------------------------------------------------------------------------
(* What the rows of the panel offer *)

VisibleIds == DOMAIN cache \cup hostedOn

SwitchEnabled(l) ==
  l \notin pending /\ (l \in VisibleIds \/ Cardinality(VisibleIds) < MaxVisible)

(* opacities: what is stored wins over what was dragged *)
OpacityOf(l) == IF l \in DOMAIN cache THEN cache[l].opacity ELSE drafts[l]

SearchEnabled == DOMAIN cache \ Starred

AnyListed(l) == l \in DOMAIN cache                           \* a mutant

(* removeLayer has nothing to address until the POST is back *)
Removable(l) == l \in DOMAIN cache /\ cache[l].id # StandIn

-----------------------------------------------------------------------------
(* The calls of the widget *)

Toggles(C) == {n \in DOMAIN C : C[n].op # "save"}

(* settle: while another toggle is out the list is left alone *)
NeverSettled(C) == FALSE                                     \* a mutant

Settled(C) == Toggles(C) = {}

(* setQueryData *)
Write(entries) ==
  /\ cache' = entries
  /\ loaded' = TRUE /\ failed' = FALSE

Send(c) ==
  /\ sent' = sent + 1
  /\ calls' = With(calls, sent + 1, c)

ToggleCall(op, l, id) ==
  [op |-> op, layer |-> l, id |-> id, percent |-> OpacityOf(l),
   list |-> cache, prior |-> Default, step |-> "sent"]

SwitchOn(l) ==
  /\ SwitchEnabled(l) /\ l \notin DOMAIN cache /\ sent < MaxCalls
  /\ Send(ToggleCall("apply", l, StandIn))
  /\ pending' = pending \cup {l}
  /\ Write(With(cache, l, [id |-> StandIn, opacity |-> OpacityOf(l)]))
  /\ fetch' = Idle
  /\ Meets({l} \cap OnItsWay)
  /\ UNCHANGED <<table_vars, opacityVars, hostedOn, faults, misses>>

(* cancelOpacitySave goes with it *)
SwitchOff(l) ==
  /\ SwitchEnabled(l) /\ Removable(l) /\ sent < MaxCalls
  /\ Send(ToggleCall("remove", l, cache[l].id))
  /\ pending' = pending \cup {l}
  /\ Write(Without(cache, {l}))
  /\ timers' = Without(timers, {l})
  /\ fetch' = Idle
  /\ UNCHANGED <<table_vars, saving, drafts, drags, hostedOn, faults, misses,
                 crossed>>

SwitchHosted(h) ==
  /\ h \in hostedOn \/ Cardinality(VisibleIds) < MaxVisible
  /\ hostedOn' = IF h \in hostedOn THEN hostedOn \ {h} ELSE hostedOn \cup {h}
  /\ UNCHANGED <<table_vars, list, fetch, calls, sent, pending, opacityVars,
                 faults, misses, crossed>>

(* turnAllOff: one DELETE after another for all but the favourites, each    *)
(* remembering the list without the ones before it                          *)
TurnAllOff ==
  LET off == {l \in SearchEnabled : Removable(l)}
      n   == Cardinality(off)
  IN /\ SearchEnabled # {} /\ sent + n <= MaxCalls
     /\ \E rows \in [1..n -> off] :
          /\ \A j, k \in 1..n : j < k => cache[rows[j]].id < cache[rows[k]].id
          /\ calls' = [m \in DOMAIN calls \cup (sent + 1)..(sent + n) |->
               IF m <= sent THEN calls[m]
               ELSE LET l == rows[m - sent]
                    IN [ToggleCall("remove", l, cache[l].id) EXCEPT
                          !.list = Without(@, {rows[j] : j \in 1..(m - sent - 1)})]]
     /\ sent' = sent + n
     /\ pending' = pending \cup off
     /\ hostedOn' = hostedOn \cap Starred
     /\ timers' = Without(timers, off)
     /\ IF off = {} THEN UNCHANGED <<list, fetch>>
        ELSE Write(Without(cache, off)) /\ fetch' = Idle
     /\ UNCHANGED <<table_vars, saving, drafts, drags, faults, misses, crossed>>

(* setOpacity and saveOpacity: a draft always, the list and a new timer if   *)
(* the layer is applied                                                     *)
Drag(l, p) ==
  /\ drags < MaxDrags /\ p # OpacityOf(l)
  /\ drags' = drags + 1
  /\ drafts' = [drafts EXCEPT ![l] = p]
  /\ IF l \in DOMAIN cache
     THEN /\ Write([cache EXCEPT ![l].opacity = p])
          /\ timers' = With(timers, l, [percent |-> p, prior |-> cache[l].opacity])
     ELSE UNCHANGED <<list, timers>>
  /\ UNCHANGED <<table_vars, fetch, calls, sent, pending, saving, hostedOn,
                 faults, misses, crossed>>

SavesOf(l) == {n \in DOMAIN calls : calls[n].op = "save" /\ calls[n].layer = l}

(* The debounce is over.  A row that has no id yet queues itself again.      *)
TimerFires(l) ==
  /\ l \in DOMAIN timers
  /\ LET t == timers[l]
     IN \/ /\ l \notin DOMAIN cache
           /\ timers' = Without(timers, {l})
           /\ UNCHANGED <<list, calls, sent, saving, crossed>>
        \/ /\ l \in DOMAIN cache /\ cache[l].id = StandIn
           /\ Write([cache EXCEPT ![l].opacity = t.percent])
           /\ timers' = With(timers, l, [percent |-> t.percent,
                                         prior |-> cache[l].opacity])
           /\ UNCHANGED <<calls, sent, saving, crossed>>
        \/ /\ Removable(l)
           /\ Send([op |-> "save", layer |-> l, id |-> cache[l].id,
                    percent |-> t.percent, list |-> <<>>, prior |-> t.prior,
                    step |-> "sent"])
           /\ saving' = saving \cup {l}
           /\ timers' = Without(timers, {l})
           /\ Meets(IF SavesOf(l) = {} THEN {} ELSE {l})
           /\ UNCHANGED list
  /\ UNCHANGED <<table_vars, fetch, pending, drafts, drags, hostedOn, faults, misses>>

-----------------------------------------------------------------------------
(* The requests in map-api *)

LayersStored == {given[i] : i \in DOMAIN table}
RowOf(l)     == CHOOSE i \in DOMAIN table : given[i] = l
Stores(l)    == l \in LayersStored

Serve(n, c) == calls' = [calls EXCEPT ![n] = c]

Done(n)    == Serve(n, [calls[n] EXCEPT !.step = "done"])
Refused(n) == Serve(n, [calls[n] EXCEPT !.step = "refused"])

OthersKeep == UNCHANGED <<list, fetch, sent, pending, opacityVars, hostedOn,
                          faults, misses, crossed>>

(* apply_layer: the count is its own statement *)
StoreFull == Cardinality(DOMAIN table) >= ServerCap

CountApplied(n) ==
  /\ calls[n].op = "apply" /\ calls[n].step = "sent"
  /\ IF StoreFull THEN Refused(n)
     ELSE Serve(n, [calls[n] EXCEPT !.step = "counted"])
  /\ UNCHANGED table_vars /\ OthersKeep

NextId == Len(given) + 1

(* add_reference: the row already there, or a new one *)
StoreApplied(n) ==
  LET l == calls[n].layer
  IN /\ calls[n].op = "apply" /\ calls[n].step = "counted"
     /\ IF Stores(l)
        THEN /\ Serve(n, [calls[n] EXCEPT !.step = "done", !.id = RowOf(l)])
             /\ UNCHANGED table_vars
        ELSE /\ given' = Append(given, l)
             /\ table' = With(table, NextId, calls[n].percent)
             /\ Serve(n, [calls[n] EXCEPT !.step = "done", !.id = NextId])
     /\ OthersKeep

(* 204 whether or not the row was there *)
RemoveApplied(n) ==
  /\ calls[n].op = "remove" /\ calls[n].step = "sent"
  /\ table' = Without(table, {calls[n].id})
  /\ Done(n)
  /\ UNCHANGED given /\ OthersKeep

(* 404 when it is gone *)
SaveOpacity(n) ==
  /\ calls[n].op = "save" /\ calls[n].step = "sent"
  /\ IF calls[n].id \in DOMAIN table
     THEN /\ table' = [table EXCEPT ![calls[n].id] = calls[n].percent]
          /\ Done(n)
     ELSE Refused(n) /\ UNCHANGED table
  /\ UNCHANGED given /\ OthersKeep

(* A call that never arrives, and an answer that does not come back *)
Lost(n) ==
  /\ faults + misses < MaxFaults /\ calls[n].step \in {"sent", "done"}
  /\ faults' = faults + 1
  /\ Refused(n)
  /\ UNCHANGED <<table_vars, list, fetch, sent, pending, opacityVars, hostedOn,
                 misses, crossed>>

-----------------------------------------------------------------------------
(* The answers in the widget *)

(* The opacity a list shows a layer at, if it has the layer *)
OpacityIn(entries, l) == {entries[k].opacity : k \in DOMAIN entries \cap {l}}

(* writeCache(context.previous), or only the id of the row *)
IdOnly(l, id) == [cache EXCEPT ![l].id = id]

AnswerToggle(n) ==
  LET c == calls[n]
  IN /\ c.op # "save" /\ c.step \in {"done", "refused"}
     /\ calls' = Without(calls, {n})
     /\ CASE c.step = "refused" ->
               /\ Write(c.list)
               /\ Meets({l \in OnItsWay : OpacityIn(c.list, l) # OpacityIn(cache, l)})
          [] c.step = "done" /\ c.op = "apply" /\ c.layer \in DOMAIN cache ->
               Write(IdOnly(c.layer, c.id)) /\ UNCHANGED crossed
          [] OTHER -> UNCHANGED <<list, crossed>>
     /\ pending' = pending \ {c.layer}
     /\ fetch' = IF Settled(calls') THEN Asked ELSE fetch
     /\ UNCHANGED <<table_vars, sent, opacityVars, hostedOn, faults, misses>>

(* Another row than the one saved is painted, or an answer of the list      *)
(* without the save is still to come                                        *)
SavedAnother(c, entries) ==
  /\ c.layer \in DOMAIN entries
  /\ entries[c.layer] # [id |-> c.id, opacity |-> c.percent]

AnswerSave(n) ==
  LET c == calls[n]
  IN /\ c.op = "save" /\ c.step \in {"done", "refused"}
     /\ calls' = Without(calls, {n})
     /\ saving' = saving \ {c.layer}
     /\ IF c.step = "refused"
        THEN Write(IF c.layer \in DOMAIN cache
                   THEN [cache EXCEPT ![c.layer].opacity = c.prior] ELSE cache)
        ELSE UNCHANGED list
     /\ Meets(IF \/ c.step = "refused" \/ SavedAnother(c, fetch.rows)
                 \/ c.layer \in DOMAIN cache /\ cache[c.layer].id # c.id
              THEN {c.layer} ELSE {})
     /\ UNCHANGED <<table_vars, fetch, sent, pending, timers, drafts, drags,
                    hostedOn, faults, misses>>

(* The GET: served, then mapped over what is already known *)
ListServed ==
  /\ fetch.step = "asked"
  /\ fetch' = [step |-> "served",
               rows |-> [l \in LayersStored |->
                           [id |-> RowOf(l), opacity |-> table[RowOf(l)]]]]
  /\ UNCHANGED <<table_vars, list, calls, sent, pending, opacityVars,
                 hostedOn, faults, misses, crossed>>

OnlyQueued == DOMAIN timers                                  \* a mutant

Unsaved == DOMAIN timers \cup saving

ListArrives ==
  /\ fetch.step = "served"
  /\ Write([l \in DOMAIN fetch.rows |->
              IF l \in Unsaved \cap DOMAIN cache
              THEN [fetch.rows[l] EXCEPT !.opacity = cache[l].opacity]
              ELSE fetch.rows[l]])
  /\ fetch' = Idle
  /\ Meets((OnItsWay \cap DOMAIN fetch.rows) \ DOMAIN cache)
  /\ UNCHANGED <<table_vars, calls, sent, pending, opacityVars, hostedOn,
                 faults, misses>>

ListFails ==
  /\ fetch.step # "idle" /\ faults + misses < MaxFaults
  /\ misses' = misses + 1
  /\ fetch' = Idle /\ failed' = TRUE
  /\ UNCHANGED <<table_vars, cache, loaded, calls, sent, pending, opacityVars,
                 hostedOn, faults, crossed>>

(* "Try again" of the enabled layers, and the network coming back to a list *)
(* that is stale: not one a toggle or a slider wrote a moment ago           *)
Stale == loaded /\ DOMAIN calls = {} /\ DOMAIN timers = {}

Retry ==
  /\ failed \/ Stale
  /\ fetch = Idle
  /\ fetch' = Asked
  /\ UNCHANGED <<table_vars, list, calls, sent, pending, opacityVars, hostedOn,
                 faults, misses, crossed>>

-----------------------------------------------------------------------------
Init ==
  /\ given = Stored
  /\ table = [i \in DOMAIN Stored |-> Default]
  /\ cache = <<>> /\ loaded = FALSE /\ failed = FALSE
  /\ fetch = Asked
  /\ calls = <<>> /\ sent = 0 /\ pending = {}
  /\ timers = <<>> /\ saving = {} /\ drafts = [l \in Layers |-> Default]
  /\ hostedOn = {} /\ drags = 0 /\ faults = 0 /\ misses = 0
  /\ crossed = {}

User ==
  \/ \E l \in Layers : SwitchOn(l) \/ SwitchOff(l) \/ \E p \in Percents : Drag(l, p)
  \/ \E h \in Hosted : SwitchHosted(h)
  \/ TurnAllOff
  \/ Retry

Server(n) ==
  \/ CountApplied(n) \/ StoreApplied(n) \/ RemoveApplied(n) \/ SaveOpacity(n)

Answer(n) == AnswerToggle(n) \/ AnswerSave(n)

Get == ListServed \/ ListArrives

Next ==
  \/ User
  \/ \E l \in Layers : TimerFires(l)
  \/ \E n \in DOMAIN calls : Server(n) \/ Lost(n) \/ Answer(n)
  \/ Get \/ ListFails

Spec == Init /\ [][Next]_vars

(* Requests are answered and timers fire; nobody has to touch anything *)
Fairness ==
  /\ \A l \in Layers : WF_vars(TimerFires(l))
  /\ WF_vars(\E n \in DOMAIN calls : Server(n) \/ Answer(n))
  /\ WF_vars(Get)

FairSpec == Spec /\ Fairness

-----------------------------------------------------------------------------
TypeOK ==
  /\ given \in Seq(Layers) /\ Over(table, DOMAIN given, Percents)
  /\ Over(cache, Layers, Entry) /\ {loaded, failed} \subseteq BOOLEAN
  /\ fetch.step \in {"idle", "asked", "served"} /\ Over(fetch.rows, Layers, Entry)
  /\ DOMAIN calls \subseteq 1..sent
  /\ \A n \in DOMAIN calls : IsCall(calls[n])
  /\ pending \subseteq Layers /\ {saving, crossed} \subseteq SUBSET Layers
  /\ Over(timers, Layers, [percent : Percents, prior : Percents])
  /\ drafts \in [Layers -> Percents] /\ hostedOn \subseteq Hosted
  /\ {sent, drags, faults, misses} \subseteq Nat

(* Whatever is rolled back and refetched in whatever order, a DELETE or a   *)
(* PATCH names a row that map-api handed out for that very layer, never the *)
(* stand-in (removeLayer, saveOpacity).                                     *)
CallsAddressOwnRow ==
  \A n \in DOMAIN calls :
    calls[n].op # "apply" =>
      /\ calls[n].id \in DOMAIN given
      /\ given[calls[n].id] = calls[n].layer

ListIsTable ==
  /\ DOMAIN cache = LayersStored
  /\ \A l \in DOMAIN cache : cache[l].id = RowOf(l)

(* When no toggle is out and the list has been fetched, the layers painted  *)
(* are the ones stored, each with the id of its row, however the toggles    *)
(* overlapped and whichever of them was refused (settle).                   *)
SettledListIsTable ==
  Toggles(calls) = {} /\ fetch = Idle /\ misses = 0 => ListIsTable

(* When the sliders have come to rest the opacity each layer is shown at is  *)
(* the one stored, whatever was switched, refused or fetched while it was   *)
(* dragged and saved (saveOpacity, and the query's answer that leaves alone *)
(* an opacity still to be saved).  crossed names what may part the two:     *)
(* a second save sent before the first is answered; a save refused, or      *)
(* answered with an older list on its way; a roll-back over the slider; the *)
(* layer switched on, or listed, again under it.                            *)
SliderIsStored ==
  Toggles(calls) = {} /\ fetch = Idle /\ misses = 0 =>
    \A l \in DOMAIN cache \ crossed :
      l \notin OnItsWay => cache[l].opacity = table[RowOf(l)]

(* Once nobody touches the panel it comes to show what is stored, if the    *)
(* list can be fetched.                                                     *)
AgreesInTheEnd == <>[](misses > 0 \/ ListIsTable)

(* A slider's save is sent or given up: it does not queue itself for ever   *)
(* behind a row that never gets its id.                                     *)
SavesDrain ==
  \A l \in Layers :
    l \in DOMAIN timers ~> l \notin DOMAIN timers \/ misses > 0

(* What the panel shows and sends is true: every call names a row of its    *)
(* own, and a settled list is the table (useAppliedLayers.ts, settle).      *)
PanelIsTrue == TypeOK /\ CallsAddressOwnRow /\ SettledListIsTable

(* Left alone, the list and the sliders' saves come to rest                 *)
(* (useAppliedLayers.ts, settle and saveOpacity).                           *)
ComesToRest == AgreesInTheEnd /\ SavesDrain

=============================================================================

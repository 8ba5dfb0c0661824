---------------------------- MODULE LayersProofs ----------------------------
(***************************************************************************)
(* Proofs about the layers of the panel, and about what draws them.        *)
(*                                                                         *)
(* AppliedLayers, for any number of layers, calls and faults: a call names *)
(* a row of the layer it is for, and a settled list is the table.          *)
(*                                                                         *)
(* MapView's operators, which MapViewProofs builds on: what a work does to *)
(* the stack and the looks of a map, that works of different layers leave  *)
(* each other alone, and that works handed over do in the end what they    *)
(* would have done one after the other, unless one overtook another.       *)
(***************************************************************************)
EXTENDS AppliedLayers, MapView, SequenceTheorems, FiniteSetTheorems, NaturalsInduction,
        WellFoundedInduction, TLAPS

-----------------------------------------------------------------------------
(* The inductive invariant *)

Lists == UNION {[D -> Entry] : D \in SUBSET Layers}
Record == [op : {"apply", "remove", "save"}, layer : Layers, id : RowId,
           percent : Percents, list : Lists, prior : Percents,
           step : {"sent", "counted", "done", "refused"}]

TableTyped == given \in Seq(Layers) /\ Over(table, DOMAIN given, Percents)
ListTyped ==
  /\ cache \in Lists /\ fetch.rows \in Lists
  /\ fetch.step \in {"idle", "asked", "served"} /\ {loaded, failed} \subseteq BOOLEAN
CallsTyped ==
  /\ sent \in Nat /\ DOMAIN calls \subseteq 1..sent
  /\ \A n \in DOMAIN calls : calls[n] \in Record
RestTyped ==
  /\ pending \subseteq Layers /\ saving \subseteq Layers
  /\ Over(timers, Layers, [percent : Percents, prior : Percents])
  /\ drafts \in [Layers -> Percents] /\ hostedOn \subseteq Hosted
  /\ {drags, faults, misses} \subseteq Nat

Typed == TableTyped /\ ListTyped /\ CallsTyped /\ RestTyped

(* An id was handed out for this very layer *)
Own(id, l) == id \in DOMAIN given /\ given[id] = l
OwnIds(entries) ==
  \A l \in DOMAIN entries : entries[l].id # StandIn => Own(entries[l].id, l)

(* Every list that may be painted, now or when a call is refused, and every *)
(* call that addresses a row or has been told its id                        *)
IdsOwn ==
  /\ OwnIds(cache) /\ OwnIds(fetch.rows)
  /\ \A n \in DOMAIN calls :
       /\ OwnIds(calls[n].list)
       /\ calls[n].op # "apply" \/ calls[n].step = "done" =>
            Own(calls[n].id, calls[n].layer)

IsTable(entries) ==
  /\ DOMAIN entries = LayersStored
  /\ \A l \in DOMAIN entries : entries[l].id = RowOf(l)

(* While a toggle is out no list is fetched; with none out, what is fetched *)
(* or painted is the table, unless a GET has failed.                        *)
Follows ==
  misses = 0 =>
    /\ ~failed
    /\ Toggles(calls) # {} => fetch = Idle
    /\ Toggles(calls) = {} /\ fetch.step = "served" => IsTable(fetch.rows)
    /\ Toggles(calls) = {} /\ fetch = Idle => IsTable(cache)

AppliedInv == Typed /\ IdsOwn /\ Follows

-----------------------------------------------------------------------------
(* Lists of layers *)

LEMMA ListsAre == \A f : f \in Lists <=> Over(f, Layers, Entry)
BY DEF Lists, Over

LEMMA NoEntries == <<>> \in Lists
<1>1. DOMAIN <<>> = {}
  OBVIOUS
<1>2. <<>> = [x \in {} |-> {}]
  BY <1>1
<1>3. <<>> \in [{} -> Entry]
  BY <1>2
<1> QED BY <1>3 DEF Lists

LEMMA ListAt ==
  ASSUME NEW f \in Lists
  PROVE  /\ DOMAIN f \subseteq Layers
         /\ \A l \in DOMAIN f : /\ f[l] \in Entry /\ f[l].id \in RowId
                                /\ f[l].opacity \in Percents
BY ListsAre DEF Over, Entry

LEMMA ListWith ==
  ASSUME NEW f \in Lists, NEW l \in Layers, NEW e \in Entry
  PROVE  With(f, l, e) \in Lists
<1>1. DOMAIN f \cup {l} \subseteq Layers
  BY ListAt
<1>2. \A k \in DOMAIN f : f[k] \in Entry
  BY ListAt
<1>3. With(f, l, e) \in [DOMAIN f \cup {l} -> Entry]
  BY <1>2 DEF With
<1> QED BY <1>1, <1>3 DEF Lists

LEMMA ListWithout ==
  ASSUME NEW f \in Lists, NEW D
  PROVE  Without(f, D) \in Lists
<1>1. DOMAIN f \ D \subseteq Layers
  BY ListAt
<1>2. \A k \in DOMAIN f : f[k] \in Entry
  BY ListAt
<1>3. Without(f, D) \in [DOMAIN f \ D -> Entry]
  BY <1>2 DEF Without
<1> QED BY <1>1, <1>3 DEF Lists

LEMMA EntryChanged ==
  ASSUME NEW e \in Entry
  PROVE  /\ \A i \in RowId : /\ [e EXCEPT !.id = i] \in Entry
                             /\ [e EXCEPT !.id = i].id = i
         /\ \A p \in Percents : /\ [e EXCEPT !.opacity = p] \in Entry
                                /\ [e EXCEPT !.opacity = p].id = e.id
BY DEF Entry

LEMMA ListId ==
  ASSUME NEW f \in Lists, NEW l \in DOMAIN f, NEW i \in RowId,
         NEW g, g = [f EXCEPT ![l].id = i]
  PROVE  /\ g \in Lists /\ DOMAIN g = DOMAIN f /\ g[l].id = i
         /\ \A k \in DOMAIN f \ {l} : g[k] = f[k]
<1>1. g[l] = [f[l] EXCEPT !.id = i]
  OBVIOUS
<1>2. DOMAIN g = DOMAIN f /\ \A k \in DOMAIN f \ {l} : g[k] = f[k]
  OBVIOUS
<1>3. g[l] \in Entry /\ g[l].id = i
  BY <1>1, ListAt, EntryChanged
<1>4. Over(g, Layers, Entry)
  BY <1>2, <1>3, ListAt DEF Over
<1> QED BY <1>2, <1>3, <1>4, ListsAre

LEMMA OpacityTyped ==
  ASSUME Typed, NEW l \in Layers
  PROVE  OpacityOf(l) \in Percents
BY ListAt DEF Typed, ListTyped, RestTyped, OpacityOf

LEMMA ToggleTyped ==
  ASSUME Typed, NEW op \in {"apply", "remove"}, NEW l \in Layers, NEW i \in RowId
  PROVE  ToggleCall(op, l, i) \in Record
<1>1. OpacityOf(l) \in Percents /\ Default \in Percents /\ cache \in Lists
  BY OpacityTyped, AppliedAssumption DEF Typed, ListTyped
<1> QED BY <1>1 DEF ToggleCall, Record

-----------------------------------------------------------------------------
(* The calls *)

LEMMA CallsGrow ==
  ASSUME CallsTyped, NEW c \in Record, Send(c)
  PROVE  /\ CallsTyped' /\ DOMAIN calls' = DOMAIN calls \cup {sent + 1}
         /\ calls'[sent + 1] = c
         /\ \A n \in DOMAIN calls : n # sent + 1 /\ calls'[n] = calls[n]
<1>1. sent + 1 \notin DOMAIN calls
  BY DEF CallsTyped
<1>2. /\ DOMAIN calls' = DOMAIN calls \cup {sent + 1} /\ calls'[sent + 1] = c
      /\ \A n \in DOMAIN calls : n # sent + 1 /\ calls'[n] = calls[n]
  BY <1>1 DEF Send, With
<1> QED BY <1>2 DEF Send, CallsTyped

LEMMA CallsChange ==
  ASSUME CallsTyped, NEW n \in DOMAIN calls, NEW c \in Record, Serve(n, c), sent' = sent
  PROVE  /\ CallsTyped' /\ DOMAIN calls' = DOMAIN calls /\ calls'[n] = c
         /\ \A m \in DOMAIN calls \ {n} : calls'[m] = calls[m]
BY DEF Serve, CallsTyped

LEMMA CallsLose ==
  ASSUME CallsTyped, NEW n, calls' = Without(calls, {n}), sent' = sent
  PROVE  /\ CallsTyped' /\ DOMAIN calls' = DOMAIN calls \ {n}
         /\ \A m \in DOMAIN calls' : calls'[m] = calls[m]
BY DEF Without, CallsTyped

(* A step of map-api on a call changes how far it is, and perhaps its id. *)
LEMMA CallChanged ==
  ASSUME NEW c \in Record, NEW t \in {"sent", "counted", "done", "refused"},
         NEW i \in RowId
  PROVE  LET d == [c EXCEPT !.step = t]
             e == [c EXCEPT !.step = t, !.id = i]
         IN  /\ d \in Record /\ d.op = c.op /\ d.layer = c.layer /\ d.id = c.id
             /\ d.list = c.list /\ d.step = t
             /\ e \in Record /\ e.op = c.op /\ e.layer = c.layer /\ e.id = i
             /\ e.list = c.list /\ e.step = t
BY DEF Record

-----------------------------------------------------------------------------
(* When the list follows the table *)

SameRows == given' = given /\ DOMAIN table' = DOMAIN table
SameIds(f, g) == DOMAIN f = DOMAIN g /\ \A l \in DOMAIN g : f[l].id = g[l].id

LEMMA CacheOpacity ==
  ASSUME Typed, NEW l \in DOMAIN cache, NEW p \in Percents,
         cache' = [cache EXCEPT ![l].opacity = p]
  PROVE  cache' \in Lists /\ SameIds(cache', cache)
<1>1. cache \in Lists
  BY DEF Typed, ListTyped
<1>2. cache'[l] = [cache[l] EXCEPT !.opacity = p]
  OBVIOUS
<1>3. /\ DOMAIN cache' = DOMAIN cache
      /\ \A k \in DOMAIN cache \ {l} : cache'[k] = cache[k]
      /\ cache' = [k \in DOMAIN cache' |-> cache'[k]]
  OBVIOUS
<1>4. cache'[l] \in Entry /\ cache'[l].id = cache[l].id
  BY <1>1, <1>2, ListAt, EntryChanged
<1>5. Over(cache', Layers, Entry)
  BY <1>1, <1>3, <1>4, ListAt DEF Over
<1> QED BY <1>3, <1>4, <1>5, ListsAre DEF SameIds

LEMMA TableIsSame ==
  ASSUME SameRows, NEW f, NEW g, SameIds(g, f), IsTable(f)
  PROVE  /\ DOMAIN g = LayersStored'
         /\ \A l \in DOMAIN g : g[l].id = RowOf(l)'
<1>1. LayersStored' = LayersStored /\ \A l : RowOf(l)' = RowOf(l)
  BY DEF SameRows, LayersStored, RowOf
<1> QED BY <1>1 DEF IsTable, SameIds

LEMMA FollowsStill ==
  ASSUME Follows, misses' = misses, failed' = failed \/ ~failed', fetch' = fetch,
         SameRows, SameIds(cache', cache),
         Toggles(calls') = {} <=> Toggles(calls) = {}
  PROVE  Follows'
<1>1. ASSUME IsTable(cache) PROVE IsTable(cache)'
  BY <1>1, TableIsSame DEF IsTable
<1>2. ASSUME IsTable(fetch.rows) PROVE IsTable(fetch.rows)'
  <2>1. SameIds(fetch.rows, fetch.rows)
    BY DEF SameIds
  <2> QED BY <1>2, <2>1, TableIsSame DEF IsTable
<1> QED BY <1>1, <1>2 DEF Follows, Toggles

LEMMA FollowsWhileOut ==
  ASSUME Follows, misses' = misses, failed' = failed \/ ~failed',
         Toggles(calls') # {}, fetch' = Idle \/ (fetch' = fetch /\ Toggles(calls) # {})
  PROVE  Follows'
BY DEF Follows, Toggles

-----------------------------------------------------------------------------
(* One action at a time: the user *)

LEMMA IdleTyped == Idle.rows \in Lists /\ Idle.step = "idle" /\ DOMAIN Idle.rows = {}
BY NoEntries DEF Idle

LEMMA SentIdsOwn ==
  ASSUME IdsOwn, given' = given, OwnIds(cache)', OwnIds(fetch.rows)',
         NEW c, NEW k, DOMAIN calls' = DOMAIN calls \cup {k}, calls'[k] = c,
         \A n \in DOMAIN calls : n # k /\ calls'[n] = calls[n], OwnIds(c.list),
         (c.op = "apply" /\ c.step = "sent") \/ Own(c.id, c.layer)
  PROVE  IdsOwn'
<1>1. ASSUME NEW n \in DOMAIN calls'
      PROVE  /\ OwnIds(calls'[n].list)
             /\ calls'[n].op # "apply" \/ calls'[n].step = "done" =>
                  Own(calls'[n].id, calls'[n].layer)
  BY <1>1 DEF IdsOwn
<1> QED BY <1>1 DEF IdsOwn, OwnIds, Own

LEMMA SwitchOnHolds ==
  ASSUME AppliedInv, NEW l \in Layers, SwitchOn(l)
  PROVE  AppliedInv'
<1> DEFINE c == ToggleCall("apply", l, StandIn)
           e == [id |-> StandIn, opacity |-> OpacityOf(l)]
<1>1. /\ Send(c) /\ cache' = With(cache, l, e) /\ loaded' = TRUE /\ failed' = FALSE
      /\ fetch' = Idle /\ pending' = pending \cup {l}
      /\ UNCHANGED <<table_vars, opacityVars, hostedOn, faults, misses>>
  BY DEF SwitchOn, Write
<1>2. c \in Record /\ e \in Entry
  BY ToggleTyped, OpacityTyped DEF AppliedInv, RowId, Entry
<1>3. c.op = "apply" /\ c.step = "sent" /\ c.list = cache /\ e.id = StandIn
  BY DEF ToggleCall
<1> HIDE DEF c, e
<1>4. /\ CallsTyped' /\ DOMAIN calls' = DOMAIN calls \cup {sent + 1}
      /\ calls'[sent + 1] = c
      /\ \A n \in DOMAIN calls : n # sent + 1 /\ calls'[n] = calls[n]
  BY <1>1, <1>2, CallsGrow DEF AppliedInv, Typed
<1>5. Typed'
  <2>1. TableTyped' /\ RestTyped'
    BY <1>1 DEF AppliedInv, Typed, TableTyped, RestTyped, table_vars, opacityVars, Over
  <2>2. ListTyped'
    BY <1>1, <1>2, ListWith, IdleTyped DEF AppliedInv, Typed, ListTyped
  <2> QED BY <1>4, <2>1, <2>2 DEF Typed
<1>6. IdsOwn'
  <2>1. OwnIds(cache)' /\ OwnIds(fetch.rows)'
    BY <1>1, <1>3, IdleTyped DEF AppliedInv, IdsOwn, OwnIds, Own, With, table_vars
  <2>2. OwnIds(c.list)
    BY <1>3 DEF AppliedInv, IdsOwn
  <2> QED BY <1>1, <1>3, <1>4, <2>1, <2>2, SentIdsOwn DEF AppliedInv, table_vars
<1>7. Follows'
  <2>1. Toggles(calls') # {}
    BY <1>3, <1>4 DEF Toggles
  <2> QED BY <1>1, <2>1, FollowsWhileOut DEF AppliedInv
<1> QED BY <1>5, <1>6, <1>7 DEF AppliedInv

LEMMA SwitchOffHolds ==
  ASSUME AppliedInv, NEW l \in Layers, SwitchOff(l)
  PROVE  AppliedInv'
<1> DEFINE c == ToggleCall("remove", l, cache[l].id)
<1>1. /\ Send(c) /\ cache' = Without(cache, {l}) /\ loaded' = TRUE /\ failed' = FALSE
      /\ fetch' = Idle /\ pending' = pending \cup {l} /\ timers' = Without(timers, {l})
      /\ UNCHANGED <<table_vars, saving, drafts, drags, hostedOn, faults, misses>>
      /\ Removable(l)
  BY DEF SwitchOff, Write
<1>2. c \in Record
  BY <1>1, ToggleTyped, ListAt DEF AppliedInv, Typed, ListTyped, Removable
<1>3. /\ c.op = "remove" /\ c.list = cache /\ c.layer = l /\ c.id = cache[l].id
  BY DEF ToggleCall
<1> HIDE DEF c
<1>4. /\ CallsTyped' /\ DOMAIN calls' = DOMAIN calls \cup {sent + 1}
      /\ calls'[sent + 1] = c
      /\ \A n \in DOMAIN calls : n # sent + 1 /\ calls'[n] = calls[n]
  BY <1>1, <1>2, CallsGrow DEF AppliedInv, Typed
<1>5. Typed'
  <2>1. TableTyped' /\ RestTyped'
    BY <1>1 DEF AppliedInv, Typed, TableTyped, RestTyped, table_vars, Over, Without
  <2>2. ListTyped'
    BY <1>1, ListWithout, IdleTyped DEF AppliedInv, Typed, ListTyped
  <2> QED BY <1>4, <2>1, <2>2 DEF Typed
<1>6. IdsOwn'
  <2>1. OwnIds(cache)' /\ OwnIds(fetch.rows)' /\ Own(c.id, c.layer)
    BY <1>1, <1>3, IdleTyped
    DEF AppliedInv, IdsOwn, OwnIds, Own, Without, Removable, table_vars
  <2>2. OwnIds(c.list)
    BY <1>3 DEF AppliedInv, IdsOwn
  <2> QED BY <1>1, <1>3, <1>4, <2>1, <2>2, SentIdsOwn DEF AppliedInv, table_vars
<1>7. Follows'
  <2>1. Toggles(calls') # {}
    BY <1>3, <1>4 DEF Toggles
  <2> QED BY <1>1, <2>1, FollowsWhileOut DEF AppliedInv
<1> QED BY <1>5, <1>6, <1>7 DEF AppliedInv

LEMMA TurnAllOffHolds ==
  ASSUME AppliedInv, TurnAllOff
  PROVE  AppliedInv'
<1> DEFINE off == {l \in SearchEnabled : Removable(l)}
           n   == Cardinality(off)
           c(l, N) == [ToggleCall("remove", l, cache[l].id) EXCEPT !.list = Without(@, N)]
<1>1. PICK rows \in [1..n -> off] :
        calls' = [m \in DOMAIN calls \cup (sent + 1)..(sent + n) |->
           IF m <= sent THEN calls[m]
           ELSE c(rows[m - sent], {rows[j] : j \in 1..(m - sent - 1)})]
  BY DEF TurnAllOff
<1>2. /\ sent' = sent + n /\ pending' = pending \cup off
      /\ hostedOn' = hostedOn \cap Starred /\ timers' = Without(timers, off)
      /\ IF off = {} THEN UNCHANGED <<list, fetch>>
         ELSE /\ cache' = Without(cache, off) /\ loaded' = TRUE /\ failed' = FALSE
              /\ fetch' = Idle
      /\ UNCHANGED <<table_vars, saving, drafts, drags, faults, misses>>
  BY DEF TurnAllOff, Write
<1>3. off \subseteq Layers /\ off \subseteq DOMAIN cache
      /\ \A l \in off : cache[l].id # StandIn
  BY ListAt DEF SearchEnabled, Removable, AppliedInv, Typed, ListTyped
<1>4. n \in Nat /\ (off # {} => n > 0)
  <2>1. IsFiniteSet(off)
    BY <1>3, AppliedAssumption, FS_Subset
  <2> QED BY <2>1, FS_CardinalityType, FS_EmptySet
<1>5. ASSUME NEW l \in off, NEW N
      PROVE  /\ c(l, N) \in Record /\ c(l, N).op = "remove" /\ c(l, N).layer = l
             /\ c(l, N).id = cache[l].id /\ c(l, N).list = Without(cache, N)
  <2>1. ToggleCall("remove", l, cache[l].id) \in Record
    BY <1>3, ToggleTyped, ListAt DEF AppliedInv, Typed, ListTyped
  <2>2. Without(cache, N) \in Lists
    BY ListWithout DEF AppliedInv, Typed, ListTyped
  <2> QED BY <2>1, <2>2 DEF ToggleCall, Record
<1>6. /\ sent \in Nat /\ DOMAIN calls \subseteq 1..sent
      /\ \A m \in DOMAIN calls : calls[m] \in Record
  BY DEF AppliedInv, Typed, CallsTyped
<1>7. /\ DOMAIN calls' = DOMAIN calls \cup (sent + 1)..(sent + n)
      /\ \A m \in DOMAIN calls : calls'[m] = calls[m]
      /\ \A m \in (sent + 1)..(sent + n) :
           \E l \in off, N \in SUBSET Layers : calls'[m] = c(l, N)
  <2>1. DOMAIN calls' = DOMAIN calls \cup (sent + 1)..(sent + n)
    BY <1>1
  <2>2. ASSUME NEW m \in DOMAIN calls PROVE calls'[m] = calls[m]
    BY <1>1, <1>6, <2>2
  <2>3. ASSUME NEW m \in (sent + 1)..(sent + n)
        PROVE  \E l \in off, N \in SUBSET Layers : calls'[m] = c(l, N)
    <3>1. m - sent \in 1..n /\ ~(m <= sent)
      BY <1>4, <1>6
    <3>2. rows[m - sent] \in off
      BY <3>1
    <3>3. {rows[j] : j \in 1..(m - sent - 1)} \in SUBSET Layers
      BY <1>3, <1>4, <1>6, <3>1
    <3>4. calls'[m] = c(rows[m - sent], {rows[j] : j \in 1..(m - sent - 1)})
      BY <1>1, <3>1
    <3> QED BY <3>2, <3>3, <3>4
  <2> QED BY <2>1, <2>2, <2>3
<1> HIDE DEF off, n, c
<1>8. CallsTyped'
  BY <1>2, <1>4, <1>5, <1>6, <1>7 DEF CallsTyped
<1>9. Typed'
  <2>1. TableTyped' /\ RestTyped'
    BY <1>2, <1>3 DEF AppliedInv, Typed, TableTyped, RestTyped, table_vars, Over, Without
  <2>2. ListTyped'
    BY <1>2, ListWithout, IdleTyped DEF AppliedInv, Typed, ListTyped, list
  <2> QED BY <1>8, <2>1, <2>2 DEF Typed
<1>10. IdsOwn'
  <2>1. OwnIds(cache)' /\ OwnIds(fetch.rows)'
    BY <1>2, IdleTyped DEF AppliedInv, IdsOwn, OwnIds, Own, Without, table_vars, list
  <2>2. ASSUME NEW m \in (sent + 1)..(sent + n)
        PROVE  OwnIds(calls'[m].list) /\ Own(calls'[m].id, calls'[m].layer)
    <3>1. PICK l \in off, N \in SUBSET Layers : calls'[m] = c(l, N)
      BY <1>7
    <3>2. OwnIds(Without(cache, N)) /\ Own(cache[l].id, l)
      BY <1>3 DEF AppliedInv, IdsOwn, OwnIds, Without
    <3> QED BY <1>5, <3>1, <3>2
  <2> QED BY <1>2, <1>7, <2>1, <2>2 DEF AppliedInv, IdsOwn, OwnIds, Own, table_vars
<1>11. Follows'
  <2>1. CASE off = {}
    <3>1. n = 0
      BY <2>1, FS_EmptySet DEF n
    <3>2. DOMAIN calls' = DOMAIN calls
      <4>1. (sent + 1)..(sent + n) = {}
        BY <1>6, <3>1
      <4> QED BY <1>7, <4>1
    <3>3. Toggles(calls') = Toggles(calls)
      BY <1>7, <3>2 DEF Toggles
    <3> QED BY <1>2, <2>1, <3>3, FollowsStill
         DEF AppliedInv, list, table_vars, SameRows, SameIds
  <2>2. CASE off # {}
    <3>1. sent + 1 \in (sent + 1)..(sent + n)
      BY <1>4, <1>6, <2>2
    <3>2. Toggles(calls') # {}
      BY <1>5, <1>7, <3>1 DEF Toggles
    <3> QED BY <1>2, <2>2, <3>2, FollowsWhileOut DEF AppliedInv
  <2> QED BY <2>1, <2>2
<1> QED BY <1>9, <1>10, <1>11 DEF AppliedInv

LEMMA SwitchHostedHolds ==
  ASSUME AppliedInv, NEW h \in Hosted, SwitchHosted(h)
  PROVE  AppliedInv'
<1>1. /\ hostedOn' \subseteq Hosted
      /\ UNCHANGED <<table_vars, list, fetch, calls, sent, pending, opacityVars,
                     faults, misses>>
  BY DEF SwitchHosted, AppliedInv, Typed, RestTyped
<1>2. Typed'
  BY <1>1 DEF AppliedInv, Typed, TableTyped, ListTyped, CallsTyped, RestTyped,
              table_vars, list, opacityVars, Over
<1>3. IdsOwn' /\ Follows'
  BY <1>1 DEF AppliedInv, IdsOwn, OwnIds, Own, Follows, Toggles, IsTable,
              LayersStored, RowOf, table_vars, list
<1> QED BY <1>2, <1>3 DEF AppliedInv

(* Steps that paint other opacities, or none *)
LEMMA PaintHolds ==
  ASSUME AppliedInv, cache' \in Lists, SameIds(cache', cache),
         loaded' \in BOOLEAN, failed' \in BOOLEAN, failed' = failed \/ ~failed',
         UNCHANGED <<table_vars, fetch, misses>>, CallsTyped', RestTyped',
         DOMAIN calls' \subseteq DOMAIN calls \cup {sent + 1},
         \A n \in DOMAIN calls' \cap DOMAIN calls : calls'[n] = calls[n],
         \A n \in DOMAIN calls \ DOMAIN calls' : calls[n].op = "save",
         \A n \in DOMAIN calls' \ DOMAIN calls :
           /\ calls'[n].op = "save" /\ calls'[n].list = <<>>
           /\ Own(calls'[n].id, calls'[n].layer)
  PROVE  AppliedInv'
<1>1. Typed'
  BY DEF AppliedInv, Typed, TableTyped, ListTyped, table_vars, Over
<1>2. IdsOwn'
  <2>1. OwnIds(cache)' /\ OwnIds(fetch.rows)'
    BY DEF AppliedInv, IdsOwn, OwnIds, Own, SameIds, table_vars
  <2>2. DOMAIN <<>> = {}
    OBVIOUS
  <2> QED BY <2>1, <2>2 DEF AppliedInv, IdsOwn, OwnIds, Own, table_vars
<1>3. Toggles(calls') = Toggles(calls)
  BY DEF Toggles
<1>4. Follows'
  BY <1>3, FollowsStill DEF AppliedInv, SameRows, table_vars
<1> QED BY <1>1, <1>2, <1>4 DEF AppliedInv

LEMMA DragHolds ==
  ASSUME AppliedInv, NEW l \in Layers, NEW p \in Percents, Drag(l, p)
  PROVE  AppliedInv'
<1>1. /\ drags' = drags + 1 /\ drafts' = [drafts EXCEPT ![l] = p]
      /\ UNCHANGED <<table_vars, fetch, calls, sent, pending, saving, hostedOn,
                     faults, misses>>
  BY DEF Drag
<1>2. CASE /\ l \in DOMAIN cache /\ cache' = [cache EXCEPT ![l].opacity = p]
           /\ loaded' = TRUE /\ failed' = FALSE
           /\ timers' = With(timers, l, [percent |-> p, prior |-> cache[l].opacity])
  <2>1. cache' \in Lists /\ SameIds(cache', cache)
    BY <1>2, CacheOpacity DEF AppliedInv
  <2>2. cache[l].opacity \in Percents
    BY <1>2, ListAt DEF AppliedInv, Typed, ListTyped
  <2>3. RestTyped'
    BY <1>1, <1>2, <2>2 DEF AppliedInv, Typed, RestTyped, Over, With
  <2>4. CallsTyped'
    BY <1>1 DEF AppliedInv, Typed, CallsTyped
  <2> QED BY <1>1, <1>2, <2>1, <2>3, <2>4, PaintHolds
<1>3. CASE UNCHANGED <<list, timers>>
  <2>1. RestTyped' /\ CallsTyped'
    BY <1>1, <1>3 DEF AppliedInv, Typed, RestTyped, CallsTyped, Over
  <2>2. /\ cache' \in Lists /\ SameIds(cache', cache)
        /\ {loaded', failed'} \subseteq BOOLEAN /\ failed' = failed
    BY <1>3 DEF AppliedInv, Typed, ListTyped, list, SameIds
  <2> QED BY <1>1, <2>1, <2>2, PaintHolds
<1> QED BY <1>2, <1>3 DEF Drag, Write

LEMMA TimerFiresHolds ==
  ASSUME AppliedInv, NEW l \in Layers, TimerFires(l)
  PROVE  AppliedInv'
<1> DEFINE t == timers[l]
<1>1. /\ l \in DOMAIN timers
      /\ UNCHANGED <<table_vars, fetch, pending, drafts, drags, hostedOn, faults, misses>>
  BY DEF TimerFires
<1>2. t.percent \in Percents /\ t.prior \in Percents
  BY <1>1 DEF AppliedInv, Typed, RestTyped, Over
<1>3. /\ cache \in Lists /\ {loaded, failed} \subseteq BOOLEAN
      /\ SameIds(cache, cache)
  BY DEF AppliedInv, Typed, ListTyped, SameIds
<1>4. CASE timers' = Without(timers, {l}) /\ UNCHANGED <<list, calls, sent, saving>>
  <2>1. RestTyped' /\ CallsTyped'
    BY <1>1, <1>4 DEF AppliedInv, Typed, RestTyped, CallsTyped, Over, Without
  <2> QED BY <1>1, <1>3, <1>4, <2>1, PaintHolds DEF list
<1>5. CASE /\ l \in DOMAIN cache /\ cache' = [cache EXCEPT ![l].opacity = t.percent]
           /\ loaded' = TRUE /\ failed' = FALSE
           /\ timers' = With(timers, l, [percent |-> t.percent, prior |-> cache[l].opacity])
           /\ UNCHANGED <<calls, sent, saving>>
  <2>1. cache' \in Lists /\ SameIds(cache', cache)
    BY <1>2, <1>5, CacheOpacity DEF AppliedInv
  <2>2. cache[l].opacity \in Percents
    BY <1>5, ListAt DEF AppliedInv, Typed, ListTyped
  <2>3. RestTyped' /\ CallsTyped'
    BY <1>1, <1>2, <1>5, <2>2 DEF AppliedInv, Typed, RestTyped, CallsTyped, Over, With
  <2> QED BY <1>1, <1>5, <2>1, <2>3, PaintHolds
<1>6. CASE /\ Removable(l)
           /\ Send([op |-> "save", layer |-> l, id |-> cache[l].id,
                    percent |-> t.percent, list |-> <<>>, prior |-> t.prior,
                    step |-> "sent"])
           /\ saving' = saving \cup {l} /\ timers' = Without(timers, {l})
           /\ UNCHANGED list
  <2> DEFINE c == [op |-> "save", layer |-> l, id |-> cache[l].id,
                   percent |-> t.percent, list |-> <<>>, prior |-> t.prior,
                   step |-> "sent"]
  <2>1. c \in Record
    BY <1>2, <1>3, <1>6, ListAt, NoEntries DEF Record, Removable
  <2>2. Own(c.id, c.layer) /\ c.op = "save" /\ c.list = <<>>
    BY <1>6 DEF AppliedInv, IdsOwn, OwnIds, Removable
  <2> HIDE DEF c
  <2>3. /\ CallsTyped' /\ DOMAIN calls' = DOMAIN calls \cup {sent + 1}
        /\ calls'[sent + 1] = c
        /\ \A n \in DOMAIN calls : n # sent + 1 /\ calls'[n] = calls[n]
    BY <1>6, <2>1, CallsGrow DEF AppliedInv, Typed, c
  <2>4. RestTyped'
    BY <1>1, <1>6 DEF AppliedInv, Typed, RestTyped, Over, Without
  <2> QED BY <1>1, <1>3, <1>6, <2>2, <2>3, <2>4, PaintHolds DEF list
<1> QED BY <1>4, <1>5, <1>6 DEF TimerFires, Write

-----------------------------------------------------------------------------
(* One action at a time: map-api *)

(* A call moves on and the rows stay which they are. *)
LEMMA CallStepHolds ==
  ASSUME AppliedInv, NEW n \in DOMAIN calls,
         NEW t \in {"counted", "done", "refused"},
         calls[n].op # "apply" \/ t # "done",
         Serve(n, [calls[n] EXCEPT !.step = t]), SameRows, TableTyped',
         faults' \in Nat,
         UNCHANGED <<list, fetch, sent, pending, opacityVars, hostedOn, misses>>
  PROVE  AppliedInv'
<1> DEFINE d == [calls[n] EXCEPT !.step = t]
<1>1. calls[n] \in Record
  BY DEF AppliedInv, Typed, CallsTyped
<1>2. /\ d \in Record /\ d.op = calls[n].op /\ d.layer = calls[n].layer
      /\ d.id = calls[n].id /\ d.list = calls[n].list /\ d.step = t
  BY <1>1 DEF Record
<1> HIDE DEF d
<1>3. /\ CallsTyped' /\ DOMAIN calls' = DOMAIN calls /\ calls'[n] = d
      /\ \A m \in DOMAIN calls \ {n} : calls'[m] = calls[m]
  BY <1>2, CallsChange DEF AppliedInv, Typed, d
<1>4. Typed'
  <2>1. ListTyped' /\ RestTyped'
    BY DEF AppliedInv, Typed, ListTyped, RestTyped, list, opacityVars, Over
  <2> QED BY <1>3, <2>1 DEF Typed
<1>5. IdsOwn'
  <2>1. OwnIds(cache)' /\ OwnIds(fetch.rows)'
    BY DEF AppliedInv, IdsOwn, OwnIds, Own, SameRows, list
  <2>2. ASSUME NEW m \in DOMAIN calls'
        PROVE  /\ OwnIds(calls'[m].list)
               /\ calls'[m].op # "apply" \/ calls'[m].step = "done" =>
                    Own(calls'[m].id, calls'[m].layer)
    BY <1>2, <1>3 DEF AppliedInv, IdsOwn
  <2> QED BY <2>1, <2>2 DEF IdsOwn, OwnIds, Own, SameRows
<1>6. Follows'
  <2>1. Toggles(calls') = Toggles(calls)
    BY <1>2, <1>3 DEF Toggles
  <2>2. SameIds(cache', cache)
    BY DEF list, SameIds
  <2> QED BY <2>1, <2>2, FollowsStill DEF AppliedInv, list
<1> QED BY <1>4, <1>5, <1>6 DEF AppliedInv

LEMMA CountAppliedHolds ==
  ASSUME AppliedInv, NEW n \in DOMAIN calls, CountApplied(n)
  PROVE  AppliedInv'
<1>1. /\ UNCHANGED <<given, table, faults>>
      /\ UNCHANGED <<list, fetch, sent, pending, opacityVars, hostedOn, misses>>
  BY DEF CountApplied, OthersKeep, table_vars
<1>2. SameRows /\ TableTyped' /\ faults' \in Nat
  BY <1>1 DEF AppliedInv, Typed, TableTyped, RestTyped, SameRows, Over
<1>3. \/ Serve(n, [calls[n] EXCEPT !.step = "counted"])
      \/ Serve(n, [calls[n] EXCEPT !.step = "refused"])
  BY DEF CountApplied, Refused
<1> QED BY <1>1, <1>2, <1>3, CallStepHolds

LEMMA LostHolds ==
  ASSUME AppliedInv, NEW n \in DOMAIN calls, Lost(n)
  PROVE  AppliedInv'
<1>1. /\ UNCHANGED <<given, table>> /\ faults' = faults + 1
      /\ UNCHANGED <<list, fetch, sent, pending, opacityVars, hostedOn, misses>>
      /\ Serve(n, [calls[n] EXCEPT !.step = "refused"])
  BY DEF Lost, Refused, table_vars
<1>2. SameRows /\ TableTyped' /\ faults' \in Nat
  BY <1>1 DEF AppliedInv, Typed, TableTyped, RestTyped, SameRows, Over
<1> QED BY <1>1, <1>2, CallStepHolds

LEMMA SaveOpacityHolds ==
  ASSUME AppliedInv, NEW n \in DOMAIN calls, SaveOpacity(n)
  PROVE  AppliedInv'
<1>1. /\ given' = given /\ faults' = faults /\ calls[n].op = "save"
      /\ UNCHANGED <<list, fetch, sent, pending, opacityVars, hostedOn, misses>>
  BY DEF SaveOpacity, OthersKeep
<1>2. calls[n].percent \in Percents
  BY DEF AppliedInv, Typed, CallsTyped, Record
<1>3. SameRows /\ TableTyped' /\ faults' \in Nat
  BY <1>1, <1>2 DEF SaveOpacity, AppliedInv, Typed, TableTyped, RestTyped, SameRows, Over
<1>4. \/ Serve(n, [calls[n] EXCEPT !.step = "done"])
      \/ Serve(n, [calls[n] EXCEPT !.step = "refused"])
  BY DEF SaveOpacity, Done, Refused
<1> QED BY <1>1, <1>3, <1>4, CallStepHolds

(* A row stored is of its own layer. *)
LEMMA RowIsOwn ==
  ASSUME AppliedInv, NEW l \in LayersStored
  PROVE  /\ l \in Layers /\ RowOf(l) \in DOMAIN table /\ RowOf(l) \in RowId
         /\ RowOf(l) # StandIn /\ Own(RowOf(l), l) /\ table[RowOf(l)] \in Percents
<1>1. \E i \in DOMAIN table : given[i] = l
  BY DEF LayersStored
<1>2. RowOf(l) \in DOMAIN table /\ given[RowOf(l)] = l
  BY <1>1 DEF RowOf
<1>3. DOMAIN table \subseteq DOMAIN given /\ given \in Seq(Layers)
  BY DEF AppliedInv, Typed, TableTyped, Over
<1>4. RowOf(l) \in DOMAIN given /\ RowOf(l) \in 1..Len(given)
  BY <1>2, <1>3
<1>5. l \in Layers
  BY <1>2, <1>3, <1>4
<1>6. table[RowOf(l)] \in Percents
  BY <1>2 DEF AppliedInv, Typed, TableTyped, Over
<1>7. RowOf(l) \in RowId /\ RowOf(l) # StandIn
  BY <1>3, <1>4 DEF RowId, StandIn
<1> QED BY <1>2, <1>4, <1>5, <1>6, <1>7 DEF Own

LEMMA StoreAppliedHolds ==
  ASSUME AppliedInv, NEW n \in DOMAIN calls, StoreApplied(n)
  PROVE  AppliedInv'
<1> DEFINE l == calls[n].layer
           i == IF Stores(l) THEN RowOf(l) ELSE NextId
           d == [calls[n] EXCEPT !.step = "done", !.id = i]
           OwnNext(j, k) == j \in DOMAIN given' /\ given'[j] = k
<1>1. /\ calls[n].op = "apply" /\ Serve(n, d) /\ calls[n] \in Record
      /\ UNCHANGED <<list, fetch, sent, pending, opacityVars, hostedOn, faults, misses>>
  BY DEF StoreApplied, OthersKeep, AppliedInv, Typed, CallsTyped
<1>2. l \in Layers /\ calls[n].percent \in Percents
  BY <1>1 DEF Record
<1>3. given \in Seq(Layers) /\ NextId \in Nat /\ NextId = Len(given) + 1
  BY DEF AppliedInv, Typed, TableTyped, NextId
<1>4. /\ TableTyped' /\ i \in RowId /\ OwnNext(i, l)
      /\ \A j, k : Own(j, k) => OwnNext(j, k)
  <2>1. CASE Stores(l)
    <3>1. UNCHANGED <<given, table>> /\ i = RowOf(l) /\ l \in LayersStored
      BY <2>1 DEF StoreApplied, Stores, table_vars
    <3>2. i \in RowId /\ Own(i, l)
      BY <3>1, RowIsOwn
    <3>3. TableTyped'
      BY <3>1 DEF AppliedInv, Typed, TableTyped, Over
    <3> HIDE DEF i
    <3>4. OwnNext(i, l) /\ \A j, k : Own(j, k) => OwnNext(j, k)
      BY <3>1, <3>2 DEF Own
    <3> QED BY <3>2, <3>3, <3>4
  <2>2. CASE ~Stores(l)
    <3>1. /\ given' = Append(given, l) /\ i = NextId
          /\ table' = With(table, NextId, calls[n].percent)
      BY <2>2 DEF StoreApplied
    <3>2. /\ given' \in Seq(Layers) /\ Len(given') = Len(given) + 1
          /\ given'[NextId] = l /\ NextId \in DOMAIN given'
          /\ \A j \in DOMAIN given : j \in DOMAIN given' /\ given'[j] = given[j]
      BY <1>2, <1>3, <3>1
    <3>3. Over(table', DOMAIN given', Percents)
      BY <1>2, <3>1, <3>2 DEF AppliedInv, Typed, TableTyped, Over, With
    <3>4. i \in RowId
      BY <1>3, <3>1 DEF RowId
    <3>5. OwnNext(i, l)
      BY <3>1, <3>2
    <3>6. TableTyped'
      BY <3>2, <3>3 DEF TableTyped
    <3>7. \A j, k : Own(j, k) => OwnNext(j, k)
      BY <3>2 DEF Own
    <3> QED BY <3>4, <3>5, <3>6, <3>7
  <2> QED BY <2>1, <2>2
<1>5. /\ d \in Record /\ d.op = calls[n].op /\ d.layer = l /\ d.id = i
      /\ d.list = calls[n].list /\ d.step = "done"
  BY <1>1, <1>4 DEF Record
<1> HIDE DEF d, i, OwnNext
<1>6. /\ CallsTyped' /\ DOMAIN calls' = DOMAIN calls /\ calls'[n] = d
      /\ \A m \in DOMAIN calls \ {n} : calls'[m] = calls[m]
  BY <1>1, <1>5, CallsChange DEF AppliedInv, Typed
<1>7. Typed'
  <2>1. ListTyped' /\ RestTyped'
    BY <1>1 DEF AppliedInv, Typed, ListTyped, RestTyped, list, opacityVars, Over
  <2> QED BY <1>4, <1>6, <2>1 DEF Typed
<1>8. IdsOwn'
  <2>1. ASSUME NEW f, OwnIds(f)
        PROVE  \A k \in DOMAIN f : f[k].id # StandIn => OwnNext(f[k].id, k)
    BY <1>4, <2>1 DEF OwnIds
  <2>2. OwnIds(cache)' /\ OwnIds(fetch.rows)'
    <3>1. OwnIds(cache) /\ OwnIds(fetch.rows) /\ cache' = cache /\ fetch' = fetch
      BY <1>1 DEF AppliedInv, IdsOwn, list
    <3>2. /\ \A k \in DOMAIN cache : cache[k].id # StandIn => OwnNext(cache[k].id, k)
          /\ \A k \in DOMAIN fetch.rows : fetch.rows[k].id # StandIn =>
               OwnNext(fetch.rows[k].id, k)
      BY <2>1, <3>1
    <3> QED BY <3>1, <3>2 DEF OwnIds, Own, OwnNext
  <2>3. ASSUME NEW m \in DOMAIN calls'
        PROVE  /\ OwnIds(calls'[m].list)
               /\ calls'[m].op # "apply" \/ calls'[m].step = "done" =>
                    OwnNext(calls'[m].id, calls'[m].layer)
    <3>1. m \in DOMAIN calls /\ calls'[m].list = calls[m].list
      BY <1>5, <1>6
    <3>2. OwnIds(calls'[m].list)
      BY <3>1 DEF AppliedInv, IdsOwn
    <3>3. CASE m = n
      BY <1>4, <1>5, <1>6, <3>2, <3>3
    <3>4. CASE m # n
      <4>1. calls'[m] = calls[m]
        BY <1>6, <3>1, <3>4
      <4>2. calls[m].op # "apply" \/ calls[m].step = "done" =>
              Own(calls[m].id, calls[m].layer)
        BY <3>1 DEF AppliedInv, IdsOwn
      <4> QED BY <1>4, <3>2, <4>1, <4>2
    <3> QED BY <3>3, <3>4
  <2>4. ASSUME NEW m \in DOMAIN calls'
        PROVE  \A k \in DOMAIN calls'[m].list : calls'[m].list[k].id # StandIn =>
                 OwnNext(calls'[m].list[k].id, k)
    BY <2>1, <2>3 DEF OwnIds
  <2> QED BY <2>2, <2>3, <2>4 DEF IdsOwn, OwnIds, Own, OwnNext
<1>9. Follows'
  <2>1. n \in Toggles(calls) /\ n \in Toggles(calls')
    BY <1>1, <1>5, <1>6 DEF Toggles
  <2> QED BY <1>1, <2>1, FollowsWhileOut DEF AppliedInv, list
<1> QED BY <1>7, <1>8, <1>9 DEF AppliedInv

LEMMA RemoveAppliedHolds ==
  ASSUME AppliedInv, NEW n \in DOMAIN calls, RemoveApplied(n)
  PROVE  AppliedInv'
<1> DEFINE d == [calls[n] EXCEPT !.step = "done"]
<1>1. /\ calls[n].op = "remove" /\ Serve(n, d) /\ calls[n] \in Record
      /\ given' = given /\ table' = Without(table, {calls[n].id})
      /\ UNCHANGED <<list, fetch, sent, pending, opacityVars, hostedOn, faults, misses>>
  BY DEF RemoveApplied, Done, OthersKeep, AppliedInv, Typed, CallsTyped
<1>2. /\ d \in Record /\ d.op = calls[n].op /\ d.layer = calls[n].layer
      /\ d.id = calls[n].id /\ d.list = calls[n].list /\ d.step = "done"
  BY <1>1 DEF Record
<1> HIDE DEF d
<1>3. /\ CallsTyped' /\ DOMAIN calls' = DOMAIN calls /\ calls'[n] = d
      /\ \A m \in DOMAIN calls \ {n} : calls'[m] = calls[m]
  BY <1>1, <1>2, CallsChange DEF AppliedInv, Typed
<1>4. Typed'
  <2>1. ListTyped' /\ RestTyped'
    BY <1>1 DEF AppliedInv, Typed, ListTyped, RestTyped, list, opacityVars, Over
  <2>2. TableTyped'
    BY <1>1 DEF AppliedInv, Typed, TableTyped, Over, Without
  <2> QED BY <1>3, <2>1, <2>2 DEF Typed
<1>5. IdsOwn'
  <2>1. OwnIds(cache)' /\ OwnIds(fetch.rows)'
    BY <1>1 DEF AppliedInv, IdsOwn, OwnIds, Own, list
  <2>2. ASSUME NEW m \in DOMAIN calls'
        PROVE  /\ OwnIds(calls'[m].list)
               /\ calls'[m].op # "apply" \/ calls'[m].step = "done" =>
                    Own(calls'[m].id, calls'[m].layer)
    BY <1>1, <1>2, <1>3 DEF AppliedInv, IdsOwn
  <2> QED BY <1>1, <2>1, <2>2 DEF IdsOwn, OwnIds, Own
<1>6. Follows'
  <2>1. n \in Toggles(calls) /\ n \in Toggles(calls')
    BY <1>1, <1>2, <1>3 DEF Toggles
  <2> QED BY <1>1, <2>1, FollowsWhileOut DEF AppliedInv, list
<1> QED BY <1>4, <1>5, <1>6 DEF AppliedInv

-----------------------------------------------------------------------------
(* One action at a time: the answers *)

LEMMA CacheId ==
  ASSUME Typed, NEW l \in DOMAIN cache, NEW i \in RowId, cache' = IdOnly(l, i)
  PROVE  /\ cache' \in Lists /\ DOMAIN cache' = DOMAIN cache /\ cache'[l].id = i
         /\ \A k \in DOMAIN cache \ {l} : cache'[k] = cache[k]
<1>1. cache \in Lists
  BY DEF Typed, ListTyped
<1>2. cache'[l] = [cache[l] EXCEPT !.id = i]
  BY DEF IdOnly
<1>3. /\ DOMAIN cache' = DOMAIN cache
      /\ \A k \in DOMAIN cache \ {l} : cache'[k] = cache[k]
      /\ cache' = [k \in DOMAIN cache' |-> cache'[k]]
  BY DEF IdOnly
<1>4. cache'[l] \in Entry /\ cache'[l].id = i
  BY <1>1, <1>2, ListAt, EntryChanged
<1>5. Over(cache', Layers, Entry)
  BY <1>1, <1>3, <1>4, ListAt DEF Over
<1> QED BY <1>3, <1>4, <1>5, ListsAre

LEMMA AskedTyped == Asked.rows \in Lists /\ Asked.step = "asked" /\ DOMAIN Asked.rows = {}
BY NoEntries DEF Asked

LEMMA AnswerToggleHolds ==
  ASSUME AppliedInv, NEW n \in DOMAIN calls, AnswerToggle(n)
  PROVE  AppliedInv'
<1> DEFINE c == calls[n]
<1>1. /\ c.op # "save" /\ c.step \in {"done", "refused"}
      /\ calls' = Without(calls, {n}) /\ pending' = pending \ {c.layer}
      /\ fetch' = IF Settled(calls') THEN Asked ELSE fetch
      /\ UNCHANGED <<table_vars, sent, opacityVars, hostedOn, faults, misses>>
  BY DEF AnswerToggle
<1>2. c \in Record /\ OwnIds(c.list) /\ (c.step = "done" => Own(c.id, c.layer))
  BY DEF AppliedInv, Typed, CallsTyped, IdsOwn
<1>3. /\ CallsTyped' /\ DOMAIN calls' = DOMAIN calls \ {n}
      /\ \A m \in DOMAIN calls' : calls'[m] = calls[m]
  BY <1>1, CallsLose DEF AppliedInv, Typed
<1>4. /\ cache' \in Lists /\ loaded' \in BOOLEAN /\ failed' \in BOOLEAN
      /\ (failed' = failed \/ ~failed') /\ OwnIds(cache')
  <2>1. CASE c.step = "refused" /\ Write(c.list)
    BY <1>2, <2>1 DEF Write, Record
  <2>2. CASE c.step = "done" /\ c.layer \in DOMAIN cache /\ Write(IdOnly(c.layer, c.id))
    <3>1. c.id \in RowId /\ Own(c.id, c.layer)
      BY <1>2, <2>2 DEF Record
    <3>2. /\ cache' \in Lists /\ DOMAIN cache' = DOMAIN cache
          /\ cache'[c.layer].id = c.id
          /\ \A k \in DOMAIN cache \ {c.layer} : cache'[k] = cache[k]
      BY <2>2, <3>1, CacheId DEF AppliedInv, Write
    <3>3. OwnIds(cache)
      BY DEF AppliedInv, IdsOwn
    <3>4. OwnIds(cache')
      BY <3>1, <3>2, <3>3 DEF OwnIds
    <3> QED BY <2>2, <3>2, <3>4 DEF Write
  <2>3. CASE UNCHANGED list
    BY <2>3 DEF AppliedInv, Typed, ListTyped, IdsOwn, list
  <2> QED BY <1>1, <2>1, <2>2, <2>3 DEF AnswerToggle
<1>5. Typed'
  <2>1. TableTyped' /\ RestTyped'
    BY <1>1 DEF AppliedInv, Typed, TableTyped, RestTyped, table_vars, opacityVars, Over
  <2>2. ListTyped'
    BY <1>1, <1>4, AskedTyped DEF AppliedInv, Typed, ListTyped
  <2> QED BY <1>3, <2>1, <2>2 DEF Typed
<1>6. IdsOwn'
  <2>1. OwnIds(cache)'
    BY <1>1, <1>4 DEF OwnIds, Own, table_vars
  <2>2. OwnIds(fetch.rows)'
    BY <1>1, AskedTyped DEF AppliedInv, IdsOwn, OwnIds, Own, table_vars
  <2>3. ASSUME NEW m \in DOMAIN calls'
        PROVE  /\ OwnIds(calls'[m].list)
               /\ calls'[m].op # "apply" \/ calls'[m].step = "done" =>
                    Own(calls'[m].id, calls'[m].layer)
    BY <1>3 DEF AppliedInv, IdsOwn
  <2> QED BY <1>1, <2>1, <2>2, <2>3 DEF IdsOwn, OwnIds, Own, table_vars
<1>7. Follows'
  <2>1. CASE Settled(calls')
    <3>1. Toggles(calls') = {} /\ fetch' = Asked
      BY <1>1, <2>1 DEF Settled
    <3>2. Asked # Idle /\ Asked.step # "served"
      BY DEF Asked, Idle
    <3>3. misses = 0 => ~failed
      BY DEF AppliedInv, Follows
    <3> QED BY <1>1, <1>4, <3>1, <3>2, <3>3 DEF Follows, Toggles
  <2>2. CASE ~Settled(calls')
    <3>1. Toggles(calls') # {} /\ fetch' = fetch /\ n \in Toggles(calls)
      BY <1>1, <2>2 DEF Settled, Toggles
    <3> QED BY <1>1, <1>4, <3>1, FollowsWhileOut DEF AppliedInv
  <2> QED BY <2>1, <2>2
<1> QED BY <1>5, <1>6, <1>7 DEF AppliedInv

LEMMA AnswerSaveHolds ==
  ASSUME AppliedInv, NEW n \in DOMAIN calls, AnswerSave(n)
  PROVE  AppliedInv'
<1> DEFINE c == calls[n]
<1>1. /\ c.op = "save" /\ calls' = Without(calls, {n}) /\ saving' = saving \ {c.layer}
      /\ UNCHANGED <<table_vars, fetch, sent, pending, timers, drafts, drags,
                     hostedOn, faults, misses>>
  BY DEF AnswerSave
<1>2. c.prior \in Percents
  BY DEF AppliedInv, Typed, CallsTyped, Record
<1>3. /\ CallsTyped' /\ DOMAIN calls' = DOMAIN calls \ {n}
      /\ \A m \in DOMAIN calls' : calls'[m] = calls[m]
  BY <1>1, CallsLose DEF AppliedInv, Typed
<1>4. RestTyped'
  BY <1>1 DEF AppliedInv, Typed, RestTyped, Over
<1>5. /\ cache' \in Lists /\ SameIds(cache', cache) /\ loaded' \in BOOLEAN
      /\ failed' \in BOOLEAN /\ (failed' = failed \/ ~failed')
  <2>1. CASE /\ c.layer \in DOMAIN cache /\ loaded' = TRUE /\ failed' = FALSE
             /\ cache' = [cache EXCEPT ![c.layer].opacity = c.prior]
    BY <1>2, <2>1, CacheOpacity DEF AppliedInv
  <2>2. CASE cache' = cache /\ loaded' = TRUE /\ failed' = FALSE
    BY <2>2 DEF AppliedInv, Typed, ListTyped, SameIds
  <2>3. CASE UNCHANGED list
    BY <2>3 DEF AppliedInv, Typed, ListTyped, SameIds, list
  <2> QED BY <2>1, <2>2, <2>3 DEF AnswerSave, Write
<1>6. /\ DOMAIN calls' \subseteq DOMAIN calls \cup {sent + 1}
      /\ \A m \in DOMAIN calls' \cap DOMAIN calls : calls'[m] = calls[m]
      /\ \A m \in DOMAIN calls \ DOMAIN calls' : calls[m].op = "save"
      /\ DOMAIN calls' \ DOMAIN calls = {}
  BY <1>1, <1>3
<1>7. \A m \in DOMAIN calls' \ DOMAIN calls :
        /\ calls'[m].op = "save" /\ calls'[m].list = <<>>
        /\ Own(calls'[m].id, calls'[m].layer)
  BY <1>6
<1>8. UNCHANGED <<table_vars, fetch, misses>> /\ CallsTyped'
  BY <1>1, <1>3
<1> HIDE DEF c
<1> QED BY <1>4, <1>5, <1>6, <1>7, <1>8, PaintHolds

LEMMA ListServedHolds ==
  ASSUME AppliedInv, ListServed
  PROVE  AppliedInv'
<1> DEFINE rows == [l \in LayersStored |->
                      [id |-> RowOf(l), opacity |-> table[RowOf(l)]]]
<1>1. /\ fetch.step = "asked" /\ fetch' = [step |-> "served", rows |-> rows]
      /\ UNCHANGED <<table_vars, list, calls, sent, pending, opacityVars,
                     hostedOn, faults, misses>>
  BY DEF ListServed
<1>2. \A l \in LayersStored : /\ l \in Layers /\ rows[l] \in Entry
                              /\ rows[l].id = RowOf(l) /\ Own(RowOf(l), l)
  BY RowIsOwn DEF Entry
<1>3. DOMAIN rows = LayersStored
  OBVIOUS
<1>4. Over(rows, Layers, Entry)
  BY <1>2, <1>3 DEF Over
<1>5. rows \in Lists /\ OwnIds(rows)
  BY <1>2, <1>3, <1>4, ListsAre DEF OwnIds
<1> HIDE DEF rows
<1>6. Typed'
  BY <1>1, <1>5 DEF AppliedInv, Typed, TableTyped, ListTyped, CallsTyped, RestTyped,
                    table_vars, list, opacityVars, Over
<1>7. IdsOwn'
  BY <1>1, <1>5 DEF AppliedInv, IdsOwn, OwnIds, Own, table_vars, list
<1>8. Follows'
  <2>1. IsTable(fetch.rows)' /\ fetch' # Idle
    <3>1. fetch'.rows = rows /\ fetch'.step = "served"
      BY <1>1
    <3>2. LayersStored' = LayersStored /\ \A l : RowOf(l)' = RowOf(l)
      BY <1>1 DEF LayersStored, RowOf, table_vars
    <3> QED BY <1>2, <1>3, <3>1, <3>2 DEF IsTable, Idle
  <2>2. fetch # Idle
    BY <1>1 DEF Idle
  <2> QED BY <1>1, <2>1, <2>2 DEF AppliedInv, Follows, Toggles, list
<1> QED BY <1>6, <1>7, <1>8 DEF AppliedInv

LEMMA ListArrivesHolds ==
  ASSUME AppliedInv, ListArrives
  PROVE  AppliedInv'
<1> DEFINE kept(l) == IF l \in Unsaved \cap DOMAIN cache
                      THEN [fetch.rows[l] EXCEPT !.opacity = cache[l].opacity]
                      ELSE fetch.rows[l]
<1>1. /\ fetch.step = "served" /\ cache' = [l \in DOMAIN fetch.rows |-> kept(l)]
      /\ loaded' = TRUE /\ failed' = FALSE /\ fetch' = Idle
      /\ UNCHANGED <<table_vars, calls, sent, pending, opacityVars, hostedOn,
                     faults, misses>>
  BY DEF ListArrives, Write
<1>2. ASSUME NEW l \in DOMAIN fetch.rows
      PROVE  kept(l) \in Entry /\ kept(l).id = fetch.rows[l].id
  <2>1. fetch.rows[l] \in Entry
    BY ListAt DEF AppliedInv, Typed, ListTyped
  <2>2. l \in DOMAIN cache => cache[l].opacity \in Percents
    BY ListAt DEF AppliedInv, Typed, ListTyped
  <2> QED BY <2>1, <2>2, EntryChanged
<1>3. DOMAIN fetch.rows \subseteq Layers
  BY ListAt DEF AppliedInv, Typed, ListTyped
<1> HIDE DEF kept
<1>4. cache' \in Lists
  BY <1>1, <1>2, <1>3 DEF Lists
<1>5. SameIds(cache', fetch.rows)
  BY <1>1, <1>2 DEF SameIds
<1>6. Typed'
  BY <1>1, <1>4, IdleTyped
  DEF AppliedInv, Typed, TableTyped, ListTyped, CallsTyped, RestTyped, table_vars,
      opacityVars, Over
<1>7. IdsOwn'
  BY <1>1, <1>5, IdleTyped DEF AppliedInv, IdsOwn, OwnIds, Own, SameIds, table_vars
<1>8. Follows'
  <2>1. SameRows /\ Toggles(calls') = Toggles(calls) /\ fetch # Idle
    BY <1>1 DEF SameRows, Toggles, table_vars, Idle
  <2>2. ASSUME IsTable(fetch.rows) PROVE IsTable(cache)'
    BY <1>5, <2>1, <2>2, TableIsSame DEF IsTable
  <2> QED BY <1>1, <2>1, <2>2, IdleTyped DEF AppliedInv, Follows, Toggles
<1> QED BY <1>6, <1>7, <1>8 DEF AppliedInv

LEMMA ListFailsHolds ==
  ASSUME AppliedInv, ListFails
  PROVE  AppliedInv'
<1>1. /\ misses' = misses + 1 /\ fetch' = Idle /\ failed' = TRUE
      /\ UNCHANGED <<table_vars, cache, loaded, calls, sent, pending, opacityVars,
                     hostedOn, faults>>
  BY DEF ListFails
<1>2. Typed' /\ misses' # 0
  BY <1>1, IdleTyped
  DEF AppliedInv, Typed, TableTyped, ListTyped, CallsTyped, RestTyped, table_vars,
      opacityVars, Over
<1>3. IdsOwn'
  BY <1>1, IdleTyped DEF AppliedInv, IdsOwn, OwnIds, Own, table_vars
<1> QED BY <1>2, <1>3 DEF AppliedInv, Follows

LEMMA RetryHolds ==
  ASSUME AppliedInv, Retry
  PROVE  AppliedInv'
<1>1. /\ (failed \/ DOMAIN calls = {}) /\ fetch' = Asked
      /\ UNCHANGED <<table_vars, list, calls, sent, pending, opacityVars, hostedOn,
                     faults, misses>>
  BY DEF Retry, Stale
<1>2. Typed'
  BY <1>1, AskedTyped
  DEF AppliedInv, Typed, TableTyped, ListTyped, CallsTyped, RestTyped, table_vars,
      list, opacityVars, Over
<1>3. IdsOwn'
  BY <1>1, AskedTyped DEF AppliedInv, IdsOwn, OwnIds, Own, table_vars, list
<1>4. Follows'
  <2>1. Asked # Idle /\ Asked.step # "served"
    BY DEF Asked, Idle
  <2>2. misses = 0 => ~failed /\ Toggles(calls) = {}
    BY <1>1 DEF AppliedInv, Follows, Toggles
  <2> QED BY <1>1, <2>1, <2>2 DEF Follows, Toggles, list
<1> QED BY <1>2, <1>3, <1>4 DEF AppliedInv

-----------------------------------------------------------------------------
(* The theorem *)

LEMMA InitHolds == Init => AppliedInv
<1> SUFFICES ASSUME Init PROVE AppliedInv
  OBVIOUS
<1>1. /\ given = Stored /\ table = [i \in DOMAIN Stored |-> Default] /\ cache = <<>>
      /\ loaded = FALSE /\ failed = FALSE /\ fetch = Asked /\ calls = <<>> /\ sent = 0
      /\ pending = {} /\ timers = <<>> /\ saving = {}
      /\ drafts = [l \in Layers |-> Default] /\ hostedOn = {}
      /\ drags = 0 /\ faults = 0 /\ misses = 0
  BY DEF Init
<1>2. DOMAIN <<>> = {} /\ <<>> = [x \in {} |-> {}]
  OBVIOUS
<1>3. TableTyped
  BY <1>1, AppliedAssumption DEF TableTyped, Over
<1>4. ListTyped
  BY <1>1, NoEntries, AskedTyped DEF ListTyped
<1>5. CallsTyped
  BY <1>1, <1>2 DEF CallsTyped
<1>6. Over(timers, Layers, [percent : Percents, prior : Percents])
  BY <1>1, <1>2 DEF Over
<1>7. RestTyped
  BY <1>1, <1>6, AppliedAssumption DEF RestTyped
<1>8. IdsOwn
  BY <1>1, <1>2, AskedTyped DEF IdsOwn, OwnIds
<1>9. Follows
  <2>1. Asked # Idle /\ Asked.step # "served" /\ Toggles(<<>>) = {}
    BY <1>2 DEF Asked, Idle, Toggles
  <2> QED BY <1>1, <2>1 DEF Follows
<1> QED BY <1>3, <1>4, <1>5, <1>7, <1>8, <1>9 DEF AppliedInv, Typed

LEMMA NextHolds == AppliedInv /\ [Next]_vars => AppliedInv'
<1> SUFFICES ASSUME AppliedInv, [Next]_vars PROVE AppliedInv'
  OBVIOUS
<1>1. CASE User
  BY <1>1, SwitchOnHolds, SwitchOffHolds, DragHolds, SwitchHostedHolds,
     TurnAllOffHolds, RetryHolds DEF User
<1>2. CASE \E l \in Layers : TimerFires(l)
  BY <1>2, TimerFiresHolds
<1>3. ASSUME NEW n \in DOMAIN calls, Server(n) \/ Lost(n) \/ Answer(n)
      PROVE  AppliedInv'
  BY <1>3, CountAppliedHolds, StoreAppliedHolds, RemoveAppliedHolds, SaveOpacityHolds,
     LostHolds, AnswerToggleHolds, AnswerSaveHolds DEF Server, Answer
<1>4. CASE Get \/ ListFails
  BY <1>4, ListServedHolds, ListArrivesHolds, ListFailsHolds DEF Get
<1>5. CASE UNCHANGED vars
  <2>1. UNCHANGED <<given, table, cache, loaded, failed, fetch, calls, sent, pending,
                    timers, saving, drafts, drags, hostedOn, faults, misses>>
    BY <1>5 DEF vars, table_vars, list, opacityVars
  <2>2. Typed'
    BY <2>1 DEF AppliedInv, Typed, TableTyped, ListTyped, CallsTyped, RestTyped, Over
  <2>3. IdsOwn' /\ Follows'
    BY <2>1 DEF AppliedInv, IdsOwn, OwnIds, Own, Follows, Toggles, IsTable,
                LayersStored, RowOf
  <2> QED BY <2>2, <2>3 DEF AppliedInv
<1> QED BY <1>1, <1>2, <1>3, <1>4, <1>5 DEF Next

LEMMA InvIsTrue == AppliedInv /\ crossed \subseteq Layers => PanelIsTrue
<1> SUFFICES ASSUME AppliedInv, crossed \subseteq Layers PROVE PanelIsTrue
  OBVIOUS
<1>1. \A n \in DOMAIN calls : IsCall(calls[n])
  BY ListsAre DEF AppliedInv, Typed, CallsTyped, Record, IsCall
<1>2. TypeOK
  BY <1>1, ListsAre
  DEF AppliedInv, Typed, TableTyped, ListTyped, CallsTyped, RestTyped, TypeOK
<1>3. CallsAddressOwnRow
  BY DEF AppliedInv, IdsOwn, Own, CallsAddressOwnRow
<1>4. SettledListIsTable
  BY DEF AppliedInv, Follows, IsTable, SettledListIsTable, ListIsTable
<1> QED BY <1>2, <1>3, <1>4 DEF PanelIsTrue

(* No layer is noted by mistake, and none is forgotten. *)
LEMMA CrossedGrows ==
  ASSUME AppliedInv, crossed \subseteq Layers, [Next]_vars
  PROVE  crossed \subseteq crossed' /\ crossed' \subseteq Layers
<1>1. OnItsWay \subseteq Layers
  BY DEF OnItsWay, AppliedInv, Typed, RestTyped, Over
<1>2. CASE User
  BY <1>1, <1>2
  DEF User, SwitchOn, SwitchOff, Drag, SwitchHosted, TurnAllOff, Retry, Meets
<1>3. ASSUME NEW l \in Layers, TimerFires(l)
      PROVE  crossed \subseteq crossed' /\ crossed' \subseteq Layers
  BY <1>3 DEF TimerFires, Meets
<1>4. ASSUME NEW n \in DOMAIN calls, Server(n) \/ Lost(n)
      PROVE  crossed' = crossed
  BY <1>4 DEF Server, Lost, CountApplied, StoreApplied, RemoveApplied, SaveOpacity, OthersKeep
<1>5. ASSUME NEW n \in DOMAIN calls, AnswerToggle(n)
      PROVE  crossed \subseteq crossed' /\ crossed' \subseteq Layers
  BY <1>1, <1>5 DEF AnswerToggle, Meets
<1>6. ASSUME NEW n \in DOMAIN calls, AnswerSave(n)
      PROVE  crossed \subseteq crossed' /\ crossed' \subseteq Layers
  <2>1. calls[n].layer \in Layers
    BY DEF AppliedInv, Typed, CallsTyped, Record
  <2> QED BY <1>6, <2>1 DEF AnswerSave, Meets
<1>7. CASE Get \/ ListFails
  BY <1>1, <1>7 DEF Get, ListServed, ListArrives, ListFails, Meets
<1>8. CASE UNCHANGED vars
  BY <1>8 DEF vars
<1> QED BY <1>2, <1>3, <1>4, <1>5, <1>6, <1>7, <1>8 DEF Next, Answer

(* Whatever is switched, dragged, refused, lost or fetched, and in whatever  *)
(* order it is answered: a DELETE and a PATCH name a row handed out for the  *)
(* layer they are for, and when no toggle is out and the list has been       *)
(* fetched, the panel shows what is stored (useAppliedLayers.ts, settle).    *)
THEOREM PanelIsTrueTheorem == Spec => []PanelIsTrue
<1> DEFINE I == AppliedInv /\ crossed \subseteq Layers
<1>1. Init => I
  BY InitHolds DEF Init
<1>2. I /\ [Next]_vars => I'
  BY NextHolds, CrossedGrows
<1>3. I => PanelIsTrue
  BY InvIsTrue
<1> QED BY <1>1, <1>2, <1>3, PTL DEF Spec

-----------------------------------------------------------------------------
(* The sliders *)

(* Of a slider that met nothing: one save at a time is out, and it is noted *)
OneSave(l) == \A m, n \in SavesOf(l) : m = n
Noted(l)   == SavesOf(l) # {} => l \in saving

(* what is queued is what is shown, and so is what was sent, which is what  *)
(* map-api has once it was served                                           *)
Queued(l) == l \in DOMAIN timers \cap DOMAIN cache => timers[l].percent = cache[l].opacity
Carries(l, c) ==
  /\ c.step = "done" /\ c.id \in DOMAIN table => table[c.id] = c.percent
  /\ c.step # "refused" /\ l \in DOMAIN cache \ DOMAIN timers => cache[l].opacity = c.percent
SavesHold(l) == \A n \in SavesOf(l) : Carries(l, calls[n])

(* a list on its way is as new as the table, unless a save is on its way    *)
Fresh(l) ==
  Toggles(calls) = {} /\ fetch.step = "served" /\ misses = 0
  /\ l \in DOMAIN fetch.rows \ saving => fetch.rows[l].opacity = table[RowOf(l)]

(* and at rest what is shown is what is stored.                             *)
Rested(l) ==
  Toggles(calls) = {} /\ fetch = Idle /\ misses = 0 /\ l \in DOMAIN cache \ OnItsWay
  => cache[l].opacity = table[RowOf(l)]

Sliding(l) == OneSave(l) /\ Noted(l) /\ Queued(l) /\ SavesHold(l)
Stilled(l) == Fresh(l) /\ Rested(l)

KeepsSaves(l) ==
  \A n \in DOMAIN calls' :
    calls'[n].op = "save" /\ calls'[n].layer = l => n \in DOMAIN calls /\ calls'[n] = calls[n]

(* A step that takes no part in the save of the layer, and paints it only   *)
(* with what is queued                                                      *)
LEMMA SlidesOn ==
  ASSUME NEW l, Sliding(l), KeepsSaves(l), l \in saving => l \in saving',
         l \in DOMAIN timers' \cap DOMAIN cache' => timers'[l].percent = cache'[l].opacity,
         l \in DOMAIN cache' \ DOMAIN timers' /\ SavesOf(l) # {} =>
           l \in DOMAIN cache \ DOMAIN timers /\ cache'[l].opacity = cache[l].opacity,
         \A n \in SavesOf(l) : calls[n].id \in DOMAIN table' =>
           calls[n].id \in DOMAIN table /\ table'[calls[n].id] = table[calls[n].id]
  PROVE  Sliding(l)'
<1>1. /\ SavesOf(l)' \subseteq SavesOf(l)
      /\ \A n \in SavesOf(l)' : calls'[n] = calls[n]
  BY DEF KeepsSaves, SavesOf
<1>2. OneSave(l)' /\ Noted(l)' /\ Queued(l)'
  BY <1>1 DEF Sliding, OneSave, Noted, Queued
<1>3. ASSUME NEW n \in SavesOf(l)' PROVE Carries(l, calls[n])'
  <2>1. n \in SavesOf(l) /\ calls'[n] = calls[n] /\ Carries(l, calls[n])
    BY <1>1 DEF Sliding, SavesHold
  <2> QED BY <2>1 DEF Carries
<1> QED BY <1>2, <1>3 DEF Sliding, SavesHold

LEMMA StillWhileOut ==
  ASSUME NEW l, Toggles(calls') # {} \/ fetch' = Asked \/ misses' # 0
  PROVE  Stilled(l)'
BY DEF Stilled, Fresh, Rested, Asked, Idle, Toggles

(* A step that leaves the lists and the row of the layer alone *)
LEMMA StillAsBefore ==
  ASSUME AppliedInv, NEW l, Stilled(l), fetch' = fetch, misses' = misses, SameRows,
         Toggles(calls') = {} => Toggles(calls) = {},
         l \in saving => l \in saving',
         l \in saving \/ l \notin LayersStored \/ table'[RowOf(l)] = table[RowOf(l)],
         l \in DOMAIN cache' \ OnItsWay' =>
           l \in DOMAIN cache \ OnItsWay /\ cache'[l].opacity = cache[l].opacity
  PROVE  Stilled(l)'
<1>1. RowOf(l)' = RowOf(l)
  BY DEF RowOf, SameRows
<1>2. Fresh(l)'
  <2>1. Toggles(calls) = {} /\ fetch.step = "served" /\ misses = 0 /\ l \in DOMAIN fetch.rows
        => l \in LayersStored
    BY DEF AppliedInv, Follows, IsTable
  <2> QED BY <1>1, <2>1 DEF Stilled, Fresh, Toggles
<1>3. Rested(l)'
  <2>1. Toggles(calls) = {} /\ fetch = Idle /\ misses = 0 /\ l \in DOMAIN cache
        => l \in LayersStored
    BY DEF AppliedInv, Follows, IsTable
  <2> QED BY <1>1, <2>1 DEF Stilled, Rested, Toggles, OnItsWay
<1> QED BY <1>2, <1>3 DEF Stilled

Slides(l) == Sliding(l) /\ Stilled(l)
SliderInv == \A l \in Layers \ crossed : Slides(l)

LEMMA SameSlide ==
  ASSUME AppliedInv, NEW l \in Layers, Slides(l), UNCHANGED <<given, table, cache, timers, saving>>,
         KeepsSaves(l),
         \/ Toggles(calls') # {} \/ fetch' = Asked \/ misses' # 0
         \/ fetch' = fetch /\ misses' = misses /\ Toggles(calls) = {}
  PROVE  Slides(l)'
<1>1. Sliding(l)'
  <2>1. l \in DOMAIN timers' \cap DOMAIN cache' => timers'[l].percent = cache'[l].opacity
    BY DEF Slides, Sliding, Queued
  <2> QED BY <2>1, SlidesOn DEF Slides
<1>2. Stilled(l)'
  <2>1. CASE Toggles(calls') # {} \/ fetch' = Asked \/ misses' # 0
    BY <2>1, StillWhileOut
  <2>2. CASE fetch' = fetch /\ misses' = misses /\ Toggles(calls) = {}
    BY <2>2, StillAsBefore DEF SameRows, OnItsWay, Slides
  <2> QED BY <2>1, <2>2
<1> QED BY <1>1, <1>2 DEF Slides

LEMMA SwitchOnSlides ==
  ASSUME AppliedInv, NEW l \in Layers, Slides(l), NEW k \in Layers, SwitchOn(k),
         l \notin crossed'
  PROVE  Slides(l)'
<1> DEFINE c == ToggleCall("apply", k, StandIn)
<1>1. /\ Send(c) /\ cache' = With(cache, k, [id |-> StandIn, opacity |-> OpacityOf(k)])
      /\ k = l => l \notin OnItsWay
      /\ UNCHANGED <<given, table, timers, saving>>
  BY DEF SwitchOn, Write, Meets, table_vars, opacityVars
<1>2. c \in Record /\ c.op = "apply"
  BY ToggleTyped DEF AppliedInv, RowId, ToggleCall
<1> HIDE DEF c
<1>3. /\ DOMAIN calls' = DOMAIN calls \cup {sent + 1} /\ calls'[sent + 1] = c
      /\ \A n \in DOMAIN calls : n # sent + 1 /\ calls'[n] = calls[n]
  BY <1>1, <1>2, CallsGrow DEF AppliedInv, Typed
<1>4. KeepsSaves(l) /\ Toggles(calls') # {}
  BY <1>2, <1>3 DEF KeepsSaves, Toggles
<1>5. Sliding(l)'
  <2>1. CASE k = l
    <3>1. l \notin DOMAIN timers /\ l \notin saving /\ SavesOf(l) = {}
      BY <1>1, <2>1 DEF OnItsWay, Slides, Sliding, Noted
    <3> QED BY <1>1, <1>4, <3>1, SlidesOn DEF Slides
  <2>2. CASE k # l
    <3>1. /\ l \in DOMAIN cache' <=> l \in DOMAIN cache
          /\ l \in DOMAIN cache => cache'[l] = cache[l]
      BY <1>1, <2>2 DEF With
    <3>2. l \in DOMAIN timers' \cap DOMAIN cache' => timers'[l].percent = cache'[l].opacity
      BY <1>1, <3>1 DEF Slides, Sliding, Queued
    <3> QED BY <1>1, <1>4, <3>1, <3>2, SlidesOn DEF Slides
  <2> QED BY <2>1, <2>2
<1> QED BY <1>4, <1>5, StillWhileOut DEF Slides

(* The layer is off the list, or the switch is another's. *)
LEMMA OffSlides ==
  ASSUME AppliedInv, NEW l \in Layers, Slides(l), NEW D, cache' = Without(cache, D),
         timers' = Without(timers, D), UNCHANGED <<given, table, saving>>, KeepsSaves(l)
  PROVE  Sliding(l)'
<1>1. CASE l \in D
  BY <1>1, SlidesOn DEF Without, Slides
<1>2. CASE l \notin D
  <2>1. /\ l \in DOMAIN cache' <=> l \in DOMAIN cache
        /\ l \in DOMAIN timers' <=> l \in DOMAIN timers
        /\ l \in DOMAIN cache => cache'[l] = cache[l]
        /\ l \in DOMAIN timers => timers'[l] = timers[l]
    BY <1>2 DEF Without
  <2>2. l \in DOMAIN timers' \cap DOMAIN cache' => timers'[l].percent = cache'[l].opacity
    BY <2>1 DEF Slides, Sliding, Queued
  <2> QED BY <2>1, <2>2, SlidesOn DEF Slides
<1> QED BY <1>1, <1>2

LEMMA SwitchOffSlides ==
  ASSUME AppliedInv, NEW l \in Layers, Slides(l), NEW k \in Layers, SwitchOff(k)
  PROVE  Slides(l)'
<1> DEFINE c == ToggleCall("remove", k, cache[k].id)
<1>1. /\ Send(c) /\ cache' = Without(cache, {k}) /\ timers' = Without(timers, {k})
      /\ UNCHANGED <<given, table, saving>> /\ Removable(k)
  BY DEF SwitchOff, Write, table_vars
<1>2. c \in Record /\ c.op = "remove"
  BY <1>1, ToggleTyped, ListAt
  DEF AppliedInv, Typed, ListTyped, Removable, ToggleCall
<1> HIDE DEF c
<1>3. /\ DOMAIN calls' = DOMAIN calls \cup {sent + 1} /\ calls'[sent + 1] = c
      /\ \A n \in DOMAIN calls : n # sent + 1 /\ calls'[n] = calls[n]
  BY <1>1, <1>2, CallsGrow DEF AppliedInv, Typed
<1>4. KeepsSaves(l) /\ Toggles(calls') # {}
  BY <1>2, <1>3 DEF KeepsSaves, Toggles
<1> QED BY <1>1, <1>4, OffSlides, StillWhileOut DEF Slides

LEMMA TurnAllOffSlides ==
  ASSUME AppliedInv, NEW l \in Layers, Slides(l), TurnAllOff
  PROVE  Slides(l)'
<1> DEFINE off == {x \in SearchEnabled : Removable(x)}
           n   == Cardinality(off)
<1>1. PICK rows \in [1..n -> off] :
        calls' = [m \in DOMAIN calls \cup (sent + 1)..(sent + n) |->
           IF m <= sent THEN calls[m]
           ELSE [ToggleCall("remove", rows[m - sent], cache[rows[m - sent]].id) EXCEPT
                   !.list = Without(@, {rows[j] : j \in 1..(m - sent - 1)})]]
  BY DEF TurnAllOff
<1>2. /\ timers' = Without(timers, off) /\ misses' = misses
      /\ IF off = {} THEN UNCHANGED <<cache, fetch>> ELSE cache' = Without(cache, off)
      /\ UNCHANGED <<given, table, saving>>
  BY DEF TurnAllOff, Write, list, table_vars
<1>3. /\ off \subseteq Layers /\ sent \in Nat /\ DOMAIN calls \subseteq 1..sent
      /\ timers = [x \in DOMAIN timers |-> timers[x]] /\ cache = [x \in DOMAIN cache |-> cache[x]]
  BY ListAt, ListsAre
  DEF SearchEnabled, AppliedInv, Typed, ListTyped, CallsTyped, RestTyped, Over
<1>4. n \in Nat /\ (off # {} => n > 0)
  <2>1. IsFiniteSet(off)
    BY <1>3, AppliedAssumption, FS_Subset
  <2> QED BY <2>1, FS_CardinalityType, FS_EmptySet
<1>5. ASSUME NEW m \in DOMAIN calls'
      PROVE  IF m <= sent THEN m \in DOMAIN calls /\ calls'[m] = calls[m]
             ELSE calls'[m].op = "remove"
  <2>1. m \in DOMAIN calls \/ (m \in (sent + 1)..(sent + n) /\ ~(m <= sent))
    BY <1>1, <1>3, <1>4
  <2>2. m \in DOMAIN calls => m <= sent
    BY <1>3
  <2> QED BY <1>1, <2>1, <2>2 DEF ToggleCall
<1>6. KeepsSaves(l)
  BY <1>5 DEF KeepsSaves
<1>7. off # {} => Toggles(calls') # {}
  <2>1. off # {} => sent + 1 \in (sent + 1)..(sent + n) /\ ~(sent + 1 <= sent)
    BY <1>3, <1>4
  <2>2. off # {} => sent + 1 \in DOMAIN calls'
    BY <1>1, <2>1
  <2> QED BY <1>5, <2>1, <2>2 DEF Toggles
<1> HIDE DEF off, n
<1>8. CASE off # {}
  BY <1>2, <1>6, <1>7, <1>8, OffSlides, StillWhileOut DEF Slides
<1>9. CASE off = {}
  <2>1. timers' = timers /\ cache' = cache /\ fetch' = fetch
    BY <1>2, <1>3, <1>9 DEF Without
  <2>2. \A m \in DOMAIN calls : m \in DOMAIN calls' /\ calls'[m] = calls[m]
    BY <1>1, <1>3, <1>5
  <2>3. Toggles(calls') # {} \/ Toggles(calls) = {}
    BY <2>2 DEF Toggles
  <2> QED BY <1>2, <1>6, <2>1, <2>3, SameSlide
<1> QED BY <1>8, <1>9

(* A step that paints no layer but k, and sends nothing *)
LEMMA OtherPainted ==
  ASSUME AppliedInv, NEW l \in Layers, Slides(l), NEW k \in Layers \ {l}, NEW p,
         cache' = cache \/ (k \in DOMAIN cache /\ cache' = [cache EXCEPT ![k].opacity = p]),
         l \in DOMAIN timers' <=> l \in DOMAIN timers,
         l \in DOMAIN timers => timers'[l] = timers[l],
         l \in saving' <=> l \in saving, KeepsSaves(l),
         Toggles(calls') = {} => Toggles(calls) = {},
         UNCHANGED <<given, table, fetch, misses>>
  PROVE  Slides(l)'
<1>1. /\ l \in DOMAIN cache' <=> l \in DOMAIN cache
      /\ l \in DOMAIN cache => cache'[l] = cache[l]
  OBVIOUS
<1>2. l \in DOMAIN timers' \cap DOMAIN cache' => timers'[l].percent = cache'[l].opacity
  BY <1>1 DEF Slides, Sliding, Queued
<1>3. Sliding(l)'
  BY <1>1, <1>2, SlidesOn DEF Slides
<1>4. Stilled(l)'
  BY <1>1, StillAsBefore DEF Slides, OnItsWay, SameRows
<1> QED BY <1>3, <1>4 DEF Slides

LEMMA DragSlides ==
  ASSUME AppliedInv, NEW l \in Layers, Slides(l), NEW k \in Layers, NEW p \in Percents, Drag(k, p)
  PROVE  Slides(l)'
<1>1. UNCHANGED <<given, table, fetch, calls, saving, misses>>
  BY DEF Drag, table_vars
<1>2. KeepsSaves(l) /\ Toggles(calls') = Toggles(calls)
  BY <1>1 DEF KeepsSaves, Toggles
<1>3. CASE k \notin DOMAIN cache
  <2>1. UNCHANGED <<cache, timers>>
    BY <1>3 DEF Drag, list
  <2> QED BY <1>1, <1>2, <2>1, SameSlide
<1>4. CASE k \in DOMAIN cache
  <2> DEFINE t == [percent |-> p, prior |-> cache[k].opacity]
  <2>1. cache' = [cache EXCEPT ![k].opacity = p] /\ timers' = With(timers, k, t)
    BY <1>4 DEF Drag, Write
  <2>2. t.percent = p
    OBVIOUS
  <2> HIDE DEF t
  <2>3. CASE k # l
    BY <1>1, <1>2, <1>4, <2>1, <2>3, OtherPainted DEF With
  <2>4. CASE k = l
    <3>1. l \in DOMAIN timers' /\ timers'[l].percent = p
      BY <2>1, <2>2, <2>4 DEF With
    <3>2. cache[l] \in Entry /\ cache'[l] = [cache[l] EXCEPT !.opacity = p]
      BY <1>4, <2>1, <2>4, ListAt DEF AppliedInv, Typed, ListTyped
    <3>3. cache'[l].opacity = p
      BY <3>2 DEF Entry
    <3>4. Sliding(l)'
      BY <1>1, <1>2, <3>1, <3>3, SlidesOn DEF Slides
    <3>5. Stilled(l)'
      BY <1>1, <1>2, <3>1, StillAsBefore DEF Slides, OnItsWay, SameRows
    <3> QED BY <3>4, <3>5 DEF Slides
  <2> QED BY <2>3, <2>4
<1> QED BY <1>3, <1>4

LEMMA TimerSlides ==
  ASSUME AppliedInv, NEW l \in Layers, Slides(l), NEW k \in Layers, TimerFires(k),
         l \notin crossed'
  PROVE  Slides(l)'
<1> DEFINE t == timers[k]
           c == [op |-> "save", layer |-> k, id |-> cache[k].id, percent |-> t.percent,
                 list |-> <<>>, prior |-> t.prior, step |-> "sent"]
<1>1. k \in DOMAIN timers /\ UNCHANGED <<given, table, fetch, misses>>
  BY DEF TimerFires, table_vars
<1>2. CASE /\ k \notin DOMAIN cache /\ timers' = Without(timers, {k})
           /\ UNCHANGED <<list, calls, sent, saving, crossed>>
  <2>1. KeepsSaves(l) /\ Toggles(calls') = Toggles(calls) /\ cache' = cache
    BY <1>2 DEF KeepsSaves, Toggles, list
  <2>2. CASE k # l
    BY <1>1, <1>2, <2>1, <2>2, OtherPainted DEF Without
  <2>3. CASE k = l
    <3>1. Sliding(l)'
      BY <1>1, <1>2, <2>1, <2>3, SlidesOn DEF Slides
    <3>2. Stilled(l)'
      BY <1>1, <1>2, <2>1, <2>3, StillAsBefore DEF Slides, SameRows
    <3> QED BY <3>1, <3>2 DEF Slides
  <2> QED BY <2>2, <2>3
<1>3. CASE /\ k \in DOMAIN cache /\ cache' = [cache EXCEPT ![k].opacity = t.percent]
           /\ timers' = With(timers, k, [percent |-> t.percent, prior |-> cache[k].opacity])
           /\ UNCHANGED <<calls, sent, saving, crossed>>
  <2>1. KeepsSaves(l) /\ Toggles(calls') = Toggles(calls)
    BY <1>3 DEF KeepsSaves, Toggles
  <2>2. CASE k # l
    BY <1>1, <1>3, <2>1, <2>2, OtherPainted DEF With
  <2>3. CASE k = l
    <3>1. l \in DOMAIN timers' /\ timers'[l].percent = t.percent
      BY <1>3, <2>3 DEF With
    <3>2. cache[l] \in Entry /\ cache'[l] = [cache[l] EXCEPT !.opacity = t.percent]
      BY <1>3, <2>3, ListAt DEF AppliedInv, Typed, ListTyped
    <3>3. cache'[l].opacity = t.percent
      BY <3>2 DEF Entry
    <3>4. Sliding(l)'
      BY <1>1, <1>3, <2>1, <3>1, <3>3, SlidesOn DEF Slides
    <3>5. Stilled(l)'
      BY <1>1, <1>3, <2>1, <3>1, StillAsBefore DEF Slides, OnItsWay, SameRows
    <3> QED BY <3>4, <3>5 DEF Slides
  <2> QED BY <2>2, <2>3
<1>4. CASE /\ Removable(k) /\ Send(c) /\ saving' = saving \cup {k}
           /\ timers' = Without(timers, {k}) /\ cache' = cache
           /\ Meets(IF SavesOf(k) = {} THEN {} ELSE {k})
  <2>1. c \in Record
    <3>1. t.percent \in Percents /\ t.prior \in Percents
      BY <1>1 DEF AppliedInv, Typed, RestTyped, Over
    <3>2. cache[k].id \in RowId
      BY <1>4, ListAt DEF Removable, AppliedInv, Typed, ListTyped
    <3> QED BY <3>1, <3>2, NoEntries DEF Record
  <2>2. c.op = "save" /\ c.layer = k /\ c.percent = t.percent /\ c.step = "sent"
    OBVIOUS
  <2> HIDE DEF c
  <2>3. /\ DOMAIN calls' = DOMAIN calls \cup {sent + 1} /\ calls'[sent + 1] = c
        /\ \A n \in DOMAIN calls : n # sent + 1 /\ calls'[n] = calls[n]
    BY <1>4, <2>1, CallsGrow DEF AppliedInv, Typed
  <2>4. Toggles(calls') = Toggles(calls)
    BY <2>2, <2>3 DEF Toggles
  <2>5. CASE k # l
    <3>1. KeepsSaves(l)
      BY <2>2, <2>3, <2>5 DEF KeepsSaves
    <3> QED BY <1>1, <1>4, <2>4, <2>5, <3>1, OtherPainted DEF Without
  <2>6. CASE k = l
    <3>1. SavesOf(l) = {}
      BY <1>4, <2>6 DEF Meets
    <3>2. SavesOf(l)' = {sent + 1} /\ calls'[sent + 1] = c
      BY <2>2, <2>3, <2>6, <3>1 DEF SavesOf
    <3>3. l \in saving' /\ l \in DOMAIN cache /\ cache' = cache /\ l \notin DOMAIN timers'
      BY <1>4, <2>6 DEF Removable, Without
    <3>4. cache'[l].opacity = c.percent
      BY <1>1, <2>2, <2>6, <3>3 DEF Slides, Sliding, Queued
    <3>5. OneSave(l)' /\ Noted(l)' /\ Queued(l)'
      BY <3>2, <3>3 DEF OneSave, Noted, Queued
    <3>6. SavesHold(l)'
      BY <2>2, <3>2, <3>4 DEF SavesHold, Carries
    <3>7. Stilled(l)'
      BY <1>1, <1>4, <2>4, <3>3, StillAsBefore DEF Slides, OnItsWay, SameRows
    <3> QED BY <3>5, <3>6, <3>7 DEF Slides, Sliding
  <2> QED BY <2>5, <2>6
<1> HIDE DEF t, c
<1>5. \/ k \notin DOMAIN cache /\ timers' = Without(timers, {k})
         /\ UNCHANGED <<list, calls, sent, saving, crossed>>
      \/ k \in DOMAIN cache /\ Write([cache EXCEPT ![k].opacity = t.percent])
         /\ timers' = With(timers, k, [percent |-> t.percent, prior |-> cache[k].opacity])
         /\ UNCHANGED <<calls, sent, saving, crossed>>
      \/ Removable(k) /\ Send(c) /\ saving' = saving \cup {k}
         /\ timers' = Without(timers, {k}) /\ UNCHANGED list
         /\ Meets(IF SavesOf(k) = {} THEN {} ELSE {k})
  BY DEF TimerFires, t, c
<1> QED BY <1>2, <1>3, <1>4, <1>5 DEF Write, list

(* map-api serves a call of another kind: the rows saved for the layer, if  *)
(* they are still there, are as they were.                                  *)
LEMMA ServedSlides ==
  ASSUME AppliedInv, NEW l \in Layers, Slides(l), UNCHANGED <<cache, timers, saving>>,
         KeepsSaves(l), Toggles(calls') # {},
         \A i \in DOMAIN given : i \in DOMAIN table' =>
           i \in DOMAIN table /\ table'[i] = table[i]
  PROVE  Slides(l)'
<1>1. \A n \in SavesOf(l) : calls[n].id \in DOMAIN given
  BY DEF SavesOf, AppliedInv, IdsOwn, Own
<1>2. l \in DOMAIN timers' \cap DOMAIN cache' => timers'[l].percent = cache'[l].opacity
  BY DEF Slides, Sliding, Queued
<1>3. Sliding(l)'
  BY <1>1, <1>2, SlidesOn DEF Slides
<1> QED BY <1>3, StillWhileOut DEF Slides

LEMMA ToggleServedSlides ==
  ASSUME AppliedInv, NEW l \in Layers, Slides(l), NEW n \in DOMAIN calls,
         CountApplied(n) \/ StoreApplied(n) \/ RemoveApplied(n)
  PROVE  Slides(l)'
<1>1. calls[n].op # "save" /\ UNCHANGED <<cache, timers, saving>>
  BY DEF CountApplied, StoreApplied, RemoveApplied, OthersKeep, list, opacityVars
<1>2. PICK d : Serve(n, d) /\ d.op = calls[n].op
  <2>1. calls[n] \in Record
    BY DEF AppliedInv, Typed, CallsTyped
  <2>2. PICK s, i : \/ Serve(n, [calls[n] EXCEPT !.step = s])
                    \/ Serve(n, [calls[n] EXCEPT !.step = s, !.id = i])
    BY DEF CountApplied, StoreApplied, RemoveApplied, Done, Refused
  <2>3. /\ [calls[n] EXCEPT !.step = s].op = calls[n].op
        /\ [calls[n] EXCEPT !.step = s, !.id = i].op = calls[n].op
    BY <2>1 DEF Record
  <2> QED BY <2>2, <2>3
<1>3. /\ DOMAIN calls' = DOMAIN calls /\ calls'[n] = d
      /\ \A m \in DOMAIN calls \ {n} : calls'[m] = calls[m]
  BY <1>2 DEF Serve
<1>4. KeepsSaves(l) /\ n \in Toggles(calls')
  BY <1>1, <1>2, <1>3 DEF KeepsSaves, Toggles
<1>5. \A i \in DOMAIN given : i \in DOMAIN table' => i \in DOMAIN table /\ table'[i] = table[i]
  <2>1. given \in Seq(Layers)
    BY DEF AppliedInv, Typed, TableTyped
  <2>2. NextId \notin DOMAIN given
    BY <2>1 DEF NextId
  <2> QED BY <2>2
       DEF CountApplied, StoreApplied, RemoveApplied, With, Without, table_vars
<1> QED BY <1>1, <1>4, <1>5, ServedSlides

(* A save that fails on its way *)
LEMMA LostSlides ==
  ASSUME AppliedInv, NEW l \in Layers, Slides(l), NEW n \in DOMAIN calls, Refused(n),
         UNCHANGED <<given, table, cache, timers, saving, fetch, misses>>
  PROVE  Slides(l)'
<1> DEFINE d == [calls[n] EXCEPT !.step = "refused"]
<1>1. calls[n] \in Record
  BY DEF AppliedInv, Typed, CallsTyped
<1>2. d.op = calls[n].op /\ d.layer = calls[n].layer /\ d.step = "refused"
  BY <1>1 DEF Record
<1> HIDE DEF d
<1>3. /\ DOMAIN calls' = DOMAIN calls /\ calls'[n] = d
      /\ \A m \in DOMAIN calls \ {n} : calls'[m] = calls[m]
  BY DEF Refused, Serve, d
<1>4. Toggles(calls') = Toggles(calls) /\ SavesOf(l)' = SavesOf(l)
  BY <1>2, <1>3 DEF Toggles, SavesOf
<1>5. CASE n \notin SavesOf(l)
  <2>1. KeepsSaves(l)
    BY <1>2, <1>3, <1>5 DEF KeepsSaves, SavesOf
  <2> QED BY <1>4, <2>1, SameSlide
<1>6. CASE n \in SavesOf(l)
  <2>1. \A m \in SavesOf(l) : m = n
    BY <1>6 DEF Slides, Sliding, OneSave
  <2>2. OneSave(l)' /\ Noted(l)' /\ Queued(l)'
    BY <1>4 DEF Slides, Sliding, OneSave, Noted, Queued
  <2>3. SavesHold(l)'
    BY <1>2, <1>3, <1>4, <2>1 DEF SavesHold, Carries
  <2>4. Stilled(l)'
    BY <1>4, StillAsBefore DEF Slides, SameRows, OnItsWay
  <2> QED BY <2>2, <2>3, <2>4 DEF Slides, Sliding
<1> QED BY <1>5, <1>6

LEMMA SaveServedSlides ==
  ASSUME AppliedInv, NEW l \in Layers, Slides(l), NEW n \in DOMAIN calls, SaveOpacity(n)
  PROVE  Slides(l)'
<1> DEFINE c == calls[n]
           d == [c EXCEPT !.step = "done"]
<1>1. /\ c.op = "save" /\ c \in Record /\ Own(c.id, c.layer)
      /\ UNCHANGED <<given, cache, timers, saving, fetch, misses>>
  BY DEF SaveOpacity, OthersKeep, list, opacityVars, AppliedInv, Typed, CallsTyped, IdsOwn
<1>2. CASE Refused(n) /\ UNCHANGED table
  BY <1>1, <1>2, LostSlides
<1>3. CASE /\ c.id \in DOMAIN table /\ table' = [table EXCEPT ![c.id] = c.percent]
           /\ Done(n)
  <2>1. /\ d.op = c.op /\ d.layer = c.layer /\ d.step = "done" /\ d.id = c.id
        /\ d.percent = c.percent
    BY <1>1 DEF Record
  <2>2. calls' = [calls EXCEPT ![n] = d]
    BY <1>3 DEF Done, Serve
  <2> HIDE DEF d
  <2>3. /\ DOMAIN calls' = DOMAIN calls /\ calls'[n] = d
        /\ \A m \in DOMAIN calls \ {n} : calls'[m] = calls[m]
    BY <2>2
  <2>4. Toggles(calls') = Toggles(calls) /\ SavesOf(l)' = SavesOf(l) /\ SameRows
    BY <1>1, <1>3, <2>1, <2>3 DEF Toggles, SavesOf, SameRows
  <2>5. CASE c.layer # l
    <3>1. \A i \in DOMAIN given : given[i] = l => i # c.id
      BY <1>1, <2>5 DEF Own
    <3>2. KeepsSaves(l)
      BY <1>1, <2>1, <2>3, <2>5 DEF KeepsSaves
    <3>3. \A m \in SavesOf(l) : calls[m].id # c.id
      BY <3>1 DEF SavesOf, AppliedInv, IdsOwn, Own
    <3>4. l \in DOMAIN timers' \cap DOMAIN cache' => timers'[l].percent = cache'[l].opacity
      BY <1>1 DEF Slides, Sliding, Queued
    <3>5. \A m \in SavesOf(l) : calls[m].id \in DOMAIN table' =>
            calls[m].id \in DOMAIN table /\ table'[calls[m].id] = table[calls[m].id]
      BY <1>3, <3>3
    <3>6. Sliding(l)'
      BY <1>1, <3>2, <3>4, <3>5, SlidesOn DEF Slides
    <3>7. l \in LayersStored => table'[RowOf(l)] = table[RowOf(l)]
      <4>1. l \in LayersStored => Own(RowOf(l), l)
        BY RowIsOwn
      <4> QED BY <1>3, <3>1, <4>1 DEF Own
    <3>8. Stilled(l)'
      BY <1>1, <2>4, <3>7, StillAsBefore DEF Slides, OnItsWay
    <3> QED BY <3>6, <3>8 DEF Slides
  <2>6. CASE c.layer = l
    <3>1. n \in SavesOf(l)
      BY <1>1, <2>6 DEF SavesOf
    <3>2. l \in saving /\ \A m \in SavesOf(l) : m = n
      BY <3>1 DEF Slides, Sliding, OneSave, Noted
    <3>3. OneSave(l)' /\ Noted(l)' /\ Queued(l)'
      BY <1>1, <2>4 DEF Slides, Sliding, OneSave, Noted, Queued
    <3>4. l \in DOMAIN cache \ DOMAIN timers /\ c.step # "refused" =>
            cache[l].opacity = c.percent
      BY <3>1 DEF Slides, Sliding, SavesHold, Carries
    <3>5. c.step # "refused"
      BY DEF SaveOpacity
    <3>6. table'[c.id] = c.percent
      BY <1>3
    <3>7. SavesHold(l)'
      BY <1>1, <2>1, <2>3, <2>4, <3>2, <3>4, <3>5, <3>6 DEF SavesHold, Carries
    <3>8. Stilled(l)'
      BY <1>1, <2>4, <3>2, StillAsBefore DEF Slides, OnItsWay
    <3> QED BY <3>3, <3>7, <3>8 DEF Slides, Sliding
  <2> QED BY <2>5, <2>6
<1> QED BY <1>2, <1>3 DEF SaveOpacity

LEMMA AnswerToggleSlides ==
  ASSUME AppliedInv, NEW l \in Layers, Slides(l), NEW n \in DOMAIN calls, AnswerToggle(n),
         l \notin crossed'
  PROVE  Slides(l)'
<1> DEFINE c == calls[n]
<1>1. /\ calls' = Without(calls, {n}) /\ fetch' = IF Settled(calls') THEN Asked ELSE fetch
      /\ UNCHANGED <<given, table, timers, saving>>
  BY DEF AnswerToggle, table_vars, opacityVars
<1>2. KeepsSaves(l) /\ (Toggles(calls') # {} \/ fetch' = Asked)
  BY <1>1 DEF KeepsSaves, Without, Settled
<1>3. ASSUME l \in OnItsWay, l \in DOMAIN cache'
      PROVE  l \in DOMAIN cache /\ cache'[l].opacity = cache[l].opacity
  <2>1. CASE c.step = "refused" /\ cache' = c.list /\ OpacityIn(c.list, l) = OpacityIn(cache, l)
    <3>1. cache'[l].opacity \in OpacityIn(cache, l)
      BY <1>3, <2>1 DEF OpacityIn
    <3> QED BY <3>1 DEF OpacityIn
  <2>2. CASE c.layer \in DOMAIN cache /\ cache' = IdOnly(c.layer, c.id)
    <3>1. cache \in Lists
      BY DEF AppliedInv, Typed, ListTyped
    <3>2. l \in DOMAIN cache /\ cache[l] \in Entry
      BY <1>3, <2>2, <3>1, ListAt DEF IdOnly
    <3>3. cache'[l] = cache[l] \/ cache'[l] = [cache[l] EXCEPT !.id = c.id]
      BY <2>2, <3>2 DEF IdOnly
    <3> QED BY <3>2, <3>3 DEF Entry
  <2>3. CASE cache' = cache
    BY <1>3, <2>3
  <2>4. \/ c.step = "refused" /\ cache' = c.list /\ OpacityIn(c.list, l) = OpacityIn(cache, l)
        \/ c.layer \in DOMAIN cache /\ cache' = IdOnly(c.layer, c.id)
        \/ cache' = cache
    BY <1>3 DEF AnswerToggle, Write, Meets, list
  <2> QED BY <2>1, <2>2, <2>3, <2>4
<1>4. Sliding(l)'
  <2>1. l \in DOMAIN timers' \cap DOMAIN cache' => timers'[l].percent = cache'[l].opacity
    BY <1>1, <1>3 DEF Slides, Sliding, Queued, OnItsWay
  <2>2. l \in DOMAIN cache' \ DOMAIN timers' /\ SavesOf(l) # {} =>
          l \in DOMAIN cache \ DOMAIN timers /\ cache'[l].opacity = cache[l].opacity
    BY <1>1, <1>3 DEF Slides, Sliding, Noted, OnItsWay
  <2> QED BY <1>1, <1>2, <2>1, <2>2, SlidesOn DEF Slides
<1> QED BY <1>2, <1>4, StillWhileOut DEF Slides

LEMMA AnswerSaveSlides ==
  ASSUME AppliedInv, NEW l \in Layers, Slides(l), NEW n \in DOMAIN calls, AnswerSave(n),
         l \notin crossed'
  PROVE  Slides(l)'
<1> DEFINE c == calls[n]
<1>1. /\ c.op = "save" /\ c.step \in {"done", "refused"} /\ calls' = Without(calls, {n})
      /\ saving' = saving \ {c.layer}
      /\ UNCHANGED <<given, table, fetch, timers, misses>>
  BY DEF AnswerSave, table_vars
<1>2. /\ DOMAIN calls' = DOMAIN calls \ {n} /\ \A m \in DOMAIN calls' : calls'[m] = calls[m]
      /\ KeepsSaves(l)
  BY <1>1 DEF KeepsSaves, Without
<1>3. Toggles(calls') = Toggles(calls)
  BY <1>1, <1>2 DEF Toggles
<1>4. CASE c.layer # l
  <2>1. \/ cache' = cache
        \/ c.layer \in DOMAIN cache /\ cache' = [cache EXCEPT ![c.layer].opacity = c.prior]
    BY DEF AnswerSave, Write, list
  <2>2. c.layer \in Layers \ {l} /\ (l \in saving' <=> l \in saving)
    BY <1>1, <1>4 DEF AppliedInv, Typed, CallsTyped, Record
  <2> HIDE DEF c
  <2> QED BY <1>1, <1>2, <1>3, <2>1, <2>2, OtherPainted
<1>5. CASE c.layer = l
  <2>1. /\ n \in SavesOf(l) /\ SavesOf(l)' = {}
        /\ \A m \in SavesOf(l) : m = n
    BY <1>1, <1>2, <1>5 DEF SavesOf, Slides, Sliding, OneSave
  <2>2. /\ c.step = "done" /\ cache' = cache
        /\ l \in DOMAIN fetch.rows => fetch.rows[l] = [id |-> c.id, opacity |-> c.percent]
        /\ l \in DOMAIN cache => cache[l].id = c.id
    BY <1>1, <1>5 DEF AnswerSave, Meets, SavedAnother, list
  <2>3. Carries(l, c)
    BY <2>1 DEF Slides, Sliding, SavesHold
  <2>4. Sliding(l)'
    BY <1>1, <2>1, <2>2 DEF Slides, Sliding, OneSave, Noted, Queued, SavesHold
  <2>5. RowOf(l)' = RowOf(l)
    BY <1>1 DEF RowOf
  <2>6. l \in LayersStored => RowOf(l) \in DOMAIN table
    BY RowIsOwn
  <2>7. Fresh(l)'
    <3> SUFFICES ASSUME Toggles(calls) = {}, fetch.step = "served", misses = 0,
                        l \in DOMAIN fetch.rows
                 PROVE  fetch.rows[l].opacity = table[RowOf(l)]
      BY <1>1, <1>3, <2>5 DEF Fresh, Toggles
    <3>1. IsTable(fetch.rows)
      BY DEF AppliedInv, Follows
    <3>2. l \in LayersStored /\ fetch.rows[l].id = RowOf(l)
      BY <3>1 DEF IsTable
    <3>3. RowOf(l) = c.id /\ fetch.rows[l].opacity = c.percent
      BY <2>2, <3>2
    <3> QED BY <2>2, <2>3, <2>6, <3>2, <3>3 DEF Carries
  <2>8. Rested(l)'
    <3> SUFFICES ASSUME Toggles(calls) = {}, fetch = Idle, misses = 0,
                        l \in DOMAIN cache \ DOMAIN timers
                 PROVE  cache[l].opacity = table[RowOf(l)]
      BY <1>1, <1>3, <2>2, <2>5 DEF Rested, Toggles, OnItsWay
    <3>1. IsTable(cache)
      BY DEF AppliedInv, Follows
    <3>2. l \in LayersStored /\ cache[l].id = RowOf(l)
      BY <3>1 DEF IsTable
    <3>3. RowOf(l) = c.id
      BY <2>2, <3>2
    <3> QED BY <2>2, <2>3, <2>6, <3>2, <3>3 DEF Carries
  <2> QED BY <2>4, <2>7, <2>8 DEF Slides, Stilled
<1> QED BY <1>4, <1>5

LEMMA ListServedSlides ==
  ASSUME AppliedInv, NEW l \in Layers, Slides(l), ListServed
  PROVE  Slides(l)'
<1>1. /\ fetch'.step = "served" /\ DOMAIN fetch'.rows = LayersStored
      /\ l \in LayersStored => fetch'.rows[l].opacity = table[RowOf(l)]
      /\ UNCHANGED <<given, table, cache, timers, saving, calls>>
  BY DEF ListServed, table_vars, list, opacityVars
<1>2. KeepsSaves(l) /\ RowOf(l)' = RowOf(l) /\ fetch' # Idle
  BY <1>1 DEF KeepsSaves, RowOf, Idle
<1>3. Stilled(l)'
  BY <1>1, <1>2 DEF Stilled, Fresh, Rested
<1>4. l \in DOMAIN timers' \cap DOMAIN cache' => timers'[l].percent = cache'[l].opacity
  BY <1>1 DEF Slides, Sliding, Queued
<1>5. Sliding(l)'
  BY <1>1, <1>2, <1>4, SlidesOn DEF Slides
<1> QED BY <1>3, <1>5 DEF Slides

LEMMA ListArrivesSlides ==
  ASSUME AppliedInv, NEW l \in Layers, Slides(l), ListArrives, l \notin crossed'
  PROVE  Slides(l)'
<1>1. /\ fetch.step = "served" /\ fetch' = Idle /\ DOMAIN cache' = DOMAIN fetch.rows
      /\ l \in OnItsWay /\ l \in DOMAIN fetch.rows => l \in DOMAIN cache
      /\ UNCHANGED <<given, table, timers, saving, calls, misses>>
  BY DEF ListArrives, Write, Meets, table_vars, opacityVars
<1>2. KeepsSaves(l) /\ RowOf(l)' = RowOf(l)
  BY <1>1 DEF KeepsSaves, RowOf
<1>3. ASSUME l \in DOMAIN cache'
      PROVE  cache'[l].opacity = IF l \in OnItsWay THEN cache[l].opacity
                                 ELSE fetch.rows[l].opacity
  <2>1. fetch.rows[l] \in Entry
    BY <1>1, <1>3, ListAt DEF AppliedInv, Typed, ListTyped
  <2>2. cache'[l] = IF l \in OnItsWay THEN [fetch.rows[l] EXCEPT !.opacity = cache[l].opacity]
                    ELSE fetch.rows[l]
    BY <1>1, <1>3 DEF ListArrives, Write, Unsaved, OnItsWay
  <2> QED BY <2>1, <2>2 DEF Entry
<1>4. Sliding(l)'
  <2>1. l \in DOMAIN timers' \cap DOMAIN cache' => timers'[l].percent = cache'[l].opacity
    BY <1>1, <1>3 DEF Slides, Sliding, Queued, OnItsWay
  <2>2. l \in DOMAIN cache' \ DOMAIN timers' /\ SavesOf(l) # {} =>
          l \in DOMAIN cache \ DOMAIN timers /\ cache'[l].opacity = cache[l].opacity
    BY <1>1, <1>3 DEF Slides, Sliding, Noted, OnItsWay
  <2> QED BY <1>1, <1>2, <2>1, <2>2, SlidesOn DEF Slides
<1>5. Fresh(l)'
  BY <1>1 DEF Fresh, Idle
<1>6. Rested(l)'
  <2> SUFFICES ASSUME Toggles(calls) = {}, misses = 0, l \in DOMAIN cache', l \notin OnItsWay
               PROVE  cache'[l].opacity = table[RowOf(l)]
    BY <1>1, <1>2 DEF Rested, Toggles, OnItsWay
  <2> QED BY <1>1, <1>3 DEF Slides, Stilled, Fresh, OnItsWay
<1> QED BY <1>4, <1>5, <1>6 DEF Slides, Stilled

LEMMA NextSlides == AppliedInv /\ crossed \subseteq Layers /\ SliderInv /\ [Next]_vars => SliderInv'
<1> SUFFICES ASSUME AppliedInv, crossed \subseteq Layers, SliderInv, [Next]_vars,
                    NEW l \in Layers, l \notin crossed'
             PROVE  Slides(l)'
  BY DEF SliderInv
<1>1. Slides(l)
  BY CrossedGrows DEF SliderInv
<1>2. ASSUME UNCHANGED <<given, table, cache, calls, timers, saving>>,
             \/ fetch' = Asked \/ misses' # 0
             \/ fetch' = fetch /\ misses' = misses
      PROVE  Slides(l)'
  <2>1. KeepsSaves(l) /\ Toggles(calls') = Toggles(calls)
    BY <1>2 DEF KeepsSaves, Toggles
  <2> QED BY <1>1, <1>2, <2>1, SameSlide
<1>3. CASE User
  <2>1. ASSUME NEW h \in Hosted, SwitchHosted(h) PROVE Slides(l)'
    BY <1>2, <2>1 DEF SwitchHosted, table_vars, list, opacityVars
  <2>2. CASE Retry
    BY <1>2, <2>2 DEF Retry, table_vars, list, opacityVars
  <2> QED BY <1>1, <1>3, <2>1, <2>2, SwitchOnSlides, SwitchOffSlides, DragSlides,
             TurnAllOffSlides DEF User
<1>4. CASE \E k \in Layers : TimerFires(k)
  BY <1>1, <1>4, TimerSlides
<1>5. ASSUME NEW n \in DOMAIN calls, Server(n) \/ Lost(n) \/ Answer(n)
      PROVE  Slides(l)'
  <2>1. CASE Lost(n)
    BY <1>1, <2>1, LostSlides DEF Lost, table_vars, list, opacityVars
  <2> QED BY <1>1, <1>5, <2>1, ToggleServedSlides, SaveServedSlides, AnswerToggleSlides,
             AnswerSaveSlides DEF Server, Answer
<1>6. CASE ListFails
  <2>1. misses' # 0
    BY <1>6 DEF ListFails, AppliedInv, Typed, RestTyped
  <2> QED BY <1>2, <1>6, <2>1 DEF ListFails, table_vars, opacityVars
<1>7. CASE Get
  BY <1>1, <1>7, ListServedSlides, ListArrivesSlides DEF Get
<1>8. CASE UNCHANGED vars
  BY <1>2, <1>8 DEF vars, table_vars, list, opacityVars
<1> QED BY <1>3, <1>4, <1>5, <1>6, <1>7, <1>8 DEF Next

(* Whatever is switched, refused, lost or fetched while a slider is dragged  *)
(* and its opacity saved: at rest the layer is shown at the opacity that is  *)
(* stored, unless its slider met one of the things crossed names             *)
(* (useAppliedLayers.ts, saveOpacity and the query of the applied layers).   *)
THEOREM SliderTheorem == Spec => []SliderIsStored
<1> DEFINE I == AppliedInv /\ crossed \subseteq Layers /\ SliderInv
<1>1. Init => I
  <2> SUFFICES ASSUME Init PROVE I
    OBVIOUS
  <2>1. /\ crossed = {} /\ timers = <<>> /\ calls = <<>> /\ fetch = Asked /\ cache = <<>>
    BY DEF Init
  <2>2. DOMAIN <<>> = {} /\ Asked # Idle /\ Asked.step # "served"
    BY DEF Asked, Idle
  <2>3. ASSUME NEW l PROVE Slides(l)
    BY <2>1, <2>2
    DEF Slides, Sliding, Stilled, OneSave, Noted, Queued, SavesHold, SavesOf, Fresh, Rested
  <2> QED BY <2>1, <2>3, InitHolds DEF SliderInv
<1>2. I /\ [Next]_vars => I'
  BY NextHolds, CrossedGrows, NextSlides
<1>3. I => SliderIsStored
  <2> SUFFICES ASSUME I, Toggles(calls) = {}, fetch = Idle, misses = 0,
                      NEW l \in DOMAIN cache \ crossed, l \notin OnItsWay
               PROVE  cache[l].opacity = table[RowOf(l)]
    BY DEF SliderIsStored
  <2>1. l \in Layers
    BY ListAt DEF AppliedInv, Typed, ListTyped
  <2> QED BY <2>1 DEF SliderInv, Slides, Stilled, Rested
<1> QED BY <1>1, <1>2, <1>3, PTL DEF Spec

-----------------------------------------------------------------------------
(* What the widget does to the map: layers in a stack                      *)

(* x lies in the stack s, and a under b in it *)
Holds(s, x) == \E i \in 1..Len(s) : s[i] = x
Below(s, a, b) == \E i, j \in 1..Len(s) : i < j /\ s[i] = a /\ s[j] = b

LEMMA InsertIs ==
  ASSUME NEW S, NEW s \in Seq(S), NEW p \in 1..Len(s), NEW e \in S,
         NEW t, t = InsertAt(s, p, e)
  PROVE      /\ t \in Seq(S) /\ Len(t) = Len(s) + 1
             /\ \A i \in 1..Len(t) :
                  t[i] = IF i < p THEN s[i] ELSE IF i = p THEN e ELSE s[i - 1]
<1> DEFINE u == SubSeq(s, 1, p - 1)  v == SubSeq(s, p, Len(s))  w == u \o <<e>>
<1>1. Len(s) \in Nat
  OBVIOUS
<1>2. u \in Seq(S) /\ Len(u) = p - 1 /\ \A i \in 1..(p - 1) : u[i] = s[i]
  OBVIOUS
<1>3. v \in Seq(S) /\ Len(v) = Len(s) - p + 1 /\ \A i \in 1..(Len(s) - p + 1) : v[i] = s[p + i - 1]
  OBVIOUS
<1>4. t = w \o v
  BY DEF InsertAt
<1>5. <<e>> \in Seq(S) /\ Len(<<e>>) = 1 /\ <<e>>[1] = e
  OBVIOUS
<1> HIDE DEF u, v
<1>6. /\ w \in Seq(S) /\ Len(w) = p
      /\ \A i \in 1..p : w[i] = IF i <= p - 1 THEN u[i] ELSE <<e>>[i - (p - 1)]
  BY <1>1, <1>2, <1>5, ConcatProperties
<1>7. \A i \in 1..p : w[i] = IF i < p THEN s[i] ELSE e
  BY <1>1, <1>2, <1>5, <1>6
<1> HIDE DEF w
<1>8. /\ t \in Seq(S) /\ Len(t) = Len(s) + 1
      /\ \A i \in 1..(Len(s) + 1) : t[i] = IF i <= p THEN w[i] ELSE v[i - p]
  <2>1. Len(w) + Len(v) = Len(s) + 1
    BY <1>1, <1>3, <1>6
  <2>2. /\ w \o v \in Seq(S) /\ Len(w \o v) = Len(w) + Len(v)
        /\ \A i \in 1..(Len(w) + Len(v)) : (w \o v)[i] = IF i <= Len(w) THEN w[i] ELSE v[i - Len(w)]
    BY <1>3, <1>6, ConcatProperties
  <2> QED BY <1>4, <1>6, <2>1, <2>2
<1>9. ASSUME NEW i \in 1..(Len(s) + 1)
      PROVE  t[i] = IF i < p THEN s[i] ELSE IF i = p THEN e ELSE s[i - 1]
  <2>1. CASE i <= p
    BY <1>7, <1>8, <2>1
  <2>2. CASE i > p
    <3>1. i - p \in 1..(Len(s) - p + 1) /\ p + (i - p) - 1 = i - 1
      BY <1>1, <2>2
    <3>2. t[i] = v[i - p]
      BY <1>1, <1>8, <2>2
    <3> QED BY <1>3, <2>2, <3>1, <3>2
  <2> QED BY <2>1, <2>2
<1> QED
  BY <1>4, <1>8, <1>9

LEMMA RemoveIs ==
  ASSUME NEW S, NEW s \in Seq(S), NEW p \in 1..Len(s)
  PROVE  LET t == RemoveAt(s, p)
         IN  /\ t \in Seq(S) /\ Len(t) = Len(s) - 1
             /\ \A i \in 1..Len(t) : t[i] = IF i < p THEN s[i] ELSE s[i + 1]
<1> DEFINE u == SubSeq(s, 1, p - 1)  v == SubSeq(s, p + 1, Len(s))  t == u \o v
<1>1. Len(s) \in Nat
  OBVIOUS
<1>2. u \in Seq(S) /\ Len(u) = p - 1 /\ \A i \in 1..(p - 1) : u[i] = s[i]
  OBVIOUS
<1>3. v \in Seq(S) /\ Len(v) = Len(s) - p /\ \A i \in 1..(Len(s) - p) : v[i] = s[p + 1 + i - 1]
  OBVIOUS
<1>4. t = RemoveAt(s, p)
  BY DEF RemoveAt
<1> HIDE DEF u, v
<1>5. /\ t \in Seq(S) /\ Len(t) = Len(s) - 1
      /\ \A i \in 1..(Len(s) - 1) : t[i] = IF i <= p - 1 THEN u[i] ELSE v[i - (p - 1)]
  <2>1. Len(u) + Len(v) = Len(s) - 1
    BY <1>1, <1>2, <1>3
  <2>2. /\ u \o v \in Seq(S) /\ Len(u \o v) = Len(u) + Len(v)
        /\ \A i \in 1..(Len(u) + Len(v)) : (u \o v)[i] = IF i <= Len(u) THEN u[i] ELSE v[i - Len(u)]
    BY <1>2, <1>3, ConcatProperties
  <2> QED BY <1>2, <2>1, <2>2
<1> HIDE DEF t
<1>6. ASSUME NEW i \in 1..(Len(s) - 1)
      PROVE  t[i] = IF i < p THEN s[i] ELSE s[i + 1]
  <2>1. CASE i <= p - 1
    <3>1. i < p
      BY <1>1, <2>1
    <3> QED BY <1>1, <1>2, <1>5, <2>1, <3>1
  <2>2. CASE i > p - 1
    <3>1. i - (p - 1) \in 1..(Len(s) - p) /\ p + 1 + (i - (p - 1)) - 1 = i + 1 /\ ~(i < p)
      BY <1>1, <2>2
    <3>2. t[i] = v[i - (p - 1)]
      BY <1>1, <1>5, <2>2
    <3> QED BY <1>3, <3>1, <3>2
  <2> QED BY <1>1, <2>1, <2>2
<1> QED
  BY <1>4, <1>5, <1>6

(* A layer put under the one at p: nothing else changes its order, it lies    *)
(* under that one, and over all that lay under that one.                      *)
LEMMA Inserted ==
  ASSUME NEW S, NEW s \in Seq(S), IsInjective(s), NEW p \in 1..Len(s),
         NEW e \in S, ~Holds(s, e)
  PROVE  LET t == InsertAt(s, p, e)
         IN  /\ t \in Seq(S) /\ IsInjective(t)
             /\ \A x : Holds(t, x) <=> Holds(s, x) \/ x = e
             /\ \A a, b : Below(s, a, b) => Below(t, a, b)
             /\ Below(t, e, s[p])
             /\ \A a : Below(s, a, s[p]) => Below(t, a, e)
<1> DEFINE t == InsertAt(s, p, e)
<1>1. /\ t \in Seq(S) /\ Len(t) = Len(s) + 1 /\ Len(s) \in Nat
      /\ \A i \in 1..Len(t) : t[i] = IF i < p THEN s[i] ELSE IF i = p THEN e ELSE s[i - 1]
  <2>1. Len(s) \in Nat
    OBVIOUS
  <2>2. /\ t \in Seq(S) /\ Len(t) = Len(s) + 1
        /\ \A i \in 1..Len(t) : t[i] = IF i < p THEN s[i] ELSE IF i = p THEN e ELSE s[i - 1]
    BY InsertIs DEF t
  <2> QED BY <2>1, <2>2
<1> HIDE DEF t
<1> DEFINE At(i) == IF i < p THEN i ELSE i + 1
<1>2. \A i \in 1..Len(s) : At(i) \in 1..Len(t) /\ t[At(i)] = s[i]
  BY <1>1
<1>3. \A i, j \in 1..Len(s) : i < j => At(i) < At(j)
  BY <1>1
<1>4. p \in 1..Len(t) /\ t[p] = e
  BY <1>1
<1>5. \A k \in 1..Len(t) : k # p => \E i \in 1..Len(s) : k = At(i)
  <2> TAKE k \in 1..Len(t)
  <2>1. CASE k < p
    BY <1>1, <2>1
  <2>2. CASE k > p
    <3>1. k - 1 \in 1..Len(s) /\ k = At(k - 1)
      BY <1>1, <2>2
    <3> QED BY <3>1
  <2> QED BY <1>1, <2>1, <2>2
<1>6. \A i \in 1..Len(s) : i < p => At(i) < p
  BY <1>1
<1>7. p < At(p)
  BY <1>1
<1> HIDE DEF At
<1>8. IsInjective(t)
  <2>1. \A i, j \in DOMAIN s : s[i] = s[j] => i = j
    BY DEF IsInjective
  <2>2. SUFFICES ASSUME NEW k \in 1..Len(t), NEW l \in 1..Len(t), t[k] = t[l] PROVE k = l
    BY <1>1 DEF IsInjective
  <2>3. CASE k = p /\ l = p
    BY <2>3
  <2>4. CASE k # p /\ l # p
    <3>1. PICK i \in 1..Len(s), j \in 1..Len(s) : k = At(i) /\ l = At(j)
      BY <1>5, <2>4
    <3>2. s[i] = s[j]
      BY <1>2, <2>2, <3>1
    <3> QED BY <1>1, <2>1, <3>1, <3>2
  <2>5. CASE k = p /\ l # p
    BY <1>2, <1>4, <1>5, <2>2, <2>5 DEF Holds
  <2>6. CASE k # p /\ l = p
    BY <1>2, <1>4, <1>5, <2>2, <2>6 DEF Holds
  <2> QED BY <2>3, <2>4, <2>5, <2>6
<1>9. \A x : Holds(t, x) <=> Holds(s, x) \/ x = e
  BY <1>2, <1>4, <1>5 DEF Holds
<1>10. \A a, b : Below(s, a, b) => Below(t, a, b)
  BY <1>2, <1>3 DEF Below
<1>11. Below(t, e, s[p])
  BY <1>2, <1>4, <1>7 DEF Below
<1>12. \A a : Below(s, a, s[p]) => Below(t, a, e)
  <2> TAKE a
  <2> HAVE Below(s, a, s[p])
  <2>1. PICK i, j \in 1..Len(s) : i < j /\ s[i] = a /\ s[j] = s[p]
    BY DEF Below
  <2>2. j = p
    BY <1>1, <2>1 DEF IsInjective
  <2> QED BY <1>2, <1>4, <1>6, <2>1, <2>2 DEF Below
<1> QED
  BY <1>1, <1>8, <1>9, <1>10, <1>11, <1>12 DEF t

(* A layer put over all the others *)
LEMMA Appended ==
  ASSUME NEW S, NEW s \in Seq(S), IsInjective(s), NEW e \in S, ~Holds(s, e)
  PROVE  LET t == Append(s, e)
         IN  /\ t \in Seq(S) /\ IsInjective(t)
             /\ \A x : Holds(t, x) <=> Holds(s, x) \/ x = e
             /\ \A a, b : Below(s, a, b) => Below(t, a, b)
             /\ \A a : Holds(s, a) => Below(t, a, e)
             /\ t[Len(t)] = e
<1> DEFINE t == Append(s, e)
<1>1. /\ t \in Seq(S) /\ Len(t) = Len(s) + 1 /\ Len(s) \in Nat
      /\ \A i \in 1..Len(s) : t[i] = s[i]
      /\ t[Len(s) + 1] = e
  BY AppendProperties
<1> HIDE DEF t
<1>2. \A k \in 1..Len(t) : k = Len(s) + 1 \/ k \in 1..Len(s)
  BY <1>1
<1>3. \A i \in 1..Len(s) : i \in 1..Len(t) /\ i < Len(s) + 1
  BY <1>1
<1>4. Len(s) + 1 \in 1..Len(t)
  BY <1>1
<1>8. IsInjective(t)
  <2>1. \A i, j \in DOMAIN s : s[i] = s[j] => i = j
    BY DEF IsInjective
  <2>2. SUFFICES ASSUME NEW k \in 1..Len(t), NEW l \in 1..Len(t), t[k] = t[l] PROVE k = l
    BY <1>1 DEF IsInjective
  <2> QED BY <1>1, <1>2, <2>1, <2>2 DEF Holds
<1>9. \A x : Holds(t, x) <=> Holds(s, x) \/ x = e
  BY <1>1, <1>2, <1>3, <1>4 DEF Holds
<1>10. \A a, b : Below(s, a, b) => Below(t, a, b)
  BY <1>1, <1>3 DEF Below
<1>12. \A a : Holds(s, a) => Below(t, a, e)
  BY <1>1, <1>3, <1>4 DEF Below, Holds
<1> QED
  BY <1>1, <1>8, <1>9, <1>10, <1>12 DEF t

(* A layer taken out *)
LEMMA Removed ==
  ASSUME NEW S, NEW s \in Seq(S), IsInjective(s), NEW p \in 1..Len(s)
  PROVE  LET t == RemoveAt(s, p)
         IN  /\ t \in Seq(S) /\ IsInjective(t)
             /\ \A x : Holds(t, x) <=> Holds(s, x) /\ x # s[p]
             /\ \A a, b : a # s[p] /\ b # s[p] /\ Below(s, a, b) => Below(t, a, b)
<1> DEFINE t == RemoveAt(s, p)
<1>1. /\ t \in Seq(S) /\ Len(t) = Len(s) - 1 /\ Len(s) \in Nat /\ Len(t) \in Nat
      /\ \A i \in 1..Len(t) : t[i] = IF i < p THEN s[i] ELSE s[i + 1]
  BY RemoveIs DEF t
<1> HIDE DEF t
<1> DEFINE At(i) == IF i < p THEN i ELSE i + 1
           To(i) == IF i < p THEN i ELSE i - 1
<1>2. \A i \in 1..Len(t) : At(i) \in 1..Len(s) /\ At(i) # p /\ t[i] = s[At(i)]
  <2> TAKE i \in 1..Len(t)
  <2>1. CASE i < p
    BY <1>1, <2>1
  <2>2. CASE ~(i < p)
    BY <1>1, <2>2
  <2> QED BY <2>1, <2>2
<1>3. \A i \in 1..Len(s) : i # p => To(i) \in 1..Len(t) /\ At(To(i)) = i
  <2> TAKE i \in 1..Len(s)
  <2>1. CASE i < p
    BY <1>1, <2>1
  <2>2. CASE i > p
    BY <1>1, <2>2
  <2> QED BY <2>1, <2>2
<1>4. \A i, j \in 1..Len(s) : i < j /\ i # p /\ j # p => To(i) < To(j)
  <2> SUFFICES ASSUME NEW i \in 1..Len(s), NEW j \in 1..Len(s), i < j, i # p, j # p
               PROVE  To(i) < To(j)
    OBVIOUS
  <2>1. CASE j < p
    BY <1>1, <2>1
  <2>2. CASE p < i
    BY <1>1, <2>2
  <2>3. CASE i < p /\ p < j
    BY <1>1, <2>3
  <2> QED BY <1>1, <2>1, <2>2, <2>3
<1>5. \A i, j \in 1..Len(t) : At(i) = At(j) => i = j
  BY <1>1
<1>6. \A i, j \in 1..Len(s) : s[i] = s[j] => i = j
  BY DEF IsInjective
<1> HIDE DEF At, To
<1>8. IsInjective(t)
  <2>2. SUFFICES ASSUME NEW k \in 1..Len(t), NEW l \in 1..Len(t), t[k] = t[l] PROVE k = l
    BY <1>1 DEF IsInjective
  <2> QED BY <1>2, <1>5, <1>6, <2>2
<1>9. \A x : Holds(t, x) <=> Holds(s, x) /\ x # s[p]
  BY <1>2, <1>3, <1>6 DEF Holds
<1>10. \A a, b : a # s[p] /\ b # s[p] /\ Below(s, a, b) => Below(t, a, b)
  BY <1>2, <1>3, <1>4 DEF Below
<1> QED
  BY <1>1, <1>8, <1>9, <1>10 DEF t

-----------------------------------------------------------------------------
(* Maps                                                                    *)

StackLayers == Widget \cup {LabelBlock}
Kinds  == {"shape", "tiles", "local"}
Values == (0..12) \cup BOOLEAN \cup (SUBSET Projects) \cup (SUBSET Features) \cup (SUBSET Kinds)
Looks  == [visible : Values, paint : Values, from : Values, of : Values]

Works ==
  [does : {"show", "showline", "hide", "hideline", "fade", "minzoom", "maxzoom"},
   layer : {"wms"}, to : Values]
    \cup [does : {"showHosted", "hideHosted"}, layer : {"pip"}, to : {Pip}]
    \cup [does : {"width"}, layer : {"pip"}, to : Values]
    \cup [does : {"showHosted"}, layer : {"eao"}, to : {Eao}]
    \cup [does : {"filter"}, layer : {"eao"}, to : [ToSet(Eao) -> Values]]
    \cup [does : {"pick", "unpick", "select", "unselect"}, layer : {"eao"}, to : Values]
    \cup [does : {"mark"}, layer : {"mark"}, to : Kinds]
    \cup [does : {"unmark"}, layer : {"mark"}, to : Values]
    \cup [does : {"import", "reveal", "refade", "remove"}, layer : {"imported"}, to : Values]
    \cup [does : {"dots"}, layer : {"dots"}, to : Values]

LayersOf(lane) ==
  CASE lane = "wms"      -> {"raster", "outline"}
    [] lane = "pip"      -> ToSet(Pip)
    [] lane = "eao"      -> ToSet(Eao) \cup {"picked", "selected"}
    [] lane = "imported" -> {"imported"}
    [] lane = "mark"     -> {"marked"}
    [] lane = "dots"     -> {"dots"}

Maps ==
  [stack : Seq(StackLayers), look : [Widget -> Looks], parsed : BOOLEAN, ready : BOOLEAN,
   changed : BOOLEAN, deferred : Seq(Works), overtaken : BOOLEAN]

Shaped(m) ==
  /\ m \in Maps /\ IsInjective(m.stack)
  /\ \A l \in Widget : ~On(m, l) => m.look[l] = Absent

IsMap(m) ==
  /\ Shaped(m)
  /\ (On(m, "hit") <=> On(m, "line")) /\ (On(m, "footprint") <=> On(m, "component"))

Under(m, l, above) == On(m, l) /\ On(m, above) => Below(m.stack, l, above)

Stacked(m) ==
  /\ Under(m, "hit", "line") /\ Under(m, "footprint", "component")
  /\ Under(m, "selected", "picked")
  /\ m.look["marked"].of = {"shape"} => Under(m, "imported", "marked")
  /\ \A l \in ToSet(Pip) \cup ToSet(Eao) : Under(m, l, LabelBlock)

SameControl(m, n) ==
  /\ n.parsed = m.parsed /\ n.ready = m.ready /\ n.changed = m.changed
  /\ n.deferred = m.deferred /\ n.overtaken = m.overtaken

LEMMA LayerNames ==
  /\ ToSet(Pip) = {"hit", "line"} /\ ToSet(Eao) = {"footprint", "component"}
  /\ Widget = {"raster", "outline", "imported", "marked", "picked", "selected", "dots",
                "hit", "line", "footprint", "component"}
<1>1. ToSet(Pip) = {"hit", "line"}
  BY DEF Pip, ToSet
<1>2. ToSet(Eao) = {"footprint", "component"}
  BY DEF Eao, ToSet
<1> QED
  BY <1>1, <1>2 DEF Widget

LEMMA OnHolds ==
  \A m, l : On(m, l) <=> Holds(m.stack, l)
BY DEF On, Contains, Holds

LEMMA AbsentIs ==
  /\ Absent \in Looks
  /\ Absent.visible = FALSE /\ Absent.paint = 0 /\ Absent.from = 0 /\ Absent.of = {}
BY DEF Absent, Looks, Values

LEMMA ValuesHave ==
  /\ TRUE \in Values /\ FALSE \in Values /\ {} \in Values /\ \A i \in 0..12 : i \in Values
  /\ \A k \in Kinds : {k} \in Values
<1>1. TRUE \in Values /\ FALSE \in Values
  BY DEF Values
<1>2. \A i \in 0..12 : i \in Values
  BY DEF Values
<1>3. {} \in SUBSET Projects
  OBVIOUS
<1>4. {} \in Values
  BY <1>3 DEF Values
<1>5. \A k \in Kinds : {k} \in SUBSET Kinds
  OBVIOUS
<1>6. \A k \in Kinds : {k} \in Values
  BY <1>5 DEF Values
<1> QED
  BY <1>1, <1>2, <1>4, <1>6

(* Layers that are on drawn otherwise *)
LEMMA Redrawn ==
  ASSUME NEW m, Shaped(m), NEW look \in [Widget -> Looks],
         \A l \in Widget : ~On(m, l) => look[l] = m.look[l],
         look["marked"].of = m.look["marked"].of,
         NEW n, n = [m EXCEPT !.look = look]
  PROVE  /\ Shaped(n) /\ SameControl(m, n) /\ n.look = look /\ n.stack = m.stack
         /\ \A l : On(n, l) <=> On(m, l)
         /\ Stacked(m) => Stacked(n)
<1>1. n \in Maps /\ SameControl(m, n) /\ n.look = look /\ n.stack = m.stack
  BY DEF Shaped, Maps, SameControl
<1>2. \A l : On(n, l) <=> On(m, l)
  BY <1>1 DEF On
<1>3. Shaped(n)
  BY <1>1, <1>2 DEF Shaped
<1>4. Stacked(m) => Stacked(n)
  BY <1>1, <1>2 DEF Stacked, Under
<1> QED
  BY <1>1, <1>2, <1>3, <1>4

LEMMA PositionIs ==
  ASSUME NEW m, m.stack \in Seq(StackLayers), NEW l, On(m, l)
  PROVE  Position(m, l) \in 1..Len(m.stack) /\ m.stack[Position(m, l)] = l
<1>1. \E i \in DOMAIN m.stack : m.stack[i] = l
  BY DEF On, Contains
<1>2. Position(m, l) \in DOMAIN m.stack /\ m.stack[Position(m, l)] = l
  BY <1>1 DEF Position
<1> QED BY <1>2

(* A layer that was not on is put under another, or over all *)
LEMMA PutIs ==
  ASSUME NEW m, Shaped(m), NEW l \in Widget, ~On(m, l), NEW look \in Looks,
         NEW before,
         NEW n, n = Put(m, l, look, before)
  PROVE  /\ Shaped(n) /\ SameControl(m, n) /\ n.look = [m.look EXCEPT ![l] = look]
         /\ \A x : On(n, x) <=> On(m, x) \/ x = l
         /\ \A a, b : Below(m.stack, a, b) => Below(n.stack, a, b)
         /\ On(m, before) => /\ Below(n.stack, l, before)
                             /\ \A a : Below(m.stack, a, before) => Below(n.stack, a, l)
         /\ ~On(m, before) => \A a : On(m, a) => Below(n.stack, a, l)
<1> DEFINE s == m.stack
           t == IF On(m, before) THEN InsertAt(s, Position(m, before), l) ELSE Append(s, l)
<1>1. s \in Seq(StackLayers) /\ IsInjective(s) /\ l \in StackLayers /\ ~Holds(s, l)
  BY OnHolds DEF Shaped, Maps, StackLayers
<1>2. /\ t \in Seq(StackLayers) /\ IsInjective(t)
      /\ \A x : Holds(t, x) <=> Holds(s, x) \/ x = l
      /\ \A a, b : Below(s, a, b) => Below(t, a, b)
      /\ On(m, before) => /\ Below(t, l, before)
                          /\ \A a : Below(s, a, before) => Below(t, a, l)
      /\ ~On(m, before) => \A a : On(m, a) => Below(t, a, l)
  <2>1. CASE On(m, before)
    <3>1. Position(m, before) \in 1..Len(s) /\ s[Position(m, before)] = before
      BY <1>1, <2>1, PositionIs
    <3>2. t = InsertAt(s, Position(m, before), l)
      BY <2>1
    <3> DEFINE p == Position(m, before)
    <3> HIDE DEF s, t, p
    <3>3. /\ t \in Seq(StackLayers) /\ IsInjective(t)
          /\ \A x : Holds(t, x) <=> Holds(s, x) \/ x = l
          /\ \A a, b : Below(s, a, b) => Below(t, a, b)
          /\ Below(t, l, s[p])
          /\ \A a : Below(s, a, s[p]) => Below(t, a, l)
      BY <1>1, <3>1, <3>2, Inserted DEF p
    <3> QED BY <2>1, <3>1, <3>3 DEF p
  <2>2. CASE ~On(m, before)
    <3>1. t = Append(s, l)
      BY <2>2
    <3> HIDE DEF t
    <3> QED BY <1>1, <2>2, <3>1, Appended, OnHolds
  <2> QED BY <2>1, <2>2
<1>3. /\ n \in Maps /\ SameControl(m, n) /\ n.look = [m.look EXCEPT ![l] = look]
      /\ n.stack = t
  <2>1. n = [m EXCEPT !.look[l] = look, !.stack = t]
    BY DEF Put
  <2> HIDE DEF t
  <2> QED BY <1>2, <2>1 DEF Shaped, Maps, SameControl
<1> HIDE DEF t
<1>4. \A x : On(n, x) <=> On(m, x) \/ x = l
  BY <1>2, <1>3, OnHolds
<1>5. Shaped(n)
  BY <1>2, <1>3, <1>4 DEF Shaped, Maps
<1> QED
  BY <1>2, <1>3, <1>4, <1>5

(* A layer is taken off the map, if it is on it *)
LEMMA TakeIs ==
  ASSUME NEW m, Shaped(m), NEW l \in Widget, NEW n, n = Take(m, l)
  PROVE  /\ Shaped(n) /\ SameControl(m, n) /\ n.look = [m.look EXCEPT ![l] = Absent]
         /\ \A x : On(n, x) <=> On(m, x) /\ x # l
         /\ \A a, b : a # l /\ b # l /\ Below(m.stack, a, b) => Below(n.stack, a, b)
<1> DEFINE s == m.stack
           t == Unstacked(m, l)
<1>1. s \in Seq(StackLayers) /\ IsInjective(s)
  BY DEF Shaped, Maps
<1>2. /\ t \in Seq(StackLayers) /\ IsInjective(t)
      /\ \A x : Holds(t, x) <=> Holds(s, x) /\ x # l
      /\ \A a, b : a # l /\ b # l /\ Below(s, a, b) => Below(t, a, b)
  <2>1. CASE On(m, l)
    <3>1. Position(m, l) \in 1..Len(s) /\ s[Position(m, l)] = l
      BY <1>1, <2>1, PositionIs
    <3>2. t = RemoveAt(s, Position(m, l))
      BY <2>1 DEF Unstacked
    <3> DEFINE p == Position(m, l)
    <3> HIDE DEF s, t, p
    <3>3. /\ t \in Seq(StackLayers) /\ IsInjective(t)
          /\ \A x : Holds(t, x) <=> Holds(s, x) /\ x # s[p]
          /\ \A a, b : a # s[p] /\ b # s[p] /\ Below(s, a, b) => Below(t, a, b)
      BY <1>1, <3>1, <3>2, Removed DEF p
    <3> QED BY <3>1, <3>3 DEF p
  <2>2. CASE ~On(m, l)
    <3>1. t = s
      BY <2>2 DEF Unstacked
    <3> HIDE DEF t
    <3> QED BY <1>1, <2>2, <3>1, OnHolds
  <2> QED BY <2>1, <2>2
<1>3. /\ n \in Maps /\ SameControl(m, n) /\ n.look = [m.look EXCEPT ![l] = Absent]
      /\ n.stack = t
  <2>1. n = [m EXCEPT !.look[l] = Absent, !.stack = t]
    BY DEF Take
  <2>2. Absent \in Looks
    BY AbsentIs
  <2>3. m \in Maps
    BY DEF Shaped
  <2> HIDE DEF t
  <2> QED BY <1>2, <2>1, <2>2, <2>3 DEF Maps, SameControl
<1> HIDE DEF t
<1>4. \A x : On(n, x) <=> On(m, x) /\ x # l
  BY <1>2, <1>3, OnHolds
<1>5. Shaped(n)
  BY <1>2, <1>3, <1>4 DEF Shaped, Maps
<1> QED
  BY <1>2, <1>3, <1>4, <1>5

-----------------------------------------------------------------------------
(* What each work does to a map                                            *)

(* From m to n only layers of one lane change, and none of those the panel    *)
(* and the filter bar ask for comes off.                                      *)
Moves(m, n, lane) ==
  /\ IsMap(n) /\ SameControl(m, n)
  /\ \A l \in Widget \ LayersOf(lane) : (On(n, l) <=> On(m, l)) /\ n.look[l] = m.look[l]
  /\ On(n, LabelBlock) <=> On(m, LabelBlock)
  /\ \A l \in Widget \ {"imported", "marked", "picked", "selected"} : On(m, l) => On(n, l)
  /\ Stacked(m) => Stacked(n)

LookIs(r, visible, paint, from, of) ==
  r.visible = visible /\ r.paint = paint /\ r.from = from /\ r.of = of

LEMMA LanesAre ==
  /\ LayersOf("wms") = {"raster", "outline"} /\ LayersOf("pip") = {"hit", "line"}
  /\ LayersOf("eao") = {"footprint", "component", "picked", "selected"}
  /\ LayersOf("imported") = {"imported"} /\ LayersOf("mark") = {"marked"}
  /\ LayersOf("dots") = {"dots"}
BY LayerNames DEF LayersOf

LEMMA NoneIsOff ==
  ASSUME NEW m, Shaped(m)
  PROVE  ~On(m, "none") /\ LabelBlock \notin Widget
<1>1. \A i \in 1..Len(m.stack) : m.stack[i] \in StackLayers
  BY DEF Shaped, Maps
<1>2. "none" \notin StackLayers /\ LabelBlock \notin Widget
  BY LayerNames DEF StackLayers, LabelBlock
<1> QED
  BY <1>1, <1>2 DEF On, Contains

LEMMA Stays ==
  ASSUME NEW m, IsMap(m), NEW lane
  PROVE  Moves(m, m, lane)
BY DEF Moves, SameControl

(* One layer that is on drawn otherwise *)
LEMMA RedrawOne ==
  ASSUME NEW m, IsMap(m), NEW l \in Widget, On(m, l), NEW r \in Looks,
         r.of = m.look[l].of \/ l # "marked",
         NEW lane, l \in LayersOf(lane),
         NEW n, n = [m EXCEPT !.look[l] = r]
  PROVE  /\ Moves(m, n, lane) /\ n.look = [m.look EXCEPT ![l] = r]
         /\ \A x : On(n, x) <=> On(m, x)
<1> DEFINE look == [m.look EXCEPT ![l] = r]
<1>1. m.look \in [Widget -> Looks] /\ Shaped(m)
  BY DEF IsMap, Shaped, Maps
<1>2. look \in [Widget -> Looks] /\ \A x \in Widget : x # l => look[x] = m.look[x]
  BY <1>1
<1>3. n = [m EXCEPT !.look = look]
  OBVIOUS
<1>4. \A x \in Widget : ~On(m, x) => look[x] = m.look[x]
  BY <1>2
<1>5. look["marked"].of = m.look["marked"].of
  BY <1>1, LayerNames
<1> HIDE DEF look
<1>6. /\ Shaped(n) /\ SameControl(m, n) /\ n.look = look /\ n.stack = m.stack
      /\ \A x : On(n, x) <=> On(m, x)
      /\ Stacked(m) => Stacked(n)
  BY <1>1, <1>2, <1>3, <1>4, <1>5, Redrawn
<1>7. IsMap(n)
  BY <1>6 DEF IsMap
<1>8. \A x \in Widget \ LayersOf(lane) : n.look[x] = m.look[x]
  BY <1>2, <1>6
<1> QED
  BY <1>6, <1>7, <1>8 DEF Moves, look

(* The same, if it is on *)
LEMMA RedrawIfOn ==
  ASSUME NEW m, IsMap(m), NEW l \in Widget, NEW r, On(m, l) => r \in Looks,
         r.of = m.look[l].of \/ l # "marked",
         NEW lane, l \in LayersOf(lane),
         NEW n, n = IF On(m, l) THEN [m EXCEPT !.look[l] = r] ELSE m
  PROVE  /\ Moves(m, n, lane)
         /\ n.look = [m.look EXCEPT ![l] = IF On(m, l) THEN r ELSE m.look[l]]
         /\ \A x : On(n, x) <=> On(m, x)
<1>1. CASE On(m, l)
  <2>1. n = [m EXCEPT !.look[l] = r] /\ r \in Looks
    BY <1>1
  <2>2. /\ Moves(m, n, lane) /\ n.look = [m.look EXCEPT ![l] = r]
        /\ \A x : On(n, x) <=> On(m, x)
    BY <1>1, <2>1, RedrawOne
  <2> QED BY <1>1, <2>2
<1>2. CASE ~On(m, l)
  <2>1. n = m
    BY <1>2
  <2>2. m.look \in [Widget -> Looks]
    BY DEF IsMap, Shaped, Maps
  <2> QED BY <1>2, <2>1, <2>2, Stays
<1> QED
  BY <1>1, <1>2

(* A layer that nothing must lie over, put over all *)
LEMMA PutOver ==
  ASSUME NEW m, IsMap(m), NEW l \in {"raster", "outline", "dots", "marked", "picked"},
         ~On(m, l), NEW r \in Looks, NEW lane, l \in LayersOf(lane),
         NEW n, n = Put(m, l, r, "none")
  PROVE  /\ Moves(m, n, lane) /\ n.look = [m.look EXCEPT ![l] = r]
         /\ \A x : On(n, x) <=> On(m, x) \/ x = l
<1>1. l \in Widget /\ l # LabelBlock /\ Shaped(m)
  BY LayerNames DEF LabelBlock, IsMap
<1>2. /\ Shaped(n) /\ SameControl(m, n) /\ n.look = [m.look EXCEPT ![l] = r]
      /\ \A x : On(n, x) <=> On(m, x) \/ x = l
      /\ \A a, b : Below(m.stack, a, b) => Below(n.stack, a, b)
      /\ \A a : On(m, a) => Below(n.stack, a, l)
  BY <1>1, PutIs, NoneIsOff
<1>3. m.look \in [Widget -> Looks]
  BY <1>1 DEF Shaped, Maps
<1>4. \A x \in Widget : x # l => n.look[x] = m.look[x]
  BY <1>2, <1>3
<1>5. IsMap(n)
  BY <1>2 DEF IsMap
<1>6. Stacked(m) => Stacked(n)
  BY <1>1, <1>2, <1>4, LayerNames DEF Stacked, Under, LabelBlock
<1> QED
  BY <1>1, <1>2, <1>4, <1>5, <1>6 DEF Moves

(* A catalogue layer or the dots: drawn otherwise, or put over all *)
LEMMA ShowOne ==
  ASSUME NEW m, IsMap(m), NEW l \in {"raster", "outline", "dots"},
         NEW r1, On(m, l) => r1 \in Looks, NEW r2 \in Looks, NEW lane, l \in LayersOf(lane),
         NEW n, n = IF On(m, l) THEN [m EXCEPT !.look[l] = r1] ELSE Put(m, l, r2, "none")
  PROVE  /\ Moves(m, n, lane)
         /\ n.look = [m.look EXCEPT ![l] = IF On(m, l) THEN r1 ELSE r2]
         /\ \A x : On(n, x) <=> On(m, x) \/ x = l
<1>1. CASE On(m, l)
  <2>1. l \in Widget /\ l # "marked"
    BY LayerNames
  <2>2. n = [m EXCEPT !.look[l] = r1] /\ r1 \in Looks
    BY <1>1
  <2>3. /\ Moves(m, n, lane) /\ n.look = [m.look EXCEPT ![l] = r1]
        /\ \A x : On(n, x) <=> On(m, x)
    BY <1>1, <2>1, <2>2, RedrawOne
  <2> QED BY <1>1, <2>3
<1>2. CASE ~On(m, l)
  BY <1>2, PutOver
<1> QED
  BY <1>1, <1>2

LEMMA LooksAre ==
  ASSUME NEW m, IsMap(m)
  PROVE  /\ m.look \in [Widget -> Looks] /\ Shaped(m)
         /\ \A l \in Widget : m.look[l] \in Looks
         /\ TRUE \in Values /\ FALSE \in Values /\ 8 \in Values /\ 6 \in Values /\ 3 \in Values
         /\ 0 \in Values /\ {} \in Values
<1>1. 8 \in 0..12 /\ 6 \in 0..12 /\ 3 \in 0..12 /\ 0 \in 0..12
  OBVIOUS
<1>2. m.look \in [Widget -> Looks] /\ Shaped(m)
  BY DEF IsMap, Shaped, Maps
<1> QED
  BY <1>1, <1>2, ValuesHave

(* How a work leaves what is on the map, and the looks it does not touch *)
Adds(m, n, S) == \A x : On(n, x) <=> On(m, x) \/ x \in S
Drops(m, n, l) == \A x : On(n, x) <=> On(m, x) /\ x # l
RidesOn(m, n, l, tiles) == \A x : On(n, x) <=> IF x = l THEN On(m, tiles) ELSE On(m, x)
LookKept(m, n, S) == \A x \in Widget : x \notin S => n.look[x] = m.look[x]

(* showWmsLayer *)
LEMMA ShowWmsIs ==
  ASSUME NEW m, IsMap(m), NEW p \in Values, NEW n, n = ShowWms(m, p)
  PROVE  /\ Moves(m, n, "wms") /\ Adds(m, n, {"raster"})
         /\ n.look["outline"] = m.look["outline"]
         /\ LookIs(n.look["raster"], TRUE, p,
                   IF On(m, "raster") THEN m.look["raster"].from ELSE WMS_MIN_ZOOM,
                   m.look["raster"].of)
<1> DEFINE r1 == [m.look["raster"] EXCEPT !.visible = TRUE, !.paint = p]
           r2 == [Absent EXCEPT !.visible = TRUE, !.paint = p, !.from = WMS_MIN_ZOOM]
<1>1. "raster" \in Widget /\ "raster" \in LayersOf("wms")
      /\ "raster" \in {"raster", "outline", "dots"}
  BY LayerNames, LanesAre
<1>2. r1 \in Looks /\ r2 \in Looks
  BY <1>1, LooksAre, AbsentIs DEF Looks, WMS_MIN_ZOOM
<1>3. n = IF On(m, "raster") THEN [m EXCEPT !.look["raster"] = r1] ELSE Put(m, "raster", r2, "none")
  BY DEF ShowWms
<1> HIDE DEF r1, r2
<1>4. /\ Moves(m, n, "wms")
      /\ n.look = [m.look EXCEPT !["raster"] = IF On(m, "raster") THEN r1 ELSE r2]
      /\ \A x : On(n, x) <=> On(m, x) \/ x = "raster"
  BY <1>1, <1>2, <1>3, ShowOne
<1>5. m.look \in [Widget -> Looks] /\ "raster" \in Widget
      /\ (~On(m, "raster") => m.look["raster"] = Absent)
  BY LooksAre, LayerNames DEF Shaped
<1>6. n.look["raster"] = IF On(m, "raster") THEN r1 ELSE r2
  BY <1>4, <1>5
<1>7. n.look["outline"] = m.look["outline"]
  BY <1>4, <1>5
<1>8. m.look["raster"] \in Looks
  BY <1>5
<1>9. CASE On(m, "raster")
  BY <1>7, <1>4, <1>6, <1>8, <1>9 DEF r1, LookIs, Looks, Adds
<1>10. CASE ~On(m, "raster")
  BY <1>7, <1>4, <1>5, <1>6, <1>10, AbsentIs DEF r2, LookIs, Looks, Adds
<1> QED
  BY <1>9, <1>10

(* showOutlineLayer *)
LEMMA ShowOutlineIs ==
  ASSUME NEW m, IsMap(m), NEW n, n = ShowOutline(m)
  PROVE  /\ Moves(m, n, "wms") /\ Adds(m, n, {"outline"})
         /\ n.look["raster"] = m.look["raster"]
         /\ LookIs(n.look["outline"], TRUE, m.look["outline"].paint,
                   IF On(m, "outline") THEN m.look["outline"].from ELSE WMS_MIN_ZOOM,
                   m.look["outline"].of)
<1> DEFINE r1 == [m.look["outline"] EXCEPT !.visible = TRUE]
           r2 == [Absent EXCEPT !.visible = TRUE, !.from = WMS_MIN_ZOOM]
<1>1. "outline" \in Widget /\ "outline" \in LayersOf("wms")
      /\ "outline" \in {"raster", "outline", "dots"}
  BY LayerNames, LanesAre
<1>2. r1 \in Looks /\ r2 \in Looks
  BY <1>1, LooksAre, AbsentIs DEF Looks, WMS_MIN_ZOOM
<1>3. n = IF On(m, "outline") THEN [m EXCEPT !.look["outline"] = r1] ELSE Put(m, "outline", r2,
                                                                              "none")
  BY DEF ShowOutline
<1> HIDE DEF r1, r2
<1>4. /\ Moves(m, n, "wms")
      /\ n.look = [m.look EXCEPT !["outline"] = IF On(m, "outline") THEN r1 ELSE r2]
      /\ \A x : On(n, x) <=> On(m, x) \/ x = "outline"
  BY <1>1, <1>2, <1>3, ShowOne
<1>5. m.look \in [Widget -> Looks] /\ "outline" \in Widget
      /\ (~On(m, "outline") => m.look["outline"] = Absent)
  BY LooksAre, LayerNames DEF Shaped
<1>6. n.look["outline"] = IF On(m, "outline") THEN r1 ELSE r2
  BY <1>4, <1>5
<1>7. n.look["raster"] = m.look["raster"]
  BY <1>4, <1>5
<1>8. m.look["outline"] \in Looks
  BY <1>5
<1>9. CASE On(m, "outline")
  BY <1>7, <1>4, <1>6, <1>8, <1>9 DEF r1, LookIs, Looks, Adds
<1>10. CASE ~On(m, "outline")
  BY <1>7, <1>4, <1>5, <1>6, <1>10, AbsentIs DEF r2, LookIs, Looks, Adds
<1> QED
  BY <1>9, <1>10

(* showProjects *)
LEMMA ShowProjectsIs ==
  ASSUME NEW m, IsMap(m), NEW shown \in Values, NEW n, n = ShowProjects(m, shown)
  PROVE  /\ Moves(m, n, "dots") /\ Adds(m, n, {"dots"})
         /\ LookIs(n.look["dots"], IF On(m, "dots") THEN m.look["dots"].visible ELSE TRUE,
                   m.look["dots"].paint, m.look["dots"].from, shown)
<1> DEFINE r1 == [m.look["dots"] EXCEPT !.of = shown]
           r2 == [Absent EXCEPT !.visible = TRUE, !.of = shown]
<1>1. "dots" \in Widget /\ "dots" \in LayersOf("dots") /\ "dots" \in {"raster", "outline", "dots"}
  BY LayerNames, LanesAre
<1>2. r1 \in Looks /\ r2 \in Looks
  BY <1>1, LooksAre, AbsentIs DEF Looks
<1>3. n = IF On(m, "dots") THEN [m EXCEPT !.look["dots"] = r1] ELSE Put(m, "dots", r2, "none")
  BY DEF ShowProjects
<1> HIDE DEF r1, r2
<1>4. /\ Moves(m, n, "dots")
      /\ n.look = [m.look EXCEPT !["dots"] = IF On(m, "dots") THEN r1 ELSE r2]
      /\ \A x : On(n, x) <=> On(m, x) \/ x = "dots"
  BY <1>1, <1>2, <1>3, ShowOne
<1>5. m.look \in [Widget -> Looks] /\ "dots" \in Widget
      /\ (~On(m, "dots") => m.look["dots"] = Absent)
  BY LooksAre, LayerNames DEF Shaped
<1>6. n.look["dots"] = IF On(m, "dots") THEN r1 ELSE r2
  BY <1>4, <1>5
<1>8. m.look["dots"] \in Looks
  BY <1>5
<1>9. CASE On(m, "dots")
  BY <1>4, <1>6, <1>8, <1>9 DEF r1, LookIs, Looks, Adds
<1>10. CASE ~On(m, "dots")
  BY <1>4, <1>5, <1>6, <1>10, AbsentIs DEF r2, LookIs, Looks, Adds
<1> QED
  BY <1>9, <1>10

(* hideWmsLayer *)
LEMMA HideWmsIs ==
  ASSUME NEW m, IsMap(m), NEW n, n = HideWms(m)
  PROVE  /\ Moves(m, n, "wms") /\ Adds(m, n, {})
         /\ n.look["outline"] = m.look["outline"]
         /\ LookIs(n.look["raster"], FALSE, m.look["raster"].paint,
                   m.look["raster"].from, m.look["raster"].of)
<1> DEFINE r == [m.look["raster"] EXCEPT !.visible = FALSE]
<1>1. "raster" \in Widget /\ "raster" \in LayersOf("wms") /\ "raster" # "marked"
  BY LayerNames, LanesAre
<1>2. r \in Looks
  BY <1>1, LooksAre DEF Looks
<1>3. n = IF On(m, "raster") THEN [m EXCEPT !.look["raster"] = r] ELSE m
  BY DEF HideWms
<1> HIDE DEF r
<1>4. /\ Moves(m, n, "wms")
      /\ n.look = [m.look EXCEPT !["raster"] = IF On(m, "raster") THEN r ELSE m.look["raster"]]
      /\ \A x : On(n, x) <=> On(m, x)
  BY <1>1, <1>2, <1>3, RedrawIfOn
<1>5. m.look \in [Widget -> Looks] /\ "raster" \in Widget
      /\ (~On(m, "raster") => m.look["raster"] = Absent)
  BY LooksAre, LayerNames DEF Shaped
<1>6. n.look["raster"] = (IF On(m, "raster") THEN r ELSE m.look["raster"])
      /\ m.look["raster"] \in Looks
  BY <1>4, <1>5
<1>7. n.look["outline"] = m.look["outline"]
  BY <1>4, <1>5
<1>8. CASE On(m, "raster")
  BY <1>7, <1>4, <1>6, <1>8 DEF r, LookIs, Looks, Adds
<1>9. CASE ~On(m, "raster")
  BY <1>7, <1>4, <1>5, <1>6, <1>9, AbsentIs DEF LookIs, Adds
<1> QED
  BY <1>8, <1>9

(* hideOutlineLayer *)
LEMMA HideOutlineIs ==
  ASSUME NEW m, IsMap(m), NEW n, n = HideOutline(m)
  PROVE  /\ Moves(m, n, "wms") /\ Adds(m, n, {})
         /\ n.look["raster"] = m.look["raster"]
         /\ LookIs(n.look["outline"], FALSE, m.look["outline"].paint,
                   m.look["outline"].from, m.look["outline"].of)
<1> DEFINE r == [m.look["outline"] EXCEPT !.visible = FALSE]
<1>1. "outline" \in Widget /\ "outline" \in LayersOf("wms") /\ "outline" # "marked"
  BY LayerNames, LanesAre
<1>2. r \in Looks
  BY <1>1, LooksAre DEF Looks
<1>3. n = IF On(m, "outline") THEN [m EXCEPT !.look["outline"] = r] ELSE m
  BY DEF HideOutline
<1> HIDE DEF r
<1>4. /\ Moves(m, n, "wms")
      /\ n.look = [m.look EXCEPT !["outline"] = IF On(m, "outline") THEN r ELSE m.look["outline"]]
      /\ \A x : On(n, x) <=> On(m, x)
  BY <1>1, <1>2, <1>3, RedrawIfOn
<1>5. m.look \in [Widget -> Looks] /\ "outline" \in Widget
      /\ (~On(m, "outline") => m.look["outline"] = Absent)
  BY LooksAre, LayerNames DEF Shaped
<1>6. n.look["outline"] = (IF On(m, "outline") THEN r ELSE m.look["outline"])
      /\ m.look["outline"] \in Looks
  BY <1>4, <1>5
<1>7. n.look["raster"] = m.look["raster"]
  BY <1>4, <1>5
<1>8. CASE On(m, "outline")
  BY <1>7, <1>4, <1>6, <1>8 DEF r, LookIs, Looks, Adds
<1>9. CASE ~On(m, "outline")
  BY <1>7, <1>4, <1>5, <1>6, <1>9, AbsentIs DEF LookIs, Adds
<1> QED
  BY <1>8, <1>9

(* setWmsLayerOpacity *)
LEMMA SetOpacityIs ==
  ASSUME NEW m, IsMap(m), NEW p \in Values, NEW n, n = SetOpacity(m, p)
  PROVE  /\ Moves(m, n, "wms") /\ Adds(m, n, {})
         /\ n.look["outline"] = m.look["outline"]
         /\ LookIs(n.look["raster"], m.look["raster"].visible,
                   IF On(m, "raster") THEN p ELSE m.look["raster"].paint,
                   m.look["raster"].from, m.look["raster"].of)
<1> DEFINE r == [m.look["raster"] EXCEPT !.paint = p]
<1>1. "raster" \in Widget /\ "raster" \in LayersOf("wms") /\ "raster" # "marked"
  BY LayerNames, LanesAre
<1>2. r \in Looks
  BY <1>1, LooksAre DEF Looks
<1>3. n = IF On(m, "raster") THEN [m EXCEPT !.look["raster"] = r] ELSE m
  BY DEF SetOpacity
<1> HIDE DEF r
<1>4. /\ Moves(m, n, "wms")
      /\ n.look = [m.look EXCEPT !["raster"] = IF On(m, "raster") THEN r ELSE m.look["raster"]]
      /\ \A x : On(n, x) <=> On(m, x)
  BY <1>1, <1>2, <1>3, RedrawIfOn
<1>5. m.look \in [Widget -> Looks] /\ "raster" \in Widget
      /\ (~On(m, "raster") => m.look["raster"] = Absent)
  BY LooksAre, LayerNames DEF Shaped
<1>6. n.look["raster"] = (IF On(m, "raster") THEN r ELSE m.look["raster"])
      /\ m.look["raster"] \in Looks
  BY <1>4, <1>5
<1>7. n.look["outline"] = m.look["outline"]
  BY <1>4, <1>5
<1>8. CASE On(m, "raster")
  BY <1>7, <1>4, <1>6, <1>8 DEF r, LookIs, Looks, Adds
<1>9. CASE ~On(m, "raster")
  BY <1>7, <1>4, <1>5, <1>6, <1>9, AbsentIs DEF LookIs, Adds
<1> QED
  BY <1>8, <1>9

(* setWmsLayerMinZoom *)
LEMMA SetMinZoomIs ==
  ASSUME NEW m, IsMap(m), NEW zoom \in Values, NEW n, n = SetMinZoom(m, zoom)
  PROVE  /\ Moves(m, n, "wms") /\ Adds(m, n, {})
         /\ n.look["outline"] = m.look["outline"]
         /\ LookIs(n.look["raster"], m.look["raster"].visible, m.look["raster"].paint,
                   IF On(m, "raster") THEN zoom ELSE m.look["raster"].from, m.look["raster"].of)
<1> DEFINE r == [m.look["raster"] EXCEPT !.from = zoom]
<1>1. "raster" \in Widget /\ "raster" \in LayersOf("wms") /\ "raster" # "marked"
  BY LayerNames, LanesAre
<1>2. r \in Looks
  BY <1>1, LooksAre DEF Looks
<1>3. n = IF On(m, "raster") THEN [m EXCEPT !.look["raster"] = r] ELSE m
  BY DEF SetMinZoom
<1> HIDE DEF r
<1>4. /\ Moves(m, n, "wms")
      /\ n.look = [m.look EXCEPT !["raster"] = IF On(m, "raster") THEN r ELSE m.look["raster"]]
      /\ \A x : On(n, x) <=> On(m, x)
  BY <1>1, <1>2, <1>3, RedrawIfOn
<1>5. m.look \in [Widget -> Looks] /\ "raster" \in Widget
      /\ (~On(m, "raster") => m.look["raster"] = Absent)
  BY LooksAre, LayerNames DEF Shaped
<1>6. n.look["raster"] = (IF On(m, "raster") THEN r ELSE m.look["raster"])
      /\ m.look["raster"] \in Looks
  BY <1>4, <1>5
<1>7. n.look["outline"] = m.look["outline"]
  BY <1>4, <1>5
<1>8. CASE On(m, "raster")
  BY <1>7, <1>4, <1>6, <1>8 DEF r, LookIs, Looks, Adds
<1>9. CASE ~On(m, "raster")
  BY <1>7, <1>4, <1>5, <1>6, <1>9, AbsentIs DEF LookIs, Adds
<1> QED
  BY <1>8, <1>9

(* setOutlineLayerMaxZoom *)
LEMMA SetMaxZoomIs ==
  ASSUME NEW m, IsMap(m), NEW zoom \in Values, NEW n, n = SetMaxZoom(m, zoom)
  PROVE  /\ Moves(m, n, "wms") /\ Adds(m, n, {})
         /\ n.look["raster"] = m.look["raster"]
         /\ LookIs(n.look["outline"], m.look["outline"].visible, m.look["outline"].paint,
                   IF On(m, "outline") THEN zoom ELSE m.look["outline"].from, m.look["outline"].of)
<1> DEFINE r == [m.look["outline"] EXCEPT !.from = zoom]
<1>1. "outline" \in Widget /\ "outline" \in LayersOf("wms") /\ "outline" # "marked"
  BY LayerNames, LanesAre
<1>2. r \in Looks
  BY <1>1, LooksAre DEF Looks
<1>3. n = IF On(m, "outline") THEN [m EXCEPT !.look["outline"] = r] ELSE m
  BY DEF SetMaxZoom
<1> HIDE DEF r
<1>4. /\ Moves(m, n, "wms")
      /\ n.look = [m.look EXCEPT !["outline"] = IF On(m, "outline") THEN r ELSE m.look["outline"]]
      /\ \A x : On(n, x) <=> On(m, x)
  BY <1>1, <1>2, <1>3, RedrawIfOn
<1>5. m.look \in [Widget -> Looks] /\ "outline" \in Widget
      /\ (~On(m, "outline") => m.look["outline"] = Absent)
  BY LooksAre, LayerNames DEF Shaped
<1>6. n.look["outline"] = (IF On(m, "outline") THEN r ELSE m.look["outline"])
      /\ m.look["outline"] \in Looks
  BY <1>4, <1>5
<1>7. n.look["raster"] = m.look["raster"]
  BY <1>4, <1>5
<1>8. CASE On(m, "outline")
  BY <1>7, <1>4, <1>6, <1>8 DEF r, LookIs, Looks, Adds
<1>9. CASE ~On(m, "outline")
  BY <1>7, <1>4, <1>5, <1>6, <1>9, AbsentIs DEF LookIs, Adds
<1> QED
  BY <1>8, <1>9

(* setLocalVectorLayerLineWidth *)
LEMMA SetLineWidthIs ==
  ASSUME NEW m, IsMap(m), NEW pixels \in Values, NEW n, n = SetLineWidth(m, pixels)
  PROVE  /\ Moves(m, n, "pip") /\ Adds(m, n, {})
         /\ n.look["hit"] = m.look["hit"]
         /\ LookIs(n.look["line"], m.look["line"].visible,
                   IF On(m, "line") THEN pixels ELSE m.look["line"].paint,
                   m.look["line"].from, m.look["line"].of)
<1> DEFINE r == [m.look["line"] EXCEPT !.paint = pixels]
<1>1. "line" \in Widget /\ "line" \in LayersOf("pip") /\ "line" # "marked"
  BY LayerNames, LanesAre
<1>2. r \in Looks
  BY <1>1, LooksAre DEF Looks
<1>3. n = IF On(m, "line") THEN [m EXCEPT !.look["line"] = r] ELSE m
  BY DEF SetLineWidth
<1> HIDE DEF r
<1>4. /\ Moves(m, n, "pip")
      /\ n.look = [m.look EXCEPT !["line"] = IF On(m, "line") THEN r ELSE m.look["line"]]
      /\ \A x : On(n, x) <=> On(m, x)
  BY <1>1, <1>2, <1>3, RedrawIfOn
<1>5. m.look \in [Widget -> Looks] /\ "line" \in Widget
      /\ (~On(m, "line") => m.look["line"] = Absent)
  BY LooksAre, LayerNames DEF Shaped
<1>6. n.look["line"] = (IF On(m, "line") THEN r ELSE m.look["line"]) /\ m.look["line"] \in Looks
  BY <1>4, <1>5
<1>7. n.look["hit"] = m.look["hit"]
  BY <1>4, <1>5
<1>8. CASE On(m, "line")
  BY <1>7, <1>4, <1>6, <1>8 DEF r, LookIs, Looks, Adds
<1>9. CASE ~On(m, "line")
  BY <1>7, <1>4, <1>5, <1>6, <1>9, AbsentIs DEF LookIs, Adds
<1> QED
  BY <1>8, <1>9

(* setImportedLayerVisibility *)
LEMMA SetImportedVisibilityIs ==
  ASSUME NEW m, IsMap(m), NEW vis \in Values, NEW n, n = SetImportedVisibility(m, vis)
  PROVE  /\ Moves(m, n, "imported") /\ Adds(m, n, {})
         /\ LookIs(n.look["imported"],
                   IF On(m, "imported") THEN vis ELSE m.look["imported"].visible,
                        m.look["imported"].paint,
                   m.look["imported"].from, m.look["imported"].of)
<1> DEFINE r == [m.look["imported"] EXCEPT !.visible = vis]
<1>1. "imported" \in Widget /\ "imported" \in LayersOf("imported") /\ "imported" # "marked"
  BY LayerNames, LanesAre
<1>2. r \in Looks
  BY <1>1, LooksAre DEF Looks
<1>3. n = IF On(m, "imported") THEN [m EXCEPT !.look["imported"] = r] ELSE m
  BY DEF SetImportedVisibility
<1> HIDE DEF r
<1>4. /\ Moves(m, n, "imported")
      /\ n.look = [m.look EXCEPT !["imported"] =
                     IF On(m, "imported") THEN r ELSE m.look["imported"]]
      /\ \A x : On(n, x) <=> On(m, x)
  BY <1>1, <1>2, <1>3, RedrawIfOn
<1>5. m.look \in [Widget -> Looks] /\ "imported" \in Widget
      /\ (~On(m, "imported") => m.look["imported"] = Absent)
  BY LooksAre, LayerNames DEF Shaped
<1>6. n.look["imported"] = (IF On(m, "imported") THEN r ELSE m.look["imported"])
      /\ m.look["imported"] \in Looks
  BY <1>4, <1>5
<1>8. CASE On(m, "imported")
  BY <1>4, <1>6, <1>8 DEF r, LookIs, Looks, Adds
<1>9. CASE ~On(m, "imported")
  BY <1>4, <1>5, <1>6, <1>9, AbsentIs DEF LookIs, Adds
<1> QED
  BY <1>8, <1>9

(* setImportedLayerOpacity *)
LEMMA SetImportedOpacityIs ==
  ASSUME NEW m, IsMap(m), NEW p \in Values, NEW n, n = SetImportedOpacity(m, p)
  PROVE  /\ Moves(m, n, "imported") /\ Adds(m, n, {})
         /\ LookIs(n.look["imported"], m.look["imported"].visible,
                   IF On(m, "imported") THEN p ELSE m.look["imported"].paint,
                   m.look["imported"].from, m.look["imported"].of)
<1> DEFINE r == [m.look["imported"] EXCEPT !.paint = p]
<1>1. "imported" \in Widget /\ "imported" \in LayersOf("imported") /\ "imported" # "marked"
  BY LayerNames, LanesAre
<1>2. r \in Looks
  BY <1>1, LooksAre DEF Looks
<1>3. n = IF On(m, "imported") THEN [m EXCEPT !.look["imported"] = r] ELSE m
  BY DEF SetImportedOpacity
<1> HIDE DEF r
<1>4. /\ Moves(m, n, "imported")
      /\ n.look = [m.look EXCEPT !["imported"] =
                     IF On(m, "imported") THEN r ELSE m.look["imported"]]
      /\ \A x : On(n, x) <=> On(m, x)
  BY <1>1, <1>2, <1>3, RedrawIfOn
<1>5. m.look \in [Widget -> Looks] /\ "imported" \in Widget
      /\ (~On(m, "imported") => m.look["imported"] = Absent)
  BY LooksAre, LayerNames DEF Shaped
<1>6. n.look["imported"] = (IF On(m, "imported") THEN r ELSE m.look["imported"])
      /\ m.look["imported"] \in Looks
  BY <1>4, <1>5
<1>8. CASE On(m, "imported")
  BY <1>4, <1>6, <1>8 DEF r, LookIs, Looks, Adds
<1>9. CASE ~On(m, "imported")
  BY <1>4, <1>5, <1>6, <1>9, AbsentIs DEF LookIs, Adds
<1> QED
  BY <1>8, <1>9

LEMMA MovesOn ==
  ASSUME NEW m, NEW k, NEW n, NEW lane, Moves(m, k, lane), Moves(k, n, lane)
  PROVE  Moves(m, n, lane)
BY DEF Moves, SameControl

(* A highlight or the imported layer is taken off *)
LEMMA TakeOff ==
  ASSUME NEW m, IsMap(m), NEW l \in {"marked", "picked", "selected", "imported"},
         NEW lane, l \in LayersOf(lane), NEW n, n = Take(m, l)
  PROVE  /\ Moves(m, n, lane) /\ n.look = [m.look EXCEPT ![l] = Absent]
         /\ \A x : On(n, x) <=> On(m, x) /\ x # l
<1>1. l \in Widget /\ l # LabelBlock /\ Shaped(m)
  BY LayerNames DEF LabelBlock, IsMap
<1>2. /\ Shaped(n) /\ SameControl(m, n) /\ n.look = [m.look EXCEPT ![l] = Absent]
      /\ \A x : On(n, x) <=> On(m, x) /\ x # l
      /\ \A a, b : a # l /\ b # l /\ Below(m.stack, a, b) => Below(n.stack, a, b)
  BY <1>1, TakeIs
<1>3. m.look \in [Widget -> Looks]
  BY <1>1 DEF Shaped, Maps
<1>4. \A x \in Widget : x # l => n.look[x] = m.look[x]
  BY <1>2, <1>3
<1>5. IsMap(n)
  BY <1>2 DEF IsMap
<1>6. Stacked(m) => Stacked(n)
  <2>1. l # "marked" => n.look["marked"] = m.look["marked"]
    BY <1>4, LayerNames
  <2>2. \A a, b : Under(m, a, b) => Under(n, a, b)
    BY <1>2 DEF Under
  <2>3. l = "marked" => Under(n, "imported", "marked")
    BY <1>2 DEF Under
  <2> QED BY <2>1, <2>2, <2>3 DEF Stacked
<1> QED
  BY <1>1, <1>2, <1>4, <1>5, <1>6 DEF Moves

(* removeHighlight *)
LEMMA RemoveHighlightIs ==
  ASSUME NEW m, IsMap(m), NEW n, n = RemoveHighlight(m)
  PROVE  /\ Moves(m, n, "mark") /\ Drops(m, n, "marked")
         /\ n.look["marked"] = Absent /\ LookKept(m, n, {"marked"})
<1>1. /\ Moves(m, n, "mark") /\ n.look = [m.look EXCEPT !["marked"] = Absent]
      /\ \A x : On(n, x) <=> On(m, x) /\ x # "marked"
  BY TakeOff, LanesAre DEF RemoveHighlight
<1>2. m.look \in [Widget -> Looks] /\ "marked" \in Widget
  BY LooksAre, LayerNames
<1> QED
  BY <1>1, <1>2 DEF Drops, LookKept

(* removeComponentHighlight *)
LEMMA RemoveComponentHighlightIs ==
  ASSUME NEW m, IsMap(m), NEW n, n = RemoveComponentHighlight(m)
  PROVE  /\ Moves(m, n, "eao") /\ Drops(m, n, "picked")
         /\ n.look["picked"] = Absent /\ LookKept(m, n, {"picked"})
<1>1. /\ Moves(m, n, "eao") /\ n.look = [m.look EXCEPT !["picked"] = Absent]
      /\ \A x : On(n, x) <=> On(m, x) /\ x # "picked"
  BY TakeOff, LanesAre DEF RemoveComponentHighlight
<1>2. m.look \in [Widget -> Looks] /\ "picked" \in Widget
  BY LooksAre, LayerNames
<1> QED
  BY <1>1, <1>2 DEF Drops, LookKept

(* removeSelectionOutline *)
LEMMA RemoveSelectionOutlineIs ==
  ASSUME NEW m, IsMap(m), NEW n, n = RemoveSelectionOutline(m)
  PROVE  /\ Moves(m, n, "eao") /\ Drops(m, n, "selected")
         /\ n.look["selected"] = Absent /\ LookKept(m, n, {"selected"})
<1>1. /\ Moves(m, n, "eao") /\ n.look = [m.look EXCEPT !["selected"] = Absent]
      /\ \A x : On(n, x) <=> On(m, x) /\ x # "selected"
  BY TakeOff, LanesAre DEF RemoveSelectionOutline
<1>2. m.look \in [Widget -> Looks] /\ "selected" \in Widget
  BY LooksAre, LayerNames
<1> QED
  BY <1>1, <1>2 DEF Drops, LookKept

(* removeImportedLayer *)
LEMMA RemoveImportedIs ==
  ASSUME NEW m, IsMap(m), NEW n, n = RemoveImported(m)
  PROVE  /\ Moves(m, n, "imported") /\ Drops(m, n, "imported")
         /\ n.look["imported"] = Absent /\ LookKept(m, n, {"imported"})
<1>1. /\ Moves(m, n, "imported") /\ n.look = [m.look EXCEPT !["imported"] = Absent]
      /\ \A x : On(n, x) <=> On(m, x) /\ x # "imported"
  BY TakeOff, LanesAre DEF RemoveImported
<1>2. m.look \in [Widget -> Looks] /\ "imported" \in Widget
  BY LooksAre, LayerNames
<1> QED
  BY <1>1, <1>2 DEF Drops, LookKept

(* showHighlight *)
LEMMA ShowHighlightIs ==
  ASSUME NEW m, IsMap(m), NEW kind \in Kinds, NEW n, n = ShowHighlight(m, kind)
  PROVE  /\ Moves(m, n, "mark") /\ Adds(m, n, {"marked"})
         /\ LookIs(n.look["marked"], TRUE, 0, 0, {kind})
<1> DEFINE r == [Absent EXCEPT !.visible = TRUE, !.of = {kind}]
           k == RemoveHighlight(m)
<1>1. r \in Looks
  BY ValuesHave, AbsentIs DEF Looks
<1>2. /\ Moves(m, k, "mark") /\ k.look = [m.look EXCEPT !["marked"] = Absent]
      /\ \A x : On(k, x) <=> On(m, x) /\ x # "marked"
  BY TakeOff, LanesAre DEF RemoveHighlight, k
<1>3. n = Put(k, "marked", r, "none")
  BY DEF ShowHighlight
<1>4. IsMap(k) /\ "marked" \in LayersOf("mark") /\ "marked" \in Widget
  BY <1>2, LanesAre, LayerNames DEF Moves
<1> HIDE DEF r, k
<1>5. /\ Moves(k, n, "mark") /\ n.look = [k.look EXCEPT !["marked"] = r]
      /\ \A x : On(n, x) <=> On(k, x) \/ x = "marked"
  BY <1>1, <1>2, <1>3, <1>4, PutOver
<1>6. n.look["marked"] = r
  BY <1>2, <1>4, <1>5, LooksAre
<1>7. LookIs(r, TRUE, 0, 0, {kind})
  BY AbsentIs DEF r, LookIs, Looks
<1> QED
  BY <1>2, <1>5, <1>6, <1>7, MovesOn DEF Adds

(* drawLocalHighlight, of a highlight that is off *)
LEMMA DrawLocalIs ==
  ASSUME NEW m, IsMap(m), NEW l \in {"marked", "picked"}, ~On(m, l), NEW r \in Looks,
         NEW tiles, NEW lane, l \in LayersOf(lane),
         NEW n, n = IF On(m, tiles) THEN Put(m, l, r, "none") ELSE m
  PROVE  /\ Moves(m, n, lane) /\ \A x : On(n, x) <=> On(m, x) \/ (x = l /\ On(m, tiles))
         /\ n.look = IF On(m, tiles) THEN [m.look EXCEPT ![l] = r] ELSE m.look
<1>1. CASE On(m, tiles)
  <2>1. n = Put(m, l, r, "none")
    BY <1>1
  <2>2. /\ Moves(m, n, lane) /\ n.look = [m.look EXCEPT ![l] = r]
        /\ \A x : On(n, x) <=> On(m, x) \/ x = l
    BY <2>1, PutOver
  <2> QED BY <1>1, <2>2
<1>2. CASE ~On(m, tiles)
  <2>1. n = m
    BY <1>2
  <2>2. Moves(m, n, lane)
    BY <2>1, Stays
  <2> QED BY <1>2, <2>1, <2>2
<1> QED
  BY <1>1, <1>2

(* showLocalHighlight, of any keys *)
LEMMA DrawMarkedIs ==
  ASSUME NEW m, IsMap(m), NEW keys \in Values, NEW n, 
         n = DrawLocal(RemoveHighlight(m), "marked", keys, "line")
  PROVE  /\ Moves(m, n, "mark")
         /\ RidesOn(m, n, "marked", "line")
         /\ LookKept(m, n, {"marked"})
         /\ On(m, "line") => LookIs(n.look["marked"], TRUE, 0, 0, keys)
         /\ ~On(m, "line") => n.look["marked"] = Absent
<1> DEFINE r == [Absent EXCEPT !.visible = TRUE, !.of = keys]
           k == RemoveHighlight(m)
<1>2. /\ Moves(m, k, "mark") /\ k.look = [m.look EXCEPT !["marked"] = Absent]
      /\ \A x : On(k, x) <=> On(m, x) /\ x # "marked"
  BY TakeOff, LanesAre DEF RemoveHighlight, k
<1>3. n = IF On(k, "line") THEN Put(k, "marked", r, "none") ELSE k
  BY DEF DrawLocal
<1>4. /\ IsMap(k) /\ "marked" \in LayersOf("mark") /\ "marked" \in Widget
      /\ "marked" \in {"marked", "picked"} /\ ~On(k, "marked")
  BY <1>2, LanesAre, LayerNames DEF Moves
<1>5. r \in Looks
  BY AbsentIs, ValuesHave DEF Looks
<1> HIDE DEF k, r
<1>6. /\ Moves(k, n, "mark") /\ \A x : On(n, x) <=> On(k, x) \/ (x = "marked" /\ On(k, "line"))
      /\ n.look = IF On(k, "line") THEN [k.look EXCEPT !["marked"] = r] ELSE k.look
  BY <1>3, <1>4, <1>5, DrawLocalIs
<1>7. Moves(m, n, "mark")
  BY <1>2, <1>6, MovesOn
<1>8. m.look \in [Widget -> Looks] /\ (On(k, "line") <=> On(m, "line"))
  BY <1>2, LooksAre
<1>9. /\ \A x \in Widget : x # "marked" => n.look[x] = m.look[x]
      /\ On(m, "line") => n.look["marked"] = r
      /\ ~On(m, "line") => n.look["marked"] = Absent
  BY <1>2, <1>4, <1>5, <1>6, <1>8
<1>10. LookIs(r, TRUE, 0, 0, keys)
  BY AbsentIs DEF r, LookIs, Looks
<1> QED
  BY <1>2, <1>6, <1>7, <1>9, <1>10 DEF RidesOn, LookKept

(* showLocalHighlight *)
LEMMA ShowLocalHighlightIs ==
  ASSUME NEW m, IsMap(m), NEW n, n = ShowLocalHighlight(m)
  PROVE  /\ Moves(m, n, "mark")
         /\ RidesOn(m, n, "marked", "line")
         /\ LookKept(m, n, {"marked"})
         /\ On(m, "line") => LookIs(n.look["marked"], TRUE, 0, 0, {"local"})
         /\ ~On(m, "line") => n.look["marked"] = Absent
<1>1. PICK keys \in Values : keys = {"local"}
  BY ValuesHave DEF Kinds
<1>2. n = DrawLocal(RemoveHighlight(m), "marked", keys, "line")
  BY <1>1 DEF ShowLocalHighlight
<1>3. /\ Moves(m, n, "mark")
      /\ \A x : On(n, x) <=> IF x = "marked" THEN On(m, "line") ELSE On(m, x)
      /\ \A x \in Widget : x # "marked" => n.look[x] = m.look[x]
      /\ On(m, "line") => LookIs(n.look["marked"], TRUE, 0, 0, keys)
      /\ ~On(m, "line") => n.look["marked"] = Absent
  BY <1>2, DrawMarkedIs DEF RidesOn, LookKept
<1> QED
  BY <1>1, <1>3 DEF RidesOn, LookKept

(* showComponentHighlight *)
LEMMA ShowComponentHighlightIs ==
  ASSUME NEW m, IsMap(m), NEW keys \in Values, NEW n, n = ShowComponentHighlight(m, keys)
  PROVE  /\ Moves(m, n, "eao")
         /\ RidesOn(m, n, "picked", "component")
         /\ LookKept(m, n, {"picked"})
         /\ On(m, "component") => LookIs(n.look["picked"], TRUE, 0, 0, keys)
         /\ ~On(m, "component") => n.look["picked"] = Absent
<1> DEFINE r == [Absent EXCEPT !.visible = TRUE, !.of = keys]
           k == RemoveComponentHighlight(m)
<1>2. /\ Moves(m, k, "eao") /\ k.look = [m.look EXCEPT !["picked"] = Absent]
      /\ \A x : On(k, x) <=> On(m, x) /\ x # "picked"
  BY TakeOff, LanesAre DEF RemoveComponentHighlight, k
<1>3. n = IF On(k, "component") THEN Put(k, "picked", r, "none") ELSE k
  BY DEF ShowComponentHighlight, DrawLocal
<1>4. /\ IsMap(k) /\ "picked" \in LayersOf("eao") /\ "picked" \in Widget
      /\ "picked" \in {"marked", "picked"} /\ ~On(k, "picked")
  BY <1>2, LanesAre, LayerNames DEF Moves
<1>5. r \in Looks
  BY AbsentIs, ValuesHave DEF Looks
<1> HIDE DEF k, r
<1>6. /\ Moves(k, n, "eao") /\ \A x : On(n, x) <=> On(k, x) \/ (x = "picked" /\ On(k, "component"))
      /\ n.look = IF On(k, "component") THEN [k.look EXCEPT !["picked"] = r] ELSE k.look
  BY <1>3, <1>4, <1>5, DrawLocalIs
<1>7. Moves(m, n, "eao")
  BY <1>2, <1>6, MovesOn
<1>8. m.look \in [Widget -> Looks] /\ (On(k, "component") <=> On(m, "component"))
  BY <1>2, LooksAre
<1>9. /\ \A x \in Widget : x # "picked" => n.look[x] = m.look[x]
      /\ On(m, "component") => n.look["picked"] = r
      /\ ~On(m, "component") => n.look["picked"] = Absent
  BY <1>2, <1>4, <1>5, <1>6, <1>8
<1>10. LookIs(r, TRUE, 0, 0, keys)
  BY AbsentIs DEF r, LookIs, Looks
<1> QED
  BY <1>2, <1>6, <1>7, <1>9, <1>10 DEF RidesOn, LookKept

(* showSelectionOutline *)
LEMMA ShowSelectionOutlineIs ==
  ASSUME NEW m, IsMap(m), NEW keys \in Values, NEW n, n = ShowSelectionOutline(m, keys)
  PROVE  /\ Moves(m, n, "eao")
         /\ RidesOn(m, n, "selected", "component")
         /\ LookKept(m, n, {"selected"})
         /\ On(m, "component") => LookIs(n.look["selected"], TRUE, 0, 0, keys)
         /\ ~On(m, "component") => n.look["selected"] = Absent
<1> DEFINE r == [Absent EXCEPT !.visible = TRUE, !.of = keys]
           k == RemoveSelectionOutline(m)
<1>1. r \in Looks
  BY ValuesHave, AbsentIs DEF Looks
<1>2. /\ Moves(m, k, "eao") /\ k.look = [m.look EXCEPT !["selected"] = Absent]
      /\ \A x : On(k, x) <=> On(m, x) /\ x # "selected"
  BY TakeOff, LanesAre DEF RemoveSelectionOutline, k
<1>3. n = IF ~On(m, "component") THEN k ELSE Put(k, "selected", r, "picked")
  BY DEF ShowSelectionOutline
<1>4. IsMap(k) /\ "selected" \in Widget /\ ~On(k, "selected") /\ m.look \in [Widget -> Looks]
  BY <1>2, LayerNames, LooksAre DEF Moves
<1> HIDE DEF k, r
<1>5. CASE On(k, "component")
  <2>1. n = Put(k, "selected", r, "picked") /\ Shaped(k)
    BY <1>2, <1>3, <1>4, <1>5 DEF IsMap
  <2>2. /\ Shaped(n) /\ SameControl(k, n) /\ n.look = [k.look EXCEPT !["selected"] = r]
        /\ \A x : On(n, x) <=> On(k, x) \/ x = "selected"
        /\ \A a, b : Below(k.stack, a, b) => Below(n.stack, a, b)
        /\ On(k, "picked") => /\ Below(n.stack, "selected", "picked")
                              /\ \A a : Below(k.stack, a, "picked") => Below(n.stack, a, "selected")
        /\ ~On(k, "picked") => \A a : On(k, a) => Below(n.stack, a, "selected")
    BY <1>1, <1>4, <2>1, PutIs
  <2>3. \A x \in Widget : x # "selected" => n.look[x] = k.look[x]
    BY <1>4, <2>2, LooksAre
  <2>4. IsMap(n)
    BY <1>4, <2>2 DEF IsMap
  <2>5. Stacked(k) => Stacked(n)
    BY <2>2, <2>3, LayerNames DEF Stacked, Under, LabelBlock
  <2>6. Moves(k, n, "eao")
    BY <2>2, <2>3, <2>4, <2>5, LanesAre DEF Moves, LabelBlock
  <2>7. /\ \A x \in Widget : x # "selected" => n.look[x] = m.look[x]
        /\ n.look["selected"] = r
    BY <1>2, <1>4, <2>2
  <2>8. LookIs(r, TRUE, 0, 0, keys)
    BY AbsentIs DEF r, LookIs, Looks
  <2>9. Moves(m, n, "eao")
    BY <1>2, <2>6, MovesOn
  <2> QED BY <1>2, <1>5, <2>2, <2>7, <2>8, <2>9 DEF RidesOn, LookKept
<1>6. CASE ~On(k, "component")
  <2>1. n = k
    BY <1>2, <1>3, <1>6
  <2>2. \A x \in Widget : x # "selected" => n.look[x] = m.look[x]
    BY <1>2, <1>4, <2>1
  <2>3. n.look["selected"] = Absent
    BY <1>2, <1>4, <2>1
  <2> QED BY <1>2, <1>6, <2>1, <2>2, <2>3 DEF RidesOn, LookKept
<1> QED
  BY <1>5, <1>6 DEF RidesOn, LookKept

(* showImportedLayer *)
LEMMA ShowImportedIs ==
  ASSUME NEW m, IsMap(m), NEW p \in Values, NEW n, n = ShowImported(m, p)
  PROVE  /\ Moves(m, n, "imported") /\ Adds(m, n, {"imported"})
         /\ On(m, "imported") => n.look["imported"] = m.look["imported"]
         /\ ~On(m, "imported") => LookIs(n.look["imported"], TRUE, p, 0, {})
<1> DEFINE r == [Absent EXCEPT !.visible = TRUE, !.paint = p]
           before == IF m.look["marked"].of = {"shape"} THEN "marked" ELSE "none"
<1>1. r \in Looks
  BY ValuesHave, AbsentIs DEF Looks
<1>2. "imported" \in Widget /\ m.look \in [Widget -> Looks] /\ Shaped(m)
  BY LayerNames, LooksAre
<1>3. CASE On(m, "imported")
  <2>1. n = m
    BY <1>3 DEF ShowImported
  <2>2. Moves(m, n, "imported")
    BY <2>1, Stays
  <2> QED BY <1>3, <2>1, <2>2 DEF Adds
<1>4. CASE ~On(m, "imported")
  <2>1. n = Put(m, "imported", r, before)
    BY <1>4 DEF ShowImported
  <2>2. LookIs(r, TRUE, p, 0, {})
    BY AbsentIs DEF LookIs, Looks
  <2>3. m.look["marked"].of = {"shape"} => before = "marked"
    OBVIOUS
  <2> HIDE DEF r, before
  <2>4. /\ Shaped(n) /\ SameControl(m, n) /\ n.look = [m.look EXCEPT !["imported"] = r]
        /\ \A x : On(n, x) <=> On(m, x) \/ x = "imported"
        /\ \A a, b : Below(m.stack, a, b) => Below(n.stack, a, b)
        /\ On(m, before) => /\ Below(n.stack, "imported", before)
                            /\ \A a : Below(m.stack, a, before) => Below(n.stack, a, "imported")
        /\ ~On(m, before) => \A a : On(m, a) => Below(n.stack, a, "imported")
    BY <1>1, <1>2, <1>4, <2>1, PutIs
  <2>5. \A x \in Widget : x # "imported" => n.look[x] = m.look[x]
    BY <1>2, <2>4
  <2>6. IsMap(n)
    BY <2>4 DEF IsMap
  <2>7. Stacked(m) => Stacked(n)
    <3> SUFFICES ASSUME Stacked(m) PROVE Stacked(n)
      OBVIOUS
    <3>1. n.look["marked"].of = {"shape"} => Under(n, "imported", "marked")
      <4>1. n.look["marked"] = m.look["marked"]
        BY <2>5, LayerNames
      <4> SUFFICES ASSUME m.look["marked"].of = {"shape"}, On(m, "marked")
                   PROVE  Below(n.stack, "imported", "marked")
        BY <2>4, <4>1 DEF Under
      <4> QED BY <2>3, <2>4
    <3> QED BY <2>4, <3>1, LayerNames DEF Stacked, Under, LabelBlock
  <2>8. Moves(m, n, "imported")
    BY <2>4, <2>5, <2>6, <2>7, LanesAre DEF Moves, LabelBlock
  <2>9. n.look["imported"] = r
    BY <1>2, <2>4
  <2> QED BY <1>4, <2>2, <2>4, <2>8, <2>9 DEF Adds
<1> QED
  BY <1>3, <1>4 DEF Adds

(* A hosted layer that is on is shown *)
LEMMA ShowLayerIs ==
  ASSUME NEW m, IsMap(m), NEW l \in {"hit", "line", "footprint", "component"}, On(m, l),
         NEW lane, l \in LayersOf(lane), NEW floor, NEW n, n = ShowLayer(m, l, floor)
  PROVE  /\ Moves(m, n, lane) /\ Adds(m, n, {})
         /\ LookKept(m, n, {l})
         /\ LookIs(n.look[l], TRUE, m.look[l].paint, m.look[l].from, m.look[l].of)
<1> DEFINE r == [m.look[l] EXCEPT !.visible = TRUE]
<1>1. l \in Widget /\ l # "marked" /\ m.look \in [Widget -> Looks] /\ m.look[l] \in Looks
  BY LayerNames, LooksAre
<1>2. r \in Looks /\ LookIs(r, TRUE, m.look[l].paint, m.look[l].from, m.look[l].of)
  BY <1>1, LooksAre DEF Looks, LookIs
<1>3. n = [m EXCEPT !.look[l] = r]
  BY DEF ShowLayer
<1> HIDE DEF r
<1>4. /\ Moves(m, n, lane) /\ n.look = [m.look EXCEPT ![l] = r]
      /\ \A x : On(n, x) <=> On(m, x)
  BY <1>1, <1>2, <1>3, RedrawOne
<1> QED
  BY <1>1, <1>2, <1>4 DEF Adds, LookKept

(* showLocalVectorLayer, of the two layers a and b of a hosted style *)
LEMMA ShowPairIs ==
  ASSUME NEW m, IsMap(m), NEW a \in {"hit", "footprint"}, NEW b \in {"line", "component"},
         a = "hit" <=> b = "line",
         NEW lane, a \in LayersOf(lane), b \in LayersOf(lane), NEW floor \in Values,
         NEW n, n = ShowLayer(ShowLayer(m, a, floor), b, floor)
  PROVE  /\ Moves(m, n, lane) /\ Adds(m, n, {a, b})
         /\ LookKept(m, n, {a, b})
         /\ LookIs(n.look[a], TRUE, m.look[a].paint,
                   IF On(m, a) THEN m.look[a].from ELSE floor, m.look[a].of)
         /\ LookIs(n.look[b], TRUE, m.look[b].paint,
                   IF On(m, b) THEN m.look[b].from ELSE floor, m.look[b].of)
<1> DEFINE k == ShowLayer(m, a, floor)
           new == [Absent EXCEPT !.visible = TRUE, !.from = floor]
<1>1. /\ a \in Widget /\ b \in Widget /\ a # b /\ a # "marked" /\ b # "marked"
      /\ LabelBlock \notin Widget /\ (On(m, a) <=> On(m, b))
      /\ a \in {"hit", "line", "footprint", "component"}
      /\ b \in {"hit", "line", "footprint", "component"}
  BY LayerNames, NoneIsOff DEF IsMap
<1>2. /\ new \in Looks /\ m.look \in [Widget -> Looks] /\ Shaped(m)
      /\ LookIs(new, TRUE, 0, floor, {})
  BY ValuesHave, AbsentIs, LooksAre DEF Looks, LookIs
<1>3. n = ShowLayer(k, b, floor)
  OBVIOUS
<1>4. CASE On(m, a)
  <2> HIDE DEF k, new
  <2>1. /\ Moves(m, k, lane) /\ \A x : On(k, x) <=> On(m, x)
        /\ \A x \in Widget : x # a => k.look[x] = m.look[x]
        /\ LookIs(k.look[a], TRUE, m.look[a].paint, m.look[a].from, m.look[a].of)
    <3>1. /\ Moves(m, k, lane) /\ Adds(m, k, {}) /\ LookKept(m, k, {a})
          /\ LookIs(k.look[a], TRUE, m.look[a].paint, m.look[a].from, m.look[a].of)
      BY <1>1, <1>4, ShowLayerIs DEF k
    <3> QED BY <3>1 DEF Adds, LookKept
  <2>2. IsMap(k) /\ On(k, b) /\ k.look[b] = m.look[b]
    BY <1>1, <1>4, <2>1 DEF Moves
  <2>3. /\ Moves(k, n, lane) /\ \A x : On(n, x) <=> On(k, x)
        /\ \A x \in Widget : x # b => n.look[x] = k.look[x]
        /\ LookIs(n.look[b], TRUE, k.look[b].paint, k.look[b].from, k.look[b].of)
    <3>1. /\ b \in {"hit", "line", "footprint", "component"} /\ b \in LayersOf(lane)
          /\ IsMap(k) /\ On(k, b) /\ n = ShowLayer(k, b, floor)
      BY <1>1, <1>3, <2>2
    <3>2. /\ Moves(k, n, lane) /\ Adds(k, n, {}) /\ LookKept(k, n, {b})
          /\ LookIs(n.look[b], TRUE, k.look[b].paint, k.look[b].from, k.look[b].of)
      BY ONLY <3>1, ShowLayerIs
    <3> QED BY <3>2 DEF Adds, LookKept
  <2>4. Moves(m, n, lane)
    BY <2>1, <2>3, MovesOn
  <2>5. \A x : On(n, x) <=> On(m, x) \/ x = a \/ x = b
    BY <1>1, <1>4, <2>1, <2>3
  <2>6. \A x \in Widget : x # a /\ x # b => n.look[x] = m.look[x]
    BY <2>1, <2>3
  <2>7. n.look[a] = k.look[a]
    BY <1>1, <2>3
  <2> QED BY <1>1, <1>4, <2>1, <2>2, <2>3, <2>4, <2>5, <2>6, <2>7 DEF LookIs, Adds, LookKept
<1>5. CASE ~On(m, a)
  <2>1. k = Put(m, a, new, LabelBlock)
    BY <1>5 DEF ShowLayer
  <2> HIDE DEF k, new
  <2>2. /\ Shaped(k) /\ SameControl(m, k) /\ k.look = [m.look EXCEPT ![a] = new]
        /\ \A x : On(k, x) <=> On(m, x) \/ x = a
        /\ \A c, d : Below(m.stack, c, d) => Below(k.stack, c, d)
        /\ On(m, LabelBlock) => /\ Below(k.stack, a, LabelBlock)
                                /\ \A c : Below(m.stack, c, LabelBlock) => Below(k.stack, c, a)
        /\ ~On(m, LabelBlock) => \A c : On(m, c) => Below(k.stack, c, a)
    <3>1. a \in Widget /\ Shaped(m) /\ ~On(m, a) /\ new \in Looks
      BY <1>1, <1>2, <1>5
    <3> QED BY ONLY <2>1, <3>1, PutIs
  <2>3. ~On(k, b)
    BY <1>1, <1>5, <2>2
  <2>4. n = Put(k, b, new, LabelBlock)
    BY <1>3, <2>3 DEF ShowLayer, new
  <2>5. /\ Shaped(n) /\ SameControl(k, n) /\ n.look = [k.look EXCEPT ![b] = new]
        /\ \A x : On(n, x) <=> On(k, x) \/ x = b
        /\ \A c, d : Below(k.stack, c, d) => Below(n.stack, c, d)
        /\ On(k, LabelBlock) => /\ Below(n.stack, b, LabelBlock)
                                /\ \A c : Below(k.stack, c, LabelBlock) => Below(n.stack, c, b)
        /\ ~On(k, LabelBlock) => \A c : On(k, c) => Below(n.stack, c, b)
    <3>1. b \in Widget /\ Shaped(k) /\ ~On(k, b) /\ new \in Looks
      BY <1>1, <1>2, <2>2, <2>3
    <3> QED BY ONLY <2>4, <3>1, PutIs
  <2>6. n.look = [m.look EXCEPT ![a] = new, ![b] = new]
    BY <1>1, <1>2, <2>2, <2>5
  <2>7. \A x : On(n, x) <=> On(m, x) \/ x = a \/ x = b
    BY <2>2, <2>5
  <2>8. IsMap(n)
    BY <1>1, <2>5, <2>7 DEF IsMap
  <2>9. \A x \in Widget : x # a /\ x # b => n.look[x] = m.look[x]
    BY <1>1, <1>2, <2>6
  <2>10. /\ Below(n.stack, a, b)
         /\ On(m, LabelBlock) => Below(n.stack, a, LabelBlock) /\ Below(n.stack, b, LabelBlock)
         /\ \A c, d : Below(m.stack, c, d) => Below(n.stack, c, d)
    BY <1>1, <2>2, <2>5
  <2>11. Stacked(m) => Stacked(n)
    <3> SUFFICES ASSUME Stacked(m) PROVE Stacked(n)
      OBVIOUS
    <3>1. \A c, d : c \notin {a, b} /\ d \notin {a, b} /\ Under(m, c, d) => Under(n, c, d)
      BY <2>7, <2>10 DEF Under
    <3>2. Under(n, a, b) /\ Under(n, a, LabelBlock) /\ Under(n, b, LabelBlock)
      BY <1>1, <2>7, <2>10 DEF Under
    <3>3. n.look["marked"] = m.look["marked"]
      BY <1>1, <2>9, LayerNames
    <3> QED BY <3>1, <3>2, <3>3, LayerNames DEF Stacked, LabelBlock
  <2>12. Moves(m, n, lane)
    BY <1>1, <2>2, <2>5, <2>7, <2>8, <2>9, <2>11 DEF Moves, SameControl
  <2>13. \A x \in {a, b} : /\ n.look[x] = new /\ ~On(m, x)
                           /\ m.look[x].paint = 0 /\ m.look[x].of = {}
    <3>1. m.look[a] = Absent /\ m.look[b] = Absent /\ ~On(m, b)
      BY <1>1, <1>2, <1>5 DEF Shaped
    <3> QED BY <1>1, <1>2, <1>5, <2>6, <3>1, AbsentIs
  <2>14. \A x \in {a, b} : LookIs(n.look[x], TRUE, m.look[x].paint,
                                  IF On(m, x) THEN m.look[x].from ELSE floor, m.look[x].of)
    BY <1>2, <2>13
  <2> QED BY <2>7, <2>9, <2>12, <2>14 DEF Adds, LookKept
<1> QED
  BY <1>4, <1>5 DEF Adds

(* hideLocalVectorLayer, of the catalogue's hosted layer *)
LEMMA HideHostedIs ==
  ASSUME NEW m, IsMap(m), NEW n, n = HideHosted(m, Pip)
  PROVE  /\ Moves(m, n, "pip") /\ Adds(m, n, {})
         /\ LookIs(n.look["hit"], FALSE, m.look["hit"].paint, m.look["hit"].from, m.look["hit"].of)
         /\ LookIs(n.look["line"], FALSE, m.look["line"].paint, m.look["line"].from,
                   m.look["line"].of)
<1> DEFINE look == [l \in Widget |->
              IF l \in ToSet(Pip) /\ On(m, l) THEN [m.look[l] EXCEPT !.visible = FALSE]
              ELSE m.look[l]]
<1>1. n = [m EXCEPT !.look = look]
  BY DEF HideHosted
<1>2. \A l \in Widget : m.look[l] \in Looks
  BY LooksAre
<1>3. look \in [Widget -> Looks]
  BY <1>2, ValuesHave DEF Looks
<1>4. \A l \in Widget : l \notin {"hit", "line"} \/ ~On(m, l) => look[l] = m.look[l]
  BY LayerNames
<1>5. \A l \in {"hit", "line"} : On(m, l) => LookIs(look[l], FALSE, m.look[l].paint,
                                              m.look[l].from, m.look[l].of)
  BY <1>2, LayerNames DEF LookIs, Looks
<1> HIDE DEF look
<1>6. Shaped(m) /\ look["marked"].of = m.look["marked"].of
  BY <1>4, LayerNames DEF IsMap
<1>7. /\ Shaped(n) /\ SameControl(m, n) /\ n.look = look /\ n.stack = m.stack
      /\ \A l : On(n, l) <=> On(m, l)
      /\ Stacked(m) => Stacked(n)
  BY <1>1, <1>3, <1>4, <1>6, Redrawn
<1>8. Moves(m, n, "pip")
  BY <1>4, <1>7, LanesAre DEF Moves, IsMap
<1>9. \A l \in {"hit", "line"} : ~On(m, l) => LookIs(look[l], FALSE, m.look[l].paint,
                                              m.look[l].from, m.look[l].of)
  BY <1>4, <1>6, AbsentIs, LayerNames DEF LookIs, Shaped
<1> QED
  BY <1>5, <1>7, <1>8, <1>9 DEF Adds

(* setLocalVectorLayerFilters *)
LEMMA SetFiltersIs ==
  ASSUME NEW m, IsMap(m), NEW extra \in [{"footprint", "component"} -> Values],
         NEW n, n = SetFilters(m, extra)
  PROVE  /\ Moves(m, n, "eao") /\ Adds(m, n, {})
         /\ n.look["picked"] = m.look["picked"] /\ n.look["selected"] = m.look["selected"]
         /\ LookIs(n.look["footprint"], m.look["footprint"].visible, m.look["footprint"].paint,
                   m.look["footprint"].from,
                   IF On(m, "footprint") THEN extra["footprint"] ELSE {})
         /\ LookIs(n.look["component"], m.look["component"].visible, m.look["component"].paint,
                   m.look["component"].from,
                   IF On(m, "component") THEN extra["component"] ELSE {})
<1> DEFINE look == [l \in Widget |->
              IF l \in ToSet(Eao) /\ On(m, l) THEN [m.look[l] EXCEPT !.of = extra[l]]
              ELSE m.look[l]]
<1>1. n = [m EXCEPT !.look = look]
  BY DEF SetFilters
<1>2. \A l \in Widget : m.look[l] \in Looks
  BY LooksAre
<1>3. look \in [Widget -> Looks]
  BY <1>2, LayerNames DEF Looks
<1>4. \A l \in Widget : l \notin {"footprint", "component"} \/ ~On(m, l) => look[l] = m.look[l]
  BY LayerNames
<1>5. \A l \in {"footprint", "component"} : On(m, l) =>
        LookIs(look[l], m.look[l].visible, m.look[l].paint, m.look[l].from, extra[l])
  BY <1>2, LayerNames DEF LookIs, Looks
<1> HIDE DEF look
<1>6. Shaped(m) /\ look["marked"].of = m.look["marked"].of
  BY <1>4, LayerNames DEF IsMap
<1>7. /\ Shaped(n) /\ SameControl(m, n) /\ n.look = look /\ n.stack = m.stack
      /\ \A l : On(n, l) <=> On(m, l)
      /\ Stacked(m) => Stacked(n)
  BY <1>1, <1>3, <1>4, <1>6, Redrawn
<1>8. Moves(m, n, "eao") /\ \A x \in {"picked", "selected"} : n.look[x] = m.look[x]
  BY <1>4, <1>7, LanesAre, LayerNames DEF Moves, IsMap
<1>9. \A l \in {"footprint", "component"} : ~On(m, l) =>
        LookIs(look[l], m.look[l].visible, m.look[l].paint, m.look[l].from, {})
  BY <1>4, <1>6, AbsentIs, LayerNames DEF LookIs, Shaped
<1> QED
  BY <1>5, <1>7, <1>8, <1>9 DEF Adds

LEMMA PairsAre ==
  /\ Pip[1] = "hit" /\ Pip[2] = "line" /\ Eao[1] = "footprint" /\ Eao[2] = "component"
  /\ Pip # Eao
BY DEF Pip, Eao

(* showLocalVectorLayer, of the catalogue's hosted layer *)
LEMMA ShowPipIs ==
  ASSUME NEW m, IsMap(m), NEW n, n = ShowHosted(m, Pip)
  PROVE  /\ Moves(m, n, "pip") /\ Adds(m, n, {"hit", "line"})
         /\ LookIs(n.look["hit"], TRUE, m.look["hit"].paint,
                   IF On(m, "hit") THEN m.look["hit"].from ELSE PipFloor, m.look["hit"].of)
         /\ LookIs(n.look["line"], TRUE, m.look["line"].paint,
                   IF On(m, "line") THEN m.look["line"].from ELSE PipFloor, m.look["line"].of)
<1>1. /\ "hit" \in LayersOf("pip") /\ "line" \in LayersOf("pip") /\ PipFloor \in Values
      /\ "hit" \in {"hit", "footprint"} /\ "line" \in {"line", "component"}
      /\ ("hit" = "hit" <=> "line" = "line")
  BY LanesAre, ValuesHave DEF PipFloor
<1>2. n = ShowLayer(ShowLayer(m, "hit", PipFloor), "line", PipFloor)
  BY PairsAre DEF ShowHosted
<1> QED
  BY <1>1, <1>2, ShowPairIs

(* showLocalVectorLayer, of the layer that follows the filter bar *)
LEMMA ShowEaoIs ==
  ASSUME NEW m, IsMap(m), NEW n, n = ShowHosted(m, Eao)
  PROVE  /\ Moves(m, n, "eao")
         /\ Adds(m, n, {"footprint", "component"})
         /\ n.look["picked"] = m.look["picked"] /\ n.look["selected"] = m.look["selected"]
         /\ LookIs(n.look["footprint"], TRUE, m.look["footprint"].paint,
                   IF On(m, "footprint") THEN m.look["footprint"].from ELSE MIN_ZOOM,
                   m.look["footprint"].of)
         /\ LookIs(n.look["component"], TRUE, m.look["component"].paint,
                   IF On(m, "component") THEN m.look["component"].from ELSE MIN_ZOOM,
                   m.look["component"].of)
<1>1. /\ "footprint" \in LayersOf("eao") /\ "component" \in LayersOf("eao") /\ MIN_ZOOM \in Values
      /\ "footprint" \in {"hit", "footprint"} /\ "component" \in {"line", "component"}
      /\ ("footprint" = "hit" <=> "component" = "line")
  BY LanesAre, ValuesHave DEF MIN_ZOOM
<1>2. n = ShowLayer(ShowLayer(m, "footprint", MIN_ZOOM), "component", MIN_ZOOM)
  BY PairsAre DEF ShowHosted
<1>3. /\ Moves(m, n, "eao") /\ Adds(m, n, {"footprint", "component"})
      /\ LookKept(m, n, {"footprint", "component"})
      /\ LookIs(n.look["footprint"], TRUE, m.look["footprint"].paint,
                IF On(m, "footprint") THEN m.look["footprint"].from ELSE MIN_ZOOM,
                m.look["footprint"].of)
      /\ LookIs(n.look["component"], TRUE, m.look["component"].paint,
                IF On(m, "component") THEN m.look["component"].from ELSE MIN_ZOOM,
                m.look["component"].of)
  BY <1>1, <1>2, ShowPairIs
<1> QED
  BY <1>3, LayerNames DEF LookKept

-----------------------------------------------------------------------------
(* Works                                                                   *)

LEMMA WorksAre ==
  ASSUME NEW w \in Works
  PROVE  \/ /\ w.layer = "wms" /\ w.to \in Values
            /\ w.does \in {"show", "showline", "hide", "hideline", "fade", "minzoom", "maxzoom"}
         \/ w.layer = "pip" /\ w.does \in {"showHosted", "hideHosted"} /\ w.to = Pip
         \/ w.layer = "pip" /\ w.does = "width" /\ w.to \in Values
         \/ w.layer = "eao" /\ w.does = "showHosted" /\ w.to = Eao
         \/ w.layer = "eao" /\ w.does = "filter" /\ w.to \in [{"footprint", "component"} -> Values]
         \/ /\ w.layer = "eao" /\ w.to \in Values
            /\ w.does \in {"pick", "unpick", "select", "unselect"}
         \/ w.layer = "mark" /\ w.does = "mark" /\ w.to \in Kinds
         \/ w.layer = "mark" /\ w.does = "unmark"
         \/ /\ w.layer = "imported" /\ w.to \in Values
            /\ w.does \in {"import", "reveal", "refade", "remove"}
         \/ w.layer = "dots" /\ w.does = "dots" /\ w.to \in Values
BY LayerNames DEF Works

LEMMA WorkedWms ==
  ASSUME NEW m, NEW w, w.layer = "wms"
  PROVE  /\ w.does = "show" => Worked(m, w) = ShowWms(m, w.to)
         /\ w.does = "showline" => Worked(m, w) = ShowOutline(m)
         /\ w.does = "hide" => Worked(m, w) = HideWms(m)
         /\ w.does = "hideline" => Worked(m, w) = HideOutline(m)
         /\ w.does = "fade" => Worked(m, w) = SetOpacity(m, w.to)
         /\ w.does = "minzoom" => Worked(m, w) = SetMinZoom(m, w.to)
         /\ w.does = "maxzoom" => Worked(m, w) = SetMaxZoom(m, w.to)
BY DEF Worked

LEMMA WorkedHosted ==
  ASSUME NEW m, NEW w
  PROVE  /\ w.does = "showHosted" => Worked(m, w) = ShowHosted(m, w.to)
         /\ w.does = "hideHosted" => Worked(m, w) = HideHosted(m, w.to)
         /\ w.does = "width" => Worked(m, w) = SetLineWidth(m, w.to)
         /\ w.does = "filter" => Worked(m, w) = SetFilters(m, w.to)
         /\ w.does = "pick" => Worked(m, w) = ShowComponentHighlight(m, w.to)
         /\ w.does = "unpick" => Worked(m, w) = RemoveComponentHighlight(m)
         /\ w.does = "select" => Worked(m, w) = ShowSelectionOutline(m, w.to)
         /\ w.does = "unselect" => Worked(m, w) = RemoveSelectionOutline(m)
BY DEF Worked

LEMMA WorkedRest ==
  ASSUME NEW m, NEW w
  PROVE  /\ w.does = "mark" /\ w.to = "local" => Worked(m, w) = ShowLocalHighlight(m)
         /\ w.does = "mark" /\ w.to # "local" => Worked(m, w) = ShowHighlight(m, w.to)
         /\ w.does = "unmark" => Worked(m, w) = RemoveHighlight(m)
         /\ w.does = "import" => Worked(m, w) = ShowImported(m, w.to)
         /\ w.does = "reveal" => Worked(m, w) = SetImportedVisibility(m, w.to)
         /\ w.does = "refade" => Worked(m, w) = SetImportedOpacity(m, w.to)
         /\ w.does = "remove" => Worked(m, w) = RemoveImported(m)
         /\ w.does = "dots" => Worked(m, w) = ShowProjects(m, w.to)
BY DEF Worked

(* A work changes layers of its own lane only *)
LEMMA WorkedMoves ==
  ASSUME NEW m, IsMap(m), NEW w \in Works, NEW n, n = Worked(m, w)
  PROVE  Moves(m, n, w.layer)
<1>1. CASE /\ w.layer = "wms" /\ w.to \in Values
           /\ w.does \in {"show", "showline", "hide", "hideline", "fade", "minzoom", "maxzoom"}
  <2>1. CASE w.does = "show"
    <3>1. w.to \in Values /\ n = ShowWms(m, w.to)
      BY <1>1, <2>1, WorkedWms
    <3>2. Moves(m, n, "wms")
      BY <3>1, ShowWmsIs
    <3> QED BY <1>1, <3>2
  <2>2. CASE w.does = "showline"
    BY <1>1, <2>2, WorkedWms, ShowOutlineIs
  <2>3. CASE w.does = "hide"
    BY <1>1, <2>3, WorkedWms, HideWmsIs
  <2>4. CASE w.does = "hideline"
    BY <1>1, <2>4, WorkedWms, HideOutlineIs
  <2>5. CASE w.does = "fade"
    BY <1>1, <2>5, WorkedWms, SetOpacityIs
  <2>6. CASE w.does = "minzoom"
    BY <1>1, <2>6, WorkedWms, SetMinZoomIs
  <2>7. CASE w.does = "maxzoom"
    BY <1>1, <2>7, WorkedWms, SetMaxZoomIs
  <2> QED BY <1>1, <2>1, <2>2, <2>3, <2>4, <2>5, <2>6, <2>7
<1>2. CASE w.layer = "pip" /\ w.does \in {"showHosted", "hideHosted"} /\ w.to = Pip
  <2>1. CASE w.does = "showHosted"
    BY <1>2, <2>1, WorkedHosted, ShowPipIs
  <2>2. CASE w.does = "hideHosted"
    BY <1>2, <2>2, WorkedHosted, HideHostedIs
  <2> QED BY <1>2, <2>1, <2>2
<1>3. CASE w.layer = "pip" /\ w.does = "width" /\ w.to \in Values
  BY <1>3, WorkedHosted, SetLineWidthIs
<1>4. CASE w.layer = "eao" /\ w.does = "showHosted" /\ w.to = Eao
  BY <1>4, WorkedHosted, ShowEaoIs
<1>5. CASE w.layer = "eao" /\ w.does = "filter" /\ w.to \in [{"footprint", "component"} -> Values]
  BY <1>5, WorkedHosted, SetFiltersIs
<1>6. CASE /\ w.layer = "eao" /\ w.to \in Values
           /\ w.does \in {"pick", "unpick", "select", "unselect"}
  <2>1. CASE w.does = "pick"
    BY <1>6, <2>1, WorkedHosted, ShowComponentHighlightIs
  <2>2. CASE w.does = "unpick"
    BY <1>6, <2>2, WorkedHosted, RemoveComponentHighlightIs
  <2>3. CASE w.does = "select"
    BY <1>6, <2>3, WorkedHosted, ShowSelectionOutlineIs
  <2>4. CASE w.does = "unselect"
    BY <1>6, <2>4, WorkedHosted, RemoveSelectionOutlineIs
  <2> QED BY <1>6, <2>1, <2>2, <2>3, <2>4
<1>7. CASE w.layer = "mark" /\ w.does = "mark" /\ w.to \in Kinds
  <2>1. CASE w.to = "local"
    BY <1>7, <2>1, WorkedRest, ShowLocalHighlightIs
  <2>2. CASE w.to # "local"
    BY <1>7, <2>2, WorkedRest, ShowHighlightIs
  <2> QED BY <2>1, <2>2
<1>8. CASE w.layer = "mark" /\ w.does = "unmark"
  BY <1>8, WorkedRest, RemoveHighlightIs
<1>9. CASE /\ w.layer = "imported" /\ w.to \in Values
           /\ w.does \in {"import", "reveal", "refade", "remove"}
  <2>1. CASE w.does = "import"
    BY <1>9, <2>1, WorkedRest, ShowImportedIs
  <2>2. CASE w.does = "reveal"
    BY <1>9, <2>2, WorkedRest, SetImportedVisibilityIs
  <2>3. CASE w.does = "refade"
    BY <1>9, <2>3, WorkedRest, SetImportedOpacityIs
  <2>4. CASE w.does = "remove"
    BY <1>9, <2>4, WorkedRest, RemoveImportedIs
  <2> QED BY <1>9, <2>1, <2>2, <2>3, <2>4
<1>10. CASE w.layer = "dots" /\ w.does = "dots" /\ w.to \in Values
  BY <1>10, WorkedRest, ShowProjectsIs
<1> QED
  BY <1>1, <1>2, <1>3, <1>4, <1>5, <1>6, <1>7, <1>8, <1>9, <1>10, WorksAre

-----------------------------------------------------------------------------
(* Works of one lane draw alike on maps that agree about it                *)

(* Two maps agree about a lane *)
Agree(m, n, lane) ==
  \A l \in LayersOf(lane) : (On(m, l) <=> On(n, l)) /\ m.look[l] = n.look[l]

LEMMA LookEq ==
  ASSUME NEW r \in Looks, NEW s \in Looks, NEW v, NEW p, NEW f, NEW o,
         LookIs(r, v, p, f, o), LookIs(s, v, p, f, o)
  PROVE  r = s
BY DEF Looks, LookIs

LEMMA AlikeWms ==
  ASSUME NEW w \in Works, w.layer = "wms", NEW m, IsMap(m), NEW k, IsMap(k),
         Agree(m, k, "wms"),
         NEW n, n = Worked(m, w), NEW j, j = Worked(k, w)
  PROVE  Agree(n, j, "wms")
<1>1. /\ (On(m, "raster") <=> On(k, "raster")) /\ m.look["raster"] = k.look["raster"]
      /\ (On(m, "outline") <=> On(k, "outline")) /\ m.look["outline"] = k.look["outline"]
  BY LanesAre DEF Agree
<1>2. Moves(m, n, "wms") /\ Moves(k, j, "wms")
  BY WorkedMoves
<1>3. /\ n.look["raster"] \in Looks /\ j.look["raster"] \in Looks
      /\ n.look["outline"] \in Looks /\ j.look["outline"] \in Looks
  BY <1>2, LooksAre, LayerNames DEF Moves
<1>4. ASSUME On(n, "raster") <=> On(j, "raster"), n.look["raster"] = j.look["raster"],
             On(n, "outline") <=> On(j, "outline"), n.look["outline"] = j.look["outline"]
      PROVE  Agree(n, j, "wms")
  BY <1>4, LanesAre DEF Agree
<1>5. CASE w.does = "show"
  <2>1. n = ShowWms(m, w.to) /\ j = ShowWms(k, w.to) /\ w.to \in Values
    BY <1>5, WorkedWms, WorksAre
  <2>2. /\ Moves(m, n, "wms")
        /\ Adds(m, n, {"raster"})
        /\ n.look["outline"] = m.look["outline"]
        /\ LookIs(n.look["raster"], TRUE, w.to,
                  IF On(m, "raster") THEN m.look["raster"].from ELSE WMS_MIN_ZOOM,
                       m.look["raster"].of)
    BY <2>1, ShowWmsIs
  <2>3. /\ Moves(k, j, "wms")
        /\ Adds(k, j, {"raster"})
        /\ j.look["outline"] = k.look["outline"]
        /\ LookIs(j.look["raster"], TRUE, w.to,
                  IF On(k, "raster") THEN k.look["raster"].from ELSE WMS_MIN_ZOOM,
                       k.look["raster"].of)
    BY <2>1, ShowWmsIs
  <2>4. (On(n, "raster") <=> On(j, "raster")) /\ (On(n, "outline") <=> On(j, "outline"))
    BY <1>1, <2>2, <2>3 DEF Adds, Drops, RidesOn
  <2>5. n.look["raster"] = j.look["raster"]
    BY <1>1, <1>3, <2>2, <2>3, LookEq
  <2>6. n.look["outline"] = j.look["outline"]
    BY <1>1, <1>3, <2>2, <2>3, LookEq
  <2> QED BY <1>4, <2>4, <2>5, <2>6
<1>6. CASE w.does = "showline"
  <2>1. n = ShowOutline(m) /\ j = ShowOutline(k)
    BY <1>6, WorkedWms, WorksAre
  <2>2. /\ Moves(m, n, "wms")
        /\ Adds(m, n, {"outline"})
        /\ n.look["raster"] = m.look["raster"]
        /\ LookIs(n.look["outline"], TRUE, m.look["outline"].paint,
                  IF On(m, "outline") THEN m.look["outline"].from ELSE WMS_MIN_ZOOM,
                       m.look["outline"].of)
    BY <2>1, ShowOutlineIs
  <2>3. /\ Moves(k, j, "wms")
        /\ Adds(k, j, {"outline"})
        /\ j.look["raster"] = k.look["raster"]
        /\ LookIs(j.look["outline"], TRUE, k.look["outline"].paint,
                  IF On(k, "outline") THEN k.look["outline"].from ELSE WMS_MIN_ZOOM,
                       k.look["outline"].of)
    BY <2>1, ShowOutlineIs
  <2>4. (On(n, "raster") <=> On(j, "raster")) /\ (On(n, "outline") <=> On(j, "outline"))
    BY <1>1, <2>2, <2>3 DEF Adds, Drops, RidesOn
  <2>5. n.look["raster"] = j.look["raster"]
    BY <1>1, <1>3, <2>2, <2>3, LookEq
  <2>6. n.look["outline"] = j.look["outline"]
    BY <1>1, <1>3, <2>2, <2>3, LookEq
  <2> QED BY <1>4, <2>4, <2>5, <2>6
<1>7. CASE w.does = "hide"
  <2>1. n = HideWms(m) /\ j = HideWms(k)
    BY <1>7, WorkedWms, WorksAre
  <2>2. /\ Moves(m, n, "wms")
        /\ Adds(m, n, {})
        /\ n.look["outline"] = m.look["outline"]
        /\ LookIs(n.look["raster"], FALSE, m.look["raster"].paint, m.look["raster"].from,
                  m.look["raster"].of)
    BY <2>1, HideWmsIs
  <2>3. /\ Moves(k, j, "wms")
        /\ Adds(k, j, {})
        /\ j.look["outline"] = k.look["outline"]
        /\ LookIs(j.look["raster"], FALSE, k.look["raster"].paint, k.look["raster"].from,
                  k.look["raster"].of)
    BY <2>1, HideWmsIs
  <2>4. (On(n, "raster") <=> On(j, "raster")) /\ (On(n, "outline") <=> On(j, "outline"))
    BY <1>1, <2>2, <2>3 DEF Adds, Drops, RidesOn
  <2>5. n.look["raster"] = j.look["raster"]
    BY <1>1, <1>3, <2>2, <2>3, LookEq
  <2>6. n.look["outline"] = j.look["outline"]
    BY <1>1, <1>3, <2>2, <2>3, LookEq
  <2> QED BY <1>4, <2>4, <2>5, <2>6
<1>8. CASE w.does = "hideline"
  <2>1. n = HideOutline(m) /\ j = HideOutline(k)
    BY <1>8, WorkedWms, WorksAre
  <2>2. /\ Moves(m, n, "wms")
        /\ Adds(m, n, {})
        /\ n.look["raster"] = m.look["raster"]
        /\ LookIs(n.look["outline"], FALSE, m.look["outline"].paint, m.look["outline"].from,
                  m.look["outline"].of)
    BY <2>1, HideOutlineIs
  <2>3. /\ Moves(k, j, "wms")
        /\ Adds(k, j, {})
        /\ j.look["raster"] = k.look["raster"]
        /\ LookIs(j.look["outline"], FALSE, k.look["outline"].paint, k.look["outline"].from,
                  k.look["outline"].of)
    BY <2>1, HideOutlineIs
  <2>4. (On(n, "raster") <=> On(j, "raster")) /\ (On(n, "outline") <=> On(j, "outline"))
    BY <1>1, <2>2, <2>3 DEF Adds, Drops, RidesOn
  <2>5. n.look["raster"] = j.look["raster"]
    BY <1>1, <1>3, <2>2, <2>3, LookEq
  <2>6. n.look["outline"] = j.look["outline"]
    BY <1>1, <1>3, <2>2, <2>3, LookEq
  <2> QED BY <1>4, <2>4, <2>5, <2>6
<1>9. CASE w.does = "fade"
  <2>1. n = SetOpacity(m, w.to) /\ j = SetOpacity(k, w.to) /\ w.to \in Values
    BY <1>9, WorkedWms, WorksAre
  <2>2. /\ Moves(m, n, "wms")
        /\ Adds(m, n, {})
        /\ n.look["outline"] = m.look["outline"]
        /\ LookIs(n.look["raster"], m.look["raster"].visible,
                  IF On(m, "raster") THEN w.to ELSE m.look["raster"].paint, m.look["raster"].from,
                       m.look["raster"].of)
    BY <2>1, SetOpacityIs
  <2>3. /\ Moves(k, j, "wms")
        /\ Adds(k, j, {})
        /\ j.look["outline"] = k.look["outline"]
        /\ LookIs(j.look["raster"], k.look["raster"].visible,
                  IF On(k, "raster") THEN w.to ELSE k.look["raster"].paint, k.look["raster"].from,
                       k.look["raster"].of)
    BY <2>1, SetOpacityIs
  <2>4. (On(n, "raster") <=> On(j, "raster")) /\ (On(n, "outline") <=> On(j, "outline"))
    BY <1>1, <2>2, <2>3 DEF Adds, Drops, RidesOn
  <2>5. n.look["raster"] = j.look["raster"]
    BY <1>1, <1>3, <2>2, <2>3, LookEq
  <2>6. n.look["outline"] = j.look["outline"]
    BY <1>1, <1>3, <2>2, <2>3, LookEq
  <2> QED BY <1>4, <2>4, <2>5, <2>6
<1>10. CASE w.does = "minzoom"
  <2>1. n = SetMinZoom(m, w.to) /\ j = SetMinZoom(k, w.to) /\ w.to \in Values
    BY <1>10, WorkedWms, WorksAre
  <2>2. /\ Moves(m, n, "wms")
        /\ Adds(m, n, {})
        /\ n.look["outline"] = m.look["outline"]
        /\ LookIs(n.look["raster"], m.look["raster"].visible, m.look["raster"].paint,
                  IF On(m, "raster") THEN w.to ELSE m.look["raster"].from, m.look["raster"].of)
    BY <2>1, SetMinZoomIs
  <2>3. /\ Moves(k, j, "wms")
        /\ Adds(k, j, {})
        /\ j.look["outline"] = k.look["outline"]
        /\ LookIs(j.look["raster"], k.look["raster"].visible, k.look["raster"].paint,
                  IF On(k, "raster") THEN w.to ELSE k.look["raster"].from, k.look["raster"].of)
    BY <2>1, SetMinZoomIs
  <2>4. (On(n, "raster") <=> On(j, "raster")) /\ (On(n, "outline") <=> On(j, "outline"))
    BY <1>1, <2>2, <2>3 DEF Adds, Drops, RidesOn
  <2>5. n.look["raster"] = j.look["raster"]
    BY <1>1, <1>3, <2>2, <2>3, LookEq
  <2>6. n.look["outline"] = j.look["outline"]
    BY <1>1, <1>3, <2>2, <2>3, LookEq
  <2> QED BY <1>4, <2>4, <2>5, <2>6
<1>11. CASE w.does = "maxzoom"
  <2>1. n = SetMaxZoom(m, w.to) /\ j = SetMaxZoom(k, w.to) /\ w.to \in Values
    BY <1>11, WorkedWms, WorksAre
  <2>2. /\ Moves(m, n, "wms")
        /\ Adds(m, n, {})
        /\ n.look["raster"] = m.look["raster"]
        /\ LookIs(n.look["outline"], m.look["outline"].visible, m.look["outline"].paint,
                  IF On(m, "outline") THEN w.to ELSE m.look["outline"].from, m.look["outline"].of)
    BY <2>1, SetMaxZoomIs
  <2>3. /\ Moves(k, j, "wms")
        /\ Adds(k, j, {})
        /\ j.look["raster"] = k.look["raster"]
        /\ LookIs(j.look["outline"], k.look["outline"].visible, k.look["outline"].paint,
                  IF On(k, "outline") THEN w.to ELSE k.look["outline"].from, k.look["outline"].of)
    BY <2>1, SetMaxZoomIs
  <2>4. (On(n, "raster") <=> On(j, "raster")) /\ (On(n, "outline") <=> On(j, "outline"))
    BY <1>1, <2>2, <2>3 DEF Adds, Drops, RidesOn
  <2>5. n.look["raster"] = j.look["raster"]
    BY <1>1, <1>3, <2>2, <2>3, LookEq
  <2>6. n.look["outline"] = j.look["outline"]
    BY <1>1, <1>3, <2>2, <2>3, LookEq
  <2> QED BY <1>4, <2>4, <2>5, <2>6
<1> QED
  BY <1>5, <1>6, <1>7, <1>8, <1>9, <1>10, <1>11, WorksAre

LEMMA AlikePip ==
  ASSUME NEW w \in Works, w.layer = "pip", NEW m, IsMap(m), NEW k, IsMap(k),
         Agree(m, k, "pip"),
         NEW n, n = Worked(m, w), NEW j, j = Worked(k, w)
  PROVE  Agree(n, j, "pip")
<1>1. /\ (On(m, "hit") <=> On(k, "hit")) /\ m.look["hit"] = k.look["hit"]
      /\ (On(m, "line") <=> On(k, "line")) /\ m.look["line"] = k.look["line"]
  BY LanesAre DEF Agree
<1>2. Moves(m, n, "pip") /\ Moves(k, j, "pip")
  BY WorkedMoves
<1>3. /\ n.look["hit"] \in Looks /\ j.look["hit"] \in Looks
      /\ n.look["line"] \in Looks /\ j.look["line"] \in Looks
  BY <1>2, LooksAre, LayerNames DEF Moves
<1>4. ASSUME On(n, "hit") <=> On(j, "hit"), n.look["hit"] = j.look["hit"],
             On(n, "line") <=> On(j, "line"), n.look["line"] = j.look["line"]
      PROVE  Agree(n, j, "pip")
  BY <1>4, LanesAre DEF Agree
<1>5. CASE w.does = "showHosted"
  <2>1. n = ShowHosted(m, Pip) /\ j = ShowHosted(k, Pip)
    BY <1>5, WorkedHosted, WorksAre
  <2>2. /\ Moves(m, n, "pip")
        /\ Adds(m, n, {"hit", "line"})
        /\ LookIs(n.look["hit"], TRUE, m.look["hit"].paint,
                  IF On(m, "hit") THEN m.look["hit"].from ELSE PipFloor, m.look["hit"].of)
        /\ LookIs(n.look["line"], TRUE, m.look["line"].paint,
                  IF On(m, "line") THEN m.look["line"].from ELSE PipFloor, m.look["line"].of)
    BY <2>1, ShowPipIs
  <2>3. /\ Moves(k, j, "pip")
        /\ Adds(k, j, {"hit", "line"})
        /\ LookIs(j.look["hit"], TRUE, k.look["hit"].paint,
                  IF On(k, "hit") THEN k.look["hit"].from ELSE PipFloor, k.look["hit"].of)
        /\ LookIs(j.look["line"], TRUE, k.look["line"].paint,
                  IF On(k, "line") THEN k.look["line"].from ELSE PipFloor, k.look["line"].of)
    BY <2>1, ShowPipIs
  <2>4. (On(n, "hit") <=> On(j, "hit")) /\ (On(n, "line") <=> On(j, "line"))
    BY <1>1, <2>2, <2>3 DEF Adds, Drops, RidesOn
  <2>5. n.look["hit"] = j.look["hit"]
    <3>1. LookIs(j.look["hit"], TRUE, m.look["hit"].paint,
                 IF On(m, "hit") THEN m.look["hit"].from ELSE PipFloor, m.look["hit"].of)
      BY <1>1, <2>3
    <3>2. LookIs(n.look["hit"], TRUE, m.look["hit"].paint,
                 IF On(m, "hit") THEN m.look["hit"].from ELSE PipFloor, m.look["hit"].of)
      BY <2>2
    <3> QED BY <1>3, <3>1, <3>2, LookEq
  <2>6. n.look["line"] = j.look["line"]
    <3>1. LookIs(j.look["line"], TRUE, m.look["line"].paint,
                 IF On(m, "line") THEN m.look["line"].from ELSE PipFloor, m.look["line"].of)
      BY <1>1, <2>3
    <3>2. LookIs(n.look["line"], TRUE, m.look["line"].paint,
                 IF On(m, "line") THEN m.look["line"].from ELSE PipFloor, m.look["line"].of)
      BY <2>2
    <3> QED BY <1>3, <3>1, <3>2, LookEq
  <2> QED BY <1>4, <2>4, <2>5, <2>6
<1>6. CASE w.does = "hideHosted"
  <2>1. n = HideHosted(m, Pip) /\ j = HideHosted(k, Pip)
    BY <1>6, WorkedHosted, WorksAre
  <2>2. /\ Moves(m, n, "pip")
        /\ Adds(m, n, {})
        /\ LookIs(n.look["hit"], FALSE, m.look["hit"].paint, m.look["hit"].from, m.look["hit"].of)
        /\ LookIs(n.look["line"], FALSE, m.look["line"].paint, m.look["line"].from,
                  m.look["line"].of)
    BY <2>1, HideHostedIs
  <2>3. /\ Moves(k, j, "pip")
        /\ Adds(k, j, {})
        /\ LookIs(j.look["hit"], FALSE, k.look["hit"].paint, k.look["hit"].from, k.look["hit"].of)
        /\ LookIs(j.look["line"], FALSE, k.look["line"].paint, k.look["line"].from,
                  k.look["line"].of)
    BY <2>1, HideHostedIs
  <2>4. (On(n, "hit") <=> On(j, "hit")) /\ (On(n, "line") <=> On(j, "line"))
    BY <1>1, <2>2, <2>3 DEF Adds, Drops, RidesOn
  <2>5. n.look["hit"] = j.look["hit"]
    <3>1. LookIs(j.look["hit"], FALSE, m.look["hit"].paint, m.look["hit"].from, m.look["hit"].of)
      BY <1>1, <2>3
    <3>2. LookIs(n.look["hit"], FALSE, m.look["hit"].paint, m.look["hit"].from, m.look["hit"].of)
      BY <2>2
    <3> QED BY <1>3, <3>1, <3>2, LookEq
  <2>6. n.look["line"] = j.look["line"]
    <3>1. LookIs(j.look["line"], FALSE, m.look["line"].paint, m.look["line"].from,
                 m.look["line"].of)
      BY <1>1, <2>3
    <3>2. LookIs(n.look["line"], FALSE, m.look["line"].paint, m.look["line"].from,
                 m.look["line"].of)
      BY <2>2
    <3> QED BY <1>3, <3>1, <3>2, LookEq
  <2> QED BY <1>4, <2>4, <2>5, <2>6
<1>7. CASE w.does = "width"
  <2>1. n = SetLineWidth(m, w.to) /\ j = SetLineWidth(k, w.to) /\ w.to \in Values
    BY <1>7, WorkedHosted, WorksAre
  <2>2. /\ Moves(m, n, "pip")
        /\ Adds(m, n, {})
        /\ n.look["hit"] = m.look["hit"]
        /\ LookIs(n.look["line"], m.look["line"].visible,
                  IF On(m, "line") THEN w.to ELSE m.look["line"].paint, m.look["line"].from,
                       m.look["line"].of)
    BY <2>1, SetLineWidthIs
  <2>3. /\ Moves(k, j, "pip")
        /\ Adds(k, j, {})
        /\ j.look["hit"] = k.look["hit"]
        /\ LookIs(j.look["line"], k.look["line"].visible,
                  IF On(k, "line") THEN w.to ELSE k.look["line"].paint, k.look["line"].from,
                       k.look["line"].of)
    BY <2>1, SetLineWidthIs
  <2>4. (On(n, "hit") <=> On(j, "hit")) /\ (On(n, "line") <=> On(j, "line"))
    BY <1>1, <2>2, <2>3 DEF Adds, Drops, RidesOn
  <2>5. n.look["hit"] = j.look["hit"]
    BY <1>1, <1>3, <2>2, <2>3, LookEq
  <2>6. n.look["line"] = j.look["line"]
    BY <1>1, <1>3, <2>2, <2>3, LookEq
  <2> QED BY <1>4, <2>4, <2>5, <2>6
<1> QED
  BY <1>5, <1>6, <1>7, WorksAre

LEMMA AlikeEao ==
  ASSUME NEW w \in Works, w.layer = "eao", NEW m, IsMap(m), NEW k, IsMap(k),
         Agree(m, k, "eao"),
         NEW n, n = Worked(m, w), NEW j, j = Worked(k, w)
  PROVE  Agree(n, j, "eao")
<1>1. /\ (On(m, "footprint") <=> On(k, "footprint")) /\ m.look["footprint"] = k.look["footprint"]
      /\ (On(m, "component") <=> On(k, "component")) /\ m.look["component"] = k.look["component"]
      /\ (On(m, "picked") <=> On(k, "picked")) /\ m.look["picked"] = k.look["picked"]
      /\ (On(m, "selected") <=> On(k, "selected")) /\ m.look["selected"] = k.look["selected"]
  BY LanesAre DEF Agree
<1>2. Moves(m, n, "eao") /\ Moves(k, j, "eao")
  BY WorkedMoves
<1>3. /\ n.look["footprint"] \in Looks /\ j.look["footprint"] \in Looks
      /\ n.look["component"] \in Looks /\ j.look["component"] \in Looks
      /\ n.look["picked"] \in Looks /\ j.look["picked"] \in Looks
      /\ n.look["selected"] \in Looks /\ j.look["selected"] \in Looks
  BY <1>2, LooksAre, LayerNames DEF Moves
<1>4. ASSUME On(n, "footprint") <=> On(j, "footprint"), n.look["footprint"] = j.look["footprint"],
             On(n, "component") <=> On(j, "component"), n.look["component"] = j.look["component"],
             On(n, "picked") <=> On(j, "picked"), n.look["picked"] = j.look["picked"],
             On(n, "selected") <=> On(j, "selected"), n.look["selected"] = j.look["selected"]
      PROVE  Agree(n, j, "eao")
  BY <1>4, LanesAre DEF Agree
<1>5. CASE w.does = "showHosted"
  <2>1. n = ShowHosted(m, Eao) /\ j = ShowHosted(k, Eao)
    BY <1>5, WorkedHosted, WorksAre
  <2>2. /\ Moves(m, n, "eao")
        /\ Adds(m, n, {"footprint", "component"})
        /\ n.look["picked"] = m.look["picked"]
        /\ n.look["selected"] = m.look["selected"]
        /\ LookIs(n.look["footprint"], TRUE, m.look["footprint"].paint,
                  IF On(m, "footprint") THEN m.look["footprint"].from ELSE MIN_ZOOM,
                       m.look["footprint"].of)
        /\ LookIs(n.look["component"], TRUE, m.look["component"].paint,
                  IF On(m, "component") THEN m.look["component"].from ELSE MIN_ZOOM,
                       m.look["component"].of)
    BY <2>1, ShowEaoIs
  <2>3. /\ Moves(k, j, "eao")
        /\ Adds(k, j, {"footprint", "component"})
        /\ j.look["picked"] = k.look["picked"]
        /\ j.look["selected"] = k.look["selected"]
        /\ LookIs(j.look["footprint"], TRUE, k.look["footprint"].paint,
                  IF On(k, "footprint") THEN k.look["footprint"].from ELSE MIN_ZOOM,
                       k.look["footprint"].of)
        /\ LookIs(j.look["component"], TRUE, k.look["component"].paint,
                  IF On(k, "component") THEN k.look["component"].from ELSE MIN_ZOOM,
                       k.look["component"].of)
    BY <2>1, ShowEaoIs
  <2>4. (On(n, "footprint") <=> On(j, "footprint")) /\ (On(n, "component") <=> On(j, "component"))
        /\ (On(n, "picked") <=> On(j, "picked")) /\ (On(n, "selected") <=> On(j, "selected"))
    BY <1>1, <2>2, <2>3 DEF Adds, Drops, RidesOn
  <2>5. n.look["footprint"] = j.look["footprint"]
    <3>1. LookIs(j.look["footprint"], TRUE, m.look["footprint"].paint,
                 IF On(m, "footprint") THEN m.look["footprint"].from ELSE MIN_ZOOM,
                      m.look["footprint"].of)
      BY <1>1, <2>3
    <3>2. LookIs(n.look["footprint"], TRUE, m.look["footprint"].paint,
                 IF On(m, "footprint") THEN m.look["footprint"].from ELSE MIN_ZOOM,
                      m.look["footprint"].of)
      BY <2>2
    <3> QED BY <1>3, <3>1, <3>2, LookEq
  <2>6. n.look["component"] = j.look["component"]
    <3>1. LookIs(j.look["component"], TRUE, m.look["component"].paint,
                 IF On(m, "component") THEN m.look["component"].from ELSE MIN_ZOOM,
                      m.look["component"].of)
      BY <1>1, <2>3
    <3>2. LookIs(n.look["component"], TRUE, m.look["component"].paint,
                 IF On(m, "component") THEN m.look["component"].from ELSE MIN_ZOOM,
                      m.look["component"].of)
      BY <2>2
    <3> QED BY <1>3, <3>1, <3>2, LookEq
  <2>7. n.look["picked"] = j.look["picked"]
    BY <1>1, <1>3, <2>2, <2>3, LookEq
  <2>8. n.look["selected"] = j.look["selected"]
    BY <1>1, <1>3, <2>2, <2>3, LookEq
  <2> QED BY <1>4, <2>4, <2>5, <2>6, <2>7, <2>8
<1>6. CASE w.does = "filter"
  <2>1. n = SetFilters(m, w.to) /\ j = SetFilters(k, w.to)
        /\ w.to \in [{"footprint", "component"} -> Values]
    BY <1>6, WorkedHosted, WorksAre
  <2>2. /\ Moves(m, n, "eao")
        /\ Adds(m, n, {})
        /\ n.look["picked"] = m.look["picked"]
        /\ n.look["selected"] = m.look["selected"]
        /\ LookIs(n.look["footprint"], m.look["footprint"].visible, m.look["footprint"].paint,
                  m.look["footprint"].from, IF On(m, "footprint") THEN w.to["footprint"] ELSE {})
        /\ LookIs(n.look["component"], m.look["component"].visible, m.look["component"].paint,
                  m.look["component"].from, IF On(m, "component") THEN w.to["component"] ELSE {})
    BY <2>1, SetFiltersIs
  <2>3. /\ Moves(k, j, "eao")
        /\ Adds(k, j, {})
        /\ j.look["picked"] = k.look["picked"]
        /\ j.look["selected"] = k.look["selected"]
        /\ LookIs(j.look["footprint"], k.look["footprint"].visible, k.look["footprint"].paint,
                  k.look["footprint"].from, IF On(k, "footprint") THEN w.to["footprint"] ELSE {})
        /\ LookIs(j.look["component"], k.look["component"].visible, k.look["component"].paint,
                  k.look["component"].from, IF On(k, "component") THEN w.to["component"] ELSE {})
    BY <2>1, SetFiltersIs
  <2>4. (On(n, "footprint") <=> On(j, "footprint")) /\ (On(n, "component") <=> On(j, "component"))
        /\ (On(n, "picked") <=> On(j, "picked")) /\ (On(n, "selected") <=> On(j, "selected"))
    BY <1>1, <2>2, <2>3 DEF Adds, Drops, RidesOn
  <2>5. n.look["footprint"] = j.look["footprint"]
    BY <1>1, <1>3, <2>2, <2>3, LookEq
  <2>6. n.look["component"] = j.look["component"]
    BY <1>1, <1>3, <2>2, <2>3, LookEq
  <2>7. n.look["picked"] = j.look["picked"]
    BY <1>1, <1>3, <2>2, <2>3, LookEq
  <2>8. n.look["selected"] = j.look["selected"]
    BY <1>1, <1>3, <2>2, <2>3, LookEq
  <2> QED BY <1>4, <2>4, <2>5, <2>6, <2>7, <2>8
<1>7. CASE w.does = "pick"
  <2>1. n = ShowComponentHighlight(m, w.to) /\ j = ShowComponentHighlight(k, w.to)
        /\ w.to \in Values
    BY <1>7, WorkedHosted, WorksAre
  <2>2. /\ Moves(m, n, "eao")
        /\ RidesOn(m, n, "picked", "component")
        /\ LookKept(m, n, {"picked"})
        /\ On(m, "component") => LookIs(n.look["picked"], TRUE, 0, 0, w.to)
        /\ ~On(m, "component") => n.look["picked"] = Absent
    BY <2>1, ShowComponentHighlightIs
  <2>3. /\ Moves(k, j, "eao")
        /\ RidesOn(k, j, "picked", "component")
        /\ LookKept(k, j, {"picked"})
        /\ On(k, "component") => LookIs(j.look["picked"], TRUE, 0, 0, w.to)
        /\ ~On(k, "component") => j.look["picked"] = Absent
    BY <2>1, ShowComponentHighlightIs
  <2>4. (On(n, "footprint") <=> On(j, "footprint")) /\ (On(n, "component") <=> On(j, "component"))
        /\ (On(n, "picked") <=> On(j, "picked")) /\ (On(n, "selected") <=> On(j, "selected"))
    BY <1>1, <2>2, <2>3 DEF Adds, Drops, RidesOn
  <2>5. n.look["footprint"] = j.look["footprint"]
    BY <1>1, <1>3, <2>2, <2>3, LookEq, LayerNames DEF LookKept
  <2>6. n.look["component"] = j.look["component"]
    BY <1>1, <1>3, <2>2, <2>3, LookEq, LayerNames DEF LookKept
  <2>7. n.look["picked"] = j.look["picked"]
    BY <1>1, <1>3, <2>2, <2>3, LookEq, LayerNames DEF LookKept
  <2>8. n.look["selected"] = j.look["selected"]
    BY <1>1, <1>3, <2>2, <2>3, LookEq, LayerNames DEF LookKept
  <2> QED BY <1>4, <2>4, <2>5, <2>6, <2>7, <2>8
<1>8. CASE w.does = "unpick"
  <2>1. n = RemoveComponentHighlight(m) /\ j = RemoveComponentHighlight(k)
    BY <1>8, WorkedHosted, WorksAre
  <2>2. /\ Moves(m, n, "eao")
        /\ Drops(m, n, "picked")
        /\ n.look["picked"] = Absent
        /\ LookKept(m, n, {"picked"})
    BY <2>1, RemoveComponentHighlightIs
  <2>3. /\ Moves(k, j, "eao")
        /\ Drops(k, j, "picked")
        /\ j.look["picked"] = Absent
        /\ LookKept(k, j, {"picked"})
    BY <2>1, RemoveComponentHighlightIs
  <2>4. (On(n, "footprint") <=> On(j, "footprint")) /\ (On(n, "component") <=> On(j, "component"))
        /\ (On(n, "picked") <=> On(j, "picked")) /\ (On(n, "selected") <=> On(j, "selected"))
    BY <1>1, <2>2, <2>3 DEF Adds, Drops, RidesOn
  <2>5. n.look["footprint"] = j.look["footprint"]
    BY <1>1, <1>3, <2>2, <2>3, LookEq, LayerNames DEF LookKept
  <2>6. n.look["component"] = j.look["component"]
    BY <1>1, <1>3, <2>2, <2>3, LookEq, LayerNames DEF LookKept
  <2>7. n.look["picked"] = j.look["picked"]
    BY <1>1, <1>3, <2>2, <2>3, LookEq, LayerNames DEF LookKept
  <2>8. n.look["selected"] = j.look["selected"]
    BY <1>1, <1>3, <2>2, <2>3, LookEq, LayerNames DEF LookKept
  <2> QED BY <1>4, <2>4, <2>5, <2>6, <2>7, <2>8
<1>9. CASE w.does = "select"
  <2>1. n = ShowSelectionOutline(m, w.to) /\ j = ShowSelectionOutline(k, w.to) /\ w.to \in Values
    BY <1>9, WorkedHosted, WorksAre
  <2>2. /\ Moves(m, n, "eao")
        /\ RidesOn(m, n, "selected", "component")
        /\ LookKept(m, n, {"selected"})
        /\ On(m, "component") => LookIs(n.look["selected"], TRUE, 0, 0, w.to)
        /\ ~On(m, "component") => n.look["selected"] = Absent
    BY <2>1, ShowSelectionOutlineIs
  <2>3. /\ Moves(k, j, "eao")
        /\ RidesOn(k, j, "selected", "component")
        /\ LookKept(k, j, {"selected"})
        /\ On(k, "component") => LookIs(j.look["selected"], TRUE, 0, 0, w.to)
        /\ ~On(k, "component") => j.look["selected"] = Absent
    BY <2>1, ShowSelectionOutlineIs
  <2>4. (On(n, "footprint") <=> On(j, "footprint")) /\ (On(n, "component") <=> On(j, "component"))
        /\ (On(n, "picked") <=> On(j, "picked")) /\ (On(n, "selected") <=> On(j, "selected"))
    BY <1>1, <2>2, <2>3 DEF Adds, Drops, RidesOn
  <2>5. n.look["footprint"] = j.look["footprint"]
    BY <1>1, <1>3, <2>2, <2>3, LookEq, LayerNames DEF LookKept
  <2>6. n.look["component"] = j.look["component"]
    BY <1>1, <1>3, <2>2, <2>3, LookEq, LayerNames DEF LookKept
  <2>7. n.look["picked"] = j.look["picked"]
    BY <1>1, <1>3, <2>2, <2>3, LookEq, LayerNames DEF LookKept
  <2>8. n.look["selected"] = j.look["selected"]
    BY <1>1, <1>3, <2>2, <2>3, LookEq, LayerNames DEF LookKept
  <2> QED BY <1>4, <2>4, <2>5, <2>6, <2>7, <2>8
<1>10. CASE w.does = "unselect"
  <2>1. n = RemoveSelectionOutline(m) /\ j = RemoveSelectionOutline(k)
    BY <1>10, WorkedHosted, WorksAre
  <2>2. /\ Moves(m, n, "eao")
        /\ Drops(m, n, "selected")
        /\ n.look["selected"] = Absent
        /\ LookKept(m, n, {"selected"})
    BY <2>1, RemoveSelectionOutlineIs
  <2>3. /\ Moves(k, j, "eao")
        /\ Drops(k, j, "selected")
        /\ j.look["selected"] = Absent
        /\ LookKept(k, j, {"selected"})
    BY <2>1, RemoveSelectionOutlineIs
  <2>4. (On(n, "footprint") <=> On(j, "footprint")) /\ (On(n, "component") <=> On(j, "component"))
        /\ (On(n, "picked") <=> On(j, "picked")) /\ (On(n, "selected") <=> On(j, "selected"))
    BY <1>1, <2>2, <2>3 DEF Adds, Drops, RidesOn
  <2>5. n.look["footprint"] = j.look["footprint"]
    BY <1>1, <1>3, <2>2, <2>3, LookEq, LayerNames DEF LookKept
  <2>6. n.look["component"] = j.look["component"]
    BY <1>1, <1>3, <2>2, <2>3, LookEq, LayerNames DEF LookKept
  <2>7. n.look["picked"] = j.look["picked"]
    BY <1>1, <1>3, <2>2, <2>3, LookEq, LayerNames DEF LookKept
  <2>8. n.look["selected"] = j.look["selected"]
    BY <1>1, <1>3, <2>2, <2>3, LookEq, LayerNames DEF LookKept
  <2> QED BY <1>4, <2>4, <2>5, <2>6, <2>7, <2>8
<1> QED
  BY <1>5, <1>6, <1>7, <1>8, <1>9, <1>10, WorksAre

LEMMA AlikeMark ==
  ASSUME NEW w \in Works, w.layer = "mark", NEW m, IsMap(m), NEW k, IsMap(k),
         Agree(m, k, "mark"),
         w.does = "mark" /\ w.to = "local" => (On(m, "line") <=> On(k, "line")),
         NEW n, n = Worked(m, w), NEW j, j = Worked(k, w)
  PROVE  Agree(n, j, "mark")
<1>1. /\ (On(m, "marked") <=> On(k, "marked")) /\ m.look["marked"] = k.look["marked"]
  BY LanesAre DEF Agree
<1>2. Moves(m, n, "mark") /\ Moves(k, j, "mark")
  BY WorkedMoves
<1>3. /\ n.look["marked"] \in Looks /\ j.look["marked"] \in Looks
  BY <1>2, LooksAre, LayerNames DEF Moves
<1>4. ASSUME On(n, "marked") <=> On(j, "marked"), n.look["marked"] = j.look["marked"]
      PROVE  Agree(n, j, "mark")
  BY <1>4, LanesAre DEF Agree
<1>5. CASE w.does = "mark" /\ w.to = "local"
  <2>1. n = ShowLocalHighlight(m) /\ j = ShowLocalHighlight(k)
    BY <1>5, WorkedRest, WorksAre
  <2>2. /\ Moves(m, n, "mark")
        /\ RidesOn(m, n, "marked", "line")
        /\ LookKept(m, n, {"marked"})
        /\ On(m, "line") => LookIs(n.look["marked"], TRUE, 0, 0, {"local"})
        /\ ~On(m, "line") => n.look["marked"] = Absent
    BY <2>1, ShowLocalHighlightIs
  <2>3. /\ Moves(k, j, "mark")
        /\ RidesOn(k, j, "marked", "line")
        /\ LookKept(k, j, {"marked"})
        /\ On(k, "line") => LookIs(j.look["marked"], TRUE, 0, 0, {"local"})
        /\ ~On(k, "line") => j.look["marked"] = Absent
    BY <2>1, ShowLocalHighlightIs
  <2>4. (On(n, "marked") <=> On(j, "marked"))
    BY <1>1, <1>5, <2>2, <2>3 DEF Adds, Drops, RidesOn
  <2>5. n.look["marked"] = j.look["marked"]
    BY <1>1, <1>3, <1>5, <2>2, <2>3, LookEq, LayerNames DEF LookKept
  <2> QED BY <1>4, <2>4, <2>5
<1>6. CASE w.does = "mark" /\ w.to # "local"
  <2>1. n = ShowHighlight(m, w.to) /\ j = ShowHighlight(k, w.to) /\ w.to \in Kinds
    BY <1>6, WorkedRest, WorksAre
  <2>2. /\ Moves(m, n, "mark")
        /\ Adds(m, n, {"marked"})
        /\ LookIs(n.look["marked"], TRUE, 0, 0, {w.to})
    BY <2>1, ShowHighlightIs
  <2>3. /\ Moves(k, j, "mark")
        /\ Adds(k, j, {"marked"})
        /\ LookIs(j.look["marked"], TRUE, 0, 0, {w.to})
    BY <2>1, ShowHighlightIs
  <2>4. (On(n, "marked") <=> On(j, "marked"))
    BY <1>1, <2>2, <2>3 DEF Adds, Drops, RidesOn
  <2>5. n.look["marked"] = j.look["marked"]
    BY <1>1, <1>3, <2>2, <2>3, LookEq
  <2> QED BY <1>4, <2>4, <2>5
<1>7. CASE w.does = "unmark"
  <2>1. n = RemoveHighlight(m) /\ j = RemoveHighlight(k)
    BY <1>7, WorkedRest, WorksAre
  <2>2. /\ Moves(m, n, "mark")
        /\ Drops(m, n, "marked")
        /\ n.look["marked"] = Absent
        /\ LookKept(m, n, {"marked"})
    BY <2>1, RemoveHighlightIs
  <2>3. /\ Moves(k, j, "mark")
        /\ Drops(k, j, "marked")
        /\ j.look["marked"] = Absent
        /\ LookKept(k, j, {"marked"})
    BY <2>1, RemoveHighlightIs
  <2>4. (On(n, "marked") <=> On(j, "marked"))
    BY <1>1, <2>2, <2>3 DEF Adds, Drops, RidesOn
  <2>5. n.look["marked"] = j.look["marked"]
    BY <1>1, <1>3, <2>2, <2>3, LookEq, LayerNames DEF LookKept
  <2> QED BY <1>4, <2>4, <2>5
<1> QED
  BY <1>5, <1>6, <1>7, WorksAre

LEMMA AlikeImported ==
  ASSUME NEW w \in Works, w.layer = "imported", NEW m, IsMap(m), NEW k, IsMap(k),
         Agree(m, k, "imported"),
         NEW n, n = Worked(m, w), NEW j, j = Worked(k, w)
  PROVE  Agree(n, j, "imported")
<1>1. /\ (On(m, "imported") <=> On(k, "imported")) /\ m.look["imported"] = k.look["imported"]
  BY LanesAre DEF Agree
<1>2. Moves(m, n, "imported") /\ Moves(k, j, "imported")
  BY WorkedMoves
<1>3. /\ n.look["imported"] \in Looks /\ j.look["imported"] \in Looks
  BY <1>2, LooksAre, LayerNames DEF Moves
<1>4. ASSUME On(n, "imported") <=> On(j, "imported"), n.look["imported"] = j.look["imported"]
      PROVE  Agree(n, j, "imported")
  BY <1>4, LanesAre DEF Agree
<1>5. CASE w.does = "import"
  <2>1. n = ShowImported(m, w.to) /\ j = ShowImported(k, w.to) /\ w.to \in Values
    BY <1>5, WorkedRest, WorksAre
  <2>2. /\ Moves(m, n, "imported")
        /\ Adds(m, n, {"imported"})
        /\ On(m, "imported") => n.look["imported"] = m.look["imported"]
        /\ ~On(m, "imported") => LookIs(n.look["imported"], TRUE, w.to, 0, {})
    BY <2>1, ShowImportedIs
  <2>3. /\ Moves(k, j, "imported")
        /\ Adds(k, j, {"imported"})
        /\ On(k, "imported") => j.look["imported"] = k.look["imported"]
        /\ ~On(k, "imported") => LookIs(j.look["imported"], TRUE, w.to, 0, {})
    BY <2>1, ShowImportedIs
  <2>4. (On(n, "imported") <=> On(j, "imported"))
    BY <1>1, <2>2, <2>3 DEF Adds, Drops, RidesOn
  <2>5. n.look["imported"] = j.look["imported"]
    BY <1>1, <1>3, <2>2, <2>3, LookEq
  <2> QED BY <1>4, <2>4, <2>5
<1>6. CASE w.does = "reveal"
  <2>1. n = SetImportedVisibility(m, w.to) /\ j = SetImportedVisibility(k, w.to) /\ w.to \in Values
    BY <1>6, WorkedRest, WorksAre
  <2>2. /\ Moves(m, n, "imported")
        /\ Adds(m, n, {})
        /\ LookIs(n.look["imported"],
                  IF On(m, "imported") THEN w.to ELSE m.look["imported"].visible,
                       m.look["imported"].paint, m.look["imported"].from, m.look["imported"].of)
    BY <2>1, SetImportedVisibilityIs
  <2>3. /\ Moves(k, j, "imported")
        /\ Adds(k, j, {})
        /\ LookIs(j.look["imported"],
                  IF On(k, "imported") THEN w.to ELSE k.look["imported"].visible,
                       k.look["imported"].paint, k.look["imported"].from, k.look["imported"].of)
    BY <2>1, SetImportedVisibilityIs
  <2>4. (On(n, "imported") <=> On(j, "imported"))
    BY <1>1, <2>2, <2>3 DEF Adds, Drops, RidesOn
  <2>5. n.look["imported"] = j.look["imported"]
    BY <1>1, <1>3, <2>2, <2>3, LookEq
  <2> QED BY <1>4, <2>4, <2>5
<1>7. CASE w.does = "refade"
  <2>1. n = SetImportedOpacity(m, w.to) /\ j = SetImportedOpacity(k, w.to) /\ w.to \in Values
    BY <1>7, WorkedRest, WorksAre
  <2>2. /\ Moves(m, n, "imported")
        /\ Adds(m, n, {})
        /\ LookIs(n.look["imported"], m.look["imported"].visible,
                  IF On(m, "imported") THEN w.to ELSE m.look["imported"].paint,
                       m.look["imported"].from, m.look["imported"].of)
    BY <2>1, SetImportedOpacityIs
  <2>3. /\ Moves(k, j, "imported")
        /\ Adds(k, j, {})
        /\ LookIs(j.look["imported"], k.look["imported"].visible,
                  IF On(k, "imported") THEN w.to ELSE k.look["imported"].paint,
                       k.look["imported"].from, k.look["imported"].of)
    BY <2>1, SetImportedOpacityIs
  <2>4. (On(n, "imported") <=> On(j, "imported"))
    BY <1>1, <2>2, <2>3 DEF Adds, Drops, RidesOn
  <2>5. n.look["imported"] = j.look["imported"]
    BY <1>1, <1>3, <2>2, <2>3, LookEq
  <2> QED BY <1>4, <2>4, <2>5
<1>8. CASE w.does = "remove"
  <2>1. n = RemoveImported(m) /\ j = RemoveImported(k)
    BY <1>8, WorkedRest, WorksAre
  <2>2. /\ Moves(m, n, "imported")
        /\ Drops(m, n, "imported")
        /\ n.look["imported"] = Absent
        /\ LookKept(m, n, {"imported"})
    BY <2>1, RemoveImportedIs
  <2>3. /\ Moves(k, j, "imported")
        /\ Drops(k, j, "imported")
        /\ j.look["imported"] = Absent
        /\ LookKept(k, j, {"imported"})
    BY <2>1, RemoveImportedIs
  <2>4. (On(n, "imported") <=> On(j, "imported"))
    BY <1>1, <2>2, <2>3 DEF Adds, Drops, RidesOn
  <2>5. n.look["imported"] = j.look["imported"]
    BY <1>1, <1>3, <2>2, <2>3, LookEq, LayerNames DEF LookKept
  <2> QED BY <1>4, <2>4, <2>5
<1> QED
  BY <1>5, <1>6, <1>7, <1>8, WorksAre

LEMMA AlikeDots ==
  ASSUME NEW w \in Works, w.layer = "dots", NEW m, IsMap(m), NEW k, IsMap(k),
         Agree(m, k, "dots"),
         NEW n, n = Worked(m, w), NEW j, j = Worked(k, w)
  PROVE  Agree(n, j, "dots")
<1>1. /\ (On(m, "dots") <=> On(k, "dots")) /\ m.look["dots"] = k.look["dots"]
  BY LanesAre DEF Agree
<1>2. Moves(m, n, "dots") /\ Moves(k, j, "dots")
  BY WorkedMoves
<1>3. /\ n.look["dots"] \in Looks /\ j.look["dots"] \in Looks
  BY <1>2, LooksAre, LayerNames DEF Moves
<1>4. ASSUME On(n, "dots") <=> On(j, "dots"), n.look["dots"] = j.look["dots"]
      PROVE  Agree(n, j, "dots")
  BY <1>4, LanesAre DEF Agree
<1>5. CASE w.does = "dots"
  <2>1. n = ShowProjects(m, w.to) /\ j = ShowProjects(k, w.to) /\ w.to \in Values
    BY <1>5, WorkedRest, WorksAre
  <2>2. /\ Moves(m, n, "dots")
        /\ Adds(m, n, {"dots"})
        /\ LookIs(n.look["dots"], IF On(m, "dots") THEN m.look["dots"].visible ELSE TRUE,
                  m.look["dots"].paint, m.look["dots"].from, w.to)
    BY <2>1, ShowProjectsIs
  <2>3. /\ Moves(k, j, "dots")
        /\ Adds(k, j, {"dots"})
        /\ LookIs(j.look["dots"], IF On(k, "dots") THEN k.look["dots"].visible ELSE TRUE,
                  k.look["dots"].paint, k.look["dots"].from, w.to)
    BY <2>1, ShowProjectsIs
  <2>4. (On(n, "dots") <=> On(j, "dots"))
    BY <1>1, <2>2, <2>3 DEF Adds, Drops, RidesOn
  <2>5. n.look["dots"] = j.look["dots"]
    BY <1>1, <1>3, <2>2, <2>3, LookEq
  <2> QED BY <1>4, <2>4, <2>5
<1> QED
  BY <1>5, WorksAre

LEMMA WorkedAlike ==
  ASSUME NEW w \in Works, NEW m, IsMap(m), NEW k, IsMap(k), Agree(m, k, w.layer),
         w.does = "mark" /\ w.to = "local" => (On(m, "line") <=> On(k, "line"))
  PROVE  Agree(Worked(m, w), Worked(k, w), w.layer)
<1>1. CASE w.layer = "wms"
  BY <1>1, AlikeWms
<1>2. CASE w.layer = "pip"
  BY <1>2, AlikePip
<1>3. CASE w.layer = "eao"
  BY <1>3, AlikeEao
<1>4. CASE w.layer = "imported"
  BY <1>4, AlikeImported
<1>5. CASE w.layer = "mark"
  BY <1>5, AlikeMark
<1>6. CASE w.layer = "dots"
  BY <1>6, AlikeDots
<1> QED
  BY <1>1, <1>2, <1>3, <1>4, <1>5, <1>6, WorksAre

-----------------------------------------------------------------------------
(* Running a work                                                          *)

Lanes == {"wms", "pip", "eao", "imported", "mark", "dots"}

(* Two maps agree about every lane; about every lane but one *)
Alike(m, n) == \A lane \in Lanes : Agree(m, n, lane)
Apart(m, n, lane) == \A l \in Lanes \ {lane} : Agree(m, n, l)

(* Layers never come off but the highlights and the imported one *)
StaysOn(m, n) ==
  \A l \in Widget \ {"imported", "marked", "picked", "selected"} : On(m, l) => On(n, l)

(* What running works, one or many, keeps of a map *)
Carried(m, n) ==
  /\ IsMap(n) /\ n.parsed = m.parsed /\ n.deferred = m.deferred /\ n.overtaken = m.overtaken
  /\ n.ready => m.ready
  /\ m.changed => n.changed
  /\ n.stack # m.stack => n.changed
  /\ On(n, LabelBlock) <=> On(m, LabelBlock)
  /\ StaysOn(m, n)
  /\ Stacked(m) => Stacked(n)

LEMMA LaneNames ==
  /\ \A w \in Works : w.layer \in Lanes
  /\ \A lane \in Lanes : LayersOf(lane) \subseteq Widget
  /\ \A a, b \in Lanes : a # b => LayersOf(a) \cap LayersOf(b) = {}
  /\ \A l \in Widget : \E lane \in Lanes : l \in LayersOf(lane)
<1>1. \A w \in Works : w.layer \in Lanes
  BY WorksAre DEF Lanes
<1>2. \A lane \in Lanes : LayersOf(lane) \subseteq Widget
  BY LanesAre, LayerNames DEF Lanes
<1>3. \A a, b \in Lanes : a # b => LayersOf(a) \cap LayersOf(b) = {}
  BY LanesAre DEF Lanes
<1>4. \A l \in Widget : \E lane \in Lanes : l \in LayersOf(lane)
  BY LanesAre, LayerNames DEF Lanes
<1> QED
  BY <1>1, <1>2, <1>3, <1>4

LEMMA RunTouches ==
  ASSUME NEW m, NEW w
  PROVE  Run(m, w) = Touched(m, Worked(m, w))
BY DEF Run, The

(* Two maps with the same stack and looks agree *)
LEMMA SameDrawn ==
  ASSUME NEW m, NEW n, n.stack = m.stack, n.look = m.look
  PROVE  /\ Alike(m, n) /\ Alike(n, m) /\ \A l : On(n, l) <=> On(m, l)
         /\ Stacked(m) <=> Stacked(n)
BY DEF Alike, Agree, On, Stacked, Under

LEMMA RunIs ==
  ASSUME NEW m, IsMap(m), NEW w \in Works, NEW n, n = Run(m, w)
  PROVE  /\ Carried(m, n) /\ Apart(m, n, w.layer)
         /\ Alike(Worked(m, w), n) /\ Alike(n, Worked(m, w))
<1> DEFINE k == Worked(m, w)
<1>1. Moves(m, k, w.layer)
  BY WorkedMoves
<1>2. n = Touched(m, k)
  BY RunTouches
<1> HIDE DEF k
<1>3. k \in Maps /\ IsMap(k) /\ Shaped(k)
  BY <1>1 DEF Moves, IsMap, Shaped
<1>4. /\ n \in Maps /\ n.stack = k.stack /\ n.look = k.look /\ n.parsed = k.parsed
      /\ n.deferred = k.deferred /\ n.overtaken = k.overtaken
      /\ n.ready => k.ready
      /\ n.changed <=> k.changed \/ k.stack # m.stack \/ k.look # m.look
  BY <1>2, <1>3 DEF Touched, Maps
<1>5. \A l : On(n, l) <=> On(k, l)
  BY <1>4 DEF On
<1>6. IsMap(n)
  BY <1>3, <1>4, <1>5 DEF IsMap, Shaped
<1>7. /\ n.parsed = m.parsed /\ n.deferred = m.deferred /\ n.overtaken = m.overtaken
      /\ n.ready => m.ready
      /\ m.changed => n.changed
      /\ n.stack # m.stack => n.changed
  BY <1>1, <1>4 DEF Moves, SameControl
<1>8. Alike(k, n) /\ Alike(n, k) /\ (Stacked(k) <=> Stacked(n))
  BY <1>4, SameDrawn
<1>9. Stacked(m) => Stacked(n)
  BY <1>1, <1>8 DEF Moves
<1>10. (On(n, LabelBlock) <=> On(m, LabelBlock)) /\ StaysOn(m, n)
  BY <1>1, <1>5 DEF Moves, StaysOn
<1>11. Apart(m, n, w.layer)
  <2> SUFFICES ASSUME NEW lane \in Lanes \ {w.layer}, NEW l \in LayersOf(lane)
               PROVE  (On(m, l) <=> On(n, l)) /\ m.look[l] = n.look[l]
    BY DEF Apart, Agree
  <2>1. l \in Widget \ LayersOf(w.layer)
    BY LaneNames
  <2> QED BY <1>1, <1>4, <1>5, <2>1 DEF Moves
<1> QED
  BY <1>6, <1>7, <1>8, <1>9, <1>10, <1>11 DEF Carried, k

LEMMA CarriedSelf ==
  ASSUME NEW m, IsMap(m)
  PROVE  Carried(m, m) /\ Alike(m, m)
BY DEF Carried, StaysOn, Alike, Agree

LEMMA CarriedOn ==
  ASSUME NEW m, NEW k, NEW n, Carried(m, k), Carried(k, n)
  PROVE  Carried(m, n)
<1>1. StaysOn(m, n)
  BY DEF Carried, StaysOn
<1> QED
  BY <1>1 DEF Carried

LEMMA Agrees ==
  ASSUME NEW m, NEW k, NEW n, NEW lane, Agree(m, k, lane), Agree(k, n, lane)
  PROVE  Agree(m, n, lane) /\ Agree(k, m, lane)
BY DEF Agree

LEMMA AlikeOn ==
  ASSUME NEW m, NEW k, NEW n, Alike(m, k), Alike(k, n)
  PROVE  Alike(m, n) /\ Alike(k, m)
BY Agrees DEF Alike

(* A work runs alike on maps that agree about its lane *)
LEMMA RunAlike ==
  ASSUME NEW w \in Works, NEW m, IsMap(m), NEW k, IsMap(k), Agree(m, k, w.layer),
         w.does = "mark" /\ w.to = "local" => (On(m, "line") <=> On(k, "line"))
  PROVE  Agree(Run(m, w), Run(k, w), w.layer)
<1>1. Agree(Worked(m, w), Worked(k, w), w.layer)
  BY WorkedAlike
<1>2. Agree(Run(m, w), Worked(m, w), w.layer) /\ Agree(Worked(k, w), Run(k, w), w.layer)
  BY RunIs, LaneNames DEF Alike
<1> QED
  BY <1>1, <1>2, Agrees

-----------------------------------------------------------------------------
(* Works one after the other                                               *)

(* Induction on the naturals, of a set of them *)
LEMMA AllNaturals ==
  ASSUME NEW T \in SUBSET Nat, 0 \in T, \A n \in T : n + 1 \in T
  PROVE  T = Nat
<1> SUFFICES ASSUME Nat \ T # {} PROVE FALSE
  OBVIOUS
<1>1. PICK n \in Nat \ T : \A m \in Nat \ T : <<m, n>> \notin OpToRel(<, Nat)
  <2>1. Nat \ T \subseteq Nat
    OBVIOUS
  <2> QED BY <2>1, NatLessThanWellFounded, WFMin
<1>2. n # 0 /\ n - 1 \in Nat /\ n - 1 < n
  BY SMT
<1>3. n - 1 \in T
  <2>1. <<n - 1, n>> \in OpToRel(<, Nat)
    <3>1. <<n - 1, n>> \in Nat \X Nat /\ <<n - 1, n>>[1] < <<n - 1, n>>[2]
      BY <1>2
    <3> QED BY <3>1 DEF OpToRel
  <2> QED BY <1>1, <1>2, <2>1
<1>4. (n - 1) + 1 = n
  BY <1>2
<1> QED BY <1>3, <1>4

(* Induction along a run of n steps *)
LEMMA Along ==
  ASSUME NEW n \in Nat, NEW T, 0 \in T, \A i \in 1..n : i - 1 \in T => i \in T
  PROVE  \A i \in 0..n : i \in T
<1> DEFINE U == {i \in Nat : i <= n => i \in T}
<1>1. U \in SUBSET Nat /\ 0 \in U
  OBVIOUS
<1>2. \A i \in U : i + 1 \in U
  <2> SUFFICES ASSUME NEW i \in U, i + 1 <= n PROVE i + 1 \in T
    OBVIOUS
  <2>1. i \in T /\ i + 1 \in 1..n /\ (i + 1) - 1 = i
    OBVIOUS
  <2> QED BY <2>1
<1>3. U = Nat
  BY <1>1, <1>2, AllNaturals
<1> QED
  BY <1>3

(* A step for each member of a sequence, from a first value *)
Steps(f, M, m, q, step) ==
  f \in [0..Len(q) -> M] /\ f[0] = m /\ \A i \in 1..Len(q) : f[i] = step[<<f[i - 1], q[i]>>]

LEMMA Traced ==
  ASSUME NEW M, NEW W, NEW step \in [M \X W -> M], NEW m \in M, NEW q \in Seq(W)
  PROVE  \E f : Steps(f, M, m, q, step)
<1> DEFINE Is(f, k) == f[0] = m /\ \A i \in 1..k : f[i] = step[<<f[i - 1], q[i]>>]
           T == {k \in Nat : k <= Len(q) => \E f \in [0..k -> M] : Is(f, k)}
<1>1. Len(q) \in Nat /\ \A i \in 1..Len(q) : q[i] \in W
  OBVIOUS
<1>2. 0 \in T
  <2> DEFINE f == [i \in 0..0 |-> m]
  <2>1. f \in [0..0 -> M] /\ f[0] = m
    OBVIOUS
  <2>2. \A i \in 1..0 : FALSE
    OBVIOUS
  <2> HIDE DEF f
  <2>3. Is(f, 0)
    BY <2>1, <2>2
  <2> QED BY <2>1, <2>3
<1>3. \A k \in T : k + 1 \in T
  <2> SUFFICES ASSUME NEW k \in Nat, k + 1 <= Len(q), NEW f \in [0..k -> M], Is(f, k)
               PROVE  \E g \in [0..(k + 1) -> M] : Is(g, k + 1)
    BY <1>1
  <2> DEFINE g == [i \in 0..(k + 1) |-> IF i <= k THEN f[i] ELSE step[<<f[k], q[k + 1]>>]]
  <2>1. k + 1 \in 1..Len(q) /\ k \in 0..k
    BY <1>1
  <2>2. step[<<f[k], q[k + 1]>>] \in M
    BY <1>1, <2>1
  <2>3. g \in [0..(k + 1) -> M] /\ \A i \in 0..k : g[i] = f[i]
    BY <2>2
  <2>4. g[k + 1] = step[<<f[k], q[k + 1]>>]
    OBVIOUS
  <2> HIDE DEF g
  <2>5. ASSUME NEW i \in 1..(k + 1) PROVE g[i] = step[<<g[i - 1], q[i]>>]
    <3>1. CASE i = k + 1
      <4>1. i - 1 = k /\ g[k] = f[k]
        BY <2>1, <2>3, <3>1
      <4> QED BY <2>4, <3>1, <4>1
    <3>2. CASE i # k + 1
      <4>1. i \in 1..k /\ i \in 0..k /\ i - 1 \in 0..k
        BY <3>2
      <4> QED BY <2>3, <4>1
    <3> QED BY <3>1, <3>2
  <2>6. g[0] = m
    BY <2>3
  <2> QED BY <2>3, <2>5, <2>6
<1>4. T \in SUBSET Nat
  OBVIOUS
<1> HIDE DEF T
<1>5. T = Nat
  BY <1>2, <1>3, <1>4, AllNaturals
<1>6. \E f \in [0..Len(q) -> M] : Is(f, Len(q))
  BY <1>1, <1>5 DEF T
<1> QED
  BY <1>6 DEF Steps

LEMMA OneTrace ==
  ASSUME NEW n \in Nat, NEW f, NEW g, f[0] = g[0],
         \A i \in 1..n : f[i - 1] = g[i - 1] => f[i] = g[i]
  PROVE  \A i \in 0..n : f[i] = g[i]
<1> DEFINE T == {i \in 0..n : f[i] = g[i]}
<1>1. 0 \in T
  OBVIOUS
<1>2. \A i \in 1..n : i - 1 \in T => i \in T
  OBVIOUS
<1>3. \A i \in 0..n : i \in T
  BY <1>1, <1>2, Along
<1> QED
  BY <1>3

GoodMaps == {m \in Maps : IsMap(m)}

LEMMA GoodMap ==
  ASSUME NEW m PROVE m \in GoodMaps <=> IsMap(m)
BY DEF GoodMaps, IsMap, Shaped

(* The maps a sequence of works leaves, one after the other *)
RunTrace(f, m, q) ==
  /\ f \in [0..Len(q) -> GoodMaps] /\ f[0] = m
  /\ \A i \in 1..Len(q) : f[i] = Run(f[i - 1], q[i])

LEMMA RunAllIs ==
  ASSUME NEW m, IsMap(m), NEW q \in Seq(Works)
  PROVE  /\ \E f : RunTrace(f, m, q)
         /\ \A f : RunTrace(f, m, q) => RunAll(m, q) = f[Len(q)]
<1> DEFINE step == [p \in GoodMaps \X Works |-> Run(p[1], p[2])]
           IsIt(f) == f = [i \in 0..Len(q) |->
                             IF i = 0 THEN m ELSE The({Run(n, q[i]) : n \in {f[i - 1]}})]
           F == CHOOSE f : IsIt(f)
<1>1. Len(q) \in Nat /\ m \in GoodMaps /\ \A i \in 1..Len(q) : q[i] \in Works
  BY GoodMap
<1>2. \A n \in GoodMaps, w \in Works : Run(n, w) \in GoodMaps
  BY RunIs, GoodMap DEF Carried
<1>3. step \in [GoodMaps \X Works -> GoodMaps]
  BY <1>2
<1>4. \A n \in GoodMaps, w \in Works : step[<<n, w>>] = Run(n, w)
  OBVIOUS
<1> HIDE DEF step
<1>5. PICK f : Steps(f, GoodMaps, m, q, step)
  <2>1. m \in GoodMaps /\ q \in Seq(Works)
    BY <1>1
  <2> QED BY ONLY <1>3, <2>1, Traced
<1>6. RunTrace(f, m, q)
  <2>1. ASSUME NEW i \in 1..Len(q) PROVE f[i] = Run(f[i - 1], q[i])
    <3>1. i - 1 \in 0..Len(q)
      BY <1>1
    <3> QED BY <1>1, <1>4, <1>5, <3>1 DEF Steps
  <2> QED BY <1>5, <2>1 DEF RunTrace, Steps
<1>7. \A n, w : The({Run(k, w) : k \in {n}}) = Run(n, w)
  BY DEF The
<1>8. \A g : RunTrace(g, m, q) => IsIt(g)
  <2> SUFFICES ASSUME NEW g, RunTrace(g, m, q) PROVE IsIt(g)
    OBVIOUS
  <2>1. g \in [0..Len(q) -> GoodMaps] /\ g[0] = m
    BY DEF RunTrace
  <2>2. ASSUME NEW i \in 0..Len(q)
        PROVE  g[i] = IF i = 0 THEN m ELSE The({Run(n, q[i]) : n \in {g[i - 1]}})
    <3>1. CASE i = 0
      BY <2>1, <3>1
    <3>2. CASE i # 0
      <4>1. i \in 1..Len(q)
        BY <1>1, <3>2
      <4>2. g[i] = Run(g[i - 1], q[i])
        BY <4>1 DEF RunTrace
      <4> QED BY <1>7, <3>2, <4>2
    <3> QED BY <3>1, <3>2
  <2> QED BY <2>1, <2>2
<1>9. IsIt(F)
  BY <1>6, <1>8
<1>10. RunAll(m, q) = F[Len(q)]
  BY DEF RunAll
<1> HIDE DEF F
<1>11. F[0] = m /\ \A i \in 1..Len(q) : F[i] = Run(F[i - 1], q[i])
  <2> DEFINE G == F
  <2> HIDE DEF G
  <2>1. F = [i \in 0..Len(q) |-> IF i = 0 THEN m ELSE The({Run(n, q[i]) : n \in {G[i - 1]}})]
    BY <1>9 DEF G
  <2>2. F[0] = m
    BY <1>1, <2>1
  <2>3. ASSUME NEW i \in 1..Len(q) PROVE F[i] = Run(G[i - 1], q[i])
    <3>1. i \in 0..Len(q) /\ i # 0
      BY <1>1
    <3>2. F[i] = The({Run(n, q[i]) : n \in {G[i - 1]}})
      BY <2>1, <3>1
    <3> QED BY <1>7, <3>2
  <2> QED BY <2>2, <2>3 DEF G
<1>12. ASSUME NEW g, RunTrace(g, m, q) PROVE RunAll(m, q) = g[Len(q)]
  <2>1. g[0] = m /\ \A i \in 1..Len(q) : g[i] = Run(g[i - 1], q[i])
    BY <1>12 DEF RunTrace
  <2>2. \A i \in 1..Len(q) : F[i - 1] = g[i - 1] => F[i] = g[i]
    BY <1>11, <2>1
  <2>3. \A i \in 0..Len(q) : F[i] = g[i]
    <3>1. F[0] = g[0] /\ Len(q) \in Nat
      BY <1>1, <1>11, <2>1
    <3> QED BY ONLY <2>2, <3>1, OneTrace
  <2> QED BY <1>1, <1>10, <2>3
<1> QED
  BY <1>6, <1>12

(* Every map of a run is carried from the first *)
LEMMA TraceCarries ==
  ASSUME NEW m, IsMap(m), NEW q \in Seq(Works), NEW f, RunTrace(f, m, q)
  PROVE  \A i \in 0..Len(q) : Carried(m, f[i])
<1> DEFINE T == {i \in 0..Len(q) : Carried(m, f[i])}
<1>1. Len(q) \in Nat /\ f[0] = m /\ \A i \in 1..Len(q) : q[i] \in Works
  BY DEF RunTrace
<1>2. 0 \in T
  BY <1>1, CarriedSelf
<1>3. ASSUME NEW i \in 1..Len(q), i - 1 \in T PROVE i \in T
  <2>1. Carried(m, f[i - 1]) /\ f[i] = Run(f[i - 1], q[i]) /\ q[i] \in Works
    BY <1>1, <1>3 DEF RunTrace
  <2>2. IsMap(f[i - 1])
    BY <2>1 DEF Carried
  <2>3. Carried(f[i - 1], f[i])
    BY <2>1, <2>2, RunIs
  <2>4. Carried(m, f[i])
    BY <2>1, <2>3, CarriedOn
  <2> QED BY <1>1, <2>4
<1> HIDE DEF T
<1>4. \A i \in 0..Len(q) : i \in T
  BY <1>1, <1>2, <1>3, Along
<1> QED
  BY <1>4 DEF T

LEMMA RunAllCarried ==
  ASSUME NEW m, IsMap(m), NEW q \in Seq(Works)
  PROVE  Carried(m, RunAll(m, q)) /\ IsMap(RunAll(m, q))
<1>1. PICK f : RunTrace(f, m, q)
  BY RunAllIs
<1>2. RunAll(m, q) = f[Len(q)] /\ Len(q) \in 0..Len(q)
  BY <1>1, RunAllIs
<1>3. Carried(m, RunAll(m, q))
  BY <1>1, <1>2, TraceCarries
<1> QED
  BY <1>3 DEF Carried

LEMMA RunNone ==
  ASSUME NEW m, IsMap(m)
  PROVE  RunAll(m, <<>>) = m
<1>1. <<>> \in Seq(Works) /\ Len(<<>>) = 0
  OBVIOUS
<1>2. PICK f : RunTrace(f, m, <<>>)
  BY <1>1, RunAllIs
<1> QED
  BY <1>1, <1>2, RunAllIs DEF RunTrace

(* Running s and then t *)
LEMMA RunCat ==
  ASSUME NEW m, IsMap(m), NEW s \in Seq(Works), NEW t \in Seq(Works)
  PROVE  RunAll(m, s \o t) = RunAll(RunAll(m, s), t)
<1>1. /\ Len(s) \in Nat /\ Len(t) \in Nat /\ s \o t \in Seq(Works)
      /\ Len(s \o t) = Len(s) + Len(t)
      /\ \A i \in 1..(Len(s) + Len(t)) : (s \o t)[i] = IF i <= Len(s) THEN s[i] ELSE t[i - Len(s)]
  <2>1. /\ s \o t \in Seq(Works) /\ Len(s \o t) = Len(s) + Len(t)
        /\ \A i \in 1..(Len(s) + Len(t)) : (s \o t)[i] = IF i <= Len(s) THEN s[i] ELSE t[i - Len(s)]
    BY ConcatProperties
  <2> QED BY <2>1
<1>2. PICK f : RunTrace(f, m, s)
  BY RunAllIs
<1>3. RunAll(m, s) = f[Len(s)] /\ IsMap(RunAll(m, s))
  BY <1>2, RunAllIs, RunAllCarried
<1>4. PICK g : RunTrace(g, RunAll(m, s), t)
  BY <1>3, RunAllIs
<1>5. RunAll(RunAll(m, s), t) = g[Len(t)]
  BY <1>3, <1>4, RunAllIs
<1>6. /\ f \in [0..Len(s) -> GoodMaps] /\ f[0] = m
      /\ \A i \in 1..Len(s) : f[i] = Run(f[i - 1], s[i])
      /\ g \in [0..Len(t) -> GoodMaps] /\ g[0] = f[Len(s)]
      /\ \A i \in 1..Len(t) : g[i] = Run(g[i - 1], t[i])
  BY <1>2, <1>3, <1>4 DEF RunTrace
<1> DEFINE h == [i \in 0..(Len(s) + Len(t)) |-> IF i <= Len(s) THEN f[i] ELSE g[i - Len(s)]]
<1>7. \A i \in 0..(Len(s) + Len(t)) :
        /\ i <= Len(s) => h[i] = f[i] /\ h[i] \in GoodMaps
        /\ i >= Len(s) => h[i] = g[i - Len(s)] /\ h[i] \in GoodMaps
  <2> TAKE i \in 0..(Len(s) + Len(t))
  <2>1. CASE i < Len(s)
    <3>1. i \in 0..Len(s) /\ i <= Len(s) /\ ~(i >= Len(s))
      BY <1>1, <2>1
    <3>2. h[i] = f[i]
      BY <3>1
    <3>3. f[i] \in GoodMaps
      BY <1>6, <3>1
    <3> QED BY <3>1, <3>2, <3>3
  <2>2. CASE i = Len(s)
    <3>1. i - Len(s) = 0 /\ i \in 0..Len(s) /\ 0 \in 0..Len(t) /\ i <= Len(s)
      BY <1>1, <2>2
    <3>2. h[i] = f[i]
      BY <3>1
    <3>3. f[i] = g[0]
      BY <1>6, <2>2
    <3> QED BY <1>6, <3>1, <3>2, <3>3
  <2>3. CASE i > Len(s)
    <3>1. i - Len(s) \in 0..Len(t) /\ ~(i <= Len(s))
      BY <1>1, <2>3
    <3> QED BY <1>6, <3>1
  <2> QED BY <1>1, <2>1, <2>2, <2>3
<1>8. h \in [0..(Len(s) + Len(t)) -> GoodMaps]
  BY <1>1, <1>7
<1> HIDE DEF h
<1>9. ASSUME NEW i \in 1..(Len(s) + Len(t)) PROVE h[i] = Run(h[i - 1], (s \o t)[i])
  <2>0. i \in 0..(Len(s) + Len(t)) /\ i - 1 \in 0..(Len(s) + Len(t))
    BY <1>1
  <2>1. CASE i <= Len(s)
    <3>1. i \in 1..Len(s) /\ i - 1 <= Len(s)
      BY <1>1, <2>1
    <3> QED BY <1>1, <1>6, <1>7, <2>0, <2>1, <3>1
  <2>2. CASE i > Len(s)
    <3>1. /\ i - Len(s) \in 1..Len(t) /\ i - 1 >= Len(s) /\ i >= Len(s) /\ ~(i <= Len(s))
          /\ (i - Len(s)) - 1 = (i - 1) - Len(s)
      BY <1>1, <2>2
    <3>2. h[i] = g[i - Len(s)] /\ h[i - 1] = g[(i - 1) - Len(s)]
      BY <1>7, <2>0, <3>1
    <3>3. (s \o t)[i] = t[i - Len(s)]
      BY <1>1, <3>1
    <3>4. g[i - Len(s)] = Run(g[(i - Len(s)) - 1], t[i - Len(s)])
      BY <1>6, <3>1
    <3> QED BY <3>1, <3>2, <3>3, <3>4
  <2> QED BY <1>1, <2>1, <2>2
<1>10. RunTrace(h, m, s \o t)
  <2>1. h[0] = m
    BY <1>1, <1>6, <1>7
  <2>2. \A i \in 1..Len(s \o t) : h[i] = Run(h[i - 1], (s \o t)[i])
    BY <1>1, <1>9
  <2> QED BY <1>1, <1>8, <2>1, <2>2 DEF RunTrace
<1>11. RunAll(m, s \o t) = h[Len(s) + Len(t)]
  BY <1>1, <1>10, RunAllIs
<1>12. h[Len(s) + Len(t)] = g[Len(t)]
  <2>1. /\ Len(s) + Len(t) \in 0..(Len(s) + Len(t)) /\ Len(s) + Len(t) >= Len(s)
        /\ (Len(s) + Len(t)) - Len(s) = Len(t)
    BY <1>1
  <2> QED BY <1>7, <2>1
<1> QED
  BY <1>5, <1>11, <1>12

LEMMA RunOne ==
  ASSUME NEW m, IsMap(m), NEW w \in Works
  PROVE  RunAll(m, <<w>>) = Run(m, w)
<1>1. <<w>> \in Seq(Works) /\ Len(<<w>>) = 1 /\ <<w>>[1] = w
  OBVIOUS
<1>2. PICK f : RunTrace(f, m, <<w>>)
  BY <1>1, RunAllIs
<1>3. f[0] = m /\ f[1] = Run(f[0], w)
  <2>1. 1 \in 1..1 /\ 1 - 1 = 0
    OBVIOUS
  <2>2. f[0] = m /\ \A i \in 1..1 : f[i] = Run(f[i - 1], <<w>>[i])
    BY <1>1, <1>2 DEF RunTrace
  <2> QED BY <1>1, <2>1, <2>2
<1> QED
  BY <1>1, <1>2, <1>3, RunAllIs

(* Works of other lanes leave a lane alone *)
LEMMA RunAllApart ==
  ASSUME NEW m, IsMap(m), NEW q \in Seq(Works), NEW lane \in Lanes,
         \A i \in 1..Len(q) : q[i].layer # lane
  PROVE  Agree(m, RunAll(m, q), lane)
<1>1. PICK f : RunTrace(f, m, q)
  BY RunAllIs
<1>2. RunAll(m, q) = f[Len(q)] /\ Len(q) \in 0..Len(q) /\ Len(q) \in Nat
  BY <1>1, RunAllIs
<1> DEFINE T == {i \in 0..Len(q) : Agree(m, f[i], lane)}
<1>3. 0 \in T
  BY <1>1, <1>2 DEF RunTrace, Agree
<1>4. ASSUME NEW i \in 1..Len(q), i - 1 \in T PROVE i \in T
  <2>1. Agree(m, f[i - 1], lane) /\ f[i] = Run(f[i - 1], q[i]) /\ q[i] \in Works
    BY <1>1, <1>4 DEF RunTrace
  <2>2. IsMap(f[i - 1])
    <3>1. i - 1 \in 0..Len(q)
      BY <1>2
    <3> QED BY <1>1, <3>1, TraceCarries DEF Carried
  <2>3. Apart(f[i - 1], f[i], q[i].layer)
    BY <2>1, <2>2, RunIs
  <2>4. Agree(f[i - 1], f[i], lane)
    BY <2>3 DEF Apart
  <2>5. Agree(m, f[i], lane)
    BY <2>1, <2>4, Agrees
  <2> QED BY <1>2, <2>5
<1> HIDE DEF T
<1>5. \A i \in 0..Len(q) : i \in T
  BY <1>2, <1>3, <1>4, Along
<1> QED
  BY <1>2, <1>5 DEF T

(* A mark of a hosted feature needs the layer's tiles, so that it is drawn *)
Local(w) == w.does = "mark" /\ w.to = "local"
Lined(m, q) == \A i \in 1..Len(q) : Local(q[i]) => On(m, "line")

(* Works run alike on maps that agree about a lane *)
LEMMA RunAllAlike ==
  ASSUME NEW m, IsMap(m), NEW k, IsMap(k), NEW q \in Seq(Works), NEW lane \in Lanes,
         Agree(m, k, lane), Lined(m, q), Lined(k, q)
  PROVE  Agree(RunAll(m, q), RunAll(k, q), lane)
<1>1. PICK f : RunTrace(f, m, q)
  BY RunAllIs
<1>2. RunAll(m, q) = f[Len(q)] /\ Len(q) \in 0..Len(q) /\ Len(q) \in Nat
  BY <1>1, RunAllIs
<1>3. PICK g : RunTrace(g, k, q)
  BY RunAllIs
<1>4. RunAll(k, q) = g[Len(q)]
  BY <1>3, RunAllIs
<1> DEFINE T == {i \in 0..Len(q) : Agree(f[i], g[i], lane)}
<1>5. 0 \in T
  BY <1>1, <1>2, <1>3 DEF RunTrace
<1>6. ASSUME NEW i \in 1..Len(q), i - 1 \in T PROVE i \in T
  <2>1. /\ Agree(f[i - 1], g[i - 1], lane) /\ q[i] \in Works
        /\ f[i] = Run(f[i - 1], q[i]) /\ g[i] = Run(g[i - 1], q[i])
    BY <1>1, <1>3, <1>6 DEF RunTrace
  <2>2. Carried(m, f[i - 1]) /\ Carried(k, g[i - 1]) /\ IsMap(f[i - 1]) /\ IsMap(g[i - 1])
    <3>1. i - 1 \in 0..Len(q)
      BY <1>2
    <3> QED BY <1>1, <1>3, <3>1, TraceCarries DEF Carried
  <2>3. CASE q[i].layer = lane
    <3>1. Local(q[i]) => On(f[i - 1], "line") /\ On(g[i - 1], "line")
      BY <2>2, LayerNames DEF Lined, Carried, StaysOn
    <3>2. Agree(f[i], g[i], lane)
      BY <2>1, <2>2, <2>3, <3>1, RunAlike DEF Local
    <3> QED BY <1>2, <3>2
  <2>4. CASE q[i].layer # lane
    <3>1. Apart(f[i - 1], f[i], q[i].layer) /\ Apart(g[i - 1], g[i], q[i].layer)
      BY <2>1, <2>2, RunIs
    <3>2. Agree(f[i - 1], f[i], lane) /\ Agree(g[i - 1], g[i], lane)
      BY <2>4, <3>1 DEF Apart
    <3>3. Agree(f[i], g[i], lane)
      BY <2>1, <3>2 DEF Agree
    <3> QED BY <1>2, <3>3
  <2> QED BY <2>3, <2>4
<1> HIDE DEF T
<1>7. \A i \in 0..Len(q) : i \in T
  BY <1>2, <1>5, <1>6, Along
<1> QED
  BY <1>2, <1>4, <1>7 DEF T

-----------------------------------------------------------------------------
(* Works that wait                                                         *)

LEMMA SameMap ==
  ASSUME NEW m, IsMap(m), NEW n \in Maps, n.stack = m.stack, n.look = m.look
  PROVE  IsMap(n) /\ Alike(m, n) /\ (Stacked(m) <=> Stacked(n)) /\ (\A l : On(n, l) <=> On(m, l))
<1>1. Alike(m, n) /\ (Stacked(m) <=> Stacked(n)) /\ \A l : On(n, l) <=> On(m, l)
  BY SameDrawn
<1>2. IsMap(n)
  BY <1>1 DEF IsMap, Shaped
<1> QED
  BY <1>1, <1>2

Emptied(m) == [m EXCEPT !.deferred = <<>>]

LEMMA EmptiedIs ==
  ASSUME NEW m, IsMap(m), NEW n, n = Emptied(m)
  PROVE  /\ IsMap(n) /\ Alike(m, n) /\ n.stack = m.stack /\ n.look = m.look
         /\ n.parsed = m.parsed /\ n.ready = m.ready /\ n.changed = m.changed
         /\ n.overtaken = m.overtaken /\ n.deferred = <<>>
         /\ (Stacked(m) <=> Stacked(n)) /\ m.deferred \in Seq(Works)
<1>1. m \in Maps /\ <<>> \in Seq(Works)
  BY DEF IsMap, Shaped
<1>2. /\ n \in Maps /\ n.stack = m.stack /\ n.look = m.look
      /\ n.parsed = m.parsed /\ n.ready = m.ready /\ n.changed = m.changed
      /\ n.overtaken = m.overtaken /\ n.deferred = <<>> /\ m.deferred \in Seq(Works)
  BY <1>1 DEF Emptied, Maps
<1> QED
  BY <1>2, SameMap

LEMMA FinalIs ==
  ASSUME NEW m, IsMap(m), NEW n, n = RunDeferred(m)
  PROVE  /\ n = RunAll(Emptied(m), m.deferred) /\ Carried(Emptied(m), n) /\ IsMap(n)
         /\ n.deferred = <<>> /\ n.parsed = m.parsed /\ n.overtaken = m.overtaken
         /\ n.ready => m.ready
         /\ m.changed => n.changed
         /\ n.stack # m.stack => n.changed
         /\ On(n, LabelBlock) <=> On(m, LabelBlock)
         /\ StaysOn(m, n)
         /\ Stacked(m) => Stacked(n)
<1>1. n = RunAll(Emptied(m), m.deferred)
  BY DEF RunDeferred, Emptied
<1>2. /\ IsMap(Emptied(m)) /\ Emptied(m).stack = m.stack
      /\ Emptied(m).parsed = m.parsed /\ Emptied(m).ready = m.ready
      /\ Emptied(m).changed = m.changed /\ Emptied(m).overtaken = m.overtaken
      /\ Emptied(m).deferred = <<>>
      /\ (Stacked(m) <=> Stacked(Emptied(m))) /\ m.deferred \in Seq(Works)
  BY EmptiedIs
<1>3. Carried(Emptied(m), n) /\ IsMap(n)
  BY <1>1, <1>2, RunAllCarried
<1>4. \A l : On(Emptied(m), l) <=> On(m, l)
  BY <1>2 DEF On
<1> QED
  BY <1>1, <1>2, <1>3, <1>4 DEF Carried, StaysOn

(* What handing a work over keeps of a map *)
Handed(m, n) ==
  /\ IsMap(n) /\ n.parsed = m.parsed
  /\ m.overtaken => n.overtaken
  /\ n.ready => m.ready
  /\ m.changed => n.changed
  /\ n.stack # m.stack => n.changed
  /\ On(n, LabelBlock) <=> On(m, LabelBlock)
  /\ StaysOn(m, n)
  /\ Stacked(m) => Stacked(n)

AtOnce(m, w) == m.ready \/ (m.parsed /\ w.does \in AtParsed)
Jumps(m, w) == \E i \in DOMAIN m.deferred : m.deferred[i].layer = w.layer
Overtakes(m, w) ==
  [m EXCEPT !.overtaken = @ \/ \E i \in DOMAIN m.deferred : m.deferred[i].layer = w.layer]

LEMMA OvertakesIs ==
  ASSUME NEW m, IsMap(m), NEW w, NEW n, n = Overtakes(m, w)
  PROVE  /\ IsMap(n) /\ Alike(m, n) /\ n.stack = m.stack /\ n.look = m.look
         /\ n.parsed = m.parsed /\ n.ready = m.ready /\ n.changed = m.changed
         /\ n.deferred = m.deferred
         /\ n.overtaken <=> m.overtaken \/ Jumps(m, w)
         /\ (Stacked(m) <=> Stacked(n))
<1> DEFINE over == m.overtaken \/ \E i \in DOMAIN m.deferred : m.deferred[i].layer = w.layer
<1>1. m \in Maps /\ over \in BOOLEAN
  BY DEF IsMap, Shaped, Maps
<1>2. n = [m EXCEPT !.overtaken = over]
  BY DEF Overtakes
<1> HIDE DEF over
<1>3. /\ n \in Maps /\ n.stack = m.stack /\ n.look = m.look
      /\ n.parsed = m.parsed /\ n.ready = m.ready /\ n.changed = m.changed
      /\ n.deferred = m.deferred /\ n.overtaken = over
  BY <1>1, <1>2 DEF Maps
<1> QED
  BY <1>3, SameMap DEF over, Jumps

LEMMA HandIs ==
  ASSUME NEW m, IsMap(m), NEW w \in Works, NEW n, n = Hand(m, w)
  PROVE  /\ AtOnce(m, w) => n = Run(Overtakes(m, w), w)
         /\ ~AtOnce(m, w) => n = [m EXCEPT !.deferred = Append(@, w)]
BY DEF Hand, AtOnce, Overtakes

LEMMA HandKeeps ==
  ASSUME NEW m, IsMap(m), NEW w \in Works, NEW n, n = Hand(m, w)
  PROVE  /\ Handed(m, n)
         /\ AtOnce(m, w) => n.deferred = m.deferred
         /\ ~AtOnce(m, w) => /\ n.stack = m.stack /\ n.look = m.look /\ n.ready = m.ready
                             /\ n.changed = m.changed /\ n.overtaken = m.overtaken
                             /\ n.deferred = m.deferred \o <<w>>
                             /\ Emptied(n) = Emptied(m)
<1>1. CASE AtOnce(m, w)
  <2> DEFINE k == Overtakes(m, w)
  <2>1. /\ IsMap(k) /\ k.stack = m.stack /\ k.parsed = m.parsed /\ k.ready = m.ready
        /\ k.changed = m.changed /\ k.deferred = m.deferred /\ (m.overtaken => k.overtaken)
        /\ (Stacked(m) <=> Stacked(k))
    BY OvertakesIs
  <2>2. n = Run(k, w)
    BY <1>1, HandIs
  <2> HIDE DEF k
  <2>3. Carried(k, n)
    BY <2>1, <2>2, RunIs
  <2>4. \A l : On(k, l) <=> On(m, l)
    BY <2>1 DEF On
  <2> QED BY <1>1, <2>1, <2>3, <2>4 DEF Carried, Handed, StaysOn
<1>2. CASE ~AtOnce(m, w)
  <2>1. m \in Maps /\ m.deferred \in Seq(Works)
    BY DEF IsMap, Shaped, Maps
  <2>2. Append(m.deferred, w) \in Seq(Works) /\ Append(m.deferred, w) = m.deferred \o <<w>>
    <3>1. PICK q \in Seq(Works) : q = m.deferred
      BY <2>1
    <3>2. Append(q, w) \in Seq(Works) /\ Append(q, w) = q \o <<w>>
      OBVIOUS
    <3> QED BY <3>1, <3>2
  <2>3. n = [m EXCEPT !.deferred = Append(m.deferred, w)]
    BY <1>2, HandIs
  <2>4. /\ n \in Maps /\ n.stack = m.stack /\ n.look = m.look /\ n.ready = m.ready
        /\ n.changed = m.changed /\ n.overtaken = m.overtaken /\ n.parsed = m.parsed
        /\ n.deferred = m.deferred \o <<w>>
    BY <2>1, <2>2, <2>3 DEF Maps
  <2>5. Emptied(n) = Emptied(m)
    BY <2>1, <2>3 DEF Emptied, Maps
  <2>6. IsMap(n) /\ (Stacked(m) <=> Stacked(n)) /\ \A l : On(n, l) <=> On(m, l)
    BY <2>4, SameMap
  <2> QED BY <1>2, <2>4, <2>5, <2>6 DEF Handed, StaysOn
<1> QED
  BY <1>1, <1>2

LEMMA HandHands ==
  ASSUME NEW m, IsMap(m), NEW w \in Works, NEW n, n = Hand(m, w)
  PROVE  Handed(m, n)
BY HandKeeps

(* A work that waits *)
LEMMA HandStays ==
  ASSUME NEW m, IsMap(m), NEW x \in Works, ~AtOnce(m, x), NEW n, n = Hand(m, x)
  PROVE  /\ n.stack = m.stack /\ n.look = m.look /\ n.ready = m.ready
         /\ n.changed = m.changed /\ n.deferred = m.deferred \o <<x>>
BY HandKeeps

LEMMA HandedSelf ==
  ASSUME NEW m, IsMap(m) PROVE Handed(m, m)
BY DEF Handed, StaysOn

LEMMA HandedOn ==
  ASSUME NEW m, NEW k, NEW n, Handed(m, k), Handed(k, n)
  PROVE  Handed(m, n)
<1>1. StaysOn(m, n)
  BY DEF Handed, StaysOn
<1> QED
  BY <1>1 DEF Handed

LEMMA LinedOn ==
  ASSUME NEW m, NEW n, NEW q, Lined(m, q), On(m, "line") => On(n, "line")
  PROVE  Lined(n, q)
BY DEF Lined

LEMMA LinedMore ==
  ASSUME NEW m, NEW q \in Seq(Works), Lined(m, q), NEW w \in Works, Local(w) => On(m, "line")
  PROVE  Lined(m, q \o <<w>>)
<1>1. Len(q \o <<w>>) = Len(q) + 1 /\ Len(q) \in Nat
  OBVIOUS
<1>2. \A i \in 1..(Len(q) + 1) : (q \o <<w>>)[i] = IF i <= Len(q) THEN q[i] ELSE w
  OBVIOUS
<1>3. \A i \in 1..(Len(q) + 1) : i <= Len(q) => i \in 1..Len(q)
  BY <1>1
<1> QED
  BY <1>1, <1>2, <1>3 DEF Lined

(* Handed over, a work that overtakes none on its layer does in the end what  *)
(* it would have done had it run last.                                        *)
LEMMA HandFinal ==
  ASSUME NEW m, IsMap(m), NEW w \in Works, Lined(m, m.deferred), Local(w) => On(m, "line"),
         NEW n, n = Hand(m, w)
  PROVE  /\ Lined(n, n.deferred)
         /\ ~n.overtaken => Alike(RunDeferred(n), Run(RunDeferred(m), w))
<1> DEFINE q == m.deferred
           b == Emptied(m)
           x == Emptied(n)
<1>1. /\ Handed(m, n) /\ IsMap(n) /\ m.deferred \in Seq(Works)
      /\ On(m, "line") => On(n, "line")
  BY HandKeeps, EmptiedIs, LayerNames DEF Handed, StaysOn
<1>2. IsMap(b) /\ b.stack = m.stack /\ b.look = m.look /\ Alike(m, b) /\ q \in Seq(Works)
  BY EmptiedIs
<1>3. IsMap(x) /\ x.stack = n.stack /\ x.look = n.look /\ Alike(n, x)
  BY <1>1, EmptiedIs
<1>4. RunDeferred(m) = RunAll(b, q) /\ RunDeferred(n) = RunAll(x, n.deferred)
  BY <1>1, FinalIs
<1>5. On(b, "line") <=> On(m, "line")
  BY <1>2 DEF On
<1>6. On(x, "line") <=> On(n, "line")
  BY <1>3 DEF On
<1>7. Carried(b, RunAll(b, q)) /\ IsMap(RunAll(b, q)) /\ (On(b, "line") => On(RunAll(b, q), "line"))
  <2>1. Carried(b, RunAll(b, q)) /\ IsMap(RunAll(b, q))
    BY <1>2, RunAllCarried
  <2> QED BY <2>1, LayerNames DEF Carried, StaysOn
<1> HIDE DEF b, x, q
<1>8. CASE ~AtOnce(m, w)
  <2>1. n.deferred = q \o <<w>> /\ x = b /\ n.stack = m.stack
    BY <1>8, HandKeeps DEF q, b, x
  <2>2. RunDeferred(n) = RunAll(RunAll(b, q), <<w>>)
    <3>1. <<w>> \in Seq(Works)
      OBVIOUS
    <3> QED BY <1>2, <1>4, <2>1, <3>1, RunCat
  <2>3. RunDeferred(n) = Run(RunDeferred(m), w)
    BY <1>4, <1>7, <2>2, RunOne
  <2>4. IsMap(RunDeferred(n))
    BY <1>1, FinalIs
  <2>5. Lined(n, n.deferred)
    <3>1. Lined(m, q \o <<w>>)
      BY <1>2, LinedMore DEF q
    <3> QED BY <1>1, <2>1, <3>1, LinedOn
  <2> QED BY <2>3, <2>4, <2>5, CarriedSelf
<1>9. CASE AtOnce(m, w)
  <2> DEFINE k == Overtakes(m, w)
  <2>1. n = Run(k, w) /\ n.deferred = q
    BY <1>9, HandIs, HandKeeps DEF q
  <2>2. /\ IsMap(k) /\ Alike(m, k) /\ k.stack = m.stack
        /\ k.overtaken <=> m.overtaken \/ Jumps(m, w)
    BY OvertakesIs
  <2> HIDE DEF k
  <2>3. Carried(k, n) /\ Apart(k, n, w.layer)
    BY <2>1, <2>2, RunIs
  <2>4. Lined(n, n.deferred)
    BY <1>1, <2>1, LinedOn DEF q
  <2> SUFFICES ASSUME ~n.overtaken, NEW lane \in Lanes
               PROVE  Agree(RunDeferred(n), Run(RunDeferred(m), w), lane)
    BY <2>4 DEF Alike
  <2>5. \A i \in 1..Len(q) : q[i].layer # w.layer
    BY <1>2, <2>2, <2>3 DEF Carried, q, Jumps
  <2>6. Agree(n, x, lane) /\ Agree(m, b, lane) /\ Agree(m, k, lane)
    BY <1>2, <1>3, <2>2 DEF Alike
  <2>7. CASE lane = w.layer
    <3>1. Agree(x, RunDeferred(n), lane)
      BY <1>2, <1>3, <1>4, <2>1, <2>5, <2>7, RunAllApart
    <3>2. Agree(b, RunDeferred(m), lane)
      BY <1>2, <1>4, <2>5, <2>7, RunAllApart
    <3>3. Agree(k, RunDeferred(m), lane)
      BY <2>6, <3>2 DEF Agree
    <3>4. Local(w) => On(k, "line") /\ On(RunDeferred(m), "line")
      BY <1>4, <1>5, <1>7, <2>2 DEF On
    <3>5. Agree(n, Run(RunDeferred(m), w), lane)
      BY <1>4, <1>7, <2>1, <2>2, <2>7, <3>3, <3>4, RunAlike DEF Local
    <3> QED BY <2>6, <3>1, <3>5 DEF Agree
  <2>8. CASE lane # w.layer
    <3>1. Agree(k, n, lane)
      BY <2>3, <2>8 DEF Apart
    <3>2. Agree(x, b, lane)
      BY <2>6, <3>1 DEF Agree
    <3>3. Lined(x, q) /\ Lined(b, q)
      BY <1>1, <1>5, <1>6, LinedOn DEF q
    <3>4. Agree(RunDeferred(n), RunDeferred(m), lane)
      BY <1>2, <1>3, <1>4, <2>1, <3>2, <3>3, RunAllAlike
    <3>5. Apart(RunDeferred(m), Run(RunDeferred(m), w), w.layer)
      BY <1>4, <1>7, RunIs
    <3>6. Agree(RunDeferred(m), Run(RunDeferred(m), w), lane)
      BY <2>8, <3>5 DEF Apart
    <3> QED BY <3>4, <3>6, Agrees
  <2> QED BY <2>7, <2>8
<1> QED
  BY <1>8, <1>9

(* The maps handing works over leaves, one after the other *)
HandTrace(f, m, q) ==
  /\ f \in [0..Len(q) -> GoodMaps] /\ f[0] = m
  /\ \A i \in 1..Len(q) : f[i] = Hand(f[i - 1], q[i])

LEMMA HandAllIs ==
  ASSUME NEW m, IsMap(m), NEW q \in Seq(Works)
  PROVE  /\ \E f : HandTrace(f, m, q)
         /\ \A f : HandTrace(f, m, q) => HandAll(m, q) = f[Len(q)]
<1> DEFINE step == [p \in GoodMaps \X Works |-> Hand(p[1], p[2])]
           IsIt(f) == f = [i \in 0..Len(q) |->
                             IF i = 0 THEN m ELSE The({Hand(n, q[i]) : n \in {f[i - 1]}})]
           F == CHOOSE f : IsIt(f)
<1>1. Len(q) \in Nat /\ m \in GoodMaps /\ \A i \in 1..Len(q) : q[i] \in Works
  BY GoodMap
<1>2. \A n \in GoodMaps, w \in Works : Hand(n, w) \in GoodMaps
  BY HandKeeps, GoodMap DEF Handed
<1>3. step \in [GoodMaps \X Works -> GoodMaps]
  BY <1>2
<1>4. \A n \in GoodMaps, w \in Works : step[<<n, w>>] = Hand(n, w)
  OBVIOUS
<1> HIDE DEF step
<1>5. PICK f : Steps(f, GoodMaps, m, q, step)
  <2>1. m \in GoodMaps /\ q \in Seq(Works)
    BY <1>1
  <2> QED BY ONLY <1>3, <2>1, Traced
<1>6. HandTrace(f, m, q)
  <2>1. ASSUME NEW i \in 1..Len(q) PROVE f[i] = Hand(f[i - 1], q[i])
    <3>1. i - 1 \in 0..Len(q)
      BY <1>1
    <3> QED BY <1>1, <1>4, <1>5, <3>1 DEF Steps
  <2> QED BY <1>5, <2>1 DEF HandTrace, Steps
<1>7. \A n, w : The({Hand(k, w) : k \in {n}}) = Hand(n, w)
  BY DEF The
<1>8. \A g : HandTrace(g, m, q) => IsIt(g)
  <2> SUFFICES ASSUME NEW g, HandTrace(g, m, q) PROVE IsIt(g)
    OBVIOUS
  <2>1. g \in [0..Len(q) -> GoodMaps] /\ g[0] = m
    BY DEF HandTrace
  <2>2. ASSUME NEW i \in 0..Len(q)
        PROVE  g[i] = IF i = 0 THEN m ELSE The({Hand(n, q[i]) : n \in {g[i - 1]}})
    <3>1. CASE i = 0
      BY <2>1, <3>1
    <3>2. CASE i # 0
      <4>1. i \in 1..Len(q)
        BY <1>1, <3>2
      <4>2. g[i] = Hand(g[i - 1], q[i])
        BY <4>1 DEF HandTrace
      <4> QED BY <1>7, <3>2, <4>2
    <3> QED BY <3>1, <3>2
  <2> QED BY <2>1, <2>2
<1>9. IsIt(F)
  BY <1>6, <1>8
<1>10. HandAll(m, q) = F[Len(q)]
  BY DEF HandAll
<1> HIDE DEF F
<1>11. F[0] = m /\ \A i \in 1..Len(q) : F[i] = Hand(F[i - 1], q[i])
  <2> DEFINE G == F
  <2> HIDE DEF G
  <2>1. F = [i \in 0..Len(q) |-> IF i = 0 THEN m ELSE The({Hand(n, q[i]) : n \in {G[i - 1]}})]
    BY <1>9 DEF G
  <2>2. F[0] = m
    BY <1>1, <2>1
  <2>3. ASSUME NEW i \in 1..Len(q) PROVE F[i] = Hand(G[i - 1], q[i])
    <3>1. i \in 0..Len(q) /\ i # 0
      BY <1>1
    <3>2. F[i] = The({Hand(n, q[i]) : n \in {G[i - 1]}})
      BY <2>1, <3>1
    <3> QED BY <1>7, <3>2
  <2> QED BY <2>2, <2>3 DEF G
<1>12. ASSUME NEW g, HandTrace(g, m, q) PROVE HandAll(m, q) = g[Len(q)]
  <2>1. g[0] = m /\ \A i \in 1..Len(q) : g[i] = Hand(g[i - 1], q[i])
    BY <1>12 DEF HandTrace
  <2>2. \A i \in 1..Len(q) : F[i - 1] = g[i - 1] => F[i] = g[i]
    BY <1>11, <2>1
  <2>3. \A i \in 0..Len(q) : F[i] = g[i]
    <3>1. F[0] = g[0] /\ Len(q) \in Nat
      BY <1>1, <1>11, <2>1
    <3> QED BY ONLY <2>2, <3>1, OneTrace
  <2> QED BY <1>1, <1>10, <2>3
<1> QED
  BY <1>6, <1>12

LEMMA HandTraceKeeps ==
  ASSUME NEW m, IsMap(m), NEW q \in Seq(Works), NEW f, HandTrace(f, m, q)
  PROVE  \A i \in 0..Len(q) : Handed(m, f[i])
<1> DEFINE T == {i \in 0..Len(q) : Handed(m, f[i])}
<1>1. Len(q) \in Nat /\ f[0] = m /\ \A i \in 1..Len(q) : q[i] \in Works
  BY DEF HandTrace
<1>2. 0 \in T
  BY <1>1, HandedSelf
<1>3. ASSUME NEW i \in 1..Len(q), i - 1 \in T PROVE i \in T
  <2>1. Handed(m, f[i - 1]) /\ f[i] = Hand(f[i - 1], q[i]) /\ q[i] \in Works
    BY <1>1, <1>3 DEF HandTrace
  <2>2. IsMap(f[i - 1])
    BY <2>1 DEF Handed
  <2>3. Handed(f[i - 1], f[i])
    BY <2>1, <2>2, HandKeeps
  <2>4. Handed(m, f[i])
    BY <2>1, <2>3, HandedOn
  <2> QED BY <1>1, <2>4
<1> HIDE DEF T
<1>4. \A i \in 0..Len(q) : i \in T
  BY <1>1, <1>2, <1>3, Along
<1> QED
  BY <1>4 DEF T

LEMMA HandAllKeeps ==
  ASSUME NEW m, IsMap(m), NEW q \in Seq(Works)
  PROVE  Handed(m, HandAll(m, q)) /\ IsMap(HandAll(m, q))
<1>1. PICK f : HandTrace(f, m, q)
  BY HandAllIs
<1>2. HandAll(m, q) = f[Len(q)] /\ Len(q) \in 0..Len(q)
  BY <1>1, HandAllIs
<1>3. Handed(m, HandAll(m, q))
  BY <1>1, <1>2, HandTraceKeeps
<1> QED
  BY <1>3 DEF Handed

(* Handing s over and then t *)
LEMMA HandCat ==
  ASSUME NEW m, IsMap(m), NEW s \in Seq(Works), NEW t \in Seq(Works)
  PROVE  HandAll(m, s \o t) = HandAll(HandAll(m, s), t)
<1>1. /\ Len(s) \in Nat /\ Len(t) \in Nat /\ s \o t \in Seq(Works)
      /\ Len(s \o t) = Len(s) + Len(t)
      /\ \A i \in 1..(Len(s) + Len(t)) : (s \o t)[i] = IF i <= Len(s) THEN s[i] ELSE t[i - Len(s)]
  <2>1. /\ s \o t \in Seq(Works) /\ Len(s \o t) = Len(s) + Len(t)
        /\ \A i \in 1..(Len(s) + Len(t)) : (s \o t)[i] = IF i <= Len(s) THEN s[i] ELSE t[i - Len(s)]
    BY ConcatProperties
  <2> QED BY <2>1
<1>2. PICK f : HandTrace(f, m, s)
  BY HandAllIs
<1>3. HandAll(m, s) = f[Len(s)] /\ IsMap(HandAll(m, s))
  BY <1>2, HandAllIs, HandAllKeeps
<1>4. PICK g : HandTrace(g, HandAll(m, s), t)
  BY <1>3, HandAllIs
<1>5. HandAll(HandAll(m, s), t) = g[Len(t)]
  BY <1>3, <1>4, HandAllIs
<1>6. /\ f \in [0..Len(s) -> GoodMaps] /\ f[0] = m
      /\ \A i \in 1..Len(s) : f[i] = Hand(f[i - 1], s[i])
      /\ g \in [0..Len(t) -> GoodMaps] /\ g[0] = f[Len(s)]
      /\ \A i \in 1..Len(t) : g[i] = Hand(g[i - 1], t[i])
  BY <1>2, <1>3, <1>4 DEF HandTrace
<1> DEFINE h == [i \in 0..(Len(s) + Len(t)) |-> IF i <= Len(s) THEN f[i] ELSE g[i - Len(s)]]
<1>7. \A i \in 0..(Len(s) + Len(t)) :
        /\ i <= Len(s) => h[i] = f[i] /\ h[i] \in GoodMaps
        /\ i >= Len(s) => h[i] = g[i - Len(s)] /\ h[i] \in GoodMaps
  <2> TAKE i \in 0..(Len(s) + Len(t))
  <2>1. CASE i < Len(s)
    <3>1. i \in 0..Len(s) /\ i <= Len(s) /\ ~(i >= Len(s))
      BY <1>1, <2>1
    <3>2. h[i] = f[i]
      BY <3>1
    <3>3. f[i] \in GoodMaps
      BY <1>6, <3>1
    <3> QED BY <3>1, <3>2, <3>3
  <2>2. CASE i = Len(s)
    <3>1. i - Len(s) = 0 /\ i \in 0..Len(s) /\ 0 \in 0..Len(t) /\ i <= Len(s)
      BY <1>1, <2>2
    <3>2. h[i] = f[i]
      BY <3>1
    <3>3. f[i] = g[0]
      BY <1>6, <2>2
    <3> QED BY <1>6, <3>1, <3>2, <3>3
  <2>3. CASE i > Len(s)
    <3>1. i - Len(s) \in 0..Len(t) /\ ~(i <= Len(s))
      BY <1>1, <2>3
    <3> QED BY <1>6, <3>1
  <2> QED BY <1>1, <2>1, <2>2, <2>3
<1>8. h \in [0..(Len(s) + Len(t)) -> GoodMaps]
  BY <1>1, <1>7
<1> HIDE DEF h
<1>9. ASSUME NEW i \in 1..(Len(s) + Len(t)) PROVE h[i] = Hand(h[i - 1], (s \o t)[i])
  <2>0. i \in 0..(Len(s) + Len(t)) /\ i - 1 \in 0..(Len(s) + Len(t))
    BY <1>1
  <2>1. CASE i <= Len(s)
    <3>1. i \in 1..Len(s) /\ i - 1 <= Len(s)
      BY <1>1, <2>1
    <3> QED BY <1>1, <1>6, <1>7, <2>0, <2>1, <3>1
  <2>2. CASE i > Len(s)
    <3>1. /\ i - Len(s) \in 1..Len(t) /\ i - 1 >= Len(s) /\ i >= Len(s) /\ ~(i <= Len(s))
          /\ (i - Len(s)) - 1 = (i - 1) - Len(s)
      BY <1>1, <2>2
    <3>2. h[i] = g[i - Len(s)] /\ h[i - 1] = g[(i - 1) - Len(s)]
      BY <1>7, <2>0, <3>1
    <3>3. (s \o t)[i] = t[i - Len(s)]
      BY <1>1, <3>1
    <3>4. g[i - Len(s)] = Hand(g[(i - Len(s)) - 1], t[i - Len(s)])
      BY <1>6, <3>1
    <3> QED BY <3>1, <3>2, <3>3, <3>4
  <2> QED BY <1>1, <2>1, <2>2
<1>10. HandTrace(h, m, s \o t)
  <2>1. h[0] = m
    BY <1>1, <1>6, <1>7
  <2>2. \A i \in 1..Len(s \o t) : h[i] = Hand(h[i - 1], (s \o t)[i])
    BY <1>1, <1>9
  <2> QED BY <1>1, <1>8, <2>1, <2>2 DEF HandTrace
<1>11. HandAll(m, s \o t) = h[Len(s) + Len(t)]
  BY <1>1, <1>10, HandAllIs
<1>12. h[Len(s) + Len(t)] = g[Len(t)]
  <2>1. /\ Len(s) + Len(t) \in 0..(Len(s) + Len(t)) /\ Len(s) + Len(t) >= Len(s)
        /\ (Len(s) + Len(t)) - Len(s) = Len(t)
    BY <1>1
  <2> QED BY <1>7, <2>1
<1> QED
  BY <1>5, <1>11, <1>12

LEMMA HandOne ==
  ASSUME NEW m, IsMap(m), NEW w \in Works
  PROVE  HandAll(m, <<w>>) = Hand(m, w)
<1>1. <<w>> \in Seq(Works) /\ Len(<<w>>) = 1 /\ <<w>>[1] = w
  OBVIOUS
<1>2. PICK f : HandTrace(f, m, <<w>>)
  BY <1>1, HandAllIs
<1>3. f[0] = m /\ f[1] = Hand(f[0], w)
  <2>1. 1 \in 1..1 /\ 1 - 1 = 0
    OBVIOUS
  <2>2. f[0] = m /\ \A i \in 1..1 : f[i] = Hand(f[i - 1], <<w>>[i])
    BY <1>1, <1>2 DEF HandTrace
  <2> QED BY <1>1, <2>1, <2>2
<1> QED
  BY <1>1, <1>2, <1>3, HandAllIs

LEMMA RunAlikeAll ==
  ASSUME NEW w \in Works, NEW m, IsMap(m), NEW k, IsMap(k), Alike(m, k),
         Local(w) => On(m, "line") /\ On(k, "line")
  PROVE  Alike(Run(m, w), Run(k, w))
<1> SUFFICES ASSUME NEW lane \in Lanes PROVE Agree(Run(m, w), Run(k, w), lane)
  BY DEF Alike
<1>1. Agree(m, k, lane)
  BY DEF Alike
<1>2. CASE lane = w.layer
  BY <1>1, <1>2, RunAlike DEF Local
<1>3. CASE lane # w.layer
  <2>1. Apart(m, Run(m, w), w.layer) /\ Apart(k, Run(k, w), w.layer)
    BY RunIs
  <2>2. Agree(m, Run(m, w), lane) /\ Agree(k, Run(k, w), lane)
    BY <1>3, <2>1 DEF Apart
  <2> QED BY <1>1, <2>2 DEF Agree
<1> QED
  BY <1>2, <1>3

(* Works handed over one after the other do in the end what they would have   *)
(* done one after the other, unless one overtook another of its layer.        *)
LEMMA HandAllFinal ==
  ASSUME NEW m, IsMap(m), NEW q \in Seq(Works), Lined(m, m.deferred), Lined(m, q),
         NEW n, n = HandAll(m, q)
  PROVE  /\ Lined(n, n.deferred)
         /\ ~n.overtaken => Alike(RunDeferred(n), RunAll(RunDeferred(m), q))
<1>1. PICK f : HandTrace(f, m, q)
  BY HandAllIs
<1>2. n = f[Len(q)] /\ Len(q) \in 0..Len(q) /\ Len(q) \in Nat
  BY <1>1, HandAllIs
<1>3. IsMap(RunDeferred(m)) /\ StaysOn(m, RunDeferred(m))
  BY FinalIs
<1>4. PICK g : RunTrace(g, RunDeferred(m), q)
  BY <1>3, RunAllIs
<1>5. RunAll(RunDeferred(m), q) = g[Len(q)]
  BY <1>3, <1>4, RunAllIs
<1> DEFINE Good(i) == /\ Lined(f[i], f[i].deferred)
                      /\ ~f[i].overtaken => Alike(RunDeferred(f[i]), g[i])
           T == {i \in 0..Len(q) : Good(i)}
<1>6. 0 \in T
  <2>1. f[0] = m /\ g[0] = RunDeferred(m)
    BY <1>1, <1>4 DEF HandTrace, RunTrace
  <2> QED BY <1>2, <1>3, <2>1, CarriedSelf
<1>7. ASSUME NEW i \in 1..Len(q), i - 1 \in T PROVE i \in T
  <2>1. /\ q[i] \in Works /\ f[i] = Hand(f[i - 1], q[i]) /\ g[i] = Run(g[i - 1], q[i])
        /\ Good(i - 1)
    BY <1>1, <1>4, <1>7 DEF HandTrace, RunTrace
  <2>2. Handed(m, f[i - 1]) /\ Carried(RunDeferred(m), g[i - 1])
    <3>1. i - 1 \in 0..Len(q)
      BY <1>2
    <3> QED BY <1>1, <1>3, <1>4, <3>1, HandTraceKeeps, TraceCarries
  <2>3. IsMap(f[i - 1]) /\ IsMap(g[i - 1])
    BY <2>2 DEF Handed, Carried
  <2>4. Local(q[i]) => On(f[i - 1], "line") /\ On(g[i - 1], "line")
    BY <1>3, <2>2, LayerNames DEF Lined, Handed, Carried, StaysOn
  <2> HIDE DEF T
  <2>5. /\ Lined(f[i], f[i].deferred)
        /\ ~f[i].overtaken => Alike(RunDeferred(f[i]), Run(RunDeferred(f[i - 1]), q[i]))
    BY <2>1, <2>3, <2>4, HandFinal
  <2>6. ASSUME ~f[i].overtaken PROVE Alike(RunDeferred(f[i]), g[i])
    <3>1. Handed(f[i - 1], f[i])
      BY <2>1, <2>3, HandKeeps
    <3>2. Alike(RunDeferred(f[i - 1]), g[i - 1])
      BY <2>1, <2>6, <3>1 DEF Handed
    <3>3. IsMap(RunDeferred(f[i - 1])) /\ StaysOn(f[i - 1], RunDeferred(f[i - 1]))
      BY <2>3, FinalIs
    <3>4. Local(q[i]) => On(RunDeferred(f[i - 1]), "line")
      BY <2>4, <3>3, LayerNames DEF StaysOn
    <3>5. Alike(Run(RunDeferred(f[i - 1]), q[i]), Run(g[i - 1], q[i]))
      BY <2>1, <2>3, <2>4, <3>2, <3>3, <3>4, RunAlikeAll
    <3> QED BY <2>1, <2>5, <2>6, <3>5, AlikeOn
  <2> QED BY <1>2, <2>5, <2>6 DEF T
<1> HIDE DEF T
<1>8. \A i \in 0..Len(q) : i \in T
  BY <1>2, <1>6, <1>7, Along
<1> QED
  BY <1>2, <1>5, <1>8 DEF T

-----------------------------------------------------------------------------
(* What running each work does                                             *)

LEMMA RunDrawn ==
  ASSUME NEW m, IsMap(m), NEW w \in Works, NEW n, n = Run(m, w), NEW k, k = Worked(m, w)
  PROVE  /\ IsMap(n) /\ n.stack = k.stack /\ n.look = k.look
         /\ \A S : Adds(m, k, S) => Adds(m, n, S)
         /\ \A l : Drops(m, k, l) => Drops(m, n, l)
         /\ \A l, t : RidesOn(m, k, l, t) => RidesOn(m, n, l, t)
         /\ \A S : LookKept(m, k, S) => LookKept(m, n, S)
<1>1. IsMap(n) /\ IsMap(k)
  BY RunIs, WorkedMoves DEF Carried, Moves
<1>2. n = Touched(m, k) /\ k \in Maps
  BY <1>1, RunTouches DEF IsMap, Shaped
<1>3. n.stack = k.stack /\ n.look = k.look
  BY <1>2 DEF Touched, Maps
<1>4. \A l : On(n, l) <=> On(k, l)
  BY <1>3 DEF On
<1> QED
  BY <1>1, <1>3, <1>4 DEF Adds, Drops, RidesOn, LookKept

LEMMA RunWms ==
  ASSUME NEW m, IsMap(m), NEW w \in Works, w.layer = "wms", NEW n, n = Run(m, w)
  PROVE  /\ IsMap(n)
         /\ w.does = "show" =>
              /\ Adds(m, n, {"raster"})
              /\ n.look["outline"] = m.look["outline"]
              /\ LookIs(n.look["raster"], TRUE, w.to,
                        IF On(m, "raster") THEN m.look["raster"].from ELSE WMS_MIN_ZOOM,
                             m.look["raster"].of)
         /\ w.does = "showline" =>
              /\ Adds(m, n, {"outline"})
              /\ n.look["raster"] = m.look["raster"]
              /\ LookIs(n.look["outline"], TRUE, m.look["outline"].paint,
                        IF On(m, "outline") THEN m.look["outline"].from ELSE WMS_MIN_ZOOM,
                             m.look["outline"].of)
         /\ w.does = "hide" =>
              /\ Adds(m, n, {})
              /\ n.look["outline"] = m.look["outline"]
              /\ LookIs(n.look["raster"], FALSE, m.look["raster"].paint, m.look["raster"].from,
                        m.look["raster"].of)
         /\ w.does = "hideline" =>
              /\ Adds(m, n, {})
              /\ n.look["raster"] = m.look["raster"]
              /\ LookIs(n.look["outline"], FALSE, m.look["outline"].paint, m.look["outline"].from,
                        m.look["outline"].of)
         /\ w.does = "fade" =>
              /\ Adds(m, n, {})
              /\ n.look["outline"] = m.look["outline"]
              /\ LookIs(n.look["raster"], m.look["raster"].visible,
                        IF On(m, "raster") THEN w.to ELSE m.look["raster"].paint,
                             m.look["raster"].from, m.look["raster"].of)
         /\ w.does = "minzoom" =>
              /\ Adds(m, n, {})
              /\ n.look["outline"] = m.look["outline"]
              /\ LookIs(n.look["raster"], m.look["raster"].visible, m.look["raster"].paint,
                        IF On(m, "raster") THEN w.to ELSE m.look["raster"].from,
                             m.look["raster"].of)
         /\ w.does = "maxzoom" =>
              /\ Adds(m, n, {})
              /\ n.look["raster"] = m.look["raster"]
              /\ LookIs(n.look["outline"], m.look["outline"].visible, m.look["outline"].paint,
                        IF On(m, "outline") THEN w.to ELSE m.look["outline"].from,
                             m.look["outline"].of)
<1> DEFINE k == Worked(m, w)
<1>1. IsMap(n) /\ n.look = k.look
  BY RunDrawn
<1>2. /\ \A S : Adds(m, k, S) => Adds(m, n, S)
      /\ \A l : Drops(m, k, l) => Drops(m, n, l)
      /\ \A l, t : RidesOn(m, k, l, t) => RidesOn(m, n, l, t)
      /\ \A S : LookKept(m, k, S) => LookKept(m, n, S)
  BY RunDrawn
<1>3. CASE w.does = "show"
  <2>1. k = ShowWms(m, w.to) /\ w.to \in Values
    BY <1>3, WorkedWms, WorksAre DEF k
  <2> HIDE DEF k
  <2>2. /\ Moves(m, k, "wms")
        /\ Adds(m, k, {"raster"})
        /\ k.look["outline"] = m.look["outline"]
        /\ LookIs(k.look["raster"], TRUE, w.to,
                  IF On(m, "raster") THEN m.look["raster"].from ELSE WMS_MIN_ZOOM,
                       m.look["raster"].of)
    BY <2>1, ShowWmsIs
  <2> QED BY <1>1, <1>2, <1>3, <2>2
<1>4. CASE w.does = "showline"
  <2>1. k = ShowOutline(m)
    BY <1>4, WorkedWms, WorksAre DEF k
  <2> HIDE DEF k
  <2>2. /\ Moves(m, k, "wms")
        /\ Adds(m, k, {"outline"})
        /\ k.look["raster"] = m.look["raster"]
        /\ LookIs(k.look["outline"], TRUE, m.look["outline"].paint,
                  IF On(m, "outline") THEN m.look["outline"].from ELSE WMS_MIN_ZOOM,
                       m.look["outline"].of)
    BY <2>1, ShowOutlineIs
  <2> QED BY <1>1, <1>2, <1>4, <2>2
<1>5. CASE w.does = "hide"
  <2>1. k = HideWms(m)
    BY <1>5, WorkedWms, WorksAre DEF k
  <2> HIDE DEF k
  <2>2. /\ Moves(m, k, "wms")
        /\ Adds(m, k, {})
        /\ k.look["outline"] = m.look["outline"]
        /\ LookIs(k.look["raster"], FALSE, m.look["raster"].paint, m.look["raster"].from,
                  m.look["raster"].of)
    BY <2>1, HideWmsIs
  <2> QED BY <1>1, <1>2, <1>5, <2>2
<1>6. CASE w.does = "hideline"
  <2>1. k = HideOutline(m)
    BY <1>6, WorkedWms, WorksAre DEF k
  <2> HIDE DEF k
  <2>2. /\ Moves(m, k, "wms")
        /\ Adds(m, k, {})
        /\ k.look["raster"] = m.look["raster"]
        /\ LookIs(k.look["outline"], FALSE, m.look["outline"].paint, m.look["outline"].from,
                  m.look["outline"].of)
    BY <2>1, HideOutlineIs
  <2> QED BY <1>1, <1>2, <1>6, <2>2
<1>7. CASE w.does = "fade"
  <2>1. k = SetOpacity(m, w.to) /\ w.to \in Values
    BY <1>7, WorkedWms, WorksAre DEF k
  <2> HIDE DEF k
  <2>2. /\ Moves(m, k, "wms")
        /\ Adds(m, k, {})
        /\ k.look["outline"] = m.look["outline"]
        /\ LookIs(k.look["raster"], m.look["raster"].visible,
                  IF On(m, "raster") THEN w.to ELSE m.look["raster"].paint, m.look["raster"].from,
                       m.look["raster"].of)
    BY <2>1, SetOpacityIs
  <2> QED BY <1>1, <1>2, <1>7, <2>2
<1>8. CASE w.does = "minzoom"
  <2>1. k = SetMinZoom(m, w.to) /\ w.to \in Values
    BY <1>8, WorkedWms, WorksAre DEF k
  <2> HIDE DEF k
  <2>2. /\ Moves(m, k, "wms")
        /\ Adds(m, k, {})
        /\ k.look["outline"] = m.look["outline"]
        /\ LookIs(k.look["raster"], m.look["raster"].visible, m.look["raster"].paint,
                  IF On(m, "raster") THEN w.to ELSE m.look["raster"].from, m.look["raster"].of)
    BY <2>1, SetMinZoomIs
  <2> QED BY <1>1, <1>2, <1>8, <2>2
<1>9. CASE w.does = "maxzoom"
  <2>1. k = SetMaxZoom(m, w.to) /\ w.to \in Values
    BY <1>9, WorkedWms, WorksAre DEF k
  <2> HIDE DEF k
  <2>2. /\ Moves(m, k, "wms")
        /\ Adds(m, k, {})
        /\ k.look["raster"] = m.look["raster"]
        /\ LookIs(k.look["outline"], m.look["outline"].visible, m.look["outline"].paint,
                  IF On(m, "outline") THEN w.to ELSE m.look["outline"].from, m.look["outline"].of)
    BY <2>1, SetMaxZoomIs
  <2> QED BY <1>1, <1>2, <1>9, <2>2
<1> QED
  BY <1>1, <1>3, <1>4, <1>5, <1>6, <1>7, <1>8, <1>9, WorksAre

LEMMA RunPip ==
  ASSUME NEW m, IsMap(m), NEW w \in Works, w.layer = "pip", NEW n, n = Run(m, w)
  PROVE  /\ IsMap(n)
         /\ w.does = "showHosted" =>
              /\ Adds(m, n, {"hit", "line"})
              /\ LookIs(n.look["hit"], TRUE, m.look["hit"].paint,
                        IF On(m, "hit") THEN m.look["hit"].from ELSE PipFloor, m.look["hit"].of)
              /\ LookIs(n.look["line"], TRUE, m.look["line"].paint,
                        IF On(m, "line") THEN m.look["line"].from ELSE PipFloor, m.look["line"].of)
         /\ w.does = "hideHosted" =>
              /\ Adds(m, n, {})
              /\ LookIs(n.look["hit"], FALSE, m.look["hit"].paint, m.look["hit"].from,
                        m.look["hit"].of)
              /\ LookIs(n.look["line"], FALSE, m.look["line"].paint, m.look["line"].from,
                        m.look["line"].of)
         /\ w.does = "width" =>
              /\ Adds(m, n, {})
              /\ n.look["hit"] = m.look["hit"]
              /\ LookIs(n.look["line"], m.look["line"].visible,
                        IF On(m, "line") THEN w.to ELSE m.look["line"].paint, m.look["line"].from,
                             m.look["line"].of)
<1> DEFINE k == Worked(m, w)
<1>1. IsMap(n) /\ n.look = k.look
  BY RunDrawn
<1>2. /\ \A S : Adds(m, k, S) => Adds(m, n, S)
      /\ \A l : Drops(m, k, l) => Drops(m, n, l)
      /\ \A l, t : RidesOn(m, k, l, t) => RidesOn(m, n, l, t)
      /\ \A S : LookKept(m, k, S) => LookKept(m, n, S)
  BY RunDrawn
<1>3. CASE w.does = "showHosted"
  <2>1. k = ShowHosted(m, Pip)
    BY <1>3, WorkedHosted, WorksAre DEF k
  <2> HIDE DEF k
  <2>2. /\ Moves(m, k, "pip")
        /\ Adds(m, k, {"hit", "line"})
        /\ LookIs(k.look["hit"], TRUE, m.look["hit"].paint,
                  IF On(m, "hit") THEN m.look["hit"].from ELSE PipFloor, m.look["hit"].of)
        /\ LookIs(k.look["line"], TRUE, m.look["line"].paint,
                  IF On(m, "line") THEN m.look["line"].from ELSE PipFloor, m.look["line"].of)
    BY <2>1, ShowPipIs
  <2> QED BY <1>1, <1>2, <1>3, <2>2
<1>4. CASE w.does = "hideHosted"
  <2>1. k = HideHosted(m, Pip)
    BY <1>4, WorkedHosted, WorksAre DEF k
  <2> HIDE DEF k
  <2>2. /\ Moves(m, k, "pip")
        /\ Adds(m, k, {})
        /\ LookIs(k.look["hit"], FALSE, m.look["hit"].paint, m.look["hit"].from, m.look["hit"].of)
        /\ LookIs(k.look["line"], FALSE, m.look["line"].paint, m.look["line"].from,
                  m.look["line"].of)
    BY <2>1, HideHostedIs
  <2> QED BY <1>1, <1>2, <1>4, <2>2
<1>5. CASE w.does = "width"
  <2>1. k = SetLineWidth(m, w.to) /\ w.to \in Values
    BY <1>5, WorkedHosted, WorksAre DEF k
  <2> HIDE DEF k
  <2>2. /\ Moves(m, k, "pip")
        /\ Adds(m, k, {})
        /\ k.look["hit"] = m.look["hit"]
        /\ LookIs(k.look["line"], m.look["line"].visible,
                  IF On(m, "line") THEN w.to ELSE m.look["line"].paint, m.look["line"].from,
                       m.look["line"].of)
    BY <2>1, SetLineWidthIs
  <2> QED BY <1>1, <1>2, <1>5, <2>2
<1> QED
  BY <1>1, <1>3, <1>4, <1>5, WorksAre

LEMMA RunEao ==
  ASSUME NEW m, IsMap(m), NEW w \in Works, w.layer = "eao", NEW n, n = Run(m, w)
  PROVE  /\ IsMap(n)
         /\ w.does = "showHosted" =>
              /\ Adds(m, n, {"footprint", "component"})
              /\ n.look["picked"] = m.look["picked"]
              /\ n.look["selected"] = m.look["selected"]
              /\ LookIs(n.look["footprint"], TRUE, m.look["footprint"].paint,
                        IF On(m, "footprint") THEN m.look["footprint"].from ELSE MIN_ZOOM,
                             m.look["footprint"].of)
              /\ LookIs(n.look["component"], TRUE, m.look["component"].paint,
                        IF On(m, "component") THEN m.look["component"].from ELSE MIN_ZOOM,
                             m.look["component"].of)
         /\ w.does = "filter" =>
              /\ Adds(m, n, {})
              /\ n.look["picked"] = m.look["picked"]
              /\ n.look["selected"] = m.look["selected"]
              /\ LookIs(n.look["footprint"], m.look["footprint"].visible, m.look["footprint"].paint,
                        m.look["footprint"].from,
                             IF On(m, "footprint") THEN w.to["footprint"] ELSE {})
              /\ LookIs(n.look["component"], m.look["component"].visible, m.look["component"].paint,
                        m.look["component"].from,
                             IF On(m, "component") THEN w.to["component"] ELSE {})
         /\ w.does = "pick" =>
              /\ RidesOn(m, n, "picked", "component")
              /\ LookKept(m, n, {"picked"})
              /\ On(m, "component") => LookIs(n.look["picked"], TRUE, 0, 0, w.to)
              /\ ~On(m, "component") => n.look["picked"] = Absent
         /\ w.does = "unpick" =>
              /\ Drops(m, n, "picked")
              /\ n.look["picked"] = Absent
              /\ LookKept(m, n, {"picked"})
         /\ w.does = "select" =>
              /\ RidesOn(m, n, "selected", "component")
              /\ LookKept(m, n, {"selected"})
              /\ On(m, "component") => LookIs(n.look["selected"], TRUE, 0, 0, w.to)
              /\ ~On(m, "component") => n.look["selected"] = Absent
         /\ w.does = "unselect" =>
              /\ Drops(m, n, "selected")
              /\ n.look["selected"] = Absent
              /\ LookKept(m, n, {"selected"})
<1> DEFINE k == Worked(m, w)
<1>1. IsMap(n) /\ n.look = k.look
  BY RunDrawn
<1>2. /\ \A S : Adds(m, k, S) => Adds(m, n, S)
      /\ \A l : Drops(m, k, l) => Drops(m, n, l)
      /\ \A l, t : RidesOn(m, k, l, t) => RidesOn(m, n, l, t)
      /\ \A S : LookKept(m, k, S) => LookKept(m, n, S)
  BY RunDrawn
<1>3. CASE w.does = "showHosted"
  <2>1. k = ShowHosted(m, Eao)
    BY <1>3, WorkedHosted, WorksAre DEF k
  <2> HIDE DEF k
  <2>2. /\ Moves(m, k, "eao")
        /\ Adds(m, k, {"footprint", "component"})
        /\ k.look["picked"] = m.look["picked"]
        /\ k.look["selected"] = m.look["selected"]
        /\ LookIs(k.look["footprint"], TRUE, m.look["footprint"].paint,
                  IF On(m, "footprint") THEN m.look["footprint"].from ELSE MIN_ZOOM,
                       m.look["footprint"].of)
        /\ LookIs(k.look["component"], TRUE, m.look["component"].paint,
                  IF On(m, "component") THEN m.look["component"].from ELSE MIN_ZOOM,
                       m.look["component"].of)
    BY <2>1, ShowEaoIs
  <2> QED BY <1>1, <1>2, <1>3, <2>2
<1>4. CASE w.does = "filter"
  <2>1. k = SetFilters(m, w.to) /\ w.to \in [{"footprint", "component"} -> Values]
    BY <1>4, WorkedHosted, WorksAre DEF k
  <2> HIDE DEF k
  <2>2. /\ Moves(m, k, "eao")
        /\ Adds(m, k, {})
        /\ k.look["picked"] = m.look["picked"]
        /\ k.look["selected"] = m.look["selected"]
        /\ LookIs(k.look["footprint"], m.look["footprint"].visible, m.look["footprint"].paint,
                  m.look["footprint"].from, IF On(m, "footprint") THEN w.to["footprint"] ELSE {})
        /\ LookIs(k.look["component"], m.look["component"].visible, m.look["component"].paint,
                  m.look["component"].from, IF On(m, "component") THEN w.to["component"] ELSE {})
    BY <2>1, SetFiltersIs
  <2> QED BY <1>1, <1>2, <1>4, <2>2
<1>5. CASE w.does = "pick"
  <2>1. k = ShowComponentHighlight(m, w.to) /\ w.to \in Values
    BY <1>5, WorkedHosted, WorksAre DEF k
  <2> HIDE DEF k
  <2>2. /\ Moves(m, k, "eao")
        /\ RidesOn(m, k, "picked", "component")
        /\ LookKept(m, k, {"picked"})
        /\ On(m, "component") => LookIs(k.look["picked"], TRUE, 0, 0, w.to)
        /\ ~On(m, "component") => k.look["picked"] = Absent
    BY <2>1, ShowComponentHighlightIs
  <2> QED BY <1>1, <1>2, <1>5, <2>2
<1>6. CASE w.does = "unpick"
  <2>1. k = RemoveComponentHighlight(m)
    BY <1>6, WorkedHosted, WorksAre DEF k
  <2> HIDE DEF k
  <2>2. /\ Moves(m, k, "eao")
        /\ Drops(m, k, "picked")
        /\ k.look["picked"] = Absent
        /\ LookKept(m, k, {"picked"})
    BY <2>1, RemoveComponentHighlightIs
  <2> QED BY <1>1, <1>2, <1>6, <2>2
<1>7. CASE w.does = "select"
  <2>1. k = ShowSelectionOutline(m, w.to) /\ w.to \in Values
    BY <1>7, WorkedHosted, WorksAre DEF k
  <2> HIDE DEF k
  <2>2. /\ Moves(m, k, "eao")
        /\ RidesOn(m, k, "selected", "component")
        /\ LookKept(m, k, {"selected"})
        /\ On(m, "component") => LookIs(k.look["selected"], TRUE, 0, 0, w.to)
        /\ ~On(m, "component") => k.look["selected"] = Absent
    BY <2>1, ShowSelectionOutlineIs
  <2> QED BY <1>1, <1>2, <1>7, <2>2
<1>8. CASE w.does = "unselect"
  <2>1. k = RemoveSelectionOutline(m)
    BY <1>8, WorkedHosted, WorksAre DEF k
  <2> HIDE DEF k
  <2>2. /\ Moves(m, k, "eao")
        /\ Drops(m, k, "selected")
        /\ k.look["selected"] = Absent
        /\ LookKept(m, k, {"selected"})
    BY <2>1, RemoveSelectionOutlineIs
  <2> QED BY <1>1, <1>2, <1>8, <2>2
<1> QED
  BY <1>1, <1>3, <1>4, <1>5, <1>6, <1>7, <1>8, WorksAre

LEMMA RunMark ==
  ASSUME NEW m, IsMap(m), NEW w \in Works, w.layer = "mark", NEW n, n = Run(m, w)
  PROVE  /\ IsMap(n)
         /\ w.does = "mark" /\ w.to = "local" =>
              /\ RidesOn(m, n, "marked", "line")
              /\ LookKept(m, n, {"marked"})
              /\ On(m, "line") => LookIs(n.look["marked"], TRUE, 0, 0, {"local"})
              /\ ~On(m, "line") => n.look["marked"] = Absent
         /\ w.does = "mark" /\ w.to # "local" =>
              /\ Adds(m, n, {"marked"})
              /\ LookIs(n.look["marked"], TRUE, 0, 0, {w.to})
         /\ w.does = "unmark" =>
              /\ Drops(m, n, "marked")
              /\ n.look["marked"] = Absent
              /\ LookKept(m, n, {"marked"})
<1> DEFINE k == Worked(m, w)
<1>1. IsMap(n) /\ n.look = k.look
  BY RunDrawn
<1>2. /\ \A S : Adds(m, k, S) => Adds(m, n, S)
      /\ \A l : Drops(m, k, l) => Drops(m, n, l)
      /\ \A l, t : RidesOn(m, k, l, t) => RidesOn(m, n, l, t)
      /\ \A S : LookKept(m, k, S) => LookKept(m, n, S)
  BY RunDrawn
<1>3. CASE w.does = "mark" /\ w.to = "local"
  <2>1. k = ShowLocalHighlight(m)
    BY <1>3, WorkedRest, WorksAre DEF k
  <2> HIDE DEF k
  <2>2. /\ Moves(m, k, "mark")
        /\ RidesOn(m, k, "marked", "line")
        /\ LookKept(m, k, {"marked"})
        /\ On(m, "line") => LookIs(k.look["marked"], TRUE, 0, 0, {"local"})
        /\ ~On(m, "line") => k.look["marked"] = Absent
    BY <2>1, ShowLocalHighlightIs
  <2> QED BY <1>1, <1>2, <1>3, <2>2
<1>4. CASE w.does = "mark" /\ w.to # "local"
  <2>1. k = ShowHighlight(m, w.to) /\ w.to \in Kinds
    BY <1>4, WorkedRest, WorksAre DEF k
  <2> HIDE DEF k
  <2>2. /\ Moves(m, k, "mark")
        /\ Adds(m, k, {"marked"})
        /\ LookIs(k.look["marked"], TRUE, 0, 0, {w.to})
    BY <2>1, ShowHighlightIs
  <2> QED BY <1>1, <1>2, <1>4, <2>2
<1>5. CASE w.does = "unmark"
  <2>1. k = RemoveHighlight(m)
    BY <1>5, WorkedRest, WorksAre DEF k
  <2> HIDE DEF k
  <2>2. /\ Moves(m, k, "mark")
        /\ Drops(m, k, "marked")
        /\ k.look["marked"] = Absent
        /\ LookKept(m, k, {"marked"})
    BY <2>1, RemoveHighlightIs
  <2> QED BY <1>1, <1>2, <1>5, <2>2
<1> QED
  BY <1>1, <1>3, <1>4, <1>5, WorksAre

LEMMA RunImported ==
  ASSUME NEW m, IsMap(m), NEW w \in Works, w.layer = "imported", NEW n, n = Run(m, w)
  PROVE  /\ IsMap(n)
         /\ w.does = "import" =>
              /\ Adds(m, n, {"imported"})
              /\ On(m, "imported") => n.look["imported"] = m.look["imported"]
              /\ ~On(m, "imported") => LookIs(n.look["imported"], TRUE, w.to, 0, {})
         /\ w.does = "reveal" =>
              /\ Adds(m, n, {})
              /\ LookIs(n.look["imported"],
                        IF On(m, "imported") THEN w.to ELSE m.look["imported"].visible,
                             m.look["imported"].paint, m.look["imported"].from,
                                  m.look["imported"].of)
         /\ w.does = "refade" =>
              /\ Adds(m, n, {})
              /\ LookIs(n.look["imported"], m.look["imported"].visible,
                        IF On(m, "imported") THEN w.to ELSE m.look["imported"].paint,
                             m.look["imported"].from, m.look["imported"].of)
         /\ w.does = "remove" =>
              /\ Drops(m, n, "imported")
              /\ n.look["imported"] = Absent
              /\ LookKept(m, n, {"imported"})
<1> DEFINE k == Worked(m, w)
<1>1. IsMap(n) /\ n.look = k.look
  BY RunDrawn
<1>2. /\ \A S : Adds(m, k, S) => Adds(m, n, S)
      /\ \A l : Drops(m, k, l) => Drops(m, n, l)
      /\ \A l, t : RidesOn(m, k, l, t) => RidesOn(m, n, l, t)
      /\ \A S : LookKept(m, k, S) => LookKept(m, n, S)
  BY RunDrawn
<1>3. CASE w.does = "import"
  <2>1. k = ShowImported(m, w.to) /\ w.to \in Values
    BY <1>3, WorkedRest, WorksAre DEF k
  <2> HIDE DEF k
  <2>2. /\ Moves(m, k, "imported")
        /\ Adds(m, k, {"imported"})
        /\ On(m, "imported") => k.look["imported"] = m.look["imported"]
        /\ ~On(m, "imported") => LookIs(k.look["imported"], TRUE, w.to, 0, {})
    BY <2>1, ShowImportedIs
  <2> QED BY <1>1, <1>2, <1>3, <2>2
<1>4. CASE w.does = "reveal"
  <2>1. k = SetImportedVisibility(m, w.to) /\ w.to \in Values
    BY <1>4, WorkedRest, WorksAre DEF k
  <2> HIDE DEF k
  <2>2. /\ Moves(m, k, "imported")
        /\ Adds(m, k, {})
        /\ LookIs(k.look["imported"],
                  IF On(m, "imported") THEN w.to ELSE m.look["imported"].visible,
                       m.look["imported"].paint, m.look["imported"].from, m.look["imported"].of)
    BY <2>1, SetImportedVisibilityIs
  <2> QED BY <1>1, <1>2, <1>4, <2>2
<1>5. CASE w.does = "refade"
  <2>1. k = SetImportedOpacity(m, w.to) /\ w.to \in Values
    BY <1>5, WorkedRest, WorksAre DEF k
  <2> HIDE DEF k
  <2>2. /\ Moves(m, k, "imported")
        /\ Adds(m, k, {})
        /\ LookIs(k.look["imported"], m.look["imported"].visible,
                  IF On(m, "imported") THEN w.to ELSE m.look["imported"].paint,
                       m.look["imported"].from, m.look["imported"].of)
    BY <2>1, SetImportedOpacityIs
  <2> QED BY <1>1, <1>2, <1>5, <2>2
<1>6. CASE w.does = "remove"
  <2>1. k = RemoveImported(m)
    BY <1>6, WorkedRest, WorksAre DEF k
  <2> HIDE DEF k
  <2>2. /\ Moves(m, k, "imported")
        /\ Drops(m, k, "imported")
        /\ k.look["imported"] = Absent
        /\ LookKept(m, k, {"imported"})
    BY <2>1, RemoveImportedIs
  <2> QED BY <1>1, <1>2, <1>6, <2>2
<1> QED
  BY <1>1, <1>3, <1>4, <1>5, <1>6, WorksAre

LEMMA RunDots ==
  ASSUME NEW m, IsMap(m), NEW w \in Works, w.layer = "dots", NEW n, n = Run(m, w)
  PROVE  /\ IsMap(n)
         /\ w.does = "dots" =>
              /\ Adds(m, n, {"dots"})
              /\ LookIs(n.look["dots"], IF On(m, "dots") THEN m.look["dots"].visible ELSE TRUE,
                        m.look["dots"].paint, m.look["dots"].from, w.to)
<1> DEFINE k == Worked(m, w)
<1>1. IsMap(n) /\ n.look = k.look
  BY RunDrawn
<1>2. /\ \A S : Adds(m, k, S) => Adds(m, n, S)
      /\ \A l : Drops(m, k, l) => Drops(m, n, l)
      /\ \A l, t : RidesOn(m, k, l, t) => RidesOn(m, n, l, t)
      /\ \A S : LookKept(m, k, S) => LookKept(m, n, S)
  BY RunDrawn
<1>3. CASE w.does = "dots"
  <2>1. k = ShowProjects(m, w.to) /\ w.to \in Values
    BY <1>3, WorkedRest, WorksAre DEF k
  <2> HIDE DEF k
  <2>2. /\ Moves(m, k, "dots")
        /\ Adds(m, k, {"dots"})
        /\ LookIs(k.look["dots"], IF On(m, "dots") THEN m.look["dots"].visible ELSE TRUE,
                  m.look["dots"].paint, m.look["dots"].from, w.to)
    BY <2>1, ShowProjectsIs
  <2> QED BY <1>1, <1>2, <1>3, <2>2
<1> QED
  BY <1>1, <1>3, WorksAre

=============================================================================

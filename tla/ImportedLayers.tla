--------------------------- MODULE ImportedLayers ---------------------------
(***************************************************************************)
(* My Layers: files read, uploaded, retried, cancelled, renamed, deleted   *)
(* and drawn by the widget, over the layers map-api stores.  A request may *)
(* outlive the connection that carried it, and an upload that is repeated  *)
(* carries the same id.                                                    *)
(***************************************************************************)
EXTENDS Integers, FiniteSets, Sequences

CONSTANTS
  Uploads,        \* ids the widget draws for new layers
  Kept,           \* layers stored before the widget is opened
  Names,          \* layer names, told apart without regard to case
  NameOf,         \* the name of each layer of Kept
  Files,          \* files the user has at hand
  MaxFeatures,    \* MAX_IMPORT_FEATURES, MAX_USER_LAYER_FEATURES
  MaxSize,        \* MAX_IMPORT_FILE_BYTES
  MaxPuts,        \* bound: PUTs sent
  MaxEdits,       \* bound: layers renamed, deleted, switched on or off
  MaxFaults       \* bound: connections that drop and requests that fail

Extensions == {"kml", "geojson", "zip", "other"}
File == [ext : Extensions, size : Nat, reads : BOOLEAN, prj : BOOLEAN,
         drawn : Nat, bare : Nat, inBc : BOOLEAN]

ASSUME ImportedAssumption ==
  /\ Uploads \cap Kept = {} /\ NameOf \in [Kept -> Names]
  /\ \A k, m \in Kept : NameOf[k] = NameOf[m] => k = m
  /\ \A f \in Files : /\ DOMAIN f = {"ext", "size", "reads", "prj", "drawn", "bare", "inBc"}
                      /\ f.ext \in Extensions /\ {f.reads, f.prj, f.inBc} \subseteq BOOLEAN
                      /\ {f.size, f.drawn, f.bare} \subseteq Nat
  /\ {MaxFeatures, MaxSize, MaxPuts, MaxEdits, MaxFaults} \subseteq Nat

VARIABLES
  table,          \* name of each layer stored
  puts,           \* PUTs that map-api or the widget still has to do with
  nput,           \* PUTs sent so far
  calls,          \* DELETEs and PATCHes under way
  jobs,           \* uploads started
  cache,          \* name of each layer listed
  loaded, failed, \* whether there is a list; whether the last GET failed
  fetch,          \* the GET of the list
  shown,          \* shownIds
  features,       \* how far the features of each layer are
  drawn,          \* layers whose features are on the map
  edits, toggles, faults, misses,
  late,           \* history: layers changed since the list under way was read
  astray          \* history: layers the list may be wrong about

server  == <<table, puts, nput, calls>>
listing == <<cache, loaded, failed, fetch, late, astray>>
onMap   == <<shown, features, drawn>>
bounds  == <<edits, toggles, faults, misses>>
vars == <<server, jobs, listing, onMap, bounds>>

Ids == Uploads \cup Kept

Over(f, D, S) == DOMAIN f \subseteq D /\ f \in [DOMAIN f -> S]
Without(f, D) == [x \in DOMAIN f \ D |-> f[x]]
With(f, x, y) == [z \in DOMAIN f \cup {x} |-> IF z = x THEN y ELSE f[z]]

Idle   == [step |-> "idle", rows |-> <<>>]
Asked  == [step |-> "asked", rows |-> <<>>]

(* What a list says of a layer, if it has it *)
NameIn(rows, l) == {rows[k] : k \in DOMAIN rows \cap {l}}

(* A list on its way was read before a change of a layer that is answered by *)
(* now.  This is only noted: no action reads late or astray.                *)
Overtakes(l, names) ==
  late' = IF fetch.step = "served" /\ NameIn(fetch.rows, l) # names
          THEN late \cup {l} ELSE late

-----------------------------------------------------------------------------
(* What a file must be to get through *)

(* rejectImportFile: before it is read *)
Rejected(f) == f.ext = "other" \/ f.size > MaxSize \/ f.size = 0

(* parseImportFile: a shapefile says what its coordinates are in *)
Unreadable(f) == ~f.reads \/ (f.ext = "zip" /\ ~f.prj)

TouchesBc(f) == f.drawn = 0 \/ f.inBc

Importable(f) ==
  /\ ~Unreadable(f)
  /\ f.drawn + f.bare \in 1..MaxFeatures
  /\ TouchesBc(f)

(* _store_features: features without a geometry are not counted *)
Storable(f) == f.drawn \in 1..MaxFeatures /\ f.inBc

-----------------------------------------------------------------------------
(* The rows of My Layers *)

Active   == {"preparing", "uploading", "stalled", "processing"}
Rows     == {u \in DOMAIN jobs : jobs[u].status # "gone"}
Listed   == DOMAIN cache
Deleting == {c.id : c \in {d \in calls : d.op = "delete"}}

(* takenNames: stored layers and uploads that still have a row *)
TakenNames == {cache[l] : l \in Listed} \cup {jobs[u].name : u \in Rows}

(* content: the rows are there once the list is, unless its last GET failed *)
RowsOffered == {l \in Listed : loaded /\ ~failed} \ Deleting

(* A dialog that saves covers the panel until it is answered *)
PanelFree == \A c \in calls : c.op # "rename"

(* setQueryData *)
WriteList(list) ==
  /\ cache' = list /\ loaded' = TRUE /\ failed' = FALSE
  /\ UNCHANGED fetch

(* The one PUT the row of an upload is waiting for *)
Heard(u) == {n \in DOMAIN puts : puts[n].id = u /\ puts[n].heard}

Patch(u, changes) ==
  jobs' = [jobs EXCEPT ![u] = [x \in DOMAIN @ |->
             IF x \in DOMAIN changes THEN changes[x] ELSE @[x]]]

Failed(retryable) == [status |-> "failed", retryable |-> retryable]

-----------------------------------------------------------------------------
(* Importing a file *)

FreshId == CHOOSE u \in Uploads \ DOMAIN jobs : TRUE

(* take, the dialog and its submit, then startUpload; a file that is refused *)
(* or cannot be read, or a name that is taken, only leaves a notice         *)
StartUpload(f, n) ==
  /\ PanelFree /\ DOMAIN jobs # Uploads /\ nput < MaxPuts
  /\ ~Rejected(f) /\ Importable(f) /\ n \notin TakenNames
  /\ jobs' = With(jobs, FreshId, [name |-> n, file |-> f, status |-> "preparing",
                                  retryable |-> FALSE, sent |-> FALSE,
                                  cancelled |-> FALSE])
  /\ UNCHANGED <<server, listing, onMap, bounds>>

(* run: the PUT, once the features are compressed *)
SendPut(u) ==
  /\ nput < MaxPuts
  /\ nput' = nput + 1
  /\ puts' = With(puts, nput', [id |-> u, name |-> jobs[u].name, step |-> "sending",
                                heard |-> TRUE])
  /\ Patch(u, [status |-> "uploading", sent |-> FALSE])
  /\ UNCHANGED <<table, calls, listing, onMap, bounds>>

SendFile(u) ==
  /\ u \in DOMAIN jobs /\ jobs[u].status = "preparing"
  /\ SendPut(u)

(* armStallTimer's timeout, or the offline event *)
Stall(u) ==
  /\ u \in DOMAIN jobs /\ jobs[u].status = "uploading"
  /\ Patch(u, [status |-> "stalled"])
  /\ UNCHANGED <<server, listing, onMap, bounds>>

(* onUploadProgress: some bytes, or all of them *)
Progress(u) ==
  /\ u \in DOMAIN jobs /\ jobs[u].status = "stalled"
  /\ \E n \in Heard(u) : puts[n].step = "sending"
  /\ Patch(u, [status |-> "uploading"])
  /\ UNCHANGED <<server, listing, onMap, bounds>>

AllSent(u) ==
  /\ u \in DOMAIN jobs /\ jobs[u].status \in {"uploading", "stalled"}
  /\ \E n \in Heard(u) : puts[n].step # "sending"
  /\ Patch(u, [status |-> "processing", sent |-> TRUE])
  /\ UNCHANGED <<server, listing, onMap, bounds>>

(* The features cannot be compressed: there is no offering to try again      *)
PrepareFails(u) ==
  /\ u \in DOMAIN jobs /\ jobs[u].status = "preparing"
  /\ faults + misses < MaxFaults /\ faults' = faults + 1
  /\ Patch(u, Failed(FALSE))
  /\ UNCHANGED <<server, listing, onMap, edits, toggles, misses>>

(* Nobody waits for the answer any more; map-api goes on if it has the file  *)
Unheard(N) ==
  [n \in DOMAIN puts \ {m \in N : puts[m].step \in {"sending", "stored", "refused", "broken"}} |->
     IF n \in N THEN [puts[n] EXCEPT !.heard = FALSE] ELSE puts[n]]

(* cancelUpload: one that is still sending is aborted *)
CancelUpload(u) ==
  /\ PanelFree /\ u \in DOMAIN jobs /\ jobs[u].status \in Active
  /\ Patch(u, [status |-> "gone", cancelled |-> TRUE])
  /\ puts' = IF jobs[u].sent THEN puts ELSE Unheard(Heard(u))
  /\ UNCHANGED <<table, nput, calls, listing, onMap, bounds>>

(* dismissUpload: drop *)
DismissUpload(u) ==
  /\ PanelFree /\ u \in DOMAIN jobs /\ jobs[u].status = "failed"
  /\ Patch(u, [status |-> "gone"])
  /\ UNCHANGED <<server, listing, onMap, bounds>>

(* retryUpload: run again, under the same id and with the same bytes *)
RetryUpload(u) ==
  /\ PanelFree /\ u \in DOMAIN jobs /\ jobs[u].status = "failed" /\ jobs[u].retryable
  /\ SendPut(u)

-----------------------------------------------------------------------------
(* The requests in map-api *)

Serving(n, step) == n \in DOMAIN puts /\ puts[n].step = step

(* What becomes of a PUT whose answer nobody waits for is of no interest *)
Step(n, step) ==
  puts' = IF step \in {"stored", "refused", "broken"} /\ ~puts[n].heard
          THEN Without(puts, {n}) ELSE [puts EXCEPT ![n].step = step]

NameTaken(l, n) == \E k \in DOMAIN table \ {l} : table[k] = n

InsertAnyway(l, n) == TRUE                                   \* a mutant

(* The primary key and the unique index on the name make an insert wait for  *)
(* another one that has not committed                                       *)
NoInsertWaits(l, n) ==
  \A m \in DOMAIN puts :
    puts[m].step = "inserted" => puts[m].id # l /\ puts[m].name # n

Clash(l, n) == l \in DOMAIN table \/ NameTaken(l, n)

BodyReceived(n) ==
  /\ Serving(n, "sending")
  /\ Step(n, "received")
  /\ UNCHANGED <<table, nput, calls, jobs, listing, onMap, bounds>>

(* import_layer: the layer an earlier attempt has stored *)
FindById(n) ==
  /\ Serving(n, "received")
  /\ Step(n, IF puts[n].id \in DOMAIN table THEN "stored" ELSE "unknown")
  /\ UNCHANGED <<table, nput, calls, jobs, listing, onMap, bounds>>

(* The id and the name once more, in statements of their own *)
LookForClash(n) ==
  /\ Serving(n, "unknown")
  /\ Step(n, IF Clash(puts[n].id, puts[n].name) THEN "refused" ELSE "free")
  /\ UNCHANGED <<table, nput, calls, jobs, listing, onMap, bounds>>

(* The flush, or the IntegrityError: a race lost to the same id or name *)
Insert(n) ==
  /\ Serving(n, "free") /\ NoInsertWaits(puts[n].id, puts[n].name)
  /\ Step(n, CASE puts[n].id \in DOMAIN table -> "stored"
               [] NameTaken(puts[n].id, puts[n].name) -> "refused"
               [] OTHER -> "inserted")
  /\ UNCHANGED <<table, nput, calls, jobs, listing, onMap, bounds>>

(* _store_features and the commit *)
StoreFeatures(n) ==
  /\ Serving(n, "inserted")
  /\ IF Storable(jobs[puts[n].id].file)
     THEN Step(n, "stored") /\ table' = With(table, puts[n].id, puts[n].name)
     ELSE Step(n, "refused") /\ UNCHANGED table
  /\ UNCHANGED <<nput, calls, jobs, listing, onMap, bounds>>

(* A 500: whatever was inserted is rolled back *)
PutBreaks(n) ==
  /\ n \in DOMAIN puts /\ puts[n].step \in {"received", "unknown", "free", "inserted"}
  /\ faults + misses < MaxFaults /\ faults' = faults + 1
  /\ Step(n, "broken")
  /\ UNCHANGED <<table, nput, calls, jobs, listing, onMap, edits, toggles,
                 misses>>

Answered(c, step) == calls' = (calls \ {c}) \cup {[c EXCEPT !.step = step]}

(* 204 whether or not it was there *)
ServeDelete(c) ==
  /\ c.op \in {"delete", "undo"} /\ c.step = "sent"
  /\ table' = Without(table, {c.id})
  /\ Answered(c, "done")
  /\ UNCHANGED <<puts, nput, jobs, listing, onMap, bounds>>

(* update_layer; the look-up and the index refuse a name in the same way *)
ServeRename(c) ==
  /\ c.op = "rename" /\ c.step = "sent" /\ NoInsertWaits(c.id, c.name)
  /\ IF c.id \notin DOMAIN table \/ NameTaken(c.id, c.name)
     THEN Answered(c, "refused") /\ UNCHANGED table
     ELSE Answered(c, "done") /\ table' = [table EXCEPT ![c.id] = c.name]
  /\ UNCHANGED <<puts, nput, jobs, listing, onMap, bounds>>

-----------------------------------------------------------------------------
(* The answers to an upload *)

NoUndo(u) == {}                                              \* a mutant

(* Cancelled after the last byte left, so map-api stored it anyway *)
Undo(u) == {[op |-> "undo", id |-> u, name |-> jobs[u].name, step |-> "sent"]}

(* addLayer *)
ListAfterUpload(u, n) == IF u \in Listed THEN cache ELSE With(cache, u, n)

UploadStored(n) ==
  LET u == puts[n].id
  IN /\ Serving(n, "stored") /\ puts[n].heard /\ jobs[u].sent
     /\ puts' = Without(puts, {n})
     /\ IF jobs[u].cancelled
        THEN /\ calls' = calls \cup Undo(u)
             /\ UNCHANGED <<jobs, listing, shown>>
        ELSE /\ Patch(u, [status |-> "gone"])
             /\ WriteList(ListAfterUpload(u, puts[n].name))
             /\ Overtakes(u, NameIn(cache', u))
             /\ astray' = astray \cup (IF loaded THEN {} ELSE Ids \ {u})
                                 \cup ({u} \ (Listed \cup DOMAIN table))
             /\ shown' = shown \cup {u}
             /\ UNCHANGED calls
     /\ UNCHANGED <<table, nput, features, drawn, bounds>>

(* describeUploadFailure, unless it was cancelled *)
Verdict(u, retryable) ==
  IF jobs[u].cancelled THEN UNCHANGED jobs ELSE Patch(u, Failed(retryable))

UploadRefused(n) ==
  /\ n \in DOMAIN puts /\ puts[n].heard /\ jobs[puts[n].id].sent
  /\ puts[n].step \in {"refused", "broken"}
  /\ puts' = Without(puts, {n})
  /\ Verdict(puts[n].id, puts[n].step = "broken")
  /\ UNCHANGED <<table, nput, calls, listing, onMap, bounds>>

(* The connection drops: before map-api has the file, or while it goes on    *)
(* without anyone to answer                                                 *)
ConnectionDrops(n) ==
  /\ n \in DOMAIN puts /\ puts[n].heard
  /\ faults + misses < MaxFaults /\ faults' = faults + 1
  /\ puts' = Unheard({n})
  /\ Verdict(puts[n].id, TRUE)
  /\ UNCHANGED <<table, nput, calls, listing, onMap, edits, toggles, misses>>

-----------------------------------------------------------------------------
(* Stored layers: edited, deleted *)

Call(op, l, n) == [op |-> op, id |-> l, name |-> n, step |-> "sent"]

(* submit and save: a name of its own is not a duplicate *)
AskRename(l, n) ==
  /\ PanelFree /\ l \in RowsOffered /\ edits + toggles < MaxEdits
  /\ n # cache[l] /\ n \notin TakenNames
  /\ calls' = calls \cup {Call("rename", l, n)}
  /\ edits' = edits + 1
  /\ UNCHANGED <<table, puts, nput, jobs, listing, onMap, toggles, faults, misses>>

(* DeleteLayerConfirm *)
AskDelete(l) ==
  /\ PanelFree /\ l \in RowsOffered /\ edits + toggles < MaxEdits
  /\ calls' = calls \cup {Call("delete", l, cache[l])}
  /\ edits' = edits + 1
  /\ UNCHANGED <<table, puts, nput, jobs, listing, onMap, toggles, faults, misses>>

ListAfterDelete(l) == Without(cache, {l})

(* updateLayer shows it in place, deleteImportedLayer takes it away; what    *)
(* was refused stays as it was, and an undo is not waited for               *)
AnswerCall(c) ==
  /\ c.step \in {"done", "refused"}
  /\ calls' = calls \ {c}
  /\ CASE c.step = "done" /\ c.op = "rename" ->
            /\ WriteList(IF c.id \in Listed THEN [cache EXCEPT ![c.id] = c.name] ELSE cache)
            /\ Overtakes(c.id, {c.name})
            /\ UNCHANGED <<astray, shown, features>>
       [] c.step = "done" /\ c.op = "delete" ->
            /\ WriteList(ListAfterDelete(c.id))
            /\ Overtakes(c.id, {})
            /\ shown' = shown \ {c.id}
            /\ features' = Without(features, {c.id})
            /\ UNCHANGED astray
       [] OTHER -> UNCHANGED <<listing, shown, features>>
  /\ UNCHANGED <<table, puts, nput, jobs, drawn, bounds>>

CallLost(c) ==
  /\ faults + misses < MaxFaults /\ faults' = faults + 1
  /\ c.step \in {"sent", "done"} /\ Answered(c, "refused")
  /\ UNCHANGED <<table, puts, nput, jobs, listing, onMap, edits, toggles,
                 misses>>

-----------------------------------------------------------------------------
(* The list, and the layers on the map *)

ListServed ==
  /\ fetch.step = "asked"
  /\ fetch' = [step |-> "served", rows |-> table]
  /\ UNCHANGED <<server, jobs, cache, loaded, failed, late, astray, onMap, bounds>>

ListArrives ==
  /\ fetch.step = "served"
  /\ cache' = fetch.rows /\ loaded' = TRUE /\ failed' = FALSE /\ fetch' = Idle
  /\ late' = {} /\ astray' = late
  /\ UNCHANGED <<server, jobs, onMap, bounds>>

ListFails ==
  /\ fetch # Idle /\ faults + misses < MaxFaults
  /\ misses' = misses + 1
  /\ failed' = TRUE /\ fetch' = Idle
  /\ late' = {}
  /\ UNCHANGED <<server, jobs, cache, loaded, astray, onMap, edits, toggles,
                 faults>>

(* "Try again", or the network coming back to a list that is stale by then.  *)
(* Nothing calls it off: no delete, rename or upload cancels the query      *)
RetryList ==
  /\ failed \/ loaded
  /\ fetch = Idle
  /\ fetch' = Asked
  /\ UNCHANGED <<server, jobs, cache, loaded, failed, late, astray, onMap, bounds>>

(* Switched on again, a layer whose features failed is asked for again *)
Toggle(l) ==
  /\ PanelFree /\ l \in RowsOffered /\ edits + toggles < MaxEdits
  /\ toggles' = toggles + 1
  /\ IF l \in shown THEN shown' = shown \ {l} /\ UNCHANGED features
     ELSE /\ shown' = shown \cup {l}
          /\ features' = [m \in {k \in DOMAIN features : k # l \/ features[k] # "failed"} |->
                            features[m]]
  /\ UNCHANGED <<server, jobs, listing, drawn, edits, faults, misses>>

(* useImportedLayersOnMap fetches the features of a layer the first time it  *)
(* is on; 404 when it is gone                                               *)
Fetching(l) == l \in (Listed \cap shown) \ DOMAIN features

FeaturesArrive(l) ==
  /\ Fetching(l)
  /\ features' = With(features, l, IF l \in DOMAIN table THEN "here" ELSE "failed")
  /\ UNCHANGED <<server, jobs, listing, shown, drawn, bounds>>

FeaturesFail(l) ==
  /\ Fetching(l) /\ faults + misses < MaxFaults /\ faults' = faults + 1
  /\ features' = With(features, l, "failed")
  /\ UNCHANGED <<server, jobs, listing, shown, drawn, edits, toggles, misses>>

(* retryFeatures, from the notice under a row that is on *)
RetryFeatures(l) ==
  /\ PanelFree /\ l \in RowsOffered \cap shown \cap DOMAIN features
  /\ features[l] = "failed"
  /\ features' = Without(features, {l})
  /\ UNCHANGED <<server, jobs, listing, shown, drawn, bounds>>

KeptOnMap == drawn                                           \* a mutant

(* Layers that have left the list are taken off *)
StillWanted == drawn \cap Listed

Arrived == {l \in Listed \cap shown \cap DOMAIN features : features[l] = "here"}

(* The effect: what has arrived is drawn, and hidden while it is off *)
Paint ==
  /\ drawn' = StillWanted \cup Arrived /\ drawn' # drawn
  /\ UNCHANGED <<server, jobs, listing, shown, features, bounds>>

-----------------------------------------------------------------------------
Init ==
  /\ table = NameOf /\ puts = <<>> /\ nput = 0 /\ calls = {}
  /\ jobs = <<>>
  /\ cache = <<>> /\ loaded = FALSE /\ failed = FALSE /\ fetch = Asked
  /\ shown = {} /\ features = <<>> /\ drawn = {}
  /\ edits = 0 /\ toggles = 0 /\ faults = 0 /\ misses = 0
  /\ late = {} /\ astray = {}

User ==
  \/ \E f \in Files, n \in Names : StartUpload(f, n)
  \/ \E u \in Uploads : CancelUpload(u) \/ DismissUpload(u) \/ RetryUpload(u)
  \/ \E l \in Ids : \/ \E n \in Names : AskRename(l, n)
                    \/ AskDelete(l) \/ Toggle(l) \/ RetryFeatures(l)
  \/ RetryList

Sending(u) == SendFile(u) \/ AllSent(u)

Server ==
  \/ \E n \in DOMAIN puts :
       BodyReceived(n) \/ FindById(n) \/ LookForClash(n) \/ Insert(n) \/ StoreFeatures(n)
  \/ \E c \in calls : ServeDelete(c) \/ ServeRename(c)

Answers ==
  \/ \E n \in DOMAIN puts : UploadStored(n) \/ UploadRefused(n)
  \/ \E c \in calls : AnswerCall(c)

Gets == ListServed \/ ListArrives \/ \E l \in Ids : FeaturesArrive(l)

Faults ==
  \/ \E n \in DOMAIN puts : PutBreaks(n) \/ ConnectionDrops(n)
  \/ \E c \in calls : CallLost(c)
  \/ \E l \in Ids : FeaturesFail(l)
  \/ \E u \in Uploads : PrepareFails(u)
  \/ ListFails

Next ==
  \/ User
  \/ \E u \in Uploads : Sending(u) \/ Stall(u) \/ Progress(u)
  \/ Server \/ Answers \/ Gets \/ Faults
  \/ Paint

Spec == Init /\ [][Next]_vars

(* The browser goes on sending and map-api answers; nobody has to click *)
Fairness ==
  /\ \A u \in Uploads : WF_vars(Sending(u))
  /\ WF_vars(Server) /\ WF_vars(Answers) /\ WF_vars(Gets)
  /\ WF_vars(Paint)

FairSpec == Spec /\ Fairness

-----------------------------------------------------------------------------
IsJob(j) ==
  /\ DOMAIN j = {"name", "file", "status", "retryable", "sent", "cancelled"}
  /\ j.name \in Names /\ j.file \in Files
  /\ j.status \in Active \cup {"failed", "gone"}
  /\ {j.retryable, j.sent, j.cancelled} \subseteq BOOLEAN

TypeOK ==
  /\ Over(table, Ids, Names) /\ Over(cache, Ids, Names)
  /\ DOMAIN puts \subseteq 1..nput
  /\ \A n \in DOMAIN puts :
       /\ puts[n].id \in DOMAIN jobs /\ puts[n].name \in Names /\ puts[n].heard \in BOOLEAN
       /\ puts[n].step \in {"sending", "received", "unknown", "free", "inserted",
                            "stored", "refused", "broken"}
  /\ \A c \in calls : c.id \in Ids /\ c.op \in {"delete", "rename", "undo"}
                      /\ c.step \in {"sent", "done", "refused"}
  /\ DOMAIN jobs \subseteq Uploads /\ \A u \in DOMAIN jobs : IsJob(jobs[u])
  /\ {loaded, failed} \subseteq BOOLEAN
  /\ fetch.step \in {"idle", "asked", "served"} /\ Over(fetch.rows, Ids, Names)
  /\ {shown, drawn, late, astray} \subseteq SUBSET Ids
  /\ Over(features, Ids, {"here", "failed"})
  /\ {nput, edits, toggles, faults, misses} \subseteq Nat

(* Two layers of a user never share a name, although an upload looks its    *)
(* name up some statements before it inserts, may insert twice at once      *)
(* under one id, and a name is free again for the widget once the row of    *)
(* its upload has gone (import_layer, update_layer).                        *)
NamesStayUnique ==
  \A k, l \in DOMAIN table : table[k] = table[l] => k = l

Quiet == DOMAIN puts = {} /\ calls = {} /\ fetch = Idle

Undisturbed == Quiet /\ loaded /\ ~failed /\ faults = 0

Cancelled == {u \in DOMAIN jobs : jobs[u].cancelled}

(* My Layers is patched after every upload, rename and delete, and fetched  *)
(* again only when it has failed or gone stale.  When nothing is under way  *)
(* and no request has failed, it shows exactly what is stored, uploads that *)
(* were cancelled apart, and the layers of astray: those changed between    *)
(* the reading and the coming of the list fetched last, those deleted       *)
(* before their upload was answered, and all but the one uploaded when an   *)
(* upload is answered before there is a list.                               *)
SettledListIsStored ==
  Undisturbed =>
    \A l \in Ids \ (Cancelled \cup astray) :
      /\ l \in Listed <=> l \in DOMAIN table
      /\ l \in Listed => cache[l] = table[l]

Painted == drawn = StillWanted \cup Arrived

(* A deleted layer is off the map as well, even when its features arrive    *)
(* while it is being deleted, or it is deleted while it is off.             *)
DeletedIsOffMap ==
  Undisturbed /\ Painted => drawn \subseteq DOMAIN table \cup Cancelled \cup astray

Going(u) == u \in DOMAIN jobs /\ jobs[u].status \in Active

(* No row of an upload stays for ever on its way: it goes, or says that it  *)
(* failed, whatever becomes of the connection (run).                        *)
UploadsEnd == \A u \in Uploads : []<>~Going(u)

(* An upload cancelled once its last byte has gone is stored all the same,  *)
(* and deleted as soon as it has been (cancelUpload), unless a connection   *)
(* drops meanwhile.                                                         *)
LateCancelIsUndone ==
  \A u \in Uploads :
    <>[](u \in DOMAIN jobs /\ jobs[u].cancelled /\ jobs[u].sent
           => faults > 0 \/ u \notin DOMAIN table)

(* Nothing out of shape is stored or kept, two layers of a name least of    *)
(* all (import_layer).                                                      *)
Sound == TypeOK /\ NamesStayUnique

(* My Layers and the map follow what is stored (useImportedLayers.ts,       *)
(* writeCache; useImportedLayersOnMap.ts).                                   *)
ListAndMapFollow == SettledListIsStored /\ DeletedIsOffMap

(* Left alone, uploads end, and one cancelled too late is undone            *)
(* (ImportedLayersContext.tsx, run and cancelUpload).                       *)
ComesToRest == UploadsEnd /\ LateCancelIsUndone

=============================================================================

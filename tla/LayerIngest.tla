----------------------------- MODULE LayerIngest -----------------------------
(***************************************************************************)
(* The ingest of a hosted layer (map-api/scripts/ingest_local_layer.py):   *)
(* a scheduled job and runs started by hand fetch a delivery, stage it     *)
(* with ogr2ogr, check it against what is served and replace that in one   *)
(* transaction, then record the load in one of its own.                    *)
(*                                                                         *)
(* A run is a process with one connection, which holds the advisory lock   *)
(* of the layer for as long as it lasts; ogr2ogr stages on a connection    *)
(* of its own.  A run may be killed, a statement may fail, and a           *)
(* connection may drop while its process goes on.                          *)
(***************************************************************************)
EXTENDS Integers, Sequences, FiniteSets, FiniteSetsExt, SequencesExt

CONSTANTS
  Runs,            \* processes that may be running
  Cron,            \* the scheduled one; the others are started by hand
  NoRun,
  Keys, Shapes,    \* a feature is its key and what it looks like
  NoShape,
  Vertices,        \* the vertices of a shape
  PartCount,       \* source layers of the layer's spec
  Extracts,        \* extracts that may be delivered
  Content,         \* the features of each source layer of an extract
  Styles,          \* .lyrx files, or the styles of the versions of this code
  Classes,         \* the keys a style has a class for
  NoStyle,         \* a file no style can be built from
  OwnsStyle,       \* spec.owns_style
  Folds,           \* spec.identity.fold_duplicates
  TrackHistory,    \* spec.track_history
  RatioOver, RatioUnder,   \* min_ratio, RatioOver / RatioUnder
  FirstOffers,     \* the deliveries that may be in the bucket at first
  HandFlags,       \* what runs started by hand may be passed
  Faults,          \* <<kind, step>>: what may go wrong, and where
  MaxPublished,    \* bound: deliveries published
  MaxFaults,       \* bound: faults
  MaxHandRuns,     \* bound: runs started by hand
  MaxRebuilds      \* bound: rebuilds of the cache schema

VARIABLES
  offered,     \* the delivery in the bucket
  rows,        \* the layer's table: the features served
  style,       \* its row of cache.local_layer_styles
  lastLoaded,  \* digest of the latest 'loaded' row of cache.local_layer_loads
  verdict,     \* status of the latest row of it
  history,     \* app.local_layer_feature_history, by key
  staging,     \* the staging table, as the pieces staged into it
  lock,        \* the run that holds the advisory lock
  pc,          \* the step each run is at
  flags,       \* what it was passed
  fetched,     \* the delivery it works on
  part,        \* the source layer it stages next
  live,        \* whether its connection is up
  pending,     \* the rows its transaction has written, not committed
  published, faults, handRuns, rebuilds     \* what the bounds count

stored == <<rows, style, history>>
loads  == <<lastLoaded, verdict>>
run    == <<flags, fetched, part>>
counts == <<published, faults, handRuns, rebuilds>>
vars   == <<offered, stored, loads, staging, lock, pc, run, live, pending,
            counts>>

-----------------------------------------------------------------------------
(* Types *)

Steps == {"idle", "lock", "fetch", "fetchStyle", "digest", "skip", "style",
          "stage", "check", "replace", "commit", "record", "vacuum",
          "refuse", "fail", "clean"}

(* Steps that are statements on the run's connection *)
SqlSteps == {"lock", "digest", "skip", "check", "replace", "commit", "record",
             "vacuum", "refuse"}

Feature  == [key : Keys, shape : Shapes]
Parts    == 1..PartCount
Delivery == [extract : Extracts, style : Styles]
Piece    == [extract : Extracts, part : Parts]
Flags    == [force : BOOLEAN, allow_shrink : BOOLEAN, dry_run : BOOLEAN]
Change   == [change : {"added", "removed", "changed"},
             previous : Shapes \cup {NoShape}]

NoFlags == [force |-> FALSE, allow_shrink |-> FALSE, dry_run |-> FALSE]

Nothing == [extract |-> NoStyle, style |-> NoStyle]

ASSUME IngestAssumption ==
  /\ Cron \in Runs /\ NoRun \notin Runs
  /\ NoShape \notin Shapes
  /\ Vertices \in [Shapes -> Nat]
  /\ PartCount \in Nat \ {0}
  /\ Content \in [Extracts -> [Parts -> SUBSET Feature]]
  /\ NoStyle \in Styles /\ NoStyle \notin Extracts
  /\ Classes \in [Styles -> SUBSET Keys]
  /\ OwnsStyle \in BOOLEAN /\ Folds \in BOOLEAN /\ TrackHistory \in BOOLEAN
  /\ RatioOver \in Nat /\ RatioUnder \in Nat \ {0}
  /\ FirstOffers \subseteq Delivery /\ HandFlags \subseteq Flags
  /\ Faults \subseteq {"crash", "error", "disconnect"} \X Steps
  /\ {MaxPublished, MaxFaults, MaxHandRuns, MaxRebuilds} \subseteq Nat

-----------------------------------------------------------------------------
(* Features *)

KeysOf(features) == {f.key : f \in features}

Points(features) == MapThenSumSet(LAMBDA f : Vertices[f.shape], features)

(* All source layers of an extract *)
RowsOf(extract) == UNION {Content[extract][k] : k \in Parts}

PieceRows(piece) == Content[piece.extract][piece.part]

Staged == UNION {PieceRows(staging[n]) : n \in DOMAIN staging}

(* Two staged rows with one key *)
Repeated(n, f, m, g) == f.key = g.key /\ <<n, f>> # <<m, g>>

NoneRepeated ==
  \A n, m \in DOMAIN staging :
    \A f \in PieceRows(staging[n]), g \in PieceRows(staging[m]) :
      ~Repeated(n, f, m, g)

OneShapeEach == \A f, g \in Staged : f.key = g.key => f = g

(* validate.sql: every source layer delivered something, and what a key     *)
(* stands for is clear                                                      *)
NothingMissing ==
  \A k \in Parts : \E n \in DOMAIN staging :
    staging[n].part = k /\ PieceRows(staging[n]) # {}

ValidExtract == NothingMissing /\ (IF Folds THEN OneShapeEach ELSE NoneRepeated)

(* An extract that passes it, staged whole *)
Loadable(extract) ==
  /\ \A k \in Parts : Content[extract][k] # {}
  /\ IF Folds
     THEN \A f, g \in RowsOf(extract) : f.key = g.key => f = g
     ELSE \A k, m \in Parts :
            \A f \in Content[extract][k], g \in Content[extract][m] :
              ~Repeated(k, f, m, g)

(* assess: what is materially smaller, or coarser, than what is served.     *)
(* With nothing served there is nothing to lose.                            *)
BelowRatio(new, old) == new * RatioUnder < old * RatioOver

Shrunk(new, old) ==
  \/ BelowRatio(Cardinality(KeysOf(new)), Cardinality(old))
  \/ BelowRatio(Points(new), Points(old))

(* _assess_style: a style that draws none of the rows is the wrong one *)
Covers(s, features) == OwnsStyle \/ Classes[s] \cap KeysOf(features) # {}

(* What assess lets replace the rows served *)
GuardByAreas(r) ==                                           \* a mutant
  /\ rows # {} /\ BelowRatio(Cardinality(KeysOf(Staged)), Cardinality(rows))
       => flags[r].allow_shrink
  /\ Covers(fetched[r].style, Staged)

Guard(r) ==
  /\ rows # {} /\ Shrunk(Staged, rows) => flags[r].allow_shrink
  /\ Covers(fetched[r].style, Staged)

(* digest: every file the load reads, and the style where it is ours *)
DigestOfOffered(delivery) == offered                         \* a mutant

Digest(delivery) == delivery

-----------------------------------------------------------------------------
(* Moving through a run *)

At(r, step) == pc[r] = step

Goto(r, step) == pc' = [pc EXCEPT ![r] = step]

Reading(r) == live[r] /\ pc[r] \in {"replace", "commit"}

Unlocked(r) == IF lock = r THEN NoRun ELSE lock

(* Closing the connection: what was not committed is rolled back. *)
End(r) ==
  /\ Goto(r, "idle")
  /\ lock' = Unlocked(r)
  /\ live' = [live EXCEPT ![r] = FALSE]
  /\ pending' = [pending EXCEPT ![r] = {}]
  /\ flags' = [flags EXCEPT ![r] = NoFlags]
  /\ fetched' = [fetched EXCEPT ![r] = Nothing]
  /\ part' = [part EXCEPT ![r] = 1]

(* record: one row of the load history, in a transaction of its own *)
Record(status, digest) ==
  /\ verdict' = status
  /\ lastLoaded' = IF status = "loaded" THEN digest ELSE lastLoaded

-----------------------------------------------------------------------------
(* A run *)

(* The CronJob starts one run after another; a person starts one with flags *)
StartCron ==
  /\ At(Cron, "idle")
  /\ Goto(Cron, "lock")
  /\ live' = [live EXCEPT ![Cron] = TRUE]
  /\ UNCHANGED <<offered, stored, loads, staging, lock, run, pending,
                 counts>>

StartByHand(r) ==
  /\ r # Cron /\ At(r, "idle") /\ handRuns < MaxHandRuns
  /\ \E f \in HandFlags : flags' = [flags EXCEPT ![r] = f]
  /\ handRuns' = handRuns + 1
  /\ Goto(r, "lock")
  /\ live' = [live EXCEPT ![r] = TRUE]
  /\ UNCHANGED <<offered, stored, loads, staging, lock, fetched, part, pending,
                 published, faults, rebuilds>>

(* take_lock; whoever does not get it has nothing to do *)
LockFree == lock = NoRun

TakeLock(r) ==
  /\ At(r, "lock") /\ live[r] /\ LockFree
  /\ lock' = r
  /\ Goto(r, "fetch")
  /\ UNCHANGED <<offered, stored, loads, staging, run, live, pending,
                 counts>>

FindsLocked(r) ==
  /\ At(r, "lock") /\ live[r] /\ ~LockFree
  /\ Goto(r, "clean")
  /\ UNCHANGED <<offered, stored, loads, staging, lock, run, live, pending,
                 counts>>

(* The keys of a delivery are downloaded one after the other; a run started *)
(* by hand may be given any files.                                          *)
FetchExtract(r) ==
  /\ At(r, "fetch")
  /\ \E e \in {offered.extract} \cup (IF r = Cron THEN {} ELSE Extracts) :
       fetched' = [fetched EXCEPT ![r].extract = e]
  /\ Goto(r, "fetchStyle")
  /\ UNCHANGED <<offered, stored, loads, staging, lock, flags, part, live,
                 pending, counts>>

FetchStyle(r) ==
  /\ At(r, "fetchStyle")
  /\ \E s \in {offered.style} \cup (IF r = Cron THEN {} ELSE Styles) :
       fetched' = [fetched EXCEPT ![r].style = s]
  /\ Goto(r, "digest")
  /\ UNCHANGED <<offered, stored, loads, staging, lock, flags, part, live,
                 pending, counts>>

(* Unchanged bytes are a reason to stop only if their rows are still there *)
Unchanged(r) == lastLoaded = Digest(fetched[r]) /\ ~flags[r].force

AssumedServed == TRUE                                        \* a mutant

StillServed == rows # {}

CompareDigest(r) ==
  /\ At(r, "digest") /\ live[r]
  /\ Goto(r, IF ~(Unchanged(r) /\ StillServed) THEN "style"
             ELSE IF flags[r].dry_run THEN "clean" ELSE "skip")
  /\ UNCHANGED <<offered, stored, loads, staging, lock, run, live, pending,
                 counts>>

RecordSkipped(r) ==
  /\ At(r, "skip") /\ live[r]
  /\ Record("skipped", Digest(fetched[r]))
  /\ Goto(r, "clean")
  /\ UNCHANGED <<offered, stored, staging, lock, run, live, pending,
                 counts>>

(* build_style: a file that cannot be translated is refused, before staging *)
BuildStyle(r) ==
  /\ At(r, "style")
  /\ Goto(r, IF fetched[r].style = NoStyle THEN "refuse" ELSE "stage")
  /\ UNCHANGED <<offered, stored, loads, staging, lock, run, live, pending,
                 counts>>

(* ogr2ogr, one call for each source layer: the first overwrites, the rest  *)
(* append.  Overwriting waits for whoever is reading the staging table.     *)
FirstPiece(k) == k = 1

OnePieceTooMany(k) == k <= PartCount                         \* a mutant

MorePieces(k) == k < PartCount

Stage(r) ==
  /\ At(r, "stage")
  /\ LET piece == [extract |-> fetched[r].extract, part |-> part[r]]
     IN \/ /\ FirstPiece(part[r]) /\ \A q \in Runs : ~Reading(q)
           /\ staging' = <<piece>>
        \/ /\ ~FirstPiece(part[r])
           /\ staging' = Append(staging, piece)
  /\ IF MorePieces(part[r])
     THEN part' = [part EXCEPT ![r] = @ + 1] /\ UNCHANGED pc
     ELSE Goto(r, "check") /\ UNCHANGED part
  /\ UNCHANGED <<offered, stored, loads, lock, flags, fetched, live, pending,
                 counts>>

(* validate, compare and assess, in the transaction that replaces the rows. *)
(* A dry run rolls it back here.  With no staging table the statement fails. *)
Check(r) ==
  /\ At(r, "check") /\ live[r]
  /\ Goto(r, IF staging = <<>> THEN "fail"
             ELSE IF ~(ValidExtract /\ Guard(r)) THEN "refuse"
             ELSE IF flags[r].dry_run THEN "clean" ELSE "replace")
  /\ UNCHANGED <<offered, stored, loads, staging, lock, run, live, pending,
                 counts>>

(* transform.sql, write_style and write_feature_history: the staging table  *)
(* is read again, and its keys must be unique where nothing is folded.      *)
Replace(r) ==
  /\ At(r, "replace") /\ live[r]
  /\ IF Folds \/ NoneRepeated
     THEN /\ pending' = [pending EXCEPT ![r] = Staged]
          /\ Goto(r, "commit")
     ELSE /\ Goto(r, "fail")
          /\ UNCHANGED pending
  /\ UNCHANGED <<offered, stored, loads, staging, lock, run, live,
                 counts>>

ShapeOf(features, k) == (CHOOSE f \in features : f.key = k).shape

(* A table that is being filled again after the cache was rebuilt *)
RebuiltEver == \E k \in Keys : history[k] # <<>>             \* a mutant

RebuiltFromEmpty == rows = {} /\ \E k \in Keys : history[k] # <<>>

(* What a load did to a feature *)
ChangeOf(k, old, new) ==
  IF k \notin KeysOf(old)
  THEN IF k \in KeysOf(new) THEN <<[change |-> "added", previous |-> NoShape]>>
       ELSE <<>>
  ELSE IF k \notin KeysOf(new)
       THEN <<[change |-> "removed", previous |-> ShapeOf(old, k)]>>
       ELSE IF ShapeOf(new, k) # ShapeOf(old, k)
            THEN <<[change |-> "changed", previous |-> ShapeOf(old, k)]>>
            ELSE <<>>

Explained(new) ==
  IF ~TrackHistory \/ RebuiltFromEmpty THEN history
  ELSE [k \in Keys |-> history[k] \o ChangeOf(k, rows, new)]

Commit(r) ==
  /\ At(r, "commit") /\ live[r]
  /\ history' = Explained(pending[r])
  /\ rows' = pending[r]
  /\ style' = fetched[r].style
  /\ pending' = [pending EXCEPT ![r] = {}]
  /\ Goto(r, "record")
  /\ UNCHANGED <<offered, loads, staging, lock, run, live, counts>>

RecordLoaded(r) ==
  /\ At(r, "record") /\ live[r]
  /\ Record("loaded", Digest(fetched[r]))
  /\ Goto(r, "vacuum")
  /\ UNCHANGED <<offered, stored, staging, lock, run, live, pending,
                 counts>>

Vacuum(r) ==
  /\ At(r, "vacuum") /\ live[r]
  /\ Goto(r, "clean")
  /\ UNCHANGED <<offered, stored, loads, staging, lock, run, live, pending,
                 counts>>

(* refuse *)
RecordRefused(r) ==
  /\ At(r, "refuse") /\ live[r]
  /\ Record("refused", Digest(fetched[r]))
  /\ Goto(r, "clean")
  /\ UNCHANGED <<offered, stored, staging, lock, run, live, pending,
                 counts>>

(* A failure is recorded if the connection still lets it *)
RecordFailed(r) ==
  /\ At(r, "fail")
  /\ IF live[r] THEN Record("failed", Nothing) ELSE UNCHANGED loads
  /\ pending' = [pending EXCEPT ![r] = {}]
  /\ Goto(r, "clean")
  /\ UNCHANGED <<offered, stored, staging, lock, run, live, counts>>

(* Only the holder of the lock may clear the staging table away *)
OwnsAnyStaging(r) == TRUE                                    \* a mutant

OwnsStaging(r) == lock = r

(* drop_staging, if the connection still lets it, and close *)
DropStaging(r) ==
  /\ At(r, "clean")
  /\ staging' = IF live[r] /\ OwnsStaging(r) THEN <<>> ELSE staging
  /\ End(r)
  /\ UNCHANGED <<offered, stored, loads, counts>>

-----------------------------------------------------------------------------
(* What may go wrong *)

MayFail(kind, step) == faults < MaxFaults /\ <<kind, step>> \in Faults

(* The process is killed: its deadline, its pod *)
Crash(r) ==
  /\ ~At(r, "idle") /\ MayFail("crash", pc[r])
  /\ End(r)
  /\ faults' = faults + 1
  /\ UNCHANGED <<offered, stored, loads, staging, published, handRuns, rebuilds>>

(* A download, an ogr2ogr or a statement fails: the transaction is rolled   *)
(* back.  If it is the record of a failure, there is none.                  *)
Error(r) ==
  /\ pc[r] \notin {"idle", "clean"} /\ MayFail("error", pc[r])
  /\ Goto(r, IF At(r, "fail") THEN "clean" ELSE "fail")
  /\ pending' = [pending EXCEPT ![r] = {}]
  /\ faults' = faults + 1
  /\ UNCHANGED <<offered, stored, loads, staging, lock, run, live,
                 published, handRuns, rebuilds>>

(* The connection drops, and the lock with it, while the process goes on *)
Disconnect(r) ==
  /\ live[r] /\ MayFail("disconnect", pc[r])
  /\ live' = [live EXCEPT ![r] = FALSE]
  /\ lock' = Unlocked(r)
  /\ pending' = [pending EXCEPT ![r] = {}]
  /\ faults' = faults + 1
  /\ UNCHANGED <<offered, stored, loads, staging, pc, run,
                 published, handRuns, rebuilds>>

(* The next statement on it fails *)
FindsDisconnected(r) ==
  /\ pc[r] \in SqlSteps /\ ~live[r]
  /\ Goto(r, "fail")
  /\ UNCHANGED <<offered, stored, loads, staging, lock, run, live, pending,
                 counts>>

-----------------------------------------------------------------------------
(* Around the ingest *)

(* The files of a delivery are uploaded one after the other *)
Publish ==
  /\ published < MaxPublished
  /\ \/ \E e \in Extracts : offered' = [offered EXCEPT !.extract = e]
     \/ \E s \in Styles : offered' = [offered EXCEPT !.style = s]
  /\ offered' # offered
  /\ published' = published + 1
  /\ UNCHANGED <<stored, loads, staging, lock, pc, run, live, pending,
                 faults, handRuns, rebuilds>>

(* The table is dropped and made again (a downgrade of its migration, and   *)
(* an upgrade): its rows go, the record of loads stays.  It is not dropped  *)
(* under whoever is reading it to replace it.  The downgrade that takes the *)
(* record as well starts the database over, and is left out.                *)
Rebuild ==
  /\ rebuilds < MaxRebuilds /\ rows # {}
  /\ \A r \in Runs : ~Reading(r)
  /\ rows' = {}
  /\ rebuilds' = rebuilds + 1
  /\ UNCHANGED <<offered, style, history, loads, staging, lock, pc, run, live,
                 pending, published, faults, handRuns>>

-----------------------------------------------------------------------------
(* Specification *)

Init ==
  /\ offered \in FirstOffers
  /\ rows = {} /\ style = NoStyle /\ history = [k \in Keys |-> <<>>]
  /\ lastLoaded = Nothing /\ verdict = "none"
  /\ staging = <<>> /\ lock = NoRun
  /\ pc = [r \in Runs |-> "idle"] /\ flags = [r \in Runs |-> NoFlags]
  /\ fetched = [r \in Runs |-> Nothing] /\ part = [r \in Runs |-> 1]
  /\ live = [r \in Runs |-> FALSE] /\ pending = [r \in Runs |-> {}]
  /\ published = 0 /\ faults = 0 /\ handRuns = 0 /\ rebuilds = 0

(* What a run that has been started does by itself *)
Advance(r) ==
  \/ TakeLock(r) \/ FindsLocked(r)
  \/ FetchExtract(r) \/ FetchStyle(r)
  \/ CompareDigest(r) \/ RecordSkipped(r)
  \/ BuildStyle(r) \/ Stage(r) \/ Check(r) \/ Replace(r)
  \/ Commit(r) \/ RecordLoaded(r) \/ Vacuum(r)
  \/ RecordRefused(r) \/ RecordFailed(r) \/ FindsDisconnected(r)
  \/ DropStaging(r)

Fault(r) == Crash(r) \/ Error(r) \/ Disconnect(r)

Next ==
  \/ StartCron
  \/ \E r \in Runs : StartByHand(r) \/ Advance(r) \/ Fault(r)
  \/ Publish \/ Rebuild

Spec == Init /\ [][Next]_vars

(* The CronJob keeps starting runs, a run goes on until it ends or fails    *)
(* (its deadline kills it otherwise), and nobody else has to do anything.   *)
Fairness == WF_vars(StartCron) /\ \A r \in Runs : WF_vars(Advance(r))

FairSpec == Spec /\ Fairness

-----------------------------------------------------------------------------
(* Properties *)

TypeOK ==
  /\ offered \in Delivery
  /\ rows \subseteq Feature /\ style \in Styles
  /\ history \in [Keys -> Seq(Change)]
  /\ lastLoaded \in Delivery \cup {Nothing}
  /\ verdict \in {"none", "loaded", "skipped", "refused", "failed"}
  /\ staging \in Seq(Piece)
  /\ lock \in Runs \cup {NoRun}
  /\ pc \in [Runs -> Steps] /\ flags \in [Runs -> Flags]
  /\ fetched \in [Runs -> [extract : Extracts \cup {NoStyle}, style : Styles]]
  /\ part \in [Runs -> Parts] /\ live \in [Runs -> BOOLEAN]
  /\ pending \in [Runs -> SUBSET Feature]
  /\ {published, faults, handRuns, rebuilds} \subseteq Nat

Serves(delivery) == rows = RowsOf(delivery.extract) /\ style = delivery.style

Loading(r) == pc[r] \in {"stage", "check", "replace", "commit"}

(* take_lock: "Claim the right to be the only load of this layer running."  *)
OnlyLoad == \A r, q \in Runs : Loading(r) /\ Loading(q) => r = q

(* What a run checks and then serves is what it staged, all of it and       *)
(* nothing else: no leftover of a run that was killed, nothing cleared away *)
(* by a run that never had the lock.                                        *)
ChecksWhatItStaged ==
  \A r \in Runs : pc[r] \in {"check", "replace"} =>
    staging = [k \in Parts |-> [extract |-> fetched[r].extract, part |-> k]]

(* The one staging table is one load's at a time, from its first piece to   *)
(* the commit (take_lock, stage, drop_staging).                             *)
LoadsAlone == OnlyLoad /\ ChecksWhatItStaged

(* A delivery is recorded as loaded only when it is what is served: rows    *)
(* and style, or rows emptied since by a rebuild of the cache.              *)
LoadedIsServed ==
  [][\A r \in Runs : At(r, "record") /\ pc'[r] = "vacuum" =>
       Serves(lastLoaded') \/ rows = {}]_vars

(* "[...] is byte-for-byte what is already loaded; nothing to do."  A run   *)
(* that skips its delivery finds just that delivery served.                 *)
SkippedIsServed ==
  [][\A r \in Runs : At(r, "digest") /\ pc'[r] = "skip" =>
       Serves(fetched[r])]_vars

(* The change record explains what is served: a feature is there exactly    *)
(* when the last thing recorded of it is that it was added or changed, and  *)
(* it no longer looks the way it did before it was changed.                 *)
Explains(changes, features, k) ==
  IF changes = <<>> THEN k \notin KeysOf(features)
  ELSE LET last == Last(changes)
       IN /\ last.change = "removed" <=> k \notin KeysOf(features)
          /\ last.change = "changed" => ShapeOf(features, k) # last.previous

HistoryExplains ==
  TrackHistory /\ rebuilds = 0 => \A k \in Keys : Explains(history[k], rows, k)

(* The layer and its style, seen by whoever opens the map: the ingest is a  *)
(* sequence of whole loads.  The loss of rows is waived while a run that    *)
(* was passed --allow-shrink has the lock.                                  *)
Acceptable(e, s) == s # NoStyle /\ Loadable(e) /\ Covers(s, RowsOf(e))

Waived == lock # NoRun /\ flags[lock].allow_shrink

Hosted == INSTANCE HostedLayer WITH waived <- Waived

ImplementsHostedLayer == Hosted!Spec

(* Whatever is killed, fails or is started by hand on the way, except while *)
(* a load is being recorded (RecordedFaults), once nobody publishes any     *)
(* more the map comes to serve what the bucket offers, unless that is       *)
(* something the ingest refuses.                                            *)
Refused(delivery) ==
  \/ ~Acceptable(delivery.extract, delivery.style)
  \/ rows # {} /\ Shrunk(RowsOf(delivery.extract), rows)

EventuallyServed == <>[](Serves(offered) \/ Refused(offered))

=============================================================================

-------------------------- MODULE LayerIngestProofs --------------------------
(***************************************************************************)
(* Proofs about LayerIngest for any number of runs, parts and deliveries.  *)
(* All but the types assume that no connection drops under a run that goes *)
(* on: with it the advisory lock is gone, and so is what it protects.      *)
(***************************************************************************)
EXTENDS LayerIngest, TLAPS

NoDisconnects == \A step \in Steps : <<"disconnect", step>> \notin Faults

-----------------------------------------------------------------------------
(* The inductive invariant *)

(* Steps of a run that has got the lock and not failed *)
Working == {"fetch", "fetchStyle", "digest", "skip", "style", "stage", "check",
            "replace", "commit", "record", "vacuum", "refuse"}

Fetched == Working \ {"fetch"}

HasFetched ==
  \A r \in Runs : pc[r] \in Fetched => fetched[r].extract \in Extracts

AllLive == \A r \in Runs : pc[r] # "idle" => live[r]

HoldLock == \A r \in Runs : pc[r] \in Working => lock = r

StartAtFirst ==
  \A r \in Runs :
    pc[r] \in {"idle", "lock", "fetch", "fetchStyle", "digest", "style"} =>
      part[r] = 1

StyleBuilt == \A r \in Runs : Loading(r) => fetched[r].style # NoStyle

(* The pieces of an extract up to a part *)
PiecesTo(extract, n) == [k \in 1..n |-> [extract |-> extract, part |-> k]]

StagedSoFar ==
  \A r \in Runs : pc[r] = "stage" /\ part[r] # 1 =>
    staging = PiecesTo(fetched[r].extract, part[r] - 1)

StagedWhole ==
  \A r \in Runs : pc[r] \in {"check", "replace"} =>
    staging = PiecesTo(fetched[r].extract, PartCount)

(* What the guard found holds until the rows are replaced *)
MayReplace(r, features) ==
  /\ rows # {} /\ Shrunk(features, rows) => flags[r].allow_shrink
  /\ Covers(fetched[r].style, features)

Judged ==
  \A r \in Runs :
    /\ pc[r] \in {"replace", "commit"} =>
         /\ Loadable(fetched[r].extract)
         /\ MayReplace(r, RowsOf(fetched[r].extract))
    /\ pc[r] = "commit" => pending[r] = RowsOf(fetched[r].extract)

CommittedIsServed ==
  \A r \in Runs : pc[r] = "record" => Serves(fetched[r]) \/ rows = {}

IngestInv ==
  /\ TypeOK /\ HasFetched /\ AllLive /\ HoldLock /\ StartAtFirst /\ StyleBuilt
  /\ StagedSoFar /\ StagedWhole /\ Judged /\ CommittedIsServed

-----------------------------------------------------------------------------
(* Types *)

(* Rows are features, whether of an extract or of what is staged. *)
LEMMA RowsTyped ==
  /\ \A e \in Extracts : RowsOf(e) \subseteq Feature
  /\ \A p \in Piece : PieceRows(p) \subseteq Feature
  /\ staging \in Seq(Piece) => Staged \subseteq Feature
<1>1. \A p \in Piece : PieceRows(p) \subseteq Feature
  BY IngestAssumption DEF PieceRows, Piece
<1>2. \A e \in Extracts : RowsOf(e) \subseteq Feature
  BY IngestAssumption DEF RowsOf
<1>3. ASSUME staging \in Seq(Piece) PROVE Staged \subseteq Feature
  <2>1. \A n \in DOMAIN staging : staging[n] \in Piece
    BY <1>3
  <2> QED BY <1>1, <2>1 DEF Staged
<1> QED BY <1>1, <1>2, <1>3

(* The shape found for a key of a set of features is a shape. *)
LEMMA ShapeTyped ==
  ASSUME NEW features \in SUBSET Feature, NEW k \in KeysOf(features)
  PROVE  ShapeOf(features, k) \in Shapes
<1>1. PICK f \in features : f.key = k
  BY DEF KeysOf
<1>2. (CHOOSE g \in features : g.key = k) \in features
  BY <1>1
<1> QED BY <1>2 DEF ShapeOf, Feature

(* What a load records of a feature is a sequence of changes. *)
LEMMA ChangeTyped ==
  ASSUME NEW old \in SUBSET Feature, NEW new \in SUBSET Feature, NEW k \in Keys
  PROVE  ChangeOf(k, old, new) \in Seq(Change)
<1>1. ASSUME NEW c \in {"added", "removed", "changed"},
             NEW p \in Shapes \cup {NoShape}
      PROVE  <<[change |-> c, previous |-> p]>> \in Seq(Change)
  <2>1. [change |-> c, previous |-> p] \in Change
    BY DEF Change
  <2> QED BY <2>1
<1>2. k \in KeysOf(old) => ShapeOf(old, k) \in Shapes
  BY ShapeTyped
<1> QED BY <1>1, <1>2 DEF ChangeOf

(* The change record keeps its type when a load is explained in it. *)
LEMMA ExplainedTyped ==
  ASSUME history \in [Keys -> Seq(Change)], rows \in SUBSET Feature,
         NEW new \in SUBSET Feature
  PROVE  Explained(new) \in [Keys -> Seq(Change)]
<1>1. \A k \in Keys : history[k] \o ChangeOf(k, rows, new) \in Seq(Change)
  BY ChangeTyped
<1> QED BY <1>1 DEF Explained

(* Staging a piece, first or next, leaves a sequence of pieces. *)
LEMMA AppendTyped ==
  ASSUME NEW S, NEW s \in Seq(S), NEW p \in S
  PROVE  <<p>> \in Seq(S) /\ Append(s, p) \in Seq(S)
  OBVIOUS

(* So does fetching an extract leave the deliveries what they were. *)
LEMMA FetchTyped ==
  ASSUME NEW A, NEW B, NEW f \in [Runs -> [extract : A, style : B]],
         NEW r \in Runs, NEW e \in A, NEW t \in B
  PROVE  /\ [f EXCEPT ![r].extract = e] \in [Runs -> [extract : A, style : B]]
         /\ [f EXCEPT ![r].style = t] \in [Runs -> [extract : A, style : B]]
  OBVIOUS

Types == TypeOK /\ HasFetched

LEMMA TypesInit == Init => Types
<1> USE IngestAssumption DEF Init, Types, TypeOK, HasFetched
<1> SUFFICES ASSUME Init PROVE Types
  OBVIOUS
<1>1. Nothing \in [extract : Extracts \cup {NoStyle}, style : Styles]
  BY DEF Nothing
<1>2. [k \in Keys |-> <<>>] \in [Keys -> Seq(Change)]
  OBVIOUS
<1>3. <<>> \in Seq(Piece)
  OBVIOUS
<1>4. NoFlags \in Flags /\ 1 \in Parts
  BY DEF NoFlags, Flags, Parts
<1>5. "idle" \in Steps /\ "idle" \notin Fetched
  BY DEF Steps, Fetched, Working
<1> QED BY <1>1, <1>2, <1>3, <1>4, <1>5


(* No step of a run, no fault and nobody around it spoils a type. *)
LEMMA TypesNext == Types /\ [Next]_vars => Types'
<1> SUFFICES ASSUME Types, [Next]_vars PROVE Types'
  OBVIOUS
<1> USE IngestAssumption DEF Types, TypeOK, HasFetched, Fetched, Working, Steps,
                             stored, loads, run, counts, Goto, At
<1>1. CASE StartCron
  BY <1>1 DEF StartCron
<1>2. ASSUME NEW r \in Runs, StartByHand(r) PROVE Types'
  BY <1>2 DEF StartByHand
<1>3. ASSUME NEW r \in Runs, TakeLock(r) PROVE Types'
  BY <1>3 DEF TakeLock
<1>4. ASSUME NEW r \in Runs, FindsLocked(r) PROVE Types'
  BY <1>4 DEF FindsLocked
<1>5. ASSUME NEW r \in Runs, FetchExtract(r) PROVE Types'
  <2>1. PICK e \in Extracts : fetched' = [fetched EXCEPT ![r].extract = e]
    BY <1>5 DEF FetchExtract, Delivery
  <2>2. fetched' \in [Runs -> [extract : Extracts \cup {NoStyle}, style : Styles]]
    <3>1. /\ fetched \in [Runs -> [extract : Extracts \cup {NoStyle}, style : Styles]]
          /\ e \in Extracts \cup {NoStyle} /\ NoStyle \in Styles
      OBVIOUS
    <3> QED BY ONLY <2>1, <3>1, FetchTyped
  <2>3. fetched'[r].extract = e /\ \A q \in Runs : q # r => fetched'[q] = fetched[q]
    BY <2>1
  <2> QED BY <1>5, <2>2, <2>3 DEF FetchExtract
<1>6. ASSUME NEW r \in Runs, FetchStyle(r) PROVE Types'
  <2>1. PICK t \in Styles : fetched' = [fetched EXCEPT ![r].style = t]
    BY <1>6 DEF FetchStyle, Delivery
  <2>2. fetched' \in [Runs -> [extract : Extracts \cup {NoStyle}, style : Styles]]
    <3>1. /\ fetched \in [Runs -> [extract : Extracts \cup {NoStyle}, style : Styles]]
          /\ NoStyle \in Extracts \cup {NoStyle}
      OBVIOUS
    <3> QED BY ONLY <2>1, <3>1, FetchTyped
  <2>3. \A q \in Runs : fetched'[q].extract = fetched[q].extract
    BY <2>1
  <2> QED BY <1>6, <2>2, <2>3 DEF FetchStyle
<1>7. ASSUME NEW r \in Runs, CompareDigest(r) PROVE Types'
  BY <1>7 DEF CompareDigest
<1>8. ASSUME NEW r \in Runs, RecordSkipped(r) PROVE Types'
  BY <1>8 DEF RecordSkipped, Record
<1>9. ASSUME NEW r \in Runs, BuildStyle(r) PROVE Types'
  BY <1>9 DEF BuildStyle
<1>10. ASSUME NEW r \in Runs, Stage(r) PROVE Types'
  <2>1. fetched[r].extract \in Extracts /\ part[r] \in Parts
    BY <1>10 DEF Stage
  <2>2. [extract |-> fetched[r].extract, part |-> part[r]] \in Piece
    BY <2>1 DEF Piece
  <2>3. \/ staging' = <<[extract |-> fetched[r].extract, part |-> part[r]]>>
        \/ staging' = Append(staging, [extract |-> fetched[r].extract,
                                       part |-> part[r]])
    BY <1>10 DEF Stage
  <2>4. staging' \in Seq(Piece)
    <3>1. staging \in Seq(Piece)
      OBVIOUS
    <3> QED BY ONLY <2>2, <2>3, <3>1, AppendTyped
  <2>5. CASE MorePieces(part[r])
    <3>1. part[r] + 1 \in Parts
      BY <2>1, <2>5 DEF MorePieces, Parts
    <3>2. part' = [part EXCEPT ![r] = part[r] + 1] /\ UNCHANGED pc
      BY <1>10, <2>5 DEF Stage
    <3>3. part' \in [Runs -> Parts]
      <4>1. part \in [Runs -> Parts]
        OBVIOUS
      <4> QED BY ONLY <3>1, <3>2, <4>1
    <3> QED BY <1>10, <2>4, <3>2, <3>3 DEF Stage
  <2>6. CASE ~MorePieces(part[r])
    BY <1>10, <2>4, <2>6 DEF Stage
  <2> QED BY <2>5, <2>6
<1>11. ASSUME NEW r \in Runs, Check(r) PROVE Types'
  BY <1>11 DEF Check
<1>12. ASSUME NEW r \in Runs, Replace(r) PROVE Types'
  <2>1. Staged \subseteq Feature
    BY RowsTyped
  <2>2. pending' = [pending EXCEPT ![r] = Staged] \/ pending' = pending
    BY <1>12 DEF Replace
  <2>3. pending' \in [Runs -> SUBSET Feature]
    <3>1. pending \in [Runs -> SUBSET Feature]
      OBVIOUS
    <3> QED BY ONLY <2>1, <2>2, <3>1
  <2>4. /\ pc[r] = "replace"
        /\ pc' = [pc EXCEPT ![r] = "commit"] \/ pc' = [pc EXCEPT ![r] = "fail"]
    BY <1>12 DEF Replace
  <2>5. UNCHANGED <<offered, stored, loads, staging, lock, run, live, counts>>
    BY <1>12 DEF Replace
  <2>6. pc' \in [Runs -> Steps]
    <3>1. pc \in [Runs -> Steps] /\ {"commit", "fail"} \subseteq Steps
      OBVIOUS
    <3> QED BY ONLY <2>4, <3>1
  <2>7. HasFetched'
    BY <2>4, <2>5
  <2>8. TypeOK'
    BY <2>3, <2>5, <2>6
  <2> QED BY <2>7, <2>8
<1>13. ASSUME NEW r \in Runs, Commit(r) PROVE Types'
  <2>1. pending[r] \in SUBSET Feature
    OBVIOUS
  <2>2. Explained(pending[r]) \in [Keys -> Seq(Change)]
    BY <2>1, ExplainedTyped
  <2> QED BY <1>13, <2>1, <2>2 DEF Commit
<1>14. ASSUME NEW r \in Runs, RecordLoaded(r) PROVE Types'
  <2>1. Digest(fetched[r]) \in Delivery
    BY <1>14 DEF RecordLoaded, Digest, Delivery
  <2> QED BY <1>14, <2>1 DEF RecordLoaded, Record
<1>15. ASSUME NEW r \in Runs, Vacuum(r) PROVE Types'
  BY <1>15 DEF Vacuum
<1>16. ASSUME NEW r \in Runs, RecordRefused(r) PROVE Types'
  BY <1>16 DEF RecordRefused, Record
<1>17. ASSUME NEW r \in Runs, RecordFailed(r) PROVE Types'
  BY <1>17 DEF RecordFailed, Record
<1>18. ASSUME NEW r \in Runs, FindsDisconnected(r) PROVE Types'
  BY <1>18 DEF FindsDisconnected
<1>19. ASSUME NEW r \in Runs, DropStaging(r) PROVE Types'
  <2>1. staging' \in Seq(Piece)
    BY <1>19 DEF DropStaging
  <2>2. lock' \in Runs \cup {NoRun}
    BY <1>19 DEF DropStaging, End, Unlocked
  <2>3. flags' \in [Runs -> Flags] /\ part' \in [Runs -> Parts]
    BY <1>19 DEF DropStaging, End, NoFlags, Flags, Parts
  <2>4. fetched' \in [Runs -> [extract : Extracts \cup {NoStyle}, style : Styles]]
    BY <1>19 DEF DropStaging, End, Nothing
  <2> QED BY <1>19, <2>1, <2>2, <2>3, <2>4 DEF DropStaging, End
<1>20. ASSUME NEW r \in Runs, Crash(r) PROVE Types'
  <2>1. lock' \in Runs \cup {NoRun}
    BY <1>20 DEF Crash, End, Unlocked
  <2>2. flags' \in [Runs -> Flags] /\ part' \in [Runs -> Parts]
    BY <1>20 DEF Crash, End, NoFlags, Flags, Parts
  <2>3. fetched' \in [Runs -> [extract : Extracts \cup {NoStyle}, style : Styles]]
    BY <1>20 DEF Crash, End, Nothing
  <2> QED BY <1>20, <2>1, <2>2, <2>3 DEF Crash, End
<1>21. ASSUME NEW r \in Runs, Error(r) PROVE Types'
  BY <1>21 DEF Error
<1>22. ASSUME NEW r \in Runs, Disconnect(r) PROVE Types'
  BY <1>22 DEF Disconnect, Unlocked
<1>23. CASE Publish
  <2>1. offered' \in Delivery
    BY <1>23 DEF Publish, Delivery
  <2> QED BY <1>23, <2>1 DEF Publish
<1>24. CASE Rebuild
  BY <1>24 DEF Rebuild
<1>25. CASE UNCHANGED vars
  BY <1>25 DEF vars
<1> QED
  BY <1>1, <1>2, <1>3, <1>4, <1>5, <1>6, <1>7, <1>8, <1>9, <1>10, <1>11,
     <1>12, <1>13, <1>14, <1>15, <1>16, <1>17, <1>18, <1>19, <1>20, <1>21,
     <1>22, <1>23, <1>24, <1>25 DEF Next, Advance, Fault

(* Every variable keeps its type, whatever fails and whoever disconnects:   *)
(* what a run stages is an extract it has fetched, what it commits are      *)
(* features.                                                                *)
THEOREM TypeCorrect == Spec => []TypeOK
<1>1. Types => TypeOK
  BY DEF Types
<1> QED BY <1>1, TypesInit, TypesNext, PTL DEF Spec

-----------------------------------------------------------------------------
(* The lock *)

LEMMA LockInit == Init => AllLive /\ HoldLock
<1> QED BY DEF Init, AllLive, HoldLock, Working

(* While no connection drops, a run is live until it ends, and nobody else  *)
(* gets past the lock until it fails or ends.                               *)
LEMMA LockNext ==
  ASSUME NoDisconnects, Types, AllLive, HoldLock, [Next]_vars
  PROVE  (AllLive /\ HoldLock)'
<1> USE IngestAssumption DEF Types, TypeOK, AllLive, HoldLock, Working, Steps,
                             stored, loads, run, counts, Goto, At, End, Unlocked
<1>1. CASE StartCron
  BY <1>1 DEF StartCron
<1>2. ASSUME NEW r \in Runs, StartByHand(r) PROVE (AllLive /\ HoldLock)'
  BY <1>2 DEF StartByHand
<1>3. ASSUME NEW r \in Runs, TakeLock(r) PROVE (AllLive /\ HoldLock)'
  BY <1>3 DEF TakeLock, LockFree
<1>4. ASSUME NEW r \in Runs, FindsLocked(r) PROVE (AllLive /\ HoldLock)'
  BY <1>4 DEF FindsLocked, LockFree
<1>5. ASSUME NEW r \in Runs, FetchExtract(r) PROVE (AllLive /\ HoldLock)'
  BY <1>5 DEF FetchExtract
<1>6. ASSUME NEW r \in Runs, FetchStyle(r) PROVE (AllLive /\ HoldLock)'
  BY <1>6 DEF FetchStyle
<1>7. ASSUME NEW r \in Runs, CompareDigest(r) PROVE (AllLive /\ HoldLock)'
  BY <1>7 DEF CompareDigest
<1>8. ASSUME NEW r \in Runs, RecordSkipped(r) PROVE (AllLive /\ HoldLock)'
  BY <1>8 DEF RecordSkipped
<1>9. ASSUME NEW r \in Runs, BuildStyle(r) PROVE (AllLive /\ HoldLock)'
  BY <1>9 DEF BuildStyle
<1>10. ASSUME NEW r \in Runs, Stage(r) PROVE (AllLive /\ HoldLock)'
  BY <1>10 DEF Stage
<1>11. ASSUME NEW r \in Runs, Check(r) PROVE (AllLive /\ HoldLock)'
  BY <1>11 DEF Check
<1>12. ASSUME NEW r \in Runs, Replace(r) PROVE (AllLive /\ HoldLock)'
  BY <1>12 DEF Replace
<1>13. ASSUME NEW r \in Runs, Commit(r) PROVE (AllLive /\ HoldLock)'
  BY <1>13 DEF Commit
<1>14. ASSUME NEW r \in Runs, RecordLoaded(r) PROVE (AllLive /\ HoldLock)'
  BY <1>14 DEF RecordLoaded
<1>15. ASSUME NEW r \in Runs, Vacuum(r) PROVE (AllLive /\ HoldLock)'
  BY <1>15 DEF Vacuum
<1>16. ASSUME NEW r \in Runs, RecordRefused(r) PROVE (AllLive /\ HoldLock)'
  BY <1>16 DEF RecordRefused
<1>17. ASSUME NEW r \in Runs, RecordFailed(r) PROVE (AllLive /\ HoldLock)'
  BY <1>17 DEF RecordFailed
<1>18. ASSUME NEW r \in Runs, FindsDisconnected(r) PROVE (AllLive /\ HoldLock)'
  BY <1>18 DEF FindsDisconnected, SqlSteps
<1>19. ASSUME NEW r \in Runs, DropStaging(r) PROVE (AllLive /\ HoldLock)'
  BY <1>19 DEF DropStaging, OwnsStaging
<1>20. ASSUME NEW r \in Runs, Crash(r) PROVE (AllLive /\ HoldLock)'
  BY <1>20 DEF Crash
<1>21. ASSUME NEW r \in Runs, Error(r) PROVE (AllLive /\ HoldLock)'
  BY <1>21 DEF Error
<1>22. ASSUME NEW r \in Runs, Disconnect(r) PROVE (AllLive /\ HoldLock)'
  BY <1>22 DEF Disconnect, NoDisconnects, MayFail
<1>23. CASE Publish
  BY <1>23 DEF Publish
<1>24. CASE Rebuild
  BY <1>24 DEF Rebuild
<1>25. CASE UNCHANGED vars
  BY <1>25 DEF vars
<1> QED
  BY <1>1, <1>2, <1>3, <1>4, <1>5, <1>6, <1>7, <1>8, <1>9, <1>10, <1>11,
     <1>12, <1>13, <1>14, <1>15, <1>16, <1>17, <1>18, <1>19, <1>20, <1>21,
     <1>22, <1>23, <1>24, <1>25 DEF Next, Advance, Fault

(* No two runs are past the lock at once. *)
LEMMA Alone ==
  ASSUME HoldLock, NEW r \in Runs, NEW q \in Runs,
         pc[r] \in Working, pc[q] \in Working
  PROVE  r = q
BY DEF HoldLock

(* take_lock makes a run the only load of its layer, for as long as         *)
(* connections last: whatever is killed, fails or is started by hand, no    *)
(* two runs stage, check or replace at once.                                *)
THEOREM ExclusionTheorem == NoDisconnects => (Spec => []OnlyLoad)
<1> SUFFICES ASSUME NoDisconnects PROVE Spec => []OnlyLoad
  OBVIOUS
<1>1. Init => Types /\ AllLive /\ HoldLock
  BY TypesInit, LockInit
<1>2. Types /\ AllLive /\ HoldLock /\ [Next]_vars
        => (Types /\ AllLive /\ HoldLock)'
  BY TypesNext, LockNext
<1>3. HoldLock => OnlyLoad
  BY DEF HoldLock, OnlyLoad, Loading, Working
<1> QED BY <1>1, <1>2, <1>3, PTL DEF Spec


-----------------------------------------------------------------------------
(* The staging table *)

(* Overwriting leaves the pieces up to the first part, appending the next   *)
(* piece those up to the next.                                              *)
LEMMA FirstOfPieces ==
  ASSUME NEW e PROVE <<[extract |-> e, part |-> 1]>> = PiecesTo(e, 1)
BY DEF PiecesTo

LEMMA NextOfPieces ==
  ASSUME NEW e, NEW n \in Nat
  PROVE  Append(PiecesTo(e, n), [extract |-> e, part |-> n + 1]) = PiecesTo(e, n + 1)
<1>1. PiecesTo(e, n) \in Seq({[extract |-> e, part |-> k] : k \in 1..n})
  BY DEF PiecesTo
<1>2. Len(PiecesTo(e, n)) = n
  BY DEF PiecesTo
<1> QED BY <1>1, <1>2 DEF PiecesTo

StagingInv == StartAtFirst /\ StyleBuilt /\ StagedSoFar /\ StagedWhole

LEMMA StagingInit == Init => StagingInv
BY DEF Init, StagingInv, StartAtFirst, StyleBuilt, StagedSoFar, StagedWhole,
   Loading

(* A run finds in the staging table what it has staged: whatever a run that *)
(* was killed left is overwritten, and only the run with the lock appends   *)
(* or clears it away.                                                       *)
LEMMA StagingNext ==
  ASSUME NoDisconnects, Types, AllLive, HoldLock, StagingInv, [Next]_vars
  PROVE  StagingInv'
<1> USE IngestAssumption DEF Types, TypeOK, Steps, StagingInv,
                             stored, loads, run, counts, Goto, At, End
<1>1. CASE StartCron
  BY <1>1 DEF StartCron, StartAtFirst, StyleBuilt, StagedSoFar,
     StagedWhole, Loading, Working
<1>2. ASSUME NEW r \in Runs, StartByHand(r) PROVE StagingInv'
  BY <1>2 DEF StartByHand, StartAtFirst, StyleBuilt, StagedSoFar,
     StagedWhole, Loading, Working
<1>3. ASSUME NEW r \in Runs, TakeLock(r) PROVE StagingInv'
  BY <1>3 DEF TakeLock, StartAtFirst, StyleBuilt, StagedSoFar, StagedWhole,
     Loading, Working
<1>4. ASSUME NEW r \in Runs, FindsLocked(r) PROVE StagingInv'
  BY <1>4 DEF FindsLocked, StartAtFirst, StyleBuilt, StagedSoFar,
     StagedWhole, Loading, Working
<1>5. ASSUME NEW r \in Runs, FetchExtract(r) PROVE StagingInv'
  BY <1>5 DEF FetchExtract, StartAtFirst, StyleBuilt, StagedSoFar,
     StagedWhole, Loading, Working
<1>6. ASSUME NEW r \in Runs, FetchStyle(r) PROVE StagingInv'
  BY <1>6 DEF FetchStyle, StartAtFirst, StyleBuilt, StagedSoFar,
     StagedWhole, Loading, Working
<1>7. ASSUME NEW r \in Runs, CompareDigest(r) PROVE StagingInv'
  BY <1>7 DEF CompareDigest, StartAtFirst, StyleBuilt, StagedSoFar,
     StagedWhole, Loading, Working
<1>8. ASSUME NEW r \in Runs, RecordSkipped(r) PROVE StagingInv'
  BY <1>8 DEF RecordSkipped, StartAtFirst, StyleBuilt, StagedSoFar,
     StagedWhole, Loading, Working
<1>9. ASSUME NEW r \in Runs, BuildStyle(r) PROVE StagingInv'
  BY <1>9 DEF BuildStyle, StartAtFirst, StyleBuilt, StagedSoFar,
     StagedWhole, Loading, Working
<1>10. ASSUME NEW r \in Runs, Stage(r) PROVE StagingInv'
  <2> DEFINE e == fetched[r].extract
             piece == [extract |-> e, part |-> part[r]]
  <2>1. part[r] \in 1..PartCount /\ pc[r] = "stage"
    BY <1>10 DEF Stage, Parts
  <2>2. \A q \in Runs : q # r => pc[q] \notin Working
    BY <2>1, Alone DEF Working
  <2>3. staging' = PiecesTo(e, part[r])
    <3>1. CASE part[r] = 1
      <4>1. staging' = <<piece>>
        BY <1>10, <3>1 DEF Stage, FirstPiece
      <4> QED BY <3>1, <4>1, FirstOfPieces
    <3>2. CASE part[r] # 1
      <4>1. staging' = Append(staging, piece)
        BY <1>10, <3>2 DEF Stage, FirstPiece
      <4>2. staging = PiecesTo(e, part[r] - 1)
        BY <2>1, <3>2 DEF StagedSoFar
      <4>3. part[r] - 1 \in Nat
        BY <2>1, <3>2
      <4>4. Append(PiecesTo(e, part[r] - 1), [extract |-> e, part |-> part[r] - 1 + 1])
              = PiecesTo(e, part[r] - 1 + 1)
        BY <4>3, NextOfPieces
      <4>5. part[r] - 1 + 1 = part[r]
        BY <2>1
      <4> QED BY <4>1, <4>2, <4>4, <4>5
    <3> QED BY <3>1, <3>2
  <2>4. fetched' = fetched /\ \A q \in Runs : q # r => pc'[q] = pc[q] /\ part'[q] = part[q]
    BY <1>10 DEF Stage
  <2>5. StartAtFirst' /\ StyleBuilt'
    BY <1>10, <2>1, <2>4 DEF Stage, StartAtFirst, StyleBuilt, Loading
  <2>6. CASE MorePieces(part[r])
    <3>1. pc'[r] = "stage" /\ part'[r] = part[r] + 1
      BY <1>10, <2>1, <2>6 DEF Stage
    <3>2. StagedSoFar'
      <4>1. part'[r] - 1 = part[r]
        BY <2>1, <3>1
      <4>2. staging' = PiecesTo(fetched'[r].extract, part'[r] - 1)
        BY <2>3, <2>4, <4>1
      <4> QED BY <2>2, <2>4, <4>2 DEF StagedSoFar, Working
    <3>3. StagedWhole'
      BY <2>1, <2>2, <2>4, <3>1 DEF StagedWhole, Working
    <3> QED BY <2>5, <3>2, <3>3
  <2>7. CASE ~MorePieces(part[r])
    <3>1. pc'[r] = "check" /\ part[r] = PartCount
      BY <1>10, <2>1, <2>7 DEF Stage, MorePieces
    <3>2. StagedSoFar'
      BY <2>1, <2>2, <2>4, <3>1 DEF StagedSoFar, Working
    <3>3. StagedWhole'
      BY <2>1, <2>2, <2>3, <2>4, <3>1 DEF StagedWhole, Working
    <3> QED BY <2>5, <3>2, <3>3
  <2> QED BY <2>6, <2>7
<1>11. ASSUME NEW r \in Runs, Check(r) PROVE StagingInv'
  BY <1>11 DEF Check, StartAtFirst, StyleBuilt, StagedSoFar, StagedWhole,
     Loading, Working
<1>12. ASSUME NEW r \in Runs, Replace(r) PROVE StagingInv'
  BY <1>12 DEF Replace, StartAtFirst, StyleBuilt, StagedSoFar, StagedWhole,
     Loading, Working
<1>13. ASSUME NEW r \in Runs, Commit(r) PROVE StagingInv'
  BY <1>13 DEF Commit, StartAtFirst, StyleBuilt, StagedSoFar, StagedWhole,
     Loading, Working
<1>14. ASSUME NEW r \in Runs, RecordLoaded(r) PROVE StagingInv'
  BY <1>14 DEF RecordLoaded, StartAtFirst, StyleBuilt, StagedSoFar,
     StagedWhole, Loading, Working
<1>15. ASSUME NEW r \in Runs, Vacuum(r) PROVE StagingInv'
  BY <1>15 DEF Vacuum, StartAtFirst, StyleBuilt, StagedSoFar, StagedWhole,
     Loading, Working
<1>16. ASSUME NEW r \in Runs, RecordRefused(r) PROVE StagingInv'
  BY <1>16 DEF RecordRefused, StartAtFirst, StyleBuilt, StagedSoFar,
     StagedWhole, Loading, Working
<1>17. ASSUME NEW r \in Runs, RecordFailed(r) PROVE StagingInv'
  BY <1>17 DEF RecordFailed, StartAtFirst, StyleBuilt, StagedSoFar,
     StagedWhole, Loading, Working
<1>18. ASSUME NEW r \in Runs, FindsDisconnected(r) PROVE StagingInv'
  BY <1>18 DEF FindsDisconnected, StartAtFirst, StyleBuilt, StagedSoFar,
     StagedWhole, Loading, Working
<1>19. ASSUME NEW r \in Runs, DropStaging(r) PROVE StagingInv'
  BY <1>19 DEF DropStaging, StartAtFirst, StyleBuilt, StagedSoFar,
     StagedWhole, Loading, Working, OwnsStaging, HoldLock
<1>20. ASSUME NEW r \in Runs, Crash(r) PROVE StagingInv'
  BY <1>20 DEF Crash, StartAtFirst, StyleBuilt, StagedSoFar, StagedWhole,
     Loading, Working
<1>21. ASSUME NEW r \in Runs, Error(r) PROVE StagingInv'
  BY <1>21 DEF Error, StartAtFirst, StyleBuilt, StagedSoFar, StagedWhole,
     Loading, Working
<1>22. ASSUME NEW r \in Runs, Disconnect(r) PROVE StagingInv'
  BY <1>22 DEF Disconnect, StartAtFirst, StyleBuilt, StagedSoFar,
     StagedWhole, Loading, Working
<1>23. CASE Publish
  BY <1>23 DEF Publish, StartAtFirst, StyleBuilt, StagedSoFar, StagedWhole,
     Loading, Working
<1>24. CASE Rebuild
  BY <1>24 DEF Rebuild, StartAtFirst, StyleBuilt, StagedSoFar, StagedWhole,
     Loading, Working
<1>25. CASE UNCHANGED vars
  BY <1>25 DEF vars, StartAtFirst, StyleBuilt, StagedSoFar, StagedWhole,
     Loading, Working
<1> QED
  BY <1>1, <1>2, <1>3, <1>4, <1>5, <1>6, <1>7, <1>8, <1>9, <1>10, <1>11,
     <1>12, <1>13, <1>14, <1>15, <1>16, <1>17, <1>18, <1>19, <1>20, <1>21,
     <1>22, <1>23, <1>24, <1>25 DEF Next, Advance, Fault


-----------------------------------------------------------------------------
(* From the check to the record *)

(* An extract staged whole is checked and replaced as what it is. *)
LEMMA WholeExtract ==
  ASSUME NEW e \in Extracts, staging = PiecesTo(e, PartCount)
  PROVE  Staged = RowsOf(e) /\ (ValidExtract => Loadable(e))
<1>1. DOMAIN staging = Parts
  BY IngestAssumption DEF PiecesTo, Parts
<1>2. \A k \in Parts : PieceRows(staging[k]) = Content[e][k] /\ staging[k].part = k
  BY DEF PiecesTo, Parts, PieceRows
<1>3. Staged = RowsOf(e)
  BY <1>1, <1>2 DEF Staged, RowsOf
<1>4. NothingMissing => \A k \in Parts : Content[e][k] # {}
  BY <1>1, <1>2 DEF NothingMissing
<1>5. OneShapeEach => \A f, g \in RowsOf(e) : f.key = g.key => f = g
  BY <1>3 DEF OneShapeEach
<1>6. NoneRepeated =>
        \A k, m \in Parts : \A f \in Content[e][k], g \in Content[e][m] :
          ~Repeated(k, f, m, g)
  BY <1>1, <1>2 DEF NoneRepeated
<1> QED BY <1>3, <1>4, <1>5, <1>6 DEF ValidExtract, Loadable

JudgedInv == Judged /\ CommittedIsServed

LEMMA JudgedInit == Init => JudgedInv
BY DEF Init, JudgedInv, Judged, CommittedIsServed

(* What was found when the staged extract was checked still holds when the  *)
(* rows are replaced by it, and what was committed is served until it is    *)
(* recorded, unless the cache is rebuilt in between.                        *)
LEMMA JudgedNext ==
  ASSUME NoDisconnects, Types, AllLive, HoldLock, StagingInv, JudgedInv,
         [Next]_vars
  PROVE  JudgedInv'
<1> USE IngestAssumption DEF Types, TypeOK, Steps, JudgedInv,
                             stored, loads, run, counts, Goto, At, End
<1>1. CASE StartCron
  BY <1>1 DEF StartCron, Judged, MayReplace, CommittedIsServed, Serves, Working
<1>2. ASSUME NEW r \in Runs, StartByHand(r) PROVE JudgedInv'
  BY <1>2 DEF StartByHand, Judged, MayReplace, CommittedIsServed, Serves,
     Working
<1>3. ASSUME NEW r \in Runs, TakeLock(r) PROVE JudgedInv'
  BY <1>3 DEF TakeLock, Judged, MayReplace, CommittedIsServed, Serves, Working
<1>4. ASSUME NEW r \in Runs, FindsLocked(r) PROVE JudgedInv'
  BY <1>4 DEF FindsLocked, Judged, MayReplace, CommittedIsServed, Serves,
     Working
<1>5. ASSUME NEW r \in Runs, FetchExtract(r) PROVE JudgedInv'
  BY <1>5 DEF FetchExtract, Judged, MayReplace, CommittedIsServed, Serves,
     Working
<1>6. ASSUME NEW r \in Runs, FetchStyle(r) PROVE JudgedInv'
  BY <1>6 DEF FetchStyle, Judged, MayReplace, CommittedIsServed, Serves, Working
<1>7. ASSUME NEW r \in Runs, CompareDigest(r) PROVE JudgedInv'
  BY <1>7 DEF CompareDigest, Judged, MayReplace, CommittedIsServed, Serves,
     Working
<1>8. ASSUME NEW r \in Runs, RecordSkipped(r) PROVE JudgedInv'
  BY <1>8 DEF RecordSkipped, Judged, MayReplace, CommittedIsServed, Serves,
     Working
<1>9. ASSUME NEW r \in Runs, BuildStyle(r) PROVE JudgedInv'
  BY <1>9 DEF BuildStyle, Judged, MayReplace, CommittedIsServed, Serves, Working
<1>10. ASSUME NEW r \in Runs, Stage(r) PROVE JudgedInv'
  BY <1>10 DEF Stage, Judged, MayReplace, CommittedIsServed, Serves, Working
<1>11. ASSUME NEW r \in Runs, Check(r) PROVE JudgedInv'
  <2> DEFINE e == fetched[r].extract
  <2>1. pc[r] = "check" /\ \A q \in Runs : q # r => pc[q] \notin Working
    BY <1>11, Alone DEF Check, Working
  <2>2. e \in Extracts /\ staging = PiecesTo(e, PartCount)
    BY <2>1 DEF HasFetched, Fetched, Working, StagingInv, StagedWhole
  <2>3. Staged = RowsOf(e) /\ (ValidExtract => Loadable(e))
    BY <2>2, WholeExtract
  <2>4. pc'[r] = "replace" => ValidExtract /\ Guard(r)
    BY <1>11 DEF Check
  <2>5. pc'[r] = "replace" => Loadable(e) /\ MayReplace(r, RowsOf(e))
    BY <2>3, <2>4 DEF Guard, MayReplace
  <2>6. pc'[r] # "commit" /\ pc'[r] # "record"
    BY <1>11 DEF Check
  <2>7. \A q \in Runs : q # r => pc'[q] = pc[q]
    BY <1>11 DEF Check
  <2>8. UNCHANGED <<rows, style, fetched, flags, pending>>
    BY <1>11 DEF Check
  <2>9. Judged'
    BY <2>1, <2>5, <2>6, <2>7, <2>8 DEF Judged, MayReplace, Working
  <2>10. CommittedIsServed'
    BY <2>1, <2>6, <2>7 DEF CommittedIsServed, Working
  <2> QED BY <2>9, <2>10
<1>12. ASSUME NEW r \in Runs, Replace(r) PROVE JudgedInv'
  <2> DEFINE e == fetched[r].extract
  <2>1. pc[r] = "replace" /\ \A q \in Runs : q # r => pc[q] \notin Working
    BY <1>12, Alone DEF Replace, Working
  <2>2. e \in Extracts /\ staging = PiecesTo(e, PartCount)
    BY <2>1 DEF HasFetched, Fetched, Working, StagingInv, StagedWhole
  <2>3. Staged = RowsOf(e)
    BY <2>2, WholeExtract
  <2>4. pc'[r] \in {"commit", "fail"} /\ (pc'[r] = "commit" => pending'[r] = RowsOf(e))
    BY <1>12, <2>3 DEF Replace
  <2>5. \A q \in Runs : q # r => pc'[q] = pc[q]
    BY <1>12 DEF Replace
  <2>6. UNCHANGED <<rows, style, fetched, flags>>
    BY <1>12 DEF Replace
  <2>7. Loadable(e) /\ MayReplace(r, RowsOf(e))
    BY <2>1 DEF Judged
  <2>8. Judged'
    BY <2>1, <2>4, <2>5, <2>6, <2>7 DEF Judged, MayReplace, Working
  <2>9. CommittedIsServed'
    BY <2>1, <2>4, <2>5 DEF CommittedIsServed, Working
  <2> QED BY <2>8, <2>9
<1>13. ASSUME NEW r \in Runs, Commit(r) PROVE JudgedInv'
  <2>1. pc[r] = "commit" /\ \A q \in Runs : q # r => pc[q] \notin Working
    BY <1>13, Alone DEF Commit, Working
  <2>2. rows' = RowsOf(fetched[r].extract) /\ style' = fetched[r].style
    BY <1>13, <2>1 DEF Commit, Judged
  <2>3. pc'[r] = "record" /\ fetched' = fetched
        /\ \A q \in Runs : q # r => pc'[q] = pc[q]
    BY <1>13 DEF Commit
  <2>4. Judged'
    BY <2>1, <2>3 DEF Judged, Working
  <2>5. CommittedIsServed'
    BY <2>1, <2>2, <2>3 DEF CommittedIsServed, Serves, Working
  <2> QED BY <2>4, <2>5
<1>14. ASSUME NEW r \in Runs, RecordLoaded(r) PROVE JudgedInv'
  BY <1>14 DEF RecordLoaded, Judged, MayReplace, CommittedIsServed, Serves,
     Working
<1>15. ASSUME NEW r \in Runs, Vacuum(r) PROVE JudgedInv'
  BY <1>15 DEF Vacuum, Judged, MayReplace, CommittedIsServed, Serves, Working
<1>16. ASSUME NEW r \in Runs, RecordRefused(r) PROVE JudgedInv'
  BY <1>16 DEF RecordRefused, Judged, MayReplace, CommittedIsServed,
     Serves, Working
<1>17. ASSUME NEW r \in Runs, RecordFailed(r) PROVE JudgedInv'
  BY <1>17 DEF RecordFailed, Judged, MayReplace, CommittedIsServed, Serves,
     Working
<1>18. ASSUME NEW r \in Runs, FindsDisconnected(r) PROVE JudgedInv'
  BY <1>18 DEF FindsDisconnected, Judged, MayReplace, CommittedIsServed,
     Serves, Working
<1>19. ASSUME NEW r \in Runs, DropStaging(r) PROVE JudgedInv'
  BY <1>19 DEF DropStaging, Judged, MayReplace, CommittedIsServed, Serves,
     Working
<1>20. ASSUME NEW r \in Runs, Crash(r) PROVE JudgedInv'
  BY <1>20 DEF Crash, Judged, MayReplace, CommittedIsServed, Serves, Working
<1>21. ASSUME NEW r \in Runs, Error(r) PROVE JudgedInv'
  BY <1>21 DEF Error, Judged, MayReplace, CommittedIsServed, Serves, Working
<1>22. ASSUME NEW r \in Runs, Disconnect(r) PROVE JudgedInv'
  BY <1>22 DEF Disconnect, MayFail, NoDisconnects
<1>23. CASE Publish
  BY <1>23 DEF Publish, Judged, MayReplace, CommittedIsServed, Serves, Working
<1>24. CASE Rebuild
  <2>1. \A q \in Runs : pc[q] \notin {"replace", "commit"}
    BY <1>24 DEF Rebuild, Reading, AllLive
  <2> QED BY <1>24, <2>1 DEF Rebuild, Judged, CommittedIsServed
<1>25. CASE UNCHANGED vars
  BY <1>25 DEF vars, Judged, MayReplace, CommittedIsServed, Serves, Working
<1> QED
  BY <1>1, <1>2, <1>3, <1>4, <1>5, <1>6, <1>7, <1>8, <1>9, <1>10, <1>11,
     <1>12, <1>13, <1>14, <1>15, <1>16, <1>17, <1>18, <1>19, <1>20, <1>21,
     <1>22, <1>23, <1>24, <1>25 DEF Next, Advance, Fault

LEMMA IngestInvInit == Init => IngestInv
BY TypesInit, LockInit, StagingInit, JudgedInit
   DEF IngestInv, Types, StagingInv, JudgedInv

LEMMA IngestInvNext == NoDisconnects /\ IngestInv /\ [Next]_vars => IngestInv'
<1> SUFFICES ASSUME NoDisconnects, IngestInv, [Next]_vars PROVE IngestInv'
  OBVIOUS
<1>1. Types /\ AllLive /\ HoldLock /\ StagingInv /\ JudgedInv
  BY DEF IngestInv, Types, StagingInv, JudgedInv
<1>2. Types'
  BY <1>1, TypesNext
<1>3. (AllLive /\ HoldLock)'
  BY <1>1, LockNext
<1>4. StagingInv'
  BY <1>1, StagingNext
<1>5. JudgedInv'
  BY <1>1, JudgedNext
<1> QED BY <1>2, <1>3, <1>4, <1>5 DEF IngestInv, Types, StagingInv, JudgedInv

(* What a run under way may rely on: that it alone has the lock, that the   *)
(* staging table holds its own delivery, and that what the guard compared   *)
(* with is still what is served.                                            *)
THEOREM InvariantTheorem == NoDisconnects => (Spec => []IngestInv)
<1> SUFFICES ASSUME NoDisconnects PROVE Spec => []IngestInv
  OBVIOUS
<1>1. IngestInv /\ [Next]_vars => IngestInv'
  BY IngestInvNext
<1> QED BY <1>1, IngestInvInit, PTL DEF Spec


-----------------------------------------------------------------------------
(* What follows *)

(* A run checks, and replaces the rows by, exactly the pieces it staged:    *)
(* no leftover of a killed run and nothing cleared away under it.           *)
THEOREM StagingTheorem == NoDisconnects => (Spec => []ChecksWhatItStaged)
<1> SUFFICES ASSUME NoDisconnects PROVE Spec => []ChecksWhatItStaged
  OBVIOUS
<1>1. IngestInv => ChecksWhatItStaged
  BY DEF IngestInv, StagedWhole, PiecesTo, ChecksWhatItStaged, Parts
<1> QED BY <1>1, InvariantTheorem, PTL

(* As long as no connection drops, the staging table is one load's, and     *)
(* holds all it staged and nothing else.                                    *)
THEOREM AloneTheorem == NoDisconnects => (Spec => []LoadsAlone)
<1> SUFFICES ASSUME NoDisconnects PROVE Spec => []LoadsAlone
  OBVIOUS
<1>1. Spec => []OnlyLoad
  BY ExclusionTheorem
<1>2. Spec => []ChecksWhatItStaged
  BY StagingTheorem
<1>3. OnlyLoad /\ ChecksWhatItStaged => LoadsAlone
  BY DEF LoadsAlone
<1> QED BY <1>1, <1>2, <1>3, PTL

(* What the load history says is loaded is what the map shows when it is    *)
(* written, in a transaction of its own, after the commit: extract and      *)
(* style, unless the cache was rebuilt in between.                          *)
LEMMA LoadedStep ==
  ASSUME IngestInv, [Next]_vars
  PROVE  \A q \in Runs : At(q, "record") /\ pc'[q] = "vacuum" =>
           Serves(lastLoaded') \/ rows = {}
<1> DEFINE Recorded == \A q \in Runs : At(q, "record") /\ pc'[q] = "vacuum" =>
                         Serves(lastLoaded') \/ rows = {}
<1> SUFFICES Recorded
  OBVIOUS
<1> USE IngestAssumption DEF IngestInv, TypeOK, Steps, stored, loads, run, counts,
                             Goto, At, End
<1>1. CASE StartCron
  BY <1>1 DEF StartCron
<1>2. ASSUME NEW r \in Runs, StartByHand(r) PROVE Recorded
  BY <1>2 DEF StartByHand
<1>3. ASSUME NEW r \in Runs, TakeLock(r) PROVE Recorded
  BY <1>3 DEF TakeLock
<1>4. ASSUME NEW r \in Runs, FindsLocked(r) PROVE Recorded
  BY <1>4 DEF FindsLocked
<1>5. ASSUME NEW r \in Runs, FetchExtract(r) PROVE Recorded
  BY <1>5 DEF FetchExtract
<1>6. ASSUME NEW r \in Runs, FetchStyle(r) PROVE Recorded
  BY <1>6 DEF FetchStyle
<1>7. ASSUME NEW r \in Runs, CompareDigest(r) PROVE Recorded
  BY <1>7 DEF CompareDigest
<1>8. ASSUME NEW r \in Runs, RecordSkipped(r) PROVE Recorded
  BY <1>8 DEF RecordSkipped
<1>9. ASSUME NEW r \in Runs, BuildStyle(r) PROVE Recorded
  BY <1>9 DEF BuildStyle
<1>10. ASSUME NEW r \in Runs, Stage(r) PROVE Recorded
  BY <1>10 DEF Stage
<1>11. ASSUME NEW r \in Runs, Check(r) PROVE Recorded
  BY <1>11 DEF Check
<1>12. ASSUME NEW r \in Runs, Replace(r) PROVE Recorded
  BY <1>12 DEF Replace
<1>13. ASSUME NEW r \in Runs, Commit(r) PROVE Recorded
  BY <1>13 DEF Commit
<1>14. ASSUME NEW r \in Runs, RecordLoaded(r) PROVE Recorded
  <2>1. \A q \in Runs : q # r => pc'[q] = pc[q]
    BY <1>14 DEF RecordLoaded
  <2>2. At(r, "record") /\ lastLoaded' = fetched[r]
    BY <1>14 DEF RecordLoaded, Record, Digest
  <2>3. Serves(fetched[r]) \/ rows = {}
    BY <2>2 DEF CommittedIsServed
  <2>4. Serves(lastLoaded') \/ rows = {}
    BY <2>2, <2>3
  <2> QED BY <2>1, <2>4
<1>15. ASSUME NEW r \in Runs, Vacuum(r) PROVE Recorded
  BY <1>15 DEF Vacuum
<1>16. ASSUME NEW r \in Runs, RecordRefused(r) PROVE Recorded
  BY <1>16 DEF RecordRefused
<1>17. ASSUME NEW r \in Runs, RecordFailed(r) PROVE Recorded
  BY <1>17 DEF RecordFailed
<1>18. ASSUME NEW r \in Runs, FindsDisconnected(r) PROVE Recorded
  BY <1>18 DEF FindsDisconnected
<1>19. ASSUME NEW r \in Runs, DropStaging(r) PROVE Recorded
  BY <1>19 DEF DropStaging
<1>20. ASSUME NEW r \in Runs, Crash(r) PROVE Recorded
  BY <1>20 DEF Crash
<1>21. ASSUME NEW r \in Runs, Error(r) PROVE Recorded
  BY <1>21 DEF Error
<1>22. ASSUME NEW r \in Runs, Disconnect(r) PROVE Recorded
  BY <1>22 DEF Disconnect
<1>23. CASE Publish
  BY <1>23 DEF Publish
<1>24. CASE Rebuild
  BY <1>24 DEF Rebuild
<1>25. CASE UNCHANGED vars
  BY <1>25 DEF vars
<1> QED
  BY <1>1, <1>2, <1>3, <1>4, <1>5, <1>6, <1>7, <1>8, <1>9, <1>10, <1>11,
     <1>12, <1>13, <1>14, <1>15, <1>16, <1>17, <1>18, <1>19, <1>20, <1>21,
     <1>22, <1>23, <1>24, <1>25 DEF Next, Advance, Fault

THEOREM LoadedTheorem == NoDisconnects => (Spec => LoadedIsServed)
<1> SUFFICES ASSUME NoDisconnects PROVE Spec => LoadedIsServed
  OBVIOUS
<1>1. IngestInv /\ [Next]_vars =>
        [\A r \in Runs : At(r, "record") /\ pc'[r] = "vacuum" =>
           Serves(lastLoaded') \/ rows = {}]_vars
  BY LoadedStep
<1> QED BY <1>1, InvariantTheorem, PTL DEF Spec, LoadedIsServed

(* Each step of the ingest is a whole load, a rebuild or nothing to whoever *)
(* looks at the map.                                                        *)
LEMMA HostedStep ==
  ASSUME IngestInv, [Next]_vars PROVE [Hosted!Next]_<<rows, style>>
<1> USE IngestAssumption DEF IngestInv, TypeOK, stored, loads, run, counts
<1>1. CASE StartCron
  BY <1>1 DEF StartCron
<1>2. ASSUME NEW r \in Runs, StartByHand(r) PROVE [Hosted!Next]_<<rows, style>>
  BY <1>2 DEF StartByHand
<1>3. ASSUME NEW r \in Runs, TakeLock(r) PROVE [Hosted!Next]_<<rows, style>>
  BY <1>3 DEF TakeLock
<1>4. ASSUME NEW r \in Runs, FindsLocked(r) PROVE [Hosted!Next]_<<rows, style>>
  BY <1>4 DEF FindsLocked
<1>5. ASSUME NEW r \in Runs, FetchExtract(r) PROVE [Hosted!Next]_<<rows, style>>
  BY <1>5 DEF FetchExtract
<1>6. ASSUME NEW r \in Runs, FetchStyle(r) PROVE [Hosted!Next]_<<rows, style>>
  BY <1>6 DEF FetchStyle
<1>7. ASSUME NEW r \in Runs, CompareDigest(r) PROVE [Hosted!Next]_<<rows, style>>
  BY <1>7 DEF CompareDigest
<1>8. ASSUME NEW r \in Runs, RecordSkipped(r) PROVE [Hosted!Next]_<<rows, style>>
  BY <1>8 DEF RecordSkipped
<1>9. ASSUME NEW r \in Runs, BuildStyle(r) PROVE [Hosted!Next]_<<rows, style>>
  BY <1>9 DEF BuildStyle
<1>10. ASSUME NEW r \in Runs, Stage(r) PROVE [Hosted!Next]_<<rows, style>>
  BY <1>10 DEF Stage
<1>11. ASSUME NEW r \in Runs, Check(r) PROVE [Hosted!Next]_<<rows, style>>
  BY <1>11 DEF Check
<1>12. ASSUME NEW r \in Runs, Replace(r) PROVE [Hosted!Next]_<<rows, style>>
  BY <1>12 DEF Replace
<1>13. ASSUME NEW r \in Runs, Commit(r) PROVE [Hosted!Next]_<<rows, style>>
  <2>1. pc[r] = "commit" /\ fetched[r].style # NoStyle /\ lock = r
    BY <1>13 DEF Commit, At, StyleBuilt, Loading, HoldLock, Working
  <2>2. fetched[r].extract \in Extracts /\ fetched[r].style \in Styles
    BY <2>1 DEF HasFetched, Fetched, Working
  <2>3. rows' = RowsOf(fetched[r].extract) /\ style' = fetched[r].style
    BY <1>13, <2>1 DEF Commit, Judged
  <2>4. Acceptable(fetched[r].extract, fetched[r].style)
    BY <2>1 DEF Acceptable, Judged, MayReplace
  <2>5. rows # {} /\ ~Waived => ~Shrunk(RowsOf(fetched[r].extract), rows)
    BY <2>1 DEF Waived, Judged, MayReplace
  <2>6. Hosted!Load(fetched[r].extract, fetched[r].style)
    BY <2>3, <2>4, <2>5 DEF Hosted!Load
  <2> QED BY <2>2, <2>6 DEF Hosted!Next
<1>14. ASSUME NEW r \in Runs, RecordLoaded(r) PROVE [Hosted!Next]_<<rows, style>>
  BY <1>14 DEF RecordLoaded
<1>15. ASSUME NEW r \in Runs, Vacuum(r) PROVE [Hosted!Next]_<<rows, style>>
  BY <1>15 DEF Vacuum
<1>16. ASSUME NEW r \in Runs, RecordRefused(r) PROVE [Hosted!Next]_<<rows, style>>
  BY <1>16 DEF RecordRefused
<1>17. ASSUME NEW r \in Runs, RecordFailed(r) PROVE [Hosted!Next]_<<rows, style>>
  BY <1>17 DEF RecordFailed
<1>18. ASSUME NEW r \in Runs, FindsDisconnected(r) PROVE [Hosted!Next]_<<rows, style>>
  BY <1>18 DEF FindsDisconnected
<1>19. ASSUME NEW r \in Runs, DropStaging(r) PROVE [Hosted!Next]_<<rows, style>>
  BY <1>19 DEF DropStaging
<1>20. ASSUME NEW r \in Runs, Crash(r) PROVE [Hosted!Next]_<<rows, style>>
  BY <1>20 DEF Crash
<1>21. ASSUME NEW r \in Runs, Error(r) PROVE [Hosted!Next]_<<rows, style>>
  BY <1>21 DEF Error
<1>22. ASSUME NEW r \in Runs, Disconnect(r) PROVE [Hosted!Next]_<<rows, style>>
  BY <1>22 DEF Disconnect
<1>23. CASE Publish
  BY <1>23 DEF Publish
<1>24. CASE Rebuild
  BY <1>24 DEF Rebuild, Hosted!Next, Hosted!Empty
<1>25. CASE UNCHANGED vars
  BY <1>25 DEF vars
<1> QED
  BY <1>1, <1>2, <1>3, <1>4, <1>5, <1>6, <1>7, <1>8, <1>9, <1>10, <1>11,
     <1>12, <1>13, <1>14, <1>15, <1>16, <1>17, <1>18, <1>19, <1>20, <1>21,
     <1>22, <1>23, <1>24, <1>25 DEF Next, Advance, Fault

(* With its jobs, staging table, lock and transactions the ingest shows the *)
(* map nothing but whole acceptable deliveries, extract and style replaced  *)
(* together, and none that lost too much unless the run that loads it was   *)
(* told to allow it: it implements HostedLayer.                             *)
THEOREM RefinementTheorem == NoDisconnects => (Spec => ImplementsHostedLayer)
<1> SUFFICES ASSUME NoDisconnects PROVE Spec => ImplementsHostedLayer
  OBVIOUS
<1>1. Init => Hosted!Init
  BY DEF Init, Hosted!Init
<1>2. IngestInv /\ [Next]_vars => [Hosted!Next]_<<rows, style>>
  BY HostedStep
<1> QED BY <1>1, <1>2, InvariantTheorem, PTL
        DEF Spec, ImplementsHostedLayer, Hosted!Spec


-----------------------------------------------------------------------------
(* The change record *)

LEMMA LastOfOne ==
  ASSUME NEW S, NEW s \in Seq(S), NEW c \in S
  PROVE  Last(s \o <<c>>) = c /\ s \o <<c>> # <<>>
BY DEF Last

(* What a load records of a feature, after a record that explained the rows *)
(* before it, explains the rows it leaves.                                  *)
LEMMA ChangeExplains ==
  ASSUME NEW old \in SUBSET Feature, NEW new \in SUBSET Feature, NEW k \in Keys,
         NEW changes \in Seq(Change), Explains(changes, old, k)
  PROVE  Explains(changes \o ChangeOf(k, old, new), new, k)
<1>1. ASSUME NEW c \in {"added", "removed", "changed"},
             NEW p \in Shapes \cup {NoShape}
      PROVE  LET longer == changes \o <<[change |-> c, previous |-> p]>>
             IN longer # <<>> /\ Last(longer) = [change |-> c, previous |-> p]
  <2>1. [change |-> c, previous |-> p] \in Change
    BY DEF Change
  <2> QED BY <2>1, LastOfOne
<1>2. CASE k \notin KeysOf(old) /\ k \in KeysOf(new)
  <2>1. ChangeOf(k, old, new) = <<[change |-> "added", previous |-> NoShape]>>
    BY <1>2 DEF ChangeOf
  <2> QED BY <1>1, <1>2, <2>1 DEF Explains
<1>3. CASE k \in KeysOf(old) /\ k \notin KeysOf(new)
  <2>1. /\ ChangeOf(k, old, new) =
              <<[change |-> "removed", previous |-> ShapeOf(old, k)]>>
        /\ ShapeOf(old, k) \in Shapes
    BY <1>3, ShapeTyped DEF ChangeOf
  <2> QED BY <1>1, <1>3, <2>1 DEF Explains
<1>4. CASE k \in KeysOf(old) /\ k \in KeysOf(new) /\ ShapeOf(new, k) # ShapeOf(old, k)
  <2>1. /\ ChangeOf(k, old, new) =
              <<[change |-> "changed", previous |-> ShapeOf(old, k)]>>
        /\ ShapeOf(old, k) \in Shapes
    BY <1>4, ShapeTyped DEF ChangeOf
  <2> QED BY <1>1, <1>4, <2>1 DEF Explains
<1>5. CASE \/ k \notin KeysOf(old) /\ k \notin KeysOf(new)
           \/ /\ k \in KeysOf(old) /\ k \in KeysOf(new)
              /\ ShapeOf(new, k) = ShapeOf(old, k)
  <2>1. ChangeOf(k, old, new) = <<>>
    BY <1>5 DEF ChangeOf
  <2>2. changes \o <<>> = changes
    OBVIOUS
  <2> QED BY <1>5, <2>1, <2>2 DEF Explains
<1> QED BY <1>2, <1>3, <1>4, <1>5

(* Without a rebuild nothing is served only before the first load. *)
EmptyIsNew == rebuilds = 0 /\ rows = {} => \A k \in Keys : history[k] = <<>>

HistoryInv == HistoryExplains /\ EmptyIsNew

LEMMA HistoryNext ==
  ASSUME IngestInv, HistoryInv, [Next]_vars PROVE HistoryInv'
<1> USE IngestAssumption DEF IngestInv, TypeOK, HistoryInv,
                             stored, loads, run, counts, At
<1>1. CASE StartCron
  BY <1>1 DEF StartCron, HistoryExplains, EmptyIsNew
<1>2. ASSUME NEW r \in Runs, StartByHand(r) PROVE HistoryInv'
  BY <1>2 DEF StartByHand, HistoryExplains, EmptyIsNew
<1>3. ASSUME NEW r \in Runs, TakeLock(r) PROVE HistoryInv'
  BY <1>3 DEF TakeLock, HistoryExplains, EmptyIsNew
<1>4. ASSUME NEW r \in Runs, FindsLocked(r) PROVE HistoryInv'
  BY <1>4 DEF FindsLocked, HistoryExplains, EmptyIsNew
<1>5. ASSUME NEW r \in Runs, FetchExtract(r) PROVE HistoryInv'
  BY <1>5 DEF FetchExtract, HistoryExplains, EmptyIsNew
<1>6. ASSUME NEW r \in Runs, FetchStyle(r) PROVE HistoryInv'
  BY <1>6 DEF FetchStyle, HistoryExplains, EmptyIsNew
<1>7. ASSUME NEW r \in Runs, CompareDigest(r) PROVE HistoryInv'
  BY <1>7 DEF CompareDigest, HistoryExplains, EmptyIsNew
<1>8. ASSUME NEW r \in Runs, RecordSkipped(r) PROVE HistoryInv'
  BY <1>8 DEF RecordSkipped, HistoryExplains, EmptyIsNew
<1>9. ASSUME NEW r \in Runs, BuildStyle(r) PROVE HistoryInv'
  BY <1>9 DEF BuildStyle, HistoryExplains, EmptyIsNew
<1>10. ASSUME NEW r \in Runs, Stage(r) PROVE HistoryInv'
  BY <1>10 DEF Stage, HistoryExplains, EmptyIsNew
<1>11. ASSUME NEW r \in Runs, Check(r) PROVE HistoryInv'
  BY <1>11 DEF Check, HistoryExplains, EmptyIsNew
<1>12. ASSUME NEW r \in Runs, Replace(r) PROVE HistoryInv'
  BY <1>12 DEF Replace, HistoryExplains, EmptyIsNew
<1>13. ASSUME NEW r \in Runs, Commit(r) PROVE HistoryInv'
  <2> DEFINE new == pending[r]
  <2>1. new = RowsOf(fetched[r].extract) /\ Loadable(fetched[r].extract)
        /\ fetched[r].extract \in Extracts
    BY <1>13 DEF Commit, Judged, HasFetched, Fetched, Working
  <2>2. new # {}
    <3>1. 1 \in Parts
      BY DEF Parts
    <3> QED BY <2>1, <3>1 DEF Loadable, RowsOf
  <2>3. rows' = new /\ history' = Explained(new)
    BY <1>13 DEF Commit
  <2>4. EmptyIsNew' /\ rebuilds' = rebuilds
    BY <1>13, <2>2, <2>3 DEF EmptyIsNew, Commit
  <2>5. SUFFICES ASSUME TrackHistory, rebuilds = 0, NEW k \in Keys
                 PROVE  Explains(history'[k], new, k)
    BY <2>3, <2>4 DEF HistoryExplains
  <2>6. history'[k] = history[k] \o ChangeOf(k, rows, new)
    BY <2>3, <2>5 DEF Explained, RebuiltFromEmpty, EmptyIsNew
  <2>7. Explains(history[k], rows, k)
    BY <2>5 DEF HistoryExplains
  <2>8. history[k] \in Seq(Change) /\ rows \in SUBSET Feature /\ new \in SUBSET Feature
    OBVIOUS
  <2>9. Explains(history[k] \o ChangeOf(k, rows, new), new, k)
    <3> HIDE DEF new
    <3> QED BY ONLY <2>5, <2>7, <2>8, ChangeExplains
  <2> QED BY ONLY <2>6, <2>9
<1>14. ASSUME NEW r \in Runs, RecordLoaded(r) PROVE HistoryInv'
  BY <1>14 DEF RecordLoaded, HistoryExplains, EmptyIsNew
<1>15. ASSUME NEW r \in Runs, Vacuum(r) PROVE HistoryInv'
  BY <1>15 DEF Vacuum, HistoryExplains, EmptyIsNew
<1>16. ASSUME NEW r \in Runs, RecordRefused(r) PROVE HistoryInv'
  BY <1>16 DEF RecordRefused, HistoryExplains, EmptyIsNew
<1>17. ASSUME NEW r \in Runs, RecordFailed(r) PROVE HistoryInv'
  BY <1>17 DEF RecordFailed, HistoryExplains, EmptyIsNew
<1>18. ASSUME NEW r \in Runs, FindsDisconnected(r) PROVE HistoryInv'
  BY <1>18 DEF FindsDisconnected, HistoryExplains, EmptyIsNew
<1>19. ASSUME NEW r \in Runs, DropStaging(r) PROVE HistoryInv'
  BY <1>19 DEF DropStaging, HistoryExplains, EmptyIsNew
<1>20. ASSUME NEW r \in Runs, Crash(r) PROVE HistoryInv'
  BY <1>20 DEF Crash, HistoryExplains, EmptyIsNew
<1>21. ASSUME NEW r \in Runs, Error(r) PROVE HistoryInv'
  BY <1>21 DEF Error, HistoryExplains, EmptyIsNew
<1>22. ASSUME NEW r \in Runs, Disconnect(r) PROVE HistoryInv'
  BY <1>22 DEF Disconnect, HistoryExplains, EmptyIsNew
<1>23. CASE Publish
  BY <1>23 DEF Publish, HistoryExplains, EmptyIsNew
<1>24. CASE Rebuild
  BY <1>24 DEF Rebuild, HistoryExplains, EmptyIsNew
<1>25. CASE UNCHANGED vars
  BY <1>25 DEF vars, HistoryExplains, EmptyIsNew
<1> QED
  BY <1>1, <1>2, <1>3, <1>4, <1>5, <1>6, <1>7, <1>8, <1>9, <1>10, <1>11,
     <1>12, <1>13, <1>14, <1>15, <1>16, <1>17, <1>18, <1>19, <1>20, <1>21,
     <1>22, <1>23, <1>24, <1>25 DEF Next, Advance, Fault

(* Until somebody rebuilds the cache, the change record of a layer          *)
(* accounts for every feature served and every one that is not: none        *)
(* appears, goes or changes shape without a record of it as its last.       *)
THEOREM HistoryTheorem ==
  NoDisconnects => (Spec => []HistoryExplains)
<1> SUFFICES ASSUME NoDisconnects PROVE Spec => []HistoryExplains
  OBVIOUS
<1>1. Init => HistoryInv
  BY DEF Init, HistoryInv, HistoryExplains, Explains, EmptyIsNew, KeysOf
<1>2. IngestInv /\ HistoryInv /\ [Next]_vars => HistoryInv'
  BY HistoryNext
<1> QED BY <1>1, <1>2, InvariantTheorem, PTL DEF Spec, HistoryInv


=============================================================================

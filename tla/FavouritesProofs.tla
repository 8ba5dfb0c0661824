-------------------------- MODULE FavouritesProofs --------------------------
(***************************************************************************)
(* Theorems about Favourites, for every number of workers, users, layers   *)
(* and requests.                                                           *)
(***************************************************************************)
EXTENDS FavouritesInvariant, FavouritesRefinement, FiniteSetTheorems,
        SequenceTheorems, TLAPS

-----------------------------------------------------------------------------
(* Which actions write what *)

(* The positions offered above and below integers are integers. *)
LEMMA AboveBelowInt ==
  ASSUME NEW S \in SUBSET Int
  PROVE  Above(S) \subseteq Int /\ Below(S) \subseteq Int
BY DEF Above, Below

(* Only the flushes of a request, and the audit hook, write the tables. *)
LEMMA TableWriters ==
  ASSUME NEW w \in Workers, Step(w)
  PROVE  \/ UNCHANGED tables
         \/ Insert(w) \/ Delete(w) \/ Flush(w)
         \/ InsertFolder(w) \/ FlushFolder(w) \/ DeleteFolder(w)
         \/ Audit(w)
BY DEF Step, Receive, EnsureFinds, EnsureMisses, List, CountFull, CountFree,
       ReadPosition, InsertConflicts, FindAgain, FindToRemove, CheckFolder,
       LoadToMove, AssignMove, CheckOrder, AssignOrder, FlushFails,
       CountFolders, ReadFolderPosition, LoadFolder, FindToUngroup,
       LoadToUngroup, AssignUngroup, tables

(* Only the steps that load, assign or discard write the session. *)
LEMMA SessionWriters ==
  ASSUME NEW w \in Workers, Step(w)
  PROVE  \/ UNCHANGED session
         \/ ReadPosition(w) \/ ReadFolderPosition(w)
         \/ LoadToMove(w) \/ LoadToUngroup(w) \/ LoadFolder(w)
         \/ AssignMove(w) \/ AssignOrder(w) \/ AssignUngroup(w)
         \/ Flush(w) \/ FlushFails(w) \/ Audit(w)
BY DEF Step, Receive, EnsureFinds, EnsureMisses, List, CountFull, CountFree,
       Insert, InsertConflicts, FindAgain, FindToRemove, Delete, CheckFolder,
       CheckOrder, CountFolders, InsertFolder, FlushFolder, FindToUngroup,
       DeleteFolder, session

(* What a client asked for stays as it is until the request has ended. *)
LEMMA CallWriters ==
  ASSUME NEW w \in Workers, Step(w)
  PROVE  \/ call' = call /\ served' = served
         \/ Receive(w)
         \/ Audit(w)
BY DEF Step, EnsureFinds, EnsureMisses, List, CountFull, CountFree,
       ReadPosition, Insert, InsertConflicts, FindAgain, FindToRemove, Delete,
       CheckFolder, LoadToMove, AssignMove, CheckOrder, AssignOrder, Flush,
       FlushFails, CountFolders, ReadFolderPosition, InsertFolder, LoadFolder,
       FlushFolder, FindToUngroup, LoadToUngroup, AssignUngroup, DeleteFolder

-----------------------------------------------------------------------------
(* Type correctness *)

(* Flushing what a request assigned keeps the rows and their types. *)
LEMMA FlushedIsTable ==
  ASSUME TypeOK, NEW w \in Workers
  PROVE  /\ IsTable(Flushed(w), Favourite)
         /\ DOMAIN Flushed(w) = DOMAIN favourites
<1>1. DOMAIN Flushed(w) = DOMAIN favourites
  BY DEF Flushed
<1>2. ASSUME NEW i \in DOMAIN favourites
      PROVE  Flushed(w)[i] \in Favourite
  <2>1. favourites[i] \in Favourite
    BY DEF TypeOK, TablesOK, IsTable
  <2>2. ASSUME i \in Changed(w)
        PROVE  dirty[w][i] \in Filing
    BY <2>2 DEF Changed, TypeOK, SessionsOK, IsTable
  <2>3. QED
    BY <2>1, <2>2 DEF Flushed, Favourite, Filing
<1>3. QED
  BY <1>1, <1>2 DEF IsTable, TypeOK, TablesOK, Flushed

(* The tables keep their types and hand out every id once. *)
LEMMA TablesStep ==
  ASSUME TypeOK, NEW w \in Workers, Step(w)
  PROVE  TablesOK'
<1> USE DEF TypeOK, TablesOK
<1>1. CASE UNCHANGED tables
  BY <1>1 DEF tables
<1>2. CASE Insert(w)
  <2> DEFINE row == [user |-> call[w].user, layer |-> call[w].layer,
                     folder |-> Top, sort |-> place[w]]
  <2>1. row \in Favourite
    BY DEF RequestsOK, SessionsOK, Call, Favourite, Top
  <2>2. favourites' = Appended(favourites, nextFavourite, row)
    BY <1>2 DEF Insert
  <2> HIDE DEF row
  <2>3. IsTable(favourites', Favourite)
        /\ DOMAIN favourites' = DOMAIN favourites \cup {nextFavourite}
    <3>1. IsTable(favourites, Favourite) /\ nextFavourite \in Nat
      OBVIOUS
    <3>2. QED
      BY <2>1, <2>2, <3>1 DEF IsTable, Appended
  <2>4. UNCHANGED <<folders, nextFolder>> /\ nextFavourite' = nextFavourite + 1
    BY <1>2 DEF Insert
  <2>5. QED
    BY <2>3, <2>4
<1>3. CASE Delete(w)
  <2>1. /\ favourites' = [i \in DOMAIN favourites \ {call[w].row} |-> favourites[i]]
        /\ UNCHANGED <<folders, nextFavourite, nextFolder>>
    BY <1>3 DEF Delete
  <2>2. IsTable(favourites', Favourite)
    BY <2>1 DEF IsTable
  <2>3. QED
    BY <2>1, <2>2
<1>4. CASE Flush(w)
  BY <1>4, FlushedIsTable DEF Flush
<1>5. CASE InsertFolder(w)
  <2> DEFINE row == [user |-> call[w].user, name |-> call[w].name,
                     is_collapsed |-> FALSE, sort |-> place[w]]
  <2>1. row \in Folder
    BY DEF RequestsOK, SessionsOK, Call, Folder
  <2>2. folders' = Appended(folders, nextFolder, row)
    BY <1>5 DEF InsertFolder
  <2> HIDE DEF row
  <2>3. IsTable(folders', Folder)
        /\ DOMAIN folders' = DOMAIN folders \cup {nextFolder}
    <3>1. IsTable(folders, Folder) /\ nextFolder \in Nat
      OBVIOUS
    <3>2. QED
      BY <2>1, <2>2, <3>1 DEF IsTable, Appended
  <2>4. UNCHANGED <<favourites, nextFavourite>> /\ nextFolder' = nextFolder + 1
    BY <1>5 DEF InsertFolder
  <2>5. QED
    BY <2>3, <2>4
<1>6. CASE FlushFolder(w)
  <2>1. UNCHANGED <<favourites, nextFavourite, nextFolder>>
    BY <1>6 DEF FlushFolder
  <2>2. CASE UNCHANGED folders
    BY <2>1, <2>2
  <2>3. CASE folders' # folders
    <3> DEFINE f == call[w].folder
    <3>1. f \in DOMAIN folders
          /\ folders' = [folders EXCEPT ![f] = Patched(w, folders[f])]
      BY <1>6, <2>3 DEF FlushFolder
    <3>2. folders[f] \in Folder /\ call[w] \in Call
      BY <3>1 DEF IsTable, RequestsOK
    <3>3. Patched(w, folders[f]) \in Folder
      BY <3>2 DEF Folder, Call, Patched
    <3>4. IsTable(folders', Folder) /\ DOMAIN folders' = DOMAIN folders
      BY <3>1, <3>3 DEF IsTable
    <3>5. QED
      BY <2>1, <3>4
  <2>4. QED
    BY <2>2, <2>3
<1>7. CASE DeleteFolder(w)
  <2>1. UNCHANGED <<nextFavourite, nextFolder>>
    BY <1>7 DEF DeleteFolder
  <2>2. CASE UNCHANGED <<folders, favourites>>
    BY <2>1, <2>2
  <2>3. CASE /\ folders' = [g \in DOMAIN folders \ {call[w].folder} |-> folders[g]]
             /\ favourites' = Unfiled(call[w].folder)
    <3>1. IsTable(folders', Folder) /\ DOMAIN folders' \subseteq DOMAIN folders
      BY <2>3 DEF IsTable
    <3>2. \A i \in DOMAIN favourites : Unfiled(call[w].folder)[i] \in Favourite
      BY DEF Unfiled, IsTable, Favourite, Top
    <3>3. IsTable(favourites', Favourite) /\ DOMAIN favourites' = DOMAIN favourites
      BY <2>3, <3>2 DEF IsTable, Unfiled
    <3>4. QED
      BY <2>1, <3>1, <3>3
  <2>4. QED
    BY <1>7, <2>2, <2>3 DEF DeleteFolder
<1>8. CASE Audit(w)
  BY <1>8, FlushedIsTable DEF Audit
<1>9. QED
  BY <1>1, <1>2, <1>3, <1>4, <1>5, <1>6, <1>7, <1>8, TableWriters

(* Every call a client sends is well-formed, and starts at a known step. *)
LEMMA IncomingIsCall ==
  ASSUME TypeOK, NEW op \in Ops, NEW user \in Users, NEW c \in Incoming(op, user)
  PROVE  c \in Call /\ FirstStep[op] \in Steps
<1>1. op \in AllOps
  BY ConstantsAssumption
<1>2. /\ 1..nextFavourite \subseteq Nat
      /\ 1..nextFolder \subseteq Nat /\ 0..nextFolder \subseteq Nat
  BY DEF TypeOK, TablesOK
<1>3. c \in Call
  <2>1. c.op \in Ops \cup {"none"} /\ c.user \in Users
    BY DEF Incoming
  <2>2. c.row \in Nat
    BY <1>2 DEF Incoming
  <2>3. c.folder \in Nat
    BY <1>2 DEF Incoming, Top
  <2>4. c.layer \in Layers /\ c.order \in Orders \cup {<<>>}
    BY DEF Incoming, Layers
  <2>5. c.sent \in SUBSET {"name", "is_collapsed"}
    BY DEF Incoming
  <2>6. c.name \in Names /\ c.is_collapsed \in BOOLEAN
    BY ConstantsAssumption DEF Incoming
  <2>7. c = [op |-> c.op, user |-> c.user, row |-> c.row, folder |-> c.folder,
             layer |-> c.layer, order |-> c.order, sent |-> c.sent,
             name |-> c.name, is_collapsed |-> c.is_collapsed]
    BY DEF Incoming
  <2>8. QED
    BY <2>1, <2>2, <2>3, <2>4, <2>5, <2>6, <2>7 DEF Call
<1>4. FirstStep[op] \in Steps
  BY <1>1 DEF AllOps, FirstStep, Steps
<1>5. QED
  BY <1>3, <1>4

(* The request a worker idles with is well-formed. *)
LEMMA NoCallIsCall == NoCall \in Call
BY ConstantsAssumption DEF NoCall, Call, Layers, Top

(* Requests keep their types. *)
LEMMA RequestsStep ==
  ASSUME TypeOK, NEW w \in Workers, Step(w)
  PROVE  RequestsOK'
<1> USE DEF TypeOK, RequestsOK
<1>1. call' \in [Workers -> Call] /\ served' \in 0..MaxRequests
  <2>1. CASE call' = call /\ served' = served
    BY <2>1
  <2>2. CASE Receive(w)
    <3>1. PICK op \in Ops, user \in Users : \E c \in Incoming(op, user) :
            call' = [call EXCEPT ![w] = c]
      BY <2>2 DEF Receive
    <3>2. served < MaxRequests /\ served' = served + 1
      BY <2>2 DEF Receive
    <3>3. QED
      BY <3>1, <3>2, IncomingIsCall, ConstantsAssumption
  <2>3. CASE Audit(w)
    BY <2>3, NoCallIsCall DEF Audit
  <2>4. QED
    BY <2>1, <2>2, <2>3, CallWriters
<1>2. CASE Receive(w)
  <2>1. PICK op \in Ops : Goto(w, FirstStep[op])
    BY <1>2 DEF Receive
  <2>2. FirstStep[op] \in Steps
    BY <2>1, ConstantsAssumption DEF AllOps, FirstStep, Steps
  <2>3. QED
    BY <1>1, <2>1, <2>2 DEF Goto
<1>3. CASE Audit(w)
  BY <1>1, <1>3 DEF Audit, Steps, Replies
<1>4. CASE \/ \E step \in Steps : Goto(w, step)
           \/ \E status \in Replies : Answer(w, status)
  BY <1>1, <1>4 DEF Goto, Answer, Steps
<1>5. Step(w) => \/ Receive(w) \/ Audit(w)
                 \/ \E step \in Steps : Goto(w, step)
                 \/ \E status \in Replies : Answer(w, status)
  BY DEF Step, EnsureFinds, EnsureMisses, List, CountFull, CountFree,
         ReadPosition, Insert, InsertConflicts, FindAgain, FindToRemove, Delete,
         CheckFolder, LoadToMove, AssignMove, CheckOrder, AssignOrder, Flush,
         FlushFails, CountFolders, ReadFolderPosition, InsertFolder, LoadFolder,
         FlushFolder, FindToUngroup, LoadToUngroup, AssignUngroup, DeleteFolder,
         Steps, Replies, Refusals
<1>6. QED
  BY <1>2, <1>3, <1>4, <1>5

(* The positions a query offers are integers. *)
LEMMA PositionsInt ==
  ASSUME TypeOK, NEW user, NEW folder
  PROVE  /\ top_sort_order(user, folder) \subseteq Int
         /\ bottom_sort_order(user, folder) \subseteq Int
         /\ Above({folders[f].sort : f \in FoldersOf(user)}) \subseteq Int
<1>1. SortsIn(user, folder) \subseteq Int
  BY DEF SortsIn, Container, OwnedBy, TypeOK, TablesOK, IsTable, Favourite
<1>2. {folders[f].sort : f \in FoldersOf(user)} \subseteq Int
  BY DEF FoldersOf, TypeOK, TablesOK, IsTable, Folder
<1>3. QED
  BY <1>1, <1>2, AboveBelowInt DEF top_sort_order, bottom_sort_order

(* What a request loads is well-typed, and has been handed out. *)
LEMMA LoadedIsTable ==
  ASSUME TypeOK, NEW ids \in SUBSET DOMAIN favourites
  PROVE  /\ IsTable(Loaded(ids), Filing)
         /\ DOMAIN Loaded(ids) = ids /\ ids \subseteq 1..(nextFavourite - 1)
BY DEF TypeOK, TablesOK, IsTable, Loaded, Filing, Favourite

(* A request loads finitely many rows. *)
LEMMA SeenFinite ==
  ASSUME TypeOK, NEW w \in Workers, NEW S \in SUBSET DOMAIN seen[w]
  PROVE  IsFiniteSet(S) /\ Cardinality(S) \in Nat
<1>1. IsFiniteSet(1..(nextFavourite - 1))
  BY FS_Interval DEF TypeOK, TablesOK
<1>2. S \subseteq 1..(nextFavourite - 1)
  BY DEF TypeOK, SessionsOK
<1>3. QED
  BY <1>1, <1>2, FS_Subset, FS_CardinalityType

(* The sequence of the ids never goes back. *)
LEMMA SequenceGrows ==
  ASSUME TypeOK, NEW w \in Workers, Step(w)
  PROVE  nextFavourite' \in {nextFavourite, nextFavourite + 1}
BY TableWriters DEF tables, Insert, Delete, Flush, InsertFolder, FlushFolder,
   DeleteFolder, Audit

(* What a sequence has handed out stays handed out. *)
LEMMA HandedOutGrows ==
  ASSUME NEW m \in Nat, NEW n \in Nat, m <= n
  PROVE  1..(m - 1) \subseteq 1..(n - 1)
OBVIOUS

(* A worker's session may take new well-typed contents. *)
LEMMA SessionReplaced ==
  ASSUME TypeOK, NEW w \in Workers,
         nextFavourite' \in {nextFavourite, nextFavourite + 1},
         NEW s, IsTable(s, Filing), DOMAIN s \subseteq 1..(nextFavourite - 1),
         NEW d, IsTable(d, Filing),
         NEW f \in FolderSeen, NEW p \in Int,
         seen' = [seen EXCEPT ![w] = s], dirty' = [dirty EXCEPT ![w] = d],
         seenFolder' = [seenFolder EXCEPT ![w] = f],
         place' = [place EXCEPT ![w] = p]
  PROVE  SessionsOK'
<1>1. nextFavourite \in Nat
  BY DEF TypeOK, TablesOK
<1>2. 1..(nextFavourite - 1) \subseteq 1..(nextFavourite' - 1)
  <2>1. nextFavourite' \in Nat /\ nextFavourite <= nextFavourite'
    BY <1>1
  <2>2. QED
    BY <1>1, <2>1, HandedOutGrows
<1>3. seen = [v \in Workers |-> seen[v]] /\ dirty = [v \in Workers |-> dirty[v]]
  BY DEF TypeOK, SessionsOK
<1>4. seen' = [v \in Workers |-> seen'[v]] /\ dirty' = [v \in Workers |-> dirty'[v]]
  BY <1>3
<1>5. ASSUME NEW v \in Workers
      PROVE  /\ IsTable(seen'[v], Filing) /\ IsTable(dirty'[v], Filing)
             /\ DOMAIN seen'[v] \subseteq 1..(nextFavourite' - 1)
  <2>1. /\ IsTable(seen[v], Filing) /\ IsTable(dirty[v], Filing)
        /\ DOMAIN seen[v] \subseteq 1..(nextFavourite - 1)
    BY DEF TypeOK, SessionsOK
  <2>2. CASE v = w
    BY <1>2, <1>3, <2>2
  <2>3. CASE v # w
    <3>1. seen'[v] = seen[v] /\ dirty'[v] = dirty[v]
      BY <1>3, <2>3
    <3>2. QED
      BY <1>2, <2>1, <3>1
  <2>4. QED
    BY <2>2, <2>3
<1>6. seenFolder' \in [Workers -> FolderSeen] /\ place' \in [Workers -> Int]
  BY DEF TypeOK, SessionsOK
<1>7. QED
  BY <1>4, <1>5, <1>6 DEF SessionsOK

(* Sessions keep their types. *)
LEMMA SessionsStep ==
  ASSUME TypeOK, NEW w \in Workers, Step(w)
  PROVE  SessionsOK'
<1>1. nextFavourite' \in {nextFavourite, nextFavourite + 1}
  BY SequenceGrows
<1>2. /\ IsTable(seen[w], Filing) /\ DOMAIN seen[w] \subseteq 1..(nextFavourite - 1)
      /\ IsTable(dirty[w], Filing)
      /\ seenFolder[w] \in FolderSeen /\ place[w] \in Int
  BY DEF TypeOK, SessionsOK
<1>3. /\ seen = [seen EXCEPT ![w] = seen[w]]
      /\ dirty = [dirty EXCEPT ![w] = dirty[w]]
      /\ seenFolder = [seenFolder EXCEPT ![w] = seenFolder[w]]
      /\ place = [place EXCEPT ![w] = place[w]]
  BY DEF TypeOK, SessionsOK
<1>4. IsTable(Empty, Filing) /\ DOMAIN Empty \subseteq 1..(nextFavourite - 1)
  BY DEF Empty, IsTable
<1>5. CASE UNCHANGED session
  <2>1. /\ seen' = [seen EXCEPT ![w] = seen[w]]
        /\ dirty' = [dirty EXCEPT ![w] = dirty[w]]
        /\ seenFolder' = [seenFolder EXCEPT ![w] = seenFolder[w]]
        /\ place' = [place EXCEPT ![w] = place[w]]
    BY <1>3, <1>5 DEF session
  <2>2. QED
    BY <1>1, <1>2, <2>1, SessionReplaced
<1>6. CASE ReadPosition(w) \/ ReadFolderPosition(w)
  <2>1. PICK p \in Int : place' = [place EXCEPT ![w] = p]
    BY <1>6, PositionsInt DEF ReadPosition, ReadFolderPosition
  <2>2. UNCHANGED <<seen, seenFolder, dirty>>
    BY <1>6 DEF ReadPosition, ReadFolderPosition
  <2>3. QED
    BY <1>1, <1>2, <1>3, <2>1, <2>2, SessionReplaced
<1>7. CASE LoadToMove(w) \/ LoadToUngroup(w)
  <2>1. PICK ids \in SUBSET DOMAIN favourites :
          \/ seen' = [seen EXCEPT ![w] = Loaded(ids)]
          \/ seen' = [seen EXCEPT ![w] = seen[w]]
    BY <1>3, <1>7 DEF LoadToMove, LoadToUngroup, OwnedBy, Container
  <2>2. UNCHANGED <<seenFolder, dirty, place>>
    BY <1>7 DEF LoadToMove, LoadToUngroup
  <2>3. QED
    BY <1>1, <1>2, <1>3, <2>1, <2>2, LoadedIsTable, SessionReplaced
<1>8. CASE LoadFolder(w)
  <2>1. PICK f \in FolderSeen : seenFolder' = [seenFolder EXCEPT ![w] = f]
    <3>1. CASE OwnFolder(call[w].user, call[w].folder)
      <4>1. folders[call[w].folder] \in Folder
        BY <3>1 DEF OwnFolder, TypeOK, TablesOK, IsTable
      <4>2. QED
        BY <1>8, <3>1, <4>1 DEF LoadFolder, Folder, FolderSeen
    <3>2. CASE ~OwnFolder(call[w].user, call[w].folder)
      BY <1>2, <1>3, <1>8, <3>2 DEF LoadFolder
    <3>3. QED
      BY <3>1, <3>2
  <2>2. /\ seen' = [seen EXCEPT ![w] = seen[w]]
        /\ dirty' = [dirty EXCEPT ![w] = dirty[w]]
        /\ place' = [place EXCEPT ![w] = place[w]]
    BY <1>3, <1>8 DEF LoadFolder
  <2>3. QED
    BY <1>1, <1>2, <2>1, <2>2, SessionReplaced
<1>9. CASE AssignMove(w)
  <2>1. PICK p \in Int : dirty' = [dirty EXCEPT ![w] =
                  [i \in {call[w].row} |-> [folder |-> call[w].folder, sort |-> p]]]
    BY <1>9, PositionsInt DEF AssignMove
  <2> DEFINE d == [i \in {call[w].row} |-> [folder |-> call[w].folder, sort |-> p]]
  <2>2. IsTable(d, Filing)
    BY DEF IsTable, Filing, TypeOK, RequestsOK, Call
  <2>3. /\ seen' = [seen EXCEPT ![w] = seen[w]]
        /\ seenFolder' = [seenFolder EXCEPT ![w] = seenFolder[w]]
        /\ place' = [place EXCEPT ![w] = place[w]]
    BY <1>3, <1>9 DEF AssignMove
  <2> HIDE DEF d
  <2>4. dirty' = [dirty EXCEPT ![w] = d]
    BY <2>1 DEF d
  <2>5. QED
    BY <1>1, <1>2, <2>2, <2>3, <2>4, SessionReplaced
<1>10. CASE AssignOrder(w)
  <2> DEFINE order == call[w].order
             rows  == Container(call[w].user, call[w].folder)
             done  == Reached(order, rows)
             d     == [i \in {order[k] : k \in done} |->
                         [folder |-> favourites[i].folder,
                          sort |-> CHOOSE k \in done : order[k] = i]]
  <2>1. /\ seen' = [seen EXCEPT ![w] = Loaded(rows)]
        /\ dirty' = [dirty EXCEPT ![w] = d]
        /\ UNCHANGED <<seenFolder, place>>
    BY <1>10 DEF AssignOrder
  <2>2. rows \in SUBSET DOMAIN favourites
    BY DEF Container, OwnedBy
  <2>3. order \in Seq(Nat)
    <3>1. order \in Orders \cup {<<>>}
      BY DEF TypeOK, RequestsOK, Call
    <3>2. Orders \subseteq Seq(Nat)
      BY ConstantsAssumption, Zenon DEF ConstantsAssumption
    <3>3. <<>> \in Seq(Nat)
      OBVIOUS
    <3>4. QED
      BY <3>1, <3>2, <3>3, Zenon
  <2>4. done \subseteq Nat
    BY <2>3 DEF Reached
  <2>5. ASSUME NEW k \in done
        PROVE  order[k] \in DOMAIN favourites
    <3>1. k \in 1..Len(order) /\ k \in 1..k
      BY <2>3, <2>5 DEF Reached
    <3>2. order[k] \in rows
      BY <2>5, <3>1 DEF Reached
    <3>3. QED
      BY <2>2, <3>2
  <2>6. ASSUME NEW i \in {order[k] : k \in done}
        PROVE  /\ i \in Nat /\ favourites[i].folder \in Nat
               /\ (CHOOSE k \in done : order[k] = i) \in Int
    BY <2>4, <2>5, <2>6 DEF TypeOK, TablesOK, IsTable, Favourite
  <2>7. IsTable(d, Filing)
    BY <2>6 DEF IsTable, Filing
  <2> HIDE DEF d, rows
  <2>8. QED
    BY <1>1, <1>2, <1>3, <2>1, <2>2, <2>7, LoadedIsTable, SessionReplaced
<1>11. CASE AssignUngroup(w)
  <2>1. PICK p \in Int : dirty' = [dirty EXCEPT ![w] =
          [i \in DOMAIN seen[w] |->
             [folder |-> Top, sort |-> p + Cardinality(Ahead(w, i))]]]
    BY <1>11, PositionsInt DEF AssignUngroup
  <2> DEFINE d == [i \in DOMAIN seen[w] |->
                     [folder |-> Top, sort |-> p + Cardinality(Ahead(w, i))]]
  <2>2. \A i \in DOMAIN seen[w] : Cardinality(Ahead(w, i)) \in Nat
    BY SeenFinite DEF Ahead
  <2>3. DOMAIN seen[w] \subseteq Nat
    BY <1>2 DEF IsTable
  <2>4. IsTable(d, Filing)
    BY <2>2, <2>3 DEF IsTable, Filing, Top
  <2>5. /\ seen' = [seen EXCEPT ![w] = seen[w]]
        /\ seenFolder' = [seenFolder EXCEPT ![w] = seenFolder[w]]
        /\ place' = [place EXCEPT ![w] = place[w]]
    BY <1>3, <1>11 DEF AssignUngroup
  <2> HIDE DEF d
  <2>6. dirty' = [dirty EXCEPT ![w] = d]
    BY <2>1 DEF d
  <2>7. QED
    BY <1>1, <1>2, <2>4, <2>5, <2>6, SessionReplaced
<1>12. CASE Flush(w) \/ FlushFails(w)
  <2>1. /\ dirty' = [dirty EXCEPT ![w] = Empty]
        /\ seen' = [seen EXCEPT ![w] = seen[w]]
        /\ seenFolder' = [seenFolder EXCEPT ![w] = seenFolder[w]]
        /\ place' = [place EXCEPT ![w] = place[w]]
    BY <1>3, <1>12 DEF Flush, FlushFails, Discard
  <2>2. QED
    BY <1>1, <1>2, <1>4, <2>1, SessionReplaced
<1>13. CASE Audit(w)
  <2>1. /\ seen' = [seen EXCEPT ![w] = Empty] /\ dirty' = [dirty EXCEPT ![w] = Empty]
        /\ seenFolder' = [seenFolder EXCEPT ![w] = NoFolder]
        /\ place' = [place EXCEPT ![w] = 0]
    BY <1>13 DEF Audit
  <2>2. NoFolder \in FolderSeen /\ 0 \in Int
    BY ConstantsAssumption DEF NoFolder, FolderSeen
  <2>3. QED
    BY <1>1, <1>4, <2>1, <2>2, SessionReplaced
<1>14. QED
  BY <1>5, <1>6, <1>7, <1>8, <1>9, <1>10, <1>11, <1>12, <1>13, SessionWriters

(* The initial tables are well-formed, and every session is empty. *)
LEMMA InitTypeOK == Init => TypeOK
<1> SUFFICES ASSUME Init PROVE TypeOK
  OBVIOUS
<1>1. TablesOK
  <2>1. PICK db \in InitialTables :
          /\ favourites = db.favourites /\ nextFavourite = db.nextFavourite
          /\ folders = db.folders       /\ nextFolder = db.nextFolder
    BY DEF Init
  <2>2. WellFormed(db)
    BY InitialAssumption
  <2>3. QED
    BY <2>1, <2>2 DEF WellFormed, TablesOK
<1>2. RequestsOK
  BY NoCallIsCall, ConstantsAssumption DEF Init, RequestsOK, Steps, Replies
<1>3. SessionsOK
  <2>1. IsTable(Empty, Filing) /\ DOMAIN Empty = {}
    BY DEF Empty, IsTable
  <2>2. NoFolder \in FolderSeen
    BY ConstantsAssumption DEF NoFolder, FolderSeen
  <2>3. QED
    BY <2>1, <2>2 DEF Init, SessionsOK
<1>4. QED
  BY <1>1, <1>2, <1>3 DEF TypeOK

(* A stuttering step keeps every type. *)
LEMMA StutterTypeOK == TypeOK /\ UNCHANGED vars => TypeOK'
BY DEF TypeOK, TablesOK, RequestsOK, SessionsOK, vars, tables, session

(* In every reachable state every variable has its type, and no id is in   *)
(* use that its sequence has not handed out.                               *)
THEOREM TypeCorrect == Spec => []TypeOK
<1>1. Init => TypeOK
  BY InitTypeOK
<1>2. TypeOK /\ [Next]_vars => TypeOK'
  <2> SUFFICES ASSUME TypeOK, [Next]_vars PROVE TypeOK'
    OBVIOUS
  <2>1. CASE UNCHANGED vars
    BY <2>1, StutterTypeOK
  <2>2. ASSUME NEW w \in Workers, Step(w) PROVE TypeOK'
    BY <2>2, TablesStep, RequestsStep, SessionsStep DEF TypeOK
  <2>3. QED
    BY <2>1, <2>2 DEF Next
<1>3. QED
  BY <1>1, <1>2, PTL DEF Spec

-----------------------------------------------------------------------------
(* How a step changes the tables *)

(* A row keeps its owner and its layer, and a new one has a new id. *)
LEMMA RowsEvolve ==
  ASSUME TypeOK, NEW w \in Workers, Step(w), NEW i \in DOMAIN favourites'
  PROVE  \/ i = nextFavourite /\ Insert(w)
         \/ /\ i \in DOMAIN favourites
            /\ favourites'[i].user = favourites[i].user
            /\ favourites'[i].layer = favourites[i].layer
<1>1. CASE UNCHANGED tables
  BY <1>1 DEF tables
<1>2. CASE Insert(w)
  BY <1>2 DEF Insert, Appended
<1>3. CASE Delete(w)
  BY <1>3 DEF Delete
<1>4. CASE favourites' = Flushed(w)
  <2>1. i \in DOMAIN favourites /\ favourites[i] \in Favourite
    BY <1>4 DEF Flushed, TypeOK, TablesOK, IsTable
  <2>2. QED
    BY <1>4, <2>1 DEF Flushed, Favourite
<1>5. CASE UNCHANGED favourites
  BY <1>5
<1>6. CASE \E f : favourites' = Unfiled(f)
  <2>1. i \in DOMAIN favourites /\ favourites[i] \in Favourite
    BY <1>6 DEF Unfiled, TypeOK, TablesOK, IsTable
  <2>2. QED
    BY <1>6, <2>1 DEF Unfiled, Favourite
<1>7. QED
  BY <1>1, <1>2, <1>3, <1>4, <1>5, <1>6, TableWriters
     DEF Flush, InsertFolder, FlushFolder, DeleteFolder, Audit

(* A row goes only with a DELETE of that row. *)
LEMMA RowsStay ==
  ASSUME NEW w \in Workers, Step(w), NEW i \in DOMAIN favourites
  PROVE  \/ i \in DOMAIN favourites'
         \/ Delete(w) /\ i = call[w].row
<1>1. CASE UNCHANGED favourites
  BY <1>1
<1>2. CASE Insert(w)
  BY <1>2 DEF Insert, Appended
<1>3. CASE Delete(w)
  BY <1>3 DEF Delete
<1>4. CASE favourites' = Flushed(w)
  BY <1>4 DEF Flushed
<1>5. CASE \E f : favourites' = Unfiled(f)
  BY <1>5 DEF Unfiled
<1>6. QED
  BY <1>1, <1>2, <1>3, <1>4, <1>5, TableWriters
     DEF tables, Flush, InsertFolder, FlushFolder, DeleteFolder, Audit

(* A folder keeps its owner, and a new one has a new id. *)
LEMMA FoldersEvolve ==
  ASSUME TypeOK, NEW w \in Workers, Step(w), NEW f \in DOMAIN folders'
  PROVE  \/ f = nextFolder /\ InsertFolder(w)
         \/ f \in DOMAIN folders /\ folders'[f].user = folders[f].user
<1>1. CASE UNCHANGED folders
  BY <1>1
<1>2. CASE InsertFolder(w)
  BY <1>2 DEF InsertFolder, Appended
<1>3. CASE folders' = [g \in DOMAIN folders \ {call[w].folder} |-> folders[g]]
  BY <1>3
<1>4. CASE /\ call[w].folder \in DOMAIN folders
           /\ folders' = [folders EXCEPT ![call[w].folder] =
                            Patched(w, folders[call[w].folder])]
  <2>1. folders[call[w].folder] \in Folder
    BY <1>4 DEF TypeOK, TablesOK, IsTable
  <2>2. Patched(w, folders[call[w].folder]).user = folders[call[w].folder].user
    BY <2>1 DEF Patched, Folder
  <2>3. QED
    BY <1>4, <2>2 DEF TypeOK, TablesOK, IsTable
<1>5. QED
  BY <1>1, <1>2, <1>3, <1>4, TableWriters
     DEF tables, Insert, Delete, Flush, FlushFolder, DeleteFolder, Audit

(* The sequences never go back. *)
LEMMA SequencesGrow ==
  ASSUME TypeOK, NEW w \in Workers, Step(w)
  PROVE  /\ nextFavourite \in Nat /\ nextFavourite' \in Nat
         /\ nextFavourite <= nextFavourite'
         /\ nextFolder \in Nat /\ nextFolder' \in Nat /\ nextFolder <= nextFolder'
<1>1. /\ nextFavourite' \in {nextFavourite, nextFavourite + 1}
      /\ nextFolder' \in {nextFolder, nextFolder + 1}
  BY TableWriters DEF tables, Insert, Delete, Flush, InsertFolder, FlushFolder,
     DeleteFolder, Audit
<1>2. QED
  BY <1>1 DEF TypeOK, TablesOK

(* A step of one worker leaves the request of every other as it is. *)
LEMMA OthersWait ==
  ASSUME TypeOK, NEW w \in Workers, Step(w), NEW v \in Workers, v # w
  PROVE  /\ pc'[v] = pc[v] /\ call'[v] = call[v] /\ reply'[v] = reply[v]
         /\ seen'[v] = seen[v] /\ dirty'[v] = dirty[v]
<1>1. pc'[v] = pc[v] /\ reply'[v] = reply[v]
  BY DEF Step, Receive, EnsureFinds, EnsureMisses, List, CountFull, CountFree,
         ReadPosition, Insert, InsertConflicts, FindAgain, FindToRemove, Delete,
         CheckFolder, LoadToMove, AssignMove, CheckOrder, AssignOrder, Flush,
         FlushFails, CountFolders, ReadFolderPosition, InsertFolder, LoadFolder,
         FlushFolder, FindToUngroup, LoadToUngroup, AssignUngroup, DeleteFolder,
         Audit, Goto, Answer, TypeOK, RequestsOK
<1>2. call'[v] = call[v]
  BY CallWriters DEF Receive, Audit, TypeOK, RequestsOK
<1>3. seen'[v] = seen[v] /\ dirty'[v] = dirty[v]
  <2>1. /\ seen = [u \in Workers |-> seen[u]]
        /\ dirty = [u \in Workers |-> dirty[u]]
    BY DEF TypeOK, SessionsOK
  <2>2. seen' = seen \/ \E s : seen' = [seen EXCEPT ![w] = s]
    <3>1. CASE LoadToMove(w) \/ LoadToUngroup(w) \/ AssignOrder(w) \/ Audit(w)
      BY <3>1 DEF LoadToMove, LoadToUngroup, AssignOrder, Audit
    <3>2. QED
      BY <3>1, SessionWriters DEF session, ReadPosition, ReadFolderPosition,
         LoadFolder, AssignMove, AssignUngroup, Flush, FlushFails
  <2>3. dirty' = dirty \/ \E d : dirty' = [dirty EXCEPT ![w] = d]
    <3>1. CASE \/ AssignMove(w) \/ AssignOrder(w) \/ AssignUngroup(w)
               \/ Flush(w) \/ FlushFails(w) \/ Audit(w)
      BY <3>1 DEF AssignMove, AssignOrder, AssignUngroup, Flush, FlushFails,
         Audit, Discard
    <3>2. QED
      BY <3>1, SessionWriters DEF session, ReadPosition, ReadFolderPosition,
         LoadFolder, LoadToMove, LoadToUngroup
  <2>4. QED
    BY <2>1, <2>2, <2>3
<1>4. QED
  BY <1>1, <1>2, <1>3

-----------------------------------------------------------------------------
(* The requests that do not take the step *)

(* A folder vouched for stays vouched for while its id is not handed out    *)
(* again.                                                                   *)
LEMMA VouchedStays ==
  ASSUME TypeOK, NEW w \in Workers, Step(w), NEW v \in Workers,
         Vouched(v), call'[v] = call[v]
  PROVE  Vouched(v)'
<1>1. SUFFICES ASSUME call[v].folder # Top
               PROVE  /\ call[v].folder \in 1..(nextFolder' - 1)
                      /\ call[v].folder \in DOMAIN folders' =>
                           folders'[call[v].folder].user = call[v].user
  BY DEF Vouched, Top
<1>2. /\ call[v].folder \in 1..(nextFolder - 1)
      /\ call[v].folder \in DOMAIN folders =>
           folders[call[v].folder].user = call[v].user
  BY <1>1 DEF Vouched
<1>3. call[v].folder \in 1..(nextFolder' - 1)
  BY <1>2, SequencesGrow, HandedOutGrows
<1>4. call[v].folder # nextFolder
  BY <1>2, SequencesGrow
<1>5. QED
  BY <1>2, <1>3, <1>4, FoldersEvolve

(* A panel that has been seeded stays seeded: no removal takes the row.     *)
LEMMA SeededStays ==
  ASSUME TypeOK, Sound, NEW w \in Workers, Step(w), NEW user,
         Starred(user, SeededLayer)
  PROVE  Starred(user, SeededLayer)'
<1>1. PICK i \in DOMAIN favourites : /\ favourites[i].user = user
                                     /\ favourites[i].layer = SeededLayer
  BY DEF Starred, OwnedBy
<1>2. ~(Delete(w) /\ i = call[w].row)
  BY <1>1 DEF Delete, At, Sound, SoundRequest, Removable
<1>3. i \in DOMAIN favourites' /\ i # nextFavourite
  BY <1>1, <1>2, RowsStay DEF TypeOK, TablesOK
<1>4. favourites'[i].user = user /\ favourites'[i].layer = SeededLayer
  BY <1>1, <1>3, RowsEvolve
<1>5. QED
  BY <1>3, <1>4 DEF Starred, OwnedBy

(* What a request knows of the tables survives the steps of the others.     *)
LEMMA SoundOthers ==
  ASSUME TypeOK, Sound, NEW w \in Workers, Step(w), NEW v \in Workers, v # w
  PROVE  SoundRequest(v)'
<1>1. /\ pc'[v] = pc[v] /\ call'[v] = call[v]
      /\ seen'[v] = seen[v] /\ dirty'[v] = dirty[v]
  BY OthersWait
<1>2. SoundRequest(v)
  BY DEF Sound
<1>3. Vouched(v) => Vouched(v)'
  BY <1>1, VouchedStays
<1>4. OnItsWay(v)' /\ SeedsOrStars(v)'
  BY <1>1, <1>2 DEF SoundRequest, OnItsWay, SeedsOrStars, StepsOf
<1>5. FolderChecked(v)'
  BY <1>1, <1>2, <1>3 DEF SoundRequest, FolderChecked
<1>6. LoadedOwn(v)'
  <2>1. ASSUME NEW i \in DOMAIN seen[v] \cap DOMAIN favourites'
        PROVE  favourites'[i].user = call[v].user
    <3>1. i # nextFavourite
      BY DEF TypeOK, TablesOK, SessionsOK
    <3>2. i \in DOMAIN favourites /\ favourites'[i].user = favourites[i].user
      BY <3>1, RowsEvolve
    <3>3. QED
      BY <1>2, <3>2 DEF SoundRequest, LoadedOwn
  <2>2. QED
    BY <1>1, <1>2, <2>1 DEF SoundRequest, LoadedOwn
<1>7. AssignedLoaded(v)'
  BY <1>1, <1>2, <1>3 DEF SoundRequest, AssignedLoaded
<1>8. Removable(v)'
  <2>1. SUFFICES ASSUME pc[v] = "delete"
                 PROVE  LET i == call[v].row
                        IN /\ i \in 1..(nextFavourite' - 1)
                           /\ i \in DOMAIN favourites' =>
                                /\ favourites'[i].user = call[v].user
                                /\ favourites'[i].layer # SeededLayer
    BY <1>1 DEF Removable
  <2> DEFINE i == call[v].row
  <2>2. /\ i \in 1..(nextFavourite - 1)
        /\ i \in DOMAIN favourites => /\ favourites[i].user = call[v].user
                                      /\ favourites[i].layer # SeededLayer
    BY <1>2, <2>1 DEF SoundRequest, Removable
  <2>3. i \in 1..(nextFavourite' - 1)
    BY <2>2, SequencesGrow, HandedOutGrows
  <2>4. i # nextFavourite
    BY <2>2, SequencesGrow
  <2>5. QED
    BY <2>2, <2>3, <2>4, RowsEvolve
<1>9. Seeded(v)'
  BY <1>1, <1>2, SeededStays DEF SoundRequest, Seeded
<1>10. QED
  BY <1>4, <1>5, <1>6, <1>7, <1>8, <1>9 DEF SoundRequest

-----------------------------------------------------------------------------
(* The request that takes the step *)

(* A request that is received starts as it should.                          *)
LEMMA ReceivedSound ==
  ASSUME TypeOK, Sound, NEW w \in Workers, Receive(w)
  PROVE  /\ OnItsWay(w)' /\ SeedsOrStars(w)'
         /\ pc'[w] \in {"ensure", "count", "find", "own", "folderCount",
                        "folderLoad", "ungroupFind"}
         /\ seen'[w] = seen[w] /\ dirty'[w] = dirty[w]
         /\ DOMAIN seen[w] = {} /\ DOMAIN dirty[w] = {}
<1>1. PICK op \in Ops, user \in Users : \E c \in Incoming(op, user) :
        call' = [call EXCEPT ![w] = c] /\ Goto(w, FirstStep[op])
  BY DEF Receive
<1>2. PICK c \in Incoming(op, user) :
        call' = [call EXCEPT ![w] = c] /\ Goto(w, FirstStep[op])
  BY <1>1
<1>3. op \in AllOps
  BY ConstantsAssumption
<1>4. call'[w] = c /\ pc'[w] = FirstStep[op]
  BY <1>2 DEF Goto, TypeOK, RequestsOK
<1>5. c.op = op /\ (op # "add" => c.layer = SeededLayer)
  BY DEF Incoming
<1>6. OnItsWay(w)' /\ SeedsOrStars(w)'
  BY <1>3, <1>4, <1>5 DEF OnItsWay, SeedsOrStars, StepsOf, FirstStep, AllOps
<1>7. pc'[w] \in {"ensure", "count", "find", "own", "folderCount",
                 "folderLoad", "ungroupFind"}
  BY <1>3, <1>4 DEF FirstStep, AllOps
<1>8. pc[w] = "idle" /\ UNCHANGED <<seen, dirty>>
  BY DEF Receive, At, session
<1>9. DOMAIN seen[w] = {} /\ DOMAIN dirty[w] = {}
  BY <1>8 DEF Sound, SoundRequest, LoadedOwn, AssignedLoaded
<1>10. QED
  BY <1>6, <1>7, <1>8, <1>9

(* A worker that has ended a request is idle with nothing loaded.           *)
LEMMA EndedSound ==
  ASSUME TypeOK, NEW w \in Workers, Audit(w)
  PROVE  SoundRequest(w)'
<1>1. /\ pc'[w] = "idle" /\ call'[w] = NoCall
      /\ seen'[w] = Empty /\ dirty'[w] = Empty
  BY DEF Audit, TypeOK, RequestsOK, SessionsOK
<1>2. /\ NoCall.op = "none" /\ NoCall.layer = SeededLayer
      /\ DOMAIN Empty = {}
  BY DEF NoCall, Empty
<1>3. OnItsWay(w)' /\ SeedsOrStars(w)'
  BY <1>1, <1>2 DEF OnItsWay, SeedsOrStars, StepsOf
<1>4. FolderChecked(w)' /\ LoadedOwn(w)' /\ AssignedLoaded(w)'
  BY <1>1, <1>2 DEF FolderChecked, LoadedOwn, AssignedLoaded
<1>5. Removable(w)' /\ Seeded(w)'
  BY <1>1, <1>2 DEF Removable, Seeded
<1>6. QED
  BY <1>3, <1>4, <1>5 DEF SoundRequest

(* Between the two, what was asked stays and the steps of its operation     *)
(* follow each other.                                                       *)
LEMMA UnderWay ==
  ASSUME TypeOK, Sound, NEW w \in Workers, Step(w), ~Receive(w), ~Audit(w)
  PROVE  /\ call'[w] = call[w] /\ OnItsWay(w)' /\ SeedsOrStars(w)'
         /\ pc[w] # "idle" /\ pc'[w] # "idle" /\ pc'[w] # pc[w]
<1>1. call' = call
  BY CallWriters
<1>2. /\ call[w].op \in AllOps \cup {"none"} /\ pc[w] \in StepsOf[call[w].op]
      /\ pc \in [Workers -> Steps]
  BY ConstantsAssumption DEF Sound, SoundRequest, OnItsWay, TypeOK, RequestsOK, Call
<1> DEFINE Right == /\ pc'[w] \in StepsOf[call[w].op]
                    /\ pc[w] # "idle" /\ pc'[w] # "idle" /\ pc'[w] # pc[w]
<1>3. CASE \/ EnsureFinds(w) \/ EnsureMisses(w) \/ List(w) \/ CountFull(w)
           \/ CountFree(w) \/ ReadPosition(w) \/ Insert(w)
           \/ InsertConflicts(w) \/ FindAgain(w)
  <2>1. Right
    BY <1>2, <1>3 DEF EnsureFinds, EnsureMisses, List, CountFull, CountFree,
       ReadPosition, Insert, InsertConflicts, FindAgain, At, Goto, Answer,
       StepsOf, AllOps
  <2>2. QED
    BY <1>1, <2>1 DEF OnItsWay, SeedsOrStars, Sound, SoundRequest
<1>4. CASE \/ FindToRemove(w) \/ Delete(w) \/ CheckFolder(w) \/ LoadToMove(w)
           \/ AssignMove(w) \/ CheckOrder(w) \/ AssignOrder(w)
           \/ Flush(w) \/ FlushFails(w)
  <2>1. Right
    BY <1>2, <1>4 DEF FindToRemove, Delete, CheckFolder, LoadToMove, AssignMove,
       CheckOrder, AssignOrder, Flush, FlushFails, At, Goto, Answer,
       StepsOf, AllOps
  <2>2. QED
    BY <1>1, <2>1 DEF OnItsWay, SeedsOrStars, Sound, SoundRequest
<1>5. CASE \/ CountFolders(w) \/ ReadFolderPosition(w) \/ InsertFolder(w)
           \/ LoadFolder(w) \/ FlushFolder(w) \/ FindToUngroup(w)
           \/ LoadToUngroup(w) \/ AssignUngroup(w) \/ DeleteFolder(w)
  <2>1. Right
    BY <1>2, <1>5 DEF CountFolders, ReadFolderPosition, InsertFolder, LoadFolder,
       FlushFolder, FindToUngroup, LoadToUngroup, AssignUngroup, DeleteFolder,
       At, Goto, Answer, StepsOf, AllOps
  <2>2. QED
    BY <1>1, <2>1 DEF OnItsWay, SeedsOrStars, Sound, SoundRequest
<1>6. QED
  BY <1>3, <1>4, <1>5 DEF Step

(* The folder of a request is looked up before it is relied on.             *)
LEMMA FolderCheckedSelf ==
  ASSUME TypeOK, Sound, NEW w \in Workers, Step(w), ~Receive(w), ~Audit(w)
  PROVE  FolderChecked(w)'
<1>1. call'[w] = call[w] /\ pc \in [Workers -> Steps]
  BY UnderWay DEF TypeOK, RequestsOK
<1>2. FolderChecked(w) /\ pc[w] \in StepsOf[call[w].op]
  BY DEF Sound, SoundRequest, OnItsWay
<1>3. CASE Vouched(w)
  BY <1>1, <1>3, VouchedStays DEF FolderChecked
<1>4. CASE CheckFolder(w) \/ LoadFolder(w) \/ FindToUngroup(w)
  <2>1. CASE call[w].folder = Top \/ OwnFolder(call[w].user, call[w].folder)
    BY <2>1, <1>3 DEF OwnFolder, Vouched, TypeOK, TablesOK
  <2>2. CASE ~(call[w].folder = Top \/ OwnFolder(call[w].user, call[w].folder))
    <3>1. pc'[w] = "audit"
      BY <1>1, <1>4, <2>2 DEF CheckFolder, LoadFolder, FindToUngroup, Answer
    <3>2. QED
      BY <3>1 DEF FolderChecked
  <2>3. QED
    BY <2>1, <2>2
<1>5. CASE \/ LoadToMove(w) \/ AssignMove(w) \/ Flush(w) \/ FlushFolder(w)
           \/ LoadToUngroup(w) \/ AssignUngroup(w) \/ DeleteFolder(w)
  <2>1. CASE call[w].op = "deleteFolder" \/ pc[w] # "flush"
    BY <1>2, <1>3, <1>5, <2>1 DEF FolderChecked, At, LoadToMove, AssignMove, Flush,
       FlushFolder, LoadToUngroup, AssignUngroup, DeleteFolder
  <2>2. CASE call[w].op # "deleteFolder" /\ pc[w] = "flush"
    <3>1. pc'[w] = "audit"
      BY <1>1, <1>5, <2>2 DEF At, LoadToMove, AssignMove, Flush,
         FlushFolder, LoadToUngroup, AssignUngroup, DeleteFolder, Answer
    <3>2. QED
      BY <3>1 DEF FolderChecked
  <2>3. QED
    BY <2>1, <2>2
<1>6. CASE \/ EnsureFinds(w) \/ EnsureMisses(w) \/ List(w) \/ CountFull(w)
           \/ CountFree(w) \/ ReadPosition(w) \/ Insert(w)
           \/ InsertConflicts(w) \/ FindAgain(w) \/ FindToRemove(w) \/ Delete(w)
           \/ CheckOrder(w) \/ AssignOrder(w) \/ FlushFails(w)
           \/ CountFolders(w) \/ ReadFolderPosition(w) \/ InsertFolder(w)
  <2>1. pc'[w] \in {"list", "position", "audit", "insert", "refind", "delete",
                   "reload", "flush", "folderPosition", "folderInsert"}
    BY <1>1, <1>6 DEF EnsureFinds, EnsureMisses, List, CountFull, CountFree,
       ReadPosition, Insert, InsertConflicts, FindAgain, FindToRemove, Delete,
       CheckOrder, AssignOrder, FlushFails, CountFolders, ReadFolderPosition,
       InsertFolder, Goto, Answer
  <2>2. ASSUME pc'[w] = "flush" PROVE call[w].op # "deleteFolder"
    <3>1. pc[w] = "reload"
      BY <1>1, <1>6, <2>2 DEF EnsureFinds, EnsureMisses, List, CountFull, CountFree,
         ReadPosition, Insert, InsertConflicts, FindAgain, FindToRemove, Delete,
         CheckOrder, AssignOrder, FlushFails, CountFolders, ReadFolderPosition,
         InsertFolder, Goto, Answer, At
    <3>2. QED
      BY <1>2, <3>1 DEF StepsOf
  <2>3. QED
    BY <1>1, <2>1, <2>2 DEF FolderChecked
<1>7. QED
  BY <1>4, <1>5, <1>6 DEF Step

(* What a request loads is its user's.                                      *)
LEMMA LoadedOwnSelf ==
  ASSUME TypeOK, Sound, NEW w \in Workers, Step(w), ~Receive(w), ~Audit(w)
  PROVE  LoadedOwn(w)'
<1>1. call'[w] = call[w] /\ pc'[w] # "idle"
  BY UnderWay
<1>2. LoadedOwn(w)
  BY DEF Sound, SoundRequest
<1>3. CASE seen'[w] = seen[w]
  <2>1. ASSUME NEW i \in DOMAIN seen[w] \cap DOMAIN favourites'
        PROVE  favourites'[i].user = call[w].user
    <3>1. i # nextFavourite
      BY DEF TypeOK, TablesOK, SessionsOK
    <3>2. i \in DOMAIN favourites /\ favourites'[i].user = favourites[i].user
      BY <3>1, RowsEvolve
    <3>3. QED
      BY <1>2, <3>2 DEF LoadedOwn
  <2>2. pc'[w] = "target" => DOMAIN seen'[w] = {call[w].row}
    <3>1. CASE LoadToMove(w)
      <4>1. CASE call[w].row \in OwnedBy(call[w].user)
        BY <3>1, <4>1 DEF LoadToMove, Loaded, TypeOK, SessionsOK
      <4>2. CASE call[w].row \notin OwnedBy(call[w].user)
        BY <3>1, <4>2 DEF LoadToMove, Answer, TypeOK, RequestsOK
      <4>3. QED
        BY <4>1, <4>2
    <3>2. CASE ~LoadToMove(w)
      BY <3>2 DEF Step, EnsureFinds, EnsureMisses, List, CountFull, CountFree,
         ReadPosition, Insert, InsertConflicts, FindAgain, FindToRemove, Delete,
         CheckFolder, AssignMove, CheckOrder, AssignOrder, Flush,
         FlushFails, CountFolders, ReadFolderPosition, InsertFolder, LoadFolder,
         FlushFolder, FindToUngroup, LoadToUngroup, AssignUngroup, DeleteFolder,
         Goto, Answer, TypeOK, RequestsOK
    <3>3. QED
      BY <3>1, <3>2
  <2>3. QED
    BY <1>1, <1>3, <2>1, <2>2 DEF LoadedOwn
<1>4. CASE /\ UNCHANGED favourites
           /\ \E ids \in SUBSET OwnedBy(call[w].user) :
                /\ seen'[w] = Loaded(ids)
                /\ pc'[w] = "target" => ids = {call[w].row}
  BY <1>1, <1>4 DEF LoadedOwn, Loaded, OwnedBy
<1>5. CASE LoadToMove(w)
  <2>1. CASE call[w].row \in OwnedBy(call[w].user)
    BY <1>4, <1>5, <2>1 DEF LoadToMove, TypeOK, SessionsOK, tables
  <2>2. CASE call[w].row \notin OwnedBy(call[w].user)
    BY <1>3, <1>5, <2>2 DEF LoadToMove
  <2>3. QED
    BY <2>1, <2>2
<1>6. CASE LoadToUngroup(w) \/ AssignOrder(w)
  <2>1. UNCHANGED favourites /\ pc'[w] # "target"
    BY <1>6 DEF LoadToUngroup, AssignOrder, tables, Goto, Answer, TypeOK, RequestsOK
  <2>2. seen'[w] = Loaded(Container(call[w].user, call[w].folder))
    BY <1>6 DEF LoadToUngroup, AssignOrder, TypeOK, SessionsOK
  <2>3. Container(call[w].user, call[w].folder) \subseteq OwnedBy(call[w].user)
    BY DEF Container
  <2>4. QED
    BY <1>4, <2>1, <2>2, <2>3
<1>7. CASE ~(LoadToMove(w) \/ LoadToUngroup(w) \/ AssignOrder(w))
  BY <1>3, <1>7, SessionWriters DEF session, ReadPosition, ReadFolderPosition,
     LoadFolder, AssignMove, AssignUngroup, Flush, FlushFails
<1>8. QED
  BY <1>5, <1>6, <1>7

(* Some steps tell the operation.                                           *)
LEMMA StepTellsOp ==
  ASSUME TypeOK, Sound, NEW w \in Workers
  PROVE  /\ pc[w] = "target" => call[w].op = "move"
         /\ pc[w] \in {"bottom", "folderDelete"} => call[w].op = "deleteFolder"
         /\ pc[w] = "flush" => call[w].op \in {"move", "reorder", "deleteFolder"}
         /\ pc[w] = "delete" => call[w].op = "remove"
         /\ pc[w] \in {"check", "reload"} => call[w].op = "reorder"
<1>1. call[w].op \in AllOps \cup {"none"}
  BY ConstantsAssumption DEF TypeOK, RequestsOK, Call
<1>2. pc[w] \in StepsOf[call[w].op]
  BY DEF Sound, SoundRequest, OnItsWay
<1>3. QED
  BY <1>1, <1>2 DEF AllOps, StepsOf

(* What a request assigns it has loaded, and it files only where it was     *)
(* asked to.                                                                *)
LEMMA AssignedLoadedSelf ==
  ASSUME TypeOK, Sound, NEW w \in Workers, Step(w), ~Receive(w), ~Audit(w)
  PROVE  AssignedLoaded(w)'
<1>1. call'[w] = call[w] /\ pc'[w] # pc[w]
  BY UnderWay
<1>2. AssignedLoaded(w) /\ LoadedOwn(w) /\ FolderChecked(w)
  BY DEF Sound, SoundRequest
<1>3. /\ pc[w] = "target" => call[w].op = "move"
      /\ pc[w] = "bottom" => call[w].op = "deleteFolder"
  BY StepTellsOp
<1> USE DEF TypeOK, RequestsOK, SessionsOK
<1>4. CASE AssignMove(w)
  <2>1. PICK p : dirty'[w] = [i \in {call[w].row} |->
                                [folder |-> call[w].folder, sort |-> p]]
    BY <1>4 DEF AssignMove
  <2>2. pc[w] = "target" /\ pc'[w] = "flush" /\ seen'[w] = seen[w]
    BY <1>4 DEF AssignMove, At, Goto
  <2>3. call[w].op = "move"
    BY <1>3, <2>2
  <2>4. Vouched(w)'
    BY <1>1, <1>2, <2>2, VouchedStays DEF FolderChecked
  <2>5. QED
    BY <1>1, <1>2, <2>1, <2>2, <2>3, <2>4 DEF AssignedLoaded, LoadedOwn
<1>5. CASE AssignOrder(w)
  <2> DEFINE order == call[w].order
             rows  == Container(call[w].user, call[w].folder)
             done  == Reached(order, rows)
  <2>1. /\ seen'[w] = Loaded(rows) /\ pc'[w] \in {"flush", "audit"}
        /\ dirty'[w] = [i \in {order[k] : k \in done} |->
                          [folder |-> favourites[i].folder,
                           sort |-> CHOOSE k \in done : order[k] = i]]
    BY <1>5 DEF AssignOrder, Goto, Answer
  <2>2. order \in Seq(Nat)
    <3>1. order \in Orders \cup {<<>>}
      BY DEF Call
    <3>2. Orders \subseteq Seq(Nat)
      BY ConstantsAssumption, Zenon DEF ConstantsAssumption
    <3>3. <<>> \in Seq(Nat)
      OBVIOUS
    <3>4. QED
      BY <3>1, <3>2, <3>3, Zenon
  <2>3. ASSUME NEW k \in done
        PROVE  order[k] \in rows
    <3>1. k \in 1..Len(order) /\ k \in 1..k
      BY <2>2, <2>3 DEF Reached
    <3>2. QED
      BY <2>3, <3>1 DEF Reached
  <2>4. ASSUME NEW i \in DOMAIN dirty'[w]
        PROVE  i \in rows /\ dirty'[w][i].folder = Loaded(rows)[i].folder
    <3>1. i \in {order[k] : k \in done}
      BY <2>1, <2>4
    <3>2. i \in rows
      BY <2>3, <3>1
    <3>3. QED
      BY <2>1, <3>1, <3>2 DEF Loaded
  <2>5. DOMAIN Loaded(rows) = rows
    BY DEF Loaded
  <2> HIDE DEF order, rows, done
  <2>6. QED
    BY <1>1, <2>1, <2>4, <2>5 DEF AssignedLoaded
<1>6. CASE AssignUngroup(w)
  <2>1. PICK p : dirty'[w] = [i \in DOMAIN seen[w] |->
                      [folder |-> Top, sort |-> p + Cardinality(Ahead(w, i))]]
    BY <1>6 DEF AssignUngroup
  <2>2. pc[w] = "bottom" /\ pc'[w] = "flush" /\ seen'[w] = seen[w]
    BY <1>6 DEF AssignUngroup, At, Goto
  <2>3. call[w].op = "deleteFolder"
    BY <1>3, <2>2
  <2>4. QED
    BY <1>1, <2>1, <2>2, <2>3 DEF AssignedLoaded
<1>7. CASE Flush(w) \/ FlushFails(w)
  <2>1. dirty'[w] = Empty
    BY <1>7 DEF Flush, FlushFails, Discard
  <2>2. QED
    BY <2>1 DEF AssignedLoaded, Empty
<1>8. CASE ~(AssignMove(w) \/ AssignOrder(w) \/ AssignUngroup(w)
             \/ Flush(w) \/ FlushFails(w))
  <2>1. dirty'[w] = dirty[w]
    BY <1>8, SessionWriters DEF session, ReadPosition, ReadFolderPosition,
       LoadFolder, LoadToMove, LoadToUngroup
  <2>2. pc[w] \notin {"flush", "audit"}
    BY <1>8 DEF Step, EnsureFinds, EnsureMisses, List, CountFull, CountFree,
       ReadPosition, Insert, InsertConflicts, FindAgain, FindToRemove, Delete,
       CheckFolder, LoadToMove, CheckOrder, CountFolders, ReadFolderPosition,
       InsertFolder, LoadFolder, FlushFolder, FindToUngroup, LoadToUngroup,
       DeleteFolder, At
  <2>3. DOMAIN dirty'[w] = {}
    BY <1>2, <2>1, <2>2 DEF AssignedLoaded
  <2>4. QED
    BY <2>3 DEF AssignedLoaded
<1>9. QED
  BY <1>4, <1>5, <1>6, <1>7, <1>8

(* What is about to be removed has just been looked at.                     *)
LEMMA RemovableSelf ==
  ASSUME TypeOK, Sound, NEW w \in Workers, Step(w), ~Receive(w), ~Audit(w)
  PROVE  Removable(w)'
<1>1. call'[w] = call[w]
  BY UnderWay
<1>2. CASE FindToRemove(w)
  <2>1. UNCHANGED tables
    BY <1>2 DEF FindToRemove
  <2>2. pc'[w] = "delete" => /\ call[w].row \in OwnedBy(call[w].user)
                             /\ ~restricted(call[w].row)
    BY <1>2 DEF FindToRemove, Answer, TypeOK, RequestsOK
  <2>3. QED
    BY <1>1, <2>1, <2>2
       DEF Removable, tables, OwnedBy, restricted, TypeOK, TablesOK
<1>3. CASE ~FindToRemove(w)
  <2>1. pc'[w] # "delete"
    BY <1>3 DEF Step, EnsureFinds, EnsureMisses, List, CountFull, CountFree,
       ReadPosition, Insert, InsertConflicts, FindAgain, Delete,
       CheckFolder, LoadToMove, AssignMove, CheckOrder, AssignOrder, Flush,
       FlushFails, CountFolders, ReadFolderPosition, InsertFolder, LoadFolder,
       FlushFolder, FindToUngroup, LoadToUngroup, AssignUngroup, DeleteFolder,
       Goto, Answer, TypeOK, RequestsOK
  <2>2. QED
    BY <2>1 DEF Removable
<1>4. QED
  BY <1>2, <1>3

(* A list request lists only once the seeded layer is there.                *)
LEMMA SeededSelf ==
  ASSUME TypeOK, Sound, NEW w \in Workers, Step(w), ~Receive(w), ~Audit(w)
  PROVE  Seeded(w)'
<1>1. call'[w] = call[w] /\ pc'[w] \in StepsOf[call[w].op]
  BY UnderWay DEF OnItsWay
<1>2. Seeded(w) /\ SeedsOrStars(w) /\ pc[w] \in StepsOf[call[w].op]
  BY DEF Sound, SoundRequest, OnItsWay
<1>3. call[w].op \in AllOps \cup {"none"}
  BY ConstantsAssumption DEF TypeOK, RequestsOK, Call
<1>4. SUFFICES ASSUME call[w].op = "list", pc'[w] \in {"list", "refind", "audit"}
               PROVE  Starred(call[w].user, SeededLayer)'
  BY <1>1, <1>3 DEF Seeded, StepsOf, AllOps
<1>5. call[w].layer = SeededLayer
  BY <1>2, <1>4 DEF SeedsOrStars
<1>6. CASE Starred(call[w].user, SeededLayer)
  <2> DEFINE user == call[w].user
  <2>1. call'[w].user = user
    BY <1>1
  <2> HIDE DEF user
  <2>2. \E i \in DOMAIN favourites' : /\ favourites'[i].user = user
                                     /\ favourites'[i].layer = SeededLayer
    BY <1>6, SeededStays DEF user, Starred, OwnedBy
  <2>3. QED
    BY <2>1, <2>2 DEF Starred, OwnedBy
<1>7. CASE Insert(w)
  <2>1. /\ nextFavourite \in DOMAIN favourites'
        /\ favourites'[nextFavourite].user = call[w].user
        /\ favourites'[nextFavourite].layer = SeededLayer
    BY <1>5, <1>7 DEF Insert, Appended
  <2>2. QED
    BY <1>1, <2>1 DEF Starred, OwnedBy
<1>8. CASE EnsureFinds(w) \/ InsertConflicts(w)
  BY <1>5, <1>6, <1>8 DEF EnsureFinds, InsertConflicts, Duplicate
<1>9. CASE FindAgain(w) \/ List(w)
  BY <1>2, <1>4, <1>6, <1>9 DEF FindAgain, List, At, Seeded
<1>10. CASE EnsureMisses(w) \/ ReadPosition(w)
  BY <1>4, <1>10 DEF EnsureMisses, ReadPosition, Goto, TypeOK, RequestsOK
<1>11. pc[w] \in {"ensure", "position", "insert", "refind", "list", "audit"}
  BY <1>2, <1>4 DEF StepsOf
<1>12. QED
  BY <1>7, <1>8, <1>9, <1>10, <1>11 DEF Step, CountFull, CountFree,
     FindToRemove, Delete, CheckFolder, LoadToMove, AssignMove, CheckOrder,
     AssignOrder, Flush, FlushFails, CountFolders, ReadFolderPosition,
     InsertFolder, LoadFolder, FlushFolder, FindToUngroup, LoadToUngroup,
     AssignUngroup, DeleteFolder, At

-----------------------------------------------------------------------------
(* The tables, and the invariant as a whole *)

(* No step files a layer in a folder that is not its owner's.               *)
LEMMA FiledStep ==
  ASSUME TypeOK, Sound, NEW w \in Workers, Step(w)
  PROVE  FiledInOwnFolder'
<1>1. FiledInOwnFolder
  BY DEF Sound
<1>2. CASE UNCHANGED <<favourites, folders>>
  BY <1>1, <1>2 DEF FiledInOwnFolder
<1>3. CASE Insert(w)
  <2>1. UNCHANGED folders
    BY <1>3 DEF Insert
  <2>2. \A i \in DOMAIN favourites' :
          \/ i \in DOMAIN favourites /\ favourites'[i] = favourites[i]
          \/ favourites'[i].folder = Top
    BY <1>3 DEF Insert, Appended
  <2>3. QED
    BY <1>1, <2>1, <2>2 DEF FiledInOwnFolder
<1>4. CASE Delete(w)
  BY <1>1, <1>4 DEF Delete, FiledInOwnFolder
<1>5. CASE favourites' = Flushed(w) /\ Flushable(w) /\ UNCHANGED folders
  <2>1. ASSUME NEW i \in DOMAIN favourites', favourites'[i].folder # Top
        PROVE  /\ favourites'[i].folder \in DOMAIN folders
               /\ folders[favourites'[i].folder].user = favourites'[i].user
    <3>1. i \in DOMAIN favourites /\ favourites[i] \in Favourite
      BY <1>5 DEF Flushed, TypeOK, TablesOK, IsTable
    <3>2. CASE i \in Refiled(w)
      <4>1. i \in Changed(w) /\ i \in DOMAIN dirty[w]
            /\ dirty[w][i].folder # seen[w][i].folder
        BY <3>2 DEF Refiled, Changed
      <4>2. favourites'[i].folder = dirty[w][i].folder
            /\ favourites'[i].user = favourites[i].user
        BY <1>5, <3>1, <3>2, <4>1 DEF Flushed, Favourite
      <4>3. dirty[w][i].folder = call[w].folder /\ Vouched(w)
        BY <2>1, <4>1, <4>2 DEF Sound, SoundRequest, AssignedLoaded
      <4>4. dirty[w][i].folder \in DOMAIN folders
        BY <1>5, <2>1, <3>2, <4>2 DEF Flushable
      <4>5. favourites[i].user = call[w].user
        BY <3>1, <4>1 DEF Sound, SoundRequest, AssignedLoaded, LoadedOwn
      <4>6. QED
        BY <2>1, <4>2, <4>3, <4>4, <4>5 DEF Vouched
    <3>3. CASE i \notin Refiled(w)
      <4>1. favourites'[i].folder = favourites[i].folder
            /\ favourites'[i].user = favourites[i].user
        BY <1>5, <3>1, <3>3 DEF Flushed, Favourite
      <4>2. QED
        BY <1>1, <2>1, <3>1, <4>1 DEF FiledInOwnFolder
    <3>4. QED
      BY <3>2, <3>3
  <2>2. QED
    BY <1>5, <2>1 DEF FiledInOwnFolder
<1>6. CASE InsertFolder(w) \/ FlushFolder(w)
  <2>1. UNCHANGED favourites
    BY <1>6 DEF InsertFolder, FlushFolder
  <2>2. ASSUME NEW f \in DOMAIN folders
        PROVE  f \in DOMAIN folders' /\ folders'[f].user = folders[f].user
    <3>1. f \in DOMAIN folders'
      BY <1>6 DEF InsertFolder, FlushFolder, Appended
    <3>2. f # nextFolder
      BY DEF TypeOK, TablesOK
    <3>3. QED
      BY <3>1, <3>2, FoldersEvolve
  <2>3. QED
    BY <1>1, <2>1, <2>2 DEF FiledInOwnFolder
<1>7. CASE /\ folders' = [g \in DOMAIN folders \ {call[w].folder} |-> folders[g]]
           /\ favourites' = Unfiled(call[w].folder)
  <2>1. ASSUME NEW i \in DOMAIN favourites', favourites'[i].folder # Top
        PROVE  /\ favourites'[i].folder \in DOMAIN folders'
               /\ folders'[favourites'[i].folder].user = favourites'[i].user
    <3>1. i \in DOMAIN favourites /\ favourites[i] \in Favourite
      BY <1>7 DEF Unfiled, TypeOK, TablesOK, IsTable
    <3>2. favourites[i].folder # call[w].folder
      BY <1>7, <2>1, <3>1 DEF Unfiled, Favourite
    <3>3. favourites'[i] = favourites[i]
      BY <1>7, <3>1, <3>2 DEF Unfiled
    <3>4. QED
      BY <1>1, <1>7, <2>1, <3>1, <3>2, <3>3 DEF FiledInOwnFolder
  <2>2. QED
    BY <2>1 DEF FiledInOwnFolder
<1>8. QED
  BY <1>2, <1>3, <1>4, <1>5, <1>6, <1>7, TableWriters
     DEF tables, Flush, DeleteFolder, Audit

(* Sound is inductive.                                                      *)
LEMMA SoundStep ==
  ASSUME TypeOK, Sound, NEW w \in Workers, Step(w)
  PROVE  Sound'
<1>1. ASSUME NEW v \in Workers
      PROVE  SoundRequest(v)'
  <2>1. CASE v # w
    BY <2>1, SoundOthers
  <2>2. CASE v = w /\ Audit(w)
    BY <2>2, EndedSound
  <2>3. CASE v = w /\ Receive(w)
    <3>1. OnItsWay(w)' /\ SeedsOrStars(w)'
      BY <2>3, ReceivedSound
    <3>2. FolderChecked(w)' /\ LoadedOwn(w)' /\ AssignedLoaded(w)'
      BY <2>3, ReceivedSound DEF FolderChecked, LoadedOwn, AssignedLoaded
    <3>3. Removable(w)' /\ Seeded(w)'
      BY <2>3, ReceivedSound DEF Removable, Seeded
    <3>4. QED
      BY <2>3, <3>1, <3>2, <3>3 DEF SoundRequest
  <2>4. CASE v = w /\ ~Audit(w) /\ ~Receive(w)
    <3>1. OnItsWay(w)' /\ SeedsOrStars(w)'
      BY <2>4, UnderWay
    <3>2. QED
      BY <2>4, <3>1, FolderCheckedSelf, LoadedOwnSelf, AssignedLoadedSelf,
         RemovableSelf, SeededSelf DEF SoundRequest
  <2>5. QED
    BY <2>1, <2>2, <2>3, <2>4
<1>2. QED
  BY <1>1, FiledStep DEF Sound

(* Sound holds initially.                                                   *)
LEMMA SoundInit == Init => Sound
<1> SUFFICES ASSUME Init PROVE Sound
  OBVIOUS
<1>1. FiledInOwnFolder
  <2>1. PICK db \in InitialTables :
          favourites = db.favourites /\ folders = db.folders
    BY DEF Init
  <2>2. WellFormed(db)
    BY InitialAssumption
  <2>3. QED
    BY <2>1, <2>2 DEF WellFormed, FiledInOwnFolder
<1>2. ASSUME NEW w \in Workers
      PROVE  SoundRequest(w)
  <2>1. /\ pc[w] = "idle" /\ call[w] = NoCall
        /\ seen[w] = Empty /\ dirty[w] = Empty
    BY DEF Init
  <2>2. /\ NoCall.op = "none" /\ NoCall.layer = SeededLayer
        /\ DOMAIN Empty = {}
    BY DEF NoCall, Empty
  <2>3. OnItsWay(w) /\ SeedsOrStars(w)
    BY <2>1, <2>2 DEF OnItsWay, SeedsOrStars, StepsOf
  <2>4. FolderChecked(w) /\ LoadedOwn(w) /\ AssignedLoaded(w)
    BY <2>1, <2>2 DEF FolderChecked, LoadedOwn, AssignedLoaded
  <2>5. Removable(w) /\ Seeded(w)
    BY <2>1, <2>2 DEF Removable, Seeded
  <2>6. QED
    BY <2>3, <2>4, <2>5 DEF SoundRequest
<1>3. QED
  BY <1>1, <1>2 DEF Sound

(* A stuttering step changes nothing the invariant looks at.                *)
LEMMA SoundStutter == Sound /\ UNCHANGED vars => Sound'
BY DEF Sound, FiledInOwnFolder, SoundRequest, OnItsWay, SeedsOrStars,
       FolderChecked, Vouched, LoadedOwn, AssignedLoaded, Removable, Seeded,
       Starred, OwnedBy, vars, tables, session

(* In every reachable state each request that is under way is right about   *)
(* the folder, the rows and the seed it relies on.                          *)
THEOREM SoundAlways == Spec => [](TypeOK /\ Sound)
<1>1. Init => Sound
  BY SoundInit
<1>2. TypeOK /\ Sound /\ [Next]_vars => Sound'
  BY SoundStep, SoundStutter DEF Next
<1>3. QED
  BY <1>1, <1>2, TypeCorrect, PTL DEF Spec

(* A favourite is only ever filed in a folder of its owner's.               *)
THEOREM FilingTheorem == Spec => []FiledInOwnFolder
<1>1. Sound => FiledInOwnFolder
  BY DEF Sound
<1>2. QED
  BY <1>1, SoundAlways, PTL

(* A list request that is answered has the seeded layer to show.            *)
THEOREM SeedTheorem == Spec => []ListedHasSeed
<1>1. Sound => ListedHasSeed
  BY DEF Sound, SoundRequest, Seeded, ListedHasSeed, At
<1>2. QED
  BY <1>1, SoundAlways, PTL

-----------------------------------------------------------------------------
(* What a step may never do *)

(* A layer leaves the panel only by its owner's own removal of it.          *)
THEOREM RemovalTheorem == Spec => OnlyRemovalUnstars
<1> DEFINE Allowed ==
      \A i \in DOMAIN favourites :
        i \notin DOMAIN favourites' =>
          \E w \in Workers : /\ At(w, "delete")
                              /\ call[w].row = i
                              /\ call[w].user = favourites[i].user
<1>1. TypeOK /\ Sound /\ [Next]_vars => [Allowed]_vars
  <2> SUFFICES ASSUME TypeOK, Sound, NEW w \in Workers, Step(w),
                      NEW i \in DOMAIN favourites, i \notin DOMAIN favourites'
               PROVE  /\ At(w, "delete") /\ call[w].row = i
                      /\ call[w].user = favourites[i].user
    BY DEF Next
  <2>1. Delete(w) /\ i = call[w].row
    BY RowsStay
  <2>2. At(w, "delete")
    BY <2>1 DEF Delete
  <2>3. QED
    BY <2>1, <2>2 DEF At, Sound, SoundRequest, Removable
<1>2. QED
  BY <1>1, SoundAlways, PTL DEF Spec, OnlyRemovalUnstars

(* Whatever else commits in between, a step that changes where a layer is   *)
(* filed belongs to a move or to an ungrouping, never to a reorder.         *)
THEOREM ReorderTheorem == Spec => ReorderNeverRefiles
<1> DEFINE Allowed ==
      \A i \in DOMAIN favourites \cap DOMAIN favourites' :
        favourites'[i].folder # favourites[i].folder =>
          \E w \in Workers : /\ pc'[w] # pc[w]
                              /\ call[w].op \in {"move", "deleteFolder"}
<1>1. TypeOK /\ Sound /\ [Next]_vars => [Allowed]_vars
  <2> SUFFICES ASSUME TypeOK, Sound, NEW w \in Workers, Step(w),
                      NEW i \in DOMAIN favourites, i \in DOMAIN favourites',
                      favourites'[i].folder # favourites[i].folder
               PROVE  /\ pc'[w] # pc[w]
                      /\ call[w].op \in {"move", "deleteFolder"}
    BY DEF Next
  <2>1. ~Receive(w)
    BY DEF Receive, tables
  <2>2. pc'[w] # pc[w]
    <3>1. Audit(w) => pc'[w] # pc[w]
      BY DEF Audit, At, TypeOK, RequestsOK
    <3>2. QED
      BY <2>1, <3>1, UnderWay
  <2>3. CASE favourites' = Flushed(w)
    <3>1. favourites[i] \in Favourite
      BY DEF TypeOK, TablesOK, IsTable
    <3>2. i \in Refiled(w)
      BY <2>3, <3>1 DEF Flushed, Favourite
    <3>3. i \in DOMAIN dirty[w] /\ dirty[w][i].folder # seen[w][i].folder
      BY <3>2 DEF Refiled, Changed
    <3>4. QED
      BY <2>2, <3>3 DEF Sound, SoundRequest, AssignedLoaded
  <2>4. CASE Insert(w)
    <3>1. i # nextFavourite
      BY DEF TypeOK, TablesOK
    <3>2. QED
      BY <2>4, <3>1 DEF Insert, Appended
  <2>5. CASE DeleteFolder(w)
    BY <2>2, <2>5, StepTellsOp DEF DeleteFolder, At
  <2>6. CASE Delete(w)
    BY <2>6 DEF Delete
  <2>7. CASE UNCHANGED favourites
    BY <2>7
  <2>8. QED
    BY <2>3, <2>4, <2>5, <2>6, <2>7, TableWriters
       DEF tables, Flush, InsertFolder, FlushFolder, Audit
<1>2. QED
  BY <1>1, SoundAlways, PTL DEF Spec, ReorderNeverRefiles

(* A request writes only its own user's rows.                               *)
LEMMA WritesItsOwn ==
  ASSUME TypeOK, Sound, NEW w \in Workers, Step(w), ~Receive(w),
         NEW u, call[w].user # u
  PROVE  /\ \A i \in DOMAIN favourites : favourites[i].user = u =>
              i \in DOMAIN favourites' /\ favourites'[i] = favourites[i]
         /\ \A f \in DOMAIN folders : folders[f].user = u =>
              f \in DOMAIN folders' /\ folders'[f] = folders[f]
<1>1. CASE UNCHANGED tables
  BY <1>1 DEF tables
<1>2. CASE Insert(w)
  <2>1. nextFavourite \notin DOMAIN favourites
    BY DEF TypeOK, TablesOK
  <2>2. QED
    BY <1>2, <2>1 DEF Insert, Appended
<1>3. CASE Delete(w)
  <2>1. call[w].row \in DOMAIN favourites =>
          favourites[call[w].row].user = call[w].user
    BY <1>3 DEF Delete, At, Sound, SoundRequest, Removable
  <2>2. QED
    BY <1>3, <2>1 DEF Delete
<1>4. CASE favourites' = Flushed(w) /\ UNCHANGED folders
  <2>1. ASSUME NEW i \in DOMAIN favourites, favourites[i].user = u
        PROVE  i \notin Changed(w)
    BY <2>1 DEF Changed, Sound, SoundRequest, AssignedLoaded, LoadedOwn
  <2>2. QED
    BY <1>4, <2>1 DEF Flushed
<1>5. CASE InsertFolder(w)
  <2>1. nextFolder \notin DOMAIN folders
    BY DEF TypeOK, TablesOK
  <2>2. QED
    BY <1>5, <2>1 DEF InsertFolder, Appended
<1>6. CASE FlushFolder(w) \/ DeleteFolder(w)
  <2>1. Vouched(w)
    BY <1>6 DEF FlushFolder, DeleteFolder, At, Sound, SoundRequest, FolderChecked
  <2>2. Top \notin DOMAIN folders
    BY DEF TypeOK, TablesOK, Top
  <2>3. call[w].folder \in DOMAIN folders => folders[call[w].folder].user # u
    BY <2>1, <2>2 DEF Vouched
  <2>4. CASE FlushFolder(w)
    BY <2>3, <2>4 DEF FlushFolder
  <2>5. CASE DeleteFolder(w)
    <3>1. ASSUME NEW i \in DOMAIN favourites, favourites[i].user = u,
                 call[w].folder \in DOMAIN folders
          PROVE  favourites[i].folder # call[w].folder
      BY <2>2, <2>3, <3>1 DEF Sound, FiledInOwnFolder
    <3>2. QED
      BY <2>3, <2>5, <3>1 DEF DeleteFolder, Unfiled
  <2>6. QED
    BY <1>6, <2>4, <2>5
<1>7. QED
  BY <1>1, <1>2, <1>3, <1>4, <1>5, <1>6, TableWriters DEF Flush, Audit

(* Nobody's request changes somebody else's panel.                          *)
THEOREM SeparationTheorem == Spec => PanelsAreSeparate
<1> DEFINE Allowed ==
      \A u \in Users :
        (\A w \in Workers : call[w].user = u => pc'[w] = pc[w])
        => /\ \A i \in DOMAIN favourites : favourites[i].user = u =>
                i \in DOMAIN favourites' /\ favourites'[i] = favourites[i]
           /\ \A f \in DOMAIN folders : folders[f].user = u =>
                f \in DOMAIN folders' /\ folders'[f] = folders[f]
<1>1. TypeOK /\ Sound /\ [Next]_vars => [Allowed]_vars
  <2> SUFFICES ASSUME TypeOK, Sound, NEW w \in Workers, Step(w), NEW u \in Users,
                        call[w].user = u => pc'[w] = pc[w]
                 PROVE  /\ \A i \in DOMAIN favourites : favourites[i].user = u =>
                             i \in DOMAIN favourites' /\ favourites'[i] = favourites[i]
                        /\ \A f \in DOMAIN folders : folders[f].user = u =>
                             f \in DOMAIN folders' /\ folders'[f] = folders[f]
    BY DEF Next
  <2>1. CASE Receive(w)
    BY <2>1 DEF Receive, tables
  <2>2. CASE ~Receive(w)
    <3>1. Audit(w) => pc'[w] # pc[w]
      BY DEF Audit, At, TypeOK, RequestsOK
    <3>2. call[w].user # u
      BY <2>2, <3>1, UnderWay
    <3>3. QED
      BY <2>2, <3>2, WritesItsOwn
  <2>3. QED
    BY <2>1, <2>2
<1>2. QED
  BY <1>1, SoundAlways, PTL DEF Spec, PanelsAreSeparate

(* A rename and a collapse of one folder, from two tabs, do not undo each   *)
(* other: a column is written only by a PATCH of that folder that sent it,  *)
(* whatever the request had loaded (update_folder).                         *)
THEOREM PatchTheorem == Spec => PatchesDoNotClobber
<1> DEFINE Allowed ==
      \A f \in DOMAIN folders \cap DOMAIN folders' :
        \A key \in {"name", "is_collapsed"} :
          folders'[f][key] # folders[f][key] =>
            \E w \in Workers : /\ At(w, "folderFlush")
                                /\ call[w].folder = f
                                /\ key \in call[w].sent
<1>1. TypeOK /\ Sound /\ [Next]_vars => [Allowed]_vars
  <2> SUFFICES ASSUME TypeOK, NEW w \in Workers, Step(w),
                      NEW f \in DOMAIN folders, f \in DOMAIN folders',
                      NEW key \in {"name", "is_collapsed"},
                      folders'[f][key] # folders[f][key]
               PROVE  At(w, "folderFlush") /\ call[w].folder = f /\ key \in call[w].sent
    BY DEF Next
  <2>1. f # nextFolder
    BY DEF TypeOK, TablesOK
  <2>2. ~UNCHANGED folders /\ ~InsertFolder(w) /\ ~DeleteFolder(w)
    BY <2>1 DEF InsertFolder, Appended, DeleteFolder
  <2>3. FlushFolder(w)
    BY <2>2, TableWriters DEF tables, Insert, Delete, Flush, Audit
  <2>4. /\ call[w].folder \in DOMAIN folders
        /\ folders' = [folders EXCEPT ![call[w].folder] = Patched(w, folders[call[w].folder])]
    BY <2>2, <2>3 DEF FlushFolder
  <2>5. f = call[w].folder /\ folders'[f] = Patched(w, folders[f])
    BY <2>4
  <2>6. folders[f] \in Folder
    BY DEF TypeOK, TablesOK, IsTable
  <2>7. Rewrites(w, key)
    BY <2>5, <2>6 DEF Patched, Folder
  <2> QED
    BY <2>3, <2>5, <2>7 DEF FlushFolder, Rewrites
<1>2. QED
  BY <1>1, SoundAlways, PTL DEF Spec, PatchesDoNotClobber

-----------------------------------------------------------------------------
(* The cap, and starring once *)

(* What a user has starred is finite, and so is who is about to star.       *)
LEMMA CountedSets ==
  ASSUME TypeOK, NEW u
  PROVE  /\ IsFiniteSet(DOMAIN favourites)
         /\ IsFiniteSet(StarredBy(u)) /\ Cardinality(StarredBy(u)) \in Nat
         /\ IsFiniteSet(PastCap(u)) /\ Cardinality(PastCap(u)) \in Nat
         /\ Cardinality(Workers) \in Nat
         /\ Cardinality(PastCap(u)) <= Cardinality(Workers)
<1>1. IsFiniteSet(1..(nextFavourite - 1))
  BY FS_Interval DEF TypeOK, TablesOK
<1>2. IsFiniteSet(DOMAIN favourites)
  BY <1>1, FS_Subset DEF TypeOK, TablesOK
<1>3. IsFiniteSet(StarredBy(u))
  BY <1>2, FS_Subset DEF StarredBy
<1>4. IsFiniteSet(Workers)
  BY ConstantsAssumption
<1>5. IsFiniteSet(PastCap(u)) /\ Cardinality(PastCap(u)) <= Cardinality(Workers)
  BY <1>4, FS_Subset DEF PastCap
<1>6. QED
  BY <1>2, <1>3, <1>4, <1>5, FS_CardinalityType

(* A step that is neither the cap letting the user's star through nor the   *)
(* insert of that star adds nothing to either side.                         *)
LEMMA NothingAdded ==
  ASSUME TypeOK, Sound, NEW w \in Workers, Step(w), NEW u \in Users,
         ~(/\ CountFree(w) \/ Insert(w)
           /\ call[w].op = "add" /\ call[w].user = u)
  PROVE  StarredBy(u)' \subseteq StarredBy(u) /\ PastCap(u)' \subseteq PastCap(u)
<1>1. ASSUME NEW i \in StarredBy(u)'
      PROVE  i \in StarredBy(u)
  <2>1. i \in DOMAIN favourites' /\ favourites'[i].user = u
        /\ favourites'[i].layer # SeededLayer
    BY DEF StarredBy
  <2>2. ~(i = nextFavourite /\ Insert(w))
    <3>1. SUFFICES ASSUME i = nextFavourite, Insert(w) PROVE FALSE
      OBVIOUS
    <3>2. call[w].user = u /\ call[w].layer # SeededLayer
      BY <2>1, <3>1 DEF Insert, Appended
    <3>3. call[w].op = "add"
      BY <3>2 DEF Sound, SoundRequest, SeedsOrStars
    <3>4. QED
      BY <3>1, <3>2, <3>3
  <2>3. QED
    BY <2>1, <2>2, RowsEvolve DEF StarredBy
<1>2. ASSUME NEW v \in PastCap(u)'
      PROVE  v \in PastCap(u)
  <2>1. /\ v \in Workers /\ call'[v].op = "add" /\ call'[v].user = u
        /\ pc'[v] \in {"position", "insert"}
    BY DEF PastCap
  <2>2. CASE v # w
    BY <2>1, <2>2, OthersWait DEF PastCap
  <2>3. CASE v = w
    <3>1. ~Receive(w) /\ ~Audit(w)
      BY <2>1, <2>3, ReceivedSound, EndedSound
         DEF Audit, TypeOK, RequestsOK
    <3>2. call'[w] = call[w]
      BY <3>1, UnderWay
    <3>3. ~EnsureMisses(w)
      BY <2>1, <2>3, <3>2 DEF EnsureMisses, At, Sound, SoundRequest, OnItsWay, StepsOf
    <3>4. CASE CountFree(w)
      BY <2>1, <2>3, <3>2, <3>4
    <3>5. CASE ReadPosition(w)
      BY <2>1, <2>3, <3>2, <3>5 DEF ReadPosition, At, PastCap
    <3>6. CASE ~(CountFree(w) \/ ReadPosition(w))
      <4>1. pc'[w] \notin {"position", "insert"}
        BY <3>1, <3>3, <3>6 DEF Step, EnsureFinds, List, CountFull,
           Insert, InsertConflicts, FindAgain, FindToRemove, Delete,
           CheckFolder, LoadToMove, AssignMove, CheckOrder, AssignOrder, Flush,
           FlushFails, CountFolders, ReadFolderPosition, InsertFolder, LoadFolder,
           FlushFolder, FindToUngroup, LoadToUngroup, AssignUngroup, DeleteFolder,
           Goto, Answer, TypeOK, RequestsOK
      <4>2. QED
        BY <2>1, <2>3, <4>1
    <3>7. QED
      BY <3>4, <3>5, <3>6
  <2>4. QED
    BY <2>2, <2>3
<1>3. QED
  BY <1>1, <1>2

(* A star that has passed the cap keeps a place to be inserted in.          *)
LEMMA RoomStep ==
  ASSUME TypeOK, TypeOK', Sound, RoomForPastCap, NEW w \in Workers, Step(w)
  PROVE  RoomForPastCap'
<1> SUFFICES ASSUME NEW u \in Users
             PROVE  Cardinality(StarredBy(u)') + Cardinality(PastCap(u)')
                      <= MaxFavouriteLayers + Cardinality(Workers) - 1
  BY DEF RoomForPastCap
<1> DEFINE S == StarredBy(u)
           P == PastCap(u)
           N == MaxFavouriteLayers + Cardinality(Workers) - 1
<1> SUFFICES Cardinality(S') + Cardinality(P') <= N
  OBVIOUS
<1>1. Cardinality(S) + Cardinality(P) <= N
  BY DEF RoomForPastCap
<1>2. /\ IsFiniteSet(DOMAIN favourites)
      /\ IsFiniteSet(S) /\ Cardinality(S) \in Nat
      /\ IsFiniteSet(P) /\ Cardinality(P) \in Nat
      /\ Cardinality(Workers) \in Nat
      /\ Cardinality(P) <= Cardinality(Workers)
  BY CountedSets
<1>3. /\ IsFiniteSet(S') /\ Cardinality(S') \in Nat
      /\ IsFiniteSet(P') /\ Cardinality(P') \in Nat
      /\ Cardinality(P') <= Cardinality(Workers)
  <2>1. IsFiniteSet(1..(nextFavourite' - 1))
    BY FS_Interval DEF TypeOK, TablesOK
  <2>2. IsFiniteSet(DOMAIN favourites')
    BY <2>1, FS_Subset DEF TypeOK, TablesOK
  <2>3. S' \subseteq DOMAIN favourites' /\ P' \subseteq Workers
    BY DEF StarredBy, PastCap
  <2>4. IsFiniteSet(Workers)
    BY ConstantsAssumption
  <2>5. QED
    BY <2>2, <2>3, <2>4, FS_Subset, FS_CardinalityType
<1>4. MaxFavouriteLayers \in Nat
  BY ConstantsAssumption
<1>5. CASE CountFree(w) /\ call[w].user = u
  <2>1. S \subseteq OwnedBy(u) /\ IsFiniteSet(OwnedBy(u))
    BY <1>2, FS_Subset DEF StarredBy, OwnedBy
  <2>2. Cardinality(S) <= Cardinality(OwnedBy(u)) /\ Cardinality(OwnedBy(u)) \in Nat
    BY <2>1, FS_Subset, FS_CardinalityType
  <2>3. Cardinality(OwnedBy(u)) < MaxFavouriteLayers
    BY <1>4, <1>5, <2>2 DEF CountFree, Full
  <2>4. S' = S
    BY <1>5 DEF CountFree, tables, StarredBy
  <2> HIDE DEF S, P
  <2>5. QED
    BY <1>2, <1>3, <1>4, <2>2, <2>3, <2>4
<1>6. CASE Insert(w) /\ call[w].op = "add" /\ call[w].user = u
  <2>1. S' \subseteq S \cup {nextFavourite}
    <3>1. ASSUME NEW i \in S' PROVE i \in S \cup {nextFavourite}
      BY RowsEvolve DEF StarredBy
    <3>2. QED
      BY <3>1
  <2>2. Cardinality(S') <= Cardinality(S) + 1
    <3>1. nextFavourite \notin S
      BY DEF StarredBy, TypeOK, TablesOK
    <3>2. /\ Cardinality(S \cup {nextFavourite}) = Cardinality(S) + 1
          /\ IsFiniteSet(S \cup {nextFavourite})
      BY <1>2, <3>1, FS_AddElement
    <3>3. QED
      BY <2>1, <3>2, FS_Subset
  <2>3. w \in P
    BY <1>6 DEF Insert, At, PastCap
  <2>4. P' \subseteq P \ {w}
    <3>1. pc'[w] = "audit" /\ call' = call
      BY <1>6 DEF Insert, Answer, TypeOK, RequestsOK
    <3>2. \A v \in Workers : v # w => pc'[v] = pc[v]
      BY OthersWait
    <3>3. QED
      BY <3>1, <3>2 DEF PastCap
  <2>5. Cardinality(P') <= Cardinality(P) - 1
    <3>1. Cardinality(P \ {w}) = Cardinality(P) - 1 /\ IsFiniteSet(P \ {w})
      BY <1>2, <2>3, FS_RemoveElement
    <3>2. QED
      BY <2>4, <3>1, FS_Subset
  <2> HIDE DEF S, P
  <2>6. QED
    BY <1>1, <1>2, <1>3, <1>4, <2>2, <2>5
<1>7. CASE ~(/\ CountFree(w) \/ Insert(w)
             /\ call[w].op = "add" /\ call[w].user = u)
  <2>1. S' \subseteq S /\ P' \subseteq P
    BY <1>7, NothingAdded
  <2>2. Cardinality(S') <= Cardinality(S) /\ Cardinality(P') <= Cardinality(P)
    BY <1>2, <2>1, FS_Subset
  <2> HIDE DEF S, P
  <2>3. QED
    BY <1>1, <1>2, <1>3, <1>4, <2>2
<1>8. QED
  BY <1>5, <1>6, <1>7

(* However many tabs star at once, a user's stars overrun the cap by fewer  *)
(* layers than the API has threads.                                         *)
THEOREM CapTheorem == Spec => []CapOverrunBounded
<1>1. Init => RoomForPastCap
  <2> SUFFICES ASSUME Init, NEW u \in Users
               PROVE  Cardinality(StarredBy(u)) + Cardinality(PastCap(u))
                        <= MaxFavouriteLayers + Cardinality(Workers) - 1
    BY DEF RoomForPastCap
  <2>1. Cardinality(StarredBy(u)) <= MaxFavouriteLayers
    <3>1. PICK db \in InitialTables : favourites = db.favourites
      BY DEF Init
    <3>2. WellFormed(db)
      BY InitialAssumption
    <3>3. QED
      BY <3>1, <3>2 DEF WellFormed, StarredBy
  <2>2. PastCap(u) = {}
    BY DEF Init, PastCap
  <2>3. Cardinality(Workers) \in Nat /\ Cardinality(Workers) # 0
    BY ConstantsAssumption, FS_EmptySet, FS_CardinalityType
  <2>4. Cardinality(StarredBy(u)) \in Nat /\ MaxFavouriteLayers \in Nat
    BY InitTypeOK, CountedSets, ConstantsAssumption
  <2>5. Cardinality(PastCap(u)) = 0
    BY <2>2, FS_EmptySet
  <2>6. QED
    BY <2>1, <2>3, <2>4, <2>5
<1>2. TypeOK /\ TypeOK' /\ Sound /\ RoomForPastCap /\ [Next]_vars => RoomForPastCap'
  <2>1. RoomForPastCap /\ UNCHANGED vars => RoomForPastCap'
    BY DEF RoomForPastCap, StarredBy, PastCap, vars, tables
  <2>2. QED
    BY <2>1, RoomStep DEF Next
<1>3. TypeOK /\ RoomForPastCap => CapOverrunBounded
  <2> SUFFICES ASSUME TypeOK, RoomForPastCap, NEW u \in Users
               PROVE  Cardinality(StarredBy(u))
                        <= MaxFavouriteLayers + Cardinality(Workers) - 1
    BY DEF CapOverrunBounded
  <2>1. QED
    BY CountedSets, ConstantsAssumption DEF RoomForPastCap
<1>4. QED
  BY <1>1, <1>2, <1>3, TypeCorrect, SoundAlways, PTL DEF Spec

(* No layer is starred twice by a user.                                     *)
THEOREM OnceTheorem == Spec => []StarredOnce
<1>1. Init => StarredOnce
  <2> SUFFICES ASSUME Init PROVE StarredOnce
    OBVIOUS
  <2>1. PICK db \in InitialTables : favourites = db.favourites
    BY DEF Init
  <2>2. WellFormed(db)
    BY InitialAssumption
  <2>3. QED
    BY <2>1, <2>2 DEF WellFormed, StarredOnce
<1>2. ASSUME TypeOK, StarredOnce, NEW w \in Workers, Step(w)
      PROVE  StarredOnce'
  <2> SUFFICES ASSUME NEW i \in DOMAIN favourites', NEW j \in DOMAIN favourites',
                      favourites'[i].user = favourites'[j].user,
                      favourites'[i].layer = favourites'[j].layer
               PROVE  i = j
    BY DEF StarredOnce
  <2>1. \A k \in DOMAIN favourites' :
          \/ /\ k = nextFavourite /\ Insert(w)
             /\ favourites'[k].user = call[w].user
             /\ favourites'[k].layer = call[w].layer
          \/ /\ k \in DOMAIN favourites
             /\ favourites[k].user = favourites'[k].user
             /\ favourites[k].layer = favourites'[k].layer
    <3> SUFFICES ASSUME NEW k \in DOMAIN favourites'
                 PROVE  \/ /\ k = nextFavourite /\ Insert(w)
                           /\ favourites'[k].user = call[w].user
                           /\ favourites'[k].layer = call[w].layer
                        \/ /\ k \in DOMAIN favourites
                           /\ favourites[k].user = favourites'[k].user
                           /\ favourites[k].layer = favourites'[k].layer
      OBVIOUS
    <3>1. CASE k = nextFavourite /\ Insert(w)
      BY <3>1 DEF Insert, Appended
    <3>2. CASE ~(k = nextFavourite /\ Insert(w))
      BY <1>2, <3>2, RowsEvolve
    <3>3. QED
      BY <3>1, <3>2
  <2>2. Insert(w) => \A k \in DOMAIN favourites :
          favourites[k].user # call[w].user \/ favourites[k].layer # call[w].layer
    BY DEF Insert, Duplicate, Starred, OwnedBy
  <2>3. nextFavourite \notin DOMAIN favourites
    BY <1>2 DEF TypeOK, TablesOK
  <2>4. CASE i = nextFavourite /\ Insert(w) /\ j # i
    BY <2>1, <2>2, <2>3, <2>4
  <2>5. CASE j = nextFavourite /\ Insert(w) /\ j # i
    BY <2>1, <2>2, <2>3, <2>5
  <2>6. CASE ~(i = nextFavourite /\ Insert(w)) /\ ~(j = nextFavourite /\ Insert(w))
    BY <1>2, <2>1, <2>6 DEF StarredOnce
  <2>7. QED
    BY <2>4, <2>5, <2>6
<1>3. StarredOnce /\ UNCHANGED vars => StarredOnce'
  BY DEF StarredOnce, vars, tables
<1>4. TypeOK /\ StarredOnce /\ [Next]_vars => StarredOnce'
  BY <1>2, <1>3 DEF Next
<1>5. QED
  BY <1>1, <1>4, TypeCorrect, PTL DEF Spec

(* Racing tabs neither star a layer twice nor pass the cap without bound.   *)
THEOREM StarsTheorem == Spec => []StarsHold
<1>1. StarredOnce /\ CapOverrunBounded => StarsHold
  BY DEF StarsHold
<1>2. QED
  BY <1>1, OnceTheorem, CapTheorem, PTL

(* A layer leaves the panel or its folder only by a request for just that.  *)
THEOREM MovesTheorem == Spec => OnlyAskedMoves
BY RemovalTheorem, ReorderTheorem DEF OnlyAskedMoves

-----------------------------------------------------------------------------
(* The order in which a list is returned *)

(* What is ordered: rows whose positions are integers, under their ids. *)
Sortable(ids, table) ==
  IsFiniteSet(ids) /\ ids \subseteq Nat /\ \A i \in ids : table[i].sort \in Int

(* A sequence of n of them is ordered when it has each of them, each after  *)
(* those that precede it.                                                   *)
Enumerates(list, n, ids, table) ==
  /\ list \in [1..n -> ids]
  /\ \A i \in ids : \E k \in 1..n : list[k] = i
  /\ \A k, m \in 1..n :
       k < m => Precedes(list[k], table[list[k]], list[m], table[list[m]])

AllPrecede(A, B, table) ==
  \A i \in A, j \in B : Precedes(i, table[i], j, table[j])

Before(ids, table, i) == {j \in ids : Precedes(j, table[j], i, table[i])}

(* Their order is total and strict.                                         *)
LEMMA PrecedesIsStrict ==
  ASSUME NEW ids, NEW table, Sortable(ids, table)
  PROVE  /\ \A i \in ids : ~ Precedes(i, table[i], i, table[i])
         /\ \A i, j, k \in ids :
              /\ Precedes(i, table[i], j, table[j])
              /\ Precedes(j, table[j], k, table[k])
              => Precedes(i, table[i], k, table[k])
         /\ \A i, j \in ids : \/ i = j
                              \/ Precedes(i, table[i], j, table[j])
                              \/ Precedes(j, table[j], i, table[i])
<1>1. ids \subseteq Nat /\ \A i \in ids : table[i].sort \in Int
  BY DEF Sortable
<1>2. ASSUME NEW i \in ids, NEW j \in ids, NEW k \in ids
      PROVE  /\ ~ Precedes(i, table[i], i, table[i])
             /\ /\ Precedes(i, table[i], j, table[j])
                /\ Precedes(j, table[j], k, table[k])
                => Precedes(i, table[i], k, table[k])
             /\ \/ i = j
                \/ Precedes(i, table[i], j, table[j])
                \/ Precedes(j, table[j], i, table[i])
  <2>1. /\ i \in Int /\ j \in Int /\ k \in Int /\ table[i].sort \in Int
        /\ table[j].sort \in Int /\ table[k].sort \in Int
    BY <1>1
  <2> QED BY <2>1 DEF Precedes
<1> QED BY <1>2

(* A set that n numbers count off has n members. *)
LEMMA CountedOff ==
  ASSUME NEW n \in Nat, NEW S, NEW f \in [1..n -> S],
         \A x \in S : \E k \in 1..n : f[k] = x,
         \A k, m \in 1..n : f[k] = f[m] => k = m
  PROVE  IsFiniteSet(S) /\ Cardinality(S) = n
<1>1. IsFiniteSet(1..n) /\ Cardinality(1..n) = n
  BY FS_Interval
<1>2. f \in Injection(1..n, S) /\ f \in Surjection(1..n, S)
  BY DEF Injection, Surjection, IsInjective
<1>3. ExistsBijection(1..n, S)
  BY <1>2 DEF ExistsBijection, Bijection
<1> QED BY <1>1, <1>3, FS_Bijection

(* An ordered sequence has each row once. *)
LEMMA EnumeratedOnce ==
  ASSUME NEW ids, NEW table, Sortable(ids, table),
         NEW n \in Nat, NEW list, Enumerates(list, n, ids, table)
  PROVE  /\ \A k, m \in 1..n : list[k] = list[m] => k = m
         /\ \A k, m \in 1..n :
              Precedes(list[k], table[list[k]], list[m], table[list[m]]) <=> k < m
         /\ Cardinality(ids) = n
<1> DEFINE less(i, j) == Precedes(i, table[i], j, table[j])
<1>1. \A i \in ids : ~ less(i, i)
  BY PrecedesIsStrict
<1>2. \A i, j \in ids : ~ (less(i, j) /\ less(j, i))
  BY PrecedesIsStrict
<1>3. /\ list \in [1..n -> ids]
      /\ \A i \in ids : \E k \in 1..n : list[k] = i
      /\ \A k, m \in 1..n : k < m => less(list[k], list[m])
  BY DEF Enumerates
<1> HIDE DEF less
<1>4. ASSUME NEW k \in 1..n, NEW m \in 1..n
      PROVE  /\ list[k] = list[m] => k = m
             /\ less(list[k], list[m]) <=> k < m
  <2>1. list[k] \in ids /\ list[m] \in ids
    BY <1>3
  <2>2. k = m \/ k < m \/ m < k
    OBVIOUS
  <2>3. CASE k = m
    <3>1. ~ (k < m)
      BY <2>3
    <3> QED BY <1>1, <2>1, <2>3, <3>1
  <2>4. CASE k < m
    <3>1. less(list[k], list[m])
      BY <1>3, <2>4
    <3> QED BY <1>1, <2>1, <2>4, <3>1
  <2>5. CASE m < k
    <3>1. less(list[m], list[k])
      BY <1>3, <2>5
    <3>2. ~ (k < m)
      BY <2>5
    <3> QED BY <1>1, <1>2, <2>1, <3>1, <3>2
  <2> QED BY <2>2, <2>3, <2>4, <2>5
<1>5. Cardinality(ids) = n
  BY <1>3, <1>4, CountedOff
<1> QED BY <1>4, <1>5 DEF less

(* As many rows precede one of them as the sequence has ahead of it. *)
LEMMA EnumeratedRank ==
  ASSUME NEW ids, NEW table, Sortable(ids, table),
         NEW n \in Nat, NEW list, Enumerates(list, n, ids, table),
         NEW k \in 1..n
  PROVE  Cardinality(Before(ids, table, list[k])) = k - 1
<1> DEFINE S == Before(ids, table, list[k])
           f == [j \in 1..(k - 1) |-> list[j]]
<1>1. /\ list \in [1..n -> ids]
      /\ \A i \in ids : \E m \in 1..n : list[m] = i
  BY DEF Enumerates
<1>2. /\ \A j, m \in 1..n : list[j] = list[m] => j = m
      /\ \A j, m \in 1..n :
           Precedes(list[j], table[list[j]], list[m], table[list[m]]) <=> j < m
  BY EnumeratedOnce
<1>3. k - 1 \in Nat /\ 1..(k - 1) \subseteq 1..n /\ \A j \in 1..n : j < k <=> j \in 1..(k - 1)
  OBVIOUS
<1>4. \A i : i \in S <=> \E j \in 1..(k - 1) : list[j] = i
  <2>1. ASSUME NEW i, i \in S PROVE \E j \in 1..(k - 1) : list[j] = i
    <3>1. i \in ids /\ Precedes(i, table[i], list[k], table[list[k]])
      BY <2>1 DEF Before
    <3>2. PICK j \in 1..n : list[j] = i
      BY <1>1, <3>1
    <3> QED BY <1>2, <1>3, <3>1, <3>2
  <2>2. ASSUME NEW j \in 1..(k - 1) PROVE list[j] \in S
    <3>1. j \in 1..n /\ j < k
      BY <1>3
    <3>2. list[j] \in ids /\ Precedes(list[j], table[list[j]], list[k], table[list[k]])
      BY <1>1, <1>2, <3>1
    <3> QED BY <3>2 DEF Before
  <2> QED BY <2>1, <2>2
<1>5. f \in [1..(k - 1) -> S] /\ \A j \in 1..(k - 1) : f[j] = list[j]
  BY <1>4
<1>6. \A x \in S : \E j \in 1..(k - 1) : f[j] = x
  BY <1>4, <1>5
<1>7. \A j, m \in 1..(k - 1) : f[j] = f[m] => j = m
  BY <1>2, <1>3, <1>5
<1> HIDE DEF f, S
<1> QED BY <1>3, <1>5, <1>6, <1>7, CountedOff DEF S

(* There is one ordered sequence of them, the one a query returns. *)
LEMMA OrderIsOne ==
  ASSUME NEW ids, NEW table, Sortable(ids, table),
         NEW n \in Nat, NEW list, Enumerates(list, n, ids, table)
  PROVE  InOrder(ids, table) = list
<1> DEFINE size(i) == Cardinality(Before(ids, table, i))
<1>1. Cardinality(ids) = n
  BY EnumeratedOnce
<1>2. /\ list \in [1..n -> ids]
      /\ \A i \in ids : \E m \in 1..n : list[m] = i
  BY DEF Enumerates
<1>3. \A k \in 1..n : size(list[k]) = k - 1
  BY EnumeratedRank
<1>4. InOrder(ids, table) = [k \in 1..n |-> CHOOSE i \in ids : size(i) = k - 1]
  BY <1>1, Zenon DEF InOrder, Before
<1> HIDE DEF size
<1>5. ASSUME NEW k \in 1..n PROVE (CHOOSE i \in ids : size(i) = k - 1) = list[k]
  <2>1. list[k] \in ids /\ size(list[k]) = k - 1
    BY <1>2, <1>3
  <2>2. ASSUME NEW i \in ids, size(i) = k - 1 PROVE i = list[k]
    <3>1. PICK m \in 1..n : list[m] = i
      BY <1>2
    <3>2. m - 1 = k - 1
      BY <1>3, <2>2, <3>1
    <3>3. m = k
      BY <3>2
    <3> QED BY <3>1, <3>3
  <2> QED BY <2>1, <2>2
<1>6. list = [k \in 1..n |-> list[k]]
  BY <1>2
<1> QED BY <1>4, <1>5, <1>6

(* And there is one: rows can be put in order. *)
LEMMA OrderEnumerates ==
  ASSUME NEW ids, NEW table, Sortable(ids, table)
  PROVE  /\ Cardinality(ids) \in Nat
         /\ Enumerates(InOrder(ids, table), Cardinality(ids), ids, table)
<1> DEFINE N == Cardinality(ids)
           less(i, j) == Precedes(i, table[i], j, table[j])
           size(i) == Cardinality(Before(ids, table, i))
           rank == [i \in ids |-> size(i) + 1]
           q == InOrder(ids, table)
<1>1. N \in Nat /\ IsFiniteSet(ids)
  BY FS_CardinalityType DEF Sortable
<1>2. /\ \A i \in ids : ~ less(i, i)
      /\ \A i, j, k \in ids : less(i, j) /\ less(j, k) => less(i, k)
      /\ \A i, j \in ids : i = j \/ less(i, j) \/ less(j, i)
  BY PrecedesIsStrict
<1>3. \A i, j \in ids : j \in Before(ids, table, i) <=> less(j, i)
  BY DEF Before
<1>4. \A i \in ids : Before(ids, table, i) \in SUBSET ids
  BY DEF Before
<1>5. q = [k \in 1..N |-> CHOOSE i \in ids : size(i) = k - 1]
  BY Zenon DEF InOrder, Before
<1> HIDE DEF N, less, q
<1>6. \A i \in ids : IsFiniteSet(Before(ids, table, i)) /\ size(i) \in Nat
  BY <1>1, <1>4, FS_Subset, FS_CardinalityType
<1>7. ASSUME NEW i \in ids PROVE size(i) \in 0..(N - 1)
  <2>1. Before(ids, table, i) \in SUBSET (ids \ {i})
    BY <1>2, <1>3, <1>4
  <2>2. IsFiniteSet(ids \ {i}) /\ Cardinality(ids \ {i}) = N - 1
    BY <1>1, FS_RemoveElement DEF N
  <2>3. size(i) <= N - 1
    BY <2>1, <2>2, FS_Subset
  <2> QED BY <1>1, <1>6, <2>3
<1>8. ASSUME NEW i \in ids, NEW j \in ids, less(i, j) PROVE size(i) < size(j)
  <2>1. Before(ids, table, i) \in SUBSET Before(ids, table, j)
    BY <1>2, <1>3, <1>4, <1>8
  <2>2. i \in Before(ids, table, j) /\ i \notin Before(ids, table, i)
    BY <1>2, <1>3, <1>8
  <2>3. size(i) <= size(j) /\ size(i) # size(j)
    BY <1>6, <2>1, <2>2, FS_Subset
  <2> QED BY <1>6, <2>3
<1> HIDE DEF size
<1>9. \A i, j \in ids : size(i) = size(j) => i = j
  <2>1. ASSUME NEW i \in ids, NEW j \in ids, size(i) = size(j), i # j PROVE FALSE
    <3>1. less(i, j) \/ less(j, i)
      BY <1>2, <2>1
    <3>2. size(i) < size(j) \/ size(j) < size(i)
      BY <1>8, <3>1
    <3> QED BY <1>6, <2>1, <3>2
  <2> QED BY <2>1
<1>10. rank \in Surjection(ids, 1..N)
  <2>1. \A i \in ids : size(i) + 1 \in 1..N
    BY <1>1, <1>7
  <2>2. rank \in [ids -> 1..N]
    BY <2>1
  <2>3. \A i, j \in ids : rank[i] = rank[j] => i = j
    <3>1. \A i, j \in ids : size(i) + 1 = size(j) + 1 => size(i) = size(j)
      BY <1>6
    <3> QED BY <1>9, <3>1
  <2>4. rank \in Injection(ids, 1..N)
    BY <2>2, <2>3 DEF Injection, IsInjective
  <2>5. IsFiniteSet(1..N) /\ Cardinality(1..N) = N
    BY <1>1, FS_Interval
  <2> HIDE DEF rank
  <2> QED BY <1>1, <2>4, <2>5, FS_Injection DEF N
<1>11. ASSUME NEW k \in 1..N PROVE \E i \in ids : size(i) = k - 1
  <2>1. PICK i \in ids : rank[i] = k
    BY <1>10 DEF Surjection
  <2>2. size(i) + 1 = k /\ size(i) \in Nat
    BY <1>6, <2>1
  <2> QED BY <2>2
<1>12. \A k \in 1..N : q[k] \in ids /\ size(q[k]) = k - 1
  BY <1>5, <1>11
<1>13. q \in [1..N -> ids]
  BY <1>5, <1>12
<1>14. ASSUME NEW i \in ids PROVE \E k \in 1..N : q[k] = i
  <2>1. size(i) + 1 \in 1..N /\ (size(i) + 1) - 1 = size(i)
    BY <1>1, <1>7
  <2>2. q[size(i) + 1] \in ids /\ size(q[size(i) + 1]) = size(i)
    BY <1>12, <2>1
  <2> QED BY <1>9, <2>1, <2>2
<1>15. ASSUME NEW k \in 1..N, NEW m \in 1..N, k < m PROVE less(q[k], q[m])
  <2>1. /\ q[k] \in ids /\ size(q[k]) = k - 1
        /\ q[m] \in ids /\ size(q[m]) = m - 1
    BY <1>12
  <2>2. q[k] # q[m] /\ ~ (size(q[m]) < size(q[k]))
    BY <1>15, <2>1
  <2> QED BY <1>2, <1>8, <2>1, <2>2
<1> QED BY <1>1, <1>13, <1>14, <1>15 DEF Enumerates, N, q, less

-----------------------------------------------------------------------------
(* Lists that begin, end or lack something *)

Joined(s, t) == s \o t

(* A list of one                                                            *)
LEMMA OneRow ==
  ASSUME NEW x \in Nat, NEW table, table[x].sort \in Int
  PROVE  InOrder({x}, table) = <<x>>
<1>1. Sortable({x}, table)
  BY FS_Singleton DEF Sortable
<1>2. <<x>> \in [1..1 -> {x}] /\ <<x>>[1] = x
  OBVIOUS
<1>3. Enumerates(<<x>>, 1, {x}, table)
  BY <1>2 DEF Enumerates
<1> QED BY <1>1, <1>3, OrderIsOne

(* Rows that come after all the others are listed after them. *)
LEMMA OrderAppends ==
  ASSUME NEW A, NEW B, NEW table, Sortable(A, table), Sortable(B, table),
         AllPrecede(A, B, table)
  PROVE  InOrder(A \cup B, table) = Joined(InOrder(A, table), InOrder(B, table))
<1> DEFINE n == Cardinality(A)
           m == Cardinality(B)
           s == InOrder(A, table)
           t == InOrder(B, table)
           less(i, j) == Precedes(i, table[i], j, table[j])
<1>1. n \in Nat /\ m \in Nat /\ Enumerates(s, n, A, table) /\ Enumerates(t, m, B, table)
  BY OrderEnumerates
<1>2. Sortable(A \cup B, table)
  BY FS_Union DEF Sortable
<1>3. /\ s \in [1..n -> A]
      /\ \A i \in A : \E k \in 1..n : s[k] = i
      /\ \A k, l \in 1..n : k < l => less(s[k], s[l])
  BY <1>1 DEF Enumerates
<1>4. /\ t \in [1..m -> B]
      /\ \A i \in B : \E k \in 1..m : t[k] = i
      /\ \A k, l \in 1..m : k < l => less(t[k], t[l])
  BY <1>1 DEF Enumerates
<1>5. \A i \in A, j \in B : less(i, j)
  BY DEF AllPrecede
<1> HIDE DEF n, m, s, t, less
<1> DEFINE u == [k \in 1..(n + m) |-> IF k <= n THEN s[k] ELSE t[k - n]]
<1>6. s \in Seq(A \cup B) /\ t \in Seq(A \cup B) /\ Len(s) = n /\ Len(t) = m
  BY <1>1, <1>3, <1>4
<1>7. /\ s \o t \in [1..(n + m) -> A \cup B]
      /\ \A k \in 1..(n + m) : (s \o t)[k] = IF k <= n THEN s[k] ELSE t[k - n]
  <2> HIDE DEF u
  <2>1. /\ s \o t \in Seq(A \cup B) /\ Len(s \o t) = n + m
        /\ \A k \in 1..(n + m) : (s \o t)[k] = IF k <= n THEN s[k] ELSE t[k - n]
    BY <1>1, <1>6, ConcatProperties
  <2> QED BY <2>1, LenProperties
<1>8. s \o t = u
  BY <1>7
<1>9. \A k \in 1..(n + m) : \/ k \in 1..n /\ u[k] = s[k]
                            \/ k > n /\ k - n \in 1..m /\ u[k] = t[k - n]
  <2>1. ASSUME NEW k \in 1..(n + m)
        PROVE  \/ k \in 1..n /\ u[k] = s[k]
               \/ k > n /\ k - n \in 1..m /\ u[k] = t[k - n]
    <3>1. u[k] = IF k <= n THEN s[k] ELSE t[k - n]
      OBVIOUS
    <3> HIDE DEF u
    <3>2. CASE k <= n
      <4>1. k \in 1..n
        BY <1>1, <3>2
      <4> QED BY <3>1, <3>2, <4>1
    <3>3. CASE ~ (k <= n)
      <4>1. k > n /\ k - n \in 1..m
        BY <1>1, <3>3
      <4> QED BY <3>1, <3>3, <4>1
    <3> QED BY <3>2, <3>3
  <2> QED BY <2>1
<1>10. u \in [1..(n + m) -> A \cup B]
  <2>1. \A k \in 1..(n + m) : u[k] \in A \cup B
    BY <1>3, <1>4, <1>9
  <2> QED BY <2>1
<1>11. ASSUME NEW i \in A \cup B PROVE \E k \in 1..(n + m) : u[k] = i
  <2>1. CASE i \in A
    <3>1. PICK k \in 1..n : s[k] = i
      BY <1>3, <2>1
    <3>2. k \in 1..(n + m) /\ k <= n
      BY <1>1
    <3> QED BY <3>1, <3>2
  <2>2. CASE i \in B
    <3>1. PICK k \in 1..m : t[k] = i
      BY <1>4, <2>2
    <3>2. k + n \in 1..(n + m) /\ ~ (k + n <= n) /\ (k + n) - n = k
      BY <1>1
    <3>3. u[k + n] = t[k]
      BY <3>2
    <3> QED BY <3>1, <3>2, <3>3
  <2> QED BY <2>1, <2>2
<1>12. ASSUME NEW k \in 1..(n + m), NEW l \in 1..(n + m), k < l
       PROVE  less(u[k], u[l])
  <2> HIDE DEF u
  <2>1. CASE k \in 1..n /\ l \in 1..n /\ u[k] = s[k] /\ u[l] = s[l]
    BY <1>3, <1>12, <2>1
  <2>2. CASE k \in 1..n /\ u[k] = s[k] /\ l - n \in 1..m /\ u[l] = t[l - n]
    BY <1>3, <1>4, <1>5, <2>2
  <2>3. CASE k - n \in 1..m /\ u[k] = t[k - n] /\ l - n \in 1..m /\ u[l] = t[l - n]
    <3>1. k - n < l - n
      BY <1>1, <1>12
    <3> QED BY <1>4, <2>3, <3>1
  <2>4. ~ (k > n /\ l \in 1..n)
    BY <1>1, <1>12
  <2> QED BY <1>9, <2>1, <2>2, <2>3, <2>4
<1> HIDE DEF u
<1>13. Enumerates(u, n + m, A \cup B, table)
  BY <1>10, <1>11, <1>12 DEF Enumerates, less
<1>14. n + m \in Nat
  BY <1>1
<1>15. InOrder(A \cup B, table) = u
  BY <1>2, <1>13, <1>14, OrderIsOne
<1> QED BY <1>8, <1>15 DEF s, t, Joined

(* Two tables in which the rows come in the same order list them alike. *)
LEMMA OrderKeeps ==
  ASSUME NEW ids, NEW table, NEW other, Sortable(ids, table), Sortable(ids, other),
         \A i, j \in ids : Precedes(i, table[i], j, table[j])
                             => Precedes(i, other[i], j, other[j])
  PROVE  InOrder(ids, other) = InOrder(ids, table)
<1> DEFINE n == Cardinality(ids)
           s == InOrder(ids, table)
<1>1. n \in Nat /\ Enumerates(s, n, ids, table)
  BY OrderEnumerates
<1> HIDE DEF n, s
<1>2. /\ s \in [1..n -> ids]
      /\ \A i \in ids : \E k \in 1..n : s[k] = i
      /\ \A k, l \in 1..n : k < l => Precedes(s[k], table[s[k]], s[l], table[s[l]])
  BY <1>1 DEF Enumerates
<1>3. \A k, l \in 1..n : k < l => Precedes(s[k], other[s[k]], s[l], other[s[l]])
  BY <1>2
<1>4. Enumerates(s, n, ids, other)
  BY <1>2, <1>3 DEF Enumerates
<1>5. InOrder(ids, other) = s
  BY <1>1, <1>4, OrderIsOne
<1> QED BY <1>5 DEF s

(* Rows that keep their positions keep their order.                         *)
LEMMA SameSorts ==
  ASSUME NEW ids, NEW table, NEW other, Sortable(ids, table),
         \A i \in ids : other[i].sort = table[i].sort
  PROVE  Sortable(ids, other) /\ InOrder(ids, other) = InOrder(ids, table)
<1>1. Sortable(ids, other)
  BY DEF Sortable
<1>2. \A i, j \in ids : Precedes(i, table[i], j, table[j])
                          => Precedes(i, other[i], j, other[j])
  BY DEF Precedes
<1> QED BY <1>1, <1>2, OrderKeeps

-----------------------------------------------------------------------------
(* Leaving one out *)

(* What a list does not have cannot be taken out of it.                     *)
LEMMA NoneLeftOut ==
  ASSUME NEW list, NEW x, \A k \in DOMAIN list : list[k] # x
  PROVE  Panel!Without(list, x) = list
BY DEF Panel!Without

Skipping(list, n, p) ==
  [k \in 1..(n - 1) |-> IF k < p THEN list[k] ELSE list[k + 1]]

(* x is once in a list of n, in place p. *)
OnceAt(list, n, x, p) ==
  /\ list = [k \in 1..n |-> list[k]]
  /\ p \in 1..n /\ list[p] = x
  /\ \A k \in 1..n : list[k] = x => k = p

(* What it has once leaves the rest of it in order.                         *)
LEMMA LeftOut ==
  ASSUME NEW n \in Nat, NEW list, NEW p, NEW x, OnceAt(list, n, x, p)
  PROVE  Panel!Without(list, x) = Skipping(list, n, p)
<1>1. /\ list = [k \in 1..n |-> list[k]] /\ p \in 1..n /\ list[p] = x
      /\ \A k \in 1..n : list[k] = x => k = p
  BY DEF OnceAt
<1> DEFINE S == {list[k] : k \in 1..n}
           at == {k \in DOMAIN list : list[k] = x}
           head == SubSeq(list, 1, p - 1)
           tail == SubSeq(list, p + 1, n)
<1>2. at = {p}
  BY <1>1
<1>3. (CHOOSE k \in at : TRUE) = p
  BY <1>2
<1>4. p \in 1..n
  BY <1>1
<1>5. list \in [1..n -> S]
  BY <1>1
<1> HIDE DEF S
<1>6. list \in Seq(S) /\ Len(list) = n
  BY <1>5
<1>7. Panel!Without(list, x) = head \o tail
  BY <1>2, <1>3, <1>6 DEF Panel!Without, Panel!RemoveAt
<1> DEFINE h == [k \in 1..(p - 1) |-> list[k]]
           t == [k \in 1..(n - p) |-> list[k + p]]
<1>8. head = h
  BY <1>1, <1>6
<1>9. tail = t
  BY <1>1, <1>6
<1>10. /\ h \in Seq(S) /\ Len(h) = p - 1
      /\ t \in Seq(S) /\ Len(t) = n - p
  <2>1. \A k \in 1..(p - 1) : k \in 1..n
    BY <1>1
  <2>2. \A k \in 1..(n - p) : k + p \in 1..n
    BY <1>1
  <2>3. h \in [1..(p - 1) -> S] /\ t \in [1..(n - p) -> S]
    BY <1>5, <2>1, <2>2
  <2> HIDE DEF h, t
  <2>4. p - 1 \in Nat /\ n - p \in Nat
    BY <1>4
  <2> QED BY <2>3, <2>4
<1>11. p - 1 \in Nat /\ n - p \in Nat /\ (p - 1) + (n - p) = n - 1
  BY <1>1
<1> HIDE DEF head, tail, at
<1>12. head \o tail
        = [k \in 1..(n - 1) |-> IF k <= p - 1 THEN h[k] ELSE t[k - (p - 1)]]
  <2> HIDE DEF h, t
  <2>1. /\ h \o t \in Seq(S) /\ Len(h \o t) = n - 1
        /\ \A k \in 1..(n - 1) :
             (h \o t)[k] = IF k <= p - 1 THEN h[k] ELSE t[k - (p - 1)]
    <3>1. /\ h \o t \in Seq(S) /\ Len(h \o t) = Len(h) + Len(t)
          /\ \A k \in 1..(Len(h) + Len(t)) :
               (h \o t)[k] = IF k <= Len(h) THEN h[k] ELSE t[k - Len(h)]
      BY <1>10, ConcatProperties
    <3> QED BY <1>10, <1>11, <3>1
  <2>2. h \o t \in [1..(n - 1) -> S]
    BY <2>1, LenProperties
  <2>3. h \o t = [k \in 1..(n - 1) |-> (h \o t)[k]]
    BY <1>1, <2>2
  <2> QED BY <1>8, <1>9, <2>1, <2>3
<1>13. ASSUME NEW k \in 1..(n - 1)
       PROVE  (IF k <= p - 1 THEN h[k] ELSE t[k - (p - 1)])
                = IF k < p THEN list[k] ELSE list[k + 1]
  <2>1. CASE k < p
    <3>1. k <= p - 1 /\ k \in 1..(p - 1)
      BY <1>1, <2>1
    <3> QED BY <2>1, <3>1
  <2>2. CASE ~ (k < p)
    <3>1. ~ (k <= p - 1) /\ k - (p - 1) \in 1..(n - p) /\ (k - (p - 1)) + p = k + 1
      BY <1>1, <2>2
    <3>2. t[k - (p - 1)] = list[k + 1]
      BY <1>1, <3>1
    <3> HIDE DEF t
    <3> QED BY <2>2, <3>1, <3>2
  <2> QED BY <2>1, <2>2
<1> HIDE DEF h, t
<1> QED BY <1>7, <1>12, <1>13 DEF Skipping

(* A row that goes leaves the others in their order. *)
LEMMA OrderLeavesOut ==
  ASSUME NEW ids, NEW table, Sortable(ids, table), NEW x \in ids
  PROVE  InOrder(ids \ {x}, table) = Panel!Without(InOrder(ids, table), x)
<1> DEFINE n == Cardinality(ids)
           s == InOrder(ids, table)
<1>1. n \in Nat /\ Enumerates(s, n, ids, table)
  BY OrderEnumerates
<1>2. \A k, m \in 1..n : s[k] = s[m] => k = m
  BY <1>1, EnumeratedOnce
<1>3. Sortable(ids \ {x}, table)
  BY FS_RemoveElement DEF Sortable
<1> HIDE DEF n, s
<1>4. /\ s \in [1..n -> ids]
      /\ \A i \in ids : \E k \in 1..n : s[k] = i
      /\ \A k, m \in 1..n : k < m => Precedes(s[k], table[s[k]], s[m], table[s[m]])
  BY <1>1 DEF Enumerates
<1>5. PICK p \in 1..n : s[p] = x
  BY <1>4
<1> DEFINE old(k) == IF k < p THEN k ELSE k + 1
           t == [k \in 1..(n - 1) |-> IF k < p THEN s[k] ELSE s[k + 1]]
<1>6. Panel!Without(s, x) = t
  <2>1. OnceAt(s, n, x, p)
    BY <1>2, <1>4, <1>5 DEF OnceAt
  <2>2. Panel!Without(s, x) = Skipping(s, n, p)
    BY <1>1, <2>1, LeftOut
  <2> QED BY <2>2 DEF Skipping
<1>7. \A k \in 1..(n - 1) : old(k) \in 1..n /\ old(k) # p /\ t[k] = s[old(k)]
  BY <1>1
<1>8. \A k, m \in 1..(n - 1) : k < m => old(k) < old(m)
  BY <1>1
<1>9. \A k \in 1..n : k # p => \E m \in 1..(n - 1) : old(m) = k
  <2>1. ASSUME NEW k \in 1..n, k # p PROVE \E m \in 1..(n - 1) : old(m) = k
    <3>1. CASE k < p
      <4>1. k \in 1..(n - 1)
        BY <1>1, <3>1
      <4> QED BY <3>1, <4>1
    <3>2. CASE ~ (k < p)
      <4>1. k - 1 \in 1..(n - 1) /\ ~ (k - 1 < p) /\ (k - 1) + 1 = k
        BY <1>1, <2>1, <3>2
      <4> QED BY <4>1
    <3> QED BY <3>1, <3>2
  <2> QED BY <2>1
<1> HIDE DEF old
<1>10. t \in [1..(n - 1) -> ids \ {x}]
  <2>1. \A k \in 1..(n - 1) : t[k] \in ids \ {x}
    BY <1>2, <1>4, <1>5, <1>7
  <2> QED BY <2>1
<1> HIDE DEF t
<1>11. ASSUME NEW i \in ids \ {x} PROVE \E k \in 1..(n - 1) : t[k] = i
  <2>1. PICK k \in 1..n : s[k] = i
    BY <1>4
  <2>2. PICK m \in 1..(n - 1) : old(m) = k
    BY <1>5, <1>9, <2>1
  <2> QED BY <1>7, <2>1, <2>2
<1>12. \A k, m \in 1..(n - 1) : k < m => Precedes(t[k], table[t[k]], t[m], table[t[m]])
  BY <1>4, <1>7, <1>8
<1>13. Enumerates(t, n - 1, ids \ {x}, table)
  BY <1>10, <1>11, <1>12 DEF Enumerates
<1>14. n - 1 \in Nat
  BY <1>1, <1>5
<1>15. InOrder(ids \ {x}, table) = t
  BY <1>3, <1>13, <1>14, OrderIsOne
<1> QED BY <1>6, <1>15 DEF s

-----------------------------------------------------------------------------
(* The layers of a list *)

(* The order of a set, as a function without repetition                     *)
LEMMA OrderIs ==
  ASSUME NEW ids, NEW table, Sortable(ids, table),
         NEW n, n = Cardinality(ids), NEW list, list = InOrder(ids, table)
  PROVE  /\ n \in Nat /\ list \in [1..n -> ids] /\ DOMAIN list = 1..n
         /\ \A i \in ids : \E k \in 1..n : list[k] = i
         /\ \A k, m \in 1..n : list[k] = list[m] => k = m
<1>1. n \in Nat /\ Enumerates(list, n, ids, table)
  BY OrderEnumerates
<1>2. \A k, m \in 1..n : list[k] = list[m] => k = m
  BY <1>1, EnumeratedOnce
<1> QED BY <1>1, <1>2 DEF Enumerates

(* The list drawn from a set has the layers of its rows, in their order.    *)
LEMMA LayersAre ==
  ASSUME NEW ids, NEW table, Sortable(ids, table),
         NEW n, n = Cardinality(ids), NEW list, list = InOrder(ids, table)
  PROVE  /\ n \in Nat
         /\ LayersOf(ids, table) = [k \in 1..n |-> table[list[k]].layer]
         /\ DOMAIN LayersOf(ids, table) = 1..n
         /\ \A k \in 1..n : LayersOf(ids, table)[k] = table[list[k]].layer
<1>1. n \in Nat /\ DOMAIN list = 1..n
  BY OrderIs
<1> QED BY <1>1 DEF LayersOf

(* Rows that follow others follow them in the list.                         *)
LEMMA LayersAppend ==
  ASSUME NEW A, NEW B, NEW table, Sortable(A, table), Sortable(B, table),
         AllPrecede(A, B, table)
  PROVE  LayersOf(A \cup B, table) = Joined(LayersOf(A, table), LayersOf(B, table))
<1> DEFINE n == Cardinality(A)
           m == Cardinality(B)
           s == InOrder(A, table)
           t == InOrder(B, table)
           S == {table[i].layer : i \in A \cup B}
           x == LayersOf(A, table)
           y == LayersOf(B, table)
           e == InOrder(A \cup B, table)
           z == LayersOf(A \cup B, table)
<1>1. /\ n \in Nat /\ s \in [1..n -> A]
      /\ m \in Nat /\ t \in [1..m -> B]
  <2>1. n \in Nat /\ s \in [1..n -> A]
    BY OrderIs
  <2>2. m \in Nat /\ t \in [1..m -> B]
    BY OrderIs
  <2> QED BY <2>1, <2>2
<1>2. /\ x = [k \in 1..n |-> table[s[k]].layer]
      /\ y = [k \in 1..m |-> table[t[k]].layer]
  <2>1. x = [k \in 1..n |-> table[s[k]].layer]
    BY LayersAre
  <2>2. y = [k \in 1..m |-> table[t[k]].layer]
    BY LayersAre
  <2> QED BY <2>1, <2>2
<1>3. e = s \o t
  <2>1. e = Joined(s, t)
    BY OrderAppends
  <2> QED BY <2>1 DEF Joined
<1>4. z = [k \in DOMAIN e |-> table[e[k]].layer]
  BY DEF LayersOf
<1> HIDE DEF n, m, s, t, x, y, z, e
<1>5. s \in Seq(A \cup B) /\ t \in Seq(A \cup B) /\ Len(s) = n /\ Len(t) = m
  BY <1>1
<1>6. /\ e \in [1..(n + m) -> A \cup B]
      /\ \A k \in 1..(n + m) : e[k] = IF k <= n THEN s[k] ELSE t[k - n]
  <2>1. /\ e \in Seq(A \cup B) /\ Len(e) = n + m
        /\ \A k \in 1..(n + m) : e[k] = IF k <= n THEN s[k] ELSE t[k - n]
    BY <1>1, <1>3, <1>5, ConcatProperties
  <2> QED BY <2>1, LenProperties
<1>7. x \in [1..n -> S] /\ y \in [1..m -> S]
  <2>1. \A k \in 1..n : table[s[k]].layer \in S
    BY <1>1
  <2>2. \A k \in 1..m : table[t[k]].layer \in S
    BY <1>1
  <2> HIDE DEF S
  <2> QED BY <1>2, <2>1, <2>2
<1> HIDE DEF S
<1>8. x \in Seq(S) /\ y \in Seq(S) /\ Len(x) = n /\ Len(y) = m
  BY <1>1, <1>7
<1>9. /\ x \o y \in [1..(n + m) -> S]
      /\ \A k \in 1..(n + m) : (x \o y)[k] = IF k <= n THEN x[k] ELSE y[k - n]
  <2>1. /\ x \o y \in Seq(S) /\ Len(x \o y) = n + m
        /\ \A k \in 1..(n + m) : (x \o y)[k] = IF k <= n THEN x[k] ELSE y[k - n]
    BY <1>1, <1>8, ConcatProperties
  <2> QED BY <2>1, LenProperties
<1>10. ASSUME NEW k \in 1..(n + m) PROVE (x \o y)[k] = table[e[k]].layer
  <2>1. CASE k <= n
    <3>1. k \in 1..n
      BY <1>1, <2>1
    <3>2. x[k] = table[s[k]].layer
      BY <1>2, <3>1
    <3>3. (x \o y)[k] = x[k] /\ e[k] = s[k]
      BY <1>6, <1>9, <2>1
    <3> QED BY <3>2, <3>3
  <2>2. CASE ~ (k <= n)
    <3>1. k - n \in 1..m
      BY <1>1, <2>2
    <3>2. y[k - n] = table[t[k - n]].layer
      BY <1>2, <3>1
    <3>3. (x \o y)[k] = y[k - n] /\ e[k] = t[k - n]
      BY <1>6, <1>9, <2>2
    <3> QED BY <3>2, <3>3
  <2> QED BY <2>1, <2>2
<1>11. z = [k \in 1..(n + m) |-> table[e[k]].layer]
  BY <1>4, <1>6
<1>12. x \o y = [k \in 1..(n + m) |-> (x \o y)[k]]
  BY <1>9
<1>13. z = x \o y
  BY <1>10, <1>11, <1>12
<1> QED BY <1>13 DEF x, y, z, Joined

(* The list of a single row                                                 *)
LEMMA LayersOne ==
  ASSUME NEW x \in Nat, NEW table, table[x].sort \in Int
  PROVE  LayersOf({x}, table) = <<table[x].layer>>
<1>1. InOrder({x}, table) = <<x>>
  BY OneRow
<1>2. DOMAIN <<x>> = 1..1 /\ <<x>>[1] = x
  OBVIOUS
<1>3. LayersOf({x}, table) = [k \in 1..1 |-> table[<<x>>[k]].layer]
  BY <1>1, <1>2 DEF LayersOf
<1>4. \A k \in 1..1 : table[<<x>>[k]].layer = table[x].layer
  BY <1>2
<1>5. LayersOf({x}, table) = [k \in 1..1 |-> table[x].layer]
  BY <1>3, <1>4
<1> QED BY <1>5

(* The same rows in the same order draw the same list.                      *)
LEMMA LayersKeep ==
  ASSUME NEW ids, NEW table, NEW other, Sortable(ids, table),
         InOrder(ids, other) = InOrder(ids, table),
         \A i \in ids : other[i].layer = table[i].layer
  PROVE  LayersOf(ids, other) = LayersOf(ids, table)
<1> DEFINE n == Cardinality(ids)
           s == InOrder(ids, table)
<1>1. n \in Nat /\ s \in [1..n -> ids]
  BY OrderIs
<1>2. /\ LayersOf(ids, other) = [k \in DOMAIN s |-> other[s[k]].layer]
      /\ LayersOf(ids, table) = [k \in DOMAIN s |-> table[s[k]].layer]
  BY DEF LayersOf
<1> HIDE DEF n, s
<1>3. \A k \in DOMAIN s : other[s[k]].layer = table[s[k]].layer
  BY <1>1
<1> QED BY <1>2, <1>3

(* No layer is listed twice, and a row that goes takes its layer with it. *)
LEMMA LayersLeaveOut ==
  ASSUME NEW ids, NEW table, Sortable(ids, table), NEW x \in ids,
         \A i, j \in ids : table[i].layer = table[j].layer => i = j
  PROVE  LayersOf(ids \ {x}, table)
           = Panel!Without(LayersOf(ids, table), table[x].layer)
<1> DEFINE n == Cardinality(ids)
           s == InOrder(ids, table)
           y == LayersOf(ids, table)
           e == InOrder(ids \ {x}, table)
           z == LayersOf(ids \ {x}, table)
           L == {table[i].layer : i \in ids}
<1>1. /\ n \in Nat /\ s \in [1..n -> ids]
      /\ \A i \in ids : \E k \in 1..n : s[k] = i
      /\ \A k, m \in 1..n : s[k] = s[m] => k = m
  BY OrderIs
<1>2. y = [k \in 1..n |-> table[s[k]].layer]
  BY LayersAre
<1>3. e = Panel!Without(s, x)
  BY OrderLeavesOut
<1>4. z = [k \in DOMAIN e |-> table[e[k]].layer]
  BY DEF LayersOf
<1> HIDE DEF n, s, y, z, e
<1>5. PICK p \in 1..n : s[p] = x
  BY <1>1
<1>6. e = [k \in 1..(n - 1) |-> IF k < p THEN s[k] ELSE s[k + 1]]
  <2>1. OnceAt(s, n, x, p)
    BY <1>1, <1>5 DEF OnceAt
  <2>2. Panel!Without(s, x) = Skipping(s, n, p)
    BY <1>1, <2>1, LeftOut
  <2> QED BY <1>3, <2>2 DEF Skipping
<1>7. y \in [1..n -> L] /\ y[p] = table[x].layer
  <2>1. \A k \in 1..n : table[s[k]].layer \in L
    BY <1>1
  <2> HIDE DEF L
  <2>2. y \in [1..n -> L]
    BY <1>2, <2>1
  <2>3. y[p] = table[x].layer
    BY <1>2, <1>5
  <2> QED BY <2>2, <2>3
<1>8. \A k \in 1..n : y[k] = y[p] => k = p
  <2>1. ASSUME NEW k \in 1..n, y[k] = y[p] PROVE k = p
    <3>1. y[k] = table[s[k]].layer /\ y[p] = table[s[p]].layer
      BY <1>2
    <3>2. s[k] \in ids /\ s[p] \in ids
      BY <1>1
    <3>3. s[k] = s[p]
      BY <2>1, <3>1, <3>2
    <3> QED BY <1>1, <3>3
  <2> QED BY <2>1
<1> HIDE DEF L
<1>9. Panel!Without(y, y[p]) = [k \in 1..(n - 1) |-> IF k < p THEN y[k] ELSE y[k + 1]]
  <2>1. OnceAt(y, n, y[p], p)
    BY <1>7, <1>8 DEF OnceAt
  <2>2. Panel!Without(y, y[p]) = Skipping(y, n, p)
    BY <1>1, <2>1, LeftOut
  <2> QED BY <2>2 DEF Skipping
<1>10. ASSUME NEW k \in 1..(n - 1)
       PROVE  (IF k < p THEN y[k] ELSE y[k + 1]) = table[e[k]].layer
  <2>1. CASE k < p
    <3>1. k \in 1..n
      BY <1>1
    <3>2. e[k] = s[k]
      BY <1>6, <2>1
    <3>3. y[k] = table[s[k]].layer
      BY <1>2, <3>1
    <3> QED BY <2>1, <3>2, <3>3
  <2>2. CASE ~ (k < p)
    <3>1. k + 1 \in 1..n
      BY <1>1
    <3>2. e[k] = s[k + 1]
      BY <1>6, <2>2
    <3>3. y[k + 1] = table[s[k + 1]].layer
      BY <1>2, <3>1
    <3> QED BY <2>2, <3>2, <3>3
  <2> QED BY <2>1, <2>2
<1>11. DOMAIN e = 1..(n - 1)
  BY <1>6
<1>12. z = [k \in 1..(n - 1) |-> table[e[k]].layer]
  BY <1>4, <1>11
<1>13. z = Panel!Without(y, y[p])
  BY <1>9, <1>10, <1>12
<1> QED BY <1>7, <1>13 DEF y, z

(* A layer that is not in a list cannot be taken out of it. *)
LEMMA LayersLack ==
  ASSUME NEW ids, NEW table, Sortable(ids, table), NEW l,
         \A i \in ids : table[i].layer # l
  PROVE  Panel!Without(LayersOf(ids, table), l) = LayersOf(ids, table)
<1> DEFINE n == Cardinality(ids)
           s == InOrder(ids, table)
           y == LayersOf(ids, table)
<1>1. s \in [1..n -> ids]
  BY OrderIs
<1>2. DOMAIN y = 1..n /\ \A k \in 1..n : y[k] = table[s[k]].layer
  BY LayersAre
<1> HIDE DEF n, s, y
<1>3. \A k \in DOMAIN y : y[k] # l
  BY <1>1, <1>2
<1>4. Panel!Without(y, l) = y
  BY <1>3, NoneLeftOut
<1> QED BY <1>4 DEF y

(* The n elements of a list, in another order *)
Turned(list, n, other) ==
  \E turn \in [1..n -> 1..n] :
    /\ \A k, m \in 1..n : turn[k] = turn[m] => k = m
    /\ other = [k \in 1..n |-> list[turn[k]]]

(* The same rows in another order are the same list, turned. *)
LEMMA LayersTurn ==
  ASSUME NEW ids, NEW table, NEW other, Sortable(ids, table), Sortable(ids, other),
         \A i \in ids : other[i].layer = table[i].layer,
         NEW n, n = Cardinality(ids)
  PROVE  /\ n \in Nat /\ Len(LayersOf(ids, table)) = n
         /\ Turned(LayersOf(ids, table), n, LayersOf(ids, other))
<1> DEFINE s == InOrder(ids, table)
           t == InOrder(ids, other)
           y == LayersOf(ids, table)
           z == LayersOf(ids, other)
           L == {table[i].layer : i \in ids}
           turn == [k \in 1..n |-> CHOOSE j \in 1..n : s[j] = t[k]]
<1>1. /\ n \in Nat /\ s \in [1..n -> ids]
      /\ \A i \in ids : \E k \in 1..n : s[k] = i
  BY OrderIs
<1>2. /\ t \in [1..n -> ids]
      /\ \A k, m \in 1..n : t[k] = t[m] => k = m
  BY OrderIs
<1>3. y = [k \in 1..n |-> table[s[k]].layer]
  BY LayersAre
<1>4. z = [k \in 1..n |-> other[t[k]].layer]
  BY LayersAre
<1> HIDE DEF s, t, y, z
<1>5. \A k \in 1..n : turn[k] \in 1..n /\ s[turn[k]] = t[k]
  <2>1. ASSUME NEW k \in 1..n PROVE turn[k] \in 1..n /\ s[turn[k]] = t[k]
    <3>1. \E j \in 1..n : s[j] = t[k]
      BY <1>1, <1>2
    <3> QED BY <3>1
  <2> QED BY <2>1
<1>6. turn \in [1..n -> 1..n]
  BY <1>5
<1> HIDE DEF turn
<1>7. \A k, m \in 1..n : turn[k] = turn[m] => k = m
  BY <1>2, <1>5
<1>8. z = [k \in 1..n |-> y[turn[k]]]
  <2>1. ASSUME NEW k \in 1..n PROVE other[t[k]].layer = y[turn[k]]
    <3>1. t[k] \in ids
      BY <1>2
    <3>2. y[turn[k]] = table[t[k]].layer
      BY <1>3, <1>5
    <3> QED BY <3>1, <3>2
  <2> QED BY <1>4, <2>1
<1>9. y \in [1..n -> L]
  <2>1. \A k \in 1..n : table[s[k]].layer \in L
    BY <1>1
  <2> HIDE DEF L
  <2> QED BY <1>3, <2>1
<1>10. Len(y) = n
  <2> HIDE DEF L
  <2> QED BY <1>1, <1>9
<1>11. Turned(y, n, z)
  BY <1>6, <1>7, <1>8 DEF Turned
<1> QED BY <1>1, <1>10, <1>11 DEF y, z

-----------------------------------------------------------------------------
(* A request that is the only one under way *)

Stands(w) == FolderStands(w) /\ PlaceStands(w) /\ RowsStand(w) /\ AssignedStands(w)

(* At these steps a request rests on nothing it has read. *)
Carefree == {"idle", "ensure", "count", "find", "own", "folderCount", "folderLoad",
             "ungroupFind", "list", "position", "audit", "refind",
             "folderPosition", "folderFlush"}

(* At such a step, with nothing assigned, all that was read still holds.    *)
LEMMA CarefreeStands ==
  ASSUME NEW w \in Workers, pc'[w] \in Carefree, DOMAIN dirty'[w] = {}
  PROVE  Stands(w)'
<1>1. FolderStands(w)'
  BY DEF FolderStands, Carefree
<1>2. PlaceStands(w)'
  BY DEF PlaceStands, Carefree
<1>3. RowsStand(w)'
  BY DEF RowsStand, Carefree
<1>4. AssignedStands(w)'
  BY DEF AssignedStands, Carefree
<1> QED BY <1>1, <1>2, <1>3, <1>4 DEF Stands

(* An empty session                                                         *)
LEMMA EmptyHasNone == DOMAIN Empty = {}
BY DEF Empty

(* The steps that lead to one                                               *)
LEMMA CarefreeSteps ==
  ASSUME TypeOK, NEW w \in Workers, Stands(w),
         \/ Receive(w) \/ EnsureFinds(w) \/ EnsureMisses(w) \/ List(w)
         \/ CountFull(w) \/ CountFree(w) \/ Insert(w) \/ InsertConflicts(w)
         \/ FindAgain(w) \/ Delete(w) \/ FlushFails(w) \/ CountFolders(w)
         \/ InsertFolder(w) \/ LoadFolder(w) \/ FlushFolder(w) \/ DeleteFolder(w)
         \/ Audit(w)
  PROVE  Stands(w)'
<1>1. pc \in [Workers -> Steps] /\ dirty = [v \in Workers |-> dirty[v]]
  BY DEF TypeOK, RequestsOK, SessionsOK
<1>2. pc'[w] \in Carefree
  <2>1. CASE Receive(w)
    <3>1. PICK op \in Ops : Goto(w, FirstStep[op])
      BY <2>1 DEF Receive
    <3>2. op \in AllOps
      BY ConstantsAssumption
    <3>3. FirstStep[op] \in Carefree
      BY <3>2 DEF AllOps, FirstStep, Carefree
    <3> QED BY <1>1, <3>1, <3>3 DEF Goto
  <2>2. CASE ~ Receive(w)
    BY <1>1, <2>2 DEF EnsureFinds, EnsureMisses, List, CountFull, CountFree, Insert,
       InsertConflicts, FindAgain, Delete, FlushFails, CountFolders, InsertFolder,
       LoadFolder, FlushFolder, DeleteFolder, Audit, Goto, Answer, Carefree
  <2> QED BY <2>1, <2>2
<1>3. DOMAIN dirty'[w] = {}
  <2>1. CASE FlushFails(w) \/ Audit(w)
    <3>1. dirty'[w] = Empty
      BY <1>1, <2>1 DEF FlushFails, Audit, Discard
    <3> QED BY <3>1, EmptyHasNone
  <2>2. CASE ~ (FlushFails(w) \/ Audit(w))
    <3>1. dirty' = dirty /\ pc[w] # "flush"
      BY <2>2 DEF Receive, EnsureFinds, EnsureMisses, List, CountFull, CountFree,
         Insert, InsertConflicts, FindAgain, Delete, CountFolders, InsertFolder,
         LoadFolder, FlushFolder, DeleteFolder, session, At
    <3> QED BY <3>1 DEF Stands, AssignedStands
  <2> QED BY <2>1, <2>2
<1> QED BY <1>2, <1>3, CarefreeStands

(* What is read is still so at the next step. *)
LEMMA ReadStands ==
  ASSUME TypeOK, NEW w \in Workers, Stands(w),
         ReadPosition(w) \/ ReadFolderPosition(w) \/ FindToRemove(w)
  PROVE  Stands(w)'
<1>1. /\ pc \in [Workers -> Steps] /\ dirty = [v \in Workers |-> dirty[v]]
      /\ place \in [Workers -> Int]
  BY DEF TypeOK, RequestsOK, SessionsOK
<1>2. UNCHANGED tables /\ call' = call /\ dirty' = dirty
  BY DEF ReadPosition, ReadFolderPosition, FindToRemove, session
<1>3. pc[w] # "flush" /\ pc'[w] \in {"insert", "folderInsert", "delete", "audit"}
  BY <1>1 DEF ReadPosition, ReadFolderPosition, FindToRemove, At, Goto, Answer
<1>4. DOMAIN dirty'[w] = {}
  BY <1>2, <1>3 DEF Stands, AssignedStands
<1>5. FolderStands(w)'
  BY <1>3 DEF FolderStands
<1>6. AssignedStands(w)'
  BY <1>3, <1>4 DEF AssignedStands
<1>7. RowsStand(w)'
  <2>1. CASE FindToRemove(w)
    <3>1. pc'[w] = "delete" => call[w].row \in OwnedBy(call[w].user)
      BY <1>1, <2>1 DEF FindToRemove, Answer
    <3>2. pc'[w] = "delete" => (call[w].row \in OwnedBy(call[w].user))'
      BY <1>2, <3>1 DEF OwnedBy, tables
    <3> QED BY <1>3, <3>2 DEF RowsStand
  <2>2. CASE ~ FindToRemove(w)
    <3>1. pc'[w] \in {"insert", "folderInsert"}
      BY <1>1, <2>2 DEF ReadPosition, ReadFolderPosition, Goto
    <3> QED BY <3>1 DEF RowsStand
  <2> QED BY <2>1, <2>2
<1>8. PlaceStands(w)'
  <2>1. CASE ReadPosition(w)
    <3>1. pc'[w] = "insert" /\ place'[w] \in top_sort_order(call[w].user, Top)
      BY <1>1, <2>1 DEF ReadPosition, Goto
    <3>2. (place[w] \in top_sort_order(call[w].user, Top))'
      BY <1>2, <3>1 DEF top_sort_order, SortsIn, Container, OwnedBy, tables
    <3> QED BY <3>1, <3>2 DEF PlaceStands
  <2>2. CASE ReadFolderPosition(w)
    <3>1. /\ pc'[w] = "folderInsert"
          /\ place'[w] \in Above({folders[f].sort : f \in FoldersOf(call[w].user)})
      BY <1>1, <2>2 DEF ReadFolderPosition, Goto
    <3>2. (place[w] \in Above({folders[f].sort : f \in FoldersOf(call[w].user)}))'
      BY <1>2, <3>1 DEF FoldersOf, tables
    <3> QED BY <3>1, <3>2 DEF PlaceStands
  <2>3. CASE FindToRemove(w)
    <3>1. pc'[w] \in {"delete", "audit"}
      BY <1>1, <2>3 DEF FindToRemove, Answer, Goto
    <3> QED BY <3>1 DEF PlaceStands
  <2> QED BY <2>1, <2>2, <2>3
<1> QED BY <1>5, <1>6, <1>7, <1>8 DEF Stands

(* So are the folder and the rows that are looked up. *)
LEMMA LookUpStands ==
  ASSUME TypeOK, Sound, NEW w \in Workers, Stands(w),
         CheckFolder(w) \/ LoadToMove(w) \/ CheckOrder(w) \/ FindToUngroup(w)
         \/ LoadToUngroup(w)
  PROVE  Stands(w)'
<1> DEFINE c == call[w]
           here == Container(c.user, c.folder)
<1>1. /\ pc \in [Workers -> Steps] /\ dirty = [v \in Workers |-> dirty[v]]
      /\ seen = [v \in Workers |-> seen[v]]
  BY DEF TypeOK, RequestsOK, SessionsOK
<1>2. UNCHANGED tables /\ call' = call /\ dirty' = dirty
  BY DEF CheckFolder, LoadToMove, CheckOrder, FindToUngroup, LoadToUngroup, session
<1>3. /\ pc[w] \in {"own", "load", "check", "ungroupFind", "ungroupRows"}
      /\ pc'[w] \in {"audit", "load", "check", "target", "reload", "ungroupRows",
                     "folderDelete", "bottom"}
  BY <1>1 DEF CheckFolder, LoadToMove, CheckOrder, FindToUngroup, LoadToUngroup,
     At, Goto, Answer
<1>4. DOMAIN dirty'[w] = {}
  BY <1>2, <1>3 DEF Stands, AssignedStands
<1>5. FolderStands(w)'
  <2>1. \/ pc'[w] = "audit"
        \/ pc'[w] \in {"load", "target", "check", "reload"} /\ c.folder = Top
        \/ OwnFolder(c.user, c.folder)
    <3>1. CASE CheckFolder(w)
      BY <1>1, <3>1 DEF CheckFolder, Goto, Answer
    <3>2. CASE FindToUngroup(w)
      BY <1>1, <3>2 DEF FindToUngroup, Goto, Answer
    <3>3. CASE LoadToMove(w)
      BY <1>1, <3>3 DEF LoadToMove, Goto, Answer, At, Stands, FolderStands
    <3>4. CASE CheckOrder(w)
      BY <1>1, <3>4 DEF CheckOrder, Goto, Answer, At, Stands, FolderStands
    <3>5. CASE LoadToUngroup(w)
      BY <3>5 DEF LoadToUngroup, At, Stands, FolderStands
    <3> QED BY <3>1, <3>2, <3>3, <3>4, <3>5
  <2>2. OwnFolder(c.user, c.folder) => OwnFolder(c.user, c.folder)'
    BY <1>2 DEF OwnFolder, tables
  <2> QED BY <1>2, <2>1, <2>2 DEF FolderStands
<1>6. PlaceStands(w)'
  BY <1>3 DEF PlaceStands
<1>7. AssignedStands(w)'
  BY <1>3, <1>4 DEF AssignedStands
<1>8. /\ here' = here /\ (c.row \in OwnedBy(c.user))' = (c.row \in OwnedBy(c.user))
      /\ Loaded(here)' = Loaded(here) /\ Loaded({c.row})' = Loaded({c.row})
  BY <1>2 DEF Container, OwnedBy, Loaded, tables
<1>9. RowsStand(w)'
  <2>1. pc'[w] = "target" => c.row \in OwnedBy(c.user) /\ seen'[w] = Loaded({c.row})
    <3>1. CASE LoadToMove(w)
      BY <1>1, <3>1 DEF LoadToMove, Goto, Answer
    <3>2. CASE ~ LoadToMove(w)
      BY <1>1, <3>2 DEF CheckFolder, CheckOrder, FindToUngroup, LoadToUngroup,
         Goto, Answer
    <3> QED BY <3>1, <3>2
  <2>2. pc'[w] = "reload" => Listed(c.order) = here /\ Len(c.order) = Cardinality(here)
    <3>1. CASE CheckOrder(w)
      BY <1>1, <3>1 DEF CheckOrder, Goto, Answer
    <3>2. CASE ~ CheckOrder(w)
      BY <1>1, <3>2 DEF CheckFolder, LoadToMove, FindToUngroup, LoadToUngroup,
         Goto, Answer
    <3> QED BY <3>1, <3>2
  <2>3. /\ pc'[w] = "bottom" => seen'[w] = Loaded(here)
        /\ pc'[w] = "folderDelete" => here = {}
    <3>1. CASE LoadToUngroup(w)
      BY <1>1, <3>1 DEF LoadToUngroup, Goto
    <3>2. CASE ~ LoadToUngroup(w)
      BY <1>1, <3>2 DEF CheckFolder, CheckOrder, FindToUngroup, LoadToMove,
         Goto, Answer
    <3> QED BY <3>1, <3>2
  <2>4. pc'[w] # "delete" /\ pc'[w] # "flush"
    BY <1>3
  <2>5. Listed(c.order)' = Listed(c.order) /\ Len(c.order)' = Len(c.order)
        /\ Cardinality(here)' = Cardinality(here)
    BY <1>2, <1>8 DEF Listed
  <2>6. (seen[w])' = seen'[w] /\ (pc[w])' = pc'[w]
    OBVIOUS
  <2> HIDE DEF here, c
  <2> QED BY <1>2, <1>8, <2>1, <2>2, <2>3, <2>4, <2>5 DEF RowsStand, here, c
<1> QED BY <1>5, <1>6, <1>7, <1>9 DEF Stands

(* What is assigned is right for the rows as they are. *)
LEMMA MoveStands ==
  ASSUME TypeOK, Sound, NEW w \in Workers, Stands(w), AssignMove(w)
  PROVE  Stands(w)'
<1> DEFINE c == call[w]
<1>1. /\ pc \in [Workers -> Steps] /\ dirty = [v \in Workers |-> dirty[v]]
  BY DEF TypeOK, RequestsOK, SessionsOK
<1>2. UNCHANGED tables /\ call' = call /\ seen' = seen
  BY DEF AssignMove
<1>3. pc[w] = "target" /\ pc'[w] = "flush" /\ c.op = "move"
  BY <1>1, StepTellsOp DEF AssignMove, At, Goto
<1>4. FolderStands(w)'
  <2>1. c.folder # Top => OwnFolder(c.user, c.folder)
    BY <1>3 DEF Stands, FolderStands
  <2>2. c.folder # Top => OwnFolder(c.user, c.folder)'
    BY <1>2, <2>1 DEF OwnFolder, tables
  <2> QED BY <1>2, <1>3, <2>2 DEF FolderStands
<1>5. PlaceStands(w)'
  BY <1>3 DEF PlaceStands
<1>6. RowsStand(w)'
  <2>1. c.row \in OwnedBy(c.user) /\ seen[w] = Loaded({c.row})
    BY <1>3 DEF Stands, RowsStand
  <2>2. (c.row \in OwnedBy(c.user) /\ seen[w] = Loaded({c.row}))'
    BY <1>2, <2>1 DEF OwnedBy, Loaded, tables
  <2> QED BY <1>2, <1>3, <2>2 DEF RowsStand
<1>7. AssignedStands(w)'
  <2>1. PICK p \in top_sort_order(c.user, c.folder) :
          dirty'[w] = [i \in {c.row} |-> [folder |-> c.folder, sort |-> p]]
    BY <1>1 DEF AssignMove
  <2>2. (p \in top_sort_order(c.user, c.folder))'
    BY <1>2, <2>1 DEF top_sort_order, SortsIn, Container, OwnedBy, tables
  <2> QED BY <1>2, <1>3, <2>1, <2>2 DEF AssignedStands
<1> QED BY <1>4, <1>5, <1>6, <1>7 DEF Stands

(* What a reorder assigns is the order it was sent.                         *)
LEMMA OrderStands ==
  ASSUME TypeOK, Sound, NEW w \in Workers, Stands(w), AssignOrder(w)
  PROVE  Stands(w)'
<1> DEFINE c == call[w]
           here == Container(c.user, c.folder)
           done == Reached(c.order, here)
           rank == [i \in here |-> CHOOSE k \in DOMAIN c.order : c.order[k] = i]
<1>1. /\ pc \in [Workers -> Steps] /\ dirty = [v \in Workers |-> dirty[v]]
      /\ seen = [v \in Workers |-> seen[v]]
  BY DEF TypeOK, RequestsOK, SessionsOK
<1>2. UNCHANGED tables /\ call' = call
  BY DEF AssignOrder
<1>3. pc[w] = "reload" /\ c.op = "reorder"
  BY StepTellsOp DEF AssignOrder, At
<1>4. Listed(c.order) = here /\ Len(c.order) = Cardinality(here)
  <2>1. RowsStand(w)
    BY DEF Stands
  <2> QED BY <1>3, <2>1, Zenon DEF RowsStand
<1>5. done = DOMAIN c.order
  <2>1. c.order \in Seq(Nat)
    <3>1. c.order \in Orders \cup {<<>>}
      BY DEF TypeOK, RequestsOK, Call
    <3>2. Orders \subseteq Seq(Nat) /\ <<>> \in Seq(Nat)
      BY ConstantsAssumption
    <3> HIDE DEF c
    <3> QED BY <3>1, <3>2
  <2>2. \A k \in DOMAIN c.order : 1..k \subseteq DOMAIN c.order
    BY <2>1
  <2>3. \A k \in DOMAIN c.order : c.order[k] \in here
    BY <1>4 DEF Listed
  <2> HIDE DEF here, c
  <2> QED BY <2>2, <2>3 DEF Reached, done
<1>6. seen'[w] = Loaded(here)
  BY <1>1 DEF AssignOrder
<1>7. pc'[w] = "flush"
  BY <1>1, <1>5 DEF AssignOrder, Goto
<1>8. dirty'[w] = [i \in here |-> [folder |-> c.folder, sort |-> rank[i]]]
  <2>1. dirty'[w] = [i \in {c.order[k] : k \in done} |->
                       [folder |-> favourites[i].folder,
                        sort |-> CHOOSE k \in done : c.order[k] = i]]
    BY <1>1 DEF AssignOrder
  <2>2. {c.order[k] : k \in done} = here
    BY <1>4, <1>5 DEF Listed
  <2>3. \A i \in here : favourites[i].folder = c.folder
    BY DEF Container
  <2> HIDE DEF here, c, done
  <2>4. dirty'[w] = [i \in here |->
                       [folder |-> favourites[i].folder,
                        sort |-> CHOOSE k \in DOMAIN c.order : c.order[k] = i]]
    BY <1>5, <2>1, <2>2
  <2>5. \A i \in here : rank[i] = CHOOSE k \in DOMAIN c.order : c.order[k] = i
    OBVIOUS
  <2> HIDE DEF rank
  <2>6. \A i \in here :
          [folder |-> favourites[i].folder,
           sort |-> CHOOSE k \in DOMAIN c.order : c.order[k] = i]
            = [folder |-> c.folder, sort |-> rank[i]]
    BY <2>3, <2>5
  <2> QED BY <2>4, <2>6, Zenon
<1>9. here' = here /\ Loaded(here)' = Loaded(here)
  BY <1>2 DEF Container, OwnedBy, Loaded, tables
<1>10. FolderStands(w)'
  <2>1. c.folder # Top => OwnFolder(c.user, c.folder)
    BY <1>3 DEF Stands, FolderStands
  <2>2. c.folder # Top => OwnFolder(c.user, c.folder)'
    BY <1>2, <2>1 DEF OwnFolder, tables
  <2> QED BY <1>2, <1>3, <1>7, <2>2 DEF FolderStands
<1>11. PlaceStands(w)'
  BY <1>7 DEF PlaceStands
<1>12. RowsStand(w)'
  <2>1. (Listed(c.order) = here /\ Len(c.order) = Cardinality(here))'
    BY <1>2, <1>4, <1>9 DEF Listed
  <2>2. (seen[w] = Loaded(here))'
    BY <1>6, <1>9
  <2>3. (pc[w])' = "flush" /\ (call[w].op)' = "reorder"
    BY <1>2, <1>3, <1>7
  <2> HIDE DEF here, c
  <2> QED BY <2>1, <2>2, <2>3 DEF RowsStand, here, c
<1>13. AssignedStands(w)'
  <2>1. DOMAIN seen'[w] = here
    BY <1>6 DEF Loaded
  <2>2. dirty'[w] = [i \in DOMAIN seen'[w] |->
                       [folder |-> c.folder,
                        sort |-> [j \in DOMAIN seen'[w] |->
                          CHOOSE k \in DOMAIN c.order : c.order[k] = j][i]]]
    <3> HIDE DEF here, c
    <3> QED BY <1>8, <2>1
  <2> QED BY <1>2, <1>3, <1>7, <2>2 DEF AssignedStands
<1> QED BY <1>10, <1>11, <1>12, <1>13 DEF Stands

(* What an ungrouping assigns is below the top level, in order.             *)
LEMMA UngroupStands ==
  ASSUME TypeOK, Sound, NEW w \in Workers, Stands(w), AssignUngroup(w)
  PROVE  Stands(w)'
<1> DEFINE c == call[w]
           here == Container(c.user, c.folder)
<1>1. /\ pc \in [Workers -> Steps] /\ dirty = [v \in Workers |-> dirty[v]]
  BY DEF TypeOK, RequestsOK, SessionsOK
<1>2. UNCHANGED tables /\ call' = call /\ seen' = seen
  BY DEF AssignUngroup
<1>3. pc[w] = "bottom" /\ pc'[w] = "flush" /\ c.op = "deleteFolder"
  BY <1>1, StepTellsOp DEF AssignUngroup, At, Goto
<1>4. FolderStands(w)'
  <2>1. OwnFolder(c.user, c.folder)
    BY <1>3 DEF Stands, FolderStands
  <2>2. OwnFolder(c.user, c.folder)'
    BY <1>2, <2>1 DEF OwnFolder, tables
  <2> QED BY <1>2, <1>3, <2>2 DEF FolderStands
<1>5. PlaceStands(w)'
  BY <1>3 DEF PlaceStands
<1>6. RowsStand(w)'
  <2>1. seen[w] = Loaded(here)
    BY <1>3 DEF Stands, RowsStand
  <2>2. here' = here /\ Loaded(here)' = Loaded(here)
    BY <1>2 DEF Container, OwnedBy, Loaded, tables
  <2>3. (seen[w] = Loaded(here))'
    BY <1>2, <2>1, <2>2
  <2>4. (pc[w])' = "flush" /\ (call[w].op)' = "deleteFolder"
    BY <1>2, <1>3
  <2> HIDE DEF here, c
  <2> QED BY <2>3, <2>4 DEF RowsStand, here, c
<1>7. AssignedStands(w)'
  <2>1. PICK p \in bottom_sort_order(c.user, Top) :
          dirty'[w] = [i \in DOMAIN seen[w] |->
                         [folder |-> Top, sort |-> p + Cardinality(Ahead(w, i))]]
    BY <1>1 DEF AssignUngroup
  <2>2. (p \in bottom_sort_order(c.user, Top))'
    BY <1>2, <2>1 DEF bottom_sort_order, SortsIn, Container, OwnedBy, tables
  <2>3. \A i : Ahead(w, i)' = Ahead(w, i)
    BY <1>2 DEF Ahead
  <2>4. dirty'[w] = [i \in DOMAIN seen'[w] |->
                       [folder |-> Top, sort |-> p + Cardinality(Ahead(w, i)')]]
    BY <1>2, <2>1, <2>3
  <2> QED BY <1>2, <1>3, <2>2, <2>4 DEF AssignedStands
<1> QED BY <1>4, <1>5, <1>6, <1>7 DEF Stands

(* A flush gives the rows that were loaded what was assigned to them. *)
LEMMA FlushedIs ==
  ASSUME TypeOK, NEW w \in Workers, NEW ids \in SUBSET DOMAIN favourites,
         seen[w] = Loaded(ids), DOMAIN dirty[w] = ids
  PROVE  /\ DOMAIN Flushed(w) = DOMAIN favourites
         /\ \A i \in DOMAIN favourites :
              /\ Flushed(w)[i].user = favourites[i].user
              /\ Flushed(w)[i].layer = favourites[i].layer
              /\ i \in ids => /\ Flushed(w)[i].folder = dirty[w][i].folder
                              /\ Flushed(w)[i].sort = dirty[w][i].sort
              /\ i \notin ids => Flushed(w)[i] = favourites[i]
<1>1. DOMAIN Flushed(w) = DOMAIN favourites
  BY DEF Flushed
<1>2. ASSUME NEW i \in DOMAIN favourites
      PROVE  /\ Flushed(w)[i].user = favourites[i].user
             /\ Flushed(w)[i].layer = favourites[i].layer
             /\ i \in ids => /\ Flushed(w)[i].folder = dirty[w][i].folder
                             /\ Flushed(w)[i].sort = dirty[w][i].sort
             /\ i \notin ids => Flushed(w)[i] = favourites[i]
  <2>1. favourites[i] \in Favourite
    BY DEF TypeOK, TablesOK, IsTable
  <2>2. CASE i \notin ids
    <3>1. i \notin Changed(w)
      BY <2>2 DEF Changed
    <3> QED BY <2>2, <3>1 DEF Flushed
  <2>3. CASE i \in ids
    <3>1. /\ seen[w][i] = [folder |-> favourites[i].folder, sort |-> favourites[i].sort]
          /\ dirty[w][i] \in Filing
      BY <2>3 DEF Loaded, TypeOK, SessionsOK, IsTable
    <3>2. CASE i \notin Changed(w)
      <4>1. dirty[w][i] = seen[w][i]
        BY <2>3, <3>2 DEF Changed
      <4>2. Flushed(w)[i] = favourites[i]
        BY <3>2 DEF Flushed
      <4> QED BY <2>3, <3>1, <4>1, <4>2
    <3>3. CASE i \in Changed(w)
      <4> DEFINE f == IF i \in Refiled(w) THEN dirty[w][i].folder ELSE favourites[i].folder
                 s == IF dirty[w][i].sort # seen[w][i].sort THEN dirty[w][i].sort
                      ELSE favourites[i].sort
      <4>1. Flushed(w)[i] = [favourites[i] EXCEPT !.folder = f, !.sort = s]
        BY <3>3 DEF Flushed
      <4>2. f = dirty[w][i].folder
        BY <3>1, <3>3 DEF Refiled
      <4>3. s = dirty[w][i].sort
        BY <3>1
      <4> HIDE DEF f, s
      <4>4. /\ Flushed(w)[i].user = favourites[i].user
            /\ Flushed(w)[i].layer = favourites[i].layer
            /\ Flushed(w)[i].folder = f /\ Flushed(w)[i].sort = s
        BY <2>1, <4>1 DEF Favourite
      <4> QED BY <2>3, <4>2, <4>3, <4>4
    <3> QED BY <3>2, <3>3
  <2> QED BY <2>2, <2>3
<1> QED BY <1>1, <1>2

(* After its flush a folder to delete is empty.                             *)
LEMMA FlushStands ==
  ASSUME TypeOK, Sound, NEW w \in Workers, Stands(w), Flush(w)
  PROVE  Stands(w)'
<1> DEFINE c == call[w]
           here == Container(c.user, c.folder)
<1>1. /\ pc \in [Workers -> Steps] /\ dirty = [v \in Workers |-> dirty[v]]
  BY DEF TypeOK, RequestsOK, SessionsOK
<1>2. DOMAIN dirty'[w] = {}
  BY <1>1, EmptyHasNone DEF Flush, Discard
<1>3. CASE c.op # "deleteFolder"
  <2>1. pc'[w] \in Carefree
    BY <1>1, <1>3 DEF Flush, Answer, Carefree
  <2> QED BY <1>2, <2>1, CarefreeStands
<1>4. CASE c.op = "deleteFolder"
  <2>1. pc[w] = "flush" /\ pc'[w] = "folderDelete" /\ call' = call /\ folders' = folders
    BY <1>1, <1>4 DEF Flush, Goto, At
  <2>2. OwnFolder(c.user, c.folder) /\ seen[w] = Loaded(here)
    BY <1>4, <2>1 DEF Stands, FolderStands, RowsStand
  <2>3. PICK p : dirty[w] = [i \in DOMAIN seen[w] |->
                               [folder |-> Top, sort |-> p + Cardinality(Ahead(w, i))]]
    BY <1>4, <2>1 DEF Stands, AssignedStands
  <2>4. here \in SUBSET DOMAIN favourites /\ DOMAIN dirty[w] = here
    BY <2>2, <2>3 DEF Container, OwnedBy, Loaded
  <2>5. /\ DOMAIN favourites' = DOMAIN favourites
        /\ \A i \in DOMAIN favourites :
             /\ i \in here => favourites'[i].folder = dirty[w][i].folder
             /\ i \notin here => favourites'[i] = favourites[i]
    <3> HIDE DEF here
    <3> QED BY <2>2, <2>4, FlushedIs DEF Flush
  <2>6. c.folder # Top
    BY <2>2 DEF OwnFolder, TypeOK, TablesOK, Top
  <2>7. \A i \in here : dirty[w][i].folder = Top
    BY <2>2, <2>3 DEF Loaded
  <2>8. here' = {}
    <3>1. \A i \in DOMAIN favourites' :
            ~ (favourites'[i].user = c.user /\ favourites'[i].folder = c.folder)
      BY <2>5, <2>6, <2>7 DEF Container, OwnedBy
    <3>2. c' = c
      BY <2>1
    <3> HIDE DEF c
    <3> QED BY <3>1, <3>2 DEF Container, OwnedBy
  <2>9. FolderStands(w)'
    BY <2>1, <2>2 DEF FolderStands, OwnFolder
  <2>10. PlaceStands(w)'
    BY <2>1 DEF PlaceStands
  <2>11. RowsStand(w)'
    BY <2>1, <2>8 DEF RowsStand
  <2>12. AssignedStands(w)'
    BY <1>2, <2>1 DEF AssignedStands
  <2> QED BY <2>9, <2>10, <2>11, <2>12 DEF Stands
<1> QED BY <1>3, <1>4

-----------------------------------------------------------------------------
(* What others do *)

(* The invariant holds at the start.                                        *)
LEMMA UndisturbedInit == Init => Undisturbed
<1> SUFFICES ASSUME Init, NEW w \in Workers PROVE Stands(w)
  BY DEF Undisturbed, Stands
<1>1. pc[w] = "idle" /\ dirty[w] = Empty
  BY DEF Init
<1>2. AssignedStands(w)
  BY <1>1, EmptyHasNone DEF AssignedStands
<1> QED BY <1>1, <1>2 DEF Stands, FolderStands, PlaceStands, RowsStand

(* What a request knows holds as long as its session and its user's rows    *)
(* stay as they are.                                                        *)
LEMMA StandsStays ==
  ASSUME NEW w \in Workers, NEW u, u = call[w].user, Stands(w),
         pc'[w] = pc[w], call'[w] = call[w], seen'[w] = seen[w],
         dirty'[w] = dirty[w], place'[w] = place[w],
         OwnedBy(u)' = OwnedBy(u), FoldersOf(u)' = FoldersOf(u),
         \A i \in OwnedBy(u) : favourites'[i] = favourites[i],
         \A f \in FoldersOf(u) : folders'[f].sort = folders[f].sort
  PROVE  Stands(w)'
<1>1. FolderStands(w) /\ PlaceStands(w) /\ RowsStand(w) /\ AssignedStands(w)
  BY DEF Stands
<1>2. \A c : Container(u, c)' = Container(u, c)
  BY DEF Container
<1>3. /\ \A c : SortsIn(u, c)' = SortsIn(u, c)
      /\ \A c : top_sort_order(u, c)' = top_sort_order(u, c)
      /\ \A c : bottom_sort_order(u, c)' = bottom_sort_order(u, c)
  <2>1. \A c : SortsIn(u, c)' = SortsIn(u, c)
    BY <1>2 DEF SortsIn, Container
  <2> QED BY <2>1 DEF top_sort_order, bottom_sort_order
<1>4. FolderStands(w)'
  <2>1. \A f : OwnFolder(u, f)' = OwnFolder(u, f)
    <3>1. \A f : OwnFolder(u, f) = (f \in FoldersOf(u))
      BY DEF OwnFolder, FoldersOf
    <3>2. \A f : OwnFolder(u, f)' = (f \in FoldersOf(u)')
      BY DEF OwnFolder, FoldersOf
    <3> QED BY <3>1, <3>2
  <2> QED BY <1>1, <2>1 DEF FolderStands
<1>5. PlaceStands(w)'
  <2>1. {folders[f].sort : f \in FoldersOf(u)}' = {folders[f].sort : f \in FoldersOf(u)}
    OBVIOUS
  <2> QED BY <1>1, <1>3, <2>1 DEF PlaceStands
<1>6. RowsStand(w)'
  <2>1. \A c : Loaded(Container(u, c))' = Loaded(Container(u, c))
    BY <1>2 DEF Loaded, Container
  <2>2. \A i \in OwnedBy(u) : Loaded({i})' = Loaded({i})
    BY DEF Loaded
  <2> QED BY <1>1, <1>2, <2>1, <2>2 DEF RowsStand, Listed
<1>7. AssignedStands(w)'
  <2>1. CASE pc[w] # "flush"
    BY <1>1, <2>1 DEF AssignedStands
  <2>2. CASE pc[w] = "flush" /\ call[w].op = "deleteFolder"
    <3>1. PICK p \in bottom_sort_order(u, Top) :
            dirty[w] = [i \in DOMAIN seen[w] |->
                          [folder |-> Top, sort |-> p + Cardinality(Ahead(w, i))]]
      BY <1>1, <2>2 DEF AssignedStands
    <3>2. (p \in bottom_sort_order(u, Top))'
      BY <1>3, <3>1
    <3>3. \A i : Ahead(w, i)' = Ahead(w, i)
      BY DEF Ahead
    <3>4. dirty'[w] = [i \in DOMAIN seen'[w] |->
                         [folder |-> Top, sort |-> p + Cardinality(Ahead(w, i)')]]
      BY <3>1, <3>3
    <3> QED BY <2>2, <3>2, <3>4 DEF AssignedStands
  <2>3. CASE pc[w] = "flush" /\ call[w].op # "deleteFolder"
    BY <1>1, <1>3, <2>3 DEF AssignedStands
  <2> QED BY <2>1, <2>2, <2>3
<1> QED BY <1>4, <1>5, <1>6, <1>7 DEF Stands

(* So it holds while requests of other users take their steps.              *)
LEMMA OthersLeaveItStanding ==
  ASSUME TypeOK, Sound, NEW w \in Workers, Step(w), NEW v \in Workers, v # w,
         Stands(v), Receive(w) \/ call[w].user # call[v].user
  PROVE  Stands(v)'
<1> PICK u : u = call[v].user
  OBVIOUS
<1>1. /\ pc'[v] = pc[v] /\ call'[v] = call[v]
      /\ seen'[v] = seen[v] /\ dirty'[v] = dirty[v]
  BY OthersWait
<1>2. place'[v] = place[v]
  BY SessionWriters DEF session, ReadPosition, ReadFolderPosition, LoadToMove,
     LoadToUngroup, LoadFolder, AssignMove, AssignOrder, AssignUngroup, Flush,
     FlushFails, Audit, TypeOK, SessionsOK
<1>3. CASE Receive(w)
  <2>1. favourites' = favourites /\ folders' = folders
    BY <1>3 DEF Receive, tables
  <2>2. /\ OwnedBy(u)' = OwnedBy(u) /\ FoldersOf(u)' = FoldersOf(u)
        /\ \A i \in OwnedBy(u) : favourites'[i] = favourites[i]
        /\ \A f \in FoldersOf(u) : folders'[f].sort = folders[f].sort
    BY <1>1, <2>1 DEF OwnedBy, FoldersOf
  <2> QED BY <1>1, <1>2, <2>2, StandsStays
<1>4. CASE ~Receive(w) /\ call[w].user # u
  <2>1. /\ \A i \in DOMAIN favourites : favourites[i].user = u =>
             i \in DOMAIN favourites' /\ favourites'[i] = favourites[i]
        /\ \A f \in DOMAIN folders : folders[f].user = u =>
             f \in DOMAIN folders' /\ folders'[f] = folders[f]
    BY <1>4, WritesItsOwn
  <2>2. \A i \in DOMAIN favourites' : favourites'[i].user = u => i \in OwnedBy(u)
    <3> SUFFICES ASSUME NEW i \in DOMAIN favourites', favourites'[i].user = u
                 PROVE  i \in OwnedBy(u)
      OBVIOUS
    <3>1. ~ (i = nextFavourite /\ Insert(w))
      <4>1. i = nextFavourite /\ Insert(w) => favourites'[i].user = call[w].user
        BY DEF Insert, Appended
      <4> QED BY <1>4, <4>1
    <3> QED BY <3>1, RowsEvolve DEF OwnedBy
  <2>3. \A f \in DOMAIN folders' : folders'[f].user = u => f \in FoldersOf(u)
    <3> SUFFICES ASSUME NEW f \in DOMAIN folders', folders'[f].user = u
                 PROVE  f \in FoldersOf(u)
      OBVIOUS
    <3>1. ~ (f = nextFolder /\ InsertFolder(w))
      <4>1. f = nextFolder /\ InsertFolder(w) => folders'[f].user = call[w].user
        BY DEF InsertFolder, Appended
      <4> QED BY <1>4, <4>1
    <3> QED BY <3>1, FoldersEvolve DEF FoldersOf
  <2>4. /\ OwnedBy(u)' = OwnedBy(u) /\ FoldersOf(u)' = FoldersOf(u)
        /\ \A i \in OwnedBy(u) : favourites'[i] = favourites[i]
        /\ \A f \in FoldersOf(u) : folders'[f].sort = folders[f].sort
    BY <2>1, <2>2, <2>3 DEF OwnedBy, FoldersOf
  <2> QED BY <1>1, <1>2, <2>4, StandsStays
<1> QED BY <1>3, <1>4

(* Every step preserves it while no user has two requests under way.        *)
LEMMA UndisturbedStep ==
  ASSUME OneAtATime, TypeOK, Sound, Undisturbed, [Next]_vars
  PROVE  Undisturbed'
<1>1. CASE UNCHANGED vars
  <2> SUFFICES ASSUME NEW w \in Workers PROVE Stands(w)'
    BY DEF Undisturbed, Stands
  <2> PICK u : u = call[w].user
    OBVIOUS
  <2>1. /\ favourites' = favourites /\ folders' = folders /\ pc' = pc /\ call' = call
        /\ seen' = seen /\ dirty' = dirty /\ place' = place
    BY <1>1 DEF vars, tables, session
  <2>2. Stands(w)
    BY DEF Undisturbed, Stands
  <2>3. /\ OwnedBy(u)' = OwnedBy(u) /\ FoldersOf(u)' = FoldersOf(u)
        /\ \A i \in OwnedBy(u) : favourites'[i] = favourites[i]
        /\ \A f \in FoldersOf(u) : folders'[f].sort = folders[f].sort
    BY <2>1 DEF OwnedBy, FoldersOf
  <2> QED BY <2>1, <2>2, <2>3, StandsStays
<1>2. CASE Next
  <2>1. PICK w \in Workers : Step(w)
    BY <1>2 DEF Next
  <2>2. \A v \in Workers : Stands(v)
    BY DEF Undisturbed, Stands
  <2>3. Stands(w)'
    BY <2>1, <2>2, CarefreeSteps, ReadStands, LookUpStands, MoveStands, OrderStands,
       UngroupStands, FlushStands DEF Step
  <2>4. ASSUME NEW v \in Workers, v # w PROVE Stands(v)'
    <3>1. CASE pc[v] = "idle"
      <4>1. DOMAIN dirty[v] = {}
        BY <2>2, <3>1 DEF Stands, AssignedStands
      <4>2. pc'[v] = "idle" /\ DOMAIN dirty'[v] = {}
        BY <2>1, <2>4, <3>1, <4>1, OthersWait
      <4> QED BY <4>2, CarefreeStands DEF Carefree
    <3>2. CASE pc[v] # "idle"
      <4>1. Receive(w) \/ call[w].user # call[v].user
        <5>1. pc[w] = "idle" => Receive(w)
          BY <2>1 DEF Step, EnsureFinds, EnsureMisses, List, CountFull, CountFree,
             ReadPosition, Insert, InsertConflicts, FindAgain, FindToRemove, Delete,
             CheckFolder, LoadToMove, AssignMove, CheckOrder, AssignOrder, Flush,
             FlushFails, CountFolders, ReadFolderPosition, InsertFolder, LoadFolder,
             FlushFolder, FindToUngroup, LoadToUngroup, AssignUngroup, DeleteFolder,
             Audit, At
        <5> QED BY <2>4, <3>2, <5>1 DEF OneAtATime
      <4> QED BY <2>1, <2>2, <2>4, <4>1, OthersLeaveItStanding
    <3> QED BY <3>1, <3>2
  <2> QED BY <2>3, <2>4 DEF Undisturbed, Stands
<1> QED BY <1>1, <1>2

-----------------------------------------------------------------------------
(* The tables as a panel *)

(* The rows of a table can be ordered.                                      *)
LEMMA RowsSort ==
  ASSUME NEW table, NEW n \in Nat, DOMAIN table \subseteq 1..(n - 1),
         \A i \in DOMAIN table : table[i].sort \in Int,
         NEW ids \in SUBSET DOMAIN table
  PROVE  Sortable(ids, table)
<1>1. IsFiniteSet(1..(n - 1))
  BY FS_Interval
<1>2. ids \in SUBSET (1..(n - 1)) /\ ids \subseteq Nat
  OBVIOUS
<1>3. IsFiniteSet(ids)
  BY <1>1, <1>2, FS_Subset
<1> QED BY <1>2, <1>3 DEF Sortable

(* Those of the two tables can, ...                                         *)
LEMMA TablesSort ==
  ASSUME TypeOK
  PROVE  /\ \A ids \in SUBSET DOMAIN favourites : Sortable(ids, favourites)
         /\ \A ids \in SUBSET DOMAIN folders : Sortable(ids, folders)
<1>1. /\ nextFavourite \in Nat /\ DOMAIN favourites \subseteq 1..(nextFavourite - 1)
      /\ nextFolder \in Nat /\ DOMAIN folders \subseteq 1..(nextFolder - 1)
  BY DEF TypeOK, TablesOK
<1>2. /\ \A i \in DOMAIN favourites : favourites[i].sort \in Int
      /\ \A i \in DOMAIN folders : folders[i].sort \in Int
  BY DEF TypeOK, TablesOK, IsTable, Favourite, Folder
<1> QED BY <1>1, <1>2, RowsSort

(* ... and still can after a step.                                          *)
LEMMA TablesSortNext ==
  ASSUME TypeOK'
  PROVE  /\ \A ids \in SUBSET DOMAIN favourites' : Sortable(ids, favourites')
         /\ \A ids \in SUBSET DOMAIN folders' : Sortable(ids, folders')
<1>1. /\ nextFavourite' \in Nat /\ DOMAIN favourites' \subseteq 1..(nextFavourite' - 1)
      /\ nextFolder' \in Nat /\ DOMAIN folders' \subseteq 1..(nextFolder' - 1)
  BY DEF TypeOK, TablesOK
<1>2. /\ \A i \in DOMAIN favourites' : favourites'[i].sort \in Int
      /\ \A i \in DOMAIN folders' : folders'[i].sort \in Int
  BY DEF TypeOK, TablesOK, IsTable, Favourite, Folder
<1> QED BY <1>1, <1>2, RowsSort

(* Containers are made of the rows of the table.                            *)
LEMMA ContainersOwned ==
  ASSUME NEW u, NEW c
  PROVE  /\ Container(u, c) \in SUBSET DOMAIN favourites
         /\ Container(u, c)' \in SUBSET DOMAIN favourites'
         /\ FoldersOf(u) \in SUBSET DOMAIN folders
         /\ FoldersOf(u)' \in SUBSET DOMAIN folders'
BY DEF Container, OwnedBy, FoldersOf

(* Where rows keep their owner, folder, layer and position, and folders     *)
(* theirs, the panel is the same.                                           *)
SamePanel(u) ==
  /\ \A c : Container(u, c)' = Container(u, c)
  /\ FoldersOf(u)' = FoldersOf(u)
  /\ \A i \in OwnedBy(u) : /\ favourites'[i].layer = favourites[i].layer
                           /\ favourites'[i].sort = favourites[i].sort
  /\ \A f \in FoldersOf(u) : folders'[f].sort = folders[f].sort

(* Such a step does not change what the user sees.                          *)
LEMMA SamePanelKeeps ==
  ASSUME TypeOK, NEW u, SamePanel(u)
  PROVE  PanelOf(u)' = PanelOf(u) /\ ShelfOf(u)' = ShelfOf(u)
<1>1. /\ \A c : Container(u, c)' = Container(u, c)
      /\ FoldersOf(u)' = FoldersOf(u)
      /\ \A i \in OwnedBy(u) : /\ favourites'[i].layer = favourites[i].layer
                               /\ favourites'[i].sort = favourites[i].sort
      /\ \A f \in FoldersOf(u) : folders'[f].sort = folders[f].sort
  BY DEF SamePanel
<1>2. ASSUME NEW c
      PROVE  LayersOf(Container(u, c), favourites') = LayersOf(Container(u, c), favourites)
  <2>1. Sortable(Container(u, c), favourites)
    BY TablesSort, ContainersOwned
  <2>2. \A i \in Container(u, c) : i \in OwnedBy(u)
    BY DEF Container
  <2>3. InOrder(Container(u, c), favourites') = InOrder(Container(u, c), favourites)
    BY <1>1, <2>1, <2>2, SameSorts
  <2> QED BY <1>1, <2>1, <2>2, <2>3, LayersKeep
<1>3. PanelOf(u)' = [c \in {Top} \cup FoldersOf(u)' |->
                       LayersOf(Container(u, c)', favourites')]
  BY DEF PanelOf
<1>4. PanelOf(u)' = PanelOf(u)
  BY <1>1, <1>2, <1>3 DEF PanelOf
<1>5. Sortable(FoldersOf(u), folders)
  BY TablesSort, ContainersOwned
<1>6. InOrder(FoldersOf(u), folders') = InOrder(FoldersOf(u), folders)
  BY <1>1, <1>5, SameSorts
<1>7. ShelfOf(u)' = InOrder(FoldersOf(u)', folders')
  BY DEF ShelfOf
<1>8. ShelfOf(u)' = ShelfOf(u)
  BY <1>1, <1>6, <1>7 DEF ShelfOf
<1> QED BY <1>4, <1>8

(* The panel lists what its user has starred, and where it is filed. *)
LEMMA ContainerListed ==
  ASSUME TypeOK, NEW u, NEW c \in DOMAIN PanelOf(u)
  PROVE  /\ PanelOf(u)[c] = LayersOf(Container(u, c), favourites)
         /\ \A k \in DOMAIN PanelOf(u)[c] : \E i \in Container(u, c) :
              PanelOf(u)[c][k] = favourites[i].layer
         /\ \A i \in Container(u, c) : \E k \in DOMAIN PanelOf(u)[c] :
              PanelOf(u)[c][k] = favourites[i].layer
<1> DEFINE ids == Container(u, c)
           n == Cardinality(ids)
           s == InOrder(ids, favourites)
           y == LayersOf(ids, favourites)
<1>1. PanelOf(u)[c] = y
  BY DEF PanelOf
<1>2. Sortable(ids, favourites)
  BY TablesSort, ContainersOwned
<1> HIDE DEF ids
<1>3. s \in [1..n -> ids] /\ \A i \in ids : \E k \in 1..n : s[k] = i
  BY <1>2, OrderIs
<1>4. DOMAIN y = 1..n /\ \A k \in 1..n : y[k] = favourites[s[k]].layer
  BY <1>2, LayersAre
<1> HIDE DEF n, s, y
<1>5. \A k \in DOMAIN y : \E i \in ids : y[k] = favourites[i].layer
  BY <1>3, <1>4
<1>6. \A i \in ids : \E k \in DOMAIN y : y[k] = favourites[i].layer
  BY <1>3, <1>4
<1> QED BY <1>1, <1>5, <1>6 DEF ids, y

(* Every favourite is filed in a container of its user's panel.             *)
LEMMA FiledInPanel ==
  ASSUME FiledInOwnFolder, NEW u, NEW i \in OwnedBy(u)
  PROVE  /\ favourites[i].folder \in {Top} \cup FoldersOf(u)
         /\ favourites[i].folder \in DOMAIN PanelOf(u)
         /\ i \in Container(u, favourites[i].folder)
<1>1. favourites[i].folder \in {Top} \cup FoldersOf(u)
  BY DEF OwnedBy, FiledInOwnFolder, FoldersOf
<1>2. DOMAIN PanelOf(u) = {Top} \cup FoldersOf(u)
  BY DEF PanelOf
<1> QED BY <1>1, <1>2 DEF Container

PanelNow == [u \in Users |-> PanelOf(u)]
ShelfNow == [u \in Users |-> ShelfOf(u)]

(* What the panel shows is what the user has starred.                       *)
LEMMA ShownIsStarred ==
  ASSUME TypeOK, FiledInOwnFolder, NEW u \in Users, NEW l
  PROVE  Panel!Shown(u, l) <=> Starred(u, l)
<1>1. PanelNow[u] = PanelOf(u)
  BY DEF PanelNow
<1>2. Panel!Shown(u, l) <=> \E c \in DOMAIN PanelOf(u) :
                               \E k \in DOMAIN PanelOf(u)[c] : PanelOf(u)[c][k] = l
  BY <1>1 DEF Panel!Shown, Panel!In, Panel!Containers, PanelNow
<1>3. ASSUME NEW c \in DOMAIN PanelOf(u)
      PROVE  /\ \A k \in DOMAIN PanelOf(u)[c] : \E i \in Container(u, c) :
                  PanelOf(u)[c][k] = favourites[i].layer
             /\ \A i \in Container(u, c) : \E k \in DOMAIN PanelOf(u)[c] :
                  PanelOf(u)[c][k] = favourites[i].layer
  BY ContainerListed
<1>4. ASSUME NEW i \in OwnedBy(u)
      PROVE  /\ favourites[i].folder \in DOMAIN PanelOf(u)
             /\ i \in Container(u, favourites[i].folder)
  BY FiledInPanel
<1>5. \A c : Container(u, c) \subseteq OwnedBy(u)
  BY DEF Container
<1> QED BY <1>2, <1>3, <1>4, <1>5 DEF Starred

-----------------------------------------------------------------------------
(* Every request that commits is an operation of the panel *)

(* A position read above a list leads it, one read below it ends it.        *)
LEMMA AboveLeads ==
  ASSUME NEW sorts \in SUBSET Int, NEW p
  PROVE  /\ p \in Above(sorts) => p \in Int /\ \A s \in sorts : p < s
         /\ p \in Below(sorts) => p \in Int /\ \A s \in sorts : s < p
BY DEF Above, Below

(* What others see does not change. *)
LEMMA OthersSee ==
  ASSUME TypeOK, NEW u \in Users, \A v \in Users : v # u => SamePanel(v)
  PROVE  /\ PanelNow' = [PanelNow EXCEPT ![u] = PanelOf(u)']
         /\ ShelfNow' = [ShelfNow EXCEPT ![u] = ShelfOf(u)']
<1>1. \A v \in Users : v # u => PanelOf(v)' = PanelOf(v) /\ ShelfOf(v)' = ShelfOf(v)
  BY SamePanelKeeps
<1>2. /\ PanelNow' = [v \in Users |-> PanelOf(v)']
      /\ ShelfNow' = [v \in Users |-> ShelfOf(v)']
  BY DEF PanelNow, ShelfNow
<1> QED BY <1>1, <1>2 DEF PanelNow, ShelfNow

(* An insert of a favourite is Star.                                        *)
LEMMA InsertStars ==
  ASSUME TypeOK, TypeOK', FiledInOwnFolder, NEW w \in Workers, Stands(w), Insert(w),
         NEW u \in Users, u = call[w].user, NEW l, l = call[w].layer
  PROVE  Panel!Star(u, l)
<1> DEFINE x == nextFavourite
           C(c) == Container(u, c)
<1>1. /\ favourites' = Appended(favourites, x, [user |-> u, layer |-> l,
                                                folder |-> Top, sort |-> place[w]])
      /\ folders' = folders /\ ~ Starred(u, l) /\ pc[w] = "insert"
  BY DEF Insert, Duplicate, At
<1>2. x \in Nat /\ x \notin DOMAIN favourites
  BY DEF TypeOK, TablesOK
<1>3. /\ DOMAIN favourites' = DOMAIN favourites \cup {x}
      /\ \A i \in DOMAIN favourites : favourites'[i] = favourites[i]
      /\ favourites'[x] = [user |-> u, layer |-> l, folder |-> Top, sort |-> place[w]]
  BY <1>1, <1>2 DEF Appended
<1>4. /\ C(Top)' = {x} \cup C(Top)
      /\ \A c : c # Top => C(c)' = C(c)
      /\ \A i \in OwnedBy(u) : i \in DOMAIN favourites /\ favourites'[i] = favourites[i]
  BY <1>2, <1>3 DEF Container, OwnedBy
<1>5. \A v \in Users : v # u => SamePanel(v)
  BY <1>1, <1>2, <1>3 DEF SamePanel, Container, OwnedBy, FoldersOf
<1>6. FoldersOf(u)' = FoldersOf(u)
  BY <1>1 DEF FoldersOf
<1>7. place[w] \in Int /\ \A i \in C(Top) : place[w] < favourites[i].sort
  <2>1. place[w] \in Above(SortsIn(u, Top))
    BY <1>1 DEF Stands, PlaceStands, top_sort_order
  <2>2. SortsIn(u, Top) \subseteq Int
    BY DEF SortsIn, Container, OwnedBy, TypeOK, TablesOK, IsTable, Favourite
  <2>3. place[w] \in Int /\ \A s \in SortsIn(u, Top) : place[w] < s
    BY <2>1, <2>2, AboveLeads
  <2> QED BY <2>3 DEF SortsIn
<1> HIDE DEF x
<1>8. ASSUME NEW c
      PROVE  /\ Sortable(C(c), favourites) /\ Sortable(C(c), favourites')
             /\ LayersOf(C(c), favourites') = LayersOf(C(c), favourites)
  <2>1. Sortable(C(c), favourites)
    BY TablesSort, ContainersOwned
  <2>2. \A i \in C(c) : favourites'[i] = favourites[i]
    BY <1>4 DEF Container
  <2>3. Sortable(C(c), favourites') /\ InOrder(C(c), favourites') = InOrder(C(c), favourites)
    BY <2>1, <2>2, SameSorts
  <2> QED BY <2>1, <2>2, <2>3, LayersKeep
<1>9. LayersOf(C(Top)', favourites') = <<l>> \o LayersOf(C(Top), favourites)
  <2>1. Sortable({x}, favourites')
    BY <1>3, TablesSortNext
  <2>2. AllPrecede({x}, C(Top), favourites')
    BY <1>3, <1>4, <1>7 DEF AllPrecede, Precedes, Container
  <2>3. LayersOf({x} \cup C(Top), favourites')
          = Joined(LayersOf({x}, favourites'), LayersOf(C(Top), favourites'))
    BY <1>8, <2>1, <2>2, LayersAppend
  <2>4. LayersOf({x}, favourites') = <<l>>
    <3>1. favourites'[x].sort \in Int /\ favourites'[x].layer = l
      BY <1>3, <1>7
    <3> QED BY <1>2, <3>1, LayersOne
  <2> QED BY <1>4, <1>8, <2>3, <2>4 DEF Joined
<1>10. PanelOf(u)' = [PanelOf(u) EXCEPT ![Top] = <<l>> \o PanelOf(u)[Top]]
  <2>1. PanelOf(u)' = [c \in {Top} \cup FoldersOf(u) |-> LayersOf(C(c)', favourites')]
    BY <1>6 DEF PanelOf
  <2>2. PanelOf(u) = [c \in {Top} \cup FoldersOf(u) |-> LayersOf(C(c), favourites)]
    BY DEF PanelOf
  <2>3. \A c : c # Top => LayersOf(C(c)', favourites') = LayersOf(C(c), favourites)
    BY <1>4, <1>8
  <2> DEFINE more == <<l>> \o LayersOf(C(Top), favourites)
             lists(c) == LayersOf(C(c), favourites)
  <2>4. LayersOf(C(Top)', favourites') = more /\ more = <<l>> \o lists(Top)
    BY <1>9
  <2>5. PanelOf(u)' = [c \in {Top} \cup FoldersOf(u) |->
                         IF c = Top THEN more ELSE lists(c)]
    BY <2>1, <2>3, <2>4
  <2>6. PanelOf(u) = [c \in {Top} \cup FoldersOf(u) |-> lists(c)]
    BY <2>2
  <2> HIDE DEF more, lists
  <2>7. PanelOf(u)[Top] = lists(Top)
    BY <2>6
  <2>8. PanelOf(u)' = [PanelOf(u) EXCEPT ![Top] = more]
    BY <2>5, <2>6
  <2> QED BY <2>4, <2>7, <2>8
<1>11. ShelfOf(u)' = ShelfOf(u)
  BY <1>1, <1>6 DEF ShelfOf
<1>12. /\ PanelNow' = [PanelNow EXCEPT ![u] = PanelOf(u)']
       /\ ShelfNow' = [ShelfNow EXCEPT ![u] = ShelfOf(u)']
  BY <1>5, OthersSee
<1>13. PanelNow' = [PanelNow EXCEPT ![u][Top] = <<l>> \o @] /\ ShelfNow' = ShelfNow
  BY <1>10, <1>11, <1>12 DEF PanelNow, ShelfNow
<1>14. ~ Panel!Shown(u, l)
  BY <1>1, ShownIsStarred
<1> QED BY <1>13, <1>14 DEF Panel!Star, Panel!Top, Top, PanelNow, ShelfNow

(* A list without the layer of a row, whether it had it or not              *)
LEMMA LayersDrop ==
  ASSUME NEW ids, NEW table, Sortable(ids, table), NEW x, NEW l, table[x].layer = l,
         \A i \in ids : table[i].layer = l => i = x,
         \A i, j \in ids : table[i].layer = table[j].layer => i = j
  PROVE  LayersOf(ids \ {x}, table) = Panel!Without(LayersOf(ids, table), l)
<1>1. CASE x \in ids
  BY <1>1, LayersLeaveOut
<1>2. CASE x \notin ids
  <2>1. ids \ {x} = ids
    BY <1>2
  <2>2. \A i \in ids : table[i].layer # l
    BY <1>2
  <2> QED BY <2>1, <2>2, LayersLack
<1> QED BY <1>1, <1>2

(* A layer that leaves a container leaves its list. *)
LEMMA LayersWithout ==
  ASSUME TypeOK, StarredOnce, NEW u, NEW c, NEW x \in OwnedBy(u),
         NEW l, l = favourites[x].layer, NEW other,
         \A i \in Container(u, c) \ {x} : /\ other[i].sort = favourites[i].sort
                                          /\ other[i].layer = favourites[i].layer
  PROVE  /\ Sortable(Container(u, c) \ {x}, other)
         /\ LayersOf(Container(u, c) \ {x}, other)
              = Panel!Without(LayersOf(Container(u, c), favourites), l)
<1> DEFINE ids == Container(u, c)
<1>1. Sortable(ids, favourites) /\ Sortable(ids \ {x}, favourites)
  BY TablesSort, ContainersOwned
<1>2. /\ Sortable(ids \ {x}, other)
      /\ InOrder(ids \ {x}, other) = InOrder(ids \ {x}, favourites)
  BY <1>1, SameSorts
<1>3. LayersOf(ids \ {x}, other) = LayersOf(ids \ {x}, favourites)
  BY <1>1, <1>2, LayersKeep
<1>4. /\ \A i \in ids : favourites[i].layer = l => i = x
      /\ \A i, j \in ids : favourites[i].layer = favourites[j].layer => i = j
  BY DEF Container, OwnedBy, StarredOnce
<1>5. LayersOf(ids \ {x}, favourites) = Panel!Without(LayersOf(ids, favourites), l)
  BY <1>1, <1>4, LayersDrop
<1> QED BY <1>2, <1>3, <1>5

(* The panel before and after a step                                        *)
LEMMA PanelStep ==
  ASSUME NEW u
  PROVE  /\ PanelOf(u) = [c \in {Top} \cup FoldersOf(u) |->
                            LayersOf(Container(u, c), favourites)]
         /\ PanelOf(u)' = [c \in {Top} \cup FoldersOf(u)' |->
                             LayersOf(Container(u, c)', favourites')]
BY DEF PanelOf

(* The removal of a favourite is Unstar.                                    *)
LEMMA DeleteUnstars ==
  ASSUME TypeOK, FiledInOwnFolder, StarredOnce,
         NEW w \in Workers, Stands(w), Removable(w), Delete(w),
         NEW u \in Users, u = call[w].user,
         NEW x, x = call[w].row, NEW l, l = favourites[x].layer
  PROVE  l \in Layers /\ Panel!Unstar(u, l)
<1>1. /\ favourites' = [i \in DOMAIN favourites \ {x} |-> favourites[i]]
      /\ folders' = folders /\ pc[w] = "delete"
  BY DEF Delete, At
<1>2. x \in OwnedBy(u) /\ x \in DOMAIN favourites
  BY <1>1 DEF Stands, RowsStand, OwnedBy
<1>3. l \in Layers /\ l # SeededLayer
  BY <1>1, <1>2 DEF Removable, TypeOK, TablesOK, IsTable, Favourite
<1>4. /\ \A c : Container(u, c)' = Container(u, c) \ {x}
      /\ \A i \in DOMAIN favourites \ {x} : favourites'[i] = favourites[i]
      /\ FoldersOf(u)' = FoldersOf(u)
  BY <1>1 DEF Container, OwnedBy, FoldersOf
<1>5. \A v \in Users : v # u => SamePanel(v)
  BY <1>1, <1>2 DEF SamePanel, Container, OwnedBy, FoldersOf
<1>6. ASSUME NEW c
      PROVE  LayersOf(Container(u, c)', favourites')
               = Panel!Without(LayersOf(Container(u, c), favourites), l)
  <2>1. \A i \in Container(u, c) \ {x} : /\ favourites'[i].sort = favourites[i].sort
                                         /\ favourites'[i].layer = favourites[i].layer
    BY <1>4 DEF Container, OwnedBy
  <2>2. LayersOf(Container(u, c) \ {x}, favourites')
          = Panel!Without(LayersOf(Container(u, c), favourites), l)
    BY <1>2, <2>1, LayersWithout
  <2> QED BY <1>4, <2>2
<1>7. PanelOf(u)' = [c \in DOMAIN PanelOf(u) |-> Panel!Without(PanelOf(u)[c], l)]
  <2> DEFINE lists(c) == LayersOf(Container(u, c), favourites)
  <2>1. /\ PanelOf(u) = [c \in {Top} \cup FoldersOf(u) |-> lists(c)]
        /\ PanelOf(u)' = [c \in {Top} \cup FoldersOf(u) |-> Panel!Without(lists(c), l)]
    BY <1>4, <1>6, PanelStep
  <2> HIDE DEF lists
  <2> QED BY <2>1
<1>8. ShelfOf(u)' = ShelfOf(u)
  BY <1>1, <1>4 DEF ShelfOf
<1>9. /\ PanelNow' = [PanelNow EXCEPT ![u] = PanelOf(u)']
      /\ ShelfNow' = [ShelfNow EXCEPT ![u] = ShelfOf(u)']
  BY <1>5, OthersSee
<1>10. /\ PanelNow' = [PanelNow EXCEPT ![u] = [c \in DOMAIN @ |-> Panel!Without(@[c], l)]]
       /\ ShelfNow' = ShelfNow
  <2>1. PanelNow[u] = PanelOf(u) /\ ShelfNow[u] = ShelfOf(u)
    BY DEF PanelNow, ShelfNow
  <2>2. PanelNow' = [PanelNow EXCEPT ![u] =
                       [c \in DOMAIN PanelNow[u] |-> Panel!Without(PanelNow[u][c], l)]]
    BY <1>7, <1>9, <2>1
  <2>3. ShelfNow' = ShelfNow
    BY <1>8, <1>9, <2>1 DEF ShelfNow
  <2> QED BY <2>2, <2>3
<1>11. Panel!Shown(u, l)
  BY <1>2, ShownIsStarred DEF Starred
<1> QED BY <1>3, <1>10, <1>11 DEF Panel!Unstar, PanelNow, ShelfNow

(* The flush of a move is File: the row leads the list it arrives in.       *)
LEMMA MoveFiles ==
  ASSUME TypeOK, FiledInOwnFolder, StarredOnce,
         NEW w \in Workers, Stands(w), Flush(w), call[w].op = "move",
         NEW u \in Users, u = call[w].user, NEW x, x = call[w].row,
         NEW d, d = call[w].folder, NEW l, l = favourites[x].layer
  PROVE  l \in Layers /\ d \in Panel!Containers(u) /\ Panel!File(u, l, d)
<1>1. favourites' = Flushed(w) /\ folders' = folders /\ pc[w] = "flush"
  BY DEF Flush, At
<1>2. /\ x \in OwnedBy(u) /\ x \in DOMAIN favourites /\ x \in Nat
      /\ seen[w] = Loaded({x})
  BY <1>1 DEF Stands, RowsStand, OwnedBy, TypeOK, TablesOK, IsTable
<1>3. PICK p \in top_sort_order(u, d) :
        dirty[w] = [i \in {x} |-> [folder |-> d, sort |-> p]]
  BY <1>1 DEF Stands, AssignedStands
<1>4. p \in Int /\ \A i \in Container(u, d) : p < favourites[i].sort
  <2>1. p \in Above(SortsIn(u, d))
    BY DEF top_sort_order
  <2>2. SortsIn(u, d) \subseteq Int
    BY DEF SortsIn, Container, OwnedBy, TypeOK, TablesOK, IsTable, Favourite
  <2>3. p \in Int /\ \A s \in SortsIn(u, d) : p < s
    BY <2>1, <2>2, AboveLeads
  <2> QED BY <2>3 DEF SortsIn
<1>5. /\ DOMAIN favourites' = DOMAIN favourites
      /\ favourites'[x].user = u /\ favourites'[x].layer = l
      /\ favourites'[x].folder = d /\ favourites'[x].sort = p
      /\ \A i \in DOMAIN favourites \ {x} : favourites'[i] = favourites[i]
  <2>1. DOMAIN dirty[w] = {x} /\ dirty[w][x] = [folder |-> d, sort |-> p]
    BY <1>3
  <2>2. /\ DOMAIN Flushed(w) = DOMAIN favourites
        /\ \A i \in DOMAIN favourites :
             /\ Flushed(w)[i].user = favourites[i].user
             /\ Flushed(w)[i].layer = favourites[i].layer
             /\ i \in {x} => /\ Flushed(w)[i].folder = dirty[w][i].folder
                             /\ Flushed(w)[i].sort = dirty[w][i].sort
             /\ i \notin {x} => Flushed(w)[i] = favourites[i]
    BY <1>2, <2>1, FlushedIs
  <2> QED BY <1>1, <1>2, <2>1, <2>2 DEF OwnedBy
<1>6. l \in Layers
  BY <1>2 DEF TypeOK, TablesOK, IsTable, Favourite
<1>7. d \in {Top} \cup FoldersOf(u)
  BY <1>1 DEF Stands, FolderStands, OwnFolder, FoldersOf
<1>8. /\ Container(u, d)' = {x} \cup (Container(u, d) \ {x})
      /\ \A c : c # d => Container(u, c)' = Container(u, c) \ {x}
      /\ FoldersOf(u)' = FoldersOf(u)
  BY <1>1, <1>2, <1>5 DEF Container, OwnedBy, FoldersOf
<1>9. \A v \in Users : v # u => SamePanel(v)
  BY <1>1, <1>2, <1>5 DEF SamePanel, Container, OwnedBy, FoldersOf
<1>10. ASSUME NEW c
       PROVE  /\ Sortable(Container(u, c) \ {x}, favourites')
              /\ LayersOf(Container(u, c) \ {x}, favourites')
                   = Panel!Without(LayersOf(Container(u, c), favourites), l)
  <2>1. \A i \in Container(u, c) \ {x} : /\ favourites'[i].sort = favourites[i].sort
                                         /\ favourites'[i].layer = favourites[i].layer
    BY <1>5 DEF Container, OwnedBy
  <2> QED BY <1>2, <2>1, LayersWithout
<1> DEFINE left(c) == Panel!Without(LayersOf(Container(u, c), favourites), l)
<1>11. LayersOf(Container(u, d)', favourites') = <<l>> \o left(d)
  <2>1. Sortable({x}, favourites')
    BY <1>2, <1>4, <1>5, FS_Singleton DEF Sortable
  <2>2. AllPrecede({x}, Container(u, d) \ {x}, favourites')
    BY <1>4, <1>5 DEF AllPrecede, Precedes, Container, OwnedBy
  <2>3. LayersOf({x} \cup (Container(u, d) \ {x}), favourites')
          = Joined(LayersOf({x}, favourites'),
                   LayersOf(Container(u, d) \ {x}, favourites'))
    BY <1>10, <2>1, <2>2, LayersAppend
  <2>4. LayersOf({x}, favourites') = <<l>>
    BY <1>2, <1>4, <1>5, LayersOne
  <2> QED BY <1>8, <1>10, <2>3, <2>4 DEF Joined
<1>12. PanelOf(u)' = [c \in DOMAIN PanelOf(u) |->
                        IF c = d THEN <<l>> \o Panel!Without(PanelOf(u)[c], l)
                        ELSE Panel!Without(PanelOf(u)[c], l)]
  <2> DEFINE led == <<l>> \o left(d)
  <2>1. \A c \in {Top} \cup FoldersOf(u) :
          LayersOf(Container(u, c)', favourites') = IF c = d THEN led ELSE left(c)
    BY <1>8, <1>10, <1>11
  <2>2. \A c \in {Top} \cup FoldersOf(u) :
          PanelOf(u)[c] = LayersOf(Container(u, c), favourites)
    BY PanelStep
  <2>3. DOMAIN PanelOf(u) = {Top} \cup FoldersOf(u)
    BY PanelStep
  <2>4. PanelOf(u)' = [c \in DOMAIN PanelOf(u) |-> IF c = d THEN led ELSE left(c)]
    <3>1. PanelOf(u)' = [c \in {Top} \cup FoldersOf(u) |->
                           LayersOf(Container(u, c)', favourites')]
      BY <1>8 DEF PanelOf
    <3> HIDE DEF led, left
    <3> QED BY <2>1, <2>3, <3>1
  <2>5. \A c \in DOMAIN PanelOf(u) : left(c) = Panel!Without(PanelOf(u)[c], l)
    BY <2>2, <2>3
  <2> HIDE DEF left
  <2> QED BY <1>7, <2>3, <2>4, <2>5
<1>13. ShelfOf(u)' = ShelfOf(u)
  BY <1>1, <1>8 DEF ShelfOf
<1>14. /\ PanelNow' = [PanelNow EXCEPT ![u] = PanelOf(u)']
       /\ ShelfNow' = [ShelfNow EXCEPT ![u] = ShelfOf(u)']
  BY <1>9, OthersSee
<1>15. PanelNow[u] = PanelOf(u) /\ ShelfNow[u] = ShelfOf(u)
  BY DEF PanelNow, ShelfNow
<1>16. PanelNow' = [PanelNow EXCEPT ![u] =
                      [c \in DOMAIN PanelNow[u] |->
                         IF c = d THEN <<l>> \o Panel!Without(PanelNow[u][c], l)
                         ELSE Panel!Without(PanelNow[u][c], l)]]
  BY <1>12, <1>14, <1>15
<1>17. ShelfNow' = ShelfNow
  BY <1>13, <1>14, <1>15 DEF ShelfNow
<1>18. Panel!Shown(u, l)
  BY <1>2, ShownIsStarred DEF Starred
<1>19. d \in Panel!Containers(u)
  BY <1>7, <1>15, PanelStep DEF Panel!Containers, PanelNow
<1> QED BY <1>6, <1>16, <1>17, <1>18, <1>19 DEF Panel!File, PanelNow, ShelfNow

(* The flush of a reorder is Reorder: the same layers, turned.              *)
LEMMA OrderReorders ==
  ASSUME TypeOK, TypeOK',
         NEW w \in Workers, Stands(w), Flush(w), call[w].op = "reorder",
         NEW u \in Users, u = call[w].user, NEW d, d = call[w].folder
  PROVE  d \in Panel!Containers(u) /\ Panel!Reorder(u, d)
<1> DEFINE here == Container(u, d)
           list == LayersOf(here, favourites)
<1>1. favourites' = Flushed(w) /\ folders' = folders /\ pc[w] = "flush"
  BY DEF Flush, At
<1>2. seen[w] = Loaded(here)
  BY <1>1 DEF Stands, RowsStand
<1> DEFINE rank == [i \in here |-> CHOOSE k \in DOMAIN call[w].order : call[w].order[k] = i]
<1>3. dirty[w] = [i \in here |-> [folder |-> d, sort |-> rank[i]]]
  <2>1. DOMAIN seen[w] = here
    BY <1>2 DEF Loaded
  <2> QED BY <1>1, <2>1 DEF Stands, AssignedStands
<1> HIDE DEF rank
<1>4. /\ DOMAIN favourites' = DOMAIN favourites
      /\ \A i \in DOMAIN favourites : /\ favourites'[i].user = favourites[i].user
                                      /\ favourites'[i].layer = favourites[i].layer
                                      /\ favourites'[i].folder = favourites[i].folder
                                      /\ i \notin here => favourites'[i] = favourites[i]
  <2>1. DOMAIN dirty[w] = here /\ \A i \in here : dirty[w][i].folder = d
    BY <1>3
  <2>2. here \in SUBSET DOMAIN favourites
    BY ContainersOwned
  <2>3. \A i \in here : favourites[i].folder = d
    BY DEF Container
  <2> HIDE DEF here
  <2>4. /\ DOMAIN Flushed(w) = DOMAIN favourites
        /\ \A i \in DOMAIN favourites :
             /\ Flushed(w)[i].user = favourites[i].user
             /\ Flushed(w)[i].layer = favourites[i].layer
             /\ i \in here => /\ Flushed(w)[i].folder = dirty[w][i].folder
                              /\ Flushed(w)[i].sort = dirty[w][i].sort
             /\ i \notin here => Flushed(w)[i] = favourites[i]
    BY <1>2, <2>1, <2>2, FlushedIs
  <2> QED BY <1>1, <2>1, <2>3, <2>4
<1>5. d \in {Top} \cup FoldersOf(u)
  BY <1>1 DEF Stands, FolderStands, OwnFolder, FoldersOf
<1>6. /\ \A v, c : Container(v, c)' = Container(v, c)
      /\ FoldersOf(u)' = FoldersOf(u)
  BY <1>1, <1>4 DEF Container, OwnedBy, FoldersOf
<1>7. \A v \in Users : v # u => SamePanel(v)
  BY <1>1, <1>4, <1>6 DEF SamePanel, Container, OwnedBy, FoldersOf
<1>8. ASSUME NEW c, c # d
      PROVE  LayersOf(Container(u, c)', favourites')
               = LayersOf(Container(u, c), favourites)
  <2>1. Sortable(Container(u, c), favourites)
    BY TablesSort, ContainersOwned
  <2>2. \A i \in Container(u, c) : favourites'[i] = favourites[i]
    BY <1>4, <1>8 DEF Container, OwnedBy
  <2>3. InOrder(Container(u, c), favourites') = InOrder(Container(u, c), favourites)
    BY <2>1, <2>2, SameSorts
  <2>4. LayersOf(Container(u, c), favourites') = LayersOf(Container(u, c), favourites)
    BY <2>1, <2>2, <2>3, LayersKeep
  <2> QED BY <1>6, <2>4
<1>9. Turned(list, Len(list), LayersOf(here', favourites'))
  <2>1. Sortable(here, favourites)
    BY TablesSort, ContainersOwned
  <2>2. Sortable(here', favourites') /\ here' = here
    BY <1>6, TablesSortNext, ContainersOwned
  <2>3. \A i \in here : favourites'[i].layer = favourites[i].layer
    BY <1>4 DEF Container, OwnedBy
  <2>4. \E n : /\ Len(list) = n
               /\ Turned(list, n, LayersOf(here, favourites'))
    <3> HIDE DEF here
    <3>1. Sortable(here, favourites')
      BY <2>2
    <3> QED BY <2>1, <2>3, <3>1, LayersTurn
  <2> HIDE DEF here, list
  <2> QED BY <2>2, <2>4
<1>10. /\ DOMAIN PanelOf(u) = {Top} \cup FoldersOf(u)
       /\ \A c \in DOMAIN PanelOf(u) :
            PanelOf(u)[c] = LayersOf(Container(u, c), favourites)
       /\ PanelOf(u)[d] = list
  BY <1>5 DEF PanelOf
<1>11. PICK turn \in [1..Len(list) -> 1..Len(list)] :
         /\ \A k, m \in 1..Len(list) : turn[k] = turn[m] => k = m
         /\ LayersOf(here', favourites') = [k \in 1..Len(list) |-> list[turn[k]]]
  BY <1>9 DEF Turned
<1> DEFINE turned == [k \in 1..Len(list) |-> list[turn[k]]]
<1>12. PanelOf(u)' = [PanelOf(u) EXCEPT ![d] = turned]
  <2>1. PanelOf(u)' = [c \in {Top} \cup FoldersOf(u) |->
                         LayersOf(Container(u, c)', favourites')]
    BY <1>6 DEF PanelOf
  <2>2. PanelOf(u) = [c \in DOMAIN PanelOf(u) |->
                        LayersOf(Container(u, c), favourites)]
    BY DEF PanelOf
  <2>3. LayersOf(Container(u, d)', favourites') = turned
    BY <1>11
  <2> HIDE DEF turned, list, here
  <2> QED BY <1>8, <1>10, <2>1, <2>2, <2>3
<1>13. ShelfOf(u)' = ShelfOf(u)
  BY <1>1, <1>6 DEF ShelfOf
<1>14. /\ PanelNow' = [PanelNow EXCEPT ![u] = PanelOf(u)']
       /\ ShelfNow' = [ShelfNow EXCEPT ![u] = ShelfOf(u)']
  BY <1>7, OthersSee
<1>15. PanelNow[u] = PanelOf(u) /\ ShelfNow[u] = ShelfOf(u)
  BY DEF PanelNow, ShelfNow
<1>16. PanelNow' = [PanelNow EXCEPT ![u][d] =
                      [k \in 1..Len(PanelNow[u][d]) |-> PanelNow[u][d][turn[k]]]]
  <2> HIDE DEF list
  <2>1. PanelNow[u][d] = list
    BY <1>10, <1>15
  <2>2. PanelNow' = [PanelNow EXCEPT ![u] = [PanelNow[u] EXCEPT ![d] = turned]]
    BY <1>12, <1>14, <1>15
  <2> QED BY <2>1, <2>2
<1>17. ShelfNow' = ShelfNow
  BY <1>13, <1>14, <1>15 DEF ShelfNow
<1>18. PanelNow[u][d] = list
  BY <1>10, <1>15
<1>19. d \in Panel!Containers(u)
  BY <1>5, <1>10, <1>15 DEF Panel!Containers, PanelNow
<1> HIDE DEF list, here, turned
<1>20. turn \in [1..Len(PanelNow[u][d]) -> 1..Len(PanelNow[u][d])]
       /\ \A k, m \in 1..Len(PanelNow[u][d]) : turn[k] = turn[m] => k = m
  BY <1>11, <1>18
<1>21. Panel!Reorder(u, d)
  <2> DEFINE now == PanelNow
             next == PanelNow'
  <2> SUFFICES /\ d \in Panel!Containers(u)
               /\ \E t \in [1..Len(now[u][d]) -> 1..Len(now[u][d])] :
                    /\ \A k, m \in 1..Len(now[u][d]) : t[k] = t[m] => k = m
                    /\ next = [now EXCEPT ![u][d] =
                                 [k \in 1..Len(now[u][d]) |-> now[u][d][t[k]]]]
               /\ ShelfNow' = ShelfNow
    BY DEF Panel!Reorder, PanelNow, ShelfNow
  <2>1. next = [now EXCEPT ![u][d] =
                  [k \in 1..Len(now[u][d]) |-> now[u][d][turn[k]]]]
    BY <1>16
  <2> HIDE DEF now, next
  <2> QED BY <1>17, <1>19, <1>20, <2>1 DEF now
<1> QED BY <1>19, <1>21

(* The list drawn from no row                                               *)
LEMMA LayersNone ==
  ASSUME NEW table
  PROVE  LayersOf({}, table) = <<>>
<1>1. Sortable({}, table)
  BY FS_EmptySet DEF Sortable
<1>2. Cardinality({}) = 0
  BY FS_EmptySet
<1> DEFINE s == InOrder({}, table)
           y == LayersOf({}, table)
<1>3. y = [k \in 1..0 |-> table[s[k]].layer]
  BY <1>1, <1>2, LayersAre
<1> HIDE DEF s
<1>4. y = <<>>
  BY <1>3
<1> QED BY <1>4

(* Rows given their ranks as positions keep their order. *)
LEMMA RanksKeep ==
  ASSUME NEW ids, NEW table, NEW other, Sortable(ids, table), NEW p \in Int,
         \A i \in ids : other[i].sort = p + Cardinality(Before(ids, table, i))
  PROVE  /\ Sortable(ids, other)
         /\ \A i \in ids : other[i].sort >= p
         /\ InOrder(ids, other) = InOrder(ids, table)
<1>1. IsFiniteSet(ids) /\ ids \subseteq Nat /\ \A i \in ids : table[i].sort \in Int
  BY DEF Sortable
<1>2. \A i \in ids : /\ IsFiniteSet(Before(ids, table, i))
                     /\ Cardinality(Before(ids, table, i)) \in Nat
  <2> SUFFICES ASSUME NEW i \in ids
               PROVE  /\ IsFiniteSet(Before(ids, table, i))
                      /\ Cardinality(Before(ids, table, i)) \in Nat
    OBVIOUS
  <2>1. Before(ids, table, i) \in SUBSET ids
    BY DEF Before
  <2> QED BY <1>1, <2>1, FS_Subset, FS_CardinalityType
<1>3. Sortable(ids, other)
  BY <1>1, <1>2 DEF Sortable
<1>4. \A i \in ids : other[i].sort >= p
  BY <1>2
<1>5. ASSUME NEW i \in ids, NEW j \in ids, Precedes(i, table[i], j, table[j])
      PROVE  Precedes(i, other[i], j, other[j])
  <2> DEFINE A == Before(ids, table, i)
             B == Before(ids, table, j)
  <2>1. A \subseteq B /\ i \in B /\ i \notin A
    BY <1>5, PrecedesIsStrict DEF Before
  <2>2. A \in SUBSET B /\ A # B /\ IsFiniteSet(B)
    BY <1>2, <2>1
  <2> HIDE DEF A, B
  <2>3. Cardinality(A) <= Cardinality(B) /\ Cardinality(B) # Cardinality(A)
    BY <2>2, FS_Subset
  <2>4. Cardinality(A) \in Nat /\ Cardinality(B) \in Nat
    BY <1>2 DEF A, B
  <2>5. other[i].sort = p + Cardinality(A) /\ other[j].sort = p + Cardinality(B)
    BY DEF A, B
  <2> QED BY <2>3, <2>4, <2>5 DEF Precedes
<1>6. InOrder(ids, other) = InOrder(ids, table)
  BY <1>3, <1>5, OrderKeeps
<1> QED BY <1>3, <1>4, <1>6

(* The flush of an ungrouping is EmptyFolder: the layers of the folder      *)
(* follow those of the top level, in the order they had.                    *)
LEMMA UngroupEmpties ==
  ASSUME TypeOK,
         NEW w \in Workers, Stands(w), Flush(w), call[w].op = "deleteFolder",
         NEW u \in Users, u = call[w].user, NEW f, f = call[w].folder
  PROVE  f \in Panel!Containers(u) /\ Panel!EmptyFolder(u, f)
<1> DEFINE here == Container(u, f)
           top  == Container(u, Top)
<1>1. favourites' = Flushed(w) /\ folders' = folders /\ pc[w] = "flush"
  BY DEF Flush, At
<1>2. seen[w] = Loaded(here)
  BY <1>1 DEF Stands, RowsStand
<1>3. PICK p \in bottom_sort_order(u, Top) :
        dirty[w] = [i \in DOMAIN seen[w] |->
                      [folder |-> Top, sort |-> p + Cardinality(Ahead(w, i))]]
  BY <1>1 DEF Stands, AssignedStands
<1>4. p \in Int /\ \A i \in top : favourites[i].sort < p
  <2>1. p \in Below(SortsIn(u, Top))
    BY DEF bottom_sort_order
  <2>2. SortsIn(u, Top) \subseteq Int
    BY DEF SortsIn, Container, OwnedBy, TypeOK, TablesOK, IsTable, Favourite
  <2>3. p \in Int /\ \A s \in SortsIn(u, Top) : s < p
    BY <2>1, <2>2, AboveLeads
  <2> QED BY <2>3 DEF SortsIn
<1>5. \A i : Ahead(w, i) = Before(here, favourites, i) \/ i \notin here
  BY <1>2 DEF Ahead, Before, Loaded, Precedes
<1>6. /\ DOMAIN dirty[w] = here
      /\ \A i \in here : /\ dirty[w][i].folder = Top
                         /\ dirty[w][i].sort
                              = p + Cardinality(Before(here, favourites, i))
  <2>1. DOMAIN seen[w] = here
    BY <1>2 DEF Loaded
  <2> HIDE DEF here
  <2> QED BY <1>3, <1>5, <2>1
<1>7. /\ DOMAIN favourites' = DOMAIN favourites
      /\ \A i \in DOMAIN favourites : /\ favourites'[i].user = favourites[i].user
                                      /\ favourites'[i].layer = favourites[i].layer
                                      /\ i \notin here => favourites'[i] = favourites[i]
      /\ \A i \in here : /\ favourites'[i].folder = Top
                         /\ favourites'[i].sort
                              = p + Cardinality(Before(here, favourites, i))
  <2>1. here \in SUBSET DOMAIN favourites
    BY ContainersOwned
  <2> HIDE DEF here
  <2>2. /\ DOMAIN Flushed(w) = DOMAIN favourites
        /\ \A i \in DOMAIN favourites :
             /\ Flushed(w)[i].user = favourites[i].user
             /\ Flushed(w)[i].layer = favourites[i].layer
             /\ i \in here => /\ Flushed(w)[i].folder = dirty[w][i].folder
                              /\ Flushed(w)[i].sort = dirty[w][i].sort
             /\ i \notin here => Flushed(w)[i] = favourites[i]
    BY <1>2, <1>6, <2>1, FlushedIs
  <2> QED BY <1>1, <1>6, <2>1, <2>2
<1>8. f \in FoldersOf(u) /\ f # Top
  BY <1>1 DEF Stands, FolderStands, OwnFolder, FoldersOf, TypeOK, TablesOK, Top
<1>9. /\ Container(u, Top)' = top \cup here
      /\ Container(u, f)' = {}
      /\ \A c : c # Top /\ c # f => Container(u, c)' = Container(u, c)
      /\ FoldersOf(u)' = FoldersOf(u)
  BY <1>1, <1>7, <1>8 DEF Container, OwnedBy, FoldersOf
<1>10. \A v \in Users : v # u => SamePanel(v)
  BY <1>1, <1>7 DEF SamePanel, Container, OwnedBy, FoldersOf
<1>11. ASSUME NEW c, c # f
       PROVE  /\ Sortable(Container(u, c), favourites')
              /\ LayersOf(Container(u, c), favourites')
                   = LayersOf(Container(u, c), favourites)
  <2>1. Sortable(Container(u, c), favourites)
    BY TablesSort, ContainersOwned
  <2>2. \A i \in Container(u, c) : favourites'[i] = favourites[i]
    BY <1>7, <1>11 DEF Container, OwnedBy
  <2>3. /\ Sortable(Container(u, c), favourites')
        /\ InOrder(Container(u, c), favourites') = InOrder(Container(u, c), favourites)
    BY <2>1, <2>2, SameSorts
  <2> QED BY <2>1, <2>2, <2>3, LayersKeep
<1>12. LayersOf(Container(u, Top)', favourites')
         = Joined(LayersOf(top, favourites), LayersOf(here, favourites))
  <2>1. Sortable(here, favourites)
    BY TablesSort, ContainersOwned
  <2>2. \A i \in here : favourites'[i].layer = favourites[i].layer
    BY <1>7 DEF Container, OwnedBy
  <2>3. \A i \in top : favourites'[i] = favourites[i]
    BY <1>7, <1>8 DEF Container, OwnedBy
  <2>4. Sortable(top, favourites')
        /\ LayersOf(top, favourites') = LayersOf(top, favourites)
    BY <1>8, <1>11
  <2> HIDE DEF here, top
  <2>5. /\ Sortable(here, favourites') /\ \A i \in here : favourites'[i].sort >= p
        /\ InOrder(here, favourites') = InOrder(here, favourites)
    BY <1>4, <1>7, <2>1, RanksKeep
  <2>6. LayersOf(here, favourites') = LayersOf(here, favourites)
    BY <2>1, <2>2, <2>5, LayersKeep
  <2>7. AllPrecede(top, here, favourites')
    <3> SUFFICES ASSUME NEW i \in top, NEW j \in here
                 PROVE  Precedes(i, favourites'[i], j, favourites'[j])
      BY DEF AllPrecede
    <3>1. favourites'[i].sort \in Int /\ favourites'[j].sort \in Int
      BY <2>4, <2>5 DEF Sortable
    <3>2. favourites'[i].sort < p /\ favourites'[j].sort >= p
      BY <1>4, <2>3, <2>5
    <3> QED BY <1>4, <3>1, <3>2 DEF Precedes
  <2>8. LayersOf(top \cup here, favourites')
          = Joined(LayersOf(top, favourites'), LayersOf(here, favourites'))
    BY <2>4, <2>5, <2>7, LayersAppend
  <2> QED BY <1>9, <2>4, <2>6, <2>8
<1>13. LayersOf(Container(u, f)', favourites') = <<>>
  BY <1>9, LayersNone
<1> HIDE DEF here, top
<1>14. /\ DOMAIN PanelOf(u) = {Top} \cup FoldersOf(u)
       /\ PanelOf(u)[Top] = LayersOf(top, favourites)
       /\ PanelOf(u)[f] = LayersOf(here, favourites)
       /\ \A c \in DOMAIN PanelOf(u) : PanelOf(u)[c] = LayersOf(Container(u, c), favourites)
  BY <1>8 DEF PanelOf, here, top
<1> DEFINE both == Joined(PanelOf(u)[Top], PanelOf(u)[f])
<1>15. PanelOf(u)' = [c \in DOMAIN PanelOf(u) |->
                        IF c = Top THEN both ELSE IF c = f THEN <<>> ELSE PanelOf(u)[c]]
  <2>1. PanelOf(u)' = [c \in {Top} \cup FoldersOf(u) |->
                         LayersOf(Container(u, c)', favourites')]
    BY <1>9 DEF PanelOf
  <2>2. \A c \in DOMAIN PanelOf(u) :
          c # Top /\ c # f => LayersOf(Container(u, c)', favourites') = PanelOf(u)[c]
    BY <1>9, <1>11, <1>14
  <2>3. LayersOf(Container(u, Top)', favourites') = both
    BY <1>12, <1>14
  <2> HIDE DEF both
  <2> QED BY <1>13, <1>14, <2>1, <2>2, <2>3
<1>16. ShelfOf(u)' = ShelfOf(u)
  BY <1>1, <1>9 DEF ShelfOf
<1>17. /\ PanelNow' = [PanelNow EXCEPT ![u] = PanelOf(u)']
       /\ ShelfNow' = [ShelfNow EXCEPT ![u] = ShelfOf(u)']
  BY <1>10, OthersSee
<1>18. PanelNow[u] = PanelOf(u) /\ ShelfNow[u] = ShelfOf(u)
  BY DEF PanelNow, ShelfNow
<1>19. PanelNow' = [PanelNow EXCEPT ![u] =
                      [c \in DOMAIN PanelNow[u] |->
                         IF c = Top THEN PanelNow[u][Top] \o PanelNow[u][f]
                         ELSE IF c = f THEN <<>> ELSE PanelNow[u][c]]]
  BY <1>15, <1>17, <1>18 DEF Joined
<1>20. ShelfNow' = ShelfNow
  BY <1>16, <1>17, <1>18 DEF ShelfNow
<1>21. f \in Panel!Containers(u) /\ f \in Panel!Containers(u) \ {Top}
  BY <1>8, <1>14, <1>18 DEF Panel!Containers, PanelNow
<1> QED BY <1>19, <1>20, <1>21
         DEF Panel!EmptyFolder, Panel!Top, Top, PanelNow, ShelfNow

(* An insert of a folder is NewFolder.                                      *)
LEMMA InsertFolderAdds ==
  ASSUME TypeOK, TypeOK', FiledInOwnFolder,
         NEW w \in Workers, Stands(w), InsertFolder(w),
         NEW u \in Users, u = call[w].user, NEW f, f = nextFolder
  PROVE  /\ f \in DOMAIN PanelNow'[u] \ Panel!Containers(u)
         /\ Panel!NewFolder(u, f)
<1>1. /\ folders' = Appended(folders, f,
                             [user |-> u, name |-> call[w].name,
                              is_collapsed |-> FALSE, sort |-> place[w]])
      /\ favourites' = favourites /\ pc[w] = "folderInsert"
  BY DEF InsertFolder, At
<1>2. f \in Nat /\ f # Top /\ f \notin DOMAIN folders
  BY DEF TypeOK, TablesOK, Top
<1>3. /\ DOMAIN folders' = DOMAIN folders \cup {f}
      /\ \A g \in DOMAIN folders : folders'[g] = folders[g]
      /\ folders'[f].user = u /\ folders'[f].sort = place[w]
  BY <1>1, <1>2 DEF Appended
<1>4. /\ FoldersOf(u)' = {f} \cup FoldersOf(u)
      /\ \A c : Container(u, c)' = Container(u, c)
      /\ Container(u, f) = {}
      /\ \A v : f \notin FoldersOf(v)
  BY <1>1, <1>2, <1>3 DEF Container, OwnedBy, FoldersOf, FiledInOwnFolder
<1>5. \A v \in Users : v # u => SamePanel(v)
  BY <1>1, <1>2, <1>3 DEF SamePanel, Container, OwnedBy, FoldersOf
<1>6. place[w] \in Int /\ \A g \in FoldersOf(u) : place[w] < folders[g].sort
  <2> DEFINE sorts == {folders[g].sort : g \in FoldersOf(u)}
  <2>1. place[w] \in Above(sorts)
    BY <1>1 DEF Stands, PlaceStands
  <2>2. sorts \subseteq Int
    BY DEF FoldersOf, TypeOK, TablesOK, IsTable, Folder
  <2>3. place[w] \in Int /\ \A s \in sorts : place[w] < s
    <3> HIDE DEF sorts
    <3> QED BY <2>1, <2>2, AboveLeads
  <2> QED BY <2>3
<1>7. ShelfOf(u)' = Joined(<<f>>, ShelfOf(u))
  <2> DEFINE old == FoldersOf(u)
  <2>1. Sortable(old, folders)
    BY TablesSort, ContainersOwned
  <2>2. \A g \in old : folders'[g] = folders[g]
    BY <1>3 DEF FoldersOf
  <2>3. AllPrecede({f}, old, folders')
    BY <1>3, <1>6, <2>2 DEF AllPrecede, Precedes
  <2> HIDE DEF old
  <2>4. Sortable(old, folders') /\ InOrder(old, folders') = InOrder(old, folders)
    BY <2>1, <2>2, SameSorts
  <2>5. Sortable({f}, folders') /\ InOrder({f}, folders') = <<f>>
    <3>1. folders'[f].sort \in Int
      BY <1>3, <1>6
    <3> QED BY <1>2, <3>1, OneRow, FS_Singleton DEF Sortable
  <2>6. InOrder({f} \cup old, folders')
          = Joined(InOrder({f}, folders'), InOrder(old, folders'))
    BY <2>3, <2>4, <2>5, OrderAppends
  <2>7. ShelfOf(u)' = InOrder({f} \cup old, folders') /\ ShelfOf(u) = InOrder(old, folders)
    BY <1>4 DEF ShelfOf, old
  <2> QED BY <2>4, <2>5, <2>6, <2>7
<1>8. PanelOf(u)' = [c \in DOMAIN PanelOf(u) \cup {f} |->
                       IF c = f THEN <<>> ELSE PanelOf(u)[c]]
  <2>1. PanelOf(u)' = [c \in {Top} \cup ({f} \cup FoldersOf(u)) |->
                         LayersOf(Container(u, c), favourites)]
    BY <1>1, <1>4 DEF PanelOf
  <2>2. PanelOf(u) = [c \in {Top} \cup FoldersOf(u) |->
                        LayersOf(Container(u, c), favourites)]
    BY DEF PanelOf
  <2>3. LayersOf(Container(u, f), favourites) = <<>>
    BY <1>4, LayersNone
  <2>4. f # Top /\ f \notin FoldersOf(u)
    BY <1>2, <1>4
  <2> DEFINE lists(c) == LayersOf(Container(u, c), favourites)
  <2>5. lists(f) = <<>>
    BY <2>3
  <2> HIDE DEF lists
  <2>6. /\ PanelOf(u)' = [c \in {Top} \cup ({f} \cup FoldersOf(u)) |-> lists(c)]
        /\ PanelOf(u) = [c \in {Top} \cup FoldersOf(u) |-> lists(c)]
    BY <2>1, <2>2 DEF lists
  <2> QED BY <2>4, <2>5, <2>6
<1>9. /\ PanelNow' = [PanelNow EXCEPT ![u] = PanelOf(u)']
      /\ ShelfNow' = [ShelfNow EXCEPT ![u] = ShelfOf(u)']
  BY <1>5, OthersSee
<1>10. /\ \A v \in Users : PanelNow[v] = PanelOf(v)
       /\ PanelNow[u] = PanelOf(u) /\ ShelfNow[u] = ShelfOf(u)
  BY DEF PanelNow, ShelfNow
<1>11. /\ PanelNow' = [PanelNow EXCEPT ![u] =
                        [c \in DOMAIN PanelNow[u] \cup {f} |->
                           IF c = f THEN <<>> ELSE PanelNow[u][c]]]
       /\ ShelfNow' = [ShelfNow EXCEPT ![u] = <<f>> \o ShelfNow[u]]
  BY <1>7, <1>8, <1>9, <1>10 DEF Joined
<1>12. \A v \in Users : f \notin Panel!Containers(v)
  <2>1. ASSUME NEW v \in Users PROVE DOMAIN PanelNow[v] = {Top} \cup FoldersOf(v)
    BY DEF PanelNow, PanelOf
  <2> QED BY <1>2, <1>4, <2>1 DEF Panel!Containers, PanelNow
<1>13. f \in DOMAIN PanelNow'[u]
  <2>1. PanelNow'[u] = PanelOf(u)'
    BY <1>9 DEF PanelNow
  <2> QED BY <1>8, <2>1
<1> QED BY <1>11, <1>12, <1>13 DEF Panel!NewFolder, PanelNow, ShelfNow

(* The removal of a folder is DropFolder: nothing is left in it by then.    *)
LEMMA DeleteFolderDrops ==
  ASSUME TypeOK, FiledInOwnFolder,
         NEW w \in Workers, Stands(w), DeleteFolder(w),
         NEW u \in Users, u = call[w].user, NEW f, f = call[w].folder
  PROVE  f \in Panel!Containers(u) /\ Panel!DropFolder(u, f)
<1>1. pc[w] = "folderDelete"
  BY DEF DeleteFolder, At
<1>2. /\ Container(u, f) = {} /\ f \in FoldersOf(u)
      /\ f \in DOMAIN folders /\ f # Top /\ folders[f].user = u
  BY <1>1 DEF Stands, RowsStand, FolderStands, OwnFolder, FoldersOf,
              TypeOK, TablesOK, Top
<1>3. /\ folders' = [g \in DOMAIN folders \ {f} |-> folders[g]]
      /\ favourites' = Unfiled(f)
  BY <1>2 DEF DeleteFolder
<1>4. favourites' = favourites
  <2>1. \A i \in DOMAIN favourites : favourites[i].folder # f
    BY <1>2 DEF FiledInOwnFolder, Container, OwnedBy
  <2>2. favourites = [i \in DOMAIN favourites |-> favourites[i]]
    BY DEF TypeOK, TablesOK, IsTable
  <2> QED BY <1>3, <2>1, <2>2 DEF Unfiled
<1>5. /\ FoldersOf(u)' = FoldersOf(u) \ {f}
      /\ \A c : Container(u, c)' = Container(u, c)
      /\ \A g \in DOMAIN folders \ {f} : folders'[g] = folders[g]
  BY <1>3, <1>4 DEF Container, OwnedBy, FoldersOf
<1>6. \A v \in Users : v # u => SamePanel(v)
  BY <1>2, <1>3, <1>4, <1>5 DEF SamePanel, Container, OwnedBy, FoldersOf
<1>7. ShelfOf(u)' = Panel!Without(ShelfOf(u), f)
  <2> DEFINE old == FoldersOf(u)
  <2>1. Sortable(old, folders) /\ Sortable(old \ {f}, folders)
    BY TablesSort, ContainersOwned
  <2>2. \A g \in old \ {f} : folders'[g].sort = folders[g].sort
    BY <1>5 DEF FoldersOf
  <2>3. f \in old /\ ShelfOf(u) = InOrder(old, folders)
    BY <1>2 DEF ShelfOf
  <2>4. ShelfOf(u)' = InOrder(old \ {f}, folders')
    BY <1>5 DEF ShelfOf
  <2> HIDE DEF old
  <2>5. InOrder(old \ {f}, folders') = InOrder(old \ {f}, folders)
    BY <2>1, <2>2, SameSorts
  <2>6. InOrder(old \ {f}, folders) = Panel!Without(InOrder(old, folders), f)
    BY <2>1, <2>3, OrderLeavesOut
  <2> QED BY <2>3, <2>4, <2>5, <2>6
<1>8. PanelOf(u)' = [c \in DOMAIN PanelOf(u) \ {f} |-> PanelOf(u)[c]]
  <2>1. PanelOf(u)' = [c \in {Top} \cup (FoldersOf(u) \ {f}) |->
                         LayersOf(Container(u, c), favourites)]
    BY <1>4, <1>5 DEF PanelOf
  <2>2. PanelOf(u) = [c \in {Top} \cup FoldersOf(u) |->
                        LayersOf(Container(u, c), favourites)]
    BY DEF PanelOf
  <2> DEFINE lists(c) == LayersOf(Container(u, c), favourites)
  <2>3. /\ PanelOf(u)' = [c \in {Top} \cup (FoldersOf(u) \ {f}) |-> lists(c)]
        /\ PanelOf(u) = [c \in {Top} \cup FoldersOf(u) |-> lists(c)]
    BY <2>1, <2>2
  <2> HIDE DEF lists
  <2>4. {Top} \cup (FoldersOf(u) \ {f}) = ({Top} \cup FoldersOf(u)) \ {f}
    BY <1>2
  <2> QED BY <2>3, <2>4
<1>9. /\ PanelNow' = [PanelNow EXCEPT ![u] = PanelOf(u)']
      /\ ShelfNow' = [ShelfNow EXCEPT ![u] = ShelfOf(u)']
  BY <1>6, OthersSee
<1>10. PanelNow[u] = PanelOf(u) /\ ShelfNow[u] = ShelfOf(u)
  BY DEF PanelNow, ShelfNow
<1>11. /\ PanelNow' = [PanelNow EXCEPT ![u] =
                        [c \in DOMAIN PanelNow[u] \ {f} |-> PanelNow[u][c]]]
       /\ ShelfNow' = [ShelfNow EXCEPT ![u] = Panel!Without(ShelfNow[u], f)]
  BY <1>7, <1>8, <1>9, <1>10
<1>12. PanelNow[u][f] = <<>>
  <2>1. PanelOf(u)[f] = LayersOf({}, favourites)
    BY <1>2 DEF PanelOf
  <2> QED BY <1>10, <2>1, LayersNone
<1>13. f \in Panel!Containers(u) /\ f \in Panel!Containers(u) \ {Top}
  <2>1. DOMAIN PanelNow[u] = {Top} \cup FoldersOf(u)
    BY <1>10 DEF PanelOf
  <2> QED BY <1>2, <2>1 DEF Panel!Containers, PanelNow
<1> QED BY <1>11, <1>12, <1>13
         DEF Panel!DropFolder, Panel!Top, Top, PanelNow, ShelfNow

(* A request that leaves both tables' columns as the panel draws them.      *)
LEMMA QuietStep ==
  ASSUME TypeOK, \A u \in Users : SamePanel(u)
  PROVE  PanelNow' = PanelNow /\ ShelfNow' = ShelfNow
<1>1. \A u \in Users : PanelOf(u)' = PanelOf(u) /\ ShelfOf(u)' = ShelfOf(u)
  BY SamePanelKeeps
<1>2. /\ PanelNow' = [u \in Users |-> PanelOf(u)']
      /\ ShelfNow' = [u \in Users |-> ShelfOf(u)']
  BY DEF PanelNow, ShelfNow
<1> QED BY <1>1, <1>2 DEF PanelNow, ShelfNow

(* Tables that are not written draw the same panel.                         *)
LEMMA TablesStay ==
  ASSUME favourites' = favourites, folders' = folders, NEW u
  PROVE  SamePanel(u)
BY DEF SamePanel, Container, OwnedBy, FoldersOf

(* Every other step, the rename and the collapse of a folder with them,     *)
(* leaves the panel as it is.                                               *)
LEMMA QuietSteps ==
  ASSUME TypeOK, NEW w \in Workers, Stands(w),
         \/ Receive(w) \/ EnsureFinds(w) \/ EnsureMisses(w) \/ List(w)
         \/ CountFull(w) \/ CountFree(w) \/ ReadPosition(w) \/ InsertConflicts(w)
         \/ FindAgain(w) \/ FindToRemove(w) \/ CheckFolder(w) \/ LoadToMove(w)
         \/ AssignMove(w) \/ CheckOrder(w) \/ AssignOrder(w) \/ FlushFails(w)
         \/ CountFolders(w) \/ ReadFolderPosition(w) \/ LoadFolder(w)
         \/ FlushFolder(w) \/ FindToUngroup(w) \/ LoadToUngroup(w)
         \/ AssignUngroup(w) \/ Audit(w)
  PROVE  PanelNow' = PanelNow /\ ShelfNow' = ShelfNow
<1>1. CASE FlushFolder(w)
  <2>1. favourites' = favourites
    BY <1>1 DEF FlushFolder
  <2>2. /\ DOMAIN folders' = DOMAIN folders
        /\ \A f \in DOMAIN folders : /\ folders'[f].user = folders[f].user
                                     /\ folders'[f].sort = folders[f].sort
    <3>1. \/ folders' = folders
          \/ folders' = [folders EXCEPT ![call[w].folder] =
                           Patched(w, folders[call[w].folder])]
      BY <1>1 DEF FlushFolder
    <3>2. \A f \in DOMAIN folders : /\ Patched(w, folders[f]).user = folders[f].user
                                    /\ Patched(w, folders[f]).sort = folders[f].sort
      BY DEF Patched, TypeOK, TablesOK, IsTable, Folder
    <3> QED BY <3>1, <3>2
  <2>3. \A u \in Users : SamePanel(u)
    BY <2>1, <2>2 DEF SamePanel, Container, OwnedBy, FoldersOf
  <2> QED BY <2>3, QuietStep
<1>2. CASE Audit(w)
  <2>1. folders' = folders /\ pc[w] = "audit"
    BY <1>2 DEF Audit, At
  <2>2. DOMAIN dirty[w] = {}
    BY <2>1 DEF Stands, AssignedStands
  <2>3. Changed(w) = {}
    BY <2>2 DEF Changed
  <2>4. favourites = [i \in DOMAIN favourites |-> favourites[i]]
    BY DEF TypeOK, TablesOK, IsTable
  <2>5. Flushed(w) = favourites
    BY <2>3, <2>4 DEF Flushed
  <2>6. favourites' = favourites
    BY <1>2, <2>5 DEF Audit
  <2> QED BY <2>1, <2>6, TablesStay, QuietStep
<1>3. CASE ~ FlushFolder(w) /\ ~ Audit(w)
  <2>1. favourites' = favourites /\ folders' = folders
    BY <1>3 DEF Receive, EnsureFinds, EnsureMisses, List, CountFull, CountFree,
       ReadPosition, InsertConflicts, FindAgain, FindToRemove, CheckFolder, LoadToMove,
       AssignMove, CheckOrder, AssignOrder, FlushFails, CountFolders,
       ReadFolderPosition, LoadFolder, FindToUngroup, LoadToUngroup, AssignUngroup,
       tables
  <2> QED BY <2>1, TablesStay, QuietStep
<1> QED BY <1>1, <1>2, <1>3

(* So every step of a request is one of the panel, or none.                 *)
LEMMA RequestsAreSteps ==
  ASSUME TypeOK, TypeOK', Sound, StarredOnce, NEW w \in Workers, Stands(w), Step(w)
  PROVE  Panel!Next \/ (PanelNow' = PanelNow /\ ShelfNow' = ShelfNow)
<1> DEFINE u == call[w].user
<1>1. /\ FiledInOwnFolder /\ SoundRequest(w)
      /\ u \in Users /\ call[w].layer \in Layers
      /\ Layers = Catalogue \cup {SeededLayer}
  BY DEF Sound, TypeOK, RequestsOK, Call, Layers
<1>2. CASE Insert(w)
  <2>1. Panel!Star(u, call[w].layer)
    BY <1>1, <1>2, InsertStars
  <2> HIDE DEF u
  <2> QED BY <1>1, <2>1 DEF Panel!Next
<1>3. CASE Delete(w)
  <2> DEFINE l == favourites[call[w].row].layer
  <2>1. l \in Layers /\ Panel!Unstar(u, l)
    BY <1>1, <1>3, DeleteUnstars DEF SoundRequest
  <2> HIDE DEF u, l
  <2> QED BY <1>1, <2>1 DEF Panel!Next
<1>4. CASE Flush(w)
  <2>1. call[w].op \in {"move", "reorder", "deleteFolder"}
    BY <1>1, <1>4, StepTellsOp DEF Flush, At
  <2> DEFINE l == favourites[call[w].row].layer
             d == call[w].folder
  <2>2. CASE call[w].op = "move"
    <3>1. l \in Layers /\ d \in Panel!Containers(u) /\ Panel!File(u, l, d)
      BY <1>1, <1>4, <2>2, MoveFiles
    <3> HIDE DEF u, l, d
    <3> QED BY <1>1, <3>1 DEF Panel!Next
  <2>3. CASE call[w].op = "reorder"
    <3>1. d \in Panel!Containers(u) /\ Panel!Reorder(u, d)
      BY <1>1, <1>4, <2>3, OrderReorders
    <3> HIDE DEF u, d
    <3> QED BY <1>1, <3>1 DEF Panel!Next
  <2>4. CASE call[w].op = "deleteFolder"
    <3>1. d \in Panel!Containers(u) /\ Panel!EmptyFolder(u, d)
      BY <1>1, <1>4, <2>4, UngroupEmpties
    <3> HIDE DEF u, d
    <3> QED BY <1>1, <3>1 DEF Panel!Next
  <2> QED BY <2>1, <2>2, <2>3, <2>4
<1>5. CASE InsertFolder(w)
  <2>1. /\ nextFolder \in DOMAIN PanelNow'[u] \ Panel!Containers(u)
        /\ Panel!NewFolder(u, nextFolder)
    BY <1>1, <1>5, InsertFolderAdds
  <2> HIDE DEF u
  <2> QED BY <1>1, <2>1 DEF Panel!Next, PanelNow
<1>6. CASE DeleteFolder(w)
  <2> DEFINE d == call[w].folder
  <2>1. d \in Panel!Containers(u) /\ Panel!DropFolder(u, d)
    BY <1>1, <1>6, DeleteFolderDrops
  <2> HIDE DEF u, d
  <2> QED BY <1>1, <2>1 DEF Panel!Next
<1>7. CASE \/ Receive(w) \/ EnsureFinds(w) \/ EnsureMisses(w) \/ List(w)
           \/ CountFull(w) \/ CountFree(w) \/ ReadPosition(w) \/ InsertConflicts(w)
           \/ FindAgain(w) \/ FindToRemove(w) \/ CheckFolder(w) \/ LoadToMove(w)
           \/ AssignMove(w) \/ CheckOrder(w) \/ AssignOrder(w) \/ FlushFails(w)
           \/ CountFolders(w) \/ ReadFolderPosition(w) \/ LoadFolder(w)
           \/ FlushFolder(w) \/ FindToUngroup(w) \/ LoadToUngroup(w)
           \/ AssignUngroup(w) \/ Audit(w)
  BY <1>7, QuietSteps
<1> QED BY <1>2, <1>3, <1>4, <1>5, <1>6, <1>7 DEF Step

(* Well-formed tables draw a proper panel.                                  *)
LEMMA PanelIsProper ==
  ASSUME TypeOK, StarredOnce
  PROVE  Panel!Init
<1> SUFFICES ASSUME NEW u \in Users PROVE Panel!Proper(u)
  BY DEF Panel!Init
<1>1. PanelNow[u] = PanelOf(u) /\ ShelfNow[u] = ShelfOf(u)
  BY DEF PanelNow, ShelfNow
<1>2. DOMAIN PanelOf(u) = {Top} \cup FoldersOf(u)
  BY DEF PanelOf
<1>3. ASSUME NEW c \in DOMAIN PanelOf(u), NEW d \in DOMAIN PanelOf(u),
             NEW k \in DOMAIN PanelOf(u)[c], NEW m \in DOMAIN PanelOf(u)[d],
             PanelOf(u)[c][k] = PanelOf(u)[d][m]
      PROVE  c = d /\ k = m
  <2> DEFINE s(e) == InOrder(Container(u, e), favourites)
             n(e) == Cardinality(Container(u, e))
             y(e) == LayersOf(Container(u, e), favourites)
  <2>1. PanelOf(u)[c] = y(c) /\ PanelOf(u)[d] = y(d)
    BY <1>2 DEF PanelOf
  <2>2. ASSUME NEW e
        PROVE  /\ DOMAIN y(e) = 1..n(e)
               /\ \A j \in 1..n(e) : /\ y(e)[j] = favourites[s(e)[j]].layer
                                     /\ s(e)[j] \in Container(u, e)
               /\ \A j, i \in 1..n(e) : s(e)[j] = s(e)[i] => j = i
    <3>1. Sortable(Container(u, e), favourites)
      BY TablesSort, ContainersOwned
    <3>2. DOMAIN y(e) = 1..n(e) /\ \A j \in 1..n(e) : y(e)[j] = favourites[s(e)[j]].layer
      BY <3>1, LayersAre
    <3>3. /\ s(e) \in [1..n(e) -> Container(u, e)]
          /\ \A j, i \in 1..n(e) : s(e)[j] = s(e)[i] => j = i
      BY <3>1, OrderIs
    <3> QED BY <3>2, <3>3
  <2> HIDE DEF s, n, y
  <2>3. /\ k \in 1..n(c) /\ m \in 1..n(d)
        /\ s(c)[k] \in Container(u, c) /\ s(d)[m] \in Container(u, d)
        /\ favourites[s(c)[k]].layer = favourites[s(d)[m]].layer
    <3>1. /\ DOMAIN y(c) = 1..n(c) /\ DOMAIN y(d) = 1..n(d)
          /\ k \in DOMAIN y(c) /\ m \in DOMAIN y(d) /\ y(c)[k] = y(d)[m]
      BY <1>3, <2>1, <2>2
    <3>2. y(c)[k] = favourites[s(c)[k]].layer /\ s(c)[k] \in Container(u, c)
      BY <2>2, <3>1
    <3>3. y(d)[m] = favourites[s(d)[m]].layer /\ s(d)[m] \in Container(u, d)
      BY <2>2, <3>1
    <3> QED BY <3>1, <3>2, <3>3
  <2>4. s(c)[k] = s(d)[m]
    BY <2>3 DEF StarredOnce, Container, OwnedBy
  <2>5. c = d
    BY <2>3, <2>4 DEF Container
  <2> QED BY <2>2, <2>3, <2>4, <2>5
<1>4. /\ \A k, m \in DOMAIN ShelfOf(u) : ShelfOf(u)[k] = ShelfOf(u)[m] => k = m
      /\ {ShelfOf(u)[k] : k \in DOMAIN ShelfOf(u)} = FoldersOf(u)
  <2> DEFINE ids == FoldersOf(u)
             n == Cardinality(ids)
             s == InOrder(ids, folders)
  <2>1. Sortable(ids, folders)
    BY TablesSort, ContainersOwned
  <2>2. ShelfOf(u) = s
    BY DEF ShelfOf
  <2> HIDE DEF ids
  <2>3. /\ n \in Nat /\ s \in [1..n -> ids] /\ DOMAIN s = 1..n
        /\ \A i \in ids : \E k \in 1..n : s[k] = i
        /\ \A k, m \in 1..n : s[k] = s[m] => k = m
    BY <2>1, OrderIs
  <2> HIDE DEF n, s
  <2>4. {s[k] : k \in DOMAIN s} = ids
    BY <2>3
  <2> QED BY <2>2, <2>3, <2>4 DEF ids
<1>5. Top \notin FoldersOf(u)
  BY DEF FoldersOf, Top, TypeOK, TablesOK
<1> QED BY <1>1, <1>2, <1>3, <1>4, <1>5
         DEF Panel!Proper, Panel!Containers, Panel!Top, Top, PanelNow, ShelfNow

(* The step of the refinement                                               *)
LEMMA StepImplements ==
  ASSUME TypeOK, TypeOK', Sound, StarredOnce, Undisturbed, [Next]_vars
  PROVE  [Panel!Next]_<<PanelNow, ShelfNow>>
<1>1. CASE UNCHANGED vars
  <2>1. favourites' = favourites /\ folders' = folders
    BY <1>1 DEF vars, tables
  <2> QED BY <2>1, TablesStay, QuietStep
<1>2. CASE Next
  <2>1. PICK w \in Workers : Step(w)
    BY <1>2 DEF Next
  <2>2. Stands(w)
    BY DEF Undisturbed, Stands
  <2> QED BY <2>1, <2>2, RequestsAreSteps
<1> QED BY <1>1, <1>2

(* While no user has two requests under way, all that a request has read    *)
(* still holds, whatever other users' requests commit.                      *)
THEOREM UndisturbedAlone == Spec /\ []OneAtATime => []Undisturbed
<1>1. Init => Undisturbed
  BY UndisturbedInit
<1>2. OneAtATime /\ TypeOK /\ Sound /\ Undisturbed /\ [Next]_vars => Undisturbed'
  BY UndisturbedStep
<1> QED BY <1>1, <1>2, SoundAlways, PTL DEF Spec

(* Users who call one request at a time see the panels FavouritesPanel      *)
(* describes, however the requests of different users interleave: every     *)
(* request is one of its operations, or changes nothing.                    *)
THEOREM PanelTheorem == Spec /\ []OneAtATime => ImplementsPanel
<1>1. TypeOK /\ StarredOnce => Panel!Init
  BY PanelIsProper
<1>2. /\ TypeOK /\ TypeOK' /\ Sound /\ StarredOnce /\ Undisturbed
      /\ [Next]_vars
      =>
      [Panel!Next]_<<[u \in Users |-> PanelOf(u)], [u \in Users |-> ShelfOf(u)]>>
  BY StepImplements DEF PanelNow, ShelfNow
<1> QED BY <1>1, <1>2, SoundAlways, OnceTheorem, UndisturbedAlone, PTL
        DEF Spec, ImplementsPanel, Panel!Spec

(* With one worker, that is every behaviour.                                *)
THEOREM OneWorkerTheorem ==
  ASSUME \A v, w \in Workers : v = w
  PROVE  Spec => ImplementsPanel
<1>1. OneAtATime
  BY DEF OneAtATime
<1> QED BY <1>1, PanelTheorem, PTL

=============================================================================

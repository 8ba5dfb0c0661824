------------------------ MODULE ImportedLayersProofs ------------------------
(***************************************************************************)
(* Proofs about ImportedLayers for any number of uploads, names, files and *)
(* bounds: every state is well-formed, two layers of a user never share a  *)
(* name, and a settled list and the map follow what is stored.             *)
(***************************************************************************)
EXTENDS ImportedLayers, TLAPS

-----------------------------------------------------------------------------
(* The inductive invariant *)

PutSteps == {"sending", "received", "unknown", "free", "inserted", "stored",
             "refused", "broken"}

Put == [id : Uploads, name : Names, step : PutSteps, heard : BOOLEAN]
Request == [op : {"delete", "rename", "undo"}, id : Ids, name : Names,
            step : {"sent", "done", "refused"}]
Job == [name : Names, file : Files, status : Active \cup {"failed", "gone"},
        retryable : BOOLEAN, sent : BOOLEAN, cancelled : BOOLEAN]

TableTyped == Over(table, Ids, Names)
PutsTyped ==
  /\ nput \in Nat /\ DOMAIN puts \subseteq 1..nput
  /\ \A n \in DOMAIN puts : puts[n] \in Put /\ puts[n].id \in DOMAIN jobs
JobsTyped == DOMAIN jobs \subseteq Uploads /\ \A u \in DOMAIN jobs : jobs[u] \in Job
CallsTyped == calls \subseteq Request
ListTyped ==
  /\ Over(cache, Ids, Names) /\ Over(fetch.rows, Ids, Names)
  /\ fetch.step \in {"idle", "asked", "served"}
  /\ {loaded, failed} \subseteq BOOLEAN /\ late \subseteq Ids /\ astray \subseteq Ids
MapTyped ==
  /\ shown \subseteq Ids /\ drawn \subseteq Ids
  /\ Over(features, Ids, {"here", "failed"})
  /\ {edits, toggles, faults, misses} \subseteq Nat

(* What is inserted and not yet committed clashes with nothing stored ...   *)
InsertsFree ==
  \A n \in DOMAIN puts : puts[n].step = "inserted" =>
    /\ puts[n].id \notin DOMAIN table
    /\ \A k \in DOMAIN table : table[k] # puts[n].name

(* ... nor with anything else that is inserted. *)
InsertsApart ==
  \A m, n \in DOMAIN puts :
    m # n /\ puts[m].step = "inserted" /\ puts[n].step = "inserted" =>
      puts[m].id # puts[n].id /\ puts[m].name # puts[n].name

Stores == NamesStayUnique /\ InsertsFree /\ InsertsApart
Requests == TableTyped /\ PutsTyped /\ JobsTyped /\ CallsTyped

ImportInv == Requests /\ ListTyped /\ MapTyped /\ Stores

-----------------------------------------------------------------------------
(* Functions that gain or lose an argument *)

LEMMA EmptyTyped ==
  ASSUME NEW D, NEW S
  PROVE  Over(<<>>, D, S)
<1>1. DOMAIN <<>> = {}
  OBVIOUS
<1>2. <<>> = [x \in {} |-> {}]
  BY <1>1
<1> QED BY <1>1, <1>2 DEF Over

LEMMA WithTyped ==
  ASSUME NEW f, NEW D, NEW S, Over(f, D, S), NEW x \in D, NEW y \in S
  PROVE  Over(With(f, x, y), D, S)
<1>1. \A z \in DOMAIN f : f[z] \in S
  BY DEF Over
<1>2. DOMAIN f \cup {x} \subseteq D
  BY DEF Over
<1> QED BY <1>1, <1>2 DEF Over, With

LEMMA WithoutTyped ==
  ASSUME NEW f, NEW D, NEW S, Over(f, D, S), NEW N
  PROVE  Over(Without(f, N), D, S)
<1>1. \A z \in DOMAIN f : f[z] \in S
  BY DEF Over
<1>2. DOMAIN f \ N \subseteq D
  BY DEF Over
<1> QED BY <1>1, <1>2 DEF Over, Without

(* A job keeps its type when some of its fields are changed to their likes. *)
Fits(changes) ==
  /\ DOMAIN changes \subseteq {"status", "retryable", "sent", "cancelled"}
  /\ "status" \in DOMAIN changes => changes.status \in Active \cup {"failed", "gone"}
  /\ "retryable" \in DOMAIN changes => changes.retryable \in BOOLEAN
  /\ "sent" \in DOMAIN changes => changes.sent \in BOOLEAN
  /\ "cancelled" \in DOMAIN changes => changes.cancelled \in BOOLEAN

LEMMA ChangesFit ==
  /\ \A t \in {"stalled", "uploading", "gone"} : Fits([status |-> t])
  /\ Fits([status |-> "uploading", sent |-> FALSE])
  /\ Fits([status |-> "processing", sent |-> TRUE])
  /\ Fits([status |-> "gone", cancelled |-> TRUE])
  /\ \A b \in BOOLEAN : Fits(Failed(b))
BY DEF Fits, Active, Failed

LEMMA PatchTyped ==
  ASSUME JobsTyped, NEW u \in DOMAIN jobs, NEW changes, Fits(changes),
         Patch(u, changes)
  PROVE  JobsTyped' /\ DOMAIN jobs' = DOMAIN jobs
<1> DEFINE j == jobs[u]
           k == [x \in DOMAIN j |-> IF x \in DOMAIN changes THEN changes[x] ELSE j[x]]
<1>1. j \in Job
  BY DEF JobsTyped
<1>2. DOMAIN j = {"name", "file", "status", "retryable", "sent", "cancelled"}
  BY <1>1 DEF Job
<1>3. /\ k = [name |-> k["name"], file |-> k["file"], status |-> k["status"],
              retryable |-> k["retryable"], sent |-> k["sent"],
              cancelled |-> k["cancelled"]]
  BY <1>2
<1>4. /\ k["name"] \in Names /\ k["file"] \in Files
      /\ k["status"] \in Active \cup {"failed", "gone"}
      /\ {k["retryable"], k["sent"], k["cancelled"]} \subseteq BOOLEAN
  BY <1>1, <1>2 DEF Job, Fits
<1>5. k \in Job
  <2> HIDE DEF k
  <2> QED BY <1>3, <1>4 DEF Job
<1>6. jobs' = [jobs EXCEPT ![u] = k]
  BY DEF Patch
<1> HIDE DEF k
<1> QED BY <1>5, <1>6 DEF JobsTyped

-----------------------------------------------------------------------------
(* The PUTs under way *)

(* None is added, none changes what it carries, none is inserted. *)
PutsKept ==
  /\ DOMAIN puts' \subseteq DOMAIN puts
  /\ \A n \in DOMAIN puts' :
       /\ puts'[n] \in Put
       /\ puts'[n].id = puts[n].id /\ puts'[n].name = puts[n].name
       /\ puts'[n].step = "inserted" => puts[n].step = "inserted"

TableShrinks ==
  /\ DOMAIN table' \subseteq DOMAIN table
  /\ \A k \in DOMAIN table' : table'[k] = table[k]

(* A step of map-api on one PUT leaves the others alone. *)
LEMMA StepAt ==
  ASSUME PutsTyped, NEW n \in DOMAIN puts, NEW s \in PutSteps, Step(n, s)
  PROVE  /\ DOMAIN puts' \subseteq DOMAIN puts
         /\ \A m \in DOMAIN puts' : /\ puts'[m] \in Put
                                    /\ puts'[m].id = puts[m].id
                                    /\ puts'[m].name = puts[m].name
                                    /\ puts'[m].step = IF m = n THEN s ELSE puts[m].step
<1>0. \A m \in DOMAIN puts : puts[m] \in Put
  BY DEF PutsTyped
<1>1. CASE puts' = Without(puts, {n})
  <2>1. DOMAIN puts' = DOMAIN puts \ {n} /\ \A m \in DOMAIN puts' : puts'[m] = puts[m]
    BY <1>1 DEF Without
  <2> QED BY <1>0, <2>1
<1>2. CASE puts' = [puts EXCEPT ![n].step = s]
  <2>1. DOMAIN puts' = DOMAIN puts
    BY <1>2
  <2>2. puts'[n] = [puts[n] EXCEPT !.step = s]
    BY <1>2
  <2>3. \A m \in DOMAIN puts \ {n} : puts'[m] = puts[m]
    BY <1>2
  <2>4. /\ puts'[n] \in Put /\ puts'[n].id = puts[n].id
        /\ puts'[n].name = puts[n].name /\ puts'[n].step = s
    BY ONLY <1>0, <2>2, n \in DOMAIN puts, s \in PutSteps DEF Put
  <2> QED BY ONLY <1>0, <2>1, <2>3, <2>4
<1> QED BY <1>1, <1>2 DEF Step

LEMMA StepKeeps ==
  ASSUME PutsTyped, NEW n \in DOMAIN puts, NEW s \in PutSteps \ {"inserted"}, Step(n, s)
  PROVE  PutsKept
BY StepAt DEF PutsKept

LEMMA UnheardKeeps ==
  ASSUME PutsTyped, NEW N, puts' = Unheard(N)
  PROVE  PutsKept
<1>0. \A m \in DOMAIN puts : puts[m] \in Put
  BY DEF PutsTyped
<1>1. \A m \in DOMAIN puts' : /\ m \in DOMAIN puts
                              /\ \/ puts'[m] = puts[m]
                                 \/ puts'[m] = [puts[m] EXCEPT !.heard = FALSE]
  BY DEF Unheard
<1>2. \A m \in DOMAIN puts : LET p == [puts[m] EXCEPT !.heard = FALSE]
        IN  p \in Put /\ p.id = puts[m].id /\ p.name = puts[m].name /\ p.step = puts[m].step
  BY ONLY <1>0 DEF Put
<1> QED BY <1>0, <1>1, <1>2 DEF PutsKept

LEMMA WithoutKeeps ==
  ASSUME PutsTyped, NEW N, puts' = Without(puts, N) \/ puts' = puts
  PROVE  PutsKept
BY DEF PutsTyped, PutsKept, Without

LEMMA KeptTyped ==
  ASSUME PutsTyped, PutsKept, nput' = nput, DOMAIN jobs \subseteq DOMAIN jobs'
  PROVE  PutsTyped'
BY DEF PutsTyped, PutsKept

(* Nothing can clash that did not before. *)
LEMMA KeptStores ==
  ASSUME Stores, PutsKept, TableShrinks
  PROVE  Stores'
<1>1. NamesStayUnique'
  BY DEF Stores, NamesStayUnique, TableShrinks
<1>2. InsertsFree'
  BY DEF Stores, InsertsFree, PutsKept, TableShrinks
<1>3. InsertsApart'
  BY DEF Stores, InsertsApart, PutsKept
<1> QED BY <1>1, <1>2, <1>3 DEF Stores

-----------------------------------------------------------------------------
(* One action at a time: what is asked, inserted and stored *)

RequestsHold == Requests' /\ Stores'

(* Steps that change neither what is stored nor what is asked *)
LEMMA ServerStill ==
  ASSUME Requests, Stores, UNCHANGED <<server, jobs>>
  PROVE  RequestsHold
BY DEF RequestsHold, Requests, Stores, server, TableTyped, PutsTyped, JobsTyped,
       CallsTyped, NamesStayUnique, InsertsFree, InsertsApart, Over

(* Steps that change only the rows of the panel *)
LEMMA JobsMove ==
  ASSUME Requests, Stores, UNCHANGED server, JobsTyped', DOMAIN jobs \subseteq DOMAIN jobs'
  PROVE  RequestsHold
<1>1. PutsKept /\ TableShrinks
  BY WithoutKeeps DEF Requests, TableShrinks, server
<1>2. PutsTyped' /\ Stores'
  BY <1>1, KeptTyped, KeptStores DEF Requests, server
<1> QED BY <1>2 DEF RequestsHold, Requests, server, TableTyped, CallsTyped, Over

(* Steps that advance or forget PUTs *)
LEMMA PutsMove ==
  ASSUME Requests, Stores, PutsKept, UNCHANGED <<table, nput>>,
         calls' \subseteq Request, JobsTyped', DOMAIN jobs \subseteq DOMAIN jobs'
  PROVE  RequestsHold
<1>1. TableShrinks
  BY DEF TableShrinks
<1>2. PutsTyped' /\ Stores'
  BY <1>1, KeptTyped, KeptStores DEF Requests
<1> QED BY <1>2 DEF RequestsHold, Requests, TableTyped, CallsTyped, Over

LEMMA StartUploadHolds ==
  ASSUME Requests, Stores, NEW f \in Files, NEW n \in Names, StartUpload(f, n)
  PROVE  RequestsHold
<1> DEFINE job == [name |-> n, file |-> f, status |-> "preparing", retryable |-> FALSE,
                   sent |-> FALSE, cancelled |-> FALSE]
<1>1. jobs' = With(jobs, FreshId, job) /\ UNCHANGED server
  BY DEF StartUpload
<1>2. FreshId \in Uploads
  BY DEF StartUpload, FreshId, Requests, JobsTyped
<1>3. job \in Job
  BY DEF Job, Active
<1> HIDE DEF job
<1>4. JobsTyped' /\ DOMAIN jobs \subseteq DOMAIN jobs'
  BY <1>1, <1>2, <1>3 DEF Requests, JobsTyped, With
<1> QED BY <1>1, <1>4, JobsMove

LEMMA StatusMoves ==
  ASSUME Requests, Stores, NEW u \in DOMAIN jobs, NEW changes, Fits(changes),
         Patch(u, changes), UNCHANGED server
  PROVE  RequestsHold
BY PatchTyped, JobsMove DEF Requests

LEMMA WatchingHolds ==
  ASSUME Requests, Stores, NEW u,
         Stall(u) \/ Progress(u) \/ AllSent(u) \/ DismissUpload(u)
  PROVE  RequestsHold
<1>1. /\ Fits([status |-> "stalled"]) /\ Fits([status |-> "uploading"])
      /\ Fits([status |-> "processing", sent |-> TRUE]) /\ Fits([status |-> "gone"])
  BY ChangesFit
<1>2. CASE Stall(u)
  BY <1>1, <1>2, StatusMoves DEF Stall
<1>3. CASE Progress(u)
  BY <1>1, <1>3, StatusMoves DEF Progress
<1>4. CASE AllSent(u)
  BY <1>1, <1>4, StatusMoves DEF AllSent
<1>5. CASE DismissUpload(u)
  BY <1>1, <1>5, StatusMoves DEF DismissUpload
<1> QED BY <1>2, <1>3, <1>4, <1>5

LEMMA SendPutHolds ==
  ASSUME Requests, Stores, NEW u \in DOMAIN jobs, SendPut(u)
  PROVE  RequestsHold
<1> DEFINE put == [id |-> u, name |-> jobs[u].name, step |-> "sending", heard |-> TRUE]
<1>1. /\ nput' = nput + 1 /\ puts' = With(puts, nput', put)
      /\ UNCHANGED <<table, calls>> /\ Patch(u, [status |-> "uploading", sent |-> FALSE])
  BY DEF SendPut
<1>2. JobsTyped' /\ DOMAIN jobs' = DOMAIN jobs
  <2>1. Fits([status |-> "uploading", sent |-> FALSE])
    BY ChangesFit
  <2> QED BY <1>1, <2>1, PatchTyped DEF Requests
<1>3. put \in Put
  BY DEF Put, PutSteps, Requests, JobsTyped, Job
<1>4. put.id = u /\ put.step = "sending"
  OBVIOUS
<1>5. /\ DOMAIN puts' = DOMAIN puts \cup {nput'} /\ puts'[nput'] = put
      /\ \A n \in DOMAIN puts \ {nput'} : puts'[n] = puts[n]
  BY <1>1 DEF With
<1> HIDE DEF put
<1>6. PutsTyped'
  BY <1>1, <1>2, <1>3, <1>4, <1>5 DEF Requests, PutsTyped
<1>7. Stores'
  BY <1>1, <1>4, <1>5 DEF Stores, NamesStayUnique, InsertsFree, InsertsApart
<1> QED BY <1>1, <1>2, <1>6, <1>7 DEF RequestsHold, Requests, TableTyped, CallsTyped, Over

LEMMA CancelUploadHolds ==
  ASSUME Requests, Stores, NEW u, CancelUpload(u)
  PROVE  RequestsHold
<1>1. JobsTyped' /\ DOMAIN jobs' = DOMAIN jobs
  <2>1. Fits([status |-> "gone", cancelled |-> TRUE])
    BY ChangesFit
  <2> QED BY <2>1, PatchTyped DEF Requests, CancelUpload
<1>2. PutsKept
  BY UnheardKeeps, WithoutKeeps DEF Requests, CancelUpload
<1>3. UNCHANGED <<table, nput, calls>>
  BY DEF CancelUpload
<1> QED BY <1>1, <1>2, <1>3, PutsMove DEF Requests, CallsTyped

(* Steps of map-api that store nothing *)
LEMMA ServingHolds ==
  ASSUME Requests, Stores, NEW n \in DOMAIN puts,
         BodyReceived(n) \/ FindById(n) \/ LookForClash(n) \/ PutBreaks(n)
  PROVE  RequestsHold
<1>1. \E s \in PutSteps \ {"inserted"} : Step(n, s)
  BY DEF BodyReceived, FindById, LookForClash, PutBreaks, PutSteps
<1>2. PutsKept
  BY <1>1, StepKeeps DEF Requests
<1>3. UNCHANGED <<table, nput, calls, jobs>>
  BY DEF BodyReceived, FindById, LookForClash, PutBreaks
<1> QED BY <1>2, <1>3, PutsMove DEF Requests, CallsTyped, JobsTyped

(* An insert that clashes with another one waits, with a row is told so. *)
LEMMA InsertHolds ==
  ASSUME Requests, Stores, NEW n \in DOMAIN puts, Insert(n)
  PROVE  RequestsHold
<1> DEFINE id == puts[n].id
           name == puts[n].name
<1>1. UNCHANGED <<table, nput, calls, jobs>> /\ NoInsertWaits(id, name)
  BY DEF Insert
<1>2. CASE \E s \in {"stored", "refused"} : Step(n, s)
  <2>1. PutsKept
    BY <1>2, StepKeeps DEF Requests, PutSteps
  <2> QED BY <1>1, <2>1, PutsMove DEF Requests, CallsTyped, JobsTyped
<1>3. CASE Step(n, "inserted") /\ id \notin DOMAIN table /\ ~NameTaken(id, name)
  <2>1. /\ DOMAIN puts' \subseteq DOMAIN puts
        /\ \A m \in DOMAIN puts' :
             /\ puts'[m] \in Put /\ puts'[m].id = puts[m].id
             /\ puts'[m].name = puts[m].name
             /\ puts'[m].step = IF m = n THEN "inserted" ELSE puts[m].step
    BY <1>3, StepAt DEF Requests, PutSteps
  <2>2. PutsTyped'
    BY <1>1, <2>1 DEF Requests, PutsTyped
  <2>3. NamesStayUnique'
    BY <1>1 DEF Stores, NamesStayUnique
  <2>4. InsertsFree'
    BY <1>1, <1>3, <2>1 DEF Stores, InsertsFree, NameTaken
  <2>5. InsertsApart'
    BY <1>1, <2>1 DEF Stores, InsertsApart, NoInsertWaits
  <2> QED BY <1>1, <2>2, <2>3, <2>4, <2>5
       DEF RequestsHold, Requests, Stores, TableTyped, JobsTyped, CallsTyped, Over
<1> QED BY <1>2, <1>3 DEF Insert

(* A commit turns an insert that clashes with nothing into a row. *)
LEMMA StoreFeaturesHolds ==
  ASSUME Requests, Stores, NEW n \in DOMAIN puts, StoreFeatures(n)
  PROVE  RequestsHold
<1> DEFINE id == puts[n].id
           name == puts[n].name
<1>1. UNCHANGED <<nput, calls, jobs>> /\ puts[n].step = "inserted"
  BY DEF StoreFeatures, Serving
<1>2. CASE Step(n, "refused") /\ UNCHANGED table
  <2>1. PutsKept
    BY <1>2, StepKeeps DEF Requests, PutSteps
  <2> QED BY <1>1, <1>2, <2>1, PutsMove DEF Requests, CallsTyped, JobsTyped
<1>3. CASE Step(n, "stored") /\ table' = With(table, id, name)
  <2>1. /\ DOMAIN puts' \subseteq DOMAIN puts
        /\ \A m \in DOMAIN puts' :
             /\ puts'[m] \in Put /\ puts'[m].id = puts[m].id
             /\ puts'[m].name = puts[m].name
             /\ puts'[m].step = IF m = n THEN "stored" ELSE puts[m].step
    BY <1>3, StepAt DEF Requests, PutSteps
  <2>2. PutsTyped'
    BY <1>1, <2>1 DEF Requests, PutsTyped
  <2>3. id \in Ids /\ name \in Names
    BY DEF Requests, PutsTyped, Put, Ids
  <2>4. TableTyped'
    BY <1>3, <2>3, WithTyped DEF Requests, TableTyped
  <2>5. /\ DOMAIN table' = DOMAIN table \cup {id} /\ table'[id] = name
        /\ \A k \in DOMAIN table \ {id} : table'[k] = table[k]
    BY <1>3 DEF With
  <2>6. id \notin DOMAIN table /\ \A k \in DOMAIN table : table[k] # name
    BY <1>1 DEF Stores, InsertsFree
  <2>7. NamesStayUnique'
    BY <2>5, <2>6 DEF Stores, NamesStayUnique
  <2>8. InsertsFree'
    BY <1>1, <2>1, <2>5 DEF Stores, InsertsFree, InsertsApart
  <2>9. InsertsApart'
    BY <2>1 DEF Stores, InsertsApart
  <2> QED BY <1>1, <2>2, <2>4, <2>7, <2>8, <2>9
       DEF RequestsHold, Requests, Stores, JobsTyped, CallsTyped
<1> QED BY <1>2, <1>3 DEF StoreFeatures

(* The answers to a PUT, and the lack of one *)
LEMMA AnsweringHolds ==
  ASSUME Requests, Stores, NEW n \in DOMAIN puts,
         UploadStored(n) \/ UploadRefused(n) \/ ConnectionDrops(n)
  PROVE  RequestsHold
<1> DEFINE u == puts[n].id
<1>1. u \in DOMAIN jobs /\ u \in Ids /\ jobs[u].name \in Names
  BY DEF Requests, PutsTyped, JobsTyped, Job, Ids
<1>2. PutsKept
  BY UnheardKeeps, WithoutKeeps
  DEF Requests, UploadStored, UploadRefused, ConnectionDrops
<1>3. UNCHANGED <<table, nput>>
  BY DEF UploadStored, UploadRefused, ConnectionDrops
<1>4. calls' \subseteq Request
  <2>1. Undo(u) \subseteq Request
    BY <1>1 DEF Undo, Request
  <2> QED BY <2>1
       DEF UploadStored, UploadRefused, ConnectionDrops, Requests, CallsTyped
<1>5. UNCHANGED jobs \/ \E b \in BOOLEAN : Patch(u, Failed(b))
                     \/ Patch(u, [status |-> "gone"])
  BY DEF UploadStored, UploadRefused, ConnectionDrops, Verdict
<1>6. JobsTyped' /\ DOMAIN jobs' = DOMAIN jobs
  BY <1>1, <1>5, ChangesFit, PatchTyped DEF Requests, JobsTyped
<1> QED BY <1>2, <1>3, <1>4, <1>6, PutsMove

(* Requests that ask for, carry out or answer a rename or a delete *)
LEMMA CallsMove ==
  ASSUME Requests, Stores, UNCHANGED <<puts, nput, jobs>>, TableTyped',
         calls' \subseteq Request, TableShrinks
  PROVE  RequestsHold
<1>1. PutsKept
  BY WithoutKeeps DEF Requests
<1>2. PutsTyped' /\ Stores'
  BY <1>1, KeptTyped, KeptStores DEF Requests
<1> QED BY <1>2 DEF RequestsHold, Requests, JobsTyped, CallsTyped

LEMMA AnsweredTyped ==
  ASSUME CallsTyped, NEW c \in calls, NEW t \in {"done", "refused"}, Answered(c, t)
  PROVE  calls' \subseteq Request
<1>1. [c EXCEPT !.step = t] \in Request
  BY DEF CallsTyped, Request
<1> QED BY <1>1 DEF Answered, CallsTyped

LEMMA CallsHold ==
  ASSUME Requests, Stores, ListTyped, NEW l \in Ids, NEW n \in Names,
         AskRename(l, n) \/ AskDelete(l)
  PROVE  RequestsHold
<1>1. l \in RowsOffered => cache[l] \in Names
  BY DEF RowsOffered, Listed, ListTyped, Over
<1>2. calls' \subseteq Request
  BY <1>1 DEF AskRename, AskDelete, Call, Request, Requests, CallsTyped
<1>3. UNCHANGED <<table, puts, nput, jobs>>
  BY DEF AskRename, AskDelete
<1>4. TableTyped' /\ TableShrinks
  BY <1>3 DEF Requests, TableTyped, TableShrinks, Over
<1> QED BY <1>2, <1>3, <1>4, CallsMove

LEMMA CallAnswersHold ==
  ASSUME Requests, Stores, NEW c \in calls, AnswerCall(c) \/ CallLost(c)
  PROVE  RequestsHold
<1>1. calls' \subseteq Request
  BY AnsweredTyped DEF AnswerCall, CallLost, Requests, CallsTyped
<1>2. UNCHANGED <<table, puts, nput, jobs>>
  BY DEF AnswerCall, CallLost
<1>3. TableTyped' /\ TableShrinks
  BY <1>2 DEF Requests, TableTyped, TableShrinks, Over
<1> QED BY <1>1, <1>2, <1>3, CallsMove

LEMMA ServeDeleteHolds ==
  ASSUME Requests, Stores, NEW c \in calls, ServeDelete(c)
  PROVE  RequestsHold
<1>1. calls' \subseteq Request
  BY AnsweredTyped DEF ServeDelete, Requests
<1>2. UNCHANGED <<puts, nput, jobs>> /\ table' = Without(table, {c.id})
  BY DEF ServeDelete
<1>3. TableTyped'
  BY <1>2, WithoutTyped DEF Requests, TableTyped
<1>4. TableShrinks
  BY <1>2 DEF TableShrinks, Without
<1> QED BY <1>1, <1>2, <1>3, <1>4, CallsMove

(* A rename to a name that is inserted waits for it, like an insert. *)
LEMMA ServeRenameHolds ==
  ASSUME Requests, Stores, NEW c \in calls, ServeRename(c)
  PROVE  RequestsHold
<1>1. UNCHANGED <<puts, nput, jobs>> /\ NoInsertWaits(c.id, c.name)
  BY DEF ServeRename
<1>2. calls' \subseteq Request
  BY AnsweredTyped DEF ServeRename, Requests
<1>3. c.id \in Ids /\ c.name \in Names
  BY DEF Requests, CallsTyped, Request
<1>4. CASE UNCHANGED table
  <2>1. TableTyped' /\ TableShrinks
    BY <1>4 DEF Requests, TableTyped, TableShrinks, Over
  <2> QED BY <1>1, <1>2, <2>1, CallsMove
<1>5. CASE /\ c.id \in DOMAIN table /\ ~NameTaken(c.id, c.name)
           /\ table' = [table EXCEPT ![c.id] = c.name]
  <2>1. /\ DOMAIN table' = DOMAIN table /\ table'[c.id] = c.name
        /\ \A k \in DOMAIN table \ {c.id} : table'[k] = table[k] /\ table[k] # c.name
    BY <1>5 DEF NameTaken
  <2>2. TableTyped'
    BY <1>3, <1>5 DEF Requests, TableTyped, Over
  <2>3. NamesStayUnique'
    BY <2>1 DEF Stores, NamesStayUnique
  <2>4. InsertsFree'
    BY <1>1, <2>1 DEF Stores, InsertsFree, NoInsertWaits
  <2>5. InsertsApart'
    BY <1>1 DEF Stores, InsertsApart
  <2>6. PutsTyped' /\ JobsTyped'
    BY <1>1 DEF Requests, PutsTyped, JobsTyped
  <2> QED BY <1>2, <2>2, <2>3, <2>4, <2>5, <2>6
       DEF RequestsHold, Requests, Stores, CallsTyped
<1> QED BY <1>4, <1>5 DEF ServeRename

LEMMA PrepareFailsHolds ==
  ASSUME Requests, Stores, NEW u, PrepareFails(u)
  PROVE  RequestsHold
<1>1. Fits(Failed(FALSE))
  BY ChangesFit
<1> QED BY <1>1, StatusMoves DEF PrepareFails

(* Every step keeps what is stored and what is asked in order. *)
LEMMA RequestsStep ==
  ASSUME Requests, Stores, ListTyped, [Next]_vars
  PROVE  RequestsHold
<1>1. CASE User
  <2>1. ASSUME NEW f \in Files, NEW n \in Names, StartUpload(f, n) PROVE RequestsHold
    BY <2>1, StartUploadHolds
  <2>2. ASSUME NEW u \in Uploads, CancelUpload(u) PROVE RequestsHold
    BY <2>2, CancelUploadHolds
  <2>3. ASSUME NEW u \in Uploads, DismissUpload(u) PROVE RequestsHold
    BY <2>3, WatchingHolds
  <2>4. ASSUME NEW u \in Uploads, RetryUpload(u) PROVE RequestsHold
    BY <2>4, SendPutHolds DEF RetryUpload
  <2>5. ASSUME NEW l \in Ids, NEW n \in Names, AskRename(l, n) PROVE RequestsHold
    BY <2>5, CallsHold
  <2>6. ASSUME NEW l \in Ids, AskDelete(l) PROVE RequestsHold
    <3>1. PICK n \in Names : n = cache[l]
      BY <2>6 DEF AskDelete, RowsOffered, Listed, ListTyped, Over
    <3> QED BY <2>6, <3>1, CallsHold
  <2>7. ASSUME NEW l \in Ids, Toggle(l) \/ RetryFeatures(l) PROVE RequestsHold
    BY <2>7, ServerStill DEF Toggle, RetryFeatures
  <2>8. CASE RetryList
    BY <2>8, ServerStill DEF RetryList
  <2> QED BY <1>1, <2>1, <2>2, <2>3, <2>4, <2>5, <2>6, <2>7, <2>8 DEF User
<1>2. ASSUME NEW u \in Uploads, Sending(u) \/ Stall(u) \/ Progress(u)
      PROVE RequestsHold
  BY <1>2, SendPutHolds, WatchingHolds DEF Sending, SendFile
<1>3. CASE Server
  BY <1>3, ServingHolds, InsertHolds, StoreFeaturesHolds, ServeDeleteHolds,
     ServeRenameHolds DEF Server
<1>4. CASE Answers
  BY <1>4, AnsweringHolds, CallAnswersHold DEF Answers
<1>5. CASE Gets
  BY <1>5, ServerStill DEF Gets, ListServed, ListArrives, FeaturesArrive
<1>6. CASE Faults
  <2>1. CASE \E l \in Ids : FeaturesFail(l)
    BY <2>1, ServerStill DEF FeaturesFail
  <2>2. CASE ListFails
    BY <2>2, ServerStill DEF ListFails
  <2> QED BY <1>6, <2>1, <2>2, ServingHolds, AnsweringHolds, CallAnswersHold,
          PrepareFailsHolds DEF Faults
<1>7. CASE Paint \/ UNCHANGED vars
  BY <1>7, ServerStill DEF Paint, vars
<1> QED BY <1>1, <1>2, <1>3, <1>4, <1>5, <1>6, <1>7 DEF Next

-----------------------------------------------------------------------------
(* The widget's own state *)

LEMMA WriteListTyped ==
  ASSUME ListTyped, NEW list, Over(list, Ids, Names), WriteList(list),
         late' \subseteq Ids, astray' \subseteq Ids
  PROVE  ListTyped'
BY DEF WriteList, ListTyped, Over

LEMMA ListStep ==
  ASSUME Requests, ListTyped, [Next]_vars
  PROVE  ListTyped'
<1>0. /\ Over(cache, Ids, Names) /\ Over(fetch.rows, Ids, Names)
      /\ late \subseteq Ids /\ astray \subseteq Ids
  BY DEF ListTyped
<1>1. CASE UNCHANGED listing
  BY <1>1 DEF listing, ListTyped, Over
<1>3. ASSUME NEW n \in DOMAIN puts, UploadStored(n) PROVE ListTyped'
  <2>1. PICK u : u = puts[n].id
    OBVIOUS
  <2>2. u \in Ids /\ puts[n].name \in Names
    BY <2>1 DEF Requests, PutsTyped, Put, Ids
  <2>3. Over(ListAfterUpload(u, puts[n].name), Ids, Names)
    BY <1>0, <2>2, WithTyped DEF ListAfterUpload
  <2>4. CASE UNCHANGED listing
    BY <1>1, <2>4
  <2>5. CASE /\ WriteList(ListAfterUpload(u, puts[n].name))
             /\ Overtakes(u, NameIn(cache', u))
             /\ astray' = astray \cup (IF loaded THEN {} ELSE Ids \ {u})
                                 \cup ({u} \ (Listed \cup DOMAIN table))
    <3>1. late' \subseteq Ids /\ astray' \subseteq Ids
      BY <1>0, <2>2, <2>5 DEF Overtakes
    <3> QED BY <2>3, <2>5, <3>1, WriteListTyped
  <2> QED BY <1>3, <2>1, <2>4, <2>5 DEF UploadStored
<1>4. ASSUME NEW c \in calls, AnswerCall(c) PROVE ListTyped'
  <2>1. c.id \in Ids /\ c.name \in Names
    BY DEF Requests, CallsTyped, Request
  <2>3. Over([cache EXCEPT ![c.id] = c.name], Ids, Names)
    BY <1>0, <2>1 DEF Over
  <2>4. Over(ListAfterDelete(c.id), Ids, Names)
    BY <1>0, WithoutTyped DEF ListAfterDelete
  <2>5. \/ UNCHANGED listing
        \/ \E list, names : /\ Over(list, Ids, Names) /\ WriteList(list)
                            /\ Overtakes(c.id, names) /\ UNCHANGED astray
    BY <1>0, <1>4, <2>3, <2>4 DEF AnswerCall
  <2>6. ASSUME NEW names, Overtakes(c.id, names) PROVE late' \subseteq Ids
    BY <1>0, <2>1, <2>6 DEF Overtakes
  <2> QED BY <1>0, <1>1, <2>5, <2>6, WriteListTyped
<1>5. CASE ListServed
  BY <1>5 DEF ListServed, Requests, TableTyped, ListTyped, Over
<1>6. CASE ListArrives
  <2>1. /\ cache' = fetch.rows /\ fetch' = Idle
        /\ loaded' = TRUE /\ failed' = FALSE /\ late' = {} /\ astray' = late
    BY <1>6 DEF ListArrives
  <2>2. Over(cache', Ids, Names)
    BY <2>1 DEF ListTyped
  <2>3. Over(fetch'.rows, Ids, Names) /\ fetch'.step = "idle"
    BY <2>1, EmptyTyped DEF Idle
  <2> QED BY <1>0, <2>1, <2>2, <2>3 DEF ListTyped
<1>7. CASE ListFails \/ RetryList
  <2>1. /\ fetch' \in {Idle, Asked} /\ failed' \in {TRUE, failed}
        /\ UNCHANGED <<cache, loaded, astray>> /\ late' \subseteq Ids
    BY <1>0, <1>7 DEF ListFails, RetryList
  <2>2. Over(fetch'.rows, Ids, Names) /\ fetch'.step \in {"idle", "asked"}
    BY <2>1, EmptyTyped DEF Idle, Asked
  <2>3. Over(cache', Ids, Names)
    BY <2>1 DEF ListTyped
  <2> QED BY <2>1, <2>2, <2>3 DEF ListTyped
<1>9. CASE User
  BY <1>1, <1>7, <1>9
  DEF User, StartUpload, CancelUpload, DismissUpload, RetryUpload, SendPut, AskRename,
      AskDelete, Toggle, RetryFeatures, listing
<1>10. ASSUME NEW u \in Uploads, Sending(u) \/ Stall(u) \/ Progress(u) PROVE ListTyped'
  BY <1>1, <1>10 DEF Sending, SendFile, SendPut, AllSent, Stall, Progress
<1>11. CASE Server
  BY <1>1, <1>11
  DEF Server, BodyReceived, FindById, LookForClash, Insert, StoreFeatures,
      ServeDelete, ServeRename
<1>12. CASE Answers
  BY <1>1, <1>3, <1>4, <1>12 DEF Answers, UploadRefused
<1>13. CASE Gets
  BY <1>1, <1>5, <1>6, <1>13 DEF Gets, FeaturesArrive, listing
<1>14. CASE Faults
  BY <1>1, <1>7, <1>14
  DEF Faults, PutBreaks, ConnectionDrops, CallLost, FeaturesFail, PrepareFails, listing
<1>15. CASE Paint \/ UNCHANGED vars
  BY <1>1, <1>15 DEF Paint, vars
<1> QED BY <1>9, <1>10, <1>11, <1>12, <1>13, <1>14, <1>15 DEF Next

(* What is on the map is of layers there are. *)
LEMMA MapStep ==
  ASSUME Requests, ListTyped, MapTyped, [Next]_vars
  PROVE  MapTyped'
<1> DEFINE Far == {"here", "failed"}
<1>0. Over(features, Ids, Far) /\ Listed \subseteq Ids
  BY DEF MapTyped, ListTyped, Listed, Over
<1>1. CASE UNCHANGED <<onMap, bounds>>
  BY <1>1 DEF onMap, bounds, MapTyped, Over
<1>2. ASSUME UNCHANGED drawn, shown' \subseteq Ids, Over(features', Ids, Far),
             {edits', toggles', faults', misses'} \subseteq Nat
      PROVE  MapTyped'
  BY <1>2 DEF MapTyped, Over
<1>3. ASSUME UNCHANGED onMap, {edits', toggles', faults', misses'} \subseteq Nat
      PROVE  MapTyped'
  BY <1>0, <1>2, <1>3 DEF MapTyped, onMap, Over
<1>4. ASSUME NEW n \in DOMAIN puts, UploadStored(n) PROVE MapTyped'
  <2>1. shown' \subseteq Ids
    BY <1>4 DEF UploadStored, MapTyped, Requests, PutsTyped, Put, Ids
  <2>2. UNCHANGED <<features, drawn, bounds>>
    BY <1>4 DEF UploadStored
  <2> QED BY <2>1, <2>2 DEF MapTyped, bounds, Over
<1>5. ASSUME NEW c \in calls, AnswerCall(c) PROVE MapTyped'
  <2>1. Over(Without(features, {c.id}), Ids, Far)
    BY <1>0, WithoutTyped
  <2>2. /\ shown' \subseteq shown /\ UNCHANGED <<drawn, bounds>>
        /\ UNCHANGED features \/ features' = Without(features, {c.id})
    BY <1>5 DEF AnswerCall
  <2>3. Over(features', Ids, Far)
    BY <1>0, <2>1, <2>2 DEF Over
  <2> QED BY <2>2, <2>3 DEF MapTyped, bounds
<1>6. ASSUME NEW l \in Ids, Toggle(l) PROVE MapTyped'
  <2>1. shown' \subseteq Ids /\ UNCHANGED <<drawn, edits, faults, misses>>
        /\ toggles' = toggles + 1
    BY <1>6 DEF Toggle, MapTyped
  <2>2. Over(features', Ids, Far)
    BY <1>0, <1>6 DEF Toggle, Over
  <2> QED BY <2>1, <2>2 DEF MapTyped
<1>7. ASSUME NEW l \in Ids, RetryFeatures(l) PROVE MapTyped'
  <2>1. Over(Without(features, {l}), Ids, Far)
    BY <1>0, WithoutTyped
  <2> QED BY <1>7, <2>1 DEF RetryFeatures, MapTyped, bounds
<1>8. ASSUME NEW l \in Ids, FeaturesArrive(l) \/ FeaturesFail(l) PROVE MapTyped'
  <2>1. \A t \in Far : Over(With(features, l, t), Ids, Far)
    BY <1>0, WithTyped
  <2>2. Over(features', Ids, Far)
    BY <1>8, <2>1 DEF FeaturesArrive, FeaturesFail
  <2>3. /\ UNCHANGED <<shown, drawn, edits, toggles, misses>>
        /\ faults' = faults \/ faults' = faults + 1
    BY <1>8 DEF FeaturesArrive, FeaturesFail, bounds
  <2> QED BY <2>2, <2>3 DEF MapTyped
<1>9. CASE Paint
  <2>1. drawn' \subseteq Ids
    BY <1>0, <1>9 DEF Paint, StillWanted, Arrived
  <2>2. UNCHANGED <<shown, features, bounds>>
    BY <1>9 DEF Paint
  <2> QED BY <2>1, <2>2 DEF MapTyped, bounds, Over
<1>10. CASE User
  <2>1. ASSUME NEW l \in Ids, NEW n, AskRename(l, n) \/ AskDelete(l)
        PROVE  MapTyped'
    BY <1>3, <2>1 DEF AskRename, AskDelete, MapTyped
  <2> QED BY <1>1, <1>6, <1>7, <1>10, <2>1
       DEF User, StartUpload, CancelUpload, DismissUpload, RetryUpload, SendPut, RetryList
<1>11. ASSUME NEW u \in Uploads, Sending(u) \/ Stall(u) \/ Progress(u) PROVE MapTyped'
  BY <1>1, <1>11 DEF Sending, SendFile, SendPut, AllSent, Stall, Progress
<1>12. CASE Server
  BY <1>1, <1>12
  DEF Server, BodyReceived, FindById, LookForClash, Insert, StoreFeatures,
      ServeDelete, ServeRename
<1>13. CASE Answers
  BY <1>1, <1>4, <1>5, <1>13 DEF Answers, UploadRefused
<1>14. CASE Gets
  BY <1>1, <1>8, <1>14 DEF Gets, ListServed, ListArrives
<1>15. CASE Faults
  <2>1. ASSUME UNCHANGED <<onMap, edits, toggles>>,
               faults' \in {faults, faults + 1}, misses' \in {misses, misses + 1}
        PROVE  MapTyped'
    BY <1>3, <2>1 DEF MapTyped
  <2>2. ASSUME NEW n \in DOMAIN puts, PutBreaks(n) \/ ConnectionDrops(n) PROVE MapTyped'
    BY <2>1, <2>2 DEF PutBreaks, ConnectionDrops
  <2>3. ASSUME NEW c \in calls, CallLost(c) PROVE MapTyped'
    BY <2>1, <2>3 DEF CallLost
  <2>4. CASE ListFails
    BY <2>1, <2>4 DEF ListFails
  <2>5. ASSUME NEW u \in Uploads, PrepareFails(u) PROVE MapTyped'
    BY <2>1, <2>5 DEF PrepareFails
  <2> QED BY <1>8, <1>15, <2>2, <2>3, <2>4, <2>5 DEF Faults
<1>16. CASE UNCHANGED vars
  BY <1>1, <1>16 DEF vars
<1> QED BY <1>9, <1>10, <1>11, <1>12, <1>13, <1>14, <1>15, <1>16 DEF Next

-----------------------------------------------------------------------------
(* The theorem *)

LEMMA InitHolds ==
  ASSUME Init
  PROVE  ImportInv
<1>1. Requests
  BY ImportedAssumption
  DEF Init, Requests, TableTyped, PutsTyped, JobsTyped, CallsTyped, Over, Ids
<1>2. ListTyped /\ MapTyped
  <2>1. Over(<<>>, Ids, Names) /\ Over(<<>>, Ids, {"here", "failed"})
    BY EmptyTyped
  <2>2. Asked.rows = <<>> /\ Asked.step = "asked"
    BY DEF Asked
  <2>3. ListTyped
    BY <2>1, <2>2 DEF Init, ListTyped
  <2>4. MapTyped
    BY <2>1 DEF Init, MapTyped
  <2> QED BY <2>3, <2>4
<1>3. Stores
  BY ImportedAssumption DEF Init, Stores, NamesStayUnique, InsertsFree, InsertsApart
<1> QED BY <1>1, <1>2, <1>3 DEF ImportInv

LEMMA InvImpliesSound ==
  ASSUME ImportInv
  PROVE  Sound
<1>1. \A u \in DOMAIN jobs : IsJob(jobs[u])
  BY DEF ImportInv, Requests, JobsTyped, Job, IsJob
<1>2. \A n \in DOMAIN puts :
        /\ puts[n].id \in DOMAIN jobs /\ puts[n].name \in Names
        /\ puts[n].heard \in BOOLEAN /\ puts[n].step \in PutSteps
  BY DEF ImportInv, Requests, PutsTyped, Put
<1>3. \A c \in calls : /\ c.id \in Ids /\ c.op \in {"delete", "rename", "undo"}
                       /\ c.step \in {"sent", "done", "refused"}
  BY DEF ImportInv, Requests, CallsTyped, Request
<1>4. TypeOK
  BY <1>1, <1>2, <1>3
  DEF ImportInv, Requests, TableTyped, PutsTyped, JobsTyped, ListTyped, MapTyped,
      TypeOK, PutSteps
<1> QED BY <1>4 DEF Sound, ImportInv, Stores

(* For any number of uploads, names, files and faults, every state of My     *)
(* Layers is well-formed and no two stored layers share a name, although     *)
(* the look-up of a name, the insert and the commit are statements of their  *)
(* own and an upload may be sent twice under one id (import_layer).          *)
THEOREM SoundTheorem == Spec => []Sound
<1>1. Init => ImportInv
  BY InitHolds
<1>2. ImportInv /\ [Next]_vars => ImportInv'
  BY RequestsStep, ListStep, MapStep DEF ImportInv, RequestsHold
<1>3. ImportInv => Sound
  BY InvImpliesSound
<1> QED BY <1>1, <1>2, <1>3, PTL DEF Spec

-----------------------------------------------------------------------------
(* The list and what is stored *)

PutsOf(l)  == {n \in DOMAIN puts : puts[n].id = l}
CallsOf(l) == {c \in calls : c.id = l /\ c.op # "undo"}

(* A list says of a layer what the table does. *)
Agrees(list, l) ==
  /\ l \in DOMAIN list <=> l \in DOMAIN table
  /\ l \in DOMAIN list => list[l] = table[l]

(* A change of the layer is stored and not answered yet, ... *)
Changed(list, l) == l \in DOMAIN list /\ \E c \in CallsOf(l) : c.step = "done"

(* ... or its upload is, and nobody has seen the layer so far. *)
Arriving(list, l) ==
  /\ l \notin DOMAIN list /\ l \notin Listed /\ CallsOf(l) = {}
  /\ l \in DOMAIN table
  /\ \E n \in PutsOf(l) : puts[n].step = "stored" /\ table[l] = puts[n].name

View(list, l) == Agrees(list, l) \/ Changed(list, l) \/ Arriving(list, l)

(* The list is there, and is not too old for this layer. *)
Trusted(l) == (loaded \/ l \in Uploads) /\ l \notin astray
(* So is the one on its way. *)
Current(l) == fetch.step = "served" /\ l \notin late

(* An upload that has not been sent yet *)
Fresh(l) == l \in Uploads /\ (l \in DOMAIN jobs => jobs[l].status = "preparing")

Unseen(l) == l \notin Listed /\ l \notin DOMAIN fetch.rows /\ l \notin DOMAIN table

(* Before the list is there nothing can be asked of its rows. *)
CallsAfterList == \A c \in calls : c.op # "undo" => loaded

UndoesCancelled == \A c \in calls : c.op = "undo" => c.id \in Cancelled

(* Without a fault no upload is ever sent twice. *)
SentOnce ==
  faults = 0 => /\ \A n \in DOMAIN puts : puts[n].step # "broken"
                /\ \A u \in DOMAIN jobs : ~jobs[u].retryable

(* A layer is sent once, and known to nobody until it is stored. *)
PutFollows(l) ==
  /\ \A m, n \in PutsOf(l) : m = n
  /\ \A n \in PutsOf(l) :
       /\ puts[n].heard
       /\ puts[n].step # "stored" => Unseen(l) /\ CallsOf(l) = {}

(* One thing at a time is asked of a layer. *)
CallFollows(l) ==
  /\ \A c, d \in CallsOf(l) : c = d
  /\ \A c \in CallsOf(l) :
       /\ c.op = "delete" => c.step # "refused" /\ (c.step = "done" => l \notin DOMAIN table)
       /\ c.op = "rename" /\ c.step = "done" => l \in DOMAIN table /\ table[l] = c.name

FreshFollows(l) == Fresh(l) => PutsOf(l) = {} /\ CallsOf(l) = {} /\ Unseen(l)

(* What is listed, and what is on its way to be, tells the truth of a layer  *)
(* or will when the answer that is out has come, unless it is too old.       *)
Follows(l) ==
  /\ PutFollows(l) /\ CallFollows(l) /\ FreshFollows(l)
  /\ Trusted(l) => View(cache, l)
  /\ Current(l) => View(fetch.rows, l)

Settling == faults = 0

ListFollows == Settling => \A l \in Ids \ Cancelled : Follows(l)

FollowInv == CallsAfterList /\ UndoesCancelled /\ SentOnce /\ ListFollows

(* NameIn, spelled out *)
LEMMA NameInIs ==
  ASSUME NEW f, NEW l
  PROVE  /\ l \in DOMAIN f => NameIn(f, l) = {f[l]}
         /\ l \notin DOMAIN f => NameIn(f, l) = {}
BY DEF NameIn

LEMMA NameInAgrees ==
  ASSUME NEW f, NEW g, NEW l, NameIn(f, l) = NameIn(g, l)
  PROVE  /\ l \in DOMAIN f <=> l \in DOMAIN g
         /\ l \in DOMAIN f => f[l] = g[l]
BY NameInIs

-----------------------------------------------------------------------------
(* What a step leaves of a layer it is not about *)

SamePuts(l)  == PutsOf(l)' = PutsOf(l) /\ \A n \in PutsOf(l) : puts'[n] = puts[n]
SameTable(l) == /\ l \in DOMAIN table' <=> l \in DOMAIN table
                /\ l \in DOMAIN table => table'[l] = table[l]
SameCache(l) == /\ l \in Listed' <=> l \in Listed
                /\ l \in Listed => cache'[l] = cache[l]
SameCalls(l) == CallsOf(l)' = CallsOf(l)
SameTrust(l) == /\ fetch' = fetch
                /\ Trusted(l)' => Trusted(l)
                /\ Current(l)' => Current(l)

SameAt(l) == SamePuts(l) /\ SameTable(l) /\ SameCache(l) /\ SameCalls(l) /\ SameTrust(l)

(* An upload is cancelled for good and sent at most once without a fault.    *)
JobsGoOn ==
  /\ Cancelled \subseteq Cancelled'
  /\ \A l \in Uploads : Fresh(l)' => Fresh(l)
  /\ faults' = 0 => \A u \in DOMAIN jobs' : ~jobs'[u].retryable

LEMMA SameView ==
  ASSUME NEW l, SameAt(l)
  PROVE  /\ View(cache, l) => View(cache, l)'
         /\ View(fetch.rows, l) => View(fetch.rows, l)'
<1>0. SamePuts(l) /\ SameTable(l) /\ SameCache(l) /\ SameCalls(l) /\ fetch' = fetch
  BY DEF SameAt, SameTrust
<1>1. /\ Agrees(cache, l) => Agrees(cache, l)'
      /\ Agrees(fetch.rows, l) => Agrees(fetch.rows, l)'
  BY <1>0 DEF Agrees, SameTable, SameCache, Listed
<1>2. /\ Changed(cache, l) => Changed(cache, l)'
      /\ Changed(fetch.rows, l) => Changed(fetch.rows, l)'
  BY <1>0 DEF Changed, SameCalls, SameCache, Listed
<1>3. /\ Arriving(cache, l) => Arriving(cache, l)'
      /\ Arriving(fetch.rows, l) => Arriving(fetch.rows, l)'
  BY <1>0 DEF Arriving, SamePuts, SameTable, SameCache, SameCalls, Listed
<1> QED BY <1>1, <1>2, <1>3 DEF View

LEMMA SameFollows ==
  ASSUME NEW l \in Ids, Follows(l), SameAt(l), JobsGoOn
  PROVE  Follows(l)'
<1>0. SamePuts(l) /\ SameTable(l) /\ SameCache(l) /\ SameCalls(l) /\ SameTrust(l)
  BY DEF SameAt
<1>1. Unseen(l) <=> Unseen(l)'
  BY <1>0 DEF Unseen, SameTable, SameCache, SameTrust
<1>2. PutFollows(l)'
  BY <1>0, <1>1 DEF Follows, PutFollows, SamePuts, SameCalls
<1>3. CallFollows(l)'
  BY <1>0 DEF Follows, CallFollows, SameTable, SameCalls
<1>4. FreshFollows(l)'
  <2>1. Fresh(l)' => Fresh(l)
    BY DEF JobsGoOn, Fresh
  <2> QED BY <1>0, <1>1, <2>1 DEF Follows, FreshFollows, SamePuts, SameCalls
<1>5. (Trusted(l) => View(cache, l))' /\ (Current(l) => View(fetch.rows, l))'
  BY <1>0, SameView DEF Follows, SameTrust
<1> QED BY <1>2, <1>3, <1>4, <1>5 DEF Follows

(* A step is about one layer, if it is about any. *)
LEMMA FollowsStep ==
  ASSUME ListFollows, JobsGoOn, Settling' => Settling, NEW u,
         \A l \in Ids : l # u => SameAt(l),
         Settling /\ u \in Ids \ Cancelled' /\ Follows(u) => Follows(u)'
  PROVE  ListFollows'
<1> SUFFICES ASSUME Settling, NEW l \in Ids, l \notin Cancelled' PROVE Follows(l)'
  BY DEF ListFollows
<1>1. Follows(l)
  BY DEF ListFollows, JobsGoOn
<1>2. CASE l = u
  BY <1>1, <1>2
<1>3. CASE l # u
  BY <1>1, <1>3, SameFollows
<1> QED BY <1>2, <1>3

LEMMA StillTrust ==
  ASSUME UNCHANGED <<loaded, fetch, late, astray>>
  PROVE  \A l : SameTrust(l)
BY DEF SameTrust, Trusted, Current

LEMMA StillFollows ==
  ASSUME ListFollows, JobsGoOn, Settling' => Settling,
         UNCHANGED <<table, puts, calls, listing>>
  PROVE  ListFollows'
<1>1. \A l \in Ids : SameAt(l)
  BY StillTrust
  DEF SameAt, SamePuts, SameTable, SameCache, SameCalls, PutsOf, CallsOf, Listed, listing
<1> SUFFICES ASSUME Settling, NEW l \in Ids, l \notin Cancelled' PROVE Follows(l)'
  BY DEF ListFollows
<1> QED BY <1>1, SameFollows DEF ListFollows, JobsGoOn

(* A step of a fault adds one. *)
LEMMA NotSettling ==
  ASSUME faults \in Nat, faults' = faults + 1
  PROVE  ListFollows' /\ SentOnce'
BY DEF ListFollows, Settling, SentOnce

-----------------------------------------------------------------------------
(* The uploads *)

LEMMA PatchAt ==
  ASSUME JobsTyped, NEW u \in DOMAIN jobs, NEW changes, Patch(u, changes)
  PROVE  /\ DOMAIN jobs' = DOMAIN jobs
         /\ \A v \in DOMAIN jobs \ {u} : jobs'[v] = jobs[v]
         /\ \A x \in {"status", "retryable", "cancelled"} :
              jobs'[u][x] = IF x \in DOMAIN changes THEN changes[x] ELSE jobs[u][x]
<1>1. DOMAIN jobs[u] = {"name", "file", "status", "retryable", "sent", "cancelled"}
  BY DEF JobsTyped, Job
<1>2. DOMAIN jobs' = DOMAIN jobs /\ \A v \in DOMAIN jobs \ {u} : jobs'[v] = jobs[v]
  BY DEF Patch
<1>3. jobs'[u] = [x \in DOMAIN jobs[u] |-> IF x \in DOMAIN changes THEN changes[x]
                                           ELSE jobs[u][x]]
  BY DEF Patch
<1> QED BY ONLY <1>1, <1>2, <1>3

(* What a change of a row may be *)
Harmless(changes) ==
  /\ "status" \in DOMAIN changes => changes["status"] # "preparing"
  /\ "retryable" \in DOMAIN changes => ~changes["retryable"] \/ faults' # 0
  /\ "cancelled" \in DOMAIN changes => changes["cancelled"]

LEMMA PatchGoesOn ==
  ASSUME JobsTyped, SentOnce, faults' = 0 => faults = 0,
         NEW u \in DOMAIN jobs, NEW changes, Harmless(changes), Patch(u, changes)
  PROVE  JobsGoOn
<1>1. /\ DOMAIN jobs' = DOMAIN jobs
      /\ \A v \in DOMAIN jobs \ {u} : jobs'[v] = jobs[v]
      /\ jobs'[u]["status"] = IF "status" \in DOMAIN changes THEN changes["status"]
                                                             ELSE jobs[u]["status"]
      /\ jobs'[u]["retryable"] =
           IF "retryable" \in DOMAIN changes THEN changes["retryable"]
                                             ELSE jobs[u]["retryable"]
      /\ jobs'[u]["cancelled"] =
           IF "cancelled" \in DOMAIN changes THEN changes["cancelled"]
                                             ELSE jobs[u]["cancelled"]
  BY PatchAt
<1>2. Cancelled \subseteq Cancelled'
  BY <1>1 DEF Cancelled, Harmless
<1>3. \A l \in Uploads : Fresh(l)' => Fresh(l)
  BY <1>1 DEF Fresh, Harmless
<1>4. faults' = 0 => \A v \in DOMAIN jobs' : ~jobs'[v].retryable
  BY <1>1 DEF SentOnce, Harmless
<1> QED BY <1>2, <1>3, <1>4 DEF JobsGoOn

LEMMA JobsStill ==
  ASSUME SentOnce, faults' = 0 => faults = 0, UNCHANGED jobs
  PROVE  JobsGoOn
BY DEF JobsGoOn, SentOnce, Cancelled, Fresh

LEMMA JobsStep ==
  ASSUME Requests, MapTyped, SentOnce, [Next]_vars
  PROVE  JobsGoOn
<1>0. JobsTyped /\ faults \in Nat
  BY DEF Requests, MapTyped
<1>1. ASSUME NEW f \in Files, NEW n \in Names, StartUpload(f, n) PROVE JobsGoOn
  <2> DEFINE job == [name |-> n, file |-> f, status |-> "preparing", retryable |-> FALSE,
                     sent |-> FALSE, cancelled |-> FALSE]
  <2>1. /\ jobs' = With(jobs, FreshId, job) /\ UNCHANGED faults
        /\ FreshId \in Uploads \ DOMAIN jobs
    BY <1>0, <1>1 DEF StartUpload, FreshId, JobsTyped, bounds
  <2>2. job.status = "preparing" /\ ~job.retryable
    OBVIOUS
  <2> HIDE DEF job
  <2>3. /\ DOMAIN jobs' = DOMAIN jobs \cup {FreshId} /\ jobs'[FreshId] = job
        /\ \A v \in DOMAIN jobs : jobs'[v] = jobs[v]
    BY <2>1 DEF With
  <2> QED BY <2>1, <2>2, <2>3 DEF JobsGoOn, Cancelled, Fresh, SentOnce
<1>2. ASSUME NEW u \in Uploads,
             Sending(u) \/ Stall(u) \/ Progress(u) \/ CancelUpload(u)
               \/ DismissUpload(u) \/ RetryUpload(u)
      PROVE  JobsGoOn
  <2>1. u \in DOMAIN jobs /\ UNCHANGED faults
    BY <1>2 DEF Sending, SendFile, AllSent, Stall, Progress, CancelUpload, DismissUpload,
                RetryUpload, SendPut, bounds
  <2>2. \/ \E t \in {"stalled", "uploading", "gone"} : Patch(u, [status |-> t])
        \/ Patch(u, [status |-> "uploading", sent |-> FALSE])
        \/ Patch(u, [status |-> "processing", sent |-> TRUE])
        \/ Patch(u, [status |-> "gone", cancelled |-> TRUE])
    BY <1>2 DEF Sending, SendFile, AllSent, Stall, Progress, CancelUpload, DismissUpload,
                RetryUpload, SendPut
  <2>3. /\ \A t \in {"stalled", "uploading", "gone"} : Harmless([status |-> t])
        /\ Harmless([status |-> "uploading", sent |-> FALSE])
        /\ Harmless([status |-> "processing", sent |-> TRUE])
        /\ Harmless([status |-> "gone", cancelled |-> TRUE])
    BY DEF Harmless
  <2> QED BY <1>0, <2>1, <2>2, <2>3, PatchGoesOn
<1>3. ASSUME NEW n \in DOMAIN puts,
             UploadStored(n) \/ UploadRefused(n) \/ ConnectionDrops(n)
      PROVE  JobsGoOn
  <2>1. puts[n].id \in DOMAIN jobs
    BY DEF Requests, PutsTyped
  <2>2. faults' = faults \/ faults' = faults + 1
    BY <1>3 DEF UploadStored, UploadRefused, ConnectionDrops, bounds
  <2>3. Harmless([status |-> "gone"]) /\ Harmless(Failed(FALSE))
        /\ (faults' # 0 => Harmless(Failed(TRUE)))
    BY DEF Harmless, Failed
  <2>4. \/ UNCHANGED jobs
        \/ \E changes : Harmless(changes) /\ Patch(puts[n].id, changes)
    <3>1. CASE UploadStored(n)
      BY <2>3, <3>1 DEF UploadStored
    <3>2. CASE UploadRefused(n)
      <4>1. faults' = 0 => puts[n].step # "broken"
        BY <3>2 DEF UploadRefused, SentOnce, bounds
      <4>2. Verdict(puts[n].id, puts[n].step = "broken")
        BY <3>2 DEF UploadRefused
      <4>3. CASE puts[n].step = "broken"
        BY <2>3, <4>1, <4>2, <4>3 DEF Verdict
      <4>4. CASE puts[n].step # "broken"
        BY <2>3, <4>2, <4>4 DEF Verdict
      <4> QED BY <4>3, <4>4
    <3>3. CASE ConnectionDrops(n)
      <4>1. faults' # 0
        BY <1>0, <3>3 DEF ConnectionDrops
      <4>2. Verdict(puts[n].id, TRUE)
        BY <3>3 DEF ConnectionDrops
      <4> QED BY <2>3, <4>1, <4>2, Zenon DEF Verdict
    <3> QED BY <1>3, <3>1, <3>2, <3>3
  <2> QED BY <1>0, <2>1, <2>2, <2>4, PatchGoesOn, JobsStill
<1>4. CASE UNCHANGED jobs /\ faults' \in {faults, faults + 1}
  BY <1>0, <1>4, JobsStill
<1>5. CASE User
  BY <1>1, <1>2, <1>4, <1>5
  DEF User, AskRename, AskDelete, Toggle, RetryFeatures, RetryList, bounds
<1>6. CASE Server
  BY <1>4, <1>6 DEF Server, BodyReceived, FindById, LookForClash, Insert, StoreFeatures,
                    ServeDelete, ServeRename, bounds
<1>7. CASE Answers
  BY <1>3, <1>4, <1>7 DEF Answers, AnswerCall, bounds
<1>8. CASE Gets \/ Faults
  <2>1. ASSUME NEW u \in Uploads, PrepareFails(u) PROVE JobsGoOn
    <3>1. faults' # 0 /\ (faults' = 0 => faults = 0)
      BY <1>0, <2>1 DEF PrepareFails
    <3>2. Harmless(Failed(FALSE))
      BY DEF Harmless, Failed
    <3> QED BY <1>0, <2>1, <3>1, <3>2, PatchGoesOn DEF PrepareFails
  <2> QED BY <1>3, <1>4, <1>8, <2>1
      DEF Gets, ListServed, ListArrives, FeaturesArrive, Faults, PutBreaks, CallLost,
          FeaturesFail, ListFails, bounds
<1>9. CASE Paint \/ UNCHANGED vars
  BY <1>4, <1>9 DEF Paint, vars, bounds
<1> QED BY <1>2, <1>5, <1>6, <1>7, <1>8, <1>9 DEF Next

-----------------------------------------------------------------------------
(* Without a fault *)

(* No PUT breaks but by a fault. *)
NoneBreaks ==
  \A n \in DOMAIN puts' : puts'[n].step = "broken" =>
    n \in DOMAIN puts /\ puts[n].step = "broken"

LEMMA StepBreaksNone ==
  ASSUME PutsTyped, NEW n \in DOMAIN puts, NEW s \in PutSteps \ {"broken"}, Step(n, s)
  PROVE  NoneBreaks
BY StepAt DEF NoneBreaks

LEMMA LeavesBreakNone ==
  ASSUME PutsTyped, NEW N, puts' \in {puts, Without(puts, N), Unheard(N)}
  PROVE  NoneBreaks
<1>1. \A m \in DOMAIN puts : [puts[m] EXCEPT !.heard = FALSE].step = puts[m].step
  BY DEF PutsTyped, Put
<1>2. CASE puts' = Unheard(N)
  BY <1>1, <1>2 DEF NoneBreaks, Unheard
<1>3. CASE puts' \in {puts, Without(puts, N)}
  BY <1>3 DEF NoneBreaks, Without
<1> QED BY <1>2, <1>3

LEMMA SentOnceStep ==
  ASSUME Requests, MapTyped, SentOnce, [Next]_vars
  PROVE  SentOnce'
<1>0. PutsTyped /\ faults \in Nat /\ JobsGoOn
  BY JobsStep DEF Requests, MapTyped
<1>1. CASE NoneBreaks /\ UNCHANGED faults
  BY <1>0, <1>1 DEF SentOnce, NoneBreaks, JobsGoOn
<1>2. CASE faults' = faults + 1
  BY <1>0, <1>2, NotSettling
<1>3. CASE UNCHANGED <<puts, faults>>
  BY <1>0, <1>1, <1>3, LeavesBreakNone
<1>4. ASSUME NEW u, SendPut(u) PROVE SentOnce'
  <2>1. NoneBreaks
    BY <1>4 DEF SendPut, With, NoneBreaks
  <2> QED BY <1>1, <1>4, <2>1 DEF SendPut, bounds
<1>5. ASSUME NEW u, CancelUpload(u) PROVE SentOnce'
  <2>1. NoneBreaks
    BY <1>0, <1>5, LeavesBreakNone DEF CancelUpload
  <2> QED BY <1>1, <1>5, <2>1 DEF CancelUpload, bounds
<1>6. ASSUME NEW n \in DOMAIN puts,
             BodyReceived(n) \/ FindById(n) \/ LookForClash(n) \/ Insert(n) \/ StoreFeatures(n)
      PROVE  SentOnce'
  <2>1. \E s \in PutSteps \ {"broken"} : Step(n, s)
    BY <1>6 DEF BodyReceived, FindById, LookForClash, Insert, StoreFeatures, PutSteps
  <2>2. NoneBreaks
    BY <1>0, <2>1, StepBreaksNone
  <2> QED BY <1>1, <1>6, <2>2
       DEF BodyReceived, FindById, LookForClash, Insert, StoreFeatures, bounds
<1>7. ASSUME NEW n \in DOMAIN puts, UploadStored(n) \/ UploadRefused(n) PROVE SentOnce'
  <2>1. NoneBreaks
    BY <1>0, <1>7, LeavesBreakNone DEF UploadStored, UploadRefused
  <2> QED BY <1>1, <1>7, <2>1 DEF UploadStored, UploadRefused, bounds
<1>8. CASE User
  BY <1>3, <1>4, <1>5, <1>8
  DEF User, StartUpload, DismissUpload, RetryUpload, AskRename, AskDelete, Toggle,
      RetryFeatures, RetryList, bounds, server
<1>9. ASSUME NEW u \in Uploads, Sending(u) \/ Stall(u) \/ Progress(u) PROVE SentOnce'
  BY <1>3, <1>4, <1>9 DEF Sending, SendFile, AllSent, Stall, Progress, bounds, server
<1>10. CASE Server
  BY <1>3, <1>6, <1>10 DEF Server, ServeDelete, ServeRename, bounds
<1>11. CASE Answers
  BY <1>3, <1>7, <1>11 DEF Answers, AnswerCall, bounds
<1>12. CASE Gets \/ Faults
  BY <1>2, <1>3, <1>12
  DEF PrepareFails, Gets, ListServed, ListArrives, FeaturesArrive, Faults, PutBreaks, ConnectionDrops,
      CallLost, FeaturesFail, ListFails, bounds, server
<1>13. CASE Paint \/ UNCHANGED vars
  BY <1>3, <1>13 DEF Paint, vars, bounds, server
<1> QED BY <1>8, <1>9, <1>10, <1>11, <1>12, <1>13 DEF Next

LEMMA UndoStep ==
  ASSUME Requests, MapTyped, SentOnce, UndoesCancelled, [Next]_vars
  PROVE  UndoesCancelled'
<1>0. Cancelled \subseteq Cancelled' /\ calls \subseteq Request
  BY JobsStep DEF JobsGoOn, Requests, CallsTyped
<1>1. ASSUME \A d \in calls' : d.op = "undo" => d.id \in Cancelled
                                 \/ \E c \in calls : c.op = "undo" /\ c.id = d.id
      PROVE  UndoesCancelled'
  BY <1>0, <1>1 DEF UndoesCancelled
<1>2. CASE calls' \subseteq calls
  BY <1>1, <1>2
<1>3. ASSUME NEW c \in calls, NEW t, Answered(c, t) PROVE UndoesCancelled'
  <2>1. [c EXCEPT !.step = t].op = c.op /\ [c EXCEPT !.step = t].id = c.id
    BY <1>0 DEF Request
  <2> QED BY <1>1, <1>3, <2>1 DEF Answered
<1>4. ASSUME NEW l, NEW n, AskRename(l, n) \/ AskDelete(l) PROVE UndoesCancelled'
  BY <1>1, <1>4 DEF AskRename, AskDelete, Call
<1>5. ASSUME NEW n \in DOMAIN puts, UploadStored(n) PROVE UndoesCancelled'
  <2>1. puts[n].id \in DOMAIN jobs
    BY DEF Requests, PutsTyped
  <2> QED BY <1>1, <1>5, <2>1 DEF UploadStored, Undo, Cancelled
<1>6. CASE User
  BY <1>2, <1>4, <1>6
  DEF User, StartUpload, CancelUpload, DismissUpload, RetryUpload, SendPut, Toggle,
      RetryFeatures, RetryList, server
<1>7. ASSUME NEW u \in Uploads, Sending(u) \/ Stall(u) \/ Progress(u) PROVE UndoesCancelled'
  BY <1>2, <1>7 DEF Sending, SendFile, SendPut, AllSent, Stall, Progress, server
<1>8. CASE Server
  BY <1>2, <1>3, <1>8
  DEF Server, BodyReceived, FindById, LookForClash, Insert, StoreFeatures, ServeDelete,
      ServeRename
<1>9. CASE Answers
  BY <1>2, <1>5, <1>9 DEF Answers, UploadRefused, AnswerCall
<1>10. CASE Gets \/ Faults
  BY <1>2, <1>3, <1>10
  DEF PrepareFails, Gets, ListServed, ListArrives, FeaturesArrive, Faults, PutBreaks, ConnectionDrops,
      CallLost, FeaturesFail, ListFails, server
<1>11. CASE Paint \/ UNCHANGED vars
  BY <1>2, <1>11 DEF Paint, vars, server
<1> QED BY <1>6, <1>7, <1>8, <1>9, <1>10, <1>11 DEF Next

(* Once it is there the list stays. *)
LEMMA ListStays ==
  ASSUME [Next]_vars
  PROVE  loaded => loaded'
<1>1. CASE UNCHANGED loaded \/ loaded' = TRUE
  BY <1>1
<1>2. CASE User
  BY <1>1, <1>2
  DEF User, StartUpload, CancelUpload, DismissUpload, RetryUpload, SendPut, AskRename,
      AskDelete, Toggle, RetryFeatures, RetryList, listing
<1>3. ASSUME NEW u \in Uploads, Sending(u) \/ Stall(u) \/ Progress(u) PROVE loaded => loaded'
  BY <1>1, <1>3 DEF Sending, SendFile, SendPut, AllSent, Stall, Progress, listing
<1>4. CASE Server
  BY <1>1, <1>4
  DEF Server, BodyReceived, FindById, LookForClash, Insert, StoreFeatures, ServeDelete,
      ServeRename, listing
<1>5. CASE Answers
  BY <1>1, <1>5 DEF Answers, UploadStored, UploadRefused, AnswerCall, WriteList, listing
<1>6. CASE Gets \/ Faults
  BY <1>1, <1>6
  DEF Gets, ListServed, ListArrives, FeaturesArrive, Faults, PutBreaks, ConnectionDrops,
      CallLost, FeaturesFail, PrepareFails, ListFails, listing
<1>7. CASE Paint \/ UNCHANGED vars
  BY <1>1, <1>7 DEF Paint, vars, listing
<1> QED BY <1>2, <1>3, <1>4, <1>5, <1>6, <1>7 DEF Next

LEMMA CallsComeLater ==
  ASSUME Requests, CallsAfterList, [Next]_vars
  PROVE  CallsAfterList'
<1>0. (loaded => loaded') /\ calls \subseteq Request
  BY ListStays DEF Requests, CallsTyped
<1>1. ASSUME \A d \in calls' : d.op # "undo" => loaded
                                 \/ \E c \in calls : c.op = d.op
      PROVE  CallsAfterList'
  BY <1>0, <1>1 DEF CallsAfterList
<1>2. CASE calls' \subseteq calls
  BY <1>1, <1>2
<1>3. ASSUME NEW c \in calls, NEW t, Answered(c, t) PROVE CallsAfterList'
  <2>1. [c EXCEPT !.step = t].op = c.op
    BY <1>0 DEF Request
  <2> QED BY <1>1, <1>3, <2>1 DEF Answered
<1>4. ASSUME NEW l, NEW n, AskRename(l, n) \/ AskDelete(l) PROVE CallsAfterList'
  BY <1>1, <1>4 DEF AskRename, AskDelete, RowsOffered
<1>5. ASSUME NEW n \in DOMAIN puts, UploadStored(n) PROVE CallsAfterList'
  BY <1>1, <1>5 DEF UploadStored, Undo
<1>6. CASE User
  BY <1>2, <1>4, <1>6
  DEF User, StartUpload, CancelUpload, DismissUpload, RetryUpload, SendPut, Toggle,
      RetryFeatures, RetryList, server
<1>7. ASSUME NEW u \in Uploads, Sending(u) \/ Stall(u) \/ Progress(u) PROVE CallsAfterList'
  BY <1>2, <1>7 DEF Sending, SendFile, SendPut, AllSent, Stall, Progress, server
<1>8. CASE Server
  BY <1>2, <1>3, <1>8
  DEF Server, BodyReceived, FindById, LookForClash, Insert, StoreFeatures, ServeDelete,
      ServeRename
<1>9. CASE Answers
  BY <1>2, <1>5, <1>9 DEF Answers, UploadRefused, AnswerCall
<1>10. CASE Gets \/ Faults
  BY <1>2, <1>3, <1>10
  DEF PrepareFails, Gets, ListServed, ListArrives, FeaturesArrive, Faults, PutBreaks,
      ConnectionDrops, CallLost, FeaturesFail, ListFails, server
<1>11. CASE Paint \/ UNCHANGED vars
  BY <1>2, <1>11 DEF Paint, vars, server
<1> QED BY <1>6, <1>7, <1>8, <1>9, <1>10, <1>11 DEF Next

-----------------------------------------------------------------------------
(* One action at a time: the list follows what is stored *)

Steady == Requests /\ MapTyped /\ ListTyped /\ FollowInv

(* A step that leaves the PUTs, or all but those of one layer, alone *)
LEMMA AllSamePuts == ASSUME UNCHANGED puts PROVE \A l : SamePuts(l)
BY DEF SamePuts, PutsOf

LEMMA AllSameTable == ASSUME UNCHANGED table PROVE \A l : SameTable(l)
BY DEF SameTable

LEMMA AllSameCache == ASSUME UNCHANGED cache PROVE \A l : SameCache(l)
BY DEF SameCache, Listed

LEMMA AllSameCalls == ASSUME UNCHANGED calls PROVE \A l : SameCalls(l)
BY DEF SameCalls, CallsOf

LEMMA AllSameList == ASSUME UNCHANGED listing PROVE \A l : SameCache(l) /\ SameTrust(l)
BY AllSameCache, StillTrust DEF listing

LEMMA OtherPuts ==
  ASSUME PutsTyped, NEW n \in DOMAIN puts,
         puts' = Without(puts, {n}) \/ \E s : puts' = [puts EXCEPT ![n].step = s],
         NEW l, l # puts[n].id
  PROVE  SamePuts(l)
<1>1. CASE puts' = Without(puts, {n})
  BY <1>1 DEF Without, SamePuts, PutsOf
<1>2. ASSUME NEW s, puts' = [puts EXCEPT ![n].step = s] PROVE SamePuts(l)
  <2>1. puts[n] \in Put
    BY DEF PutsTyped
  <2>2. DOMAIN puts' = DOMAIN puts /\ \A m \in DOMAIN puts \ {n} : puts'[m] = puts[m]
    BY <1>2
  <2>3. puts'[n] = [puts[n] EXCEPT !.step = s]
    BY <1>2
  <2>4. puts'[n].id = puts[n].id
    BY <2>1, <2>3 DEF Put
  <2> QED BY <2>2, <2>4 DEF SamePuts, PutsOf
<1> QED BY <1>1, <1>2

LEMMA OtherCalls ==
  ASSUME CallsTyped, NEW c \in calls, NEW t, Answered(c, t) \/ calls' = calls \ {c},
         NEW l, l # c.id
  PROVE  SameCalls(l)
<1>1. [c EXCEPT !.step = t].id = c.id
  BY DEF CallsTyped, Request
<1> QED BY <1>1 DEF Answered, SameCalls, CallsOf

(* With no fault a PUT of an upload that is not cancelled is the only one    *)
(* of its layer.                                                            *)
LEMMA ThisPut ==
  ASSUME NEW l, Follows(l), NEW n \in DOMAIN puts, puts[n].id = l
  PROVE  /\ PutsOf(l) = {n} /\ puts[n].heard /\ ~Fresh(l)
         /\ puts[n].step # "stored" => Unseen(l) /\ CallsOf(l) = {}
BY DEF Follows, PutFollows, FreshFollows, PutsOf

LEMMA ThisCall ==
  ASSUME NEW l, Follows(l), NEW c \in calls, c.id = l, c.op # "undo"
  PROVE  /\ CallsOf(l) = {c} /\ ~Fresh(l)
         /\ \A n \in PutsOf(l) : puts[n].step = "stored"
         /\ c.op = "delete" => c.step # "refused" /\ (c.step = "done" => l \notin DOMAIN table)
         /\ c.op = "rename" /\ c.step = "done" => l \in DOMAIN table /\ table[l] = c.name
BY DEF Follows, PutFollows, CallFollows, FreshFollows, CallsOf

(* A layer of which a call is out is shown as stored, or as it was before.   *)
LEMMA ViewOfCall ==
  ASSUME NEW l, NEW list, View(list, l), CallsOf(l) # {}
  PROVE  Agrees(list, l) \/ Changed(list, l)
BY DEF View, Arriving

(* SendPut: the first PUT of an upload, a second one needs a fault *)
LEMMA SendPutFollows ==
  ASSUME Steady, JobsGoOn, NEW u \in Uploads, SendFile(u) \/ RetryUpload(u)
  PROVE  ListFollows'
<1> SendPut(u)
  BY DEF SendFile, RetryUpload
<1>0. nput' \notin DOMAIN puts /\ UNCHANGED <<table, calls, listing, faults>>
  BY DEF SendPut, Steady, Requests, PutsTyped, bounds
<1>1. /\ DOMAIN puts' = DOMAIN puts \cup {nput'}
      /\ puts'[nput'].id = u /\ puts'[nput'].step = "sending" /\ puts'[nput'].heard
      /\ \A n \in DOMAIN puts : puts'[n] = puts[n]
  BY <1>0 DEF SendPut, With
<1>2. ASSUME NEW l \in Ids, l # u PROVE SameAt(l)
  <2>1. SamePuts(l)
    BY <1>1, <1>2 DEF SamePuts, PutsOf
  <2> QED BY <1>0, <2>1, AllSameTable, AllSameList, AllSameCalls DEF SameAt
<1>3. ASSUME Settling, u \in Ids \ Cancelled', Follows(u) PROVE Follows(u)'
  <2>1. u \in DOMAIN jobs /\ jobs[u].status = "preparing"
    <3>1. ~RetryUpload(u)
      BY <1>3 DEF RetryUpload, Steady, FollowInv, SentOnce, Settling
    <3> QED BY <3>1 DEF SendFile
  <2>2. PutsOf(u) = {} /\ CallsOf(u) = {} /\ Unseen(u)
    BY <1>3, <2>1 DEF Follows, FreshFollows, Fresh
  <2>3. PutsOf(u)' = {nput'} /\ CallsOf(u)' = {} /\ Unseen(u)'
    BY <1>0, <1>1, <2>2 DEF PutsOf, CallsOf, Unseen, Listed, listing
  <2>4. u \in DOMAIN jobs' /\ jobs'[u]["status"] = "uploading"
    <3>1. Patch(u, [status |-> "uploading", sent |-> FALSE])
      BY DEF SendPut
    <3> QED BY <2>1, <3>1, PatchAt DEF Steady, Requests
  <2>5. PutFollows(u)' /\ CallFollows(u)'
    BY <1>1, <2>3 DEF PutFollows, CallFollows
  <2>6. FreshFollows(u)'
    BY <2>4 DEF FreshFollows, Fresh
  <2>7. Agrees(cache, u)' /\ Agrees(fetch.rows, u)'
    BY <2>3 DEF Agrees, Unseen, Listed
  <2> QED BY <2>5, <2>6, <2>7 DEF Follows, View
<1>4. Settling' => Settling
  BY <1>0 DEF Settling
<1> QED BY <1>2, <1>3, <1>4, FollowsStep DEF Steady, FollowInv

LEMMA CancelFollows ==
  ASSUME Steady, JobsGoOn, NEW u \in Uploads, CancelUpload(u)
  PROVE  ListFollows'
<1>0. UNCHANGED <<table, calls, listing, faults>>
  BY DEF CancelUpload, bounds
<1>1. ASSUME NEW l \in Ids, l # u PROVE SameAt(l)
  <2>1. SamePuts(l)
    BY <1>1 DEF CancelUpload, Unheard, Heard, SamePuts, PutsOf
  <2> QED BY <1>0, <2>1, AllSameTable, AllSameList, AllSameCalls DEF SameAt
<1>2. u \in Cancelled'
  <2>1. u \in DOMAIN jobs /\ Patch(u, [status |-> "gone", cancelled |-> TRUE])
    BY DEF CancelUpload
  <2>2. DOMAIN jobs' = DOMAIN jobs /\ jobs'[u]["cancelled"] = TRUE
    BY <2>1, PatchAt DEF Steady, Requests
  <2> QED BY <2>1, <2>2 DEF Cancelled
<1>3. Settling' => Settling
  BY <1>0 DEF Settling
<1> QED BY <1>1, <1>2, <1>3, FollowsStep DEF Steady, FollowInv

(* map-api at work on a PUT: it commits before it answers *)
LEMMA ServeFollows ==
  ASSUME Steady, JobsGoOn, NEW n \in DOMAIN puts,
         BodyReceived(n) \/ FindById(n) \/ LookForClash(n) \/ Insert(n) \/ StoreFeatures(n)
  PROVE  ListFollows'
<1>1. PICK u : u = puts[n].id
  OBVIOUS
<1>2. \E s \in PutSteps : Step(n, s)
  BY DEF BodyReceived, FindById, LookForClash, Insert, StoreFeatures, PutSteps
<1>3. /\ UNCHANGED <<calls, jobs, listing, faults>>
      /\ UNCHANGED table \/ table' = With(table, u, puts[n].name)
  BY <1>1
  DEF BodyReceived, FindById, LookForClash, Insert, StoreFeatures, bounds
<1>4. puts' = Without(puts, {n}) \/ \E t : puts' = [puts EXCEPT ![n].step = t]
  BY <1>2 DEF Step
<1>5. ASSUME NEW l \in Ids, l # u PROVE SameAt(l)
  <2>1. SamePuts(l)
    BY <1>1, <1>4, <1>5, OtherPuts DEF Steady, Requests
  <2>2. SameTable(l)
    BY <1>3, <1>5 DEF With, SameTable
  <2> QED BY <1>3, <2>1, <2>2, AllSameList, AllSameCalls DEF SameAt
<1>6. ASSUME Settling, u \in Ids \ Cancelled', Follows(u) PROVE Follows(u)'
  <2>1. puts[n].step # "stored"
    BY DEF BodyReceived, FindById, LookForClash, Insert, StoreFeatures, Serving
  <2>2. PutsOf(u) = {n} /\ CallsOf(u) = {} /\ Unseen(u) /\ puts[n].heard /\ ~Fresh(u)
    BY <1>1, <1>6, <2>1, ThisPut
  <2>3. \/ \E s \in PutSteps \ {"stored"} : Step(n, s) /\ UNCHANGED table
        \/ Step(n, "stored") /\ table' = With(table, u, puts[n].name)
    BY <1>1, <2>1, <2>2
    DEF BodyReceived, FindById, LookForClash, Insert, StoreFeatures, PutSteps, Unseen
  <2>4. PICK s \in PutSteps :
           /\ Step(n, s) /\ (s # "stored" => UNCHANGED table)
           /\ s = "stored" => table' = With(table, u, puts[n].name)
    BY <2>3 DEF PutSteps
  <2>5. puts' = [puts EXCEPT ![n].step = s]
    BY <2>2, <2>4 DEF Step
  <2>6. /\ DOMAIN puts' = DOMAIN puts /\ \A m \in DOMAIN puts \ {n} : puts'[m] = puts[m]
        /\ puts'[n].id = u /\ puts'[n].name = puts[n].name /\ puts'[n].heard
        /\ puts'[n].step = s
    <3>1. puts[n] \in Put
      BY DEF Steady, Requests, PutsTyped
    <3>2. puts'[n] = [puts[n] EXCEPT !.step = s]
      BY <2>5
    <3>3. /\ puts'[n].id = u /\ puts'[n].name = puts[n].name /\ puts'[n].heard
          /\ puts'[n].step = s
      BY <1>1, <2>2, <3>1, <3>2 DEF Put
    <3> QED BY <2>5, <3>3
  <2>7. /\ PutsOf(u)' = {n} /\ CallsOf(u)' = {} /\ u \notin Listed'
        /\ u \notin DOMAIN fetch'.rows /\ ~Fresh(u)'
    BY <1>3, <2>2, <2>6 DEF PutsOf, CallsOf, Listed, Fresh, Unseen, listing
  <2>8. /\ s # "stored" => u \notin DOMAIN table'
        /\ s = "stored" => u \in DOMAIN table' /\ table'[u] = puts[n].name
    BY <2>2, <2>4 DEF With, Unseen
  <2>9. PutFollows(u)' /\ CallFollows(u)' /\ FreshFollows(u)'
    BY <2>6, <2>7, <2>8 DEF PutFollows, CallFollows, FreshFollows, Unseen
  <2>10. View(cache, u)' /\ View(fetch.rows, u)'
    <3>1. CASE s = "stored"
      BY <2>6, <2>7, <2>8, <3>1 DEF View, Arriving, Listed
    <3>2. CASE s # "stored"
      BY <2>7, <2>8, <3>2 DEF View, Agrees, Listed
    <3> QED BY <3>1, <3>2
  <2> QED BY <2>9, <2>10 DEF Follows
<1> QED BY <1>3, <1>5, <1>6, FollowsStep DEF Steady, FollowInv, Settling

(* An upload that is answered is listed if it was stored. *)
LEMMA UploadListed ==
  ASSUME Steady, JobsGoOn, NEW n \in DOMAIN puts, UploadStored(n)
  PROVE  ListFollows'
<1>1. PICK u : u = puts[n].id
  OBVIOUS
<1>2. u \in DOMAIN jobs /\ puts[n] \in Put /\ u \in Ids /\ puts[n].step = "stored"
  BY <1>1 DEF Steady, Requests, PutsTyped, JobsTyped, Ids, UploadStored, Serving
<1>3. /\ puts' = Without(puts, {n}) /\ UNCHANGED <<table, faults>>
      /\ calls' = calls \/ calls' = calls \cup Undo(u)
      /\ jobs[u].cancelled => UNCHANGED listing
      /\ ~jobs[u].cancelled =>
           /\ cache' = ListAfterUpload(u, puts[n].name) /\ UNCHANGED fetch
           /\ loaded' = TRUE /\ Overtakes(u, NameIn(cache', u))
           /\ astray' = astray \cup (IF loaded THEN {} ELSE Ids \ {u})
                               \cup ({u} \ (Listed \cup DOMAIN table))
  BY <1>1 DEF UploadStored, WriteList, bounds
<1>4. Settling' => Settling
  BY <1>3 DEF Settling
<1>5. \A l : SameCalls(l)
  BY <1>3 DEF SameCalls, CallsOf, Undo
<1>6. ASSUME NEW l \in Ids, l # u PROVE SameAt(l)
  <2>1. SamePuts(l)
    BY <1>1, <1>3, <1>6, OtherPuts DEF Steady, Requests
  <2>2. CASE jobs[u].cancelled
    BY <1>3, <1>5, <2>1, <2>2, AllSameTable, AllSameList DEF SameAt
  <2>3. CASE ~jobs[u].cancelled
    <3>1. SameCache(l)
      BY <1>3, <1>6, <2>3 DEF With, SameCache, Listed, ListAfterUpload
    <3>2. SameTrust(l)
      BY <1>3, <1>6, <2>3 DEF SameTrust, Trusted, Current, Overtakes
    <3> QED BY <1>3, <1>5, <2>1, <3>1, <3>2, AllSameTable DEF SameAt
  <2> QED BY <2>2, <2>3
<1>7. ASSUME Settling, u \in Ids \ Cancelled', Follows(u) PROVE Follows(u)'
  <2>1. PutsOf(u) = {n} /\ ~Fresh(u)
    BY <1>1, <1>7, ThisPut
  <2>2. ~jobs[u].cancelled
    BY <1>2, <1>7 DEF JobsGoOn, Cancelled
  <2>3. PutsOf(u)' = {} /\ CallsOf(u)' = CallsOf(u) /\ (u \in Uploads => ~Fresh(u)')
    <3>1. PutsOf(u)' = {}
      BY <1>3, <2>1 DEF Without, PutsOf
    <3> QED BY <1>5, <2>1, <3>1 DEF SameCalls, JobsGoOn
  <2>4. PutFollows(u)' /\ CallFollows(u)' /\ FreshFollows(u)'
    <3>1. CallFollows(u)
      BY <1>7 DEF Follows
    <3>2. CallFollows(u)'
      BY ONLY <1>3, <2>3, <3>1 DEF CallFollows
    <3> QED BY <2>3, <3>2 DEF PutFollows, FreshFollows, Fresh
  <2>5. ~Arriving(cache, u) \/ table[u] = puts[n].name
    BY <2>1 DEF Arriving
  <2>6. u \in Listed' /\ (u \in Listed => cache'[u] = cache[u])
        /\ (u \notin Listed => cache'[u] = puts[n].name)
    BY <1>3, <2>2 DEF ListAfterUpload, With, Listed
  <2>7. Trusted(u)' => View(cache, u)'
    <3> SUFFICES ASSUME Trusted(u)' PROVE View(cache, u)'
      OBVIOUS
    <3>1. u \in Uploads
      BY <1>1, <1>2 DEF Put
    <3>2. Trusted(u) /\ (u \in Listed \/ u \in DOMAIN table)
      BY <1>3, <2>2, <3>1 DEF Trusted
    <3>3. View(cache, u)
      BY <1>7, <3>2 DEF Follows
    <3>4. CASE u \in Listed
      <4>1. Agrees(cache, u) \/ Changed(cache, u)
        BY <3>3, <3>4 DEF View, Arriving
      <4>2. Agrees(cache, u) => Agrees(cache, u)'
        BY <1>3, <2>6, <3>4 DEF Agrees, Listed
      <4>3. Changed(cache, u) => Changed(cache, u)'
        BY <2>3, <2>6, <3>4 DEF Changed, Listed
      <4> QED BY <4>1, <4>2, <4>3 DEF View
    <3>5. CASE u \notin Listed
      <4>1. Arriving(cache, u)
        BY <3>2, <3>3, <3>5 DEF View, Agrees, Changed, Listed
      <4>2. u \in DOMAIN table /\ table[u] = puts[n].name
        BY <2>5, <4>1 DEF Arriving
      <4>3. Agrees(cache, u)'
        BY <1>3, <2>6, <3>5, <4>2 DEF Agrees, Listed
      <4> QED BY <4>3 DEF View
    <3> QED BY <3>4, <3>5
  <2>8. Current(u)' => View(fetch.rows, u)'
    <3> SUFFICES ASSUME Current(u)' PROVE View(fetch.rows, u)'
      OBVIOUS
    <3>1. fetch' = fetch /\ Current(u) /\ NameIn(fetch.rows, u) = NameIn(cache', u)
      BY <1>3, <2>2 DEF Current, Overtakes
    <3>2. View(fetch.rows, u) /\ u \in DOMAIN fetch.rows
      BY <1>7, <2>6, <3>1, NameInAgrees DEF Follows, Listed
    <3>3. Agrees(fetch.rows, u) \/ Changed(fetch.rows, u)
      BY <3>2 DEF View, Arriving
    <3>4. Agrees(fetch.rows, u) => Agrees(fetch.rows, u)'
      BY <1>3, <3>1 DEF Agrees
    <3>5. Changed(fetch.rows, u) => Changed(fetch.rows, u)'
      BY <2>3, <3>1 DEF Changed
    <3> QED BY <3>3, <3>4, <3>5 DEF View
  <2> QED BY <2>4, <2>7, <2>8 DEF Follows
<1> QED BY <1>4, <1>6, <1>7, FollowsStep DEF Steady, FollowInv

LEMMA UploadNotListed ==
  ASSUME Steady, JobsGoOn, NEW n \in DOMAIN puts, UploadRefused(n)
  PROVE  ListFollows'
<1>1. PICK u : u = puts[n].id
  OBVIOUS
<1>2. u \in DOMAIN jobs /\ puts[n] \in Put /\ u \in Ids /\ puts[n].step # "stored"
  BY <1>1 DEF Steady, Requests, PutsTyped, JobsTyped, Ids, UploadRefused
<1>3. puts' = Without(puts, {n}) /\ UNCHANGED <<table, calls, listing, faults>>
  BY <1>1 DEF UploadRefused, bounds
<1>6. ASSUME NEW l \in Ids, l # u PROVE SameAt(l)
  <2>1. SamePuts(l)
    BY <1>1, <1>3, <1>6, OtherPuts DEF Steady, Requests
  <2> QED BY <1>3, <2>1, AllSameTable, AllSameList, AllSameCalls DEF SameAt
<1>7. ASSUME Settling, u \in Ids \ Cancelled', Follows(u) PROVE Follows(u)'
  <2>1. PutsOf(u) = {n} /\ Unseen(u) /\ CallsOf(u) = {}
    BY <1>1, <1>2, <1>7, ThisPut
  <2>2. PutsOf(u)' = {} /\ CallsOf(u)' = {} /\ Unseen(u)'
    BY <1>3, <2>1 DEF Without, PutsOf, CallsOf, Unseen, Listed, listing
  <2>3. Agrees(cache, u)' /\ Agrees(fetch.rows, u)'
    BY <2>2 DEF Agrees, Unseen, Listed
  <2> QED BY <2>2, <2>3 DEF Follows, PutFollows, CallFollows, FreshFollows, View
<1> QED BY <1>3, <1>6, <1>7, FollowsStep DEF Steady, FollowInv, Settling

(* A rename or a delete is asked for: nothing else is asked of the layer *)
LEMMA AskFollows ==
  ASSUME Steady, JobsGoOn, NEW l \in Ids, NEW x, AskRename(l, x) \/ AskDelete(l)
  PROVE  ListFollows'
<1>1. /\ UNCHANGED <<table, puts, jobs, listing, faults>>
      /\ PanelFree /\ l \in RowsOffered
  BY DEF AskRename, AskDelete
<1>2. PICK c : /\ calls' = calls \cup {c} /\ c.id = l /\ c.op \in {"rename", "delete"}
               /\ c.step = "sent"
  <2>1. \A op, y : /\ Call(op, l, y).id = l /\ Call(op, l, y).op = op
                    /\ Call(op, l, y).step = "sent"
    BY DEF Call
  <2>2. \/ calls' = calls \cup {Call("rename", l, x)}
        \/ calls' = calls \cup {Call("delete", l, cache[l])}
    BY DEF AskRename, AskDelete
  <2> QED BY <2>1, <2>2
<1>3. ASSUME NEW k \in Ids, k # l PROVE SameAt(k)
  <2>1. SameCalls(k)
    BY <1>2, <1>3 DEF SameCalls, CallsOf
  <2> QED BY <1>1, <2>1, AllSamePuts, AllSameTable, AllSameList DEF SameAt
<1>4. ASSUME Settling, Follows(l) PROVE Follows(l)'
  <2>1. l \in Listed /\ CallsOf(l) = {}
    <3>1. l \in Listed \ Deleting
      BY <1>1 DEF RowsOffered
    <3> QED BY <1>1, <3>1
            DEF PanelFree, Deleting, CallsOf, Steady, Requests, CallsTyped, Request
  <2>2. ~Fresh(l) /\ \A n \in PutsOf(l) : puts[n].step = "stored"
    BY <1>4, <2>1 DEF Follows, PutFollows, FreshFollows, Unseen
  <2>3. CallsOf(l)' = {c} /\ PutsOf(l)' = PutsOf(l) /\ l \in Listed' /\ ~Fresh(l)'
    BY <1>1, <1>2, <2>1, <2>2 DEF CallsOf, PutsOf, Listed, Fresh, listing
  <2>4. PutFollows(l)' /\ CallFollows(l)' /\ FreshFollows(l)'
    BY <1>1, <1>2, <1>4, <2>2, <2>3 DEF Follows, PutFollows, CallFollows, FreshFollows
  <2>5. /\ View(cache, l) => View(cache, l)'
        /\ View(fetch.rows, l) => View(fetch.rows, l)'
    <3>1. ~Changed(cache, l) /\ ~Changed(fetch.rows, l)
      BY <2>1 DEF Changed
    <3>2. ~Arriving(cache, l) /\ ~Arriving(fetch.rows, l)
      BY <2>1 DEF Arriving
    <3>3. /\ Agrees(cache, l) => Agrees(cache, l)'
          /\ Agrees(fetch.rows, l) => Agrees(fetch.rows, l)'
      BY <1>1 DEF Agrees, listing
    <3> QED BY <3>1, <3>2, <3>3 DEF View
  <2>6. SameTrust(l)
    BY <1>1, AllSameList
  <2> QED BY <1>4, <2>4, <2>5, <2>6 DEF Follows, SameTrust
<1> QED BY <1>1, <1>3, <1>4, FollowsStep DEF Steady, FollowInv, Settling

(* map-api deletes or renames *)
LEMMA ServeCallFollows ==
  ASSUME Steady, JobsGoOn, NEW c \in calls, ServeDelete(c) \/ ServeRename(c)
  PROVE  ListFollows'
<1>1. PICK l : l = c.id
  OBVIOUS
<1>2. UNCHANGED <<puts, jobs, listing, faults>> /\ c \in Request
  BY DEF ServeDelete, ServeRename, bounds, Steady, Requests, CallsTyped
<1>3. PICK t \in {"done", "refused"} :
         /\ Answered(c, t)
         /\ t = "refused" => UNCHANGED table /\ c.op = "rename"
         /\ t = "done" =>
              \/ c.op \in {"delete", "undo"} /\ table' = Without(table, {l})
              \/ /\ c.op = "rename" /\ l \in DOMAIN table
                 /\ table' = [table EXCEPT ![l] = c.name]
  BY <1>1 DEF ServeDelete, ServeRename
<1>4. ASSUME NEW k \in Ids, k # l PROVE SameAt(k)
  <2>1. SameCalls(k)
    BY <1>1, <1>3, <1>4, OtherCalls DEF Steady, Requests
  <2>2. SameTable(k)
    BY <1>3, <1>4 DEF SameTable, Without
  <2> QED BY <1>2, <2>1, <2>2, AllSamePuts, AllSameList DEF SameAt
<1>5. ASSUME Settling, l \in Ids \ Cancelled', Follows(l) PROVE Follows(l)'
  <2>1. c.op # "undo"
    BY <1>1, <1>5 DEF Steady, FollowInv, UndoesCancelled, JobsGoOn
  <2>2. CallsOf(l) = {c} /\ ~Fresh(l) /\ \A n \in PutsOf(l) : puts[n].step = "stored"
    BY <1>1, <1>5, <2>1, ThisCall
  <2>3. c.step = "sent"
    BY DEF ServeDelete, ServeRename
  <2>4. PICK d : /\ d = [c EXCEPT !.step = t] /\ d.id = l /\ d.op = c.op /\ d.step = t
                 /\ d.name = c.name
    <3>1. LET e == [c EXCEPT !.step = t]
          IN  e.id = c.id /\ e.op = c.op /\ e.step = t /\ e.name = c.name
      BY <1>2 DEF Request
    <3> QED BY <1>1, <3>1
  <2>5. CallsOf(l)' = {d} /\ PutsOf(l)' = PutsOf(l) /\ ~Fresh(l)'
    <3>1. calls' = (calls \ {c}) \cup {d}
      BY <1>3, <2>4 DEF Answered
    <3>2. CallsOf(l)' = {d}
      BY <2>1, <2>2, <2>4, <3>1 DEF CallsOf
    <3> QED BY <1>2, <2>2, <3>2 DEF PutsOf, Fresh
  <2>6. /\ d.op = "delete" => t # "refused" /\ (t = "done" => l \notin DOMAIN table')
        /\ d.op = "rename" /\ t = "done" => l \in DOMAIN table' /\ table'[l] = d.name
    BY <1>3, <2>1, <2>4 DEF Without
  <2>7. PutFollows(l)' /\ CallFollows(l)' /\ FreshFollows(l)'
    <3>1. PutFollows(l)'
      BY <1>2, <1>5, <2>2, <2>5 DEF Follows, PutFollows
    <3>2. CallFollows(l)'
      BY <2>4, <2>5, <2>6 DEF CallFollows
    <3> QED BY <2>5, <3>1, <3>2 DEF FreshFollows
  <2>8. ASSUME NEW list, list' = list, View(list, l) PROVE View(list, l)'
    <3>1. Agrees(list, l)
      <4>1. ~Changed(list, l)
        BY <2>2, <2>3 DEF Changed
      <4> QED BY <2>2, <2>8, <4>1, ViewOfCall
    <3>2. CASE t = "refused"
      BY <1>3, <2>8, <3>1, <3>2 DEF Agrees, View
    <3>3. CASE t = "done" /\ l \in DOMAIN list
      BY <2>4, <2>5, <2>8, <3>3 DEF Changed, View
    <3>4. CASE t = "done" /\ l \notin DOMAIN list
      <4>1. l \notin DOMAIN table /\ l \notin DOMAIN table'
        BY <1>3, <2>1, <3>1, <3>4 DEF Agrees, Without
      <4> QED BY <2>8, <3>4, <4>1 DEF Agrees, View
    <3> QED BY <3>2, <3>3, <3>4
  <2>9. /\ View(cache, l) => View(cache, l)'
        /\ View(fetch.rows, l) => View(fetch.rows, l)'
    <3>1. cache' = cache /\ fetch'.rows = fetch.rows
      BY <1>2 DEF listing
    <3> QED BY <2>8, <3>1
  <2>10. SameTrust(l)
    BY <1>2, AllSameList
  <2> QED BY <1>5, <2>7, <2>9, <2>10 DEF Follows, SameTrust
<1> QED BY <1>2, <1>4, <1>5, FollowsStep DEF Steady, FollowInv, Settling

(* The widget patches the list to match *)
LEMMA AnswerFollows ==
  ASSUME Steady, JobsGoOn, NEW c \in calls, AnswerCall(c)
  PROVE  ListFollows'
<1>1. PICK l : l = c.id
  OBVIOUS
<1>2. /\ UNCHANGED <<table, puts, jobs, faults>> /\ calls' = calls \ {c}
      /\ c.step \in {"done", "refused"} /\ c \in Request
  BY DEF AnswerCall, bounds, Steady, Requests, CallsTyped
<1>3. \/ /\ c.step = "done" /\ c.op = "rename" /\ UNCHANGED <<fetch, astray>>
         /\ cache' = (IF l \in Listed THEN [cache EXCEPT ![l] = c.name] ELSE cache)
         /\ Overtakes(l, {c.name})
      \/ /\ c.step = "done" /\ c.op = "delete" /\ UNCHANGED <<fetch, astray>>
         /\ cache' = Without(cache, {l})
         /\ Overtakes(l, {})
      \/ (c.step = "refused" \/ c.op = "undo") /\ UNCHANGED listing
  BY <1>1, <1>2 DEF AnswerCall, ListAfterDelete, WriteList, Request
<1>4. Settling' => Settling
  BY <1>2 DEF Settling
<1>5. UNCHANGED listing \/ loaded
  BY <1>3 DEF Steady, FollowInv, CallsAfterList
<1>6. ASSUME NEW k \in Ids, k # l PROVE SameAt(k)
  <2>1. SameCalls(k)
    BY <1>1, <1>2, <1>6, OtherCalls DEF Steady, Requests
  <2>2. SameCache(k)
    BY <1>3, <1>6 DEF SameCache, Without, Listed, listing
  <2>3. SameTrust(k)
    <3>1. CASE UNCHANGED listing
      BY <3>1, AllSameList
    <3>2. CASE ~UNCHANGED listing
      BY <1>3, <1>5, <1>6, <3>2 DEF SameTrust, Trusted, Current, Overtakes
    <3> QED BY <3>1, <3>2
  <2> QED BY <1>2, <2>1, <2>2, <2>3, AllSamePuts, AllSameTable DEF SameAt
<1>7. ASSUME Settling, l \in Ids \ Cancelled', Follows(l) PROVE Follows(l)'
  <2>1. c.op # "undo"
    BY <1>1, <1>7 DEF Steady, FollowInv, UndoesCancelled, JobsGoOn
  <2>2. /\ CallsOf(l) = {c} /\ ~Fresh(l)
        /\ \A n \in PutsOf(l) : puts[n].step = "stored"
        /\ c.op = "delete" => c.step # "refused" /\ (c.step = "done" => l \notin DOMAIN table)
        /\ c.op = "rename" /\ c.step = "done" => l \in DOMAIN table /\ table[l] = c.name
    BY <1>1, <1>7, <2>1, ThisCall
  <2>3. CallsOf(l)' = {} /\ PutsOf(l)' = PutsOf(l) /\ ~Fresh(l)'
    BY <1>2, <2>2 DEF CallsOf, PutsOf, Fresh
  <2>4. PutFollows(l)' /\ CallFollows(l)' /\ FreshFollows(l)'
    BY <1>2, <1>7, <2>2, <2>3 DEF Follows, PutFollows, CallFollows, FreshFollows
  <2>5. CASE /\ c.step = "done" /\ UNCHANGED <<fetch, astray>> /\ loaded
             /\ c.op = "rename" /\ Overtakes(l, {c.name})
             /\ cache' = (IF l \in Listed THEN [cache EXCEPT ![l] = c.name] ELSE cache)
    <3>1. l \in DOMAIN table' /\ table'[l] = c.name
      BY <1>2, <2>2, <2>5
    <3>2. Trusted(l)' => Agrees(cache, l)'
      <4> SUFFICES ASSUME Trusted(l)' PROVE Agrees(cache, l)'
        OBVIOUS
      <4>1. Agrees(cache, l) \/ Changed(cache, l)
        BY <1>7, <2>2, <2>5, ViewOfCall DEF Follows, Trusted
      <4>2. l \in Listed
        BY <1>2, <3>1, <4>1 DEF Agrees, Changed, Listed
      <4>3. l \in DOMAIN cache' /\ cache'[l] = c.name
        BY <2>5, <4>2 DEF Listed
      <4> QED BY <3>1, <4>3 DEF Agrees
    <3>3. Current(l)' => Agrees(fetch.rows, l)'
      <4> SUFFICES ASSUME Current(l)' PROVE Agrees(fetch.rows, l)'
        OBVIOUS
      <4>1. NameIn(fetch.rows, l) = {c.name} /\ fetch' = fetch
        BY <2>5 DEF Current, Overtakes
      <4>2. l \in DOMAIN fetch.rows /\ fetch.rows[l] = c.name
        BY <4>1, NameInIs
      <4> QED BY <3>1, <4>1, <4>2 DEF Agrees
    <3> QED BY <2>4, <3>2, <3>3 DEF Follows, View
  <2>6. CASE /\ c.step = "done" /\ UNCHANGED <<fetch, astray>>
             /\ c.op = "delete" /\ Overtakes(l, {}) /\ cache' = Without(cache, {l})
    <3>1. l \notin DOMAIN table' /\ l \notin DOMAIN cache'
      BY <1>2, <2>2, <2>6 DEF Without
    <3>2. Current(l)' => l \notin DOMAIN fetch'.rows
      <4> SUFFICES ASSUME Current(l)' PROVE l \notin DOMAIN fetch'.rows
        OBVIOUS
      <4>1. NameIn(fetch.rows, l) = {} /\ fetch' = fetch
        BY <2>6 DEF Current, Overtakes
      <4> QED BY <4>1, NameInIs
    <3>3. Agrees(cache, l)' /\ (Current(l)' => Agrees(fetch.rows, l)')
      BY <3>1, <3>2 DEF Agrees
    <3> QED BY <2>4, <3>3 DEF Follows, View
  <2>7. CASE c.step = "refused" /\ UNCHANGED listing
    <3>1. ~Changed(cache, l) /\ ~Changed(fetch.rows, l)
      BY <2>2, <2>7 DEF Changed
    <3>2. /\ View(cache, l) => Agrees(cache, l)
          /\ View(fetch.rows, l) => Agrees(fetch.rows, l)
      BY <2>2, <3>1, ViewOfCall
    <3>3. /\ Agrees(cache, l) => Agrees(cache, l)'
          /\ Agrees(fetch.rows, l) => Agrees(fetch.rows, l)'
      BY <1>2, <2>7 DEF Agrees, listing
    <3>4. SameTrust(l)
      BY <2>7, AllSameList
    <3> QED BY <1>7, <2>4, <3>2, <3>3, <3>4 DEF Follows, View, SameTrust
  <2>8. c.step = "done" => loaded
    BY <2>1 DEF Steady, FollowInv, CallsAfterList
  <2> QED BY <1>3, <2>1, <2>5, <2>6, <2>7, <2>8
<1> QED BY <1>4, <1>6, <1>7, FollowsStep DEF Steady, FollowInv

(* The list is read, comes, fails or is asked for again. *)
LEMMA FetchFollows ==
  ASSUME Steady, JobsGoOn, ListServed \/ ListArrives \/ ListFails \/ RetryList
  PROVE  ListFollows'
<1>0. UNCHANGED <<table, puts, calls, jobs, faults>>
  BY DEF ListServed, ListArrives, ListFails, RetryList, server, bounds
<1>1. \A l : PutsOf(l)' = PutsOf(l) /\ CallsOf(l)' = CallsOf(l)
  BY <1>0 DEF PutsOf, CallsOf
<1> SUFFICES ASSUME Settling', NEW l \in Ids, l \notin Cancelled' PROVE Follows(l)'
  BY DEF ListFollows
<1>2. Follows(l)
  BY <1>0 DEF Steady, FollowInv, ListFollows, Settling, Cancelled
<1>3. /\ l \in Listed' => l \in Listed \/ l \in DOMAIN fetch.rows
      /\ l \in DOMAIN fetch'.rows => l \in DOMAIN table
  BY DEF ListServed, ListArrives, ListFails, RetryList, Idle, Asked, Listed
<1>4. Unseen(l) => Unseen(l)'
  BY <1>0, <1>3 DEF Unseen
<1>5. PutFollows(l)' /\ CallFollows(l)' /\ FreshFollows(l)'
  <2>1. PutFollows(l)'
    BY <1>0, <1>1, <1>2, <1>4 DEF Follows, PutFollows
  <2>2. CallFollows(l)'
    BY <1>0, <1>1, <1>2 DEF Follows, CallFollows
  <2>3. FreshFollows(l)'
    <3>1. Fresh(l)' <=> Fresh(l)
      BY <1>0 DEF Fresh
    <3> QED BY <1>1, <1>2, <1>4, <3>1 DEF Follows, FreshFollows
  <2> QED BY <2>1, <2>2, <2>3
<1>7. CASE ListArrives
  <2>1. cache' = fetch.rows /\ fetch'.step # "served" /\ astray' = late
        /\ fetch.step = "served"
    BY <1>7 DEF ListArrives, Idle
  <2>2. ASSUME Trusted(l)' PROVE View(cache, l)'
    <3>1. View(fetch.rows, l)
      BY <1>2, <2>1, <2>2 DEF Follows, Trusted, Current
    <3>2. Agrees(fetch.rows, l) => Agrees(cache, l)'
      BY <1>0, <2>1 DEF Agrees
    <3>3. Changed(fetch.rows, l) => Changed(cache, l)'
      BY <1>1, <2>1 DEF Changed
    <3>4. Arriving(fetch.rows, l) => Arriving(cache, l)'
      BY <1>0, <1>1, <2>1 DEF Arriving, Listed
    <3> QED BY <3>1, <3>2, <3>3, <3>4 DEF View
  <2> QED BY <1>5, <2>1, <2>2 DEF Follows, Current
<1>8. CASE ListServed \/ ListFails \/ RetryList
  <2>1. UNCHANGED <<cache, loaded, astray>>
    BY <1>8 DEF ListServed, ListFails, RetryList
  <2>2. View(cache, l) => View(cache, l)'
    <3>1. Agrees(cache, l) => Agrees(cache, l)'
      BY <1>0, <2>1 DEF Agrees
    <3>2. Changed(cache, l) => Changed(cache, l)'
      BY <1>1, <2>1 DEF Changed
    <3>3. Arriving(cache, l) => Arriving(cache, l)'
      BY <1>0, <1>1, <2>1 DEF Arriving, Listed
    <3> QED BY <3>1, <3>2, <3>3 DEF View
  <2>3. fetch'.step = "served" => Agrees(fetch.rows, l)'
    BY <1>0, <1>8 DEF ListServed, ListFails, RetryList, Idle, Asked, Agrees
  <2>4. Trusted(l)' => Trusted(l)
    BY <2>1 DEF Trusted
  <2> QED BY <1>2, <1>5, <2>2, <2>3, <2>4 DEF Follows, Current, View
<1> QED BY <1>7, <1>8

LEMMA FollowsHolds ==
  ASSUME Steady, [Next]_vars
  PROVE  ListFollows'
<1>0. JobsGoOn
  BY JobsStep DEF Steady, FollowInv
<1>1. CASE UNCHANGED <<table, puts, calls, listing, faults>>
  BY <1>0, <1>1, StillFollows DEF Steady, FollowInv, Settling
<1>2. CASE faults' = faults + 1
  BY <1>2, NotSettling DEF Steady, MapTyped
<1>3. CASE ListServed \/ ListArrives \/ ListFails \/ RetryList
  BY <1>0, <1>3, FetchFollows
<1>5. CASE User
  BY <1>0, <1>1, <1>3, <1>5, CancelFollows, SendPutFollows, AskFollows
  DEF User, StartUpload, DismissUpload, Toggle, RetryFeatures, server, bounds
<1>6. ASSUME NEW u \in Uploads, Sending(u) \/ Stall(u) \/ Progress(u) PROVE ListFollows'
  BY <1>0, <1>1, <1>6, SendPutFollows
  DEF Sending, AllSent, Stall, Progress, server, bounds
<1>7. CASE Server
  BY <1>0, <1>7, ServeFollows, ServeCallFollows DEF Server
<1>8. CASE Answers
  BY <1>0, <1>8, UploadListed, UploadNotListed, AnswerFollows DEF Answers
<1>9. CASE Gets
  BY <1>1, <1>3, <1>9 DEF Gets, FeaturesArrive, server, bounds
<1>10. CASE Faults
  BY <1>2, <1>3, <1>10
  DEF Faults, PutBreaks, ConnectionDrops, CallLost, FeaturesFail, PrepareFails
<1>11. CASE Paint \/ UNCHANGED vars
  BY <1>1, <1>11 DEF Paint, vars, server, bounds
<1> QED BY <1>5, <1>6, <1>7, <1>8, <1>9, <1>10, <1>11 DEF Next

-----------------------------------------------------------------------------
(* The second theorem *)

LEMMA FollowInit ==
  ASSUME Init
  PROVE  FollowInv
<1>1. Asked.step = "asked" /\ Asked.rows = <<>> /\ DOMAIN <<>> = {}
  BY DEF Asked
<1>2. ASSUME NEW l \in Ids PROVE Follows(l)
  <2>1. PutsOf(l) = {} /\ CallsOf(l) = {}
    BY <1>1 DEF Init, PutsOf, CallsOf
  <2>2. l \in Uploads => Unseen(l) /\ Agrees(cache, l)
    BY <1>1, ImportedAssumption DEF Init, Unseen, Agrees, Listed
  <2>3. ~Current(l) /\ (Trusted(l) => l \in Uploads)
    BY <1>1 DEF Init, Current, Trusted
  <2> QED BY <2>1, <2>2, <2>3
      DEF Follows, PutFollows, CallFollows, FreshFollows, Fresh, View
<1> QED BY <1>1, <1>2
    DEF Init, FollowInv, CallsAfterList, UndoesCancelled, SentOnce, ListFollows

LEMMA FollowIsEnough ==
  ASSUME ListTyped, FollowInv
  PROVE  ListAndMapFollow
<1>1. SettledListIsStored
  <2> SUFFICES ASSUME Undisturbed, NEW l \in Ids \ (Cancelled \cup astray)
               PROVE  Agrees(cache, l)
    BY DEF SettledListIsStored, Agrees, Listed
  <2>1. Settling /\ loaded /\ DOMAIN puts = {} /\ calls = {}
    BY DEF Undisturbed, Quiet, Settling
  <2>2. PutsOf(l) = {} /\ CallsOf(l) = {} /\ Follows(l) /\ Trusted(l)
    BY <2>1 DEF PutsOf, CallsOf, FollowInv, ListFollows, Trusted
  <2> QED BY <2>2 DEF Follows, View, Changed, Arriving
<1>2. DeletedIsOffMap
  <2> SUFFICES ASSUME Undisturbed, Painted, NEW l \in drawn, l \notin Cancelled,
                      l \notin astray
               PROVE  l \in DOMAIN table
    BY DEF DeletedIsOffMap
  <2>1. l \in Listed /\ l \in Ids
    BY DEF Painted, StillWanted, Arrived, ListTyped, Over, Listed
  <2> QED BY <1>1, <2>1 DEF SettledListIsStored
<1> QED BY <1>1, <1>2 DEF ListAndMapFollow

(* For any number of uploads, names, files and edits: once nothing is under  *)
(* way and if no request has failed, My Layers shows exactly what is stored  *)
(* and nothing that was deleted is on the map, although the list is patched  *)
(* by every answer and may be fetched again at any time, uploads that were   *)
(* cancelled apart and the layers a late list or a late answer was too old   *)
(* for (useImportedLayers.ts, writeCache).                                   *)
THEOREM FollowTheorem == Spec => []ListAndMapFollow
<1> DEFINE Inv == ImportInv /\ FollowInv
<1>1. Init => Inv
  BY InitHolds, FollowInit
<1>2. Inv /\ [Next]_vars => Inv'
  <2> SUFFICES ASSUME Inv, [Next]_vars PROVE Inv'
    OBVIOUS
  <2>1. ImportInv'
    BY RequestsStep, ListStep, MapStep DEF ImportInv, RequestsHold
  <2>2. Steady
    BY DEF Steady, ImportInv
  <2>3. CallsAfterList' /\ UndoesCancelled' /\ SentOnce'
    BY <2>2, CallsComeLater, UndoStep, SentOnceStep DEF Steady, FollowInv
  <2>4. ListFollows'
    BY <2>2, FollowsHolds
  <2> QED BY <2>1, <2>3, <2>4 DEF FollowInv
<1>3. Inv => ListAndMapFollow
  BY FollowIsEnough DEF ImportInv
<1> QED BY <1>1, <1>2, <1>3, PTL DEF Spec

=============================================================================

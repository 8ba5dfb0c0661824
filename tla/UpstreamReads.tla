---------------------------- MODULE UpstreamReads ----------------------------
(***************************************************************************)
(* What the request threads of one API process share when they read from   *)
(* EPIC.Track and from the BC Geographic Warehouse: the cache, the lock of *)
(* the project list's refresh, the service account's token, and the locks  *)
(* of searches in flight.                                                  *)
(*                                                                         *)
(* A project list is the version of Track's data it was read from; of the  *)
(* other answers only that there is one.  A search is any read behind      *)
(* _single_flight, for one key.                                            *)
(***************************************************************************)
EXTENDS Naturals, FiniteSets

CONSTANTS
  Threads, NoThread,
  Tokens, NoToken,     \* names of tokens, given again once nobody has them
  Locks, NoLock,       \* and of the locks of IN_FLIGHT
  Mixes,               \* the sets of reads a behaviour may be asked for
  MaxVersions,         \* bounds: Track's data changes; a call fails, or Track
  MaxFailures            \* refuses the tokens it has issued

ASSUME UpstreamAssumption ==
  /\ IsFiniteSet(Threads) /\ NoThread \notin Threads
  /\ NoToken \notin Tokens /\ NoLock \notin Locks
  /\ \A m \in Mixes : m \subseteq {"projects", "works", "options", "search"}
  /\ MaxVersions \in Nat \ {0} /\ MaxFailures \in Nat

VARIABLES
  cache, token,        \* what cache.get finds; 0 and NoToken are a miss
  refresh,             \* who holds REFRESH_LOCK
  flight, held,        \* the key's lock in IN_FLIGHT, and the locks held
  pc, read, call,      \* by thread: its step, what was asked of it, and what
  tries, part,         \* it is reading; attempts at this call, calls done
  bearer, got, lock,   \* its token, its answer (0 is a 503), its lock
  world, revoked,      \* Track's version, and the tokens it refuses
  failures,
  newest, since,       \* history: the latest answer given, and by thread what
  dropped,             \* that was when it was asked; tokens dropped as refused
  mix

shared == <<cache, token, refresh, flight, held>>
threads == <<pc, read, call, tries, part, bearer, got, lock>>
upstream == <<world, revoked, failures>>
readsVars == <<shared, threads, upstream, newest, since, dropped, mix>>

-----------------------------------------------------------------------------
Answers == {"projects", "works", "options", "search"}
Copies == {"last projects", "last options"}      \* cached with no expiry
Lasting == {"projects", "options"}               \* the reads that have one

LastGood(c) == IF c = "projects" THEN "last projects" ELSE "last options"

ExpiringAll == Answers \cup Copies    \* a mutant: the copies expire too
Expiring == Answers

Refreshing == {"recheck", "token", "login", "stow", "send", "save", "keep"}
Flying == {"retake", "search", "save", "release"}
Steps == Refreshing \cup Flying
  \cup {"idle", "answered", "wait", "pick", "queue", "last", "pop", "join"}

ReadsInit ==
  /\ cache = [e \in Answers \cup Copies |-> 0] /\ token = NoToken
  /\ refresh = NoThread /\ flight = NoLock /\ held = {}
  /\ pc = [t \in Threads |-> "idle"]
  /\ read = [t \in Threads |-> "search"] /\ call = read
  /\ tries = [t \in Threads |-> 0] /\ part = tries /\ got = tries /\ since = tries
  /\ bearer = [t \in Threads |-> NoToken]
  /\ lock = [t \in Threads |-> NoLock]
  /\ world = 1 /\ revoked = {} /\ failures = 0
  /\ newest = [r \in Lasting |-> 0] /\ dropped = {}
  /\ mix \in Mixes

-----------------------------------------------------------------------------
(* A request, and what ends it *)

At(t, step) == pc[t] = step
Goto(t, step) == pc' = [pc EXCEPT ![t] = step]

Latest(r) == IF r \in Lasting THEN newest[r] ELSE 0

(* The reader t was asked for has v, or nothing: then the answer is a 503. *)
Reading(t, r, c, v) ==
  LET picks == r = "works" /\ c = "projects" /\ v # 0
  IN /\ Goto(t, IF picks THEN "pick" ELSE "answered")
     /\ got' = [got EXCEPT ![t] = IF picks THEN 0 ELSE v]
     /\ newest' = IF r \in Lasting /\ v > Latest(r)
                  THEN [newest EXCEPT ![r] = v] ELSE newest
     /\ tries' = [tries EXCEPT ![t] = 0] /\ part' = [part EXCEPT ![t] = 0]
     /\ bearer' = [bearer EXCEPT ![t] = NoToken]
     /\ lock' = [lock EXCEPT ![t] = NoLock]

Deliver(t, v) == Reading(t, read[t], call[t], v) /\ UNCHANGED <<read, call>>

(* cache.get, and where a miss leads *)
Look(t, r, c) ==
  /\ call' = [call EXCEPT ![t] = c]
  /\ IF cache[c] # 0 THEN Reading(t, r, c, cache[c])
     ELSE /\ Goto(t, CASE c = "projects" -> "wait"
                       [] c = "search" -> "join"
                       [] OTHER -> "token")
          /\ got' = [got EXCEPT ![t] = 0]
          /\ UNCHANGED <<newest, tries, part, bearer, lock>>

Ask(t, r) ==
  /\ At(t, "idle")
  /\ read' = [read EXCEPT ![t] = r]
  /\ since' = [since EXCEPT ![t] = Latest(r)]
  /\ Look(t, r, IF r = "works" THEN "projects" ELSE r)
  /\ UNCHANGED <<shared, upstream, dropped>>

(* The works of a project on the list; of another, 404 *)
Pick(t) ==
  /\ At(t, "pick") /\ UNCHANGED read
  /\ \/ Look(t, "works", "works")
     \/ Reading(t, "works", "works", 1) /\ UNCHANGED call
  /\ UNCHANGED <<shared, upstream, since, dropped>>

(* The response is written, and the thread is free. *)
Reply(t) ==
  /\ At(t, "answered") /\ Goto(t, "idle")
  /\ got' = [got EXCEPT ![t] = 0] /\ since' = [since EXCEPT ![t] = 0]
  /\ read' = [read EXCEPT ![t] = "search"] /\ call' = [call EXCEPT ![t] = "search"]
  /\ UNCHANGED <<shared, tries, part, bearer, lock, upstream, newest, dropped>>

(* Only the list's reader holds REFRESH_LOCK, until it returns. *)
Returned(t) == refresh' = IF refresh = t THEN NoThread ELSE refresh

-----------------------------------------------------------------------------
(* The refresh of the project list *)

Acquire(t) ==
  /\ At(t, "wait") /\ refresh = NoThread
  /\ refresh' = t /\ Goto(t, "recheck")
  /\ UNCHANGED <<cache, token, flight, held, read, call, tries, part, bearer, got, lock,
                 upstream, newest, since, dropped>>

AskAnyway(t) ==                        \* a mutant: the wait's outcome is ignored
  /\ At(t, "wait") /\ refresh # NoThread /\ Goto(t, "recheck")
  /\ UNCHANGED <<shared, read, call, tries, part, bearer, got, lock,
                 upstream, newest, since, dropped>>

(* 60 s without the lock *)
StopWaiting(t) ==
  /\ At(t, "wait") /\ refresh # NoThread
  /\ Deliver(t, cache["last projects"])
  /\ UNCHANGED <<shared, upstream, since, dropped>>

Recheck(t) ==
  /\ At(t, "recheck")
  /\ IF cache["projects"] # 0 THEN Deliver(t, cache["projects"]) /\ Returned(t)
     ELSE /\ Goto(t, "token")
          /\ UNCHANGED <<refresh, read, call, got, newest, tries, part, bearer, lock>>
  /\ UNCHANGED <<cache, token, flight, held, upstream, since, dropped>>

-----------------------------------------------------------------------------
(* A call to Track, with the service account's token *)

(* ServiceUnavailableError: the last good copy, where there may be one *)
Fails(t) ==
  Deliver(t, IF call[t] \in Lasting THEN cache[LastGood(call[t])] ELSE 0)

RaisesHolding(t) == Fails(t) /\ UNCHANGED refresh   \* a mutant: no finally
Raises(t) == Fails(t) /\ Returned(t)

InUse == {token} \cup {bearer[t] : t \in Threads}

TakeToken(t) ==
  /\ At(t, "token")
  /\ Goto(t, IF token = NoToken THEN "login" ELSE "send")
  /\ bearer' = [bearer EXCEPT ![t] = token]
  /\ UNCHANGED <<shared, read, call, tries, part, got, lock,
                 upstream, newest, since, dropped>>

Login(t) ==
  LET new == CHOOSE n \in Tokens \ InUse : TRUE
  IN /\ At(t, "login") /\ Tokens \ InUse # {}
     /\ Goto(t, "stow") /\ bearer' = [bearer EXCEPT ![t] = new]
     /\ revoked' = revoked \ {new} /\ dropped' = dropped \ {new}
  /\ UNCHANGED <<shared, read, call, tries, part, got, lock,
                 world, failures, newest, since>>

Stow(t) ==
  /\ At(t, "stow")
  /\ token' = bearer[t] /\ Goto(t, "send")
  /\ UNCHANGED <<cache, refresh, flight, held, read, call, tries, part, bearer, got, lock,
                 upstream, newest, since, dropped>>

(* The filters' tables are two calls. *)
Another(t) == call[t] = "options" /\ part[t] = 0

Received(t) ==
  /\ At(t, "send") /\ bearer[t] \notin revoked
  /\ Goto(t, IF Another(t) THEN "token" ELSE "save")
  /\ part' = [part EXCEPT ![t] = IF Another(t) THEN 1 ELSE 0]
  /\ got' = [got EXCEPT ![t] = IF call[t] = "projects" THEN world ELSE 1]
  /\ tries' = [tries EXCEPT ![t] = 0] /\ bearer' = [bearer EXCEPT ![t] = NoToken]
  /\ UNCHANGED <<shared, read, call, lock, upstream, newest, since, dropped>>

(* A 401: what is cached goes, and there is one more try.  A name nobody   *)
(* has any more is free for another token.                                 *)
Refusing(t, left) ==
  LET lost == {bearer[t]} \ ({left} \cup {bearer[u] : u \in Threads \ {t}})
  IN /\ At(t, "send") /\ bearer[t] \in revoked
     /\ token' = left
     /\ dropped' = (dropped \cup {bearer[t]}) \ lost /\ revoked' = revoked \ lost
     /\ IF tries[t] = 0
        THEN /\ Goto(t, "token") /\ tries' = [tries EXCEPT ![t] = 1]
             /\ bearer' = [bearer EXCEPT ![t] = NoToken]
             /\ UNCHANGED <<refresh, read, call, part, got, lock, newest>>
        ELSE Raises(t)
     /\ UNCHANGED <<cache, flight, held, world, failures, since>>

KeepToken(t) == Refusing(t, token)      \* a mutant: the refused token stays
Refused(t) == Refusing(t, NoToken)

(* No answer, or none that can be read, of Keycloak or of Track *)
CallFails(t) ==
  /\ pc[t] \in {"login", "send"} /\ failures < MaxFailures
  /\ failures' = failures + 1 /\ Raises(t)
  /\ UNCHANGED <<cache, token, flight, held, world, revoked, since, dropped>>

Save(t) ==
  /\ At(t, "save")
  /\ cache' = [cache EXCEPT ![call[t]] = got[t]]
  /\ IF call[t] = "works" THEN Deliver(t, got[t])
     ELSE /\ Goto(t, IF call[t] = "search" THEN "release" ELSE "keep")
          /\ UNCHANGED <<read, call, got, newest, tries, part, bearer, lock>>
  /\ UNCHANGED <<token, refresh, flight, held, upstream, since, dropped>>

Keep(t) ==
  /\ At(t, "keep")
  /\ cache' = [cache EXCEPT ![LastGood(call[t])] = got[t]]
  /\ Deliver(t, got[t]) /\ Returned(t)
  /\ UNCHANGED <<token, flight, held, upstream, since, dropped>>

-----------------------------------------------------------------------------
(* A search of the warehouse, in single flight *)

Join(t) ==
  LET free == Locks \ ({lock[u] : u \in Threads} \cup held)
      mine == IF flight # NoLock THEN flight ELSE CHOOSE l \in free : TRUE
  IN /\ At(t, "join") /\ (flight # NoLock \/ free # {})
     /\ flight' = mine /\ lock' = [lock EXCEPT ![t] = mine]
     /\ Goto(t, "queue")
  /\ UNCHANGED <<cache, token, refresh, held, read, call, tries, part, bearer, got,
                 upstream, newest, since, dropped>>

Take(t) ==
  /\ At(t, "queue") /\ lock[t] \notin held
  /\ held' = held \cup {lock[t]} /\ Goto(t, "retake")
  /\ UNCHANGED <<cache, token, refresh, flight, read, call, tries, part, bearer, got, lock,
                 upstream, newest, since, dropped>>

(* 8 s without the lock *)
GiveUp(t) ==
  /\ At(t, "queue") /\ lock[t] \in held
  /\ Goto(t, "last") /\ lock' = [lock EXCEPT ![t] = NoLock]
  /\ UNCHANGED <<shared, read, call, tries, part, bearer, got,
                 upstream, newest, since, dropped>>

(* The answer may have landed meanwhile; else BUSY_MESSAGE. *)
LastLook(t) ==
  /\ At(t, "last") /\ Deliver(t, cache["search"])
  /\ UNCHANGED <<shared, upstream, since, dropped>>

Retake(t) ==
  /\ At(t, "retake")
  /\ Goto(t, IF cache["search"] # 0 THEN "release" ELSE "search")
  /\ got' = [got EXCEPT ![t] = cache["search"]]
  /\ UNCHANGED <<shared, read, call, tries, part, bearer, lock,
                 upstream, newest, since, dropped>>

Found(t) ==
  /\ At(t, "search") /\ Goto(t, "save") /\ got' = [got EXCEPT ![t] = 1]
  /\ UNCHANGED <<shared, read, call, tries, part, bearer, lock,
                 upstream, newest, since, dropped>>

SearchFails(t) ==
  /\ At(t, "search") /\ failures < MaxFailures
  /\ failures' = failures + 1 /\ Goto(t, "release")
  /\ UNCHANGED <<shared, read, call, tries, part, bearer, got, lock,
                 world, revoked, newest, since, dropped>>

Release(t) ==
  /\ At(t, "release")
  /\ held' = held \ {lock[t]} /\ Goto(t, "pop")
  /\ UNCHANGED <<cache, token, refresh, flight, read, call, tries, part, bearer, got, lock,
                 upstream, newest, since, dropped>>

(* Whosever lock is there now. *)
Pop(t) ==
  /\ At(t, "pop")
  /\ flight' = NoLock /\ Deliver(t, got[t])
  /\ UNCHANGED <<cache, token, refresh, held, upstream, since, dropped>>

-----------------------------------------------------------------------------
(* What time and Track do *)

Resting == {"idle", "answered", "pick"}

(* An entry that a request under way has missed is younger than that       *)
(* request, and the shortest life, five minutes, is longer than any.       *)
Expire(e) ==
  /\ cache[e] # 0
  /\ \A t \in Threads : call[t] = e => pc[t] \in Resting
  /\ cache' = [cache EXCEPT ![e] = 0]
  /\ UNCHANGED <<token, refresh, flight, held, threads, upstream, newest, since, dropped>>

ExpireToken ==
  /\ token # NoToken /\ token' = NoToken
  /\ UNCHANGED <<cache, refresh, flight, held, threads, upstream, newest, since, dropped>>

Publish ==
  /\ world < MaxVersions /\ world' = world + 1
  /\ UNCHANGED <<shared, threads, revoked, failures, newest, since, dropped>>

(* Track refuses every token there is. *)
Revoke ==
  /\ failures < MaxFailures /\ failures' = failures + 1
  /\ revoked' = InUse \ {NoToken}
  /\ UNCHANGED <<shared, threads, world, newest, since, dropped>>

-----------------------------------------------------------------------------
Advance(t) ==
  \/ Pick(t)
  \/ Acquire(t) \/ StopWaiting(t) \/ Recheck(t)
  \/ TakeToken(t) \/ Login(t) \/ Stow(t) \/ Received(t) \/ Refused(t)
  \/ CallFails(t) \/ Save(t) \/ Keep(t)
  \/ Join(t) \/ Take(t) \/ GiveUp(t) \/ LastLook(t) \/ Retake(t)
  \/ Found(t) \/ SearchFails(t) \/ Release(t) \/ Pop(t) \/ Reply(t)

ReadsNext ==
  /\ \/ \E t \in Threads : Advance(t) \/ \E r \in mix : Ask(t, r)
     \/ \E e \in Expiring : Expire(e)
     \/ ExpireToken \/ Publish \/ Revoke
  /\ UNCHANGED mix

ReadsSpec == ReadsInit /\ [][ReadsNext]_readsVars

(* A thread runs on: its waits and its calls are bounded by time-outs.     *)
(* The cached list expires.  Nobody has to ask for anything.               *)
ReadsFairSpec ==
  /\ ReadsSpec
  /\ \A t \in Threads : WF_readsVars(Advance(t) /\ UNCHANGED mix)
  /\ WF_readsVars(Expire("projects") /\ UNCHANGED mix)

-----------------------------------------------------------------------------
ReadsTypeOK ==
  /\ cache \in [Answers \cup Copies -> 0..MaxVersions]
  /\ token \in Tokens \cup {NoToken} /\ refresh \in Threads \cup {NoThread}
  /\ flight \in Locks \cup {NoLock} /\ held \subseteq Locks
  /\ pc \in [Threads -> Steps]
  /\ read \in [Threads -> Answers] /\ call \in [Threads -> Answers]
  /\ tries \in [Threads -> 0..1] /\ part \in [Threads -> 0..1]
  /\ bearer \in [Threads -> Tokens \cup {NoToken}]
  /\ got \in [Threads -> 0..MaxVersions] /\ lock \in [Threads -> Locks \cup {NoLock}]
  /\ \A t \in Threads : pc[t] = "queue" => lock[t] # NoLock
  /\ world \in 1..MaxVersions /\ revoked \subseteq Tokens
  /\ failures \in 0..MaxFailures
  /\ newest \in [Lasting -> 0..MaxVersions] /\ since \in [Threads -> 0..MaxVersions]
  /\ dropped \subseteq Tokens /\ mix \in Mixes

InRefresh(t) == call[t] = "projects" /\ pc[t] \in Refreshing
Searching == {t \in Threads : pc[t] = "search"}

OneRefresh == \A t, u \in Threads : InRefresh(t) /\ InRefresh(u) => t = u
SearchesShare == Cardinality(Searching) <= 1 + failures
LocksComeBack ==
  (\A t \in Threads : pc[t] \in Resting) =>
    refresh = NoThread /\ flight = NoLock /\ held = {}

(* However many threads ask at once and give up waiting, one of them at a  *)
(* time refreshes the project list, a key is searched by one, and by one   *)
(* more for every failure, after which IN_FLIGHT forgets a lock others     *)
(* still wait for; and where nobody is at work no lock is left behind.     *)
NoStampede == ReadsTypeOK /\ OneRefresh /\ SearchesShare /\ LocksComeBack

(* Nobody is answered with less than was answered before he asked: once a  *)
(* list, or the filters' tables, have been given, no outage makes a        *)
(* request fail, and no list is older than one given before, whether it    *)
(* comes from the cache, the refresh waited for or the last good copy.     *)
(* So long as the cache holds fewer than CACHE_ENTRY_LIMIT entries: past   *)
(* that it evicts, the last good copies too (constant.py).                 *)
AnswersHold ==
  \A t \in Threads :
    pc[t] = "answered" /\ read[t] \in Lasting => got[t] >= since[t]

(* A token that a call was refused with and dropped is not cached again,   *)
(* however late the threads that had it, or were fetching theirs, go on.   *)
DroppedTokenIsGone == token \notin dropped

EveryoneIsAnswered == \A t \in Threads : pc[t] # "idle" ~> pc[t] = "idle"

ListAnswered(t) == pc[t] # "answered" /\ pc'[t] = "answered" /\ read'[t] = "projects"
ListCatchesUp == <>[][\A t \in Threads : ListAnswered(t) => got'[t] = world]_readsVars

(* Every request is answered, and once Track has stopped changing and      *)
(* failing, so is every request for the list with the one it has: no lock  *)
(* or copy left over from a failure keeps an old one in its place.         *)
ReadsComeToRest == EveryoneIsAnswered /\ ListCatchesUp

=============================================================================

-------------------------- MODULE SessionMemberCache --------------------------
(***************************************************************************)
(* Who receives a message: the member list of one chat session, read by    *)
(* Transmite through SessionMemberCache (local map L1, Redis L2, MySQL     *)
(* L3), while the Friend service removes members and deletes the Redis     *)
(* key.                                                                    *)
(*                                                                         *)
(* A worker is one GetTransmitTarget handler; brpc runs several at once in *)
(* a process, and L1 has no lock.  Time passes in seconds: every entry     *)
(* holds what is left of its life, so that time itself is unbounded.       *)
(***************************************************************************)
EXTENDS Naturals, FiniteSets

CONSTANTS
  User,       \* the members the session starts with
  Worker,     \* threads that serve calls of SessionMemberCache::get
  Proc,       \* Transmite processes, each with its own L1 and shard locks
  Placement,  \* the ways in which the threads may be spread over the processes
  TTL_BASE,   \* life of a list in Redis: 5 s in the code,
  TTL_JITTER, \* plus 0 .. TTL_JITTER: 2 s in the code
  TTL_EMPTY,  \* life of an empty list in Redis: 2 s in the code
  L1_TTL,     \* life of an entry of L1: 2 s in the code
  MaxLag      \* bound: seconds between reading a list and having it stored

ASSUME CacheConstants ==
  /\ {TTL_BASE, TTL_JITTER, TTL_EMPTY, L1_TTL, MaxLag} \subseteq Nat
  /\ Placement \subseteq [Worker -> Proc]

VARIABLES
  db,       \* members in the MySQL table chat_session_member
  l2,       \* session_members:<id> in Redis
  l1,       \* l1[p]: the entry of _local in process p
  lock,     \* lock[p]: the holder of the shard's mutex in p, or Free
  proc,     \* proc[w]: the process w is a thread of
  pc,       \* pc[w]: where w is in get()
  value,    \* value[w]: the list w has read
  lag,      \* lag[w]: how long w has held a list that is not stored yet
  friend,   \* the member whose Redis DEL RemoveChatSessionMember still owes
  gone,     \* history: gone[u], seconds since u left db (capped)
  failed    \* history: seconds since a query for members failed (capped)

cacheVars == <<db, l2, l1, lock, proc, pc, value, lag, friend, gone, failed>>
history == <<gone, failed>>

Free == "free"
None == "none"
Miss == [missing |-> TRUE]

TTL_MAX == TTL_BASE + TTL_JITTER
\* The longest a list may be served after it was read from MySQL: stored late in
\* Redis, read there in its last second, stored late in L1, read there at last.
StaleBound == MaxLag + TTL_MAX + MaxLag + L1_TTL
EmptyBound == MaxLag + TTL_EMPTY + MaxLag + L1_TTL
\* The histories count until they are past these bounds.
UpTo(bound, n) == IF n > bound THEN n ELSE n + 1

List == SUBSET User
Entry(life) == {Miss} \cup [ttl : 0 .. life, list : List]
Steps == {"idle", "find", "redis", "wait", "recheck", "load", "setL2", "store", "done"}

CacheTypeOK ==
  /\ db \in List
  /\ l2 \in Entry(IF TTL_MAX > TTL_EMPTY THEN TTL_MAX ELSE TTL_EMPTY)
  /\ l1 \in [Proc -> Entry(L1_TTL)]
  /\ lock \in [Proc -> {Free} \cup Worker]
  /\ proc \in Placement
  /\ pc \in [Worker -> Steps]
  /\ value \in [Worker -> List]
  /\ lag \in [Worker -> 0 .. MaxLag]
  /\ friend \in {None} \cup User
  /\ gone \in [User -> 0 .. StaleBound + 1]
  /\ failed \in 0 .. EmptyBound + 1

CacheInit ==
  /\ db = User
  /\ l2 = Miss
  /\ l1 = [p \in Proc |-> Miss]
  /\ lock = [p \in Proc |-> Free]
  /\ proc \in Placement
  /\ pc = [w \in Worker |-> "idle"]
  /\ value = [w \in Worker |-> {}]
  /\ lag = [w \in Worker |-> 0]
  /\ friend = None
  /\ gone = [u \in User |-> 0]
  /\ failed = EmptyBound + 1

Goto(w, step) == pc' = [pc EXCEPT ![w] = step]
Read(w, list) == value' = [value EXCEPT ![w] = list]
Hit(e) == e # Miss
\* w leaves get(): the lock_guard of the miss path releases the shard's mutex.
Unlock(w) ==
  lock' = [lock EXCEPT ![proc[w]] = IF @ = w THEN Free ELSE @]

-------------------------------------------------------------------------------
(* Mutants of the definitions below                                          *)

\* A hit in L1 renews its life ("since" is updated on every access).
FindRenews(w) ==
  /\ pc[w] = "find"
  /\ LET e == l1[proc[w]] IN
       IF Hit(e)
       THEN /\ Read(w, e.list)
            /\ l1' = [l1 EXCEPT ![proc[w]].ttl = L1_TTL]
            /\ Goto(w, "done")
       ELSE /\ Goto(w, "redis")
            /\ UNCHANGED <<value, l1>>
  /\ UNCHANGED <<db, l2, lock, proc, lag, friend, history>>

\* An empty list lives as long as any other.
SetL2EmptyLong(w) ==
  /\ pc[w] = "setL2"
  /\ \E ttl \in TTL_BASE .. TTL_MAX : l2' = [ttl |-> ttl, list |-> value[w]]
  /\ Goto(w, "store")
  /\ lag' = [lag EXCEPT ![w] = 0]
  /\ UNCHANGED <<db, l1, lock, proc, value, friend, history>>

\* The miss path returns early without leaving the locked scope.
StoreKeepsLock(w) ==
  /\ pc[w] = "store"
  /\ l1' = [l1 EXCEPT ![proc[w]] = [ttl |-> L1_TTL, list |-> value[w]]]
  /\ lag' = [lag EXCEPT ![w] = 0]
  /\ Goto(w, "done")
  /\ UNCHANGED <<db, l2, lock, proc, value, friend, history>>

-------------------------------------------------------------------------------
(* SessionMemberCache::get                                                   *)

\* Any thread may be asked: the gateways take the processes in turn.
Call(w) ==
  /\ pc[w] = "idle"
  /\ Goto(w, "find")
  /\ UNCHANGED <<db, l2, l1, lock, proc, value, lag, friend, history>>

\* _local.find; an expired entry is erased on the way.
Find(w) ==
  /\ pc[w] = "find"
  /\ LET e == l1[proc[w]] IN
       IF Hit(e)
       THEN Read(w, e.list) /\ Goto(w, "done")
       ELSE UNCHANGED value /\ Goto(w, "redis")
  /\ UNCHANGED <<db, l2, l1, lock, proc, lag, friend, history>>

\* The first look in Redis, and the second one under the shard's mutex.
Redis(w, from, otherwise) ==
  /\ pc[w] = from
  /\ IF Hit(l2)
     THEN Read(w, l2.list) /\ Goto(w, "store")
     ELSE UNCHANGED value /\ Goto(w, otherwise)
  /\ UNCHANGED <<db, l2, l1, lock, proc, lag, friend, history>>

FirstLook(w) == Redis(w, "redis", "wait")
SecondLook(w) == Redis(w, "recheck", "load")

Wait(w) ==
  /\ pc[w] = "wait"
  /\ lock[proc[w]] = Free
  /\ lock' = [lock EXCEPT ![proc[w]] = w]
  /\ Goto(w, "recheck")
  /\ UNCHANGED <<db, l2, l1, proc, value, lag, friend, history>>

\* _db_loader; ChatSessionMemberTable::members answers a failed query with the members
\* it has got so far: with none, which looks like a session without members, or with
\* some of them when the query fails while its result is read.
Load(w) ==
  /\ pc[w] = "load"
  /\ \/ Read(w, db) /\ UNCHANGED failed
     \/ \E list \in SUBSET db : list # db /\ Read(w, list) /\ failed' = 0
  /\ Goto(w, "setL2")
  /\ UNCHANGED <<db, l2, l1, lock, proc, lag, friend, gone>>

SetL2(w) ==
  /\ pc[w] = "setL2"
  /\ \E ttl \in IF value[w] = {} THEN {TTL_EMPTY} ELSE TTL_BASE .. TTL_MAX :
       l2' = [ttl |-> ttl, list |-> value[w]]
  /\ Goto(w, "store")
  /\ lag' = [lag EXCEPT ![w] = 0]
  /\ UNCHANGED <<db, l1, lock, proc, value, friend, history>>

\* _local_set, and the end of the call.
Store(w) ==
  /\ pc[w] = "store"
  /\ l1' = [l1 EXCEPT ![proc[w]] = [ttl |-> L1_TTL, list |-> value[w]]]
  /\ lag' = [lag EXCEPT ![w] = 0]
  /\ Unlock(w)
  /\ Goto(w, "done")
  /\ UNCHANGED <<db, l2, proc, value, friend, history>>

\* The handler answers with value[w] as the target list.
Reply(w) ==
  /\ pc[w] = "done"
  /\ Goto(w, "idle")
  /\ Read(w, {})
  /\ UNCHANGED <<db, l2, l1, lock, proc, lag, friend, history>>

Get(w) ==
  \/ Find(w) \/ FirstLook(w) \/ Wait(w) \/ SecondLook(w)
  \/ Load(w) \/ SetL2(w) \/ Store(w) \/ Reply(w)

-------------------------------------------------------------------------------
(* _local is an unordered_map without a lock.  Two workers of a process that *)
(* are in it at once, one of them writing (find erases an entry that has     *)
(* expired), race: either the steps above take effect one after the other,   *)
(* or the process dies and starts again.  It also dies when a Redis call     *)
(* throws, which nothing catches.                                            *)

InLocal(w) == pc[w] \in {"find", "store"}
Writes(w) == pc[w] = "store" \/ (pc[w] = "find" /\ ~Hit(l1[proc[w]]))
Racing(w, v) == w # v /\ proc[w] = proc[v] /\ InLocal(v) /\ Writes(w)
InRedis(w) == pc[w] \in {"redis", "recheck", "setL2"}

Die(p) ==
  /\ \E w \in Worker : proc[w] = p /\ (InRedis(w) \/ \E v \in Worker : Racing(w, v))
  /\ l1' = [l1 EXCEPT ![p] = Miss]
  /\ lock' = [lock EXCEPT ![p] = Free]
  /\ pc' = [w \in Worker |-> IF proc[w] = p THEN "idle" ELSE pc[w]]
  /\ value' = [w \in Worker |-> IF proc[w] = p THEN {} ELSE value[w]]
  /\ lag' = [w \in Worker |-> IF proc[w] = p THEN 0 ELSE lag[w]]
  /\ UNCHANGED <<db, l2, proc, friend, history>>

-------------------------------------------------------------------------------
(* The Friend service                                                        *)

\* RemoveChatSessionMember: the transaction that removes u commits ...
Remove(u) ==
  /\ friend = None
  /\ u \in db
  /\ db' = db \ {u}
  /\ friend' = u
  /\ gone' = [gone EXCEPT ![u] = 0]
  /\ UNCHANGED <<l2, l1, lock, proc, pc, value, lag, failed>>

\* ... and the key is deleted, so that readers load the list again;
Delete ==
  /\ friend # None
  /\ l2' = Miss
  /\ friend' = None
  /\ UNCHANGED <<db, l1, lock, proc, pc, value, lag, gone, failed>>

\* unless the service dies in between, or Redis does not answer.
SkipDelete ==
  /\ friend # None
  /\ friend' = None
  /\ UNCHANGED <<db, l2, l1, lock, proc, pc, value, lag, history>>

\* FriendRemove dissolves a session and leaves the key alone.
Dissolve ==
  /\ friend = None
  /\ db # {}
  /\ gone' = [u \in User |-> IF u \in db THEN 0 ELSE gone[u]]
  /\ db' = {}
  /\ UNCHANGED <<l2, l1, lock, proc, pc, value, lag, friend, failed>>

-------------------------------------------------------------------------------
(* One second passes.  A worker stores a list it has read within MaxLag, and *)
(* an entry that has lived its time may be found a last time or not.         *)

Holding(w) == pc[w] \in {"setL2", "store"}
Older(e) ==
  IF e = Miss \/ e.ttl = 0 THEN {Miss}
  ELSE {[e EXCEPT !.ttl = @ - 1]} \cup {x \in {Miss} : e.ttl = 1}

OneSecond ==
  /\ \A w \in Worker : pc[w] # "done" /\ (Holding(w) => lag[w] < MaxLag)
  /\ l2' \in Older(l2)
  /\ l1' \in {f \in [Proc -> Entry(L1_TTL)] : \A p \in Proc : f[p] \in Older(l1[p])}
  /\ lag' = [w \in Worker |-> IF Holding(w) THEN lag[w] + 1 ELSE lag[w]]
  /\ gone' = [u \in User |-> IF u \in db THEN 0 ELSE UpTo(StaleBound, gone[u])]
  /\ failed' = IF db = {} THEN EmptyBound + 1 ELSE UpTo(EmptyBound, failed)
  /\ UNCHANGED <<db, lock, proc, pc, value, friend>>

CacheNext ==
  \/ \E w \in Worker : Call(w) \/ Get(w)
  \/ \E p \in Proc : Die(p)
  \/ \E u \in User : Remove(u)
  \/ Delete \/ SkipDelete \/ Dissolve
  \/ OneSecond

\* A handler that has started runs on; a mutex that is free often enough is
\* handed over.  Nothing else is owed.
CacheFairness == \A w \in Worker : WF_cacheVars(Get(w)) /\ SF_cacheVars(Wait(w))

CacheSpec == CacheInit /\ [][CacheNext]_cacheVars /\ CacheFairness

-------------------------------------------------------------------------------
(* Properties                                                                *)

Answered(w, u) == pc[w] = "done" /\ u \in value[w] /\ u \notin db

\* Somebody removed from a chat stops receiving its messages: no later than
\* StaleBound after the removal, whether the DEL is done, late or lost, and
\* whatever reads and stores it races with.
RemovedStopsReceiving ==
  \A w \in Worker, u \in User : Answered(w, u) => gone[u] <= StaleBound

\* A failed member query silences the session (nobody is pushed the message) for
\* a short time only.
SilentOnlyBriefly ==
  \A w \in Worker : pc[w] = "done" /\ value[w] = {} /\ db # {} => failed <= EmptyBound

\* Every call of get() answers, or its process dies: nobody waits on a mutex
\* that is never released.
GetAnswers == \A w \in Worker : (pc[w] = "find") ~> (pc[w] \in {"done", "idle"})
===============================================================================

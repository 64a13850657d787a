----------------------------- MODULE UserInfoCache -----------------------------
(***************************************************************************)
(* What a message says about its sender: Transmite reads the sender's      *)
(* profile through UserInfoCache (local map L1, Redis L2, the User service *)
(* L3) and copies it into the message, while the User service changes it   *)
(* and tells no cache: nothing calls invalidate().  One user.              *)
(*                                                                         *)
(* An entry holds what is left of its life in seconds; every copy carries  *)
(* its age, which the code does not know.                                  *)
(***************************************************************************)
EXTENDS Naturals

CONSTANTS
  Profile,    \* the profiles the user may have
  Worker,     \* threads that serve calls of UserInfoCache::get
  Proc,       \* Transmite processes, each with its own L1 and shard mutexes
  Home,       \* Home[w]: the process w is a thread of
  Free,       \* a mutex nobody holds
  Miss,       \* no entry
  TTL_BASE,   \* life of a profile in Redis: 60 s in the code,
  TTL_JITTER, \* plus 0 .. TTL_JITTER: 10 s in the code
  L1_TTL,     \* life of an entry of L1: 10 s in the code
  MaxLag      \* bound: seconds between reading a copy and having it stored

Copy(oldest) == [profile : Profile, age : 0 .. oldest]
Entry(life, oldest) == {Miss} \cup [ttl : 0 .. life, copy : Copy(oldest)]
TTL_MAX == TTL_BASE + TTL_JITTER
\* The age of a copy when Redis drops it, and when L1 does.
OldestInRedis == MaxLag + TTL_MAX
StaleBound == OldestInRedis + MaxLag + L1_TTL

ASSUME UserInfoConstants ==
  /\ TTL_BASE \in Nat /\ TTL_JITTER \in Nat /\ L1_TTL \in Nat /\ MaxLag \in Nat
  /\ Home \in [Worker -> Proc]
  /\ Free \notin Worker
  /\ Miss \notin [ttl : Nat, copy : [profile : Profile, age : Nat]]
  /\ Miss \notin [profile : Profile, age : Nat]

VARIABLES
  profile,  \* what GetUserInfo would answer: the row in MySQL
  l2,       \* user_info:<id> in Redis
  l1,       \* l1[p]: the entry of _local in process p
  lock,     \* lock[p]: the holder of the shard's mutex in p
  pc,       \* pc[w]: where w is in get()
  held,     \* held[w]: the copy w has read, or Miss
  lag,      \* lag[w]: how long w has held a copy that is not stored yet
  since     \* history: since[n], seconds since the profile was n (capped)

vars == <<profile, l2, l1, lock, pc, held, lag, since>>

Steps == {"idle", "find", "redis", "wait", "recheck", "load", "setL2", "store", "done"}

TypeOK ==
  /\ profile \in Profile
  /\ l2 \in Entry(TTL_MAX, OldestInRedis)
  /\ l1 \in [Proc -> Entry(L1_TTL, StaleBound)]
  /\ lock \in [Proc -> Worker \cup {Free}]
  /\ pc \in [Worker -> Steps]
  /\ held \in [Worker -> Copy(StaleBound) \cup {Miss}]
  /\ lag \in [Worker -> 0 .. MaxLag]
  /\ since \in [Profile -> 0 .. StaleBound + 1]

Init ==
  /\ profile \in Profile
  /\ l2 = Miss
  /\ l1 = [p \in Proc |-> Miss]
  /\ lock = [p \in Proc |-> Free]
  /\ pc = [w \in Worker |-> "idle"]
  /\ held = [w \in Worker |-> Miss]
  /\ lag = [w \in Worker |-> 0]
  /\ since = [n \in Profile |-> IF n = profile THEN 0 ELSE StaleBound + 1]

Goto(w, step) == pc' = [pc EXCEPT ![w] = step]
Take(w, copy) == held' = [held EXCEPT ![w] = copy] /\ lag' = [lag EXCEPT ![w] = 0]
Drop(w) == Take(w, Miss)
Holding(w) == pc[w] \in {"setL2", "store"}
\* w leaves get(), and the lock_guard of the miss path the mutex.
Unlock(w) == lock' = [lock EXCEPT ![Home[w]] = IF @ = w THEN Free ELSE @]

-------------------------------------------------------------------------------
(* Mutants of the definitions below                                          *)

\* L1 keeps its entries for as long as Redis does.
StoreLong(w) ==
  /\ pc[w] = "store"
  /\ l1' = [l1 EXCEPT ![Home[w]] = [ttl |-> TTL_MAX, copy |-> held[w]]]
  /\ lag' = [lag EXCEPT ![w] = 0]
  /\ Goto(w, "done") /\ Unlock(w)
  /\ UNCHANGED <<profile, l2, held, since>>

-------------------------------------------------------------------------------
(* UserInfoCache::get                                                        *)

Call(w) ==
  /\ pc[w] = "idle"
  /\ Goto(w, "find")
  /\ UNCHANGED <<profile, l2, l1, lock, held, lag, since>>

\* _local.find; an expired entry is erased on the way.
Find(w) ==
  /\ pc[w] = "find"
  /\ LET e == l1[Home[w]] IN
       IF e # Miss
       THEN Take(w, e.copy) /\ Goto(w, "done")
       ELSE Goto(w, "redis") /\ UNCHANGED <<held, lag>>
  /\ UNCHANGED <<profile, l2, l1, lock, since>>

\* The first look in Redis, and the second one under the mutex.
Look(w, from, otherwise) ==
  /\ pc[w] = from
  /\ IF l2 # Miss
     THEN Take(w, l2.copy) /\ Goto(w, "store")
     ELSE Goto(w, otherwise) /\ UNCHANGED <<held, lag>>
  /\ UNCHANGED <<profile, l2, l1, lock, since>>

Wait(w) ==
  /\ pc[w] = "wait"
  /\ lock[Home[w]] = Free
  /\ lock' = [lock EXCEPT ![Home[w]] = w]
  /\ Goto(w, "recheck")
  /\ UNCHANGED <<profile, l2, l1, held, lag, since>>

\* _db_loader: GetUserInfo of some instance of the User service.  When there is
\* none, or it fails, get() answers nullopt and no cache remembers the failure.
Load(w) ==
  /\ pc[w] = "load"
  /\ \/ Take(w, [profile |-> profile, age |-> 0]) /\ Goto(w, "setL2") /\ UNCHANGED lock
     \/ Goto(w, "idle") /\ Unlock(w) /\ Drop(w)
  /\ UNCHANGED <<profile, l2, l1, since>>

SetL2(w) ==
  /\ pc[w] = "setL2"
  /\ \E ttl \in TTL_BASE .. TTL_MAX : l2' = [ttl |-> ttl, copy |-> held[w]]
  /\ lag' = [lag EXCEPT ![w] = 0]
  /\ Goto(w, "store")
  /\ UNCHANGED <<profile, l1, lock, held, since>>

\* _local_set, and the end of the call.
Store(w) ==
  /\ pc[w] = "store"
  /\ l1' = [l1 EXCEPT ![Home[w]] = [ttl |-> L1_TTL, copy |-> held[w]]]
  /\ lag' = [lag EXCEPT ![w] = 0]
  /\ Goto(w, "done") /\ Unlock(w)
  /\ UNCHANGED <<profile, l2, held, since>>

\* message.mutable_sender()->CopyFrom(*sender).
Reply(w) ==
  /\ pc[w] = "done"
  /\ Goto(w, "idle") /\ Drop(w)
  /\ UNCHANGED <<profile, l2, l1, lock, since>>

Get(w) ==
  \/ Find(w) \/ Look(w, "redis", "wait") \/ Wait(w) \/ Look(w, "recheck", "load")
  \/ Load(w) \/ SetL2(w) \/ Store(w) \/ Reply(w)

\* The process dies: of two threads that race in _local, which has no lock, or
\* of a Redis call that throws.
Racing(w, v) ==
  /\ w # v /\ Home[w] = Home[v]
  /\ pc[v] \in {"find", "store"}
  /\ pc[w] = "store" \/ (pc[w] = "find" /\ l1[Home[w]] = Miss)

Die(p) ==
  /\ \E w \in Worker : Home[w] = p
       /\ (pc[w] \in {"redis", "recheck", "setL2"} \/ \E v \in Worker : Racing(w, v))
  /\ l1' = [l1 EXCEPT ![p] = Miss]
  /\ lock' = [lock EXCEPT ![p] = Free]
  /\ pc' = [w \in Worker |-> IF Home[w] = p THEN "idle" ELSE pc[w]]
  /\ held' = [w \in Worker |-> IF Home[w] = p THEN Miss ELSE held[w]]
  /\ lag' = [w \in Worker |-> IF Home[w] = p THEN 0 ELSE lag[w]]
  /\ UNCHANGED <<profile, l2, since>>

\* One of the setters of the User service commits.
Change ==
  /\ profile' \in Profile \ {profile}
  /\ since' = [since EXCEPT ![profile'] = 0]
  /\ UNCHANGED <<l2, l1, lock, pc, held, lag>>

-------------------------------------------------------------------------------
(* One second passes.  A copy that was read is stored within MaxLag seconds, *)
(* and an entry that has lived its time may be found a last time or not.     *)

Aged(copy) == [copy EXCEPT !.age = @ + 1]
Older(e, early) ==
  IF e = Miss \/ e.ttl = 0 \/ (early /\ e.ttl = 1) THEN Miss
  ELSE [ttl |-> e.ttl - 1, copy |-> Aged(e.copy)]

Tick ==
  /\ \A w \in Worker : pc[w] # "done" /\ (Holding(w) => lag[w] < MaxLag)
  /\ \E early \in BOOLEAN : l2' = Older(l2, early)
  /\ \E early \in [Proc -> BOOLEAN] : l1' = [p \in Proc |-> Older(l1[p], early[p])]
  /\ held' = [w \in Worker |-> IF Holding(w) THEN Aged(held[w]) ELSE held[w]]
  /\ lag' = [w \in Worker |-> IF Holding(w) THEN lag[w] + 1 ELSE lag[w]]
  /\ since' = [n \in Profile |->
       IF n = profile THEN 0 ELSE IF since[n] > StaleBound THEN since[n] ELSE since[n] + 1]
  /\ UNCHANGED <<profile, lock, pc>>

Next ==
  \/ \E w \in Worker : Call(w) \/ Get(w)
  \/ \E p \in Proc : Die(p)
  \/ Change \/ Tick

Spec == Init /\ [][Next]_vars

-------------------------------------------------------------------------------
(* Properties                                                                *)

\* A message shows its sender as he is, or as he was at most StaleBound seconds
\* ago: however many processes load, store and re-store old copies, a profile
\* that has changed disappears from new messages by then.
ShownIsRecent ==
  \A w \in Worker : pc[w] = "done" => since[held[w].profile] <= StaleBound
===============================================================================

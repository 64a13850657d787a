----------------------------- MODULE ReceiverProofs -----------------------------
(***************************************************************************)
(* What a receiver of a message gets to see, for any numbers of users,     *)
(* gateways, messages, threads, processes, deaths and lost connections.    *)
(*                                                                         *)
(* Who sent it (UserInfoCache): what a message shows of its sender is at   *)
(* most StaleBound seconds old.  The argument: age plus remaining life     *)
(* never grows, so a copy that is handed from level to level stays below   *)
(* that level's bound.                                                     *)
(*                                                                         *)
(* Whether and when it arrives (PushFanout): a client sees the messages in *)
(* the order the broker took them, and misses none while it is connected.  *)
(* The argument:                                                           *)
(* a gateway's queue is the tail of the pushes taken (QueueIsTail), so one *)
(* number says how far a gateway is, and neither what a client has got nor *)
(* what it has missed goes beyond it (OrderInv, SkipInv).                  *)
(***************************************************************************)
EXTENDS UserInfoCache, PushFanout, Integers, TLAPS

-------------------------------------------------------------------------------
(* The sender a message shows                                                *)

AnyCopy == [profile : Profile, age : Nat]
AnyEntry == [ttl : Nat, copy : AnyCopy]

\* Ages without their bounds: what each step keeps by itself.
Shape ==
  /\ profile \in Profile
  /\ l2 \in AnyEntry \cup {Miss}
  /\ l1 \in [Proc -> AnyEntry \cup {Miss}]
  /\ lock \in [Proc -> Worker \cup {Free}]
  /\ pc \in [Worker -> Steps]
  /\ held \in [Worker -> AnyCopy \cup {Miss}]
  /\ lag \in [Worker -> 0 .. MaxLag]
  /\ since \in [Profile -> 0 .. StaleBound + 1]
  /\ since[profile] = 0

\* The profile was this one when the copy was read, age seconds ago, or later;
\* however long the copy is kept on, it gets no older than oldest.
Fresh(copy, left, oldest) ==
  /\ copy # Miss
  /\ since[copy.profile] <= copy.age
  /\ copy.age + left <= oldest

Stored(e, life, oldest) == e # Miss => e.ttl <= life /\ Fresh(e.copy, e.ttl, oldest)

Held(w) ==
  /\ pc[w] = "setL2" => Fresh(held[w], 0, lag[w])
  /\ pc[w] = "store" => Fresh(held[w], 0, OldestInRedis + lag[w])
  /\ pc[w] = "done" => Fresh(held[w], 0, StaleBound)
  /\ pc[w] \notin {"setL2", "store", "done"} => held[w] = Miss

AgeInv ==
  /\ Shape
  /\ Stored(l2, TTL_MAX, OldestInRedis)
  /\ \A p \in Proc : Stored(l1[p], L1_TTL, StaleBound)
  /\ \A w \in Worker : Held(w)

LEMMA Bounds ==
  /\ TTL_MAX \in Nat /\ OldestInRedis \in Nat /\ StaleBound \in Nat
  /\ OldestInRedis = MaxLag + TTL_MAX
  /\ StaleBound = OldestInRedis + MaxLag + L1_TTL
BY UserInfoConstants DEF TTL_MAX, OldestInRedis, StaleBound

LEMMA MissIsNothing == Miss \notin AnyCopy /\ Miss \notin AnyEntry
BY UserInfoConstants DEF AnyCopy, AnyEntry

\* A step of w, none of which makes time pass, concerns w and the caches only.
LEMMA OthersHeld ==
  ASSUME AgeInv, NEW w \in Worker, since' = since,
         Shape',
         \A x \in Worker : x # w => pc'[x] = pc[x] /\ held'[x] = held[x] /\ lag'[x] = lag[x],
         Stored(l2, TTL_MAX, OldestInRedis)',
         \A p \in Proc : Stored(l1[p], L1_TTL, StaleBound)',
         Held(w)'
  PROVE  AgeInv'
<1>1. ASSUME NEW x \in Worker PROVE Held(x)'
  <2>1. CASE x = w
    BY <2>1
  <2>2. CASE x # w
    BY <2>2 DEF AgeInv, Held, Fresh
  <2> QED BY <2>1, <2>2
<1> QED BY <1>1 DEF AgeInv

\* While no time passes and the caches stay, so do their copies.
LEMMA CachesKept ==
  ASSUME AgeInv, since' = since
  PROVE  /\ l2' = l2 => Stored(l2, TTL_MAX, OldestInRedis)'
         /\ l1' = l1 => \A p \in Proc : Stored(l1[p], L1_TTL, StaleBound)'
BY DEF AgeInv, Stored, Fresh

\* A copy taken from a cache is within the bound of that cache.
LEMMA TakenIsFresh ==
  ASSUME NEW e \in AnyEntry, NEW life, NEW oldest \in Nat, Shape, Stored(e, life, oldest)
  PROVE  e.copy \in AnyCopy /\ Fresh(e.copy, 0, oldest)
<1>1. e # Miss /\ e.copy \in AnyCopy /\ e.ttl \in Nat /\ e.copy.age \in Nat
  BY MissIsNothing DEF AnyEntry, AnyCopy
<1> QED BY <1>1 DEF Stored, Fresh

LEMMA CallAges == ASSUME AgeInv, NEW w \in Worker, Call(w) PROVE AgeInv'
<1>1. Shape'
  BY DEF AgeInv, Shape, Call, Goto, Steps
<1>2. \A x \in Worker : x # w => pc'[x] = pc[x] /\ held'[x] = held[x] /\ lag'[x] = lag[x]
  BY DEF AgeInv, Shape, Call, Goto
<1>3. Held(w)'
  BY DEF AgeInv, Shape, Call, Goto, Held
<1> QED BY <1>1, <1>2, <1>3, OthersHeld, CachesKept DEF Call

LEMMA FindAges == ASSUME AgeInv, NEW w \in Worker, Find(w) PROVE AgeInv'
<1> DEFINE e == l1[Home[w]]
<1>1. Home[w] \in Proc
  BY UserInfoConstants
<1>2. \A x \in Worker : x # w => pc'[x] = pc[x] /\ held'[x] = held[x] /\ lag'[x] = lag[x]
  BY DEF AgeInv, Shape, Find, Goto, Take, Drop
<1>3. Shape' /\ Held(w)'
  <2>1. CASE e # Miss
    <3>1. e \in AnyEntry /\ Stored(e, L1_TTL, StaleBound) /\ Shape
      BY <1>1, <2>1 DEF AgeInv, Shape
    <3>2. e.copy \in AnyCopy /\ Fresh(e.copy, 0, StaleBound)
      BY <3>1, TakenIsFresh, Bounds
    <3>3. pc' = [pc EXCEPT ![w] = "done"] /\ held' = [held EXCEPT ![w] = e.copy]
          /\ lag' = [lag EXCEPT ![w] = 0] /\ UNCHANGED <<profile, l2, l1, lock, since>>
      BY <2>1 DEF Find, Take, Goto
    <3>4. Shape'
      BY <3>1, <3>2, <3>3, UserInfoConstants DEF Shape, Steps
    <3>5. pc'[w] = "done" /\ held'[w] = e.copy
      BY <3>1, <3>3 DEF Shape
    <3>6. Held(w)'
      BY <3>2, <3>3, <3>5 DEF Held, Fresh
    <3> QED BY <3>4, <3>6
  <2>2. CASE e = Miss
    <3>1. pc' = [pc EXCEPT ![w] = "redis"] /\ UNCHANGED <<profile, l2, l1, lock, since, held, lag>>
      BY <2>2 DEF Find, Goto
    <3> QED BY <3>1 DEF AgeInv, Shape, Steps, Held, Find
  <2> QED BY <2>1, <2>2
<1> QED BY <1>2, <1>3, OthersHeld, CachesKept DEF Find


LEMMA LookAges ==
  ASSUME AgeInv, NEW w \in Worker, NEW from \in {"redis", "recheck"},
         NEW otherwise \in {"wait", "load"}, Look(w, from, otherwise)
  PROVE  AgeInv'
<1>1. \A x \in Worker : x # w => pc'[x] = pc[x] /\ held'[x] = held[x] /\ lag'[x] = lag[x]
  BY DEF AgeInv, Shape, Look, Goto, Take
<1>2. Shape' /\ Held(w)'
  <2>1. CASE l2 # Miss
    <3>1. l2 \in AnyEntry /\ Stored(l2, TTL_MAX, OldestInRedis) /\ Shape
      BY <2>1 DEF AgeInv, Shape
    <3>2. l2.copy \in AnyCopy /\ Fresh(l2.copy, 0, OldestInRedis)
      BY <3>1, TakenIsFresh, Bounds
    <3>3. pc' = [pc EXCEPT ![w] = "store"] /\ held' = [held EXCEPT ![w] = l2.copy]
          /\ lag' = [lag EXCEPT ![w] = 0] /\ UNCHANGED <<profile, l2, l1, lock, since>>
      BY <2>1 DEF Look, Take, Goto
    <3>4. Shape'
      BY <3>1, <3>2, <3>3, UserInfoConstants DEF Shape, Steps
    <3>5. pc'[w] = "store" /\ held'[w] = l2.copy /\ lag'[w] = 0
      BY <3>1, <3>3 DEF Shape
    <3>6. OldestInRedis + lag'[w] = OldestInRedis
      BY <3>5, Bounds
    <3>7. Held(w)'
      BY <3>2, <3>3, <3>5, <3>6 DEF Held, Fresh
    <3> QED BY <3>4, <3>7
  <2>2. CASE l2 = Miss
    <3>1. pc' = [pc EXCEPT ![w] = otherwise] /\ UNCHANGED <<profile, l2, l1, lock, since, held, lag>>
      BY <2>2 DEF Look, Goto
    <3> QED BY <3>1 DEF AgeInv, Shape, Steps, Held, Look
  <2> QED BY <2>1, <2>2
<1> QED BY <1>1, <1>2, OthersHeld, CachesKept DEF Look

LEMMA WaitAges == ASSUME AgeInv, NEW w \in Worker, Wait(w) PROVE AgeInv'
<1>1. Shape'
  BY UserInfoConstants DEF AgeInv, Shape, Wait, Goto, Steps
<1>2. \A x \in Worker : x # w => pc'[x] = pc[x] /\ held'[x] = held[x] /\ lag'[x] = lag[x]
  BY DEF AgeInv, Shape, Wait, Goto
<1>3. Held(w)'
  BY DEF AgeInv, Shape, Wait, Goto, Held
<1> QED BY <1>1, <1>2, <1>3, OthersHeld, CachesKept DEF Wait

\* The thread leaves get() with nothing.
LEMMA LeaveAges ==
  ASSUME AgeInv, NEW w \in Worker, Goto(w, "idle"), Drop(w), Unlock(w) \/ lock' = lock,
         UNCHANGED <<profile, l2, l1, since>>
  PROVE  AgeInv'
<1>1. Shape'
  <2>1. lock' \in [Proc -> Worker \cup {Free}]
    BY DEF AgeInv, Shape, Unlock
  <2>2. pc' \in [Worker -> Steps] /\ held' \in [Worker -> AnyCopy \cup {Miss}]
        /\ lag' \in [Worker -> 0 .. MaxLag]
    BY UserInfoConstants DEF AgeInv, Shape, Goto, Drop, Take, Steps
  <2> QED BY <2>1, <2>2 DEF AgeInv, Shape
<1>2. \A x \in Worker : x # w => pc'[x] = pc[x] /\ held'[x] = held[x] /\ lag'[x] = lag[x]
  BY DEF AgeInv, Shape, Goto, Drop, Take
<1>3. Held(w)'
  BY DEF AgeInv, Shape, Goto, Drop, Take, Held
<1> QED BY <1>1, <1>2, <1>3, OthersHeld, CachesKept

LEMMA LoadAges == ASSUME AgeInv, NEW w \in Worker, Load(w) PROVE AgeInv'
<1> DEFINE c == [profile |-> profile, age |-> 0]
<1>1. CASE Take(w, c) /\ Goto(w, "setL2") /\ UNCHANGED lock
  <2>1. c \in AnyCopy /\ since[c.profile] = 0
    BY DEF AgeInv, Shape, AnyCopy
  <2>2. Shape'
    BY <1>1, <2>1, UserInfoConstants DEF AgeInv, Shape, Load, Take, Goto, Steps
  <2>3. \A x \in Worker : x # w => pc'[x] = pc[x] /\ held'[x] = held[x] /\ lag'[x] = lag[x]
    BY <1>1 DEF AgeInv, Shape, Take, Goto
  <2>4. pc'[w] = "setL2" /\ held'[w] = c /\ lag'[w] = 0 /\ since' = since
    BY <1>1 DEF AgeInv, Shape, Take, Goto, Load
  <2>5. c # Miss /\ c.age = 0
    BY <2>1, MissIsNothing
  <2>6. Held(w)'
    BY <2>1, <2>4, <2>5 DEF Held, Fresh
  <2> QED BY <1>1, <2>2, <2>3, <2>6, OthersHeld, CachesKept DEF Load
<1>2. CASE Goto(w, "idle") /\ Unlock(w) /\ Drop(w)
  BY <1>2, LeaveAges DEF Load
<1> QED BY <1>1, <1>2 DEF Load

LEMMA SetL2Ages == ASSUME AgeInv, NEW w \in Worker, SetL2(w) PROVE AgeInv'
<1>1. held[w] \in AnyCopy /\ Fresh(held[w], 0, lag[w]) /\ lag[w] \in 0 .. MaxLag
  BY DEF AgeInv, Shape, Held, SetL2, Fresh
<1>2. held[w].age \in Nat /\ held[w].age <= MaxLag /\ since[held[w].profile] <= held[w].age
  BY <1>1, UserInfoConstants DEF Fresh, AnyCopy
<1>3. PICK ttl \in TTL_BASE .. TTL_MAX : l2' = [ttl |-> ttl, copy |-> held[w]]
  BY DEF SetL2
<1>4. ttl \in Nat /\ ttl <= TTL_MAX
  BY <1>3, Bounds, UserInfoConstants
<1>5. l2' \in AnyEntry /\ l2'.ttl = ttl /\ l2'.copy = held[w]
  BY <1>1, <1>3, <1>4 DEF AnyEntry
<1>6. Stored(l2, TTL_MAX, OldestInRedis)'
  BY <1>1, <1>2, <1>4, <1>5, Bounds, UserInfoConstants DEF Stored, Fresh, SetL2
<1>7. Shape'
  BY <1>5, UserInfoConstants DEF AgeInv, Shape, SetL2, Goto, Steps
<1>8. \A x \in Worker : x # w => pc'[x] = pc[x] /\ held'[x] = held[x] /\ lag'[x] = lag[x]
  BY DEF AgeInv, Shape, SetL2, Goto
<1>9. pc'[w] = "store" /\ held'[w] = held[w] /\ lag'[w] = 0 /\ since' = since
  BY DEF AgeInv, Shape, SetL2, Goto
<1>10. Held(w)'
  BY <1>1, <1>2, <1>9, Bounds, UserInfoConstants DEF Held, Fresh
<1> QED BY <1>6, <1>7, <1>8, <1>9, <1>10, OthersHeld, CachesKept DEF SetL2

LEMMA StoreAges == ASSUME AgeInv, NEW w \in Worker, Store(w) PROVE AgeInv'
<1> DEFINE e == [ttl |-> L1_TTL, copy |-> held[w]]
<1>1. held[w] \in AnyCopy /\ Fresh(held[w], 0, OldestInRedis + lag[w]) /\ lag[w] \in 0 .. MaxLag
  BY DEF AgeInv, Shape, Held, Store, Fresh
<1>2. /\ held[w].age \in Nat /\ held[w].age <= OldestInRedis + MaxLag
      /\ since[held[w].profile] <= held[w].age
  BY <1>1, Bounds, UserInfoConstants DEF Fresh, AnyCopy
<1>3. e \in AnyEntry /\ Home[w] \in Proc
  BY <1>1, UserInfoConstants DEF AnyEntry
<1>4. l1' = [l1 EXCEPT ![Home[w]] = e] /\ since' = since
  BY DEF Store
<1>5. held[w].age + L1_TTL <= StaleBound
  BY <1>2, Bounds, UserInfoConstants
<1>6. ASSUME NEW p \in Proc PROVE Stored(l1[p], L1_TTL, StaleBound)'
  <2>1. CASE p = Home[w]
    <3>1. l1'[p] = e
      BY <1>3, <1>4, <2>1 DEF AgeInv, Shape
    <3> QED BY <1>1, <1>2, <1>4, <1>5, <3>1, UserInfoConstants DEF Stored, Fresh
  <2>2. CASE p # Home[w]
    <3>1. l1'[p] = l1[p]
      BY <1>4, <2>2 DEF AgeInv, Shape
    <3> QED BY <1>4, <3>1 DEF AgeInv, Stored, Fresh
  <2> QED BY <2>1, <2>2
<1>7. Shape'
  <2>1. l1' \in [Proc -> AnyEntry \cup {Miss}]
    BY <1>3, <1>4 DEF AgeInv, Shape
  <2>2. lock' \in [Proc -> Worker \cup {Free}]
    BY DEF AgeInv, Shape, Store, Unlock
  <2> QED BY <2>1, <2>2, UserInfoConstants DEF AgeInv, Shape, Store, Goto, Steps
<1>8. \A x \in Worker : x # w => pc'[x] = pc[x] /\ held'[x] = held[x] /\ lag'[x] = lag[x]
  BY DEF AgeInv, Shape, Store, Goto
<1>9. pc'[w] = "done" /\ held'[w] = held[w]
  BY DEF AgeInv, Shape, Store, Goto
<1>10. held[w].age + 0 <= StaleBound
  BY <1>2, Bounds, UserInfoConstants
<1>11. Held(w)'
  BY <1>1, <1>2, <1>4, <1>9, <1>10 DEF Held, Fresh
<1> QED BY <1>4, <1>6, <1>7, <1>8, <1>11, OthersHeld, CachesKept DEF Store

LEMMA DieAges == ASSUME AgeInv, NEW p \in Proc, Die(p) PROVE AgeInv'
<1>1. Shape'
  <2>1. l1' \in [Proc -> AnyEntry \cup {Miss}] /\ lock' \in [Proc -> Worker \cup {Free}]
    BY DEF AgeInv, Shape, Die
  <2>2. pc' \in [Worker -> Steps] /\ held' \in [Worker -> AnyCopy \cup {Miss}]
        /\ lag' \in [Worker -> 0 .. MaxLag]
    BY UserInfoConstants DEF AgeInv, Shape, Die, Steps
  <2> QED BY <2>1, <2>2 DEF AgeInv, Shape, Die
<1>2. ASSUME NEW w \in Worker PROVE Held(w)'
  BY DEF AgeInv, Shape, Die, Held, Fresh
<1>3. ASSUME NEW q \in Proc PROVE Stored(l1[q], L1_TTL, StaleBound)'
  <2>1. l1'[q] = Miss \/ l1'[q] = l1[q]
    BY DEF AgeInv, Shape, Die
  <2> QED BY <2>1 DEF AgeInv, Stored, Fresh, Die
<1>4. Stored(l2, TTL_MAX, OldestInRedis)'
  BY CachesKept DEF Die
<1> QED BY <1>1, <1>2, <1>3, <1>4 DEF AgeInv


LEMMA ChangeAges == ASSUME AgeInv, Change PROVE AgeInv'
<1>1. Shape'
  <2>1. since' \in [Profile -> 0 .. StaleBound + 1] /\ since'[profile'] = 0
    BY Bounds DEF AgeInv, Shape, Change
  <2> QED BY <2>1 DEF AgeInv, Shape, Change
<1>2. ASSUME NEW n \in Profile PROVE since'[n] <= since[n]
  BY Bounds DEF AgeInv, Shape, Change
<1>3. ASSUME NEW c \in AnyCopy, NEW left, NEW oldest, Fresh(c, left, oldest)
      PROVE  c # Miss /\ since'[c.profile] <= c.age /\ c.age + left <= oldest
  <2>1. c.profile \in Profile /\ c.age \in Nat
    BY DEF AnyCopy
  <2>2. since[c.profile] \in Nat /\ since'[c.profile] \in Nat
    BY <1>1, <2>1, Bounds DEF AgeInv, Shape
  <2>3. since'[c.profile] <= since[c.profile]
    BY <1>2, <2>1
  <2> QED BY <1>3, <2>1, <2>2, <2>3 DEF Fresh
<1>4. ASSUME NEW w \in Worker PROVE Held(w)'
  <2>1. pc' = pc /\ held' = held /\ lag' = lag
    BY DEF Change
  <2>2. held[w] # Miss => held[w] \in AnyCopy
    BY DEF AgeInv, Shape
  <2>3. Held(w)
    BY DEF AgeInv
  <2>4. ASSUME NEW left, NEW oldest, Fresh(held[w], left, oldest)
        PROVE  Fresh(held[w], left, oldest)'
    BY <1>3, <2>1, <2>2, <2>4 DEF Fresh
  <2>5. pc[w] = "setL2" => Fresh(held[w], 0, lag[w])'
    <3>1. ASSUME pc[w] = "setL2" PROVE Fresh(held[w], 0, lag[w])'
      <4>1. Fresh(held[w], 0, lag[w])
        BY <2>3, <3>1 DEF Held
      <4> QED BY <1>3, <2>1, <2>2, <4>1 DEF Fresh
    <3> QED BY <3>1
  <2>6. pc[w] = "store" => Fresh(held[w], 0, OldestInRedis + lag[w])'
    <3>1. ASSUME pc[w] = "store" PROVE Fresh(held[w], 0, OldestInRedis + lag[w])'
      <4>1. Fresh(held[w], 0, OldestInRedis + lag[w])
        BY <2>3, <3>1 DEF Held
      <4> QED BY <1>3, <2>1, <2>2, <4>1 DEF Fresh
    <3> QED BY <3>1
  <2>7. pc[w] = "done" => Fresh(held[w], 0, StaleBound)'
    BY <2>3, <2>4 DEF Held
  <2> QED BY <2>1, <2>3, <2>5, <2>6, <2>7 DEF Held
<1>5. ASSUME NEW e \in AnyEntry \cup {Miss}, NEW life, NEW oldest, Stored(e, life, oldest)
      PROVE  e # Miss => /\ e.ttl <= life
                         /\ e.copy # Miss /\ since'[e.copy.profile] <= e.copy.age
                         /\ e.copy.age + e.ttl <= oldest
  <2>1. e # Miss => e.copy \in AnyCopy /\ e.ttl <= life /\ Fresh(e.copy, e.ttl, oldest)
    BY <1>5 DEF AnyEntry, Stored
  <2> QED BY <1>3, <2>1
<1>6. Stored(l2, TTL_MAX, OldestInRedis)'
  BY <1>5 DEF AgeInv, Shape, Change, Stored, Fresh
<1>7. ASSUME NEW p \in Proc PROVE Stored(l1[p], L1_TTL, StaleBound)'
  BY <1>5 DEF AgeInv, Shape, Change, Stored, Fresh
<1> QED BY <1>1, <1>4, <1>6, <1>7 DEF AgeInv

\* A second later every copy is a second older, and has a second less to live.
LEMMA TickAges == ASSUME AgeInv, Tick PROVE AgeInv'
<1>1. ASSUME NEW n \in Profile
      PROVE  since[n] \in Nat /\ since'[n] \in 0 .. StaleBound + 1 /\ since'[n] <= since[n] + 1
  BY Bounds DEF AgeInv, Shape, Tick
<1>2. ASSUME NEW c \in AnyCopy
      PROVE  /\ Aged(c) \in AnyCopy /\ Aged(c).age = c.age + 1
             /\ Aged(c).profile = c.profile /\ Aged(c) # Miss
  <2>1. Aged(c) = [profile |-> c.profile, age |-> c.age + 1]
    BY DEF Aged, AnyCopy
  <2>2. c.profile \in Profile /\ c.age \in Nat
    BY DEF AnyCopy
  <2> QED BY <2>1, <2>2, MissIsNothing DEF AnyCopy
<1>3. ASSUME NEW c \in AnyCopy, since[c.profile] <= c.age
      PROVE  since'[c.profile] <= c.age + 1
  <2>1. c.profile \in Profile /\ c.age \in Nat
    BY DEF AnyCopy
  <2> QED BY <1>1, <1>3, <2>1, Bounds
<1>4. ASSUME NEW e \in AnyEntry \cup {Miss}, NEW early \in BOOLEAN, NEW life \in Nat,
             NEW oldest \in Nat, Stored(e, life, oldest), Older(e, early) # Miss
      PROVE  LET f == Older(e, early) IN
             /\ f \in AnyEntry /\ f.ttl <= life
             /\ f.copy # Miss /\ since'[f.copy.profile] <= f.copy.age
             /\ f.copy.age + f.ttl <= oldest
  <2>1. e # Miss /\ e \in AnyEntry /\ e.ttl # 0
        /\ Older(e, early) = [ttl |-> e.ttl - 1, copy |-> Aged(e.copy)]
    BY <1>4 DEF Older
  <2>2. e.ttl \in Nat /\ e.copy \in AnyCopy /\ e.copy.age \in Nat
    BY <2>1 DEF AnyEntry, AnyCopy
  <2>3. e.ttl <= life /\ since[e.copy.profile] <= e.copy.age /\ e.copy.age + e.ttl <= oldest
    BY <1>4, <2>1 DEF Stored, Fresh
  <2>4. since'[e.copy.profile] <= e.copy.age + 1
    BY <1>3, <2>2, <2>3
  <2>5. /\ Aged(e.copy) \in AnyCopy /\ Aged(e.copy).age = e.copy.age + 1
        /\ Aged(e.copy).profile = e.copy.profile /\ Aged(e.copy) # Miss
    BY <1>2, <2>2
  <2>6. e.ttl - 1 \in Nat /\ e.ttl - 1 <= life /\ (e.copy.age + 1) + (e.ttl - 1) <= oldest
    BY <2>1, <2>2, <2>3
  <2> QED BY <2>1, <2>4, <2>5, <2>6 DEF AnyEntry
<1>5. PICK early \in BOOLEAN : l2' = Older(l2, early)
  BY DEF Tick
<1>6. PICK sooner \in [Proc -> BOOLEAN] : l1' = [p \in Proc |-> Older(l1[p], sooner[p])]
  BY DEF Tick
<1>7. Stored(l2, TTL_MAX, OldestInRedis)' /\ l2' \in AnyEntry \cup {Miss}
  BY <1>4, <1>5, Bounds DEF AgeInv, Shape, Stored, Fresh
<1>8. ASSUME NEW p \in Proc
      PROVE  Stored(l1[p], L1_TTL, StaleBound)' /\ Older(l1[p], sooner[p]) \in AnyEntry \cup {Miss}
  <2>1. l1'[p] = Older(l1[p], sooner[p])
    BY <1>6
  <2>2. l1[p] \in AnyEntry \cup {Miss} /\ sooner[p] \in BOOLEAN /\ Stored(l1[p], L1_TTL, StaleBound)
    BY DEF AgeInv, Shape
  <2> QED BY <1>4, <2>1, <2>2, Bounds, UserInfoConstants DEF Stored, Fresh
<1>9. ASSUME NEW w \in Worker
      PROVE  /\ Held(w)'
             /\ held'[w] \in AnyCopy \cup {Miss}
             /\ lag'[w] \in 0 .. MaxLag
  <2>1. pc'[w] = pc[w] /\ pc[w] # "done" /\ Held(w)
        /\ held[w] \in AnyCopy \cup {Miss} /\ lag[w] \in 0 .. MaxLag
    BY DEF AgeInv, Shape, Tick
  <2>2. CASE ~Holding(w)
    <3>1. held'[w] = held[w] /\ lag'[w] = lag[w]
      BY <2>2 DEF Tick
    <3> QED BY <2>1, <2>2, <3>1 DEF Held, Holding
  <2>3. CASE Holding(w)
    <3>1. held'[w] = Aged(held[w]) /\ lag'[w] = lag[w] + 1 /\ lag[w] < MaxLag
      BY <2>3 DEF Tick
    <3>2. held[w] \in AnyCopy /\ since[held[w].profile] <= held[w].age
      BY <2>1, <2>3 DEF Held, Holding, Fresh
    <3>3. held[w].age \in Nat /\ lag'[w] \in 0 .. MaxLag
      BY <2>1, <3>1, <3>2, UserInfoConstants DEF AnyCopy
    <3>4. /\ held'[w] \in AnyCopy /\ held'[w].age = held[w].age + 1
          /\ held'[w].profile = held[w].profile /\ held'[w] # Miss
      BY <1>2, <3>1, <3>2
    <3>5. since'[held'[w].profile] <= held'[w].age
      BY <1>3, <3>2, <3>4
    <3>6. pc[w] = "setL2" => held'[w].age + 0 <= lag'[w]
      BY <2>1, <3>1, <3>3, <3>4 DEF Held, Fresh
    <3>7. pc[w] = "store" => held'[w].age + 0 <= OldestInRedis + lag'[w]
      BY <2>1, <3>1, <3>3, <3>4, Bounds DEF Held, Fresh
    <3>8. Held(w)'
      BY <2>1, <2>3, <3>4, <3>5, <3>6, <3>7 DEF Held, Fresh, Holding
    <3> QED BY <3>3, <3>4, <3>8
  <2> QED BY <2>2, <2>3
<1>10. Shape'
  <2>1. l1' \in [Proc -> AnyEntry \cup {Miss}]
    BY <1>6, <1>8
  <2>2. held' \in [Worker -> AnyCopy \cup {Miss}]
    <3>1. held' = [w \in Worker |-> held'[w]]
      BY DEF Tick
    <3> QED BY <1>9, <3>1
  <2>3. lag' \in [Worker -> 0 .. MaxLag]
    <3>1. lag' = [w \in Worker |-> lag'[w]]
      BY DEF Tick
    <3> QED BY <1>9, <3>1
  <2>4. since' \in [Profile -> 0 .. StaleBound + 1]
    <3>1. since' = [n \in Profile |-> since'[n]]
      BY DEF Tick
    <3> QED BY <1>1, <3>1
  <2>5. since'[profile'] = 0 /\ UNCHANGED <<profile, lock, pc>>
    BY DEF Tick, AgeInv, Shape
  <2> QED BY <1>7, <2>1, <2>2, <2>3, <2>4, <2>5 DEF AgeInv, Shape
<1> QED BY <1>7, <1>8, <1>9, <1>10 DEF AgeInv

LEMMA AgeInvariant == Spec => []AgeInv
<1>1. ASSUME Init PROVE AgeInv
  <2>1. Shape
    <3>1. since \in [Profile -> 0 .. StaleBound + 1] /\ since[profile] = 0
      BY <1>1, Bounds DEF Init
    <3>2. pc \in [Worker -> Steps] /\ lag \in [Worker -> 0 .. MaxLag]
      BY <1>1, UserInfoConstants DEF Init, Steps
    <3>3. l1 \in [Proc -> AnyEntry \cup {Miss}] /\ held \in [Worker -> AnyCopy \cup {Miss}]
          /\ lock \in [Proc -> Worker \cup {Free}]
      BY <1>1 DEF Init
    <3> QED BY <1>1, <3>1, <3>2, <3>3 DEF Init, Shape
  <2>2. \A w \in Worker : pc[w] = "idle" /\ held[w] = Miss
    BY <1>1 DEF Init
  <2>3. l2 = Miss /\ \A p \in Proc : l1[p] = Miss
    BY <1>1 DEF Init
  <2> QED BY <2>1, <2>2, <2>3 DEF AgeInv, Stored, Held
<1>2. ASSUME AgeInv, [Next]_vars PROVE AgeInv'
  <2>1. CASE UNCHANGED vars
    BY <1>2, <2>1 DEF vars, AgeInv, Shape, Stored, Held, Fresh
  <2>2. ASSUME NEW w \in Worker, Look(w, "redis", "wait") \/ Look(w, "recheck", "load")
        PROVE  AgeInv'
    BY <1>2, <2>2, LookAges
  <2>3. ASSUME NEW w \in Worker, Reply(w) PROVE AgeInv'
    BY <1>2, <2>3, LeaveAges DEF Reply
  <2> QED BY <1>2, <2>1, <2>2, <2>3, CallAges, FindAges, WaitAges, LoadAges, SetL2Ages,
             StoreAges, DieAges, ChangeAges, TickAges DEF Next, Get
<1> QED BY <1>1, <1>2, PTL DEF Spec

\* Redis, both levels of memory and the threads' copies keep their types.
THEOREM SenderTypes == Spec => []TypeOK
<1>1. ASSUME AgeInv PROVE TypeOK
  <2>1. ASSUME NEW e \in AnyEntry \cup {Miss}, NEW life \in Nat, NEW oldest \in Nat,
               Stored(e, life, oldest)
        PROVE  e \in Entry(life, oldest)
    <3>1. CASE e = Miss
      BY <3>1 DEF Entry
    <3>2. CASE e # Miss
      <4>1. e \in AnyEntry /\ e.ttl <= life /\ e.copy.age + e.ttl <= oldest
        BY <2>1, <3>2 DEF Stored, Fresh
      <4>2. e.ttl \in Nat /\ e.copy \in AnyCopy /\ e.copy.age \in Nat
        BY <4>1 DEF AnyEntry, AnyCopy
      <4>3. e.ttl \in 0 .. life /\ e.copy.age \in 0 .. oldest
        BY <2>1, <4>1, <4>2
      <4>4. e.copy \in Copy(oldest)
        BY <4>2, <4>3 DEF AnyCopy, Copy
      <4>5. e = [ttl |-> e.ttl, copy |-> e.copy]
        BY <4>1 DEF AnyEntry
      <4> QED BY <4>3, <4>4, <4>5 DEF Entry
    <3> QED BY <3>1, <3>2
  <2>2. ASSUME NEW w \in Worker PROVE held[w] \in Copy(StaleBound) \cup {Miss}
    <3>1. CASE held[w] = Miss
      BY <3>1
    <3>2. CASE held[w] # Miss
      <4>1. held[w] \in AnyCopy /\ held[w].age \in Nat /\ lag[w] \in 0 .. MaxLag
        BY <1>1, <3>2 DEF AgeInv, Shape, AnyCopy
      <4>2. held[w].age + 0 <= lag[w] \/ held[w].age + 0 <= OldestInRedis + lag[w]
              \/ held[w].age + 0 <= StaleBound
        BY <1>1, <3>2 DEF AgeInv, Held, Fresh
      <4>3. held[w].age \in 0 .. StaleBound
        BY <4>1, <4>2, Bounds, UserInfoConstants
      <4> QED BY <4>1, <4>3 DEF AnyCopy, Copy
    <3> QED BY <3>1, <3>2
  <2>3. l2 \in Entry(TTL_MAX, OldestInRedis)
    BY <1>1, <2>1, Bounds DEF AgeInv, Shape
  <2>4. \A p \in Proc : l1[p] \in Entry(L1_TTL, StaleBound)
    BY <1>1, <2>1, Bounds, UserInfoConstants DEF AgeInv, Shape
  <2> QED BY <1>1, <2>2, <2>3, <2>4 DEF AgeInv, Shape, TypeOK
<1> QED BY <1>1, AgeInvariant, PTL

\* A profile that has changed is gone from new messages StaleBound seconds later.
THEOREM SenderIsRecent == Spec => []ShownIsRecent
<1>1. ASSUME AgeInv PROVE ShownIsRecent
  <2> SUFFICES ASSUME NEW w \in Worker, pc[w] = "done"
               PROVE  since[held[w].profile] <= StaleBound
    BY DEF ShownIsRecent
  <2>1. Fresh(held[w], 0, StaleBound) /\ held[w] \in AnyCopy
    BY <1>1 DEF AgeInv, Shape, Held, Fresh
  <2>2. held[w].age \in Nat /\ held[w].profile \in Profile
    BY <2>1 DEF AnyCopy
  <2>3. since[held[w].profile] \in Nat
    BY <1>1, <2>2, Bounds DEF AgeInv, Shape
  <2> QED BY <2>1, <2>2, <2>3, Bounds DEF Fresh
<1> QED BY <1>1, AgeInvariant, PTL

-------------------------------------------------------------------------------
(* The pushes of a gateway                                                   *)

\* Facts about sequences, as the proofs below use them.
LEMMA AppendFacts ==
  ASSUME NEW S, NEW s \in Seq(S), NEW e \in S
  PROVE  /\ Append(s, e) \in Seq(S) /\ Len(Append(s, e)) = Len(s) + 1
         /\ \A i \in 1 .. Len(s) : Append(s, e)[i] = s[i]
         /\ Append(s, e)[Len(s) + 1] = e
         /\ Append(s, e) # << >>
OBVIOUS

LEMMA TailFacts ==
  ASSUME NEW S, NEW s \in Seq(S), s # << >>
  PROVE  /\ Len(s) \in Nat \ {0} /\ Head(s) = s[1] /\ Head(s) \in S
         /\ Tail(s) \in Seq(S) /\ Len(Tail(s)) = Len(s) - 1
         /\ \A i \in 1 .. Len(s) - 1 : Tail(s)[i] = s[i + 1]
OBVIOUS

LEMMA LenNat == ASSUME NEW S, NEW s \in Seq(S) PROVE Len(s) \in Nat /\ DOMAIN s = 1 .. Len(s)
OBVIOUS

Works == {Idle} \cup [busy : {TRUE}, left : SUBSET User]

LEMMA StatusType ==
  ASSUME PushTypeOK, NEW m \in Msg, Out!Accept(m) \/ Out!Send(m) \/ Out!Drop(m)
  PROVE  status' \in [Msg -> Out!Status]
BY DEF PushTypeOK, Out!Accept, Out!Send, Out!Drop, Out!Status

LEMMA PushLens ==
  ASSUME PushTypeOK
  PROVE  /\ taken \in Seq(Msg) /\ Len(taken) \in Nat /\ crashes \in Nat
         /\ \A i \in 1 .. Len(taken) : taken[i] \in Msg
         /\ \A g \in Gateway :
              /\ queue[g] \in Seq(Msg) /\ Len(queue[g]) \in Nat /\ Len(queue[g]) <= Len(taken)
              /\ Done(g) \in Nat /\ Begun(g) \in Nat /\ Done(g) <= Begun(g)
              /\ online[g] \subseteq User
              /\ \A u \in User : /\ got[g][u] \in Seq(Msg) /\ Len(got[g][u]) \in Nat
                                 /\ joined[g][u] \in Nat
<1>1. taken \in Seq(Msg) /\ Len(taken) \in Nat /\ crashes \in Nat
  BY DEF PushTypeOK
<1>2. \A i \in 1 .. Len(taken) : taken[i] \in Msg
  BY <1>1
<1>3. ASSUME NEW g \in Gateway
      PROVE  /\ queue[g] \in Seq(Msg) /\ Len(queue[g]) \in Nat /\ Len(queue[g]) <= Len(taken)
             /\ Done(g) \in Nat /\ Begun(g) \in Nat /\ Done(g) <= Begun(g)
  <2>1. queue[g] \in Seq(Msg) /\ Len(queue[g]) \in Nat /\ Len(queue[g]) <= Len(taken)
    BY DEF PushTypeOK
  <2>2. Done(g) \in Nat
    BY <1>1, <2>1 DEF Done
  <2> QED
    BY <2>1, <2>2 DEF Begun
<1>4. ASSUME NEW g \in Gateway
      PROVE  /\ online[g] \subseteq User
             /\ \A u \in User : /\ got[g][u] \in Seq(Msg) /\ Len(got[g][u]) \in Nat
                                /\ joined[g][u] \in Nat
  BY DEF PushTypeOK
<1> QED
  BY <1>1, <1>2, <1>3, <1>4

\* The clients of a gateway that runs.
ClientsOK ==
  /\ online \in [Gateway -> SUBSET User]
  /\ joined \in [Gateway -> [User -> Nat]]
  /\ \A g \in Gateway : online[g] # {} => g \in up

\* Steps that leave the pushes alone.
LEMMA ProcessType ==
  ASSUME PushTypeOK, UNCHANGED <<status, taken, queue, got>>,
         up' \subseteq Gateway, deaf' \subseteq up', ClientsOK',
         crashes' \in 0 .. MaxCrash,
         \A h \in Gateway : work'[h] # Idle => h \in up' /\ work[h] # Idle,
         work' \in [Gateway -> Works]
  PROVE  PushTypeOK'
<1>1. \A h \in Gateway : work'[h] # Idle => h \in up' /\ queue[h] # << >>
  BY DEF PushTypeOK
<1> QED
  BY <1>1 DEF PushTypeOK, Works, ClientsOK, Out!Status, Idle

LEMMA DownClients == PushTypeOK /\ (\E g \in Gateway : Down(g)) => ClientsOK'
<1> SUFFICES ASSUME PushTypeOK, NEW g \in Gateway, Down(g) PROVE ClientsOK'
  OBVIOUS
<1>1. online' \in [Gateway -> SUBSET User] /\ online'[g] = {}
  BY DEF PushTypeOK, Down
<1>2. joined' \in [Gateway -> [User -> Nat]]
  BY DEF PushTypeOK, Down
<1>3. \A h \in Gateway : h # g => online'[h] = online[h] /\ (h \in up' <=> h \in up)
  BY DEF PushTypeOK, Down
<1> QED
  BY <1>1, <1>2, <1>3 DEF PushTypeOK, ClientsOK

LEMMA DownType ==
  ASSUME PushTypeOK, NEW g \in Gateway, Down(g), UNCHANGED <<status, taken, queue, got>>,
         crashes' \in 0 .. MaxCrash
  PROVE  PushTypeOK'
<1>1. up' \subseteq Gateway /\ deaf' \subseteq up'
  BY DEF PushTypeOK, Down
<1>2. work' \in [Gateway -> Works]
  BY DEF PushTypeOK, Down, Works
<1>3. \A h \in Gateway : work'[h] # Idle => h \in up' /\ work[h] # Idle
  BY DEF PushTypeOK, Down
<1>4. ClientsOK'
  BY DownClients
<1> QED
  BY <1>1, <1>2, <1>3, <1>4, ProcessType

\* Steps of the clients alone.
LEMMA ClientType ==
  ASSUME PushTypeOK, ClientsOK', UNCHANGED <<status, taken, queue, work, up, deaf, got, crashes>>
  PROVE  PushTypeOK'
BY DEF PushTypeOK, ClientsOK, Out!Status, Idle

\* A delivery leaves the queue, or not if the channel is lost.
LEMMA PopType ==
  ASSUME PushTypeOK, NEW g \in Gateway, queue[g] # << >>,
         queue' = [queue EXCEPT ![g] = Tail(@)] \/ queue' = queue,
         work' = [work EXCEPT ![g] = Idle],
         UNCHANGED <<status, taken, up, deaf, clients, got, crashes>>
  PROVE  PushTypeOK'
<1>1. /\ queue' \in [Gateway -> Seq(Msg)]
      /\ \A h \in Gateway : Len(queue'[h]) <= Len(taken) /\ (h # g => queue'[h] = queue[h])
  <2>1. CASE queue' = queue
    BY <2>1 DEF PushTypeOK
  <2>2. CASE queue' = [queue EXCEPT ![g] = Tail(@)]
    <3>1. /\ Tail(queue[g]) \in Seq(Msg) /\ Len(Tail(queue[g])) = Len(queue[g]) - 1
          /\ Len(queue[g]) \in Nat /\ Len(queue[g]) <= Len(taken) /\ Len(taken) \in Nat
      BY TailFacts, PushLens
    <3>2. Len(Tail(queue[g])) <= Len(taken)
      BY <3>1
    <3> QED
      BY <2>2, <3>1, <3>2 DEF PushTypeOK
  <2> QED
    BY <2>1, <2>2
<1>2. work' \in [Gateway -> Works]
  BY DEF PushTypeOK, Works
<1>3. \A h \in Gateway : work'[h] # Idle => h \in up /\ queue'[h] # << >>
  BY <1>1 DEF PushTypeOK
<1>4. online' = online /\ joined' = joined
  BY DEF clients
<1> QED
  BY <1>1, <1>2, <1>3, <1>4 DEF PushTypeOK, Works, Out!Status, Idle

LEMMA PushTypeInit == PushInit => PushTypeOK
BY PushConstants DEF PushInit, PushTypeOK, Out!Init, Out!Status, Idle

LEMMA PublishType == ASSUME PushTypeOK, NEW m \in Msg, Publish(m) PROVE PushTypeOK'
<1>1. status' \in [Msg -> Out!Status]
  BY StatusType DEF Publish
<1>2. taken' \in Seq(Msg) /\ Len(taken') = Len(taken) + 1
  BY AppendFacts DEF Publish, PushTypeOK
<1>3. /\ queue' \in [Gateway -> Seq(Msg)]
      /\ \A g \in Gateway : queue'[g] # << >> /\ Len(queue'[g]) <= Len(taken')
  <2>1. ASSUME NEW g \in Gateway
        PROVE  /\ Append(queue[g], m) \in Seq(Msg) /\ Append(queue[g], m) # << >>
               /\ Len(Append(queue[g], m)) <= Len(taken')
    <3>1. queue[g] \in Seq(Msg) /\ Len(queue[g]) <= Len(taken) /\ Len(queue[g]) \in Nat /\ Len(taken) \in Nat
      BY PushLens
    <3>2. Len(Append(queue[g], m)) = Len(queue[g]) + 1 /\ Append(queue[g], m) # << >>
      BY <3>1, AppendFacts
    <3>3. Append(queue[g], m) \in Seq(Msg)
      BY <3>1, AppendFacts
    <3>4. Len(Append(queue[g], m)) <= Len(taken')
      BY <1>2, <3>1, <3>2
    <3> QED
      BY <3>2, <3>3, <3>4
  <2> QED
    BY <2>1 DEF Publish
<1>4. /\ work' = work /\ up' = up /\ deaf' = deaf /\ online' = online /\ joined' = joined
      /\ got' = got /\ crashes' = crashes
  BY DEF Publish, clients
<1> QED
  BY <1>1, <1>2, <1>3, <1>4 DEF PushTypeOK, Out!Status, Idle

LEMMA PushPushType == ASSUME PushTypeOK, NEW g \in Gateway, Push(g) PROVE PushTypeOK'
<1>1. PICK u \in work[g].left :
             /\ work' = [work EXCEPT ![g].left = @ \ {u}]
             /\ got' = IF u # SenderOf[Next1(g)] /\ u \in online[g]
                       THEN [got EXCEPT ![g][u] = Append(@, Next1(g))] ELSE got
  BY DEF Push
<1>2. work[g] \in [busy : {TRUE}, left : SUBSET User] /\ Next1(g) \in Msg /\ u \in User
  BY <1>1, TailFacts DEF Push, PushTypeOK, Next1
<1>3. work' \in [Gateway -> Works] /\ work'[g] # Idle
  BY <1>1, <1>2 DEF PushTypeOK, Works, Idle
<1>4. got' \in [Gateway -> [User -> Seq(Msg)]]
  <2>1. got[g][u] \in Seq(Msg)
    BY <1>2, PushLens
  <2>2. Append(got[g][u], Next1(g)) \in Seq(Msg)
    BY <1>2, <2>1, AppendFacts
  <2> QED
    BY <1>1, <1>2, <2>2 DEF PushTypeOK
<1>5. \A h \in Gateway : work'[h] # Idle => h \in up /\ queue[h] # << >>
  BY <1>1 DEF Push, PushTypeOK
<1>6. /\ queue' = queue /\ up' = up /\ deaf' = deaf /\ online' = online /\ joined' = joined
      /\ status' = status /\ taken' = taken /\ crashes' = crashes
  BY DEF Push, clients
<1> QED
  BY <1>3, <1>4, <1>5, <1>6 DEF PushTypeOK, Works, Out!Status, Idle

LEMMA PushTypeStep == PushTypeOK /\ [PushNext]_pushVars => PushTypeOK'
<1> SUFFICES ASSUME PushTypeOK, [PushNext]_pushVars PROVE PushTypeOK'
  OBVIOUS
<1> USE DEF clients
<1>0. work \in [Gateway -> Works] /\ ClientsOK
  BY DEF PushTypeOK, Works, ClientsOK
<1>1. CASE UNCHANGED pushVars
  BY <1>1 DEF pushVars, PushTypeOK, Out!Status, Idle
<1>2. ASSUME NEW m \in Msg, NewMessage(m) \/ Abandon(m) PROVE PushTypeOK'
  <2>1. status' \in [Msg -> Out!Status]
    BY <1>2, StatusType DEF NewMessage, Abandon
  <2> QED
    BY <1>2, <2>1 DEF NewMessage, Abandon, PushTypeOK, Out!Status, Idle
<1>4. ASSUME NEW g \in Gateway, Receive(g) PROVE PushTypeOK'
  <2>1. TargetsOf[Next1(g)] \in SUBSET User
    BY <1>4, TailFacts, PushConstants DEF Receive, Delivered, PushTypeOK, Next1
  <2>2. work' \in [Gateway -> Works]
    BY <1>4, <2>1 DEF Receive, PushTypeOK, Works
  <2>3. \A h \in Gateway : work'[h] # Idle => h \in up /\ queue[h] # << >>
    BY <1>4 DEF Receive, Delivered, PushTypeOK
  <2> QED
    BY <1>4, <2>2, <2>3 DEF Receive, PushTypeOK, Works, Out!Status, Idle
<1>5. ASSUME NEW g \in Gateway, ReceiveCut(g) PROVE PushTypeOK'
  <2>1. queue[g] # << >> /\ work' = [work EXCEPT ![g] = Idle]
    BY <1>5 DEF ReceiveCut, Delivered, PushTypeOK
  <2> QED
    BY <1>5, <2>1, PopType DEF ReceiveCut
<1>6. ASSUME NEW g \in Gateway, ReceiveThrows(g) PROVE PushTypeOK'
  BY <1>6, DownType DEF ReceiveThrows, PushTypeOK
<1>7. ASSUME NEW g \in Gateway, Push(g) PROVE PushTypeOK'
  BY <1>7, PushPushType
<1>8. ASSUME NEW g \in Gateway, Ack(g) PROVE PushTypeOK'
  <2>1. queue[g] # << >>
    BY <1>8 DEF Ack, PushTypeOK
  <2> QED
    BY <1>8, <2>1, PopType DEF Ack
<1>9. ASSUME NEW g \in Gateway, Crash(g) PROVE PushTypeOK'
  <2>1. crashes' \in 0 .. MaxCrash
    BY <1>9, PushConstants DEF Crash, PushTypeOK
  <2> QED
    BY <1>9, <2>1, DownType DEF Crash
<1>10. ASSUME NEW g \in Gateway, Restart(g) PROVE PushTypeOK'
  <2>1. up' \subseteq Gateway /\ deaf' \subseteq up' /\ ClientsOK'
    BY <1>0, <1>10 DEF Restart, PushTypeOK, ClientsOK
  <2> QED
    BY <1>0, <1>10, <2>1, ProcessType DEF Restart, PushTypeOK
<1>11. ASSUME NEW g \in Gateway, Disconnect(g) PROVE PushTypeOK'
  <2>1. crashes' \in 0 .. MaxCrash
    BY <1>11, PushConstants DEF Disconnect, PushTypeOK
  <2>2. up' \subseteq Gateway /\ deaf' \subseteq up' /\ ClientsOK'
    BY <1>0, <1>11 DEF Disconnect, PushTypeOK, ClientsOK
  <2> QED
    BY <1>0, <1>11, <2>1, <2>2, ProcessType DEF Disconnect, PushTypeOK
<1>12. ASSUME NEW g \in Gateway, NEW u \in User, Connect(g, u) PROVE PushTypeOK'
  <2>1. online' \in [Gateway -> SUBSET User] /\ \A h \in Gateway : online'[h] # {} => h \in up'
    BY <1>0, <1>12 DEF Connect, ClientsOK
  <2>2. Begun(g) \in Nat
    BY PushLens
  <2>3. joined' \in [Gateway -> [User -> Nat]]
    BY <1>0, <1>12, <2>2 DEF Connect, ClientsOK
  <2>4. ClientsOK'
    BY <2>1, <2>3 DEF ClientsOK
  <2> QED
    BY <1>12, <2>4, ClientType DEF Connect
<1>13. ASSUME NEW g \in Gateway, NEW u \in User, Close(g, u) PROVE PushTypeOK'
  <2>1. online' \in [Gateway -> SUBSET User] /\ \A h \in Gateway : online'[h] # {} => h \in up'
    BY <1>0, <1>13 DEF Close, ClientsOK
  <2>2. joined' \in [Gateway -> [User -> Nat]]
    BY <1>0, <1>13 DEF Close, ClientsOK
  <2>3. ClientsOK'
    BY <2>1, <2>2 DEF ClientsOK
  <2> QED
    BY <1>13, <2>3, ClientType DEF Close
<1> QED
  BY <1>1, <1>2, <1>4, <1>5, <1>6, <1>7, <1>8, <1>9, <1>10, <1>11, <1>12, <1>13, PublishType
     DEF PushNext, Consumer

\* The queues and what a client has been sent are sequences of pushes; a gateway that
\* works on a push runs and has it at the head of its queue, and a dead one has no clients.
THEOREM PushTypes == PushSpec => []PushTypeOK
BY PushTypeInit, PushTypeStep, PTL DEF PushSpec

-------------------------------------------------------------------------------
(* The order of the messages                                                 *)

\* What a gateway's queue lacks of the pushes taken are the first Done(g) of them.
QueueIsTail == \A g \in Gateway : \A i \in 1 .. Len(queue[g]) : queue[g][i] = taken[Done(g) + i]
TakenOnce ==
  /\ \A i \in 1 .. Len(taken) : status[taken[i]] = "sent"
  /\ \A i, j \in 1 .. Len(taken) : taken[i] = taken[j] => i = j

\* What stands in got is no further along than the push its gateway works on.
InOrder(s, n) ==
  /\ \A i \in 1 .. Len(s) : \E k \in 1 .. Len(taken) : k <= n /\ s[i] = taken[k]
  /\ \A i, j \in 1 .. Len(s) : \A k, l \in 1 .. Len(taken) :
       i < j /\ s[i] = taken[k] /\ s[j] = taken[l] => k <= l
GotInOrder == \A g \in Gateway, u \in User : InOrder(got[g][u], Done(g) + 1)

\* The callback of g has been past u.
Visited(g, u) == work[g] # Idle /\ u \notin work[g].left

\* A push that u has got and that g is not through with counts for him; one that a
\* deaf gateway still walks through has been counted as a repetition in advance.
Lead(g, u) ==
  (IF Visited(g, u) THEN 1 ELSE 0) - (IF g \in deaf /\ work[g] # Idle THEN 1 ELSE 0)
GotCounted ==
  \A g \in Gateway, u \in User : Len(got[g][u]) <= Done(g) + crashes + Lead(g, u)

OrderInv == QueueIsTail /\ TakenOnce /\ GotInOrder /\ GotCounted

\* The push a gateway works on is the first its queue still has of those taken.
LEMMA NextTaken ==
  ASSUME PushTypeOK, OrderInv, NEW g \in Gateway, queue[g] # << >>
  PROVE  /\ Done(g) \in 0 .. Len(taken) - 1
         /\ Next1(g) = taken[Done(g) + 1]
<1>1. /\ Len(queue[g]) \in Nat \ {0} /\ Head(queue[g]) = queue[g][1] /\ Len(taken) \in Nat
      /\ Len(queue[g]) <= Len(taken)
  BY TailFacts, PushLens
<1>2. queue[g][1] = taken[Done(g) + 1]
  BY <1>1 DEF OrderInv, QueueIsTail
<1>3. Done(g) \in 0 .. Len(taken) - 1
  BY <1>1 DEF Done
<1> QED
  BY <1>1, <1>2, <1>3 DEF Next1

LEMMA OrderInit == PushInit => OrderInv
<1> SUFFICES ASSUME PushInit PROVE OrderInv
  OBVIOUS
<1>1. Len(taken) = 0 /\ crashes = 0 /\ deaf = {}
  BY DEF PushInit
<1>2. \A g \in Gateway : Len(queue[g]) = 0 /\ Done(g) = 0 /\ work[g] = Idle
  BY <1>1 DEF PushInit, Done
<1>3. \A g \in Gateway, u \in User : Len(got[g][u]) = 0
  BY DEF PushInit
<1>4. \A g \in Gateway, u \in User : Lead(g, u) = 0
  BY <1>1, <1>2 DEF Lead, Visited
<1> QED
  BY <1>1, <1>2, <1>3, <1>4 DEF OrderInv, QueueIsTail, TakenOnce, GotInOrder, InOrder, GotCounted

\* Steps that leave the pushes alone: a callback may begin or end, and what it was
\* ahead of its queue with is made up for by a counted death.
LEMMA OrderKept ==
  ASSUME PushTypeOK, OrderInv, UNCHANGED <<taken, queue, got>>,
         \A m \in Msg : status[m] = "sent" => status'[m] = "sent",
         crashes' \in Nat,
         \A g \in Gateway, u \in User : crashes + Lead(g, u) <= crashes' + Lead(g, u)'
  PROVE  OrderInv'
<1>1. \A g \in Gateway : Done(g)' = Done(g)
  BY DEF Done
<1>2. QueueIsTail'
  BY <1>1 DEF OrderInv, QueueIsTail
<1>3. GotInOrder'
  BY <1>1 DEF OrderInv, GotInOrder, InOrder
<1>4. TakenOnce'
  BY PushLens DEF OrderInv, TakenOnce
<1>5. GotCounted'
  <2> SUFFICES ASSUME NEW g \in Gateway, NEW u \in User
               PROVE  Len(got[g][u]) <= Done(g) + crashes' + Lead(g, u)'
    BY <1>1 DEF GotCounted
  <2>1. Len(got[g][u]) <= Done(g) + crashes + Lead(g, u)
    BY DEF OrderInv, GotCounted
  <2>2. Done(g) \in Nat /\ Len(got[g][u]) \in Nat /\ crashes \in Nat
    BY PushLens
  <2>3. crashes + Lead(g, u) <= crashes' + Lead(g, u)'
    OBVIOUS
  <2>4. Lead(g, u) \in Int /\ Lead(g, u)' \in Int
    BY DEF Lead
  <2> QED
    BY <2>1, <2>2, <2>3, <2>4
<1> QED
  BY <1>2, <1>3, <1>4, <1>5 DEF OrderInv

LEMMA PublishOrder == ASSUME PushTypeOK, OrderInv, NEW m \in Msg, Publish(m) PROVE OrderInv'
<1>1. /\ Len(taken') = Len(taken) + 1 /\ taken'[Len(taken) + 1] = m
      /\ \A i \in 1 .. Len(taken) : taken'[i] = taken[i]
      /\ Len(taken) \in Nat
  BY AppendFacts, PushLens DEF Publish
<1>2. ASSUME NEW g \in Gateway
      PROVE  /\ Len(queue'[g]) = Len(queue[g]) + 1 /\ queue'[g][Len(queue[g]) + 1] = m
             /\ \A i \in 1 .. Len(queue[g]) : queue'[g][i] = queue[g][i]
  <2>1. queue'[g] = Append(queue[g], m) /\ queue[g] \in Seq(Msg)
    BY DEF Publish, PushTypeOK
  <2> QED
    BY <2>1, AppendFacts
<1>3. ASSUME NEW g \in Gateway PROVE Done(g)' = Done(g)
  <2>1. Len(queue[g]) \in Nat
    BY PushLens
  <2>2. Len(taken') = Len(taken) + 1 /\ Len(queue'[g]) = Len(queue[g]) + 1
    BY <1>1, <1>2
  <2>3. Done(g)' = Len(taken') - Len(queue'[g]) /\ Done(g) = Len(taken) - Len(queue[g])
    BY DEF Done
  <2> QED
    BY <1>1, <2>1, <2>2, <2>3
<1>4. QueueIsTail'
  <2> SUFFICES ASSUME NEW g \in Gateway, NEW i \in 1 .. Len(queue'[g])
               PROVE  queue'[g][i] = taken'[Done(g) + i]
    BY <1>3 DEF QueueIsTail
  <2>1. Len(queue[g]) \in Nat /\ Len(queue[g]) <= Len(taken)
    BY PushLens
  <2>2. CASE i \in 1 .. Len(queue[g])
    <3>1. queue'[g][i] = taken[Done(g) + i]
      BY <1>2, <2>2 DEF OrderInv, QueueIsTail
    <3>2. Done(g) + i \in 1 .. Len(taken)
      BY <1>1, <2>1, <2>2 DEF Done
    <3> QED
      BY <1>1, <3>1, <3>2
  <2>3. CASE i = Len(queue[g]) + 1
    BY <1>1, <1>2, <2>1, <2>3 DEF Done
  <2> QED
    BY <1>2, <2>1, <2>2, <2>3
<1>5. TakenOnce'
  <2>1. status[m] = "queued" /\ status'[m] = "sent"
    BY DEF Publish, Out!Send, PushTypeOK
  <2>2. \A i \in 1 .. Len(taken) : taken[i] # m /\ status'[taken[i]] = "sent"
    BY <2>1, PushLens DEF OrderInv, TakenOnce, Publish, Out!Send, PushTypeOK
  <2> QED
    BY <1>1, <2>1, <2>2 DEF OrderInv, TakenOnce
<1>6. GotInOrder'
  <2> SUFFICES ASSUME NEW g \in Gateway, NEW u \in User PROVE InOrder(got[g][u], Done(g) + 1)'
    BY DEF GotInOrder
  <2>1. got' = got /\ InOrder(got[g][u], Done(g) + 1)
    BY DEF Publish, OrderInv, GotInOrder
  <2>2. \A i \in 1 .. Len(got[g][u]) : got[g][u][i] # m
    <3>1. \A k \in 1 .. Len(taken) : taken[k] # m
      BY DEF OrderInv, TakenOnce, Publish, Out!Send
    <3> QED
      BY <2>1, <3>1 DEF InOrder
  <2>3. \A i \in 1 .. Len(got[g][u]) : \A k \in 1 .. Len(taken') :
          got[g][u][i] = taken'[k] => k \in 1 .. Len(taken) /\ taken'[k] = taken[k]
    <3>1. \A k \in 1 .. Len(taken') : k \in 1 .. Len(taken) \/ k = Len(taken) + 1
      BY <1>1
    <3> QED
      BY <1>1, <2>2, <3>1
  <2>4. 1 .. Len(taken) \subseteq 1 .. Len(taken')
    BY <1>1
  <2>5. \A i \in 1 .. Len(got[g][u]) : \E k \in 1 .. Len(taken') :
          k <= Done(g) + 1 /\ got[g][u][i] = taken'[k]
    BY <1>1, <2>1, <2>4 DEF InOrder
  <2>6. \A i, j \in 1 .. Len(got[g][u]) : \A k, l \in 1 .. Len(taken') :
          i < j /\ got[g][u][i] = taken'[k] /\ got[g][u][j] = taken'[l] => k <= l
    BY <2>1, <2>3 DEF InOrder
  <2> QED
    BY <1>3, <2>1, <2>5, <2>6 DEF InOrder
<1>7. GotCounted'
  <2>1. \A g \in Gateway, u \in User : Lead(g, u)' = Lead(g, u)
    BY DEF Lead, Visited, Publish
  <2> QED
    BY <1>3, <2>1 DEF OrderInv, GotCounted, Publish
<1> QED
  BY <1>4, <1>5, <1>6, <1>7 DEF OrderInv

\* A delivery leaves the queue, after all targets or before the callback.
LEMMA PopOrder ==
  ASSUME PushTypeOK, OrderInv, NEW g \in Gateway, queue[g] # << >>, g \notin deaf,
         UNCHANGED <<status, taken, deaf, got, crashes>>,
         queue' = [queue EXCEPT ![g] = Tail(@)], work' = [work EXCEPT ![g] = Idle]
  PROVE  OrderInv'
<1>1. /\ Len(queue'[g]) = Len(queue[g]) - 1
      /\ \A i \in 1 .. Len(queue[g]) - 1 : queue'[g][i] = queue[g][i + 1]
      /\ \A h \in Gateway : h # g => queue'[h] = queue[h] /\ work'[h] = work[h]
      /\ Len(queue[g]) \in Nat \ {0} /\ Len(taken) \in Nat
      /\ work'[g] = Idle
  BY TailFacts, PushLens DEF PushTypeOK
<1>2. /\ Done(g)' = Done(g) + 1 /\ \A h \in Gateway : h # g => Done(h)' = Done(h)
      /\ \A h \in Gateway : Done(h) \in Nat
  <2>1. \A h \in Gateway : Done(h) \in Nat
    BY PushLens
  <2>2. \A h \in Gateway : h # g => Done(h)' = Done(h)
    BY <1>1 DEF Done
  <2>3. Done(g)' = Done(g) + 1
    <3>1. Done(g)' = Len(taken) - Len(queue'[g]) /\ Done(g) = Len(taken) - Len(queue[g])
      BY DEF Done
    <3>2. Len(queue'[g]) = Len(queue[g]) - 1
      BY <1>1
    <3> QED
      BY <1>1, <3>1, <3>2
  <2> QED
    BY <2>1, <2>2, <2>3
<1>3. QueueIsTail'
  <2> SUFFICES ASSUME NEW h \in Gateway, NEW i \in 1 .. Len(queue'[h])
               PROVE  queue'[h][i] = taken[Done(h)' + i]
    BY DEF QueueIsTail
  <2>1. \A j \in 1 .. Len(queue[h]) : queue[h][j] = taken[Done(h) + j]
    BY DEF OrderInv, QueueIsTail
  <2>2. CASE h = g
    <3>1. i + 1 \in 1 .. Len(queue[g]) /\ queue'[g][i] = queue[g][i + 1]
      BY <1>1, <2>2
    <3>2. Done(g) + (i + 1) = Done(g)' + i
      BY <1>1, <1>2, <2>2
    <3> QED
      BY <2>1, <2>2, <3>1, <3>2
  <2>3. CASE h # g
    BY <1>1, <1>2, <2>1, <2>3
  <2> QED
    BY <2>2, <2>3
<1>4. GotInOrder'
  <2> SUFFICES ASSUME NEW h \in Gateway, NEW u \in User PROVE InOrder(got[h][u], Done(h) + 1)'
    BY DEF GotInOrder
  <2>1. InOrder(got[h][u], Done(h) + 1) /\ got' = got /\ taken' = taken
    BY DEF OrderInv, GotInOrder
  <2>2. Done(h)' \in {Done(h), Done(h) + 1} /\ Done(h) \in Nat
    BY <1>2
  <2>3. \A k \in 1 .. Len(taken) : k <= Done(h) + 1 => k <= Done(h)' + 1
    BY <2>2
  <2> QED
    BY <2>1, <2>3 DEF InOrder
<1>5. GotCounted'
  <2> SUFFICES ASSUME NEW h \in Gateway, NEW u \in User
               PROVE  Len(got[h][u]) <= Done(h)' + crashes + Lead(h, u)'
    BY DEF GotCounted
  <2>1. Len(got[h][u]) <= Done(h) + crashes + Lead(h, u)
    BY DEF OrderInv, GotCounted
  <2>2. crashes \in Nat /\ Len(got[h][u]) \in Nat /\ Done(h) \in Nat
    BY PushLens
  <2>3. CASE h = g
    <3>1. Lead(h, u) \in {0, 1} /\ Lead(h, u)' = 0
      BY <1>1, <2>3 DEF Lead, Visited
    <3> QED
      BY <1>2, <2>1, <2>2, <2>3, <3>1
  <2>4. CASE h # g
    <3>1. Lead(h, u)' = Lead(h, u)
      BY <1>1, <2>4 DEF Lead, Visited
    <3> QED
      BY <1>2, <2>1, <2>4, <3>1
  <2> QED
    BY <2>3, <2>4
<1> QED
  BY <1>3, <1>4, <1>5 DEF OrderInv, TakenOnce

\* What Push does: u is passed over, or sent the push.
Sends(g, u) == u # SenderOf[Next1(g)] /\ u \in online[g]

LEMMA PushEffect ==
  ASSUME PushTypeOK, NEW g \in Gateway, Push(g)
  PROVE  /\ queue[g] # << >> /\ Next1(g) \in Msg
         /\ \E u \in User :
              /\ work[g] # Idle /\ u \in work[g].left
              /\ work'[g] # Idle /\ work'[g].left = work[g].left \ {u}
              /\ \A h \in Gateway : h # g => work'[h] = work[h]
              /\ \A h \in Gateway, v \in User : h # g \/ v # u => got'[h][v] = got[h][v]
              /\ Sends(g, u) => /\ Len(got'[g][u]) = Len(got[g][u]) + 1
                                /\ \A i \in 1 .. Len(got[g][u]) : got'[g][u][i] = got[g][u][i]
                                /\ got'[g][u][Len(got[g][u]) + 1] = Next1(g)
              /\ ~Sends(g, u) => got'[g][u] = got[g][u]
<1>1. queue[g] # << >> /\ Next1(g) \in Msg /\ work[g] \in [busy : {TRUE}, left : SUBSET User]
  BY TailFacts DEF Push, PushTypeOK, Next1
<1>2. PICK u \in work[g].left :
             /\ work' = [work EXCEPT ![g].left = @ \ {u}]
             /\ got' = IF Sends(g, u) THEN [got EXCEPT ![g][u] = Append(@, Next1(g))] ELSE got
  BY DEF Push, Sends
<1>3. u \in User /\ got[g][u] \in Seq(Msg)
  BY <1>1, <1>2 DEF PushTypeOK
<1>4. /\ work'[g] = [work[g] EXCEPT !.left = @ \ {u}]
      /\ \A h \in Gateway : h # g => work'[h] = work[h]
  BY <1>2 DEF PushTypeOK
<1>5. work'[g] # Idle /\ work'[g].left = work[g].left \ {u}
  BY <1>1, <1>4 DEF Idle
<1>6. \A h \in Gateway, v \in User : h # g \/ v # u => got'[h][v] = got[h][v]
  BY <1>2 DEF PushTypeOK
<1>7. Sends(g, u) => got'[g][u] = Append(got[g][u], Next1(g))
  BY <1>2, <1>3 DEF PushTypeOK
<1>8. Sends(g, u) => /\ Len(got'[g][u]) = Len(got[g][u]) + 1
                     /\ \A i \in 1 .. Len(got[g][u]) : got'[g][u][i] = got[g][u][i]
                     /\ got'[g][u][Len(got[g][u]) + 1] = Next1(g)
  BY <1>1, <1>3, <1>7, AppendFacts
<1> QED
  BY <1>1, <1>2, <1>3, <1>4, <1>5, <1>6, <1>8 DEF Push

LEMMA PushOrder == ASSUME PushTypeOK, OrderInv, NEW g \in Gateway, Push(g) PROVE OrderInv'
<1>1. queue[g] # << >> /\ UNCHANGED <<status, taken, queue, deaf, crashes>>
  BY PushEffect DEF Push
<1>2. PICK u \in User :
        /\ work[g] # Idle /\ u \in work[g].left
        /\ work'[g] # Idle /\ work'[g].left = work[g].left \ {u}
        /\ \A h \in Gateway : h # g => work'[h] = work[h]
        /\ \A h \in Gateway, v \in User : h # g \/ v # u => got'[h][v] = got[h][v]
        /\ Sends(g, u) => /\ Len(got'[g][u]) = Len(got[g][u]) + 1
                          /\ \A i \in 1 .. Len(got[g][u]) : got'[g][u][i] = got[g][u][i]
                          /\ got'[g][u][Len(got[g][u]) + 1] = Next1(g)
        /\ ~Sends(g, u) => got'[g][u] = got[g][u]
  BY PushEffect
<1>3. Done(g) \in 0 .. Len(taken) - 1 /\ Next1(g) = taken[Done(g) + 1] /\ Len(taken) \in Nat
  BY <1>1, NextTaken, PushLens
<1>4. QueueIsTail' /\ TakenOnce'
  <2>1. QueueIsTail'
    BY <1>1 DEF OrderInv, QueueIsTail, Done
  <2>2. TakenOnce'
    BY <1>1 DEF OrderInv, TakenOnce
  <2> QED
    BY <2>1, <2>2
<1>5. GotInOrder'
  <2> SUFFICES ASSUME NEW h \in Gateway, NEW v \in User PROVE InOrder(got[h][v], Done(h) + 1)'
    BY DEF GotInOrder
  <2>1. InOrder(got[h][v], Done(h) + 1) /\ taken' = taken /\ Done(h)' = Done(h)
    BY <1>1 DEF OrderInv, GotInOrder, Done
  <2>2. CASE got'[h][v] = got[h][v]
    BY <2>1, <2>2 DEF InOrder
  <2>3. CASE h = g /\ v = u /\ Sends(g, u)
    <3> DEFINE n == Len(got[g][u])
    <3>1. n \in Nat
      BY PushLens
    <3>2. Len(got'[g][u]) = n + 1 /\ got'[g][u][n + 1] = taken[Done(g) + 1]
      BY <1>2, <1>3, <2>3
    <3>3. \A i \in 1 .. n : got'[g][u][i] = got[g][u][i]
      BY <1>2, <2>3
    <3>4. Done(g) + 1 \in 1 .. Len(taken)
      BY <1>3
    <3> HIDE DEF n
    <3>5. ASSUME NEW i \in 1 .. n + 1
          PROVE  \E k \in 1 .. Len(taken) : k <= Done(g) + 1 /\ got'[g][u][i] = taken[k]
      <4>1. CASE i \in 1 .. n
        BY <2>1, <2>3, <3>1, <3>3, <4>1 DEF n, InOrder
      <4>2. CASE i = n + 1
        BY <1>3, <3>2, <3>4, <4>2
      <4> QED
        BY <3>1, <4>1, <4>2
    <3>6. ASSUME NEW i \in 1 .. n + 1, NEW j \in 1 .. n + 1,
                 NEW k \in 1 .. Len(taken), NEW l \in 1 .. Len(taken),
                 i < j, got'[g][u][i] = taken[k], got'[g][u][j] = taken[l]
          PROVE  k <= l
      <4>1. i \in 1 .. n
        BY <3>1, <3>6
      <4>2. CASE j \in 1 .. n
        BY <2>1, <2>3, <3>3, <3>6, <4>1, <4>2 DEF n, InOrder
      <4>3. CASE j = n + 1
        <5>1. l = Done(g) + 1
          BY <3>2, <3>4, <3>6, <4>3 DEF OrderInv, TakenOnce
        <5>2. PICK k0 \in 1 .. Len(taken) : k0 <= Done(g) + 1 /\ got[g][u][i] = taken[k0]
          BY <2>1, <2>3, <3>1, <4>1 DEF n, InOrder
        <5>3. k0 = k
          BY <3>3, <3>6, <4>1, <5>2 DEF OrderInv, TakenOnce
        <5> QED
          BY <5>1, <5>2, <5>3
      <4> QED
        BY <3>1, <4>2, <4>3
    <3> QED
      BY <2>1, <2>3, <3>1, <3>2, <3>5, <3>6 DEF InOrder
  <2> QED
    BY <1>2, <2>2, <2>3
<1>6. GotCounted'
  <2> SUFFICES ASSUME NEW h \in Gateway, NEW v \in User
               PROVE  Len(got'[h][v]) <= Done(h) + crashes + Lead(h, v)'
    BY <1>1 DEF GotCounted, Done
  <2>1. Len(got[h][v]) <= Done(h) + crashes + Lead(h, v)
    BY DEF OrderInv, GotCounted
  <2>2. crashes \in Nat /\ Len(got[h][v]) \in Nat /\ Done(h) \in Nat
    BY PushLens
  <2>3. Lead(h, v) \in Int /\ Lead(h, v)' \in Int /\ Lead(h, v) <= Lead(h, v)'
    BY <1>1, <1>2 DEF Lead, Visited
  <2>4. CASE got'[h][v] = got[h][v]
    BY <2>1, <2>2, <2>3, <2>4
  <2>5. CASE h = g /\ v = u /\ Sends(g, u)
    <3>1. Lead(h, v)' = Lead(h, v) + 1
      BY <1>1, <1>2, <2>5 DEF Lead, Visited
    <3>2. Len(got'[h][v]) = Len(got[h][v]) + 1
      BY <1>2, <2>5
    <3> QED
      BY <2>1, <2>2, <2>3, <3>1, <3>2
  <2> QED
    BY <1>2, <2>4, <2>5
<1> QED
  BY <1>4, <1>5, <1>6 DEF OrderInv

LEMMA OrderStep == PushTypeOK /\ OrderInv /\ [PushNext]_pushVars => OrderInv'
<1> SUFFICES ASSUME PushTypeOK, OrderInv, [PushNext]_pushVars PROVE OrderInv'
  OBVIOUS
<1>0. crashes \in Nat /\ \A g \in Gateway, u \in User : Lead(g, u) \in -1 .. 1
  BY PushLens DEF Lead
<1>1. ASSUME UNCHANGED <<taken, queue, work, deaf, got, crashes>>,
             \A x \in Msg : status[x] = "sent" => status'[x] = "sent"
      PROVE  OrderInv'
  <2>1. \A g \in Gateway, u \in User : crashes + Lead(g, u) <= crashes' + Lead(g, u)'
    BY <1>0, <1>1 DEF Lead, Visited
  <2> QED
    BY <1>0, <1>1, <2>1, OrderKept
<1>2. CASE UNCHANGED pushVars
  BY <1>1, <1>2 DEF pushVars
<1>3. ASSUME NEW m \in Msg, NewMessage(m) \/ Abandon(m) PROVE OrderInv'
  <2>1. \A x \in Msg : status[x] = "sent" => status'[x] = "sent"
    BY <1>3 DEF NewMessage, Abandon, Out!Accept, Out!Drop, PushTypeOK
  <2> QED
    BY <1>1, <1>3, <2>1 DEF NewMessage, Abandon
<1>4. ASSUME NEW g \in Gateway, Receive(g) PROVE OrderInv'
  <2>1. /\ g \notin deaf /\ work[g] = Idle /\ deaf' = deaf /\ crashes' = crashes
        /\ \A h \in Gateway : h # g => work'[h] = work[h]
    BY <1>4 DEF Receive, Delivered, PushTypeOK
  <2>2. \A h \in Gateway, u \in User : Lead(h, u) <= Lead(h, u)'
    BY <2>1 DEF Lead, Visited
  <2>3. \A h \in Gateway, u \in User : crashes + Lead(h, u) <= crashes' + Lead(h, u)'
    <3>1. \A h \in Gateway, u \in User : Lead(h, u)' \in Int
      BY DEF Lead
    <3> QED
      BY <1>0, <2>1, <2>2, <3>1
  <2> QED
    BY <1>0, <1>4, <2>1, <2>3, OrderKept DEF Receive
<1>5. ASSUME NEW g \in Gateway, ReceiveCut(g) PROVE OrderInv'
  <2>1. work' = [work EXCEPT ![g] = Idle] /\ queue[g] # << >> /\ g \notin deaf
    BY <1>5 DEF ReceiveCut, Delivered, PushTypeOK
  <2> QED
    BY <1>5, <2>1, PopOrder DEF ReceiveCut
<1>6. ASSUME NEW g \in Gateway, ReceiveThrows(g) \/ Crash(g) PROVE OrderInv'
  <2>1. /\ Down(g) /\ UNCHANGED <<status, taken, queue, got>>
        /\ \/ crashes' = crashes /\ (g \in deaf \/ work[g] = Idle)
           \/ crashes' = crashes + 1
    BY <1>6 DEF ReceiveThrows, Crash, Delivered
  <2>2. \A h \in Gateway, u \in User :
          /\ h # g => Lead(h, u)' = Lead(h, u)
          /\ Lead(g, u)' = 0
          /\ g \in deaf \/ work[g] = Idle => Lead(g, u) <= 0
    BY <2>1 DEF Down, Lead, Visited, PushTypeOK
  <2>3. \A h \in Gateway, u \in User : crashes + Lead(h, u) <= crashes' + Lead(h, u)'
    BY <1>0, <2>1, <2>2
  <2>4. crashes' \in Nat
    BY <1>0, <2>1
  <2> QED
    BY <2>1, <2>3, <2>4, OrderKept
<1>7. ASSUME NEW g \in Gateway, Ack(g) PROVE OrderInv'
  <2>1. CASE g \in deaf
    <3>1. \A h \in Gateway : h # g => work'[h] = work[h]
      BY <1>7 DEF Ack, PushTypeOK
    <3>2. work'[g] = Idle /\ work[g] # Idle /\ work[g].left = {} /\ deaf' = deaf
      BY <1>7 DEF Ack, PushTypeOK
    <3>3. \A h \in Gateway, u \in User : Lead(h, u)' = Lead(h, u)
      BY <2>1, <3>1, <3>2 DEF Lead, Visited
    <3>4. \A h \in Gateway, u \in User : crashes + Lead(h, u) <= crashes' + Lead(h, u)'
      BY <1>0, <1>7, <3>3 DEF Ack
    <3> QED
      BY <1>0, <1>7, <2>1, <3>4, OrderKept DEF Ack
  <2>2. CASE g \notin deaf
    <3>1. queue[g] # << >>
      BY <1>7 DEF Ack, PushTypeOK
    <3> QED
      BY <1>7, <2>2, <3>1, PopOrder DEF Ack
  <2> QED
    BY <2>1, <2>2
<1>8. ASSUME NEW g \in Gateway, Restart(g) PROVE OrderInv'
  BY <1>1, <1>8 DEF Restart
<1>9. ASSUME NEW g \in Gateway, Disconnect(g) PROVE OrderInv'
  <2>1. /\ crashes' = crashes + 1 /\ work' = work /\ deaf' = deaf \cup {g} /\ g \notin deaf
        /\ UNCHANGED <<status, taken, queue, got>>
    BY <1>9 DEF Disconnect
  <2>2. \A h \in Gateway, u \in User : Lead(h, u)' \in {Lead(h, u), Lead(h, u) - 1}
    BY <2>1 DEF Lead, Visited
  <2>3. \A h \in Gateway, u \in User : crashes + Lead(h, u) <= crashes' + Lead(h, u)'
    BY <1>0, <2>1, <2>2
  <2>4. crashes' \in Nat
    BY <1>0, <2>1
  <2> QED
    BY <2>1, <2>3, <2>4, OrderKept
<1>10. ASSUME NEW g \in Gateway, NEW u \in User, Connect(g, u) \/ Close(g, u) PROVE OrderInv'
  BY <1>1, <1>10 DEF Connect, Close
<1> QED
  BY <1>2, <1>3, <1>4, <1>5, <1>6, <1>7, <1>8, <1>9, <1>10, PublishOrder, PushOrder
     DEF PushNext, Consumer

LEMMA OrderInvHolds == PushSpec => []OrderInv
BY OrderInit, OrderStep, PushTypes, PTL DEF PushSpec

\* From one gateway a user sees messages in the order the broker took them, over all of
\* his connections, and each once but for one repetition per death of the gateway or
\* loss of its broker: the callback works on the first push of its queue and
\* acknowledges it before it takes the next (MQClient::consume).
THEOREM PushesStayInOrder == PushSpec => []PushesInOrder
<1>1. PushTypeOK /\ OrderInv => PushesInOrder
  <2> SUFFICES ASSUME PushTypeOK, OrderInv, NEW g \in Gateway, NEW u \in User
               PROVE  /\ \A i, j \in DOMAIN got[g][u] :
                           i < j => Place(got[g][u][i]) <= Place(got[g][u][j])
                      /\ Len(got[g][u]) <= Len(taken) + crashes
    BY DEF PushesInOrder
  <2> DEFINE s == got[g][u]
  <2>1. DOMAIN s = 1 .. Len(s) /\ DOMAIN taken = 1 .. Len(taken)
    BY LenNat, PushLens
  <2>2. \A k \in 1 .. Len(taken) : Place(taken[k]) \in 1 .. Len(taken) /\ taken[Place(taken[k])] = taken[k]
    BY <2>1 DEF Place
  <2>3. InOrder(s, Done(g) + 1)
    BY DEF OrderInv, GotInOrder
  <2>4. ASSUME NEW i \in 1 .. Len(s), NEW j \in 1 .. Len(s), i < j
        PROVE  Place(s[i]) <= Place(s[j])
    <3>1. PICK k \in 1 .. Len(taken) : s[i] = taken[k]
      BY <2>3 DEF InOrder
    <3>2. PICK l \in 1 .. Len(taken) : s[j] = taken[l]
      BY <2>3 DEF InOrder
    <3>3. Place(taken[k]) = k /\ Place(taken[l]) = l
      BY <2>2 DEF OrderInv, TakenOnce
    <3>4. k <= l
      BY <2>3, <2>4, <3>1, <3>2 DEF InOrder
    <3> QED
      BY <3>1, <3>2, <3>3, <3>4
  <2>5. Len(s) <= Len(taken) + crashes
    <3>1. Len(s) <= Done(g) + crashes + Lead(g, u)
      BY DEF OrderInv, GotCounted
    <3>2. crashes \in Nat /\ Len(s) \in Nat /\ Len(taken) \in Nat /\ Done(g) \in Nat
      BY PushLens
    <3>3. Done(g) <= Len(taken) /\ (queue[g] # << >> => Done(g) <= Len(taken) - 1)
      <4>1. Done(g) <= Len(taken)
        BY PushLens DEF Done
      <4> QED
        BY <3>2, <4>1, NextTaken
    <3>4. Lead(g, u) <= 0 \/ (Lead(g, u) = 1 /\ queue[g] # << >>)
      BY DEF Lead, Visited, PushTypeOK
    <3>5. Lead(g, u) \in Int
      BY DEF Lead
    <3> QED
      BY <3>1, <3>2, <3>3, <3>4, <3>5
  <2> QED
    BY <2>1, <2>4, <2>5
<1> QED
  BY <1>1, PushTypes, OrderInvHolds, PTL

-------------------------------------------------------------------------------
(* Nobody who stays is passed over                                           *)

\* u has all that g is through with since he came, and what g works on once the walk
\* has been past him.
Served(g, u) ==
  /\ \A i \in joined[g][u] + 1 .. Done(g) :
       taken[i] \notin Bar /\ u \in Receivers(taken[i]) => taken[i] \in PushedTo(g, u)
  /\ Visited(g, u) /\ joined[g][u] <= Done(g) /\ u \in Receivers(Next1(g)) =>
       Next1(g) \in PushedTo(g, u)
SkipInv == \A g \in Gateway : \A u \in online[g] : Served(g, u)

LEMMA PushedGrows ==
  ASSUME PushTypeOK, NEW g \in Gateway, Push(g), NEW h \in Gateway, NEW v \in User
  PROVE  PushedTo(h, v) \subseteq PushedTo(h, v)'
<1>1. PICK u \in User :
        /\ \A k \in Gateway, w \in User : k # g \/ w # u => got'[k][w] = got[k][w]
        /\ Sends(g, u) => /\ Len(got'[g][u]) = Len(got[g][u]) + 1
                          /\ \A i \in 1 .. Len(got[g][u]) : got'[g][u][i] = got[g][u][i]
        /\ ~Sends(g, u) => got'[g][u] = got[g][u]
  BY PushEffect
<1>2. CASE got'[h][v] = got[h][v]
  BY <1>2 DEF PushedTo
<1>3. CASE h = g /\ v = u /\ Sends(g, u)
  <2>1. /\ DOMAIN got[h][v] = 1 .. Len(got[h][v]) /\ DOMAIN got'[h][v] = 1 .. Len(got'[h][v])
        /\ Len(got[h][v]) \in Nat
    BY PushPushType, LenNat DEF PushTypeOK
  <2>2. \A i \in DOMAIN got[h][v] : i \in DOMAIN got'[h][v] /\ got'[h][v][i] = got[h][v][i]
    BY <1>1, <1>3, <2>1
  <2> QED
    BY <2>2 DEF PushedTo
<1> QED
  BY <1>1, <1>2, <1>3

LEMMA SkipInit == PushInit => SkipInv
BY DEF PushInit, SkipInv

\* Steps that leave the queues alone and send nothing.  A callback may end; who comes
\* is owed what is begun after he came.
LEMMA SkipKept ==
  ASSUME PushTypeOK, SkipInv, UNCHANGED <<taken, queue, got>>,
         \A g \in Gateway : work'[g] = work[g] \/ work'[g] = Idle,
         \A g \in Gateway : \A u \in online'[g] :
           u \in User /\ (\/ u \in online[g] /\ joined'[g][u] = joined[g][u]
                          \/ joined'[g][u] = Begun(g) /\ work'[g] = work[g])
  PROVE  SkipInv'
<1> SUFFICES ASSUME NEW g \in Gateway, NEW u \in online'[g] PROVE Served(g, u)'
  BY DEF SkipInv
<1>1. Done(g)' = Done(g) /\ Next1(g)' = Next1(g) /\ PushedTo(g, u)' = PushedTo(g, u)
  BY DEF Done, Next1, PushedTo
<1>2. Visited(g, u)' => Visited(g, u) /\ work'[g] = work[g]
  BY DEF Visited
<1>3. CASE u \in online[g] /\ joined'[g][u] = joined[g][u]
  <2>1. Served(g, u)
    BY <1>3 DEF SkipInv
  <2> QED
    BY <1>1, <1>2, <1>3, <2>1 DEF Served, Receivers
<1>4. CASE joined'[g][u] = Begun(g) /\ work'[g] = work[g]
  <2>1. Begun(g) \in Nat /\ Done(g) \in Nat /\ Done(g) <= Begun(g)
    BY PushLens
  <2>2. Visited(g, u) => Begun(g) = Done(g) + 1
    BY DEF Visited, Begun
  <2>3. joined'[g][u] + 1 .. Done(g) = {}
    BY <1>4, <2>1
  <2>4. Visited(g, u)' => ~(joined'[g][u] <= Done(g))
    BY <1>2, <1>4, <2>1, <2>2
  <2> QED
    BY <1>1, <2>3, <2>4 DEF Served
<1> QED
  BY <1>3, <1>4

LEMMA PublishSkip == ASSUME PushTypeOK, SkipInv, NEW m \in Msg, Publish(m) PROVE SkipInv'
<1> SUFFICES ASSUME NEW g \in Gateway, NEW u \in online[g] PROVE Served(g, u)'
  BY DEF SkipInv, Publish, clients
<1>1. /\ taken' = Append(taken, m) /\ taken \in Seq(Msg)
      /\ queue'[g] = Append(queue[g], m) /\ queue[g] \in Seq(Msg)
      /\ Len(taken) \in Nat /\ Len(queue[g]) \in Nat /\ Done(g) \in Nat /\ u \in User
      /\ joined[g][u] \in Nat
  BY PushLens DEF Publish, PushTypeOK
<1>2. \A i \in 1 .. Len(taken) : taken'[i] = taken[i]
  BY <1>1, AppendFacts
<1>3. queue[g] # << >> => Next1(g)' = Next1(g)
  BY <1>1 DEF Next1
<1>4. Done(g)' = Done(g) /\ Done(g) <= Len(taken)
  <2>1. Len(taken') = Len(taken) + 1 /\ Len(queue'[g]) = Len(queue[g]) + 1
    BY <1>1, AppendFacts
  <2>2. Done(g)' = Len(taken') - Len(queue'[g]) /\ Done(g) = Len(taken) - Len(queue[g])
    BY DEF Done
  <2> QED
    BY <1>1, <2>1, <2>2
<1>5. Visited(g, u) => queue[g] # << >>
  BY DEF Visited, PushTypeOK
<1>6. \A i \in joined[g][u] + 1 .. Done(g) : taken'[i] = taken[i]
  BY <1>1, <1>2, <1>4
<1>7. /\ joined' = joined /\ PushedTo(g, u)' = PushedTo(g, u)
      /\ Visited(g, u)' = Visited(g, u)
  BY DEF Publish, clients, PushedTo, Visited
<1>8. Served(g, u)
  BY DEF SkipInv
<1>9. \A i \in joined[g][u] + 1 .. Done(g) :
        taken'[i] \notin Bar /\ u \in Receivers(taken'[i]) => taken'[i] \in PushedTo(g, u)
  BY <1>6, <1>8 DEF Served
<1>10. Visited(g, u) /\ joined[g][u] <= Done(g) /\ u \in Receivers(Next1(g)') =>
         Next1(g)' \in PushedTo(g, u)
  BY <1>3, <1>5, <1>8 DEF Served
<1> QED
  BY <1>4, <1>7, <1>9, <1>10 DEF Served, Receivers

LEMMA ReceiveSkip == ASSUME PushTypeOK, SkipInv, NEW g \in Gateway, Receive(g) PROVE SkipInv'
<1> SUFFICES ASSUME NEW h \in Gateway, NEW u \in online[h] PROVE Served(h, u)'
  BY DEF SkipInv, Receive, clients
<1>1. /\ Served(h, u) /\ joined' = joined /\ taken' = taken
      /\ Done(h)' = Done(h) /\ Next1(h)' = Next1(h) /\ PushedTo(h, u)' = PushedTo(h, u)
  BY DEF SkipInv, Receive, clients, Done, Next1, PushedTo
<1>2. Visited(h, u)' /\ u \in Receivers(Next1(h)) => Visited(h, u)
  <2>1. CASE h = g
    <3>1. work'[h] = [busy |-> TRUE, left |-> TargetsOf[Next1(h)]]
      BY <2>1 DEF Receive, PushTypeOK
    <3> QED
      BY <3>1 DEF Visited, Receivers
  <2>2. CASE h # g
    BY <2>2 DEF Visited, Receive, PushTypeOK
  <2> QED
    BY <2>1, <2>2
<1> QED
  BY <1>1, <1>2 DEF Served, Receivers

\* A delivery leaves g's queue when the walk has been past everybody, or it has a '|'.
LEMMA PopSkip ==
  ASSUME PushTypeOK, OrderInv, SkipInv, NEW g \in Gateway, queue[g] # << >>,
         UNCHANGED <<taken, got, clients>>,
         queue' = [queue EXCEPT ![g] = Tail(@)], work' = [work EXCEPT ![g] = Idle],
         Next1(g) \in Bar \/ \A u \in User : Visited(g, u)
  PROVE  SkipInv'
<1> SUFFICES ASSUME NEW h \in Gateway, NEW u \in online[h] PROVE Served(h, u)'
  BY DEF SkipInv, clients
<1>1. Served(h, u) /\ u \in User /\ joined[h][u] \in Nat /\ joined' = joined
  BY PushLens DEF SkipInv, clients
<1>2. PushedTo(h, u)' = PushedTo(h, u) /\ taken' = taken
  BY DEF PushedTo
<1>3. CASE h # g
  <2>1. queue'[h] = queue[h] /\ work'[h] = work[h]
    BY <1>3 DEF PushTypeOK
  <2>2. Done(h)' = Done(h) /\ Visited(h, u)' = Visited(h, u) /\ Next1(h)' = Next1(h)
    BY <2>1 DEF Done, Visited, Next1
  <2> QED
    BY <1>1, <1>2, <2>2 DEF Served, Receivers
<1>4. CASE h = g
  <2>1. ~Visited(g, u)'
    BY DEF Visited, PushTypeOK
  <2>2. Done(g)' = Done(g) + 1 /\ Done(g) \in Nat /\ Next1(g) = taken[Done(g) + 1]
    <3>1. /\ Len(queue'[g]) = Len(queue[g]) - 1 /\ Len(taken) \in Nat /\ Len(queue[g]) \in Nat
      BY TailFacts, PushLens DEF PushTypeOK
    <3>2. Done(g)' = Len(taken) - Len(queue'[g]) /\ Done(g) = Len(taken) - Len(queue[g])
      BY DEF Done
    <3>3. Done(g)' = Done(g) + 1
      BY <3>1, <3>2
    <3> QED
      BY <3>3, NextTaken, PushLens
  <2>3. ASSUME NEW i \in joined[g][u] + 1 .. Done(g)', taken[i] \notin Bar,
               u \in Receivers(taken[i])
        PROVE  taken[i] \in PushedTo(g, u)
    <3>1. CASE i \in joined[g][u] + 1 .. Done(g)
      BY <1>1, <1>4, <2>3, <3>1 DEF Served
    <3>2. CASE i = Done(g) + 1
      <4>1. joined[g][u] <= Done(g)
        BY <1>1, <1>4, <2>2, <2>3, <3>2
      <4> QED
        BY <1>1, <1>4, <2>2, <2>3, <3>2, <4>1 DEF Served
    <3> QED
      BY <1>1, <1>4, <2>2, <2>3, <3>1, <3>2
  <2> QED
    BY <1>1, <1>2, <1>4, <2>1, <2>3 DEF Served, Receivers
<1> QED
  BY <1>3, <1>4

LEMMA PushSkip == ASSUME PushTypeOK, SkipInv, NEW g \in Gateway, Push(g) PROVE SkipInv'
<1> SUFFICES ASSUME NEW h \in Gateway, NEW v \in online[h] PROVE Served(h, v)'
  BY DEF SkipInv, Push, clients
<1>1. /\ Served(h, v) /\ v \in User /\ joined' = joined /\ taken' = taken
      /\ Done(h)' = Done(h) /\ Next1(h)' = Next1(h)
  BY PushLens DEF SkipInv, Push, clients, Done, Next1
<1>2. PushedTo(h, v) \subseteq PushedTo(h, v)'
  BY <1>1, PushedGrows
<1>3. PICK u \in User :
        /\ work[g] # Idle
        /\ work'[g].left = work[g].left \ {u}
        /\ \A k \in Gateway : k # g => work'[k] = work[k]
        /\ Sends(g, u) => /\ Len(got'[g][u]) = Len(got[g][u]) + 1
                          /\ got'[g][u][Len(got[g][u]) + 1] = Next1(g)
  BY PushEffect
<1>4. ASSUME Visited(h, v)', joined[h][v] <= Done(h), v \in Receivers(Next1(h))
      PROVE  Next1(h) \in PushedTo(h, v)'
  <2>1. CASE Visited(h, v)
    BY <1>1, <1>2, <1>4, <2>1 DEF Served
  <2>2. CASE ~Visited(h, v)
    <3>1. h = g /\ v = u
      BY <1>3, <1>4, <2>2 DEF Visited
    <3>2. Sends(g, u)
      BY <1>4, <3>1 DEF Sends, Receivers
    <3>3. Len(got[h][v]) \in Nat /\ DOMAIN got'[h][v] = 1 .. Len(got'[h][v])
      BY <1>1, PushPushType, LenNat, PushLens DEF PushTypeOK
    <3> QED
      BY <1>3, <3>1, <3>2, <3>3 DEF PushedTo
  <2> QED
    BY <2>1, <2>2
<1> QED
  BY <1>1, <1>2, <1>4 DEF Served, Receivers

LEMMA SkipStep == PushTypeOK /\ OrderInv /\ SkipInv /\ [PushNext]_pushVars => SkipInv'
<1> SUFFICES ASSUME PushTypeOK, OrderInv, SkipInv, [PushNext]_pushVars PROVE SkipInv'
  OBVIOUS
<1>0. \A g \in Gateway : online[g] \subseteq User
  BY PushLens
<1>1. CASE UNCHANGED pushVars
  BY <1>0, <1>1, SkipKept DEF pushVars, clients
<1>2. ASSUME NEW m \in Msg, NewMessage(m) \/ Abandon(m) PROVE SkipInv'
  BY <1>0, <1>2, SkipKept DEF NewMessage, Abandon, clients
<1>3. ASSUME NEW g \in Gateway, ReceiveCut(g) PROVE SkipInv'
  <2>1. work' = [work EXCEPT ![g] = Idle] /\ queue[g] # << >> /\ Next1(g) \in Bar
    BY <1>3 DEF ReceiveCut, Delivered, PushTypeOK
  <2> QED
    BY <1>3, <2>1, PopSkip DEF ReceiveCut
<1>4. ASSUME NEW g \in Gateway, ReceiveThrows(g) \/ Crash(g) PROVE SkipInv'
  <2>1. Down(g) /\ UNCHANGED <<taken, queue, got>>
    BY <1>4 DEF ReceiveThrows, Crash
  <2>2. \A h \in Gateway : work'[h] = work[h] \/ work'[h] = Idle
    BY <2>1 DEF Down, PushTypeOK
  <2>3. \A h \in Gateway : \A u \in online'[h] : u \in online[h] /\ joined'[h][u] = joined[h][u]
    BY <2>1 DEF Down, PushTypeOK
  <2> QED
    BY <1>0, <2>1, <2>2, <2>3, SkipKept
<1>5. ASSUME NEW g \in Gateway, Ack(g) PROVE SkipInv'
  <2>1. queue[g] # << >> /\ \A u \in User : Visited(g, u)
    BY <1>5 DEF Ack, PushTypeOK, Visited
  <2>2. CASE g \in deaf
    <3>1. \A h \in Gateway : work'[h] = work[h] \/ work'[h] = Idle
      BY <1>5 DEF Ack, PushTypeOK
    <3>2. UNCHANGED <<taken, queue, got, online, joined>>
      BY <1>5, <2>2 DEF Ack, clients
    <3> QED
      BY <1>0, <3>1, <3>2, SkipKept
  <2>3. CASE g \notin deaf
    BY <1>5, <2>1, <2>3, PopSkip DEF Ack
  <2> QED
    BY <2>2, <2>3
<1>6. ASSUME NEW g \in Gateway, Restart(g) \/ Disconnect(g) PROVE SkipInv'
  BY <1>0, <1>6, SkipKept DEF Restart, Disconnect, clients
<1>7. ASSUME NEW g \in Gateway, NEW v \in User, Connect(g, v) PROVE SkipInv'
  <2>1. UNCHANGED <<taken, queue, got, work>>
    BY <1>7 DEF Connect
  <2>2. ASSUME NEW h \in Gateway, NEW u \in online'[h]
        PROVE  u \in User /\ (\/ u \in online[h] /\ joined'[h][u] = joined[h][u]
                              \/ joined'[h][u] = Begun(h))
    <3>1. CASE h = g /\ u = v
      BY <1>7, <3>1 DEF Connect, PushTypeOK
    <3>2. CASE h # g \/ u # v
      <4>1. u \in online[h]
        BY <1>7, <3>2 DEF Connect, PushTypeOK
      <4>2. u \in User
        BY <1>0, <4>1
      <4>3. joined'[h][u] = joined[h][u]
        BY <1>7, <3>2, <4>2 DEF Connect, PushTypeOK
      <4> QED
        BY <4>1, <4>2, <4>3
    <3> QED
      BY <3>1, <3>2
  <2> QED
    BY <2>1, <2>2, SkipKept
<1>8. ASSUME NEW g \in Gateway, NEW v \in User, Close(g, v) PROVE SkipInv'
  <2>1. UNCHANGED <<taken, queue, got, work>>
    BY <1>8 DEF Close
  <2>2. \A h \in Gateway : \A u \in online'[h] : u \in online[h] /\ joined'[h][u] = joined[h][u]
    BY <1>0, <1>8 DEF Close, PushTypeOK
  <2> QED
    BY <1>0, <2>1, <2>2, SkipKept
<1> QED
  BY <1>1, <1>2, <1>3, <1>4, <1>5, <1>6, <1>7, <1>8, PublishSkip, ReceiveSkip, PushSkip
     DEF PushNext, Consumer

LEMMA SkipInvHolds == PushSpec => []SkipInv
BY SkipInit, SkipStep, PushTypes, OrderInvHolds, PTL DEF PushSpec

\* A user who stays connected to a gateway misses none of the pushes it acknowledges
\* from then on, but for those with a '|': the walk goes on past whoever is not there,
\* and a delivery that was not acknowledged comes again (MQClient::consume, callback).
THEOREM NoReceiverSkipped == PushSpec => []NoneSkipped
<1>1. SkipInv => NoneSkipped
  BY DEF SkipInv, NoneSkipped, Served
<1> QED
  BY <1>1, SkipInvHolds, PTL
===============================================================================

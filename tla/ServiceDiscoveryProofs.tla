------------------------- MODULE ServiceDiscoveryProofs -------------------------
(***************************************************************************)
(* Proofs about ServiceDiscovery, for any instances, keys and numbers of   *)
(* starts and faults: the types, and that the channel list agrees with     *)
(* etcd once the discovery thread has nothing left to do.                  *)
(***************************************************************************)
EXTENDS ServiceDiscovery, FiniteSetTheorems, SequenceTheorems, TLAPS

-------------------------------------------------------------------------------
(* Sequences                                                                 *)

\* Taking one element out of a sequence moves the later ones down.
LEMMA WithoutElements ==
  ASSUME NEW S, NEW s \in Seq(S), NEW c \in DOMAIN s
  PROVE  /\ Without(s, c) \in Seq(S)
         /\ Len(Without(s, c)) = Len(s) - 1
         /\ \A n \in 1 .. (Len(s) - 1) :
              Without(s, c)[n] = IF n < c THEN s[n] ELSE s[n + 1]
<1> DEFINE a == SubSeq(s, 1, c - 1)
           b == SubSeq(s, c + 1, Len(s))
           ab == a \o b
<1>1. c \in 1 .. Len(s) /\ Len(s) \in Nat /\ \A n \in 1 .. Len(s) : s[n] \in S
  BY LenProperties, ElementOfSeq
<1>2. /\ a \in Seq(S) /\ Len(a) = c - 1
      /\ \A n \in 1 .. (c - 1) : a[n] = s[n]
  BY <1>1, SubSeqProperties
<1>3. /\ b \in Seq(S) /\ Len(b) = Len(s) - c
      /\ \A n \in 1 .. (Len(s) - c) : b[n] = s[n + c]
  <2>1. /\ b \in Seq(S)
        /\ Len(b) = IF c + 1 <= Len(s) THEN Len(s) - (c + 1) + 1 ELSE 0
        /\ \A n \in 1 .. (Len(s) - (c + 1) + 1) : b[n] = s[(c + 1) + n - 1]
    BY <1>1, SubSeqProperties
  <2> HIDE DEF b
  <2>2. QED
    BY <1>1, <2>1
<1> HIDE DEF a, b
<1>4. /\ a \o b \in Seq(S) /\ Len(ab) = Len(a) + Len(b)
      /\ \A n \in 1 .. (Len(a) + Len(b)) :
           ab[n] = IF n <= Len(a) THEN a[n] ELSE b[n - Len(a)]
  BY <1>2, <1>3, ConcatProperties
<1> HIDE DEF ab
<1>5. ASSUME NEW n \in 1 .. (Len(s) - 1)
      PROVE  ab[n] = IF n < c THEN s[n] ELSE s[n + 1]
  <2>1. CASE n < c
    <3>1. n \in 1 .. (c - 1) /\ n <= Len(a) /\ n \in 1 .. (Len(a) + Len(b))
      BY <1>1, <1>2, <1>3, <2>1
    <3>2. ab[n] = a[n]
      BY <1>4, <3>1
    <3>3. QED
      BY <1>2, <2>1, <3>1, <3>2
  <2>2. CASE ~(n < c)
    <3>1. ab[n] = b[n - (c - 1)]
      <4>1. n \in 1 .. (Len(a) + Len(b)) /\ ~(n <= Len(a)) /\ n - Len(a) = n - (c - 1)
        BY <1>1, <1>2, <1>3, <2>2
      <4>2. QED
        BY <1>4, <4>1
    <3>2. n - (c - 1) \in 1 .. (Len(s) - c) /\ (n - (c - 1)) + c = n + 1
      BY <1>1, <2>2
    <3>3. QED
      BY <1>3, <2>2, <3>1, <3>2
  <2>3. QED
    BY <2>1, <2>2
<1>6. Len(ab) = Len(s) - 1
  BY <1>1, <1>2, <1>3, <1>4
<1>7. \A n \in 1 .. (Len(s) - 1) : ab[n] = IF n < c THEN s[n] ELSE s[n + 1]
  BY <1>5
<1>8. QED
  BY <1>4, <1>6, <1>7, Zenon DEF Without, a, b, ab

-------------------------------------------------------------------------------
(* Type correctness                                                          *)

LEMMA NotifyType ==
  ASSUME TypeOK, NEW e \in Event, NEW B \in SUBSET Instance, Notify(e, B)
  PROVE  inbox' \in Seq(Event) /\ tainted' \subseteq Instance
<1>1. e.inst \in Instance
  BY DEF Event
<1>2. QED
  BY <1>1 DEF TypeOK, Notify

\* Every variable keeps its type.
THEOREM TypeCorrect == Spec => []TypeOK
<1>1. Init => TypeOK
  <2> SUFFICES ASSUME Init PROVE TypeOK
    OBVIOUS
  <2>1. inbox \in Seq(Event) /\ channels \in Seq(Channel)
    BY EmptySeq DEF Init
  <2>2. index \in 0 .. (IndexCycle - 1) /\ starts \in 0 .. MaxStart /\ faults \in 0 .. MaxFault
    BY DiscoveryConstants DEF Init
  <2>3. binding \in [Key -> Instance \cup {None}] /\ kept \in [Key -> BOOLEAN]
    BY DEF Init
  <2>4. QED
    BY <2>1, <2>2, <2>3 DEF Init, TypeOK
<1>2. TypeOK /\ [Next]_vars => TypeOK'
  <2> SUFFICES ASSUME TypeOK, [Next]_vars PROVE TypeOK'
    OBVIOUS
  <2> USE DiscoveryConstants DEF DiscoveryConstants
  <2>1. ASSUME NEW i \in Instance, Start(i) PROVE TypeOK'
    <3>1. Put(i) \in Event /\ binding[KeyOf[i]] \in Instance \cup {None}
      BY DEF Put, Event, TypeOK
    <3>2. inbox' \in Seq(Event) /\ tainted' \subseteq Instance
      BY <2>1, <3>1, NotifyType DEF Start
    <3>3. QED
      BY <2>1, <3>2 DEF Start, TypeOK
  <2>2. ASSUME NEW i \in Instance, Stop(i) \/ LoseLease(i) PROVE TypeOK'
    <3>1. kept' \in [Key -> BOOLEAN]
      BY <2>2 DEF Stop, LoseLease, TypeOK, Registered
    <3>2. QED
      BY <2>2, <3>1 DEF Stop, LoseLease, TypeOK, caller
  <2>3. ASSUME NEW k \in Key, Expire(k) PROVE TypeOK'
    <3>1. Delete(binding[k]) \in Event
      BY <2>3 DEF Delete, Event, TypeOK, Expire
    <3>2. inbox' \in Seq(Event) /\ tainted' \subseteq Instance
      BY <2>3, <3>1, NotifyType DEF Expire
    <3>3. QED
      BY <2>3, <3>2 DEF Expire, TypeOK
  <2>4. ASSUME Ls PROVE TypeOK'
    <3> DEFINE found == {i \in Instance : Registered(i)}
    <3>1. IsFiniteSet(found)
      BY FS_Subset
    <3>2. Cardinality(found) \in Nat
      BY <3>1, FS_CardinalityType
    <3>3. inbox' \in Seq(Event)
      <4>1. CASE inbox' = << >>
        BY <4>1
      <4>2. ASSUME NEW s \in Orders(found), inbox' = [n \in DOMAIN s |-> Put(s[n])]
            PROVE  inbox' \in Seq(Event)
        <5>1. s \in [1 .. Cardinality(found) -> found]
          BY DEF Orders
        <5>2. inbox' \in [1 .. Cardinality(found) -> Event]
          BY <4>2, <5>1 DEF Put, Event
        <5>3. QED
          BY <3>2, <5>2, SeqDef
      <4>3. QED
        BY <2>4, <4>1, <4>2 DEF Ls
    <3>4. QED
      BY <2>4, <3>3 DEF Ls, TypeOK, etcd
  <2>5. CASE Watch
    BY <2>5 DEF Watch, TypeOK, etcd
  <2>6. ASSUME inbox # << >>
        PROVE  Head(inbox) \in Event /\ Tail(inbox) \in Seq(Event)
    BY <2>6 DEF TypeOK
  <2>7. CASE Online
    BY <2>6, <2>7 DEF Online, Takes, TypeOK, etcd, Event
  <2>8. CASE Push
    <3>1. [host |-> adding, named |-> FALSE] \in Channel
      BY <2>8 DEF Push, TypeOK, Channel
    <3>2. QED
      BY <2>8, <3>1 DEF Push, TypeOK, etcd
  <2>9. CASE Name
    <3>1. channels' \in Seq(Channel)
      <4>1. \A c \in DOMAIN channels : channels[c] \in Channel
        BY DEF TypeOK
      <4>2. channels' \in [1 .. Len(channels) -> Channel]
        <5>1. DOMAIN channels = 1 .. Len(channels)
          BY LenProperties DEF TypeOK
        <5>2. ASSUME NEW c \in DOMAIN channels
              PROVE  channels'[c] \in Channel
          BY <2>9, <4>1, <5>2 DEF Name, Channel
        <5>3. DOMAIN channels' = DOMAIN channels
          BY <2>9 DEF Name
        <5>4. channels' = [c \in DOMAIN channels |-> channels'[c]]
          BY <2>9 DEF Name
        <5>5. QED
          BY <5>1, <5>2, <5>4
      <4>3. QED
        BY <4>2, LenProperties, SeqDef DEF TypeOK
    <3>2. QED
      BY <2>9, <3>1 DEF Name, TypeOK, etcd
  <2>10. CASE Offline
    <3>1. channels' \in Seq(Channel)
      BY <2>10, WithoutElements DEF Offline, TypeOK
    <3>2. QED
      BY <2>6, <2>10, <3>1 DEF Offline, Takes, TypeOK, etcd
  <2>11. CASE BadResponse
    <3>1. inbox' \in Seq(Event)
      BY <2>11, EmptySeq DEF BadResponse
    <3>2. \A n \in DOMAIN inbox : inbox[n].inst \in Instance
      <4>1. inbox \in Seq(Event)
        BY DEF TypeOK
      <4>2. \A n \in DOMAIN inbox : inbox[n] \in Event
        BY <4>1, ElementOfSeq, LenProperties
      <4>3. QED
        BY <4>2 DEF Event
    <3>3. tainted' \subseteq Instance
      BY <2>11, <3>2 DEF BadResponse, TypeOK
    <3>4. QED
      BY <2>11, <3>1, <3>3 DEF BadResponse, TypeOK, etcd
  <2>12. CASE Choose
    <3>1. Len(channels) \in Nat \ {0}
      BY <2>12 DEF Choose, TypeOK
    <3>2. (index % Len(channels)) + 1 \in DOMAIN channels
      BY <3>1 DEF TypeOK
    <3>3. channels[(index % Len(channels)) + 1] \in Channel
      BY <3>2 DEF TypeOK
    <3>4. QED
      BY <2>12, <3>3 DEF Choose, TypeOK, etcd, Channel
  <2>13. CASE Die
    BY <2>13 DEF Die, TypeOK, etcd
  <2>14. CASE Restart
    <3>1. inbox' \in Seq(Event) /\ channels' \in Seq(Channel)
      BY <2>14, EmptySeq DEF Restart
    <3>2. index' \in 0 .. (IndexCycle - 1)
      BY <2>14 DEF Restart
    <3>3. QED
      BY <2>14, <3>1, <3>2 DEF Restart, TypeOK, etcd
  <2>15. CASE UNCHANGED vars
    BY <2>15 DEF vars, TypeOK
  <2>16. QED
    BY <2>1, <2>2, <2>3, <2>4, <2>5, <2>7, <2>8, <2>9, <2>10, <2>11, <2>12, <2>13,
       <2>14, <2>15 DEF Next, Discovery
<1>3. QED
  BY <1>1, <1>2, PTL DEF Spec

-------------------------------------------------------------------------------
(* The events of one instance                                                *)

\* Handling the events of i in q in their order takes a caller for which i is listed
\* or not (on) to what etcd has (reg): they are PUT and DELETE in turn, and fit both.
Chain(q, i, on, reg) ==
  /\ \A n \in DOMAIN q :
       q[n].inst = i /\ (\A m \in DOMAIN q : m < n => q[m].inst # i)
         => (q[n].type = "PUT" <=> ~on)
  /\ \A n, m \in DOMAIN q :
       n < m /\ q[n].inst = i /\ q[m].inst = i
         /\ (\A l \in DOMAIN q : n < l /\ l < m => q[l].inst # i)
         => q[n].type # q[m].type
  /\ \A n \in DOMAIN q :
       q[n].inst = i /\ (\A m \in DOMAIN q : n < m => q[m].inst # i)
         => (q[n].type = "PUT" <=> reg)
  /\ (\A n \in DOMAIN q : q[n].inst # i) => (on <=> reg)

LEMMA ChainAppend ==
  ASSUME NEW q \in Seq(Event), NEW i \in Instance, NEW on \in BOOLEAN,
         NEW reg \in BOOLEAN, NEW e \in Event, Chain(q, i, on, reg),
         e.inst = i, e.type = "PUT" <=> ~reg
  PROVE  Chain(Append(q, e), i, on, ~reg)
<1> DEFINE r == Append(q, e)
<1>1. /\ Len(q) \in Nat /\ DOMAIN q = 1 .. Len(q) /\ DOMAIN r = 1 .. (Len(q) + 1)
      /\ \A n \in 1 .. Len(q) : r[n] = q[n]
      /\ r[Len(q) + 1] = e
  BY AppendProperties, LenProperties
<1> HIDE DEF r
<1>2. \A n \in 1 .. Len(q) : q[n].type \in {"PUT", "DELETE"}
  <2>1. \A n \in 1 .. Len(q) : q[n] \in Event
    BY ElementOfSeq
  <2>2. QED
    BY <2>1 DEF Event
<1>3. e.type \in {"PUT", "DELETE"}
  BY DEF Event
<1>4. ASSUME NEW n \in DOMAIN r, r[n].inst = i, \A m \in DOMAIN r : m < n => r[m].inst # i
      PROVE  r[n].type = "PUT" <=> ~on
  <2>1. CASE n \in DOMAIN q
    BY <1>1, <1>4, <2>1 DEF Chain
  <2>2. CASE n = Len(q) + 1
    <3>1. \A m \in DOMAIN q : q[m].inst # i
      BY <1>1, <1>4, <2>2
    <3>2. QED
      BY <1>1, <2>2, <3>1 DEF Chain
  <2>3. QED
    BY <1>1, <2>1, <2>2
<1>5. ASSUME NEW n \in DOMAIN r, NEW m \in DOMAIN r, n < m, r[n].inst = i, r[m].inst = i,
             \A l \in DOMAIN r : n < l /\ l < m => r[l].inst # i
      PROVE  r[n].type # r[m].type
  <2>1. CASE m \in DOMAIN q
    BY <1>1, <1>5, <2>1 DEF Chain
  <2>2. CASE m = Len(q) + 1
    <3>1. n \in DOMAIN q /\ q[n] = r[n]
      BY <1>1, <1>5, <2>2
    <3>2. \A l \in DOMAIN q : n < l => q[l].inst # i
      BY <1>1, <1>5, <2>2
    <3>3. q[n].type = "PUT" <=> reg
      BY <1>5, <3>1, <3>2 DEF Chain
    <3>4. QED
      BY <1>1, <1>2, <1>3, <2>2, <3>1, <3>3
  <2>3. QED
    BY <1>1, <2>1, <2>2
<1>6. ASSUME NEW n \in DOMAIN r, r[n].inst = i, \A m \in DOMAIN r : n < m => r[m].inst # i
      PROVE  r[n].type = "PUT" <=> ~reg
  BY <1>1, <1>6
<1>7. ~ \A n \in DOMAIN r : r[n].inst # i
  BY <1>1
<1>8. QED
  BY <1>4, <1>5, <1>6, <1>7 DEF Chain, r

LEMMA ChainAppendOther ==
  ASSUME NEW q \in Seq(Event), NEW i \in Instance, NEW on \in BOOLEAN,
         NEW reg \in BOOLEAN, NEW e \in Event, Chain(q, i, on, reg), e.inst # i
  PROVE  Chain(Append(q, e), i, on, reg)
<1> DEFINE r == Append(q, e)
<1>1. /\ Len(q) \in Nat /\ DOMAIN q = 1 .. Len(q) /\ DOMAIN r = 1 .. (Len(q) + 1)
      /\ \A n \in 1 .. Len(q) : r[n] = q[n]
      /\ r[Len(q) + 1] = e
  BY AppendProperties, LenProperties
<1> HIDE DEF r
<1>2. \A n \in DOMAIN r : r[n].inst = i => n \in DOMAIN q
  BY <1>1
<1>3. \A n \in DOMAIN r : r[n].inst = i /\ (\A m \in DOMAIN r : m < n => r[m].inst # i)
        => (r[n].type = "PUT" <=> ~on)
  BY <1>1, <1>2 DEF Chain
<1>4. ASSUME NEW n \in DOMAIN r, NEW m \in DOMAIN r, n < m, r[n].inst = i, r[m].inst = i,
             \A l \in DOMAIN r : n < l /\ l < m => r[l].inst # i
      PROVE  r[n].type # r[m].type
  BY <1>1, <1>2, <1>4 DEF Chain
<1>5. \A n \in DOMAIN r : r[n].inst = i /\ (\A m \in DOMAIN r : n < m => r[m].inst # i)
        => (r[n].type = "PUT" <=> reg)
  BY <1>1, <1>2 DEF Chain
<1>6. (\A n \in DOMAIN r : r[n].inst # i) => (on <=> reg)
  BY <1>1 DEF Chain
<1>7. QED
  BY <1>3, <1>4, <1>5, <1>6 DEF Chain, r

LEMMA ChainTail ==
  ASSUME NEW q \in Seq(Event), NEW i \in Instance, NEW on \in BOOLEAN,
         NEW reg \in BOOLEAN, Chain(q, i, on, reg), q # << >>
  PROVE  /\ Head(q).inst = i => /\ Head(q).type = "PUT" <=> ~on
                                /\ Chain(Tail(q), i, ~on, reg)
         /\ Head(q).inst # i => Chain(Tail(q), i, on, reg)
<1> DEFINE r == Tail(q)
<1>1. /\ Len(q) \in Nat \ {0} /\ DOMAIN q = 1 .. Len(q) /\ DOMAIN r = 1 .. (Len(q) - 1)
      /\ \A n \in 1 .. (Len(q) - 1) : r[n] = q[n + 1]
      /\ Head(q) = q[1]
  BY HeadTailProperties, LenProperties, EmptySeq
<1> HIDE DEF r
<1>2. \A n \in 1 .. Len(q) : q[n].type \in {"PUT", "DELETE"}
  <2>1. \A n \in 1 .. Len(q) : q[n] \in Event
    BY ElementOfSeq
  <2>2. QED
    BY <2>1 DEF Event
<1>3. ASSUME NEW n \in DOMAIN r, NEW m \in DOMAIN r, n < m, r[n].inst = i, r[m].inst = i,
             \A l \in DOMAIN r : n < l /\ l < m => r[l].inst # i
      PROVE  r[n].type # r[m].type
  <2>1. \A l \in DOMAIN q : n + 1 < l /\ l < m + 1 => q[l].inst # i
    <3> SUFFICES ASSUME NEW l \in DOMAIN q, n + 1 < l, l < m + 1 PROVE q[l].inst # i
      OBVIOUS
    <3>1. l - 1 \in DOMAIN r /\ n < l - 1 /\ l - 1 < m /\ r[l - 1] = q[l]
      BY <1>1
    <3>2. QED
      BY <1>3, <3>1
  <2>2. n + 1 \in DOMAIN q /\ m + 1 \in DOMAIN q /\ n + 1 < m + 1
        /\ q[n + 1] = r[n] /\ q[m + 1] = r[m]
    BY <1>1, <1>3
  <2>3. QED
    BY <1>3, <2>1, <2>2 DEF Chain
<1>4. ASSUME NEW n \in DOMAIN r, r[n].inst = i, \A m \in DOMAIN r : n < m => r[m].inst # i
      PROVE  r[n].type = "PUT" <=> reg
  <2>1. \A l \in DOMAIN q : n + 1 < l => q[l].inst # i
    <3> SUFFICES ASSUME NEW l \in DOMAIN q, n + 1 < l PROVE q[l].inst # i
      OBVIOUS
    <3>1. l - 1 \in DOMAIN r /\ n < l - 1 /\ r[l - 1] = q[l]
      BY <1>1
    <3>2. QED
      BY <1>4, <3>1
  <2>2. n + 1 \in DOMAIN q /\ q[n + 1] = r[n]
    BY <1>1, <1>4
  <2>3. QED
    BY <1>4, <2>1, <2>2 DEF Chain
<1>5. \A l \in DOMAIN q : l = 1 \/ (l - 1 \in DOMAIN r /\ r[l - 1] = q[l])
  BY <1>1
<1>6. CASE q[1].inst = i
  <2>1. q[1].type = "PUT" <=> ~on
    BY <1>1, <1>6 DEF Chain
  <2>2. ASSUME NEW n \in DOMAIN r, r[n].inst = i, \A m \in DOMAIN r : m < n => r[m].inst # i
        PROVE  r[n].type = "PUT" <=> on
    <3>1. \A l \in DOMAIN q : 1 < l /\ l < n + 1 => q[l].inst # i
      <4> SUFFICES ASSUME NEW l \in DOMAIN q, 1 < l, l < n + 1 PROVE q[l].inst # i
        OBVIOUS
      <4>1. l - 1 \in DOMAIN r /\ l - 1 < n /\ r[l - 1] = q[l]
        BY <1>1
      <4>2. QED
        BY <2>2, <4>1
    <3>2. n + 1 \in DOMAIN q /\ 1 \in DOMAIN q /\ 1 < n + 1 /\ q[n + 1] = r[n]
      BY <1>1
    <3>3. q[1].type # q[n + 1].type
      BY <1>6, <2>2, <3>1, <3>2 DEF Chain
    <3>4. QED
      BY <1>1, <1>2, <2>1, <3>2, <3>3
  <2>3. ASSUME \A n \in DOMAIN r : r[n].inst # i
        PROVE  ~on <=> reg
    <3>1. \A m \in DOMAIN q : 1 < m => q[m].inst # i
      BY <1>1, <1>5, <2>3
    <3>2. QED
      BY <1>1, <1>6, <2>1, <3>1 DEF Chain
  <2>4. QED
    BY <1>1, <1>3, <1>4, <1>6, <2>1, <2>2, <2>3 DEF Chain, r
<1>7. CASE q[1].inst # i
  <2>1. ASSUME NEW n \in DOMAIN r, r[n].inst = i, \A m \in DOMAIN r : m < n => r[m].inst # i
        PROVE  r[n].type = "PUT" <=> ~on
    <3>1. \A l \in DOMAIN q : l < n + 1 => q[l].inst # i
      <4> SUFFICES ASSUME NEW l \in DOMAIN q, l < n + 1 PROVE q[l].inst # i
        OBVIOUS
      <4>1. l = 1 \/ (l - 1 \in DOMAIN r /\ l - 1 < n /\ r[l - 1] = q[l])
        BY <1>1
      <4>2. QED
        BY <1>7, <2>1, <4>1
    <3>2. n + 1 \in DOMAIN q /\ q[n + 1] = r[n]
      BY <1>1
    <3>3. QED
      BY <2>1, <3>1, <3>2 DEF Chain
  <2>2. (\A n \in DOMAIN r : r[n].inst # i) => (on <=> reg)
    BY <1>1, <1>5, <1>7 DEF Chain
  <2>3. QED
    BY <1>1, <1>3, <1>4, <1>7, <2>1, <2>2 DEF Chain, r
<1>8. QED
  BY <1>6, <1>7

LEMMA ChainEmpty ==
  ASSUME NEW i, NEW on \in BOOLEAN PROVE Chain(<< >>, i, on, on)
<1>1. DOMAIN << >> = {}
  OBVIOUS
<1>2. QED
  BY <1>1 DEF Chain

\* What an ls found, handed to put_cb one by one, leads an empty caller to what etcd has.
LEMMA ChainOrders ==
  ASSUME NEW S, IsFiniteSet(S), NEW s \in Orders(S), NEW i \in Instance
  PROVE  Chain([n \in DOMAIN s |-> Put(s[n])], i, FALSE, i \in S)
<1> DEFINE q == [n \in DOMAIN s |-> Put(s[n])]
<1>1. /\ s \in [1 .. Cardinality(S) -> S]
      /\ \A x \in S : \E n \in DOMAIN s : s[n] = x
      /\ \A n, m \in DOMAIN s : s[n] = s[m] => n = m
      /\ Cardinality(S) \in Nat
  BY FS_CardinalityType DEF Orders
<1>2. DOMAIN q = DOMAIN s /\ \A n \in DOMAIN s : q[n].type = "PUT" /\ q[n].inst = s[n]
  BY DEF Put
<1> HIDE DEF q
<1>3. \A n, m \in DOMAIN q : n < m => n # m
  BY <1>1, <1>2
<1>4. \A n \in DOMAIN q : q[n].inst = i => i \in S
  BY <1>1, <1>2
<1>5. i \in S => \E n \in DOMAIN q : q[n].inst = i
  BY <1>1, <1>2
<1>6. QED
  BY <1>1, <1>2, <1>3, <1>4, <1>5 DEF Chain, q

-------------------------------------------------------------------------------
(* The channel list agrees with etcd                                         *)

\* Instance i is listed, or append() is about to list it.
On(i) == Listed(i) \/ adding = i

\* An instance that no history of its own excuses: what is pending for it leads from
\* the caller's list to etcd, it is listed at most once, and _hosts names its channel
\* unless append() is still to do so.
Settled(i) ==
  /\ Chain(inbox, i, On(i), Registered(i))
  /\ \A c, d \in DOMAIN channels : channels[c].host = i /\ channels[d].host = i => c = d
  /\ \A c \in DOMAIN channels : channels[c].host = i => (channels[c].named <=> adding # i)

AgreeInv ==
  /\ \A k \in Key : binding[k] # None => KeyOf[binding[k]] = k
  /\ step = "idle" <=> adding = None
  /\ phase = "ls" => /\ inbox = << >> /\ channels = << >> /\ step = "idle"
                     /\ tainted = {}
  /\ step = "push" /\ adding \notin tainted => ~Listed(adding)
  /\ step = "name" => channels # << >> /\ channels[Len(channels)].host = adding
  /\ phase = "deaf" => inbox = << >> /\ step = "idle"
  /\ phase \in {"announce", "run", "deaf"} => \A i \in Instance \ tainted : Settled(i)

\* What an instance's event changes, when it is sent to the caller or missed by it.
LEMMA NotifyAgrees ==
  ASSUME TypeOK, AgreeInv, NEW e \in Event, NEW B \in SUBSET Instance, Notify(e, B),
         UNCHANGED <<phase, step, adding, channels>>,
         e.inst \in B \cup tainted \/ (e.type = "PUT" <=> ~Registered(e.inst)),
         e.inst \in B \cup tainted \/ Registered(e.inst)' = ~Registered(e.inst),
         \A j \in Instance \ (B \cup {e.inst}) : Registered(j)' = Registered(j),
         \A k \in Key : binding'[k] # None => KeyOf[binding'[k]] = k
  PROVE  AgreeInv'
<1>1. /\ tainted \subseteq tainted'
      /\ phase \in {"announce", "run", "deaf"} => B \subseteq tainted'
      /\ phase \in {"announce", "deaf"} => e.inst \in tainted'
  BY DEF Notify
<1>2. ASSUME NEW j \in Instance \ tainted', phase \in {"announce", "run", "deaf"}
      PROVE  Settled(j)'
  <2>1. Settled(j) /\ j \notin tainted /\ j \notin B
    BY <1>1, <1>2 DEF AgreeInv
  <2>2. On(j)' = On(j) /\ On(j) \in BOOLEAN /\ Registered(j) \in BOOLEAN
    BY DEF On, Listed, Registered
  <2>3. Chain(inbox', j, On(j), Registered(j)')
    <3>1. CASE phase \in {"announce", "deaf"}
      <4>1. inbox' = inbox /\ j # e.inst
        BY <1>1, <1>2, <3>1 DEF Notify
      <4>2. Registered(j)' = Registered(j)
        BY <2>1, <4>1
      <4>3. QED
        BY <2>1, <4>1, <4>2 DEF Settled
    <3>2. CASE phase = "run" /\ j # e.inst
      <4>1. inbox' = Append(inbox, e) /\ inbox \in Seq(Event)
        BY <3>2 DEF Notify, TypeOK
      <4>2. Registered(j)' = Registered(j)
        BY <2>1, <3>2
      <4>3. Chain(inbox, j, On(j), Registered(j))
        BY <2>1 DEF Settled
      <4>4. Chain(Append(inbox, e), j, On(j), Registered(j))
        BY <2>2, <3>2, <4>1, <4>3, ChainAppendOther
      <4>5. QED
        BY <4>1, <4>2, <4>4
    <3>3. CASE phase = "run" /\ j = e.inst
      <4>1. inbox' = Append(inbox, e) /\ inbox \in Seq(Event)
        BY <3>3 DEF Notify, TypeOK
      <4>2. Registered(j)' = ~Registered(j) /\ (e.type = "PUT" <=> ~Registered(j))
        BY <2>1, <3>3
      <4>3. Chain(inbox, j, On(j), Registered(j))
        BY <2>1 DEF Settled
      <4>4. Chain(Append(inbox, e), j, On(j), ~Registered(j))
        BY <2>2, <3>3, <4>1, <4>2, <4>3, ChainAppend
      <4>5. QED
        BY <4>1, <4>2, <4>4
    <3>4. QED
      BY <1>2, <3>1, <3>2, <3>3
  <2>4. QED
    BY <2>1, <2>2, <2>3 DEF Settled
<1>3. phase \in {"ls", "deaf"} => inbox' = << >>
  BY DEF AgreeInv, Notify
<1>4. phase = "ls" => tainted' = {}
  BY DEF AgreeInv, Notify
<1>5. QED
  BY <1>1, <1>2, <1>3, <1>4 DEF AgreeInv, Listed

LEMMA RegistryStepAgrees ==
  ASSUME TypeOK, AgreeInv,
         \/ \E i \in Instance : Start(i) \/ Stop(i) \/ LoseLease(i)
         \/ \E k \in Key : Expire(k)
  PROVE  AgreeInv'
<1> USE DiscoveryConstants
<1>1. ASSUME NEW i \in Instance, Start(i) PROVE AgreeInv'
  <2> DEFINE B == {binding[KeyOf[i]]} \ {None}
  <2>1. Put(i) \in Event /\ Put(i).inst = i /\ Put(i).type = "PUT"
    BY DEF Put, Event
  <2>2. KeyOf[i] \in Key /\ binding[KeyOf[i]] \in Instance \cup {None}
    BY DEF TypeOK
  <2>3. \A j \in Instance : Registered(j)' = IF j = i THEN TRUE
                                             ELSE Registered(j) /\ KeyOf[j] # KeyOf[i]
    BY <1>1 DEF Start, Registered, TypeOK
  <2>4. Registered(i) => i \in B
    BY DEF Registered
  <2>5. \A j \in Instance \ B : KeyOf[j] = KeyOf[i] => ~Registered(j)
    BY DEF Registered
  <2>6. \A k \in Key : binding'[k] # None => KeyOf[binding'[k]] = k
    BY <1>1, <2>2 DEF Start, AgreeInv, TypeOK
  <2>7. i \in B \/ (Put(i).type = "PUT" <=> ~Registered(i))
    BY <2>1, <2>4
  <2>8. i \in B \/ Registered(i)' = ~Registered(i)
    BY <2>3, <2>4
  <2>9. \A j \in Instance \ (B \cup {i}) : Registered(j)' = Registered(j)
    BY <2>3, <2>5 DEF Registered
  <2>10. Notify(Put(i), B) /\ UNCHANGED <<phase, step, adding, channels>>
    BY <1>1 DEF Start
  <2>11. B \in SUBSET Instance
    BY <2>2
  <2> HIDE DEF B
  <2>12. QED
    BY <2>1, <2>6, <2>7, <2>8, <2>9, <2>10, <2>11, NotifyAgrees
<1>2. ASSUME NEW i \in Instance, Stop(i) \/ LoseLease(i) PROVE AgreeInv'
  BY <1>2 DEF Stop, LoseLease, caller, AgreeInv, Settled, On, Listed, Registered
<1>3. ASSUME NEW k \in Key, Expire(k) PROVE AgreeInv'
  <2>0. PICK b \in Instance : b = binding[k]
    BY <1>3 DEF Expire, TypeOK
  <2>1. KeyOf[b] = k /\ Registered(b) /\ b # None
    BY <1>3, <2>0 DEF Expire, AgreeInv, Registered
  <2>2. Delete(b) \in Event /\ Delete(b).inst = b /\ Delete(b).type = "DELETE"
    BY <2>1 DEF Delete, Event
  <2>3. \A j \in Instance : Registered(j)' = (Registered(j) /\ j # b)
    BY <1>3, <2>0, <2>1 DEF Expire, Registered, TypeOK
  <2>4. \A l \in Key : binding'[l] # None => KeyOf[binding'[l]] = l
    BY <1>3 DEF Expire, AgreeInv, TypeOK
  <2>5. /\ Registered(Delete(b).inst)' = ~Registered(Delete(b).inst)
        /\ Delete(b).type = "PUT" <=> ~Registered(Delete(b).inst)
    BY <2>1, <2>2, <2>3 DEF Registered
  <2>6. \A j \in Instance \ ({} \cup {Delete(b).inst}) : Registered(j)' = Registered(j)
    BY <2>2, <2>3 DEF Registered
  <2>7. Notify(Delete(b), {}) /\ UNCHANGED <<phase, step, adding, channels>>
    BY <1>3, <2>0 DEF Expire
  <2>8. QED
    BY <2>2, <2>4, <2>5, <2>6, <2>7, NotifyAgrees
<1>4. QED
  BY <1>1, <1>2, <1>3

LEMMA LsAgrees == ASSUME TypeOK, AgreeInv, Ls PROVE AgreeInv'
<1> DEFINE found == {i \in Instance : Registered(i)}
<1>1. /\ channels = << >> /\ step = "idle" /\ adding = None /\ tainted = {}
      /\ UNCHANGED <<channels, step, adding, binding>>
  BY DEF AgreeInv, Ls, etcd
<1>2. ASSUME NEW i \in Instance
      PROVE  /\ On(i)' = FALSE /\ Registered(i)' = Registered(i)
             /\ (i \in found) = Registered(i) /\ Registered(i) \in BOOLEAN
  BY <1>1, DiscoveryConstants DEF On, Listed, Registered
<1>3. ASSUME NEW i \in Instance \ tainted' PROVE Settled(i)'
  <2>1. Chain(inbox', i, FALSE, Registered(i))
    <3>1. ASSUME NEW s \in Orders(found), inbox' = [n \in DOMAIN s |-> Put(s[n])]
          PROVE  Chain(inbox', i, FALSE, Registered(i))
      <4>1. IsFiniteSet(found)
        BY FS_Subset, DiscoveryConstants
      <4>2. Chain([n \in DOMAIN s |-> Put(s[n])], i, FALSE, i \in found)
        BY <4>1, ChainOrders
      <4>3. QED
        BY <1>2, <3>1, <4>2
    <3>2. CASE inbox' = << >> /\ tainted' = found
      <4>1. Registered(i) = FALSE
        BY <1>2, <1>3, <3>2
      <4>2. QED
        BY <3>2, <4>1, ChainEmpty
    <3>3. QED
      BY <3>1, <3>2 DEF Ls
  <2>2. channels' = << >> /\ DOMAIN << >> = {}
    BY <1>1
  <2>3. QED
    BY <1>1, <1>2, <2>1, <2>2 DEF Settled
<1>4. phase' = "announce"
  BY DEF Ls
<1>5. QED
  BY <1>1, <1>3, <1>4 DEF AgreeInv, Listed

LEMMA OnlineAgrees == ASSUME TypeOK, AgreeInv, Online PROVE AgreeInv'
<1> DEFINE h == Head(inbox)
<1>1. /\ inbox \in Seq(Event) /\ inbox # << >> /\ h \in Event /\ h.type = "PUT"
      /\ inbox' = Tail(inbox) /\ adding' = h.inst /\ step' = "push" /\ adding = None
      /\ phase \in {"announce", "run"} /\ h.inst \in Instance
      /\ UNCHANGED <<phase, channels, binding, tainted>>
  <2>1. inbox \in Seq(Event) /\ inbox # << >>
    BY DEF Online, Takes, TypeOK
  <2>2. h \in Event
    BY <2>1, HeadTailProperties
  <2>3. h.inst \in Instance
    BY <2>2 DEF Event
  <2>4. QED
    BY <2>1, <2>2, <2>3 DEF Online, Takes, AgreeInv, etcd
<1> HIDE DEF h
<1>2. ASSUME NEW i \in Instance \ tainted
      PROVE  Settled(i)' /\ (i = h.inst => ~Listed(i))
  <2>1. /\ Settled(i) /\ i # None
        /\ On(i) = Listed(i) /\ On(i)' = (Listed(i) \/ h.inst = i)
        /\ Registered(i)' = Registered(i)
        /\ On(i) \in BOOLEAN /\ Registered(i) \in BOOLEAN
    BY <1>1, DiscoveryConstants DEF AgreeInv, On, Listed, Registered
  <2>2. Chain(inbox, i, On(i), Registered(i))
    BY <2>1 DEF Settled
  <2>3. /\ h.inst = i => (h.type = "PUT" <=> ~On(i)) /\ Chain(Tail(inbox), i, ~On(i), Registered(i))
        /\ h.inst # i => Chain(Tail(inbox), i, On(i), Registered(i))
    BY <1>1, <2>1, <2>2, ChainTail DEF h
  <2>4. CASE h.inst = i
    <3>1. ~Listed(i) /\ On(i)' = ~On(i)
      BY <1>1, <2>1, <2>3, <2>4
    <3>2. Chain(inbox', i, On(i)', Registered(i)')
      BY <1>1, <2>1, <2>3, <2>4, <3>1
    <3>3. \A c \in DOMAIN channels : channels[c].host # i
      BY <3>1 DEF Listed
    <3>4. QED
      BY <1>1, <3>1, <3>2, <3>3 DEF Settled
  <2>5. CASE h.inst # i
    <3>1. On(i)' = On(i)
      BY <2>1, <2>5
    <3>2. Chain(inbox', i, On(i)', Registered(i)')
      BY <1>1, <2>1, <2>3, <2>5, <3>1
    <3>3. QED
      BY <1>1, <2>1, <2>5, <3>2 DEF Settled
  <2>6. QED
    BY <2>4, <2>5
<1>3. QED
  BY <1>1, <1>2, DiscoveryConstants DEF AgreeInv, Listed

LEMMA PushAgrees == ASSUME TypeOK, AgreeInv, Push PROVE AgreeInv'
<1> DEFINE x == [host |-> adding, named |-> FALSE]
<1>1. /\ channels \in Seq(Channel) /\ adding \in Instance /\ step = "push" /\ step' = "name"
      /\ channels' = Append(channels, x) /\ x \in Channel
      /\ UNCHANGED <<phase, inbox, adding, binding, tainted>>
      /\ phase \notin {"ls", "deaf"} /\ adding # None
  BY DiscoveryConstants DEF Push, TypeOK, AgreeInv, etcd, Channel
<1>2. /\ Len(channels) \in Nat /\ DOMAIN channels = 1 .. Len(channels)
      /\ channels' # << >> /\ Len(channels') = Len(channels) + 1
      /\ DOMAIN channels' = 1 .. (Len(channels) + 1)
      /\ \A c \in 1 .. Len(channels) : channels'[c] = channels[c]
      /\ channels'[Len(channels) + 1] = x
  <2>1. channels' \in Seq(Channel)
    BY <1>1, AppendProperties
  <2>2. QED
    BY <1>1, <2>1, AppendProperties, LenProperties
<1>3. channels'[Len(channels')].host = adding
  BY <1>2
<1>4. ASSUME NEW i \in Instance \ tainted, phase \in {"announce", "run", "deaf"}
      PROVE  Settled(i)'
  <2>1. Settled(i) /\ Registered(i)' = Registered(i)
    BY <1>1, <1>4 DEF AgreeInv, Registered
  <2>2. adding = i => \A c \in DOMAIN channels : channels[c].host # i
    BY <1>1, <1>4 DEF AgreeInv, Listed
  <2>3. On(i)' = On(i)
    BY <1>1, <1>2 DEF On, Listed
  <2>4. Chain(inbox', i, On(i)', Registered(i)')
    BY <1>1, <2>1, <2>3 DEF Settled
  <2>5. \A c, d \in DOMAIN channels' :
          channels'[c].host = i /\ channels'[d].host = i => c = d
    BY <1>2, <2>1, <2>2 DEF Settled
  <2>6. \A c \in DOMAIN channels' :
          channels'[c].host = i => (channels'[c].named <=> adding # i)
    BY <1>2, <2>1, <2>2 DEF Settled
  <2>7. QED
    BY <1>1, <2>4, <2>5, <2>6 DEF Settled
<1>5. QED
  BY <1>1, <1>2, <1>3, <1>4 DEF AgreeInv

LEMMA NameAgrees == ASSUME TypeOK, AgreeInv, Name PROVE AgreeInv'
<1>1. /\ channels \in Seq(Channel) /\ adding \in Instance /\ step = "name" /\ step' = "idle"
      /\ adding' = None /\ phase \notin {"ls", "deaf"}
      /\ channels # << >> /\ channels[Len(channels)].host = adding
      /\ UNCHANGED <<phase, inbox, binding, tainted>>
  BY DEF Name, TypeOK, AgreeInv, etcd
<1>2. DOMAIN channels' = DOMAIN channels
  BY DEF Name
<1>3. \A c \in DOMAIN channels :
        /\ channels'[c].host = channels[c].host
        /\ channels'[c].named = IF channels[c].host = adding THEN c = Len(channels)
                                ELSE channels[c].named
  <2>1. \A c \in DOMAIN channels : channels[c] \in Channel
    BY <1>1, ElementOfSeq, LenProperties
  <2>2. QED
    BY <2>1 DEF Name, Channel
<1>4. Len(channels) \in DOMAIN channels
  BY <1>1, EmptySeq, LenProperties
<1>5. ASSUME NEW i \in Instance \ tainted, phase \in {"announce", "run", "deaf"}
      PROVE  Settled(i)'
  <2>1. Settled(i) /\ Registered(i)' = Registered(i) /\ i # None
    BY <1>1, <1>5, DiscoveryConstants DEF AgreeInv, Registered
  <2>2. On(i)' = On(i)
    BY <1>1, <1>2, <1>3, <1>4, <2>1 DEF On, Listed
  <2>3. Chain(inbox', i, On(i)', Registered(i)')
    BY <1>1, <2>1, <2>2 DEF Settled
  <2>4. \A c, d \in DOMAIN channels' :
          channels'[c].host = i /\ channels'[d].host = i => c = d
    BY <1>2, <1>3, <2>1 DEF Settled
  <2>5. \A c \in DOMAIN channels' : channels'[c].host = i => channels'[c].named
    BY <1>1, <1>2, <1>3, <1>4, <2>1 DEF Settled
  <2>6. QED
    BY <1>1, <2>1, <2>3, <2>4, <2>5 DEF Settled
<1>6. QED
  BY <1>1, <1>5 DEF AgreeInv

LEMMA OfflineAgrees == ASSUME TypeOK, AgreeInv, Offline PROVE AgreeInv'
<1> DEFINE h == Head(inbox)
<1>1. /\ inbox \in Seq(Event) /\ inbox # << >> /\ h \in Event /\ h.type = "DELETE"
      /\ inbox' = Tail(inbox) /\ step = "idle" /\ adding = None /\ h.inst \in Instance
      /\ phase \in {"announce", "run"}
      /\ UNCHANGED <<phase, binding, tainted, adding, step>>
  <2>1. inbox \in Seq(Event) /\ inbox # << >>
    BY DEF Offline, Takes, TypeOK
  <2>2. h \in Event
    BY <2>1, HeadTailProperties
  <2>3. h.inst \in Instance
    BY <2>2 DEF Event
  <2>4. QED
    BY <2>1, <2>2, <2>3 DEF Offline, Takes, AgreeInv, etcd
<1>2. channels \in Seq(Channel) /\ Len(channels) \in Nat /\ DOMAIN channels = 1 .. Len(channels)
  BY LenProperties DEF TypeOK
<1>3. \A c \in DOMAIN channels : channels[c] \in Channel
  BY <1>2, ElementOfSeq
<1>4. \/ /\ UNCHANGED channels
         /\ \A c \in DOMAIN channels : channels[c] # [host |-> h.inst, named |-> TRUE]
      \/ \E c \in DOMAIN channels : /\ channels[c] = [host |-> h.inst, named |-> TRUE]
                                    /\ channels' = Without(channels, c)
  BY DEF Offline
<1> HIDE DEF h
<1>5. ASSUME NEW i \in Instance \ tainted PROVE Settled(i)'
  <2>1. /\ Settled(i) /\ i # None
        /\ On(i) = Listed(i) /\ On(i)' = Listed(i)'
        /\ Registered(i)' = Registered(i)
        /\ On(i) \in BOOLEAN /\ Registered(i) \in BOOLEAN
    BY <1>1, <1>5, DiscoveryConstants DEF AgreeInv, On, Listed, Registered
  <2>2. Chain(inbox, i, On(i), Registered(i))
    BY <2>1 DEF Settled
  <2>3. /\ h.inst = i => (h.type = "PUT" <=> ~On(i)) /\ Chain(Tail(inbox), i, ~On(i), Registered(i))
        /\ h.inst # i => Chain(Tail(inbox), i, On(i), Registered(i))
    BY <1>1, <2>1, <2>2, ChainTail DEF h
  <2>4. \A c \in DOMAIN channels : channels[c].host = i =>
          channels[c] = [host |-> i, named |-> TRUE]
    BY <1>1, <1>3, <2>1 DEF Settled, Channel
  <2>5. \A c, d \in DOMAIN channels : channels[c].host = i /\ channels[d].host = i => c = d
    BY <2>1 DEF Settled
  <2>6. CASE UNCHANGED channels
               /\ \A c \in DOMAIN channels : channels[c] # [host |-> h.inst, named |-> TRUE]
    <3>1. h.inst # i
      BY <1>1, <2>1, <2>3, <2>4, <2>6 DEF Listed
    <3>2. On(i)' = On(i)
      BY <2>1, <2>6 DEF Listed
    <3>3. Chain(inbox', i, On(i)', Registered(i)')
      BY <1>1, <2>1, <2>3, <3>1, <3>2
    <3>4. QED
      BY <1>1, <2>1, <2>6, <3>3 DEF Settled
  <2>7. ASSUME NEW c \in DOMAIN channels, channels[c] = [host |-> h.inst, named |-> TRUE],
               channels' = Without(channels, c)
        PROVE  Settled(i)'
    <3>1. /\ channels' \in Seq(Channel) /\ Len(channels') = Len(channels) - 1
          /\ \A n \in 1 .. (Len(channels) - 1) :
               channels'[n] = IF n < c THEN channels[n] ELSE channels[n + 1]
      BY <1>2, <2>7, WithoutElements
    <3>2. DOMAIN channels' = 1 .. (Len(channels) - 1)
      BY <3>1, LenProperties
    <3>3. c \in 1 .. Len(channels) /\ channels[c].host = h.inst
      BY <1>2, <2>7
    <3>4. \A n \in DOMAIN channels' : \E m \in DOMAIN channels :
            m # c /\ channels'[n] = channels[m] /\ (m = n \/ m = n + 1) /\ (m = n <=> n < c)
      <4> SUFFICES ASSUME NEW n \in DOMAIN channels'
                   PROVE  \E m \in DOMAIN channels : m # c /\ channels'[n] = channels[m]
                            /\ (m = n \/ m = n + 1) /\ (m = n <=> n < c)
        OBVIOUS
      <4>1. CASE n < c
        BY <1>2, <3>1, <3>2, <3>3, <4>1
      <4>2. CASE ~(n < c)
        <5>1. n + 1 \in DOMAIN channels /\ n + 1 # c /\ ~(n + 1 = n)
          BY <1>2, <3>2, <3>3, <4>2
        <5>2. channels'[n] = channels[n + 1]
          BY <3>1, <3>2, <4>2
        <5>3. QED
          BY <4>2, <5>1, <5>2
      <4>3. QED
        BY <4>1, <4>2
    <3>5. \A m \in DOMAIN channels : m # c =>
            \E n \in DOMAIN channels' : channels'[n] = channels[m]
      <4> SUFFICES ASSUME NEW m \in DOMAIN channels, m # c
                   PROVE  \E n \in DOMAIN channels' : channels'[n] = channels[m]
        OBVIOUS
      <4>1. CASE m < c
        BY <1>2, <3>1, <3>2, <3>3, <4>1
      <4>2. CASE m > c
        <5>1. m - 1 \in DOMAIN channels' /\ ~(m - 1 < c) /\ (m - 1) + 1 = m
          BY <1>2, <3>2, <3>3, <4>2
        <5>2. channels'[m - 1] = channels[m]
          BY <3>1, <3>2, <5>1
        <5>3. QED
          BY <5>1, <5>2
      <4>3. QED
        BY <1>2, <3>3, <4>1, <4>2
    <3>6. On(i)' = IF h.inst = i THEN ~On(i) ELSE On(i)
      <4>1. CASE h.inst = i
        <5>1. On(i)
          BY <2>1, <2>7, <3>3, <4>1 DEF Listed
        <5>2. ~Listed(i)'
          BY <2>5, <3>3, <3>4, <4>1 DEF Listed
        <5>3. Listed(i)' = FALSE /\ On(i) = TRUE
          BY <2>1, <5>1, <5>2 DEF Listed
        <5>4. QED
          BY <2>1, <4>1, <5>3
      <4>2. CASE h.inst # i
        <5>1. Listed(i)' <=> Listed(i)
          BY <3>3, <3>4, <3>5, <4>2 DEF Listed
        <5>2. Listed(i)' = Listed(i)
          BY <5>1 DEF Listed
        <5>3. QED
          BY <2>1, <4>2, <5>2
      <4>3. QED
        BY <4>1, <4>2
    <3>7. Chain(inbox', i, On(i)', Registered(i)')
      BY <1>1, <2>1, <2>3, <3>6
    <3>8. \A n, m \in DOMAIN channels' :
            channels'[n].host = i /\ channels'[m].host = i => n = m
      <4> SUFFICES ASSUME NEW n \in DOMAIN channels', NEW m \in DOMAIN channels',
                          channels'[n].host = i, channels'[m].host = i
                   PROVE  n = m
        OBVIOUS
      <4>1. PICK n1 \in DOMAIN channels : n1 # c /\ channels'[n] = channels[n1]
                 /\ (n1 = n \/ n1 = n + 1) /\ (n1 = n <=> n < c)
        BY <3>4
      <4>2. PICK m1 \in DOMAIN channels : m1 # c /\ channels'[m] = channels[m1]
                 /\ (m1 = m \/ m1 = m + 1) /\ (m1 = m <=> m < c)
        BY <3>4
      <4>3. n1 = m1
        BY <2>5, <4>1, <4>2
      <4>4. QED
        BY <1>2, <3>2, <3>3, <4>1, <4>2, <4>3
    <3>9. \A n \in DOMAIN channels' : channels'[n].host = i => channels'[n].named
      BY <2>4, <3>4
    <3>10. QED
      BY <1>1, <2>1, <3>7, <3>8, <3>9 DEF Settled
  <2>8. QED
    BY <1>4, <2>6, <2>7
<1>6. QED
  BY <1>1, <1>5 DEF AgreeInv

LEMMA BadResponseAgrees == ASSUME TypeOK, AgreeInv, BadResponse PROVE AgreeInv'
<1>1. /\ phase = "run" /\ phase' = "deaf" /\ step = "idle" /\ inbox' = << >>
      /\ tainted' = tainted \cup {inbox[n].inst : n \in DOMAIN inbox}
      /\ UNCHANGED <<step, adding, channels, binding>>
  BY DEF BadResponse, etcd
<1>2. ASSUME NEW i \in Instance \ tainted' PROVE Settled(i)'
  <2>1. /\ Settled(i) /\ \A n \in DOMAIN inbox : inbox[n].inst # i
        /\ On(i)' = On(i) /\ Registered(i)' = Registered(i)
        /\ On(i) \in BOOLEAN /\ Registered(i) \in BOOLEAN
    BY <1>1, <1>2 DEF AgreeInv, On, Listed, Registered
  <2>2. On(i) = Registered(i)
    BY <2>1 DEF Settled, Chain
  <2>3. Chain(<< >>, i, On(i), Registered(i))
    BY <2>1, <2>2, ChainEmpty
  <2>4. QED
    BY <1>1, <2>1, <2>3 DEF Settled
<1>3. QED
  BY <1>1, <1>2 DEF AgreeInv, Listed

LEMMA CallerStepAgrees ==
  ASSUME TypeOK, AgreeInv, Watch \/ Choose \/ Die \/ Restart \/ UNCHANGED vars
  PROVE  AgreeInv'
<1>1. CASE Watch
  BY <1>1 DEF Watch, etcd, AgreeInv, Settled, On, Listed, Registered
<1>2. CASE Choose
  BY <1>2 DEF Choose, etcd, AgreeInv, Settled, On, Listed, Registered
<1>3. CASE Die
  BY <1>3 DEF Die, etcd, AgreeInv, Listed
<1>4. CASE Restart
  BY <1>4, DiscoveryConstants DEF Restart, etcd, AgreeInv
<1>5. CASE UNCHANGED vars
  BY <1>5 DEF vars, AgreeInv, Settled, On, Listed, Registered
<1>6. QED
  BY <1>1, <1>2, <1>3, <1>4, <1>5

LEMMA AgreeInvariant == Spec => [](TypeOK /\ AgreeInv)
<1>1. Init => AgreeInv
  BY DiscoveryConstants DEF Init, AgreeInv
<1>2. TypeOK /\ AgreeInv /\ [Next]_vars => AgreeInv'
  BY RegistryStepAgrees, LsAgrees, OnlineAgrees, PushAgrees, NameAgrees, OfflineAgrees,
     BadResponseAgrees, CallerStepAgrees DEF Next, Discovery
<1>3. Spec => []TypeOK
  BY TypeCorrect
<1>4. QED
  BY <1>1, <1>2, <1>3, PTL DEF Spec

\* At rest the channel list holds the registered instances, once each.
THEOREM DirectoryIsRight == Spec => []DirectoryAgrees
<1>1. TypeOK /\ AgreeInv => DirectoryAgrees
  <2> SUFFICES ASSUME TypeOK, AgreeInv, Quiet, NEW i \in Instance \ tainted
               PROVE  /\ Registered(i) <=> Listed(i)
                      /\ \A c, d \in DOMAIN channels :
                           channels[c].host = i /\ channels[d].host = i => c = d
    BY DEF DirectoryAgrees
  <2>1. Settled(i) /\ inbox = << >> /\ adding = None /\ i # None
    BY DiscoveryConstants DEF AgreeInv, Quiet, Serving
  <2>2. On(i) <=> Registered(i)
    BY <2>1 DEF Settled, Chain
  <2>3. QED
    BY <2>1, <2>2 DEF Settled, On
<1>2. QED
  BY <1>1, AgreeInvariant, PTL

\* A registered instance whose events are all handled keeps choose() from dividing by zero.
THEOREM DeathIsDesertion == Spec => DiesOnlyDeserted
<1>1. ASSUME TypeOK, AgreeInv, [Next]_vars, phase' = "dead", phase # "dead", step # "push",
             NEW i \in Instance, Registered(i), i \notin tainted
      PROVE  \E n \in DOMAIN inbox : inbox[n].inst = i
  <2>1. Die
    <3>1. /\ \A k \in Instance : ~(Start(k) \/ Stop(k) \/ LoseLease(k))
          /\ \A k \in Key : ~Expire(k)
      BY <1>1 DEF Start, Stop, LoseLease, Expire, caller
    <3>2. ~Discovery /\ ~BadResponse /\ ~Choose /\ ~Restart /\ ~UNCHANGED vars
      BY <1>1 DEF Discovery, Ls, Watch, Online, Push, Name, Offline, BadResponse, Choose,
                  Restart, vars
    <3>3. QED
      BY <1>1, <3>1, <3>2 DEF Next
  <2>2. channels = << >>
    BY <1>1, <2>1 DEF Die, DivideByZero, Torn
  <2>3. step = "idle" /\ adding = None
    BY <1>1, <2>2 DEF AgreeInv, TypeOK
  <2>4. ~On(i)
    BY <2>2, <2>3, DiscoveryConstants DEF On, Listed
  <2>5. Settled(i)
    BY <1>1, <2>1 DEF AgreeInv, Die, Serving
  <2>6. QED
    BY <1>1, <2>4, <2>5 DEF Settled, Chain
<1>2. TypeOK /\ AgreeInv /\ [Next]_vars =>
        [phase' = "dead" /\ phase # "dead" =>
           \/ step = "push"
           \/ \A i \in Instance :
                Registered(i) => \/ i \in tainted
                                 \/ \E n \in DOMAIN inbox : inbox[n].inst = i]_vars
  BY <1>1
<1>3. QED
  BY <1>2, AgreeInvariant, PTL DEF Spec, DiesOnlyDeserted
================================================================================

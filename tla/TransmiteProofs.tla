--------------------------- MODULE TransmiteProofs ---------------------------
(***************************************************************************)
(* What GetTransmitTarget gives a message: its id, and its receivers.      *)
(*                                                                         *)
(* Ids (Snowflake).  For every set of Transmite processes with distinct    *)
(* machine-id bits, any sequence width and any clock that is not set back: *)
(* no id is ever returned twice, and the ids of one process increase.      *)
(* UniqueIds is not inductive: it says nothing of where the next id lies.  *)
(* IdInv adds that every id returned so far was made from a <<time, seq>>  *)
(* pair its generator has already passed (Passed), so the next one is new. *)
(*                                                                         *)
(* Receivers (SessionMemberCache).  For any number of members, threads and *)
(* processes: somebody removed is off every list within StaleBound, and an *)
(* empty list that stands for a failed query is gone within EmptyBound.    *)
(* The lists carry no age, so ListInv bounds it by what is left of their   *)
(* life: the seconds since the removal and the seconds an entry still has  *)
(* to live never add up to more than the level it is on allows.            *)
(***************************************************************************)
EXTENDS Snowflake, SessionMemberCache, FiniteSetTheorems, TLAPS

-------------------------------------------------------------------------------
(* Ids: what a generator has used up                                         *)

\* The generator of n is past the pair <<t, s>>: it will not use it again.
Passed(n, t, s) ==
  /\ t \in Epoch .. clock[n]
  /\ s \in 0 .. SeqLimit - 1
  /\ \/ t < lastTime[n]
     \/ /\ t = lastTime[n]
        /\ spin[n] \/ ~up[n] \/ s <= seq[n]
     \/ /\ lastTime[n] = 0
        /\ t < clock[n]

MadeBy(n, id) == \E t, s \in Nat : id = Id(t, n, s) /\ Passed(n, t, s)

IdInv ==
  /\ TypeOK
  /\ \A n \in Node : lastTime[n] <= clock[n]
  /\ \A n \in Node : spin[n] => up[n]
  /\ \A id \in issued : \E n \in Node : MadeBy(n, id)
  /\ \A n \in Node : latest[n] = -1 \/ MadeBy(n, latest[n])
  /\ UniqueIds

-------------------------------------------------------------------------------
(* Bit fields as mixed-radix arithmetic                                      *)

\* A larger high field makes a larger number, whatever the low fields.
LEMMA HighFieldWins ==
  ASSUME NEW K \in Nat \ {0}, NEW a \in Nat, NEW c \in Nat, a < c,
         NEW b \in 0 .. K - 1, NEW d \in 0 .. K - 1
  PROVE  a * K + b < c * K + d
<1>1. PICK e \in Nat : c = a + 1 + e
  <2>1. c - (a + 1) \in Nat
    OBVIOUS
  <2>2. c = a + 1 + (c - (a + 1))
    OBVIOUS
  <2> QED
    BY <2>1, <2>2
<1>2. c * K = a * K + K + e * K
  BY <1>1, SMT
<1>3. e * K \in Nat /\ a * K \in Nat
  OBVIOUS
<1> QED
  BY <1>2, <1>3

\* Two numbers are equal only if both fields are.
LEMMA FieldsDetermined ==
  ASSUME NEW K \in Nat \ {0}, NEW a \in Nat, NEW c \in Nat,
         NEW b \in 0 .. K - 1, NEW d \in 0 .. K - 1,
         a * K + b = c * K + d
  PROVE  a = c /\ b = d
<1>1. CASE a < c
  <2>1. a * K + b < c * K + d
    BY <1>1, HighFieldWins
  <2>2. a * K \in Nat /\ c * K \in Nat
    OBVIOUS
  <2> QED
    BY <2>1, <2>2
<1>2. CASE c < a
  <2>1. c * K + d < a * K + b
    BY <1>2, HighFieldWins
  <2>2. a * K \in Nat /\ c * K \in Nat
    OBVIOUS
  <2> QED
    BY <2>1, <2>2
<1>3. CASE a = c
  <2>1. a * K \in Nat
    OBVIOUS
  <2> QED
    BY <1>3, <2>1
<1> QED
  BY <1>1, <1>2, <1>3

\* The machine-id field of a process.
LEMMA MachField ==
  ASSUME NEW n \in Node
  PROVE  MachineId[n] % MachLimit \in 0 .. MachLimit - 1
BY SnowflakeConstants

\* The two upper fields, time and machine id, as one number.
LEMMA UpperNat ==
  ASSUME NEW n \in Node, NEW t \in Nat, Epoch <= t
  PROVE  (t - Epoch) * MachLimit + (MachineId[n] % MachLimit) \in Nat
<1>1. t - Epoch \in Nat /\ MachLimit \in Nat
  BY SnowflakeConstants
<1>2. (t - Epoch) * MachLimit \in Nat
  BY <1>1
<1> QED
  BY <1>2, MachField, SnowflakeConstants

LEMMA IdNat ==
  ASSUME NEW n \in Node, NEW t \in Nat, Epoch <= t, NEW s \in 0 .. SeqLimit - 1
  PROVE  Id(t, n, s) \in Nat
<1> DEFINE u == (t - Epoch) * MachLimit + (MachineId[n] % MachLimit)
<1>1. u \in Nat /\ SeqLimit \in Nat
  BY UpperNat, SnowflakeConstants
<1>2. u * SeqLimit \in Nat
  BY <1>1
<1> QED
  BY <1>2, SnowflakeConstants DEF Id

\* Different processes, or different pairs of one process, make different ids.
LEMMA IdInjective ==
  ASSUME DistinctMachines,
         NEW m \in Node, NEW n \in Node,
         NEW t \in Nat, NEW u \in Nat, Epoch <= t, Epoch <= u,
         NEW r \in 0 .. SeqLimit - 1, NEW s \in 0 .. SeqLimit - 1,
         Id(t, m, r) = Id(u, n, s)
  PROVE  m = n /\ t = u /\ r = s
<1> DEFINE hi(x, k) == (x - Epoch) * MachLimit + (MachineId[k] % MachLimit)
<1>1. hi(t, m) \in Nat /\ hi(u, n) \in Nat
  BY UpperNat
<1>2. hi(t, m) * SeqLimit + r = hi(u, n) * SeqLimit + s
  BY DEF Id
<1>3. hi(t, m) = hi(u, n) /\ r = s
  <2> DEFINE a == hi(t, m)
             c == hi(u, n)
  <2>1. a \in Nat /\ c \in Nat /\ a * SeqLimit + r = c * SeqLimit + s
    BY <1>1, <1>2
  <2>2. a = c /\ r = s
    <3> HIDE DEF a, c
    <3> QED
      BY <2>1, FieldsDetermined, SnowflakeConstants
  <2> QED
    BY <2>2
<1>4. t - Epoch \in Nat /\ u - Epoch \in Nat
  BY SnowflakeConstants
<1>5. t - Epoch = u - Epoch /\ MachineId[m] % MachLimit = MachineId[n] % MachLimit
  <2>1. (t - Epoch) * MachLimit + (MachineId[m] % MachLimit)
          = (u - Epoch) * MachLimit + (MachineId[n] % MachLimit)
    BY <1>3
  <2> QED
    BY <2>1, <1>4, MachField, FieldsDetermined, SnowflakeConstants
<1>6. t = u
  BY <1>5, SnowflakeConstants
<1> QED
  BY <1>3, <1>5, <1>6 DEF DistinctMachines

\* A later pair of the same process makes a larger id.
LEMMA IdMonotone ==
  ASSUME NEW n \in Node,
         NEW t \in Nat, NEW u \in Nat, Epoch <= t, Epoch <= u,
         NEW r \in 0 .. SeqLimit - 1, NEW s \in 0 .. SeqLimit - 1,
         t < u \/ (t = u /\ r < s)
  PROVE  Id(t, n, r) < Id(u, n, s)
<1> DEFINE hi(x) == (x - Epoch) * MachLimit + (MachineId[n] % MachLimit)
<1>1. hi(t) \in Nat /\ hi(u) \in Nat
  BY UpperNat
<1>2. CASE t < u
  <2>1. t - Epoch \in Nat /\ u - Epoch \in Nat /\ t - Epoch < u - Epoch
    BY <1>2, SnowflakeConstants
  <2>2. hi(t) < hi(u)
    BY <2>1, MachField, HighFieldWins, SnowflakeConstants
  <2> DEFINE a == hi(t)
             c == hi(u)
  <2>3. a * SeqLimit + r < c * SeqLimit + s
    <3>1. a \in Nat /\ c \in Nat /\ a < c
      BY <1>1, <2>2
    <3> HIDE DEF a, c
    <3> QED
      BY <3>1, HighFieldWins, SnowflakeConstants
  <2> QED
    BY <2>3 DEF Id
<1>3. CASE t = u /\ r < s
  <2> DEFINE a == hi(t)
  <2>1. a * SeqLimit \in Nat
    <3>1. a \in Nat
      BY <1>1
    <3> HIDE DEF a
    <3> QED
      BY <3>1, SnowflakeConstants
  <2> QED
    BY <1>3, <2>1, SnowflakeConstants DEF Id
<1> QED
  BY <1>2, <1>3

-------------------------------------------------------------------------------
(* The inductive invariant                                                   *)

\* What a call returns is new, and larger than what its process returned before,
\* when it was made from a pair the generator has not passed.
LEMMA NewId ==
  ASSUME DistinctMachines, IdInv,
         NEW n \in Node, NEW u \in Nat, Epoch <= u, NEW s \in 0 .. SeqLimit - 1,
         \A t, r \in Nat : Passed(n, t, r) => t < u \/ (t = u /\ r < s)
  PROVE  Id(u, n, s) \notin issued /\ latest[n] < Id(u, n, s)
<1>1. Id(u, n, s) \notin issued
  <2> SUFFICES ASSUME Id(u, n, s) \in issued PROVE FALSE
    OBVIOUS
  <2>1. PICK m \in Node : MadeBy(m, Id(u, n, s))
    BY DEF IdInv
  <2>2. PICK t \in Nat, r \in Nat : Id(u, n, s) = Id(t, m, r) /\ Passed(m, t, r)
    BY <2>1 DEF MadeBy
  <2>3. Epoch <= t /\ r \in 0 .. SeqLimit - 1
    BY <2>2, SnowflakeConstants DEF Passed, IdInv, TypeOK, Time
  <2>4. m = n /\ t = u /\ r = s
    BY <2>2, <2>3, IdInjective
  <2> QED
    BY <2>2, <2>4
<1>2. latest[n] < Id(u, n, s)
  <2>1. Id(u, n, s) \in Nat
    BY IdNat
  <2>2. CASE latest[n] = -1
    BY <2>1, <2>2
  <2>3. CASE MadeBy(n, latest[n])
    <3>1. PICK t \in Nat, r \in Nat : latest[n] = Id(t, n, r) /\ Passed(n, t, r)
      BY <2>3 DEF MadeBy
    <3>2. Epoch <= t /\ r \in 0 .. SeqLimit - 1
      BY <3>1, SnowflakeConstants DEF Passed, IdInv, TypeOK, Time
    <3> QED
      BY <3>1, <3>2, IdMonotone
  <2> QED
    BY <2>2, <2>3 DEF IdInv
<1> QED
  BY <1>1, <1>2

\* A step that only makes generators pass more pairs keeps every id accounted for.
LEMMA PassedKept ==
  ASSUME NEW S, NEW n \in Node, NEW id \in S,
         \A m \in Node : \A t, r \in Nat : Passed(m, t, r) => Passed(m, t, r)',
         MadeBy(n, id)
  PROVE  MadeBy(n, id)'
BY DEF MadeBy, Id

\* A call that returns the id of a new pair, which its generator has now passed,
\* keeps the invariant.
LEMMA ReturnKeeps ==
  ASSUME DistinctMachines, IdInv, TypeOK',
         NEW n \in Node, NEW u \in Nat, Epoch <= u, NEW s \in 0 .. SeqLimit - 1,
         Return(n, Id(u, n, s)),
         \A t, r \in Nat : Passed(n, t, r) => t < u \/ (t = u /\ r < s),
         Passed(n, u, s)',
         \A m \in Node : \A t, r \in Nat : Passed(m, t, r) => Passed(m, t, r)',
         \A m \in Node : (lastTime[m] <= clock[m])',
         \A m \in Node : (spin[m] => up[m])'
  PROVE  IdInv' /\ latest[n] < latest'[n]
<1> DEFINE id == Id(u, n, s)
<1>1. id \notin issued /\ latest[n] < id
  BY NewId
<1>2. id \in Nat
  BY IdNat
<1>3. latest' = [latest EXCEPT ![n] = id] /\ issued' = issued \cup {id} /\ calls' = calls + 1
  BY DEF Return
<1>4. MadeBy(n, id)'
  <2>1. u \in Nat /\ s \in Nat
    BY SnowflakeConstants
  <2> QED
    BY <2>1 DEF MadeBy, Id
<1>5. \A i \in issued' : \E m \in Node : MadeBy(m, i)'
  <2> TAKE i \in issued'
  <2>1. CASE i = id
    BY <2>1, <1>4
  <2>2. CASE i \in issued
    <3>1. PICK m \in Node : MadeBy(m, i)
      BY <2>2 DEF IdInv
    <3> QED
      BY <3>1, <2>2, PassedKept
  <2> QED
    BY <1>3, <2>1, <2>2
<1>6. \A m \in Node : (latest[m] = -1 \/ MadeBy(m, latest[m]))'
  <2> TAKE m \in Node
  <2>1. CASE m = n
    <3>1. latest'[m] = id
      BY <1>3, <2>1 DEF IdInv, TypeOK
    <3>2. MadeBy(m, id)'
      BY <1>4, <2>1
    <3> QED
      BY <3>1, <3>2 DEF MadeBy
  <2>2. CASE m # n
    <3>1. latest'[m] = latest[m]
      BY <1>3, <2>2 DEF IdInv, TypeOK
    <3>2. CASE latest[m] = -1
      BY <3>1, <3>2
    <3>3. CASE MadeBy(m, latest[m])
      <4>1. PICK t \in Nat, r \in Nat : latest[m] = Id(t, m, r) /\ Passed(m, t, r)
        BY <3>3 DEF MadeBy
      <4>2. Passed(m, t, r)'
        BY <4>1
      <4> QED
        BY <3>1, <4>1, <4>2 DEF MadeBy, Id
    <3> QED
      BY <3>2, <3>3 DEF IdInv
  <2> QED
    BY <2>1, <2>2
<1>7. Cardinality(issued') = calls'
  BY <1>1, <1>3, FS_AddElement DEF IdInv, TypeOK, UniqueIds
<1>8. latest[n] < latest'[n]
  BY <1>1, <1>3 DEF IdInv, TypeOK
<1> QED
  BY <1>5, <1>6, <1>7, <1>8 DEF IdInv, UniqueIds

\* A step that returns nothing keeps the invariant when no pair is un-passed.
LEMMA QuietKeeps ==
  ASSUME IdInv, TypeOK', UNCHANGED <<issued, calls, latest>>,
         \A m \in Node : \A t, r \in Nat : Passed(m, t, r) => Passed(m, t, r)',
         \A m \in Node : (lastTime[m] <= clock[m])',
         \A m \in Node : (spin[m] => up[m])'
  PROVE  IdInv'
<1>1. \A id \in issued' : \E m \in Node : MadeBy(m, id)'
  BY PassedKept DEF IdInv
<1>2. \A m \in Node : (latest[m] = -1 \/ MadeBy(m, latest[m]))'
  <2> TAKE m \in Node
  <2>1. CASE latest[m] = -1
    BY <2>1
  <2>2. CASE MadeBy(m, latest[m])
    <3>1. PICK t \in Nat, r \in Nat : latest[m] = Id(t, m, r) /\ Passed(m, t, r)
      BY <2>2 DEF MadeBy
    <3>2. Passed(m, t, r)'
      BY <3>1
    <3> QED
      BY <3>1, <3>2 DEF MadeBy, Id
  <2> QED
    BY <2>1, <2>2 DEF IdInv
<1> QED
  BY <1>1, <1>2 DEF IdInv, UniqueIds

\* Returning an id keeps the types of the history variables.
LEMMA ReturnType ==
  ASSUME TypeOK, NEW n \in Node, NEW u \in Nat, Epoch <= u,
         NEW s \in 0 .. SeqLimit - 1, Return(n, Id(u, n, s))
  PROVE  /\ issued' \subseteq Nat
         /\ IsFiniteSet(issued')
         /\ calls' \in Nat
         /\ latest' \in [Node -> Int]
<1>1. Id(u, n, s) \in Nat
  BY IdNat
<1>2. IsFiniteSet(issued \cup {Id(u, n, s)})
  BY FS_AddElement DEF TypeOK
<1>3. issued' \subseteq Nat /\ IsFiniteSet(issued')
  BY <1>1, <1>2 DEF TypeOK, Return
<1>4. calls' \in Nat /\ latest' \in [Node -> Int]
  <2> DEFINE id == Id(u, n, s)
  <2>1. id \in Int /\ calls' = calls + 1 /\ latest' = [latest EXCEPT ![n] = id]
    BY <1>1 DEF Return
  <2> HIDE DEF id
  <2> QED
    BY <2>1 DEF TypeOK
<1> QED
  BY <1>3, <1>4

LEMMA NextIdKeeps ==
  ASSUME DistinctMachines, IdInv, NEW n \in Node, NextId(n)
  PROVE  IdInv' /\ latest[n] <= latest'[n] /\ \A m \in Node \ {n} : latest'[m] = latest[m]
<1> USE SnowflakeConstants
<1>1. clock[n] \in Nat /\ Epoch <= clock[n] /\ clock[n] # 0 /\ up[n] /\ ~spin[n] /\ seq[n] \in 0 .. SeqLimit - 1
  BY DEF IdInv, TypeOK, Time, NextId
<1>2. lastTime[n] <= clock[n] /\ lastTime[n] \in Nat
  BY DEF IdInv, TypeOK, Time
<1>3. CASE clock[n] = lastTime[n] /\ seq[n] + 1 = SeqLimit
  <2>1. (seq[n] + 1) % SeqLimit = 0
    BY <1>3
  <2>2. seq' = [seq EXCEPT ![n] = 0] /\ spin' = [spin EXCEPT ![n] = TRUE]
    BY <1>3, <2>1 DEF NextId, IdInv, TypeOK
  <2>3. UNCHANGED <<lastTime, issued, calls, latest, clock, up>>
    BY <1>3, <2>1, <2>2 DEF NextId, IdInv, TypeOK
  <2>4. TypeOK'
    BY <2>2, <2>3 DEF IdInv, TypeOK
  <2>5. \A m \in Node : \A t, r \in Nat : Passed(m, t, r) => Passed(m, t, r)'
    BY <2>2, <2>3 DEF Passed, IdInv, TypeOK
  <2>6. \A m \in Node : (lastTime[m] <= clock[m])' /\ (spin[m] => up[m])'
    BY <1>1, <2>2, <2>3 DEF IdInv, TypeOK
  <2>7. IdInv'
    BY <2>3, <2>4, <2>5, <2>6, QuietKeeps
  <2> QED
    BY <2>3, <2>7 DEF IdInv, TypeOK
<1>4. CASE clock[n] = lastTime[n] /\ seq[n] + 1 < SeqLimit
  <2>1. PICK c \in Nat, s \in 0 .. SeqLimit - 1 : c = clock[n] /\ s = seq[n] + 1
    BY <1>1, <1>4
  <2>2. (seq[n] + 1) % SeqLimit = s /\ s # 0
    BY <1>1, <1>4, <2>1
  <2>3. seq' = [seq EXCEPT ![n] = s]
    BY <1>4, <2>2 DEF NextId
  <2>4. seq'[n] = s
    BY <2>3 DEF IdInv, TypeOK
  <2>5. Return(n, Id(c, n, s)) /\ UNCHANGED <<lastTime, clock, up, spin>>
    BY <1>4, <2>1, <2>2, <2>4 DEF NextId
  <2>6. TypeOK'
    BY <1>1, <2>1, <2>3, <2>5, ReturnType DEF IdInv, TypeOK
  <2>7. \A m \in Node : \A t, r \in Nat : Passed(m, t, r) => Passed(m, t, r)'
    BY <1>1, <2>1, <2>3, <2>5 DEF Passed, IdInv, TypeOK
  <2>8. \A t, r \in Nat : Passed(n, t, r) => t < c \/ (t = c /\ r < s)
    BY <1>1, <1>2, <1>4, <2>1 DEF Passed
  <2>9. Passed(n, c, s)'
    BY <1>1, <1>4, <2>1, <2>4, <2>5 DEF Passed
  <2>10. \A m \in Node : (lastTime[m] <= clock[m])' /\ (spin[m] => up[m])'
    BY <2>5 DEF IdInv
  <2>11. IdInv' /\ latest[n] < latest'[n]
    <3>1. Epoch <= c /\ IdInv
      BY <1>1, <2>1
    <3>2. (\A m \in Node : (lastTime[m] <= clock[m])') /\ (\A m \in Node : (spin[m] => up[m])')
      BY <2>10
    <3>3. Return(n, Id(c, n, s))
      BY <2>5
    <3> QED
      BY <2>6, <2>7, <2>8, <2>9, <3>1, <3>2, <3>3, ReturnKeeps
  <2> QED
    BY <2>5, <2>11 DEF Return, IdInv, TypeOK
<1>5. CASE clock[n] # lastTime[n]
  <2>1. seq' = [seq EXCEPT ![n] = 0] /\ lastTime' = [lastTime EXCEPT ![n] = clock[n]]
    BY <1>5 DEF NextId
  <2>2. Return(n, Id(clock[n], n, 0)) /\ UNCHANGED <<clock, up, spin>>
    BY <1>5 DEF NextId
  <2>3. 0 \in 0 .. SeqLimit - 1
    OBVIOUS
  <2>4. TypeOK'
    BY <1>1, <2>1, <2>2, <2>3, ReturnType DEF IdInv, TypeOK
  <2>5. \A m \in Node : \A t, r \in Nat : Passed(m, t, r) => Passed(m, t, r)'
    BY <1>1, <1>2, <1>5, <2>1, <2>2 DEF Passed, IdInv, TypeOK
  <2>6. \A t, r \in Nat : Passed(n, t, r) => t < clock[n] \/ (t = clock[n] /\ r < 0)
    BY <1>1, <1>2, <1>5 DEF Passed
  <2>7. Passed(n, clock[n], 0)'
    BY <1>1, <2>1, <2>2, <2>3 DEF Passed, IdInv, TypeOK
  <2>8. \A m \in Node : (lastTime[m] <= clock[m])' /\ (spin[m] => up[m])'
    BY <1>1, <2>1, <2>2 DEF IdInv, TypeOK
  <2>9. IdInv' /\ latest[n] < latest'[n]
    BY <1>1, <2>2, <2>3, <2>4, <2>5, <2>6, <2>7, <2>8, ReturnKeeps
  <2> QED
    BY <2>2, <2>9 DEF Return, IdInv, TypeOK
<1> QED
  BY <1>1, <1>3, <1>4, <1>5

LEMMA SpinExitKeeps ==
  ASSUME DistinctMachines, IdInv, NEW n \in Node, SpinExit(n)
  PROVE  IdInv' /\ latest[n] <= latest'[n] /\ \A m \in Node \ {n} : latest'[m] = latest[m]
<1> USE SnowflakeConstants
<1>1. clock[n] \in Nat /\ Epoch <= clock[n] /\ seq[n] \in 0 .. SeqLimit - 1 /\ lastTime[n] \in Nat
  BY DEF IdInv, TypeOK, Time
<1>2. clock[n] > lastTime[n] /\ spin[n] /\ up[n]
  BY DEF SpinExit, IdInv
<1>3. /\ lastTime' = [lastTime EXCEPT ![n] = clock[n]]
      /\ spin' = [spin EXCEPT ![n] = FALSE]
      /\ Return(n, Id(clock[n], n, seq[n]))
      /\ UNCHANGED <<clock, seq, up>>
  BY DEF SpinExit
<1>4. TypeOK'
  BY <1>1, <1>3, ReturnType DEF IdInv, TypeOK
<1>5. \A m \in Node : \A t, r \in Nat : Passed(m, t, r) => Passed(m, t, r)'
  BY <1>1, <1>2, <1>3 DEF Passed, IdInv, TypeOK
<1>6. \A t, r \in Nat : Passed(n, t, r) => t < clock[n] \/ (t = clock[n] /\ r < seq[n])
  BY <1>1, <1>2 DEF Passed
<1>7. Passed(n, clock[n], seq[n])'
  BY <1>1, <1>3 DEF Passed, IdInv, TypeOK
<1>8. \A m \in Node : (lastTime[m] <= clock[m])' /\ (spin[m] => up[m])'
  BY <1>1, <1>3 DEF IdInv, TypeOK
<1>9. IdInv' /\ latest[n] < latest'[n]
  <2>1. PICK c \in Nat, s \in 0 .. SeqLimit - 1 : c = clock[n] /\ s = seq[n]
    BY <1>1
  <2>2. Epoch <= c /\ Return(n, Id(c, n, s))
    BY <1>1, <1>3, <2>1
  <2>3. \A t, r \in Nat : Passed(n, t, r) => t < c \/ (t = c /\ r < s)
    BY <1>6, <2>1
  <2>4. Passed(n, c, s)'
    BY <1>1, <1>3, <1>7, <2>1 DEF Passed
  <2> QED
    BY <2>2, <2>3, <2>4, <1>4, <1>5, <1>8, ReturnKeeps
<1> QED
  BY <1>3, <1>9 DEF Return, IdInv, TypeOK

\* Ticks, crashes and restarts.
LEMMA EnvironmentKeeps ==
  ASSUME IdInv, NEW n \in Node, Tick(n) \/ Crash(n) \/ Restart(n)
  PROVE  IdInv' /\ UNCHANGED latest
<1> USE SnowflakeConstants
<1>1. CASE Tick(n)
  <2>1. TypeOK'
    BY <1>1 DEF Tick, IdInv, TypeOK, Time
  <2>2. \A m \in Node : \A t, r \in Nat : Passed(m, t, r) => Passed(m, t, r)'
    BY <1>1 DEF Tick, Passed, IdInv, TypeOK, Time
  <2>3. \A m \in Node : (lastTime[m] <= clock[m])' /\ (spin[m] => up[m])'
    BY <1>1 DEF Tick, IdInv, TypeOK, Time
  <2> QED
    BY <1>1, <2>1, <2>2, <2>3, QuietKeeps DEF Tick
<1>2. CASE Crash(n)
  <2>1. TypeOK'
    BY <1>2 DEF Crash, IdInv, TypeOK
  <2>2. \A m \in Node : \A t, r \in Nat : Passed(m, t, r) => Passed(m, t, r)'
    BY <1>2 DEF Crash, Passed, IdInv, TypeOK
  <2>3. \A m \in Node : (lastTime[m] <= clock[m])' /\ (spin[m] => up[m])'
    BY <1>2 DEF Crash, IdInv, TypeOK
  <2> QED
    BY <1>2, <2>1, <2>2, <2>3, QuietKeeps DEF Crash
<1>3. CASE Restart(n)
  <2>1. TypeOK'
    BY <1>3 DEF Restart, IdInv, TypeOK
  <2>2. \A m \in Node : \A t, r \in Nat : Passed(m, t, r) => Passed(m, t, r)'
    BY <1>3 DEF Restart, Passed, IdInv, TypeOK, Time
  <2>3. \A m \in Node : (lastTime[m] <= clock[m])' /\ (spin[m] => up[m])'
    BY <1>3 DEF Restart, IdInv, TypeOK, Time
  <2> QED
    BY <1>3, <2>1, <2>2, <2>3, QuietKeeps DEF Restart
<1> QED
  BY <1>1, <1>2, <1>3

LEMMA InitIdInv == Init => IdInv
<1> SUFFICES ASSUME Init PROVE IdInv
  OBVIOUS
<1>1. IsFiniteSet(issued) /\ Cardinality(issued) = 0
  BY FS_EmptySet DEF Init
<1> QED
  BY <1>1, SnowflakeConstants DEF Init, IdInv, TypeOK, Time, UniqueIds

LEMMA StepIdInv ==
  ASSUME DistinctMachines, IdInv, [Next]_vars
  PROVE  IdInv' /\ \A n \in Node : latest'[n] >= latest[n]
<1>1. ASSUME NEW n \in Node, NextId(n) \/ SpinExit(n)
      PROVE  IdInv' /\ \A m \in Node : latest'[m] >= latest[m]
  <2>1. IdInv' /\ latest[n] <= latest'[n] /\ \A m \in Node \ {n} : latest'[m] = latest[m]
    BY <1>1, NextIdKeeps, SpinExitKeeps
  <2>2. \A m \in Node : latest[m] \in Int /\ latest'[m] \in Int
    BY <2>1 DEF IdInv, TypeOK
  <2> QED
    BY <2>1, <2>2
<1>2. ASSUME NEW n \in Node, Tick(n) \/ Crash(n) \/ Restart(n)
      PROVE  IdInv' /\ \A m \in Node : latest'[m] >= latest[m]
  <2>1. IdInv' /\ UNCHANGED latest
    BY <1>2, EnvironmentKeeps
  <2>2. \A m \in Node : latest[m] \in Int
    BY DEF IdInv, TypeOK
  <2> QED
    BY <2>1, <2>2
<1>3. CASE UNCHANGED vars
  <2>1. TypeOK' /\ UNCHANGED <<issued, calls, latest>>
    BY <1>3 DEF vars, IdInv, TypeOK
  <2>2. \A m \in Node : \A t, r \in Nat : Passed(m, t, r) => Passed(m, t, r)'
    BY <1>3 DEF vars, Passed
  <2>3. \A m \in Node : (lastTime[m] <= clock[m])' /\ (spin[m] => up[m])'
    BY <1>3 DEF vars, IdInv
  <2>4. \A m \in Node : latest'[m] >= latest[m]
    BY <2>1 DEF IdInv, TypeOK
  <2> QED
    BY <2>1, <2>2, <2>3, <2>4, QuietKeeps
<1> QED
  BY <1>1, <1>2, <1>3 DEF Next

-------------------------------------------------------------------------------
\* Clocks, processes and ids keep their types.
THEOREM GeneratorTypes == ASSUME DistinctMachines PROVE Spec => []TypeOK
<1>1. Init => IdInv
  BY InitIdInv
<1>2. IdInv /\ [Next]_vars => IdInv'
  BY StepIdInv
<1>3. IdInv => TypeOK
  BY DEF IdInv
<1> QED
  BY <1>1, <1>2, <1>3, PTL DEF Spec

\* No two calls of next_id() return the same id, on however many Transmite
\* processes with distinct machine ids, across wrap-around, waiting and restarts.
THEOREM IdsAreUnique == ASSUME DistinctMachines PROVE Spec => []UniqueIds
<1>1. Init => IdInv
  BY InitIdInv
<1>2. IdInv /\ [Next]_vars => IdInv'
  BY StepIdInv
<1>3. IdInv => UniqueIds
  BY DEF IdInv
<1> QED
  BY <1>1, <1>2, <1>3, PTL DEF Spec

\* The ids next_id() returns in one process increase, restarts included.
THEOREM IdsOfAProcessIncrease == ASSUME DistinctMachines PROVE Spec => IdsIncrease
<1>1. Init => IdInv
  BY InitIdInv
<1>2. IdInv /\ [Next]_vars => IdInv'
  BY StepIdInv
<1>3. IdInv /\ [Next]_vars => [\A n \in Node : latest'[n] >= latest[n]]_vars
  BY StepIdInv
<1> QED
  BY <1>1, <1>2, <1>3, PTL DEF Spec, IdsIncrease

-------------------------------------------------------------------------------
(* Session members: types                                                    *)

LEMMA CacheBounds ==
  /\ TTL_BASE \in Nat /\ TTL_JITTER \in Nat /\ TTL_EMPTY \in Nat /\ L1_TTL \in Nat /\ MaxLag \in Nat
  /\ TTL_MAX = TTL_BASE + TTL_JITTER /\ TTL_MAX \in Nat
  /\ StaleBound = MaxLag + TTL_MAX + MaxLag + L1_TTL /\ StaleBound \in Nat
  /\ EmptyBound = MaxLag + TTL_EMPTY + MaxLag + L1_TTL /\ EmptyBound \in Nat
  BY CacheConstants DEF TTL_MAX, StaleBound, EmptyBound

\* The longest life of an entry of Redis, of either kind.
RedisLife == IF TTL_MAX > TTL_EMPTY THEN TTL_MAX ELSE TTL_EMPTY

LEMMA RedisLifeIs == RedisLife \in Nat /\ TTL_MAX <= RedisLife /\ TTL_EMPTY <= RedisLife
  BY CacheBounds DEF RedisLife

LEMMA EntryIs == ASSUME NEW life \in Nat, NEW ttl \in 0 .. life, NEW list \in List
  PROVE  [ttl |-> ttl, list |-> list] \in Entry(life) /\ Hit([ttl |-> ttl, list |-> list])
<1>1. DOMAIN [ttl |-> ttl, list |-> list] # DOMAIN Miss
  BY DEF Miss
<1> QED
  BY <1>1 DEF Entry, Hit

LEMMA HitForm == ASSUME NEW life \in Nat, NEW e \in Entry(life), Hit(e)
  PROVE  e.ttl \in 0 .. life /\ e.list \in List /\ e = [ttl |-> e.ttl, list |-> e.list]
  BY DEF Entry, Hit

LEMMA MissIsEntry == \A life : Miss \in Entry(life)
  BY DEF Entry

LEMMA OlderForm ==
  ASSUME NEW life \in Nat, NEW e \in Entry(life), NEW f \in Older(e)
  PROVE  /\ f \in Entry(life)
         /\ Hit(f) => /\ Hit(e) /\ e.ttl \in 1 .. life /\ e.list \in List
                      /\ f.ttl = e.ttl - 1 /\ f.list = e.list
<1>1. CASE f = Miss
  BY <1>1, MissIsEntry DEF Hit
<1>2. CASE f # Miss
  <2>1. Hit(e) /\ e.ttl # 0 /\ f = [e EXCEPT !.ttl = @ - 1]
    BY <1>2 DEF Older, Hit
  <2>2. e.ttl \in 0 .. life /\ e.list \in List /\ e = [ttl |-> e.ttl, list |-> e.list]
    BY <2>1, HitForm
  <2>3. f = [ttl |-> e.ttl - 1, list |-> e.list]
    BY <2>1, <2>2
  <2>4. e.ttl - 1 \in 0 .. life
    BY <2>1, <2>2
  <2>5. f \in Entry(life)
    BY <2>2, <2>3, <2>4, EntryIs
  <2> QED
    BY <2>1, <2>2, <2>3, <2>5
<1> QED
  BY <1>1, <1>2

LEMMA StepCacheType == CacheTypeOK /\ [CacheNext]_cacheVars => CacheTypeOK'
<1> SUFFICES ASSUME CacheTypeOK, [CacheNext]_cacheVars PROVE CacheTypeOK'
  OBVIOUS
<1>0. /\ db \in List /\ l2 \in Entry(RedisLife) /\ l1 \in [Proc -> Entry(L1_TTL)]
      /\ lock \in [Proc -> {Free} \cup Worker] /\ proc \in [Worker -> Proc] /\ proc \in Placement
      /\ pc \in [Worker -> Steps] /\ value \in [Worker -> List] /\ lag \in [Worker -> 0 .. MaxLag]
      /\ friend \in {None} \cup User
      /\ gone \in [User -> 0 .. StaleBound + 1] /\ failed \in 0 .. EmptyBound + 1
      /\ RedisLife \in Nat /\ L1_TTL \in Nat /\ MaxLag \in Nat
      /\ StaleBound \in Nat /\ EmptyBound \in Nat
  BY CacheConstants, CacheBounds, RedisLifeIs DEF CacheTypeOK, RedisLife
<1> USE CacheTypeOK
<1>1. ASSUME NEW w \in Worker, NEW s \in Steps, Goto(w, s) PROVE pc' \in [Worker -> Steps]
  BY <1>0, <1>1 DEF Goto
<1>2. ASSUME NEW w \in Worker, NEW l \in List, Read(w, l) PROVE value' \in [Worker -> List]
  BY <1>0, <1>2 DEF Read
<1>3. {"idle", "find", "redis", "wait", "recheck", "load", "setL2", "store", "done"} \subseteq Steps
  BY DEF Steps
<1>4. ASSUME NEW w \in Worker, Call(w) PROVE CacheTypeOK'
  BY <1>1, <1>3, <1>4 DEF Call, CacheTypeOK, history
<1>5. ASSUME NEW w \in Worker, Find(w) PROVE CacheTypeOK'
  <2>1. l1[proc[w]] \in Entry(L1_TTL)
    BY <1>0
  <2>2. value' \in [Worker -> List]
    BY <1>0, <1>2, <1>5, <2>1, HitForm DEF Find
  <2>3. pc' \in [Worker -> Steps]
    BY <1>1, <1>3, <1>5 DEF Find
  <2> QED
    BY <1>5, <2>2, <2>3 DEF Find, CacheTypeOK, history
<1>6. ASSUME NEW w \in Worker, FirstLook(w) \/ SecondLook(w) PROVE CacheTypeOK'
  <2>1. value' \in [Worker -> List]
    BY <1>0, <1>2, <1>6, HitForm DEF FirstLook, SecondLook, Redis
  <2>2. pc' \in [Worker -> Steps]
    BY <1>1, <1>3, <1>6 DEF FirstLook, SecondLook, Redis
  <2> QED
    BY <1>6, <2>1, <2>2 DEF FirstLook, SecondLook, Redis, CacheTypeOK, history
<1>7. ASSUME NEW w \in Worker, Wait(w) PROVE CacheTypeOK'
  <2>1. lock' \in [Proc -> {Free} \cup Worker]
    BY <1>0, <1>7 DEF Wait
  <2> QED
    BY <1>1, <1>3, <1>7, <2>1 DEF Wait, CacheTypeOK, history
<1>8. ASSUME NEW w \in Worker, Load(w) PROVE CacheTypeOK'
  <2>1. SUBSET db \subseteq List
    BY <1>0 DEF List
  <2>2. value' \in [Worker -> List]
    BY <1>0, <1>2, <1>8, <2>1 DEF Load
  <2>3. failed' \in 0 .. EmptyBound + 1
    BY <1>0, <1>8 DEF Load
  <2> QED
    BY <1>1, <1>3, <1>8, <2>2, <2>3 DEF Load, CacheTypeOK
<1>9. ASSUME NEW w \in Worker, SetL2(w) PROVE CacheTypeOK'
  <2>1. l2' \in Entry(RedisLife)
    <3>1. PICK ttl \in IF value[w] = {} THEN {TTL_EMPTY} ELSE TTL_BASE .. TTL_MAX :
            l2' = [ttl |-> ttl, list |-> value[w]]
      BY <1>9 DEF SetL2
    <3>2. ttl \in 0 .. RedisLife
      BY <3>1, CacheBounds, RedisLifeIs
    <3> QED
      BY <1>0, <3>1, <3>2, EntryIs
  <2>2. lag' \in [Worker -> 0 .. MaxLag]
    BY <1>0, <1>9 DEF SetL2
  <2> QED
    BY <1>1, <1>3, <1>9, <2>1, <2>2 DEF SetL2, CacheTypeOK, RedisLife, history
<1>10. ASSUME NEW w \in Worker, Store(w) PROVE CacheTypeOK'
  <2>1. l1' \in [Proc -> Entry(L1_TTL)]
    <3>1. [ttl |-> L1_TTL, list |-> value[w]] \in Entry(L1_TTL)
      BY <1>0, EntryIs
    <3> QED
      BY <1>0, <1>10, <3>1 DEF Store
  <2>2. lag' \in [Worker -> 0 .. MaxLag] /\ lock' \in [Proc -> {Free} \cup Worker]
    BY <1>0, <1>10 DEF Store, Unlock
  <2> QED
    BY <1>1, <1>3, <1>10, <2>1, <2>2 DEF Store, CacheTypeOK, history
<1>11. ASSUME NEW w \in Worker, Reply(w) PROVE CacheTypeOK'
  <2>1. {} \in List
    BY DEF List
  <2> QED
    BY <1>1, <1>2, <1>3, <1>11, <2>1 DEF Reply, CacheTypeOK, history
<1>12. ASSUME NEW p \in Proc, Die(p) PROVE CacheTypeOK'
  <2>1. {} \in List /\ Miss \in Entry(L1_TTL) /\ "idle" \in Steps /\ 0 \in 0 .. MaxLag
    BY <1>0, MissIsEntry DEF List, Steps
  <2>2. /\ l1' \in [Proc -> Entry(L1_TTL)] /\ lock' \in [Proc -> {Free} \cup Worker]
    BY <1>0, <1>12, <2>1 DEF Die
  <2>3. pc' \in [Worker -> Steps] /\ value' \in [Worker -> List] /\ lag' \in [Worker -> 0 .. MaxLag]
    BY <1>0, <1>12, <2>1 DEF Die
  <2> QED
    BY <1>12, <2>2, <2>3 DEF Die, CacheTypeOK, history
<1>13. ASSUME NEW u \in User, Remove(u) PROVE CacheTypeOK'
  <2>1. db' \in List /\ friend' \in {None} \cup User /\ gone' \in [User -> 0 .. StaleBound + 1]
    BY <1>0, <1>13 DEF Remove, List
  <2> QED
    BY <1>13, <2>1 DEF Remove, CacheTypeOK
<1>14. CASE Delete
  BY <1>14, MissIsEntry DEF Delete, CacheTypeOK
<1>15. CASE SkipDelete
  BY <1>15 DEF SkipDelete, CacheTypeOK, history
<1>16. CASE Dissolve
  <2>1. db' \in List /\ gone' \in [User -> 0 .. StaleBound + 1]
    BY <1>0, <1>16 DEF Dissolve, List
  <2> QED
    BY <1>16, <2>1 DEF Dissolve, CacheTypeOK
<1>17. CASE OneSecond
  <2>1. l2' \in Entry(RedisLife) /\ l1' \in [Proc -> Entry(L1_TTL)]
    BY <1>0, <1>17, OlderForm DEF OneSecond
  <2>2. lag' \in [Worker -> 0 .. MaxLag]
    <3>1. ASSUME NEW w \in Worker
          PROVE  (IF Holding(w) THEN lag[w] + 1 ELSE lag[w]) \in 0 .. MaxLag
      BY <1>0, <1>17 DEF OneSecond
    <3> QED
      BY <1>17, <3>1 DEF OneSecond
  <2>3. gone' \in [User -> 0 .. StaleBound + 1] /\ failed' \in 0 .. EmptyBound + 1
    BY <1>0, <1>17 DEF OneSecond, UpTo
  <2> QED
    BY <1>17, <2>1, <2>2, <2>3 DEF OneSecond, CacheTypeOK, RedisLife
<1>18. CASE UNCHANGED cacheVars
  BY <1>18 DEF cacheVars, CacheTypeOK
<1> QED
  BY <1>4, <1>5, <1>6, <1>7, <1>8, <1>9, <1>10, <1>11, <1>12, <1>13, <1>14, <1>15, <1>16, <1>17, <1>18
     DEF CacheNext, Get

LEMMA CacheInitType == CacheInit => CacheTypeOK
<1> SUFFICES ASSUME CacheInit PROVE CacheTypeOK
  OBVIOUS
<1>1. Miss \in Entry(RedisLife) /\ Miss \in Entry(L1_TTL) /\ {} \in List /\ "idle" \in Steps
      /\ 0 \in 0 .. MaxLag /\ 0 \in 0 .. StaleBound + 1 /\ EmptyBound + 1 \in 0 .. EmptyBound + 1
  BY MissIsEntry, CacheBounds DEF List, Steps
<1> QED
  BY <1>1 DEF CacheInit, CacheTypeOK, RedisLife, List

\* L1, Redis and the threads' lists keep their types.
THEOREM CacheTypes == CacheSpec => []CacheTypeOK
  BY CacheInitType, StepCacheType, PTL DEF CacheSpec

-------------------------------------------------------------------------------
(* Session members: how old a list can be                                     *)

\* A list the callers may still be given for left seconds: nobody on it is out of
\* the session for longer than oldest, and if it is empty although the session is
\* not, the query that failed is not longer ago than emptyOldest.
Serves(list, left, oldest, emptyOldest) ==
  /\ \A u \in list : left <= oldest /\ (u \notin db => gone[u] + left <= oldest)
  /\ list = {} /\ db # {} => failed + left <= emptyOldest

\* What Redis may hold, and the L1 of a process ...
InRedisServes == Hit(l2) => Serves(l2.list, l2.ttl, MaxLag + TTL_MAX, MaxLag + TTL_EMPTY)
LocalServes(p) == Hit(l1[p]) => Serves(l1[p].list, l1[p].ttl, StaleBound, EmptyBound)

\* ... and what a thread has in hand: read from MySQL, on its way to L1, as an answer.
HandServes(w) ==
  /\ pc[w] = "setL2" => Serves(value[w], 0, lag[w], lag[w])
  /\ pc[w] = "store" => Serves(value[w], 0, MaxLag + TTL_MAX + lag[w], MaxLag + TTL_EMPTY + lag[w])
  /\ pc[w] = "done" => Serves(value[w], 0, StaleBound, EmptyBound)
  /\ ~Holding(w) => lag[w] = 0

ListInv ==
  /\ CacheTypeOK
  /\ InRedisServes
  /\ \A p \in Proc : LocalServes(p)
  /\ \A w \in Worker : HandServes(w)

\* No second passes, and nobody joins: removals and failures start to count anew.
Meanwhile ==
  /\ db' \subseteq db
  /\ \A u \in User : gone'[u] = 0 \/ (gone'[u] = gone[u] /\ (u \in db => u \in db'))
  /\ failed' = 0 \/ failed' = failed

LEMMA ServesMeanwhile ==
  ASSUME CacheTypeOK, Meanwhile, NEW list \in List, NEW left \in Nat, NEW oldest \in Nat,
         NEW emptyOldest \in Nat, Serves(list, left, oldest, emptyOldest)
  PROVE  Serves(list, left, oldest, emptyOldest)'
<1>1. ASSUME NEW u \in list, u \notin db' PROVE left <= oldest /\ gone'[u] + left <= oldest
  <2>1. u \in User /\ left <= oldest /\ (u \notin db => gone[u] + left <= oldest)
    BY DEF Serves, List
  <2>2. gone'[u] = 0 \/ (gone'[u] = gone[u] /\ u \notin db)
    BY <1>1, <2>1 DEF Meanwhile
  <2> QED
    BY <2>1, <2>2
<1>2. list = {} /\ db' # {} => failed' + left <= emptyOldest
  <2>1. db' # {} => db # {}
    BY DEF Meanwhile
  <2>2. failed \in Nat
    BY CacheBounds DEF CacheTypeOK
  <2> QED
    BY <2>1, <2>2 DEF Meanwhile, Serves
<1> QED
  BY <1>1, <1>2 DEF Serves

\* A step of w, none of which makes time pass, leaves the others as good as they were.
LEMMA OthersServe ==
  ASSUME ListInv, Meanwhile, NEW w \in Worker,
         pc'[w] = pc[w] /\ value'[w] = value[w] /\ lag'[w] = lag[w]
  PROVE  HandServes(w)'
<1>1. value[w] \in List /\ lag[w] \in Nat /\ CacheTypeOK /\ HandServes(w)
  BY CacheBounds DEF ListInv, CacheTypeOK
<1>2. PICK list \in List, k \in Nat : list = value[w] /\ k = lag[w]
  BY <1>1
<1>3. ASSUME NEW old \in Nat, NEW emptyOld \in Nat, Serves(list, 0, old, emptyOld)
      PROVE  Serves(list, 0, old, emptyOld)'
  BY <1>1, <1>3, ServesMeanwhile
<1>4. /\ MaxLag + TTL_MAX + k \in Nat /\ MaxLag + TTL_EMPTY + k \in Nat
      /\ StaleBound \in Nat /\ EmptyBound \in Nat
  BY CacheBounds
<1>5. /\ pc[w] = "setL2" => Serves(list, 0, k, k)
      /\ pc[w] = "store" => Serves(list, 0, MaxLag + TTL_MAX + k, MaxLag + TTL_EMPTY + k)
      /\ pc[w] = "done" => Serves(list, 0, StaleBound, EmptyBound)
  BY <1>1, <1>2 DEF HandServes
<1>6. /\ pc[w] = "setL2" => Serves(list, 0, k, k)'
      /\ pc[w] = "store" => Serves(list, 0, MaxLag + TTL_MAX + k, MaxLag + TTL_EMPTY + k)'
      /\ pc[w] = "done" => Serves(list, 0, StaleBound, EmptyBound)'
  BY <1>3, <1>4, <1>5
<1>7. ~Holding(w)' => lag'[w] = 0
  BY <1>1 DEF HandServes, Holding
<1>8. value'[w] = list /\ lag'[w] = k
  BY <1>2
<1> QED
  BY <1>6, <1>7, <1>8 DEF HandServes, Serves

LEMMA RedisServesMeanwhile ==
  ASSUME ListInv, Meanwhile, l2' = l2 PROVE InRedisServes'
<1> SUFFICES ASSUME Hit(l2) PROVE Serves(l2.list, l2.ttl, MaxLag + TTL_MAX, MaxLag + TTL_EMPTY)'
  BY DEF InRedisServes, Hit
<1>1. CacheTypeOK /\ Serves(l2.list, l2.ttl, MaxLag + TTL_MAX, MaxLag + TTL_EMPTY)
  BY DEF ListInv, InRedisServes
<1>2. l2.ttl \in 0 .. RedisLife /\ l2.list \in List
  BY <1>1, HitForm, RedisLifeIs DEF CacheTypeOK, RedisLife
<1>3. PICK list \in List, k \in Nat : list = l2.list /\ k = l2.ttl
  BY <1>2, RedisLifeIs
<1>4. MaxLag + TTL_MAX \in Nat /\ MaxLag + TTL_EMPTY \in Nat
  BY CacheBounds
<1>5. Serves(list, k, MaxLag + TTL_MAX, MaxLag + TTL_EMPTY)'
  BY <1>1, <1>3, <1>4, ServesMeanwhile
<1>6. l2'.list = list /\ l2'.ttl = k
  BY <1>3
<1> QED
  BY <1>5, <1>6 DEF Serves

LEMMA LocalServesMeanwhile ==
  ASSUME ListInv, Meanwhile, NEW p \in Proc, l1'[p] = l1[p] PROVE LocalServes(p)'
<1> SUFFICES ASSUME Hit(l1[p]) PROVE Serves(l1[p].list, l1[p].ttl, StaleBound, EmptyBound)'
  BY DEF LocalServes, Hit
<1>1. CacheTypeOK /\ Serves(l1[p].list, l1[p].ttl, StaleBound, EmptyBound)
  BY DEF ListInv, LocalServes
<1>2. l1[p].ttl \in 0 .. L1_TTL /\ l1[p].list \in List
  BY <1>1, HitForm, CacheBounds DEF CacheTypeOK
<1>3. PICK list \in List, k \in Nat : list = l1[p].list /\ k = l1[p].ttl
  BY <1>2, CacheBounds
<1>4. StaleBound \in Nat /\ EmptyBound \in Nat
  BY CacheBounds
<1>5. Serves(list, k, StaleBound, EmptyBound)'
  BY <1>1, <1>3, <1>4, ServesMeanwhile
<1>6. l1'[p].list = list /\ l1'[p].ttl = k
  BY <1>3
<1> QED
  BY <1>5, <1>6 DEF Serves

\* A step of a thread of get(): what it leaves alone stays good.
LEMMA WorkerServes ==
  ASSUME ListInv, CacheTypeOK', Meanwhile, NEW w \in Worker, l2' = l2 \/ InRedisServes',
         \A v \in Worker : v # w => pc'[v] = pc[v] /\ value'[v] = value[v] /\ lag'[v] = lag[v],
         \A p \in Proc : l1'[p] = l1[p] \/ LocalServes(p)',
         HandServes(w)'
  PROVE  ListInv'
<1>1. InRedisServes'
  BY RedisServesMeanwhile
<1>2. \A p \in Proc : LocalServes(p)'
  BY LocalServesMeanwhile
<1>3. \A v \in Worker : HandServes(v)'
  BY OthersServe
<1> QED
  BY <1>1, <1>2, <1>3 DEF ListInv

LEMMA StillMeanwhile == UNCHANGED <<db, gone, failed>> => Meanwhile
  BY DEF Meanwhile

\* What is good for left seconds is good for fewer, and against a later bound.
LEMMA ServesLess ==
  ASSUME CacheTypeOK, NEW list \in List, NEW left \in Nat, NEW old \in Nat, NEW emptyOld \in Nat,
         Serves(list, left, old, emptyOld),
         NEW left2 \in Nat, NEW old2 \in Nat, NEW emptyOld2 \in Nat,
         left2 + old <= left + old2, left2 + emptyOld <= left + emptyOld2
  PROVE  Serves(list, left2, old2, emptyOld2)
<1>1. ASSUME NEW u \in list
      PROVE  left2 <= old2 /\ (u \notin db => gone[u] + left2 <= old2)
  <2>1. u \in User /\ gone[u] \in Nat
    BY CacheBounds DEF List, CacheTypeOK
  <2>2. left <= old /\ (u \notin db => gone[u] + left <= old)
    BY DEF Serves
  <2> QED
    BY <2>1, <2>2
<1>2. list = {} /\ db # {} => failed + left2 <= emptyOld2
  <2>1. failed \in Nat
    BY CacheBounds DEF CacheTypeOK
  <2> QED
    BY <2>1 DEF Serves
<1> QED
  BY <1>1, <1>2 DEF Serves

-------------------------------------------------------------------------------
(* Session members: no step serves an older list                             *)

LEMMA CallServes == ASSUME ListInv, CacheTypeOK', NEW w \in Worker, Call(w) PROVE ListInv'
<1>1. Meanwhile
  BY StillMeanwhile DEF Call, history
<1>2. pc'[w] = "find" /\ pc[w] = "idle" /\ lag'[w] = lag[w] /\ l1' = l1 /\ l2' = l2
      /\ \A v \in Worker : v # w => pc'[v] = pc[v] /\ value'[v] = value[v] /\ lag'[v] = lag[v]
  BY DEF Call, Goto, ListInv, CacheTypeOK
<1>3. HandServes(w)'
  BY <1>2 DEF HandServes, Holding, ListInv
<1> QED
  BY <1>1, <1>2, <1>3, WorkerServes

LEMMA FindServes == ASSUME ListInv, CacheTypeOK', NEW w \in Worker, Find(w) PROVE ListInv'
<1> DEFINE e == l1[proc[w]]
<1>1. Meanwhile /\ l1' = l1 /\ l2' = l2 /\ lag'[w] = 0 /\ pc[w] = "find" /\ UNCHANGED <<db, gone, failed>>
  BY StillMeanwhile DEF Find, history, ListInv, HandServes, Holding
<1>2. \A v \in Worker : v # w => pc'[v] = pc[v] /\ value'[v] = value[v] /\ lag'[v] = lag[v]
  BY DEF Find, Goto, Read, ListInv, CacheTypeOK
<1>3. proc[w] \in Proc /\ e \in Entry(L1_TTL) /\ CacheTypeOK
  BY CacheConstants DEF ListInv, CacheTypeOK
<1>4. HandServes(w)'
  <2>1. CASE Hit(e)
    <3>1. pc'[w] = "done" /\ value'[w] = e.list
      BY <2>1 DEF Find, Goto, Read, ListInv, CacheTypeOK
    <3>2. Serves(e.list, e.ttl, StaleBound, EmptyBound) /\ e.ttl \in Nat /\ e.list \in List
      BY <1>3, <2>1, HitForm, CacheBounds DEF ListInv, LocalServes
    <3>3. Serves(e.list, 0, StaleBound, EmptyBound)
      BY <1>3, <3>2, ServesLess, CacheBounds
    <3> QED
      BY <1>1, <3>1, <3>3 DEF HandServes, Serves
  <2>2. CASE ~Hit(e)
    <3>1. pc'[w] = "redis"
      BY <2>2 DEF Find, Goto, ListInv, CacheTypeOK
    <3> QED
      BY <1>1, <3>1 DEF HandServes
  <2> QED
    BY <2>1, <2>2
<1> QED
  BY <1>1, <1>2, <1>4, WorkerServes

LEMMA RedisServes ==
  ASSUME ListInv, CacheTypeOK', NEW w \in Worker, NEW from \in {"redis", "recheck"},
         NEW otherwise \in {"wait", "load"}, Redis(w, from, otherwise)
  PROVE  ListInv'
<1>1. Meanwhile /\ l1' = l1 /\ l2' = l2 /\ lag'[w] = 0 /\ UNCHANGED <<db, gone, failed>>
  BY StillMeanwhile DEF Redis, history, ListInv, HandServes, Holding
<1>2. \A v \in Worker : v # w => pc'[v] = pc[v] /\ value'[v] = value[v] /\ lag'[v] = lag[v]
  BY DEF Redis, Goto, Read, ListInv, CacheTypeOK
<1>3. l2 \in Entry(RedisLife) /\ CacheTypeOK
  BY DEF ListInv, CacheTypeOK, RedisLife
<1>4. HandServes(w)'
  <2>1. CASE Hit(l2)
    <3>1. pc'[w] = "store" /\ value'[w] = l2.list
      BY <2>1 DEF Redis, Goto, Read, ListInv, CacheTypeOK
    <3>2. /\ Serves(l2.list, l2.ttl, MaxLag + TTL_MAX, MaxLag + TTL_EMPTY)
          /\ l2.ttl \in Nat /\ l2.list \in List
      BY <1>3, <2>1, HitForm, RedisLifeIs DEF ListInv, InRedisServes
    <3>3. Serves(l2.list, 0, MaxLag + TTL_MAX, MaxLag + TTL_EMPTY)
      BY <1>3, <3>2, ServesLess, CacheBounds
    <3>4. /\ MaxLag + TTL_MAX + lag'[w] = MaxLag + TTL_MAX
          /\ MaxLag + TTL_EMPTY + lag'[w] = MaxLag + TTL_EMPTY
      BY <1>1, CacheBounds
    <3> QED
      BY <1>1, <3>1, <3>3, <3>4 DEF HandServes, Serves, Holding
  <2>2. CASE ~Hit(l2)
    <3>1. pc'[w] = otherwise
      BY <2>2 DEF Redis, Goto, ListInv, CacheTypeOK
    <3> QED
      BY <1>1, <3>1 DEF HandServes
  <2> QED
    BY <2>1, <2>2
<1> QED
  BY <1>1, <1>2, <1>4, WorkerServes

LEMMA WaitServes == ASSUME ListInv, CacheTypeOK', NEW w \in Worker, Wait(w) PROVE ListInv'
<1>1. Meanwhile /\ l1' = l1 /\ l2' = l2
  BY StillMeanwhile DEF Wait, history
<1>2. /\ pc'[w] = "recheck" /\ lag'[w] = 0
      /\ \A v \in Worker : v # w => pc'[v] = pc[v] /\ value'[v] = value[v] /\ lag'[v] = lag[v]
  BY DEF Wait, Goto, ListInv, CacheTypeOK, HandServes, Holding
<1>3. HandServes(w)'
  BY <1>2 DEF HandServes
<1> QED
  BY <1>1, <1>2, <1>3, WorkerServes

\* The members as they are, or fewer and a failure that starts to count now.
LEMMA LoadServes == ASSUME ListInv, CacheTypeOK', NEW w \in Worker, Load(w) PROVE ListInv'
<1>1. Meanwhile /\ l1' = l1 /\ l2' = l2 /\ db' = db
  BY DEF Load, Meanwhile
<1>2. /\ pc'[w] = "setL2" /\ lag'[w] = 0
      /\ \A v \in Worker : v # w => pc'[v] = pc[v] /\ value'[v] = value[v] /\ lag'[v] = lag[v]
  BY DEF Load, Goto, Read, ListInv, CacheTypeOK, HandServes, Holding
<1>3. HandServes(w)'
  <2>1. PICK list : list = value'[w]
    OBVIOUS
  <2>2. list \subseteq db /\ (list = db \/ failed' = 0)
    BY <2>1 DEF Load, Read, ListInv, CacheTypeOK
  <2>3. Serves(list, 0, 0, 0)'
    BY <1>1, <2>2 DEF Serves
  <2> QED
    BY <1>2, <2>1, <2>3 DEF HandServes, Serves
<1> QED
  BY <1>1, <1>2, <1>3, WorkerServes

\* Redis gets the list with a life that fits its kind, at most MaxLag after it was read.
LEMMA SetL2Serves == ASSUME ListInv, CacheTypeOK', NEW w \in Worker, SetL2(w) PROVE ListInv'
<1>1. Meanwhile /\ l1' = l1 /\ UNCHANGED <<db, gone, failed>> /\ pc[w] = "setL2"
  BY StillMeanwhile DEF SetL2, history
<1>2. /\ pc'[w] = "store" /\ lag'[w] = 0 /\ value' = value
      /\ \A v \in Worker : v # w => pc'[v] = pc[v] /\ value'[v] = value[v] /\ lag'[v] = lag[v]
  BY DEF SetL2, Goto, ListInv, CacheTypeOK
<1>3. CacheTypeOK /\ value[w] \in List /\ lag[w] \in Nat /\ lag[w] <= MaxLag
      /\ Serves(value[w], 0, lag[w], lag[w])
  BY <1>1, CacheBounds DEF ListInv, CacheTypeOK, HandServes
<1>4. PICK ttl \in IF value[w] = {} THEN {TTL_EMPTY} ELSE TTL_BASE .. TTL_MAX :
        l2' = [ttl |-> ttl, list |-> value[w]]
  BY DEF SetL2
<1>5. ttl \in Nat /\ (value[w] = {} => ttl = TTL_EMPTY) /\ (value[w] # {} => ttl <= TTL_MAX)
  BY <1>4, CacheBounds
<1>6. InRedisServes'
  <2>1. CASE value[w] = {}
    BY <1>1, <1>3, <1>4, <1>5, <2>1, CacheBounds DEF Serves, InRedisServes, CacheTypeOK
  <2>2. CASE value[w] # {}
    <3>1. ASSUME NEW u \in value[w]
          PROVE  ttl <= MaxLag + TTL_MAX /\ (u \notin db => gone[u] + ttl <= MaxLag + TTL_MAX)
      <4>1. gone[u] \in Nat /\ (u \notin db => gone[u] + 0 <= lag[w])
        BY <1>3, CacheBounds DEF List, CacheTypeOK, Serves
      <4> QED
        BY <1>3, <1>5, <2>2, <4>1, CacheBounds
    <3> QED
      BY <1>1, <1>4, <2>2, <3>1 DEF Serves, InRedisServes
  <2> QED
    BY <2>1, <2>2
<1>7. HandServes(w)'
  <2>a. /\ MaxLag + TTL_MAX \in Nat /\ MaxLag + TTL_EMPTY \in Nat
        /\ 0 + lag[w] <= 0 + (MaxLag + TTL_MAX) /\ 0 + lag[w] <= 0 + (MaxLag + TTL_EMPTY)
    BY <1>3, CacheBounds
  <2>1. Serves(value[w], 0, MaxLag + TTL_MAX, MaxLag + TTL_EMPTY)
    BY <1>3, <2>a, ServesLess
  <2>2. /\ MaxLag + TTL_MAX + lag'[w] = MaxLag + TTL_MAX
        /\ MaxLag + TTL_EMPTY + lag'[w] = MaxLag + TTL_EMPTY
    BY <1>2, CacheBounds
  <2> QED
    BY <1>1, <1>2, <2>1, <2>2 DEF HandServes, Serves, Holding
<1> QED
  BY <1>1, <1>2, <1>6, <1>7, WorkerServes

LEMMA StoreServes == ASSUME ListInv, CacheTypeOK', NEW w \in Worker, Store(w) PROVE ListInv'
<1>1. Meanwhile /\ l2' = l2 /\ UNCHANGED <<db, gone, failed>> /\ pc[w] = "store"
  BY StillMeanwhile DEF Store, history
<1>2. /\ pc'[w] = "done" /\ lag'[w] = 0 /\ value' = value
      /\ \A v \in Worker : v # w => pc'[v] = pc[v] /\ value'[v] = value[v] /\ lag'[v] = lag[v]
  BY DEF Store, Goto, ListInv, CacheTypeOK
<1>3. CacheTypeOK /\ value[w] \in List /\ lag[w] \in Nat /\ lag[w] <= MaxLag
      /\ Serves(value[w], 0, MaxLag + TTL_MAX + lag[w], MaxLag + TTL_EMPTY + lag[w])
      /\ proc[w] \in Proc
  BY <1>1, CacheBounds, CacheConstants DEF ListInv, CacheTypeOK, HandServes
<1>4. Serves(value[w], L1_TTL, StaleBound, EmptyBound) /\ Serves(value[w], 0, StaleBound, EmptyBound)
  <2>1. PICK old \in Nat, emptyOld \in Nat :
          old = MaxLag + TTL_MAX + lag[w] /\ emptyOld = MaxLag + TTL_EMPTY + lag[w]
    BY <1>3, CacheBounds
  <2>2. /\ L1_TTL + old <= 0 + StaleBound /\ L1_TTL + emptyOld <= 0 + EmptyBound
        /\ 0 + old <= 0 + StaleBound /\ 0 + emptyOld <= 0 + EmptyBound
        /\ L1_TTL \in Nat /\ StaleBound \in Nat /\ EmptyBound \in Nat
    BY <1>3, <2>1, CacheBounds
  <2>3. Serves(value[w], 0, old, emptyOld)
    BY <1>3, <2>1
  <2> QED
    BY <1>3, <2>2, <2>3, ServesLess
<1>5. ASSUME NEW p \in Proc PROVE l1'[p] = l1[p] \/ LocalServes(p)'
  <2>1. CASE p # proc[w]
    BY <1>3, <2>1 DEF Store, ListInv, CacheTypeOK
  <2>2. CASE p = proc[w]
    <3>1. l1'[p] = [ttl |-> L1_TTL, list |-> value[w]]
      BY <1>3, <2>2 DEF Store, CacheTypeOK
    <3>2. l1'[p].ttl = L1_TTL /\ l1'[p].list = value[w]
      BY <3>1
    <3> QED
      BY <1>1, <1>4, <3>2 DEF LocalServes, Serves
  <2> QED
    BY <2>1, <2>2
<1>6. HandServes(w)'
  BY <1>1, <1>2, <1>4 DEF HandServes, Serves, Holding
<1> QED
  BY <1>1, <1>2, <1>5, <1>6, WorkerServes

LEMMA ReplyServes == ASSUME ListInv, CacheTypeOK', NEW w \in Worker, Reply(w) PROVE ListInv'
<1>1. Meanwhile /\ l1' = l1 /\ l2' = l2
  BY StillMeanwhile DEF Reply, history
<1>2. /\ pc'[w] = "idle" /\ lag'[w] = 0
      /\ \A v \in Worker : v # w => pc'[v] = pc[v] /\ value'[v] = value[v] /\ lag'[v] = lag[v]
  BY DEF Reply, Goto, Read, ListInv, CacheTypeOK, HandServes, Holding
<1>3. HandServes(w)'
  BY <1>2 DEF HandServes
<1> QED
  BY <1>1, <1>2, <1>3, WorkerServes

LEMMA DieServes == ASSUME ListInv, CacheTypeOK', NEW p \in Proc, Die(p) PROVE ListInv'
<1>1. Meanwhile /\ l2' = l2
  BY StillMeanwhile DEF Die, history
<1>2. ASSUME NEW q \in Proc PROVE LocalServes(q)'
  <2>1. l1'[q] = Miss \/ l1'[q] = l1[q]
    BY DEF Die, ListInv, CacheTypeOK
  <2>2. CASE l1'[q] = Miss
    BY <2>2 DEF LocalServes, Hit
  <2> QED
    BY <1>1, <2>1, <2>2, LocalServesMeanwhile
<1>3. ASSUME NEW w \in Worker PROVE HandServes(w)'
  <2>1. CASE proc[w] = p
    <3>1. pc'[w] = "idle" /\ lag'[w] = 0
      BY <2>1 DEF Die
    <3> QED
      BY <3>1 DEF HandServes
  <2>2. CASE proc[w] # p
    <3>1. pc'[w] = pc[w] /\ value'[w] = value[w] /\ lag'[w] = lag[w]
      BY <2>2 DEF Die
    <3> QED
      BY <1>1, <3>1, OthersServe
  <2> QED
    BY <2>1, <2>2
<1> QED
  BY <1>1, <1>2, <1>3, RedisServesMeanwhile DEF ListInv

\* The Friend service: a removal starts to count, or the key is deleted.
LEMMA FriendServes ==
  ASSUME ListInv, CacheTypeOK', (\E u \in User : Remove(u)) \/ Delete \/ SkipDelete \/ Dissolve
  PROVE  ListInv'
<1>1. Meanwhile
  <2>1. ASSUME NEW u \in User, Remove(u) PROVE Meanwhile
    BY <2>1 DEF Meanwhile, Remove, ListInv, CacheTypeOK
  <2>2. CASE Delete \/ SkipDelete
    BY <2>2, StillMeanwhile DEF Delete, SkipDelete, history
  <2>3. CASE Dissolve
    BY <2>3 DEF Meanwhile, Dissolve, ListInv, CacheTypeOK
  <2> QED
    BY <2>1, <2>2, <2>3
<1>2. (l2' = l2 \/ l2' = Miss) /\ UNCHANGED <<l1, pc, value, lag>>
  BY DEF Remove, Delete, SkipDelete, Dissolve
<1>3. InRedisServes'
  <2>1. CASE l2' = Miss
    BY <2>1 DEF InRedisServes, Hit
  <2> QED
    BY <1>1, <1>2, <2>1, RedisServesMeanwhile
<1>4. \A p \in Proc : LocalServes(p)'
  BY <1>1, <1>2, LocalServesMeanwhile
<1>5. \A w \in Worker : HandServes(w)'
  BY <1>1, <1>2, OthersServe
<1> QED
  BY <1>3, <1>4, <1>5 DEF ListInv

\* A second later, a list is good for a second less, or against a bound a second later.
LEMMA ServesLater ==
  ASSUME CacheTypeOK, OneSecond, NEW list \in List, NEW left \in Nat, NEW old \in Nat,
         NEW emptyOld \in Nat, Serves(list, left, old, emptyOld),
         NEW left2 \in Nat, NEW old2 \in Nat, NEW emptyOld2 \in Nat,
         left2 + old + 1 <= left + old2, left2 + emptyOld + 1 <= left + emptyOld2
  PROVE  Serves(list, left2, old2, emptyOld2)'
<1>1. ASSUME NEW u \in list, u \notin db' PROVE left2 <= old2 /\ gone'[u] + left2 <= old2
  <2>1. u \in User /\ gone[u] \in Nat /\ u \notin db
    BY <1>1, CacheBounds DEF List, CacheTypeOK, OneSecond
  <2>2. left <= old /\ gone[u] + left <= old
    BY <2>1 DEF Serves
  <2>3. gone'[u] \in Nat /\ gone'[u] <= gone[u] + 1
    BY <2>1, CacheBounds DEF OneSecond, UpTo
  <2> QED
    BY <2>1, <2>2, <2>3
<1>2. ASSUME NEW u \in list PROVE left2 <= old2
  BY <1>2 DEF Serves
<1>3. ASSUME list = {}, db' # {} PROVE failed' + left2 <= emptyOld2
  <2>1. failed \in Nat /\ db' = db
    BY CacheBounds DEF CacheTypeOK, OneSecond
  <2>2. failed' \in Nat /\ failed' <= failed + 1
    BY <1>3, <2>1, CacheBounds DEF OneSecond, UpTo
  <2>3. failed + left <= emptyOld
    BY <1>3, <2>1 DEF Serves
  <2>4. \A f, g \in Nat : g <= f + 1 /\ f + left <= emptyOld => g + left2 <= emptyOld2
    OBVIOUS
  <2> QED
    BY <2>1, <2>2, <2>3, <2>4
<1> QED
  BY <1>1, <1>2, <1>3 DEF Serves

LEMMA OneSecondServes == ASSUME ListInv, CacheTypeOK', OneSecond PROVE ListInv'
<1>0. CacheTypeOK
  BY DEF ListInv
<1>1. InRedisServes'
  <2> SUFFICES ASSUME Hit(l2)' PROVE InRedisServes'
    BY DEF InRedisServes
  <2>1. l2 \in Entry(RedisLife) /\ l2' \in Older(l2)
    BY <1>0 DEF CacheTypeOK, RedisLife, OneSecond
  <2>2. Hit(l2) /\ l2.ttl \in 1 .. RedisLife /\ l2.list \in List /\ l2'.ttl = l2.ttl - 1 /\ l2'.list = l2.list
    BY <2>1, OlderForm, RedisLifeIs DEF Hit
  <2>3. PICK list \in List, k \in 1 .. RedisLife : list = l2.list /\ k = l2.ttl
    BY <2>2
  <2>4. Serves(list, k, MaxLag + TTL_MAX, MaxLag + TTL_EMPTY)
    BY <2>2, <2>3 DEF ListInv, InRedisServes
  <2>5. Serves(list, k - 1, MaxLag + TTL_MAX, MaxLag + TTL_EMPTY)'
    <3>1. k \in Nat /\ k - 1 \in Nat /\ MaxLag + TTL_MAX \in Nat /\ MaxLag + TTL_EMPTY \in Nat
      BY CacheBounds, RedisLifeIs
    <3>2. /\ k - 1 + (MaxLag + TTL_MAX) + 1 <= k + (MaxLag + TTL_MAX)
          /\ k - 1 + (MaxLag + TTL_EMPTY) + 1 <= k + (MaxLag + TTL_EMPTY)
      BY <3>1
    <3> QED
      BY <1>0, <2>4, <3>1, <3>2, ServesLater
  <2> QED
    BY <2>2, <2>3, <2>5 DEF InRedisServes, Serves
<1>2. ASSUME NEW p \in Proc PROVE LocalServes(p)'
  <2> SUFFICES ASSUME Hit(l1[p])' PROVE LocalServes(p)'
    BY DEF LocalServes
  <2>1. l1[p] \in Entry(L1_TTL) /\ l1'[p] \in Older(l1[p])
    BY <1>0 DEF CacheTypeOK, OneSecond
  <2>2. /\ Hit(l1[p]) /\ l1[p].ttl \in 1 .. L1_TTL /\ l1[p].list \in List
        /\ l1'[p].ttl = l1[p].ttl - 1 /\ l1'[p].list = l1[p].list
    BY <2>1, OlderForm, CacheBounds DEF Hit
  <2>3. PICK list \in List, k \in 1 .. L1_TTL : list = l1[p].list /\ k = l1[p].ttl
    BY <2>2
  <2>4. Serves(list, k, StaleBound, EmptyBound)
    BY <2>2, <2>3 DEF ListInv, LocalServes
  <2>5. Serves(list, k - 1, StaleBound, EmptyBound)'
    <3>1. k \in Nat /\ k - 1 \in Nat /\ StaleBound \in Nat /\ EmptyBound \in Nat
      BY CacheBounds
    <3>2. k - 1 + StaleBound + 1 <= k + StaleBound /\ k - 1 + EmptyBound + 1 <= k + EmptyBound
      BY <3>1
    <3> QED
      BY <1>0, <2>4, <3>1, <3>2, ServesLater
  <2> QED
    BY <2>2, <2>3, <2>5 DEF LocalServes, Serves
<1>3. ASSUME NEW w \in Worker PROVE HandServes(w)'
  <2>1. /\ pc'[w] = pc[w] /\ value'[w] = value[w] /\ pc[w] # "done" /\ HandServes(w)
        /\ value[w] \in List /\ lag[w] \in Nat
    BY <1>0, CacheBounds DEF OneSecond, ListInv, CacheTypeOK
  <2>2. CASE ~Holding(w)
    <3>1. lag'[w] = 0
      BY <2>1, <2>2 DEF OneSecond, HandServes
    <3> QED
      BY <2>1, <2>2, <3>1 DEF HandServes, Holding
  <2>3. CASE Holding(w)
    <3>1. PICK list \in List, k \in Nat : list = value[w] /\ k = lag[w]
      BY <2>1
    <3>2. lag'[w] = k + 1 /\ value'[w] = list
      BY <2>1, <2>3, <3>1 DEF OneSecond
    <3>3. ASSUME pc[w] = "setL2" PROVE Serves(list, 0, k + 1, k + 1)'
      <4>1. Serves(list, 0, k, k)
        BY <2>1, <3>1, <3>3 DEF HandServes
      <4> QED
        BY <1>0, <4>1, ServesLater
    <3>4. ASSUME pc[w] = "store"
          PROVE  Serves(list, 0, MaxLag + TTL_MAX + (k + 1), MaxLag + TTL_EMPTY + (k + 1))'
      <4>1. Serves(list, 0, MaxLag + TTL_MAX + k, MaxLag + TTL_EMPTY + k)
        BY <2>1, <3>1, <3>4 DEF HandServes
      <4> QED
        BY <1>0, <4>1, ServesLater, CacheBounds
    <3> QED
      BY <2>1, <2>3, <3>2, <3>3, <3>4 DEF HandServes, Serves, Holding
  <2> QED
    BY <2>2, <2>3
<1> QED
  BY <1>1, <1>2, <1>3 DEF ListInv

LEMMA ListsServe == CacheSpec => []ListInv
<1>1. CacheInit => ListInv
  <2> SUFFICES ASSUME CacheInit PROVE ListInv
    OBVIOUS
  <2>1. l2 = Miss /\ (\A p \in Proc : l1[p] = Miss)
        /\ (\A w \in Worker : pc[w] = "idle" /\ lag[w] = 0)
    BY DEF CacheInit
  <2> QED
    BY <2>1, CacheInitType DEF ListInv, InRedisServes, LocalServes, HandServes, Hit
<1>2. ListInv /\ [CacheNext]_cacheVars => ListInv'
  <2> SUFFICES ASSUME ListInv, [CacheNext]_cacheVars PROVE ListInv'
    OBVIOUS
  <2>1. CacheTypeOK'
    BY StepCacheType DEF ListInv
  <2>2. ASSUME NEW w \in Worker, FirstLook(w) \/ SecondLook(w) PROVE ListInv'
    BY <2>1, <2>2, RedisServes DEF FirstLook, SecondLook
  <2>3. CASE UNCHANGED cacheVars
    <3>1. Meanwhile /\ UNCHANGED <<l1, l2, pc, value, lag>>
      BY <2>3, StillMeanwhile DEF cacheVars
    <3>2. InRedisServes' /\ (\A p \in Proc : LocalServes(p)') /\ (\A w \in Worker : HandServes(w)')
      BY <3>1, RedisServesMeanwhile, LocalServesMeanwhile, OthersServe
    <3> QED
      BY <2>1, <3>2 DEF ListInv
  <2> QED
    BY <2>1, <2>2, <2>3, CallServes, FindServes, WaitServes, LoadServes, SetL2Serves, StoreServes,
       ReplyServes, DieServes, FriendServes, OneSecondServes DEF CacheNext, Get
<1> QED
  BY <1>1, <1>2, PTL DEF CacheSpec

\* Whoever has been removed from a chat is given its messages for StaleBound seconds at
\* most, whatever reads, late stores, lost DELs and deaths the removal meets.
THEOREM RemovalTakesEffect == CacheSpec => []RemovedStopsReceiving
<1>1. ListInv => RemovedStopsReceiving
  <2> SUFFICES ASSUME ListInv, NEW w \in Worker, NEW u \in User, Answered(w, u)
               PROVE  gone[u] <= StaleBound
    BY DEF RemovedStopsReceiving
  <2>1. gone[u] + 0 <= StaleBound /\ gone[u] \in Nat
    BY CacheBounds DEF ListInv, CacheTypeOK, Answered, HandServes, Serves
  <2> QED
    BY <2>1
<1> QED
  BY <1>1, ListsServe, PTL

\* A failed member query silences the session for EmptyBound seconds at most.
THEOREM SilenceIsShort == CacheSpec => []SilentOnlyBriefly
<1>1. ListInv => SilentOnlyBriefly
  <2> SUFFICES ASSUME ListInv, NEW w \in Worker, pc[w] = "done", value[w] = {}, db # {}
               PROVE  failed <= EmptyBound
    BY DEF SilentOnlyBriefly
  <2>1. failed + 0 <= EmptyBound /\ failed \in Nat
    BY CacheBounds DEF ListInv, CacheTypeOK, HandServes, Serves
  <2> QED
    BY <2>1
<1> QED
  BY <1>1, ListsServe, PTL
===============================================================================

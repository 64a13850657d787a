---------------------------- MODULE DeliveryProofs ----------------------------
(***************************************************************************)
(* Proofs about the way of a message, from publish() to the two stores:    *)
(* first MQClient, which keeps the promise of Outbox, then MessagePipeline,*)
(* which is built on that promise and keeps the one of MessageStore.  They *)
(* hold for any number of threads, messages, retries and crashes.          *)
(*                                                                         *)
(* MQClient.  NoLostWakeup is inductive once TypeOK is known: a task with  *)
(* retry = 0 enters _tasks only in Enqueue, which leaves its thread about  *)
(* to signal; a signal is consumed only by the step that empties _tasks;   *)
(* and what FailTask puts back has retry > 0.  The rest follows from one   *)
(* look at the wire, the batch and _tasks as a single line: a message joins*)
(* it once, at the end; one that fails leaves a gap that closes, and joins *)
(* the end again with retry > 0.                                           *)
(*                                                                         *)
(* MessagePipeline.  PipeInv says what each step of a callback stands for, *)
(* and that of every message the broker took a copy is on the way whose    *)
(* count is covered by inserts that were tried (Accounted).  The bound on  *)
(* the retries counts what is still to come: every waiting copy is worth   *)
(* the inserts it can cause, one token each, and no step without a crash   *)
(* raises the sum of inserts tried and inserts to come (StormInv).         *)
(***************************************************************************)
EXTENDS MQClient, MessagePipeline, Integers, SequenceTheorems, FiniteSetTheorems, TLAPS

-------------------------------------------------------------------------------
(* MQClient: types and wakeups                                               *)

LEMMA InitType == Init => TypeOK
<1> SUFFICES ASSUME Init PROVE TypeOK
  OBVIOUS
<1>1. << >> \in Seq(Task) /\ << >> \in Seq(Msg)
  OBVIOUS
<1> QED
  BY <1>1 DEF Init, TypeOK

\* Running one task keeps the types of the queues.
LEMMA RunTaskType == ASSUME TypeOK, RunTask PROVE TypeOK'
<1>1. Head(batch) \in Task /\ Tail(batch) \in Seq(Task)
  BY DEF TypeOK, RunTask
<1>2. Head(batch).msg \in Msg /\ Head(batch).retry \in 0 .. MaxRetry
  BY <1>1 DEF Task
<1>3. wire' \in Seq(Task)
  <2>1. CASE wire' = Append(wire, Head(batch))
    BY <1>1, <2>1 DEF TypeOK
  <2>2. CASE UNCHANGED wire
    BY <2>2 DEF TypeOK
  <2> QED
    BY <2>1, <2>2 DEF RunTask
<1>4. tasks' \in Seq(Task) /\ dropped' \subseteq Msg
  <2>1. CASE UNCHANGED <<tasks, dropped>>
    BY <2>1 DEF TypeOK
  <2>2. CASE FailTask(Head(batch))
    <3>1. CASE Head(batch).retry + 1 <= MaxRetry
      <4> DEFINE t == [Head(batch) EXCEPT !.retry = @ + 1]
      <4>1. t \in Task
        BY <1>1, <1>2, <3>1, MaxRetryNat DEF Task
      <4>2. tasks' = Append(tasks, t) /\ dropped' = dropped
        BY <2>2, <3>1 DEF FailTask
      <4> HIDE DEF t
      <4> QED
        BY <4>1, <4>2 DEF TypeOK
    <3>2. CASE ~(Head(batch).retry + 1 <= MaxRetry)
      BY <1>2, <2>2, <3>2 DEF FailTask, TypeOK
    <3> QED
      BY <3>1, <3>2
  <2> QED
    BY <2>1, <2>2 DEF RunTask
<1> QED
  BY <1>1, <1>3, <1>4 DEF TypeOK, RunTask

LEMMA StepType == TypeOK /\ [Next]_vars => TypeOK'
<1> SUFFICES ASSUME TypeOK, [Next]_vars PROVE TypeOK'
  OBVIOUS
<1>1. ASSUME NEW p \in Publisher, NEW m \in Msg, Enqueue(p, m) PROVE TypeOK'
  <2>1. [msg |-> m, retry |-> 0] \in Task
    BY MaxRetryNat DEF Task
  <2> QED
    BY <1>1, <2>1 DEF TypeOK, Enqueue
<1>2. ASSUME NEW p \in Publisher, Signal(p) PROVE TypeOK'
  BY <1>2 DEF TypeOK, Signal
<1>3. CASE Drain
  <2>1. tasks' \in Seq(Task) /\ batch' \in Seq(Task)
    BY <1>3 DEF TypeOK, Drain
  <2> QED
    BY <1>3, <2>1 DEF TypeOK, Drain
<1>4. CASE RunTask
  BY <1>4, RunTaskType
<1>5. CASE Finish
  BY <1>5 DEF TypeOK, Finish
<1>6. CASE Destroy \/ Break
  BY <1>6 DEF TypeOK, Destroy, Break
<1>7. CASE UNCHANGED vars
  BY <1>7 DEF TypeOK, vars
<1> QED
  BY <1>1, <1>2, <1>3, <1>4, <1>5, <1>6, <1>7 DEF Next, Loop

\* Every variable of the client keeps its type.
THEOREM ClientTypes == Spec => []TypeOK
BY InitType, StepType, PTL DEF Spec

-------------------------------------------------------------------------------
\* A task put back after a failure is not fresh.
LEMMA FailTaskNotFresh ==
  ASSUME TypeOK, NEW t \in Task, FailTask(t), Fresh(tasks')
  PROVE  Fresh(tasks)
<1>1. CASE t.retry + 1 <= MaxRetry
  <2> DEFINE u == [t EXCEPT !.retry = @ + 1]
  <2>1. u.retry # 0
    BY DEF Task
  <2>2. tasks' = Append(tasks, u) /\ tasks \in Seq(Task)
    BY <1>1 DEF FailTask, TypeOK
  <2>3. PICK i \in DOMAIN tasks' : tasks'[i].retry = 0
    BY DEF Fresh
  <2> HIDE DEF u
  <2>4. i # Len(tasks) + 1
    BY <2>1, <2>2, <2>3
  <2>5. i \in DOMAIN tasks /\ tasks[i] = tasks'[i]
    BY <2>2, <2>3, <2>4
  <2> QED
    BY <2>3, <2>5 DEF Fresh
<1>2. CASE ~(t.retry + 1 <= MaxRetry)
  BY <1>2 DEF FailTask
<1> QED
  BY <1>1, <1>2

LEMMA StepNoLostWakeup == TypeOK /\ NoLostWakeup /\ [Next]_vars => NoLostWakeup'
<1> SUFFICES ASSUME TypeOK, NoLostWakeup, [Next]_vars PROVE NoLostWakeup'
  OBVIOUS
<1>1. ASSUME NEW p \in Publisher, NEW m \in Msg, Enqueue(p, m) PROVE NoLostWakeup'
  BY <1>1 DEF NoLostWakeup, Enqueue, TypeOK
<1>2. ASSUME NEW p \in Publisher, Signal(p) PROVE NoLostWakeup'
  BY <1>2 DEF NoLostWakeup, Signal
<1>3. CASE Drain
  BY <1>3 DEF NoLostWakeup, Drain, Fresh
<1>4. CASE RunTask
  <2> SUFFICES ASSUME Fresh(tasks') PROVE wakeup \/ \E p \in Publisher : pc[p] = "signal"
    BY <1>4 DEF NoLostWakeup, RunTask
  <2>1. Head(batch) \in Task
    BY <1>4 DEF RunTask, TypeOK
  <2>2. Fresh(tasks)
    BY <1>4, <2>1, FailTaskNotFresh DEF RunTask
  <2> QED
    BY <2>2 DEF NoLostWakeup
<1>5. CASE Finish \/ Destroy \/ Break
  BY <1>5 DEF NoLostWakeup, Finish, Destroy, Break
<1>6. CASE UNCHANGED vars
  BY <1>6 DEF NoLostWakeup, vars
<1> QED
  BY <1>1, <1>2, <1>3, <1>4, <1>5, <1>6 DEF Next, Loop

\* A message nobody has tried to send yet always has a wake-up of the loop thread
\* on its way, however publish() and drain_tasks() interleave.
THEOREM WakeupNeverLost == Spec => []NoLostWakeup
<1>1. Init => NoLostWakeup
  BY DEF Init, NoLostWakeup, Fresh
<1> QED
  BY <1>1, ClientTypes, StepNoLostWakeup, PTL DEF Spec

-------------------------------------------------------------------------------
(* Where a message is                                                        *)

\* Three queues, end to end.
LEMMA LineForm ==
  ASSUME NEW a \in Seq(Task), NEW b \in Seq(Task), NEW c \in Seq(Task)
  PROVE  LET line == a \o b \o c IN
           /\ line \in Seq(Task) /\ DOMAIN line = 1 .. Len(line)
           /\ Len(line) = Len(a) + Len(b) + Len(c)
           /\ Len(a) \in Nat /\ Len(b) \in Nat /\ Len(c) \in Nat
           /\ \A n \in 1 .. Len(a) : line[n] = a[n]
           /\ \A n \in 1 .. Len(b) : line[Len(a) + n] = b[n]
           /\ \A n \in 1 .. Len(c) : line[Len(a) + Len(b) + n] = c[n]
<1> DEFINE ab == a \o b
           line == a \o b \o c
<1>1. Len(a) \in Nat /\ Len(b) \in Nat /\ Len(c) \in Nat
  OBVIOUS
<1>2. /\ ab \in Seq(Task) /\ Len(ab) = Len(a) + Len(b)
      /\ \A n \in 1 .. (Len(a) + Len(b)) : ab[n] = IF n <= Len(a) THEN a[n] ELSE b[n - Len(a)]
  BY ConcatProperties
<1>3. line = ab \o c
  OBVIOUS
<1> HIDE DEF ab, line
<1>4. /\ line \in Seq(Task) /\ Len(line) = Len(ab) + Len(c)
      /\ \A n \in 1 .. (Len(ab) + Len(c)) : line[n] = IF n <= Len(ab) THEN ab[n] ELSE c[n - Len(ab)]
  <2>1. ab \in Seq(Task)
    BY <1>2
  <2>2. QED
    BY <1>3, <2>1, ConcatProperties
<1>5. Len(line) = Len(a) + Len(b) + Len(c) /\ DOMAIN line = 1 .. Len(line)
  BY <1>2, <1>4, LenProperties
<1>6. \A n \in 1 .. Len(a) : line[n] = a[n]
  BY <1>1, <1>2, <1>4
<1>7. ASSUME NEW n \in 1 .. Len(b) PROVE line[Len(a) + n] = b[n]
  <2>1. Len(a) + n \in 1 .. (Len(a) + Len(b)) /\ ~(Len(a) + n <= Len(a))
        /\ (Len(a) + n) - Len(a) = n
    BY <1>1
  <2>2. ab[Len(a) + n] = b[n]
    BY <1>2, <2>1
  <2>3. Len(a) + n \in 1 .. (Len(ab) + Len(c)) /\ Len(a) + n <= Len(ab)
    BY <1>1, <1>2, <2>1
  <2>4. QED
    BY <1>4, <2>2, <2>3
<1>8. ASSUME NEW n \in 1 .. Len(c) PROVE line[Len(a) + Len(b) + n] = c[n]
  <2>1. /\ Len(ab) + n \in 1 .. (Len(ab) + Len(c)) /\ ~(Len(ab) + n <= Len(ab))
        /\ (Len(ab) + n) - Len(ab) = n /\ Len(ab) + n = Len(a) + Len(b) + n
    BY <1>1, <1>2
  <2>2. QED
    BY <1>4, <2>1
<1>9. QED
  BY <1>1, <1>4, <1>5, <1>6, <1>7, <1>8 DEF line

LEMMA HeldForm ==
  ASSUME TypeOK
  PROVE  /\ Held \in Seq(Task) /\ DOMAIN Held = 1 .. Len(Held)
         /\ Len(Held) = Len(wire) + Len(batch) + Len(tasks)
         /\ Len(wire) \in Nat /\ Len(batch) \in Nat /\ Len(tasks) \in Nat
         /\ \A n \in 1 .. Len(wire) : Held[n] = wire[n]
         /\ \A n \in 1 .. Len(batch) : Held[Len(wire) + n] = batch[n]
         /\ \A n \in 1 .. Len(tasks) : Held[Len(wire) + Len(batch) + n] = tasks[n]
BY LineForm DEF Held, TypeOK

LEMMA HeldLen ==
  ASSUME TypeOK
  PROVE  /\ Len(Held) \in Nat /\ Len(wire) \in Nat /\ Len(batch) \in Nat /\ Len(tasks) \in Nat
         /\ Len(Held) = Len(wire) + Len(batch) + Len(tasks)
         /\ DOMAIN Held = 1 .. Len(Held)
<1>1. /\ Len(wire) \in Nat /\ Len(batch) \in Nat /\ Len(tasks) \in Nat
      /\ Len(Held) = Len(wire) + Len(batch) + Len(tasks)
      /\ DOMAIN Held = 1 .. Len(Held)
  BY HeldForm
<1>2. QED
  BY <1>1

\* The messages of the queues are those of their line.
LEMMA HeldMsgs ==
  ASSUME TypeOK
  PROVE  MsgsIn(Held) = MsgsIn(wire) \cup MsgsIn(batch) \cup MsgsIn(tasks)
<1>1. ASSUME NEW n \in DOMAIN Held
      PROVE  Held[n].msg \in MsgsIn(wire) \cup MsgsIn(batch) \cup MsgsIn(tasks)
  <2>1. CASE n <= Len(wire)
    <3>1. n \in 1 .. Len(wire)
      BY <2>1, HeldForm
    <3>2. Held[n] = wire[n] /\ n \in DOMAIN wire
      BY <3>1, HeldForm DEF TypeOK
    <3>3. QED
      BY <3>2 DEF MsgsIn
  <2>2. CASE n > Len(wire) /\ n <= Len(wire) + Len(batch)
    <3>1. n - Len(wire) \in 1 .. Len(batch) /\ Len(wire) + (n - Len(wire)) = n
      BY <2>2, HeldForm
    <3>2. Held[n] = batch[n - Len(wire)]
      BY <3>1, HeldForm
    <3>3. QED
      BY <3>1, <3>2 DEF MsgsIn, TypeOK
  <2>3. CASE n > Len(wire) + Len(batch)
    <3> DEFINE k == n - (Len(wire) + Len(batch))
    <3>1. k \in 1 .. Len(tasks) /\ Len(wire) + Len(batch) + k = n
      BY <2>3, HeldForm
    <3>2. Held[n] = tasks[k]
      BY <3>1, HeldForm
    <3>3. QED
      BY <3>1, <3>2 DEF MsgsIn, TypeOK
  <2>4. QED
    BY <2>1, <2>2, <2>3, HeldForm
<1>2. ASSUME NEW n \in DOMAIN wire PROVE wire[n].msg \in MsgsIn(Held)
  <2>1. n \in 1 .. Len(wire) /\ n \in DOMAIN Held
    BY HeldForm DEF TypeOK
  <2>2. QED
    BY <2>1, HeldForm DEF MsgsIn
<1>3. ASSUME NEW n \in DOMAIN batch PROVE batch[n].msg \in MsgsIn(Held)
  <2>1. n \in 1 .. Len(batch) /\ Len(wire) + n \in DOMAIN Held
    BY HeldForm DEF TypeOK
  <2>2. QED
    BY <2>1, HeldForm DEF MsgsIn
<1>4. ASSUME NEW n \in DOMAIN tasks PROVE tasks[n].msg \in MsgsIn(Held)
  <2>1. n \in 1 .. Len(tasks) /\ Len(wire) + Len(batch) + n \in DOMAIN Held
    BY HeldForm DEF TypeOK
  <2>2. QED
    BY <2>1, HeldForm DEF MsgsIn
<1>5. QED
  BY <1>1, <1>2, <1>3, <1>4 DEF MsgsIn

\* EntryOrder of a given sequence of accepted messages.
OrderIn(seq, m) == CHOOSE i \in DOMAIN seq : seq[i] = m

\* A message enters the line behind all the others, and one that fails goes to its end
\* with retry > 0: so a task with retry = 0 is younger than everything ahead of it.
FreshIsYoungest ==
  \A i, j \in DOMAIN Held :
    i < j /\ Held[j].retry = 0 =>
      OrderIn(entered, Held[i].msg) < OrderIn(entered, Held[j].msg)

EnteredOnce == \A i, j \in DOMAIN entered : entered[i] = entered[j] => i = j

LineInv ==
  /\ loop # "draining" => batch = << >>
  /\ EnteredOnce
  /\ Conserved
  /\ FreshIsYoungest

\* The turn in which a message was accepted.
LEMMA OrderIs ==
  ASSUME NEW seq \in Seq(Msg), NEW m, \E i \in DOMAIN seq : seq[i] = m
  PROVE  OrderIn(seq, m) \in 1 .. Len(seq) /\ seq[OrderIn(seq, m)] = m
<1>1. DOMAIN seq = 1 .. Len(seq)
  OBVIOUS
<1>2. OrderIn(seq, m) \in DOMAIN seq /\ seq[OrderIn(seq, m)] = m
  BY Zenon DEF OrderIn
<1>3. QED
  BY <1>1, <1>2

LEMMA Accepted ==
  ASSUME TypeOK, EnteredOnce, NEW m \in Msg \ Entered, entered' = Append(entered, m)
  PROVE  /\ EnteredOnce' /\ Entered' = Entered \cup {m}
         /\ \A x \in Entered : /\ OrderIn(entered', x) = OrderIn(entered, x)
                              /\ OrderIn(entered, x) \in 1 .. Len(entered)
         /\ OrderIn(entered', m) = Len(entered) + 1
<1> DEFINE L == Len(entered)
<1>1. L \in Nat /\ DOMAIN entered = 1 .. L /\ DOMAIN entered' = 1 .. (L + 1)
      /\ (\A i \in 1 .. L : entered'[i] = entered[i]) /\ entered'[L + 1] = m
      /\ entered \in Seq(Msg) /\ entered' \in Seq(Msg) /\ Len(entered') = L + 1
  BY DEF TypeOK
<1> HIDE DEF L
<1>2. \A i \in 1 .. L : entered[i] # m
  BY <1>1 DEF Entered
<1>3. EnteredOnce'
  BY <1>1, <1>2 DEF EnteredOnce
<1>4. Entered' = Entered \cup {m}
  BY <1>1 DEF Entered
<1>5. ASSUME NEW x \in Entered
      PROVE  OrderIn(entered', x) = OrderIn(entered, x) /\ OrderIn(entered, x) \in 1 .. L
  <2>1. (\E i \in DOMAIN entered : entered[i] = x) /\ (\E i \in DOMAIN entered' : entered'[i] = x)
    BY <1>1 DEF Entered
  <2>2. OrderIn(entered, x) \in 1 .. L /\ entered[OrderIn(entered, x)] = x
    BY <1>1, <2>1, OrderIs DEF L
  <2>3. OrderIn(entered', x) \in 1 .. (L + 1) /\ entered'[OrderIn(entered', x)] = x
    BY <1>1, <2>1, OrderIs
  <2>4. QED
    BY <1>1, <1>3, <2>2, <2>3 DEF EnteredOnce
<1>6. OrderIn(entered', m) = L + 1
  <2>1. \E i \in DOMAIN entered' : entered'[i] = m
    BY <1>1
  <2>2. OrderIn(entered', m) \in 1 .. (L + 1) /\ entered'[OrderIn(entered', m)] = m
    BY <1>1, <2>1, OrderIs
  <2>3. QED
    BY <1>1, <1>2, <2>2
<1>7. QED
  BY <1>3, <1>4, <1>5, <1>6 DEF L

\* Ahead of position k nothing changes, behind it everything moves up.
Closed(k) ==
  /\ \A n \in 1 .. (k - 1) : Held'[n] = Held[n]
  /\ \A n \in k .. (Len(Held) - 1) : Held'[n] = Held[n + 1]

-------------------------------------------------------------------------------
(* How the line changes                                                      *)

\* publish() puts the message at its end.
LEMMA LineGrows ==
  ASSUME TypeOK, LineInv, NEW m \in Msg \ Entered,
         entered' = Append(entered, m), dropped' = dropped, loop' = loop, batch' = batch,
         NEW L \in Nat, L = Len(Held),
         DOMAIN Held' = 1 .. (L + 1), \A n \in 1 .. L : Held'[n] = Held[n],
         Held'[L + 1] = [msg |-> m, retry |-> 0]
  PROVE  LineInv'
<1>1. DOMAIN Held = 1 .. L
  BY HeldForm
<1>2. MsgsIn(Held)' = MsgsIn(Held) \cup {m}
  BY <1>1 DEF MsgsIn
<1>3. EnteredOnce' /\ Entered' = Entered \cup {m} /\ OrderIn(entered', m) = Len(entered) + 1
      /\ \A x \in Entered : /\ OrderIn(entered', x) = OrderIn(entered, x)
                           /\ OrderIn(entered, x) \in 1 .. Len(entered)
  BY Accepted DEF LineInv
<1>4. MsgsIn(Held) \subseteq Entered /\ \A n \in 1 .. L : Held[n].msg \in Entered
  BY <1>1 DEF LineInv, Conserved, MsgsIn
<1>5. Conserved'
  <2>1. \A i, j \in DOMAIN Held' : Held'[i].msg = Held'[j].msg => i = j
    BY <1>1, <1>4 DEF LineInv, Conserved
  <2>2. MsgsIn(Held)' \cap dropped' = {} /\ MsgsIn(Held)' \cup dropped' = Entered'
    BY <1>2, <1>3 DEF LineInv, Conserved
  <2>3. QED
    BY <2>1, <2>2 DEF Conserved
<1>6. ASSUME NEW i \in DOMAIN Held', NEW j \in DOMAIN Held', i < j, Held'[j].retry = 0
      PROVE  OrderIn(entered', Held'[i].msg) < OrderIn(entered', Held'[j].msg)
  <2>1. i \in 1 .. L /\ Held'[i] = Held[i] /\ Held[i].msg \in Entered
    BY <1>4, <1>6
  <2>2. CASE j = L + 1
    BY <1>3, <2>1, <2>2 DEF TypeOK
  <2>3. CASE j # L + 1
    <3>1. j \in 1 .. L /\ Held'[j] = Held[j] /\ Held[j].msg \in Entered
      BY <1>4, <1>6, <2>3
    <3>2. OrderIn(entered, Held[i].msg) < OrderIn(entered, Held[j].msg)
      BY <1>1, <1>6, <2>1, <3>1 DEF LineInv, FreshIsYoungest
    <3>3. QED
      BY <1>3, <2>1, <3>1, <3>2
  <2>4. QED
    BY <2>2, <2>3
<1>7. QED
  BY <1>3, <1>5, <1>6 DEF LineInv, FreshIsYoungest

\* Where the task in a place of the new line was in the old one, place k
\* left: behind the gap, one place further back.
Before(k, n) == IF n < k THEN n ELSE n + 1

LEMMA BeforeKeepsOrder ==
  ASSUME NEW k \in Nat, NEW n \in Nat, NEW o \in Nat
  PROVE  (n < o => Before(k, n) < Before(k, o)) /\ (Before(k, n) = Before(k, o) => n = o)
  BY DEF Before

\* A task that is given up leaves a gap that closes.
LEMMA LineShrinks ==
  ASSUME TypeOK, LineInv, loop' = "draining", entered' = entered,
         NEW k \in DOMAIN Held, NEW L \in Nat, L = Len(Held), Closed(k),
         DOMAIN Held' = 1 .. (L - 1), dropped' = dropped \cup {Held[k].msg}
  PROVE  LineInv'
<1> DEFINE old(n) == Before(k, n)
<1>1. DOMAIN Held = 1 .. L /\ k \in 1 .. L
  BY HeldForm
<1>2. \A n \in 1 .. (L - 1) : old(n) \in 1 .. L /\ old(n) # k /\ Held'[n] = Held[old(n)]
  BY <1>1 DEF Closed, Before
<1>3. \A n, o \in 1 .. (L - 1) : (n < o => old(n) < old(o)) /\ (old(n) = old(o) => n = o)
  <2>1. k \in Nat /\ 1 .. (L - 1) \subseteq Nat
    BY <1>1
  <2>2. QED
    BY <2>1, BeforeKeepsOrder
<1>4. \A n \in 1 .. L : n # k => \E o \in 1 .. (L - 1) : old(o) = n
  <2>1. ASSUME NEW n \in 1 .. L, n # k PROVE \E o \in 1 .. (L - 1) : old(o) = n
    <3>1. CASE n < k
      BY <1>1, <3>1 DEF Before
    <3>2. CASE n > k
      <4>1. n - 1 \in 1 .. (L - 1) /\ old(n - 1) = n
        BY <1>1, <3>2 DEF Before
      <4>2. QED
        BY <4>1
    <3>3. QED
      BY <1>1, <2>1, <3>1, <3>2
  <2>2. QED
    BY <2>1
<1> HIDE DEF old
<1>5. Held[k].msg \in MsgsIn(Held)
      /\ \A n \in 1 .. L : n # k => Held[n].msg # Held[k].msg
  BY <1>1 DEF LineInv, Conserved, MsgsIn
<1>6. MsgsIn(Held)' = MsgsIn(Held) \ {Held[k].msg}
  <2>1. ASSUME NEW n \in DOMAIN Held'
        PROVE  Held'[n].msg \in MsgsIn(Held) /\ Held'[n].msg # Held[k].msg
    <3>1. old(n) \in DOMAIN Held /\ old(n) # k /\ Held'[n].msg = Held[old(n)].msg
      BY <1>1, <1>2
    <3>2. Held[old(n)].msg \in MsgsIn(Held)
      BY <3>1 DEF MsgsIn
    <3>3. QED
      BY <1>1, <1>5, <3>1, <3>2
  <2>2. ASSUME NEW n \in DOMAIN Held, n # k
        PROVE  \E o \in DOMAIN Held' : Held'[o].msg = Held[n].msg
    <3>1. PICK o \in 1 .. (L - 1) : old(o) = n
      BY <1>1, <1>4, <2>2
    <3>2. Held'[o] = Held[n]
      BY <1>2, <3>1
    <3>3. QED
      BY <3>2
  <2>3. MsgsIn(Held)' \subseteq MsgsIn(Held) \ {Held[k].msg}
    BY <2>1 DEF MsgsIn
  <2>4. ASSUME NEW m \in MsgsIn(Held), m # Held[k].msg PROVE m \in MsgsIn(Held)'
    <3>1. PICK n \in DOMAIN Held : m = Held[n].msg
      BY DEF MsgsIn
    <3>2. PICK o \in DOMAIN Held' : Held'[o].msg = Held[n].msg
      BY <2>2, <2>4, <3>1
    <3>3. QED
      BY <3>1, <3>2 DEF MsgsIn
  <2>5. QED
    BY <2>3, <2>4
<1>7. Entered' = Entered /\ EnteredOnce'
  BY DEF Entered, EnteredOnce, LineInv
<1>8. Conserved'
  <2>1. ASSUME NEW i \in DOMAIN Held', NEW j \in DOMAIN Held', Held'[i].msg = Held'[j].msg
        PROVE  i = j
    <3>1. Held[old(i)].msg = Held[old(j)].msg /\ old(i) \in DOMAIN Held /\ old(j) \in DOMAIN Held
      BY <1>1, <1>2, <2>1
    <3>2. old(i) = old(j)
      BY <3>1 DEF LineInv, Conserved
    <3>3. QED
      BY <1>3, <3>2
  <2>2. MsgsIn(Held)' \cap dropped' = {} /\ MsgsIn(Held)' \cup dropped' = Entered'
    BY <1>5, <1>6, <1>7 DEF LineInv, Conserved
  <2>3. QED
    BY <2>1, <2>2 DEF Conserved
<1>9. FreshIsYoungest'
  <2>1. ASSUME NEW i \in DOMAIN Held', NEW j \in DOMAIN Held', i < j, Held'[j].retry = 0
        PROVE  OrderIn(entered', Held'[i].msg) < OrderIn(entered', Held'[j].msg)
    <3>1. /\ old(i) \in DOMAIN Held /\ old(j) \in DOMAIN Held
          /\ Held'[i] = Held[old(i)] /\ Held'[j] = Held[old(j)]
      BY <1>1, <1>2
    <3>2. old(i) < old(j)
      BY <1>3, <2>1
    <3>3. QED
      BY <2>1, <3>1, <3>2 DEF LineInv, FreshIsYoungest
  <2>2. QED
    BY <2>1 DEF FreshIsYoungest
<1>10. QED
  BY <1>7, <1>8, <1>9 DEF LineInv

\* The same for a task that leaves place k for the last place of the L.
BeforeTurn(k, L, n) == IF n < k THEN n ELSE IF n = L THEN k ELSE n + 1

LEMMA BeforeTurnKeepsOrder ==
  ASSUME NEW L \in Nat, NEW k \in 1 .. L, NEW n \in 1 .. L, NEW o \in 1 .. L
  PROVE  /\ n < o /\ o # L => BeforeTurn(k, L, n) < BeforeTurn(k, L, o)
         /\ BeforeTurn(k, L, n) = BeforeTurn(k, L, o) => n = o
  BY DEF BeforeTurn

\* A task that is tried again goes to the end, and is not fresh any more.
LEMMA LineTurns ==
  ASSUME TypeOK, LineInv, loop' = "draining", entered' = entered, dropped' = dropped,
         NEW k \in DOMAIN Held, NEW L \in Nat, L = Len(Held), Closed(k),
         DOMAIN Held' = 1 .. L, Held'[L].msg = Held[k].msg, Held'[L].retry # 0
  PROVE  LineInv'
<1> DEFINE old(n) == BeforeTurn(k, L, n)
<1>1. DOMAIN Held = 1 .. L /\ k \in 1 .. L
  BY HeldForm
<1>2. \A n \in 1 .. L : old(n) \in 1 .. L /\ Held'[n].msg = Held[old(n)].msg
                          /\ (Held'[n].retry = 0 => n # L /\ Held[old(n)].retry = 0)
  BY <1>1 DEF Closed, BeforeTurn
<1>3. \A n, o \in 1 .. L : (n < o /\ o # L => old(n) < old(o)) /\ (old(n) = old(o) => n = o)
  BY <1>1, BeforeTurnKeepsOrder
<1>4. \A n \in 1 .. L : \E o \in 1 .. L : old(o) = n
  <2>1. ASSUME NEW n \in 1 .. L PROVE \E o \in 1 .. L : old(o) = n
    <3>1. CASE n < k
      BY <1>1, <3>1 DEF BeforeTurn
    <3>2. CASE n = k
      <4>1. L \in 1 .. L /\ old(L) = k
        BY <1>1 DEF BeforeTurn
      <4>2. QED
        BY <3>2, <4>1
    <3>3. CASE n > k
      <4>1. n - 1 \in 1 .. L /\ old(n - 1) = n
        BY <1>1, <3>3 DEF BeforeTurn
      <4>2. QED
        BY <4>1
    <3>4. QED
      BY <1>1, <3>1, <3>2, <3>3
  <2>2. QED
    BY <2>1
<1> HIDE DEF old
<1>5. MsgsIn(Held)' = MsgsIn(Held)
  <2>1. ASSUME NEW n \in DOMAIN Held' PROVE Held'[n].msg \in MsgsIn(Held)
    <3>1. old(n) \in DOMAIN Held /\ Held'[n].msg = Held[old(n)].msg
      BY <1>1, <1>2
    <3>2. QED
      BY <3>1 DEF MsgsIn
  <2>2. ASSUME NEW n \in DOMAIN Held
        PROVE  \E o \in DOMAIN Held' : Held'[o].msg = Held[n].msg
    <3>1. PICK o \in 1 .. L : old(o) = n
      BY <1>1, <1>4
    <3>2. Held'[o].msg = Held[n].msg
      BY <1>2, <3>1
    <3>3. QED
      BY <3>2
  <2>3. MsgsIn(Held)' \subseteq MsgsIn(Held)
    BY <2>1 DEF MsgsIn
  <2>4. ASSUME NEW m \in MsgsIn(Held) PROVE m \in MsgsIn(Held)'
    <3>1. PICK n \in DOMAIN Held : m = Held[n].msg
      BY DEF MsgsIn
    <3>2. PICK o \in DOMAIN Held' : Held'[o].msg = Held[n].msg
      BY <2>2, <3>1
    <3>3. QED
      BY <3>1, <3>2 DEF MsgsIn
  <2>5. QED
    BY <2>3, <2>4
<1>6. Entered' = Entered /\ EnteredOnce'
  BY DEF Entered, EnteredOnce, LineInv
<1>7. Conserved'
  <2>1. ASSUME NEW i \in DOMAIN Held', NEW j \in DOMAIN Held', Held'[i].msg = Held'[j].msg
        PROVE  i = j
    <3>1. Held[old(i)].msg = Held[old(j)].msg /\ old(i) \in DOMAIN Held /\ old(j) \in DOMAIN Held
      BY <1>1, <1>2, <2>1
    <3>2. old(i) = old(j)
      BY <3>1 DEF LineInv, Conserved
    <3>3. QED
      BY <1>3, <3>2
  <2>2. QED
    BY <1>5, <1>6, <2>1 DEF LineInv, Conserved
<1>8. FreshIsYoungest'
  <2>1. ASSUME NEW i \in DOMAIN Held', NEW j \in DOMAIN Held', i < j, Held'[j].retry = 0
        PROVE  OrderIn(entered', Held'[i].msg) < OrderIn(entered', Held'[j].msg)
    <3>1. /\ old(i) \in DOMAIN Held /\ old(j) \in DOMAIN Held
          /\ Held'[i].msg = Held[old(i)].msg /\ Held'[j].msg = Held[old(j)].msg
          /\ j # L /\ Held[old(j)].retry = 0
      BY <1>1, <1>2, <2>1
    <3>2. old(i) < old(j)
      BY <1>3, <2>1, <3>1
    <3>3. QED
      BY <3>1, <3>2 DEF LineInv, FreshIsYoungest
  <2>2. QED
    BY <2>1 DEF FreshIsYoungest
<1>9. QED
  BY <1>6, <1>7, <1>8 DEF LineInv

\* The other steps leave the line as it is.
LEMMA LineStays ==
  ASSUME LineInv, Held' = Held, UNCHANGED <<entered, dropped>>,
         loop' # "draining" => batch' = << >>
  PROVE  LineInv'
BY DEF LineInv, EnteredOnce, Conserved, FreshIsYoungest, MsgsIn, Entered

-------------------------------------------------------------------------------
(* The steps of the client                                                   *)

\* The line after a step.
LEMMA HeldNext ==
  ASSUME TypeOK'
  PROVE  /\ DOMAIN Held' = 1 .. Len(Held')
         /\ Len(Held') = Len(wire') + Len(batch') + Len(tasks')
         /\ \A n \in 1 .. Len(wire') : Held'[n] = wire'[n]
         /\ \A n \in 1 .. Len(batch') : Held'[Len(wire') + n] = batch'[n]
         /\ \A n \in 1 .. Len(tasks') : Held'[Len(wire') + Len(batch') + n] = tasks'[n]
<1>1. wire' \in Seq(Task) /\ batch' \in Seq(Task) /\ tasks' \in Seq(Task)
  BY DEF TypeOK
<1>2. Held' = wire' \o batch' \o tasks'
  BY DEF Held
<1>3. QED
  BY <1>1, <1>2, LineForm

LEMMA HeldNextLen ==
  ASSUME TypeOK'
  PROVE  /\ Len(wire') \in Nat /\ Len(batch') \in Nat /\ Len(tasks') \in Nat
         /\ Len(Held') = Len(wire') + Len(batch') + Len(tasks')
         /\ DOMAIN Held' = 1 .. Len(Held')
<1>1. Len(wire') \in Nat /\ Len(batch') \in Nat /\ Len(tasks') \in Nat
  BY DEF TypeOK
<1>2. QED
  BY <1>1, HeldNext

LEMMA EnqueueLine ==
  ASSUME TypeOK, TypeOK', LineInv, NEW p \in Publisher, NEW m \in Msg, Enqueue(p, m)
  PROVE  LineInv'
<1> DEFINE t == [msg |-> m, retry |-> 0]
           L == Len(Held)
<1>1. /\ m \in Msg \ Entered /\ entered' = Append(entered, m)
      /\ dropped' = dropped /\ loop' = loop /\ batch' = batch /\ wire' = wire
      /\ tasks' = Append(tasks, t) /\ t \in Task /\ tasks \in Seq(Task)
  BY MaxRetryNat DEF Enqueue, Task, TypeOK
<1>2. /\ Len(tasks') = Len(tasks) + 1 /\ tasks'[Len(tasks) + 1] = t
      /\ \A n \in 1 .. Len(tasks) : tasks'[n] = tasks[n]
  BY <1>1, AppendProperties
<1>3. /\ L \in Nat /\ L = Len(wire) + Len(batch) + Len(tasks)
      /\ Len(wire) \in Nat /\ Len(batch) \in Nat /\ Len(tasks) \in Nat
  BY HeldLen
<1>4. DOMAIN Held' = 1 .. (L + 1)
  BY <1>1, <1>2, <1>3, HeldNextLen
<1>5. ASSUME NEW n \in 1 .. L PROVE Held'[n] = Held[n]
  <2>1. CASE n <= Len(wire)
    BY <1>1, <2>1, HeldForm, HeldNext
  <2>2. CASE n > Len(wire) /\ n <= Len(wire) + Len(batch)
    <3> DEFINE k == n - Len(wire)
    <3>1. k \in 1 .. Len(batch) /\ k \in 1 .. Len(batch') /\ Len(wire) + k = n
          /\ Len(wire') + k = n
      BY <1>1, <1>3, <2>2
    <3>2. Held[n] = batch[k]
      BY <3>1, HeldForm
    <3>3. Held'[n] = batch'[k]
      BY <3>1, HeldNext
    <3>4. QED
      BY <1>1, <3>2, <3>3
  <2>3. CASE n > Len(wire) + Len(batch)
    <3> DEFINE k == n - (Len(wire) + Len(batch))
    <3>1. k \in 1 .. Len(tasks) /\ k \in 1 .. Len(tasks') /\ Len(wire) + Len(batch) + k = n
      BY <1>2, <1>3, <2>3, HeldForm
    <3>2. Held[n] = tasks[k]
      BY <3>1, HeldForm
    <3>3. Held'[n] = tasks'[k]
      BY <1>1, <3>1, HeldNext
    <3>4. QED
      BY <1>2, <3>1, <3>2, <3>3
  <2>4. QED
    BY <2>1, <2>2, <2>3, HeldForm
<1>6. Held'[L + 1] = t
  <2>1. Len(tasks) + 1 \in 1 .. Len(tasks') /\ Len(wire) + Len(batch) + (Len(tasks) + 1) = L + 1
    BY <1>2, <1>3, HeldForm
  <2>2. QED
    BY <1>1, <1>2, <2>1, HeldNext
<1>7. QED
  BY <1>1, <1>3, <1>4, <1>5, <1>6, LineGrows

LEMMA DrainLine ==
  ASSUME TypeOK, TypeOK', LineInv, Drain
  PROVE  LineInv'
<1>1. batch = << >> /\ batch' = tasks /\ tasks' = << >> /\ wire' = wire /\ loop' = "draining"
      /\ UNCHANGED <<entered, dropped>>
  BY DEF Drain, LineInv
<1>2. wire \in Seq(Task) /\ tasks \in Seq(Task)
  BY DEF TypeOK
<1>3. Held = wire \o tasks
  BY <1>1, <1>2 DEF Held
<1>4. Held' = wire \o tasks
  <2>1. wire \o tasks \in Seq(Task)
    BY <1>2
  <2>2. QED
    BY <1>1, <2>1, ConcatEmptySeq DEF Held
<1>5. QED
  BY <1>1, <1>3, <1>4, LineStays

\* The position of the task drain_tasks runs next.
LEMMA FirstOfBatch ==
  ASSUME TypeOK, RunTask
  PROVE  /\ Len(wire) + 1 \in DOMAIN Held /\ Held[Len(wire) + 1] = Head(batch)
         /\ Head(batch) \in Task /\ Tail(batch) \in Seq(Task) /\ Len(batch) >= 1
         /\ Len(Tail(batch)) = Len(batch) - 1
         /\ \A n \in 1 .. (Len(batch) - 1) : Tail(batch)[n] = batch[n + 1]
<1>1. batch # << >> /\ batch \in Seq(Task)
  BY DEF RunTask, TypeOK
<1>2. Head(batch) \in Task /\ Tail(batch) \in Seq(Task) /\ Len(Tail(batch)) = Len(batch) - 1
      /\ \A n \in 1 .. Len(Tail(batch)) : Tail(batch)[n] = batch[n + 1]
  BY <1>1, HeadTailProperties
<1>3. Len(batch) \in Nat /\ Len(batch) >= 1 /\ Head(batch) = batch[1]
  BY <1>1
<1>4. Len(wire) + 1 \in DOMAIN Held /\ Held[Len(wire) + 1] = batch[1]
  <2>1. 1 \in 1 .. Len(batch)
    BY <1>3
  <2>2. QED
    BY <1>3, <2>1, HeldForm
<1>5. QED
  BY <1>2, <1>3, <1>4

LEMMA SendLine ==
  ASSUME TypeOK, TypeOK', LineInv, RunTask,
         wire' = Append(wire, Head(batch)), UNCHANGED <<tasks, dropped>>
  PROVE  LineInv'
<1> DEFINE w == Len(wire)
<1>1. loop' = "draining" /\ batch' = Tail(batch) /\ entered' = entered /\ wire \in Seq(Task)
  BY DEF RunTask, TypeOK
<1>2. /\ Len(wire') = w + 1 /\ wire'[w + 1] = Head(batch)
      /\ \A n \in 1 .. w : wire'[n] = wire[n]
  BY <1>1, FirstOfBatch, AppendProperties
<1>3. Len(Held') = Len(Held) /\ DOMAIN Held' = DOMAIN Held /\ DOMAIN Held = 1 .. Len(Held)
  <2>1. Len(wire') = w + 1 /\ Len(batch') = Len(batch) - 1 /\ Len(tasks') = Len(tasks)
    BY <1>1, <1>2, FirstOfBatch
  <2>2. Len(Held) = w + Len(batch) + Len(tasks) /\ DOMAIN Held = 1 .. Len(Held)
        /\ w \in Nat /\ Len(batch) \in Nat /\ Len(tasks) \in Nat
    BY HeldLen
  <2>3. Len(Held') = Len(wire') + Len(batch') + Len(tasks') /\ DOMAIN Held' = 1 .. Len(Held')
    BY HeldNextLen
  <2>4. Len(Held') = Len(Held)
    BY <2>1, <2>2, <2>3
  <2>5. QED
    BY <2>2, <2>3, <2>4
<1>4. ASSUME NEW n \in 1 .. Len(Held) PROVE Held'[n] = Held[n]
  <2>1. CASE n <= w
    <3>1. n \in 1 .. w /\ n \in 1 .. Len(wire')
      BY <1>2, <2>1, HeldForm
    <3>2. QED
      BY <1>2, <3>1, HeldForm, HeldNext
  <2>2. CASE n = w + 1
    <3>1. n \in 1 .. Len(wire')
      BY <1>2, <2>2, HeldForm
    <3>2. QED
      BY <1>2, <2>2, <3>1, FirstOfBatch, HeldNext
  <2>3. CASE n > w + 1 /\ n <= w + Len(batch)
    <3> DEFINE k == n - (w + 1)
    <3>1. k \in 1 .. (Len(batch) - 1) /\ k + 1 \in 1 .. Len(batch) /\ k \in 1 .. Len(batch')
          /\ w + (k + 1) = n /\ Len(wire') + k = n
      BY <1>1, <1>2, <2>3, HeldLen, FirstOfBatch
    <3>2. Held[n] = batch[k + 1]
      BY <3>1, HeldForm
    <3>3. Held'[Len(wire') + k] = batch'[k]
      BY <3>1, HeldNext
    <3>4. QED
      BY <1>1, <3>1, <3>2, <3>3, FirstOfBatch
  <2>4. CASE n > w + Len(batch)
    <3> DEFINE k == n - (w + Len(batch))
    <3>1. k \in 1 .. Len(tasks) /\ w + Len(batch) + k = n /\ Len(wire') + Len(batch') + k = n
      BY <1>1, <1>2, <2>4, HeldForm, FirstOfBatch
    <3>2. Held[n] = tasks[k]
      BY <3>1, HeldForm
    <3>3. Held'[n] = tasks'[k]
      BY <3>1, HeldNext
    <3>4. QED
      BY <3>2, <3>3
  <2>5. QED
    BY <2>1, <2>2, <2>3, <2>4, HeldForm
<1>5. Held' = Held
  <2>1. Held \in Seq(Task) /\ Held' \in Seq(Task)
    <3>1. wire' \in Seq(Task) /\ batch' \in Seq(Task) /\ tasks' \in Seq(Task)
      BY DEF TypeOK
    <3>2. QED
      BY <3>1, HeldForm, LineForm DEF Held
  <2>2. QED
    BY <1>3, <1>4, <2>1
<1>6. QED
  BY <1>1, <1>5, LineStays

\* A task that failed leaves a gap.
LEMMA FailureCloses ==
  ASSUME TypeOK, TypeOK', RunTask, wire' = wire,
         Len(tasks') >= Len(tasks), \A n \in 1 .. Len(tasks) : tasks'[n] = tasks[n]
  PROVE  Closed(Len(wire) + 1)
<1> DEFINE w == Len(wire)
<1>1. batch' = Tail(batch)
  BY DEF RunTask
<1>2. ASSUME NEW n \in 1 .. w PROVE Held'[n] = Held[n]
  BY HeldForm, HeldNext
<1>3. ASSUME NEW n \in (w + 1) .. (Len(Held) - 1) PROVE Held'[n] = Held[n + 1]
  <2>1. CASE n < w + Len(batch)
    <3> DEFINE k == n - w
    <3>1. k \in 1 .. (Len(batch) - 1) /\ k + 1 \in 1 .. Len(batch) /\ k \in 1 .. Len(batch')
          /\ w + (k + 1) = n + 1 /\ w + k = n
      BY <1>1, <2>1, HeldLen, FirstOfBatch
    <3>2. Held[w + (k + 1)] = batch[k + 1]
      BY <3>1, HeldForm
    <3>3. Held'[n] = batch'[k]
      BY <3>1, HeldNext
    <3>4. QED
      BY <1>1, <3>1, <3>2, <3>3, FirstOfBatch
  <2>2. CASE n >= w + Len(batch)
    <3> DEFINE k == n + 1 - (w + Len(batch))
    <3>1. k \in 1 .. Len(tasks) /\ w + Len(batch) + k = n + 1 /\ w + Len(batch') + k = n
      BY <1>1, <2>2, HeldForm, FirstOfBatch
    <3>2. Held[n + 1] = tasks[k]
      BY <3>1, HeldForm
    <3>3. k \in 1 .. Len(tasks')
      BY <3>1, HeldForm DEF TypeOK
    <3>4. Held'[n] = tasks'[k]
      BY <3>1, <3>3, HeldNext
    <3>5. QED
      BY <3>1, <3>2, <3>4
  <2>3. QED
    BY <2>1, <2>2, HeldForm
<1>4. QED
  BY <1>2, <1>3 DEF Closed

LEMMA FailLine ==
  ASSUME TypeOK, TypeOK', LineInv, RunTask, FailTask(Head(batch)), wire' = wire
  PROVE  LineInv'
<1> DEFINE t == Head(batch)
           k == Len(wire) + 1
           L == Len(Held)
<1>1. /\ loop' = "draining" /\ batch' = Tail(batch) /\ entered' = entered /\ tasks \in Seq(Task)
      /\ t.retry \in 0 .. MaxRetry /\ L \in Nat
      /\ Len(batch') = Len(batch) - 1
  <2>1. loop' = "draining" /\ batch' = Tail(batch) /\ entered' = entered /\ tasks \in Seq(Task)
    BY DEF RunTask, TypeOK
  <2>2. t \in Task /\ Len(Tail(batch)) = Len(batch) - 1
    BY FirstOfBatch
  <2>3. t.retry \in 0 .. MaxRetry
    BY <2>2 DEF Task
  <2>4. L \in Nat
    BY HeldLen
  <2>5. QED
    BY <2>1, <2>2, <2>3, <2>4
<1>2. k \in DOMAIN Held /\ Held[k] = t
  BY FirstOfBatch
<1>3. L = Len(wire) + Len(batch) + Len(tasks)
      /\ Len(wire) \in Nat /\ Len(batch) \in Nat /\ Len(tasks) \in Nat
  BY HeldLen
<1>4. Len(Held') = Len(wire') + Len(batch') + Len(tasks') /\ DOMAIN Held' = 1 .. Len(Held')
  BY HeldNextLen
<1>5. Len(wire') = Len(wire)
  OBVIOUS
<1>6. CASE t.retry + 1 <= MaxRetry
  <2> DEFINE r == [t EXCEPT !.retry = @ + 1]
  <2>1. r \in Task /\ r.msg = t.msg /\ r.retry # 0
    <3>1. t \in Task
      BY FirstOfBatch
    <3>2. r = [msg |-> t.msg, retry |-> t.retry + 1] /\ t.msg \in Msg
      BY <3>1 DEF Task
    <3>3. t.retry + 1 \in 0 .. MaxRetry /\ t.retry + 1 # 0
      BY <1>1, <1>6, MaxRetryNat
    <3> HIDE DEF t, r
    <3>4. QED
      BY <3>2, <3>3 DEF Task
  <2>2. tasks' = Append(tasks, r) /\ dropped' = dropped
    BY <1>6 DEF FailTask
  <2> HIDE DEF r
  <2>3. /\ Len(tasks') = Len(tasks) + 1 /\ tasks'[Len(tasks) + 1] = r
        /\ \A n \in 1 .. Len(tasks) : tasks'[n] = tasks[n]
    BY <1>1, <2>1, <2>2, AppendProperties
  <2>4. Closed(k)
    BY <2>3, HeldForm, FailureCloses
  <2>5. DOMAIN Held' = 1 .. L /\ Held'[L] = r
    <3>1. Len(Held') = L /\ Len(wire') + Len(batch') + (Len(tasks) + 1) = L
      <4>1. Len(batch') = Len(batch) - 1 /\ Len(tasks') = Len(tasks) + 1
            /\ Len(wire') = Len(wire) /\ Len(Held') = Len(wire') + Len(batch') + Len(tasks')
        BY <1>1, <1>4, <1>5, <2>3
      <4>2. QED
        BY <1>3, <4>1
    <3>2. Len(tasks) + 1 \in 1 .. Len(tasks')
      BY <2>3, HeldLen
    <3>3. Held'[Len(wire') + Len(batch') + (Len(tasks) + 1)] = tasks'[Len(tasks) + 1]
      BY <3>2, HeldNext
    <3>4. DOMAIN Held' = 1 .. Len(Held')
      BY HeldNextLen
    <3>5. QED
      BY <2>3, <3>1, <3>3, <3>4
  <2>6. QED
    BY <1>1, <1>2, <2>1, <2>2, <2>4, <2>5, LineTurns
<1>7. CASE ~(t.retry + 1 <= MaxRetry)
  <2>1. tasks' = tasks /\ dropped' = dropped \cup {t.msg}
    BY <1>7 DEF FailTask
  <2>2. Closed(k)
    BY <2>1, HeldForm, FailureCloses
  <2>3. DOMAIN Held' = 1 .. (L - 1)
    BY <1>1, <1>3, <1>4, <1>5, <2>1
  <2>4. QED
    BY <1>1, <1>2, <2>1, <2>2, <2>3, LineShrinks
<1>8. QED
  BY <1>6, <1>7

LEMMA StepLine == TypeOK /\ TypeOK' /\ LineInv /\ [Next]_vars => LineInv'
<1> SUFFICES ASSUME TypeOK, TypeOK', LineInv, [Next]_vars PROVE LineInv'
  OBVIOUS
<1>1. ASSUME NEW p \in Publisher, NEW m \in Msg, Enqueue(p, m) PROVE LineInv'
  BY <1>1, EnqueueLine
<1>2. ASSUME NEW p \in Publisher, Signal(p) PROVE LineInv'
  BY <1>2, LineStays DEF Signal, Held, LineInv
<1>3. CASE Drain
  BY <1>3, DrainLine
<1>4. CASE RunTask
  BY <1>4, SendLine, FailLine DEF RunTask
<1>5. CASE Finish \/ Destroy \/ Break
  BY <1>5, LineStays DEF Finish, Destroy, Break, Held, LineInv
<1>6. CASE UNCHANGED vars
  BY <1>6, LineStays DEF vars, Held, LineInv
<1>7. QED
  BY <1>1, <1>2, <1>3, <1>4, <1>5, <1>6 DEF Next, Loop

LEMMA LineInductive == Spec => []LineInv
<1>1. ASSUME Init PROVE LineInv
  <2>1. Held = << >>
    BY <1>1 DEF Init, Held
  <2>2. QED
    BY <1>1, <2>1 DEF Init, LineInv, EnteredOnce, Conserved, FreshIsYoungest, MsgsIn, Entered
<1>2. QED
  BY <1>1, ClientTypes, StepLine, PTL DEF Spec

\* Every accepted message is in just one place, however publish(), the swap and the
\* retries interleave.
THEOREM MessagesAreConserved == Spec => []Conserved
<1>1. LineInv => Conserved
  BY DEF LineInv
<1>2. QED
  BY <1>1, LineInductive, PTL

\* Only a message that was refused before is sent after a younger one.
THEOREM OrderOfFirstAttempts == Spec => []OvertakenOnlyByRetry
<1>1. ASSUME TypeOK, LineInv PROVE OvertakenOnlyByRetry
  <2> SUFFICES ASSUME NEW i \in DOMAIN wire, NEW j \in DOMAIN wire, i < j,
                      EntryOrder(wire[j].msg) < EntryOrder(wire[i].msg)
               PROVE  wire[j].retry > 0
    BY DEF OvertakenOnlyByRetry
  <2>1. /\ i \in 1 .. Len(wire) /\ j \in 1 .. Len(wire)
        /\ i \in DOMAIN Held /\ j \in DOMAIN Held
        /\ Held[i] = wire[i] /\ Held[j] = wire[j] /\ wire[j] \in Task
    BY <1>1, HeldForm DEF TypeOK
  <2>2. wire[i].msg \in Entered /\ wire[j].msg \in Entered
    BY <1>1, <2>1 DEF LineInv, Conserved, MsgsIn
  <2>3. /\ OrderIn(entered, wire[i].msg) \in Nat /\ OrderIn(entered, wire[j].msg) \in Nat
        /\ OrderIn(entered, wire[j].msg) < OrderIn(entered, wire[i].msg)
    BY <1>1, <2>2, OrderIs DEF TypeOK, Entered, EntryOrder, OrderIn
  <2>4. wire[j].retry # 0
    BY <1>1, <2>1, <2>3 DEF LineInv, FreshIsYoungest
  <2>5. QED
    BY <2>1, <2>4 DEF Task
<1>2. QED
  BY <1>1, ClientTypes, LineInductive, PTL

-------------------------------------------------------------------------------
(* The client implements its promise                                         *)

LEMMA AppendMsgs ==
  ASSUME NEW s \in Seq(Task), NEW t \in Task
  PROVE  MsgsIn(Append(s, t)) = MsgsIn(s) \cup {t.msg}
<1> DEFINE a == Append(s, t)
<1>1. /\ Len(a) = Len(s) + 1 /\ a[Len(s) + 1] = t /\ a \in Seq(Task)
      /\ \A n \in 1 .. Len(s) : a[n] = s[n]
  BY AppendProperties
<1>2. DOMAIN s = 1 .. Len(s) /\ DOMAIN a = 1 .. Len(a) /\ Len(s) \in Nat
  BY <1>1, LenProperties
<1> HIDE DEF a
<1>3. MsgsIn(a) = MsgsIn(s) \cup {t.msg}
  BY <1>1, <1>2 DEF MsgsIn
<1>4. QED
  BY <1>3 DEF a

LEMMA TailMsgs ==
  ASSUME NEW s \in Seq(Task), s # << >>
  PROVE  MsgsIn(s) = MsgsIn(Tail(s)) \cup {Head(s).msg}
<1> DEFINE r == Tail(s)
<1>1. /\ r \in Seq(Task) /\ Len(r) = Len(s) - 1
      /\ \A n \in 1 .. Len(r) : r[n] = s[n + 1]
  BY HeadTailProperties
<1>2. DOMAIN s = 1 .. Len(s) /\ DOMAIN r = 1 .. Len(r) /\ Len(s) \in Nat /\ Len(s) # 0
      /\ Head(s) = s[1]
  BY <1>1, LenProperties
<1> HIDE DEF r
<1>3. ASSUME NEW n \in DOMAIN s PROVE s[n].msg \in MsgsIn(r) \cup {s[1].msg}
  <2>1. CASE n = 1
    BY <2>1
  <2>2. CASE n # 1
    <3>1. n - 1 \in 1 .. Len(r) /\ (n - 1) + 1 = n
      BY <1>1, <1>2, <2>2
    <3>2. r[n - 1] = s[n]
      BY <1>1, <3>1
    <3>3. QED
      BY <1>2, <3>1, <3>2 DEF MsgsIn
  <2>3. QED
    BY <2>1, <2>2
<1>4. \A n \in DOMAIN r : n + 1 \in DOMAIN s /\ r[n].msg = s[n + 1].msg
  BY <1>1, <1>2
<1>5. 1 \in DOMAIN s
  BY <1>2
<1>6. MsgsIn(s) = MsgsIn(r) \cup {Head(s).msg}
  <2>1. MsgsIn(s) \subseteq MsgsIn(r) \cup {s[1].msg}
    BY <1>3 DEF MsgsIn
  <2>2. MsgsIn(r) \subseteq MsgsIn(s)
    BY <1>4 DEF MsgsIn
  <2>3. s[1].msg \in MsgsIn(s)
    BY <1>5 DEF MsgsIn
  <2>4. QED
    BY <1>2, <2>1, <2>2, <2>3
<1>7. QED
  BY <1>6 DEF r

LEMMA BothMsgs ==
  ASSUME NEW a \in Seq(Task), NEW b \in Seq(Task)
  PROVE  MsgsIn(a \o b) = MsgsIn(a) \cup MsgsIn(b)
<1> DEFINE c == a \o b
<1>1. /\ c \in Seq(Task) /\ Len(c) = Len(a) + Len(b)
      /\ \A n \in 1 .. (Len(a) + Len(b)) : c[n] = IF n <= Len(a) THEN a[n] ELSE b[n - Len(a)]
  BY ConcatProperties
<1>2. /\ DOMAIN a = 1 .. Len(a) /\ DOMAIN b = 1 .. Len(b) /\ DOMAIN c = 1 .. Len(c)
      /\ Len(a) \in Nat /\ Len(b) \in Nat
  BY <1>1, LenProperties
<1> HIDE DEF c
<1>3. ASSUME NEW n \in DOMAIN c PROVE c[n].msg \in MsgsIn(a) \cup MsgsIn(b)
  <2>1. CASE n <= Len(a)
    BY <1>1, <1>2, <2>1 DEF MsgsIn
  <2>2. CASE ~(n <= Len(a))
    <3>1. n - Len(a) \in DOMAIN b /\ c[n] = b[n - Len(a)]
      BY <1>1, <1>2, <2>2
    <3>2. QED
      BY <3>1 DEF MsgsIn
  <2>3. QED
    BY <2>1, <2>2
<1>4. ASSUME NEW n \in DOMAIN a PROVE a[n].msg \in MsgsIn(c)
  <2>1. n \in DOMAIN c /\ c[n] = a[n]
    BY <1>1, <1>2
  <2>2. QED
    BY <2>1 DEF MsgsIn
<1>5. ASSUME NEW n \in DOMAIN b PROVE b[n].msg \in MsgsIn(c)
  <2>1. Len(a) + n \in DOMAIN c /\ c[Len(a) + n] = b[n]
    BY <1>1, <1>2
  <2>2. QED
    BY <2>1 DEF MsgsIn
<1>6. MsgsIn(c) = MsgsIn(a) \cup MsgsIn(b)
  BY <1>3, <1>4, <1>5 DEF MsgsIn
<1>7. QED
  BY <1>6 DEF c

\* Where a message is, by the three sets.
Status(m, sent, lost, queued) ==
  CASE m \in sent -> "sent"
    [] m \in lost -> "dropped"
    [] m \in queued -> "queued"
    [] OTHER -> "new"

Waiting == MsgsIn(tasks) \cup MsgsIn(batch)

LEMMA StatusIs ==
  /\ TypeOK => \A m \in Msg : StatusOf(m) = Status(m, MsgsIn(wire), dropped, Waiting)
  /\ TypeOK' => \A m \in Msg : StatusOf(m)' = Status(m, MsgsIn(wire)', dropped', Waiting')
<1>1. ASSUME TypeOK PROVE MsgsIn(tasks \o batch) = Waiting
  BY <1>1, BothMsgs DEF TypeOK, Waiting
<1>2. ASSUME TypeOK' PROVE MsgsIn(tasks \o batch)' = Waiting'
  <2>1. tasks' \in Seq(Task) /\ batch' \in Seq(Task)
    BY <1>2 DEF TypeOK
  <2>2. MsgsIn(tasks' \o batch') = MsgsIn(tasks') \cup MsgsIn(batch')
    BY <2>1, BothMsgs
  <2>3. QED
    BY <2>2 DEF Waiting, MsgsIn
<1>3. QED
  BY <1>1, <1>2 DEF StatusOf, Status

\* No message is in two of the three.
Disjoint ==
  /\ MsgsIn(wire) \cap Waiting = {}
  /\ MsgsIn(wire) \cap dropped = {}
  /\ Waiting \cap dropped = {}

LEMMA LineDisjoint == TypeOK /\ LineInv => Disjoint
<1> SUFFICES ASSUME TypeOK, LineInv PROVE Disjoint
  OBVIOUS
<1>1. ASSUME NEW i \in DOMAIN wire, NEW j \in DOMAIN batch, wire[i].msg = batch[j].msg PROVE FALSE
  <2>1. i \in 1 .. Len(wire) /\ j \in 1 .. Len(batch)
    BY DEF TypeOK
  <2>2. Held[i] = wire[i] /\ Held[Len(wire) + j] = batch[j]
    BY <2>1, HeldForm
  <2>3. i \in DOMAIN Held /\ Len(wire) + j \in DOMAIN Held /\ i # Len(wire) + j
    BY <2>1, HeldLen
  <2>4. QED
    BY <1>1, <2>2, <2>3 DEF LineInv, Conserved
<1>2. ASSUME NEW i \in DOMAIN wire, NEW j \in DOMAIN tasks, wire[i].msg = tasks[j].msg PROVE FALSE
  <2>1. i \in 1 .. Len(wire) /\ j \in 1 .. Len(tasks)
    BY DEF TypeOK
  <2>2. Held[i] = wire[i] /\ Held[Len(wire) + Len(batch) + j] = tasks[j]
    BY <2>1, HeldForm
  <2>3. i \in DOMAIN Held /\ Len(wire) + Len(batch) + j \in DOMAIN Held
        /\ i # Len(wire) + Len(batch) + j
    BY <2>1, HeldLen
  <2>4. QED
    BY <1>2, <2>2, <2>3 DEF LineInv, Conserved
<1>3. MsgsIn(wire) \cap Waiting = {}
  BY <1>1, <1>2 DEF Waiting, MsgsIn
<1>4. MsgsIn(Held) \cap dropped = {}
  BY DEF LineInv, Conserved
<1>5. QED
  BY <1>3, <1>4, HeldMsgs DEF Disjoint, Waiting

\* A message that waits has not been sent or given up.
LEMMA Apart ==
  ASSUME TypeOK, LineInv, RunTask
  PROVE  Head(batch).msg \in Waiting \ (MsgsIn(wire) \cup dropped) /\ Head(batch).msg \in Msg
<1> DEFINE t == Head(batch)
<1>1. t \in Task
  BY FirstOfBatch
<1>2. t.msg \in Waiting
  BY TailMsgs DEF RunTask, Waiting, TypeOK
<1>3. QED
  BY <1>1, <1>2, LineDisjoint DEF Disjoint, Task

LEMMA StepImplements ==
  ASSUME TypeOK, TypeOK', LineInv, LineInv', [Next]_vars
  PROVE  [Ledger!Next]_([m \in Msg |-> StatusOf(m)])
<1> DEFINE st == [m \in Msg |-> StatusOf(m)]
           t == Head(batch)
<1>1. \A m \in Msg : /\ st[m] = Status(m, MsgsIn(wire), dropped, Waiting)
                     /\ st'[m] = Status(m, MsgsIn(wire)', dropped', Waiting')
  BY StatusIs
<1>0. Disjoint'
  <2>1. TypeOK' /\ LineInv'
    OBVIOUS
  <2>2. QED
    BY <2>1, LineDisjoint, PTL
<1>2. ASSUME UNCHANGED <<wire, dropped>>, Waiting' = Waiting PROVE st' = st
  <2>1. MsgsIn(wire)' = MsgsIn(wire)
    BY <1>2 DEF MsgsIn
  <2>2. \A m \in Msg : StatusOf(m)' = StatusOf(m)
    BY <1>2, <2>1, StatusIs
  <2>3. QED
    BY <2>2
<1>3. ASSUME NEW p \in Publisher, NEW m \in Msg, Enqueue(p, m) PROVE Ledger!Accept(m)
  <2>1. /\ m \notin Entered /\ UNCHANGED <<wire, dropped, batch>> /\ tasks \in Seq(Task)
        /\ tasks' = Append(tasks, [msg |-> m, retry |-> 0]) /\ [msg |-> m, retry |-> 0] \in Task
    BY <1>3, MaxRetryNat DEF Enqueue, TypeOK, Task
  <2>2. MsgsIn(wire)' = MsgsIn(wire) /\ MsgsIn(batch)' = MsgsIn(batch)
        /\ MsgsIn(tasks)' = MsgsIn(tasks) \cup {m}
    <3>1. MsgsIn(tasks') = MsgsIn(tasks) \cup {m}
      BY <2>1, AppendMsgs
    <3>2. QED
      BY <2>1, <3>1 DEF MsgsIn
  <2>3. m \notin MsgsIn(wire) \cup Waiting \cup dropped
    BY <2>1, HeldMsgs DEF LineInv, Conserved, Waiting
  <2>4. Waiting' = Waiting \cup {m}
    BY <2>2 DEF Waiting
  <2>5. StatusOf(m) = "new"
    BY <2>3, StatusIs DEF Status
  <2>6. \A x \in Msg : StatusOf(x)' = IF x = m THEN "queued" ELSE StatusOf(x)
    BY <2>1, <2>2, <2>3, <2>4, StatusIs DEF Status
  <2>7. st' = [st EXCEPT ![m] = "queued"]
    BY <2>6
  <2>8. QED
    BY <2>5, <2>7 DEF Ledger!Accept
<1>4. CASE Drain
  <2>1. batch = << >> /\ batch' = tasks /\ tasks' = << >> /\ UNCHANGED <<wire, dropped>>
    BY <1>4 DEF Drain, LineInv
  <2>2. Waiting' = Waiting
    BY <2>1 DEF Waiting, MsgsIn
  <2>3. QED
    BY <1>2, <2>1, <2>2
<1>5. CASE RunTask
  <2>1. t.msg \in Waiting /\ t.msg \notin MsgsIn(wire) /\ t.msg \notin dropped /\ t.msg \in Msg
        /\ t \in Task
    BY <1>5, Apart, FirstOfBatch
  <2>2. MsgsIn(batch) = MsgsIn(batch)' \cup {t.msg}
    <3>1. MsgsIn(batch) = MsgsIn(Tail(batch)) \cup {t.msg} /\ batch' = Tail(batch)
      BY <1>5, TailMsgs DEF RunTask, TypeOK
    <3>2. QED
      BY <3>1 DEF MsgsIn
  <2>3. StatusOf(t.msg) = "queued"
    BY <2>1, StatusIs DEF Status
  <2>4. PICK h \in Msg : h = t.msg
    BY <2>1
  <2>5. CASE wire' = Append(wire, t) /\ UNCHANGED <<tasks, dropped>>
    <3>1. MsgsIn(wire)' = MsgsIn(wire) \cup {t.msg} /\ MsgsIn(tasks)' = MsgsIn(tasks)
      <4>1. MsgsIn(wire') = MsgsIn(wire) \cup {t.msg}
        BY <2>1, <2>5, AppendMsgs DEF TypeOK
      <4>2. QED
        BY <2>5, <4>1 DEF MsgsIn
    <3>2. Waiting = Waiting' \cup {t.msg}
      BY <2>2, <3>1 DEF Waiting
    <3>3. \A x \in Msg : StatusOf(x)' = IF x = t.msg THEN "sent" ELSE StatusOf(x)
      <4>1. StatusOf(h)' = "sent"
        <5>1. h \in MsgsIn(wire)' /\ h \notin dropped' /\ h \notin Waiting'
          BY <1>0, <2>1, <2>5, <3>1, <3>2, <2>4 DEF Disjoint
        <5>2. StatusOf(h)' = Status(h, MsgsIn(wire)', dropped', Waiting')
          BY StatusIs
        <5>3. QED
          BY <5>1, <5>2 DEF Status
      <4>2. ASSUME NEW x \in Msg, x # t.msg PROVE StatusOf(x)' = StatusOf(x)
        <5>1. /\ x \in MsgsIn(wire)' <=> x \in MsgsIn(wire)
              /\ x \in dropped' <=> x \in dropped
              /\ x \in Waiting' <=> x \in Waiting
          BY <2>1, <2>5, <3>1, <3>2, <4>2
        <5>2. QED
          BY <5>1, StatusIs DEF Status
      <4>3. QED
        BY <2>4, <4>1, <4>2
    <3>4. st' = [st EXCEPT ![t.msg] = "sent"]
      BY <3>3
    <3>5. Ledger!Send(t.msg)
      BY <2>1, <2>3, <3>4 DEF Ledger!Send
    <3>6. QED
      BY <2>1, <3>5 DEF Ledger!Next
  <2>6. CASE FailTask(t) /\ UNCHANGED wire /\ t.retry + 1 <= MaxRetry
    <3> DEFINE r == [t EXCEPT !.retry = @ + 1]
    <3>1. r \in Task /\ r.msg = t.msg
      <4>1. r = [msg |-> t.msg, retry |-> t.retry + 1] /\ t.retry \in 0 .. MaxRetry
        BY <2>1 DEF Task
      <4>2. t.retry + 1 \in 0 .. MaxRetry
        BY <2>6, <4>1, MaxRetryNat
      <4> HIDE DEF r, t
      <4>3. QED
        BY <2>1, <4>1, <4>2 DEF Task
    <3>2. tasks' = Append(tasks, r) /\ dropped' = dropped
      BY <2>6 DEF FailTask
    <3> HIDE DEF r
    <3>3. MsgsIn(tasks)' = MsgsIn(tasks) \cup {t.msg}
      <4>1. MsgsIn(tasks') = MsgsIn(tasks) \cup {t.msg}
        BY <3>1, <3>2, AppendMsgs DEF TypeOK
      <4>2. QED
        BY <4>1 DEF MsgsIn
    <3>4. Waiting' = Waiting
      BY <2>2, <3>3 DEF Waiting
    <3>5. QED
      BY <1>2, <2>6, <3>2, <3>4
  <2>7. CASE FailTask(t) /\ UNCHANGED wire /\ ~(t.retry + 1 <= MaxRetry)
    <3>1. tasks' = tasks /\ dropped' = dropped \cup {t.msg}
      BY <2>7 DEF FailTask
    <3>2. MsgsIn(wire)' = MsgsIn(wire) /\ MsgsIn(tasks)' = MsgsIn(tasks)
      BY <2>7, <3>1 DEF MsgsIn
    <3>3. Waiting = Waiting' \cup {t.msg}
      BY <2>2, <3>2, <2>1 DEF Waiting
    <3>4. \A x \in Msg : StatusOf(x)' = IF x = t.msg THEN "dropped" ELSE StatusOf(x)
      <4>1. StatusOf(h)' = "dropped"
        <5>1. h \notin MsgsIn(wire)' /\ h \in dropped' /\ h \notin Waiting'
          BY <1>0, <2>1, <3>1, <3>2, <3>3, <2>4 DEF Disjoint
        <5>2. StatusOf(h)' = Status(h, MsgsIn(wire)', dropped', Waiting')
          BY StatusIs
        <5>3. QED
          BY <5>1, <5>2 DEF Status
      <4>2. ASSUME NEW x \in Msg, x # t.msg PROVE StatusOf(x)' = StatusOf(x)
        <5>1. /\ x \in MsgsIn(wire)' <=> x \in MsgsIn(wire)
              /\ x \in dropped' <=> x \in dropped
              /\ x \in Waiting' <=> x \in Waiting
          BY <2>1, <3>1, <3>2, <3>3, <4>2
        <5>2. QED
          BY <5>1, StatusIs DEF Status
      <4>3. QED
        BY <2>4, <4>1, <4>2
    <3>5. st' = [st EXCEPT ![t.msg] = "dropped"]
      BY <3>4
    <3>6. Ledger!Drop(t.msg)
      BY <2>1, <2>3, <3>5 DEF Ledger!Drop
    <3>7. QED
      BY <2>1, <3>6 DEF Ledger!Next
  <2>8. QED
    BY <1>5, <2>5, <2>6, <2>7 DEF RunTask
<1>6. ASSUME UNCHANGED <<tasks, batch, wire, dropped>> PROVE st' = st
  <2>1. Waiting' = Waiting
    BY <1>6 DEF Waiting, MsgsIn
  <2>2. QED
    BY <1>2, <1>6, <2>1
<1>7. (\E p \in Publisher : Signal(p)) \/ Finish \/ Destroy \/ Break \/ UNCHANGED vars => st' = st
  BY <1>6 DEF Signal, Finish, Destroy, Break, vars
<1>8. (\E p \in Publisher, m \in Msg : Enqueue(p, m)) => Ledger!Next
  BY <1>3 DEF Ledger!Next
<1>9. QED
  BY <1>4, <1>5, <1>7, <1>8 DEF Next, Loop

\* publish() promises what Outbox says, for any messages, threads and retry budget: a
\* message is handed to the broker once at most, and does not come back once it has left.
THEOREM ClientImplementsOutbox == Spec => ImplementsOutbox
<1>1. Init => Ledger!Init
  <2> SUFFICES ASSUME Init, NEW m \in Msg PROVE StatusOf(m) = "new"
    BY DEF Ledger!Init
  <2>1. tasks \o batch = << >>
    BY DEF Init
  <2>2. QED
    BY <2>1 DEF Init, StatusOf, MsgsIn
<1>2. QED
  BY <1>1, ClientTypes, LineInductive, StepImplements, PTL DEF Spec, ImplementsOutbox, Ledger!Spec

-------------------------------------------------------------------------------
(* The pipeline: what its invariants say                                     *)

\* The ES store's queue is bound to msg.text, and what it publishes again is what
\* it was given.
OnlyTexts ==
  /\ \A c \in Copy : queue["es"][c] > 0 => c.msg \in Text
  /\ work["es"] # Idle => work["es"].copy.msg \in Text

\* What a step of a callback stands for: in both consumers, ...
AckTells == \A q \in Queue :
  work[q] # Idle /\ work[q].step = "ack" => work[q].copy.retry < MaxRedo

\* ... in the Message service ...
RowTells == work["mysql"] # Idle =>
  LET m == work["mysql"].copy.msg
      s == work["mysql"].step
  IN  /\ s = "uploaded" => m \notin Text
      /\ s \in {"uploaded", "success", "retry", "ack", "unheard"} /\ m \notin Text => blobs[m] > 0
      /\ s = "success" => m \in rows
      /\ s = "fatal" => m \in unsaved

\* ... and in the ES store.
IndexTells == work["es"] # Idle =>
  /\ work["es"].step \in {"called", "success", "retry", "ack", "unheard"}
  /\ work["es"].step = "success" => work["es"].copy.msg \in index

StepsTell == AckTells /\ RowTells /\ IndexTells

\* A message nobody has put on the wire has left no trace.
NoCopies(m) == \A q \in Queue :
  /\ \A c \in Copy : c.msg = m => queue[q][c] = 0
  /\ work[q] # Idle => work[q].copy.msg # m

Untouched == \A m \in Message : status[m] \in {"new", "queued"} =>
  NoCopies(m) /\ m \notin rows /\ attempts[m] = 0

\* The copy that Transmite's publish started: its count is covered by inserts that
\* were tried.  Copies the ES store sends across may run ahead of them.
OnTheWay(m) ==
  \/ \E c \in Copy : c.msg = m /\ c.retry <= attempts[m] /\ queue["mysql"][c] > 0
  \/ /\ work["mysql"] # Idle
     /\ work["mysql"].copy.msg = m
     /\ \/ work["mysql"].step \in {"called", "uploaded"} /\ work["mysql"].copy.retry <= attempts[m]
        \/ work["mysql"].step \in {"retry", "unheard"} /\ work["mysql"].copy.retry < attempts[m]

Settled(m) == m \in rows \/ m \in unsaved \/ m \in unheard["mysql"] \/ attempts[m] > MaxRedo

Accounted == \A m \in Message : Delivered(m) => Settled(m) \/ OnTheWay(m)

\* What a consumer was at when it lost its connection is in its queue again, and stays
\* there: nobody delivers from the queue of a deaf consumer.
DeafHasCopy == \A q \in Queue :
  q \in deaf /\ work[q] # Idle => queue[q][work[q].copy] > 0

\* A retry of the ES store is in its queue before the old delivery is acked.
RetryIsQueued ==
  work["es"] # Idle /\ work["es"].step = "ack" =>
    \E c \in Copy : c.msg = work["es"].copy.msg /\ queue["es"][c] > 0

PipeInv ==
  /\ PipelineTypeOK /\ OnlyTexts /\ StepsTell /\ Untouched /\ Accounted
  /\ RetryIsQueued /\ RowHasFile /\ DeafHasCopy

-----------------------------------------------------------------------------------
(* The pipeline: what each step does to the queues and the deliveries        *)

LEMMA CopyForm == ASSUME NEW c \in Copy
  PROVE  /\ c.msg \in Message /\ c.retry \in 0 .. MaxRedo
         /\ c = [msg |-> c.msg, retry |-> c.retry]
         /\ MaxRedo \in Nat
  BY PipelineConstants DEF Copy

LEMMA WorkForm == ASSUME PipelineTypeOK, NEW q \in Queue, work[q] # Idle
  PROVE  /\ work[q].copy \in Copy /\ work[q].step \in Step
         /\ work[q].copy.msg \in Message /\ work[q].copy.retry \in 0 .. MaxRedo
         /\ work[q] = [copy |-> work[q].copy, step |-> work[q].step]
<1>1. work[q] \in [copy : Copy, step : Step]
  BY DEF PipelineTypeOK
<1> QED
  BY <1>1, CopyForm

LEMMA GotoForm == ASSUME PipelineTypeOK, NEW q \in Queue, work[q] # Idle, NEW s \in Step, Goto(q, s)
  PROVE  /\ work' \in [Queue -> {Idle} \cup [copy : Copy, step : Step]]
         /\ work'[q] # Idle /\ work'[q].copy = work[q].copy /\ work'[q].step = s
         /\ \A p \in Queue : p # q => work'[p] = work[p]
<1>1. work'[q] = [copy |-> work[q].copy, step |-> s]
  <2>1. work' = [work EXCEPT ![q] = [work[q] EXCEPT !.step = s]]
    BY DEF Goto
  <2>2. work'[q] = [work[q] EXCEPT !.step = s]
    BY <2>1 DEF PipelineTypeOK
  <2> QED
    BY <2>2, WorkForm
<1>2. s # "idle"
  BY DEF Step
<1>3. [copy |-> work[q].copy, step |-> s] # Idle
  BY <1>2 DEF Idle
<1>4. /\ work' = [work EXCEPT ![q] = work'[q]]
      /\ \A p \in Queue : p # q => work'[p] = work[p]
  BY <1>1 DEF Goto, PipelineTypeOK
<1>5. work[q].copy \in Copy
  BY WorkForm
<1>6. work'[q] \in [copy : Copy, step : Step]
  BY <1>1, <1>5
<1> QED
  BY <1>1, <1>3, <1>4, <1>6 DEF PipelineTypeOK

LEMMA LeaveForm == ASSUME PipelineTypeOK, NEW q \in Queue, work' = [work EXCEPT ![q] = Idle]
  PROVE  /\ work' \in [Queue -> {Idle} \cup [copy : Copy, step : Step]]
         /\ work'[q] = Idle
         /\ \A p \in Queue : p # q => work'[p] = work[p]
  BY DEF PipelineTypeOK

LEMMA RouteForm ==
  ASSUME PipelineTypeOK, NEW c \in Copy, NEW qs \in SUBSET Queue, Route(c, qs)
  PROVE  /\ queue' \in [Queue -> [Copy -> Nat]]
         /\ \A q \in Queue, d \in Copy :
              queue'[q][d] = IF q \in qs /\ d = c THEN queue[q][d] + 1 ELSE queue[q][d]
  BY DEF PipelineTypeOK, Route

LEMMA DeliverForm == ASSUME PipelineTypeOK, NEW q \in Queue, Deliver(q)
  PROVE  /\ work' \in [Queue -> {Idle} \cup [copy : Copy, step : Step]]
         /\ queue' \in [Queue -> [Copy -> Nat]]
         /\ work[q] = Idle /\ work'[q] # Idle /\ work'[q].step = "called"
         /\ work'[q].copy \in Copy /\ queue[q][work'[q].copy] > 0
         /\ \A p \in Queue : p # q => work'[p] = work[p]
         /\ \A p \in Queue, d \in Copy :
              queue'[p][d] = IF p = q /\ d = work'[q].copy THEN queue[p][d] - 1 ELSE queue[p][d]
<1>1. PICK c \in Copy :
        /\ queue[q][c] > 0
        /\ queue' = [queue EXCEPT ![q][c] = @ - 1]
        /\ work' = [work EXCEPT ![q] = [copy |-> c, step |-> "called"]]
  BY DEF Deliver
<1>2. "called" \in Step /\ [copy |-> c, step |-> "called"] # Idle
  BY DEF Step, Idle
<1>3. work'[q] = [copy |-> c, step |-> "called"]
  BY <1>1 DEF PipelineTypeOK
<1>4. /\ work' \in [Queue -> {Idle} \cup [copy : Copy, step : Step]]
      /\ \A p \in Queue : p # q => work'[p] = work[p]
  BY <1>1, <1>2 DEF PipelineTypeOK
<1>5. queue[q][c] \in Nat /\ queue[q][c] - 1 \in Nat
  BY <1>1 DEF PipelineTypeOK
<1>6. /\ queue' \in [Queue -> [Copy -> Nat]]
      /\ \A p \in Queue, d \in Copy :
           queue'[p][d] = IF p = q /\ d = c THEN queue[p][d] - 1 ELSE queue[p][d]
  BY <1>1, <1>5 DEF PipelineTypeOK
<1> QED
  BY <1>1, <1>2, <1>3, <1>4, <1>6 DEF Deliver

LEMMA CrashForm == ASSUME PipelineTypeOK, NEW q \in Queue, Crash(q)
  PROVE  /\ queue' \in [Queue -> [Copy -> Nat]]
         /\ work[q].copy \in Copy
         /\ \A p \in Queue, d \in Copy :
              queue'[p][d] = IF p = q /\ d = work[q].copy THEN queue[p][d] + 1 ELSE queue[p][d]
<1>1. work[q].copy \in Copy
  BY WorkForm DEF Crash
<1> QED
  BY <1>1 DEF Crash, Requeue, PipelineTypeOK

LEMMA DisconnectForm == ASSUME PipelineTypeOK, NEW q \in Queue, Disconnect(q)
  PROVE  /\ queue' \in [Queue -> [Copy -> Nat]]
         /\ work' = work /\ q \notin deaf /\ deaf' = deaf \cup {q}
         /\ work[q] # Idle => work[q].copy \in Copy /\ queue'[q][work[q].copy] > 0
         /\ \A p \in Queue, d \in Copy :
              queue'[p][d] = IF p = q /\ work[q] # Idle /\ d = work[q].copy
                             THEN queue[p][d] + 1 ELSE queue[p][d]
<1>1. work' = work /\ q \notin deaf /\ deaf' = deaf \cup {q}
  BY DEF Disconnect
<1>2. CASE work[q] = Idle
  BY <1>1, <1>2 DEF Disconnect, PipelineTypeOK
<1>3. CASE work[q] # Idle
  <2>1. work[q].copy \in Copy
    BY <1>3, WorkForm
  <2>2. queue' = [queue EXCEPT ![q][work[q].copy] = @ + 1]
    BY <1>3 DEF Disconnect, Requeue
  <2>3. queue[q][work[q].copy] \in Nat
    BY <2>1 DEF PipelineTypeOK
  <2>4. \A p \in Queue, d \in Copy :
          queue'[p][d] = IF p = q /\ d = work[q].copy THEN queue[p][d] + 1 ELSE queue[p][d]
    BY <2>1, <2>2 DEF PipelineTypeOK
  <2>5. queue' \in [Queue -> [Copy -> Nat]]
    BY <2>1, <2>2 DEF PipelineTypeOK
  <2>6. queue'[q][work[q].copy] > 0
    BY <2>1, <2>3, <2>4
  <2> QED
    BY <1>1, <1>3, <2>1, <2>4, <2>5, <2>6
<1> QED
  BY <1>2, <1>3

\* A retry reaches the broker, or it does not.
RetrySent(q) ==
  /\ Republish(q) /\ q \notin deaf
  /\ Route([work[q].copy EXCEPT !.retry = @ + 1], RetryTargets(q))
  /\ Goto(q, "ack")
RetryUnheard(q) == Republish(q) /\ Goto(q, "unheard") /\ UNCHANGED queue

LEMMA RepublishSplits == \A q \in Queue : Republish(q) => RetrySent(q) \/ RetryUnheard(q)
  BY DEF Republish, RetrySent, RetryUnheard

LEMMA UnheardForm == ASSUME PipelineTypeOK, NEW q \in Queue, RetryUnheard(q)
  PROVE  /\ work[q] # Idle /\ work[q].step = "retry" /\ work[q].copy \in Copy
         /\ queue' = queue /\ deaf' = deaf /\ "unheard" \in Step
         /\ work' \in [Queue -> {Idle} \cup [copy : Copy, step : Step]]
         /\ work'[q] # Idle /\ work'[q].copy = work[q].copy /\ work'[q].step = "unheard"
         /\ \A p \in Queue : p # q => work'[p] = work[p]
<1>1. work[q] # Idle /\ work[q].step = "retry" /\ "unheard" \in Step /\ Goto(q, "unheard")
  BY DEF RetryUnheard, Republish, At, Step
<1>2. queue' = queue /\ deaf' = deaf
  BY DEF RetryUnheard, Republish
<1> QED
  BY <1>1, <1>2, GotoForm, WorkForm

\* The retry that is sent.
LEMMA RepublishForm == ASSUME PipelineTypeOK, NEW q \in Queue, RetrySent(q)
  PROVE  /\ work[q] # Idle /\ work[q].step = "retry" /\ work[q].copy \in Copy
         /\ work[q].copy.retry < MaxRedo
         /\ [msg |-> work[q].copy.msg, retry |-> work[q].copy.retry + 1] \in Copy
         /\ Route([msg |-> work[q].copy.msg, retry |-> work[q].copy.retry + 1], RetryTargets(q))
         /\ Goto(q, "ack") /\ "ack" \in Step
         /\ RetryTargets(q) \in SUBSET Queue
<1>1. work[q] # Idle /\ work[q].step = "retry"
  BY DEF RetrySent, Republish, At
<1>2. work[q].copy \in Copy /\ work[q].copy.msg \in Message /\ work[q].copy.retry \in 0 .. MaxRedo
  BY <1>1, WorkForm
<1>3. [work[q].copy EXCEPT !.retry = @ + 1]
        = [msg |-> work[q].copy.msg, retry |-> work[q].copy.retry + 1]
  BY <1>2, CopyForm
<1>4. work[q].copy.retry + 1 \in 0 .. MaxRedo /\ work[q].copy.retry < MaxRedo
  BY <1>2, PipelineConstants DEF RetrySent, Republish
<1>5. [msg |-> work[q].copy.msg, retry |-> work[q].copy.retry + 1] \in Copy
  BY <1>2, <1>4 DEF Copy
<1> QED
  BY <1>1, <1>2, <1>3, <1>4, <1>5 DEF RetrySent, RetryTargets, Queue, Step

\* The copy that Transmit sends.
LEMMA TransmitForm == ASSUME PipelineTypeOK, NEW m \in Message
  PROVE  /\ [msg |-> m, retry |-> 0] \in Copy
         /\ FirstTargets(m) \in SUBSET Queue /\ "mysql" \in FirstTargets(m)
  BY PipelineConstants DEF Copy, FirstTargets, Queue

-------------------------------------------------------------------------------
(* The pipeline: the invariant                                               *)

LEMMA PipelineInitInv == PipelineInit => PipeInv
<1> SUFFICES ASSUME PipelineInit PROVE PipeInv
  OBVIOUS
<1>1. \A q \in Queue : work[q] = Idle
  BY DEF PipelineInit
<1>2. \A q \in Queue, c \in Copy : queue[q][c] = 0
  BY DEF PipelineInit
<1>3. \A m \in Message : status[m] = "new" /\ attempts[m] = 0
  BY DEF PipelineInit, Out!Init
<1>4. "mysql" \in Queue /\ "es" \in Queue
  BY DEF Queue
<1>5. PipelineTypeOK
  <2>1. status \in [Message -> Out!Status]
    BY DEF PipelineInit, Out!Init, Out!Status
  <2>2. queue \in [Queue -> [Copy -> Nat]] /\ work \in [Queue -> {Idle} \cup [copy : Copy, step : Step]]
    BY DEF PipelineInit
  <2> QED
    BY <2>1, <2>2, PipelineConstants DEF PipelineInit, PipelineTypeOK
<1>6. OnlyTexts /\ StepsTell /\ RetryIsQueued
  BY <1>1, <1>2, <1>4 DEF OnlyTexts, StepsTell, AckTells, RowTells, IndexTells, RetryIsQueued
<1>7. Untouched
  BY <1>1, <1>2, <1>3 DEF Untouched, NoCopies, PipelineInit
<1>8. Accounted
  BY <1>3 DEF Accounted, Delivered
<1>9. DeafHasCopy
  BY <1>1 DEF DeafHasCopy
<1> QED
  BY <1>5, <1>6, <1>7, <1>8, <1>9 DEF PipeInv, RowHasFile, PipelineInit

LEMMA StepPipelineType ==
  PipelineTypeOK /\ OnlyTexts /\ [PipelineNext]_pipelineVars => PipelineTypeOK'
<1> SUFFICES ASSUME PipelineTypeOK, OnlyTexts, [PipelineNext]_pipelineVars
             PROVE  PipelineTypeOK'
  OBVIOUS
<1>0. "mysql" \in Queue /\ "es" \in Queue /\ crashes \in Nat /\ MaxCrash \in Nat
  BY PipelineConstants DEF Queue, PipelineTypeOK
<1>1. ASSUME NEW m \in Message, Accept(m) \/ Transmit(m) \/ Abandon(m)
      PROVE  PipelineTypeOK'
  <2>1. status' \in [Message -> Out!Status]
    BY <1>1 DEF PipelineTypeOK, Accept, Transmit, Abandon, Out!Accept, Out!Send, Out!Drop, Out!Status
  <2>2. queue' \in [Queue -> [Copy -> Nat]]
    <3>1. CASE UNCHANGED queue
      BY <3>1 DEF PipelineTypeOK
    <3>2. CASE Route([msg |-> m, retry |-> 0], FirstTargets(m))
      BY <3>2, TransmitForm, RouteForm
    <3> QED
      BY <1>1, <3>1, <3>2 DEF Accept, Transmit, Abandon
  <2>3. refused' \subseteq Message
    BY <1>1 DEF PipelineTypeOK, Accept, Transmit, Abandon
  <2>4. UNCHANGED <<work, deaf, rows, index, blobs, attempts, unsaved, unheard, crashes>>
    BY <1>1 DEF Accept, Transmit, Abandon
  <2> QED
    BY <2>1, <2>2, <2>3, <2>4 DEF PipelineTypeOK
<1>2. ASSUME NEW q \in Queue, Deliver(q) PROVE PipelineTypeOK'
  BY <1>2, DeliverForm DEF PipelineTypeOK, Deliver
<1>3. ASSUME NEW q \in Queue, Republish(q) PROVE PipelineTypeOK'
  <2>1. /\ queue' \in [Queue -> [Copy -> Nat]]
        /\ work' \in [Queue -> {Idle} \cup [copy : Copy, step : Step]]
    <3>1. CASE RetrySent(q)
      BY <3>1, RepublishForm, RouteForm, GotoForm
    <3>2. CASE RetryUnheard(q)
      BY <3>2, UnheardForm DEF PipelineTypeOK
    <3> QED
      BY <1>3, <3>1, <3>2, RepublishSplits
  <2> QED
    BY <1>3, <2>1 DEF PipelineTypeOK, Republish
<1>4. ASSUME NEW q \in Queue, Ack(q) PROVE PipelineTypeOK'
  <2>1. work' \in [Queue -> {Idle} \cup [copy : Copy, step : Step]]
    BY <1>4, LeaveForm DEF Ack
  <2>2. unheard' \in [Queue -> SUBSET Message]
    <3>1. work[q].copy.msg \in Message
      BY <1>4, WorkForm DEF Ack
    <3> QED
      BY <1>4, <3>1 DEF PipelineTypeOK, Ack
  <2>3. UNCHANGED <<status, refused, queue, deaf, rows, index, blobs, attempts, unsaved, crashes>>
    BY <1>4 DEF Ack
  <2> QED
    BY <2>1, <2>2, <2>3 DEF PipelineTypeOK
<1>5. ASSUME Upload PROVE PipelineTypeOK'
  <2>1. work["mysql"] # Idle /\ {"uploaded", "fatal"} \subseteq Step
    BY <1>5 DEF Upload, At, Step
  <2>2. work["mysql"].copy.msg \in Message
    BY <1>0, <2>1, WorkForm
  <2>3. work' \in [Queue -> {Idle} \cup [copy : Copy, step : Step]]
    BY <1>0, <1>5, <2>1, GotoForm DEF Upload
  <2>4. blobs' \in [Message -> Nat] /\ unsaved' \subseteq Message
    <3> DEFINE m == work["mysql"].copy.msg
    <3>1. /\ unsaved' \in {unsaved, unsaved \cup {m}}
          /\ blobs' \in {blobs, [blobs EXCEPT ![m] = @ + 1]}
      BY <1>5 DEF Upload
    <3>2. m \in Message /\ blobs \in [Message -> Nat] /\ unsaved \subseteq Message
      BY <2>2 DEF PipelineTypeOK
    <3> HIDE DEF m
    <3> QED
      BY <3>1, <3>2
  <2>5. UNCHANGED <<status, refused, queue, deaf, rows, index, attempts, unheard, crashes>>
    BY <1>5 DEF Upload
  <2> QED
    BY <2>3, <2>4, <2>5 DEF PipelineTypeOK
<1>6. ASSUME Insert PROVE PipelineTypeOK'
  <2>1. work["mysql"] # Idle /\ {"success", "retry"} \subseteq Step
    BY <1>6 DEF Insert, At, Step
  <2>2. work["mysql"].copy.msg \in Message
    BY <1>0, <2>1, WorkForm
  <2>3. work' \in [Queue -> {Idle} \cup [copy : Copy, step : Step]]
    BY <1>0, <1>6, <2>1, GotoForm DEF Insert
  <2>4. rows' \subseteq Message /\ attempts' \in [Message -> Nat]
    BY <1>6, <2>2 DEF Insert, PipelineTypeOK
  <2> QED
    BY <1>6, <2>3, <2>4 DEF Insert, PipelineTypeOK
<1>7. ASSUME AppendData PROVE PipelineTypeOK'
  <2>1. work["es"] # Idle /\ {"success", "retry"} \subseteq Step
    BY <1>7 DEF AppendData, At, Step
  <2>2. work["es"].copy.msg \in Text
    BY <2>1 DEF OnlyTexts
  <2>3. work' \in [Queue -> {Idle} \cup [copy : Copy, step : Step]]
    BY <1>0, <1>7, <2>1, GotoForm DEF AppendData
  <2>4. index' \subseteq Text
    BY <1>7, <2>2 DEF AppendData, PipelineTypeOK
  <2> QED
    BY <1>7, <2>3, <2>4 DEF AppendData, PipelineTypeOK
<1>8. ASSUME NEW q \in Queue, Crash(q) PROVE PipelineTypeOK'
  <2>1. work' \in [Queue -> {Idle} \cup [copy : Copy, step : Step]]
    BY <1>8, LeaveForm DEF Crash
  <2>2. queue' \in [Queue -> [Copy -> Nat]]
    BY <1>8, CrashForm
  <2>3. crashes' \in 0 .. MaxCrash
    BY <1>8, <1>0 DEF Crash
  <2> QED
    BY <1>8, <2>1, <2>2, <2>3 DEF PipelineTypeOK, Crash
<1>9. CASE UNCHANGED pipelineVars
  BY <1>9 DEF pipelineVars, PipelineTypeOK
<1>10. ASSUME NEW q \in Queue, Disconnect(q) PROVE PipelineTypeOK'
  <2>1. /\ queue' \in [Queue -> [Copy -> Nat]] /\ deaf' \subseteq Queue
        /\ work' = work
    BY <1>10, DisconnectForm DEF PipelineTypeOK
  <2>2. crashes' \in 0 .. MaxCrash
    BY <1>10, <1>0 DEF Disconnect
  <2>3. UNCHANGED <<status, refused, rows, index, blobs, attempts, unsaved, unheard>>
    BY <1>10 DEF Disconnect
  <2> QED
    BY <2>1, <2>2, <2>3 DEF PipelineTypeOK
<1>11. ASSUME NEW q \in Queue, Restart(q) PROVE PipelineTypeOK'
  <2>1. work' \in [Queue -> {Idle} \cup [copy : Copy, step : Step]]
    BY <1>11, LeaveForm DEF Restart
  <2>2. deaf' \subseteq Queue
    BY <1>11 DEF Restart, PipelineTypeOK
  <2>3. UNCHANGED <<status, refused, queue, rows, index, blobs, attempts, unsaved, unheard, crashes>>
    BY <1>11 DEF Restart
  <2> QED
    BY <2>1, <2>2, <2>3 DEF PipelineTypeOK
<1> QED
  BY <1>1, <1>2, <1>3, <1>4, <1>5, <1>6, <1>7, <1>8, <1>9, <1>10, <1>11 DEF PipelineNext, Consumer

\* A copy in a queue was there, was just published, was given back by its consumer, or
\* is the retry of a delivery; a delivery was there or was in its queue.
LEMMA CopiesComeFrom ==
  ASSUME PipelineTypeOK, [PipelineNext]_pipelineVars
  PROVE  /\ \A q \in Queue, d \in Copy : queue'[q][d] > 0 =>
              \/ queue[q][d] > 0
              \/ Transmit(d.msg)
              \/ \E p \in Queue :
                   /\ work[p] # Idle /\ work[p].copy.msg = d.msg
                   /\ \/ p = q /\ d = work[p].copy
                      \/ work[p].copy.retry < MaxRedo /\ d.retry = work[p].copy.retry + 1
         /\ \A q \in Queue : work'[q] # Idle =>
              \/ work[q] # Idle /\ work'[q].copy = work[q].copy
              \/ work'[q].copy \in Copy /\ queue[q][work'[q].copy] > 0
<1> DEFINE Q == \A q \in Queue, d \in Copy : queue'[q][d] > 0 =>
                  \/ queue[q][d] > 0
                  \/ Transmit(d.msg)
                  \/ \E p \in Queue :
                       /\ work[p] # Idle /\ work[p].copy.msg = d.msg
                       /\ \/ p = q /\ d = work[p].copy
                          \/ work[p].copy.retry < MaxRedo /\ d.retry = work[p].copy.retry + 1
           W == \A q \in Queue : work'[q] # Idle =>
                  \/ work[q] # Idle /\ work'[q].copy = work[q].copy
                  \/ work'[q].copy \in Copy /\ queue[q][work'[q].copy] > 0
<1>0. "mysql" \in Queue /\ "es" \in Queue
  BY DEF Queue
<1>a. queue' = queue => Q
  OBVIOUS
<1>b. work' = work => W
  OBVIOUS
<1>c. \A q \in Queue, s \in Step : work[q] # Idle /\ Goto(q, s) => W
  BY GotoForm
<1>d. \A q \in Queue : work' = [work EXCEPT ![q] = Idle] => W
  BY LeaveForm
<1>1. ASSUME NEW m \in Message, Accept(m) \/ Abandon(m) PROVE Q /\ W
  BY <1>1, <1>a, <1>b DEF Accept, Abandon
<1>2. ASSUME NEW m \in Message, Transmit(m) PROVE Q /\ W
  <2>1. W
    BY <1>2, <1>b DEF Transmit
  <2>2. CASE UNCHANGED queue
    BY <2>1, <2>2, <1>a
  <2>3. CASE Route([msg |-> m, retry |-> 0], FirstTargets(m))
    <3>1. \A q \in Queue, d \in Copy : queue'[q][d] =
            IF q \in FirstTargets(m) /\ d = [msg |-> m, retry |-> 0] THEN queue[q][d] + 1 ELSE queue[q][d]
      BY <2>3, TransmitForm, RouteForm
    <3>2. \A d \in Copy : d = [msg |-> m, retry |-> 0] => Transmit(d.msg)
      BY <1>2
    <3> QED
      BY <2>1, <3>1, <3>2
  <2> QED
    BY <1>2, <2>2, <2>3 DEF Transmit
<1>3. ASSUME NEW q \in Queue, Deliver(q) PROVE Q /\ W
  <2>1. queue \in [Queue -> [Copy -> Nat]]
    BY DEF PipelineTypeOK
  <2>2. \A p \in Queue, d \in Copy : queue'[p][d] = queue[p][d] \/ queue'[p][d] = queue[p][d] - 1
    BY <1>3, DeliverForm
  <2>3. \A p \in Queue, d \in Copy : queue[p][d] \in Nat
    BY <2>1
  <2>4. Q
    BY <2>2, <2>3
  <2>5. W
    BY <1>3, DeliverForm
  <2> QED
    BY <2>4, <2>5
<1>4. ASSUME NEW q \in Queue, RetrySent(q) PROVE Q /\ W
  <2>1. W
    BY <1>4, <1>c, RepublishForm
  <2>2. \A p \in Queue, d \in Copy : queue'[p][d] # queue[p][d] =>
          d.msg = work[q].copy.msg /\ d.retry = work[q].copy.retry + 1
    <3> DEFINE c == [msg |-> work[q].copy.msg, retry |-> work[q].copy.retry + 1]
    <3>1. c.msg = work[q].copy.msg /\ c.retry = work[q].copy.retry + 1
      OBVIOUS
    <3>2. c \in Copy /\ Route(c, RetryTargets(q)) /\ RetryTargets(q) \in SUBSET Queue
      BY <1>4, RepublishForm
    <3> HIDE DEF c
    <3> QED
      BY <3>1, <3>2, RouteForm
  <2> QED
    BY <1>4, <2>1, <2>2, RepublishForm
<1>5. ASSUME NEW q \in Queue, Ack(q) PROVE Q /\ W
  BY <1>5, <1>a, <1>d DEF Ack
<1>6. ASSUME Upload PROVE Q /\ W
  BY <1>0, <1>6, <1>a, <1>c DEF Upload, At, Step
<1>7. ASSUME Insert PROVE Q /\ W
  BY <1>0, <1>7, <1>a, <1>c DEF Insert, At, Step
<1>8. ASSUME AppendData PROVE Q /\ W
  BY <1>0, <1>8, <1>a, <1>c DEF AppendData, At, Step
<1>9. ASSUME NEW q \in Queue, Crash(q) PROVE Q /\ W
  <2>1. W
    BY <1>9, <1>d DEF Crash
  <2>2. work[q] # Idle
    BY <1>9 DEF Crash
  <2>3. \A p \in Queue, d \in Copy : queue'[p][d] = IF p = q /\ d = work[q].copy
                                                 THEN queue[p][d] + 1 ELSE queue[p][d]
    BY <1>9, CrashForm
  <2> QED
    BY <2>1, <2>2, <2>3
<1>10. ASSUME UNCHANGED pipelineVars PROVE Q /\ W
  BY <1>10, <1>a, <1>b DEF pipelineVars
<1>11. ASSUME NEW q \in Queue, RetryUnheard(q) PROVE Q /\ W
  BY <1>11, <1>a, <1>c, UnheardForm DEF RetryUnheard
<1>12. ASSUME NEW q \in Queue, Disconnect(q) PROVE Q /\ W
  <2>1. W
    BY <1>12, <1>b, DisconnectForm
  <2>2. \A p \in Queue, d \in Copy : queue'[p][d] = IF p = q /\ work[q] # Idle /\ d = work[q].copy
                                                 THEN queue[p][d] + 1 ELSE queue[p][d]
    BY <1>12, DisconnectForm
  <2> QED
    BY <2>1, <2>2
<1>13. ASSUME NEW q \in Queue, Restart(q) PROVE Q /\ W
  BY <1>13, <1>a, <1>d DEF Restart
<1> HIDE DEF Q, W
<1>14. Q /\ W
  BY <1>1, <1>2, <1>3, <1>4, <1>5, <1>6, <1>7, <1>8, <1>9, <1>10, <1>11, <1>12, <1>13, RepublishSplits
     DEF PipelineNext, Consumer
<1> QED
  BY <1>14 DEF Q, W

\* Who writes what else.
LEMMA StatusMoves ==
  ASSUME PipelineTypeOK, [PipelineNext]_pipelineVars, NEW m \in Message
  PROVE  /\ status'[m] # status[m] =>
              \/ Accept(m) /\ status[m] = "new" /\ status'[m] = "queued"
              \/ Transmit(m) /\ status[m] = "queued" /\ status'[m] = "sent"
              \/ Abandon(m) /\ status[m] = "queued" /\ status'[m] = "dropped"
         /\ Transmit(m) => status[m] = "queued" /\ status'[m] = "sent"
         /\ m \in refused => m \in refused'
         /\ m \in unsaved => m \in unsaved'
         /\ m \in unheard["mysql"] => m \in unheard'["mysql"]
         /\ m \in rows => m \in rows'
         /\ m \in rows' => m \in rows \/ (Insert /\ work["mysql"].copy.msg = m)
         /\ attempts'[m] # attempts[m] =>
              Insert /\ work["mysql"].copy.msg = m /\ attempts'[m] = attempts[m] + 1
<1> DEFINE S == \A x \in Message : status'[x] # status[x] =>
                  \/ Accept(x) /\ status[x] = "new" /\ status'[x] = "queued"
                  \/ Transmit(x) /\ status[x] = "queued" /\ status'[x] = "sent"
                  \/ Abandon(x) /\ status[x] = "queued" /\ status'[x] = "dropped"
           R == /\ m \in refused => m \in refused'
                /\ m \in unsaved => m \in unsaved'
                /\ m \in unheard["mysql"] => m \in unheard'["mysql"]
                /\ m \in rows => m \in rows'
                /\ m \in rows' => m \in rows \/ (Insert /\ work["mysql"].copy.msg = m)
                /\ attempts'[m] # attempts[m] =>
                     Insert /\ work["mysql"].copy.msg = m /\ attempts'[m] = attempts[m] + 1
<1>0. UNCHANGED status => S
  OBVIOUS
<1>1. ASSUME NEW x \in Message, Accept(x) \/ Transmit(x) \/ Abandon(x) PROVE S /\ R
  BY <1>1 DEF PipelineTypeOK, Accept, Transmit, Abandon, Out!Accept, Out!Send, Out!Drop
<1>2. ASSUME NEW q \in Queue, Deliver(q) \/ Republish(q) \/ Crash(q) \/ Disconnect(q) \/ Restart(q)
      PROVE  S /\ R
  BY <1>2 DEF Deliver, Republish, Crash, Disconnect, Restart
<1>9. ASSUME NEW q \in Queue, Ack(q) PROVE S /\ R
  <2>1. m \in unheard["mysql"] => m \in unheard'["mysql"]
    BY <1>9 DEF Ack, PipelineTypeOK
  <2>2. UNCHANGED <<status, refused, unsaved, rows, attempts>>
    BY <1>9 DEF Ack
  <2> QED
    BY <2>1, <2>2
<1>3. ASSUME Upload PROVE S /\ R
  BY <1>3 DEF Upload
<1>4. ASSUME Insert PROVE S /\ R
  BY <1>4 DEF Insert, PipelineTypeOK
<1>5. ASSUME AppendData PROVE S /\ R
  BY <1>5 DEF AppendData
<1>6. ASSUME UNCHANGED pipelineVars PROVE S /\ R
  BY <1>6 DEF pipelineVars
<1>7. Transmit(m) => status[m] = "queued" /\ status'[m] = "sent"
  BY DEF Transmit, Out!Send, PipelineTypeOK
<1> HIDE DEF S, R
<1>8. S /\ R
  BY <1>1, <1>2, <1>3, <1>4, <1>5, <1>6, <1>9 DEF PipelineNext, Consumer
<1> QED
  BY <1>7, <1>8 DEF S, R

LEMMA StepUntouched ==
  PipelineTypeOK /\ PipelineTypeOK' /\ Untouched /\ [PipelineNext]_pipelineVars => Untouched'
<1> SUFFICES ASSUME PipelineTypeOK, PipelineTypeOK', Untouched, [PipelineNext]_pipelineVars,
                    NEW m \in Message, status'[m] \in {"new", "queued"}
             PROVE  NoCopies(m)' /\ m \notin rows' /\ attempts'[m] = 0
  BY DEF Untouched
<1>0. "mysql" \in Queue
  BY DEF Queue
<1>1. status[m] \in {"new", "queued"} /\ ~Transmit(m)
  BY StatusMoves
<1>2. NoCopies(m) /\ m \notin rows /\ attempts[m] = 0
  BY <1>1 DEF Untouched
<1>3. ~(Insert /\ work["mysql"].copy.msg = m)
  BY <1>0, <1>2 DEF NoCopies, Insert, At
<1>4. ASSUME NEW q \in Queue, NEW d \in Copy, d.msg = m PROVE queue'[q][d] = 0
  <2>1. ~(queue'[q][d] > 0)
    BY <1>1, <1>2, <1>4, CopiesComeFrom DEF NoCopies
  <2>3. queue'[q][d] \in Nat
    BY DEF PipelineTypeOK
  <2> QED
    BY <2>1, <2>3
<1>5. ASSUME NEW q \in Queue, work'[q] # Idle PROVE work'[q].copy.msg # m
  BY <1>2, <1>5, CopiesComeFrom DEF NoCopies
<1> QED
  BY <1>2, <1>3, <1>4, <1>5, StatusMoves DEF NoCopies

LEMMA StepOnlyTexts ==
  PipelineTypeOK /\ OnlyTexts /\ [PipelineNext]_pipelineVars => OnlyTexts'
<1> SUFFICES ASSUME PipelineTypeOK, OnlyTexts, [PipelineNext]_pipelineVars
             PROVE  OnlyTexts'
  OBVIOUS
<1>0. "mysql" \in Queue /\ "es" \in Queue
  BY DEF Queue
<1>1. ASSUME queue'["es"] = queue["es"] PROVE \A c \in Copy : queue'["es"][c] > 0 => c.msg \in Text
  BY <1>1 DEF OnlyTexts
<1>2. ASSUME work'["es"] # Idle PROVE work'["es"].copy.msg \in Text
  BY <1>0, <1>2, CopiesComeFrom DEF OnlyTexts
<1>3. ASSUME NEW c \in Copy, queue'["es"][c] > 0 PROVE c.msg \in Text
  <2>1. ASSUME NEW m \in Message, Accept(m) \/ Abandon(m) PROVE queue' = queue
    BY <2>1 DEF Accept, Abandon
  <2>2. ASSUME NEW m \in Message, Transmit(m) PROVE c.msg \in Text
    <3>1. CASE UNCHANGED queue
      BY <1>1, <1>3, <3>1
    <3>2. CASE Route([msg |-> m, retry |-> 0], FirstTargets(m))
      <4>1. CASE m \in Text
        <5> DEFINE d == [msg |-> m, retry |-> 0]
        <5>1. d \in Copy /\ d.msg = m /\ FirstTargets(m) \in SUBSET Queue
          BY TransmitForm
        <5> HIDE DEF d
        <5>2. c = d \/ queue["es"][c] > 0
          BY <1>0, <1>3, <3>2, <5>1, RouteForm DEF d
        <5> QED
          BY <4>1, <5>1, <5>2 DEF OnlyTexts
      <4>2. CASE m \notin Text
        <5>1. "es" \notin FirstTargets(m)
          BY <4>2 DEF FirstTargets
        <5>2. queue'["es"] = queue["es"]
          BY <1>0, <3>2, <5>1 DEF Route, PipelineTypeOK
        <5> QED
          BY <1>1, <1>3, <5>2
      <4> QED
        BY <4>1, <4>2
    <3> QED
      BY <2>2, <3>1, <3>2 DEF Transmit
  <2>3. ASSUME NEW q \in Queue, Deliver(q) PROVE c.msg \in Text
    <3>1. queue["es"][c] > 0
      BY <1>0, <1>3, <2>3, DeliverForm DEF PipelineTypeOK
    <3> QED
      BY <3>1 DEF OnlyTexts
  <2>4. ASSUME NEW q \in Queue, RetrySent(q) PROVE c.msg \in Text
    <3>1. CASE q = "es"
      <4> DEFINE d == [msg |-> work[q].copy.msg, retry |-> work[q].copy.retry + 1]
      <4>1. d \in Copy /\ d.msg = work[q].copy.msg /\ Route(d, RetryTargets(q))
        BY <2>4, RepublishForm
      <4>2. work[q] # Idle /\ RetryTargets(q) \in SUBSET Queue
        BY <2>4, RepublishForm
      <4> HIDE DEF d
      <4>3. c = d \/ queue["es"][c] > 0
        BY <1>0, <1>3, <4>1, <4>2, RouteForm
      <4> QED
        BY <3>1, <4>1, <4>2, <4>3 DEF OnlyTexts
    <3>2. CASE q # "es"
      <4>1. "es" \notin RetryTargets(q)
        BY <3>2 DEF RetryTargets
      <4>2. queue'["es"] = queue["es"]
        BY <1>0, <2>4, <4>1 DEF RetrySent, Route, PipelineTypeOK
      <4> QED
        BY <1>1, <1>3, <4>2
    <3> QED
      BY <3>1, <3>2
  <2>5. ASSUME NEW q \in Queue, Crash(q) PROVE c.msg \in Text
    <3>1. queue["es"][c] > 0 \/ (work["es"] # Idle /\ work["es"].copy = c)
      BY <1>0, <1>3, <2>5, CrashForm DEF Crash
    <3> QED
      BY <3>1 DEF OnlyTexts
  <2>6. ASSUME NEW q \in Queue, Ack(q) \/ Restart(q) \/ RetryUnheard(q) PROVE queue' = queue
    BY <2>6 DEF Ack, Restart, RetryUnheard
  <2>7. Upload \/ Insert \/ AppendData \/ UNCHANGED pipelineVars => queue' = queue
    BY DEF Upload, Insert, AppendData, pipelineVars
  <2>8. ASSUME NEW q \in Queue, Disconnect(q) PROVE c.msg \in Text
    <3>1. queue["es"][c] > 0 \/ (work["es"] # Idle /\ work["es"].copy = c)
      BY <1>0, <1>3, <2>8, DisconnectForm
    <3> QED
      BY <3>1 DEF OnlyTexts
  <2> QED
    BY <1>1, <1>3, <2>1, <2>2, <2>3, <2>4, <2>5, <2>6, <2>7, <2>8, RepublishSplits
       DEF PipelineNext, Consumer
<1> QED
  BY <1>2, <1>3 DEF OnlyTexts

\* What a step does to the delivery it is about, and to no other.
LEMMA WorkMoves ==
  ASSUME PipelineTypeOK, PipelineTypeOK', [PipelineNext]_pipelineVars, NEW q \in Queue, work'[q] # Idle
  PROVE  \/ work'[q] = work[q]
         \/ work[q] = Idle /\ work'[q].step = "called" /\ Deliver(q)
         \/ /\ work[q] # Idle /\ work'[q].copy = work[q].copy
            /\ \/ RetrySent(q) /\ work'[q].step = "ack"
               \/ RetryUnheard(q) /\ work'[q].step = "unheard"
               \/ q = "mysql" /\ Upload /\ work'[q].step \in {"uploaded", "fatal"}
               \/ q = "mysql" /\ Insert /\ work'[q].step \in {"success", "retry"}
               \/ q = "es" /\ AppendData /\ work'[q].step \in {"success", "retry"}
<1> DEFINE Moved ==
      \/ work'[q] = work[q]
      \/ work[q] = Idle /\ work'[q].step = "called" /\ Deliver(q)
      \/ /\ work[q] # Idle /\ work'[q].copy = work[q].copy
         /\ \/ RetrySent(q) /\ work'[q].step = "ack"
            \/ RetryUnheard(q) /\ work'[q].step = "unheard"
            \/ q = "mysql" /\ Upload /\ work'[q].step \in {"uploaded", "fatal"}
            \/ q = "mysql" /\ Insert /\ work'[q].step \in {"success", "retry"}
            \/ q = "es" /\ AppendData /\ work'[q].step \in {"success", "retry"}
<1>0. "mysql" \in Queue /\ "es" \in Queue
  BY DEF Queue
<1>1. ASSUME NEW m \in Message, Accept(m) \/ Transmit(m) \/ Abandon(m) PROVE Moved
  BY <1>1 DEF Accept, Transmit, Abandon
<1>2. ASSUME NEW p \in Queue, Deliver(p) PROVE Moved
  BY <1>2, DeliverForm
<1>3. ASSUME NEW p \in Queue, RetrySent(p) PROVE Moved
  <2>1. /\ work[p] # Idle /\ work'[p].copy = work[p].copy /\ work'[p].step = "ack"
        /\ \A x \in Queue : x # p => work'[x] = work[x]
    BY <1>3, RepublishForm, GotoForm
  <2> QED
    BY <1>3, <2>1
<1>4. ASSUME NEW p \in Queue, Ack(p) \/ Crash(p) \/ Restart(p) PROVE Moved
  BY <1>4, LeaveForm DEF Ack, Crash, Restart
<1>5. ASSUME Upload PROVE Moved
  <2>1. work["mysql"] # Idle /\ {"uploaded", "fatal"} \subseteq Step
    BY <1>5 DEF Upload, At, Step
  <2>2. /\ work'["mysql"].copy = work["mysql"].copy
        /\ work'["mysql"].step \in {"uploaded", "fatal"}
        /\ \A x \in Queue : x # "mysql" => work'[x] = work[x]
    BY <1>0, <1>5, <2>1, GotoForm DEF Upload
  <2> QED
    BY <1>5, <2>1, <2>2
<1>6. ASSUME Insert PROVE Moved
  <2>1. work["mysql"] # Idle /\ {"success", "retry"} \subseteq Step
    BY <1>6 DEF Insert, At, Step
  <2>2. /\ work'["mysql"].copy = work["mysql"].copy
        /\ work'["mysql"].step \in {"success", "retry"}
        /\ \A x \in Queue : x # "mysql" => work'[x] = work[x]
    BY <1>0, <1>6, <2>1, GotoForm DEF Insert
  <2> QED
    BY <1>6, <2>1, <2>2
<1>7. ASSUME AppendData PROVE Moved
  <2>1. work["es"] # Idle /\ {"success", "retry"} \subseteq Step
    BY <1>7 DEF AppendData, At, Step
  <2>2. /\ work'["es"].copy = work["es"].copy
        /\ work'["es"].step \in {"success", "retry"}
        /\ \A x \in Queue : x # "es" => work'[x] = work[x]
    BY <1>0, <1>7, <2>1, GotoForm DEF AppendData
  <2> QED
    BY <1>7, <2>1, <2>2
<1>8. ASSUME UNCHANGED pipelineVars PROVE Moved
  BY <1>8 DEF pipelineVars
<1>9. ASSUME NEW p \in Queue, RetryUnheard(p) PROVE Moved
  BY <1>9, UnheardForm
<1>10. ASSUME NEW p \in Queue, Disconnect(p) PROVE Moved
  BY <1>10, DisconnectForm
<1> HIDE DEF Moved
<1>11. Moved
  BY <1>1, <1>2, <1>3, <1>4, <1>5, <1>6, <1>7, <1>8, <1>9, <1>10, RepublishSplits
     DEF PipelineNext, Consumer
<1> QED
  BY <1>11 DEF Moved

\* The marks a message bears stay: rows, failed uploads, documents, files.
LEMMA MarksStay == PipelineTypeOK /\ [PipelineNext]_pipelineVars =>
  /\ rows \subseteq rows' /\ unsaved \subseteq unsaved' /\ index \subseteq index'
  /\ \A m \in Message : blobs[m] > 0 => blobs'[m] > 0
<1> SUFFICES ASSUME PipelineTypeOK, [PipelineNext]_pipelineVars
             PROVE  /\ rows \subseteq rows' /\ unsaved \subseteq unsaved' /\ index \subseteq index'
                    /\ \A m \in Message : blobs[m] > 0 => blobs'[m] > 0
  OBVIOUS
<1>1. ASSUME NEW m \in Message, Accept(m) \/ Transmit(m) \/ Abandon(m)
      PROVE  UNCHANGED <<rows, unsaved, index, blobs>>
  BY <1>1 DEF Accept, Transmit, Abandon
<1>2. ASSUME NEW q \in Queue,
             Deliver(q) \/ Republish(q) \/ Ack(q) \/ Crash(q) \/ Disconnect(q) \/ Restart(q)
      PROVE  UNCHANGED <<rows, unsaved, index, blobs>>
  BY <1>2 DEF Deliver, Republish, Ack, Crash, Disconnect, Restart
<1>3. Upload => /\ rows \subseteq rows' /\ unsaved \subseteq unsaved' /\ index \subseteq index'
                /\ \A m \in Message : blobs[m] > 0 => blobs'[m] > 0
  BY DEF Upload, PipelineTypeOK
<1>4. Insert \/ AppendData => /\ rows \subseteq rows' /\ index \subseteq index'
                              /\ UNCHANGED <<unsaved, blobs>>
  BY DEF Insert, AppendData
<1>5. UNCHANGED pipelineVars => UNCHANGED <<rows, unsaved, index, blobs>>
  BY DEF pipelineVars
<1> QED
  BY <1>1, <1>2, <1>3, <1>4, <1>5 DEF PipelineNext, Consumer

LEMMA StepStepsTell ==
  PipelineTypeOK /\ PipelineTypeOK' /\ StepsTell /\ [PipelineNext]_pipelineVars => StepsTell'
<1> SUFFICES ASSUME PipelineTypeOK, PipelineTypeOK', StepsTell, [PipelineNext]_pipelineVars
             PROVE  StepsTell'
  OBVIOUS
<1>0. "mysql" \in Queue /\ "es" \in Queue
  BY DEF Queue
<1>1. AckTells'
  <2> SUFFICES ASSUME NEW q \in Queue, work'[q] # Idle, work'[q].step = "ack"
               PROVE  work'[q].copy.retry < MaxRedo
    BY DEF AckTells
  <2>1. work'[q] = work[q] \/ (work'[q].copy = work[q].copy /\ RetrySent(q))
    BY WorkMoves
  <2>2. CASE work'[q] = work[q]
    BY <2>2 DEF StepsTell, AckTells
  <2>3. CASE work'[q].copy = work[q].copy /\ RetrySent(q)
    BY <2>3, RepublishForm
  <2> QED
    BY <2>1, <2>2, <2>3
<1>3. RowTells'
  <2> SUFFICES ASSUME work'["mysql"] # Idle PROVE RowTells'
    BY DEF RowTells
  <2> DEFINE m == work'["mysql"].copy.msg
             s == work'["mysql"].step
             Tells == /\ s = "uploaded" => m \notin Text
                      /\ s \in {"uploaded", "success", "retry", "ack", "unheard"} /\ m \notin Text => blobs'[m] > 0
                      /\ s = "success" => m \in rows'
                      /\ s = "fatal" => m \in unsaved'
  <2>0. m \in Message
    <3>1. work'["mysql"] \in [copy : Copy, step : Step]
      BY <1>0 DEF PipelineTypeOK
    <3> QED
      BY <3>1, CopyForm
  <2>1. CASE work'["mysql"] = work["mysql"]
    BY MarksStay, <2>0, <2>1 DEF StepsTell, RowTells
  <2>2. ASSUME work'["mysql"].step = "called" PROVE RowTells'
    BY <2>2 DEF RowTells
  <2>3. ASSUME work["mysql"] # Idle, work'["mysql"].copy = work["mysql"].copy,
               RetrySent("mysql") \/ RetryUnheard("mysql"), work'["mysql"].step \in {"ack", "unheard"}
        PROVE  RowTells'
    <3>1. work["mysql"].step = "retry"
      BY <2>3, <1>0, RepublishForm, UnheardForm
    <3> QED
      BY MarksStay, <2>0, <2>3, <3>1 DEF StepsTell, RowTells
  <2>4. ASSUME work["mysql"] # Idle, work'["mysql"].copy = work["mysql"].copy, Upload
        PROVE  RowTells'
    <3>1. work["mysql"].copy.msg = m /\ m \notin Text /\ work["mysql"].copy.msg \in Message
      BY <2>0, <2>4 DEF Upload
    <3>2. \/ work'["mysql"].step = "uploaded" /\ blobs' = [blobs EXCEPT ![m] = @ + 1]
          \/ work'["mysql"].step = "fatal" /\ m \in unsaved'
      <4>1. {"uploaded", "fatal"} \subseteq Step
        BY DEF Step
      <4> QED
        BY <1>0, <2>4, <3>1, <4>1, GotoForm DEF Upload
    <3>3. blobs' = [blobs EXCEPT ![m] = @ + 1] => blobs'[m] > 0
      BY <2>0 DEF PipelineTypeOK
    <3> QED
      BY <3>1, <3>2, <3>3 DEF RowTells
  <2>5. ASSUME work["mysql"] # Idle, work'["mysql"].copy = work["mysql"].copy, Insert
        PROVE  RowTells'
    <3>1. work["mysql"].copy.msg = m /\ blobs' = blobs
      BY <2>5 DEF Insert
    <3>2. \/ work'["mysql"].step = "success" /\ m \in rows'
          \/ work'["mysql"].step = "retry"
      <4>1. {"success", "retry"} \subseteq Step
        BY DEF Step
      <4> QED
        BY <1>0, <2>5, <3>1, <4>1, GotoForm DEF Insert
    <3>3. m \notin Text => blobs[m] > 0
      BY <2>5, <3>1 DEF Insert, At, StepsTell, RowTells
    <3> QED
      BY <3>1, <3>2, <3>3 DEF RowTells
  <2> HIDE DEF m, s
  <2> QED
    BY <1>0, <2>1, <2>2, <2>3, <2>4, <2>5, WorkMoves
<1>4. IndexTells'
  <2> SUFFICES ASSUME work'["es"] # Idle
               PROVE  /\ work'["es"].step \in {"called", "success", "retry", "ack", "unheard"}
                      /\ work'["es"].step = "success" => work'["es"].copy.msg \in index'
    BY DEF IndexTells
  <2>1. CASE work'["es"] = work["es"]
    BY MarksStay, <2>1 DEF StepsTell, IndexTells
  <2>2. CASE work["es"] # Idle /\ work'["es"].copy = work["es"].copy /\ AppendData
    <3>1. {"success", "retry"} \subseteq Step
      BY DEF Step
    <3>2. \/ work'["es"].step = "success" /\ work["es"].copy.msg \in index'
          \/ work'["es"].step = "retry"
      BY <1>0, <2>2, <3>1, GotoForm DEF AppendData
    <3> QED
      BY <2>2, <3>2
  <2>3. work'["es"].step \in {"called", "ack", "unheard"} \/ work'["es"] = work["es"]
          \/ (work["es"] # Idle /\ work'["es"].copy = work["es"].copy /\ AppendData)
    BY <1>0, WorkMoves
  <2> QED
    BY <2>1, <2>2, <2>3
<1> QED
  BY <1>1, <1>3, <1>4 DEF StepsTell

LEMMA StepRowHasFile ==
  PipelineTypeOK /\ StepsTell /\ RowHasFile /\ [PipelineNext]_pipelineVars => RowHasFile'
<1> SUFFICES ASSUME PipelineTypeOK, StepsTell, RowHasFile, [PipelineNext]_pipelineVars,
                    NEW m \in rows' \ Text
             PROVE  blobs'[m] > 0
  BY DEF RowHasFile
<1>0. "mysql" \in Queue
  BY DEF Queue
<1>1. CASE m \in rows
  BY <1>1, MarksStay DEF RowHasFile, PipelineTypeOK
<1>2. CASE m \notin rows
  <2>1. Insert /\ work["mysql"].copy.msg = m
    <3>1. rows' = rows \/ Insert
      BY DEF PipelineNext, Consumer, pipelineVars, Accept, Transmit, Abandon, Deliver, Republish,
             Ack, Crash, Disconnect, Restart, Upload, AppendData
    <3> QED
      BY <1>2, <3>1 DEF Insert
  <2>2. m \in Message
    BY <1>0, <2>1, WorkForm DEF Insert, At
  <2>3. blobs[m] > 0
    BY <2>1 DEF Insert, At, StepsTell, RowTells
  <2> QED
    BY <2>2, <2>3, MarksStay
<1> QED
  BY <1>1, <1>2

\* A copy leaves the queue of q only to its consumer.
LEMMA OnlyDeliverTakes ==
  ASSUME PipelineTypeOK, [PipelineNext]_pipelineVars, NEW q \in Queue, NEW c \in Copy, ~Deliver(q)
  PROVE  queue[q][c] \in Nat /\ queue'[q][c] \in Nat /\ queue'[q][c] >= queue[q][c]
<1> DEFINE Kept == queue'[q][c] \in Nat /\ queue'[q][c] >= queue[q][c]
<1>0. queue[q][c] \in Nat
  BY DEF PipelineTypeOK
<1>1. ASSUME queue' = queue PROVE Kept
  BY <1>0, <1>1
<1>2. ASSUME NEW d \in Copy, NEW qs \in SUBSET Queue, Route(d, qs) PROVE Kept
  BY <1>0, <1>2, RouteForm
<1> HIDE DEF Kept
<1>3. ASSUME NEW m \in Message, Accept(m) \/ Transmit(m) \/ Abandon(m) PROVE Kept
  <2>1. queue' = queue \/ Route([msg |-> m, retry |-> 0], FirstTargets(m))
    BY <1>3 DEF Accept, Transmit, Abandon
  <2> QED
    BY <1>1, <1>2, <2>1, TransmitForm
<1>4. ASSUME NEW p \in Queue, Deliver(p) PROVE Kept
  BY <1>0, <1>4, DeliverForm DEF Kept
<1>5. ASSUME NEW p \in Queue, RetrySent(p) PROVE Kept
  BY <1>2, <1>5, RepublishForm
<1>6. ASSUME NEW p \in Queue, Ack(p) \/ Restart(p) \/ RetryUnheard(p) PROVE Kept
  BY <1>1, <1>6 DEF Ack, Restart, RetryUnheard
<1>7. ASSUME NEW p \in Queue, Crash(p) PROVE Kept
  BY <1>0, <1>7, CrashForm DEF Kept
<1>8. Upload \/ Insert \/ AppendData \/ UNCHANGED pipelineVars => Kept
  BY <1>1 DEF Upload, Insert, AppendData, pipelineVars
<1>9. ASSUME NEW p \in Queue, Disconnect(p) PROVE Kept
  BY <1>0, <1>9, DisconnectForm DEF Kept
<1>10. Kept
  BY <1>3, <1>4, <1>5, <1>6, <1>7, <1>8, <1>9, RepublishSplits DEF PipelineNext, Consumer
<1> QED
  BY <1>0, <1>10 DEF Kept

LEMMA StepRetryIsQueued ==
  PipelineTypeOK /\ PipelineTypeOK' /\ RetryIsQueued /\ [PipelineNext]_pipelineVars => RetryIsQueued'
<1> SUFFICES ASSUME PipelineTypeOK, PipelineTypeOK', RetryIsQueued, [PipelineNext]_pipelineVars,
                    work'["es"] # Idle, work'["es"].step = "ack"
             PROVE  \E c \in Copy : c.msg = work'["es"].copy.msg /\ queue'["es"][c] > 0
  BY DEF RetryIsQueued
<1>0. "mysql" \in Queue /\ "es" \in Queue
  BY DEF Queue
<1>1. work'["es"] = work["es"] \/ (RetrySent("es") /\ work'["es"].copy = work["es"].copy)
  BY <1>0, WorkMoves
<1>2. ASSUME RetrySent("es") PROVE \E c \in Copy : c.msg = work["es"].copy.msg /\ queue'["es"][c] > 0
  <2> DEFINE c == [msg |-> work["es"].copy.msg, retry |-> work["es"].copy.retry + 1]
  <2>1. c \in Copy /\ c.msg = work["es"].copy.msg /\ Route(c, RetryTargets("es"))
    BY <1>0, <1>2, RepublishForm
  <2>2. RetryTargets("es") \in SUBSET Queue /\ "es" \in RetryTargets("es")
    BY DEF RetryTargets, Queue
  <2> HIDE DEF c
  <2>3. queue'["es"][c] = queue["es"][c] + 1 /\ queue["es"][c] \in Nat
    BY <1>0, <2>1, <2>2, RouteForm DEF PipelineTypeOK
  <2> QED
    BY <2>1, <2>3
<1>3. CASE work'["es"] = work["es"]
  <2>1. PICK c \in Copy : c.msg = work["es"].copy.msg /\ queue["es"][c] > 0
    BY <1>3 DEF RetryIsQueued
  <2>2. CASE queue'["es"][c] >= queue["es"][c]
    <3>1. queue["es"][c] \in Nat /\ queue'["es"][c] \in Nat
      BY <1>0 DEF PipelineTypeOK
    <3>2. queue'["es"][c] > 0
      BY <2>1, <2>2, <3>1
    <3> QED
      BY <1>3, <2>1, <3>2
  <2>3. CASE ~(queue'["es"][c] >= queue["es"][c])
    <3>1. Deliver("es")
      BY <1>0, <2>3, OnlyDeliverTakes
    <3> QED
      BY <1>3, <3>1 DEF Deliver
  <2> QED
    BY <2>2, <2>3
<1> QED
  BY <1>1, <1>2, <1>3


LEMMA WorkLeaves ==
  ASSUME PipelineTypeOK, PipelineTypeOK', [PipelineNext]_pipelineVars, NEW q \in Queue,
         work[q] # Idle, work'[q] = Idle
  PROVE  Ack(q) \/ Crash(q) \/ Restart(q)
<1>0. "mysql" \in Queue /\ "es" \in Queue
  BY DEF Queue
<1>1. ASSUME NEW p \in Queue, NEW s \in Step, work[p] # Idle, Goto(p, s) PROVE FALSE
  BY <1>1, GotoForm
<1>2. ASSUME NEW m \in Message, Accept(m) \/ Transmit(m) \/ Abandon(m) PROVE FALSE
  BY <1>2 DEF Accept, Transmit, Abandon
<1>3. ASSUME NEW p \in Queue, Deliver(p) PROVE FALSE
  BY <1>3, DeliverForm
<1>4. ASSUME NEW p \in Queue, Republish(p) PROVE FALSE
  BY <1>1, <1>4, RepublishForm, UnheardForm, RepublishSplits DEF RetryUnheard
<1>5. Upload \/ Insert \/ AppendData => FALSE
  <2>1. {"uploaded", "fatal", "success", "retry"} \subseteq Step
    BY DEF Step
  <2> QED
    BY <1>0, <1>1, <2>1 DEF Upload, Insert, AppendData, At
<1>6. ASSUME NEW p \in Queue, Ack(p) \/ Crash(p) \/ Restart(p) PROVE p = q
  BY <1>6, LeaveForm DEF Ack, Crash, Restart
<1>7. UNCHANGED pipelineVars => FALSE
  BY DEF pipelineVars
<1>8. ASSUME NEW p \in Queue, Disconnect(p) PROVE FALSE
  BY <1>8, DisconnectForm
<1> QED
  BY <1>2, <1>3, <1>4, <1>5, <1>6, <1>7, <1>8 DEF PipelineNext, Consumer

LEMMA StepDeafHasCopy ==
  PipelineTypeOK /\ PipelineTypeOK' /\ DeafHasCopy /\ [PipelineNext]_pipelineVars => DeafHasCopy'
<1> SUFFICES ASSUME PipelineTypeOK, PipelineTypeOK', DeafHasCopy, [PipelineNext]_pipelineVars,
                    NEW q \in Queue, q \in deaf', work'[q] # Idle
             PROVE  queue'[q][work'[q].copy] > 0
  BY DEF DeafHasCopy
<1>1. deaf' = deaf \/ (\E p \in Queue : Disconnect(p) \/ Restart(p))
  BY DEF PipelineNext, Consumer, pipelineVars, Accept, Transmit, Abandon, Deliver, Republish, Ack,
         Crash, Upload, Insert, AppendData
<1>2. CASE q \in deaf
  <2>1. ~Deliver(q)
    BY <1>2 DEF Deliver
  <2>2. work[q] # Idle /\ work'[q].copy = work[q].copy
    BY <2>1, WorkMoves
  <2>3. work[q].copy \in Copy /\ queue[q][work[q].copy] > 0
    BY <1>2, <2>2, WorkForm DEF DeafHasCopy
  <2>4. /\ queue[q][work[q].copy] \in Nat /\ queue'[q][work[q].copy] \in Nat
        /\ queue'[q][work[q].copy] >= queue[q][work[q].copy]
    BY <2>1, <2>3, OnlyDeliverTakes
  <2> QED
    BY <2>2, <2>3, <2>4
<1>3. CASE q \notin deaf
  <2>1. PICK p \in Queue : Disconnect(p) \/ Restart(p)
    BY <1>1, <1>3
  <2>2. p = q /\ Disconnect(q)
    BY <1>3, <2>1 DEF Disconnect, Restart
  <2> QED
    BY <2>2, DisconnectForm
<1> QED
  BY <1>2, <1>3

\* A message that is on its way stays so, or is settled.
LEMMA StaysOnTheWay ==
  ASSUME PipelineTypeOK, PipelineTypeOK', StepsTell, DeafHasCopy, [PipelineNext]_pipelineVars,
         NEW m \in Message, OnTheWay(m),
         m \notin rows', m \notin unsaved', m \notin unheard'["mysql"], attempts'[m] <= MaxRedo
  PROVE  OnTheWay(m)'
<1>0. "mysql" \in Queue /\ MaxRedo \in Nat
  BY PipelineConstants DEF Queue
<1>1. attempts[m] \in Nat /\ attempts'[m] \in Nat /\ attempts'[m] >= attempts[m]
  <2>1. attempts[m] \in Nat /\ attempts'[m] \in Nat
    BY DEF PipelineTypeOK
  <2> QED
    BY <2>1, StatusMoves
<1>2. m \notin rows /\ m \notin unsaved /\ attempts[m] <= MaxRedo
  BY <1>0, <1>1, StatusMoves
<1>3. ASSUME NEW c \in Copy, c.msg = m, c.retry <= attempts[m], queue'["mysql"][c] > 0
      PROVE  OnTheWay(m)'
  <2>1. c.retry <= attempts'[m]
    BY <1>1, <1>3, CopyForm
  <2> QED
    BY <1>3, <2>1 DEF OnTheWay
<1>4. ASSUME NEW c \in Copy, c.msg = m, c.retry <= attempts[m], queue["mysql"][c] > 0
      PROVE  OnTheWay(m)'
  <2>1. CASE queue'["mysql"][c] > 0
    BY <1>3, <1>4, <2>1
  <2>2. CASE ~(queue'["mysql"][c] > 0)
    <3>1. Deliver("mysql")
      <4>1. ~Deliver("mysql") => queue'["mysql"][c] > 0
        BY <1>0, <1>4, OnlyDeliverTakes
      <4> QED
        BY <2>2, <4>1
    <3>2. work'["mysql"] # Idle /\ work'["mysql"].step = "called" /\ work'["mysql"].copy = c
      <4>1. queue["mysql"][c] \in Nat
        BY <1>0 DEF PipelineTypeOK
      <4> QED
        BY <1>0, <1>4, <2>2, <3>1, <4>1, DeliverForm
    <3>3. c.retry <= attempts'[m]
      BY <1>1, <1>4, CopyForm
    <3> QED
      BY <1>4, <3>2, <3>3 DEF OnTheWay
  <2> QED
    BY <2>1, <2>2
<1>5. ASSUME work["mysql"] # Idle, work["mysql"].copy.msg = m,
             \/ work["mysql"].step \in {"called", "uploaded"} /\ work["mysql"].copy.retry <= attempts[m]
             \/ work["mysql"].step \in {"retry", "unheard"} /\ work["mysql"].copy.retry < attempts[m]
      PROVE  OnTheWay(m)'
  <2> DEFINE c == work["mysql"].copy
  <2>0. c \in Copy /\ c.retry \in 0 .. MaxRedo /\ c.msg = m /\ c.retry <= attempts[m]
    <3>1. c \in Copy /\ c.retry \in 0 .. MaxRedo
      BY <1>0, <1>5, WorkForm
    <3> QED
      BY <1>1, <1>5, <3>1
  <2> HIDE DEF c
  <2>1. CASE work'["mysql"] = work["mysql"]
    BY <1>0, <1>1, <1>5, <2>0, <2>1 DEF OnTheWay, c
  <2>2. CASE RetrySent("mysql")
    <3> DEFINE d == [msg |-> m, retry |-> c.retry + 1]
    <3>1. d \in Copy /\ Route(d, RetryTargets("mysql")) /\ work["mysql"].step = "retry"
      BY <1>0, <1>5, <2>2, RepublishForm DEF c
    <3>2. RetryTargets("mysql") \in SUBSET Queue /\ "mysql" \in RetryTargets("mysql")
      BY DEF RetryTargets, Queue
    <3>3. d.msg = m /\ d.retry <= attempts[m]
      BY <1>1, <1>5, <2>0, <3>1 DEF c
    <3> HIDE DEF d
    <3>4. queue'["mysql"][d] > 0
      <4>1. queue["mysql"][d] \in Nat
        BY <1>0, <3>1 DEF PipelineTypeOK
      <4> QED
        BY <1>0, <3>1, <3>2, <4>1, RouteForm
    <3> QED
      BY <1>3, <3>1, <3>3, <3>4
  <2>3. CASE work'["mysql"] # Idle /\ work'["mysql"].copy = c /\ Upload /\ work'["mysql"].step \in {"uploaded", "fatal"}
    <3>1. work["mysql"].step = "called" /\ attempts' = attempts
      BY <2>3 DEF Upload, At
    <3>2. work'["mysql"].step = "uploaded"
      <4>1. Goto("mysql", "fatal") => m \in unsaved'
        <5>1. Goto("mysql", "uploaded") => work'["mysql"].step = "uploaded"
          BY <1>0, <1>5, GotoForm DEF Step
        <5>2. Goto("mysql", "fatal") => work'["mysql"].step = "fatal"
          BY <1>0, <1>5, GotoForm DEF Step
        <5> QED
          BY <1>5, <2>3, <5>1, <5>2 DEF Upload
      <4>2. Goto("mysql", "uploaded")
        BY <2>3, <4>1 DEF Upload
      <4> QED
        BY <1>0, <1>5, <4>2, GotoForm DEF Step
    <3> QED
      BY <1>1, <2>0, <2>3, <3>1, <3>2 DEF OnTheWay
  <2>4. CASE work'["mysql"] # Idle /\ work'["mysql"].copy = c /\ Insert /\ work'["mysql"].step \in {"success", "retry"}
    <3>1. attempts'[m] = attempts[m] + 1
      BY <1>5, <2>4 DEF Insert, PipelineTypeOK
    <3>2. work'["mysql"].step = "retry"
      <4>1. ~Goto("mysql", "success")
        <5>1. Goto("mysql", "success") => work'["mysql"].step = "success"
          BY <1>0, <1>5, GotoForm DEF Step
        <5>2. Goto("mysql", "retry") => work'["mysql"].step = "retry"
          BY <1>0, <1>5, GotoForm DEF Step
        <5> QED
          BY <1>5, <2>4, <5>1, <5>2 DEF Insert
      <4>2. Goto("mysql", "retry")
        BY <2>4, <4>1 DEF Insert
      <4> QED
        BY <1>0, <1>5, <4>2, GotoForm DEF Step
    <3>3. c.retry < attempts'[m]
      BY <1>1, <2>0, <3>1
    <3> QED
      BY <2>0, <2>4, <3>2, <3>3 DEF OnTheWay
  <2>5. CASE work'["mysql"] = Idle
    <3>1. Ack("mysql") => "mysql" \in deaf
      <4> SUFFICES ASSUME Ack("mysql"), "mysql" \notin deaf PROVE FALSE
        OBVIOUS
      <4>1. work["mysql"].step \in {"called", "uploaded", "retry", "unheard"}
        BY <1>5
      <4>2. work["mysql"].step = "retry" => work["mysql"].copy.retry + 1 <= MaxRedo
        BY <1>0, <1>1, <1>2, <1>5, <2>0 DEF c
      <4>3. work["mysql"].step = "unheard"
        BY <1>0, <2>0, <4>1, <4>2 DEF Ack, c
      <4>4. m \in unheard'["mysql"]
        BY <1>0, <1>5, <4>3 DEF Ack, At, PipelineTypeOK
      <4> QED
        BY <4>4
    <3>2. CASE Crash("mysql")
      <4>1. queue["mysql"][c] \in Nat
        BY <1>0, <2>0 DEF PipelineTypeOK
      <4>2. queue'["mysql"][c] > 0
        BY <1>0, <3>2, <4>1, CrashForm DEF c
      <4> QED
        BY <1>3, <2>0, <4>2
    <3>3. CASE "mysql" \in deaf /\ queue' = queue
      <4>1. queue'["mysql"][c] > 0
        BY <1>0, <1>5, <3>3 DEF DeafHasCopy, c
      <4> QED
        BY <1>3, <2>0, <4>1
    <3>4. Ack("mysql") \/ Crash("mysql") \/ Restart("mysql")
      BY <1>0, <1>5, <2>5, WorkLeaves
    <3> QED
      BY <3>1, <3>2, <3>3, <3>4 DEF Ack, Restart
  <2>6. CASE RetryUnheard("mysql")
    <3>1. /\ work["mysql"].step = "retry" /\ work'["mysql"] # Idle
          /\ work'["mysql"].copy = c /\ work'["mysql"].step = "unheard"
      BY <1>0, <2>6, UnheardForm DEF c
    <3>2. c.retry < attempts'[m]
      BY <1>1, <1>5, <2>0, <3>1 DEF c
    <3> QED
      BY <2>0, <3>1, <3>2 DEF OnTheWay
  <2> QED
    BY <1>0, <1>5, <2>1, <2>2, <2>3, <2>4, <2>5, <2>6, WorkMoves DEF c
<1> QED
  BY <1>4, <1>5 DEF OnTheWay

LEMMA StepAccounted ==
  ASSUME PipelineTypeOK, PipelineTypeOK', StepsTell, DeafHasCopy, Accounted,
         [PipelineNext]_pipelineVars
  PROVE  Accounted'
<1> SUFFICES ASSUME NEW m \in Message, Delivered(m)', m \notin rows', m \notin unsaved',
                    m \notin unheard'["mysql"], ~(attempts'[m] > MaxRedo)
             PROVE  OnTheWay(m)'
  BY DEF Accounted, Settled
<1>0. attempts'[m] <= MaxRedo /\ attempts'[m] \in Nat /\ attempts[m] \in Nat /\ MaxRedo \in Nat
  BY PipelineConstants DEF PipelineTypeOK
<1>1. CASE Delivered(m)
  <2>1. ~Settled(m)
    BY <1>0, StatusMoves DEF Settled
  <2>2. OnTheWay(m)
    BY <1>1, <2>1 DEF Accounted
  <2> QED
    BY <1>0, <2>2, StaysOnTheWay
<1>2. CASE ~Delivered(m)
  <2>1. Transmit(m)
    BY <1>2, StatusMoves DEF Delivered
  <2> DEFINE c == [msg |-> m, retry |-> 0]
  <2>2. Route(c, FirstTargets(m)) /\ attempts' = attempts
    BY <2>1 DEF Transmit, Delivered
  <2>3. c \in Copy /\ c.msg = m /\ c.retry = 0
    BY TransmitForm
  <2> HIDE DEF c
  <2>4. queue'["mysql"][c] > 0
    <3>1. "mysql" \in Queue /\ queue["mysql"][c] \in Nat
      BY <2>3 DEF PipelineTypeOK, Queue
    <3>2. FirstTargets(m) \in SUBSET Queue /\ "mysql" \in FirstTargets(m)
      BY TransmitForm
    <3>3. queue'["mysql"][c] = queue["mysql"][c] + 1
      BY <2>2, <2>3, <3>1, <3>2, RouteForm
    <3> QED
      BY <3>1, <3>3
  <2> QED
    BY <1>0, <2>3, <2>4 DEF OnTheWay
<1> QED
  BY <1>1, <1>2

LEMMA PipelineInductive == PipelineSpec => []PipeInv
<1>1. PipeInv /\ [PipelineNext]_pipelineVars => PipeInv'
  BY StepPipelineType, StepOnlyTexts, StepStepsTell, StepUntouched, StepAccounted, StepRetryIsQueued,
     StepRowHasFile, StepDeafHasCopy DEF PipeInv
<1> QED
  BY <1>1, PipelineInitInv, PTL DEF PipelineSpec

\* Queues, deliveries and stores of the pipeline keep their types.
THEOREM PipelineTypes == PipelineSpec => []PipelineTypeOK
  BY PipelineInductive, PTL DEF PipeInv

\* A message the broker took has a row, or is still with the Message service, or every
\* insert of its budget has failed, or one of its uploads has, or its retry was not
\* published and the old copy acknowledged all the same.
THEOREM LossHasReason == PipelineSpec => []LossExplained
<1>1. PipeInv => LossExplained
  <2> SUFFICES ASSUME PipeInv, NEW m \in Message, Lost(m), attempts[m] <= MaxRedo, m \notin unsaved,
                      m \notin unheard["mysql"]
               PROVE  FALSE
    BY PipelineConstants DEF LossExplained, PipeInv, PipelineTypeOK
  <2>1. OnTheWay(m)
    BY PipelineConstants DEF PipeInv, Accounted, Settled, Lost, PipelineTypeOK
  <2>2. ASSUME NEW c \in Copy, c.msg = m, queue["mysql"][c] > 0 PROVE Pending("mysql", m)
    <3>1. c = [msg |-> m, retry |-> c.retry] /\ c.retry \in 0 .. MaxRedo
      BY <2>2, CopyForm
    <3> QED
      BY <2>2, <3>1 DEF Pending
  <2> QED
    BY <2>1, <2>2 DEF OnTheWay, Lost, Pending
<1> QED
  BY <1>1, PipelineInductive, PTL

\* A file message in the history has its file, whatever failed or was repeated.
THEOREM RowsHaveFiles == PipelineSpec => []RowHasFile
  BY PipelineInductive, PTL DEF PipeInv

LEMMA PendingForm == ASSUME NEW q \in Queue, NEW m \in Message
  PROVE  Pending(q, m) <=>
           \/ \E c \in Copy : c.msg = m /\ queue[q][c] > 0
           \/ work[q] # Idle /\ work[q].copy.msg = m
<1>1. ASSUME NEW c \in Copy, c.msg = m, queue[q][c] > 0 PROVE Pending(q, m)
  <2>1. c = [msg |-> m, retry |-> c.retry] /\ c.retry \in 0 .. MaxRedo
    BY <1>1, CopyForm
  <2> QED
    BY <1>1, <2>1 DEF Pending
<1>2. ASSUME NEW r \in 0 .. MaxRedo, queue[q][[msg |-> m, retry |-> r]] > 0
      PROVE  \E c \in Copy : c.msg = m /\ queue[q][c] > 0
  BY <1>2 DEF Copy
<1> QED
  BY <1>1, <1>2 DEF Pending

\* What has the ES store's attention, and loses it, is settled by an Ack.
LEMMA PendingEnds ==
  ASSUME PipelineTypeOK, PipelineTypeOK', RetryIsQueued, IndexTells, DeafHasCopy,
         [PipelineNext]_pipelineVars, NEW m \in Message, Pending("es", m), ~Pending("es", m)'
  PROVE  /\ Ack("es") /\ work["es"] # Idle /\ work["es"].copy.msg = m
         /\ \/ work["es"].step \in {"success", "unheard"}
            \/ work["es"].step = "retry" /\ work["es"].copy.retry = MaxRedo
<1>0. "es" \in Queue /\ "mysql" \in Queue /\ MaxRedo \in Nat
  BY PipelineConstants DEF Queue
<1>1. ASSUME NEW c \in Copy, c.msg = m, queue'["es"][c] > 0 PROVE FALSE
  <2>1. c = [msg |-> m, retry |-> c.retry] /\ c.retry \in 0 .. MaxRedo
    BY <1>1, CopyForm
  <2> QED
    BY <1>1, <2>1 DEF Pending
<1>2. work'["es"] # Idle => work'["es"].copy.msg # m
  BY DEF Pending
<1>3. ASSUME NEW c \in Copy, c.msg = m, queue["es"][c] > 0 PROVE FALSE
  <2>1. Deliver("es")
    <3>1. queue["es"][c] \in Nat
      BY <1>0 DEF PipelineTypeOK
    <3>2. ~Deliver("es") => queue'["es"][c] > 0
      BY <1>0, <1>3, <3>1, OnlyDeliverTakes
    <3> QED
      BY <1>1, <1>3, <3>2
  <2>2. queue["es"][c] \in Nat /\ queue'["es"][c] \in Nat
    BY <1>0 DEF PipelineTypeOK
  <2>3. work'["es"] # Idle /\ work'["es"].copy = c
    BY <1>0, <1>1, <1>3, <2>1, <2>2, DeliverForm
  <2> QED
    BY <1>2, <1>3, <2>3
<1>4. work["es"] # Idle /\ work["es"].copy.msg = m /\ work["es"].copy \in Copy
  <2>1. work["es"] # Idle /\ work["es"].copy.msg = m
    BY <1>0, <1>3, PendingForm
  <2> QED
    BY <1>0, <2>1, WorkForm
<1>5. work'["es"] = Idle
  BY <1>0, <1>2, <1>4, WorkMoves DEF Deliver
<1>6. ~Crash("es")
  <2>1. queue["es"][work["es"].copy] \in Nat
    BY <1>0, <1>4 DEF PipelineTypeOK
  <2> QED
    BY <1>0, <1>1, <1>4, <2>1, CrashForm
<1>b. ~Restart("es")
  <2> SUFFICES ASSUME Restart("es") PROVE FALSE
    OBVIOUS
  <2>1. queue["es"][work["es"].copy] > 0
    BY <1>0, <1>4 DEF Restart, DeafHasCopy
  <2> QED
    BY <1>3, <1>4, <2>1
<1>7. Ack("es")
  BY <1>0, <1>4, <1>5, <1>6, <1>b, WorkLeaves
<1>8. work["es"].step # "ack"
  <2>1. queue' = queue
    BY <1>7 DEF Ack
  <2> QED
    BY <1>3, <1>4 DEF RetryIsQueued
<1>9. work["es"].step # "fatal"
  BY <1>4 DEF IndexTells
<1>10. work["es"].copy.retry \in 0 .. MaxRedo
  BY <1>0, <1>4, WorkForm
<1>11. \/ work["es"].step \in {"success", "fatal", "ack", "unheard"}
       \/ work["es"].step = "retry" /\ work["es"].copy.retry + 1 > MaxRedo
  BY <1>7 DEF Ack
<1> QED
  BY <1>0, <1>4, <1>7, <1>8, <1>9, <1>10, <1>11

\* The ES queue lets go only of texts that are in the index, that had their last try, or
\* whose retry it failed to publish: not at a crash or a lost connection, and not between
\* the retry's publish and the ack of the old delivery.
THEOREM IndexBeforeForgetting == PipelineSpec => IndexedBeforeForgotten
<1>1. PipeInv /\ PipeInv' /\ [PipelineNext]_pipelineVars =>
        [\A m \in Text : Pending("es", m) /\ ~Pending("es", m)'
           => \/ m \in index
              \/ At("es", "retry") /\ work["es"].copy.retry = MaxRedo
              \/ At("es", "unheard")]_pipelineVars
  <2> SUFFICES ASSUME PipeInv, PipeInv', [PipelineNext]_pipelineVars,
                      NEW m \in Text, Pending("es", m), ~Pending("es", m)'
               PROVE  \/ m \in index
                      \/ At("es", "retry") /\ work["es"].copy.retry = MaxRedo
                      \/ At("es", "unheard")
    OBVIOUS
  <2>1. m \in Message
    BY PipelineConstants
  <2>2. /\ work["es"] # Idle /\ work["es"].copy.msg = m
        /\ \/ work["es"].step \in {"success", "unheard"}
           \/ work["es"].step = "retry" /\ work["es"].copy.retry = MaxRedo
    BY <2>1, PendingEnds DEF PipeInv, StepsTell
  <2> QED
    BY <2>2 DEF PipeInv, StepsTell, IndexTells, At
<1> QED
  BY <1>1, PipelineInductive, PTL DEF IndexedBeforeForgotten, PipelineSpec

-------------------------------------------------------------------------------
(* The pipeline implements MessageStore                                      *)

\* Where Recoverable looks for m.
Reach(m) ==
  \/ \E c \in Copy : c.msg = m /\ queue["mysql"][c] > 0
  \/ work["mysql"] # Idle /\ work["mysql"].copy.msg = m
  \/ \E c \in Copy : c.msg = m /\ c.retry < MaxRedo /\ queue["es"][c] > 0
  \/ work["es"] # Idle /\ work["es"].copy.msg = m /\ work["es"].copy.retry < MaxRedo

LEMMA RecoverableForm == \A m \in Message : Recoverable(m) <=> Reach(m)
<1> SUFFICES ASSUME NEW m \in Message PROVE Recoverable(m) <=> Reach(m)
  OBVIOUS
<1>0. "mysql" \in Queue /\ MaxRedo \in Nat
  BY PipelineConstants DEF Queue
<1>1. ASSUME NEW c \in Copy, c.msg = m, c.retry < MaxRedo, queue["es"][c] > 0 PROVE Recoverable(m)
  <2>1. c = [msg |-> m, retry |-> c.retry] /\ c.retry \in 0 .. MaxRedo - 1
    BY <1>0, <1>1, CopyForm
  <2> QED
    BY <1>1, <2>1 DEF Recoverable
<1>2. ASSUME NEW r \in 0 .. MaxRedo - 1, queue["es"][[msg |-> m, retry |-> r]] > 0
      PROVE  \E c \in Copy : c.msg = m /\ c.retry < MaxRedo /\ queue["es"][c] > 0
  <2>1. [msg |-> m, retry |-> r] \in Copy /\ r < MaxRedo
    BY <1>0 DEF Copy
  <2> QED
    BY <1>2, <2>1
<1> QED
  BY <1>0, <1>1, <1>2, PendingForm DEF Recoverable, Reach

LEMMA RecoverableNext == (\A m \in Message : Recoverable(m) <=> Reach(m))'
  BY RecoverableForm, PTL

\* A copy stays in its queue or is delivered; a delivery stays, is acked, or goes back.
LEMMA CopiesGoTo ==
  ASSUME PipelineTypeOK, PipelineTypeOK', DeafHasCopy, [PipelineNext]_pipelineVars, NEW q \in Queue
  PROVE  /\ \A c \in Copy : queue[q][c] > 0 =>
              queue'[q][c] > 0 \/ (work'[q] # Idle /\ work'[q].copy = c)
         /\ work[q] # Idle =>
              \/ Ack(q)
              \/ work'[q] # Idle /\ work'[q].copy = work[q].copy
              \/ queue'[q][work[q].copy] > 0
<1>1. ASSUME NEW c \in Copy, queue[q][c] > 0, ~(queue'[q][c] > 0)
      PROVE  work'[q] # Idle /\ work'[q].copy = c
  <2>1. queue[q][c] \in Nat
    BY DEF PipelineTypeOK
  <2>2. Deliver(q)
    <3>1. ~Deliver(q) => queue'[q][c] > 0
      BY <1>1, <2>1, OnlyDeliverTakes
    <3> QED
      BY <1>1, <3>1
  <2> QED
    BY <1>1, <2>1, <2>2, DeliverForm
<1>2. ASSUME work[q] # Idle, work'[q] # Idle PROVE work'[q].copy = work[q].copy
  BY <1>2, WorkMoves
<1>3. ASSUME work[q] # Idle, Crash(q) PROVE queue'[q][work[q].copy] > 0
  <2>1. work[q].copy \in Copy
    BY <1>3, WorkForm
  <2>2. queue[q][work[q].copy] \in Nat
    BY <2>1 DEF PipelineTypeOK
  <2> QED
    BY <1>3, <2>1, <2>2, CrashForm
<1>4. ASSUME work[q] # Idle, Restart(q) PROVE queue'[q][work[q].copy] > 0
  BY <1>4 DEF Restart, DeafHasCopy
<1> QED
  BY <1>1, <1>2, <1>3, <1>4, WorkLeaves

\* A message without a recoverable copy gets one only from Transmite.
LEMMA LostStaysLost ==
  ASSUME PipelineTypeOK, PipelineTypeOK', [PipelineNext]_pipelineVars,
         NEW m \in Message, ~Recoverable(m), ~Transmit(m)
  PROVE  ~Recoverable(m)'
<1>0. "mysql" \in Queue /\ "es" \in Queue /\ "mysql" # "es" /\ ~Reach(m)
  BY RecoverableForm DEF Queue
<1>1. /\ \A c \in Copy : c.msg = m => ~(queue["mysql"][c] > 0)
      /\ work["mysql"] # Idle => work["mysql"].copy.msg # m
      /\ \A c \in Copy : c.msg = m /\ c.retry < MaxRedo => ~(queue["es"][c] > 0)
      /\ work["es"] # Idle => work["es"].copy.msg # m \/ ~(work["es"].copy.retry < MaxRedo)
  BY <1>0 DEF Reach
<1>2. \A p \in Queue : p = "mysql" \/ p = "es"
  BY DEF Queue
<1>3. ASSUME NEW c \in Copy, c.msg = m, queue'["mysql"][c] > 0 PROVE FALSE
  BY <1>0, <1>1, <1>2, <1>3, CopiesComeFrom
<1>4. ASSUME NEW c \in Copy, c.msg = m, c.retry < MaxRedo, queue'["es"][c] > 0 PROVE FALSE
  BY <1>0, <1>1, <1>2, <1>4, CopiesComeFrom
<1>5. ASSUME work'["mysql"] # Idle PROVE work'["mysql"].copy.msg # m
  BY <1>0, <1>1, <1>5, CopiesComeFrom
<1>6. ASSUME work'["es"] # Idle, work'["es"].copy.retry < MaxRedo PROVE work'["es"].copy.msg # m
  BY <1>0, <1>1, <1>6, CopiesComeFrom
<1>7. ~Reach(m)'
  BY <1>3, <1>4, <1>5, <1>6 DEF Reach
<1> QED
  BY <1>7, RecoverableNext

\* A message with a recoverable copy loses it only to an Ack of a delivery of its own.
LEMMA RecoverableEnds ==
  ASSUME PipelineTypeOK, PipelineTypeOK', DeafHasCopy, [PipelineNext]_pipelineVars,
         NEW m \in Message, Recoverable(m), ~Recoverable(m)'
  PROVE  \E q \in Queue : Ack(q) /\ work[q] # Idle /\ work[q].copy.msg = m
<1>0. "mysql" \in Queue /\ "es" \in Queue /\ Reach(m) /\ ~Reach(m)'
  BY RecoverableForm, RecoverableNext DEF Queue
<1>1. /\ \A c \in Copy : c.msg = m => ~(queue'["mysql"][c] > 0)
      /\ work'["mysql"] # Idle => work'["mysql"].copy.msg # m
      /\ \A c \in Copy : c.msg = m /\ c.retry < MaxRedo => ~(queue'["es"][c] > 0)
      /\ work'["es"] # Idle => work'["es"].copy.msg # m \/ ~(work'["es"].copy.retry < MaxRedo)
  BY <1>0 DEF Reach
<1>2. ASSUME NEW c \in Copy, c.msg = m, queue["mysql"][c] > 0 PROVE FALSE
  BY <1>0, <1>1, <1>2, CopiesGoTo
<1>3. ASSUME NEW c \in Copy, c.msg = m, c.retry < MaxRedo, queue["es"][c] > 0 PROVE FALSE
  BY <1>0, <1>1, <1>3, CopiesGoTo
<1>4. ASSUME work["mysql"] # Idle, work["mysql"].copy.msg = m PROVE Ack("mysql")
  <2>1. work["mysql"].copy \in Copy
    BY <1>0, <1>4, WorkForm
  <2> QED
    BY <1>0, <1>1, <1>4, <2>1, CopiesGoTo
<1>5. ASSUME work["es"] # Idle, work["es"].copy.msg = m, work["es"].copy.retry < MaxRedo
      PROVE  Ack("es")
  <2>1. work["es"].copy \in Copy
    BY <1>0, <1>5, WorkForm
  <2> QED
    BY <1>0, <1>1, <1>5, <2>1, CopiesGoTo
<1> QED
  BY <1>0, <1>2, <1>3, <1>4, <1>5 DEF Reach

\* What happens to the fate of one message.
LEMMA FateMoves ==
  ASSUME PipeInv, PipeInv', [PipelineNext]_pipelineVars, NEW m \in Message, FateOf(m)' # FateOf(m)
  PROVE  \/ FateOf(m) = "none" /\ FateOf(m)' = "accepted" /\ status'[m] # status[m]
         \/ FateOf(m) = "accepted" /\ FateOf(m)' = "stored" /\ Insert /\ work["mysql"].copy.msg = m
         \/ /\ FateOf(m) = "accepted" /\ FateOf(m)' = "lost"
            /\ \/ status'[m] # status[m]
               \/ \E q \in Queue : Ack(q) /\ work[q] # Idle /\ work[q].copy.msg = m
<1>0. PipelineTypeOK /\ PipelineTypeOK' /\ DeafHasCopy
  BY DEF PipeInv
<1>1. status[m] \in {"new", "queued", "sent", "dropped"}
  BY <1>0 DEF PipelineTypeOK, Out!Status
<1>2. /\ status[m] \in {"new", "queued"} => m \notin rows
      /\ status'[m] \in {"new", "queued"} => m \notin rows'
  BY DEF PipeInv, Untouched
<1>3. CASE status[m] = "new"
  <2>1. FateOf(m) = "none"
    BY <1>3 DEF FateOf
  <2>2. CASE status'[m] = "new"
    BY <2>1, <2>2 DEF FateOf
  <2>3. CASE status'[m] # "new"
    <3>1. status'[m] = "queued"
      BY <1>0, <1>3, <2>3, StatusMoves
    <3>2. FateOf(m)' = "accepted"
      BY <1>2, <3>1 DEF FateOf
    <3> QED
      BY <1>3, <2>1, <3>1, <3>2
  <2> QED
    BY <2>2, <2>3
<1>4. CASE status[m] = "queued"
  <2>1. FateOf(m) = "accepted"
    BY <1>2, <1>4 DEF FateOf
  <2>2. CASE status'[m] = "queued"
    BY <1>2, <2>1, <2>2 DEF FateOf
  <2>3. CASE status'[m] # "queued"
    <3>1. status'[m] \in {"sent", "dropped"} /\ m \notin rows'
      <4>1. (Transmit(m) /\ status'[m] = "sent") \/ (Abandon(m) /\ status'[m] = "dropped")
        BY <1>0, <1>4, <2>3, StatusMoves
      <4> QED
        BY <1>2, <1>4, <4>1 DEF Transmit, Abandon
    <3>2. FateOf(m)' = "lost"
      BY <2>1, <3>1 DEF FateOf
    <3> QED
      BY <1>4, <2>1, <2>3, <3>2
  <2> QED
    BY <2>2, <2>3
<1>5. CASE status[m] \in {"sent", "dropped"}
  <2>1. status'[m] = status[m] /\ ~Transmit(m)
    BY <1>0, <1>5, StatusMoves
  <2>2. /\ FateOf(m) = IF m \in rows THEN "stored" ELSE IF Recoverable(m) THEN "accepted" ELSE "lost"
        /\ FateOf(m)' = IF m \in rows' THEN "stored" ELSE IF Recoverable(m)' THEN "accepted" ELSE "lost"
    BY <1>5, <2>1 DEF FateOf
  <2>3. CASE m \in rows'
    <3>1. m \notin rows
      BY <2>2, <2>3
    <3>2. Insert /\ work["mysql"].copy.msg = m
      BY <1>0, <2>3, <3>1, StatusMoves
    <3>3. Recoverable(m)
      BY <3>2, RecoverableForm DEF Insert, At, Reach
    <3> QED
      BY <2>2, <2>3, <3>1, <3>2, <3>3
  <2>4. CASE m \notin rows'
    <3>1. m \notin rows
      BY <1>0, <2>4, StatusMoves
    <3>2. Recoverable(m) /\ ~Recoverable(m)'
      BY <1>0, <2>1, <2>2, <2>4, <3>1, LostStaysLost
    <3> QED
      BY <1>0, <2>2, <2>4, <3>1, <3>2, RecoverableEnds
  <2> QED
    BY <2>3, <2>4
<1> QED
  BY <1>1, <1>3, <1>4, <1>5

\* One message at a time.
LEMMA OneFateAStep ==
  ASSUME PipeInv, PipeInv', [PipelineNext]_pipelineVars, NEW m \in Message, NEW n \in Message,
         FateOf(m)' # FateOf(m), FateOf(n)' # FateOf(n)
  PROVE  m = n
<1>0. PipelineTypeOK
  BY DEF PipeInv
<1> DEFINE Acked(x) == \E q \in Queue : Ack(q) /\ work[q] # Idle /\ work[q].copy.msg = x
<1>1. /\ status'[m] # status[m] \/ (Insert /\ work["mysql"].copy.msg = m) \/ Acked(m)
      /\ status'[n] # status[n] \/ (Insert /\ work["mysql"].copy.msg = n) \/ Acked(n)
  BY FateMoves
<1>2. ASSUME status'[m] # status[m], status'[n] # status[n] PROVE m = n
  <2>1. ASSUME NEW x \in Message, Accept(x) \/ Transmit(x) \/ Abandon(x)
        PROVE  \A y \in Message : y # x => status'[y] = status[y]
    BY <1>0, <2>1 DEF Accept, Transmit, Abandon, Out!Accept, Out!Send, Out!Drop, PipelineTypeOK
  <2>2. Accept(m) \/ Transmit(m) \/ Abandon(m)
    BY <1>0, <1>2, StatusMoves
  <2> QED
    BY <1>2, <2>1, <2>2
<1>3. Insert \/ (\E q \in Queue : Ack(q)) => status' = status
  BY DEF Insert, Ack
<1>4. ~(Insert /\ \E q \in Queue : Ack(q) /\ work[q] # Idle)
  <2> SUFFICES ASSUME Insert, NEW q \in Queue, Ack(q), work[q] # Idle PROVE FALSE
    OBVIOUS
  <2>1. "mysql" \in Queue /\ work["mysql"] # Idle /\ {"success", "retry"} \subseteq Step
    BY DEF Insert, At, Queue, Step
  <2>2. \A p \in Queue : work'[p] # Idle \/ work[p] = Idle
    BY <1>0, <2>1, GotoForm DEF Insert
  <2>3. work'[q] = Idle
    BY <1>0, LeaveForm DEF Ack
  <2> QED
    BY <2>2, <2>3
<1>5. ASSUME NEW p \in Queue, NEW q \in Queue, Ack(p), Ack(q), work[p] # Idle, work[q] # Idle
      PROVE  p = q
  <2>1. work'[p] = Idle /\ \A x \in Queue : x # q => work'[x] = work[x]
    BY <1>0, <1>5, LeaveForm DEF Ack
  <2> QED
    BY <1>5, <2>1
<1> QED
  BY <1>1, <1>2, <1>3, <1>4, <1>5

LEMMA StepImplementsStore ==
  PipeInv /\ PipeInv' /\ [PipelineNext]_pipelineVars =>
    [Store!Next]_[m \in Message |-> FateOf(m)]
<1> SUFFICES ASSUME PipeInv, PipeInv', [PipelineNext]_pipelineVars
             PROVE  [Store!Next]_[m \in Message |-> FateOf(m)]
  OBVIOUS
<1> DEFINE fate == [m \in Message |-> FateOf(m)]
           next == [m \in Message |-> FateOf(m)']
<1>1. CASE \A m \in Message : FateOf(m)' = FateOf(m)
  <2>1. next = fate
    BY <1>1
  <2> QED
    BY <2>1
<1>2. ASSUME NEW m \in Message, FateOf(m)' # FateOf(m) PROVE Store!Next
  <2>1. next = [fate EXCEPT ![m] = FateOf(m)']
    BY <1>2, OneFateAStep
  <2>2. \/ FateOf(m) = "none" /\ FateOf(m)' = "accepted"
        \/ FateOf(m) = "accepted" /\ FateOf(m)' = "stored"
        \/ FateOf(m) = "accepted" /\ FateOf(m)' = "lost"
    BY <1>2, FateMoves
  <2>3. Store!Accept(m) \/ Store!Store(m) \/ Store!Lose(m)
    BY <2>1, <2>2 DEF Store!Accept, Store!Store, Store!Lose
  <2> QED
    BY <2>3 DEF Store!Next
<1> QED
  BY <1>1, <1>2

\* The pipeline promises what MessageStore says, for any messages, retry budget and number
\* of crashes: an accepted message is stored once and for good, or lost and never seen again.
THEOREM PipelineImplementsStore == PipelineSpec => ImplementsStore
<1>1. PipelineInit => Store!Init
  <2> SUFFICES ASSUME PipelineInit, NEW m \in Message PROVE FateOf(m) = "none"
    BY DEF Store!Init
  <2> QED
    BY DEF PipelineInit, Out!Init, FateOf
<1> QED
  BY <1>1, PipelineInductive, StepImplementsStore, PTL DEF PipelineSpec, ImplementsStore, Store!Spec

-------------------------------------------------------------------------------
(* Inserts still to come                                                     *)

\* Twice the number of inserts a waiting copy with retry count r can still cause, if
\* nobody crashes: in the Message service's queue, and in that of the ES store.
Weight == [q \in Queue |-> [r \in 0 .. MaxRedo |->
  IF q = "mysql" THEN 2 * (MaxRedo - r + 1) ELSE (MaxRedo - r) * (MaxRedo - r + 1)]]

\* One token for each of them; count[r] copies wait with retry count r.
CopyTokens(r, k, v) == {<<r, k, j>> : j \in 1 .. v}
TokensOf(count, weight) ==
  UNION {UNION {CopyTokens(r, k, weight[r]) : k \in 1 .. count[r]} : r \in 0 .. MaxRedo}

Counts(q, m) == [r \in 0 .. MaxRedo |-> queue[q][[msg |-> m, retry |-> r]]]
Tokens(q, m) == TokensOf(Counts(q, m), Weight[q])

\* The same for the delivery in hand.
InHand(q, m) ==
  IF work[q] = Idle \/ work[q].copy.msg # m THEN 0
  ELSE IF work[q].step \in {"called", "uploaded"} THEN Weight[q][work[q].copy.retry]
  ELSE IF work[q].step = "retry"
       THEN IF q = "mysql" THEN 2 * (MaxRedo - work[q].copy.retry) ELSE Weight[q][work[q].copy.retry]
  ELSE 0

Budget(m) == IF m \in Text THEN (MaxRedo + 1) * (MaxRedo + 2) ELSE 2 * (MaxRedo + 1)

Owed(q, m) == Cardinality(Tokens(q, m)) + InHand(q, m)

\* Inserts tried and inserts owed, of one message.
WithinBudget(m) ==
  /\ \A q \in Queue : IsFiniteSet(Tokens(q, m))
  /\ 2 * attempts[m] + Owed("mysql", m) + Owed("es", m) <= Budget(m)

StormInv == crashes = 0 => \A m \in Message : WithinBudget(m)

-------------------------------------------------------------------------------
(* Counting tokens                                                           *)

Count == [0 .. MaxRedo -> Nat]

LEMMA TokenForm == ASSUME NEW n, NEW w, NEW t
  PROVE  t \in TokensOf(n, w) <=>
           \E r \in 0 .. MaxRedo, k \in Int, j \in Int :
             k \in 1 .. n[r] /\ j \in 1 .. w[r] /\ t = <<r, k, j>>
  BY DEF TokensOf, CopyTokens

\* The tokens of one copy are as many as its weight.
LEMMA TokensOfCopy == ASSUME NEW r, NEW k, NEW v \in Nat
  PROVE  IsFiniteSet(CopyTokens(r, k, v)) /\ Cardinality(CopyTokens(r, k, v)) = v
<1> DEFINE T == CopyTokens(r, k, v)
           f == [j \in 1 .. v |-> <<r, k, j>>]
<1>1. IsFiniteSet(1 .. v) /\ Cardinality(1 .. v) = v
  BY FS_Interval
<1>2. f \in Bijection(1 .. v, T)
  <2>1. f \in [1 .. v -> T]
    BY DEF CopyTokens
  <2>2. \A i, j \in 1 .. v : f[i] = f[j] => i = j
    OBVIOUS
  <2>3. \A t \in T : \E j \in 1 .. v : f[j] = t
    BY DEF CopyTokens
  <2> QED
    BY <2>1, <2>2, <2>3 DEF Bijection, Injection, Surjection, IsInjective
<1>3. ExistsBijection(1 .. v, T)
  BY <1>2 DEF ExistsBijection
<1> QED
  BY <1>1, <1>3, FS_Bijection

\* One copy more, as many tokens more as it weighs.
LEMMA TokensGrow ==
  ASSUME NEW n \in Count, NEW w \in Count, NEW s \in 0 .. MaxRedo, IsFiniteSet(TokensOf(n, w))
  PROVE  LET n2 == [n EXCEPT ![s] = @ + 1]
         IN  /\ IsFiniteSet(TokensOf(n2, w))
             /\ Cardinality(TokensOf(n2, w)) = Cardinality(TokensOf(n, w)) + w[s]
<1> DEFINE n2 == [n EXCEPT ![s] = @ + 1]
           k == n[s] + 1
           T == CopyTokens(s, k, w[s])
<1>0. n[s] \in Nat /\ w[s] \in Nat /\ n2 \in Count /\ n2[s] = k
      /\ \A r \in 0 .. MaxRedo : r # s => n2[r] = n[r]
  BY DEF Count
<1>1. IsFiniteSet(T) /\ Cardinality(T) = w[s]
  BY <1>0, TokensOfCopy
<1> HIDE DEF n2
<1>2. TokensOf(n2, w) = TokensOf(n, w) \cup T
  <2>1. ASSUME NEW t \in TokensOf(n2, w) PROVE t \in TokensOf(n, w) \/ t \in T
    <3>1. PICK r \in 0 .. MaxRedo, i \in Int, j \in Int : i \in 1 .. n2[r] /\ j \in 1 .. w[r] /\ t = <<r, i, j>>
      BY <2>1, TokenForm
    <3>2. CASE r = s /\ i = k
      BY <3>1, <3>2 DEF CopyTokens
    <3>3. CASE ~(r = s /\ i = k)
      <4>1. i \in 1 .. n[r]
        BY <1>0, <3>1, <3>3
      <4> QED
        BY <3>1, <4>1, TokenForm
    <3> QED
      BY <3>2, <3>3
  <2>2. ASSUME NEW t \in TokensOf(n, w) PROVE t \in TokensOf(n2, w)
    <3>1. PICK r \in 0 .. MaxRedo, i \in Int, j \in Int : i \in 1 .. n[r] /\ j \in 1 .. w[r] /\ t = <<r, i, j>>
      BY <2>2, TokenForm
    <3>2. i \in 1 .. n2[r]
      <4>1. n[r] \in Nat
        BY <3>1 DEF Count
      <4> QED
        BY <1>0, <3>1, <4>1
    <3> QED
      BY <3>1, <3>2, TokenForm
  <2>3. ASSUME NEW t \in T PROVE t \in TokensOf(n2, w)
    <3>1. PICK j \in 1 .. w[s] : t = <<s, k, j>>
      BY <2>3 DEF CopyTokens
    <3>2. k \in 1 .. n2[s]
      BY <1>0
    <3> QED
      BY <3>1, <3>2, TokenForm
  <2> QED
    BY <2>1, <2>2, <2>3
<1>3. TokensOf(n, w) \cap T = {}
  <2> SUFFICES ASSUME NEW t \in TokensOf(n, w), t \in T PROVE FALSE
    OBVIOUS
  <2>1. PICK r \in 0 .. MaxRedo, i \in Int, j \in Int : i \in 1 .. n[r] /\ j \in 1 .. w[r] /\ t = <<r, i, j>>
    BY TokenForm
  <2>2. PICK j2 \in 1 .. w[s] : t = <<s, k, j2>>
    BY DEF CopyTokens
  <2>3. r = s /\ i = k
    BY <2>1, <2>2
  <2> QED
    BY <1>0, <2>1, <2>3
<1>4. Cardinality(TokensOf(n, w) \cap T) = 0
  BY <1>3, FS_EmptySet
<1>5. Cardinality(TokensOf(n, w)) \in Nat
  BY FS_CardinalityType
<1>6. /\ IsFiniteSet(TokensOf(n2, w))
      /\ Cardinality(TokensOf(n2, w)) = Cardinality(TokensOf(n, w)) + w[s]
  <2>1. /\ IsFiniteSet(TokensOf(n, w) \cup T)
        /\ Cardinality(TokensOf(n, w) \cup T) =
             Cardinality(TokensOf(n, w)) + Cardinality(T) - Cardinality(TokensOf(n, w) \cap T)
    BY <1>1, FS_Union
  <2> QED
    BY <1>0, <1>1, <1>2, <1>4, <1>5, <2>1
<1> QED
  BY <1>6 DEF n2

\* One copy less, as many tokens less.
LEMMA TokensShrink ==
  ASSUME NEW n \in Count, NEW w \in Count, NEW s \in 0 .. MaxRedo, n[s] > 0, IsFiniteSet(TokensOf(n, w))
  PROVE  LET n2 == [n EXCEPT ![s] = @ - 1]
         IN  /\ IsFiniteSet(TokensOf(n2, w))
             /\ Cardinality(TokensOf(n, w)) = Cardinality(TokensOf(n2, w)) + w[s]
<1> DEFINE n2 == [n EXCEPT ![s] = @ - 1]
<1>0. n[s] \in Nat /\ n2 \in Count /\ n2[s] = n[s] - 1
      /\ \A r \in 0 .. MaxRedo : r # s => n2[r] = n[r]
  BY DEF Count
<1> HIDE DEF n2
<1>1. n = [n2 EXCEPT ![s] = @ + 1]
  <2>1. n2[s] + 1 = n[s]
    BY <1>0
  <2> QED
    BY <1>0, <2>1 DEF Count
<1>2. TokensOf(n2, w) \subseteq TokensOf(n, w)
  <2> SUFFICES ASSUME NEW t \in TokensOf(n2, w) PROVE t \in TokensOf(n, w)
    OBVIOUS
  <2>1. PICK r \in 0 .. MaxRedo, i \in Int, j \in Int : i \in 1 .. n2[r] /\ j \in 1 .. w[r] /\ t = <<r, i, j>>
    BY TokenForm
  <2>2. i \in 1 .. n[r]
    <3>1. n[r] \in Nat
      BY <2>1 DEF Count
    <3> QED
      BY <1>0, <2>1, <3>1
  <2> QED
    BY <2>1, <2>2, TokenForm
<1>3. IsFiniteSet(TokensOf(n2, w))
  BY <1>2, FS_Subset
<1>4. Cardinality(TokensOf(n, w)) = Cardinality(TokensOf(n2, w)) + w[s]
  BY <1>0, <1>1, <1>3, TokensGrow
<1> QED
  BY <1>3, <1>4 DEF n2

LEMMA NoTokens == ASSUME NEW n, NEW w, \A r \in 0 .. MaxRedo : n[r] = 0
  PROVE  IsFiniteSet(TokensOf(n, w)) /\ Cardinality(TokensOf(n, w)) = 0
<1>1. TokensOf(n, w) = {}
  <2> SUFFICES ASSUME NEW t \in TokensOf(n, w) PROVE FALSE
    OBVIOUS
  <2>1. PICK r \in 0 .. MaxRedo, i \in Int, j \in Int : i \in 1 .. n[r] /\ j \in 1 .. w[r] /\ t = <<r, i, j>>
    BY TokenForm
  <2> QED
    BY <2>1
<1> QED
  BY <1>1, FS_EmptySet

-------------------------------------------------------------------------------
(* Without crashes, no step makes more inserts of a message than it takes      *)

LEMMA WeightForm ==
  /\ Weight \in [Queue -> Count]
  /\ "mysql" \in Queue /\ "es" \in Queue /\ MaxRedo \in Nat
  /\ \A r \in 0 .. MaxRedo : Weight["mysql"][r] = 2 * (MaxRedo - r) + 2
  /\ \A r \in 0 .. MaxRedo : r < MaxRedo =>
       /\ r + 1 \in 0 .. MaxRedo
       /\ Weight["mysql"][r + 1] = 2 * (MaxRedo - r)
       /\ Weight["es"][r] = Weight["es"][r + 1] + Weight["mysql"][r + 1]
  /\ Weight["mysql"][0] + Weight["es"][0] = (MaxRedo + 1) * (MaxRedo + 2)
<1>0. "mysql" \in Queue /\ "es" \in Queue /\ MaxRedo \in Nat
  BY PipelineConstants DEF Queue
<1>1. \A k \in Nat : k * (k + 1) \in Nat /\ 2 * (k + 1) \in Nat
  OBVIOUS
<1>2. \A r \in 0 .. MaxRedo : MaxRedo - r \in Nat
  BY <1>0
<1>3. \A r \in 0 .. MaxRedo :
        /\ Weight["mysql"][r] = 2 * (MaxRedo - r + 1)
        /\ Weight["es"][r] = (MaxRedo - r) * (MaxRedo - r + 1)
  BY <1>0 DEF Weight
<1>4. Weight \in [Queue -> Count]
  <2>1. ASSUME NEW q \in Queue, NEW r \in 0 .. MaxRedo
        PROVE  (IF q = "mysql" THEN 2 * (MaxRedo - r + 1) ELSE (MaxRedo - r) * (MaxRedo - r + 1)) \in Nat
    <3> DEFINE k == MaxRedo - r
    <3>1. k \in Nat
      BY <1>2
    <3> HIDE DEF k
    <3>2. 2 * (k + 1) \in Nat /\ k * (k + 1) \in Nat
      BY <1>1, <3>1
    <3> QED
      BY <3>2 DEF k
  <2> QED
    BY <2>1 DEF Weight, Count
<1>5. ASSUME NEW r \in 0 .. MaxRedo, r < MaxRedo
      PROVE  /\ r + 1 \in 0 .. MaxRedo
             /\ Weight["mysql"][r + 1] = 2 * (MaxRedo - r)
             /\ Weight["es"][r] = Weight["es"][r + 1] + Weight["mysql"][r + 1]
  <2> DEFINE k == MaxRedo - r
  <2>1. k \in Nat /\ r + 1 \in 0 .. MaxRedo /\ MaxRedo - (r + 1) = k - 1
    BY <1>0, <1>5
  <2>2. /\ Weight["es"][r] = k * (k + 1)
        /\ Weight["es"][r + 1] = (k - 1) * (k - 1 + 1)
        /\ Weight["mysql"][r + 1] = 2 * (k - 1 + 1)
    BY <1>3, <2>1
  <2> HIDE DEF k
  <2>3. k - 1 + 1 = k /\ k * (k + 1) = (k - 1) * k + 2 * k
    BY <2>1
  <2>4. Weight["mysql"][r + 1] = 2 * k /\ Weight["es"][r] = Weight["es"][r + 1] + Weight["mysql"][r + 1]
    BY <2>2, <2>3
  <2> QED
    BY <2>1, <2>4 DEF k
<1>6. Weight["mysql"][0] + Weight["es"][0] = (MaxRedo + 1) * (MaxRedo + 2)
  <2>1. 0 \in 0 .. MaxRedo /\ MaxRedo - 0 = MaxRedo
    BY <1>0
  <2>2. Weight["mysql"][0] = 2 * (MaxRedo + 1) /\ Weight["es"][0] = MaxRedo * (MaxRedo + 1)
    BY <1>3, <2>1
  <2>3. \A k \in Nat : 2 * (k + 1) + k * (k + 1) = (k + 1) * (k + 2)
    OBVIOUS
  <2> QED
    BY <1>0, <2>2, <2>3
<1>7. \A r \in 0 .. MaxRedo : Weight["mysql"][r] = 2 * (MaxRedo - r) + 2
  BY <1>0, <1>3
<1> QED
  BY <1>0, <1>4, <1>5, <1>6, <1>7

LEMMA CountsForm == ASSUME PipelineTypeOK, NEW q \in Queue, NEW m \in Message
  PROVE  /\ Counts(q, m) \in Count
         /\ Weight[q] \in Count
<1>1. \A r \in 0 .. MaxRedo : [msg |-> m, retry |-> r] \in Copy
  BY DEF Copy
<1> QED
  BY <1>1, WeightForm DEF PipelineTypeOK, Counts, Count

LEMMA TokensSame ==
  ASSUME NEW q \in Queue, NEW m \in Message, \A d \in Copy : d.msg = m => queue'[q][d] = queue[q][d]
  PROVE  Tokens(q, m)' = Tokens(q, m)
<1>1. \A r \in 0 .. MaxRedo :
        [msg |-> m, retry |-> r] \in Copy /\ [msg |-> m, retry |-> r].msg = m
  BY DEF Copy
<1>2. Counts(q, m)' = Counts(q, m)
  BY <1>1 DEF Counts
<1> QED
  BY <1>2 DEF Tokens

LEMMA TokensPlus ==
  ASSUME PipelineTypeOK, NEW q \in Queue, NEW c \in Copy, IsFiniteSet(Tokens(q, c.msg)),
         \A d \in Copy : queue'[q][d] = IF d = c THEN queue[q][d] + 1 ELSE queue[q][d]
  PROVE  /\ IsFiniteSet(Tokens(q, c.msg)')
         /\ Cardinality(Tokens(q, c.msg)') = Cardinality(Tokens(q, c.msg)) + Weight[q][c.retry]
<1> DEFINE m == c.msg
           s == c.retry
<1>0. m \in Message /\ s \in 0 .. MaxRedo /\ c = [msg |-> m, retry |-> s]
  BY CopyForm
<1>1. ASSUME NEW r \in 0 .. MaxRedo
      PROVE  queue'[q][[msg |-> m, retry |-> r]] =
               IF r = s THEN queue[q][[msg |-> m, retry |-> r]] + 1 ELSE queue[q][[msg |-> m, retry |-> r]]
  <2>1. [msg |-> m, retry |-> r] \in Copy
    BY <1>0 DEF Copy
  <2>2. [msg |-> m, retry |-> r] = c <=> r = s
    BY <1>0
  <2> QED
    BY <2>1, <2>2
<1>2. Counts(q, m) \in Count /\ Weight[q] \in Count
  BY <1>0, CountsForm
<1> HIDE DEF m, s
<1>3. Counts(q, m)' = [Counts(q, m) EXCEPT ![s] = @ + 1]
  BY <1>0, <1>1 DEF Counts
<1>4. /\ IsFiniteSet(TokensOf([Counts(q, m) EXCEPT ![s] = @ + 1], Weight[q]))
      /\ Cardinality(TokensOf([Counts(q, m) EXCEPT ![s] = @ + 1], Weight[q]))
           = Cardinality(TokensOf(Counts(q, m), Weight[q])) + Weight[q][s]
  BY <1>0, <1>2, TokensGrow DEF Tokens, m
<1> QED
  BY <1>3, <1>4 DEF Tokens, m, s

LEMMA TokensMinus ==
  ASSUME PipelineTypeOK, NEW q \in Queue, NEW c \in Copy, IsFiniteSet(Tokens(q, c.msg)), queue[q][c] > 0,
         \A d \in Copy : queue'[q][d] = IF d = c THEN queue[q][d] - 1 ELSE queue[q][d]
  PROVE  /\ IsFiniteSet(Tokens(q, c.msg)')
         /\ Cardinality(Tokens(q, c.msg)) = Cardinality(Tokens(q, c.msg)') + Weight[q][c.retry]
<1> DEFINE m == c.msg
           s == c.retry
<1>0. m \in Message /\ s \in 0 .. MaxRedo /\ c = [msg |-> m, retry |-> s]
  BY CopyForm
<1>1. ASSUME NEW r \in 0 .. MaxRedo
      PROVE  queue'[q][[msg |-> m, retry |-> r]] =
               IF r = s THEN queue[q][[msg |-> m, retry |-> r]] - 1 ELSE queue[q][[msg |-> m, retry |-> r]]
  <2>1. [msg |-> m, retry |-> r] \in Copy
    BY <1>0 DEF Copy
  <2>2. [msg |-> m, retry |-> r] = c <=> r = s
    BY <1>0
  <2> QED
    BY <2>1, <2>2
<1>2. Counts(q, m) \in Count /\ Weight[q] \in Count
  BY <1>0, CountsForm
<1>a. Counts(q, m)[s] > 0
  BY <1>0 DEF Counts
<1> HIDE DEF m, s
<1>3. Counts(q, m)' = [Counts(q, m) EXCEPT ![s] = @ - 1]
  BY <1>0, <1>1 DEF Counts
<1>4. /\ IsFiniteSet(TokensOf([Counts(q, m) EXCEPT ![s] = @ - 1], Weight[q]))
      /\ Cardinality(TokensOf(Counts(q, m), Weight[q]))
           = Cardinality(TokensOf([Counts(q, m) EXCEPT ![s] = @ - 1], Weight[q])) + Weight[q][s]
  BY <1>0, <1>2, <1>a, TokensShrink DEF Tokens, m
<1> QED
  BY <1>3, <1>4 DEF Tokens, m, s

\* What a delivery in hand is worth.
HandIs(q, m) ==
  /\ InHand(q, m) \in Nat
  /\ work[q] = Idle \/ work[q].copy.msg # m => InHand(q, m) = 0
  /\ work[q] # Idle /\ work[q].copy.msg = m =>
       /\ work[q].step \in {"called", "uploaded"} => InHand(q, m) = Weight[q][work[q].copy.retry]
       /\ work[q].step = "retry" =>
            InHand(q, m) = IF q = "mysql" THEN 2 * (MaxRedo - work[q].copy.retry)
                           ELSE Weight[q][work[q].copy.retry]
       /\ work[q].step \in {"success", "fatal", "ack", "unheard"} => InHand(q, m) = 0

LEMMA InHandForm == PipelineTypeOK => \A q \in Queue, m \in Message : HandIs(q, m)
<1> SUFFICES ASSUME PipelineTypeOK, NEW q \in Queue, NEW m \in Message PROVE HandIs(q, m)
  OBVIOUS
<1>1. CASE work[q] = Idle \/ work[q].copy.msg # m
  BY <1>1 DEF InHand, HandIs
<1>2. CASE work[q] # Idle /\ work[q].copy.msg = m
  <2> DEFINE r == work[q].copy.retry
  <2>1. r \in 0 .. MaxRedo /\ MaxRedo \in Nat
    BY <1>2, WorkForm, PipelineConstants
  <2> HIDE DEF r
  <2>2. Weight[q][r] \in Nat /\ 2 * (MaxRedo - r) \in Nat
    BY <2>1, WeightForm DEF Count
  <2> QED
    BY <1>2, <2>2 DEF InHand, HandIs, r
<1> QED
  BY <1>1, <1>2

LEMMA InHandNext == PipelineTypeOK' => \A q \in Queue, m \in Message : HandIs(q, m)'
<1>1. (PipelineTypeOK => \A q \in Queue, m \in Message : HandIs(q, m))'
  BY InHandForm, PTL
<1> QED
  BY <1>1

\* A queue nothing happens to, as far as m is concerned.
LEMMA OwedSame ==
  ASSUME NEW q \in Queue, NEW m \in Message, IsFiniteSet(Tokens(q, m)),
         \A d \in Copy : d.msg = m => queue'[q][d] = queue[q][d], work'[q] = work[q]
  PROVE  IsFiniteSet(Tokens(q, m)') /\ Owed(q, m)' = Owed(q, m)
<1>1. Tokens(q, m)' = Tokens(q, m)
  BY TokensSame
<1>2. InHand(q, m)' = InHand(q, m)
  BY DEF InHand
<1> QED
  BY <1>1, <1>2 DEF Owed

\* Only the delivery in hand changes.
LEMMA OwedInHand ==
  ASSUME PipelineTypeOK, PipelineTypeOK', NEW q \in Queue, NEW m \in Message, IsFiniteSet(Tokens(q, m)),
         queue' = queue
  PROVE  /\ IsFiniteSet(Tokens(q, m)')
         /\ Owed(q, m) \in Nat /\ Owed(q, m)' \in Nat
         /\ Owed(q, m)' = Owed(q, m) + InHand(q, m)' - InHand(q, m)
<1>1. Tokens(q, m)' = Tokens(q, m)
  BY TokensSame
<1>2. InHand(q, m) \in Nat /\ InHand(q, m)' \in Nat
  BY InHandForm, InHandNext DEF HandIs
<1>3. Cardinality(Tokens(q, m)) \in Nat
  BY FS_CardinalityType
<1> QED
  BY <1>1, <1>2, <1>3 DEF Owed

\* Taking a copy from the queue changes what it counts as, not how much.
LEMMA OwedDelivered ==
  ASSUME PipelineTypeOK, PipelineTypeOK', NEW q \in Queue, Deliver(q), NEW p \in Queue,
         NEW m \in Message, IsFiniteSet(Tokens(p, m))
  PROVE  IsFiniteSet(Tokens(p, m)') /\ Owed(p, m)' = Owed(p, m)
<1>1. CASE p # q
  <2>1. work'[p] = work[p] /\ \A d \in Copy : queue'[p][d] = queue[p][d]
    BY <1>1, DeliverForm
  <2> QED
    BY <2>1, OwedSame
<1>2. CASE p = q /\ work'[q].copy.msg # m
  <2>1. \A d \in Copy : d.msg = m => queue'[q][d] = queue[q][d]
    BY <1>2, DeliverForm
  <2>2. Tokens(q, m)' = Tokens(q, m)
    BY <2>1, TokensSame
  <2>3. InHand(q, m) = 0 /\ InHand(q, m)' = 0
    BY <1>2, InHandForm, InHandNext DEF HandIs, Deliver
  <2> QED
    BY <1>2, <2>2, <2>3 DEF Owed
<1>3. CASE p = q /\ work'[q].copy.msg = m
  <2> DEFINE c == work'[q].copy
  <2>1. /\ c \in Copy /\ c.msg = m /\ queue[q][c] > 0 /\ work[q] = Idle
        /\ \A d \in Copy : queue'[q][d] = IF d = c THEN queue[q][d] - 1 ELSE queue[q][d]
        /\ work'[q] # Idle /\ work'[q].copy = c /\ work'[q].step = "called"
    BY <1>3, DeliverForm
  <2> HIDE DEF c
  <2>2. /\ IsFiniteSet(Tokens(q, m)')
        /\ Cardinality(Tokens(q, m)) = Cardinality(Tokens(q, m)') + Weight[q][c.retry]
    BY <1>3, <2>1, TokensMinus
  <2>3. InHand(q, m) = 0 /\ InHand(q, m)' = Weight[q][c.retry]
    BY <2>1, InHandForm, InHandNext DEF HandIs
  <2>4. Cardinality(Tokens(q, m)') \in Nat /\ Weight[q][c.retry] \in Nat
    BY <2>1, <2>2, FS_CardinalityType, CopyForm, WeightForm DEF Count
  <2> QED
    BY <1>3, <2>2, <2>3, <2>4 DEF Owed
<1> QED
  BY <1>1, <1>2, <1>3

\* A retry costs one try; what the ES store sends across was counted in its weight.
LEMMA OwedRepublished ==
  ASSUME PipelineTypeOK, PipelineTypeOK', NEW q \in Queue, RetrySent(q), NEW m \in Message,
         \A p \in Queue : IsFiniteSet(Tokens(p, m))
  PROVE  /\ \A p \in Queue : IsFiniteSet(Tokens(p, m)')
         /\ Owed("mysql", m)' + Owed("es", m)' = Owed("mysql", m) + Owed("es", m)
<1> DEFINE r == work[q].copy.retry
           c == [msg |-> work[q].copy.msg, retry |-> r + 1]
<1>0. "mysql" \in Queue /\ "es" \in Queue /\ (\A p \in Queue : p = "mysql" \/ p = "es")
  BY DEF Queue
<1>1. /\ work[q] # Idle /\ work[q].step = "retry" /\ r \in 0 .. MaxRedo /\ r < MaxRedo
      /\ c \in Copy /\ Route(c, RetryTargets(q)) /\ Goto(q, "ack") /\ "ack" \in Step
      /\ RetryTargets(q) \in SUBSET Queue
  BY RepublishForm, WorkForm
<1>2. /\ work'[q] # Idle /\ work'[q].copy = work[q].copy /\ work'[q].step = "ack"
      /\ \A p \in Queue : p # q => work'[p] = work[p]
  BY <1>1, GotoForm
<1>3. \A p \in Queue, d \in Copy :
        queue'[p][d] = IF p \in RetryTargets(q) /\ d = c THEN queue[p][d] + 1 ELSE queue[p][d]
  BY <1>1, RouteForm
<1>4. c.msg = work[q].copy.msg /\ c.retry = r + 1
  OBVIOUS
<1>5. CASE work[q].copy.msg # m
  <2>1. \A p \in Queue : Tokens(p, m)' = Tokens(p, m)
    BY <1>3, <1>4, <1>5, TokensSame
  <2>2. \A p \in Queue : InHand(p, m)' = InHand(p, m)
    <3>1. InHand(q, m) = 0 /\ InHand(q, m)' = 0
      BY <1>1, <1>2, <1>5, InHandForm, InHandNext DEF HandIs
    <3>2. \A p \in Queue : p # q => InHand(p, m)' = InHand(p, m)
      BY <1>2 DEF InHand
    <3> QED
      BY <3>1, <3>2
  <2> QED
    BY <1>0, <2>1, <2>2 DEF Owed
<1>6. CASE work[q].copy.msg = m
  <2>1. /\ InHand(q, m)' = 0
        /\ InHand(q, m) = IF q = "mysql" THEN 2 * (MaxRedo - r) ELSE Weight[q][r]
    BY <1>1, <1>2, <1>6, InHandForm, InHandNext DEF HandIs
  <2>a. c \in Copy /\ c.msg = m /\ c.retry = r + 1
    BY <1>1, <1>4, <1>6
  <2> HIDE DEF r, c
  <2>2. ASSUME NEW p \in Queue, p \in RetryTargets(q)
        PROVE  /\ IsFiniteSet(Tokens(p, m)')
               /\ Cardinality(Tokens(p, m)') = Cardinality(Tokens(p, m)) + Weight[p][r + 1]
    <3>1. PICK e \in Copy : e = c
      BY <2>a
    <3>2. e.msg = m /\ e.retry = r + 1
      BY <2>a, <3>1
    <3>3. \A d \in Copy : queue'[p][d] = IF d = e THEN queue[p][d] + 1 ELSE queue[p][d]
      BY <1>3, <2>2, <3>1
    <3>4. IsFiniteSet(Tokens(p, e.msg))
      BY <3>2
    <3>5. /\ IsFiniteSet(Tokens(p, e.msg)')
          /\ Cardinality(Tokens(p, e.msg)') = Cardinality(Tokens(p, e.msg)) + Weight[p][e.retry]
      BY <3>3, <3>4, TokensPlus
    <3> QED
      BY <3>2, <3>5
  <2>3. \A p \in Queue : Cardinality(Tokens(p, m)) \in Nat
    BY FS_CardinalityType
  <2>4. /\ Weight["mysql"][r + 1] = 2 * (MaxRedo - r)
        /\ Weight["es"][r] = Weight["es"][r + 1] + Weight["mysql"][r + 1]
        /\ r + 1 \in 0 .. MaxRedo
    BY <1>1, WeightForm
  <2>5. Weight["mysql"][r + 1] \in Nat /\ Weight["es"][r + 1] \in Nat
    BY <1>0, <2>4, WeightForm DEF Count
  <2>6. CASE q = "es"
    <3>1. "mysql" \in RetryTargets(q) /\ "es" \in RetryTargets(q)
      BY <2>6 DEF RetryTargets, Queue
    <3>2. \A p \in Queue : IsFiniteSet(Tokens(p, m)')
      BY <2>2, <1>0, <3>1
    <3>3. /\ Cardinality(Tokens("mysql", m)') = Cardinality(Tokens("mysql", m)) + Weight["mysql"][r + 1]
          /\ Cardinality(Tokens("es", m)') = Cardinality(Tokens("es", m)) + Weight["es"][r + 1]
      BY <2>2, <1>0, <3>1
    <3>4. InHand("mysql", m)' = InHand("mysql", m) /\ InHand("mysql", m) \in Nat
      BY <1>0, <1>2, <2>6, InHandForm DEF InHand, HandIs
    <3>5. InHand("es", m)' = 0 /\ InHand("es", m) = Weight["es"][r]
      BY <2>1, <2>6
    <3> QED
      BY <1>0, <2>3, <2>4, <2>5, <3>2, <3>3, <3>4, <3>5 DEF Owed
  <2>7. CASE q = "mysql"
    <3>1. "mysql" \in RetryTargets(q) /\ "es" \notin RetryTargets(q)
      BY <2>7 DEF RetryTargets, Queue
    <3>2. /\ IsFiniteSet(Tokens("mysql", m)')
          /\ Cardinality(Tokens("mysql", m)') = Cardinality(Tokens("mysql", m)) + Weight["mysql"][r + 1]
      BY <2>2, <1>0, <3>1
    <3>3. \A d \in Copy : queue'["es"][d] = queue["es"][d]
      BY <1>0, <1>3, <3>1
    <3>4. IsFiniteSet(Tokens("es", m)') /\ Owed("es", m)' = Owed("es", m)
      BY <1>0, <1>2, <2>7, <3>3, OwedSame
    <3>5. InHand("mysql", m)' = 0 /\ InHand("mysql", m) = Weight["mysql"][r + 1]
      BY <2>1, <2>4, <2>7
    <3>6. Owed("mysql", m)' = Owed("mysql", m)
      BY <1>0, <2>3, <2>5, <3>2, <3>5 DEF Owed
    <3> QED
      BY <1>0, <3>2, <3>4, <3>6
  <2> QED
    BY <1>0, <2>6, <2>7
<1> QED
  BY <1>5, <1>6

\* A message comes with its whole budget.
LEMMA OwedTransmitted ==
  ASSUME PipeInv, PipelineTypeOK', NEW m \in Message, Transmit(m)
  PROVE  WithinBudget(m)'
<1>0. "mysql" \in Queue /\ "es" \in Queue /\ MaxRedo \in Nat /\ PipelineTypeOK /\ PipelineTypeOK'
      /\ (\A p \in Queue : p = "mysql" \/ p = "es")
  BY PipelineConstants DEF Queue, PipeInv
<1>1. NoCopies(m) /\ attempts[m] = 0 /\ attempts' = attempts /\ work' = work
  BY <1>0 DEF PipeInv, Untouched, Transmit, Out!Send
<1>2. \A q \in Queue : InHand(q, m)' = 0
  BY <1>0, <1>1, InHandNext DEF HandIs, NoCopies
<1>3. \A q \in Queue : \A r \in 0 .. MaxRedo : Counts(q, m)[r] = 0
  BY <1>1 DEF NoCopies, Counts, Copy
<1>4. \A q \in Queue : IsFiniteSet(Tokens(q, m)) /\ Cardinality(Tokens(q, m)) = 0
  BY <1>3, NoTokens DEF Tokens
<1>5. /\ Budget(m) \in Nat
      /\ Weight["mysql"][0] = 2 * (MaxRedo + 1)
      /\ Weight["mysql"][0] <= Budget(m)
      /\ m \in Text => Weight["mysql"][0] + Weight["es"][0] = Budget(m)
      /\ Weight["es"][0] \in Nat
  <2>1. 0 \in 0 .. MaxRedo
    BY <1>0
  <2>2. Weight["es"][0] \in Nat /\ Weight["mysql"][0] = 2 * (MaxRedo + 1)
    BY <1>0, <2>1, WeightForm DEF Count
  <2>3. Weight["mysql"][0] + Weight["es"][0] = (MaxRedo + 1) * (MaxRedo + 2)
    BY WeightForm
  <2> DEFINE full == (MaxRedo + 1) * (MaxRedo + 2)
  <2>4. full \in Nat /\ Weight["mysql"][0] <= full /\ Weight["mysql"][0] + Weight["es"][0] = full
    BY <1>0, <2>2, <2>3
  <2>5. Budget(m) = IF m \in Text THEN full ELSE 2 * (MaxRedo + 1)
    BY DEF Budget
  <2> HIDE DEF full
  <2> QED
    BY <1>0, <2>2, <2>4, <2>5
<1>6. CASE UNCHANGED queue
  <2>1. \A q \in Queue : Tokens(q, m)' = Tokens(q, m)
    BY <1>6, TokensSame
  <2> QED
    BY <1>0, <1>1, <1>2, <1>4, <1>5, <2>1 DEF WithinBudget, Owed, Budget
<1>7. CASE Route([msg |-> m, retry |-> 0], FirstTargets(m))
  <2> DEFINE c == [msg |-> m, retry |-> 0]
  <2>1. c \in Copy /\ c.msg = m /\ c.retry = 0 /\ Route(c, FirstTargets(m))
        /\ FirstTargets(m) \in SUBSET Queue /\ "mysql" \in FirstTargets(m)
    <3>1. c.msg = m /\ c.retry = 0
      OBVIOUS
    <3> QED
      BY <1>0, <1>7, <3>1, TransmitForm
  <2> HIDE DEF c
  <2>2. \A p \in Queue, d \in Copy :
          queue'[p][d] = IF p \in FirstTargets(m) /\ d = c THEN queue[p][d] + 1 ELSE queue[p][d]
    BY <1>0, <2>1, RouteForm
  <2>3. ASSUME NEW p \in Queue, p \in FirstTargets(m)
        PROVE  IsFiniteSet(Tokens(p, m)') /\ Cardinality(Tokens(p, m)') = Weight[p][0]
    <3>1. \A d \in Copy : queue'[p][d] = IF d = c THEN queue[p][d] + 1 ELSE queue[p][d]
      BY <2>2, <2>3
    <3>2. /\ IsFiniteSet(Tokens(p, c.msg)')
          /\ Cardinality(Tokens(p, c.msg)') = Cardinality(Tokens(p, c.msg)) + Weight[p][c.retry]
      BY <1>0, <1>4, <2>1, <3>1, TokensPlus
    <3>3. Weight[p][0] \in Nat
      BY <1>0, <1>5
    <3> QED
      BY <1>4, <2>1, <3>2, <3>3
  <2>4. CASE m \in Text
    <3>1. "es" \in FirstTargets(m)
      BY <2>4 DEF FirstTargets, Queue
    <3> QED
      BY <1>0, <1>1, <1>2, <1>5, <2>1, <2>3, <2>4, <3>1 DEF WithinBudget, Owed, Budget
  <2>5. CASE m \notin Text
    <3>1. "es" \notin FirstTargets(m)
      BY <2>5 DEF FirstTargets
    <3>2. Tokens("es", m)' = Tokens("es", m)
      BY <1>0, <2>2, <3>1, TokensSame
    <3> QED
      BY <1>0, <1>1, <1>2, <1>4, <1>5, <2>1, <2>3, <2>5, <3>2 DEF WithinBudget, Owed, Budget
  <2> QED
    BY <2>4, <2>5
<1> QED
  BY <1>6, <1>7 DEF Transmit

LEMMA StepStorm == PipeInv /\ PipeInv' /\ StormInv /\ [PipelineNext]_pipelineVars => StormInv'
<1> SUFFICES ASSUME PipeInv, PipeInv', StormInv, [PipelineNext]_pipelineVars, crashes' = 0, NEW m \in Message
             PROVE  WithinBudget(m)'
  BY DEF StormInv
<1>0. /\ PipelineTypeOK /\ PipelineTypeOK'
      /\ "mysql" \in Queue /\ "es" \in Queue /\ (\A q \in Queue : q = "mysql" \/ q = "es")
  BY DEF PipeInv, Queue
<1>1. crashes = 0 /\ \A q \in Queue : ~Crash(q) /\ ~Disconnect(q)
  <2>1. \A q \in Queue : ~Crash(q) /\ ~Disconnect(q)
    BY <1>0 DEF Crash, Disconnect, PipelineTypeOK
  <2>2. crashes' = crashes
    BY <2>1 DEF PipelineNext, Consumer, pipelineVars, Accept, Transmit, Abandon, Deliver, Republish,
            Ack, Upload, Insert, AppendData, Restart
  <2> QED
    BY <2>1, <2>2
<1>2. WithinBudget(m)
  BY <1>1 DEF StormInv
<1>3. \A q \in Queue : IsFiniteSet(Tokens(q, m))
  BY <1>2 DEF WithinBudget
<1>4. /\ \A q \in Queue : Owed(q, m) \in Nat
      /\ attempts[m] \in Nat /\ attempts'[m] \in Nat
      /\ Budget(m) \in Int /\ Budget(m)' = Budget(m)
  <2>1. \A q \in Queue : Cardinality(Tokens(q, m)) \in Nat /\ InHand(q, m) \in Nat
    BY <1>0, <1>3, FS_CardinalityType, InHandForm DEF HandIs
  <2>2. attempts[m] \in Nat /\ attempts'[m] \in Nat
    BY <1>0 DEF PipelineTypeOK
  <2> QED
    BY <2>1, <2>2, PipelineConstants DEF Owed, Budget
\* Enough to show: no more is owed and tried than before.
<1>5. ASSUME \A q \in Queue : IsFiniteSet(Tokens(q, m)'),
             2 * attempts'[m] + Owed("mysql", m)' + Owed("es", m)'
               <= 2 * attempts[m] + Owed("mysql", m) + Owed("es", m)
      PROVE  WithinBudget(m)'
  <2>1. \A q \in Queue : Owed(q, m)' \in Nat
    <3>1. \A q \in Queue : Cardinality(Tokens(q, m)') \in Nat
      BY <1>5, FS_CardinalityType
    <3>2. \A q \in Queue : InHand(q, m)' \in Nat
      BY <1>0, InHandNext DEF HandIs
    <3> QED
      BY <3>1, <3>2 DEF Owed
  <2>2. 2 * attempts[m] + Owed("mysql", m) + Owed("es", m) <= Budget(m)
    BY <1>2 DEF WithinBudget
  <2>3. 2 * attempts'[m] + Owed("mysql", m)' + Owed("es", m)' <= Budget(m)
    BY <1>0, <1>4, <1>5, <2>1, <2>2
  <2> QED
    BY <1>4, <1>5, <2>3 DEF WithinBudget
\* The queues stay as they are, and the deliveries are worth less.
<1>6. ASSUME queue' = queue,
             2 * attempts'[m] + InHand("mysql", m)' + InHand("es", m)'
               <= 2 * attempts[m] + InHand("mysql", m) + InHand("es", m)
      PROVE  WithinBudget(m)'
  <2>1. \A q \in Queue : /\ IsFiniteSet(Tokens(q, m)')
                         /\ Owed(q, m)' \in Nat
                         /\ Owed(q, m)' = Owed(q, m) + InHand(q, m)' - InHand(q, m)
    BY <1>0, <1>3, <1>6, OwedInHand
  <2>2. \A q \in Queue : InHand(q, m) \in Nat /\ InHand(q, m)' \in Nat
    BY <1>0, InHandForm, InHandNext DEF HandIs
  <2>3. 2 * attempts'[m] + Owed("mysql", m)' + Owed("es", m)'
          <= 2 * attempts[m] + Owed("mysql", m) + Owed("es", m)
    BY <1>0, <1>4, <1>6, <2>1, <2>2
  <2> QED
    BY <1>5, <2>1, <2>3
<1>7. ASSUME queue' = queue, attempts' = attempts, \A q \in Queue : InHand(q, m)' <= InHand(q, m)
      PROVE  WithinBudget(m)'
  <2>1. \A q \in Queue : InHand(q, m) \in Nat /\ InHand(q, m)' \in Nat
    BY <1>0, InHandForm, InHandNext DEF HandIs
  <2>2. 2 * attempts'[m] + InHand("mysql", m)' + InHand("es", m)'
          <= 2 * attempts[m] + InHand("mysql", m) + InHand("es", m)
    BY <1>0, <1>4, <1>7, <2>1
  <2> QED
    BY <1>6, <1>7, <2>2
<1>8. ASSUME NEW q \in Queue, work'[q] = work[q] PROVE InHand(q, m)' = InHand(q, m) /\ InHand(q, m) \in Nat
  BY <1>0, <1>8, InHandForm DEF InHand, HandIs
<1>10. ASSUME queue' = queue, attempts' = attempts, work' = work PROVE WithinBudget(m)'
  BY <1>7, <1>8, <1>10
<1>11. ASSUME NEW n \in Message, Accept(n) \/ Abandon(n) PROVE WithinBudget(m)'
  BY <1>10, <1>11 DEF Accept, Abandon
<1>12. ASSUME NEW n \in Message, Transmit(n) PROVE WithinBudget(m)'
  <2>1. CASE n = m
    BY <1>0, <1>12, <2>1, OwedTransmitted
  <2>2. CASE n # m
    <3>1. attempts' = attempts /\ work' = work
      BY <1>12 DEF Transmit
    <3>2. CASE UNCHANGED queue
      BY <1>10, <3>1, <3>2
    <3>3. CASE Route([msg |-> n, retry |-> 0], FirstTargets(n))
      <4> DEFINE c == [msg |-> n, retry |-> 0]
      <4>1. c \in Copy /\ Route(c, FirstTargets(n)) /\ FirstTargets(n) \in SUBSET Queue
        BY <3>3, TransmitForm, <1>0
      <4>2. \A d \in Copy : d.msg = m => d # c
        BY <2>2
      <4> HIDE DEF c
      <4>3. \A q \in Queue, d \in Copy : d.msg = m => queue'[q][d] = queue[q][d]
        BY <1>0, <4>1, <4>2, RouteForm
      <4>4. \A q \in Queue : IsFiniteSet(Tokens(q, m)') /\ Owed(q, m)' = Owed(q, m)
        BY <1>3, <3>1, <4>3, OwedSame
      <4>5. 2 * attempts'[m] + Owed("mysql", m)' + Owed("es", m)'
              <= 2 * attempts[m] + Owed("mysql", m) + Owed("es", m)
        BY <1>0, <1>4, <3>1, <4>4
      <4> QED
        BY <1>5, <4>4, <4>5
    <3> QED
      BY <1>12, <3>2, <3>3 DEF Transmit
  <2> QED
    BY <2>1, <2>2
<1>13. ASSUME NEW q \in Queue, Deliver(q) PROVE WithinBudget(m)'
  <2>1. \A p \in Queue : IsFiniteSet(Tokens(p, m)') /\ Owed(p, m)' = Owed(p, m)
    BY <1>0, <1>3, <1>13, OwedDelivered
  <2>2. 2 * attempts'[m] + Owed("mysql", m)' + Owed("es", m)'
          <= 2 * attempts[m] + Owed("mysql", m) + Owed("es", m)
    BY <1>0, <1>4, <1>13, <2>1 DEF Deliver
  <2> QED
    BY <1>5, <2>1, <2>2
<1>14. ASSUME NEW q \in Queue, RetrySent(q) PROVE WithinBudget(m)'
  <2>1. /\ \A p \in Queue : IsFiniteSet(Tokens(p, m)')
        /\ Owed("mysql", m)' + Owed("es", m)' = Owed("mysql", m) + Owed("es", m)
    BY <1>0, <1>3, <1>14, OwedRepublished
  <2>2. attempts'[m] = attempts[m]
    BY <1>14 DEF RetrySent, Republish
  <2>3. \A p \in Queue : Owed(p, m)' \in Nat
    <3>1. \A p \in Queue : Cardinality(Tokens(p, m)') \in Nat
      BY <2>1, FS_CardinalityType
    <3>2. \A p \in Queue : InHand(p, m)' \in Nat
      BY <1>0, InHandNext DEF HandIs
    <3> QED
      BY <3>1, <3>2 DEF Owed
  <2>4. 2 * attempts'[m] + Owed("mysql", m)' + Owed("es", m)'
          <= 2 * attempts[m] + Owed("mysql", m) + Owed("es", m)
    BY <1>0, <1>4, <2>1, <2>2, <2>3
  <2> QED
    BY <1>5, <2>1, <2>4
<1>15. ASSUME NEW q \in Queue, Ack(q) \/ Restart(q) PROVE WithinBudget(m)'
  <2>1. work'[q] = Idle /\ \A p \in Queue : p # q => work'[p] = work[p]
    BY <1>0, <1>15, LeaveForm DEF Ack, Restart
  <2>2. InHand(q, m)' = 0 /\ InHand(q, m) \in Nat
    BY <1>0, <2>1, InHandForm, InHandNext DEF HandIs
  <2>3. \A p \in Queue : InHand(p, m)' <= InHand(p, m)
    BY <1>8, <2>1, <2>2
  <2> QED
    BY <1>7, <1>15, <2>3 DEF Ack, Restart
<1>20. ASSUME NEW q \in Queue, RetryUnheard(q) PROVE WithinBudget(m)'
  <2>1. /\ work'[q] # Idle /\ work'[q].copy = work[q].copy /\ work'[q].step = "unheard"
        /\ queue' = queue /\ \A p \in Queue : p # q => work'[p] = work[p]
    BY <1>0, <1>20, UnheardForm
  <2>2. InHand(q, m)' = 0 /\ InHand(q, m) \in Nat
    BY <1>0, <2>1, InHandForm, InHandNext DEF HandIs
  <2>3. \A p \in Queue : InHand(p, m)' <= InHand(p, m)
    BY <1>8, <2>1, <2>2
  <2> QED
    BY <1>7, <1>20, <2>1, <2>3 DEF RetryUnheard, Republish
<1>16. ASSUME Upload PROVE WithinBudget(m)'
  <2>1. work["mysql"] # Idle /\ work["mysql"].step = "called" /\ {"uploaded", "fatal"} \subseteq Step
    BY <1>16 DEF Upload, At, Step
  <2>2. /\ work'["mysql"] # Idle /\ work'["mysql"].copy = work["mysql"].copy
        /\ work'["mysql"].step \in {"uploaded", "fatal"} /\ work'["es"] = work["es"]
    BY <1>0, <1>16, <2>1, GotoForm DEF Upload
  <2>3. InHand("mysql", m)' <= InHand("mysql", m)
    <3>1. HandIs("mysql", m) /\ HandIs("mysql", m)'
      BY <1>0, InHandForm, InHandNext
    <3> QED
      BY <2>1, <2>2, <3>1 DEF HandIs
  <2>4. \A q \in Queue : InHand(q, m)' <= InHand(q, m)
    BY <1>0, <1>8, <2>2, <2>3
  <2> QED
    BY <1>7, <1>16, <2>4 DEF Upload
<1>17. ASSUME Insert PROVE WithinBudget(m)'
  <2>1. /\ work["mysql"] # Idle /\ work["mysql"].step \in {"called", "uploaded"}
        /\ {"success", "retry"} \subseteq Step
    BY <1>17 DEF Insert, At, Step
  <2>2. /\ work'["mysql"] # Idle /\ work'["mysql"].copy = work["mysql"].copy
        /\ work'["mysql"].step \in {"success", "retry"} /\ work'["es"] = work["es"]
    BY <1>0, <1>17, <2>1, GotoForm DEF Insert
  <2>3. queue' = queue /\ attempts'[m] = IF work["mysql"].copy.msg = m THEN attempts[m] + 1 ELSE attempts[m]
    BY <1>0, <1>17 DEF Insert, PipelineTypeOK
  <2>4. InHand("es", m)' = InHand("es", m) /\ InHand("es", m) \in Nat
    BY <1>0, <1>8, <2>2
  <2>5. 2 * attempts'[m] + InHand("mysql", m)' <= 2 * attempts[m] + InHand("mysql", m)
        /\ InHand("mysql", m) \in Nat /\ InHand("mysql", m)' \in Nat
    <3> DEFINE r == work["mysql"].copy.retry
    <3>1. HandIs("mysql", m) /\ HandIs("mysql", m)'
      BY <1>0, InHandForm, InHandNext
    <3>2. r \in 0 .. MaxRedo /\ MaxRedo \in Nat /\ Weight["mysql"][r] = 2 * (MaxRedo - r) + 2
      BY <1>0, <2>1, WorkForm, WeightForm
    <3>3. CASE work["mysql"].copy.msg = m
      <4>1. InHand("mysql", m) = Weight["mysql"][r]
        BY <2>1, <3>1, <3>3 DEF HandIs
      <4>2. InHand("mysql", m)' = 0 \/ InHand("mysql", m)' = 2 * (MaxRedo - r)
        BY <2>2, <3>1, <3>3 DEF HandIs
      <4>3. InHand("mysql", m) \in Nat /\ InHand("mysql", m)' \in Nat
        BY <3>1 DEF HandIs
      <4> HIDE DEF r
      <4> QED
        BY <1>4, <2>3, <3>2, <3>3, <4>1, <4>2, <4>3
    <3>4. CASE work["mysql"].copy.msg # m
      <4>1. InHand("mysql", m) = 0 /\ InHand("mysql", m)' = 0
        BY <2>2, <3>1, <3>4 DEF HandIs
      <4> QED
        BY <1>4, <2>3, <3>4, <4>1
    <3> QED
      BY <3>3, <3>4
  <2>6. 2 * attempts'[m] + InHand("mysql", m)' + InHand("es", m)'
          <= 2 * attempts[m] + InHand("mysql", m) + InHand("es", m)
    BY <1>4, <2>4, <2>5
  <2> QED
    BY <1>6, <2>3, <2>6
<1>18. ASSUME AppendData PROVE WithinBudget(m)'
  <2>1. work["es"] # Idle /\ work["es"].step = "called" /\ {"success", "retry"} \subseteq Step
    BY <1>18 DEF AppendData, At, Step
  <2>2. /\ work'["es"] # Idle /\ work'["es"].copy = work["es"].copy
        /\ work'["es"].step \in {"success", "retry"} /\ work'["mysql"] = work["mysql"]
    BY <1>0, <1>18, <2>1, GotoForm DEF AppendData
  <2>3. InHand("es", m)' <= InHand("es", m)
    <3>1. HandIs("es", m) /\ HandIs("es", m)'
      BY <1>0, InHandForm, InHandNext
    <3> QED
      BY <2>1, <2>2, <3>1 DEF HandIs
  <2>4. \A q \in Queue : InHand(q, m)' <= InHand(q, m)
    BY <1>0, <1>8, <2>2, <2>3
  <2> QED
    BY <1>7, <1>18, <2>4 DEF AppendData
<1>19. UNCHANGED pipelineVars => WithinBudget(m)'
  BY <1>10 DEF pipelineVars
<1> QED
  BY <1>1, <1>11, <1>12, <1>13, <1>14, <1>15, <1>16, <1>17, <1>18, <1>19, <1>20, RepublishSplits
     DEF PipelineNext, Consumer

\* Whatever fails, and whichever consumer's retries come first, a text is inserted at most
\* 1 + 2 + ... + (MaxRedo + 1) times and a file MaxRedo + 1 times, as long as nobody crashes
\* or is cut off.
THEOREM RetriesAreBounded == PipelineSpec => []RetryStormBounded
<1>1. PipelineInit => StormInv
  <2> SUFFICES ASSUME PipelineInit, NEW m \in Message PROVE WithinBudget(m)
    BY DEF StormInv
  <2>0. PipelineTypeOK /\ "mysql" \in Queue /\ "es" \in Queue
    BY PipelineInitInv DEF PipeInv, Queue
  <2>1. \A q \in Queue, r \in 0 .. MaxRedo : Counts(q, m)[r] = 0
    BY DEF PipelineInit, Counts, Copy
  <2>2. \A q \in Queue : IsFiniteSet(Tokens(q, m)) /\ Cardinality(Tokens(q, m)) = 0
    BY <2>1, NoTokens DEF Tokens
  <2>3. \A q \in Queue : InHand(q, m) = 0
    BY DEF PipelineInit, InHand
  <2>4. attempts[m] = 0
    BY DEF PipelineInit
  <2>5. Budget(m) \in Nat
    BY PipelineConstants DEF Budget
  <2> QED
    BY <2>0, <2>2, <2>3, <2>4, <2>5 DEF WithinBudget, Owed
<1>2. PipeInv /\ StormInv => RetryStormBounded
  <2> SUFFICES ASSUME PipeInv, crashes = 0, NEW m \in Message, WithinBudget(m)
               PROVE  attempts[m] <= StormBound(m)
    BY DEF RetryStormBounded, StormInv
  <2>0. PipelineTypeOK /\ "mysql" \in Queue /\ "es" \in Queue /\ MaxRedo \in Nat
    BY PipelineConstants DEF PipeInv, Queue
  <2>1. \A q \in Queue : Owed(q, m) \in Nat
    <3>1. \A q \in Queue : Cardinality(Tokens(q, m)) \in Nat /\ InHand(q, m) \in Nat
      BY <2>0, FS_CardinalityType, InHandForm DEF HandIs, WithinBudget
    <3> QED
      BY <3>1 DEF Owed
  <2>2. 2 * attempts[m] <= Budget(m) /\ attempts[m] \in Nat
    BY <2>0, <2>1, PipelineConstants DEF WithinBudget, PipelineTypeOK, Budget
  <2>3. CASE m \in Text
    <3> DEFINE full == (MaxRedo + 1) * (MaxRedo + 2)
    <3>1. full \in Nat /\ 2 * attempts[m] <= full /\ StormBound(m) = full \div 2
      BY <2>0, <2>2, <2>3 DEF Budget, StormBound
    <3> HIDE DEF full
    <3> QED
      BY <2>2, <3>1
  <2>4. CASE m \notin Text
    BY <2>0, <2>2, <2>4 DEF Budget, StormBound
  <2> QED
    BY <2>3, <2>4
<1> QED
  BY <1>1, <1>2, PipelineInductive, StepStorm, PTL DEF PipelineSpec
================================================================================

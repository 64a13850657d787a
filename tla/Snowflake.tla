------------------------------ MODULE Snowflake ------------------------------
(***************************************************************************)
(* Message ids: luna::Snowflake (common/snowflake.hpp), one generator per  *)
(* Transmite process.  next_id() holds mtx_ for the whole call, the spin   *)
(* for the next millisecond included, so a call is one step, or two when   *)
(* the sequence number of a millisecond is used up.  Each host reads its   *)
(* own system_clock; a process may die and start again, with last_time_    *)
(* and seq_ back at their initial values.                                  *)
(***************************************************************************)
EXTENDS Integers, FiniteSets

CONSTANTS
  Node,       \* the Transmite processes
  MachineId,  \* MachineId[n]: the --machine_id of process n
  SeqLimit,   \* values of seq_:        2^12 in the code (& 0xFFF, << 12)
  MachLimit,  \* values of machine_id_: 2^10 in the code (& 0x3FF, << 22)
  Epoch,      \* epoch_; a clock never shows an earlier time
  MaxTime     \* bound: the last millisecond a clock shows

ASSUME SnowflakeConstants ==
  /\ MachineId \in [Node -> Nat]
  /\ SeqLimit \in Nat \ {0}
  /\ MachLimit \in Nat \ {0}
  /\ Epoch \in Nat \ {0}
  /\ MaxTime \in Nat

\* Two processes never share the machine-id bits: the operator's part of the deal.
DistinctMachines ==
  \A m, n \in Node : MachineId[m] % MachLimit = MachineId[n] % MachLimit => m = n

VARIABLES
  clock,     \* clock[n]: system_clock of n's host, in milliseconds
  lastTime,  \* last_time_
  seq,       \* seq_
  spin,      \* spin[n]: a call is in the while loop, holding mtx_
  up,        \* up[n]: the process runs
  issued,    \* history: every id returned so far
  calls,     \* history: how many calls have returned
  latest     \* history: latest[n], the id n returned last (-1: none)

vars == <<clock, lastTime, seq, spin, up, issued, calls, latest>>

Time == Epoch .. MaxTime

TypeOK ==
  /\ clock \in [Node -> Time]
  /\ lastTime \in [Node -> {0} \cup Time]
  /\ seq \in [Node -> 0 .. SeqLimit - 1]
  /\ spin \in [Node -> BOOLEAN]
  /\ up \in [Node -> BOOLEAN]
  /\ issued \subseteq Nat
  /\ IsFiniteSet(issued)
  /\ calls \in Nat
  /\ latest \in [Node -> Int]

\* ((now - epoch_) << 22) | (machine_id_ << 12) | seq_, the fields being disjoint.
Id(now, n, s) ==
  ((now - Epoch) * MachLimit + (MachineId[n] % MachLimit)) * SeqLimit + s

Init ==
  /\ clock \in [Node -> Time]
  /\ lastTime = [n \in Node |-> 0]
  /\ seq = [n \in Node |-> 0]
  /\ spin = [n \in Node |-> FALSE]
  /\ up = [n \in Node |-> TRUE]
  /\ issued = {}
  /\ calls = 0
  /\ latest = [n \in Node |-> -1]

\* The call of n returns id.
Return(n, id) ==
  /\ issued' = issued \cup {id}
  /\ calls' = calls + 1
  /\ latest' = [latest EXCEPT ![n] = id]

\* Mutants of the two definitions below.

\* The wrapped sequence number is used in the same millisecond, without waiting.
NextIdNoSpin(n) ==
  /\ up[n] /\ ~spin[n]
  /\ lastTime' = [lastTime EXCEPT ![n] = clock[n]]
  /\ seq' = [seq EXCEPT ![n] = IF clock[n] = lastTime[n] THEN (@ + 1) % SeqLimit ELSE 0]
  /\ Return(n, Id(clock[n], n, seq'[n]))
  /\ UNCHANGED <<clock, spin, up>>

\* The call returns with mtx_ still held.
SpinExitKeepsLock(n) ==
  /\ spin[n]
  /\ clock[n] > lastTime[n]
  /\ lastTime' = [lastTime EXCEPT ![n] = clock[n]]
  /\ Return(n, Id(clock[n], n, seq[n]))
  /\ UNCHANGED <<clock, seq, spin, up>>

\* The wait ends one tick early: "< last_time_" for "<= last_time_".
SpinExitEarly(n) ==
  /\ spin[n]
  /\ clock[n] >= lastTime[n]
  /\ lastTime' = [lastTime EXCEPT ![n] = clock[n]]
  /\ spin' = [spin EXCEPT ![n] = FALSE]
  /\ Return(n, Id(clock[n], n, seq[n]))
  /\ UNCHANGED <<clock, seq, up>>

-------------------------------------------------------------------------------
(* next_id, under mtx_                                                       *)

NextId(n) ==
  /\ up[n] /\ ~spin[n]
  /\ IF clock[n] = lastTime[n]
     THEN /\ seq' = [seq EXCEPT ![n] = (@ + 1) % SeqLimit]
          /\ IF seq'[n] = 0
             THEN /\ spin' = [spin EXCEPT ![n] = TRUE]
                  /\ UNCHANGED <<lastTime, issued, calls, latest>>
             ELSE /\ Return(n, Id(clock[n], n, seq'[n]))
                  /\ UNCHANGED <<spin, lastTime>>
     ELSE /\ seq' = [seq EXCEPT ![n] = 0]
          /\ lastTime' = [lastTime EXCEPT ![n] = clock[n]]
          /\ Return(n, Id(clock[n], n, 0))
          /\ UNCHANGED spin
  /\ UNCHANGED <<clock, up>>

\* while ((now = time_now()) <= last_time_); and the rest of the call.
SpinExit(n) ==
  /\ spin[n]
  /\ clock[n] > lastTime[n]
  /\ lastTime' = [lastTime EXCEPT ![n] = clock[n]]
  /\ spin' = [spin EXCEPT ![n] = FALSE]
  /\ Return(n, Id(clock[n], n, seq[n]))
  /\ UNCHANGED <<clock, seq, up>>

-------------------------------------------------------------------------------
(* The environment                                                           *)

\* system_clock moves on.  (It is not steady, and next_id repeats ids on a host
\* whose clock is set back; everything below is about hosts where it is not.)
Tick(n) ==
  /\ clock[n] < MaxTime
  /\ clock' = [clock EXCEPT ![n] = @ + 1]
  /\ UNCHANGED <<lastTime, seq, spin, up, issued, calls, latest>>

Crash(n) ==
  /\ up[n]
  /\ up' = [up EXCEPT ![n] = FALSE]
  /\ spin' = [spin EXCEPT ![n] = FALSE]
  /\ UNCHANGED <<clock, lastTime, seq, issued, calls, latest>>

\* The new process starts from last_time_ = 0 and seq_ = 0.  It takes more than
\* a millisecond to start: the clock has moved on since the last id.
Restart(n) ==
  /\ ~up[n]
  /\ clock[n] > lastTime[n]
  /\ up' = [up EXCEPT ![n] = TRUE]
  /\ lastTime' = [lastTime EXCEPT ![n] = 0]
  /\ seq' = [seq EXCEPT ![n] = 0]
  /\ UNCHANGED <<clock, spin, issued, calls, latest>>

Next == \E n \in Node :
  NextId(n) \/ SpinExit(n) \/ Tick(n) \/ Crash(n) \/ Restart(n)

\* The clock runs and a spinning call gets its processor; nothing else is owed.
Fairness == \A n \in Node : WF_vars(Tick(n)) /\ WF_vars(SpinExit(n))

Spec == Init /\ [][Next]_vars /\ Fairness

-------------------------------------------------------------------------------
(* Properties                                                                *)

\* No id is returned twice, by one process or by two, across sequence wrap-around
\* and restarts: the ids are as many as the calls that returned.  message_id is a
\* unique key of the Message table, so a repeated id loses a message.
UniqueIds == Cardinality(issued) = calls

\* The ids of one process increase, across wrap-around and restarts (so sorting
\* by message_id sorts by the time Transmite took the message).
IdsIncrease == [][\A n \in Node : latest'[n] >= latest[n]]_vars

\* A call that waits for the next millisecond, while the bounded time still has
\* one, comes back or its process dies: mtx_ is not held for ever.
SpinEnds == \A n \in Node : (spin[n] /\ lastTime[n] < MaxTime) ~> ~spin[n]
===============================================================================

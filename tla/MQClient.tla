------------------------------- MODULE MQClient -------------------------------
(***************************************************************************)
(* The publishing half of luna::MQClient (common/rabbitmq.hpp).            *)
(*                                                                         *)
(* Handler threads call publish(): the task is pushed on _tasks under      *)
(* _queue_mutex, then ev_async_send() wakes the libev loop thread, and the *)
(* call returns true.  The loop thread swaps _tasks into a local queue and *)
(* runs the tasks one by one; a task that fails goes back on _tasks with   *)
(* retry + 1, or is dropped once the budget is spent.  Pushing a task back *)
(* does not wake the loop.                                                 *)
(***************************************************************************)
EXTENDS Naturals, Sequences

CONSTANTS Msg,        \* message bodies; each is published by one call
          Publisher,  \* the threads that call publish()
          MaxRetry    \* "task.retry <= 3" in drain_tasks: 3 in the code

ASSUME MaxRetryNat == MaxRetry \in Nat

VARIABLES
  pc,        \* pc[p] = "signal": p has pushed its task, ev_async_send is next
  tasks,     \* _tasks, guarded by _queue_mutex
  wakeup,    \* the sent flag of the _wakeup watcher
  batch,     \* the local queue drain_tasks swapped _tasks into
  loop,      \* the loop thread: "idle" (in ev_run), "draining", "stopped"
  stopping,  \* ~MQClient has signalled _async_watcher
  wire,      \* tasks whose _channel->publish answered true, in order
  dropped,   \* messages given up after the last retry
  entered    \* history: the messages in the order publish() queued them

vars == <<pc, tasks, wakeup, batch, loop, stopping, wire, dropped, entered>>

Task == [msg : Msg, retry : 0 .. MaxRetry]

MsgsIn(s) == {s[i].msg : i \in DOMAIN s}
Entered == {entered[i] : i \in DOMAIN entered}

TypeOK ==
  /\ pc \in [Publisher -> {"idle", "signal"}]
  /\ tasks \in Seq(Task)
  /\ wakeup \in BOOLEAN
  /\ batch \in Seq(Task)
  /\ loop \in {"idle", "draining", "stopped"}
  /\ stopping \in BOOLEAN
  /\ wire \in Seq(Task)
  /\ dropped \subseteq Msg
  /\ entered \in Seq(Msg)

Init ==
  /\ pc = [p \in Publisher |-> "idle"]
  /\ tasks = << >>
  /\ wakeup = FALSE
  /\ batch = << >>
  /\ loop = "idle"
  /\ stopping = FALSE
  /\ wire = << >>
  /\ dropped = {}
  /\ entered = << >>

-------------------------------------------------------------------------------
(* Mutants: each is a plausible slip in the definition that follows it.     *)

\* publish() returns after queueing, without ev_async_send.
EnqueueNoSignal(p, m) ==
  /\ pc[p] = "idle"
  /\ ~stopping
  /\ m \notin Entered
  /\ tasks' = Append(tasks, [msg |-> m, retry |-> 0])
  /\ entered' = Append(entered, m)
  /\ UNCHANGED <<pc, wakeup, batch, loop, stopping, wire, dropped>>

\* The tasks are copied instead of swapped out.
DrainCopies ==
  /\ loop = "idle"
  /\ wakeup
  /\ wakeup' = FALSE
  /\ batch' = tasks
  /\ loop' = "draining"
  /\ UNCHANGED <<pc, tasks, stopping, wire, dropped, entered>>

\* The wake-up is only consumed when the callback returns.
FinishClearsWakeup ==
  /\ loop = "draining"
  /\ batch = << >>
  /\ loop' = "idle"
  /\ wakeup' = FALSE
  /\ UNCHANGED <<pc, tasks, batch, stopping, wire, dropped, entered>>

\* task.retry++ is forgotten: the task goes back as if it were new.
FailTaskNoCount(t) ==
  /\ tasks' = Append(tasks, t)
  /\ UNCHANGED dropped

\* The else branch is lost: the last failure reports a drop and still requeues.
FailTaskNoElse(t) ==
  /\ tasks' = Append(tasks, [t EXCEPT !.retry = IF @ < MaxRetry THEN @ + 1 ELSE @])
  /\ dropped' = IF t.retry = MaxRetry THEN dropped \cup {t.msg} ELSE dropped

-------------------------------------------------------------------------------
(* MQClient::publish                                                        *)

Enqueue(p, m) ==
  /\ pc[p] = "idle"
  /\ ~stopping
  /\ m \notin Entered
  /\ pc' = [pc EXCEPT ![p] = "signal"]
  /\ tasks' = Append(tasks, [msg |-> m, retry |-> 0])
  /\ entered' = Append(entered, m)
  /\ UNCHANGED <<wakeup, batch, loop, stopping, wire, dropped>>

Signal(p) ==
  /\ pc[p] = "signal"
  /\ pc' = [pc EXCEPT ![p] = "idle"]
  /\ wakeup' = TRUE
  /\ UNCHANGED <<tasks, batch, loop, stopping, wire, dropped, entered>>

-------------------------------------------------------------------------------
(* wakeup_cb and drain_tasks, on the loop thread                            *)

\* libev clears the watcher's flag, then calls wakeup_cb, which swaps _tasks.
Drain ==
  /\ loop = "idle"
  /\ wakeup
  /\ wakeup' = FALSE
  /\ batch' = tasks
  /\ tasks' = << >>
  /\ loop' = "draining"
  /\ UNCHANGED <<pc, stopping, wire, dropped, entered>>

\* What drain_tasks does with a task that returned false or threw.
FailTask(t) ==
  IF t.retry + 1 <= MaxRetry
  THEN /\ tasks' = Append(tasks, [t EXCEPT !.retry = @ + 1])
       /\ UNCHANGED dropped
  ELSE /\ dropped' = dropped \cup {t.msg}
       /\ UNCHANGED tasks

\* One turn of the while loop; the channel may take the frame or refuse it.
RunTask ==
  /\ loop = "draining"
  /\ batch # << >>
  /\ batch' = Tail(batch)
  /\ \/ /\ wire' = Append(wire, Head(batch))
        /\ UNCHANGED <<tasks, dropped>>
     \/ /\ FailTask(Head(batch))
        /\ UNCHANGED wire
  /\ UNCHANGED <<pc, wakeup, loop, stopping, entered>>

Finish ==
  /\ loop = "draining"
  /\ batch = << >>
  /\ loop' = "idle"
  /\ UNCHANGED <<pc, tasks, wakeup, batch, stopping, wire, dropped, entered>>

-------------------------------------------------------------------------------
(* ~MQClient: the owner destroys the client once no thread publishes any    *)
(* more; the stop watcher breaks the loop after the pending callbacks.      *)

Destroy ==
  /\ ~stopping
  /\ \A p \in Publisher : pc[p] = "idle"
  /\ stopping' = TRUE
  /\ UNCHANGED <<pc, tasks, wakeup, batch, loop, wire, dropped, entered>>

Break ==
  /\ stopping
  /\ loop = "idle"
  /\ ~wakeup
  /\ loop' = "stopped"
  /\ UNCHANGED <<pc, tasks, wakeup, batch, stopping, wire, dropped, entered>>

Loop == Drain \/ RunTask \/ Finish \/ Break

Next ==
  \/ \E p \in Publisher, m \in Msg : Enqueue(p, m)
  \/ \E p \in Publisher : Signal(p)
  \/ Destroy
  \/ Loop

\* A thread that pushed a task goes on to signal; the loop thread keeps running.
\* Nobody owes another publish() and nobody owes the destructor.
Fairness == /\ \A p \in Publisher : WF_vars(Signal(p))
            /\ WF_vars(Loop)

Spec == Init /\ [][Next]_vars /\ Fairness

-------------------------------------------------------------------------------
(* Properties                                                               *)

Fresh(s) == \E i \in DOMAIN s : s[i].retry = 0

\* A task nobody has run yet always has a wake-up on its way, whichever way
\* publish() interleaves with the swap in drain_tasks: no lost wake-up, and a
\* client that is destroyed never leaves an untried message behind.
NoLostWakeup ==
  Fresh(tasks) => wakeup \/ \E p \in Publisher : pc[p] = "signal"

\* The tasks on the wire, in the batch and in _tasks, as they leave.
Held == wire \o batch \o tasks

\* Every message publish() accepted is in exactly one place, once: waiting in
\* _tasks or in the batch, on the wire, or given up.
Conserved ==
  /\ \A i, j \in DOMAIN Held : Held[i].msg = Held[j].msg => i = j
  /\ MsgsIn(Held) \cap dropped = {}
  /\ MsgsIn(Held) \cup dropped = Entered

EntryOrder(m) == CHOOSE i \in DOMAIN entered : entered[i] = m

\* Messages leave in the order publish() queued them, except that a message may
\* be overtaken once its own first attempt has failed.
OvertakenOnlyByRetry ==
  \A i, j \in DOMAIN wire :
    /\ i < j
    /\ EntryOrder(wire[j].msg) < EntryOrder(wire[i].msg)
    => wire[j].retry > 0

Untried(m) == \E i \in DOMAIN (tasks \o batch) : (tasks \o batch)[i] = [msg |-> m, retry |-> 0]

\* Every accepted message is tried: it does not stay untried for ever.
EventuallyTried == \A m \in Msg : Untried(m) ~> ~Untried(m)

-------------------------------------------------------------------------------
\* Refinement: the queue, the batch, the wire and the drops are one status.
StatusOf(m) ==
  CASE m \in MsgsIn(wire) -> "sent"
    [] m \in dropped -> "dropped"
    [] m \in MsgsIn(tasks \o batch) -> "queued"
    [] OTHER -> "new"

Ledger == INSTANCE Outbox WITH status <- [m \in Msg |-> StatusOf(m)]

\* The client implements the promise of Outbox: no message is sent twice, sent
\* after it was given up, or back in the queue once it has left.
ImplementsOutbox == Ledger!Spec
===============================================================================

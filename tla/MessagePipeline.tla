---------------------------- MODULE MessagePipeline ----------------------------
(***************************************************************************)
(* A chat message from GetTransmitTarget to its two stores.                *)
(*                                                                         *)
(* Transmite publishes "0|<MessageInfo>" to the topic exchange; RabbitMQ   *)
(* copies it to the queue of the Message service (binding msg.#) and, for  *)
(* a text, to the queue of the ES store (binding msg.text).  Each consumer *)
(* runs MQClient::consume: the callback stores the payload, and its answer *)
(* decides: ack; or publish the body again with retry_count + 1 and ack;   *)
(* or ack and forget.  The second publish goes to the shared exchange with *)
(* the consumer's own binding key, so a retry of the ES store also reaches *)
(* the Message service.  Publishing and acking are two frames: a consumer  *)
(* that dies in between leaves the broker with both copies.  The result of *)
(* the second publish is not looked at: when it fails the old copy is      *)
(* acked anyway.  And nothing reconnects: a consumer whose connection or   *)
(* channel is lost stays up, deaf, until somebody restarts its process.    *)
(***************************************************************************)
EXTENDS Naturals, FiniteSets

CONSTANTS
  Message,    \* the messages users send, each with its own message_id
  Text,       \* the messages of type STRING; the others carry a file
  MaxRedo,    \* "retry_count > 5" in consume: 5 in the code
  MaxCrash    \* bound: how often a consumer dies or loses its connection, in all

ASSUME PipelineConstants ==
  /\ Text \subseteq Message
  /\ MaxRedo \in Nat
  /\ MaxCrash \in Nat

VARIABLES
  status,     \* Transmite's MQClient, as its callers see it (module Outbox)
  refused,    \* messages the broker answered with a nack
  queue,      \* queue[q][c]: how many copies c wait in the durable queue q
  work,       \* work[q]: the delivery the callback of consumer q is at
  deaf,       \* the consumers whose connection or channel is lost
  rows,       \* messages with a row in the MySQL table Message
  index,      \* texts with a document in the ES index
  blobs,      \* blobs[m]: files uploaded for m to the File service
  attempts,   \* history: inserts tried for m
  unsaved,    \* history: messages one of whose uploads reported a failure
  unheard,    \* history: unheard[q]: messages q acked after a retry it failed to publish
  crashes     \* history: deaths and lost connections of consumers so far

pipelineVars ==
  <<status, refused, queue, work, deaf, rows, index, blobs, attempts, unsaved, unheard,
    crashes>>

Out == INSTANCE Outbox WITH Msg <- Message

Queue == {"mysql", "es"}
Copy == [msg : Message, retry : 0 .. MaxRedo]
Step == {"called", "uploaded", "success", "retry", "fatal", "ack", "unheard"}
Idle == [step |-> "idle"]

PipelineTypeOK ==
  /\ status \in [Message -> Out!Status]
  /\ refused \subseteq Message
  /\ queue \in [Queue -> [Copy -> Nat]]
  /\ work \in [Queue -> {Idle} \cup [copy : Copy, step : Step]]
  /\ deaf \subseteq Queue
  /\ rows \subseteq Message
  /\ index \subseteq Text
  /\ blobs \in [Message -> Nat]
  /\ attempts \in [Message -> Nat]
  /\ unsaved \subseteq Message
  /\ unheard \in [Queue -> SUBSET Message]
  /\ crashes \in 0 .. MaxCrash

PipelineInit ==
  /\ Out!Init
  /\ refused = {}
  /\ queue = [q \in Queue |-> [c \in Copy |-> 0]]
  /\ work = [q \in Queue |-> Idle]
  /\ deaf = {}
  /\ rows = {}
  /\ index = {}
  /\ blobs = [m \in Message |-> 0]
  /\ attempts = [m \in Message |-> 0]
  /\ unsaved = {}
  /\ unheard = [q \in Queue |-> {}]
  /\ crashes = 0

\* The queues a publish reaches: Transmite's key names the type of the message
\* (msg.text, msg.image, msg.file, msg.unknown); the key of a retry is the
\* binding key of the consumer that retries, and "msg.#" matches only msg.#.
FirstTargets(m) == IF m \in Text THEN Queue ELSE {"mysql"}
RetryTargets(q) == IF q = "es" THEN Queue ELSE {"mysql"}

\* The topic exchange puts one copy of c in each of the queues qs.
Route(c, qs) ==
  queue' = [q \in Queue |-> IF q \in qs THEN [queue[q] EXCEPT ![c] = @ + 1] ELSE queue[q]]

At(q, s) == work[q] # Idle /\ work[q].step = s
Goto(q, s) == work' = [work EXCEPT ![q].step = s]

-------------------------------------------------------------------------------
(* Transmite: publish, and the AMQP frame                                    *)

\* MQClient::publish answers true: GetTransmitTarget answers success.
Accept(m) ==
  /\ Out!Accept(m)
  /\ UNCHANGED <<refused, queue, work, deaf, rows, index, blobs, attempts, unsaved,
                 unheard, crashes>>

\* The frame leaves.  The broker stores the message in every bound queue, or
\* answers with a nack, and onNack only logs it.
Transmit(m) ==
  /\ Out!Send(m)
  /\ \/ /\ Route([msg |-> m, retry |-> 0], FirstTargets(m))
        /\ UNCHANGED refused
     \/ /\ refused' = refused \cup {m}
        /\ UNCHANGED queue
  /\ UNCHANGED <<work, deaf, rows, index, blobs, attempts, unsaved, unheard, crashes>>

\* The task's retries are spent, or Transmite dies with the task in memory.
Abandon(m) ==
  /\ Out!Drop(m)
  /\ UNCHANGED <<refused, queue, work, deaf, rows, index, blobs, attempts, unsaved,
                 unheard, crashes>>

-------------------------------------------------------------------------------
(* Mutants of the definitions below                                          *)

\* The row is inserted before the file is uploaded.
InsertFirst ==
  LET m == work["mysql"].copy.msg
  IN  /\ At("mysql", "called")
      /\ m \notin rows
      /\ rows' = rows \cup {m}
      /\ attempts' = [attempts EXCEPT ![m] = @ + 1]
      /\ Goto("mysql", IF m \in Text THEN "success" ELSE "uploaded")
      /\ UNCHANGED <<status, refused, queue, deaf, index, blobs, unsaved, unheard, crashes>>

\* The retry is published with the count it came with.
RepublishSameCount(q) ==
  /\ At(q, "retry")
  /\ Route(work[q].copy, RetryTargets(q))
  /\ Goto(q, "ack")
  /\ UNCHANGED <<status, refused, deaf, rows, index, blobs, attempts, unsaved, unheard,
                 crashes>>

\* The delivery is acknowledged before the retry is published.
RepublishAfterAck(q) ==
  /\ At(q, "retry")
  /\ work' = [work EXCEPT ![q] = Idle]
  /\ UNCHANGED <<status, refused, queue, deaf, rows, index, blobs, attempts, unsaved,
                 unheard, crashes>>

\* The budget is checked after the publish: the last copy comes back once more.
RepublishOverBudget(q) ==
  /\ At(q, "retry")
  /\ Route([work[q].copy EXCEPT !.retry = IF @ < MaxRedo THEN @ + 1 ELSE @], RetryTargets(q))
  /\ Goto(q, "ack")
  /\ UNCHANGED <<status, refused, deaf, rows, index, blobs, attempts, unsaved, unheard,
                 crashes>>

\* A retry of the ES store goes round in its own queue with the count it came with.
RepublishRound(q) ==
  /\ At(q, "retry")
  /\ work[q].copy.retry < MaxRedo
  /\ Route([work[q].copy EXCEPT !.retry = IF q = "es" THEN @ ELSE @ + 1], {q})
  /\ Goto(q, "ack")
  /\ UNCHANGED <<status, refused, deaf, rows, index, blobs, attempts, unsaved, unheard,
                 crashes>>

-------------------------------------------------------------------------------
(* MQClient::consume, the same code in both consumers                        *)

Deliver(q) ==
  /\ work[q] = Idle
  /\ q \notin deaf
  /\ \E c \in Copy :
       /\ queue[q][c] > 0
       /\ queue' = [queue EXCEPT ![q][c] = @ - 1]
       /\ work' = [work EXCEPT ![q] = [copy |-> c, step |-> "called"]]
  /\ UNCHANGED <<status, refused, deaf, rows, index, blobs, attempts, unsaved, unheard,
                 crashes>>

\* retry_count++; while the budget lasts, a new body is published.  The broker may
\* refuse it, and without a connection it goes nowhere: nobody looks ...
Republish(q) ==
  /\ At(q, "retry")
  /\ work[q].copy.retry + 1 <= MaxRedo
  /\ \/ /\ q \notin deaf
        /\ Route([work[q].copy EXCEPT !.retry = @ + 1], RetryTargets(q))
        /\ Goto(q, "ack")
     \/ /\ Goto(q, "unheard")
        /\ UNCHANGED queue
  /\ UNCHANGED <<status, refused, deaf, rows, index, blobs, attempts, unsaved, unheard,
                 crashes>>

\* ... and the old one is acknowledged; a success, a fatal error and a spent budget
\* are only acknowledged.  The ack of a deaf consumer reaches nobody.
Ack(q) ==
  /\ work[q] # Idle
  /\ \/ work[q].step \in {"success", "fatal", "ack", "unheard"}
     \/ work[q].step = "retry" /\ work[q].copy.retry + 1 > MaxRedo
  /\ work' = [work EXCEPT ![q] = Idle]
  /\ unheard' = IF At(q, "unheard") /\ q \notin deaf
                THEN [unheard EXCEPT ![q] = @ \cup {work[q].copy.msg}]
                ELSE unheard
  /\ UNCHANGED <<status, refused, queue, deaf, rows, index, blobs, attempts, unsaved,
                 crashes>>

\* The broker puts the delivery it has no ack for back in the queue, as it was.
Requeue(q) == queue' = [queue EXCEPT ![q][work[q].copy] = @ + 1]

\* The consumer's process dies, and docker starts it again.
Crash(q) ==
  /\ work[q] # Idle
  /\ q \notin deaf
  /\ crashes < MaxCrash
  /\ crashes' = crashes + 1
  /\ Requeue(q)
  /\ work' = [work EXCEPT ![q] = Idle]
  /\ UNCHANGED <<status, refused, deaf, rows, index, blobs, attempts, unsaved, unheard>>

\* The connection is lost, or the broker closes the channel: onError logs it.  The
\* process stays up and its callback goes on, but nothing subscribes again.
Disconnect(q) ==
  /\ q \notin deaf
  /\ crashes < MaxCrash
  /\ crashes' = crashes + 1
  /\ deaf' = deaf \cup {q}
  /\ IF work[q] # Idle THEN Requeue(q) ELSE UNCHANGED queue
  /\ UNCHANGED <<status, refused, work, rows, index, blobs, attempts, unsaved, unheard>>

\* Somebody restarts the deaf consumer, or it dies.
Restart(q) ==
  /\ q \in deaf
  /\ deaf' = deaf \ {q}
  /\ work' = [work EXCEPT ![q] = Idle]
  /\ UNCHANGED <<status, refused, queue, rows, index, blobs, attempts, unsaved, unheard,
                 crashes>>

-------------------------------------------------------------------------------
(* MessageServiceImpl::onMessage                                             *)

\* _PutFile for an image, a file or a voice message.  A call that fails is Fatal,
\* also when the File service stored the file and only the answer was lost.
Upload ==
  LET m == work["mysql"].copy.msg
  IN  /\ At("mysql", "called")
      /\ m \notin Text
      /\ \/ /\ blobs' = [blobs EXCEPT ![m] = @ + 1]
            /\ Goto("mysql", "uploaded")
            /\ UNCHANGED unsaved
         \/ /\ blobs' \in {blobs, [blobs EXCEPT ![m] = @ + 1]}
            /\ Goto("mysql", "fatal")
            /\ unsaved' = unsaved \cup {m}
      /\ UNCHANGED <<status, refused, queue, deaf, rows, index, attempts, unheard, crashes>>

\* MessageTable::insert under the unique key on message_id.  A failed call may
\* have committed; an existing row makes it fail.
Insert ==
  LET m == work["mysql"].copy.msg
  IN  /\ At("mysql", IF m \in Text THEN "called" ELSE "uploaded")
      /\ attempts' = [attempts EXCEPT ![m] = @ + 1]
      /\ \/ /\ m \notin rows
            /\ rows' = rows \cup {m}
            /\ Goto("mysql", "success")
         \/ /\ rows' \in {rows, rows \cup {m}}
            /\ Goto("mysql", "retry")
      /\ UNCHANGED <<status, refused, queue, deaf, index, blobs, unsaved, unheard, crashes>>

-------------------------------------------------------------------------------
(* EsStoreServer::onMessage: the document id is the message id, so writing   *)
(* it again changes nothing.  Only texts reach this queue.                   *)

AppendData ==
  LET m == work["es"].copy.msg
  IN  /\ At("es", "called")
      /\ \/ /\ index' = index \cup {m}
            /\ Goto("es", "success")
         \/ /\ index' \in {index, index \cup {m}}
            /\ Goto("es", "retry")
      /\ UNCHANGED <<status, refused, queue, deaf, rows, blobs, attempts, unsaved,
                     unheard, crashes>>

-------------------------------------------------------------------------------
Consumer(q) ==
  \/ Deliver(q) \/ Republish(q) \/ Ack(q)
  \/ q = "mysql" /\ (Upload \/ Insert)
  \/ q = "es" /\ AppendData

PipelineNext ==
  \/ \E m \in Message : Accept(m) \/ Transmit(m) \/ Abandon(m)
  \/ \E q \in Queue : Consumer(q) \/ Crash(q) \/ Disconnect(q) \/ Restart(q)

\* A consumer takes its next step while it can: the loop thread of a living process
\* does, and docker starts a dead one.  Nobody owes the Restart of a deaf one, users
\* owe no message, and the publisher side is the subject of MQClient.
PipelineFairness == \A q \in Queue : WF_pipelineVars(Consumer(q))

PipelineSpec == PipelineInit /\ [][PipelineNext]_pipelineVars /\ PipelineFairness

-------------------------------------------------------------------------------
(* Properties                                                                *)

Delivered(m) == status[m] = "sent" /\ m \notin refused

\* A copy of m that a consumer of q still has to finish.
Pending(q, m) ==
  \/ \E r \in 0 .. MaxRedo : queue[q][[msg |-> m, retry |-> r]] > 0
  \/ work[q] # Idle /\ work[q].copy.msg = m

\* The Message service is through with m and m has no row.
Lost(m) == Delivered(m) /\ m \notin rows /\ ~Pending("mysql", m)

\* A message the broker took is lost only after every try of the budget, 1 + 5
\* inserts, has failed, or after an upload to the File service failed, or because
\* its retry was not published and the old copy acknowledged anyway: no crash, lost
\* connection, redelivery or order of the two consumers' retries loses it.
LossExplained ==
  \A m \in Message : Lost(m) => attempts[m] > MaxRedo \/ m \in unsaved \/ m \in unheard["mysql"]

\* The same for the search index: a text the broker took is in the index, still
\* pending there, or given up.  As a step: the ES queue only lets go of what it has
\* indexed, of a last try, and of what it failed to publish again.
IndexedBeforeForgotten ==
  [][\A m \in Text : Pending("es", m) /\ ~Pending("es", m)'
       => \/ m \in index
          \/ At("es", "retry") /\ work["es"].copy.retry = MaxRedo
          \/ At("es", "unheard")]_pipelineVars

\* A file message in the history has its file in the File service, whatever
\* failed or was repeated on the way.
RowHasFile == \A m \in rows \ Text : blobs[m] > 0

\* The retries of the ES store land in the queue of the Message service too, with the
\* count they have reached.  While no consumer has died or been cut off, a text is
\* inserted at most 1 + 2 + ... + (MaxRedo + 1) times (21 in the code), a file
\* MaxRedo + 1 times.
StormBound(m) ==
  IF m \in Text THEN ((MaxRedo + 1) * (MaxRedo + 2)) \div 2 ELSE MaxRedo + 1
RetryStormBounded == crashes = 0 => \A m \in Message : attempts[m] <= StormBound(m)

\* Copies do not circulate between the queues for ever: in the end every queue is
\* empty and its consumer idle, but for one that lost its connection for good.
QueuesDrain == \A q \in Queue, m \in Message : <>[](q \in deaf \/ ~Pending(q, m))

-------------------------------------------------------------------------------
\* Refinement.  m can still get a row while the Message service has a copy, or
\* while the ES store has one it may publish again.
Recoverable(m) ==
  \/ Pending("mysql", m)
  \/ \E r \in 0 .. MaxRedo - 1 : queue["es"][[msg |-> m, retry |-> r]] > 0
  \/ work["es"] # Idle /\ work["es"].copy.msg = m /\ work["es"].copy.retry < MaxRedo

FateOf(m) ==
  IF status[m] = "new" THEN "none"
  ELSE IF m \in rows THEN "stored"
  ELSE IF status[m] = "queued" \/ Recoverable(m) THEN "accepted"
  ELSE "lost"

Store == INSTANCE MessageStore WITH Msg <- Message, fate <- [m \in Message |-> FateOf(m)]

\* The pipeline implements MessageStore: an accepted message is stored, once and
\* for good, or lost, and a lost message never turns up later.
ImplementsStore == Store!Spec
================================================================================

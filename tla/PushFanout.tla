------------------------------- MODULE PushFanout -------------------------------
(***************************************************************************)
(* A chat message on its way to the screens of its receivers: NewMessage   *)
(* of the gateway publishes "<sender>\n<GetTransmitTargetRsp>" to          *)
(* push_exchange; every gateway has a durable queue of its own bound to    *)
(* push.notify, consumes it on the loop thread of its MQClient and sends   *)
(* the message to those targets whose connection it holds.                 *)
(*                                                                         *)
(* MQClient::consume takes what stands before the first '|' of a body for  *)
(* a retry count.  A push has no retry count, so only the sender and the   *)
(* serialized message decide whether there is a '|' and what precedes it.  *)
(***************************************************************************)
EXTENDS Naturals, Sequences

CONSTANTS
  User,
  Gateway,
  Msg,        \* accepted chat messages
  SenderOf,   \* SenderOf[m]
  TargetsOf,  \* TargetsOf[m]: target_id_list, the members of the chat
  Bar,        \* messages with a byte '|' (0x7C) somewhere in the body
  Digit,      \* users whose id begins with a decimal digit: stoi accepts it
  MaxCrash    \* bound: gateways that die by accident or lose the broker, in all

ASSUME PushConstants ==
  /\ SenderOf \in [Msg -> User]
  /\ TargetsOf \in [Msg -> SUBSET User]
  /\ Bar \subseteq Msg /\ Digit \subseteq User
  /\ MaxCrash \in Nat

VARIABLES
  status,     \* the push clients of the gateways, as module Outbox sees them
  taken,      \* history: the pushes in the order the broker took them
  queue,      \* queue[g]: push_queue_gw_<g>, unacknowledged deliveries included
  work,       \* work[g]: Idle, or the targets the callback has still to visit
  up,         \* gateways that run
  deaf,       \* gateways that run and have lost their connection to the broker
  online,     \* online[g]: users in the registry of g
  joined,      \* joined[g][u]: pushes g had begun when u connected, 0 without a connection
  got,        \* got[g][u]: messages g has sent to u's connections, in order
  crashes     \* history: accidental deaths and lost connections to the broker

clients == <<online, joined>>
pushVars == <<status, taken, queue, work, up, deaf, clients, got, crashes>>

Out == INSTANCE Outbox
Idle == [busy |-> FALSE]

PushTypeOK ==
  /\ status \in [Msg -> Out!Status]
  /\ taken \in Seq(Msg)
  /\ queue \in [Gateway -> Seq(Msg)]
  /\ work \in [Gateway -> {Idle} \cup [busy : {TRUE}, left : SUBSET User]]
  /\ up \subseteq Gateway
  /\ deaf \subseteq up
  /\ online \in [Gateway -> SUBSET User]
  /\ joined \in [Gateway -> [User -> Nat]]
  /\ got \in [Gateway -> [User -> Seq(Msg)]]
  /\ crashes \in 0 .. MaxCrash
  /\ \A g \in Gateway :
       /\ Len(queue[g]) <= Len(taken)
       /\ work[g] # Idle => g \in up /\ queue[g] # << >>
       /\ online[g] # {} => g \in up

PushInit ==
  /\ Out!Init
  /\ taken = << >>
  /\ queue = [g \in Gateway |-> << >>]
  /\ work = [g \in Gateway |-> Idle]
  /\ up = Gateway
  /\ deaf = {}
  /\ online = [g \in Gateway |-> {}]
  /\ joined = [g \in Gateway |-> [u \in User |-> 0]]
  /\ got = [g \in Gateway |-> [u \in User |-> << >>]]
  /\ crashes = 0

-------------------------------------------------------------------------------
(* The sender's side                                                         *)

\* NewMessage, after Transmit has answered with the targets: publish() on the push
\* client, and the HTTP answer.
NewMessage(m) ==
  /\ Out!Accept(m)
  /\ UNCHANGED <<taken, queue, work, up, deaf, clients, got, crashes>>

\* The frame reaches the broker, which copies it to the queue of every gateway.
Publish(m) ==
  /\ Out!Send(m)
  /\ taken' = Append(taken, m)
  /\ queue' = [g \in Gateway |-> Append(queue[g], m)]
  /\ UNCHANGED <<work, up, deaf, clients, got, crashes>>

\* The push client gives the task up, or dies with it.
Abandon(m) ==
  /\ Out!Drop(m)
  /\ UNCHANGED <<taken, queue, work, up, deaf, clients, got, crashes>>

-------------------------------------------------------------------------------
(* consume and the push callback of gateway g                                *)

Next1(g) == Head(queue[g])
Delivered(g) == g \in up \ deaf /\ work[g] = Idle /\ queue[g] # << >>
Down(g) ==
  /\ up' = up \ {g}
  /\ deaf' = deaf \ {g}
  /\ online' = [online EXCEPT ![g] = {}]
  /\ joined' = [joined EXCEPT ![g] = [u \in User |-> 0]]
  /\ work' = [work EXCEPT ![g] = Idle]

\* The callback gets the whole body and walks through target_id_list.
Receive(g) ==
  /\ Delivered(g)
  /\ Next1(g) \notin Bar
  /\ work' = [work EXCEPT ![g] = [busy |-> TRUE, left |-> TargetsOf[Next1(g)]]]
  /\ UNCHANGED <<status, taken, queue, up, deaf, clients, got, crashes>>

\* The sender's id passes for a retry count and the callback gets what stands behind
\* the '|'.  It answers Fatal, and the push is acknowledged; should the rest happen to
\* parse, whom it would be pushed to is left out, as the rest is not the message.
ReceiveCut(g) ==
  /\ Delivered(g)
  /\ Next1(g) \in Bar /\ SenderOf[Next1(g)] \in Digit
  /\ queue' = [queue EXCEPT ![g] = Tail(@)]
  /\ UNCHANGED <<status, taken, work, up, deaf, clients, got, crashes>>

\* stoi throws; nothing on the loop thread catches it, and the process ends with
\* the delivery unacknowledged.
ReceiveThrows(g) ==
  /\ Delivered(g)
  /\ Next1(g) \in Bar /\ SenderOf[Next1(g)] \notin Digit
  /\ Down(g)
  /\ UNCHANGED <<status, taken, queue, got, crashes>>

\* Mutant: the walk stops at the first target that is passed over.
PushStops(g) ==
  /\ work[g] # Idle
  /\ \E u \in work[g].left :
       IF u # SenderOf[Next1(g)] /\ u \in online[g]
       THEN /\ work' = [work EXCEPT ![g].left = @ \ {u}]
            /\ got' = [got EXCEPT ![g][u] = Append(@, Next1(g))]
       ELSE /\ work' = [work EXCEPT ![g].left = {}]
            /\ UNCHANGED got
  /\ UNCHANGED <<status, taken, queue, up, deaf, clients, crashes>>

\* One target of the list: the sender and users without a connection here are
\* passed over.
Push(g) ==
  /\ work[g] # Idle
  /\ \E u \in work[g].left :
       /\ work' = [work EXCEPT ![g].left = @ \ {u}]
       /\ got' = IF u # SenderOf[Next1(g)] /\ u \in online[g]
                 THEN [got EXCEPT ![g][u] = Append(@, Next1(g))]
                 ELSE got
  /\ UNCHANGED <<status, taken, queue, up, deaf, clients, crashes>>

\* Mutant: the delivery is not acknowledged, and comes again.
AckNot(g) ==
  /\ work[g] # Idle /\ work[g].left = {}
  /\ work' = [work EXCEPT ![g] = Idle]
  /\ UNCHANGED <<status, taken, queue, up, deaf, clients, got, crashes>>

\* Success: the delivery is acknowledged, which does nothing on a channel that is lost.
Ack(g) ==
  /\ work[g] # Idle /\ work[g].left = {}
  /\ queue' = IF g \in deaf THEN queue ELSE [queue EXCEPT ![g] = Tail(@)]
  /\ work' = [work EXCEPT ![g] = Idle]
  /\ UNCHANGED <<status, taken, up, deaf, clients, got, crashes>>

-------------------------------------------------------------------------------
(* The processes and the clients                                             *)

\* A gateway dies; if it has been deaf, that has been counted already.
Crash(g) ==
  /\ g \in up
  /\ IF g \in deaf THEN UNCHANGED crashes
                  ELSE crashes < MaxCrash /\ crashes' = crashes + 1
  /\ Down(g)
  /\ UNCHANGED <<status, taken, queue, got>>

\* docker starts the gateway again; its queue is durable.
Restart(g) ==
  /\ g \notin up
  /\ up' = up \cup {g}
  /\ UNCHANGED <<status, taken, queue, work, deaf, clients, got, crashes>>

\* The AMQP connection is lost.  The broker takes the delivery back, a callback that
\* runs goes on, and nothing connects again while the process lives.
Disconnect(g) ==
  /\ g \in up \ deaf /\ crashes < MaxCrash
  /\ deaf' = deaf \cup {g}
  /\ crashes' = crashes + 1
  /\ UNCHANGED <<status, taken, queue, work, up, clients, got>>

\* Pushes that g has taken from its queue, and those it has begun to walk through.
Done(g) == Len(taken) - Len(queue[g])
Begun(g) == IF work[g] = Idle THEN Done(g) ELSE Done(g) + 1

\* A client of u authenticates at g: Connection::insert.
Connect(g, u) ==
  /\ g \in up /\ u \notin online[g]
  /\ online' = [online EXCEPT ![g] = @ \cup {u}]
  /\ joined' = [joined EXCEPT ![g][u] = Begun(g)]
  /\ UNCHANGED <<status, taken, queue, work, up, deaf, got, crashes>>

\* The client goes: onClose, Connection::remove.
Close(g, u) ==
  /\ u \in online[g]
  /\ online' = [online EXCEPT ![g] = @ \ {u}]
  /\ joined' = [joined EXCEPT ![g][u] = 0]
  /\ UNCHANGED <<status, taken, queue, work, up, deaf, got, crashes>>

Consumer(g) ==
  Receive(g) \/ ReceiveCut(g) \/ ReceiveThrows(g) \/ Push(g) \/ Ack(g) \/ Restart(g)

PushNext ==
  \/ \E m \in Msg : NewMessage(m) \/ Publish(m) \/ Abandon(m)
  \/ \E g \in Gateway : Consumer(g) \/ Crash(g) \/ Disconnect(g)
  \/ \E g \in Gateway, u \in User : Connect(g, u) \/ Close(g, u)

\* The loop thread of a gateway runs as long as it has its broker, and docker restarts
\* a gateway that died.  Nobody owes a message, a client or a connection to the broker.
PushFairness == \A g \in Gateway : WF_pushVars(Consumer(g))

PushSpec == PushInit /\ [][PushNext]_pushVars /\ PushFairness

-------------------------------------------------------------------------------
(* Properties                                                                *)

Receivers(m) == TargetsOf[m] \ {SenderOf[m]}
PushedTo(g, u) == {got[g][u][i] : i \in DOMAIN got[g][u]}
Place(m) == CHOOSE i \in DOMAIN taken : taken[i] = m

\* From one gateway a user sees the messages in the order the broker took them, over
\* all of his connections.  A gateway that dies or loses the broker may repeat the
\* message it was working on, and no other, once each time.
PushesInOrder ==
  \A g \in Gateway, u \in User :
    /\ \A i, j \in DOMAIN got[g][u] : i < j => Place(got[g][u][i]) <= Place(got[g][u][j])
    /\ Len(got[g][u]) <= Len(taken) + crashes

\* A user who stays connected to a gateway misses no push without a '|' that it has
\* acknowledged since he came, whoever else comes, goes or is passed over, and
\* whatever deaths and redeliveries there have been before.
NoneSkipped ==
  \A g \in Gateway : \A u \in online[g] : \A i \in joined[g][u] + 1 .. Done(g) :
    taken[i] \notin Bar /\ u \in Receivers(taken[i]) => taken[i] \in PushedTo(g, u)

\* Push m waits at g for u, who is connected there.
Waits(m, g, u) ==
  /\ u \in online[g] /\ m \notin Bar
  /\ \E i \in Begun(g) + 1 .. Len(taken) : taken[i] = m

\* What waits for a user who stays connected reaches him, unless his gateway loses
\* the broker or dies and so disconnects him.
PushArrives ==
  \A g \in Gateway, m \in Msg : \A u \in Receivers(m) :
    Waits(m, g, u) ~> m \in PushedTo(g, u) \/ u \notin online[g] \/ g \in deaf
===============================================================================

# chat_system: a TLA+ verification project

This directory holds TLA+ models of the chat system in `src/`, the TLC runs that
check them on small instances, and TLAPS proofs of the results that do not depend
on the size of the instance. Everything is translated from the source; where the
source leaves a choice (what the network, MySQL, Redis, RabbitMQ or the operating
system do) the model is nondeterministic.

- [1. The system](#1-the-system)
- [2. Modules](#2-modules)
- [3. Runs](#3-runs)
- [4. Proofs](#4-proofs)
- [5. Fairness](#5-fairness)
- [6. Bounds and simplifications](#6-bounds-and-simplifications)
- [7. Known behaviours](#7-known-behaviours)
- [8. What is not modelled, and the plan](#8-what-is-not-modelled-and-the-plan)

## 1. The system

A set of brpc services behind HTTP/websocket gateways, with MySQL, Redis,
Elasticsearch, RabbitMQ and etcd underneath, and a Python agent that watches them.

```
 client --HTTP/ws--> Gateway --brpc--> User, Friend, Message, File, Speech, Transmite
                        |                         |                      |
                        |  push.notify            | MySQL, Redis, ES     | SessionMemberCache
                        v                         v                      v
                     RabbitMQ  <----- msg.text / msg.image / ... ----- MQClient
                        |
                        +--> Message service (MySQL Message, File service)
                        +--> ES store (search index)
                        +--> one push queue per gateway --> websocket of each receiver
```

| component | state | operations | interacts with |
|---|---|---|---|
| RabbitMQ client, `common/rabbitmq.hpp` | `_tasks` under a mutex, the loop thread's local queue, the libev watchers | `publish`, `drain_tasks`, `consume` with retries, destructor | all publishers and consumers, by callbacks on the loop thread |
| Message ids, `common/snowflake.hpp` | `last_time_`, `seq_` under a mutex | `next_id` | the system clock; Transmite |
| Transmite, `transmite/` | its member cache and id generator | `GetTransmitTarget`: id, members, publish | User, MQClient, SessionMemberCache |
| Session member cache, `common/session_member_cache.hpp` | L1 map (no lock), Redis key, shard mutexes | `get` | Redis, MySQL; the Friend service deletes the key |
| Message service, `message/` | MySQL `Message` | `onMessage` (consumer), history queries | File service, MQClient |
| ES store, `es_store/` | the ES index | `onMessage` (consumer) | MQClient |
| Friend service, `friend/` | tables `relation`, `friend_apply`, `chat_session`, `chat_session_member` | add, agree/refuse, remove, create chat, remove member, lists | MySQL, Redis |
| User service, `user/` | table `user`, ES, Redis sessions, marks and codes | register, log in, codes, setters | MySQL, ES, Redis |
| Gateway, `gateway/` | `Connection` registry, websocket timers | about forty HTTP handlers, `onMessage`, `onClose`, the push consumer | all services, Redis, RabbitMQ |
| File, Speech | files on disk; none | put/get; recognize | - |
| Service discovery, `common/etcd.hpp`, `common/brpc.hpp` | etcd leases, the channel lists | register, watch, choose | every caller |
| User info cache, `common/user_info_cache.hpp` | L1, Redis | `get` | User |
| Agent, `agent_service/agent/core`, `.../monitor` | last snapshots, `Planner.state` and `unhandled` | poll, publish, match rules, ask the model, restart | the other services' ports, Redis, MySQL, a language model |
| Agent, `agent_service/ops` | incidents, approvals, reports | request, approve, report | a scripted demo only |

**What is hard in this code.** Threads that share a queue with an event loop
(MQClient); retries that are published under a key of the consumer and so reach
other consumers as well (pipeline); crashes between two frames, two Redis calls or
two transactions; a cache with three levels of which only one is invalidated; tables
without unique keys, so that concurrent handlers are kept apart by nothing; a
registry keyed by user while a user may have several connections; ids made from
a clock; a directory kept by events that may be lost or doubled; rows written back
whole by handlers that overlap, with a search index that follows them; and two
monitoring threads that run one planner at the same time.

**What makes each component correct**, in one line each: a published message is
tried, and is on exactly one of the queue, the wire and the drop list; ids are
unique; a message the broker took ends in the history, or there is a known reason why not;
somebody removed from a chat soon stops receiving; friendship is mutual and agreed
to; who is logged in once is reachable and nobody gets somebody else's messages;
who stays connected gets his pushes, in order; callers call who is registered and nobody else; names are
unique and what a user sets stays; messages show a recent profile; and a fault that
stays is reported.

## 2. Modules

| module | models | abstract spec | MC module | proofs |
|---|---|---|---|---|
| `MQClient` | `publish`, `wakeup_cb`, `drain_tasks`, `~MQClient` | implements `Outbox` | `MCMQClient` | `DeliveryProofs` |
| `Outbox` | what a caller of `publish` is promised | itself | - | - |
| `Snowflake` | `next_id`, restarts, clocks | - | `MCSnowflake` | `TransmiteProofs` |
| `MessagePipeline` | Transmite's publish, exchange and queues, `consume`, both `onMessage` | uses `Outbox`, implements `MessageStore` | `MCMessagePipeline` | `DeliveryProofs` |
| `MessageStore` | what users are promised of an accepted message | itself | - | - |
| `SessionMemberCache` | `SessionMemberCache::get`, the Friend service's removals | - | `MCSessionMemberCache` | `TransmiteProofs` |
| `FriendService` | all writing handlers of the Friend service | - | `MCFriendService` | `FriendServiceProofs` |
| `GatewaySession` | `UserLogin`, `Session`/`Status`, `Connection`, `onMessage`, `onClose` | - | `MCGatewaySession` | `GatewaySessionProofs` |
| `PushFanout` | `NewMessage`'s push, per-gateway queues, the push consumer | uses `Outbox` | `MCPushFanout` | `ReceiverProofs` |
| `ServiceDiscovery` | `Registry`, `Discovery`, `ServiceManager`, `ChannelManager` | - | `MCServiceDiscovery` | `ServiceDiscoveryProofs` |
| `UserProfile` | `UserRegister`, `PhoneRegister`, the four setters, MySQL and the ES index | - | `MCUserProfile` | `UserProfileProofs` |
| `UserInfoCache` | `UserInfoCache::get`, with profiles that change | - | `MCUserInfoCache` | `ReceiverProofs` |
| `AgentMonitor` | `AgentLoop`, the health and database agents, `EventBus`, `Planner`, restarts | - | `MCAgentMonitor` | `AgentMonitorProofs` |

Three proof modules are about two components each, which the life of a message puts side
by side: `TransmiteProofs` (its id and its receivers, both from `GetTransmitTarget`),
`DeliveryProofs` (from `publish()` to the stores) and `ReceiverProofs` (the sender a
receiver sees, and the push that tells him). A proof module extends its components, so
one of each pair writes out the names they would share: `CacheInit`, `CacheNext`,
`CacheSpec` and so on in `SessionMemberCache`, `Pipeline...` in `MessagePipeline` (whose
messages are `Message`, those of a client `Msg`), `Push...` in `PushFanout`.

### MQClient and Outbox
`tasks`, `batch` and `wakeup` are `_tasks`, the local queue of `drain_tasks` and the
sent flag of the libev async watcher. `publish()` is two steps, `Enqueue` (the push
under the mutex) and `Signal` (`ev_async_send`, after the unlock); the loop thread is
`Drain` (swap), `RunTask` (one turn of the loop, whose publish the channel may refuse),
`Finish`, and `Break` after `Destroy`. A failed task goes back with `retry + 1` or
is dropped (`FailTask`). `Outbox` has one `status` per message; the refinement reads
it off the queues. `MessagePipeline` and `PushFanout` use `Outbox` as their publisher,
so what they assume of it is what `MQClient` is shown to implement, plus the death of
the process as a `Drop`.

### Snowflake
`next_id` holds its mutex throughout, so a call is one step (`NextId`), or two when
the sequence wraps and it spins (`SpinExit`). Field widths are constants; an id is a
number made of the disjoint fields. Processes crash and restart with `last_time_ = 0`.

### MessagePipeline and MessageStore
A queue is a bag of copies with retry counts (RabbitMQ keeps no order that anything
here relies on once deliveries are put back). `Deliver`, the service's `onMessage` in
its parts (`Upload`, `Insert`; `AppendData`), `Republish` and `Ack` are the stages of
`consume`; `Crash` may come between any two and puts the delivery back. `RetryTargets`
is where the topology matters: the ES store republishes with its own key `msg.text`,
which the Message service's `msg.#` matches too. A failed insert or upload may have
taken effect. Nobody looks at the result of a retry's publish: it may fail, and the old copy
is acknowledged anyway (`unheard`). A consumer that loses its connection (`Disconnect`) goes
on with the delivery it has, which the broker puts back, and stays `deaf` until somebody
restarts its process (`Restart`): nothing in the code reconnects. `MessageStore` has one fate per message: none, accepted, then stored or
lost for good.

### SessionMemberCache
A worker walks through `get`: L1, Redis, shard mutex, Redis again, MySQL, Redis SET,
L1 store. Workers are threads of one or two Transmite processes (`proc`), which share
Redis and MySQL only. Time passes in seconds (`OneSecond`) and an entry holds what is left
of its life. The Friend service commits a removal and then deletes the key, unless it
dies first (`SkipDelete`). A query that throws while its rows are read returns those it has
read, and the cache keeps them like a full list (`Load`). `FriendRemove` dissolves a chat and does not touch the key.
L1 has no lock: two threads in it with one writing may take effect in some order or
kill the process (`Die`), as may an exception of the Redis client.

### FriendService
One step per transaction. `call[w]` says which handler a worker runs and which table
call comes next; `Transact` is a transaction that commits, or fails and makes the
handler answer with an error (having committed or not); `Exists` is a query, and a
query that fails looks like one that found nothing. The tables count rows, because
nothing prevents a second one. Requests name any two users, the caller himself as peer
included; `torn` is history: the pairs whose chat was dissolved or left by a request other
than a `FriendRemove` of the two. `FriendRemove` on a pair without a chat reads through a
null pointer: all handlers of the process end.

### GatewaySession
Redis (`session`, `status`) is shared; each gateway has a registry (`uidConn`,
`client`) and one websocket thread, whose current handler is `task[g]`. `UserLogin` is
its Redis calls, one step each, and a login may die between any two of them (`LoginDies`;
`stranded` is history: sessions stored without a mark, whose id nobody was sent). `onClose` is three steps (session, mark, registry);
`Connection::insert` leaves an existing entry alone, `remove` erases the user's entry
whatever connection it names. Clients may show any session id they have on any
connection, more than once; gateways die and leave Redis as it is.

### PushFanout
The broker copies a push to the queue of every gateway. `consume` cuts a body at the
first `|` and takes what stands before it for a retry count; a push has no retry count,
so a `|` in its bytes either makes the callback drop it (`ReceiveCut`: the sender id
begins with a digit) or makes `std::stoi` throw and the process end (`ReceiveThrows`).
Otherwise the callback visits the targets one by one, passes over those who are not
connected here, and the delivery is acknowledged. Clients come and go as they like
(`Connect`, `Close`), at any gateway; `joined` is history: how many pushes the gateway had
begun when the client came. A gateway may die, or lose the broker and stay up (`Disconnect`).

### ServiceDiscovery
One service, one caller. `binding` is what etcd holds for each key (several instances
may share one: `--instance_name` has the same default in every process), `kept` whether
the lease behind it is refreshed. The caller goes through `Ls` (the answers are handed
on one by one), `Watch` (events before it are missed) and then takes up events:
`Online` is `onServiceOnline` up to the call of `append`, which is two steps, `Push`
(`_channels.push_back` outside the lock) and `Name` (`_hosts[host] = channel`, which
takes the name from an older channel of the host); `Offline` removes the channel that
`_hosts` names and no other. `Choose` takes turns; it divides by zero when a manager
has no channels left, and it may read a vector that is being moved (`Torn`). A watch whose
stream breaks has ended for good: the caller goes on with the list it has (phase `"deaf"`,
`BadResponse`). `tainted`
is history: the instances with an event that was lost or that did not alternate.

### UserProfile
`rows` and `docs` are table and index. A handler looks (`CallRegister`, `Select`), may
upload (`Upload`), writes the whole row (`Persist`, `Update`, refused by a unique index
or a failure, or committed with the answer lost) and then writes the whole document
(`Append`). Handlers overlap step by step and may die. `outrun` and `adrift` are
history: who has been overtaken, and whose document is known to lag.

### UserInfoCache
Built like `SessionMemberCache`, with a profile instead of a list, three threads in two
processes, and without any invalidation (`invalidate` has no caller). A copy carries
its age, so that the bound on what is shown is a statement about every path through
the three levels.

### AgentMonitor
Each agent is a thread with its place in `run_loop` and, because the bus calls
subscribers in the publisher's thread, in `Planner.on_event`. `unhandled += 1` is a
load and a store (`Load`, `Add`), and so are the test and the reset separate steps.
Asking the model is a stretch (`llm`) in which it may kill a service and start it again
(`Kill`, `Start`), and which ends or raises (`Answered`). `now` is the world, `last` and
`new` what an agent has seen.

## 3. Runs

Passing runs (all finish in under three minutes with two workers):

| run | instance | properties |
|---|---|---|
| `mq_publish` | 3 messages, 2 publishers, 1 retry | `NoLostWakeup` a task nobody tried has a wake-up coming; `Conserved` each message is in one place once; `OvertakenOnlyByRetry`; `EventuallyTried`; `ImplementsOutbox` |
| `snowflake` | 2 processes, narrow fields, few milliseconds | `UniqueIds`; `IdsIncrease`; `SpinEnds` the mutex is not held for ever |
| `pipeline` | a text and a file, 1 retry, 1 crash or lost connection | `LossExplained` a lost message has failed its whole budget or its upload, or was acked after a retry nobody published; `RowHasFile`; `RetryStormBounded` at most 1 + 2 + ... + (MaxRedo + 1) inserts of a text (21 in the code); `IndexedBeforeForgotten`; `QueuesDrain` unless its consumer is deaf; `ImplementsStore` |
| `cache` | 2 threads in 1 or 2 processes, short lives, lag 1 | `RemovedStopsReceiving` within `StaleBound`; `SilentOnlyBriefly` a failed query silences a chat for `EmptyBound` at most; `GetAnswers` |
| `friend` | 2 users, 2 chat ids, 2 handlers, 5 requests, 1 fault | `RelationSymmetric`; `MembersHaveSession`; `Consent`; `FriendsShareOneChat`; `GroupsSurvive` |
| `gateway` | 2 users, 3 session ids, 2 logins at once, 2 gateways, 2 connections, 1 death | `OneSessionPerUser`; `MarkHasSession`; `PushGoesToOwner`; `RegistryDrains`; `ConnectedIsServed` |
| `push` | 2 users, 1 gateway, 4 messages of both (2 plain, 1 cut, 1 killing), 1 death or lost connection | `PushesInOrder`; `NoneSkipped` who stays connected misses nothing; `PushArrives` |
| `discovery` | 3 instances on 2 keys, 3 starts, 1 fault | `DirectoryAgrees` when the caller has handled its events it lists who is registered, once; `DiesOnlyDeserted`; `TurnsFollowRegistry` who stays registered is called again and again, who stays away no more |
| `profile` | 2 users, 2 nicknames, a phone and an avatar, 2 handlers, 1 fault | `UniqueNames`; `LostOnlyToOverlap` only overlapping calls lose a change; `SearchAgrees` |
| `userinfo` | 3 threads in 2 processes, 2 profiles, short lives, lag 1 | `ShownIsRecent` within `StaleBound` |
| `agent` | 2 agents, 2 services and Redis, threshold 2, 2 changes of the world, 1 restart a question | `CounterSettles` a reached threshold is never left behind; `ToldIsSeen` silence means no change; `FaultIsTold` a change that lasts is reported |

Checked by hand, too long for a run kept beside the code: `pipeline` with 2 crashes (2.2
million states), `push` with 2 gateways and either two plain messages or one message of each
kind (1 million; gateways share nothing but the broker's list of pushes), the safety
properties of `cache` with 2 members (3.3 million) and `gateway` with 3 connections at one
gateway (350 thousand). No error was found.

The type invariant of every component (`TypeOK`, `PipelineTypeOK`, `CacheTypeOK`,
`PushTypeOK`) is proved (section 4); the runs spend their properties on the others.

One run shows where the code departs from what it says:

| run | statement | what happens |
|---|---|---|
| `register_unanswered` | `RegisterAnswered` | `UserRegister` has no `ClosureGuard` and never runs its closure: the account is stored, and the gateway reports a failure after its timeout |

Some passing properties have a condition. `Orderly`, `crossed`, `torn`, `outrun`, `adrift`,
`tainted` and `unsaved` are about the history of the users, pairs, handlers, instances or
messages the property speaks of, and never about what the others do. `NoReauth` is about
all connections of one gateway, `overlap`, `faults` and `crashes = 0` about the whole run.
Section 7 says what happens without each. The runs contain the excluded histories as well,
so the conditions are as weak as TLC found them to be.

## 4. Proofs

Every invariant and every action property of the passing runs is a theorem, for every
value of the constants, and so are both refinements. `TypeCorrect` stands for
`Spec => []TypeOK` wherever it is listed.

`DeliveryProofs`, about `MQClient`, for any messages, publishers and retry budget:
- `ClientTypes`: `Spec => []TypeOK`.
- `WakeupNeverLost`: `Spec => []NoLostWakeup`. Given `TypeOK` the property is
  inductive: a task with `retry = 0` enters `_tasks` only in `Enqueue`, which leaves
  its thread about to signal; a wake-up is consumed only by the step that empties
  `_tasks`; what `FailTask` puts back has `retry > 0` (`FailTaskNotFresh`).
- `MessagesAreConserved` (`Spec => []Conserved`) and `OrderOfFirstAttempts`
  (`Spec => []OvertakenOnlyByRetry`). Wire, batch and `_tasks` are one line (`Held`),
  which `Drain` and a successful `RunTask` do not change at all. `publish` adds to its
  end (`LineGrows`); a task that fails leaves a gap that closes and is dropped
  (`LineShrinks`) or joins the end with `retry > 0` (`LineTurns`). The order needs
  `FreshIsYoungest` along the whole line, not on the wire only: a task with `retry = 0`
  is younger than everything ahead of it.
- `ClientImplementsOutbox` (`Spec => ImplementsOutbox`): under the mapping from queues
  to `status`, `Enqueue` is `Accept`, a publish the channel takes is `Send`, a last
  failure is `Drop`, and every other step changes no status. `Conserved` is what makes
  the mapping well behaved: a message that leaves one queue is in no other.

`DeliveryProofs`, about `MessagePipeline`, for any messages, texts, retry budget and number
of crashes. `PipeInv` is inductive; its parts are
- `StepsTell`: what the step a delivery has reached stands for: a file that is past its
  upload has a blob, a success has its row or document, a delivery about to be acked after
  a retry was not on its last try. `RowsHaveFiles` (`[]RowHasFile`) needs only this.
- `Accounted`, for `LossHasReason` (`[]LossExplained`): of a message the broker took there is
  a row, a failed upload, a spent budget, a retry that was not published, or a copy on its way to the Message service whose
  count is covered by inserts that were tried. The property itself is not inductive, because
  copies the ES store sends across may carry a higher count than inserts were tried; the
  copy that Transmite's publish started never does. A retry raises the count and follows an
  insert; a crash or a lost connection puts back the copy it had.
- `DeafHasCopy`: a deaf consumer works on a copy that is back in its queue, so the ack it
  sends in vain forgets nothing.
- `Untouched`: what was never on the wire has no copy, row or insert; `OnlyTexts`: only
  texts are in the ES queue; `RetryIsQueued`: a retry of the ES store is in its queue before
  the old delivery is acked, unless its publish failed (step `"unheard"`), which makes
  `IndexBeforeForgetting` (`IndexedBeforeForgotten`).

`RetriesAreBounded` (`[]RetryStormBounded`) counts what is still to come. A copy with retry
count r in the Message service's queue is worth `MaxRedo - r + 1` inserts, one in the ES
queue `1 + 2 + ... + (MaxRedo - r)`, because each failure there puts one copy in both
queues. `Tokens` gives each waiting copy its number of tokens (twice the worth, to stay
with whole numbers), so that adding over a queue is counting a finite set, and `StormInv`
says that twice the inserts tried, the tokens and what the deliveries in hand are worth
never exceed the budget a message comes with. A crash or a lost connection breaks it: what is put back is worth
its whole try again, as the condition `crashes = 0` says.

`PipelineImplementsStore` (`PipelineSpec => ImplementsStore`): every step moves the fate of
one message at most (`OneFateAStep`), and only as `MessageStore` allows (`FateMoves`). That
a lost message stays lost is `LostStaysLost`: with no copy that can still be retried, no
step makes one.

`TransmiteProofs`, about `Snowflake`, for any number of processes, field widths and length
of time, under `DistinctMachines` (no two processes share the machine-id bits):
- `IdsAreUnique`: `Spec => []UniqueIds`. Inductive invariant: every issued id is one
  below the place where its process stands (its last millisecond and sequence number;
  while spinning, the whole millisecond), so the next one is new; ids of different
  processes differ in their machine bits; hence `issued` has grown by one at each call.
- `IdsOfAProcessIncrease`: `Spec => IdsIncrease`, and `GeneratorTypes`, from the same
  invariant.

`TransmiteProofs`, about `SessionMemberCache`, for any members, threads, processes,
placements and lives: `CacheTypes`; `RemovalTakesEffect` (`[]RemovedStopsReceiving`) and
`SilenceIsShort` (`[]SilentOnlyBriefly`). The lists carry no age, so `ListInv` bounds it by
the life they have left: for everybody on a list who is out of the session, the seconds
since the removal and the seconds the entry may still live add up to the bound of its level
at most (`Serves`), and the same holds of an empty list and the query that failed. A step
that takes no time only sets counters back (`ServesMeanwhile`); a second that passes raises
one term and lowers the other (`ServesLater`); a copy into the next level adds that level's
life and the lag (`ServesLess`).

`FriendServiceProofs`, for any users, chats, handlers and `MaxFault` (`User` finite):

- `TypeCorrect`: `Spec => []TypeOK`. `CallShapes` says which fields a call has, from its
  `op`; one lemma per handler, on `AnswerType`, `GotoType`, `StartType` and `HandlerType`.
- `FriendshipIsMutual`: `Spec => []RelationSymmetric`. It is inductive given the types:
  only two transactions write `relation` (`RelationWriters`), each both directions.
- `NoOrphanMembers` (`Spec => []MembersHaveSession`) and `GroupsAreLeftAlone`
  (`Spec => GroupsSurvive`). Neither is inductive: nothing in them keeps a handler from
  appending members to a chat that has no row, or from overwriting a group. `Ownership` adds that a new chat id is held by one handler only, and that its
  chat is empty until this handler writes it. `ChatWriters` lists the four transactions
  that write a chat, `ChatStepSafe` takes both properties through them, and
  `HandlerOwnership` and `RequestOwnership` keep `Ownership` itself.
- `NoFriendshipWithoutConsent`: `Spec => []Consent`, from `ConsentInv`: an application row
  was asked for, and a handler past `exists()` has seen one. It holds because `asked` and
  `agreed` only grow (`HistoryGrows`), although the row may be gone by the time it is used.
- `FriendsHaveOneChat`: `Spec => []FriendsShareOneChat`. The property speaks of quiet
  moments only, so `ShareInv` says what holds in between: what the tables hold of a pair
  (`PairTables`: an application excludes a friendship and the opposite application; friends
  have a chat, or a handler about to make it), and what the handler at work on the pair has
  read (`PairRead`), for pairs whose requests have not crossed and whose chat was not torn.
  Both are under the property's own condition, made one that never comes
  back once it is lost (`Calm`), so that the step before may be assumed calm too.

`ServiceDiscoveryProofs`, for any instances, keys, index cycle, starts and faults:
- `TypeCorrect`: `Spec => []TypeOK`.
- `DirectoryIsRight`: `Spec => []DirectoryAgrees`. `AgreeInv` speaks of an instance that
  is not tainted at any time, not only in quiet: its events on the way alternate, the
  first one fits what the channel list says of it and the last one what etcd says
  (`ChainAppend`, `ChainTail` and the other `Chain` lemmas carry this along the queue).
  With the queue empty the two ends meet, which is the property.
- `DeathIsDesertion`: `Spec => DiesOnlyDeserted`, from the same invariant.

`UserProfileProofs`, for any users, values, handlers and faults:
- `TypeCorrect`; `NamesAreUnique` (`Spec => []UniqueNames`), which needs nothing but
  the unique indexes at the write; `SearchIsRight` (`Spec => []SearchAgrees`), from an
  invariant on handlers about to append: one that was not outrun carries the row as it
  is; and `ChangesLast` (`Spec => LostOnlyToOverlap`), from its counterpart on handlers
  about to update.

`ReceiverProofs`, about `UserInfoCache`, for any profiles, threads, processes and lives:
- `SenderIsRecent`: `Spec => []ShownIsRecent`. `AgeInv` relates the age of every copy,
  in Redis, in L1 and in a thread's hands, to the life it has left (in Redis at most
  `MaxLag + TTL_MAX` together), and says that a profile was in force `age` seconds ago.
- `SenderTypes`: the bounds on ages are part of the types, so it needs `AgeInv` too.

`ReceiverProofs`, about `PushFanout`, for any users, gateways, messages and deaths:
- `PushTypes`: `PushSpec => []PushTypeOK`.
- `PushesStayInOrder` (`[]PushesInOrder`): a gateway's queue is the tail of the pushes the
  broker took (`QueueIsTail`), so one number says how far the gateway is (`Done`), and what
  a client has got is no further along than that.
- `NoReceiverSkipped` (`[]NoneSkipped`): of the pushes a gateway has begun since a user came,
  he has those that are done, and of the one at hand he has it once the walk has passed him
  (`Visited`); a death takes him off the registry, and a redelivery after a lost connection
  begins again with a push that is not done (`Served`, `SkipInv`).

`AgentMonitorProofs`, for any services, rules, threshold and restarts:
- `ThresholdIsNoticed` (`Spec => []CounterSettles`): a thread that has written the
  counter tests it before anything else, and a lower value written by the other thread
  is tested by the other thread.
- `SilenceMeansNoChange` (`Spec => []ToldIsSeen`): while events are published, what was
  told agrees with `new` for the services already passed, with `last` for the others.
- `TypeCorrect`, from the same invariant.

`GatewaySessionProofs`, for any users, session ids, logins, gateways, connections and
deaths: `TypeCorrect`, `OneSession` (`Spec => []OneSessionPerUser`), `MarksAreCovered`
(`MarkHasSession`), `PushesGoToOwners` (`PushGoesToOwner`), `RegistriesDrain`
(`RegistryDrains`) and `ConnectedAreServed` (`ConnectedIsServed`), all from one
inductive invariant whose parts build on one another:
- `Owners`: a session id belongs to one user from the moment it is stored, and no client
  knows it before its login is answered.
- `Places`: a registered connection is at a gateway, has not been given up and shows
  what it was registered with; a handler works on a connection of its own gateway.
- `Named`: at a gateway where no connection was authenticated twice, a registry entry
  names a connection of that user. Without it `Remove`, which erases the user's entry
  whatever connection it names, could not be shown to erase the right one.
- `Turn`, for orderly users: there is one of a session that is not stranded, a login that
  has passed the look at the mark, and a closing that has still to take the mark; never two.
  `Live` ties the connections to that session. `Backed` and `Reached` tie the registry to
  it: what a registry holds of an orderly user is a connection that showed his session, or
  one whose closing is under way, whatever other users do to their own entries.
- `Marked`: what a mark has behind it while no gateway has died, logins that died after it
  included.

`Orderly` and `NoReauth` speak of histories that only grow (`Grows`), so whoever is
orderly after a step was so before it (`WasOrderly`, `WasSingle`): the invariant of
the step before may be used.

The constants' assumptions are the named `ASSUME`s of the modules; TLC evaluates them
in the runs. Only model-checked are the liveness properties, because fairness and
`ENABLED` are out of the prover's reach: `EventuallyTried`, `SpinEnds`,
`QueuesDrain`, `GetAnswers`, `PushArrives`, `TurnsFollowRegistry` and `FaultIsTold`.
For the same reason `ImplementsOutbox` and `ImplementsStore` are refinements of abstract
specifications without fairness. The sum over a queue in `RetriesAreBounded` is written as
the size of a set of tokens, since induction over data is out of reach as well.

## 5. Fairness

- MQClient: a thread that has pushed a task goes on to signal, and the loop thread
  keeps running. Nobody owes another `publish()` or the destructor; that is why the
  task that failed may stay (section 7).
- Snowflake: clocks run (up to the bounded time) and a spinning thread is scheduled.
- MessagePipeline, PushFanout: the consumer of a living process that has its broker goes on,
  and docker restarts a process that died (`restart:` in `docker-compose.yml`). Nothing
  makes up for a lost AMQP connection: `onError` only logs (`rabbitmq.hpp:271-272`), so
  there is no fairness for a deaf consumer, and `QueuesDrain` and `PushArrives` except it.
  Users owe no message and no connection, and the publisher nothing beyond `Outbox`.
- SessionMemberCache: a started call runs on, and a mutex that is released again and
  again is handed over in the end (strong fairness of `Wait`).
- ServiceDiscovery: the discovery thread handles its events, leases that are not kept
  end, docker starts a caller that died. Nobody owes a request: `TurnsFollowRegistry` is
  conditional on calls that go on.
- AgentMonitor: each agent's thread runs on, and a question to the model ends (it has
  five rounds and its HTTP calls time out) or raises. The world owes no change.
- FriendService, GatewaySession, UserProfile, UserInfoCache: none; all their properties
  are safety.

## 6. Bounds and simplifications

Bounds (in `.cfg` files): `MaxRetry` (3 in the code), `MaxRedo` (5), `MaxCrash`,
`MaxFault`, `MaxStart`, `MaxChange`, `MaxRestart`, `MaxTime`, `MaxLag`, the cache lives
`TTL_*` and `L1_TTL` (5+0..2 s, 2 s and 2 s in the code for members; 60+0..10 s and
10 s for profiles), `LlmThreshold` (4) and `IndexCycle` (a common multiple of the
lengths of the channel list, in place of `int _index`). `MaxCall` bounds the requests of
the Friend service; five are enough to befriend, part and befriend again around any other
request. `MaxCrash` counts deaths and lost connections together. One retry is enough to have a
first, a last and an overtaken attempt; two workers or processes are enough for every
race between two steps, which is what the properties are about; one fault is put at
every place it can happen.

Simplifications, all of them deliberate:
- Messages are unordered in the queues of `MessagePipeline`, ordered in `PushFanout`.
- Copying a push to all gateways' queues is one step of the broker.
- A login's session id is chosen at the start of the handler; it is unused until
  stored. Names and passwords are right; `PhoneLogin` ends with the same calls.
- Login session ids (`Snowflake`, `user_server.hpp:139`) and chat ids (`uuid()`) are never
  handed out twice.
- User ids in requests exist. `friend/CMakeLists.txt` compiles with `-DNDEBUG`, so `query_one`
  does not assert that there is one row at most: with two it takes one of them.
- What stands behind the `|` of a cut push might parse as a notification of its own
  (`gateway_server.hpp:94-117`) and be pushed to somebody; the model drops it (`ReceiveCut`).
  No property is about such bodies.
- The list of a cache entry is a set; joining and splitting it is not modelled, since
  ids contain no comma.
- `system_clock` is not set back, and a restart takes longer than a millisecond: `last_time_`
  is lost with the process, and the guard of `Restart` is what keeps ids apart.
- A data race on L1 leaves the map in the state of some order, or kills the process.
- A Redis entry or a copy is stored within `MaxLag` of being read.
- The health agent's `down`, `up` and `http_timeout`, and three levels of memory, stand
  for the snapshots; of the events collected about a target the last is kept.
- Registrations: passwords, formats and verification codes are right.
- A message whose type is none of the four is routed as `msg.unknown`, like a file.

Deployment facts the models rely on: each Transmite has its own `MACHINE_ID`
(`docker-compose.yml`), the queue of the Message service is bound with `msg.#`, that
of the ES store with `msg.text`, and every gateway has a durable push queue.

## 7. Known behaviours

Excluded from passing properties by a condition, because the code does them:

- *Clock set back* (`snowflake.hpp:23`): the else branch restarts the sequence in a
  millisecond that was used; ids repeat.
- *A retry nobody published* (`rabbitmq.hpp:251-252`): the result of `publish` is not looked
  at and the old copy is acknowledged, so a message may be lost, or stay out of the index,
  with most of its budget left (`unheard`).
- *A lost AMQP connection* (`rabbitmq.hpp:271-272`) is logged; the process stays up and
  consumes nothing until somebody restarts it (`deaf`).
- *FriendRemove of oneself* (`friend_server.hpp:93-103`): nobody compares the peer with the
  caller, and `mysql_chat_session.hpp:45-48` then finds any chat of two the caller is in and
  erases it, while the friendship stays (`torn`). It stays as well when
  `RemoveChatSessionMember` takes one of two friends out of their chat (`torn`).
- *A login that dies* between session and mark (`user_server.hpp:140-142`) leaves a session
  nobody knows and nothing removes (`stranded`), next to that of the user's next login. One
  that dies after the mark locks its user out: there is no connection whose close would
  take the mark away.
- *Two logins at once* (`user_server.hpp:132`): both find no mark, both get a session
  (`raced` in `GatewaySession`).
- *A gateway dies between the removals of `onClose`* (`gateway_server.hpp:186-189`): a
  mark without a session stays in Redis, and its user cannot log in any more
  (`MarkHasSession` is conditional on `crashes = 0`).
- *Two authentications on one connection* (`connection.hpp:21`): the second user's
  registry entry stays and names a closed connection (`NoReauth`, in `PushGoesToOwner` and
  `RegistryDrains`; `ConnectedIsServed` does without).
- *Two applications that cross* (`friend_server.hpp:136`): both may be agreed to, and
  the pair has two relations and two chats (`crossed`); two agreements at once do the
  same (`overlap`).
- *A failed transaction in the middle of an agreement* leaves friends without a chat, or
  a chat without members (`faults`).
- *L1 without a lock* (`session_member_cache.hpp:125`, and the comment at 160 that says
  there is no concurrency): `Die`.
- *A `|` with a sender id that starts with a digit* (`rabbitmq.hpp:215`): the push is
  cut and acknowledged as fatal (`Bar`, `Digit`).
- *A nack of the broker* (`rabbitmq.hpp:50`) is logged and nothing else, after the user
  was told the message was sent (`refused`).
- *Transmite's own queue* (`transmite_server.hpp:91`, `mq_msg_queue`) is bound to
  `msg.#` and has no consumer: it only grows.

Behaviours without a property of a run, found while the models were made:

- *A task that failed* (`rabbitmq.hpp:151`) is queued again without a wake-up: if nobody
  publishes any more it is neither sent nor dropped.
- *A list read before a removal* (`session_member_cache.hpp:85`) may be stored after the
  DEL and is served for another Redis life, although the header (line 24) says that
  only L1 is left then. `RemovedStopsReceiving` bounds it.
- *A removal without a chat* (`mysql_chat_session.hpp:50`) uses the result of a query
  that found nothing; the process dies.
- *A late `onClose`* (`gateway_server.hpp:186`) takes away session and registry entry of
  a newer connection of the same session (`Orderly` in `ConnectedIsServed`).
- *A `|` with a sender id that starts with a letter* (`rabbitmq.hpp:219`): `std::stoi`
  throws and the gateway ends at every redelivery; its clients are disconnected each time,
  and the pushes behind it wait (`Bar`).
- *A member query that stops half-way* (`mysql_chat_session_member.hpp:76-83`) returns what it
  has read, and the cache keeps it for a full life: the members it lacks get nothing
  meanwhile. `SilentOnlyBriefly` is about the empty list only.
- *A caller between two instances* (`brpc.hpp:67-71`): a service whose last instance has
  left is logged and then divided by.
- *A second PUT of a host* (`brpc.hpp:41`), by a restart within the lease or by another
  instance under the same key, leaves a channel nothing removes (`tainted`).
- *A watch that breaks* (`etcd.hpp:71-82`) is logged and not made again: what comes and goes
  afterwards is never seen (`tainted`).
- *A lease that was missed* (`etcd.hpp:21`) is never granted again: the instance runs on
  and nobody calls it.
- *A commit whose answer is lost* (`mysql_user.hpp:33`) is reported as a failure and not
  indexed (`adrift`).
- *A service that is down when the agent starts* is its base line and not reported
  (`health_agent.py:57-59`); `agent_loop.py:45-46` says it is.
- *Events in a row* (`planner.py:6`): two threads lose each other's updates of
  `unhandled`, so escalation may come an event late, or count events from before a rule
  hit. Changes that revert between two polls are not seen, and `Planner.state` only
  grows.
- *Agents that never report*: `LogAgent` raises on its first poll (`log_agent.py:35`);
  `DBAgent`'s MySQL metric is always -1 (`int("")`, `db_agent.py:33-37`); the demo's
  `llm_fallback` takes two arguments and is given three (`demo.py:28`, `planner.py:71`).

## 8. What is not modelled, and the plan

Not modelled, for a reason: File and Speech services (single calls without shared
state), generated ODB and protobuf code, vendored headers, load tests, the agent's
prompting and retrieval (what they compute depends on a language model).

The gateway's HTTP handlers check the session, forward and answer; the state they read
is in `GatewaySession`. Their notifications to a peer and the `keepAlive` timers change
none of it. Verification codes are one Redis key each, written and read once. Message
history and search are reads of the stores `MessagePipeline` fills. Incidents and
approvals (`ops/`) are connected by a scripted demo only, which calls them one after
the other; the id of an approval (`approval.py:26`) is unique per second and service
only, `approve` leaves the request in the list, and the planner restarts services
without asking.

What would come next:

1. `Notification`: the gateway handlers that notify a peer after a friend or chat
   request, composed with the registry of `GatewaySession`; `keepAlive` timers.
2. Verification codes, with their life in Redis, before `PhoneRegister` and `PhoneLogin`.
3. The recent and range queries of the Message service, over a history that grows.

# Aerozen in TLA+

Specifications of the transport in `src/aerozen` (C++, a publish/subscribe and
service-call library over ZeroMQ with its own UDP discovery), of the log recorder and
playback, and of the parameter registry on top of it: what their threads and processes
do to the state they share, and which properties make that correct. They are checked with
TLC on small instances, and most of the safety properties are proved with TLAPS for every
number of processes, threads, handlers and requests.

All paths below are relative to `src/aerozen/`.

## 1. The system

| Component | State | Operations | Talks to |
|---|---|---|---|
| Discovery (`discovery.hpp`), one instance for topics and one for services | `info` (known publishers, own ones too), `activity` (when each process was last heard of), `relayAddrs`, `remoteSubscribers`, `initialized`, two timers | user: `Advertise`, `Unadvertise`, `Discover`, `TopicList`, `Register`, `Unregister`; reception thread: `RecvDiscoveryUpdate`, `DispatchDiscoveryMsg`, `UpdateHeartbeat`, `UpdateActivity` | other processes by UDP multicast, and by unicast to relays; the node layer by callbacks |
| Topic storage (`topic_storage.hpp`) | topic -> process -> publishers | add, delete by node or process, lookups | used by discovery, `connections`, `remoteSubscribers` |
| Publisher records (`publisher.cpp`, `advertise_options.cpp`) | topic, addresses, identifiers, types, options | into and out of a discovery message | discovery |
| Handler storage (`handler_storage.hpp`) | topic -> node -> handler | add, remove, first match | used for subscribers, repliers and requests |
| NodeShared (`node_shared.{hpp,cpp}`), one per process | `localSubscribers`, `remoteSubscribers`, `connections`, `srvConnections`, `requests`, `repliers`, `pubQueue`, `srvQueue` | the discovery callbacks `OnNew...`, `Publish`, `TriggerCallbacks`, `Subscribe`/`Unsubscribe`, `SendPendingRemoteReqs`, `RecvSrvRequest`, `RecvSrvResponse`; threads `RunReceptionTask`, `PublishThread`, `SrvPublishThread` | ZeroMQ sockets, discovery, handlers |
| Node, Publisher, Subscriber (`node.{hpp,cpp}`, `detail/node.hpp`) | topics and services of one node, shared handles | `Advertise`, `Subscribe`, `Publish`, `PublishRaw`, `Request`, `Unsubscribe`, `UnadvertiseSrv`, copies and ends of the handles | NodeShared, under its recursive mutex |
| Subscription handlers (`subscription_handler.{hpp,cpp}`) | callback, type, time stamp | `RunLocalCallback`, `RunRawCallback`, `UpdateThrottling` | NodeShared's threads |
| Request and reply handlers (`req_handler.{hpp,cpp}`, `rep_handler.{hpp,cpp}`) | `requested`, `repAvailable`, `rep`, a condition; a queryable and a token | `WaitUntil`, `NotifyResult`, `RunCallback`, `RunLocalCallback`, `CreateZenohGet`, `CreateZenohQueriable` | NodeShared's threads, Zenoh's threads |
| Topic statistics (`topic_statistics.cpp`) | last sequence number per sender, moments, dropped messages | `Update` | reception thread |
| Log recorder (`log/src/recorder.cpp`) | data queue with its byte count, writer thread, log file, topics | `Start`, `Stop`, `AddTopic`, message callback, `OnAdvertisement` | Node, Log, a Discovery of its own |
| Log playback (`log/src/playback.cpp`) | playback thread, `stop`, `paused`, `finished`, four times, iterator | `Pause`, `Resume`, `Step`, `Seek`, `Stop`, `WaitUntilFinished` | Node, Log |
| Log and queries (`log/src/*.cpp`) | an SQLite database, a transaction, caches of descriptor and times | insert, query | SQLite |
| Parameters (`parameters/`) | name -> value, under one mutex | declare, get, set, list, locally and as services | service calls |
| Clocks (`clock.cpp`) | the time of a topic | `SetTime`, the subscription's callback | Node |
| Topic names (`topic_utils.cpp`) | - | validity, qualification, liveliness tokens | everything that has a topic |
| Message factories (`message_factory.cpp`, `dynamic_factory.cpp`) | creators by type, a descriptor pool | `Register`, `LoadDescriptors`, `New`, `Types` | handlers |
| Zenoh backend (in discovery, NodeShared and Node) | liveliness tokens instead of datagrams | declare, undeclare, samples of tokens | Zenoh |

**What is hard.** A process has at least six threads of its own (two receptions of
discovery, one of messages, one that publishes locally, one for pending service
requests) beside the user's. They share state under `NodeShared::mutex` (recursive),
`Discovery::mutex`, `pubThreadMutex` and `srvThreadMutex`, and let go of them around
callbacks and sends: most of the operations are several critical sections. Between
processes UDP loses, duplicates and reorders; the registration messages are sent
once; processes crash, or are taken for dead. Blocking calls wait on condition
variables that are notified without the mutex, in the recorder and the playback too,
whose flags are atomics outside of any mutex.

**What makes each part correct.**
Discovery: what stays is known to everybody in scope in the end, what is gone is
forgotten, nothing is kept that nobody would remove or that the client was not told
of; a list of subscribers is made of answers to the question. Local delivery: each
message exactly once and in order to the handlers that were there when it was
published, nothing new after `Unsubscribe`; a handler gets what it can take, whoever
else is there. Registration: messages flow between a matching pair whichever came
first, and a subscription ends only when its node ends it. Service calls: each request
executed at most once, answered by its own execution and a responder of its types, sent
as soon as a server is there, no lost wakeup. Node API: the books of node, process and
discovery agree with the handles the user has, and a node leaves nothing behind.
Recorder: what matches is recorded, written once and in order, a dying process takes the rows
of one period at most; `Stop` flushes and returns. Playback: messages in order, one late after a command at
most, steps exact, whoever waits is let go. Log: caches and queries answer for the
file. Parameters: clients are told what happened. Names, records, clocks, factories: what
is written by one process is what another reads.

`PROJECT.json` lists every component, and the hazards with their lines.

## 2. Modules

    Delivery <~~~ PubQueue <--- MCPubQueue, PubQueueProofs           (<--- extends,
    Calls <~~~ ServiceCall <--- MCServiceCall, ServiceCallProofs      <~~~ is implemented by)
    TopicStorage <--- Discovery <--- MCDiscovery, DiscoveryProofs
    TopicStorage <--- Registration <--- MCRegistration, RegistrationProofs
    LogQuery <--- LogFile <--- Recorder <--- MCRecorder, RecorderProofs
    LogQuery <--- Playback <--- MCPlayback, PlaybackProofs
    HandlerStorage <--- NodeApi, TopicStorage <--- Liveliness, TopicNames,
        PublisherRecords, ZenohCalls --- NodeParts <--- NodePartsProofs
    NodeParts, LogFile <--- LogHandle, Parameters, Throttling, ...
        --- MCParts <--- MCPartsProofs                      (--- is instantiated by)

The specifications divide the system where it has few connections: each keeps
the whole of the state its properties speak of and reduces its neighbours to what they
do to it. `PROJECT.json`, "map", names the lines of every definition. An operator
commented `Slip:` stands before the definition it deviates from and is not used by the
specification: it is a plausible mistake in that code, used to see that a property
notices it.

Fifteen modules are small; `MCParts` has an instance of each, those that make up a node
in `NodeParts`, which it extends. In one behaviour one of the parts moves and the others
stay at their initial states, so that one run explores the sum of their state spaces and
not the product. A behaviour of `MCParts` is one of `NodeParts` (theorem
`NodePartsAmongThem`), so what is proved of `NodePartsSpec` holds in both.

### TopicStorage

`TopicStorage<T>` as operators over a set of records: the three nested containers are
one set, because no operation depends on the order, except which of several
publishers of one process and node is returned first (`ByNode` gives all of them).
`AddPublisher` refuses an entry with the address and node of a stored one of the same
topic and process *whatever its type and scope*; this is kept. `HandlerStorage` is the
same for handlers.

### Discovery

| Model | Code |
|---|---|
| `info[p]`, `activity[p][q]`, `relayAddrs[p]` | `info`, `activity`, `relayAddrs` of the process |
| `due[p]`, `cycles[p]` | `timeNextHeartbeat` passed, `numHeartbeatsUninitialized` |
| `recv[p]`, `user[p]` | where the reception thread and the user thread are, with what they copied |
| `announced[p]` | what the connection and disconnection callbacks told the client |
| `net` | datagrams in flight, each with destination, source address and relay flag |

One action per stretch of code between two points where the mutex is released:
`Advertise` / `AdvertiseSend`; `Unadvertise` / `UnadvertiseSend`; `Discover` /
`DiscoverKnown` / `DiscoverNotify`; `Receive` (one disjunct per message type, with the
relaying before it) and, for the messages with two halves, `ByeDrop` and
`UnadvertiseDrop`; `Heartbeat` / `SendCopy` / `EndHeartbeat`; `UpdateActivity`. `Exit`
is `~Discovery`, which sends BYE: it runs for a Discovery that somebody deletes, as the log's
Recorder and the tests do with theirs. The two that NodeShared owns are never deleted (see
PubQueue), so that a process of nodes ends by `Crash`, without a BYE, however it ends. Every process has one user thread: `NodeShared::mutex`
serialises the calls.

The network delivers in any order. A datagram is lost (`Lose`) or delivered again
(`Read` leaves it in `net`) at most `MaxFaults` times. `UnicastTo[h]` is the process of
a machine that gets its unicast datagrams (all sockets bind one port with
`SO_REUSEPORT`).

*Time* counts heartbeat intervals. `activity[p][q]` is the age of the time stamp, up to
the first value that counts as expired. `Tick` lets an interval pass; with `Timely` only
when nothing is in flight, no heartbeat is due and nobody expired is left, that is,
when threads and network are fast compared with one second. `activityInterval` (a
tenth of it) is taken as zero.

`SubscriberList` has `TopicList` and its caller `TopicInfo`, of several threads of one
process: `remoteSubscribers` is cleared, SUBSCRIBERS_REQ is sent, `WaitForInit` waits, the
list is read; others' SUBSCRIBERS_REP come whenever they do.

### PubQueue and Delivery

`Publish` = snapshot of the handlers under `NodeShared::mutex`, push under
`pubThreadMutex`, notify; `PublishRaw` runs the callbacks in the caller's thread
(`RawCallback`, `RawReturn`). The publish thread: `Take`, `Callback` for each handler,
`CallbacksDone`; `FindNothing` (queue empty, mutex held), `Block`, `WaitTimeout`.
The reception thread calls the same handlers with the messages of other processes
(`Remote` threads). Unsubscribe: `UnsubscribeStrip` and `UnsubscribeRemove`, of one handler
or of all of a node. The threads run for as long as the process: `~NodeShared` alone sets `exit`, and
it never runs, because `Instance()` (`node_shared.cpp:149-179`) keeps raw pointers in a
static map and deletes none, and the destructor is protected. `log` records which
callbacks ran. `SameName` are the handlers that leave under the name that the queue
entries carry, since the strip compares that (2103) and `Unsubscribe` passes the user's
spelling; `Remapped` the ones whose name `NodeOptions` remaps.

`Delivery` is what subscribers are promised, without queue, threads and mutexes: a message
is due to exactly the handlers registered when it is published, is delivered once and in
the order of the publisher's calls, and only an Unsubscribe of the handler itself may drop
it. The mapping takes what is due from the snapshots, the queue and the worker's entry.

`MessageHandlers` is what the handlers of a topic make of one message: typed, generic and
raw ones, called with an object or with bytes, in any order, with bytes that do not parse,
types nobody can make and callbacks that throw. `Throttling` is `UpdateThrottling` of a
handler (three steps without a lock) and of a publisher (two critical sections).

### Registration

The path from an ADVERTISE to a message that crosses processes: `Receive` adds to
`known`; `OnNewConnection` connects, sets the ZeroMQ filter and adds to `connections`,
under the mutex; `Register` sends NEW_CONNECTION, without it; the publisher's `remote`
then names the subscriber. `Unsubscribe` / `Unregister` / `Broadcast` are the way back.
The datagrams of a pair stay in order here (`chan`); reordering is the business of
Discovery. `Suspect` takes a live process for dead. `filter[p]` counts the instances of
the filter, which ZeroMQ counts too. The calls are those of several user threads: `Unsubscribe`
holds the mutex, `Unregister` and `Broadcast` send without it, and another thread's
`Subscribe` may come before or between them. `overtaken[p]` has the nodes to which that happened.
`End` is the end of a process, which says nothing to anybody (no BYE, as above).

### ServiceCall, Calls and ServiceAnswers

`Request` (in the caller's thread, which holds `NodeShared::mutex` until it blocks:
`call[r] = "checked"`), `Block`, `Resume`, `SpuriousWakeup`, `Timeout`; the discovery
thread's `Discovered` / `OnNewSrvConnection` and `OnNewSrvDisconnection` / `Forget`; the
service thread's `TakeServer` (looks for a server without the mutex) and
`SendFromWorker`; the server's `RecvSrvRequest` and `Serve`; the reception thread's
`RecvSrvResponse` / `NotifyResult` / `Notify` / `RemoveHandler`. A request is marked
before it is sent, and a failed send is swallowed, as in the code. A `Kind` is a pair of
request and response types.

`Calls` is the promise: asked, executed at most once, told once the result of that
execution. `ServiceAnswers` is one call with the data: responders of the own process,
which run in the caller's thread, and of another, `RequestRaw`, types, results, replies.

### Recorder, LogFile and LogQuery

`Receive` is the callback's test of `dataWriterState`, `Push` the rest of it under
`dataQueueMutex`. The writer: `WriterLoop` (the loop's condition), `WriterFindNothing` (empty
queue: wait or go round), `WriterBlock`, `WriterTake`, `WriterWrite`. The user: `Start`, and
`Stop` / `StopNotify` / `StopJoin` / `Flush` / `FlushDone` / `Close`. `bufferSize` is kept as in the
code: only a discard makes it smaller. `taken`, `dropped`, `lost` record what became of
every message; `files` is the closed files one after the other. `missed` is set when
`StopNotify` fell between the writer's test and its blocking. `Crash` is a process that dies:
its open file keeps the transactions that have ended, and what was in memory (rows, the writer's
message, the queue) is `lost`; the next process may record again. `waiting` is the time since the
oldest row that is not on the disk was inserted, in halves of `transactionPeriod`, and `spread`
what it was when the newest of these rows was inserted.

`LogFile` is the open database: rows committed and rows of the transaction, the age of the
transaction, the caches of the descriptor and of the start and end time; `InsertMessage`
with a failure of any of its statements, and the queries of the two times, which may fail too.
`LogQuery` has the time ranges, the statements of `TopicList`, `TopicPattern` and `AllTopics` as selections from the table, ordered by time and,
within one time, by the order of insertion (`Place` is the rank of a row), and the iterator.
`LogHandle` is a program that inserts, fails and asks; `guessed` has the times that are cached from
a query that failed. `RecorderTopics` is `AddTopic` against
`OnAdvertisement`, two threads without the mutex, in steps between two accesses to
`alreadySubscribed` and `patterns`. That SubscribeRaw fails (`recorder.cpp:319-322`, `:338-340`) is
left out: it does for an invalid name only. Given by the user, such a name changes nothing; the
names that a pattern matches were announced or listed, and others have advertised under them.

### Playback

The thread is cut at every access to what Pause, Resume, Step, Seek and Stop change; so are
those. `stop`, `paused` and `finished` are atomic, the four times and the iterator are
guarded by `batchMutex`, `pauseMutex` or nothing. Time is in units of the log's; a wait
that ends by its predicate says that it was not interrupted, as `wait_for` does (634).
`late` counts messages published against the command in force, `settled` marks a step that
began in a pause the thread was blocked in, `resumed` that Resume was the last call, `missed`
the waiters that missed the end. A Seek past the end dereferences the batch's end; `Seek`'s
guard leaves it out, because what follows is undefined.

### The other parts

| Module | Models |
|---|---|
| `NodeApi` | Advertise, Subscribe and their handles (copied, moved, ended), services, the node's lists, `~Node`, by several threads, between the critical sections of `NodeShared::mutex` |
| `Parameters` | registry and clients; requests and responses may be lost, late, or answer a call that timed out; values may be such that they cannot be unpacked (`Unparsable`, for example a string that is not UTF-8) |
| `TopicStatistics` | sequence numbers of several senders, loss, enabling and disabling, the count of drops |
| `TopicNames` | names as sequences of characters: validity, qualification, mangling, tokens, the tests of TopicList and ServiceList |
| `PublisherRecords` | records and options of messages and services through a discovery message |
| `Factories` | registered types and descriptor files with imports; Protobuf's pool is external |
| `Clocks` | clocks that set the time of one topic, with `int` seconds (`Second`, `IntLimit` scale 10^9 and 2^31) |
| `Liveliness` | Zenoh tokens, their samples, Discovery's and NodeShared's books; Zenoh is external |
| `ZenohCalls` | requests as queries: who holds `NodeShared::mutex` (`mutex`, `todo`), the one query it waits for (`query`), what comes on each link and what its thread does with it (`back`, `rx`), the service thread, callers that block or not, servers that come and stop |

Of Zenoh `ZenohCalls` assumes what the code relies on and what its documentation says: a
query goes to all queryables of its name, the reply is handed over when the last has
finished or the time is up, `onDone` comes after `onReply` has returned, a link's messages
are handled in order by one thread, the timer by another. `Get`, `GetReturns` and `Done` are the three
parts of `CreateZenohGet`; between them the mutex stays with the caller, and
`OnNewSrvConnection` of a token waits for it. `QueriesSound` is a conjunction: who
waits for a query is always served by somebody who does not wait for the mutex (`QueryEnds`), a
response is not missed by a blocked caller (`NoLostWakeup`, for a reason other than in
`ServiceCall`: the query ends before the mutex is free), no server executes a request
twice, and only a success is told.

## 3. Runs

| Run | Question | Instance |
|---|---|---|
| `disc_safety` | what a process knows: timed, announced, in scope, own entries untouched | 2 processes on 2 machines, scopes HOST and ALL, 1 fault, both may end, 2 calls, silence 0, not timely |
| `disc_live` | convergence, oblivion, no false expiry | 2 processes, scope HOST, silence 1, timely, 1 fault, 1 end, 2 calls |
| `disc_relay` | convergence across a relay, no echo | 2 processes in 2 networks, relay given on one side, 1 fault |
| `pubq` | the queue implements `Delivery`; delivery | a publishing thread here (2 messages, raw or not) and one elsewhere (1), a typed handler that ignores local messages and a raw one |
| `pubq_remap` | *violated*: Unsubscribe of a remapped name | the same, with a remapped handler |
| `reg` | messages flow, subscriptions end only by their node | 2 processes that publish, 1 that subscribes, with the message's type or any, 2 user threads, 1 fault, 1 end, 4 calls |
| `reg_both` | *violated*: an UNADVERTISE ends a subscription | one node publishes and subscribes |
| `srv_safety` | the calls implement `Calls` | 2 requests of one kind (blocking, callback), 2 servers, 1 fault, 1 stop, 1 spurious wakeup |
| `srv_live` | sent, answered, woken | 2 requests of two kinds (blocking, one-way), 2 servers, 1 fault, 1 spurious wakeup |
| `rec` | written once, in order or discarded for want of room; what a dying process takes with it; Stop flushes and returns | 2 callback threads (2 messages of 1 byte, 1 of 3 bytes), room for 2 bytes, 2 recordings, 1 failure, 1 death of the process, 1 spurious wakeup |
| `play` | pauses, steps, resumes, ends | 3 messages, 2 at one time; a controller and a waiter, 3 calls, steps of 1, seeks to 0 and 2, 1 choice of topics |
| `parts` | one property, or two, of each small module | see `parts.cfg` and `MCParts`: 1 client and 1 local caller of the registry, one of two values unparsable, 2 threads on a node with 3 objects made, 2 threads and 4 units of time for throttling, 2 senders of 4 messages, 2 threads of a recorder, some 30 topic names, logs of 2 messages at 2 times, 2 askers, 4 responders, 6 handlers, 4 descriptor files, 2 clocks, 2 tokens declared, 2 queries to 2 servers by one link and one event (a server stops, or a spurious wakeup) |

**Why the bounds are enough.** Every hazard needs at most two processes, or two
threads, in a particular order, and one fault. With one fault a datagram is lost,
duplicated, or (without any fault) overtaken by a later one; the second call allows
advertise-unadvertise, or subscribe-unsubscribe, of one entry, and a call by each of
two processes. Registration has two user threads in each process: one subscribes while the
other is between the two halves of Unsubscribe. Silence 0 or 1 instead of 3 makes expiry common, and the three cycles
before initialization only delay. Two messages of one thread and one of another give
an order to lose. A second server makes every choice of `SendPendingRemoteReqs`
possible. The relay run has one process on each side, the smallest where each has to
learn of the other.
The recorder's second recording shows what the first left behind, and its messages (they
fit, fill the buffer, or are larger than it) every case of the comparison. In playback
three messages are the one being published, the one being waited for and one to be too
many; three calls are a command, one that races with it and one that shows the effect.
Two of a kind are what the small parts need: two nodes' handles of a topic, two threads in
one critical section, a file and one that imports it, the clock that sets and the one that
hears.

**Deadlock** is checked in the runs of Discovery (`Tick` is always possible in the end)
and not in the other ones, whose calls are bounded: those systems may stop when all
calls are made.

**Fairness.** Weak fairness of each thread's own next step is what an operating system
gives a thread that is not blocked; so is that of the network's delivery of what it does
not lose (a datagram not received stays in the socket's buffer). `Tick` is fair because
time passes. Strong fairness appears where a thread wants a mutex that others take and
release again and again (publishers and `pubThreadMutex`, callers and `NodeShared::mutex`)
and for what discovery repeats (a server that withdraws and is heard of again). Faults,
user calls, suspicions and wakeups for no reason are never fair; what a thread does
inside a call is. Timeouts are not counted on: no fairness is given to the 500 ms of the
publish thread, nor to that of a Request. The parts' run has safety properties only.

## 4. What the runs show

*Discovery.* Convergence and oblivion hold with loss, duplication and reordering. What
carries them is that every ADVERTISE restarts the silence timer of its process
(`EveryKnownIsTimed`): a late ADVERTISE after a BYE puts the entry back, and the timer
takes it away again. `EveryKnownIsAnnounced` holds although BYE and UNADVERTISE inform the
client before they delete, since only the reception thread adds what other processes publish.
A list of subscribers has only those who answered this call (`ListIsOfThisCall`) unless
another thread cleared the answers meanwhile.

*Local delivery.* PubQueue implements `Delivery`: the snapshot decides, before and after any
interleaving of Unsubscribe's two halves, who gets the message; each gets it once and in the
order of one thread's calls of Publish (and of PublishRaw; the two overtake each other).
The worker's timeout is never needed: the notification of a push is not missed
(`EventuallyDelivered`). `HandlersSuit`: with well-formed data every
handler of a suitable type is called and no other, whatever the order of the handlers; the
exceptions are in the list below.

*Registration.* Messages come to flow for every order of the first steps, after false
suspicions too, as long as no datagram of the pair is lost; and with several threads, but for
one order of them: an END_CONNECTION that goes out after the same node has subscribed again
(`overtaken`; divergence `node_shared.cpp:2036`).

*Service calls.* ServiceCall implements `Calls`. Marking before sending gives at-most-once;
the price is that a failed send is never repeated. The wakeup of a blocking call is not
lost, though `NotifyResult` notifies without the mutex, because the reception thread needs it
first to find the request; a spurious wakeup reopens the window.

*Node API.* What a user holds is advertised, what is listed is served and a node that ended
has left nothing in the shared books, apart from pending requests.

*Recorder.* Whatever Stop interrupts, nothing is lost, doubled or reordered, since Stop joins
before it flushes. A callback that had found the writer running may queue one message after
the flush; the next recording gets it (`WrittenOnce`). The byte count covers the queue, so
that the branch that "shouldn't happen" does not, but it is not the size of the queue.
The rows that a dying process takes with it are those of one transaction period, from the oldest
to the newest, while SQLite does not fail, and a Stop leaves none (`OnDisk`). How long ago the
newest came is not bounded: between insertions nothing ends a transaction, and without a message
to follow a row waits for `Stop`. `StopReturns` excepts a missed notification; without the
exception it is violated. A matching topic is recorded unless it appears between the listing
and the storing of the pattern (`MatchingIsRecorded`).

*Playback.* One message is late at most, a step from a settled pause is exact, Resume plays
to the end, Stop and WaitUntilFinished return with the exceptions that the properties name:
`missed`, and another user's Pause during Stop.

*The small parts.* Their properties are conjuncts of those of `NodeParts` and `MCParts`, each stated
and commented in its module.

### Divergences

With a run (`PROJECT.json`, "findings", quotes the texts):

1. `pubq_remap`: `Unsubscribe` of a remapped topic removes nothing (`node_shared.cpp:1974`).
2. `reg_both`: UNADVERTISE deletes the same node's remote subscription (`node_shared.cpp:1169`).

Met while reading and modelling, without a run of their own. Where a property of the
project would fail because of one, the property names the exception.

*Discovery and registration.*
- `discovery.hpp:1073`: a HOST-scoped topic is known on another machine when a relay
  multicasts it there (against `advertise_options.hpp:39-40`).
- `discovery.hpp:886`: copies of unadvertised topics are advertised again by a heartbeat
  under way; a lost UNADVERTISE is never repaired while the process lives; a PROCESS-scoped
  topic is sent by each heartbeat and dropped by the receivers only.
- `discovery.hpp:896`: initialized in the third heartbeat cycle, "after two" by the comment.
- `discovery.hpp:734`: two callers of TopicList take each other's answers away; a late
  answer is missed; the own process's subscribers are not listed.
- `node_shared.cpp:1148`: an Unsubscribe may send END_CONNECTION before the NEW_CONNECTION.
- `node_shared.cpp:2036`: the other way round, an Unsubscribe that has let go of the mutex may send
  END_CONNECTION after another thread has subscribed in the same node and its NEW_CONNECTION has
  gone out: the publisher drops the subscriber, which has no reason to register again.
- `node_shared.cpp:149`: no NodeShared is ever deleted, so that no process of nodes sends BYE or
  joins its threads; others learn of its end by its silence.
- `node_shared.cpp:1151`: a lost NEW_CONNECTION is never sent again.
- `node_shared.cpp:1184`: the connections of a process that ended are never removed.
- `publisher.cpp`: `MessagePublisher::SetOptions` sets only the derived class's options, while
  `FillDiscovery` sends the scope of the base. `==` compares what the virtual `Options()` returns, as
  `AdvertiseOptions`: the derived class's scope, but no rate. After SetOptions with another scope
  the record that others make is therefore not equal to the one that was sent (`Same`).

*Local delivery.*
- `node_shared.cpp:1799`, `node.cpp:517`: a callback can begin after `Unsubscribe` returned
  (comment at 1979-1980).
- `node_shared.cpp:1801`: raw handlers, and `PublishRaw`, do not honour
  `SetIgnoreLocalMessages`.
- `node_shared.cpp:572`: for malformed data the comment is wrong: with a typed handler first
  everyone is called, with a generic one first nobody. `PublishThread` catches a callback's
  exceptions, `TriggerCallbacks` does not. A `DynamicMessage` published in the process is not
  given to typed handlers.
- `node.cpp:119`, `subscription_handler.cpp`: the threads of one handler can pass many times
  in a period; a rate of 0 gives an infinite period.

*Services.*
- `detail/node.hpp:560`: a timed-out request stays and is executed by a later server; also
  after its node has ended.
- `rep_handler.hpp`: the callback runs with a partially parsed request when parsing fails;
  a local callback may run after `UnadvertiseSrv`. With ZeroMQ a waiting Request with reply type Empty
  to another process can only time out; within the process it succeeds. A blocking Request
  in a callback of the reception thread can only time out.

*Node API.*
- `node.cpp:762`: `UnadvertiseSrv` has the slip of `Unsubscribe` with remapped names.
- `EnableStats` twice makes its publisher invalid; `handle = node.Advertise(sameTopic)` ends
  invalid and unadvertised; move assignment to a valid Subscriber leaks its subscription; a
  service advertised twice returns false and keeps the new handler for local calls.

*Names.*
- `topic_utils.cpp`: `CreateLivelinessToken` of an invalid topic is not empty, so that the
  callers' tests never see it; the token of an empty partition cannot be taken apart; '%' comes
  back as '/'.
- `node.cpp:800-805`, `:819-828`: a node whose partition begins or ends with a slash lists no
  topics and no services.

*Statistics and clocks.*
- `topic_statistics.cpp:137`: a gap of any length counts as one drop; a further sender's first
  message counts as one unless its number is 1. `EnableStats` and `TopicStats` read the maps
  without the mutex. Processes that disagree on the environment variable of statistics read
  each other's frames wrongly (`node_shared.cpp:463`).
- `clock.cpp:105`: seconds are cut to an `int`; the time set is known only after the own
  subscription has delivered it.

*Log, recorder, playback.*
- `log/src/log.cpp:609`: `EndTime` loops for ever when its query fails; a message refused at 319
  leaves its topic and transaction; a transaction ends only by a later insertion or ~Log.
- `log/src/log.cpp:531`, `:569`: StartTime and EndTime store 0 in the cache before they ask. When the query
  fails (543-555, 581-617) the 0 stays and is the answer until the next insertion, of a log with
  messages too; of a database whose rows fail halfway, EndTime keeps the time of any of them.
- `log/src/recorder.cpp:367`: "Current size of the buffer (in bytes)" (166) is not that: a written
  message is not subtracted, so that after `maxBufferSize` bytes in all every message
  discards another one if there is one (`BufferBounded` says what is left of the limit).
- `log/src/recorder.cpp:385`: Stop can wait for ever (`StopReturns`, `missed`).
- `log/src/recorder.cpp:251`: "Clock isn't ready yet. Dropping message" does not drop it; `stopQueue`
  is never read.
- `log/src/recorder.cpp:138`: `topicMutex` is never locked: a topic may be subscribed twice, or
  missed though `recorder.hpp:97-98` promises otherwise.
- `log/src/playback.cpp:634`: Pause and Stop let one more message out; `:663`: a racing Seek
  leaves a stale `nextMessageTime`, one past the end dereferences the end of the batch; `:689`: a
  Pause by a second controller can make Stop wait for ever, and a Resume during the last wait
  of a step is undone by the step's end.

*Parameters and factories.*
- `parameters/client.cpp`: `Parameter()` ignores the result of `getParameterCommon`; a set or declare
  that timed out may still be executed.
- `parameters/registry.cpp:164`: a value that cannot be unpacked is parsed into the stored message, so
  that the parameter may change although the client is told `Unexpected`; a declaration of one (186)
  changes nothing. A value that the client cannot pack is not sent at all, which is not modelled.
- `parameters/registry.cpp`: `DeclareParameter(name, msg)` ignores that the name was
  declared already, and returns success.
- `dynamic_factory.cpp:107`: a file whose imports come later is not tried again; the maps are
  not locked; a type listed under a converted prefix cannot be made by its own name.

*Zenoh.*
- `discovery.hpp:262`, `node_shared.cpp:1100`: the liveliness handler holds `Discovery::mutex` and
  wants `NodeShared::mutex`, the end of a Publisher the other way round: a deadlock, which
  the TODO at `discovery.hpp:263` foresees.
- The test for a second Advertise reads books that are filled later; the end of one handler's
  token removes a node of which another remains; `SendMsg` still sends datagrams; a raw subscription sets its
  callback after the subscriber is declared.
- `req_handler.cpp:129`: a Request "using a non-blocking call" (`node.hpp:671`) returns when the query has
  ended, and a blocking one may take as long before its timeout begins, both with
  `NodeShared::mutex` held; a callback of the response that uses the node (`req_handler.hpp:279`) waits
  for that mutex on Zenoh's thread, and neither goes on.
- `rep_handler.cpp:107`: a responder that returns false never replies: a callback is not told,
  and a blocking call reports a timeout, though "true when the request was
  executed" (`node.hpp:785`).
- A query goes by name only: a server of other types under the same name executes it too, and
  with several servers all do, though "only one of the available service providers will
  handle it" (`node.hpp:566`). `ServiceCall`'s servers compare types.

## 5. Proofs

Each component's theorems are in a module `...Proofs` beside it, `NodePartsProofs` and
`MCPartsProofs` have those of the small modules. They hold for every value of the constants: any sets of
processes, threads, handlers, requests, any sizes and bounds.

| Module | Theorem | Statement |
|---|---|---|
| `DiscoveryProofs` | `TypeCorrect` | `Spec => []TypeOK` |
| | `KnownIsTimed` | `Spec => []EveryKnownIsTimed` |
| | `KnownIsAnnounced` | `Spec => []EveryKnownIsAnnounced` |
| | `OwnIsTheUsers` | `Spec => OwnOnlyByUser` |
| | `RelaysDoNotEcho` | `Spec => []RelayedOnce` |
| | `ScopeWithoutRelays` | `Spec => []ScopeRespected` where nobody was given a relay |
| | `LiveIsNotExpired` | `Spec => []LiveNotExpired` where nobody was given a relay |
| `PubQueueProofs` | `TypeCorrect` | `Spec => []TypeOK` |
| | `DeliveryImplemented` | `Spec => ImplementsDelivery` where no name is remapped |
| | `NothingAfterUnsubscribe` | `Spec => GoneTakesNothing` where no name is remapped |
| `RegistrationProofs` | `TypeCorrect` | `Spec => []TypeOK` |
| | `SubscriberIsConnected` | `Spec => []KnownIsConnected` |
| | `OnlyItsNodeRemoves` | `Spec => RemovedByItsNode` where no node both advertises and subscribes |
| `ServiceCallProofs` | `TypeCorrect` | `Spec => []TypeOK` |
| | `OneCopyOneAnswer` | `Spec => []Once` |
| | `CallsImplemented` | `Spec => ImplementsCalls` |
| `RecorderProofs` | `TypeCorrect` | `Spec => []TypeOK` |
| | `EverythingIsWrittenOnce` | `Spec => []WrittenOnce` |
| | `BufferStaysBounded` | `Spec => []BufferBounded` |
| | `LossIsOfOnePeriod` | `Spec => OnDisk` |
| `PlaybackProofs` | `OneMoreAtMost` | `Spec => []AtMostOneLate` |
| | `StepsAreExact` | `Spec => StepIsExact` |
| `NodePartsProofs` | `NamesAreKept` | `NodePartsSpec => []NamesSurvive` (TopicNames, PublisherRecords) |
| | `BooksOfNodesAgree` | `NodePartsSpec => []NodeState` (NodeApi) |
| | `TokensAreInBooks` | `NodePartsSpec => []BooksAgreeWithTokens` (Liveliness) |
| | `QueriesTypeCorrect` | `TypeOK` of ZenohCalls |
| | `QueriesAreSound` | `NodePartsSpec => []QueriesSound` (ZenohCalls) |
| `MCPartsProofs` | `NodePartsAmongThem` | `PartsSpec => NodePartsSpec` |
| | `RateIsKept` | `PartsSpec => []RateKept` (Throttling) |
| | `ClientsToldTheTruth` | `PartsSpec => []ClientsAreTold` (Parameters) |
| | `ListsOfTheirCalls` | `PartsSpec => []ListIsOfThisCall` (SubscriberList) |
| | `HandlersAreSuited` | `PartsSpec => []HandlersSuit` (MessageHandlers, ServiceAnswers) |
| | `ClocksAreFollowed` | `PartsSpec => []ClocksFollow` (Clocks) |
| | `DropsAreCounted` | `PartsSpec => []DropsBounded` (TopicStatistics) |
| | `TopicsAreRecorded` | `PartsSpec => []MatchingIsRecorded` (RecorderTopics) |
| | `ListedCanBeMade` | `PartsSpec => []ListedIsMade` (Factories) |
| | `LogsAnswer` | `PartsSpec => []LogAnswers` (LogHandle, LogFile, LogQuery) |

These are all the invariants and action properties of the runs; what else the runs check is
liveness.

### Assumptions

Most are types of the constants: `TopologyAssumption` and `ParameterAssumption`
(Discovery), `SubscriptionAssumption` and `BoundAssumption` (PubQueue), `NameAssumption`
and `BoundAssumption` (Registration), `CallAssumption` (ServiceCall), `BufferAssumption`
and `BoundAssumption` (Recorder), `PlaybackAssumption` (the log's rows are a sequence
of messages whose topics it knows), `ParametersAssumption`, and those of `NodeParts` and
`MCParts`. TLC evaluates all of them in the runs. The ones that say more than a type:

- *No relays* (`ScopeWithoutRelays`, `LiveIsNotExpired`): with relays the first statement is
  false (`discovery.hpp:1073`, see above); the second is not claimed.
- `Remapped = {}` (PubQueue): with a remapped name it is false, which is the run `pubq_remap`.
  The other theorem of PubQueue has no such hypothesis.
- `PubNodes \cap SubNodes = {}` (`OnlyItsNodeRemoves`): otherwise false, the run `reg_both`.
- A value for "none" is no request (ServiceCall, ZenohCalls); somebody calls the playback
  (`Users # {}`), without which there is no thread that could be late.
- `HandlersAssumption`: a handler is of one class, and a typed one is made for a type that is
  linked into the program: that is what its template parameter means.
- `NamesAssumption`: what users pass are texts, finite sequences of any characters, and the
  name of a message type, which is that of a protobuf message, has no slash. A raw
  publisher can be given another type name; its token has a field too many.
- `FilesAssumption`: finitely many files of descriptors, each with a number of descriptors;
  the order in which a directory has them is a sequence.
- `StatisticsAssumption`: finitely many senders, without which there is no count of them.

### The inductive invariants

*Discovery.* `TypeOK` is inductive by itself. The two invariants about what is known are
not: a step that receives an ADVERTISE keeps them only if the datagram's sender is the
publisher's process (`AuthenticNet`), a step of the own threads only if what they carry is
their own (`AuthenticThreads`), and own entries are never timed (`OwnUntimed`).
`IInv == TypeOK /\ Authentic /\ Kept`, with `Kept` the two, is inductive. `Authentic` also
forbids a BYE from deleting own entries, hence `OwnIsTheUsers`. The scope theorem adds that
without relays every datagram comes from the machine of its author (`Direct`); that there is no
echo rests on `Relayed`, which says for each flag by whom a datagram may have been sent. That no
running process expires is an account of heartbeats (`Alive`): the age of a time stamp is at
most the number of datagrams lost, and one more while a heartbeat is due or on its way;
then only a process that is late, or more losses than the silence has intervals, could expire it.

*PubQueue.* The abstract history of `Delivery` is a function of what callers, queue and worker
carry. A step maps to one of `Delivery` or to none, if `Order` holds: what a publisher is at
comes after all it has queued, the queue is ordered for each publisher, and the worker's entry
comes before it. The steps of Unsubscribe need `Leavers`: what is being removed is still
registered, and what has been removed is not. The proof of `Reception` shows that the one
reception thread is in one callback at most.

*Registration.* `TypeOK` needs that every set that is sent member by member is finite
(`Registered`). `KnownIsConnected` is then inductive: that is why it excepts the
publisher whose callback is about to run, and counts the filter's instances.

*ServiceCall.* `Once` says where the one copy of a request is (stored, on one wire, served by
one server, executed) and where its one answer (executed, on its way back, at the thread that
notifies, told). It rests on the order "mark, then send": what is stored was not sent. Every
step then maps to a step of `Calls`, or to none.

*Recorder.* `WrittenOnce` follows from a stronger account, `Conserved`: files, table, what the
writer has in hand and queue, one after the other, are what was taken without what was
discarded or given up. `Numbered` makes the messages different from each other; `Late` says that
after a flush each callback can queue one more message, its last; `Waits` says that no row
has waited longer than its transaction is old, that there is none without a transaction, and
that `spread` is within the period while SQLite does not fail. `BufferBounded` needs the sum of the lengths in the
queue, a recursive function; the facts about sums are proved by taking the least
number at which one would fail, since the library's induction theorems cannot be used.

*Playback.* `AtMostOneLate` is not inductive. `LateInv` says where the thread can be once a
message has gone out against the command in force: with `paused`, not past its test of it; with
`stop`, in or after the loop's test; at the end of a step, with the next message's time read
and the step known to end. `StepIsExact` has an invariant of its own, `Exact`: in a step
from a settled pause nothing is late, `nextMessageTime` is the time of the iterator's message, a
thread that waits for a message waits for one within the step, one that waits for the step's end has
no message left in it, and what it has waited for and has left to wait adds up to the step.

*Small parts.* `Throttled`: the last time is that of the last message that passed, and nothing
is later than now. `Responsive`: a request belongs to its client's call and is either
pending or applied, and a response on its way is already true: a failing one of a set answers a
value that cannot be unpacked. `Listing`: between its clearing
and its reading, a call may read what has been answered since. `Held` is the largest: what each
thread is in the middle of (`Working`), that nobody else knows a publisher which is being
destroyed (`Publishing`), that an announced service has a responder of the same node
(`Serving`), and that a destructor has listed all that is left of its node (`Leaving`). `Handling`:
who can take a message is called or still to be looked at. `Answering`: the handler of a call was
offered for its types. `Following`: what is under way to a clock ends with what was set
last. `Counting`: numbers of a sender come in order, so that a gap is a loss. `Surviving`
adds to the property only what the records' fields are, and that what was received has the scope that was sent. `QueryInvariant` of ZenohCalls: who
holds the mutex is sending or about to wait (`MutexHolders`), what is to be sent is
no query yet (`QuerySenders`), each server has a request once (`AskedOnce`), a reply under way comes
from a callback that returned true (`RepliesAreTrue`), one thread hands an answer over
(`OneEnding`), and who is about to wait has no answer (`WaitingCallers`), which is why the wakeup
cannot be missed.

*Names.* The invariant `NameKept` only says from what each stage of a name was made; the work
is in what the operators do to any text. `Split` undoes `Join` when no piece has the separator
(`SplitJoined`), which the places where the pieces end decide (`Ending`). A name is valid where it has
no forbidden character and no two adjacent ones that clash (`ValidIs`: `Proper`, place by place,
which joins of texts preserve unless they clash at the seam, `ProperJoined`). From this a fully
qualified name is `@` partition `@` topic with neither part having an `@` (`Named`); so it is taken apart as
it was put together (`TakenApart`), makes itself again (`MadeAgain`) and is listed in its own partition
and no other (`ListedThere`). Mangling is undone where there was no `%` (`Mangled`); the fields of a
token have no slash (`FieldsAreTexts`), so that it is understood as what was put in
(`TokenUnderstood`). `AsValidTopic` leaves a valid topic as it is, since no step of its pass
applies (`AsValidTopicIs`).

*Logs.* `CachesHold` is inductive together with `GuessesHold`: what is guessed is cached, so that
an insertion, which uncaches it, leaves no guess behind, and cached times are numbers. What a query returns is the rows it asks for, in order and each
once: a statement orders its rows by rank (`StatementIsOrdered`), what it selects from a table
splits at any place between two rows (`StatementSplits`), and so what the iterator has seen and
what it has not add up to the statement's rows at each of its steps (`SeenOfOne`). That the queries by topic and by
type find a row rests on the table of topics: `Numbered`, no two keys have one number or one
topic and type, and `KeysHold`, each row's topic is in it, which an insertion that fails halfway
keeps (`KeysOfInsert`).

*Topics of a recorder.* Nothing is locked between the test whether a name is subscribed, the
subscription and the insertion of the name, so `Recording` counts: each topic has as many
subscriptions as names (`NamesOf`, those inserted and those about to be), and one more at most.
The one more can come about in one way only, since the reception thread handles an announced topic
once: `NotYet` says that it has still to come, `Twice` that the user's thread is about to
subscribe to a name that is there, `Hidden` that it may still find it missing; in
each of these nothing was subscribed twice so far. `Found` says whose list has what is still to
be added.

*Liveliness.* `BooksAgreeWithTokens` speaks of the moments in which no sample is under way;
`Agreeing` says at every moment what the samples will make of the books. Who is listed has a
token or a sample under way (`EntriesAlive`); a key whose last sample is a PUT is declared
(`PutsAreLive`, with which a PUT can be believed); a token is listed while no sample of its owner is
under way, or its PUT is the last of them (`LiveListed`), unless its node has had tokens of two types
(`MixedKnown`); and NodeShared's book lags behind that of Discovery by the callback under
way (`CalledBack`).

*Factories.* `Making`: pool and names agree, no type is in two descriptor files, and what is
imported is there. That it holds after a whole directory is an induction over the files and
another over each file's descriptors, which take the least number at which it would fail.

Five proofs corrected the model or the argument. `StepIsExact` could not be proved of a playback
whose `Tick` capped the time elapsed: an end of a step that compares two capped times can see
them equal; time is not capped any more. It also counted as settled a pause in which a Seek was
under way, whose second half would move the iterator during the step. The order of a statement's rows,
which was a sort by the library's `SetToSortSeq`, of which nothing can be proved, is the rank of
each row. The cases of ZenohCalls' `Request` overlapped, so that
`CASE` could have chosen either; they are nested conditions now, as in the code. Loading
descriptors, which was one fold over all files, has the lambda `loadDescFile` of the code as an operator
of its own. And that a node
leaves nothing behind cannot be shown from the destructor of that node alone: the invariant
`Leaving` has to speak of every thread, since Subscribers of the node may unsubscribe meanwhile.

### What stays with TLC

- *Liveness, fairness*: out of the prover's reach. `Convergence`, `GoneIsForgotten`,
  `EventuallyDelivered`, `StopReturns` and the other temporal properties are checked on the instances of section 3 only.
- *Where a hypothesis excludes something*: `LiveNotExpired` with relays is checked in no run
  and not claimed; `ScopeRespected` with relays, remapped names, and nodes that publish and
  subscribe one topic are the cases in which the statements are false.

The facts about sequences, sums and counts that need an induction are proved by the least number at
which they would fail (`LeastNumber`, `UpTo`), because the library's induction theorems cannot be used; a
recursive function is shown to exist in the same way (`Recursion`).

## 6. Not modelled

- *Security*: ZeroMQ's authentication decides whether a connection exists at all.
- *Network and identity helpers, utilities, environment variables, command line tools, C and
  Python interfaces*: input, output and wrappers; examples, build files, and the vendored
  test library.
- *Sockets*: the version check of a datagram, interfaces, ZeroMQ's transfer of topic messages
  (PUB/SUB with filters; it may drop at its high-water mark).
- *Zenoh's delivery of messages*, and what its sessions do beyond the assumptions of `Liveliness` and
  `ZenohCalls`. That calls return and stored requests leave with Zenoh is not stated as liveness.
- *SQL*: the text of the statements and the schema; SQLite is a table with transactions.
- *Floating point*: averages and deviations of the statistics. `WallClock` adds a constant.
- Of the node: `WaitForShutdown`, `ServiceInfo`; of the recorder: `Sync`, a Start whose file
  does not open (it changes nothing), `SetBufferSize` during a recording; of the playback: the second
  handle when SQLite is not multi-threaded.

## 7. What is left

Every module of section 2 is checked, and every invariant and action property of the runs is
proved. What a continuation would take up:

1. `LiveNotExpired` with relays, of which the account of heartbeats would have to include the
   copies on their way.
2. Liveness of `ZenohCalls`: that calls return and stored requests leave.
3. `Sync` of the recorder, a Start whose file does not open, the order of `Publisher()`'s choice.

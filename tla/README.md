# Formal model of the large-scale shopping application

The system is a shopping-list application for several users. Each client keeps
its lists in a local database and edits them offline; in *cloud mode* it sends
them to a broker, which hands each request to one of a pool of workers; the
worker passes it on to the workers a consistent-hash ring says the list belongs
to; those merge it into their databases (the lists are CRDTs) and publish the
result, through the broker, to the clients subscribed to the list.

This directory holds TLA+ modules for the parts that carry that logic, the TLC
configurations that check them on small instances, and TLAPS proofs. Paths below
are relative to the root of the source repository (`src/`); `PROJECT.json` maps
every definition to its lines.

    tlc -workers 2 -config ListReplicas.cfg MCListReplicas     one of the runs
    tlapm ListReplicas_proofs.tla                              one of the proofs

## Inventory

| Component | State | Operations | Correct when |
|---|---|---|---|
| List CRDT (`crdt/ormap.h`, `crdt/shopping_list.h`) | version vector, entries `(replica, seq) -> value` per item | inc, dec, read, join, from/to JSON | a clock determines the entries; dots are unique; nothing is counted twice |
| Client (`client/main.cpp`, `client/majClient.cpp`) | local database, list in session, subscriptions, cloud-mode flag, three threads | menu choices 1–4, edit menu, save, updateList, heartbeats | the two threads that write lists lose nothing of each other |
| Request handler (`worker/request_handler.cpp`) | the worker's database | CREATE_LIST, GET_LIST, UPDATE_LIST, each publishing | updates only add |
| Database (`database.h`) | a map behind a mutex, files | get, set, del, exists, load, save | what was saved is there at the next start |
| Consistent hashing (`server/consistent_hashing.cpp`) | hash -> server, server -> push socket | addServer, getServer, getNextServer, updateCH | targets are the next distinct servers clockwise |
| Worker ring (`worker/majWorker.cpp`) | ring, push sockets | join, JOIN_RING, BROADCAST_RING, RECV_WORK, REQUEST | the rings agree, requests reach the primary, sockets exist |
| Broker session of a worker (`worker/majWorker.cpp`) | liveness, heartbeat time, reply address | READY, REPLY, WORKER_OCCUPIED, HEARTBEAT, DISCONNECT | a forgotten worker learns of it |
| Broker (`broker/majBroker.cpp`) | workers, waiting set and list, request queue, client list | client request, worker messages, purge, heartbeats, forwarding of publications | no dangling pointer, no request stuck beside a free worker |
| Client heartbeats (`client/majClient.cpp`, `client/main.cpp`) | `cloud_mode`, expiry, the broker's client list | heartbeat thread, expiry, resubscription | cloud mode follows the broker's health; what is held is followed |
| Envelopes (`zmq/zmsg.hpp`, `zmq/mdp.h`) | frames of a message | wrap, unwrap, push, pop, encoding of identities | what goes in comes out, whatever hops are between |
| ZeroMQ guide examples (`zmq/`) | brokers, workers, clients, a disk queue, a failover pair, peers | Majordomo, Titanic, Binary Star, Peering | a call returns its own result; accepted work is done; one server is active; a reply finds its client |

**Interaction.** Client and broker: DEALER/ROUTER for requests and replies,
another pair for heartbeats, SUB/PUB for updates. Broker and worker:
DEALER/ROUTER. Worker and worker: PUSH/PULL. A client's main thread, update
listener and heartbeat thread share the database and the client object.

**Hard behaviours.** Two threads that each read, join and write one database
entry; databases saved only at exit; lost publications; requests overtaking each
other; joins of the ring at the same time and with restarts; slow workers taken
for dead with messages of theirs under way; work the workers pass on without the
broker knowing; heartbeats, expiry and requests on two threads that share
unguarded variables; messages of a socket its process has closed; a process that
dies between two writes to the disk. `PROJECT.json` lists each at its line under
`hazards`, with the properties aimed at it, or why none covers it.

The programs in `zmq/` are the examples of the ZeroMQ guide, kept beside the
application and rewritten in C++ there. The application's broker, worker and
client are descendants of the Majordomo ones and no process of it calls the
others; four of them have protocols of their own and are modelled.

## Modules

    ShoppingList          the data type (pure operators)
      ListReplicas        all copies of one list: clients, workers, messages
        SharedList        what ListReplicas implements
        MCListReplicas
        ListReplicas_proofs
    HashRing              consistent hashing (pure operators)
      WorkerRing          the workers' ring and the distribution of requests
        MCWorkerRing
        WorkerRing_proofs   (also of WorkerSession)
    WorkerSession         a worker's count of the broker's silence
    Line                  the workers in line for a service (pure operators)
      Broker              the broker and its sessions with the workers
        MCBroker
        Broker_proofs
      Majordomo           the example's broker, workers and clients
        ServiceCall       what Majordomo implements
        MCMajordomo
        Majordomo_proofs
    FiniteRecursion       lemmas about recursive functions and counting, for the
                          proofs about WorkerRing, Broker and Majordomo
    Envelopes             frames of the messages (pure operators)
      CloudMode           a client, its heartbeats and its requests, the broker
        MCCloudMode
        CloudMode_proofs
    Titanic               requests kept on disk
      MCTitanic
      Titanic_proofs
    BinaryStar            a pair of servers of which one is active
    Peering               brokers that pass requests to each other
      Peering_proofs        (also of BinaryStar)

**ShoppingList.** A copy is a record `[id, vc, map]`: the replica id it edits
under, the version vector of the `DotContext`, and the map flattened to a set of
entries `[item, rep, seq, val]`. `Put` is the common tail of `inc` and `dec`;
`JoinMap` is `ORMap::join` over `DotKernel::join`, item by item from one initial
context. The dot cloud is left out: no operation of the program ever fills it.

**ListReplicas.** One list (one url) and every copy of it. Each Database method
is one atomic step, because it holds the mutex; the sequences
get–join–set of `saveListToLocal` and `updateList` are not, so they are split
(`SaveRead`/`SaveWrite`, `ReceiveUpdate`/`ListenerGet`/`ListenerMerge` or
`ListenerCreate`). A request to the cloud reaches any subset of the workers, in
any order, or none: the broker and the ring, modelled on their own below, decide
which. A publication reaches any subset of the subscribers. Whether the client
is in cloud mode is left open at each request. `Restart` is a normal exit and
the next start, `Crash` a death without `Database::save`. `minted` is a history
variable: all entries edits ever made. `CrashInSave` is a death within
`Database::save` at the exit: the files are deleted first, so the list is gone
from both. `Serialized = TRUE` restricts the schedules to those in which the read-join-write windows of one client's threads
do not overlap; `FALSE` is the code as it is.

**SharedList** is the promise: edits are made, each place hears of each
editor's edits in their order, and holds, of every editor and item, the last it
has heard of. `Shared` in ListReplicas maps a copy to the edits its clock counts
(`HeardAt`) and its entries (`HeldAt`). Workers may forget when they crash, or when a
CREATE_LIST replaces their copy; clients may only drop the list.

**HashRing, WorkerRing.** A ring is the set of its servers, `Position` the hash.
`WorkerRing` has ordered channels between each two workers (PUSH/PULL) in which
messages to a process that is not up wait; `Stop` loses, of each peer, what the
sockets held. Here `Serialized = TRUE` means that a worker is stopped when
nothing is in transit, and started when its seed runs and no other worker, the
stopped ones included, has news of the ring waiting for it. So while a worker is
stopped one other may come, and none after it until the first is back.

**Broker.** The broker's state is one record `b`, so that its procedures are
operators on it (`Require`, `Delete`, `Purge`, `Dispatch`, `Waiting`) that are
composed the way the code calls them. The waiting *set* of the broker and the
waiting *list* of the service are both kept, since they differ. Workers reply,
send heartbeats, pass requests to each other (which ones is the subject of
WorkerRing; here any) and end; `Tick` is a heartbeat interval. A worker that is
restarted has a new uuid, thus is another worker here.

**WorkerSession.** `m_liveness`, a `size_t` of `Modulus` values, in one turn of
`mdwrk::recv`: the two tests each take one off, and only the second would
connect again.

**Envelopes.** Messages as sequences of frames, and each function that wraps,
unwraps or reads one on its way from client to broker to worker, to another
worker, and back. A request's type, url and contents, and a reply's text, are
one frame each. Separately, byte by byte, `encode_uuid` and `decode_uuid`, which
`zmsg::recv` and `send` apply to identities.

**CloudMode.** One client with its three threads and one broker. The heartbeat
thread's step is split where it reads the shared flag (`Compare`, `Assign`,
`HbAct`); the main thread's `recv` where it tests the expiry and where it clears
the flag (`RecvOut`, `Expire`). `SendIfDue` has both outcomes of the unguarded
additions to `m_heartbeat_at`; the first value of `n_heartbeat_expiry` is any.
The copy that `main` takes of `cloud_mode` and what it then does are one step.
The broker answers a request in the step that takes it, which may come late,
with any replies Envelopes allows; `waiting` is that some worker waits. A url
nothing is left of stands for a new one, and two heartbeats under way count as
one. Leaving the program is left out.

**Majordomo.** `zmq/mdbroker.cpp` with the sessions of `mdwrkapi.hpp` and
`mdcliapi.hpp`, which open a socket with a new identity whenever they connect
again; messages of the old socket may still be read. An uninitialised
`m_workers` starts with any value of `Garbage`. **ServiceCall** is the promise:
calls, executions, each after its call and at most one per sending, and one
return with the result of one.

**Titanic.** The three services and the dispatcher of `zmq/titanic.cpp`, one
step per access to the disk or the inproc pipe, and the program of
`ticlient.cpp`. Writing a file is two steps (it exists, it is written), so a
thread may find it empty and a crash may leave it so. The disk may also not take
what is written: a file does not open, or stays empty, or a line is not added.
The code asks only whether the request's file opened, and asserts it
(`SaveFails`); elsewhere it goes on (`Save`, `AppendFails`, `RepFails`,
`CommitFails`, `RewriteFails`), and `lost` records what is missing. What can be
opened can be read, and a line of the queue is there whole or not at all.
`Fault` counts such failures together with the deaths from outside. A null pointer
or failed assertion ends the process, as `Abort`; ServiceCall's contract stands
for the Majordomo calls in between.

**BinaryStar.** The state machine of `zmq/bstarsrv.cpp` for each of two servers,
what one has said and the other not yet read, and clients (`bstarcli.cpp`) that
turn to the other server. Servers start, end and start again at any time, with
states of a former life still on their way. `Prompt = TRUE` is an assumption
about time, which nothing in the code enforces: a state is read within half a
`HEARTBEAT` of its sending. A server sends every `HEARTBEAT`, first one
`HEARTBEAT` after its start, and its peer expires after two; so a state has been
read when the next goes out, before a server's first word there was a moment
with nothing on its way, and a peer expires only when it is gone and heard out
or has said nothing since it started again. With `Prompt = FALSE` nothing of
this is assumed.

**Peering.** `zmq/peering3.cpp`: brokers, each with client and worker threads,
that pass requests to peers. A turn of the broker's loop is one step up to the
routing, one for each request routed, and one that ends it with the publication
of the capacity.

Definitions named for a fault (each with a comment `Fault: ...`) are altered
forms of the definition that follows; substituting one must break the property
`PROJECT.json` pairs it with. They take no part in the specifications.

## Runs

| Run | Instance | Result |
|---|---|---|
| `lists` | 2 clients, 1 worker that may crash, 2 edits, 1 request and 1 publication under way, Serialized | `TypeOK`, `DotsUnique`, `Determined`, `OwnerLeads`, `LocalNeverForgets`, `IsSharedList` hold (827,000 states) |
| `restarts` | 1 client that restarts, crashes and dies while saving, 1 worker, 2 requests under way, threads interleave | `NoDoubleCount`, `CloudForgetsOnlyOnCreate` hold (1.9 million states) |
| `race` | 1 client, 1 worker, threads interleave | `StrongConvergence` **violated** |
| `buy` | 2 clients, 3 edits | `BuySubtracts` **violated** |
| `ring` | 3 workers in the Makefile's chain, 2 lists, 1 replica, 3 requests, two may stop | `TypeOK`, `RoutesConnected`, `TargetsAreNext`, `Agreement`, `PrimaryHolds`, `JoinersAreTold` hold (109,000 states) |
| `ring_joins` | joins at any time | `ConsistentDistribution` **violated** |
| `ring_replicas` | no stops | `Replicated` **violated** |
| `broker` | 2 workers, one may die, 2 requests, expiry after 2 ticks | `TypeOK`, `PointersValid`, `QueueServed`, `Answered`, `NotForgotten` hold (177,000 states) |
| `broker_forever` | 2 workers, expiry after 3 ticks as in the code | `BrokerForever` **violated** |
| `cloud` | 1 client, 1 list, 1 request, up to 2 replies to it, the broker crashing at will | `TypeOK`, `OffWhenSilent`, `HeldFollowed`, `RepliesIntact`, `ModeRecovers`, `SilentCloud` hold (641,000 states) |
| `majordomo` | 1 worker with 3 identities, 1 client, 2 calls sent twice at most, 1 question, 1 fault | `TypeOK`, `OneJob`, `CountKept`, `IsServiceCall`, `Recovered` hold (252,000 states) |
| `titanic` | 1 client, 2 uuids, calls sent twice at most, 1 fault (a crash or a failed write) besides the process's own ends | `TypeOK`, `Truthful`, `DoneIsDone`, `ClosedIsGone`, `Completed` hold (1.5 million states) |

`LocalNeverForgets`, `CloudForgetsOnlyOnCreate`, `BuySubtracts` and `CountKept`
are action properties; `IsSharedList` and `IsServiceCall` are refinements;
`JoinersAreTold`, `Answered`, `NotForgotten`, `ModeRecovers`, `SilentCloud`,
`Recovered` and `Completed` are liveness.

### What holds only with an exception

Some properties say less than one would wish, because the code does.

* `HeldFollowed` excepts the lists in `unfollowed`: those deleted (deletion takes
  one of several subscriptions off, and the list may come back), and all of them
  when the main thread cleared `cloud_mode` and a heartbeat set it again before
  the heartbeat thread looked (`client/main.cpp:221`). The next true change of
  mode mends it.
* `ClosedIsGone` and `Completed` hold while the Titanic process lives (`lossy`).
  A crash between the write of the `.req` file and the dispatcher's write of the
  queue leaves a request that is pending for ever (`zmq/titanic.cpp:120`).
* `DoneIsDone` and `Completed` except what the disk did not take (`lost`).
  `s_service_success` ignores what `s_zmsg_save` returns (`zmq/titanic.cpp:348`),
  and `s_zmsg_save` does not look at its stream once it is open: a reply that
  could not be written is missing or empty, its line is marked as done, and the
  client asks for it for ever. `DoneIsDone` says that there is no other way to
  a marked line without its reply.
* `Truthful` says that a reply comes only after the execution, not that the
  reply is whole: the file exists before it is written.
* `Agreement` is claimed of the schedules of `Serialized` only: `ring_joins` shows
  what two joins at a time do, and news that waits for a stopped worker does the
  same. `RingsAgree` also leaves out restarts of the first worker, whose ring is
  then itself alone.
* `CountKept` is about differences: `m_workers` starts with what its memory held.
* A crash in `Database::save` loses the lists (`CrashInSave`), so no property
  says that what was saved once is there at the next start.

### What the violated properties show

* **race** — the update listener may write back a base it read before a save;
  the saved edit is gone, the next edit reuses its dot, and from then on two
  copies with equal clocks differ (`client/main.cpp:190`).
* **buy** — a client that deleted a list and got it again edits under a new id;
  `dec` takes its negative value for 0 and the second purchase replaces the
  first (`crdt/ormap.h:282`). The code's comment knows of negative *read*
  values; here the value read is positive.
* **ring_joins** — a worker that joins through one still joining: the broadcasts
  cross, and each replaces a ring that held the other joiner
  (`worker/majWorker.cpp:512`). The report promises consistent distribution.
* **ring_replicas** — a worker that is the first target handles the request and
  returns before the replicas are sent it (`worker/majWorker.cpp:397`).
* **broker_forever** — `WORKER_OCCUPIED` of a purged worker dereferences a null
  service (`broker/majBroker.cpp:289`).

### Bounds, and why they are enough

* Lists: two edits are the least with which one supersedes another, is lost, or
  collides with another; two clients give concurrent editors, and one worker is
  a third replica that joins in between. One request and one publication under
  way suffice for reordering because each holds a copy of any age while the
  others move; `restarts` has two requests, the least for one to overtake
  another, and one client, whose own threads are what interleaves.
  `BuySubtracts` needs three edits (one to have, two to buy).
* Ring: a chain of three is the least in which a joiner's seed is not everybody's
  seed; positions are out of start order, one list lies between two servers and the
  other past the last one, so that the wrap-arounds of the map are used.
  With one replica each list has two targets, a proper subset of the ring.
* Broker: two workers are the least for work to be passed on; two requests are
  the least for one to wait behind another; expiry 2 lets one silent tick pass
  without harm (the code has 3, used in `broker_forever`, where 2 changes
  nothing). `MaxBacklog` bounds messages to a slow worker when time passes.
* Cloud: `Interval` 1 puts the poll, the expiry and the broker's interval at the
  same tick, as in the code, where a delay of any length makes one late. One
  list, one request answered by two workers, and one subscription counted as
  "one or more" (`Unsubscribe` may leave it) are the least with which replies
  are left over and subscriptions lost. With two lists and no requests the
  invariants hold as well (1.8 million states).
* Majordomo: two calls are the least for a late result of one to meet the
  other; three identities allow two ghosts beside the worker. Two sendings of a
  call are the least that can run it twice.
* Titanic: two uuids are what one client can be given when its first call is
  sent again; so the dispatcher meets a request no one ever comes for. One fault
  is enough for two deaths: a write that fails may end the process later, when
  the dispatcher loads what is not there. With two faults the invariants hold as
  well (6.0 million states).
* Symmetry over clients, workers and uuids in the list runs is sound, since no
  definition names one, the sets that single some out contain the whole of
  their kind or nothing of it, and those runs check no liveness.
* Deadlock checking is off for the lists (with the last edit made and every
  client without the list, nothing needs to happen) and for the broker (the
  history ends with it); it is on for `ring`, `cloud`, `majordomo` and `titanic`.

### Fairness

`ListReplicas` states none, and no liveness is claimed of it. `WorkerRing`: weak
fairness of `Receive(u, v)`, because a running worker polls its PULL socket for
ever and that socket takes from its senders in turn. `Broker`: weak fairness of
the broker's handling of each worker's messages and of its timer, of each
worker's receiving and of its heartbeat, which are what the two poll loops do,
and of `Tick`, the passing of time. `CloudMode`: weak fairness of the client's
two threads, which loop over polls with timeouts, of the broker's processing and
its heartbeats; strong fairness of taking a heartbeat that is under way again and
again, and of `Tick`, which the steps without duration may disable but not for
ever. `Majordomo`: weak fairness of the broker's restart, of its reading of each
worker's sockets, which a ROUTER takes in turn, and of a worker's session while
its process runs. `Titanic`: weak fairness of the dispatcher's own steps, each
of which may fail instead where it writes, and strong
fairness of `CallSucceeds`: the service does not fail for ever. Starting,
stopping, dying, client requests and edits are never fair.

## Proofs

| Theorem | Says, for all values of the constants |
|---|---|
| `TypeCorrect` | `Spec => []TypeOK` of ListReplicas |
| `NeverDoubleCounts` | `Spec => []NoDoubleCount`, with races, crashes and restarts |
| `SerialCorrect` | `Spec => [](TypeOK /\ SerialInv)` under `Orderly` |
| `EditsHaveTheirOwnDots`, `CopiesAreDetermined`, `OwnersLead`, `LocalCopiesOnlyGrow` | `DotsUnique`, `Determined`, `OwnerLeads`, `LocalNeverForgets` under `Orderly` |
| `CopiesConverge` | `StrongConvergence` under `Orderly`: what `race` violates |
| `ImplementsSharedList` | `Spec => IsSharedList` under `Orderly`: ListReplicas implements SharedList |
| `RemovalHolds`, `AdditionWins` | of the data type: a removal outlives joins with copies that know nothing newer, and yields to an addition it has not seen |
| `WorkersKeepWhatTheyHeard` | `CloudForgetsOnlyOnCreate` of ListReplicas, with races, crashes and restarts |
| `RingTypes`, `AlwaysConnected`, `AlwaysNext` | `TypeOK`, `RoutesConnected`, `TargetsAreNext` of WorkerRing, whatever joins, stops and restarts overlap, for any number of replicas |
| `PrimaryAlwaysHolds` | `PrimaryHolds` of WorkerRing under `Serialized` |
| `RingsAgree` | `Agreement` of WorkerRing under `OneFirst(f)` |
| `BrokerTypes`, `NoDanglingPointer`, `QueueAlwaysServed` | `TypeOK`, `PointersValid`, `QueueServed` of Broker |
| `CloudTypes`, `NeverStale`, `AllFollowed`, `RepliesAlwaysIntact` | `TypeOK`, `OffWhenSilent`, `HeldFollowed`, `RepliesIntact` of CloudMode |
| `IdentitySurvives`, `OnlyIdentitiesSurvive` | of Envelopes: encoding and decoding an identity gives it back, and any other 33-byte frame with an `@` is altered |
| `SessionTypes`, `NeverReconnects` | of WorkerSession under `Sized`: the reconnection of a worker never comes; the count wraps around |
| `StarTypes`, `NeverTwoActive`, `NeverEnds` | of BinaryStar, the last two under `Prompt` |
| `MajordomoTypes`, `WorkersKeepStep`, `CountsKeepStep` | `TypeOK`, `OneJob`, `CountKept` of Majordomo |
| `ImplementsServiceCall` | `Spec => IsServiceCall`: Majordomo implements ServiceCall |
| `TypeCorrect`, `AcceptedStays`, `DoneHasReply`, `ClosedStaysGone` | `TypeOK`, `Truthful`, `DoneIsDone`, `ClosedIsGone` of Titanic, with `Invariant` the inductive one |
| `PeeringTypes`, `RepliesMatch`, `OnlyIdleOnesWork`, `NeverForwardedTwice` | of Peering under `Deployed` |

`Orderly` says `Serialized` and that no client is crash-prone; workers may
crash and everything may restart. The run `race` shows why the first is
needed. A client that crashes after its edits have reached the cloud starts
again with an older clock and reuses dots, which is why the second is.
`OneFirst(f)` says `Serialized`, that `f` is the only worker without a seed, and
that it is never stopped: a first worker that is started again is alone in its
ring, and rings no longer agree (`hazards`).
`Sized` says that the count starts at 3, as in the code, and that a `size_t` has
an even number of values, more than two. `Deployed` says that clients and workers have a
broker and no broker is its own peer.

**The argument.** `NoDoubleCount` is proved from a property of single copies
(`Single`) that `Put` and `Join` preserve, and from the fact that every copy in
the next state is one of the current ones, a join or an edit of them, or empty
(`AllInStep`). Convergence needs more. `SerialInv` is the conjunction of
`ThreadInv` (what a thread has read is still what the database holds),
`IdInv` (no two clients edit under one id), `LeadInv` (the client that edits
under an id has seen all its dots), `UniqueDots(minted)`, and `CopyInv` (each
copy is `Faithful`: its entries are those its clock calls for among all edits
made; and `Grounded`: its clock counts only edits made). `Determined` is not
inductive by itself: that a new edit leaves the other copies faithful needs its
dot to be new, thus `LeadInv`, which needs that a write-back does not lower the
clock, thus `ThreadInv`. The data-type part is in `ListReplicas_proofs`
too: `JoinFaithful` (a join of faithful copies is faithful), `PutFaithful`,
`OthersStayFaithful`, `FromJsonIdentity`.

The refinement needs no more than `SerialInv`: a step changes the copy of one
place at most, its clock rises or the place may forget, and `CopyInv` says that
the entries are the latest edits of those the clock counts. That workers keep what
they heard (`WorkersKeepWhatTheyHeard`) needs no `Orderly`: joins only raise
clocks, whatever is joined in whatever order.

In WorkerRing, `RoutesConnected` is inductive together with the types of ring,
sockets and channels (`MembershipTypeOK`), in which every ring that is told is
non-empty: a joiner is in the ring its seed broadcasts. No order of messages is
assumed. `TargetsAreNext` holds in any ring. `DistributeWork` is recursive, so
FiniteRecursion shows that a recursion over an interval of numbers has one
result and that a property kept by each turn holds of it; the turns of the loop
keep `InOrder`, that the targets so far are the first servers clockwise by their
rank (`Met` counts the servers met before one). `PrimaryHolds` follows from
`HandledInv`: of each request handled, each target has it or has a message of it
under way. `Agreement` needs to know what the channels hold between two joins:
`Around(f, M)` says that the first worker runs as soon as any does, that the
rings are all `M` or what news of `M` under way will make `M`, that sockets lead
to members of `M` only, and that at most one worker is joining. With a weaker
`Serialized`, under which a worker could start while another, stopped, had stale
news waiting for it, TLC finds five workers whose rings part for good; the
schedules in question are the ones `ring_joins` is about.

In Broker, `IInv` is the conjunction of the three invariants. `Consistent` states
of the broker are those in which its two lists of waiting workers hold known
workers only; each procedure takes one to another, and `Delete` mends one in
which the worker it deletes is the only fault.

In Majordomo, `InStep` says of every identity, also of those whose socket is
closed, that of its place in line, the REQUESTs and RESULTs under way and the job
at hand there is one at most, and one if its socket is open and the broker knows
it (`OneLoad`); that a READY
is the first message of a new socket, unknown to the broker and without work
(`OwnReady`); that the broker's work goes to workers it knows; and that sessions,
sockets and channels belong together. `OneLoad` is about closed sockets too
because a late message of one may still be read. The broker's operators are each
shown to make only such changes as keep this (`Changes`), and then composed as
the code calls them. `CountKept` follows from `Balanced`, the same count for each
operator. The refinement needs `Tracked` besides: every request is in one
service's queue or on the hands of one worker (`OneHolder`), nothing else is to
come to the address it came from, and if that is its client's present socket the
client awaits the result (`AllProper`); a client says and hears one thing at
a time (`ClientsSay`, `ClientsHear`), a worker replies to what it runs
(`WorkersSay`), and a result under way was executed (`RepliesRun`); the requests
of a call that are still live and its executions are together no more than its
sendings (`Budget`), so that each execution has a sending of its own. Each step
then maps to one of ServiceCall's, or to none.

In Titanic, `Inv` relates the threads' places to the disk: what a thread is about
to do is still to be done (`ThreadInv`, `CallInv`), what a client waits for is
under way to it (`ClientInv`), a uuid has one owner (`OwnInv`), the dispatcher's
copy of the queue agrees with the file but for its own pass (`PassInv`,
`QueueInv`), and a line marked as done has its reply file or a closed request,
or its reply is in `lost` (`DiskInv`). `LiveInv` is what holds only while the process lives.

In CloudMode, `ClockInv` says that in cloud mode the silence and the time to the
expiry add up to the interval, and that a poll under way ends when the heartbeat
expires; `FollowInv` says where a list held may be without subscription, and that
the heartbeat thread misses no change of mode but the main thread's. `AskInv`
bounds the requests. `RepliesIntact` needs that each function on the way is
undone by the one that answers it (`EnvelopeInv`): unwrapping gives back what was
wrapped, whatever the hops between. In BinaryStar the strengthening relates what a server has
said and the other not read to the states of both, and says of a server that has
started which of this is from a former life, and until when (`restless`,
`unheard`). In WorkerSession it gives the
count after each number of silent turns: 3, 1, 0, then the even numbers from the
top of the range downwards, so the test that reconnects is half a range away.

In Peering, `IInv` is the type invariant, the four properties, and three facts
about the messages under way: each is of its client's task at hand, there is at
most one per client and one per worker, and whoever has something to do has said
READY.

**Only model-checked.** All liveness, and the properties that are violated.
Beyond TLAPS here are liveness under fairness and ENABLED.

**Only proved.** BinaryStar, WorkerSession, Peering and the byte part of
Envelopes have theorems and no run. Their invariants were tried on small
instances before they were proved; the configurations are not kept, since the
theorems cover them. The theorems of WorkerSession are in `WorkerRing_proofs`,
those of BinaryStar in `Peering_proofs`.

## Not modelled, and why

* The broker's heartbeats to workers: they only set `m_liveness`, whose effect
  WorkerSession has. The `mmi` services of the application's broker: their
  answer is never sent.
* Two threads sending on one socket at once, part by part: the broker would
  read a message of mixed frames, for which it has assertions; a model of it
  would only show that they fail.
* File formats and JSON; the command line; titles; dumping of messages.
* Code no program of the system calls (`old_*`, `gset.h`, `counter.h`,
  `aworset.h`, `causal_context.h`, `data_types.h`). Some of it is commented out or does
  not compile once instantiated.
* The other examples of the ZeroMQ guide: `peering1.cpp` and `peering2.cpp` are
  steps towards `peering3.cpp`, the rest are demonstrations of one socket type.
* Several lists at once in `ListReplicas`: lists share no state but the
  database's map and the subscriptions, so one is enough; `WorkerRing` and
  `CloudMode` have sets of lists.

## Plan

1. Done: all modules, runs and theorems above.
2. Next models: a ring of five workers with stale broadcasts for a stopped one;
   for Broker an abstract pool in which a request goes to a worker that is free.

Bounds in guards: `MaxEdits`, `MaxReqs`, `MaxPubs` (ListReplicas); `MaxRequests`
(WorkerRing); `MaxRequests`, `MaxBacklog` (Broker); `MaxAsked`, `MaxSubs`,
`MaxLag`, `Fan` (CloudMode); `MaxCalls`, `MaxAsks`, `MaxFaults` (Majordomo);
`Uuids`, `MaxFaults` (Titanic); `MaxSaid` (BinaryStar); `MaxTasks` (Peering).

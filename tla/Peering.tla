------------------------------- MODULE Peering -------------------------------
(***************************************************************************)
(* The peering example (src/src/zmq/peering3.cpp): brokers, each a process *)
(* with client and worker threads of its own, that give a request to an    *)
(* idle worker of theirs when there is one, and to another broker when     *)
(* that one said it has some.                                              *)
(*                                                                         *)
(*   client_thread -> localfe -> broker -> localbe -> worker_thread        *)
(*                               broker -> cloudbe ~> cloudfe of a peer    *)
(*   capacities: statebe ~> statefe of the peers                           *)
(*                                                                         *)
(* A task is a number, not four random digits.  Sockets identify their     *)
(* peers by random identities, taken to differ.  Messages of one sender    *)
(* may be read in any order, but for capacities.  A broker's turn is one   *)
(* step up to the routing of requests, one step for each request, and one  *)
(* that ends it.  The end of a whole process is left out.                  *)
(***************************************************************************)
EXTENDS Integers, Sequences

CONSTANTS
    Brokers,
    Clients, Workers,   \* threads
    Home,       \* client or worker -> the broker of its process
    Peers,      \* broker -> the brokers named on its command line
    MaxTasks    \* bound: tasks a client makes

None == "none"

(* How it is started. *)
Deployed ==
    /\ Home \in [Clients \cup Workers -> Brokers]
    /\ Peers \in [Brokers -> SUBSET Brokers]
    /\ \A b \in Brokers : b \notin Peers[b]
    /\ None \notin Brokers
    /\ MaxTasks \in Nat

VARIABLES
    links,          \* sockets connected: kind, from, to
    msgs,           \* requests and replies, each at the place that reads it next
    ready,          \* workers whose READY is at their broker's localbe
    started,        \* workers that run
    cli,            \* client -> where it is
    task,           \* client -> tasks made so far
    monitor,        \* broker -> messages at its monitor socket
    statefe,        \* broker -> peer -> capacities published and not yet read
    at,             \* broker -> where in its turn it is
    workers,        \* broker -> the queue of available workers
    localCapacity,  \* broker -> local_capacity
    cloudCapacity,  \* broker -> cloud_capacity
    previous,       \* broker -> its local_capacity when the turn began
    dropped         \* history: clients a message of whom had no one to go to

vars == <<links, msgs, ready, started, cli, task, monitor, statefe, at, workers,
          localCapacity, cloudCapacity, previous, dropped>>

brokerVars == <<at, workers, localCapacity, cloudCapacity, previous, statefe>>
clientVars == <<cli, task, monitor>>

Places == ({"localfe", "cloudfe", "cloudbe"} \X Brokers)
          \cup ({"worker", "localbe"} \X Workers)
          \cup ({"client"} \X Clients)

(* origin: the broker that passed it on, as cloudfe sees it. *)
Message == [place : Places, client : Clients, task : 1 .. MaxTasks,
            origin : Brokers \cup {None}]

TypeOK ==
    /\ links \subseteq {"cloud", "state"} \X Brokers \X Brokers
    /\ msgs \subseteq Message
    /\ ready \subseteq Workers
    /\ started \subseteq Workers
    /\ cli \in [Clients -> {"idle", "waiting", "gone", "aborted"}]
    /\ task \in [Clients -> 0 .. MaxTasks]
    /\ monitor \in [Brokers -> Nat]
    /\ statefe \in [Brokers -> [Brokers -> Seq(Nat)]]
    /\ at \in [Brokers -> {"poll", "route"}]
    /\ workers \in [Brokers -> Seq(Workers)]
    /\ localCapacity \in [Brokers -> Nat]
    /\ cloudCapacity \in [Brokers -> Nat]
    /\ previous \in [Brokers -> Nat]
    /\ dropped \subseteq Clients

Init ==
    /\ links = {} /\ msgs = {} /\ ready = {} /\ started = {} /\ dropped = {}
    /\ cli = [c \in Clients |-> "idle"]
    /\ task = [c \in Clients |-> 0]
    /\ monitor = [b \in Brokers |-> 0]
    /\ statefe = [b \in Brokers |-> [p \in Brokers |-> <<>>]]
    /\ at = [b \in Brokers |-> "poll"]
    /\ workers = [b \in Brokers |-> <<>>]
    /\ localCapacity = [b \in Brokers |-> 0]
    /\ cloudCapacity = [b \in Brokers |-> 0]
    /\ previous = [b \in Brokers |-> 0]

(* A message goes on to the next place, or to none. *)
Move(m, place, origin) ==
    /\ msgs' = (msgs \ {m}) \cup {[m EXCEPT !.place = place, !.origin = origin]}
    /\ UNCHANGED dropped

Drop(m) ==
    /\ msgs' = msgs \ {m}
    /\ dropped' = dropped \cup {m.client}

At(kind, n) == {m \in msgs : m.place = <<kind, n>>}

-----------------------------------------------------------------------------
(* The threads. *)

(* client_thread: the next request of a burst. *)
Request(c) ==
    /\ cli[c] = "idle" /\ task[c] < MaxTasks
    /\ cli' = [cli EXCEPT ![c] = "waiting"]
    /\ task' = [task EXCEPT ![c] = @ + 1]
    /\ msgs' = msgs \cup {[place |-> <<"localfe", Home[c]>>, client |-> c,
                           task |-> task[c] + 1, origin |-> None]}
    /\ UNCHANGED <<links, ready, started, monitor, brokerVars, dropped>>

Report(c) == monitor' = [monitor EXCEPT ![Home[c]] = @ + 1]

(* A reply, which is asserted to be the task. *)
Answer(c) ==
    /\ cli[c] = "waiting"
    /\ \E m \in At("client", c) :
          /\ msgs' = msgs \ {m}
          /\ cli' = [cli EXCEPT ![c] = IF m.task = task[c] THEN "idle" ELSE "aborted"]
    /\ Report(c)
    /\ UNCHANGED <<links, ready, started, task, brokerVars, dropped>>

(* None for 10 seconds: the thread ends. *)
GiveUp(c) ==
    /\ cli[c] = "waiting" /\ At("client", c) = {}
    /\ cli' = [cli EXCEPT ![c] = "gone"]
    /\ Report(c)
    /\ UNCHANGED <<links, msgs, ready, started, task, brokerVars, dropped>>

(* worker_thread. *)
Start(w) ==
    /\ w \notin started
    /\ started' = started \cup {w}
    /\ ready' = ready \cup {w}
    /\ UNCHANGED <<links, msgs, clientVars, brokerVars, dropped>>

Work(w) ==
    /\ \E m \in At("worker", w) : Move(m, <<"localbe", w>>, m.origin)
    /\ UNCHANGED <<links, ready, started, clientVars, brokerVars>>

(* cloudbe or statefe of a broker reaches a peer's socket. *)
Connect(kind, b, p) ==
    /\ p \in Peers[b]
    /\ links' = links \cup {<<kind, b, p>>}
    /\ UNCHANGED <<msgs, ready, started, clientVars, brokerVars, dropped>>

-----------------------------------------------------------------------------
(* The turn of a broker: what the sockets of its back end and the peers'   *)
(* capacities bring.                                                       *)
LocalReplies(b) ==
    {m \in msgs : \E w \in Workers : m.place = <<"localbe", w>> /\ Home[w] = b}

ReadyAt(b) == {w \in ready : Home[w] = b}

Available(b, w) ==
    /\ workers' = [workers EXCEPT ![b] = Append(@, w)]
    /\ localCapacity' = [localCapacity EXCEPT ![b] = @ + 1]

TakeReady(b) ==
    \E w \in ReadyAt(b) :
        /\ ready' = ready \ {w}
        /\ Available(b, w)
        /\ UNCHANGED <<msgs, dropped>>

(* The reply goes to a client of this broker's, or to the broker it is     *)
(* for, if that is a peer.                                                 *)
TakeReply(b) ==
    \E m \in LocalReplies(b) :
        /\ Available(b, m.place[2])
        /\ \/ m.origin = None /\ Move(m, <<"client", m.client>>, None)
           \/ m.origin \in Peers[b] /\ Move(m, <<"cloudbe", m.origin>>, None)
           \/ m.origin \notin Peers[b] \cup {None} /\ Drop(m)
        /\ UNCHANGED ready

LocalBe(b) == TakeReady(b) \/ TakeReply(b)

CloudBe(b) ==
    /\ ReadyAt(b) = {} /\ LocalReplies(b) = {}
    /\ \E m \in At("cloudbe", b) : Move(m, <<"client", m.client>>, None)
    /\ UNCHANGED <<ready, workers, localCapacity>>

Neither(b) ==
    /\ ReadyAt(b) = {} /\ LocalReplies(b) = {} /\ At("cloudbe", b) = {}
    /\ \/ localCapacity[b] > 0   \* only then the poll has a time limit
       \/ monitor[b] > 0
       \/ \E p \in Brokers : statefe[b][p] # <<>>
    /\ UNCHANGED <<msgs, dropped, ready, workers, localCapacity>>

(* A capacity, of whichever peer's: the last one read counts. *)
StateFe(b) ==
    \/ \E p \in Brokers :
          /\ statefe[b][p] # <<>>
          /\ cloudCapacity' = [cloudCapacity EXCEPT ![b] = Head(statefe[b][p])]
          /\ statefe' = [statefe EXCEPT ![b][p] = Tail(@)]
    \/ /\ \A p \in Brokers : statefe[b][p] = <<>>
       /\ UNCHANGED <<cloudCapacity, statefe>>

Monitor(b) == monitor' = [monitor EXCEPT ![b] = IF @ > 0 THEN @ - 1 ELSE 0]

Poll(b) ==
    /\ at[b] = "poll"
    /\ previous' = [previous EXCEPT ![b] = localCapacity[b]]
    /\ LocalBe(b) \/ CloudBe(b) \/ Neither(b)
    /\ StateFe(b)
    /\ Monitor(b)
    /\ at' = [at EXCEPT ![b] = "route"]
    /\ UNCHANGED <<links, started, cli, task>>

-----------------------------------------------------------------------------
(* Then requests, those of its own clients first, and others' only while a *)
(* worker of its own is idle.                                              *)
Requests(b) ==
    IF At("localfe", b) # {} THEN At("localfe", b)
    ELSE IF localCapacity[b] > 0 THEN At("cloudfe", b) ELSE {}

RouteLocal(b) ==
    /\ at[b] = "route"
    /\ localCapacity[b] > 0
    /\ \E m \in Requests(b) : Move(m, <<"worker", Head(workers[b])>>, m.origin)
    /\ workers' = [workers EXCEPT ![b] = Tail(@)]
    /\ localCapacity' = [localCapacity EXCEPT ![b] = @ - 1]
    /\ UNCHANGED <<links, ready, started, clientVars, at, cloudCapacity, previous, statefe>>

(* To any peer at all, and cloud_capacity stays as it is. *)
RouteCloud(b) ==
    /\ at[b] = "route"
    /\ localCapacity[b] = 0 /\ cloudCapacity[b] > 0
    /\ \E m \in Requests(b), p \in Peers[b] :
          IF <<"cloud", b, p>> \in links THEN Move(m, <<"cloudfe", p>>, b) ELSE Drop(m)
    /\ UNCHANGED <<links, ready, started, clientVars, brokerVars>>

(* No capacity, or no request left: the capacity is published if it has    *)
(* changed.                                                                *)
EndTurn(b) ==
    /\ at[b] = "route"
    /\ localCapacity[b] + cloudCapacity[b] = 0 \/ Requests(b) = {}
    /\ at' = [at EXCEPT ![b] = "poll"]
    /\ statefe' = [p \in Brokers |->
          IF localCapacity[b] # previous[b] /\ <<"state", p, b>> \in links
          THEN [statefe[p] EXCEPT ![b] = Append(@, localCapacity[b])] ELSE statefe[p]]
    /\ UNCHANGED <<links, msgs, ready, started, clientVars, workers, localCapacity,
                   cloudCapacity, previous, dropped>>

Broker(b) == Poll(b) \/ RouteLocal(b) \/ RouteCloud(b) \/ EndTurn(b)

Next ==
    \/ \E c \in Clients : Request(c) \/ Answer(c) \/ GiveUp(c)
    \/ \E w \in Workers : Start(w) \/ Work(w)
    \/ \E b \in Brokers : Broker(b)
    \/ \E kind \in {"cloud", "state"}, b, p \in Brokers : Connect(kind, b, p)

Spec == Init /\ [][Next]_vars

-----------------------------------------------------------------------------
(* The assertion of client_thread ("reply == task_id") never fails: a      *)
(* request is never doubled on its way, and its reply never meets a later  *)
(* request.                                                                *)
NeverAborts == \A c \in Clients : cli[c] # "aborted"

(* The front of the queue of available workers is never of an empty one,   *)
(* and who is in it is idle: it is no other broker's, has nothing to do    *)
(* and nothing to say.                                                     *)
QueuedAreIdle ==
    \A b \in Brokers :
        /\ localCapacity[b] = Len(workers[b])
        /\ \A i \in 1 .. Len(workers[b]) :
              LET w == workers[b][i] IN
              /\ Home[w] = b
              /\ w \notin ready
              /\ \A m \in msgs : m.place # <<"worker", w>> /\ m.place # <<"localbe", w>>
              /\ \A j \in 1 .. Len(workers[b]) : workers[b][j] = w => j = i

(* A request is passed on once at most, by its client's broker, and what   *)
(* comes back comes to that one: no broker sends to its localfe what is    *)
(* for a client of another's.                                              *)
ForwardedOnce ==
    \A m \in msgs :
        /\ m.place[1] = "localfe" => m.place[2] = Home[m.client] /\ m.origin = None
        /\ m.place[1] = "cloudfe" => m.origin = Home[m.client] /\ m.place[2] # m.origin
        /\ m.place[1] \in {"worker", "localbe"} =>
              \/ m.origin = None /\ Home[m.place[2]] = Home[m.client]
              \/ m.origin = Home[m.client] /\ Home[m.place[2]] # m.origin
        /\ m.place[1] = "cloudbe" => m.place[2] = Home[m.client]
        /\ m.place[1] = "client" => m.place[2] = m.client

(* A client waits for what is under way, or was lost to a socket that was  *)
(* not connected, or to a peer that does not know its broker.              *)
NoneForgotten ==
    \A c \in Clients : cli[c] = "waiting" => c \in dropped \/ \E m \in msgs : m.client = c
=============================================================================

------------------------------ MODULE Majordomo ------------------------------
(***************************************************************************)
(* The Majordomo example the application's broker grew from: the broker    *)
(* (src/src/zmq/mdbroker.cpp), the worker's session (mdwrkapi.hpp, driven  *)
(* as in mdworker.cpp) and the client's (mdcliapi.hpp, driven as in        *)
(* mdclient.cpp).  Unlike the application's, these sessions take a new     *)
(* socket, with a new random identity, whenever they connect again.        *)
(*                                                                         *)
(* Processes die and are started again; a client that hears nothing sends  *)
(* its request again; what a closed socket had sent may still arrive.      *)
(*                                                                         *)
(* A closed socket's identity is used again when no trace of it is left:   *)
(* that stands for a new one.  Time is a beat per heartbeat interval of    *)
(* the broker, which is never a whole one behind.  Left open is how many   *)
(* polls of a worker's session end with nothing read: it may lose patience *)
(* whenever nothing has come, so the broker's heartbeats, which do nothing *)
(* but set m_liveness, are left out.  Left out too: a worker's DISCONNECT, *)
(* which no worker sends, and the test of the sender for a reserved name   *)
(* (an identity never starts with 'm').                                    *)
(***************************************************************************)
EXTENDS Integers, FiniteSets, Sequences, Line

LOCAL INSTANCE SequencesExt
LOCAL INSTANCE FiniteSetsExt

CONSTANTS
    IdsOf,       \* worker or client -> identities its sockets may have, numbers
    Workers,
    Clients,
    Services,
    ServiceOf,   \* worker -> the service it offers
    Expiry,      \* n_heartbeat_liveness: a worker silent so long is expired
    Retries,     \* m_retries: how often a call is sent
    Garbage,     \* what memory may hold where m_workers was never initialised
    MaxCalls,    \* bound: calls a client makes
    MaxAsks,     \* bound: questions to mmi.service it makes
    MaxFaults    \* bound: deaths, and reconnections for mere slowness

Procs == Workers \cup Clients
Ids == UNION {IdsOf[p] : p \in Procs}
None == "none"   \* no service
Closed == 0      \* no socket

ASSUME MajordomoAssumption ==
    /\ Workers \cap Clients = {}
    /\ \A p \in Procs : IdsOf[p] \subseteq Nat \ {Closed} /\ IsFiniteSet(IdsOf[p])
    /\ \A p, q \in Procs : p # q => IdsOf[p] \cap IdsOf[q] = {}
    /\ Services # {}
    /\ ServiceOf \in [Workers -> Services] /\ None \notin Services \cup Clients
    /\ Expiry \in Nat \ {0} /\ Retries \in Nat \ {0}
    /\ Garbage \subseteq Int /\ Garbage # {}
    /\ MaxCalls \in Nat /\ MaxAsks \in Nat /\ MaxFaults \in Nat

VARIABLES
    up,        \* the broker runs
    b,         \* what it knows, and its ROUTER socket
    sock,      \* worker or client -> the identity of its socket
    toBroker,  \* identity -> messages under way to the broker
    job,       \* worker -> the request it works on
    cli,       \* client -> its session
    runs,      \* history: client -> call -> how often a worker executed it
    faults     \* deaths and needless reconnections so far

vars == <<up, b, sock, toBroker, job, cli, runs, faults>>

brokerVars == <<up, b>>
workerVars == <<job, runs>>

(* A request carries the address the reply is to go to. *)
Job == [client : Ids, caller : Clients, call : 1 .. MaxCalls]
NoJob == [client |-> Closed, caller |-> None, call |-> 0]

ToBroker == [type : {"READY"}, service : Services]
            \cup [type : {"HEARTBEAT"}]
            \cup [type : {"REPLY"}, job : Job]
            \cup [type : {"CALL"}, service : Services, caller : Clients, call : 1 .. MaxCalls]
            \cup [type : {"ASK"}, service : Services]

(* A call is answered by its result, a question to mmi.service by a status.*)
FromBroker == [type : {"DISCONNECT"}]
              \cup [type : {"REQUEST"}, job : Job]
              \cup [type : {"RESULT"}, call : 1 .. MaxCalls]
              \cup [type : {"STATUS"}, found : BOOLEAN]

(* b.known     m_workers                                                   *)
(* b.service   m_service of each                                           *)
(* b.age       beats since m_expiry was set, of the waiting                *)
(* b.idle      the broker's m_waiting                                      *)
(* b.made      m_services                                                  *)
(* b.waiting, b.requests, b.workers    m_waiting, m_requests and m_workers *)
(*             of each service                                             *)
(* b.out       messages under way to each identity                         *)
BrokerState == [known : SUBSET Ids, service : [Ids -> Services \cup {None}],
                age : [Ids -> 0 .. Expiry], idle : SUBSET Ids, made : SUBSET Services,
                waiting : [Services -> Seq(Ids)], requests : [Services -> Seq(Job)],
                workers : [Services -> Int], out : [Ids -> Seq(FromBroker)]]

(* made       calls made                                                  *)
(* got        the call whose result was taken last                        *)
(* asked      questions asked                                             *)
(* tries      retries_left, 0 between calls                               *)
(* asks       what is under way is a question                             *)
Session == [made : 0 .. MaxCalls, got : 0 .. MaxCalls, asked : 0 .. MaxAsks,
            tries : 0 .. Retries, asks : BOOLEAN, service : Services]

TypeOK ==
    /\ up \in BOOLEAN
    /\ b \in BrokerState
    /\ sock \in [Procs -> Ids \cup {Closed}]
    /\ toBroker \in [Ids -> Seq(ToBroker)]
    /\ job \in [Workers -> Job \cup {NoJob}]
    /\ cli \in [Clients -> Session]
    /\ runs \in [Clients -> [1 .. MaxCalls -> Nat]]
    /\ faults \in 0 .. MaxFaults

(* A broker that has just been started. *)
Blank(g) ==
    [known |-> {}, service |-> [i \in Ids |-> None], age |-> [i \in Ids |-> 0],
     idle |-> {}, made |-> {}, waiting |-> [s \in Services |-> <<>>],
     requests |-> [s \in Services |-> <<>>], workers |-> g, out |-> [i \in Ids |-> <<>>]]

Init ==
    /\ up = TRUE
    /\ \E g \in [Services -> Garbage] : b = Blank(g)
    /\ sock = [p \in Procs |-> Closed]
    /\ toBroker = [i \in Ids |-> <<>>]
    /\ job = [w \in Workers |-> NoJob]
    /\ cli = [c \in Clients |-> [made |-> 0, got |-> 0, asked |-> 0, tries |-> 0,
                                asks |-> FALSE, service |-> CHOOSE s \in Services : TRUE]]
    /\ runs = [c \in Clients |-> [k \in 1 .. MaxCalls |-> 0]]
    /\ faults = 0

-----------------------------------------------------------------------------
(* Sockets. *)
Open == {i \in Ids : \E p \in Procs : sock[p] = i}

(* The addresses in messages and in what processes remember. *)
Addressed ==
    {job[w].client : w \in {x \in Workers : job[x] # NoJob}}
    \cup {j.client : j \in UNION {ToSet(b.requests[s]) : s \in Services}}
    \cup (UNION {{m.job.client : m \in {x \in ToSet(toBroker[i]) : x.type = "REPLY"}} : i \in Ids})
    \cup (UNION {{m.job.client : m \in {x \in ToSet(b.out[i]) : x.type = "REQUEST"}} : i \in Ids})

Free(p) == {i \in IdsOf[p] \ (Open \cup b.known \cup Addressed) : toBroker[i] = <<>>}

(* What the broker may still read of a socket that is closed: linger is 0. *)
Leftover(i) == {<<>>} \cup IF up THEN {toBroker[i]} ELSE {}

(* connect_to_broker of either session: the old socket is closed, and first*)
(* is what the new one sends at once.                                      *)
Connect(p, first) ==
    LET old == sock[p]
        new == Min(Free(p))
    IN  /\ Free(p) # {}
        /\ sock' = [sock EXCEPT ![p] = new]
        /\ IF old = Closed
           THEN toBroker' = [toBroker EXCEPT ![new] = first] /\ b' = b
           ELSE /\ \E q \in Leftover(old) :
                     toBroker' = [toBroker EXCEPT ![new] = first, ![old] = q]
                /\ b' = [b EXCEPT !.out[old] = <<>>]

(* The process ends, its socket with it. *)
Close(p) ==
    /\ sock' = [sock EXCEPT ![p] = Closed]
    /\ \E q \in Leftover(sock[p]) : toBroker' = [toBroker EXCEPT ![sock[p]] = q]
    /\ b' = [b EXCEPT !.out[sock[p]] = <<>>]

SendToBroker(p, m) == toBroker' = [toBroker EXCEPT ![sock[p]] = Append(@, m)]

-----------------------------------------------------------------------------
(* The broker's operations, on its state s. *)

(* A ROUTER drops what it cannot route. *)
Tell(s, i, m) == IF i \in Open THEN [s EXCEPT !.out[i] = Append(@, m)] ELSE s

Require(s, i) == [s EXCEPT !.known = @ \cup {i}]

ServiceRequire(s, n) == [s EXCEPT !.made = @ \cup {n}]

(* Fault: the service keeps the worker in its list. *)
DeleteKeepsLine(s, W) ==
    [s EXCEPT !.known = @ \ W, !.idle = @ \ W,
              !.service = [i \in Ids |-> IF i \in W THEN None ELSE @[i]],
              !.age = [i \in Ids |-> IF i \in W THEN 0 ELSE @[i]],
              !.workers = [n \in Services |->
                              @[n] - Cardinality({i \in W : s.service[i] = n})]]

(* Fault: the service keeps its count. *)
DeleteUncounted(s, W) ==
    [s EXCEPT !.known = @ \ W, !.idle = @ \ W,
              !.service = [i \in Ids |-> IF i \in W THEN None ELSE @[i]],
              !.age = [i \in Ids |-> IF i \in W THEN 0 ELSE @[i]],
              !.waiting = [n \in Services |-> Without(@[n], W)]]

(* worker_delete, of each worker of W. *)
Delete(s, W) ==
    [s EXCEPT !.known = @ \ W, !.idle = @ \ W,
              !.service = [i \in Ids |-> IF i \in W THEN None ELSE @[i]],
              !.age = [i \in Ids |-> IF i \in W THEN 0 ELSE @[i]],
              !.waiting = [n \in Services |-> Without(@[n], W)],
              !.workers = [n \in Services |->
                              @[n] - Cardinality({i \in W : s.service[i] = n})]]

(* worker_delete with its disconnect flag. *)
Dismiss(s, i) == Delete(Tell(s, i, [type |-> "DISCONNECT"]), {i})

(* purge_workers. *)
Purge(s) == Delete(s, {i \in s.idle : s.age[i] = Expiry})

MostRecent(s, n) == MostRecentOf(s.waiting[n], s.age)

(* The first request to the worker at place k. *)
Give(s, n, k) ==
    LET i == s.waiting[n][k]
    IN  [Tell(s, i, [type |-> "REQUEST", job |-> Head(s.requests[n])]) EXCEPT
            !.requests[n] = Tail(@), !.waiting[n] = RemoveAt(@, k),
            !.idle = @ \ {i}, !.age[i] = 0]

(* service_dispatch.  Its loop turns once at most: a worker and a request  *)
(* never both waited before (OneJob).                                      *)
Dispatch(s, n) ==
    LET p == Purge(s)
    IN  IF p.waiting[n] = <<>> \/ p.requests[n] = <<>> THEN p
        ELSE Give(p, n, MostRecent(p, n))

(* worker_waiting. *)
Waiting(s, i) ==
    LET n == s.service[i]
    IN  Dispatch([s EXCEPT !.idle = @ \cup {i}, !.waiting[n] = Append(@, i), !.age[i] = 0], n)

-----------------------------------------------------------------------------
(* The broker takes a message of the given type. *)
Take(i, type) ==
    /\ up
    /\ toBroker[i] # <<>> /\ Head(toBroker[i]).type = type
    /\ toBroker' = [toBroker EXCEPT ![i] = Tail(@)]
    /\ UNCHANGED <<up, sock, workerVars, cli, faults>>

(* A second READY ends the session. *)
TakeReady(i) ==
    /\ Take(i, "READY")
    /\ LET n == Head(toBroker[i]).service
           s == ServiceRequire(Require(b, i), n)
       IN  b' = IF i \in b.known THEN Dismiss(b, i)
                ELSE Waiting([s EXCEPT !.service[i] = n, !.workers[n] = @ + 1], i)

TakeReply(i) ==
    /\ Take(i, "REPLY")
    /\ LET j == Head(toBroker[i]).job
       IN  b' = IF i \in b.known
                THEN Waiting(Tell(b, j.client, [type |-> "RESULT", call |-> j.call]), i)
                ELSE Dismiss(Require(b, i), i)

(* Fault: a worker the broker does not know is not told so. *)
TakeHeartbeatSilently(i) ==
    /\ Take(i, "HEARTBEAT")
    /\ b' = IF i \in b.idle THEN [b EXCEPT !.age[i] = 0] ELSE b

(* m_expiry of a worker that is not waiting is never looked at. *)
TakeHeartbeat(i) ==
    /\ Take(i, "HEARTBEAT")
    /\ b' = IF i \in b.known
            THEN IF i \in b.idle THEN [b EXCEPT !.age[i] = 0] ELSE b
            ELSE Dismiss(Require(b, i), i)

(* client_process. *)
TakeCall(i) ==
    /\ Take(i, "CALL")
    /\ LET m == Head(toBroker[i])
           n == m.service
           j == [client |-> i, caller |-> m.caller, call |-> m.call]
       IN  b' = Dispatch([ServiceRequire(b, n) EXCEPT !.requests[n] = Append(@, j)], n)

(* service_internal: it asks the count whether the service has workers. *)
TakeAsk(i) ==
    /\ Take(i, "ASK")
    /\ LET n == Head(toBroker[i]).service
       IN  b' = Tell(b, i, [type |-> "STATUS", found |-> n \in b.made /\ b.workers[n] # 0])

(* Fault: expired workers are deleted only when there is work. *)
BeatUnpurged ==
    /\ up
    /\ b' = [b EXCEPT !.age = [i \in Ids |-> IF i \in b.idle THEN @[i] + 1 ELSE @[i]]]
    /\ UNCHANGED <<up, sock, toBroker, workerVars, cli, faults>>

(* An interval passes, and the broker comes to the end of its loop. *)
Beat ==
    /\ up
    /\ b' = Purge([b EXCEPT !.age = [i \in Ids |-> IF i \in b.idle THEN @[i] + 1 ELSE @[i]]])
    /\ UNCHANGED <<up, sock, toBroker, workerVars, cli, faults>>

(* The broker dies: messages on their way to or from it may be lost. *)
CrashBroker ==
    /\ up /\ faults < MaxFaults
    /\ up' = FALSE
    /\ \E lost \in SUBSET {i \in Ids : toBroker[i] # <<>>}, gone \in SUBSET {i \in Ids : b.out[i] # <<>>} :
         /\ toBroker' = [i \in Ids |-> IF i \in lost \/ i \notin Open THEN <<>> ELSE toBroker[i]]
         /\ b' = [Blank([s \in Services |-> 0]) EXCEPT
                     !.out = [i \in Ids |-> IF i \in gone THEN <<>> ELSE b.out[i]]]
    /\ faults' = faults + 1
    /\ UNCHANGED <<sock, workerVars, cli>>

StartBroker ==
    /\ ~up
    /\ up' = TRUE
    /\ \E g \in [Services -> Garbage] : b' = [b EXCEPT !.workers = g]
    /\ UNCHANGED <<sock, toBroker, workerVars, cli, faults>>

TakeFrom(i) ==
    TakeReady(i) \/ TakeReply(i) \/ TakeHeartbeat(i) \/ TakeCall(i) \/ TakeAsk(i)

Broker ==
    \/ \E i \in Ids : TakeFrom(i)
    \/ Beat \/ CrashBroker \/ StartBroker

-----------------------------------------------------------------------------
(* The worker's session. *)
Ready(w) == <<[type |-> "READY", service |-> ServiceOf[w]]>>

StartWorker(w) ==
    /\ sock[w] = Closed
    /\ Connect(w, Ready(w))
    /\ UNCHANGED <<up, job, cli, runs, faults>>

(* recv takes a message of the given type. *)
Hear(w, type) ==
    /\ sock[w] # Closed /\ job[w] = NoJob
    /\ b.out[sock[w]] # <<>> /\ Head(b.out[sock[w]]).type = type
    /\ UNCHANGED <<up, cli, runs, faults>>

HearRequest(w) ==
    /\ Hear(w, "REQUEST")
    /\ job' = [job EXCEPT ![w] = Head(b.out[sock[w]]).job]
    /\ b' = [b EXCEPT !.out[sock[w]] = Tail(@)]
    /\ UNCHANGED <<sock, toBroker>>

HearDisconnect(w) ==
    /\ Hear(w, "DISCONNECT")
    /\ Connect(w, Ready(w))
    /\ UNCHANGED job

(* A poll has read nothing, or a heartbeat, and it is time for one: two of *)
(* them waiting in a socket count as one.                                  *)
Pulse(w) ==
    /\ sock[w] # Closed /\ job[w] = NoJob
    /\ b.out[sock[w]] = <<>>
    /\ [type |-> "HEARTBEAT"] \notin ToSet(toBroker[sock[w]])
    /\ SendToBroker(w, [type |-> "HEARTBEAT"])
    /\ UNCHANGED <<brokerVars, sock, job, cli, runs, faults>>

(* The silence will end: the broker knows the worker, or has to answer it. *)
MereSlowness(w) == up /\ (sock[w] \in b.known \/ toBroker[sock[w]] # <<>>)

(* m_liveness has hit zero. *)
LosePatience(w) ==
    /\ sock[w] # Closed /\ job[w] = NoJob
    /\ b.out[sock[w]] = <<>>
    /\ MereSlowness(w) => faults < MaxFaults
    /\ faults' = IF MereSlowness(w) THEN faults + 1 ELSE faults
    /\ Connect(w, Ready(w))
    /\ UNCHANGED <<up, job, cli, runs>>

(* The service is executed, and recv called with the reply. *)
Finish(w) ==
    /\ job[w] # NoJob
    /\ SendToBroker(w, [type |-> "REPLY", job |-> job[w]])
    /\ job' = [job EXCEPT ![w] = NoJob]
    /\ runs' = [runs EXCEPT ![job[w].caller][job[w].call] = @ + 1]
    /\ UNCHANGED <<brokerVars, sock, cli, faults>>

Die(w) ==
    /\ sock[w] # Closed /\ faults < MaxFaults
    /\ Close(w)
    /\ job' = [job EXCEPT ![w] = NoJob]
    /\ faults' = faults + 1
    /\ UNCHANGED <<up, cli, runs>>

(* What a session does as long as its process runs and is not impatient.   *)
Serve(w) == HearRequest(w) \/ HearDisconnect(w) \/ Pulse(w) \/ Finish(w)

Worker(w) == StartWorker(w) \/ Serve(w) \/ LosePatience(w) \/ Die(w)

-----------------------------------------------------------------------------
(* The client's session: one call, or question, at a time. *)
Idle(c) == sock[c] # Closed /\ cli[c].tries = 0

StartClient(c) ==
    /\ sock[c] = Closed /\ cli[c].got = cli[c].made
    /\ Connect(c, <<>>)
    /\ UNCHANGED <<up, workerVars, cli, faults>>

Request(c, s) ==
    IF s.asks THEN [type |-> "ASK", service |-> s.service]
    ELSE [type |-> "CALL", service |-> s.service, caller |-> c, call |-> s.made]

(* send, up to the first poll. *)
Begin(c, s) ==
    /\ Idle(c)
    /\ cli' = [cli EXCEPT ![c] = s]
    /\ SendToBroker(c, Request(c, s))
    /\ UNCHANGED <<brokerVars, sock, workerVars, faults>>

Call(c) ==
    /\ cli[c].made < MaxCalls
    /\ \E n \in Services :
         Begin(c, [cli[c] EXCEPT !.made = @ + 1, !.tries = Retries, !.asks = FALSE, !.service = n])

(* A question to mmi.service. *)
Ask(c) ==
    /\ cli[c].asked < MaxAsks
    /\ \E n \in Services :
         Begin(c, [cli[c] EXCEPT !.asked = @ + 1, !.tries = Retries, !.asks = TRUE, !.service = n])

(* The reply is not looked into: what comes is what was asked for. *)
Answer(c) ==
    /\ cli[c].tries > 0
    /\ b.out[sock[c]] # <<>>
    /\ LET m == Head(b.out[sock[c]])
       IN  cli' = [cli EXCEPT ![c].tries = 0,
                              ![c].got = IF cli[c].asks THEN @
                                         ELSE IF m.type = "RESULT" THEN m.call ELSE 0]
    /\ b' = [b EXCEPT !.out[sock[c]] = Tail(@)]
    /\ UNCHANGED <<up, sock, toBroker, workerVars, faults>>

(* Fault: the request goes out again on the old socket. *)
RetrySameSocket(c) ==
    /\ cli[c].tries > 1
    /\ b.out[sock[c]] = <<>>
    /\ SendToBroker(c, Request(c, cli[c]))
    /\ cli' = [cli EXCEPT ![c].tries = @ - 1]
    /\ UNCHANGED <<brokerVars, sock, workerVars, faults>>

(* A poll ends with nothing read: connect again and resend. *)
Retry(c) ==
    /\ cli[c].tries > 1
    /\ b.out[sock[c]] = <<>>
    /\ Connect(c, <<Request(c, cli[c])>>)
    /\ cli' = [cli EXCEPT ![c].tries = @ - 1]
    /\ UNCHANGED <<up, workerVars, faults>>

(* ... or give up: the program ends, and is not started again for that    *)
(* call.                                                                   *)
GiveUp(c) ==
    /\ cli[c].tries = 1
    /\ b.out[sock[c]] = <<>>
    /\ Close(c)
    /\ cli' = [cli EXCEPT ![c].tries = 0]
    /\ UNCHANGED <<up, workerVars, faults>>

Client(c) ==
    \/ StartClient(c) \/ Call(c) \/ Ask(c) \/ Answer(c) \/ Retry(c) \/ GiveUp(c)

Next == Broker \/ (\E w \in Workers : Worker(w)) \/ (\E c \in Clients : Client(c))

(* The broker reads its sockets in turn, a broker that died is started     *)
(* again, and a session goes on: work on a request ends, polls return.     *)
Fairness ==
    /\ WF_vars(StartBroker)
    /\ \A w \in Workers : /\ WF_vars(\E i \in IdsOf[w] : TakeFrom(i))
                           /\ WF_vars(Serve(w))

Spec == Init /\ [][Next]_vars /\ Fairness

-----------------------------------------------------------------------------
(* Properties. *)

Count(q, type) == Cardinality({k \in DOMAIN q : q[k].type = type})

(* Where the work of worker w, on its present socket, may be: it waits for *)
(* some, some is on its way, is being done, or its reply is on its way.    *)
Jobs(w) ==
    LET i == sock[w]
        line == b.waiting[ServiceOf[w]]
    IN  Cardinality({k \in DOMAIN line : line[k] = i})
        + Count(b.out[i], "REQUEST")
        + (IF job[w] = NoJob THEN 0 ELSE 1)
        + Count(toBroker[i], "REPLY")

(* A worker the broker knows is waiting or at work, never both, never      *)
(* twice, never neither: mdwrk and the broker keep step though broker and  *)
(* worker die and sessions are given up, and a worker never gets a request *)
(* on top of another.  The two sets of waiting workers agree, and no       *)
(* request is left waiting beside a waiting worker.                        *)
OneJob ==
    /\ \A w \in Workers : sock[w] # Closed =>
         /\ Jobs(w) <= 1
         /\ sock[w] \in b.known => Jobs(w) = 1
    /\ b.idle = UNION {ToSet(b.waiting[n]) : n \in Services}
    /\ \A n \in Services : b.waiting[n] = <<>> \/ b.requests[n] = <<>>

Attached(n) == {i \in b.known : b.service[i] = n}

(* m_workers, which tells mmi.service whether there are any, differs from  *)
(* the number of the service's workers by what the memory held before:     *)
(* while the broker runs no step changes the one without the other.        *)
CountKept ==
    [][up /\ up' => \A n \in Services :
          b.workers[n]' - b.workers[n] = Cardinality(Attached(n))' - Cardinality(Attached(n))]_vars

(* A running worker the broker has forgotten, or never heard of, is known  *)
(* to it again after a while.                                              *)
Recovered ==
    \A w \in Workers : sock[w] # Closed ~> (sock[w] = Closed \/ sock[w] \in b.known)

(* To those who call it, all this is a service that may be slow: a call    *)
(* that returns has the result of an execution of its own request, and no  *)
(* call is executed more often than it was sent.                           *)
Called == INSTANCE ServiceCall WITH
    Callers <- Clients,
    Tries <- Retries,
    made <- [c \in Clients |-> cli[c].made],
    got <- [c \in Clients |-> cli[c].got]

IsServiceCall == Called!Spec
=============================================================================

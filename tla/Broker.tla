------------------------------- MODULE Broker -------------------------------
(***************************************************************************)
(* The broker of src/src/broker/majBroker.cpp, with the workers as it sees *)
(* them (src/src/worker/majWorker.cpp: connect_to_broker, recv): workers   *)
(* register, get requests of clients one at a time, pass some on to each   *)
(* other behind the broker's back, reply, send heartbeats, and are deleted *)
(* when they have been idle and silent for too long.                       *)
(*                                                                         *)
(* There is one service, LIST_MANAGEMENT.  A worker process that starts    *)
(* again has a new uuid, so it is another member of Workers.  Time is a    *)
(* tick per heartbeat interval; how far each process gets in a tick is     *)
(* left open, so a slow worker is one that takes no step for some ticks.   *)
(*                                                                         *)
(* Left out: the broker's heartbeats to workers, which only reset          *)
(* m_liveness, a counter whose reconnecting branch is never reached; the   *)
(* mmi services, whose answer is never sent; heartbeats of clients.        *)
(***************************************************************************)
EXTENDS Integers, FiniteSets, Sequences, Line

LOCAL INSTANCE SequencesExt

CONSTANTS
    Workers,
    Mortal,       \* workers whose process may end at any time
    Expiry,       \* n_heartbeat_liveness: silent ticks until a worker is expired
    MaxRequests,  \* bound: requests made altogether
    MaxBacklog    \* bound: messages a worker may have under way when time passes

ASSUME BrokerAssumption ==
    /\ Mortal \subseteq Workers
    /\ Expiry \in Nat \ {0}
    /\ MaxRequests \in Nat /\ MaxBacklog \in Nat

Requests == 1 .. MaxRequests

VARIABLES
    up,        \* the broker process runs
    b,         \* what the broker knows, and its ROUTER socket to the workers
    taken,     \* requests taken from clients so far
    answered,  \* requests a client has got a reply to
    timer,     \* heartbeat_at has come
    proc,      \* worker -> where its process is
    due,       \* workers whose m_heartbeat_at has come
    toBroker,  \* worker -> its messages under way to the broker
    pulled     \* worker -> requests other workers passed on to it

vars == <<up, b, taken, answered, timer, proc, due, toBroker, pulled>>

brokerVars == <<up, b, taken, answered, timer>>
workerVars == <<proc, due, pulled>>

(* b.known     m_workers                                                   *)
(* b.attached  those of them whose m_service is set                        *)
(* b.idle      the broker's m_waiting                                      *)
(* b.line      the service's m_waiting                                     *)
(* b.queue     the service's m_requests                                    *)
(* b.age       ticks since m_expiry was last set                           *)
(* b.out       worker -> messages under way to it                          *)
ToWorker == [type : {"REQUEST"}, req : Requests] \cup [type : {"DISCONNECT"}]

FromWorker == [type : {"READY", "HEARTBEAT", "OCCUPIED"}]
              \cup [type : {"REPLY"}, req : Requests]

BrokerState == [known : SUBSET Workers, attached : SUBSET Workers,
                idle : SUBSET Workers, line : Seq(Workers), queue : Seq(Requests),
                age : [Workers -> 0 .. Expiry], out : [Workers -> Seq(ToWorker)]]

TypeOK ==
    /\ up \in BOOLEAN
    /\ b \in BrokerState
    /\ taken \in 0 .. MaxRequests
    /\ answered \subseteq Requests
    /\ timer \in BOOLEAN
    /\ proc \in [Workers -> {"off", "on", "ended"}]
    /\ due \subseteq Workers
    /\ toBroker \in [Workers -> Seq(FromWorker)]
    /\ pulled \in [Workers -> SUBSET Requests]

Init ==
    /\ up = TRUE
    /\ b = [known |-> {}, attached |-> {}, idle |-> {}, line |-> <<>>, queue |-> <<>>,
            age |-> [w \in Workers |-> 0], out |-> [w \in Workers |-> <<>>]]
    /\ taken = 0
    /\ answered = {}
    /\ timer = FALSE
    /\ proc = [w \in Workers |-> "off"]
    /\ due = {}
    /\ toBroker = [w \in Workers |-> <<>>]
    /\ pulled = [w \in Workers |-> {}]

-----------------------------------------------------------------------------
(* The broker's operations, on its state s. *)

(* worker_require. *)
Require(s, w) == [s EXCEPT !.known = @ \cup {w}]

(* Fault: the service's list is searched for each worker only once. *)
DeleteFirst(s, W) ==
    LET rest == {k \in DOMAIN s.line :
                    s.line[k] \in W => \E j \in 1 .. k - 1 : s.line[j] = s.line[k]}
        places == SetToSortSeq(rest, <)
    IN  [s EXCEPT !.known = @ \ W, !.attached = @ \ W, !.idle = @ \ W,
                  !.line = [i \in DOMAIN places |-> s.line[places[i]]]]

(* worker_delete, of each worker of W. *)
Delete(s, W) ==
    [s EXCEPT !.known = @ \ W, !.attached = @ \ W, !.idle = @ \ W, !.line = Without(@, W)]

Tell(s, w, m) == [s EXCEPT !.out[w] = Append(@, m)]

(* worker_delete with its disconnect flag. *)
Dismiss(s, w) == Delete(Tell(s, w, [type |-> "DISCONNECT"]), {w})

(* purge_workers. *)
Purge(s) == Delete(s, {w \in s.idle : s.age[w] = Expiry})

MostRecent(s) == MostRecentOf(s.line, s.age)

(* One turn of the loop of service_dispatch. *)
DispatchOne(s) ==
    IF s.line = <<>> \/ s.queue = <<>> THEN s
    ELSE LET k == MostRecent(s)
             w == s.line[k]
         IN  [Tell(s, w, [type |-> "REQUEST", req |-> Head(s.queue)]) EXCEPT
                 !.queue = Tail(@), !.line = RemoveAt(@, k), !.idle = @ \ {w}]

(* service_dispatch; a turn takes one worker off the line. *)
Dispatch(s) ==
    LET turn[n \in 0 .. Len(s.line)] == IF n = 0 THEN Purge(s) ELSE DispatchOne(turn[n - 1])
    IN  turn[Len(s.line)]

(* Fault: outstanding requests wait for the next client. *)
WaitingUndispatched(s, w) ==
    [s EXCEPT !.idle = @ \cup {w}, !.line = Append(@, w), !.age[w] = 0]

(* worker_waiting: the set drops a worker that is in it, the list does not. *)
Waiting(s, w) ==
    Dispatch([s EXCEPT !.idle = @ \cup {w}, !.line = Append(@, w), !.age[w] = 0])

-----------------------------------------------------------------------------
(* Steps of the broker. *)

(* client_process. *)
ClientRequest ==
    /\ up
    /\ taken < MaxRequests
    /\ taken' = taken + 1
    /\ b' = Dispatch([b EXCEPT !.queue = Append(@, taken + 1)])
    /\ UNCHANGED <<up, answered, timer, workerVars, toBroker>>

(* worker_process takes the next message of w, of the given type. *)
Take(w, type) ==
    /\ up
    /\ toBroker[w] # <<>>
    /\ Head(toBroker[w]).type = type
    /\ toBroker' = [toBroker EXCEPT ![w] = Tail(@)]
    /\ UNCHANGED <<taken, timer, workerVars>>

TakeReady(w) ==
    /\ Take(w, "READY")
    /\ b' = IF w \in b.known THEN Dismiss(b, w)
            ELSE Waiting([Require(b, w) EXCEPT !.attached = @ \cup {w}], w)
    /\ UNCHANGED <<up, answered>>

(* The broker is told that w works on a request another worker passed on.  *)
(* worker_require has just created a w it did not know, with no service,   *)
(* and m_service is dereferenced here without a check.                     *)
TakeOccupied(w) ==
    LET s == Require(b, w) IN
    /\ Take(w, "OCCUPIED")
    /\ up' = (w \in s.attached)
    /\ b' = IF up' THEN [s EXCEPT !.idle = @ \ {w}, !.line = Without(@, {w})]
            ELSE b
    /\ UNCHANGED answered

(* Fault: the worker is not made to wait for more. *)
TakeReplyOnly(w) ==
    /\ Take(w, "REPLY")
    /\ IF w \in b.known
       THEN /\ UNCHANGED b
            /\ answered' = answered \cup {Head(toBroker[w]).req}
       ELSE /\ b' = Dismiss(Require(b, w), w)
            /\ UNCHANGED answered
    /\ UNCHANGED up

(* The reply of a worker that was deleted meanwhile is dropped. *)
TakeReply(w) ==
    /\ Take(w, "REPLY")
    /\ IF w \in b.known
       THEN /\ b' = Waiting(b, w)
            /\ answered' = answered \cup {Head(toBroker[w]).req}
       ELSE /\ b' = Dismiss(Require(b, w), w)
            /\ UNCHANGED answered
    /\ UNCHANGED up

(* Fault: a worker that was deleted is not told so. *)
TakeHeartbeatSilently(w) ==
    /\ Take(w, "HEARTBEAT")
    /\ b' = IF w \in b.known THEN [b EXCEPT !.age[w] = 0]
            ELSE Delete(Require(b, w), {w})
    /\ UNCHANGED <<up, answered>>

TakeHeartbeat(w) ==
    /\ Take(w, "HEARTBEAT")
    /\ b' = IF w \in b.known THEN [b EXCEPT !.age[w] = 0]
            ELSE Dismiss(Require(b, w), w)
    /\ UNCHANGED <<up, answered>>

BrokerTake(w) == TakeReady(w) \/ TakeOccupied(w) \/ TakeReply(w) \/ TakeHeartbeat(w)

(* The end of the loop of start_brokering. *)
PurgeOnTime ==
    /\ up
    /\ timer
    /\ timer' = FALSE
    /\ b' = Purge(b)
    /\ UNCHANGED <<up, taken, answered, workerVars, toBroker>>

-----------------------------------------------------------------------------
(* Steps of the workers. *)

(* connect_to_broker, the first time. *)
Start(w) ==
    /\ proc[w] = "off"
    /\ proc' = [proc EXCEPT ![w] = "on"]
    /\ toBroker' = [toBroker EXCEPT ![w] = <<[type |-> "READY"]>>]
    /\ UNCHANGED <<brokerVars, due, pulled>>

Reply(r) == [type |-> "REPLY", req |-> r]

NextFromBroker(w, type) ==
    /\ proc[w] = "on"
    /\ b.out[w] # <<>>
    /\ Head(b.out[w]).type = type
    /\ b' = [b EXCEPT !.out[w] = Tail(@)]
    /\ UNCHANGED <<up, taken, answered, timer>>

(* Fault: the reply address is cleared before it is used. *)
RecvRequestUnaddressed(w) ==
    /\ NextFromBroker(w, "REQUEST")
    /\ toBroker' = [toBroker EXCEPT ![w] = Append(@, Reply(0))]
    /\ UNCHANGED workerVars

(* REQUEST: the worker passes the request on to some workers of its ring,  *)
(* or handles it, or both, and replies either way.  Which ones is the      *)
(* subject of WorkerRing.                                                  *)
RecvRequest(w) ==
    LET r == Head(b.out[w]).req IN
    /\ NextFromBroker(w, "REQUEST")
    /\ \E P \in SUBSET {v \in Workers \ {w} : proc[v] # "off"} :
          pulled' = [v \in Workers |-> IF v \in P THEN pulled[v] \cup {r} ELSE pulled[v]]
    /\ toBroker' = [toBroker EXCEPT ![w] = Append(@, Reply(r))]
    /\ UNCHANGED <<proc, due>>

(* RECV_WORK. *)
RecvWork(w, r) ==
    /\ proc[w] = "on"
    /\ r \in pulled[w]
    /\ pulled' = [pulled EXCEPT ![w] = @ \ {r}]
    /\ toBroker' = [toBroker EXCEPT ![w] = @ \o <<[type |-> "OCCUPIED"], Reply(r)>>]
    /\ UNCHANGED <<brokerVars, proc, due>>

SendHeartbeat(w) ==
    /\ proc[w] = "on"
    /\ w \in due
    /\ due' = due \ {w}
    /\ toBroker' = [toBroker EXCEPT ![w] = Append(@, [type |-> "HEARTBEAT"])]
    /\ UNCHANGED <<brokerVars, proc, pulled>>

(* The process ends; of what it sent, what had left its socket arrives. *)
Ended(w) ==
    /\ proc' = [proc EXCEPT ![w] = "ended"]
    /\ due' = due \ {w}
    /\ pulled' = [pulled EXCEPT ![w] = {}]
    /\ \E k \in 0 .. Len(toBroker[w]) :
          toBroker' = [toBroker EXCEPT ![w] = SubSeq(@, 1, k)]

(* DISCONNECT: connect_to_broker again, which binds a second PULL socket   *)
(* to the endpoint of the first; that throws, and nobody catches it.       *)
RecvDisconnect(w) ==
    /\ NextFromBroker(w, "DISCONNECT")
    /\ Ended(w)

Die(w) ==
    /\ proc[w] = "on"
    /\ w \in Mortal
    /\ Ended(w)
    /\ b' = [b EXCEPT !.out[w] = <<>>]
    /\ UNCHANGED <<up, taken, answered, timer>>

WorkerRecv(w) == RecvRequest(w) \/ RecvDisconnect(w) \/ \E r \in Requests : RecvWork(w, r)

Tick ==
    /\ up
    /\ \A w \in Workers : toBroker[w] = <<>> /\ Len(b.out[w]) <= MaxBacklog
    /\ timer' = TRUE
    /\ due' = {w \in Workers : proc[w] = "on"}
    /\ b' = [b EXCEPT !.age = [w \in Workers |-> IF @[w] < Expiry THEN @[w] + 1 ELSE Expiry]]
    /\ UNCHANGED <<up, taken, answered, proc, pulled, toBroker>>

(* The history ends with the broker. *)
Next ==
    \/ ClientRequest
    \/ PurgeOnTime
    \/ Tick
    \/ up /\ \E w \in Workers :
          BrokerTake(w) \/ Start(w) \/ WorkerRecv(w) \/ SendHeartbeat(w) \/ Die(w)

(* The broker and the workers keep polling their sockets, time passes, and *)
(* a worker that takes no message gets to its heartbeat.                   *)
Spec ==
    /\ Init
    /\ [][Next]_vars
    /\ WF_vars(Tick)
    /\ WF_vars(PurgeOnTime)
    /\ \A w \in Workers :
          WF_vars(BrokerTake(w)) /\ WF_vars(WorkerRecv(w)) /\ WF_vars(SendHeartbeat(w))

-----------------------------------------------------------------------------
(* Properties. *)

(* No worker that was deleted is still in a waiting list (worker_delete    *)
(* frees it; the service's list may hold it more than once), and every     *)
(* worker kept has a service, which REPLY and the dispatch dereference.    *)
PointersValid ==
    /\ b.attached = b.known
    /\ b.idle \subseteq ToSet(b.line)
    /\ ToSet(b.line) \subseteq b.known

(* A request never stays queued while a worker waits in line: each step    *)
(* that adds to either also dispatches.                                    *)
QueueServed == b.line = <<>> \/ b.queue = <<>>

(* Requests taken while some worker runs are answered, unless a worker     *)
(* process or the broker ends.                                             *)
Answered ==
    (\E w \in Workers : proc[w] = "on")
        ~> 1 .. taken \subseteq answered \/ ~up \/ \E w \in Workers : proc[w] = "ended"

(* No running worker stays unknown to the broker: one that was deleted as  *)
(* expired gets a DISCONNECT at its next heartbeat or reply, and ends.     *)
NotForgotten ==
    []<>(~up \/ \A w \in Workers : proc[w] = "on" => w \in b.known)

(* start_brokering: "Get and process messages forever or until             *)
(* interrupted".                                                           *)
BrokerForever == up
=============================================================================

----------------------------- MODULE WorkerRing -----------------------------
(***************************************************************************)
(* The workers' ring: how workers join it and tell each other of it, and   *)
(* how a request for a list is passed to the workers it is for             *)
(* (src/src/worker/majWorker.cpp: connect_to_broker, recv).                *)
(*                                                                         *)
(* A worker sends to another over a PUSH socket connected to the other's   *)
(* PULL socket: messages of one worker to another arrive in order, those   *)
(* of several workers interleave, and those sent before the other process  *)
(* is there wait for it.                                                   *)
(***************************************************************************)
EXTENDS HashRing

LOCAL INSTANCE SequencesExt

CONSTANTS
    NoWorker,
    Seed,         \* worker -> m_connect_to_worker, or NoWorker for the first
    MaxRequests,  \* bound: requests made altogether
    Serialized,   \* TRUE: a worker is started when no other, stopped ones
                  \* included, has news of the ring to come, and its seed is
                  \* running; stopped when nothing is under way; FALSE: at will
    Stoppable     \* workers that may be stopped and started again

Workers == Servers

ASSUME SeedAssumption ==
    /\ NoWorker \notin Workers
    /\ Seed \in [Workers -> Workers \cup {NoWorker}]
    /\ \A w \in Workers : Seed[w] # w
    /\ Stoppable \subseteq Workers
    /\ Serialized \in BOOLEAN
    /\ MaxRequests \in Nat

VARIABLES
    up,     \* workers whose process runs
    ring,   \* worker -> the ring of its ConsistentHashing
    push,   \* worker -> the workers it has a push socket to (push_sockets)
    chan,   \* sender -> receiver -> messages under way
    holds,  \* worker -> lists in its database
    asked   \* history: the requests workers took from the broker, with the
            \* targets distribute_work gave each

vars == <<up, ring, push, chan, holds, asked>>

(* A ring that is told always has somebody in it. *)
Message == [type : {"JOIN_RING"}]
           \cup [type : {"BROADCAST_RING"}, ring : (SUBSET Workers) \ {{}}]
           \cup [type : {"RECV_WORK"}, list : Lists]

MembershipTypeOK ==
    /\ up \subseteq Workers
    /\ ring \in [Workers -> SUBSET Workers]
    /\ push \in [Workers -> SUBSET Workers]
    /\ chan \in [Workers -> [Workers -> Seq(Message)]]

TypeOK ==
    /\ MembershipTypeOK
    /\ holds \in [Workers -> SUBSET Lists]
    /\ asked \in Seq([list : Lists, targets : Seq(Workers)])

Quiet == \A v, w \in Workers : chan[v][w] = <<>>

(* None of the workers W has news of the ring to come. *)
Told(W) ==
    \A v \in Workers, w \in W : \A k \in 1 .. Len(chan[v][w]) : chan[v][w][k].type = "RECV_WORK"

Settled == Told(up)

Init ==
    /\ up = {}
    /\ ring = [w \in Workers |-> {}]
    /\ push = [w \in Workers |-> {}]
    /\ chan = [v \in Workers |-> [w \in Workers |-> <<>>]]
    /\ holds = [w \in Workers |-> {}]
    /\ asked = <<>>

(* The channels ch after v sends m to each worker of `to`. *)
Post(ch, v, to, m) ==
    [ch EXCEPT ![v] = [w \in Workers |-> IF w \in to THEN Append(@[w], m) ELSE @[w]]]

(* ... and after v takes the next message u sent it. *)
Took(u, v) == [chan EXCEPT ![u][v] = Tail(@)]

NextIs(u, v, type) ==
    /\ v \in up
    /\ chan[u][v] # <<>>
    /\ Head(chan[u][v]).type = type

-----------------------------------------------------------------------------
(* Fault: an empty seed address is not told apart. *)
StartFirstAsJoiner(w) ==
    /\ Seed[w] = NoWorker
    /\ ring' = [ring EXCEPT ![w] = {Seed[w]}]
    /\ push' = [push EXCEPT ![w] = {Seed[w]}]
    /\ UNCHANGED chan

(* connect_to_broker.  The first worker puts itself in its ring; another   *)
(* asks its seed to let it join and knows of nobody but the seed, not even *)
(* of itself, until it is told.                                            *)
StartFirst(w) ==
    /\ Seed[w] = NoWorker
    /\ ring' = [ring EXCEPT ![w] = {w}]
    /\ push' = [push EXCEPT ![w] = {}]
    /\ UNCHANGED chan

StartJoining(w) ==
    /\ Seed[w] # NoWorker
    /\ ring' = [ring EXCEPT ![w] = {Seed[w]}]
    /\ push' = [push EXCEPT ![w] = {Seed[w]}]
    /\ chan' = Post(chan, w, {Seed[w]}, [type |-> "JOIN_RING"])

Start(w) ==
    /\ w \notin up
    /\ Serialized => Told(Workers \ {w}) /\ Seed[w] \in up \cup {NoWorker}
    /\ up' = up \cup {w}
    /\ StartFirst(w) \/ StartJoining(w)
    /\ UNCHANGED <<holds, asked>>

(* SIGINT: the worker saves its database and ends.  What had reached its   *)
(* sockets is lost, and so is what had not left them (linger 0): of each   *)
(* peer, all or none.                                                      *)
Stop(w) ==
    /\ w \in up \cap Stoppable
    /\ Serialized => Quiet
    /\ up' = up \ {w}
    /\ \E P, Q \in SUBSET Workers :
          chan' = [u \in Workers |-> [v \in Workers |->
                      IF (v = w /\ u \in P) \/ (u = w /\ v \in Q)
                      THEN <<>> ELSE chan[u][v]]]
    /\ UNCHANGED <<ring, push, holds, asked>>

-----------------------------------------------------------------------------
(* The PULL side of recv. *)

(* Fault: only the joiner is told. *)
RecvJoinTellsJoiner(u, v) ==
    /\ NextIs(u, v, "JOIN_RING")
    /\ ring' = [ring EXCEPT ![v] = @ \cup {u}]
    /\ push' = [push EXCEPT ![v] = @ \cup {u}]
    /\ chan' = Post(Took(u, v), v, {u}, [type |-> "BROADCAST_RING", ring |-> ring'[v]])
    /\ UNCHANGED <<up, holds, asked>>

(* Fault: the ring is told before the joiner is added to it. *)
RecvJoinTellsFirst(u, v) ==
    /\ NextIs(u, v, "JOIN_RING")
    /\ ring' = [ring EXCEPT ![v] = @ \cup {u}]
    /\ push' = [push EXCEPT ![v] = @ \cup {u}]
    /\ chan' = Post(Took(u, v), v, push'[v], [type |-> "BROADCAST_RING", ring |-> ring[v]])
    /\ UNCHANGED <<up, holds, asked>>

(* JOIN_RING: add the joiner and a socket to it, and tell every worker     *)
(* this one has a socket to, the joiner included.                          *)
RecvJoin(u, v) ==
    /\ NextIs(u, v, "JOIN_RING")
    /\ ring' = [ring EXCEPT ![v] = @ \cup {u}]
    /\ push' = [push EXCEPT ![v] = @ \cup {u}]
    /\ chan' = Post(Took(u, v), v, push'[v],
                    [type |-> "BROADCAST_RING", ring |-> ring'[v]])
    /\ UNCHANGED <<up, holds, asked>>

(* Fault: no sockets to the workers told of. *)
RecvBroadcastUnconnected(u, v) ==
    /\ NextIs(u, v, "BROADCAST_RING")
    /\ ring' = [ring EXCEPT ![v] = Head(chan[u][v]).ring]
    /\ chan' = Took(u, v)
    /\ UNCHANGED <<up, push, holds, asked>>

(* BROADCAST_RING: updateCH replaces the ring by the one received, and the *)
(* worker connects to those in it that it has no socket to.                *)
RecvBroadcast(u, v) ==
    /\ NextIs(u, v, "BROADCAST_RING")
    /\ LET told == Head(chan[u][v]).ring IN
          /\ ring' = [ring EXCEPT ![v] = told]
          /\ push' = [push EXCEPT ![v] = @ \cup (told \ {v})]
    /\ chan' = Took(u, v)
    /\ UNCHANGED <<up, holds, asked>>

(* RECV_WORK: handle_request, on this worker's own database. *)
RecvWork(u, v) ==
    /\ NextIs(u, v, "RECV_WORK")
    /\ holds' = [holds EXCEPT ![v] = @ \cup {Head(chan[u][v]).list}]
    /\ chan' = Took(u, v)
    /\ UNCHANGED <<up, ring, push, asked>>

Receive(u, v) == RecvJoin(u, v) \/ RecvBroadcast(u, v) \/ RecvWork(u, v)

-----------------------------------------------------------------------------
(* Fault: a worker that is a target keeps the request to itself. *)
RequestSelfOnly(w, list) ==
    LET targets == DistributeWork(ring[w], list) IN
    /\ w \in up
    /\ Len(asked) < MaxRequests
    /\ IF w \in ToSet(targets)
       THEN /\ holds' = [holds EXCEPT ![w] = @ \cup {list}]
            /\ UNCHANGED chan
       ELSE /\ chan' = Post(chan, w, ToSet(targets), [type |-> "RECV_WORK", list |-> list])
            /\ UNCHANGED holds
    /\ asked' = Append(asked, [list |-> list, targets |-> targets])
    /\ UNCHANGED <<up, ring, push>>

(* REQUEST, from the broker.  The worker passes the work on, target by     *)
(* target; when it meets itself it handles the request and returns, and    *)
(* the targets that follow get nothing.  A target without a push socket    *)
(* would be a null pointer here (RoutesConnected).                         *)
Request(w, list) ==
    LET targets == DistributeWork(ring[w], list)
        passedOn == {t \in ToSet(targets) :
                        \E k \in DOMAIN targets :
                            targets[k] = t /\ \A j \in 1 .. k : targets[j] # w}
    IN
    /\ w \in up
    /\ Len(asked) < MaxRequests
    /\ chan' = Post(chan, w, passedOn, [type |-> "RECV_WORK", list |-> list])
    /\ holds' = IF w \in ToSet(targets)
                THEN [holds EXCEPT ![w] = @ \cup {list}] ELSE holds
    /\ asked' = Append(asked, [list |-> list, targets |-> targets])
    /\ UNCHANGED <<up, ring, push>>

Next ==
    \/ \E w \in Workers : Start(w) \/ Stop(w)
    \/ \E u, v \in Workers : Receive(u, v)
    \/ \E w \in Workers, list \in Lists : Request(w, list)

(* A running worker keeps polling its PULL socket, which takes from its    *)
(* senders in turn.                                                        *)
Spec == Init /\ [][Next]_vars /\ \A u, v \in Workers : WF_vars(Receive(u, v))

-----------------------------------------------------------------------------
(* Properties. *)

(* The worker a request is routed to is always one there is a socket to:   *)
(* getPushSocketViaServer, whose result recv uses unchecked, is never null *)
(* and the ring never empty, whatever rings are received in what order.    *)
RoutesConnected ==
    \A w \in up : ring[w] # {} /\ ring[w] \subseteq push[w] \cup {w}

(* The targets of a list are the servers next to it clockwise, each once,  *)
(* as many as there are to be copies (distribute_work over getServer and   *)
(* getNextServer, whose wrap-arounds and stop are what could go wrong).    *)
TargetsAreNext ==
    \A w \in up, list \in Lists :
        DistributeWork(ring[w], list) = Preference(ring[w], list)

(* Once the messages of a join have arrived, every running worker has the  *)
(* same ring and is in it: JOIN_RING reaches the seed alone, and the       *)
(* seed's BROADCAST_RING goes only to those the seed has a socket to.      *)
Agreement ==
    Settled => \A v, w \in up : ring[v] = ring[w] /\ w \in ring[v]

(* No request gets lost between the workers: when nothing is under way the *)
(* server of the list has handled every request for it, whichever worker   *)
(* the broker had picked.                                                  *)
PrimaryHolds ==
    Quiet => \A k \in DOMAIN asked : asked[k].list \in holds[asked[k].targets[1]]

(* A worker that joins gets to know of itself, and so serves its share.    *)
JoinersAreTold ==
    \A w \in Workers : w \in up ~> w \notin up \/ w \in ring[w]

(* The report on the distribution of work, slide 16: "Even in a situation  *)
(* when the workforce is dynamically changing, this method guarantees      *)
(* effective job distribution while respecting a consistent task           *)
(* distribution to employees."  Any two workers would send a list to the   *)
(* same workers.                                                           *)
ConsistentDistribution ==
    Quiet => \A v, w \in up, list \in Lists :
                DistributeWork(ring[v], list) = DistributeWork(ring[w], list)

(* The report on replication, slide 18: "when we are distributing the work *)
(* to each worker, we replicate the work to the next N workers".           *)
Replicated ==
    Quiet => \A k \in DOMAIN asked : \A t \in ToSet(asked[k].targets) :
                asked[k].list \in holds[t]
=============================================================================

---------------------------- MODULE Broker_proofs ----------------------------
(***************************************************************************)
(* What the broker knows of its workers stays consistent, whatever messages *)
(* arrive from which of them in what order.                                *)
(***************************************************************************)
EXTENDS Broker, FiniteRecursion, SequenceTheorems

LOCAL INSTANCE SequencesExt

-----------------------------------------------------------------------------
(* What the operations on the broker's state keep. *)

(* States in which nothing points to a worker that was deleted. *)
Consistent ==
    {s \in BrokerState : /\ s.attached = s.known
                         /\ s.idle \subseteq ToSet(s.line)
                         /\ ToSet(s.line) \subseteq s.known}

LEMMA DeleteKeeps ==
    ASSUME NEW s \in BrokerState, NEW W,
           s.attached \ W = s.known \ W, s.idle \subseteq ToSet(s.line),
           ToSet(s.line) \subseteq s.known
    PROVE  /\ Delete(s, W) \in Consistent
           /\ Delete(s, W).queue = s.queue
           /\ Len(Delete(s, W).line) <= Len(s.line)
           /\ Delete(s, W).known = s.known \ W
           /\ s.line = <<>> => Delete(s, W).line = <<>>
<1>1. /\ s.known \subseteq Workers /\ s.attached \subseteq Workers /\ s.idle \subseteq Workers
      /\ s.line \in Seq(Workers)
    BY DEF BrokerState
<1> DEFINE d == Delete(s, W)
<1>2. /\ d.known = s.known \ W /\ d.attached = s.attached \ W /\ d.idle = s.idle \ W
      /\ d.line = Without(s.line, W) /\ d.queue = s.queue
    BY DEF Delete, BrokerState
<1>3. /\ d.line \in Seq(Workers) /\ ToSet(d.line) = ToSet(s.line) \ W
      /\ Len(d.line) <= Len(s.line)
    BY <1>1, <1>2, WithoutLine
<1>4. d \in BrokerState
    <2>1. Without(s.line, W) \in Seq(Workers)
        BY <1>2, <1>3
    <2> QED
        BY <1>1, <2>1 DEF Delete, BrokerState
<1>5. s.line = <<>> => d.line = <<>>
    <2>1. Len(<<>>) = 0
        OBVIOUS
    <2> QED
        BY <1>3, <2>1, EmptySeq, LenProperties
<1> HIDE DEF d
<1>6. d \in Consistent
    BY <1>2, <1>3, <1>4 DEF Consistent
<1> QED
    BY <1>2, <1>3, <1>5, <1>6 DEF d

LEMMA TellKeeps ==
    ASSUME NEW s \in BrokerState, NEW w \in Workers, NEW m \in ToWorker
    PROVE  /\ Tell(s, w, m) \in BrokerState
           /\ Tell(s, w, m).known = s.known
           /\ Tell(s, w, m).attached = s.attached
           /\ Tell(s, w, m).idle = s.idle
           /\ Tell(s, w, m).line = s.line
           /\ Tell(s, w, m).queue = s.queue
<1>1. s.out[w] \in Seq(ToWorker) /\ s.out \in [Workers -> Seq(ToWorker)]
    BY DEF BrokerState
<1>2. Append(s.out[w], m) \in Seq(ToWorker)
    BY <1>1, AppendProperties
<1>3. [s.out EXCEPT ![w] = Append(@, m)] \in [Workers -> Seq(ToWorker)]
    BY <1>1, <1>2
<1>4. Tell(s, w, m) = [s EXCEPT !.out = [s.out EXCEPT ![w] = Append(@, m)]]
    BY DEF Tell, BrokerState
<1> QED
    BY <1>3, <1>4 DEF BrokerState

LEMMA MostRecentInLine ==
    ASSUME NEW s \in BrokerState, s.line # <<>>
    PROVE  MostRecent(s) \in DOMAIN s.line
<1>1. s.line \in Seq(Workers) /\ s.age \in [Workers -> Nat]
    BY BrokerAssumption DEF BrokerState
<1> QED
    BY <1>1, MostRecentOfLine DEF MostRecent

(* A turn of the dispatching serves one, if there is one and work for it.  *)
LEMMA DispatchOneKeeps ==
    ASSUME NEW s \in Consistent
    PROVE  /\ DispatchOne(s) \in Consistent
           /\ s.queue = <<>> => DispatchOne(s).queue = <<>>
           /\ s.line = <<>> => DispatchOne(s).line = <<>>
           /\ s.queue # <<>> /\ s.line # <<>> => Len(DispatchOne(s).line) = Len(s.line) - 1
<1>1. CASE s.line = <<>> \/ s.queue = <<>>
    BY <1>1 DEF DispatchOne
<1>2. CASE s.line # <<>> /\ s.queue # <<>>
    <2> DEFINE k == MostRecent(s)
               w == s.line[k]
               m == [type |-> "REQUEST", req |-> Head(s.queue)]
               t == Tell(s, w, m)
               d == [t EXCEPT !.queue = Tail(@), !.line = RemoveAt(@, k), !.idle = @ \ {w}]
    <2>1. /\ s \in BrokerState /\ s.attached = s.known /\ s.idle \subseteq ToSet(s.line)
          /\ ToSet(s.line) \subseteq s.known
        BY DEF Consistent
    <2>2. /\ s.line \in Seq(Workers) /\ s.queue \in Seq(Requests)
          /\ s.idle \subseteq Workers /\ s.known \subseteq Workers
        BY <2>1 DEF BrokerState
    <2>3. k \in DOMAIN s.line
        BY <1>2, <2>1, MostRecentInLine
    <2>4. w \in Workers
        BY <2>2, <2>3, ElementOfSeq, LenProperties
    <2>5. Head(s.queue) \in Requests /\ Tail(s.queue) \in Seq(Requests)
        BY <1>2, <2>2, HeadTailProperties
    <2>6. m \in ToWorker
        BY <2>5 DEF ToWorker
    <2>7. DispatchOne(s) = d
        BY <1>2 DEF DispatchOne
    <2> HIDE DEF k, w, m
    <2>8. /\ t \in BrokerState /\ t.known = s.known /\ t.attached = s.attached
          /\ t.idle = s.idle /\ t.line = s.line /\ t.queue = s.queue
        BY <2>1, <2>4, <2>6, TellKeeps
    <2> HIDE DEF t
    <2>9. /\ RemoveAt(s.line, k) \in Seq(Workers)
          /\ Len(RemoveAt(s.line, k)) = Len(s.line) - 1
          /\ ToSet(RemoveAt(s.line, k)) \subseteq ToSet(s.line)
          /\ ToSet(s.line) \ {w} \subseteq ToSet(RemoveAt(s.line, k))
        BY <2>2, <2>3, RemoveAtLine DEF w
    <2>10. /\ d \in BrokerState /\ d.known = t.known /\ d.attached = t.attached
           /\ d.idle = t.idle \ {w} /\ d.line = RemoveAt(t.line, k) /\ d.queue = Tail(t.queue)
        <3>1. RemoveAt(t.line, k) \in Seq(Workers) /\ Tail(t.queue) \in Seq(Requests)
            BY <2>5, <2>8, <2>9
        <3> QED
            BY <2>8, <3>1 DEF BrokerState
    <2> HIDE DEF d
    <2>11. d \in Consistent
        BY <2>1, <2>8, <2>9, <2>10 DEF Consistent
    <2>12. Len(d.line) = Len(s.line) - 1
        BY <2>8, <2>9, <2>10
    <2> QED
        BY <1>2, <2>7, <2>11, <2>12
<1> QED
    BY <1>1, <1>2

(* service_dispatch goes on until there is nobody in line or no request.   *)
LEMMA DispatchServes ==
    ASSUME NEW s \in Consistent
    PROVE  /\ Dispatch(s) \in Consistent
           /\ Dispatch(s).line = <<>> \/ Dispatch(s).queue = <<>>
<1> DEFINE N == Len(s.line)
           first == Purge(s)
           step == [p \in (1 .. N) \X Consistent |-> DispatchOne(p[2])]
           IsTurn(f) == f = [n \in 0 .. N |-> IF n = 0 THEN Purge(s) ELSE DispatchOne(f[n - 1])]
           turn == CHOOSE f : IsTurn(f)
           Served(n) == {x \in Consistent : Len(x.line) <= N - n \/ x.queue = <<>>}
           T == {n \in 0 .. N : turn[n] \in Served(n)}
<1>1. /\ s \in BrokerState /\ s.attached = s.known /\ s.idle \subseteq ToSet(s.line)
      /\ ToSet(s.line) \subseteq s.known
    BY DEF Consistent
<1>2. N \in Nat
    BY <1>1, LenProperties DEF BrokerState
<1>3. Dispatch(s) = turn[N]
    BY DEF Dispatch
<1>4. first \in Consistent /\ Len(first.line) <= N
    BY <1>1, DeleteKeeps DEF Purge
<1> HIDE DEF N, first
<1>5. step \in [(1 .. N) \X Consistent -> Consistent]
    BY DispatchOneKeeps
<1>6. PICK f \in [0 .. N -> Consistent] :
            f[0] = first /\ \A n \in 1 .. N : f[n] = step[<<n, f[n - 1]>>]
    <2> HIDE DEF step
    <2>1. Iterates(Consistent, first, N, step) # {}
        BY <1>2, <1>4, <1>5, RecursionTo
    <2> QED
        BY <2>1 DEF Iterates
<1>7. IsTurn(f)
    <2>1. ASSUME NEW n \in 1 .. N PROVE f[n] = DispatchOne(f[n - 1])
        <3>1. n - 1 \in 0 .. N /\ f[n - 1] \in Consistent
            BY <1>2, <1>6
        <3>2. f[n] = step[<<n, f[n - 1]>>] /\ <<n, f[n - 1]>> \in (1 .. N) \X Consistent
            BY <1>6, <3>1
        <3> QED
            BY <3>2
    <2> HIDE DEF step
    <2>2. f = [n \in 0 .. N |-> f[n]]
        BY <1>6
    <2>3. \A n \in 0 .. N : f[n] = IF n = 0 THEN Purge(s) ELSE DispatchOne(f[n - 1])
        <3>1. \A n \in 0 .. N : n = 0 \/ n \in 1 .. N
            BY <1>2
        <3>2. \A n \in 1 .. N : n # 0
            BY <1>2
        <3> QED
            BY <1>6, <2>1, <3>1, <3>2 DEF first
    <2> QED
        BY <2>2, <2>3
<1>8. IsTurn(turn)
    <2> HIDE DEF IsTurn
    <2> QED
        BY <1>7
<1>9. turn[0] = first /\ \A n \in 1 .. N : turn[n] = DispatchOne(turn[n - 1])
    <2> HIDE DEF turn
    <2>1. 0 \in 0 .. N /\ \A n \in 1 .. N : n \in 0 .. N /\ n # 0
        BY <1>2
    <2> QED
        BY <1>8, <2>1 DEF first
<1> HIDE DEF turn, IsTurn
<1>10. 0 \in T
    BY <1>2, <1>4, <1>9
<1>11. ASSUME NEW n \in 1 .. N, n - 1 \in T PROVE n \in T
    <2> DEFINE x == turn[n - 1]
               y == DispatchOne(x)
    <2>1. x \in Consistent /\ (Len(x.line) <= N - (n - 1) \/ x.queue = <<>>)
        BY <1>11
    <2>2. /\ y \in Consistent
          /\ x.queue = <<>> => y.queue = <<>>
          /\ x.line = <<>> => y.line = <<>>
          /\ x.queue # <<>> /\ x.line # <<>> => Len(y.line) = Len(x.line) - 1
        BY <2>1, DispatchOneKeeps
    <2>3. turn[n] = y
        BY <1>9
    <2> HIDE DEF x, y
    <2>4. Len(x.line) \in Nat /\ Len(y.line) \in Nat
        BY <2>1, <2>2, LenProperties DEF Consistent, BrokerState
    <2>5. y.queue = <<>> \/ Len(y.line) <= N - n
        <3>1. CASE x.queue = <<>>
            BY <2>2, <3>1
        <3>2. CASE x.line = <<>> /\ x.queue # <<>>
            <4>1. Len(y.line) = 0 /\ N - n \in Nat
                BY <1>2, <2>2, <3>2
            <4> QED
                BY <4>1
        <3>3. CASE x.line # <<>> /\ x.queue # <<>>
            BY <1>2, <2>1, <2>2, <2>4, <3>3
        <3> QED
            BY <3>1, <3>2, <3>3
    <2>6. y \in Served(n) /\ n \in 0 .. N
        BY <1>2, <2>2, <2>5
    <2> HIDE DEF Served
    <2> QED
        BY <2>3, <2>6
<1>12. turn[N] \in Served(N)
    <2> HIDE DEF Served
    <2>1. 0 .. N \subseteq T
        <3> HIDE DEF T
        <3> QED
            BY <1>2, <1>10, <1>11, CountingTo
    <2> QED
        BY <1>2, <2>1
<1>13. turn[N].line \in Seq(Workers) /\ turn[N] \in Consistent
    BY <1>12 DEF Consistent, BrokerState
<1>14. turn[N].line = <<>> \/ turn[N].queue = <<>>
    <2>1. Len(turn[N].line) <= N - N => Len(turn[N].line) = 0
        BY <1>2, <1>13, LenProperties
    <2> QED
        BY <1>12, <1>13, <2>1, EmptySeq
<1> QED
    BY <1>3, <1>13, <1>14

-----------------------------------------------------------------------------
(* The invariant. *)

IInv == TypeOK /\ PointersValid /\ QueueServed

LEMMA IInvMeans ==
    IInv <=> /\ TypeOK
             /\ b \in Consistent
             /\ b.line = <<>> \/ b.queue = <<>>
BY DEF IInv, TypeOK, PointersValid, QueueServed, Consistent

(* Every step leaves the broker in such a state, with the other variables of their types. *)
LEMMA InvInit == Init => IInv
<1> SUFFICES ASSUME Init PROVE IInv
    OBVIOUS
<1> USE DEF Init
<1>1. <<>> \in Seq(Workers) /\ <<>> \in Seq(Requests) /\ <<>> \in Seq(ToWorker)
      /\ <<>> \in Seq(FromWorker)
    BY EmptySeq
<1>2. Expiry \in Nat /\ MaxRequests \in Nat
    BY BrokerAssumption
<1>3. b \in BrokerState
    BY <1>1, <1>2 DEF BrokerState
<1>4. TypeOK
    <2>1. up \in BOOLEAN /\ timer \in BOOLEAN
        OBVIOUS
    <2>2. taken \in 0 .. MaxRequests
        BY <1>2
    <2>3. /\ proc \in [Workers -> {"off", "on", "ended"}]
          /\ toBroker \in [Workers -> Seq(FromWorker)]
          /\ pulled \in [Workers -> SUBSET Requests]
        BY <1>1
    <2> QED
        BY <1>3, <2>1, <2>2, <2>3 DEF TypeOK
<1>5. PointersValid /\ QueueServed
    <2>1. ToSet(<<>>) = {}
        BY DEF ToSet
    <2> QED
        BY <2>1 DEF PointersValid, QueueServed
<1> QED
    BY <1>4, <1>5 DEF IInv

LEMMA TakeTyped ==
    ASSUME IInv, NEW w \in Workers, NEW type, Take(w, type)
    PROVE  /\ toBroker' \in [Workers -> Seq(FromWorker)]
           /\ UNCHANGED <<taken, timer, proc, due, pulled>>
           /\ Head(toBroker[w]) \in FromWorker /\ Head(toBroker[w]).type = type
<1>1. toBroker[w] \in Seq(FromWorker) /\ toBroker[w] # <<>>
    BY DEF IInv, TypeOK, Take
<1>2. Tail(toBroker[w]) \in Seq(FromWorker) /\ Head(toBroker[w]) \in FromWorker
    BY <1>1, HeadTailProperties
<1> QED
    BY <1>2 DEF IInv, TypeOK, Take, workerVars

(* worker_waiting, for a worker that is known. *)
LEMMA WaitingServes ==
    ASSUME NEW s \in Consistent, NEW w \in s.known
    PROVE  /\ Waiting(s, w) \in Consistent
           /\ Waiting(s, w).line = <<>> \/ Waiting(s, w).queue = <<>>
<1> DEFINE t == [s EXCEPT !.idle = @ \cup {w}, !.line = Append(@, w), !.age[w] = 0]
<1>1. /\ s \in BrokerState /\ s.attached = s.known /\ s.idle \subseteq ToSet(s.line)
      /\ ToSet(s.line) \subseteq s.known
    BY DEF Consistent
<1>2. s.line \in Seq(Workers) /\ w \in Workers /\ s.age \in [Workers -> 0 .. Expiry]
    BY <1>1 DEF BrokerState
<1>3. Append(s.line, w) \in Seq(Workers) /\ ToSet(Append(s.line, w)) = ToSet(s.line) \cup {w}
    BY <1>2, Appended
<1>4. 0 \in 0 .. Expiry
    BY BrokerAssumption
<1>5. [s.age EXCEPT ![w] = 0] \in [Workers -> 0 .. Expiry]
    BY <1>2, <1>4
<1>6. /\ t \in BrokerState /\ t.known = s.known /\ t.attached = s.attached
      /\ t.idle = s.idle \cup {w} /\ t.line = Append(s.line, w)
    BY <1>1, <1>2, <1>3, <1>5 DEF BrokerState
<1> HIDE DEF t
<1>7. t \in Consistent
    BY <1>1, <1>3, <1>6 DEF Consistent
<1> QED
    BY <1>7, DispatchServes DEF Waiting, t

(* worker_delete with a DISCONNECT, for a worker that was just created or  *)
(* is to go; nobody else is served.                                        *)
LEMMA DismissKeeps ==
    ASSUME NEW s \in Consistent, s.line = <<>> \/ s.queue = <<>>, NEW w \in Workers,
           NEW t, t = s \/ t = Require(s, w)
    PROVE  /\ Dismiss(t, w) \in Consistent
           /\ Dismiss(t, w).line = <<>> \/ Dismiss(t, w).queue = <<>>
<1> DEFINE m == [type |-> "DISCONNECT"]
           told == Tell(t, w, m)
<1>1. /\ s \in BrokerState /\ s.attached = s.known /\ s.idle \subseteq ToSet(s.line)
      /\ ToSet(s.line) \subseteq s.known
    BY DEF Consistent
<1>2. /\ t \in BrokerState /\ t.attached = s.attached /\ t.idle = s.idle
      /\ t.line = s.line /\ t.queue = s.queue
      /\ t.known = s.known \/ t.known = s.known \cup {w}
    <2>1. CASE t = s
        BY <1>1, <2>1
    <2>2. CASE t = Require(s, w)
        BY <1>1, <2>2 DEF Require, BrokerState
    <2> QED
        BY <2>1, <2>2
<1>3. m \in ToWorker
    BY DEF ToWorker
<1> HIDE DEF m
<1>4. /\ told \in BrokerState /\ told.known = t.known /\ told.attached = t.attached
      /\ told.idle = t.idle /\ told.line = t.line /\ told.queue = t.queue
    BY <1>2, <1>3, TellKeeps
<1> HIDE DEF told
<1>5. /\ told.attached \ {w} = told.known \ {w} /\ told.idle \subseteq ToSet(told.line)
      /\ ToSet(told.line) \subseteq told.known
    BY <1>1, <1>2, <1>4
<1>6. /\ Delete(told, {w}) \in Consistent /\ Delete(told, {w}).queue = told.queue
      /\ told.line = <<>> => Delete(told, {w}).line = <<>>
    BY <1>4, <1>5, DeleteKeeps
<1>7. Dismiss(t, w) = Delete(told, {w})
    BY DEF Dismiss, told, m
<1> QED
    BY <1>2, <1>4, <1>6, <1>7

LEMMA ReadyKeeps == ASSUME IInv, NEW w \in Workers, TakeReady(w) PROVE IInv'
<1>1. /\ TypeOK /\ b \in Consistent
      /\ b.line = <<>> \/ b.queue = <<>>
    BY IInvMeans
<1>2. Take(w, "READY") /\ UNCHANGED <<up, answered>>
    BY DEF TakeReady
<1>3. /\ toBroker' \in [Workers -> Seq(FromWorker)]
      /\ UNCHANGED <<taken, timer, proc, due, pulled>>
    BY <1>2, TakeTyped
<1>4. /\ b' \in Consistent
      /\ b'.line = <<>> \/ b'.queue = <<>>
    <2>1. CASE w \in b.known
        <3>1. b' = Dismiss(b, w)
            BY <2>1 DEF TakeReady
        <3> QED
            BY <1>1, <3>1, DismissKeeps
    <2>2. CASE w \notin b.known
        <3> DEFINE s == [Require(b, w) EXCEPT !.attached = @ \cup {w}]
        <3>1. b' = Waiting(s, w)
            BY <2>2 DEF TakeReady
        <3>2. s \in Consistent /\ w \in s.known
            BY <1>1 DEF Require, Consistent, BrokerState
        <3> HIDE DEF s
        <3> QED
            BY <3>1, <3>2, WaitingServes
    <2> QED
        BY <2>1, <2>2
<1>5. TypeOK'
    BY <1>1, <1>2, <1>3, <1>4 DEF TypeOK, Consistent
<1> QED
    BY <1>4, <1>5 DEF IInv, PointersValid, QueueServed, Consistent

LEMMA OccupiedKeeps == ASSUME IInv, NEW w \in Workers, TakeOccupied(w) PROVE IInv'
<1>1. /\ TypeOK /\ b \in Consistent
      /\ b.line = <<>> \/ b.queue = <<>>
    BY IInvMeans
<1>2. Take(w, "OCCUPIED") /\ UNCHANGED answered /\ up' \in BOOLEAN
    BY DEF TakeOccupied
<1>3. /\ toBroker' \in [Workers -> Seq(FromWorker)]
      /\ UNCHANGED <<taken, timer, proc, due, pulled>>
    BY <1>2, TakeTyped
<1>4. /\ b' \in Consistent
      /\ b'.line = <<>> \/ b'.queue = <<>>
    <2>1. CASE ~up'
        BY <1>1, <2>1 DEF TakeOccupied
    <2>2. CASE up'
        <3> DEFINE s == Require(b, w)
                   d == [s EXCEPT !.idle = @ \ {w}, !.line = Without(@, {w})]
        <3>1. w \in s.attached /\ b' = d
            BY <2>2 DEF TakeOccupied
        <3>2. /\ b \in BrokerState /\ b.attached = b.known /\ b.idle \subseteq ToSet(b.line)
              /\ ToSet(b.line) \subseteq b.known
            BY <1>1 DEF Consistent
        <3>3. s = b
            BY <3>1, <3>2 DEF Require, BrokerState
        <3> HIDE DEF s
        <3>4. /\ Without(b.line, {w}) \in Seq(Workers)
              /\ ToSet(Without(b.line, {w})) = ToSet(b.line) \ {w}
              /\ Len(Without(b.line, {w})) <= Len(b.line)
            BY <3>2, WithoutLine DEF BrokerState
        <3>5. /\ d \in BrokerState /\ d.known = b.known /\ d.attached = b.attached
              /\ d.idle = b.idle \ {w} /\ d.line = Without(b.line, {w}) /\ d.queue = b.queue
            BY <3>2, <3>3, <3>4 DEF BrokerState
        <3> HIDE DEF d
        <3>6. d \in Consistent
            BY <3>2, <3>4, <3>5 DEF Consistent
        <3>7. b.line = <<>> => d.line = <<>>
            <4>1. Len(<<>>) = 0
                OBVIOUS
            <4> QED
                BY <3>4, <3>5, <4>1, EmptySeq, LenProperties
        <3> QED
            BY <1>1, <3>1, <3>5, <3>6, <3>7
    <2> QED
        BY <2>1, <2>2
<1>5. TypeOK'
    BY <1>1, <1>2, <1>3, <1>4 DEF TypeOK, Consistent
<1> QED
    BY <1>4, <1>5 DEF IInv, PointersValid, QueueServed, Consistent

LEMMA ReplyKeeps == ASSUME IInv, NEW w \in Workers, TakeReply(w) PROVE IInv'
<1>1. /\ TypeOK /\ b \in Consistent
      /\ b.line = <<>> \/ b.queue = <<>>
    BY IInvMeans
<1>2. Take(w, "REPLY") /\ UNCHANGED up
    BY DEF TakeReply
<1>3. /\ toBroker' \in [Workers -> Seq(FromWorker)]
      /\ UNCHANGED <<taken, timer, proc, due, pulled>>
      /\ Head(toBroker[w]).req \in Requests
    <2>1. Head(toBroker[w]) \in FromWorker /\ Head(toBroker[w]).type = "REPLY"
        BY <1>2, TakeTyped
    <2>2. Head(toBroker[w]).req \in Requests
        BY <2>1 DEF FromWorker
    <2> QED
        BY <1>2, <2>2, TakeTyped
<1>4. /\ b' \in Consistent
      /\ b'.line = <<>> \/ b'.queue = <<>>
    <2>1. CASE w \in b.known
        <3>1. b' = Waiting(b, w)
            BY <2>1 DEF TakeReply
        <3> QED
            BY <1>1, <2>1, <3>1, WaitingServes
    <2>2. CASE w \notin b.known
        <3>1. b' = Dismiss(Require(b, w), w)
            BY <2>2 DEF TakeReply
        <3> QED
            BY <1>1, <3>1, DismissKeeps
    <2> QED
        BY <2>1, <2>2
<1>5. answered' \subseteq Requests
    BY <1>1, <1>3 DEF TakeReply, TypeOK
<1>6. TypeOK'
    BY <1>1, <1>2, <1>3, <1>4, <1>5 DEF TypeOK, Consistent
<1> QED
    BY <1>4, <1>6 DEF IInv, PointersValid, QueueServed, Consistent

LEMMA HeartbeatKeeps == ASSUME IInv, NEW w \in Workers, TakeHeartbeat(w) PROVE IInv'
<1>1. /\ TypeOK /\ b \in Consistent
      /\ b.line = <<>> \/ b.queue = <<>>
    BY IInvMeans
<1>2. Take(w, "HEARTBEAT") /\ UNCHANGED <<up, answered>>
    BY DEF TakeHeartbeat
<1>3. /\ toBroker' \in [Workers -> Seq(FromWorker)]
      /\ UNCHANGED <<taken, timer, proc, due, pulled>>
    BY <1>2, TakeTyped
<1>4. /\ b' \in Consistent
      /\ b'.line = <<>> \/ b'.queue = <<>>
    <2>1. CASE w \in b.known
        <3>1. b' = [b EXCEPT !.age[w] = 0]
            BY <2>1 DEF TakeHeartbeat
        <3>2. 0 \in 0 .. Expiry
            BY BrokerAssumption
        <3> QED
            BY <1>1, <3>1, <3>2 DEF Consistent, BrokerState
    <2>2. CASE w \notin b.known
        <3>1. b' = Dismiss(Require(b, w), w)
            BY <2>2 DEF TakeHeartbeat
        <3> QED
            BY <1>1, <3>1, DismissKeeps
    <2> QED
        BY <2>1, <2>2
<1>5. TypeOK'
    BY <1>1, <1>2, <1>3, <1>4 DEF TypeOK, Consistent
<1> QED
    BY <1>4, <1>5 DEF IInv, PointersValid, QueueServed, Consistent

LEMMA BrokerTakeKeeps == ASSUME IInv, NEW w \in Workers, BrokerTake(w) PROVE IInv'
BY ReadyKeeps, OccupiedKeeps, ReplyKeeps, HeartbeatKeeps DEF BrokerTake

LEMMA ClientRequestKeeps == ASSUME IInv, ClientRequest PROVE IInv'
<1>1. TypeOK /\ b \in Consistent
    BY IInvMeans
<1> DEFINE s == [b EXCEPT !.queue = Append(@, taken + 1)]
<1>2. /\ taken \in 0 .. MaxRequests /\ taken < MaxRequests /\ MaxRequests \in Nat
      /\ taken' = taken + 1 /\ b' = Dispatch(s)
      /\ UNCHANGED <<up, answered, timer, proc, due, pulled, toBroker>>
    BY <1>1, BrokerAssumption DEF ClientRequest, TypeOK, workerVars
<1>3. taken + 1 \in 0 .. MaxRequests /\ taken + 1 \in Requests
    BY <1>2 DEF Requests
<1>4. Append(b.queue, taken + 1) \in Seq(Requests)
    BY <1>1, <1>3, AppendProperties DEF Consistent, BrokerState
<1>5. s \in Consistent
    BY <1>1, <1>4 DEF Consistent, BrokerState
<1> HIDE DEF s
<1>6. /\ b' \in Consistent
      /\ b'.line = <<>> \/ b'.queue = <<>>
    BY <1>2, <1>5, DispatchServes
<1>7. TypeOK'
    BY <1>1, <1>2, <1>3, <1>6 DEF TypeOK, Consistent
<1> QED
    BY <1>6, <1>7 DEF IInv, PointersValid, QueueServed, Consistent

LEMMA PurgeKeeps == ASSUME IInv, PurgeOnTime PROVE IInv'
<1>1. /\ TypeOK /\ b \in Consistent
      /\ b.line = <<>> \/ b.queue = <<>>
    BY IInvMeans
<1> DEFINE W == {w \in b.idle : b.age[w] = Expiry}
<1>2. b' = Delete(b, W)
    BY DEF PurgeOnTime, Purge
<1> HIDE DEF W
<1>3. /\ b \in BrokerState /\ b.attached = b.known /\ b.idle \subseteq ToSet(b.line)
      /\ ToSet(b.line) \subseteq b.known
    BY <1>1 DEF Consistent
<1>4. /\ b' \in Consistent /\ b'.queue = b.queue
      /\ b.line = <<>> => b'.line = <<>>
    BY <1>2, <1>3, DeleteKeeps
<1>5. TypeOK'
    BY <1>1, <1>4 DEF TypeOK, PurgeOnTime, Consistent, workerVars
<1> QED
    BY <1>1, <1>4, <1>5 DEF IInv, PointersValid, QueueServed, Consistent

LEMMA TickKeeps == ASSUME IInv, Tick PROVE IInv'
<1>1. /\ TypeOK /\ b \in Consistent
      /\ b.line = <<>> \/ b.queue = <<>>
    BY IInvMeans
<1> DEFINE older == [w \in Workers |-> IF b.age[w] < Expiry THEN b.age[w] + 1 ELSE Expiry]
<1>2. b' = [b EXCEPT !.age = older]
    BY DEF Tick
<1>3. older \in [Workers -> 0 .. Expiry]
    BY <1>1, BrokerAssumption DEF Consistent, BrokerState
<1> HIDE DEF older
<1>4. b' \in Consistent /\ b'.queue = b.queue /\ b'.line = b.line
    BY <1>1, <1>2, <1>3 DEF Consistent, BrokerState
<1>5. TypeOK'
    BY <1>1, <1>4 DEF TypeOK, Tick, Consistent
<1> QED
    BY <1>1, <1>4, <1>5 DEF IInv, PointersValid, QueueServed, Consistent

(* What a worker sends and takes does not touch the broker's lists.        *)
LEMMA WorkerStepKeeps ==
    ASSUME IInv, NEW s \in [Workers -> Seq(ToWorker)],
           b' = b \/ b' = [b EXCEPT !.out = s],
           UNCHANGED <<up, taken, answered, timer>>,
           proc' \in [Workers -> {"off", "on", "ended"}],
           due' \subseteq Workers,
           toBroker' \in [Workers -> Seq(FromWorker)],
           pulled' \in [Workers -> SUBSET Requests]
    PROVE  IInv'
<1>1. /\ TypeOK /\ b \in Consistent
      /\ b.line = <<>> \/ b.queue = <<>>
    BY IInvMeans
<1>2. b' \in Consistent /\ b'.queue = b.queue /\ b'.line = b.line
    <2>1. CASE b' = b
        BY <1>1, <2>1
    <2>2. CASE b' = [b EXCEPT !.out = s]
        BY <1>1, <2>2 DEF Consistent, BrokerState
    <2> QED
        BY <2>1, <2>2
<1>3. TypeOK'
    BY <1>1, <1>2 DEF TypeOK, Consistent
<1> QED
    BY <1>1, <1>2, <1>3 DEF IInv, PointersValid, QueueServed, Consistent

LEMMA StartKeeps == ASSUME IInv, NEW w \in Workers, Start(w) PROVE IInv'
<1>1. TypeOK
    BY DEF IInv
<1>2. <<[type |-> "READY"]>> \in Seq(FromWorker)
    <2>1. [type |-> "READY"] \in FromWorker
        BY DEF FromWorker
    <2> QED
        BY <2>1
<1>3. toBroker' \in [Workers -> Seq(FromWorker)] /\ proc' \in [Workers -> {"off", "on", "ended"}]
    BY <1>1, <1>2 DEF Start, TypeOK
<1>4. b' = b /\ b.out \in [Workers -> Seq(ToWorker)] /\ UNCHANGED <<up, taken, answered, timer>>
    BY <1>1 DEF Start, TypeOK, BrokerState, brokerVars
<1>5. due' \subseteq Workers /\ pulled' \in [Workers -> SUBSET Requests]
    BY <1>1 DEF Start, TypeOK
<1> QED
    BY <1>3, <1>4, <1>5, WorkerStepKeeps

(* What a worker finds first in its socket.                                *)
LEMMA NextFromBrokerTyped ==
    ASSUME TypeOK, NEW w \in Workers, NEW type, NextFromBroker(w, type)
    PROVE  /\ Head(b.out[w]) \in ToWorker /\ Head(b.out[w]).type = type
           /\ UNCHANGED <<up, taken, answered, timer>>
           /\ \E s \in [Workers -> Seq(ToWorker)] : b' = [b EXCEPT !.out = s]
<1>1. b.out[w] \in Seq(ToWorker) /\ b.out[w] # <<>> /\ b.out \in [Workers -> Seq(ToWorker)]
    BY DEF TypeOK, BrokerState, NextFromBroker
<1>2. Head(b.out[w]) \in ToWorker /\ Tail(b.out[w]) \in Seq(ToWorker)
    BY <1>1, HeadTailProperties
<1>3. [b.out EXCEPT ![w] = Tail(@)] \in [Workers -> Seq(ToWorker)]
    BY <1>1, <1>2
<1>4. b' = [b EXCEPT !.out = [b.out EXCEPT ![w] = Tail(@)]]
    BY DEF NextFromBroker, TypeOK, BrokerState
<1> QED
    BY <1>2, <1>3, <1>4 DEF NextFromBroker

LEMMA RecvRequestKeeps == ASSUME IInv, NEW w \in Workers, RecvRequest(w) PROVE IInv'
<1>1. TypeOK
    BY DEF IInv
<1>2. NextFromBroker(w, "REQUEST")
    BY DEF RecvRequest
<1> DEFINE r == Head(b.out[w]).req
<1>3. r \in Requests
    <2>1. Head(b.out[w]) \in ToWorker /\ Head(b.out[w]).type = "REQUEST"
        BY <1>1, <1>2, NextFromBrokerTyped
    <2> QED
        BY <2>1 DEF ToWorker
<1>4. Append(toBroker[w], Reply(r)) \in Seq(FromWorker)
    <2>1. Reply(r) \in FromWorker
        BY <1>3 DEF Reply, FromWorker
    <2> QED
        BY <1>1, <2>1, AppendProperties DEF TypeOK
<1>5. toBroker' \in [Workers -> Seq(FromWorker)] /\ UNCHANGED <<proc, due>>
    BY <1>1, <1>4 DEF RecvRequest, TypeOK
<1>6. pulled' \in [Workers -> SUBSET Requests]
    <2>1. PICK P \in SUBSET {v \in Workers \ {w} : proc[v] # "off"} :
              pulled' = [v \in Workers |-> IF v \in P THEN pulled[v] \cup {r} ELSE pulled[v]]
        BY DEF RecvRequest
    <2> HIDE DEF r
    <2> QED
        BY <1>1, <1>3, <2>1 DEF TypeOK
<1>7. proc' \in [Workers -> {"off", "on", "ended"}] /\ due' \subseteq Workers
    BY <1>1, <1>5 DEF TypeOK
<1>8. PICK s \in [Workers -> Seq(ToWorker)] : b' = [b EXCEPT !.out = s]
    BY <1>1, <1>2, NextFromBrokerTyped
<1>9. UNCHANGED <<up, taken, answered, timer>>
    BY <1>1, <1>2, NextFromBrokerTyped
<1> QED
    BY <1>5, <1>6, <1>7, <1>8, <1>9, WorkerStepKeeps

LEMMA RecvWorkKeeps ==
    ASSUME IInv, NEW w \in Workers, NEW r \in Requests, RecvWork(w, r) PROVE IInv'
<1>1. TypeOK
    BY DEF IInv
<1>2. toBroker[w] \o <<[type |-> "OCCUPIED"], Reply(r)>> \in Seq(FromWorker)
    <2>1. [type |-> "OCCUPIED"] \in FromWorker /\ Reply(r) \in FromWorker
        BY DEF Reply, FromWorker
    <2>2. <<[type |-> "OCCUPIED"], Reply(r)>> \in Seq(FromWorker)
        BY <2>1
    <2> QED
        BY <1>1, <2>2, ConcatProperties DEF TypeOK
<1>3. toBroker' \in [Workers -> Seq(FromWorker)] /\ pulled' \in [Workers -> SUBSET Requests]
    BY <1>1, <1>2 DEF RecvWork, TypeOK
<1>4. b' = b /\ b.out \in [Workers -> Seq(ToWorker)] /\ UNCHANGED <<up, taken, answered, timer>>
    BY <1>1 DEF RecvWork, TypeOK, BrokerState, brokerVars
<1>5. due' \subseteq Workers /\ proc' \in [Workers -> {"off", "on", "ended"}]
    BY <1>1 DEF RecvWork, TypeOK
<1> QED
    BY <1>3, <1>4, <1>5, WorkerStepKeeps

LEMMA SendHeartbeatKeeps == ASSUME IInv, NEW w \in Workers, SendHeartbeat(w) PROVE IInv'
<1>1. TypeOK
    BY DEF IInv
<1>2. Append(toBroker[w], [type |-> "HEARTBEAT"]) \in Seq(FromWorker)
    <2>1. [type |-> "HEARTBEAT"] \in FromWorker
        BY DEF FromWorker
    <2> QED
        BY <1>1, <2>1, AppendProperties DEF TypeOK
<1>3. toBroker' \in [Workers -> Seq(FromWorker)] /\ due' \subseteq Workers
    BY <1>1, <1>2 DEF SendHeartbeat, TypeOK
<1>4. b' = b /\ b.out \in [Workers -> Seq(ToWorker)] /\ UNCHANGED <<up, taken, answered, timer>>
    BY <1>1 DEF SendHeartbeat, TypeOK, BrokerState, brokerVars
<1>5. pulled' \in [Workers -> SUBSET Requests] /\ proc' \in [Workers -> {"off", "on", "ended"}]
    BY <1>1 DEF SendHeartbeat, TypeOK
<1> QED
    BY <1>3, <1>4, <1>5, WorkerStepKeeps

LEMMA EndedTyped ==
    ASSUME TypeOK, NEW w \in Workers, Ended(w)
    PROVE  /\ proc' \in [Workers -> {"off", "on", "ended"}]
           /\ due' \subseteq Workers
           /\ toBroker' \in [Workers -> Seq(FromWorker)]
           /\ pulled' \in [Workers -> SUBSET Requests]
<1>1. PICK k \in 0 .. Len(toBroker[w]) : toBroker' = [toBroker EXCEPT ![w] = SubSeq(@, 1, k)]
    BY DEF Ended
<1>2. toBroker[w] \in Seq(FromWorker) /\ toBroker \in [Workers -> Seq(FromWorker)]
    BY DEF TypeOK
<1>3. SubSeq(toBroker[w], 1, k) \in Seq(FromWorker)
    BY <1>1, <1>2
<1>4. toBroker' \in [Workers -> Seq(FromWorker)]
    BY <1>1, <1>2, <1>3
<1> QED
    BY <1>4 DEF Ended, TypeOK

LEMMA RecvDisconnectKeeps == ASSUME IInv, NEW w \in Workers, RecvDisconnect(w) PROVE IInv'
<1>1. TypeOK
    BY DEF IInv
<1>2. NextFromBroker(w, "DISCONNECT") /\ Ended(w)
    BY DEF RecvDisconnect
<1>3. PICK s \in [Workers -> Seq(ToWorker)] : b' = [b EXCEPT !.out = s]
    BY <1>1, <1>2, NextFromBrokerTyped
<1>4. UNCHANGED <<up, taken, answered, timer>>
    BY <1>1, <1>2, NextFromBrokerTyped
<1> QED
    BY <1>1, <1>2, <1>3, <1>4, EndedTyped, WorkerStepKeeps

LEMMA DieKeeps == ASSUME IInv, NEW w \in Workers, Die(w) PROVE IInv'
<1>1. TypeOK
    BY DEF IInv
<1> DEFINE s == [b.out EXCEPT ![w] = <<>>]
<1>2. s \in [Workers -> Seq(ToWorker)]
    BY <1>1, EmptySeq DEF TypeOK, BrokerState
<1>3. b' = [b EXCEPT !.out = s] /\ UNCHANGED <<up, taken, answered, timer>> /\ Ended(w)
    BY <1>1 DEF Die, TypeOK, BrokerState
<1> HIDE DEF s
<1> QED
    BY <1>1, <1>2, <1>3, EndedTyped, WorkerStepKeeps

LEMMA InvStep == IInv /\ [Next]_vars => IInv'
<1> SUFFICES ASSUME IInv, [Next]_vars PROVE IInv'
    OBVIOUS
<1>1. CASE UNCHANGED vars
    BY <1>1 DEF IInv, TypeOK, PointersValid, QueueServed, vars
<1>2. CASE ClientRequest
    BY <1>2, ClientRequestKeeps
<1>3. CASE PurgeOnTime
    BY <1>3, PurgeKeeps
<1>4. CASE Tick
    BY <1>4, TickKeeps
<1>5. ASSUME NEW w \in Workers, BrokerTake(w) PROVE IInv'
    BY <1>5, BrokerTakeKeeps
<1>6. ASSUME NEW w \in Workers, Start(w) PROVE IInv'
    BY <1>6, StartKeeps
<1>7. ASSUME NEW w \in Workers, WorkerRecv(w) PROVE IInv'
    <2>1. CASE RecvRequest(w)
        BY <2>1, RecvRequestKeeps
    <2>2. CASE RecvDisconnect(w)
        BY <2>2, RecvDisconnectKeeps
    <2>3. ASSUME NEW r \in Requests, RecvWork(w, r) PROVE IInv'
        BY <2>3, RecvWorkKeeps
    <2> QED
        BY <1>7, <2>1, <2>2, <2>3 DEF WorkerRecv
<1>8. ASSUME NEW w \in Workers, SendHeartbeat(w) PROVE IInv'
    BY <1>8, SendHeartbeatKeeps
<1>9. ASSUME NEW w \in Workers, Die(w) PROVE IInv'
    BY <1>9, DieKeeps
<1> QED
    BY <1>1, <1>2, <1>3, <1>4, <1>5, <1>6, <1>7, <1>8, <1>9 DEF Next

LEMMA AlwaysInv == Spec => []IInv
BY InvInit, InvStep, PTL DEF Spec

(* majBroker.cpp: no message of a worker, and no deletion, takes what the  *)
(* broker keeps out of its types.                                          *)
THEOREM BrokerTypes == Spec => []TypeOK
<1>1. IInv => TypeOK
    BY DEF IInv
<1> QED
    BY <1>1, AlwaysInv, PTL

(* No worker that was deleted is still in a list of waiting ones, and none *)
(* is kept without its service: what worker_process and service_dispatch   *)
(* dereference is there.                                                   *)
THEOREM NoDanglingPointer == Spec => []PointersValid
<1>1. IInv => PointersValid
    BY DEF IInv
<1> QED
    BY <1>1, AlwaysInv, PTL

(* A request waits only while no worker is in line for it.                 *)
THEOREM QueueAlwaysServed == Spec => []QueueServed
<1>1. IInv => QueueServed
    BY DEF IInv
<1> QED
    BY <1>1, AlwaysInv, PTL
=============================================================================

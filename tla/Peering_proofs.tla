--------------------------- MODULE Peering_proofs ---------------------------
(***************************************************************************)
(* However many brokers, clients and workers there are, and whichever      *)
(* sockets are connected when: no request is doubled, none is handed to a  *)
(* worker that is not idle, and each reply finds the client that waits for *)
(* it.                                                                     *)
(***************************************************************************)
EXTENDS Peering, TLAPS

(* A worker's places: what it works on, and what it has said. *)
Of(w) == {<<"worker", w>>, <<"localbe", w>>}

(* What is under way is of the task at hand. *)
Current ==
    \A m \in msgs : /\ m.task = task[m.client]
                    /\ cli[m.client] \in {"waiting", "gone"}

(* A client has at most one message under way, and so has a worker. *)
Unique ==
    \A m, n \in msgs :
        \/ m = n
        \/ /\ m.client # n.client
           /\ \A w \in Workers : m.place \in Of(w) => n.place \notin Of(w)

(* Who has something to do has said READY, and that was read. *)
Engaged ==
    /\ ready \subseteq started
    /\ \A m \in msgs, w \in Workers : m.place \in Of(w) => w \in started \ ready
    /\ \A b \in Brokers : \A i \in 1 .. Len(workers[b]) : workers[b][i] \in started

IInv ==
    /\ TypeOK
    /\ NeverAborts
    /\ QueuedAreIdle
    /\ ForwardedOnce
    /\ NoneForgotten
    /\ Current
    /\ Unique
    /\ Engaged

-----------------------------------------------------------------------------
(* A message that goes on is the same but for where it is. *)
LEMMA Moved ==
    ASSUME msgs \subseteq Message, NEW m \in msgs, NEW place \in Places,
           NEW origin \in Brokers \cup {None}, Move(m, place, origin)
    PROVE  \E n \in Message :
              /\ msgs' = (msgs \ {m}) \cup {n}
              /\ n.place = place /\ n.origin = origin
              /\ n.client = m.client /\ n.task = m.task
              /\ dropped' = dropped
<1> DEFINE n == [m EXCEPT !.place = place, !.origin = origin]
<1>1. m \in Message
  OBVIOUS
<1>2. /\ n \in Message
      /\ n.place = place /\ n.origin = origin
      /\ n.client = m.client /\ n.task = m.task
  BY <1>1 DEF Message
<1>3. msgs' = (msgs \ {m}) \cup {n} /\ dropped' = dropped
  BY DEF Move
<1> HIDE DEF n
<1> QED BY <1>2, <1>3

LEMMA PlacesOf ==
    /\ \A b \in Brokers : /\ <<"localfe", b>> \in Places
                          /\ <<"cloudfe", b>> \in Places
                          /\ <<"cloudbe", b>> \in Places
    /\ \A w \in Workers : <<"worker", w>> \in Places /\ <<"localbe", w>> \in Places
    /\ \A c \in Clients : <<"client", c>> \in Places
BY DEF Places

(* A queue with one more, or one less. *)
LEMMA Longer ==
    ASSUME NEW q \in Seq(Workers), NEW w \in Workers
    PROVE  /\ Append(q, w) \in Seq(Workers)
           /\ Len(Append(q, w)) = Len(q) + 1
           /\ Len(q) \in Nat
           /\ \A i \in 1 .. Len(q) : Append(q, w)[i] = q[i]
           /\ Append(q, w)[Len(q) + 1] = w
OBVIOUS

LEMMA Shorter ==
    ASSUME NEW q \in Seq(Workers), q # <<>>
    PROVE  /\ Tail(q) \in Seq(Workers)
           /\ Head(q) \in Workers /\ Head(q) = q[1]
           /\ Len(q) \in Nat \ {0}
           /\ Len(Tail(q)) = Len(q) - 1
           /\ \A i \in 1 .. Len(q) - 1 : Tail(q)[i] = q[i + 1] /\ i + 1 \in 1 .. Len(q)
OBVIOUS

LEMMA NoneQueued == \A q : q = <<>> => Len(q) = 0 /\ 1 .. Len(q) = {}
<1>1. Len(<<>>) = 0
  OBVIOUS
<1>2. 1 .. 0 = {}
  OBVIOUS
<1> QED BY <1>1, <1>2

LEMMA NotEmpty ==
    ASSUME NEW q \in Seq(Workers), Len(q) > 0
    PROVE  q # <<>>
OBVIOUS

-----------------------------------------------------------------------------
LEMMA InitIsSafe == ASSUME Deployed, Init PROVE IInv
<1>1. TypeOK
  BY DEF Deployed, Init, TypeOK
<1>2. \A b \in Brokers : workers[b] = <<>> /\ localCapacity[b] = 0
  BY DEF Init
<1>3. \A b \in Brokers : Len(workers[b]) = 0 /\ 1 .. Len(workers[b]) = {}
  BY <1>2, NoneQueued
<1>4. QueuedAreIdle
  BY <1>2, <1>3 DEF QueuedAreIdle
<1>5. NeverAborts /\ ForwardedOnce /\ NoneForgotten
  BY DEF Init, NeverAborts, ForwardedOnce, NoneForgotten
<1>6. Current /\ Unique
  BY DEF Init, Current, Unique
<1>7. Engaged
  BY <1>3 DEF Init, Engaged
<1> QED BY <1>1, <1>4, <1>5, <1>6, <1>7 DEF IInv

-----------------------------------------------------------------------------
(* What holds of a message wherever it is: ForwardedOnce of one. *)
RightWay(place, origin, c) ==
    /\ place[1] = "localfe" => place[2] = Home[c] /\ origin = None
    /\ place[1] = "cloudfe" => origin = Home[c] /\ place[2] # origin
    /\ place[1] \in {"worker", "localbe"} =>
          \/ origin = None /\ Home[place[2]] = Home[c]
          \/ origin = Home[c] /\ Home[place[2]] # origin
    /\ place[1] = "cloudbe" => place[2] = Home[c]
    /\ place[1] = "client" => place[2] = c

LEMMA RightWays == ForwardedOnce <=> \A m \in msgs : RightWay(m.place, m.origin, m.client)
BY DEF ForwardedOnce, RightWay

(* A message that goes on the right way, to a worker that has no other,    *)
(* keeps all that is said of messages alone.                               *)
LEMMA MoveKeeps ==
    ASSUME IInv, NEW m \in msgs, NEW place \in Places,
           NEW origin \in Brokers \cup {None}, Move(m, place, origin),
           UNCHANGED <<cli, task>>,
           RightWay(place, origin, m.client),
           \A w \in Workers, k \in msgs : place \in Of(w) /\ k.place \in Of(w) => k = m
    PROVE  /\ msgs' \subseteq Message
           /\ ForwardedOnce' /\ Unique' /\ Current' /\ NoneForgotten' /\ NeverAborts'
           /\ \A k \in msgs' : k \in msgs \/ k.place = place
<1> USE DEF IInv
<1>0. msgs \subseteq Message
  BY DEF TypeOK
<1>1. PICK n \in Message :
         /\ msgs' = (msgs \ {m}) \cup {n}
         /\ n.place = place /\ n.origin = origin
         /\ n.client = m.client /\ n.task = m.task
         /\ dropped' = dropped
  BY <1>0, Moved
<1>2. msgs' \subseteq Message
  BY <1>0, <1>1
<1>3. \A k \in msgs' : RightWay(k.place, k.origin, k.client)
  BY <1>1, RightWays
<1>4. ForwardedOnce'
  BY <1>3 DEF ForwardedOnce, RightWay
<1>5. Unique'
  BY <1>1 DEF Unique
<1>6. Current'
  BY <1>1 DEF Current
<1>7. NoneForgotten' /\ NeverAborts'
  BY <1>1 DEF NoneForgotten, NeverAborts
<1> QED BY <1>1, <1>2, <1>4, <1>5, <1>6, <1>7

(* So does one that goes nowhere. *)
LEMMA DropKeeps ==
    ASSUME IInv, NEW m \in msgs, Drop(m), UNCHANGED <<cli, task>>
    PROVE  /\ msgs' \subseteq msgs
           /\ dropped' \subseteq Clients
           /\ ForwardedOnce' /\ Unique' /\ Current' /\ NoneForgotten' /\ NeverAborts'
<1> USE DEF IInv, Drop
<1>1. msgs' \subseteq msgs
  OBVIOUS
<1>2. m \in Message
  BY DEF TypeOK
<1>3. dropped' \subseteq Clients
  BY <1>2 DEF TypeOK, Message
<1>4. ForwardedOnce'
  BY <1>1 DEF ForwardedOnce
<1>5. Unique' /\ Current'
  BY <1>1 DEF Unique, Current
<1>6. NoneForgotten' /\ NeverAborts'
  BY DEF NoneForgotten, NeverAborts
<1> QED BY <1>1, <1>3, <1>4, <1>5, <1>6

(* And so does every step that leaves messages alone. *)
LEMMA StillKeeps ==
    ASSUME IInv, UNCHANGED <<msgs, dropped, cli, task>>
    PROVE  ForwardedOnce' /\ Unique' /\ Current' /\ NoneForgotten' /\ NeverAborts'
BY DEF IInv, ForwardedOnce, Unique, Current, NoneForgotten, NeverAborts

LEMMA Elsewhere ==
    \A w \in Workers : \A x :
        /\ <<"localfe", x>> \notin Of(w) /\ <<"cloudfe", x>> \notin Of(w)
        /\ <<"cloudbe", x>> \notin Of(w) /\ <<"client", x>> \notin Of(w)
        /\ <<"worker", x>> \in Of(w) => x = w
        /\ <<"localbe", x>> \in Of(w) => x = w
BY DEF Of

(* A step that gives no worker anything leaves the queues as good. *)
LEMMA QueuesKept ==
    ASSUME IInv, UNCHANGED <<workers, localCapacity, ready>>, started \subseteq started',
           \A k \in msgs', w \in Workers : k.place \in Of(w) => \E l \in msgs : l.place \in Of(w)
    PROVE  QueuedAreIdle' /\ Engaged'
<1>1. \A b \in Brokers : \A i \in 1 .. Len(workers[b]) : workers[b][i] \in Workers
  BY DEF IInv, TypeOK
<1>2. QueuedAreIdle'
  <2>1. ASSUME NEW b \in Brokers, NEW i \in 1 .. Len(workers[b]), NEW m \in msgs',
               m.place \in Of(workers[b][i])
        PROVE  FALSE
    <3>1. PICK l \in msgs : l.place \in Of(workers[b][i])
      BY <1>1, <2>1
    <3> QED BY <3>1 DEF IInv, QueuedAreIdle, Of
  <2>2. \A b \in Brokers : \A i \in 1 .. Len(workers[b]) : \A m \in msgs' :
           m.place # <<"worker", workers[b][i]>> /\ m.place # <<"localbe", workers[b][i]>>
    BY <2>1 DEF Of
  <2> QED BY <2>2 DEF IInv, QueuedAreIdle
<1>3. Engaged'
  BY DEF IInv, Engaged
<1> QED BY <1>2, <1>3

-----------------------------------------------------------------------------
(* The threads. *)
LEMMA RequestKeeps == ASSUME Deployed, IInv, NEW c \in Clients, Request(c) PROVE IInv'
<1> DEFINE n == [place |-> <<"localfe", Home[c]>>, client |-> c,
                 task |-> task[c] + 1, origin |-> None]
<1> USE DEF IInv
<1>0. Home[c] \in Brokers /\ task[c] \in 0 .. MaxTasks /\ MaxTasks \in Nat
  BY DEF Deployed, TypeOK
<1>1. n \in Message
  <2>1. task[c] + 1 \in 1 .. MaxTasks
    BY <1>0 DEF Request
  <2>2. <<"localfe", Home[c]>> \in Places
    BY <1>0, PlacesOf
  <2> QED BY <2>1, <2>2 DEF Message
<1>2. \A m \in msgs : m.client # c
  BY DEF Request, Current
<1>3. msgs' = msgs \cup {n}
  BY DEF Request
<1>4. /\ n.place = <<"localfe", Home[c]>> /\ n.client = c
      /\ n.task = task[c] + 1 /\ n.origin = None
  OBVIOUS
<1>5. \A w \in Workers : n.place \notin Of(w)
  BY <1>4, Elsewhere
<1> HIDE DEF n
<1>6. \A m \in msgs : m.client \in Clients
  BY DEF TypeOK, Message
<1>7. TypeOK'
  <2>1. task' \in [Clients -> 0 .. MaxTasks]
    BY <1>0 DEF Request, TypeOK
  <2>2. cli' \in [Clients -> {"idle", "waiting", "gone", "aborted"}]
    BY DEF Request, TypeOK
  <2>3. msgs' \subseteq Message
    BY <1>1, <1>3 DEF TypeOK
  <2> QED BY <2>1, <2>2, <2>3 DEF Request, TypeOK, brokerVars
<1>8. cli' = [cli EXCEPT ![c] = "waiting"] /\ task' = [task EXCEPT ![c] = task[c] + 1]
  BY DEF Request
<1>9. Current'
  BY <1>2, <1>3, <1>4, <1>6, <1>8 DEF Current, TypeOK
<1>10. Unique'
  BY <1>2, <1>3, <1>4, <1>5 DEF Unique
<1>11. ForwardedOnce'
  <2>1. RightWay(n.place, n.origin, n.client)
    BY <1>4 DEF RightWay
  <2> QED BY <1>3, <2>1, RightWays DEF ForwardedOnce, RightWay
<1>12. NoneForgotten' /\ NeverAborts'
  BY <1>3, <1>4, <1>8 DEF NoneForgotten, NeverAborts, TypeOK, Request
<1>13. QueuedAreIdle' /\ Engaged'
  BY <1>3, <1>5, QueuesKept DEF Request, brokerVars
<1> QED BY <1>7, <1>9, <1>10, <1>11, <1>12, <1>13

LEMMA AnswerKeeps == ASSUME Deployed, IInv, NEW c \in Clients, Answer(c) PROVE IInv'
<1> USE DEF IInv
<1>1. PICK m \in At("client", c) :
         /\ msgs' = msgs \ {m}
         /\ cli' = [cli EXCEPT ![c] = IF m.task = task[c] THEN "idle" ELSE "aborted"]
  BY DEF Answer
<1>2. m \in msgs /\ m.place = <<"client", c>>
  BY DEF At
<1>3. m.client = c
  BY <1>2 DEF ForwardedOnce
<1>4. m.task = task[c]
  BY <1>2, <1>3 DEF Current
<1>5. cli' = [cli EXCEPT ![c] = "idle"]
  BY <1>1, <1>4
<1>6. \A n \in msgs' : n.client # c
  BY <1>1, <1>2, <1>3 DEF Unique
<1>7. UNCHANGED <<links, ready, started, task, brokerVars, dropped>>
  BY DEF Answer
<1>8. TypeOK'
  <2>1. Home[c] \in Brokers
    BY DEF Deployed
  <2>0. monitor \in [Brokers -> Nat]
    BY DEF TypeOK
  <2>2. monitor' \in [Brokers -> Nat]
    <3> HIDE DEF IInv
    <3> QED BY <2>0, <2>1 DEF Answer, Report
  <2> QED BY <1>1, <1>5, <1>7, <2>2 DEF TypeOK, brokerVars
<1>9. Current'
  <2> SUFFICES ASSUME NEW n \in msgs'
               PROVE  n.task = task[n.client] /\ cli'[n.client] \in {"waiting", "gone"}
    BY <1>7 DEF Current
  <2>1. n \in msgs /\ n.client \in Clients
    BY <1>1 DEF TypeOK, Message
  <2> QED BY <1>5, <1>6, <2>1 DEF Current, TypeOK
<1>10. Unique' /\ ForwardedOnce'
  BY <1>1 DEF Unique, ForwardedOnce
<1>11. NoneForgotten' /\ NeverAborts'
  BY <1>1, <1>3, <1>5, <1>7 DEF NoneForgotten, NeverAborts, TypeOK
<1>12. QueuedAreIdle' /\ Engaged'
  BY <1>1, <1>7, QueuesKept DEF brokerVars
<1> QED BY <1>8, <1>9, <1>10, <1>11, <1>12

LEMMA GiveUpKeeps == ASSUME Deployed, IInv, NEW c \in Clients, GiveUp(c) PROVE IInv'
<1> USE DEF IInv
<1>1. cli' = [cli EXCEPT ![c] = "gone"]
  BY DEF GiveUp
<1>2. UNCHANGED <<links, msgs, ready, started, task, brokerVars, dropped>>
  BY DEF GiveUp
<1>3. TypeOK'
  <2>1. Home[c] \in Brokers
    BY DEF Deployed
  <2>2. monitor' \in [Brokers -> Nat]
    BY <2>1 DEF GiveUp, Report, TypeOK
  <2> QED BY <1>1, <1>2, <2>2 DEF TypeOK, brokerVars
<1>4. Current'
  BY <1>1, <1>2 DEF Current, TypeOK
<1>5. Unique' /\ ForwardedOnce'
  BY <1>2 DEF Unique, ForwardedOnce
<1>6. NoneForgotten' /\ NeverAborts'
  BY <1>1, <1>2 DEF NoneForgotten, NeverAborts, TypeOK
<1>7. QueuedAreIdle' /\ Engaged'
  BY <1>2, QueuesKept DEF brokerVars
<1> QED BY <1>3, <1>4, <1>5, <1>6, <1>7

LEMMA StartKeeps == ASSUME Deployed, IInv, NEW w \in Workers, Start(w) PROVE IInv'
<1> USE DEF IInv, Start
<1>1. TypeOK'
  BY DEF TypeOK, clientVars, brokerVars
<1>2. ForwardedOnce' /\ Unique' /\ Current' /\ NoneForgotten' /\ NeverAborts'
  BY StillKeeps DEF clientVars
<1>3. QueuedAreIdle'
  BY DEF QueuedAreIdle, Engaged, brokerVars
<1>4. Engaged'
  BY DEF Engaged, brokerVars
<1> QED BY <1>1, <1>2, <1>3, <1>4

LEMMA WorkKeeps == ASSUME Deployed, IInv, NEW w \in Workers, Work(w) PROVE IInv'
<1> USE DEF IInv
<1>1. PICK m \in At("worker", w) : Move(m, <<"localbe", w>>, m.origin)
  BY DEF Work
<1>2. m \in msgs /\ m.place = <<"worker", w>>
  BY DEF At
<1>3. m.origin \in Brokers \cup {None}
  BY <1>2 DEF TypeOK, Message
<1>4. UNCHANGED <<links, ready, started, clientVars, brokerVars>>
  BY DEF Work
<1>5. RightWay(<<"localbe", w>>, m.origin, m.client)
  BY <1>2 DEF RightWay, ForwardedOnce
<1>6. \A x \in Workers, k \in msgs : <<"localbe", w>> \in Of(x) /\ k.place \in Of(x) => k = m
  <2> SUFFICES ASSUME NEW k \in msgs, k.place \in Of(w) PROVE k = m
    BY Elsewhere
  <2> QED BY <1>2 DEF Unique, Of
<1>7. /\ msgs' \subseteq Message
      /\ ForwardedOnce' /\ Unique' /\ Current' /\ NoneForgotten' /\ NeverAborts'
      /\ \A k \in msgs' : k \in msgs \/ k.place = <<"localbe", w>>
  BY <1>1, <1>2, <1>3, <1>4, <1>5, <1>6, PlacesOf, MoveKeeps DEF clientVars
<1>8. TypeOK'
  BY <1>1, <1>4, <1>7 DEF TypeOK, Move, clientVars, brokerVars
<1>9. \A k \in msgs', x \in Workers : k.place \in Of(x) => \E l \in msgs : l.place \in Of(x)
  BY <1>2, <1>7, Elsewhere DEF Of
<1>10. QueuedAreIdle' /\ Engaged'
  BY <1>4, <1>9, QueuesKept DEF brokerVars
<1> QED BY <1>7, <1>8, <1>10

LEMMA ConnectKeeps ==
    ASSUME Deployed, IInv, NEW kind \in {"cloud", "state"}, NEW b \in Brokers, NEW p \in Brokers,
           Connect(kind, b, p)
    PROVE  IInv'
<1> USE DEF IInv, Connect
<1>0. <<kind, b, p>> \in {"cloud", "state"} \X Brokers \X Brokers
  OBVIOUS
<1>1. TypeOK'
  BY <1>0 DEF TypeOK, clientVars, brokerVars
<1>2. ForwardedOnce' /\ Unique' /\ Current' /\ NoneForgotten' /\ NeverAborts'
  BY StillKeeps DEF clientVars
<1>3. QueuedAreIdle' /\ Engaged'
  BY QueuesKept DEF brokerVars
<1> QED BY <1>1, <1>2, <1>3

-----------------------------------------------------------------------------
(* The turn of a broker.  Who joins its queue has nothing to do or to say. *)
LEMMA AvailableKeeps ==
    ASSUME IInv, NEW b \in Brokers, NEW w \in Workers, w \in started, Home[w] = b,
           Available(b, w), ready' = ready \ {w}, UNCHANGED started,
           \A x \in Brokers : \A i \in 1 .. Len(workers[x]) : workers[x][i] # w,
           \A k \in msgs', x \in Workers :
              k.place \in Of(x) => x # w /\ \E l \in msgs : l.place \in Of(x)
    PROVE  /\ workers' \in [Brokers -> Seq(Workers)] /\ localCapacity' \in [Brokers -> Nat]
           /\ ready' \subseteq Workers
           /\ QueuedAreIdle' /\ Engaged'
<1> USE DEF IInv
<1>1. /\ workers \in [Brokers -> Seq(Workers)] /\ localCapacity \in [Brokers -> Nat]
      /\ ready \subseteq Workers
  BY DEF TypeOK
<1>2. /\ workers' = [workers EXCEPT ![b] = Append(workers[b], w)]
      /\ localCapacity' = [localCapacity EXCEPT ![b] = localCapacity[b] + 1]
  BY DEF Available
<1>3. /\ workers[b] \in Seq(Workers)
      /\ Append(workers[b], w) \in Seq(Workers)
      /\ Len(workers[b]) \in Nat
      /\ Len(Append(workers[b], w)) = Len(workers[b]) + 1
      /\ \A i \in 1 .. Len(workers[b]) : Append(workers[b], w)[i] = workers[b][i]
      /\ Append(workers[b], w)[Len(workers[b]) + 1] = w
  BY <1>1, Longer
<1>4. workers' \in [Brokers -> Seq(Workers)] /\ localCapacity' \in [Brokers -> Nat]
  BY <1>1, <1>2, <1>3
<1>5. \A x \in Brokers : localCapacity'[x] = Len(workers'[x])
  BY <1>1, <1>2, <1>3 DEF QueuedAreIdle
<1>6. \A x \in Brokers : \A i \in 1 .. Len(workers'[x]) :
         \/ i \in 1 .. Len(workers[x]) /\ workers'[x][i] = workers[x][i]
         \/ x = b /\ i = Len(workers[b]) + 1 /\ workers'[x][i] = w
  BY <1>1, <1>2, <1>3
<1>7. \A x \in Brokers : \A i \in 1 .. Len(workers[x]) : workers[x][i] \in Workers
  BY <1>1
<1>8. \A x \in Brokers : \A i \in 1 .. Len(workers'[x]) :
         Home[workers'[x][i]] = x /\ workers'[x][i] \notin ready' /\ workers'[x][i] \in started
  BY <1>6 DEF QueuedAreIdle, Engaged
<1>9. ASSUME NEW x \in Brokers, NEW i \in 1 .. Len(workers'[x]), NEW m \in msgs',
             m.place \in Of(workers'[x][i])
      PROVE  FALSE
  <2>1. CASE workers'[x][i] = w
    BY <1>9, <2>1
  <2>2. CASE i \in 1 .. Len(workers[x]) /\ workers'[x][i] = workers[x][i]
    <3>1. PICK l \in msgs : l.place \in Of(workers[x][i])
      BY <1>7, <1>9, <2>2
    <3> QED BY <2>2, <3>1 DEF QueuedAreIdle, Of
  <2> QED BY <1>6, <2>1, <2>2
<1>10. \A x \in Brokers : \A i, j \in 1 .. Len(workers'[x]) :
          workers'[x][i] = workers'[x][j] => j = i
  <2>1. \A x \in Brokers : \A i, j \in 1 .. Len(workers[x]) : workers[x][i] = workers[x][j] => j = i
    BY DEF QueuedAreIdle
  <2>2. \A x \in Brokers : \A i \in 1 .. Len(workers[x]) : workers[x][i] # w
    OBVIOUS
  <2> QED BY ONLY <1>6, <2>1, <2>2
<1>11. QueuedAreIdle'
  <2>1. \A x \in Brokers : \A i \in 1 .. Len(workers'[x]) : \A m \in msgs' :
           m.place # <<"worker", workers'[x][i]>> /\ m.place # <<"localbe", workers'[x][i]>>
    BY <1>9 DEF Of
  <2>2. \A x \in Brokers : \A i \in 1 .. Len(workers'[x]) :
           LET v == workers'[x][i] IN
           /\ Home[v] = x
           /\ v \notin ready'
           /\ \A m \in msgs' : m.place # <<"worker", v>> /\ m.place # <<"localbe", v>>
           /\ \A j \in 1 .. Len(workers'[x]) : workers'[x][j] = v => j = i
    BY <1>8, <1>10, <2>1
  <2> QED BY <1>5, <2>2, Zenon DEF QueuedAreIdle
<1>12. Engaged'
  BY <1>8 DEF Engaged
<1> QED BY <1>1, <1>4, <1>11, <1>12

LEMMA StateFeTypes ==
    ASSUME IInv, NEW b \in Brokers, StateFe(b)
    PROVE  /\ cloudCapacity' \in [Brokers -> Nat]
           /\ statefe' \in [Brokers -> [Brokers -> Seq(Nat)]]
<1> USE DEF IInv
<1>1. CASE UNCHANGED <<cloudCapacity, statefe>>
  BY <1>1 DEF TypeOK
<1>2. ASSUME NEW p \in Brokers, statefe[b][p] # <<>>,
             cloudCapacity' = [cloudCapacity EXCEPT ![b] = Head(statefe[b][p])],
             statefe' = [statefe EXCEPT ![b][p] = Tail(statefe[b][p])]
      PROVE  /\ cloudCapacity' \in [Brokers -> Nat]
             /\ statefe' \in [Brokers -> [Brokers -> Seq(Nat)]]
  <2>1. statefe[b][p] \in Seq(Nat)
    BY DEF TypeOK
  <2>2. Head(statefe[b][p]) \in Nat /\ Tail(statefe[b][p]) \in Seq(Nat)
    BY <1>2, <2>1
  <2> QED BY <1>2, <2>2 DEF TypeOK
<1> QED BY <1>1, <1>2 DEF StateFe

LEMMA PollTypes ==
    ASSUME IInv, NEW b \in Brokers, Poll(b), msgs' \subseteq Message, dropped' \subseteq Clients,
           ready' \subseteq Workers, workers' \in [Brokers -> Seq(Workers)],
           localCapacity' \in [Brokers -> Nat]
    PROVE  TypeOK'
<1> USE DEF IInv
<1>1. /\ cloudCapacity' \in [Brokers -> Nat]
      /\ statefe' \in [Brokers -> [Brokers -> Seq(Nat)]]
  BY StateFeTypes DEF Poll
<1>2. monitor' \in [Brokers -> Nat]
  BY DEF Poll, Monitor, TypeOK
<1>3. previous' \in [Brokers -> Nat] /\ at' \in [Brokers -> {"poll", "route"}]
  BY DEF Poll, TypeOK
<1> QED BY <1>1, <1>2, <1>3 DEF Poll, TypeOK

LEMMA TakeReadyKeeps == ASSUME Deployed, IInv, NEW b \in Brokers, Poll(b), TakeReady(b) PROVE IInv'
<1> USE DEF IInv
<1>1. PICK w \in ReadyAt(b) : ready' = ready \ {w} /\ Available(b, w) /\ UNCHANGED <<msgs, dropped>>
  BY DEF TakeReady
<1>2. UNCHANGED <<links, started, cli, task>>
  BY DEF Poll
<1>3. w \in ready /\ w \in Workers /\ w \in started /\ Home[w] = b
  BY DEF ReadyAt, TypeOK, Engaged
<1>4. \A x \in Brokers : \A i \in 1 .. Len(workers[x]) : workers[x][i] # w
  BY <1>3 DEF QueuedAreIdle
<1>5. \A k \in msgs', x \in Workers :
         k.place \in Of(x) => x # w /\ \E l \in msgs : l.place \in Of(x)
  BY <1>1, <1>3 DEF Engaged
<1>6. /\ workers' \in [Brokers -> Seq(Workers)] /\ localCapacity' \in [Brokers -> Nat]
      /\ ready' \subseteq Workers
      /\ QueuedAreIdle' /\ Engaged'
  BY <1>1, <1>2, <1>3, <1>4, <1>5, AvailableKeeps
<1>7. ForwardedOnce' /\ Unique' /\ Current' /\ NoneForgotten' /\ NeverAborts'
  BY <1>1, <1>2, StillKeeps
<1>8. TypeOK'
  <2>1. msgs' \subseteq Message /\ dropped' \subseteq Clients
    BY <1>1 DEF TypeOK
  <2> QED BY <1>6, <2>1, PollTypes
<1> QED BY <1>6, <1>7, <1>8

LEMMA TakeReplyKeeps == ASSUME Deployed, IInv, NEW b \in Brokers, Poll(b), TakeReply(b) PROVE IInv'
<1> USE DEF IInv
<1>1. PICK m \in LocalReplies(b) :
        /\ Available(b, m.place[2])
        /\ \/ m.origin = None /\ Move(m, <<"client", m.client>>, None)
           \/ m.origin \in Peers[b] /\ Move(m, <<"cloudbe", m.origin>>, None)
           \/ m.origin \notin Peers[b] \cup {None} /\ Drop(m)
        /\ UNCHANGED ready
  BY DEF TakeReply
<1>2. UNCHANGED <<links, started, cli, task>>
  BY DEF Poll
<1>3. PICK w \in Workers : m.place = <<"localbe", w>> /\ Home[w] = b
  BY DEF LocalReplies
<1>4. m \in msgs /\ m.place[2] = w /\ m.place \in Of(w)
  BY <1>3 DEF LocalReplies, Of
<1>5. w \in started \ ready
  BY <1>4 DEF Engaged
<1>6. \A x \in Brokers : \A i \in 1 .. Len(workers[x]) : workers[x][i] # w
  BY <1>3, <1>4 DEF QueuedAreIdle
<1>7. m.client \in Clients /\ msgs \subseteq Message /\ dropped \subseteq Clients
  BY <1>4 DEF TypeOK, Message
<1>8. \A k \in msgs, x \in Workers : k # m /\ k.place \in Of(x) => x # w
  BY <1>4 DEF Unique
<1> DEFINE Kept == /\ msgs' \subseteq Message /\ dropped' \subseteq Clients
                   /\ ForwardedOnce' /\ Unique' /\ Current' /\ NoneForgotten' /\ NeverAborts'
                   /\ \A k \in msgs', x \in Workers :
                         k.place \in Of(x) => x # w /\ \E l \in msgs : l.place \in Of(x)
<1>9. ASSUME NEW place \in Places, Move(m, place, None), RightWay(place, None, m.client),
             \A x \in Workers : place \notin Of(x)
      PROVE  Kept
  <2>1. /\ msgs' \subseteq Message
        /\ ForwardedOnce' /\ Unique' /\ Current' /\ NoneForgotten' /\ NeverAborts'
        /\ \A k \in msgs' : k \in msgs \/ k.place = place
    BY <1>2, <1>4, <1>9, MoveKeeps
  <2>2. \A k \in msgs' : (k \in msgs /\ k # m) \/ k.place = place
    BY <1>7, <1>4, <1>9, Moved
  <2>3. dropped' \subseteq Clients
    BY <1>7, <1>9 DEF Move
  <2> QED BY <1>8, <1>9, <2>1, <2>2, <2>3
<1>10. ASSUME m.origin = None /\ Move(m, <<"client", m.client>>, None)
       PROVE  Kept
  <2>1. RightWay(<<"client", m.client>>, None, m.client)
    BY DEF RightWay
  <2>0. <<"client", m.client>> \in Places /\ \A x \in Workers : <<"client", m.client>> \notin Of(x)
    BY ONLY <1>7, PlacesOf, Elsewhere
  <2> HIDE DEF Kept
  <2>2. Kept
    BY ONLY <1>9, <1>10, <2>0, <2>1
  <2> QED BY <2>2
<1>11. ASSUME m.origin \in Peers[b] /\ Move(m, <<"cloudbe", m.origin>>, None)
       PROVE  Kept
  <2>1. m.origin \in Brokers /\ m.origin # None
    BY <1>11 DEF Deployed
  <2>2. m.origin = Home[m.client]
    BY <1>3, <1>4, <2>1 DEF ForwardedOnce
  <2>3. RightWay(<<"cloudbe", m.origin>>, None, m.client)
    BY <2>2 DEF RightWay
  <2>0. <<"cloudbe", m.origin>> \in Places /\ \A x \in Workers : <<"cloudbe", m.origin>> \notin Of(x)
    BY ONLY <2>1, PlacesOf, Elsewhere
  <2> HIDE DEF Kept
  <2>4. Kept
    BY ONLY <1>9, <1>11, <2>0, <2>3
  <2> QED BY <2>4
<1>12. ASSUME Drop(m)
       PROVE  Kept
  <2>1. /\ msgs' \subseteq msgs /\ dropped' \subseteq Clients
        /\ ForwardedOnce' /\ Unique' /\ Current' /\ NoneForgotten' /\ NeverAborts'
    BY <1>2, <1>4, <1>12, DropKeeps
  <2>2. m \notin msgs'
    BY <1>12 DEF Drop
  <2> QED BY <1>7, <1>8, <2>1, <2>2
<1>13. Kept
  BY <1>1, <1>10, <1>11, <1>12
<1>14. ready' = ready \ {w}
  BY <1>1, <1>5
<1>15. Available(b, w)
  BY <1>1, <1>4
<1>16. /\ workers' \in [Brokers -> Seq(Workers)] /\ localCapacity' \in [Brokers -> Nat]
       /\ ready' \subseteq Workers
       /\ QueuedAreIdle' /\ Engaged'
  BY <1>2, <1>3, <1>5, <1>6, <1>13, <1>14, <1>15, AvailableKeeps
<1>17. TypeOK'
  BY <1>13, <1>16, PollTypes
<1> QED BY <1>13, <1>16, <1>17

LEMMA CloudBeKeeps == ASSUME Deployed, IInv, NEW b \in Brokers, Poll(b), CloudBe(b) PROVE IInv'
<1> USE DEF IInv
<1>1. PICK m \in At("cloudbe", b) : Move(m, <<"client", m.client>>, None)
  BY DEF CloudBe
<1>2. UNCHANGED <<links, started, cli, task, ready, workers, localCapacity>>
  BY DEF Poll, CloudBe
<1>3. m \in msgs /\ m.client \in Clients
  BY DEF At, TypeOK, Message
<1>4. RightWay(<<"client", m.client>>, None, m.client)
  BY DEF RightWay
<1>5. /\ msgs' \subseteq Message
      /\ ForwardedOnce' /\ Unique' /\ Current' /\ NoneForgotten' /\ NeverAborts'
      /\ \A k \in msgs' : k \in msgs \/ k.place = <<"client", m.client>>
  BY <1>1, <1>2, <1>3, <1>4, PlacesOf, Elsewhere, MoveKeeps
<1>6. QueuedAreIdle' /\ Engaged'
  BY <1>2, <1>5, Elsewhere, QueuesKept
<1>7. TypeOK'
  <2>1. dropped' \subseteq Clients
    BY <1>1 DEF Move, TypeOK
  <2> QED BY <1>2, <1>5, <2>1, PollTypes DEF TypeOK
<1> QED BY <1>5, <1>6, <1>7

LEMMA NeitherKeeps == ASSUME Deployed, IInv, NEW b \in Brokers, Poll(b), Neither(b) PROVE IInv'
<1> USE DEF IInv
<1>1. UNCHANGED <<links, started, cli, task, msgs, dropped, ready, workers, localCapacity>>
  BY DEF Poll, Neither
<1>2. ForwardedOnce' /\ Unique' /\ Current' /\ NoneForgotten' /\ NeverAborts'
  BY <1>1, StillKeeps
<1>3. QueuedAreIdle' /\ Engaged'
  BY <1>1, QueuesKept
<1>4. TypeOK'
  BY <1>1, PollTypes DEF TypeOK
<1> QED BY <1>2, <1>3, <1>4

LEMMA RequestsOf ==
    ASSUME NEW b \in Brokers, NEW m \in Requests(b)
    PROVE  /\ m \in msgs
           /\ \/ m.place = <<"localfe", b>>
              \/ m.place = <<"cloudfe", b>> /\ localCapacity[b] > 0
BY DEF Requests, At

LEMMA RouteLocalKeeps == ASSUME Deployed, IInv, NEW b \in Brokers, RouteLocal(b) PROVE IInv'
<1> USE DEF IInv
<1> DEFINE w == Head(workers[b])
<1>1. PICK m \in Requests(b) : Move(m, <<"worker", w>>, m.origin)
  BY DEF RouteLocal
<1>2. /\ UNCHANGED <<links, ready, started, clientVars, at, cloudCapacity, previous, statefe>>
      /\ workers' = [workers EXCEPT ![b] = Tail(workers[b])]
      /\ localCapacity' = [localCapacity EXCEPT ![b] = localCapacity[b] - 1]
      /\ localCapacity[b] > 0
  BY DEF RouteLocal
<1>3. /\ workers \in [Brokers -> Seq(Workers)] /\ localCapacity \in [Brokers -> Nat]
      /\ localCapacity[b] = Len(workers[b])
  BY DEF TypeOK, QueuedAreIdle
<1>4. workers[b] # <<>>
  BY <1>2, <1>3, NotEmpty
<1>5. /\ Tail(workers[b]) \in Seq(Workers)
      /\ w \in Workers /\ w = workers[b][1]
      /\ Len(workers[b]) \in Nat \ {0}
      /\ Len(Tail(workers[b])) = Len(workers[b]) - 1
      /\ \A i \in 1 .. Len(workers[b]) - 1 :
            Tail(workers[b])[i] = workers[b][i + 1] /\ i + 1 \in 1 .. Len(workers[b])
  BY <1>3, <1>4, Shorter
<1>6. 1 \in 1 .. Len(workers[b])
  BY <1>5
<1>7. /\ Home[w] = b /\ w \notin ready /\ w \in started
      /\ \A k \in msgs : k.place \notin Of(w)
  BY <1>5, <1>6 DEF QueuedAreIdle, Engaged, Of
<1> HIDE DEF w
<1>8. /\ m \in msgs /\ m.origin \in Brokers \cup {None}
      /\ m.place = <<"localfe", b>> \/ m.place = <<"cloudfe", b>>
  BY RequestsOf DEF TypeOK, Message
<1>9. RightWay(<<"worker", w>>, m.origin, m.client)
  BY <1>7, <1>8 DEF RightWay, ForwardedOnce
<1>10. \A x \in Workers, k \in msgs : <<"worker", w>> \in Of(x) /\ k.place \in Of(x) => k = m
  BY <1>7, Elsewhere
<1>11. /\ msgs' \subseteq Message
       /\ ForwardedOnce' /\ Unique' /\ Current' /\ NoneForgotten' /\ NeverAborts'
       /\ \A k \in msgs' : k \in msgs \/ k.place = <<"worker", w>>
  <2>1. UNCHANGED <<cli, task>> /\ <<"worker", w>> \in Places
    BY <1>2, <1>5, PlacesOf DEF clientVars
  <2>2. Move(m, <<"worker", w>>, m.origin)
    BY <1>1
  <2> HIDE DEF IInv
  <2> QED BY <1>8, <1>9, <1>10, <2>1, <2>2, MoveKeeps
<1>12. workers' \in [Brokers -> Seq(Workers)] /\ localCapacity' \in [Brokers -> Nat]
  BY <1>2, <1>3, <1>5
<1>13. TypeOK'
  <2>1. dropped' \subseteq Clients
    BY <1>1 DEF Move, TypeOK
  <2> QED BY <1>2, <1>11, <1>12, <2>1 DEF TypeOK, clientVars
<1>14. \A x \in Brokers : localCapacity'[x] = Len(workers'[x])
  BY <1>2, <1>3, <1>5 DEF QueuedAreIdle
<1>15. \A x \in Brokers : \A i \in 1 .. Len(workers'[x]) :
          \/ x # b /\ i \in 1 .. Len(workers[x]) /\ workers'[x][i] = workers[x][i]
          \/ x = b /\ i + 1 \in 1 .. Len(workers[x]) /\ workers'[x][i] = workers[x][i + 1]
  BY <1>2, <1>3, <1>5
<1>16. \A x \in Brokers : \A i, j \in 1 .. Len(workers'[x]) :
          workers'[x][j] = workers'[x][i] => j = i
  <2> SUFFICES ASSUME NEW x \in Brokers, NEW i \in 1 .. Len(workers'[x]),
                      NEW j \in 1 .. Len(workers'[x]), workers'[x][j] = workers'[x][i]
               PROVE  j = i
    OBVIOUS
  <2>1. CASE x # b
    BY <1>15, <2>1 DEF QueuedAreIdle
  <2>2. CASE x = b
    <3>1. i + 1 \in 1 .. Len(workers[b]) /\ workers[b][i + 1] = workers'[b][i]
      BY <1>15, <2>2
    <3>2. j + 1 \in 1 .. Len(workers[b]) /\ workers[b][j + 1] = workers'[b][j]
      BY <1>15, <2>2
    <3>3. j + 1 = i + 1
      BY <2>2, <3>1, <3>2 DEF QueuedAreIdle
    <3>4. i \in Int /\ j \in Int
      BY <1>12
    <3> QED BY <3>3, <3>4
  <2> QED BY <2>1, <2>2
<1>17. \A x \in Brokers : \A i \in 1 .. Len(workers'[x]) :
          workers'[x][i] # w
  <2> SUFFICES ASSUME NEW x \in Brokers, NEW i \in 1 .. Len(workers'[x]), workers'[x][i] = w
               PROVE  FALSE
    OBVIOUS
  <2>1. Home[workers'[x][i]] = x
    BY <1>15 DEF QueuedAreIdle
  <2>2. x = b
    BY <1>7, <2>1
  <2>3. i + 1 \in 1 .. Len(workers[b]) /\ workers[b][i + 1] = workers[b][1]
    BY <1>5, <1>15, <2>2
  <2>4. i + 1 = 1
    BY <1>6, <2>3 DEF QueuedAreIdle
  <2>5. i \in 1 .. Len(workers'[b]) /\ Len(workers'[b]) \in Nat
    BY <1>12, <2>2
  <2> QED BY <2>4, <2>5
<1>18. \A x \in Brokers : \A i \in 1 .. Len(workers'[x]) :
          /\ Home[workers'[x][i]] = x
          /\ workers'[x][i] \notin ready
          /\ workers'[x][i] \in started
          /\ \A k \in msgs : k.place # <<"worker", workers'[x][i]>>
                           /\ k.place # <<"localbe", workers'[x][i]>>
  BY <1>15 DEF QueuedAreIdle, Engaged
<1>19. QueuedAreIdle'
  <2>1. \A x \in Brokers : \A i \in 1 .. Len(workers'[x]) :
           LET v == workers'[x][i] IN
           /\ Home[v] = x
           /\ v \notin ready'
           /\ \A k \in msgs' : k.place # <<"worker", v>> /\ k.place # <<"localbe", v>>
           /\ \A j \in 1 .. Len(workers'[x]) : workers'[x][j] = v => j = i
    <3>1. \A x \in Brokers : \A i \in 1 .. Len(workers'[x]) : \A k \in msgs' :
             k.place # <<"worker", workers'[x][i]>> /\ k.place # <<"localbe", workers'[x][i]>>
      BY <1>11, <1>17, <1>18
    <3>2. ready' = ready
      BY <1>2
    <3> QED BY <1>16, <1>18, <3>1, <3>2, Zenon
  <2> QED BY <1>14, <2>1, Zenon DEF QueuedAreIdle
<1>20. Engaged'
  <2>1. \A k \in msgs', x \in Workers : k.place \in Of(x) => x \in started \ ready
    BY <1>7, <1>11, Elsewhere DEF Engaged
  <2> QED BY <1>2, <1>18, <2>1 DEF Engaged
<1> QED BY <1>11, <1>13, <1>19, <1>20

LEMMA RouteCloudKeeps == ASSUME Deployed, IInv, NEW b \in Brokers, RouteCloud(b) PROVE IInv'
<1> USE DEF IInv
<1>1. PICK m \in Requests(b), p \in Peers[b] :
         IF <<"cloud", b, p>> \in links THEN Move(m, <<"cloudfe", p>>, b) ELSE Drop(m)
  BY DEF RouteCloud
<1>2. UNCHANGED <<links, ready, started, clientVars, brokerVars>> /\ localCapacity[b] = 0
  BY DEF RouteCloud
<1>3. m \in msgs /\ m.place = <<"localfe", b>>
  BY <1>2, RequestsOf
<1>4. p \in Brokers /\ p # b
  BY DEF Deployed
<1>5. CASE Move(m, <<"cloudfe", p>>, b)
  <2>1. RightWay(<<"cloudfe", p>>, b, m.client)
    BY <1>3, <1>4 DEF RightWay, ForwardedOnce
  <2>2. /\ msgs' \subseteq Message
        /\ ForwardedOnce' /\ Unique' /\ Current' /\ NoneForgotten' /\ NeverAborts'
        /\ \A k \in msgs' : k \in msgs \/ k.place = <<"cloudfe", p>>
    BY <1>2, <1>3, <1>4, <1>5, <2>1, PlacesOf, Elsewhere, MoveKeeps DEF clientVars
  <2>3. QueuedAreIdle' /\ Engaged'
    BY <1>2, <2>2, Elsewhere, QueuesKept DEF brokerVars
  <2>4. TypeOK'
    BY <1>2, <1>5, <2>2 DEF TypeOK, Move, clientVars, brokerVars
  <2> QED BY <2>2, <2>3, <2>4
<1>6. CASE Drop(m)
  <2>1. /\ msgs' \subseteq msgs /\ dropped' \subseteq Clients
        /\ ForwardedOnce' /\ Unique' /\ Current' /\ NoneForgotten' /\ NeverAborts'
    BY <1>2, <1>3, <1>6, DropKeeps DEF clientVars
  <2>2. QueuedAreIdle' /\ Engaged'
    BY <1>2, <2>1, QueuesKept DEF brokerVars
  <2>3. TypeOK'
    BY <1>2, <2>1 DEF TypeOK, clientVars, brokerVars
  <2> QED BY <2>1, <2>2, <2>3
<1> QED BY <1>1, <1>5, <1>6

LEMMA EndTurnKeeps == ASSUME Deployed, IInv, NEW b \in Brokers, EndTurn(b) PROVE IInv'
<1> USE DEF IInv
<1>1. UNCHANGED <<links, msgs, ready, started, clientVars, workers, localCapacity,
                  cloudCapacity, previous, dropped>>
  BY DEF EndTurn
<1>2. ForwardedOnce' /\ Unique' /\ Current' /\ NoneForgotten' /\ NeverAborts'
  BY <1>1, StillKeeps DEF clientVars
<1>3. QueuedAreIdle' /\ Engaged'
  BY <1>1, QueuesKept
<1>4. at' \in [Brokers -> {"poll", "route"}]
  BY DEF EndTurn, TypeOK
<1>5. statefe' \in [Brokers -> [Brokers -> Seq(Nat)]]
  <2>1. localCapacity[b] \in Nat
    BY DEF TypeOK
  <2>2. \A p \in Brokers : /\ statefe[p] \in [Brokers -> Seq(Nat)]
                           /\ Append(statefe[p][b], localCapacity[b]) \in Seq(Nat)
    BY <2>1 DEF TypeOK
  <2>3. \A p \in Brokers :
           [statefe[p] EXCEPT ![b] = Append(statefe[p][b], localCapacity[b])] \in [Brokers -> Seq(Nat)]
    BY <2>2
  <2> QED BY <2>2, <2>3 DEF EndTurn
<1>6. TypeOK'
  BY <1>1, <1>4, <1>5 DEF TypeOK, clientVars
<1> QED BY <1>2, <1>3, <1>6

-----------------------------------------------------------------------------
LEMMA StepKeeps == ASSUME Deployed, IInv, [Next]_vars PROVE IInv'
<1>1. CASE UNCHANGED vars
  <2>1. ForwardedOnce' /\ Unique' /\ Current' /\ NoneForgotten' /\ NeverAborts'
    BY <1>1, StillKeeps DEF vars
  <2>2. QueuedAreIdle' /\ Engaged'
    BY <1>1, QueuesKept DEF vars
  <2>3. TypeOK'
    BY <1>1 DEF IInv, TypeOK, vars
  <2> QED BY <2>1, <2>2, <2>3 DEF IInv
<1>2. ASSUME NEW c \in Clients, Request(c) \/ Answer(c) \/ GiveUp(c) PROVE IInv'
  BY <1>2, RequestKeeps, AnswerKeeps, GiveUpKeeps
<1>3. ASSUME NEW w \in Workers, Start(w) \/ Work(w) PROVE IInv'
  BY <1>3, StartKeeps, WorkKeeps
<1>4. ASSUME NEW b \in Brokers, Broker(b) PROVE IInv'
  <2>1. CASE Poll(b)
    <3>1. TakeReady(b) \/ TakeReply(b) \/ CloudBe(b) \/ Neither(b)
      BY <2>1 DEF Poll, LocalBe
    <3> QED BY <2>1, <3>1, TakeReadyKeeps, TakeReplyKeeps, CloudBeKeeps, NeitherKeeps
  <2>2. CASE RouteLocal(b) \/ RouteCloud(b) \/ EndTurn(b)
    BY <2>2, RouteLocalKeeps, RouteCloudKeeps, EndTurnKeeps
  <2> QED BY <1>4, <2>1, <2>2 DEF Broker
<1>5. ASSUME NEW kind \in {"cloud", "state"}, NEW b \in Brokers, NEW p \in Brokers,
             Connect(kind, b, p)
      PROVE  IInv'
  BY <1>5, ConnectKeeps
<1> QED BY <1>1, <1>2, <1>3, <1>4, <1>5 DEF Next

LEMMA Safe == ASSUME Deployed PROVE Spec => []IInv
<1>1. Init => IInv
  BY InitIsSafe
<1>2. IInv /\ [Next]_vars => IInv'
  BY StepKeeps
<1> QED BY <1>1, <1>2, PTL DEF Spec

(* What the brokers, clients and workers of peering3.cpp hold is of its    *)
(* type.                                                                   *)
THEOREM PeeringTypes == ASSUME Deployed PROVE Spec => []TypeOK
<1>1. IInv => TypeOK
  BY DEF IInv
<1> QED BY <1>1, Safe, PTL

(* The assertion of client_thread that a reply is to its task never fails, *)
(* and a client that waits has its request or its reply under way, unless  *)
(* a socket had nowhere to send it (peering3.cpp: 87-105).                 *)
THEOREM RepliesMatch == ASSUME Deployed PROVE Spec => [](NeverAborts /\ NoneForgotten)
<1>1. IInv => NeverAborts /\ NoneForgotten
  BY DEF IInv
<1> QED BY <1>1, Safe, PTL

(* The front of the queue of available workers is only read when there is  *)
(* one, and a request is only ever handed to an idle worker of the broker's*)
(* own (peering3.cpp: 258-263, 344-351).                                   *)
THEOREM OnlyIdleOnesWork == ASSUME Deployed PROVE Spec => []QueuedAreIdle
<1>1. IInv => QueuedAreIdle
  BY DEF IInv
<1> QED BY <1>1, Safe, PTL

(* A request leaves its client's broker once at most, and its reply comes  *)
(* back there and to that client (peering3.cpp: 271-295, 333-358).         *)
THEOREM NeverForwardedTwice == ASSUME Deployed PROVE Spec => []ForwardedOnce
<1>1. IInv => ForwardedOnce
  BY DEF IInv
<1> QED BY <1>1, Safe, PTL

-----------------------------------------------------------------------------
(* BinaryStar, another example of the guide.  When states are read within  *)
(* half a HEARTBEAT (Prompt), the pair never has two active servers and no *)
(* server ends on a fatal state, whenever the two end and start again.     *)
CONSTANTS Prompt, MaxSaid
VARIABLES state, said, silent, restless, unheard, requests, connected, waits

Star == INSTANCE BinaryStar WITH at <- connected

(* At most one state is on its way, and it is one of X. *)
Only(q, X) == q = <<>> \/ \E x \in X : q = <<x>>

(* Beside an active server the other one is not, nor has said that it is.  *)
Active(s) ==
    LET t == Star!Peer(s) IN
    state[s] = "active" => state[t] # "active" /\ Only(said[s], {t, "passive"})

(* Beside a passive server the other one has ended, or started again, or   *)
(* else has been heard of of late: it is active, or was when it last spoke.*)
Passive(s) ==
    LET t == Star!Peer(s) IN
    state[s] = "passive" =>
        \/ Star!Down(t) /\ Only(said[s], {t})
        \/ state[t] = t /\ Only(said[s], {t}) /\ Only(said[t], {"passive"})
        \/ /\ s \notin silent /\ t \notin unheard
           /\ \/ state[t] = "active" /\ Only(said[s], {"active"})
              \/ Star!Down(t) /\ said[s] = <<"active">>
              \/ /\ state[t] = t /\ t \in restless
                 /\ Only(said[s], {"active"}) /\ Only(said[t], {s, "passive"})

(* A server that has just started is told of an active one by a server     *)
(* that is active still, or has ended since.                               *)
Starting(s) ==
    LET t == Star!Peer(s) IN
    state[s] = s /\ said[s] = <<"active">> =>
        \/ state[t] \in {"active", "down"}
        \/ state[t] = t /\ t \in restless /\ Only(said[t], {s, "passive"})

(* The primary turns active on "backup" only beside one that is not.       *)
Primary ==
    state["primary"] = "primary" /\ said["primary"] = <<"backup">> => state["backup"] # "active"

(* A server is never in the state its peer starts in. *)
Own(s) == state[s] # Star!Peer(s)

Quiet(s) == Star!Down(s) => said[s] = <<>>

(* The clauses of StarInv for one server. *)
Clauses(s) ==
    /\ Own(s) /\ Quiet(s) /\ Only(said[s], Star!States)
    /\ Active(s) /\ Passive(s) /\ Starting(s)

StarInv == Star!TypeOK /\ Primary /\ \A s \in Star!Servers : Clauses(s)

LEMMA PeerFacts ==
    /\ Star!Servers = {"primary", "backup"}
    /\ \A s \in Star!Servers : /\ Star!Peer(s) \in Star!Servers /\ Star!Peer(s) # s /\ Star!Peer(Star!Peer(s)) = s
                         /\ s \in Star!States /\ s \notin {"active", "passive", "down"}
    /\ \A s, t \in Star!Servers : t = s \/ t = Star!Peer(s)
BY DEF Star!Servers, Star!Peer, Star!States

LEMMA WordFacts ==
    ASSUME NEW x
    PROVE  /\ <<x>> # <<>> /\ Head(<<x>>) = x /\ Tail(<<x>>) = <<>> /\ Append(<<>>, x) = <<x>>
           /\ \A y : <<x>> = <<y>> => x = y
OBVIOUS

(* TypeOK of every run of the two servers and their clients. *)
LEMMA StarTypeStep == Star!TypeOK /\ [Star!Next]_Star!vars => Star!TypeOK'
<1> SUFFICES ASSUME Star!TypeOK, [Star!Next]_Star!vars PROVE Star!TypeOK'
  OBVIOUS
<1> USE PeerFacts DEF Star!TypeOK, Star!history
<1>1. ASSUME NEW s \in Star!Servers, Star!Server(s) PROVE Star!TypeOK'
  <2>1. CASE Star!Start(s)
    BY <2>1 DEF Star!Start
  <2>2. ASSUME Star!End(s) PROVE Star!TypeOK'
    <3>1. restless' \subseteq Star!Servers
      BY <2>2 DEF Star!End
    <3>2. state' \in [Star!Servers -> Star!States \cup {"down"}]
          /\ said' \in [Star!Servers -> Seq(Star!States)]
      BY <2>2 DEF Star!End
    <3> QED BY <2>2, <3>1, <3>2 DEF Star!End
  <2>3. CASE Star!SendState(s)
    <3>1. state[s] \in Star!States
      BY <2>3 DEF Star!SendState, Star!Down
    <3>2. Append(said[Star!Peer(s)], state[s]) \in Seq(Star!States)
      BY <3>1
    <3> QED BY <2>3, <3>2 DEF Star!SendState
  <2>4. CASE Star!Expire(s)
    BY <2>4 DEF Star!Expire
  <2>5. CASE Star!Hear(s)
    <3>1. Star!Turned(s, Head(said[s])) \in Star!States \cup {"down"}
      BY <2>5 DEF Star!Hear, Star!Turned, Star!States
    <3>2. Tail(said[s]) \in Seq(Star!States)
      BY <2>5 DEF Star!Hear
    <3> QED BY <2>5, <3>1, <3>2 DEF Star!Hear
  <2>6. CASE \E m \in requests : Star!Serve(s, m)
    BY <2>6 DEF Star!Serve, Star!States
  <2> QED BY <1>1, <2>1, <2>2, <2>3, <2>4, <2>5, <2>6 DEF Star!Server, Star!Crash, Star!HearFatal
<1>2. ASSUME NEW c \in Clients, NEW s \in Star!Servers, Star!Send(c, s) PROVE Star!TypeOK'
  <2>1. \A m \in Star!Requests : Star!Outdated(m, c) \in Star!Requests
    BY DEF Star!Outdated, Star!Requests
  <2>2. [by |-> c, to |-> s, live |-> TRUE] \in Star!Requests
    BY DEF Star!Requests
  <2>3. requests' \subseteq Star!Requests
    <3> SUFFICES ASSUME NEW n \in requests' PROVE n \in Star!Requests
      OBVIOUS
    <3>1. n = [by |-> c, to |-> s, live |-> TRUE] \/ \E m \in requests : n = Star!Outdated(m, c)
      BY <1>2 DEF Star!Send
    <3>2. requests \subseteq Star!Requests
      OBVIOUS
    <3> QED BY ONLY <2>1, <2>2, <3>1, <3>2
  <2> QED BY <1>2, <2>3 DEF Star!Send
<1>3. CASE UNCHANGED Star!vars
  BY <1>3 DEF Star!vars
<1> QED BY <1>1, <1>2, <1>3 DEF Star!Next, Star!Request, Star!FailOver

(* Every variable has its type: in particular what the servers say is a    *)
(* state they may have.                                                    *)
THEOREM StarTypes == Star!Spec => []Star!TypeOK
<1>1. Star!Init => Star!TypeOK
  BY PeerFacts DEF Star!Init, Star!TypeOK
<1> QED BY <1>1, StarTypeStep, PTL DEF Star!Spec

-----------------------------------------------------------------------------
(* The two servers before a step of one of them, *)
LEMMA PairFacts ==
    ASSUME StarInv, NEW s \in Star!Servers, NEW t, t = Star!Peer(s)
    PROVE  /\ t \in Star!Servers /\ t # s /\ Star!Peer(t) = s /\ Star!Servers = {s, t}
           /\ s \in {"primary", "backup"} /\ t \in {"primary", "backup"}
           /\ Primary /\ Clauses(s) /\ Clauses(t)
           /\ state \in [Star!Servers -> Star!States \cup {"down"}]
           /\ said \in [Star!Servers -> Seq(Star!States)]
           /\ silent \subseteq Star!Servers
BY PeerFacts DEF StarInv, Star!TypeOK

(* which keeps StarInv if it keeps the clauses of both. *)
Kept(s) == Primary' /\ Clauses(s)' /\ Clauses(Star!Peer(s))'

(* A server ends, *)
LEMMA EndKeeps == ASSUME StarInv, NEW s \in Star!Servers, Star!End(s) PROVE Kept(s)
<1> DEFINE t == Star!Peer(s)
<1>1. /\ t \in Star!Servers /\ t # s /\ Star!Peer(t) = s /\ Star!Servers = {s, t}
      /\ s \in {"primary", "backup"} /\ t \in {"primary", "backup"}
      /\ Primary /\ Clauses(s) /\ Clauses(t)
      /\ state \in [Star!Servers -> Star!States \cup {"down"}]
      /\ said \in [Star!Servers -> Seq(Star!States)]
  BY PairFacts
<1>2. /\ state'[s] = "down" /\ said'[s] = <<>> /\ state'[t] = state[t] /\ said'[t] = said[t]
      /\ (t \in silent' <=> t \in silent) /\ unheard' = unheard
  BY <1>1 DEF Star!End
<1>3. Primary'
  BY <1>1, <1>2, WordFacts DEF Primary, Star!Peer
<1>4. Clauses(s)'
  BY <1>1, <1>2 DEF Clauses, Own, Quiet, Only, Active, Passive, Starting
<1>5. Clauses(t)'
  BY <1>1, <1>2, WordFacts DEF Clauses, Own, Quiet, Only, Active, Passive, Starting, Star!Down
<1> QED BY <1>3, <1>4, <1>5 DEF Kept

(* is started, *)
LEMMA StarStartKeeps == ASSUME StarInv, NEW s \in Star!Servers, Star!Start(s) PROVE Kept(s)
<1> DEFINE t == Star!Peer(s)
<1>1. /\ t \in Star!Servers /\ t # s /\ Star!Peer(t) = s /\ Star!Servers = {s, t}
      /\ s \in {"primary", "backup"} /\ t \in {"primary", "backup"}
      /\ Primary /\ Clauses(s) /\ Clauses(t)
      /\ state \in [Star!Servers -> Star!States \cup {"down"}]
      /\ said \in [Star!Servers -> Seq(Star!States)]
  BY PairFacts
<1>2. /\ state[s] = "down" /\ said[s] = <<>>
      /\ state'[s] = s /\ state'[t] = state[t] /\ said' = said /\ silent' = silent
      /\ said[t] # <<>> => s \in restless' /\ (s \in unheard' <=> s \in unheard)
  <2>1. said[t] # <<>> => ~Star!Hushed
    BY <1>1 DEF Star!Hushed
  <2> QED BY <1>1, <2>1 DEF Star!Start, Star!Down, Clauses, Quiet
<1>3. Primary'
  BY <1>1, <1>2, WordFacts DEF Primary, Star!Peer
<1>4. Clauses(s)'
  BY <1>1, <1>2, WordFacts DEF Clauses, Own, Quiet, Only, Active, Passive, Starting, Star!Down
<1>5. Clauses(t)'
  BY <1>1, <1>2, WordFacts DEF Clauses, Own, Quiet, Only, Active, Passive, Starting, Star!Down
<1> QED BY <1>3, <1>4, <1>5 DEF Kept

(* tells its peer its state, *)
LEMMA SendKeeps == ASSUME StarInv, Prompt, NEW s \in Star!Servers, Star!SendState(s) PROVE Kept(s)
<1> DEFINE t == Star!Peer(s)
<1>1. /\ t \in Star!Servers /\ t # s /\ Star!Peer(t) = s /\ Star!Servers = {s, t}
      /\ s \in {"primary", "backup"} /\ t \in {"primary", "backup"}
      /\ Primary /\ Clauses(s) /\ Clauses(t)
      /\ state \in [Star!Servers -> Star!States \cup {"down"}]
      /\ said \in [Star!Servers -> Seq(Star!States)]
  BY PairFacts
<1>2. /\ state' = state /\ silent' = silent /\ restless' = restless /\ unheard' = unheard
      /\ state[s] # "down" /\ state[t] # "down" /\ s \notin restless
      /\ said[t] = <<>> /\ said'[t] = <<state[s]>> /\ said'[s] = said[s]
  BY <1>1, WordFacts DEF Star!SendState, Star!Down, Star!history
<1>3. Primary'
  BY <1>1, <1>2, WordFacts DEF Primary, Star!Peer, Clauses, Own
<1>4. Clauses(s)'
  BY <1>1, <1>2, WordFacts DEF Clauses, Own, Quiet, Only, Active, Passive, Starting, Star!Down
<1>5. Clauses(t)'
  BY <1>1, <1>2, WordFacts DEF Clauses, Own, Quiet, Only, Active, Passive, Starting, Star!Down, Star!States
<1> QED BY <1>3, <1>4, <1>5 DEF Kept

(* hears its peer, *)
LEMMA HearKeeps == ASSUME StarInv, NEW s \in Star!Servers, Star!Hear(s) PROVE Kept(s)
<1> DEFINE t == Star!Peer(s)
<1>1. /\ t \in Star!Servers /\ t # s /\ Star!Peer(t) = s /\ Star!Servers = {s, t}
      /\ s \in {"primary", "backup"} /\ t \in {"primary", "backup"}
      /\ Primary /\ Clauses(s) /\ Clauses(t)
      /\ state \in [Star!Servers -> Star!States \cup {"down"}]
      /\ said \in [Star!Servers -> Seq(Star!States)]
  BY PairFacts
<1>2. PICK p \in Star!States : said[s] = <<p>>
  BY <1>1 DEF Star!Hear, Clauses, Only
<1>3. /\ state'[s] = Star!Turned(s, p) /\ state'[t] = state[t]
      /\ said'[s] = <<>> /\ said'[t] = said[t]
      /\ s \notin silent' /\ (t \in silent' <=> t \in silent)
      /\ t \notin unheard' /\ (s \in unheard' <=> s \in unheard)
      /\ state[s] # "down"
      /\ said[t] # <<>> => restless' = restless
  <2>1. said'[s] = <<>> /\ said'[t] = said[t] /\ state'[s] = Star!Turned(s, p)
    BY <1>1, <1>2, WordFacts DEF Star!Hear
  <2>2. said[t] # <<>> => ~Star!Hushed'
    BY <1>1, <2>1 DEF Star!Hushed
  <2> QED BY <1>1, <2>1, <2>2 DEF Star!Hear, Star!Down
<1>4. CASE state'[s] = state[s]
  <2>1. Primary'
    BY <1>1, <1>3, <1>4, WordFacts DEF Primary, Star!Peer
  <2>2. Clauses(s)'
    BY <1>1, <1>2, <1>3, <1>4, WordFacts DEF Clauses, Own, Quiet, Only, Active, Passive, Starting, Star!Down
  <2>3. Clauses(t)'
    BY <1>1, <1>2, <1>3, <1>4, WordFacts DEF Clauses, Own, Quiet, Only, Active, Passive, Starting, Star!Down
  <2> QED BY <2>1, <2>2, <2>3 DEF Kept
<1>5. CASE state[s] = s /\ s = "primary" /\ p = "backup" /\ state'[s] = "active"
  <2>1. t = "backup" /\ state[t] # "active"
    BY <1>1, <1>2, <1>5 DEF Primary
  <2>2. Primary'
    BY <1>5 DEF Primary
  <2>3. Clauses(s)'
    BY <1>1, <1>3, <1>5, <2>1 DEF Clauses, Own, Quiet, Only, Active, Passive, Starting, Star!Down
  <2>4. Clauses(t)'
    BY <1>1, <1>2, <1>3, <1>5, <2>1, WordFacts DEF Clauses, Own, Quiet, Only, Active, Passive, Starting, Star!Down
  <2> QED BY <2>2, <2>3, <2>4 DEF Kept
<1>6. CASE state[s] = s /\ p = "active" /\ state'[s] = "passive"
  <2>1. \/ state[t] \in {"active", "down"}
        \/ state[t] = t /\ t \in restless /\ Only(said[t], {s, "passive"})
    BY <1>1, <1>2, <1>6 DEF Clauses, Starting
  <2>2. Primary'
    BY <1>1, <1>3, <1>6, <2>1, WordFacts DEF Primary, Star!Peer
  <2>3. Clauses(s)'
    BY <1>1, <1>3, <1>6, <2>1, WordFacts DEF Clauses, Own, Quiet, Only, Active, Passive, Starting, Star!Down
  <2>4. Clauses(t)'
    BY <1>1, <1>2, <1>3, <1>6, <2>1, WordFacts DEF Clauses, Own, Quiet, Only, Active, Passive, Starting, Star!Down
  <2> QED BY <2>2, <2>3, <2>4 DEF Kept
<1>7. CASE state[s] = "passive" /\ p \in {"primary", "backup"} /\ state'[s] = "active"
  <2>1. \/ state[t] = "down"
        \/ state[t] = t /\ Only(said[t], {"passive"})
    BY <1>1, <1>2, <1>7, WordFacts DEF Clauses, Passive, Only, Star!Down
  <2>2. Primary'
    <3>1. CASE s = "primary"
      BY <1>7, <3>1 DEF Primary
    <3>2. CASE s = "backup" /\ state[t] = t
      <4>1. t = "primary" /\ said'["primary"] # <<"backup">>
        <5>1. t = "primary" /\ Only(said[t], {"passive"})
          BY <1>1, <2>1, <3>2
        <5>2. said[t] # <<"backup">>
          BY <5>1, WordFacts DEF Only
        <5> QED BY <1>3, <5>1, <5>2
      <4> QED BY <4>1 DEF Primary
    <3>3. CASE s = "backup" /\ state[t] = "down"
      BY <1>1, <1>3, <3>3 DEF Primary
    <3> QED BY <1>1, <2>1, <3>1, <3>2, <3>3
  <2>3. Clauses(s)'
    BY <1>1, <1>3, <1>7, <2>1, WordFacts DEF Clauses, Own, Quiet, Only, Active, Passive, Starting, Star!Down
  <2>4. Clauses(t)'
    BY <1>1, <1>2, <1>3, <1>7, <2>1, WordFacts DEF Clauses, Own, Quiet, Only, Active, Passive, Starting, Star!Down
  <2> QED BY <2>2, <2>3, <2>4 DEF Kept
<1> QED
  BY <1>1, <1>3, <1>4, <1>5, <1>6, <1>7 DEF Star!Turned, Clauses, Own

(* gives its peer up, *)
LEMMA ExpireKeeps == ASSUME StarInv, Prompt, NEW s \in Star!Servers, Star!Expire(s) PROVE Kept(s)
<1> DEFINE t == Star!Peer(s)
<1>1. /\ t \in Star!Servers /\ t # s /\ Star!Peer(t) = s
      /\ s \in {"primary", "backup"} /\ t \in {"primary", "backup"}
      /\ Primary /\ Clauses(s) /\ Clauses(t)
  BY PairFacts
<1>2. /\ state' = state /\ said' = said /\ (t \in silent' <=> t \in silent)
      /\ restless' = restless /\ unheard' = unheard
      /\ t \in unheard \/ (state[t] = "down" /\ said[s] = <<>>)
  BY <1>1 DEF Star!Expire, Star!Down, Star!history
<1>3. Primary'
  BY <1>1, <1>2 DEF Primary
<1>4. Clauses(s)'
  BY <1>1, <1>2, WordFacts DEF Clauses, Own, Quiet, Only, Active, Passive, Starting, Star!Down
<1>5. Clauses(t)'
  BY <1>1, <1>2 DEF Clauses, Own, Quiet, Only, Active, Passive, Starting, Star!Down
<1> QED BY <1>3, <1>4, <1>5 DEF Kept

(* and serves a client. *)
LEMMA ServeKeeps ==
    ASSUME StarInv, NEW s \in Star!Servers, NEW m \in requests, Star!Serve(s, m)
    PROVE  Kept(s)
<1> DEFINE t == Star!Peer(s)
<1>1. /\ t \in Star!Servers /\ t # s /\ Star!Peer(t) = s
      /\ s \in {"primary", "backup"} /\ t \in {"primary", "backup"}
      /\ Primary /\ Clauses(s) /\ Clauses(t)
      /\ state \in [Star!Servers -> Star!States \cup {"down"}]
  BY PairFacts
<1>2. /\ said' = said /\ silent' = silent /\ restless' = restless /\ unheard' = unheard
  BY DEF Star!Serve, Star!history
<1>3. CASE state' = state
  BY <1>1, <1>2, <1>3 DEF Kept, Primary, Clauses, Own, Quiet, Only, Active, Passive, Starting, Star!Down
<1>4. CASE state[s] = "passive" /\ s \in silent /\ state' = [state EXCEPT ![s] = "active"]
  <2>1. state'[s] = "active" /\ state'[t] = state[t]
    BY <1>1, <1>4
  <2>2. /\ Only(said[s], {t})
        /\ \/ state[t] = "down"
           \/ state[t] = t /\ Only(said[t], {"passive"})
    BY <1>1, <1>4 DEF Clauses, Passive, Star!Down
  <2>3. Primary'
    BY <1>1, <1>2, <2>1, <2>2, WordFacts DEF Primary, Star!Peer, Only
  <2>4. Clauses(s)'
    BY <1>1, <1>2, <2>1, <2>2 DEF Clauses, Own, Quiet, Only, Active, Passive, Starting, Star!Down
  <2>5. Clauses(t)'
    BY <1>1, <1>2, <2>1, <2>2, WordFacts DEF Clauses, Own, Quiet, Only, Active, Passive, Starting, Star!Down
  <2> QED BY <2>3, <2>4, <2>5 DEF Kept
<1> QED BY <1>3, <1>4 DEF Star!Serve

-----------------------------------------------------------------------------
LEMMA StarStep == ASSUME Prompt PROVE StarInv /\ [Star!Next]_Star!vars => StarInv'
<1> SUFFICES ASSUME StarInv, [Star!Next]_Star!vars PROVE StarInv'
  OBVIOUS
<1>1. Star!TypeOK'
  BY StarTypeStep DEF StarInv
<1>2. ASSUME NEW s \in Star!Servers, Star!Server(s) PROVE StarInv'
  <2>1. Kept(s)
    <3>1. CASE Star!Start(s)
      BY <3>1, StarStartKeeps
    <3>2. CASE Star!Crash(s) \/ Star!HearFatal(s)
      BY <3>2, EndKeeps DEF Star!Crash, Star!HearFatal
    <3>3. CASE Star!SendState(s)
      BY <3>3, SendKeeps
    <3>4. CASE Star!Expire(s)
      BY <3>4, ExpireKeeps
    <3>5. CASE Star!Hear(s)
      BY <3>5, HearKeeps
    <3>6. CASE \E m \in requests : Star!Serve(s, m)
      BY <3>6, ServeKeeps
    <3> QED BY <1>2, <3>1, <3>2, <3>3, <3>4, <3>5, <3>6 DEF Star!Server
  <2>2. \A r \in Star!Servers : r = s \/ r = Star!Peer(s)
    BY PeerFacts
  <2>3. \A r \in Star!Servers : Clauses(r)'
    BY <2>1, <2>2 DEF Kept
  <2> QED BY <1>1, <2>1, <2>3 DEF StarInv, Kept
<1>3. ASSUME UNCHANGED <<state, said, silent, Star!history>> PROVE StarInv'
  BY <1>1, <1>3 DEF StarInv, Primary, Clauses, Own, Quiet, Active, Passive, Starting, Star!Down, Star!history
<1> QED BY <1>2, <1>3 DEF Star!Next, Star!Request, Star!FailOver, Star!Send, Star!vars, Star!history

LEMMA StarInit == Star!Init => StarInv
<1> SUFFICES ASSUME Star!Init PROVE StarInv
  OBVIOUS
<1>1. Star!TypeOK
  BY PeerFacts DEF Star!Init, Star!TypeOK
<1>2. \A s \in Star!Servers : state[s] = "down" /\ said[s] = <<>>
  BY DEF Star!Init
<1>3. Primary
  BY <1>2, PeerFacts DEF Primary
<1>4. ASSUME NEW s \in Star!Servers PROVE Clauses(s)
  BY <1>2, PeerFacts DEF Clauses, Own, Quiet, Only, Active, Passive, Starting
<1> QED BY <1>1, <1>3, <1>4 DEF StarInv

(* Two servers are never active together, through any crashes, restarts    *)
(* and takeovers, whatever is still on its way from a life that is over:   *)
(* the state machine of bstarsrv.cpp (42-102) with the times of its loop   *)
(* is right as long as a state is read within half a HEARTBEAT.            *)
THEOREM NeverTwoActive == ASSUME Prompt PROVE Star!Spec => []Star!OneActive
<1>1. StarInv => Star!OneActive
  BY PeerFacts DEF StarInv, Clauses, Active, Star!OneActive
<1> QED BY <1>1, StarInit, StarStep, PTL DEF Star!Spec

(* And no server meets the "dual actives" or "dual passives" it ends on.   *)
THEOREM NeverEnds == ASSUME Prompt PROVE Star!Spec => []Star!NeverFatal
<1>1. StarInv => Star!NeverFatal
  <2> SUFFICES ASSUME StarInv, NEW s \in Star!Servers, ~Star!Down(s), said[s] # <<>>, Star!Fatal(s) PROVE FALSE
    BY DEF Star!NeverFatal
  <2> DEFINE t == Star!Peer(s)
  <2>1. t \in {"primary", "backup"} /\ Clauses(s)
    BY PairFacts
  <2>2. PICK p \in Star!States : said[s] = <<p>>
    BY <2>1 DEF Clauses, Only
  <2>3. p = state[s] /\ p \in {"active", "passive"}
    BY <2>2, WordFacts DEF Star!Fatal
  <2> QED
    BY <2>1, <2>2, <2>3, WordFacts DEF Clauses, Active, Passive, Only, Star!Down
<1> QED BY <1>1, StarInit, StarStep, PTL DEF Star!Spec
=============================================================================

--------------------------- MODULE Titanic_proofs ---------------------------
(***************************************************************************)
(* Theorems about Titanic, for any clients, uuids, tries and faults.       *)
(*                                                                         *)
(* The invariant says who may speak of a uuid.  Each uuid generated goes   *)
(* to one client at most (OwnInv), only that client asks for it to be      *)
(* closed, and not before it was given the reply (CallInv, ClientInv).  On *)
(* the disk a uuid has one line at most, in the queue or on its way to it  *)
(* (QueueInv), so that a line is marked by the pass that wrote its reply,  *)
(* or that failed to;                                                      *)
(* and as long as the process has not died no pass meets a pending line    *)
(* whose reply was written before (LiveInv).                               *)
(***************************************************************************)
EXTENDS Titanic, SequenceTheorems, TLAPS

Serving(t) == thread[t] # Idle

(* What a thread does is what its service does. *)
Steps == [request |-> {"save", "ended", "pipe", "reply"}, reply |-> {"look", "load", "exists"},
          close |-> {"remove", "removeRep"}]

ThreadInv ==
    /\ thread = [t \in Threads |-> thread[t]]
    /\ \A t \in Threads : Serving(t) =>
          /\ thread[t].at \in Steps[t]
          /\ thread[t].call.to = t
          /\ t # "request" => thread[t].uuid = thread[t].call.uuid
    /\ At("request", "pipe") \/ At("request", "reply") => thread["request"].uuid \in req \cap used
    /\ At("close", "removeRep") => thread["close"].uuid \notin req

(* A sending speaks of what its client was given, and one to close is sent *)
(* after the reply was had; one whose reply is still heard is of the call  *)
(* the client is at.                                                       *)
Sound(m) ==
    /\ m.to # "request" => m.uuid \in Uuids /\ m.uuid = cli[m.by].uuid
    /\ m.to = "close" => cli[m.by].at \in {"close", "end", "gone"}
    /\ m.live => /\ cli[m.by].at = m.to /\ cli[m.by].answer = NoReply
                 /\ cli[m.by].uuid = m.uuid

CallInv ==
    /\ \A m \in wire : Sound(m)
    /\ \A t \in Threads : Serving(t) =>
          /\ Sound(thread[t].call)
          /\ \A m \in wire : thread[t].call.live /\ m.by = thread[t].call.by => ~m.live

Closed(u) == u \notin req /\ (lossy \/ rep[u] = None)

AnswerInv(p) ==
    /\ p.at \in Threads
    /\ p.at = "request" => p.answer.status = "200" /\ p.answer.uuid \in req
    /\ p.at = "reply" => /\ p.answer.status \in {"200", "300"}
                         /\ p.answer.status = "200" => p.answer.body # None /\ rep[p.uuid] # None
    /\ p.at = "close" => p.answer.status = "200" /\ Closed(p.uuid)

ClientInv ==
    \A c \in Clients :
        /\ cli[c].at = "request" => cli[c].uuid = None /\ cli[c].result = None
        /\ cli[c].at = "reply" => cli[c].uuid \in req /\ cli[c].result = None
        /\ cli[c].at \in {"close", "end"} => cli[c].uuid \in Uuids /\ cli[c].result # None
        /\ cli[c].result # None => cli[c].uuid \in executed
        /\ cli[c].answer # NoReply => AnswerInv(cli[c])
        /\ cli[c].at = "end" => Closed(cli[c].uuid)
        /\ cli[c].tries # 0 => cli[c].at \in Threads

(* No uuid is given to two. *)
OwnInv ==
    /\ \A c \in Clients : {cli[c].uuid, cli[c].answer.uuid} \subseteq used \cup {None}
    /\ \A c \in Clients : cli[c].at # "request" => cli[c].answer.uuid = None
    /\ \A c, d \in Clients : c # d =>
          {cli[c].uuid, cli[c].answer.uuid} \cap {cli[d].uuid, cli[d].answer.uuid} \subseteq {None}
    /\ At("request", "pipe") \/ At("request", "reply") =>
          \A c \in Clients : thread["request"].uuid \notin {cli[c].uuid, cli[c].answer.uuid}

(* The queue as the dispatcher has it. *)
Backlog == IF disp.at = "rewrite" THEN disp.lines ELSE queue

InPass == {"line", "load", "call", "open", "write", "commit"}
AtLine == {"load", "call", "open", "write"}

PassInv ==
    /\ disp.at = "poll" => disp = Polling
    /\ disp.at \in InPass =>
          /\ Len(disp.lines) = Len(queue)
          /\ \A k \in 1 .. Len(queue) :
                /\ disp.lines[k].uuid = queue[k].uuid
                /\ queue[k].mark = "+" => disp.lines[k].mark = "+"
          /\ disp.at # "commit" /\ ~disp.dirty => disp.lines = queue
    /\ disp.at = "rewrite" => queue = <<>>
    /\ disp.at \in AtLine => disp.k <= Len(disp.lines) /\ Current.mark = "-"
    /\ disp.at \in {"open", "write"} => Current.uuid \in executed
    /\ disp.at = "write" => rep[Current.uuid] # None \/ Current.uuid \notin req

(* One line a uuid. *)
QueueInv ==
    /\ \A k \in 1 .. Len(Backlog) : Backlog[k].uuid \in used
    /\ \A k \in 1 .. Len(pipe) : pipe[k] \in used
    /\ \A j, k \in 1 .. Len(Backlog) : j # k => Backlog[j].uuid # Backlog[k].uuid
    /\ \A j, k \in 1 .. Len(pipe) : j # k => pipe[j] # pipe[k]
    /\ \A j \in 1 .. Len(Backlog), k \in 1 .. Len(pipe) : Backlog[j].uuid # pipe[k]
    /\ At("request", "pipe") =>
          /\ \A k \in 1 .. Len(Backlog) : Backlog[k].uuid # thread["request"].uuid
          /\ \A k \in 1 .. Len(pipe) : pipe[k] # thread["request"].uuid

Done(l) == l.mark = "+" =>
    rep[l.uuid] = "written" \/ l.uuid \notin req \/ <<"rep", l.uuid>> \in lost

DiskInv ==
    /\ req \subseteq used
    /\ \A u \in Uuids : rep[u] # None => u \in executed /\ u \in used
    /\ \A k \in 1 .. Len(queue) : Done(queue[k])
    /\ \A k \in 1 .. Len(disp.lines) : Done(disp.lines[k])

(* The uuids whose reply was begun. *)
Begun ==
    {u \in Uuids : rep[u] # None \/ \E c \in Clients : cli[c].uuid = u /\ cli[c].at \in {"close", "end"}}

LiveInv ==
    ~lossy =>
        /\ \A k \in 1 .. Len(pipe) : pipe[k] \notin Begun
        /\ At("request", "pipe") => thread["request"].uuid \notin Begun
        /\ disp.at = "poll" => \A k \in 1 .. Len(queue) :
              queue[k].mark = "-" => queue[k].uuid \notin Begun
        /\ \A k \in 1 .. Len(disp.lines) :
              disp.lines[k].mark = "-" /\ ~(disp.at = "write" /\ k = disp.k) =>
                 disp.lines[k].uuid \notin Begun

Inv ==
    /\ TypeOK /\ ThreadInv /\ CallInv /\ ClientInv /\ OwnInv
    /\ PassInv /\ QueueInv /\ DiskInv /\ LiveInv
-----------------------------------------------------------------------------
(* What a step of a thread, of the dispatcher and of a client changes,     *)
(* field by field.                                                         *)

LEMMA NoneDistinct ==
    /\ None \notin Clients /\ None \notin Uuids /\ Tries \in Nat \ {0} /\ MaxFaults \in Nat
  BY TitanicAssumption

(* A thread that serves is not mistaken for an idle one. *)
LEMMA BusyIsServing == ASSUME NEW x \in Busy PROVE x # Idle /\ x.at # "recv"
<1>1. x.at # "recv" /\ Idle.at = "recv"
  BY DEF Busy, Idle
<1> QED
  BY <1>1

LEMMA ThreadTypes ==
  ASSUME TypeOK, ThreadInv, NEW t \in Threads, Serving(t)
  PROVE  /\ thread[t] \in Busy
         /\ thread[t].call \in Sending /\ thread[t].uuid \in Uuids \cup {None}
         /\ thread[t].call.by \in Clients /\ thread[t].call.to \in Threads
         /\ thread[t].call.live \in BOOLEAN /\ thread[t].call.uuid \in Uuids \cup {None}
<1>1. thread[t] \in Busy
  BY DEF TypeOK, Serving
<1> QED
  BY <1>1 DEF Busy, Sending

(* The threads but t are as they were. *)
Others(t) == \A s \in Threads \ {t} : thread'[s] = thread[s]

LEMMA GotoEffect ==
  ASSUME TypeOK, ThreadInv, NEW t \in Threads, Serving(t), NEW next \in Steps[t], Goto(t, next)
  PROVE  /\ thread' = [s \in Threads |-> thread'[s]] /\ Others(t)
         /\ thread'[t] \in Busy /\ thread'[t] # Idle
         /\ thread'[t].at = next
         /\ thread'[t].call = thread[t].call /\ thread'[t].uuid = thread[t].uuid
<1>1. thread[t] \in Busy
  BY ThreadTypes
<1>2. next \in {"save", "ended", "pipe", "reply", "look", "load", "exists", "remove", "removeRep"}
  BY DEF Steps, Threads
<1>3. thread' = [thread EXCEPT ![t].at = next] /\ thread = [s \in Threads |-> thread[s]]
  BY DEF Goto, ThreadInv
<1>4. thread'[t] = [thread[t] EXCEPT !.at = next]
  BY <1>3
<1>5. thread'[t] \in Busy /\ thread'[t].at = next
      /\ thread'[t].call = thread[t].call /\ thread'[t].uuid = thread[t].uuid
  BY <1>1, <1>2, <1>4 DEF Busy
<1> QED
  BY <1>3, <1>5, BusyIsServing DEF Others

LEMMA TakeEffect ==
  ASSUME TypeOK, ThreadInv, NEW t \in Threads, NEW m, NEW next \in Steps[t], Take(t, m, next)
  PROVE  /\ m \in wire /\ m \in Sending /\ m.to = t /\ wire' = wire \ {m} /\ ~Serving(t)
         /\ thread' = [s \in Threads |-> thread'[s]] /\ Others(t)
         /\ thread'[t] \in Busy /\ thread'[t] # Idle
         /\ thread'[t].at = next
         /\ thread'[t].call = m /\ thread'[t].uuid = m.uuid
<1>2. next \in {"save", "ended", "pipe", "reply", "look", "load", "exists", "remove", "removeRep"}
  BY DEF Steps, Threads
<1>3. m \in wire /\ m \in Sending /\ m.to = t /\ wire' = wire \ {m} /\ ~Serving(t)
      /\ thread' = [thread EXCEPT ![t] = [at |-> next, call |-> m, uuid |-> m.uuid]]
      /\ thread = [s \in Threads |-> thread[s]]
  BY DEF Take, ThreadInv, TypeOK, Serving
<1>4. thread'[t] = [at |-> next, call |-> m, uuid |-> m.uuid] /\ m.uuid \in Uuids \cup {None}
  BY <1>3 DEF Sending
<1>5. thread'[t] \in Busy
  BY <1>2, <1>3, <1>4 DEF Busy
<1> QED
  BY <1>3, <1>4, <1>5, BusyIsServing DEF Others

(* The client c is as it was but for its answer. *)
AnswerOnly(c) ==
    /\ cli'[c].at = cli[c].at /\ cli'[c].uuid = cli[c].uuid
    /\ cli'[c].tries = cli[c].tries /\ cli'[c].result = cli[c].result

LEMMA RespondEffect ==
  ASSUME TypeOK, ThreadInv, NEW t \in Threads, Serving(t), NEW reply \in Reply, Respond(t, reply)
  PROVE  /\ thread' = [s \in Threads |-> thread'[s]] /\ Others(t) /\ thread'[t] = Idle
         /\ cli' \in [Clients -> Program]
         /\ \A c \in Clients :
               /\ AnswerOnly(c)
               /\ thread[t].call.live /\ c = thread[t].call.by => cli'[c].answer = reply
               /\ ~(thread[t].call.live /\ c = thread[t].call.by) => cli'[c] = cli[c]
<1> DEFINE m == thread[t].call
<1>1. m.by \in Clients /\ cli \in [Clients -> Program] /\ m.live \in BOOLEAN
  BY ThreadTypes DEF TypeOK
<1>2. /\ thread' = [thread EXCEPT ![t] = Idle]
      /\ thread = [s \in Threads |-> thread[s]]
      /\ cli' = IF m.live THEN [cli EXCEPT ![m.by].answer = reply] ELSE cli
  BY DEF Respond, ThreadInv
<1>3. CASE m.live
  <2>1. cli' = [cli EXCEPT ![m.by].answer = reply]
    BY <1>2, <1>3
  <2>2. cli'[m.by] = [cli[m.by] EXCEPT !.answer = reply] /\ cli[m.by] \in Program
    BY <1>1, <2>1
  <2>3. cli'[m.by] \in Program /\ cli'[m.by].answer = reply /\ AnswerOnly(m.by)
    BY <2>2 DEF Program, AnswerOnly
  <2>4. \A c \in Clients \ {m.by} : cli'[c] = cli[c]
    BY <1>1, <2>1
  <2>5. cli' \in [Clients -> Program]
    BY <1>1, <2>1, <2>3
  <2> QED
    BY <1>2, <1>3, <2>3, <2>4, <2>5 DEF Others, AnswerOnly
<1>4. CASE ~m.live
  BY <1>1, <1>2, <1>4 DEF Others, AnswerOnly
<1> QED
  BY <1>1, <1>3, <1>4
LEMMA DispatcherTypes ==
  ASSUME TypeOK
  PROVE  /\ disp.at \in {"poll", "line", "load", "call", "open", "write", "commit", "rewrite"}
         /\ disp.lines \in Lines /\ disp.k \in Nat \ {0} /\ disp.dirty \in BOOLEAN
         /\ Len(disp.lines) \in Nat /\ Len(queue) \in Nat /\ Len(pipe) \in Nat
         /\ \A k \in 1 .. Len(disp.lines) : disp.lines[k] \in [mark : {"-", "+"}, uuid : Uuids]
         /\ \A k \in 1 .. Len(queue) : queue[k] \in [mark : {"-", "+"}, uuid : Uuids]
         /\ \A k \in 1 .. Len(pipe) : pipe[k] \in Uuids
<1>1. /\ disp.at \in {"poll", "line", "load", "call", "open", "write", "commit", "rewrite"}
      /\ disp.lines \in Lines /\ disp.k \in Nat \ {0} /\ disp.dirty \in BOOLEAN
      /\ queue \in Lines /\ pipe \in Seq(Uuids)
  BY DEF TypeOK, Dispatcher
<1>2. /\ Len(disp.lines) \in Nat /\ Len(queue) \in Nat /\ Len(pipe) \in Nat
  BY <1>1, LenProperties DEF Lines
<1>3. /\ \A k \in 1 .. Len(disp.lines) : disp.lines[k] \in [mark : {"-", "+"}, uuid : Uuids]
      /\ \A k \in 1 .. Len(queue) : queue[k] \in [mark : {"-", "+"}, uuid : Uuids]
      /\ \A k \in 1 .. Len(pipe) : pipe[k] \in Uuids
  BY <1>1, ElementOfSeq DEF Lines
<1> QED
  BY <1>1, <1>2, <1>3

LEMMA StepEffect ==
  ASSUME TypeOK, NEW next \in {"load", "call", "open", "write", "commit", "rewrite"}, Step(next)
  PROVE  /\ disp' \in Dispatcher /\ disp'.at = next
         /\ disp'.lines = disp.lines /\ disp'.k = disp.k /\ disp'.dirty = disp.dirty
  BY DEF TypeOK, Dispatcher, Step

LEMMA SkipEffect ==
  ASSUME TypeOK, Skip
  PROVE  /\ disp' \in Dispatcher /\ disp'.at = "line"
         /\ disp'.lines = disp.lines /\ disp'.k = disp.k + 1 /\ disp'.dirty = disp.dirty
<1>1. disp \in Dispatcher /\ disp.k + 1 \in Nat \ {0}
  BY DispatcherTypes DEF TypeOK
<1>2. disp' = [disp EXCEPT !.at = "line", !.k = disp.k + 1]
  BY <1>1 DEF Skip, Dispatcher
<1> QED
  BY <1>1, <1>2 DEF Dispatcher

LEMMA MarkEffect ==
  ASSUME TypeOK, Mark, disp.k <= Len(disp.lines)
  PROVE  /\ disp' \in Dispatcher /\ disp'.at = "line"
         /\ disp'.k = disp.k + 1 /\ disp'.dirty = TRUE
         /\ Len(disp'.lines) = Len(disp.lines)
         /\ \A j \in 1 .. Len(disp.lines) :
               /\ disp'.lines[j].uuid = disp.lines[j].uuid
               /\ disp'.lines[j].mark = IF j = disp.k THEN "+" ELSE disp.lines[j].mark
<1> DEFINE line == [disp.lines[disp.k] EXCEPT !.mark = "+"]
           lines == [disp.lines EXCEPT ![disp.k] = line]
<1>1. disp \in Dispatcher /\ disp.k + 1 \in Nat \ {0} /\ disp.k \in 1 .. Len(disp.lines)
  BY DispatcherTypes DEF TypeOK
<1>2. disp' = [disp EXCEPT !.at = "line", !.lines = lines, !.k = disp.k + 1, !.dirty = TRUE]
  BY <1>1 DEF Mark, Dispatcher
<1>3. disp.lines[disp.k] \in [mark : {"-", "+"}, uuid : Uuids]
  BY <1>1, DispatcherTypes
<1>4. line \in [mark : {"-", "+"}, uuid : Uuids] /\ line.mark = "+" /\ line.uuid = disp.lines[disp.k].uuid
  BY <1>3
<1>5. /\ lines \in Lines /\ Len(lines) = Len(disp.lines)
      /\ \A j \in 1 .. Len(disp.lines) : lines[j] = IF j = disp.k THEN line ELSE disp.lines[j]
  BY <1>1, <1>4, DispatcherTypes, ExceptSeq DEF Lines
<1>6. disp' \in Dispatcher /\ disp'.at = "line" /\ disp'.k = disp.k + 1 /\ disp'.dirty = TRUE
      /\ disp'.lines = lines
  <2> HIDE DEF lines
  <2> QED
    BY <1>1, <1>2, <1>5 DEF Dispatcher
<1> QED
  BY <1>4, <1>5, <1>6

LEMMA PollingType == Polling \in Dispatcher
  BY DEF Polling, Dispatcher, Lines

(* What is left of the disk and of the process when it dies. *)
LEMMA DieEffect ==
  ASSUME TypeOK, Die
  PROVE  /\ pipe' = <<>> /\ disp' = Polling /\ lossy' = TRUE
         /\ thread' = [t \in Threads |-> Idle]
         /\ UNCHANGED <<req, rep, wire, cli, used, executed, lost>>
         /\ queue' \in Lines
         /\ IF disp.at = "rewrite"
            THEN /\ Len(queue') <= Len(disp.lines)
                 /\ \A k \in 1 .. Len(queue') : queue'[k] = disp.lines[k]
            ELSE queue' = queue
<1>1. CASE disp.at = "rewrite"
  <2>1. PICK n \in 0 .. Len(disp.lines) : queue' = SubSeq(disp.lines, 1, n)
    BY <1>1 DEF Die
  <2>2. disp.lines \in Lines /\ Len(disp.lines) \in Nat /\ n \in Int /\ n <= Len(disp.lines) /\ 0 <= n
        /\ \A k \in 1 .. n : disp.lines[k] \in [mark : {"-", "+"}, uuid : Uuids]
    BY DispatcherTypes
  <2>3. /\ SubSeq(disp.lines, 1, n) \in Lines /\ Len(SubSeq(disp.lines, 1, n)) = n
        /\ \A k \in 1 .. n : SubSeq(disp.lines, 1, n)[k] = disp.lines[k]
    BY <2>2, SubSeqProperties DEF Lines
  <2> QED
    BY <1>1, <2>1, <2>2, <2>3 DEF Die
<1>2. CASE disp.at # "rewrite"
  BY <1>2 DEF Die, TypeOK
<1> QED
  BY <1>1, <1>2

(* A write that the disk does not take. *)
LEMMA Losing ==
  ASSUME TypeOK, NEW kind \in Kinds, NEW us \in SUBSET Uuids,
         UNCHANGED rest \/ Lose({<<kind, u>> : u \in us})
  PROVE  /\ lost \subseteq lost' /\ lost' \subseteq Kinds \X Uuids
         /\ faults' \in 0 .. MaxFaults /\ UNCHANGED <<executed, lossy>>
<1>1. CASE UNCHANGED rest
  BY <1>1 DEF TypeOK, rest
<1>2. CASE Lose({<<kind, u>> : u \in us})
  <2>1. faults' \in 0 .. MaxFaults
    BY <1>2, NoneDistinct DEF TypeOK, Lose, Fault
  <2>2. {<<kind, u>> : u \in us} \subseteq Kinds \X Uuids
    OBVIOUS
  <2> QED
    BY <1>2, <2>1, <2>2 DEF TypeOK, Lose
<1> QED
  BY <1>1, <1>2

LEMMA RewriteFailsEffect ==
  ASSUME TypeOK, RewriteFails
  PROVE  /\ disp.at = "rewrite" /\ disp' = Polling
         /\ UNCHANGED <<req, rep, pipe, thread, wire, cli, used, executed, lossy>>
         /\ queue' \in Lines /\ Len(queue') <= Len(disp.lines)
         /\ \A k \in 1 .. Len(queue') : queue'[k] = disp.lines[k]
         /\ lost \subseteq lost' /\ lost' \subseteq Kinds \X Uuids /\ faults' \in 0 .. MaxFaults
<1>1. PICK n \in 0 .. Len(disp.lines) - 1 :
        /\ queue' = SubSeq(disp.lines, 1, n)
        /\ Lose({<<"queue", disp.lines[k].uuid>> : k \in n + 1 .. Len(disp.lines)})
  BY DEF RewriteFails
<1>2. disp.lines \in Lines /\ Len(disp.lines) \in Nat /\ n \in Int /\ n <= Len(disp.lines) /\ 0 <= n
      /\ \A k \in 1 .. Len(disp.lines) : disp.lines[k] \in [mark : {"-", "+"}, uuid : Uuids]
  BY DispatcherTypes
<1>3. /\ SubSeq(disp.lines, 1, n) \in Lines /\ Len(SubSeq(disp.lines, 1, n)) = n
      /\ \A k \in 1 .. n : SubSeq(disp.lines, 1, n)[k] = disp.lines[k]
  <2>1. \A k \in 1 .. n : disp.lines[k] \in [mark : {"-", "+"}, uuid : Uuids]
    BY <1>2
  <2> QED
    BY <1>2, <2>1, SubSeqProperties DEF Lines
<1> DEFINE us == {disp.lines[k].uuid : k \in n + 1 .. Len(disp.lines)}
<1>4. us \in SUBSET Uuids
  BY <1>2
<1>5. {<<"queue", disp.lines[k].uuid>> : k \in n + 1 .. Len(disp.lines)} = {<<"queue", u>> : u \in us}
  OBVIOUS
<1>6. Lose({<<"queue", u>> : u \in us}) /\ "queue" \in Kinds
  BY <1>1, <1>5 DEF Kinds
<1> HIDE DEF us
<1> QED
  BY <1>1, <1>2, <1>3, <1>4, <1>6, Losing DEF RewriteFails

LEMMA RepFailsEffect ==
  ASSUME TypeOK, RepFails, Current.uuid \in Uuids
  PROVE  /\ disp.at \in {"open", "write"} /\ Mark
         /\ UNCHANGED <<req, rep, queue, pipe, thread, wire, cli, used, executed, lossy>>
         /\ lost \subseteq lost' /\ lost' \subseteq Kinds \X Uuids /\ faults' \in 0 .. MaxFaults
         /\ <<"rep", Current.uuid>> \in lost'
<1> DEFINE us == {Current.uuid}
<1>1. {<<"rep", Current.uuid>>} = {<<"rep", u>> : u \in us} /\ us \in SUBSET Uuids
  OBVIOUS
<1>2. Lose({<<"rep", u>> : u \in us}) /\ "rep" \in Kinds
  BY <1>1 DEF RepFails, Kinds
<1>3. <<"rep", Current.uuid>> \in lost'
  BY DEF RepFails, Lose
<1> HIDE DEF us
<1> QED
  BY <1>1, <1>2, <1>3, Losing DEF RepFails, disk

LEMMA AppendFailsEffect ==
  ASSUME TypeOK, AppendFails
  PROVE  /\ disp.at = "poll" /\ disp' = [at |-> "line", lines |-> queue, k |-> 1, dirty |-> FALSE]
         /\ disp' \in Dispatcher
         /\ pipe # <<>> /\ pipe' = Tail(pipe) /\ pipe' \in Seq(Uuids)
         /\ Len(pipe') = Len(pipe) - 1
         /\ \A k \in 1 .. Len(pipe') : pipe'[k] = pipe[k + 1] /\ k + 1 \in 1 .. Len(pipe)
         /\ UNCHANGED <<req, rep, queue, thread, wire, cli, used, executed, lossy>>
         /\ lost \subseteq lost' /\ lost' \subseteq Kinds \X Uuids /\ faults' \in 0 .. MaxFaults
<1>1. /\ Head(pipe) \in Uuids /\ Tail(pipe) \in Seq(Uuids) /\ Len(pipe) \in Nat /\ Len(pipe) # 0
      /\ Len(Tail(pipe)) = Len(pipe) - 1
      /\ \A k \in 1 .. Len(Tail(pipe)) : Tail(pipe)[k] = pipe[k + 1]
  BY HeadTailProperties, EmptySeq, LenProperties DEF TypeOK, AppendFails
<1> DEFINE us == {Head(pipe)}
<1>2. {<<"queue", Head(pipe)>>} = {<<"queue", u>> : u \in us} /\ us \in SUBSET Uuids
  BY <1>1
<1>3. Lose({<<"queue", u>> : u \in us}) /\ "queue" \in Kinds
  BY <1>2 DEF AppendFails, Kinds
<1> HIDE DEF us
<1>4. disp' = [at |-> "line", lines |-> queue, k |-> 1, dirty |-> FALSE]
  BY DEF AppendFails, Pass, disk
<1>5. disp' \in Dispatcher
  BY <1>4 DEF TypeOK, Dispatcher
<1>6. lost \subseteq lost' /\ lost' \subseteq Kinds \X Uuids /\ faults' \in 0 .. MaxFaults
      /\ UNCHANGED <<executed, lossy>>
  BY <1>2, <1>3, Losing
<1> QED
  BY <1>1, <1>4, <1>5, <1>6 DEF AppendFails, disk

(* Outdated sendings. *)
LEMMA OutdatedType ==
  ASSUME NEW m \in Sending, NEW c \in Clients
  PROVE  /\ Outdated(m, c) \in Sending
         /\ Outdated(m, c).to = m.to /\ Outdated(m, c).by = m.by /\ Outdated(m, c).uuid = m.uuid
         /\ Outdated(m, c).live = (m.live /\ m.by # c)
  BY DEF Outdated, Sending

(* What sending a call anew, and giving it up, make of the sendings. *)
Aged(c) ==
    thread' = [t \in Threads |-> IF thread[t] = Idle THEN Idle
                                 ELSE [thread[t] EXCEPT !.call = Outdated(@, c)]]

LEMMA AgedEffect ==
  ASSUME TypeOK, ThreadInv, NEW c \in Clients, Aged(c)
  PROVE  /\ thread' = [t \in Threads |-> thread'[t]]
         /\ \A t \in Threads : ~Serving(t) => thread'[t] = Idle
         /\ \A t \in Threads : Serving(t) =>
               /\ thread'[t] \in Busy /\ thread'[t] # Idle
               /\ thread'[t].at = thread[t].at /\ thread'[t].uuid = thread[t].uuid
               /\ thread'[t].call = Outdated(thread[t].call, c)
<1>1. ASSUME NEW t \in Threads, Serving(t)
      PROVE  /\ thread'[t] \in Busy /\ thread'[t] # Idle
             /\ thread'[t].at = thread[t].at /\ thread'[t].uuid = thread[t].uuid
             /\ thread'[t].call = Outdated(thread[t].call, c)
  <2> DEFINE m == Outdated(thread[t].call, c)
  <2>1. thread[t] \in Busy /\ m \in Sending
    BY <1>1, ThreadTypes, OutdatedType
  <2>2. thread'[t] = [thread[t] EXCEPT !.call = m]
    BY <1>1, <2>1 DEF Aged, Serving, Busy
  <2>3. thread'[t] \in Busy /\ thread'[t].at = thread[t].at /\ thread'[t].uuid = thread[t].uuid
        /\ thread'[t].call = m
    <3> HIDE DEF m
    <3> QED
      BY <2>1, <2>2 DEF Busy
  <2> QED
    BY <2>3, BusyIsServing
<1>2. thread' = [t \in Threads |-> thread'[t]] /\ \A t \in Threads : ~Serving(t) => thread'[t] = Idle
  BY DEF Aged, Serving
<1> QED
  BY <1>1, <1>2

LEMMA ClientTypes ==
  ASSUME TypeOK, NEW c \in Clients
  PROVE  /\ cli[c] \in Program /\ cli[c].at \in Threads \cup {"end", "gone"}
         /\ cli[c].uuid \in Uuids \cup {None} /\ cli[c].tries \in 0 .. Tries
         /\ cli[c].answer \in Reply \cup {NoReply} /\ cli[c].result \in {None, "empty", "written"}
  BY DEF TypeOK, Program

(* The programs but c's are as they were. *)
OtherClients(c) == \A d \in Clients \ {c} : cli'[d] = cli[d]

LEMMA SendEffect ==
  ASSUME TypeOK, ThreadInv, NEW c \in Clients, NEW tries \in 0 .. Tries, cli[c].at \in Threads,
         Send(c, tries)
  PROVE  /\ Aged(c)
         /\ wire' \subseteq Sending
         /\ \A m \in wire' : \/ \E n \in wire : m = Outdated(n, c)
                             \/ m = [to |-> cli[c].at, by |-> c, uuid |-> cli[c].uuid, live |-> TRUE]
         /\ cli' \in [Clients -> Program] /\ OtherClients(c)
         /\ cli'[c].at = cli[c].at /\ cli'[c].uuid = cli[c].uuid /\ cli'[c].result = cli[c].result
         /\ cli'[c].answer = NoReply
<1>1. cli[c] \in Program /\ cli[c].uuid \in Uuids \cup {None} /\ cli \in [Clients -> Program]
  BY ClientTypes DEF TypeOK
<1>2. /\ Aged(c)
      /\ wire' = {Outdated(m, c) : m \in wire}
                 \cup {[to |-> cli[c].at, by |-> c, uuid |-> cli[c].uuid, live |-> TRUE]}
      /\ cli' = [cli EXCEPT ![c].tries = tries, ![c].answer = NoReply]
  BY DEF Send, Aged
<1>3. wire' \subseteq Sending
  <2>1. \A m \in wire : Outdated(m, c) \in Sending
    BY OutdatedType DEF TypeOK
  <2>2. [to |-> cli[c].at, by |-> c, uuid |-> cli[c].uuid, live |-> TRUE] \in Sending
    BY <1>1 DEF Sending
  <2> QED
    BY <1>2, <2>1, <2>2
<1>4. cli'[c] = [cli[c] EXCEPT !.tries = tries, !.answer = NoReply] /\ OtherClients(c)
  BY <1>1, <1>2 DEF OtherClients
<1>5. /\ cli'[c] \in Program /\ cli'[c].at = cli[c].at /\ cli'[c].uuid = cli[c].uuid
      /\ cli'[c].result = cli[c].result /\ cli'[c].answer = NoReply
  BY <1>1, <1>4 DEF Program
<1>6. cli' \in [Clients -> Program]
  BY <1>1, <1>2, <1>5
<1> QED
  BY <1>2, <1>3, <1>4, <1>5, <1>6

LEMMA GiveUpEffect ==
  ASSUME TypeOK, ThreadInv, NEW c \in Clients, GiveUp(c)
  PROVE  /\ Aged(c)
         /\ wire' \subseteq Sending
         /\ \A m \in wire' : \E n \in wire : m = Outdated(n, c)
         /\ cli' \in [Clients -> Program] /\ OtherClients(c)
         /\ cli'[c].at = "gone" /\ cli'[c].tries = 0 /\ cli'[c].uuid = cli[c].uuid /\ cli'[c].result = cli[c].result
         /\ cli'[c].answer = NoReply
<1>1. cli[c] \in Program /\ cli \in [Clients -> Program] /\ 0 \in 0 .. Tries
  BY ClientTypes, NoneDistinct DEF TypeOK
<1>2. /\ Aged(c)
      /\ wire' = {Outdated(m, c) : m \in wire}
      /\ cli' = [cli EXCEPT ![c].tries = 0, ![c].at = "gone"]
      /\ cli[c].answer = NoReply
  BY DEF GiveUp, Aged
<1>3. wire' \subseteq Sending
  BY <1>2, OutdatedType DEF TypeOK
<1>4. cli'[c] = [cli[c] EXCEPT !.tries = 0, !.at = "gone"] /\ OtherClients(c)
  BY <1>1, <1>2 DEF OtherClients
<1>5. /\ cli'[c] \in Program /\ cli'[c].at = "gone" /\ cli'[c].tries = 0 /\ cli'[c].uuid = cli[c].uuid
      /\ cli'[c].result = cli[c].result /\ cli'[c].answer = NoReply
  BY <1>1, <1>2, <1>4 DEF Program
<1>6. cli' \in [Clients -> Program]
  BY <1>1, <1>2, <1>5
<1> QED
  BY <1>2, <1>3, <1>4, <1>5, <1>6

(* A call returns: come back later, go on, or exit. *)
LEMMA ReturnEffect ==
  ASSUME TypeOK, NEW c \in Clients, cli[c].answer # NoReply => AnswerInv(cli[c]), Return(c)
  PROVE  /\ cli[c].answer # NoReply
         /\ cli' \in [Clients -> Program] /\ OtherClients(c)
         /\ cli'[c].answer = NoReply /\ cli'[c].tries = 0
         /\ \/ /\ cli[c].at = "request"
               /\ cli'[c].at = "reply" /\ cli'[c].uuid = cli[c].answer.uuid
               /\ cli'[c].result = cli[c].result
            \/ /\ cli[c].at = "reply" /\ cli[c].answer.status = "300"
               /\ cli'[c].at = "reply" /\ cli'[c].uuid = cli[c].uuid
               /\ cli'[c].result = cli[c].result
            \/ /\ cli[c].at = "reply" /\ cli[c].answer.status = "200"
               /\ cli'[c].at = "close" /\ cli'[c].uuid = cli[c].uuid
               /\ cli'[c].result = cli[c].answer.body
            \/ /\ cli[c].at = "close"
               /\ cli'[c].at = "end" /\ cli'[c].uuid = cli[c].uuid
               /\ cli'[c].result = cli[c].result
<1> DEFINE a == cli[c].answer
           d == [cli[c] EXCEPT !.tries = 0, !.answer = NoReply]
<1>1. a # NoReply /\ AnswerInv(cli[c])
  BY DEF Return
<1>2. /\ cli[c] \in Program /\ cli \in [Clients -> Program] /\ 0 \in 0 .. Tries
      /\ cli[c].uuid \in Uuids \cup {None} /\ cli[c].result \in {None, "empty", "written"}
      /\ a \in Reply
  BY <1>1, ClientTypes, NoneDistinct DEF TypeOK
<1>3. /\ d \in Program /\ d.at = cli[c].at /\ d.uuid = cli[c].uuid /\ d.result = cli[c].result
      /\ d.answer = NoReply /\ d.tries = 0
  BY <1>2 DEF Program
<1>4. a.uuid \in Uuids \cup {None} /\ a.body \in {None, "empty", "written"}
  BY <1>2 DEF Reply
<1> DEFINE n == IF a.status = "400" THEN [d EXCEPT !.at = "gone"]
                ELSE IF a.status = "300" THEN d
                ELSE CASE d.at = "request" -> [d EXCEPT !.at = "reply", !.uuid = a.uuid]
                       [] d.at = "reply"   -> [d EXCEPT !.at = "close", !.result = a.body]
                       [] d.at = "close"   -> [d EXCEPT !.at = "end"]
<1>5. cli' = [cli EXCEPT ![c] = n]
  BY DEF Return
<1> HIDE DEF d
<1>6. CASE cli[c].at = "request"
  <2>1. n = [d EXCEPT !.at = "reply", !.uuid = a.uuid]
    BY <1>1, <1>3, <1>6 DEF AnswerInv
  <2> HIDE DEF n
  <2>2. n \in Program /\ n.at = "reply" /\ n.uuid = a.uuid /\ n.result = cli[c].result 
        /\ n.answer = NoReply /\ n.tries = 0
    BY <1>3, <1>4, <2>1 DEF Program, Threads
  <2> QED
    BY <1>1, <1>2, <1>5, <1>6, <2>2 DEF OtherClients
<1>7. CASE cli[c].at = "reply" /\ a.status = "300"
  <2>1. n = d
    BY <1>1, <1>3, <1>7 DEF AnswerInv
  <2> HIDE DEF n
  <2> QED
    BY <1>1, <1>2, <1>3, <1>5, <1>7, <2>1 DEF OtherClients
<1>8. CASE cli[c].at = "reply" /\ a.status = "200"
  <2>1. n = [d EXCEPT !.at = "close", !.result = a.body]
    BY <1>1, <1>3, <1>8 DEF AnswerInv
  <2> HIDE DEF n
  <2>2. n \in Program /\ n.at = "close" /\ n.uuid = cli[c].uuid /\ n.result = a.body 
        /\ n.answer = NoReply /\ n.tries = 0
    BY <1>3, <1>4, <2>1 DEF Program, Threads
  <2> QED
    BY <1>1, <1>2, <1>5, <1>8, <2>2 DEF OtherClients
<1>9. CASE cli[c].at = "close"
  <2>1. n = [d EXCEPT !.at = "end"]
    BY <1>1, <1>3, <1>9 DEF AnswerInv
  <2> HIDE DEF n
  <2>2. n \in Program /\ n.at = "end" /\ n.uuid = cli[c].uuid /\ n.result = cli[c].result 
        /\ n.answer = NoReply /\ n.tries = 0
    BY <1>3, <2>1 DEF Program
  <2> QED
    BY <1>1, <1>2, <1>5, <1>9, <2>2 DEF OtherClients
<1> QED
  BY <1>1, <1>6, <1>7, <1>8, <1>9 DEF AnswerInv, Threads
(* Save, whose thread also learns the uuid. *)
LEMMA SaveEffect ==
  ASSUME TypeOK, ThreadInv, NEW u \in Fresh,
         At("request", "save"),
         thread' = [thread EXCEPT !["request"].at = "pipe", !["request"].uuid = u]
  PROVE  /\ thread' = [s \in Threads |-> thread'[s]] /\ Others("request")
         /\ thread'["request"] \in Busy /\ thread'["request"] # Idle
         /\ thread'["request"].at = "pipe"
         /\ thread'["request"].call = thread["request"].call /\ thread'["request"].uuid = u
<1>1. thread["request"] \in Busy /\ "request" \in Threads /\ u \in Uuids
  BY ThreadTypes DEF At, Serving, Threads, Fresh
<1>2. thread = [s \in Threads |-> thread[s]]
  BY DEF ThreadInv
<1>3. thread'["request"] = [thread["request"] EXCEPT !.at = "pipe", !.uuid = u]
  BY <1>1, <1>2
<1>4. ASSUME NEW x \in Busy
      PROVE  LET y == [x EXCEPT !.at = "pipe", !.uuid = u]
             IN  y \in Busy /\ y.at = "pipe" /\ y.call = x.call /\ y.uuid = u
  BY <1>1 DEF Busy
<1>5. thread'["request"] \in Busy /\ thread'["request"].at = "pipe"
      /\ thread'["request"].call = thread["request"].call /\ thread'["request"].uuid = u
  BY <1>1, <1>3, <1>4
<1> QED
  BY <1>1, <1>2, <1>5, BusyIsServing DEF Others

(* The actions, one by one. *)
LEMMA Cases ==
  ASSUME Next
  PROVE  \/ \E m \in wire : TakeRequest(m) \/ TakePoll(m) \/ TakeClose(m)
         \/ Save \/ SaveFails \/ Pipe \/ Accept \/ Look \/ Load \/ Exists \/ RemoveReq \/ RemoveRep
         \/ Wake \/ AppendFails \/ NextLine \/ LoadRequest \/ CallSucceeds \/ CallFails
         \/ OpenRep \/ WriteRep \/ RepFails \/ Commit \/ Rewrite \/ RewriteFails
         \/ Die /\ ((faults < MaxFaults /\ faults' = faults + 1) \/ UNCHANGED faults)
         \/ \E c \in Clients : Call(c) \/ Retry(c) \/ GiveUp(c) \/ Return(c)
  BY DEF Next, Services, Dispatch, Crash, Abort, Fault, LoadFails, LoadRequestFails, CommitFails, Client

(* Where each thread is, and what it is about to do. *)
LEMMA AtServing ==
  ASSUME TypeOK, ThreadInv, NEW t \in Threads, NEW step, At(t, step)
  PROVE  Serving(t) /\ thread[t].at = step /\ step \in Steps[t]
  BY DEF At, Serving, ThreadInv

-----------------------------------------------------------------------------
(* Types. *)

ThreadsOK == \A t \in Threads : thread[t] = Idle \/ thread[t] \in Busy

LEMMA TypeStep == ASSUME Inv, Next PROVE TypeOK'
<1> USE DEF Threads
<1>0. TypeOK /\ ThreadInv /\ ClientInv /\ CallInv /\ PassInv
  BY DEF Inv
<1> SUFFICES /\ req' \subseteq Uuids /\ rep' \in [Uuids -> {None, "empty", "written"}]
             /\ queue' \in Lines /\ pipe' \in Seq(Uuids)
             /\ ThreadsOK' /\ disp' \in Dispatcher
             /\ wire' \subseteq Sending /\ cli' \in [Clients -> Program]
             /\ used' \subseteq Uuids /\ executed' \subseteq Uuids /\ lost' \subseteq Kinds \X Uuids
             /\ faults' \in 0 .. MaxFaults /\ lossy' \in BOOLEAN
  BY DEF TypeOK, ThreadsOK
<1>1. ASSUME NEW m \in wire, TakeRequest(m) \/ TakePoll(m) \/ TakeClose(m)
      PROVE  TypeOK' /\ ThreadsOK'
  <2>1. PICK t \in Threads : \E next \in Steps[t] : Take(t, m, next)
    BY <1>1 DEF TakeRequest, TakePoll, TakeClose, Steps
  <2>2. ThreadsOK' /\ wire' \subseteq wire
    BY <1>0, <2>1, TakeEffect DEF TypeOK, ThreadsOK, Others
  <2> QED
    BY <1>0, <2>1, <2>2 DEF TypeOK, Take, disk, rest, ThreadsOK
<1>2. CASE Save
  <2>1. PICK u \in Fresh :
          /\ At("request", "save") /\ used' = used \cup {u} /\ req' = req \cup {u}
          /\ thread' = [thread EXCEPT !["request"].at = "pipe", !["request"].uuid = u]
          /\ UNCHANGED rest \/ Lose({<<"req", u>>})
    BY <1>2 DEF Save
  <2>2. ThreadsOK'
    BY <1>0, <2>1, SaveEffect DEF TypeOK, ThreadsOK, Others
  <2>3. /\ lost' \subseteq Kinds \X Uuids /\ faults' \in 0 .. MaxFaults /\ UNCHANGED <<executed, lossy>>
    <3> DEFINE us == {u}
    <3>1. us \in SUBSET Uuids /\ "req" \in Kinds /\ {<<"req", u>>} = {<<"req", v>> : v \in us}
      BY DEF Fresh, Kinds
    <3>2. UNCHANGED rest \/ Lose({<<"req", v>> : v \in us})
      BY <2>1, <3>1
    <3> HIDE DEF us
    <3> QED
      BY <1>0, <3>1, <3>2, Losing
  <2> QED
    BY <1>0, <1>2, <2>1, <2>2, <2>3 DEF TypeOK, Save, Fresh
<1>2a. CASE SaveFails
  <2>1. ThreadsOK'
    BY <1>0, <1>2a, AtServing, GotoEffect DEF SaveFails, TypeOK, ThreadsOK, Others, Steps
  <2>2. faults' \in 0 .. MaxFaults
    BY <1>0, <1>2a, NoneDistinct DEF TypeOK, SaveFails, Fault
  <2> QED
    BY <1>0, <1>2a, <2>1, <2>2 DEF TypeOK, SaveFails, disk
<1>3. CASE Pipe
  <2>1. At("request", "pipe") /\ Goto("request", "reply") /\ pipe' = Append(pipe, thread["request"].uuid)
    BY <1>3 DEF Pipe
  <2>2. ThreadsOK'
    BY <1>0, <2>1, AtServing, GotoEffect DEF TypeOK, ThreadsOK, Others, Steps
  <2>3. thread["request"].uuid \in Uuids
    BY <1>0, <2>1 DEF ThreadInv, TypeOK
  <2> QED
    BY <1>0, <1>3, <2>1, <2>2, <2>3 DEF TypeOK, Pipe, disk, rest
<1>4. CASE Accept
  <2> DEFINE a == [status |-> "200", uuid |-> thread["request"].uuid, body |-> None]
  <2>1. At("request", "reply") /\ Respond("request", a)
    BY <1>4 DEF Accept
  <2>2. a \in Reply
    BY <1>0, <2>1, AtServing, ThreadTypes DEF Reply
  <2>3. ThreadsOK' /\ cli' \in [Clients -> Program]
    BY <1>0, <2>1, <2>2, AtServing, RespondEffect DEF TypeOK, ThreadsOK, Others
  <2> QED
    BY <1>0, <1>4, <2>3 DEF TypeOK, Accept, disk, rest
<1>5. CASE Look
  <2>1. ThreadsOK'
    BY <1>0, <1>5, AtServing, GotoEffect DEF Look, TypeOK, ThreadsOK, Others, Steps
  <2> QED
    BY <1>0, <1>5, <2>1 DEF TypeOK, Look, disk, rest
<1>6. CASE Load
  <2> DEFINE u == thread["reply"].uuid
             a == [status |-> "200", uuid |-> None, body |-> rep[u]]
  <2>1. At("reply", "load") /\ Respond("reply", a) /\ u \in Uuids
    BY <1>0, <1>6 DEF Load, CallInv, Sound, ThreadInv, At, Serving
  <2>2. a \in Reply
    BY <1>0, <2>1 DEF Reply, TypeOK
  <2>3. ThreadsOK' /\ cli' \in [Clients -> Program]
    BY <1>0, <2>1, <2>2, AtServing, RespondEffect DEF TypeOK, ThreadsOK, Others
  <2> QED
    BY <1>0, <1>6, <2>3 DEF TypeOK, Load, disk, rest
<1>7. CASE Exists
  <2> DEFINE a == [status |-> IF thread["reply"].uuid \in req THEN "300" ELSE "400",
                   uuid |-> None, body |-> None]
  <2>1. At("reply", "exists") /\ Respond("reply", a)
    BY <1>7 DEF Exists
  <2>2. a \in Reply
    BY DEF Reply
  <2>3. ThreadsOK' /\ cli' \in [Clients -> Program]
    BY <1>0, <2>1, <2>2, AtServing, RespondEffect DEF TypeOK, ThreadsOK, Others
  <2> QED
    BY <1>0, <1>7, <2>3 DEF TypeOK, Exists, disk, rest
<1>8. CASE RemoveReq
  <2>1. ThreadsOK'
    BY <1>0, <1>8, AtServing, GotoEffect DEF RemoveReq, TypeOK, ThreadsOK, Others, Steps
  <2> QED
    BY <1>0, <1>8, <2>1 DEF TypeOK, RemoveReq, rest
<1>9. CASE RemoveRep
  <2> DEFINE a == [status |-> "200", uuid |-> None, body |-> None]
  <2>1. At("close", "removeRep") /\ Respond("close", a) /\ a \in Reply
    BY <1>9 DEF RemoveRep, Reply
  <2>3. ThreadsOK' /\ cli' \in [Clients -> Program]
    BY <1>0, <2>1, AtServing, RespondEffect DEF TypeOK, ThreadsOK, Others
  <2>4. rep' \in [Uuids -> {None, "empty", "written"}]
    BY <1>0, <1>9 DEF RemoveRep, TypeOK
  <2> QED
    BY <1>0, <1>9, <2>3, <2>4 DEF TypeOK, RemoveRep, rest
<1>10. CASE Wake
  <2>1. queue' \in Lines /\ pipe' \in Seq(Uuids)
    <3>1. CASE pipe = <<>>
      BY <1>0, <1>10, <3>1 DEF Wake, TypeOK
    <3>2. CASE pipe # <<>>
      <4>1. Head(pipe) \in Uuids /\ Tail(pipe) \in Seq(Uuids)
        BY <1>0, <3>2, HeadTailProperties DEF TypeOK
      <4>2. [mark |-> "-", uuid |-> Head(pipe)] \in [mark : {"-", "+"}, uuid : Uuids]
        BY <4>1
      <4> QED
        BY <1>0, <1>10, <3>2, <4>1, <4>2, AppendProperties DEF Wake, TypeOK, Lines
    <3> QED
      BY <3>1, <3>2
  <2>2. disp' \in Dispatcher
    BY <1>10, <2>1 DEF Wake, Pass, Dispatcher
  <2> QED
    BY <1>0, <1>10, <2>1, <2>2 DEF TypeOK, Wake, rest, ThreadsOK
<1>10a. CASE AppendFails
  BY <1>0, <1>10a, AppendFailsEffect DEF TypeOK, ThreadsOK
<1>11. CASE NextLine
  <2>1. disp' \in Dispatcher
    <3>1. CASE disp.k > Len(disp.lines) /\ disp.dirty
      BY <1>0, <1>11, <3>1, StepEffect DEF NextLine, Step
    <3>2. CASE disp.k > Len(disp.lines) /\ ~disp.dirty
      BY <1>11, <3>2, PollingType DEF NextLine
    <3>3. CASE ~(disp.k > Len(disp.lines))
      <4>1. Skip \/ Mark \/ Step("load")
      BY <1>11, <3>3 DEF NextLine
    <4>2. disp.k <= Len(disp.lines)
      BY <1>0, <3>3, DispatcherTypes
    <4> QED
      BY <1>0, <4>1, <4>2, StepEffect, SkipEffect, MarkEffect
    <3> QED
      BY <3>1, <3>2, <3>3
  <2> QED
    BY <1>0, <1>11, <2>1 DEF TypeOK, NextLine, DispatcherOnly, disk, rest, ThreadsOK
<1>12. CASE LoadRequest
  BY <1>0, <1>12, StepEffect DEF TypeOK, LoadRequest, DispatcherOnly, disk, rest, ThreadsOK
<1>13. CASE CallSucceeds \/ CallFails
  <2>1. Current.uuid \in Uuids
    BY <1>0, <1>13, DispatcherTypes DEF PassInv, AtLine, CallSucceeds, CallFails, Current
  <2> QED
    BY <1>0, <1>13, <2>1, StepEffect, SkipEffect DEF TypeOK, CallSucceeds, CallFails, disk, ThreadsOK
<1>14. CASE OpenRep
  BY <1>0, <1>14, StepEffect DEF TypeOK, OpenRep, rest, ThreadsOK
<1>15. CASE WriteRep
  <2>1. disp.k <= Len(disp.lines)
    BY <1>0, <1>15 DEF WriteRep, PassInv, AtLine
  <2>2. rep' \in [Uuids -> {None, "empty", "written"}]
    BY <1>0, <1>15 DEF WriteRep, TypeOK
  <2> QED
    BY <1>0, <1>15, <2>1, <2>2, MarkEffect DEF TypeOK, WriteRep, rest, ThreadsOK
<1>15a. CASE RepFails
  <2>1. disp.k <= Len(disp.lines) /\ Current.uuid \in Uuids
    BY <1>0, <1>15a, DispatcherTypes DEF RepFails, PassInv, AtLine, Current
  <2> QED
    BY <1>0, <1>15a, <2>1, RepFailsEffect, MarkEffect DEF TypeOK, ThreadsOK
<1>16. CASE Commit
  BY <1>0, <1>16, StepEffect DEF TypeOK, Commit, rest, ThreadsOK, Lines
<1>17. CASE Rewrite
  BY <1>0, <1>17, PollingType, DispatcherTypes DEF TypeOK, Rewrite, rest, ThreadsOK
<1>17a. CASE RewriteFails
  BY <1>0, <1>17a, PollingType, RewriteFailsEffect DEF TypeOK, ThreadsOK
<1>18. ASSUME Die, (faults < MaxFaults /\ faults' = faults + 1) \/ UNCHANGED faults
       PROVE  TypeOK' /\ ThreadsOK'
  <2>1. faults' \in 0 .. MaxFaults
    BY <1>0, <1>18, NoneDistinct DEF TypeOK
  <2>2. /\ pipe' = <<>> /\ disp' = Polling /\ lossy' = TRUE
        /\ thread' = [t \in Threads |-> Idle] /\ queue' \in Lines
        /\ UNCHANGED <<req, rep, wire, cli, used, executed, lost>>
    BY <1>0, <1>18, DieEffect
  <2>3. ThreadsOK'
    BY <2>2 DEF ThreadsOK
  <2> QED
    BY <1>0, <2>1, <2>2, <2>3, PollingType DEF TypeOK, ThreadsOK
<1>19. ASSUME NEW c \in Clients, NEW tries \in 0 .. Tries, cli[c].at \in Threads, Send(c, tries)
       PROVE  TypeOK' /\ ThreadsOK'
  <2>1. ThreadsOK' /\ wire' \subseteq Sending /\ cli' \in [Clients -> Program]
    BY <1>0, <1>19, SendEffect, AgedEffect DEF ThreadsOK
  <2> QED
    BY <1>0, <1>19, <2>1 DEF TypeOK, ThreadsOK, Send, disk, rest
<1>20. ASSUME NEW c \in Clients, GiveUp(c)
       PROVE  TypeOK' /\ ThreadsOK'
  <2>1. ThreadsOK' /\ wire' \subseteq Sending /\ cli' \in [Clients -> Program]
    BY <1>0, <1>20, GiveUpEffect, AgedEffect DEF ThreadsOK
  <2> QED
    BY <1>0, <1>20, <2>1 DEF TypeOK, ThreadsOK, GiveUp, disk, rest
<1>21. ASSUME NEW c \in Clients, Return(c)
       PROVE  TypeOK' /\ ThreadsOK'
  <2>1. cli' \in [Clients -> Program]
    BY <1>0, <1>21, ReturnEffect DEF ClientInv
  <2> QED
    BY <1>0, <1>21, <2>1 DEF TypeOK, ThreadsOK, Return, disk, rest
<1>22. ASSUME NEW c \in Clients, Call(c) \/ Retry(c)
       PROVE  \E tries \in 0 .. Tries : cli[c].at \in Threads /\ Send(c, tries)
  BY <1>0, <1>22, NoneDistinct, ClientTypes DEF Call, Retry, ClientInv
<1> QED
  BY <1>1, <1>2, <1>2a, <1>3, <1>4, <1>5, <1>6, <1>7, <1>8, <1>9, <1>10, <1>10a, <1>11, <1>12, <1>13,
     <1>14, <1>15, <1>15a, <1>16, <1>17, <1>17a, <1>18, <1>19, <1>20, <1>21, <1>22, Cases
     DEF TypeOK, ThreadsOK
-----------------------------------------------------------------------------
(* The steps that answer. *)

Accepted == [status |-> "200", uuid |-> thread["request"].uuid, body |-> None]
Loaded == [status |-> "200", uuid |-> None, body |-> rep[thread["reply"].uuid]]
Looked == [status |-> IF thread["reply"].uuid \in req THEN "300" ELSE "400", uuid |-> None, body |-> None]
Removed == [status |-> "200", uuid |-> None, body |-> None]

LEMMA Answers ==
  ASSUME TypeOK, ThreadInv, CallInv
  PROVE  /\ Accept => /\ At("request", "reply") /\ Serving("request") /\ Accepted \in Reply
                      /\ Respond("request", Accepted) /\ UNCHANGED <<req, rep, queue, pipe, disp, wire, used, executed, lossy>>
         /\ Load => /\ At("reply", "load") /\ Serving("reply") /\ Loaded \in Reply
                    /\ Respond("reply", Loaded) /\ UNCHANGED <<req, rep, queue, pipe, disp, wire, used, executed, lossy>>
         /\ Exists => /\ At("reply", "exists") /\ Serving("reply") /\ Looked \in Reply
                      /\ Respond("reply", Looked) /\ UNCHANGED <<req, rep, queue, pipe, disp, wire, used, executed, lossy>>
         /\ RemoveRep => /\ At("close", "removeRep") /\ Serving("close") /\ Removed \in Reply
                         /\ Respond("close", Removed) /\ UNCHANGED <<req, queue, pipe, disp, wire, used, executed, lossy>>
<1> USE DEF Threads
<1>1. Serving("request") => Accepted \in Reply
  BY ThreadTypes DEF Reply, Accepted
<1>2. Serving("reply") => Loaded \in Reply
  <2>1. Serving("reply") => thread["reply"].uuid \in Uuids
    BY DEF CallInv, Sound, ThreadInv
  <2> QED
    BY <2>1 DEF Reply, Loaded, TypeOK
<1>3. Looked \in Reply /\ Removed \in Reply
  BY DEF Reply, Looked, Removed
<1> QED
  BY <1>1, <1>2, <1>3 DEF At, Serving, Accept, Load, Exists, RemoveRep, Accepted, Loaded, Looked, Removed,
     disk, rest

-----------------------------------------------------------------------------
(* Threads. *)

(* A uuid asked for was given. *)
LEMMA AskedIsUsed ==
  ASSUME TypeOK, ThreadInv, CallInv, OwnInv, NEW t \in {"reply", "close"}, Serving(t)
  PROVE  /\ thread[t].uuid \in Uuids /\ thread[t].uuid \in used
         /\ thread[t].uuid = cli[thread[t].call.by].uuid
<1>1. t \in Threads /\ thread[t].call.by \in Clients
  BY ThreadTypes DEF Threads
<1>2. thread[t].uuid \in Uuids /\ thread[t].uuid = cli[thread[t].call.by].uuid
  BY <1>1 DEF CallInv, Sound, ThreadInv
<1> QED
  BY <1>1, <1>2, NoneDistinct DEF OwnInv

(* The actions in which no thread moves. *)
DispatcherSteps ==
    \/ Wake \/ AppendFails \/ NextLine \/ LoadRequest \/ CallSucceeds \/ CallFails
    \/ OpenRep \/ WriteRep \/ RepFails \/ Commit \/ Rewrite \/ RewriteFails

LEMMA DispatcherFrame ==
  ASSUME DispatcherSteps
  PROVE  UNCHANGED <<req, thread, wire, cli, used, lossy>>
  BY DEF DispatcherSteps, Wake, AppendFails, NextLine, LoadRequest, CallSucceeds, CallFails,
         OpenRep, WriteRep, RepFails, Commit, Rewrite, RewriteFails, DispatcherOnly, Lose, disk, rest

LEMMA ThreadStep == ASSUME Inv, Next PROVE ThreadInv'
<1> USE DEF Threads
<1>0. TypeOK /\ ThreadInv /\ req \subseteq used
  BY DEF Inv, DiskInv
<1>1. ASSUME NEW m \in wire, TakeRequest(m) \/ TakePoll(m) \/ TakeClose(m)
      PROVE  ThreadInv'
  <2>1. PICK t \in Threads : \E next \in Steps[t] \ {"pipe", "reply", "removeRep"} : Take(t, m, next)
    BY <1>1 DEF TakeRequest, TakePoll, TakeClose, Steps
  <2>2. UNCHANGED <<req, used>>
    BY <2>1 DEF Take, disk
  <2> QED
    BY <1>0, <2>1, <2>2, TakeEffect DEF ThreadInv, Others, Serving, At
<1>2. CASE Save
  <2>1. PICK u \in Fresh :
          /\ At("request", "save") /\ used' = used \cup {u} /\ req' = req \cup {u}
          /\ thread' = [thread EXCEPT !["request"].at = "pipe", !["request"].uuid = u]
    BY <1>2 DEF Save
  <2>2. /\ thread' = [s \in Threads |-> thread'[s]] /\ Others("request")
        /\ thread'["request"] # Idle /\ thread'["request"].at = "pipe"
        /\ thread'["request"].call = thread["request"].call /\ thread'["request"].uuid = u
    BY <1>0, <2>1, SaveEffect
  <2>3. Serving("request")
    BY <2>1 DEF At, Serving
  <2>4. At("close", "removeRep")' => thread'["close"].uuid \notin req'
    <3>1. thread'["close"] = thread["close"]
      BY <2>2 DEF Others
    <3>2. Serving("close") => thread["close"].uuid \in used
      BY <1>0, AskedIsUsed DEF Inv
    <3> QED
      BY <1>0, <2>1, <3>1, <3>2 DEF At, Serving, ThreadInv, Fresh
  <2> QED
    BY <1>0, <2>1, <2>2, <2>3, <2>4 DEF ThreadInv, Others, Serving, At, Steps
<1>3. CASE Pipe
  <2>1. At("request", "pipe") /\ Goto("request", "reply") /\ UNCHANGED used
        /\ UNCHANGED req
    BY <1>3 DEF Pipe, disk
  <2>2. Serving("request") /\ "request" \in Threads /\ "reply" \in Steps["request"]
    BY <2>1 DEF At, Serving, Steps
  <2>3. /\ thread' = [s \in Threads |-> thread'[s]] /\ Others("request")
        /\ thread'["request"] # Idle /\ thread'["request"].at = "reply"
        /\ thread'["request"].call = thread["request"].call /\ thread'["request"].uuid = thread["request"].uuid
    BY <1>0, <2>1, <2>2, GotoEffect
  <2> QED
    BY <1>0, <2>1, <2>2, <2>3 DEF ThreadInv, Others, Serving, At, Steps
<1>4. ASSUME NEW t \in Threads, NEW a \in Reply, Serving(t), Respond(t, a), UNCHANGED <<req, used>>
      PROVE  ThreadInv'
  BY <1>0, <1>4, RespondEffect DEF ThreadInv, Others, Serving, At
<1>5. CASE Accept \/ Load \/ Exists \/ RemoveRep
  BY <1>0, <1>4, <1>5, Answers DEF Inv
<1>6. CASE Look \/ SaveFails
  BY <1>0, <1>6, AtServing, GotoEffect DEF Look, SaveFails, ThreadInv, Others, Serving, At, Steps, disk
<1>9. CASE RemoveReq
  <2>1. At("close", "remove") /\ Goto("close", "removeRep") /\ UNCHANGED used
        /\ req' = req \ {thread["close"].uuid}
    BY <1>9 DEF RemoveReq, disk
  <2>2. Serving("close") /\ "close" \in Threads /\ "removeRep" \in Steps["close"]
    BY <2>1 DEF At, Serving, Steps
  <2>3. /\ thread' = [s \in Threads |-> thread'[s]] /\ Others("close")
        /\ thread'["close"] # Idle /\ thread'["close"].at = "removeRep"
        /\ thread'["close"].call = thread["close"].call /\ thread'["close"].uuid = thread["close"].uuid
    BY <1>0, <2>1, <2>2, GotoEffect
  <2>4. At("request", "pipe") \/ At("request", "reply") => thread["request"].uuid # thread["close"].uuid
    BY <1>0, <2>2, AskedIsUsed, ThreadTypes DEF Inv, OwnInv
  <2> QED
    BY <1>0, <2>1, <2>2, <2>3, <2>4 DEF ThreadInv, Others, Serving, At, Steps
<1>10. CASE DispatcherSteps
  BY <1>0, <1>10, DispatcherFrame DEF ThreadInv, Serving, At
<1>11. CASE Die
  BY <1>0, <1>11, DieEffect DEF ThreadInv, Serving, At
<1>12. ASSUME NEW c \in Clients, Aged(c), UNCHANGED <<req, used>>
       PROVE  ThreadInv'
  BY <1>0, <1>12, AgedEffect, OutdatedType, ThreadTypes DEF ThreadInv, Serving, At
<1>13. ASSUME NEW c \in Clients, Call(c) \/ Retry(c) \/ GiveUp(c)
       PROVE  ThreadInv'
  BY <1>12, <1>13 DEF Call, Retry, GiveUp, Send, Aged, disk
<1>14. ASSUME NEW c \in Clients, Return(c)
       PROVE  ThreadInv'
  BY <1>0, <1>14 DEF Return, disk, ThreadInv, Serving, At
<1> QED
  BY <1>1, <1>2, <1>3, <1>5, <1>6, <1>9, <1>10, <1>11, <1>13, <1>14, Cases DEF DispatcherSteps
-----------------------------------------------------------------------------
(* Sendings. *)

(* Sound and the answers to come, as the clients' programs change. *)
LEMMA SoundFrame ==
  ASSUME TypeOK, NEW m \in Sending, Sound(m),
         cli'[m.by].uuid = cli[m.by].uuid,
         cli[m.by].at \in {"close", "end", "gone"} => cli'[m.by].at \in {"close", "end", "gone"},
         m.live => cli'[m.by].at = cli[m.by].at /\ cli'[m.by].answer = cli[m.by].answer
  PROVE  Sound(m)'
  BY DEF Sound

LEMMA SoundOutdated ==
  ASSUME TypeOK, NEW c \in Clients, NEW m \in Sending, Sound(m),
         OtherClients(c), cli'[c].uuid = cli[c].uuid,
         cli[c].at \in {"close", "end", "gone"} => cli'[c].at \in {"close", "end", "gone"}
  PROVE  /\ Outdated(m, c) \in Sending
         /\ \A n : n = Outdated(m, c) => Sound(n)'
         /\ Outdated(m, c).live => m.live
         /\ Outdated(m, c).by = m.by
         /\ m.by = c => ~Outdated(m, c).live
<1>1. /\ Outdated(m, c) \in Sending
      /\ Outdated(m, c).to = m.to /\ Outdated(m, c).by = m.by /\ Outdated(m, c).uuid = m.uuid
      /\ Outdated(m, c).live = (m.live /\ m.by # c)
  BY OutdatedType
<1>2. m.by \in Clients
  BY DEF Sending
<1>3. m.by # c => cli'[m.by] = cli[m.by]
  BY <1>2 DEF OtherClients
<1> QED
  BY <1>1, <1>2, <1>3 DEF Sound

LEMMA CallStep == ASSUME Inv, Next PROVE CallInv'
<1> USE DEF Threads
<1>0. TypeOK /\ ThreadInv /\ CallInv /\ ClientInv
  BY DEF Inv
<1>1. ASSUME NEW m \in wire, TakeRequest(m) \/ TakePoll(m) \/ TakeClose(m)
      PROVE  CallInv'
  <2>1. PICK t \in Threads : \E next \in Steps[t] : Take(t, m, next)
    BY <1>1 DEF TakeRequest, TakePoll, TakeClose, Steps
  <2>2. /\ wire' = wire \ {m} /\ Others(t) /\ thread'[t].call = m /\ m \in Sending /\ m.to = t
        /\ UNCHANGED cli
    BY <1>0, <2>1, TakeEffect DEF Take
  <2>3. \A n : Sound(n) => Sound(n)'
    BY <2>2 DEF Sound
  <2>4. ASSUME NEW n \in wire', n.live, m.live, n.by = m.by PROVE FALSE
    <3>1. n.to = m.to /\ n.uuid = m.uuid /\ n \in Sending /\ n # m
      BY <1>0, <2>2, <2>4 DEF CallInv, Sound, TypeOK
    <3> QED
      BY <2>2, <2>4, <3>1 DEF Sending
  <2> QED
    BY <1>0, <2>2, <2>3, <2>4 DEF CallInv, Serving, Others
<1>2. ASSUME UNCHANGED <<wire, cli>>,
             \A t \in Threads : Serving(t)' => Serving(t) /\ thread'[t].call = thread[t].call
      PROVE  CallInv'
  <2>3. \A n : Sound(n) => Sound(n)'
    BY <1>2 DEF Sound
  <2> QED
    BY <1>0, <1>2, <2>3 DEF CallInv
<1>3. CASE Save
  <2>1. PICK u \in Fresh :
          /\ At("request", "save") /\ UNCHANGED <<wire, cli>>
          /\ thread' = [thread EXCEPT !["request"].at = "pipe", !["request"].uuid = u]
    BY <1>3 DEF Save
  <2> QED
    BY <1>0, <1>2, <2>1, SaveEffect DEF Others, Serving, At
<1>4. ASSUME NEW t \in Threads, NEW step, NEW next \in Steps[t], At(t, step), Goto(t, next), UNCHANGED <<wire, cli>>
      PROVE  CallInv'
  BY <1>0, <1>2, <1>4, GotoEffect DEF Others, Serving, At
<1>5. CASE SaveFails \/ Pipe \/ Look \/ RemoveReq
  BY <1>4, <1>5 DEF SaveFails, Pipe, Look, RemoveReq, Steps
<1>6. ASSUME NEW t \in Threads, NEW a \in Reply, Serving(t), Respond(t, a), UNCHANGED wire
      PROVE  CallInv'
  <2>1. /\ Others(t) /\ thread'[t] = Idle
        /\ \A c \in Clients :
              /\ AnswerOnly(c)
              /\ ~(thread[t].call.live /\ c = thread[t].call.by) => cli'[c] = cli[c]
    BY <1>0, <1>6, RespondEffect
  <2>2. ASSUME NEW n \in Sending, Sound(n), ~(thread[t].call.live /\ n.by = thread[t].call.by /\ n.live)
        PROVE  Sound(n)'
    <3>1. n.by \in Clients
      BY DEF Sending
    <3> QED
      BY <1>0, <2>1, <2>2, <3>1, SoundFrame DEF AnswerOnly
  <2>3. ASSUME NEW n \in wire' PROVE Sound(n)'
    BY <1>0, <1>6, <2>2 DEF CallInv, TypeOK
  <2>4. ASSUME NEW s \in Threads, Serving(s)' PROVE Serving(s) /\ thread'[s] = thread[s] /\ Sound(thread[s].call)'
    <3>1. s # t /\ thread'[s] = thread[s] /\ Serving(s)
      BY <2>1, <2>4 DEF Serving, Others
    <3>2. /\ thread[s].call \in Sending /\ thread[s].call.to = s /\ thread[t].call.to = t
          /\ Sound(thread[s].call) /\ Sound(thread[t].call)
      BY <1>0, <1>6, <3>1, ThreadTypes DEF ThreadInv, CallInv
    <3>3. ~(thread[t].call.live /\ thread[s].call.by = thread[t].call.by /\ thread[s].call.live)
      BY <3>1, <3>2 DEF Sound
    <3> QED
      BY <2>2, <3>1, <3>2, <3>3
  <2> QED
    BY <1>0, <1>6, <2>3, <2>4 DEF CallInv
<1>7. CASE Accept \/ Load \/ Exists \/ RemoveRep
  BY <1>0, <1>6, <1>7, Answers
<1>8. CASE DispatcherSteps
  BY <1>2, <1>8, DispatcherFrame DEF Serving
<1>9. CASE Die
  BY <1>0, <1>2, <1>9, DieEffect DEF Serving
<1>10. ASSUME NEW c \in Clients, Aged(c), OtherClients(c), cli'[c].uuid = cli[c].uuid,
              cli[c].at \in {"close", "end", "gone"} => cli'[c].at \in {"close", "end", "gone"}
       PROVE  \A t \in Threads : Serving(t)' =>
                 /\ Serving(t) /\ Sound(thread[t].call)'
                 /\ thread'[t].call.live => thread[t].call.live /\ thread'[t].call.by # c
                 /\ thread'[t].call.by = thread[t].call.by
  <2> SUFFICES ASSUME NEW t \in Threads, Serving(t)'
               PROVE  /\ Serving(t) /\ Sound(thread[t].call)'
                      /\ thread'[t].call.live => thread[t].call.live /\ thread'[t].call.by # c
                      /\ thread'[t].call.by = thread[t].call.by
    OBVIOUS
  <2>1. Serving(t) /\ thread'[t].call = Outdated(thread[t].call, c)
    BY <1>0, <1>10, AgedEffect DEF Serving
  <2>3. \A n : n = thread'[t].call /\ Sound(n)' => Sound(thread[t].call)'
    BY DEF Sound
  <2>2. thread[t].call \in Sending /\ Sound(thread[t].call)
    BY <1>0, <2>1, ThreadTypes DEF CallInv
  <2> QED
    BY <1>0, <1>10, <2>1, <2>2, <2>3, SoundOutdated
<1>11. ASSUME NEW c \in Clients, NEW tries \in 0 .. Tries, cli[c].at \in Threads, Send(c, tries)
       PROVE  CallInv'
  <2> DEFINE new == [to |-> cli[c].at, by |-> c, uuid |-> cli[c].uuid, live |-> TRUE]
  <2>1. /\ Aged(c) /\ OtherClients(c) /\ cli'[c].at = cli[c].at /\ cli'[c].uuid = cli[c].uuid
        /\ cli'[c].answer = NoReply
        /\ \A m \in wire' : m = new \/ \E n \in wire : m = Outdated(n, c)
    BY <1>0, <1>11, SendEffect
  <2>2. ASSUME NEW m \in wire', m = new PROVE Sound(m)'
    <3>1. m.to = cli[c].at /\ m.by = c /\ m.uuid = cli[c].uuid
      BY <2>2
    <3>2. cli[c].at # "request" => cli[c].uuid \in Uuids
      BY <1>0, <1>11 DEF ClientInv, TypeOK
    <3> QED
      BY <1>11, <2>1, <3>1, <3>2 DEF Sound
  <2>3. ASSUME NEW m \in wire', m # new
        PROVE  /\ Sound(m)' /\ \E n \in wire : n.by = m.by /\ (m.live => n.live)
               /\ m.by = c => ~m.live
    BY <1>0, <2>1, <2>3, SoundOutdated DEF CallInv, TypeOK
  <2>4. \A m \in wire' : Sound(m)'
    BY <2>2, <2>3
  <2>5. ASSUME NEW t \in Threads, Serving(t)', NEW m \in wire', thread'[t].call.live, m.by = thread'[t].call.by
        PROVE  ~m.live
    <3>1. /\ Serving(t) /\ thread[t].call.live /\ thread'[t].call.by # c
          /\ thread'[t].call.by = thread[t].call.by
      BY <1>10, <2>1, <2>5
    <3>2. m # new
      BY <2>5, <3>1
    <3> QED
      BY <1>0, <2>3, <2>5, <3>1, <3>2 DEF CallInv
  <2> QED
    BY <1>10, <2>1, <2>4, <2>5 DEF CallInv
<1>12. ASSUME NEW c \in Clients, GiveUp(c)
       PROVE  CallInv'
  <2>1. /\ Aged(c) /\ OtherClients(c) /\ cli'[c].at = "gone" /\ cli'[c].uuid = cli[c].uuid
        /\ \A m \in wire' : \E n \in wire : m = Outdated(n, c)
    BY <1>0, <1>12, GiveUpEffect
  <2>3. ASSUME NEW m \in wire'
        PROVE  Sound(m)' /\ \E n \in wire : n.by = m.by /\ (m.live => n.live)
    BY <1>0, <2>1, <2>3, SoundOutdated DEF CallInv, TypeOK
  <2> QED
    BY <1>0, <1>10, <2>1, <2>3 DEF CallInv
<1>13. ASSUME NEW c \in Clients, Return(c)
       PROVE  CallInv'
  <2>1. /\ UNCHANGED <<wire, thread>> /\ cli[c].answer # NoReply /\ OtherClients(c)
        /\ cli[c].at # "request" => cli'[c].uuid = cli[c].uuid
        /\ cli[c].at \in {"close", "end", "gone"} => cli'[c].at \in {"close", "end", "gone"}
    BY <1>0, <1>13, ReturnEffect DEF ClientInv, Return, disk, rest
  <2>2. ASSUME NEW n \in Sending, Sound(n) PROVE Sound(n)'
    <3>1. n.by \in Clients /\ (n.live => n.by # c)
      BY <2>1, <2>2 DEF Sending, Sound
    <3>2. CASE n.by # c
      BY <2>1, <2>2, <3>1, <3>2 DEF Sound, OtherClients
    <3>3. CASE n.by = c /\ n.to = "request"
      BY <2>1, <2>2, <3>1, <3>3 DEF Sound
    <3>4. CASE n.by = c /\ n.to # "request"
      <4>1. cli[c].uuid \in Uuids
        BY <2>2, <3>4 DEF Sound
      <4>2. cli[c].at # "request"
        BY <1>0, <4>1, NoneDistinct DEF ClientInv
      <4> QED
        BY <2>1, <2>2, <3>1, <3>4, <4>2 DEF Sound
    <3> QED
      BY <3>2, <3>3, <3>4
  <2> QED
    BY <1>0, <2>1, <2>2, ThreadTypes DEF CallInv, TypeOK, Serving
<1>14. ASSUME NEW c \in Clients, Call(c) \/ Retry(c)
       PROVE  \E tries \in 0 .. Tries : cli[c].at \in Threads /\ Send(c, tries)
  BY <1>0, <1>14, NoneDistinct, ClientTypes DEF Call, Retry, ClientInv
<1> QED
  BY <1>1, <1>3, <1>5, <1>7, <1>8, <1>9, <1>11, <1>12, <1>13, <1>14, Cases DEF DispatcherSteps
-----------------------------------------------------------------------------
(* The pass of the dispatcher over the queue. *)

(* The actions that neither the dispatcher nor the disk sees. *)
LEMMA Elsewhere ==
  ASSUME Next
  PROVE  \/ UNCHANGED <<req, rep, queue, disp, executed>>
         \/ Save \/ RemoveReq \/ RemoveRep \/ DispatcherSteps \/ Die
<1>1. ASSUME NEW m \in wire, TakeRequest(m) \/ TakePoll(m) \/ TakeClose(m)
      PROVE  UNCHANGED <<req, rep, queue, disp, executed>>
  BY <1>1 DEF TakeRequest, TakePoll, TakeClose, Take, disk, rest
<1>2. ASSUME NEW c \in Clients, Call(c) \/ Retry(c) \/ GiveUp(c) \/ Return(c)
      PROVE  UNCHANGED <<req, rep, queue, disp, executed>>
  BY <1>2 DEF Call, Retry, GiveUp, Return, Send, disk, rest
<1>3. SaveFails \/ Pipe \/ Accept \/ Look \/ Load \/ Exists => UNCHANGED <<req, rep, queue, disp, executed>>
  BY DEF SaveFails, Pipe, Accept, Look, Load, Exists, disk, rest
<1> QED
  BY <1>1, <1>2, <1>3, Cases DEF DispatcherSteps

(* The next line: the pass ends, or the line is passed over, marked or     *)
(* worked on.                                                              *)
LEMMA NextLineEffect ==
  ASSUME TypeOK, NextLine
  PROVE  /\ disp.at = "line"
         /\ \/ disp' = Polling /\ disp.k > Len(disp.lines) /\ ~disp.dirty
            \/ Step("commit") /\ disp.k > Len(disp.lines) /\ disp.dirty
            \/ Skip /\ disp.k <= Len(disp.lines)
            \/ Mark /\ disp.k <= Len(disp.lines) /\ Current.uuid \notin req /\ Current.mark = "-"
            \/ Step("load") /\ disp.k <= Len(disp.lines) /\ Current.mark = "-"
<1>1. CASE disp.k > Len(disp.lines)
  BY <1>1 DEF NextLine, Step
<1>2. CASE ~(disp.k > Len(disp.lines))
  <2>1. disp.k <= Len(disp.lines) /\ disp.k \in 1 .. Len(disp.lines)
    BY <1>2, DispatcherTypes
  <2>2. Current.mark \in {"-", "+"}
    BY <2>1, DispatcherTypes DEF Current
  <2> QED
    BY <1>2, <2>1, <2>2 DEF NextLine
<1> QED
  BY <1>1, <1>2

(* The line at hand is in the queue. *)
LEMMA CurrentUsed ==
  ASSUME TypeOK, PassInv, QueueInv, disp.at \in AtLine
  PROVE  /\ disp.k \in 1 .. Len(disp.lines) /\ Len(disp.lines) = Len(queue)
         /\ Current.uuid = queue[disp.k].uuid /\ Current.uuid \in used /\ Current.uuid \in Uuids
<1>1. disp.k \in 1 .. Len(disp.lines) /\ Len(disp.lines) = Len(queue)
      /\ Current.uuid = queue[disp.k].uuid
  BY DispatcherTypes DEF PassInv, AtLine, InPass, Current
<1>2. Backlog = queue
  BY DEF Backlog, AtLine
<1> QED
  BY <1>1, <1>2, DispatcherTypes DEF QueueInv

(* A step that keeps the lines and the place among them. *)
LEMMA StepPass ==
  ASSUME TypeOK, PassInv, NEW next \in AtLine, Step(next), disp.at \in AtLine,
         UNCHANGED queue,
         next \in {"open", "write"} => Current.uuid \in executed',
         next = "write" => rep'[Current.uuid] # None
  PROVE  PassInv'
<1>1. /\ disp'.at = next /\ disp'.lines = disp.lines /\ disp'.k = disp.k /\ disp'.dirty = disp.dirty
  BY StepEffect DEF AtLine
<1>2. Current' = Current
  BY <1>1 DEF Current
<1> QED
  BY <1>1, <1>2 DEF PassInv, AtLine, InPass

LEMMA MarkPass ==
  ASSUME TypeOK, PassInv, Mark, disp.at \in InPass, disp.k <= Len(disp.lines), UNCHANGED queue
  PROVE  PassInv'
<1>1. /\ disp'.at = "line" /\ disp'.dirty = TRUE /\ Len(disp'.lines) = Len(disp.lines)
      /\ \A j \in 1 .. Len(disp.lines) :
            /\ disp'.lines[j].uuid = disp.lines[j].uuid
            /\ disp'.lines[j].mark = IF j = disp.k THEN "+" ELSE disp.lines[j].mark
  BY MarkEffect
<1>2. /\ Len(disp.lines) = Len(queue)
      /\ \A k \in 1 .. Len(queue) :
            /\ disp.lines[k].uuid = queue[k].uuid
            /\ queue[k].mark = "+" => disp.lines[k].mark = "+"
  BY DEF PassInv
<1>3. \A k \in 1 .. Len(queue) :
         /\ disp'.lines[k].uuid = queue[k].uuid
         /\ queue[k].mark = "+" => disp'.lines[k].mark = "+"
  BY <1>1, <1>2
<1> QED
  BY <1>1, <1>2, <1>3 DEF PassInv, AtLine, InPass

LEMMA SkipPass ==
  ASSUME TypeOK, PassInv, Skip, disp.at \in InPass \ {"commit"}, UNCHANGED queue
  PROVE  PassInv'
  BY SkipEffect DEF PassInv, AtLine, InPass

LEMMA PassStep == ASSUME Inv, Next PROVE PassInv'
<1>0. TypeOK /\ ThreadInv /\ CallInv /\ OwnInv /\ PassInv /\ QueueInv /\ DiskInv
  BY DEF Inv
<1>1. CASE UNCHANGED <<req, rep, queue, disp, executed>>
  BY <1>0, <1>1 DEF PassInv, Current
<1>2. CASE Save
  <2>1. PICK u \in Fresh : req' = req \cup {u} /\ UNCHANGED <<rep, queue, disp, executed>>
    BY <1>2 DEF Save, Lose, rest
  <2>2. disp.at \in AtLine => Current.uuid # u
    BY <1>0, CurrentUsed DEF Fresh
  <2> QED
    BY <1>0, <2>1, <2>2 DEF PassInv, Current, AtLine
<1>3. CASE RemoveReq
  BY <1>0, <1>3 DEF PassInv, Current, RemoveReq, rest
<1>4. CASE RemoveRep
  <2>1. /\ rep' = [rep EXCEPT ![thread["close"].uuid] = None]
        /\ UNCHANGED <<req, queue, disp, executed>>
        /\ thread["close"].uuid \notin req
    BY <1>0, <1>4 DEF RemoveRep, rest, ThreadInv
  <2>2. disp.at \in AtLine => rep'[Current.uuid] # None \/ rep'[Current.uuid] = rep[Current.uuid] \/ Current.uuid \notin req
    BY <1>0, <2>1, CurrentUsed DEF TypeOK
  <2> QED
    BY <1>0, <2>1, <2>2 DEF PassInv, Current, AtLine
<1>5. CASE Wake
  <2>1. disp' = [at |-> "line", lines |-> queue', k |-> 1, dirty |-> FALSE]
    BY <1>5 DEF Wake, Pass
  <2> QED
    BY <2>1 DEF PassInv, AtLine, InPass
<1>5a. CASE AppendFails
  <2>1. disp' = [at |-> "line", lines |-> queue', k |-> 1, dirty |-> FALSE]
    BY <1>5a DEF AppendFails, Pass
  <2> QED
    BY <2>1 DEF PassInv, AtLine, InPass
<1>6. CASE NextLine
  <2>0. UNCHANGED <<req, rep, queue, executed>>
    BY <1>6 DEF NextLine, DispatcherOnly, disk, rest
  <2>1. CASE disp' = Polling
    BY <2>1 DEF PassInv, Polling, AtLine, InPass
  <2>2. CASE Step("commit")
    BY <1>0, <1>6, <2>0, <2>2, StepEffect, NextLineEffect DEF PassInv, AtLine, InPass
  <2>3. CASE (Skip \/ Mark) /\ disp.k <= Len(disp.lines)
    BY <1>0, <1>6, <2>0, <2>3, NextLineEffect, SkipPass, MarkPass DEF InPass
  <2>4. CASE Step("load") /\ disp.k <= Len(disp.lines) /\ Current.mark = "-"
    BY <1>0, <1>6, <2>0, <2>4, StepEffect, NextLineEffect DEF PassInv, AtLine, InPass, Current
  <2> QED
    BY <1>0, <1>6, <2>1, <2>2, <2>3, <2>4, NextLineEffect
<1>7. CASE LoadRequest
  BY <1>0, <1>7, StepPass DEF LoadRequest, DispatcherOnly, disk, AtLine
<1>8. CASE CallSucceeds
  BY <1>0, <1>8, StepPass DEF CallSucceeds, disk, AtLine
<1>9. CASE CallFails
  BY <1>0, <1>9, SkipPass DEF CallFails, disk, InPass
<1>10. CASE OpenRep
  <2>1. disp.at = "open" /\ rep' = [rep EXCEPT ![Current.uuid] = "empty"] /\ Step("write")
        /\ UNCHANGED <<queue, executed>>
    BY <1>10 DEF OpenRep, rest
  <2>2. Current.uuid \in Uuids /\ Current.uuid \in executed
    BY <1>0, <2>1, CurrentUsed DEF AtLine, PassInv
  <2>3. rep'[Current.uuid] # None
    BY <1>0, <2>1, <2>2, NoneDistinct DEF TypeOK, None
  <2> QED
    BY <1>0, <2>1, <2>2, <2>3, StepPass DEF AtLine
<1>11. CASE WriteRep
  BY <1>0, <1>11, MarkPass, CurrentUsed, DispatcherTypes DEF WriteRep, InPass, AtLine
<1>11a. CASE RepFails
  BY <1>0, <1>11a, MarkPass, CurrentUsed, DispatcherTypes DEF RepFails, disk, InPass, AtLine
<1>12. CASE Commit
  BY <1>0, <1>12, StepEffect DEF Commit, PassInv, AtLine, InPass
<1>13. CASE Rewrite
  BY <1>13 DEF Rewrite, PassInv, Polling, AtLine, InPass
<1>13a. CASE RewriteFails
  BY <1>13a DEF RewriteFails, PassInv, Polling, AtLine, InPass
<1>14. CASE Die
  BY <1>0, <1>14, DieEffect DEF PassInv, Polling, AtLine, InPass
<1> QED
  BY <1>1, <1>2, <1>3, <1>4, <1>5, <1>5a, <1>6, <1>7, <1>8, <1>9, <1>10, <1>11, <1>11a, <1>12, <1>13,
     <1>13a, <1>14, Elsewhere DEF DispatcherSteps
-----------------------------------------------------------------------------
(* The queue: one line a uuid. *)

LEMMA BacklogTypes ==
  ASSUME TypeOK
  PROVE  Backlog \in Lines /\ Len(Backlog) \in Nat
  BY DispatcherTypes DEF TypeOK, Backlog

(* No line is added, and no uuid enters the pipe. *)
LEMMA QueueFrame ==
  ASSUME TypeOK, QueueInv,
         Len(Backlog') \in Nat, Len(Backlog') <= Len(Backlog),
         \A k \in 1 .. Len(Backlog') : Backlog'[k].uuid = Backlog[k].uuid,
         pipe' = pipe \/ pipe' = <<>>, used \subseteq used',
         At("request", "pipe")' => At("request", "pipe") /\ thread'["request"].uuid = thread["request"].uuid
  PROVE  QueueInv'
<1>1. Len(Backlog) \in Nat /\ Len(pipe) \in Nat
  BY BacklogTypes, DispatcherTypes
<1>2. \A k \in 1 .. Len(Backlog') : k \in 1 .. Len(Backlog)
  BY <1>1
<1>3. \A k \in 1 .. Len(pipe') : k \in 1 .. Len(pipe) /\ pipe'[k] = pipe[k]
  BY <1>1
<1> QED
  BY <1>2, <1>3 DEF QueueInv

LEMMA BacklogFrame ==
  ASSUME TypeOK, PassInv, DispatcherSteps, ~Wake, ~AppendFails, ~RewriteFails
  PROVE  /\ Len(Backlog') = Len(Backlog) /\ pipe' = pipe
         /\ \A k \in 1 .. Len(Backlog) : Backlog'[k].uuid = Backlog[k].uuid
<1>1. CASE NextLine \/ LoadRequest \/ CallSucceeds \/ CallFails \/ OpenRep \/ WriteRep \/ RepFails
  <2>1. disp.at # "rewrite" /\ UNCHANGED <<queue, pipe>>
    BY <1>1 DEF NextLine, LoadRequest, CallSucceeds, CallFails, OpenRep, WriteRep, RepFails, DispatcherOnly, disk
  <2>2. disp'.at # "rewrite"
    <3>1. WriteRep \/ RepFails => disp.k <= Len(disp.lines)
      BY DEF WriteRep, RepFails, PassInv, AtLine
    <3>2. ASSUME NextLine PROVE disp'.at # "rewrite"
      <4>1. \/ disp' = Polling \/ Step("commit") \/ Skip \/ Step("load")
            \/ Mark /\ disp.k <= Len(disp.lines)
        BY <3>2, NextLineEffect
      <4>2. Step("commit") \/ Step("load") \/ Skip => disp'.at # "rewrite"
        BY StepEffect, SkipEffect
      <4>3. Mark /\ disp.k <= Len(disp.lines) => disp'.at # "rewrite"
        BY MarkEffect
      <4> QED
        BY <4>1, <4>2, <4>3 DEF Polling
    <3> QED
      BY <1>1, <3>1, <3>2, StepEffect, SkipEffect, MarkEffect
         DEF LoadRequest, CallSucceeds, CallFails, OpenRep, WriteRep, RepFails
  <2> QED
    BY <2>1, <2>2 DEF Backlog
<1>2. CASE Commit
  <2>1. /\ disp.at = "commit" /\ disp'.at = "rewrite" /\ disp'.lines = disp.lines /\ UNCHANGED pipe
    BY <1>2, StepEffect DEF Commit
  <2> QED
    BY <2>1 DEF Backlog, PassInv, InPass
<1>3. CASE Rewrite
  BY <1>3 DEF Rewrite, Backlog, Polling
<1> QED
  BY <1>1, <1>2, <1>3 DEF DispatcherSteps

LEMMA QueueStep == ASSUME Inv, Next PROVE QueueInv'
<1> USE DEF Threads
<1>0. TypeOK /\ ThreadInv /\ PassInv /\ QueueInv /\ DiskInv /\ OwnInv
  BY DEF Inv
<1>a. Len(Backlog) \in Nat /\ Len(pipe) \in Nat /\ pipe \in Seq(Uuids) /\ Backlog \in Lines
  BY <1>0, BacklogTypes, DispatcherTypes DEF TypeOK
<1>1. ASSUME UNCHANGED <<queue, disp>>, pipe' = pipe, used' = used,
             At("request", "pipe")' => At("request", "pipe") /\ thread'["request"].uuid = thread["request"].uuid
      PROVE  QueueInv'
  <2>1. Backlog' = Backlog
    BY <1>1 DEF Backlog
  <2> QED
    BY <1>0, <1>1, <1>a, <2>1, QueueFrame
<1>2. ASSUME NEW m \in wire, TakeRequest(m) \/ TakePoll(m) \/ TakeClose(m)
      PROVE  QueueInv'
  <2>1. PICK t \in Threads : \E next \in Steps[t] \ {"pipe"} : Take(t, m, next)
    BY <1>2 DEF TakeRequest, TakePoll, TakeClose, Steps
  <2> QED
    BY <1>0, <1>1, <2>1, TakeEffect DEF Take, disk, Others, At
<1>3. CASE Save
  <2>1. PICK u \in Fresh :
          /\ At("request", "save") /\ used' = used \cup {u} /\ UNCHANGED <<queue, pipe, disp>>
          /\ thread' = [thread EXCEPT !["request"].at = "pipe", !["request"].uuid = u]
    BY <1>3 DEF Save
  <2>2. thread'["request"].uuid = u /\ u \notin used /\ Backlog' = Backlog
    BY <1>0, <2>1, SaveEffect DEF Fresh, Backlog
  <2> QED
    BY <1>0, <2>1, <2>2 DEF QueueInv
<1>4. CASE Pipe
  <2> DEFINE u == thread["request"].uuid
  <2>1. At("request", "pipe") /\ Goto("request", "reply") /\ pipe' = Append(pipe, u)
        /\ UNCHANGED <<queue, disp, used>>
    BY <1>4 DEF Pipe, disk
  <2>2. ~At("request", "pipe")'
    BY <1>0, <2>1, GotoEffect DEF At, Serving, Steps
  <2>3. u \in req /\ u \in used /\ u \in Uuids
    BY <1>0, <2>1 DEF ThreadInv, TypeOK
  <2>4. /\ Len(pipe') = Len(pipe) + 1 /\ pipe'[Len(pipe) + 1] = u
        /\ \A k \in 1 .. Len(pipe) : pipe'[k] = pipe[k]
    BY <1>a, <2>1, <2>3, AppendProperties
  <2>5. Backlog' = Backlog
    BY <2>1 DEF Backlog
  <2>6. \A k \in 1 .. Len(pipe') : \/ k \in 1 .. Len(pipe) /\ pipe'[k] = pipe[k]
                                   \/ k = Len(pipe) + 1 /\ pipe'[k] = u
    <3> HIDE DEF u
    <3> QED
      BY <1>a, <2>4
  <2> HIDE DEF u
  <2>7. /\ \A k \in 1 .. Len(Backlog) : Backlog[k].uuid # u
        /\ \A k \in 1 .. Len(pipe) : pipe[k] # u
    BY <1>0, <2>1 DEF QueueInv, u
  <2> QED
    BY <1>0, <2>1, <2>2, <2>3, <2>5, <2>6, <2>7 DEF QueueInv
<1>5. CASE Accept \/ Load \/ Exists \/ RemoveRep
  <2>1. UNCHANGED <<queue, pipe, disp, used>>
    BY <1>5 DEF Accept, Load, Exists, RemoveRep, disk, rest
  <2>2. PICK t \in Threads : Serving(t) /\ \E a \in Reply : Respond(t, a)
    BY <1>0, <1>5, Answers DEF Inv
  <2> QED
    BY <1>0, <1>1, <2>1, <2>2, RespondEffect DEF Others, At
<1>6. CASE SaveFails \/ Look \/ RemoveReq
  <2>1. UNCHANGED <<queue, pipe, disp, used>>
    BY <1>6 DEF SaveFails, Look, RemoveReq, disk, rest
  <2>2. PICK t \in Threads : Serving(t) /\ \E next \in Steps[t] \ {"pipe"} : Goto(t, next)
    BY <1>6 DEF SaveFails, Look, RemoveReq, At, Serving, Steps
  <2> QED
    BY <1>0, <1>1, <2>1, <2>2, GotoEffect DEF Others, At
<1>7. CASE DispatcherSteps /\ ~Wake /\ ~AppendFails /\ ~RewriteFails
  BY <1>0, <1>7, <1>a, QueueFrame, BacklogFrame, DispatcherFrame DEF At
<1>8. CASE Wake
  <2>1. /\ disp.at = "poll" /\ disp'.at = "line" /\ UNCHANGED <<thread, used>>
        /\ pipe = <<>> => queue' = queue /\ pipe' = pipe
        /\ pipe # <<>> => /\ queue' = Append(queue, [mark |-> "-", uuid |-> Head(pipe)])
                          /\ pipe' = Tail(pipe)
    BY <1>8 DEF Wake, Pass, rest
  <2>2. Backlog = queue /\ Backlog' = queue'
    BY <2>1 DEF Backlog
  <2>3. CASE pipe = <<>>
    BY <1>0, <1>a, <2>1, <2>2, <2>3, QueueFrame DEF At
  <2>4. CASE pipe # <<>>
    <3> DEFINE l == [mark |-> "-", uuid |-> Head(pipe)]
    <3>1. /\ Len(pipe') = Len(pipe) - 1 /\ Len(pipe) >= 1
          /\ \A k \in 1 .. Len(pipe') : pipe'[k] = pipe[k + 1] /\ k + 1 \in 1 .. Len(pipe)
          /\ Head(pipe) = pipe[1] /\ 1 \in 1 .. Len(pipe)
          /\ l \in [mark : {"-", "+"}, uuid : Uuids]
      BY <1>a, <2>1, <2>4, HeadTailProperties, EmptySeq
    <3>2. l.uuid = pipe[1]
      BY <3>1
    <3>3. /\ Len(queue') = Len(queue) + 1
          /\ \A k \in 1 .. Len(queue') : \/ k \in 1 .. Len(queue) /\ queue'[k] = queue[k]
                                         \/ k = Len(queue) + 1 /\ queue'[k] = l
      <4>1. /\ Len(queue') = Len(queue) + 1 /\ queue'[Len(queue) + 1] = l
            /\ \A k \in 1 .. Len(queue) : queue'[k] = queue[k]
        <5>1. queue \in Seq([mark : {"-", "+"}, uuid : Uuids]) /\ queue' = Append(queue, l)
          BY <1>a, <2>1, <2>2, <2>4 DEF Lines
        <5> HIDE DEF l
        <5> QED
          BY <3>1, <5>1, AppendProperties
      <4> HIDE DEF l
      <4>2. Len(queue) \in Nat
        BY <1>a, <2>2
      <4> QED
        BY <4>1, <4>2
    <3> HIDE DEF l
    <3>4. \A j, k \in 1 .. Len(pipe') : j # k => j + 1 # k + 1
      BY <1>a, <3>1
    <3>5. \A k \in 1 .. Len(pipe') : k + 1 # 1
      BY <1>a, <3>1
    <3>6. \A j, k \in 1 .. Len(pipe') : j # k => pipe'[j] # pipe'[k]
      BY <1>0, <3>1, <3>4 DEF QueueInv
    <3>7. \A j \in 1 .. Len(queue'), k \in 1 .. Len(pipe') : queue'[j].uuid # pipe'[k]
      <4>1. \A k \in 1 .. Len(pipe') : pipe'[k] # l.uuid
        BY <1>0, <3>1, <3>2, <3>5 DEF QueueInv
      <4>2. \A j \in 1 .. Len(queue), k \in 1 .. Len(pipe') : queue[j].uuid # pipe'[k]
        BY <1>0, <2>2, <3>1 DEF QueueInv
      <4> QED
        BY <3>3, <4>1, <4>2
    <3>8. \A j, k \in 1 .. Len(queue') : j # k => queue'[j].uuid # queue'[k].uuid
      BY <1>0, <2>2, <3>1, <3>2, <3>3 DEF QueueInv
    <3>9. /\ \A k \in 1 .. Len(queue') : queue'[k].uuid \in used
          /\ \A k \in 1 .. Len(pipe') : pipe'[k] \in used
      BY <1>0, <2>2, <3>1, <3>2, <3>3 DEF QueueInv
    <3>10. At("request", "pipe") =>
              /\ \A k \in 1 .. Len(queue') : queue'[k].uuid # thread["request"].uuid
              /\ \A k \in 1 .. Len(pipe') : pipe'[k] # thread["request"].uuid
      BY <1>0, <2>2, <3>1, <3>2, <3>3 DEF QueueInv
    <3> QED
      BY <2>1, <2>2, <3>6, <3>7, <3>8, <3>9, <3>10 DEF QueueInv, At
  <2> QED
    BY <2>3, <2>4
<1>8a. CASE AppendFails
  <2>1. /\ UNCHANGED <<queue, thread, used>> /\ Len(pipe') = Len(pipe) - 1
        /\ \A k \in 1 .. Len(pipe') : pipe'[k] = pipe[k + 1] /\ k + 1 \in 1 .. Len(pipe)
        /\ disp.at = "poll" /\ disp'.at = "line"
    BY <1>0, <1>8a, AppendFailsEffect
  <2>2. Backlog' = Backlog
    BY <2>1 DEF Backlog
  <2>3. \A j, k \in 1 .. Len(pipe') : j # k => j + 1 # k + 1
    BY <1>a, <2>1
  <2> QED
    BY <1>0, <2>1, <2>2, <2>3 DEF QueueInv, At
<1>8b. CASE RewriteFails
  <2>1. /\ pipe' = pipe /\ UNCHANGED <<thread, used>> /\ disp'.at = "poll" /\ queue' \in Lines
        /\ disp.at = "rewrite" /\ Len(queue') <= Len(disp.lines)
        /\ \A k \in 1 .. Len(queue') : queue'[k] = disp.lines[k]
    BY <1>0, <1>8b, RewriteFailsEffect DEF Polling
  <2>2. Backlog' = queue' /\ Len(queue') \in Nat
    BY <2>1 DEF Backlog, Lines
  <2> QED
    BY <1>0, <1>a, <2>1, <2>2, QueueFrame DEF Backlog, At
<1>9. CASE Die
  <2>1. /\ pipe' = <<>> /\ used' = used /\ disp'.at = "poll" /\ queue' \in Lines
        /\ ~At("request", "pipe")'
        /\ IF disp.at = "rewrite"
           THEN /\ Len(queue') <= Len(disp.lines)
                /\ \A k \in 1 .. Len(queue') : queue'[k] = disp.lines[k]
           ELSE queue' = queue
    BY <1>0, <1>9, DieEffect DEF Polling, At
  <2>2. Backlog' = queue' /\ Len(queue') \in Nat
    BY <2>1 DEF Backlog, Lines
  <2> QED
    BY <1>0, <1>a, <2>1, <2>2, QueueFrame DEF Backlog
<1>10. ASSUME NEW c \in Clients, Call(c) \/ Retry(c) \/ GiveUp(c)
       PROVE  QueueInv'
  <2>1. Aged(c) /\ UNCHANGED <<queue, pipe, disp, used>>
    BY <1>10 DEF Call, Retry, GiveUp, Send, Aged, disk
  <2> QED
    BY <1>0, <1>1, <2>1, AgedEffect DEF At, Serving
<1>11. ASSUME NEW c \in Clients, Return(c)
       PROVE  QueueInv'
  BY <1>1, <1>11 DEF Return, disk, At
<1> QED
  BY <1>2, <1>3, <1>4, <1>5, <1>6, <1>7, <1>8, <1>8a, <1>8b, <1>9, <1>10, <1>11, Cases
     DEF DispatcherSteps
-----------------------------------------------------------------------------
(* The disk. *)

LEMMA UsedGrows ==
  ASSUME Next PROVE used \subseteq used' /\ executed \subseteq executed' /\ lost \subseteq lost'
<1>1. ASSUME NEW m \in wire, TakeRequest(m) \/ TakePoll(m) \/ TakeClose(m)
      PROVE  used \subseteq used' /\ lost \subseteq lost'
  BY <1>1 DEF TakeRequest, TakePoll, TakeClose, Take, rest
<1>2. ASSUME NEW c \in Clients, Call(c) \/ Retry(c) \/ GiveUp(c) \/ Return(c)
      PROVE  used \subseteq used' /\ lost \subseteq lost'
  BY <1>2 DEF Call, Retry, GiveUp, Return, Send, rest
<1>3. Save \/ SaveFails \/ Pipe \/ Accept \/ Look \/ Load \/ Exists \/ RemoveReq \/ RemoveRep \/ Die
         => used \subseteq used' /\ lost \subseteq lost'
  BY DEF Save, SaveFails, Pipe, Accept, Look, Load, Exists, RemoveReq, RemoveRep, Die, Lose, rest
<1>4. DispatcherSteps => used \subseteq used'
  BY DispatcherFrame
<1>5. Save \/ RemoveReq \/ RemoveRep \/ DispatcherSteps \/ Die => executed \subseteq executed'
  BY DEF Save, RemoveReq, RemoveRep, Die, DispatcherSteps, Wake, AppendFails, NextLine, LoadRequest,
         CallSucceeds, CallFails, OpenRep, WriteRep, RepFails, Commit, Rewrite, RewriteFails,
         DispatcherOnly, Lose, rest
<1>6. DispatcherSteps => lost \subseteq lost'
  BY DEF DispatcherSteps, Wake, AppendFails, NextLine, LoadRequest, CallSucceeds, CallFails, OpenRep,
         WriteRep, RepFails, Commit, Rewrite, RewriteFails, DispatcherOnly, Lose, rest
<1> QED
  BY <1>1, <1>2, <1>3, <1>4, <1>5, <1>6, Cases, Elsewhere DEF DispatcherSteps

(* What the dispatcher has at hand was in the queue. *)
LEMMA LinesUsed ==
  ASSUME TypeOK, PassInv, QueueInv
  PROVE  /\ \A k \in 1 .. Len(disp.lines) : disp.lines[k].uuid \in used
         /\ \A j, k \in 1 .. Len(disp.lines) : j # k => disp.lines[j].uuid # disp.lines[k].uuid
         /\ \A k \in 1 .. Len(queue) : queue[k].uuid \in used
         /\ \A j, k \in 1 .. Len(queue) : j # k => queue[j].uuid # queue[k].uuid
<1>1. CASE disp.at = "poll"
  BY <1>1 DEF PassInv, Polling, QueueInv, Backlog
<1>2. CASE disp.at \in InPass
  <2>1. Backlog = queue
    BY <1>2 DEF Backlog, InPass
  <2> QED
    BY <1>2, <2>1 DEF PassInv, QueueInv
<1>3. CASE disp.at = "rewrite"
  BY <1>3 DEF PassInv, QueueInv, Backlog
<1> QED
  BY <1>1, <1>2, <1>3, DispatcherTypes DEF InPass

LEMMA DoneFrame ==
  ASSUME NEW l, Done(l), rep'[l.uuid] = rep[l.uuid] \/ l.uuid \notin req',
         l.uuid \in req' => l.uuid \in req, lost \subseteq lost'
  PROVE  Done(l)'
  BY DEF Done

(* The lines at hand are as the queue is, as far as they are done. *)
LEMMA DiskStep == ASSUME Inv, Next PROVE DiskInv'
<1>0. TypeOK /\ ThreadInv /\ CallInv /\ OwnInv /\ PassInv /\ QueueInv /\ DiskInv
  BY DEF Inv
<1>a. used \subseteq used' /\ executed \subseteq executed' /\ lost \subseteq lost'
  BY UsedGrows
<1>b. /\ \A k \in 1 .. Len(disp.lines) : disp.lines[k].uuid \in used /\ disp.lines[k].uuid \in Uuids
      /\ \A k \in 1 .. Len(queue) : queue[k].uuid \in used /\ queue[k].uuid \in Uuids
  BY <1>0, LinesUsed DEF TypeOK
<1>1. ASSUME UNCHANGED <<queue, disp>>, req' \subseteq used',
             \A u \in Uuids : \/ rep'[u] = rep[u]
                              \/ rep'[u] = None /\ u \notin req',
             \A u \in Uuids : u \in used /\ u \in req' => u \in req
      PROVE  DiskInv'
  <2>1. \A u \in Uuids : rep'[u] # None => u \in executed' /\ u \in used'
    BY <1>0, <1>1, <1>a DEF DiskInv
  <2>2. \A k \in 1 .. Len(disp.lines) : Done(disp.lines[k])'
    BY <1>0, <1>1, <1>a, <1>b, DoneFrame DEF DiskInv
  <2>3. \A k \in 1 .. Len(queue) : Done(queue[k])'
    BY <1>0, <1>1, <1>a, <1>b, DoneFrame DEF DiskInv
  <2> QED
    BY <1>1, <2>1, <2>2, <2>3 DEF DiskInv, Done
<1>2. CASE UNCHANGED <<req, rep, queue, disp, executed>>
  BY <1>0, <1>1, <1>2, <1>a DEF DiskInv
<1>3. CASE Save
  <2>1. PICK u \in Fresh : req' = req \cup {u} /\ used' = used \cup {u} /\ UNCHANGED <<rep, queue, disp>>
    BY <1>3 DEF Save
  <2> QED
    BY <1>0, <1>1, <2>1 DEF DiskInv, Fresh
<1>4. CASE RemoveReq
  BY <1>0, <1>1, <1>4 DEF RemoveReq, DiskInv
<1>5. CASE RemoveRep
  <2>1. /\ rep' = [rep EXCEPT ![thread["close"].uuid] = None]
        /\ UNCHANGED <<req, queue, disp, used>>
        /\ thread["close"].uuid \notin req
    BY <1>0, <1>5 DEF RemoveRep, rest, ThreadInv
  <2> QED
    BY <1>0, <1>1, <2>1 DEF TypeOK, DiskInv
<1>6. CASE Wake
  <2>1. /\ disp'.lines = queue' /\ UNCHANGED <<req, rep, used>>
        /\ pipe = <<>> => queue' = queue
        /\ pipe # <<>> => queue' = Append(queue, [mark |-> "-", uuid |-> Head(pipe)])
    BY <1>6 DEF Wake, Pass
  <2>2. \A l : Done(l) => Done(l)'
    BY <1>a, <2>1 DEF Done
  <2>3. CASE pipe = <<>>
    BY <1>0, <1>a, <2>1, <2>2, <2>3 DEF DiskInv, Done
  <2>4. CASE pipe # <<>>
    <3> DEFINE l == [mark |-> "-", uuid |-> Head(pipe)]
    <3>1. queue \in Seq([mark : {"-", "+"}, uuid : Uuids]) /\ queue' = Append(queue, l) /\ l.mark # "+"
      BY <1>0, <2>1, <2>4 DEF TypeOK, Lines
    <3>2. l \in [mark : {"-", "+"}, uuid : Uuids]
      BY <1>0, <2>4, HeadTailProperties DEF TypeOK
    <3> HIDE DEF l
    <3>3. /\ Len(queue') = Len(queue) + 1 /\ queue'[Len(queue) + 1] = l
          /\ \A k \in 1 .. Len(queue) : queue'[k] = queue[k]
      BY <3>1, <3>2, AppendProperties
    <3>4. \A k \in 1 .. Len(queue') : k \in 1 .. Len(queue) \/ queue'[k] = l
      BY <1>0, <3>3, DispatcherTypes
    <3>5. \A k \in 1 .. Len(queue') : queue'[k].mark = "+" =>
              \/ rep'[queue'[k].uuid] = "written" \/ queue'[k].uuid \notin req'
              \/ <<"rep", queue'[k].uuid>> \in lost'
      BY <1>0, <1>a, <2>1, <3>1, <3>3, <3>4 DEF DiskInv, Done
    <3> QED
      BY <1>0, <1>a, <2>1, <3>5 DEF DiskInv, Done
  <2> QED
    BY <2>3, <2>4
<1>6a. CASE AppendFails
  <2>1. disp'.lines = queue /\ UNCHANGED <<req, rep, queue>>
    BY <1>0, <1>6a, AppendFailsEffect
  <2> QED
    BY <1>0, <1>a, <2>1 DEF DiskInv, Done
<1>7. ASSUME UNCHANGED <<req, rep, queue>>, disp'.lines = disp.lines
      PROVE  DiskInv'
  BY <1>0, <1>7, <1>a DEF DiskInv, Done
<1>8. ASSUME UNCHANGED req, Mark, disp.k \in 1 .. Len(disp.lines), queue' = queue,
             \/ Current.uuid \notin req \/ rep'[Current.uuid] = "written"
             \/ <<"rep", Current.uuid>> \in lost',
             \A u \in Uuids : /\ u = Current.uuid \/ rep'[u] = rep[u]
                              /\ rep'[u] # None => rep[u] # None,
             UNCHANGED rep \/ (disp.at = "write" /\ Current.mark = "-")
      PROVE  DiskInv'
  <2>1. /\ Len(disp'.lines) = Len(disp.lines)
        /\ \A j \in 1 .. Len(disp.lines) :
              /\ disp'.lines[j].uuid = disp.lines[j].uuid
              /\ disp'.lines[j].mark = IF j = disp.k THEN "+" ELSE disp.lines[j].mark
    BY <1>0, <1>8, MarkEffect, DispatcherTypes
  <2>2. \A j \in 1 .. Len(disp.lines) : j # disp.k => disp.lines[j].uuid # Current.uuid
    BY <1>0, <1>8, LinesUsed DEF Current
  <2>3. ASSUME NEW j \in 1 .. Len(disp.lines), disp'.lines[j].mark = "+"
        PROVE  \/ rep'[disp.lines[j].uuid] = "written" \/ disp.lines[j].uuid \notin req
               \/ <<"rep", disp.lines[j].uuid>> \in lost'
    <3>1. CASE j = disp.k
      BY <1>8, <3>1 DEF Current
    <3>2. CASE j # disp.k
      <4>1. disp.lines[j].mark = "+" /\ rep'[disp.lines[j].uuid] = rep[disp.lines[j].uuid]
        BY <1>8, <1>b, <2>1, <2>2, <2>3, <3>2
      <4> QED
        BY <1>0, <1>a, <4>1 DEF DiskInv, Done
    <3> QED
      BY <3>1, <3>2
  <2>4. ASSUME NEW j \in 1 .. Len(queue), queue[j].mark = "+"
        PROVE  \/ rep'[queue[j].uuid] = "written" \/ queue[j].uuid \notin req
               \/ <<"rep", queue[j].uuid>> \in lost'
    <3>1. \/ rep[queue[j].uuid] = "written" \/ queue[j].uuid \notin req
          \/ <<"rep", queue[j].uuid>> \in lost'
      BY <1>0, <1>a, <2>4 DEF DiskInv, Done
    <3>2. CASE queue[j].uuid = Current.uuid
      BY <1>8, <3>2
    <3>3. CASE queue[j].uuid # Current.uuid
      BY <1>8, <1>b, <3>1, <3>3
    <3> QED
      BY <3>2, <3>3
  <2> QED
    BY <1>0, <1>8, <1>a, <2>1, <2>3, <2>4 DEF DiskInv, Done
<1>9. CASE NextLine
  <2>0. UNCHANGED <<req, rep, queue, executed>>
    BY <1>9 DEF NextLine, DispatcherOnly, disk, rest
  <2>1. CASE disp' = Polling
    BY <1>0, <1>a, <2>0, <2>1 DEF DiskInv, Polling, Done
  <2>2. CASE Mark /\ disp.k <= Len(disp.lines) /\ Current.uuid \notin req
    BY <1>0, <1>8, <2>0, <2>2, DispatcherTypes
  <2>3. CASE Step("commit") \/ Skip \/ Step("load")
    BY <1>0, <1>7, <2>0, <2>3, StepEffect, SkipEffect
  <2> QED
    BY <1>0, <1>9, <2>1, <2>2, <2>3, NextLineEffect
<1>10. CASE LoadRequest \/ CallSucceeds \/ CallFails
  BY <1>0, <1>7, <1>10, StepEffect, SkipEffect
     DEF LoadRequest, CallSucceeds, CallFails, DispatcherOnly, disk
<1>11. CASE OpenRep
  <2>1. /\ disp.at = "open" /\ rep' = [rep EXCEPT ![Current.uuid] = "empty"]
        /\ UNCHANGED <<req, queue, used, executed>> /\ disp'.lines = disp.lines
    BY <1>0, <1>11, StepEffect DEF OpenRep, rest
  <2>2. /\ disp.k \in 1 .. Len(disp.lines) /\ Len(disp.lines) = Len(queue)
        /\ Current.uuid = queue[disp.k].uuid /\ Current.uuid \in used /\ Current.uuid \in Uuids
        /\ Current.mark = "-" /\ Current.uuid \in executed
        /\ queue[disp.k].mark = "+" => disp.lines[disp.k].mark = "+"
    BY <1>0, <2>1, CurrentUsed DEF PassInv, AtLine, InPass
  <2>3. \A u \in Uuids : u # Current.uuid => rep'[u] = rep[u]
    BY <1>0, <2>1 DEF TypeOK
  <2>4. \A j \in 1 .. Len(disp.lines) : disp.lines[j].mark = "+" => disp.lines[j].uuid # Current.uuid
    BY <1>0, <2>2, LinesUsed DEF Current
  <2>5. \A j \in 1 .. Len(queue) : queue[j].mark = "+" => queue[j].uuid # Current.uuid
    BY <1>0, <2>2, LinesUsed DEF Current
  <2>6. \A u \in Uuids : rep'[u] # None => u \in executed' /\ u \in used'
    BY <1>0, <1>a, <2>2, <2>3 DEF DiskInv
  <2> QED
    BY <1>0, <1>a, <1>b, <2>1, <2>3, <2>4, <2>5, <2>6 DEF DiskInv, Done
<1>12. CASE WriteRep
  <2>1. /\ disp.at = "write" /\ UNCHANGED <<req, queue>> /\ Mark
        /\ rep' = [rep EXCEPT ![Current.uuid] = IF rep[Current.uuid] = None THEN None ELSE "written"]
    BY <1>12 DEF WriteRep
  <2>2. /\ disp.k \in 1 .. Len(disp.lines) /\ Current.uuid \in Uuids /\ Current.mark = "-"
        /\ rep[Current.uuid] # None \/ Current.uuid \notin req
    BY <1>0, <2>1, CurrentUsed DEF PassInv, AtLine
  <2>3. /\ rep'[Current.uuid] = IF rep[Current.uuid] = None THEN None ELSE "written"
        /\ \A u \in Uuids : u # Current.uuid => rep'[u] = rep[u]
    BY <1>0, <2>1, <2>2 DEF TypeOK
  <2> QED
    BY <1>8, <2>1, <2>2, <2>3
<1>12a. CASE RepFails
  <2>1. disp.k \in 1 .. Len(disp.lines) /\ Current.uuid \in Uuids
    BY <1>0, <1>12a, CurrentUsed DEF RepFails, AtLine
  <2>2. Mark /\ UNCHANGED <<req, rep, queue>> /\ <<"rep", Current.uuid>> \in lost'
    BY <1>0, <1>12a, <2>1, RepFailsEffect
  <2> QED
    BY <1>8, <2>1, <2>2
<1>13. CASE Commit
  <2>1. queue' = <<>> /\ disp'.lines = disp.lines /\ UNCHANGED <<req, rep>>
    BY <1>0, <1>13, StepEffect DEF Commit
  <2> QED
    BY <1>0, <1>a, <2>1 DEF DiskInv, Done
<1>14. CASE Rewrite
  BY <1>0, <1>14, <1>a DEF Rewrite, DiskInv, Done, Polling
<1>14a. CASE RewriteFails
  <2>1. /\ disp'.lines = <<>> /\ UNCHANGED <<req, rep>>
        /\ Len(queue') <= Len(disp.lines) /\ queue' \in Lines
        /\ \A k \in 1 .. Len(queue') : queue'[k] = disp.lines[k]
    BY <1>0, <1>14a, RewriteFailsEffect DEF Polling
  <2>2. \A k \in 1 .. Len(queue') : k \in 1 .. Len(disp.lines)
    BY <1>0, <2>1, DispatcherTypes, LenProperties DEF Lines
  <2> QED
    BY <1>0, <1>a, <2>1, <2>2 DEF DiskInv, Done
<1>15. CASE Die
  <2>1. /\ disp'.lines = <<>> /\ UNCHANGED <<req, rep>>
        /\ IF disp.at = "rewrite"
           THEN /\ Len(queue') <= Len(disp.lines) /\ queue' \in Lines
                /\ \A k \in 1 .. Len(queue') : queue'[k] = disp.lines[k]
           ELSE queue' = queue
    BY <1>0, <1>15, DieEffect DEF Polling
  <2>2. disp.at = "rewrite" => \A k \in 1 .. Len(queue') : k \in 1 .. Len(disp.lines)
    BY <1>0, <2>1, DispatcherTypes, LenProperties DEF Lines
  <2> QED
    BY <1>0, <1>a, <2>1, <2>2 DEF DiskInv, Done
<1> QED
  BY <1>2, <1>3, <1>4, <1>5, <1>6, <1>6a, <1>9, <1>10, <1>11, <1>12, <1>12a, <1>13, <1>14, <1>14a,
     <1>15, Elsewhere DEF DispatcherSteps
-----------------------------------------------------------------------------
(* What the clients know. *)

LEMMA ClientFrame ==
  ASSUME ClientInv, NEW c \in Clients, cli'[c] = cli[c],
         executed \subseteq executed',
         cli[c].at = "reply" => cli[c].uuid \in req',
         cli[c].at = "reply" /\ rep[cli[c].uuid] # None => rep'[cli[c].uuid] # None,
         cli[c].at = "request" /\ cli[c].answer.uuid \in req => cli[c].answer.uuid \in req',
         Closed(cli[c].uuid) /\ cli[c].at \in {"close", "end"} => Closed(cli[c].uuid)'
  PROVE  /\ cli'[c].at = "request" => cli'[c].uuid = None /\ cli'[c].result = None
         /\ cli'[c].at = "reply" => cli'[c].uuid \in req' /\ cli'[c].result = None
         /\ cli'[c].at \in {"close", "end"} => cli'[c].uuid \in Uuids /\ cli'[c].result # None
         /\ cli'[c].result # None => cli'[c].uuid \in executed'
         /\ cli'[c].answer # NoReply => AnswerInv(cli[c])'
         /\ cli'[c].at = "end" => Closed(cli[c].uuid)'
         /\ cli'[c].tries # 0 => cli'[c].at \in Threads
<1>1. Closed(cli[c].uuid)' <=> cli'[c].uuid \notin req' /\ (lossy' \/ rep'[cli'[c].uuid] = None)
  BY DEF Closed
<1>2. cli[c].answer # NoReply => AnswerInv(cli[c])'
  BY DEF ClientInv, AnswerInv, Closed
<1> QED
  BY <1>2 DEF ClientInv

LEMMA ClientStep == ASSUME Inv, Next PROVE ClientInv'
<1> USE DEF Threads
<1>0. TypeOK /\ ThreadInv /\ CallInv /\ ClientInv /\ OwnInv /\ PassInv /\ QueueInv /\ DiskInv /\ LiveInv
  BY DEF Inv
<1>a. used \subseteq used' /\ executed \subseteq executed'
  BY UsedGrows
(* Steps that no client sees: what it was given stays there, what it       *)
(* closed stays away.                                                      *)
<1>1. ASSUME UNCHANGED cli,
             \A c \in Clients :
                 /\ cli[c].at = "reply" => /\ cli[c].uuid \in req'
                                           /\ rep[cli[c].uuid] # None => rep'[cli[c].uuid] # None
                 /\ cli[c].at = "request" /\ cli[c].answer.uuid \in req => cli[c].answer.uuid \in req'
                 /\ Closed(cli[c].uuid) /\ cli[c].at \in {"close", "end"} => Closed(cli[c].uuid)'
      PROVE  ClientInv'
  BY <1>0, <1>1, <1>a, ClientFrame DEF ClientInv
<1>2. ASSUME UNCHANGED <<cli, req, rep>>, lossy \in BOOLEAN, lossy => lossy' PROVE ClientInv'
  BY <1>0, <1>1, <1>2 DEF ClientInv, Closed
<1>3. CASE Save
  <2>1. PICK u \in Fresh : req' = req \cup {u} /\ UNCHANGED <<rep, cli, lossy>>
    BY <1>3 DEF Save, Lose, rest
  <2>2. \A c \in Clients : cli[c].uuid # u
    BY <1>0, NoneDistinct DEF OwnInv, Fresh
  <2> QED
    BY <1>0, <1>1, <2>1, <2>2 DEF Closed, ClientInv
<1>4. ASSUME NEW m \in wire, TakeRequest(m) \/ TakePoll(m) \/ TakeClose(m)
      PROVE  ClientInv'
  BY <1>0, <1>2, <1>4 DEF TakeRequest, TakePoll, TakeClose, Take, disk, rest, TypeOK
<1>5. CASE SaveFails \/ Pipe \/ Look
  BY <1>0, <1>2, <1>5 DEF SaveFails, Pipe, Look, disk, rest, TypeOK
<1>6. ASSUME Serving("close")
      PROVE  /\ thread["close"].uuid \in Uuids
             /\ \A c \in Clients : cli[c].at = "reply" => cli[c].uuid # thread["close"].uuid
             /\ \A c \in Clients : cli[c].at = "request" => cli[c].answer.uuid # thread["close"].uuid
  <2> DEFINE b == thread["close"].call.by
  <2>1. b \in Clients /\ thread["close"].uuid = cli[b].uuid /\ thread["close"].uuid \in Uuids
    BY <1>0, <1>6, AskedIsUsed, ThreadTypes
  <2>2. cli[b].at \in {"close", "end", "gone"}
    BY <1>0, <1>6 DEF CallInv, Sound, ThreadInv
  <2>3. \A c \in Clients : c # b => cli[c].uuid # cli[b].uuid /\ cli[c].answer.uuid # cli[b].uuid
    BY <1>0, <2>1, NoneDistinct DEF OwnInv
  <2> QED
    BY <2>1, <2>2, <2>3
<1>7. CASE RemoveReq
  <2>1. req' = req \ {thread["close"].uuid} /\ UNCHANGED <<rep, cli, lossy>> /\ Serving("close")
    BY <1>7 DEF RemoveReq, rest, At, Serving
  <2> QED
    BY <1>0, <1>1, <1>6, <2>1 DEF Closed, ClientInv
<1>8. ASSUME NEW t \in Threads, NEW a \in Reply, Serving(t), Respond(t, a), UNCHANGED <<req, lossy>>,
             rep' = rep \/ (t = "close" /\ rep' = [rep EXCEPT ![thread["close"].uuid] = None]),
             thread[t].call.live =>
                \A p : p.at = t /\ p.uuid = cli[thread[t].call.by].uuid /\ p.answer = a => AnswerInv(p)'
      PROVE  ClientInv'
  <2> DEFINE m == thread[t].call
  <2>1. /\ m.by \in Clients /\ Sound(m) /\ m.to = t
        /\ \A c \in Clients :
              /\ AnswerOnly(c)
              /\ m.live /\ c = m.by => cli'[c].answer = a
              /\ ~(m.live /\ c = m.by) => cli'[c] = cli[c]
    BY <1>0, <1>8, RespondEffect, ThreadTypes DEF CallInv, ThreadInv
  <2>2. ASSUME NEW c \in Clients
        PROVE  /\ cli[c].at = "reply" /\ rep[cli[c].uuid] # None => rep'[cli[c].uuid] # None
               /\ Closed(cli[c].uuid) /\ cli[c].at \in {"close", "end"} =>
                     cli[c].uuid \notin req' /\ (lossy' \/ rep'[cli[c].uuid] = None)
    BY <1>0, <1>6, <1>8 DEF Closed, TypeOK, ClientInv
  <2>3. ASSUME NEW c \in Clients, cli'[c] = cli[c]
        PROVE  /\ cli'[c].answer # NoReply => AnswerInv(cli[c])'
               /\ cli'[c].at = "end" => Closed(cli[c].uuid)'
    <3>1. Closed(cli[c].uuid) /\ cli[c].at \in {"close", "end"} => Closed(cli[c].uuid)'
      BY <2>2, <2>3 DEF Closed
    <3> QED
      BY <1>0, <1>8, <1>a, <2>2, <2>3, <3>1, ClientFrame DEF ClientInv
  <2>4. ASSUME NEW c \in Clients, m.live, c = m.by
        PROVE  AnswerInv(cli[c])' /\ cli[c].at \in Threads
    <3>1. cli[c].at = t
      BY <2>1, <2>4 DEF Sound
    <3>2. cli'[c].at = t /\ cli'[c].uuid = cli[c].uuid /\ cli'[c].answer = a
      BY <2>1, <2>4, <3>1 DEF AnswerOnly
    <3>3. ASSUME NEW p, p = cli'[c] PROVE AnswerInv(p)'
      BY <1>8, <2>4, <3>1, <3>2, <3>3
    <3> QED
      BY <3>1, <3>3 DEF AnswerInv, Closed
  <2>5. ASSUME NEW c \in Clients PROVE cli'[c].answer # NoReply => AnswerInv(cli[c])'
    BY <2>1, <2>3, <2>4
  <2>6. ASSUME NEW c \in Clients PROVE cli'[c].at = "end" => Closed(cli[c].uuid)'
    <3>1. Closed(cli[c].uuid)' <=> cli'[c].uuid \notin req' /\ (lossy' \/ rep'[cli'[c].uuid] = None)
      BY DEF Closed
    <3> QED
      BY <1>0, <2>1, <2>2, <3>1 DEF AnswerOnly, ClientInv
  <2>7. \A c \in Clients : AnswerOnly(c)
    BY <2>1
  <2> QED
    BY <1>0, <1>8, <1>a, <2>5, <2>6, <2>7 DEF ClientInv, AnswerOnly
<1>9. CASE Accept
  <2>1. /\ Serving("request") /\ Accepted \in Reply /\ Respond("request", Accepted)
        /\ UNCHANGED <<req, rep, lossy>> /\ thread["request"].uuid \in req
    BY <1>0, <1>9, Answers DEF ThreadInv
  <2>2. \A p : p.at = "request" /\ p.answer = Accepted => AnswerInv(p)'
    BY <2>1 DEF AnswerInv, Accepted
  <2> QED
    BY <1>8, <2>1, <2>2
<1>10. CASE Load
  <2>1. /\ Serving("reply") /\ Loaded \in Reply /\ Respond("reply", Loaded)
        /\ UNCHANGED <<req, rep, lossy>> /\ rep[thread["reply"].uuid] # None
    BY <1>0, <1>10, Answers DEF Load
  <2>2. thread["reply"].uuid = cli[thread["reply"].call.by].uuid
    BY <1>0, <2>1, AskedIsUsed
  <2>3. \A p : p.at = "reply" /\ p.uuid = thread["reply"].uuid /\ p.answer = Loaded => AnswerInv(p)'
    BY <2>1 DEF AnswerInv, Loaded
  <2> QED
    BY <1>8, <2>1, <2>2, <2>3
<1>11. CASE Exists
  <2>1. /\ Serving("reply") /\ Looked \in Reply /\ Respond("reply", Looked)
        /\ UNCHANGED <<req, rep, lossy>>
    BY <1>0, <1>11, Answers
  <2>2. /\ thread["reply"].uuid = cli[thread["reply"].call.by].uuid
        /\ thread["reply"].call.by \in Clients
        /\ thread["reply"].call.live => cli[thread["reply"].call.by].at = "reply"
    BY <1>0, <2>1, AskedIsUsed, ThreadTypes DEF CallInv, Sound, ThreadInv
  <2>3. thread["reply"].call.live => Looked.status = "300"
    BY <1>0, <2>2 DEF ClientInv, Looked
  <2>4. \A p : p.at = "reply" /\ p.answer = Looked /\ Looked.status = "300" => AnswerInv(p)'
    BY DEF AnswerInv
  <2> QED
    BY <1>8, <2>1, <2>3, <2>4
<1>12. CASE RemoveRep
  <2>1. /\ Serving("close") /\ Removed \in Reply /\ Respond("close", Removed)
        /\ UNCHANGED <<req, lossy>> /\ rep' = [rep EXCEPT ![thread["close"].uuid] = None]
        /\ thread["close"].uuid \notin req
    BY <1>0, <1>12, Answers DEF RemoveRep, ThreadInv
  <2>2. thread["close"].uuid = cli[thread["close"].call.by].uuid /\ thread["close"].uuid \in Uuids
    BY <1>0, <2>1, AskedIsUsed
  <2>3. rep'[thread["close"].uuid] = None
    BY <1>0, <2>1, <2>2 DEF TypeOK
  <2>4. \A p : p.at = "close" /\ p.uuid = thread["close"].uuid /\ p.answer = Removed => AnswerInv(p)'
    BY <2>1, <2>3 DEF AnswerInv, Removed, Closed
  <2> QED
    BY <1>8, <2>1, <2>2, <2>4
<1>13. CASE DispatcherSteps
  <2>1. UNCHANGED <<req, cli, lossy>>
    BY <1>13, DispatcherFrame
  <2>2. CASE UNCHANGED rep
    BY <1>0, <1>2, <2>1, <2>2 DEF TypeOK
  <2>3. CASE OpenRep
    <3>1. disp.at = "open" /\ rep' = [rep EXCEPT ![Current.uuid] = "empty"]
      BY <2>3 DEF OpenRep
    <3>2. /\ Current.uuid \in Uuids /\ Current.mark = "-" /\ disp.k \in 1 .. Len(disp.lines)
      BY <1>0, <3>1, CurrentUsed DEF PassInv, AtLine
    <3>3. \A u \in Uuids : rep'[u] = rep[u] \/ (u = Current.uuid /\ rep'[u] = "empty")
      BY <1>0, <3>1, <3>2 DEF TypeOK
    <3>4. ~lossy => Current.uuid \notin Begun
      BY <1>0, <3>1, <3>2 DEF LiveInv, Current
    <3>5. \A c \in Clients : cli[c].at \in {"close", "end"} /\ ~lossy => cli[c].uuid # Current.uuid
      BY <3>2, <3>4 DEF Begun
    <3>6. "empty" # None
      BY DEF None
    <3> QED
      BY <1>0, <1>1, <2>1, <3>3, <3>5, <3>6 DEF Closed, ClientInv, TypeOK
  <2>4. CASE WriteRep
    <3>1. disp.at = "write" /\ rep' = [rep EXCEPT ![Current.uuid] = IF rep[Current.uuid] = None THEN None ELSE "written"]
      BY <2>4 DEF WriteRep
    <3>2. Current.uuid \in Uuids
      BY <1>0, <3>1, CurrentUsed DEF AtLine
    <3>3. \A u \in Uuids : rep'[u] = None <=> rep[u] = None
      BY <1>0, <3>1, <3>2 DEF TypeOK, None
    <3> QED
      BY <1>0, <1>1, <2>1, <3>3 DEF Closed, ClientInv, TypeOK
  <2> QED
    BY <1>13, <2>2, <2>3, <2>4 DEF DispatcherSteps, Wake, AppendFails, NextLine, LoadRequest, CallSucceeds,
       CallFails, RepFails, Commit, Rewrite, RewriteFails, DispatcherOnly, disk
<1>14. CASE Die
  BY <1>0, <1>2, <1>14, DieEffect DEF TypeOK
<1>15. ASSUME NEW c \in Clients, OtherClients(c), UNCHANGED <<req, rep, lossy>>,
              cli'[c].answer = NoReply,
              cli'[c].at = "request" => cli'[c].uuid = None /\ cli'[c].result = None,
              cli'[c].at = "reply" => cli'[c].uuid \in req /\ cli'[c].result = None,
              cli'[c].at \in {"close", "end"} => cli'[c].uuid \in Uuids /\ cli'[c].result # None,
              cli'[c].result # None => cli'[c].uuid \in executed,
              cli'[c].at = "end" => Closed(cli'[c].uuid),
              cli'[c].tries # 0 => cli'[c].at \in Threads
       PROVE  ClientInv'
  <2>1. \A d \in Clients \ {c} : cli'[d] = cli[d]
    BY <1>15 DEF OtherClients
  <2>2. ASSUME NEW d \in Clients, d # c
        PROVE  cli'[d].answer # NoReply => AnswerInv(cli[d])'
    BY <1>0, <1>15, <1>a, <2>1, <2>2 DEF ClientInv, AnswerInv, Closed
  <2>3. \A d \in Clients : Closed(cli[d].uuid)' <=>
            cli'[d].uuid \notin req /\ (lossy \/ rep[cli'[d].uuid] = None)
    BY <1>15 DEF Closed
  <2>4. ASSUME NEW d \in Clients, d # c
        PROVE  /\ cli'[d].at = "request" => cli'[d].uuid = None /\ cli'[d].result = None
               /\ cli'[d].at = "reply" => cli'[d].uuid \in req' /\ cli'[d].result = None
               /\ cli'[d].at \in {"close", "end"} => cli'[d].uuid \in Uuids /\ cli'[d].result # None
               /\ cli'[d].result # None => cli'[d].uuid \in executed'
               /\ cli'[d].answer # NoReply => AnswerInv(cli[d])'
               /\ cli'[d].at = "end" => Closed(cli[d].uuid)'
               /\ cli'[d].tries # 0 => cli'[d].at \in Threads
    BY <1>0, <1>15, <1>a, <2>1, <2>2, <2>3, <2>4 DEF ClientInv, Closed
  <2> QED
    BY <1>15, <1>a, <2>3, <2>4 DEF ClientInv, Closed
<1>16. ASSUME NEW c \in Clients, NEW tries \in 0 .. Tries, cli[c].at \in Threads, Send(c, tries)
       PROVE  ClientInv'
  <2>1. UNCHANGED <<req, rep, lossy>>
    BY <1>16 DEF Send, disk, rest
  <2> QED
    BY <1>0, <1>15, <1>16, <2>1, SendEffect DEF ClientInv
<1>17. ASSUME NEW c \in Clients, GiveUp(c)
       PROVE  ClientInv'
  <2>1. UNCHANGED <<req, rep, lossy>>
    BY <1>17 DEF GiveUp, disk, rest
  <2> QED
    BY <1>0, <1>15, <1>17, <2>1, GiveUpEffect DEF ClientInv
<1>18. ASSUME NEW c \in Clients, Return(c)
       PROVE  ClientInv'
  <2>1. UNCHANGED <<req, rep, lossy>>
    BY <1>18 DEF Return, disk, rest
  <2>2. /\ cli[c].answer # NoReply /\ AnswerInv(cli[c])
        /\ OtherClients(c) /\ cli'[c].answer = NoReply /\ cli'[c].tries = 0
        /\ \/ /\ cli[c].at = "request"
              /\ cli'[c].at = "reply" /\ cli'[c].uuid = cli[c].answer.uuid
              /\ cli'[c].result = cli[c].result
           \/ /\ cli[c].at = "reply" /\ cli[c].answer.status = "300"
              /\ cli'[c].at = "reply" /\ cli'[c].uuid = cli[c].uuid
              /\ cli'[c].result = cli[c].result
           \/ /\ cli[c].at = "reply" /\ cli[c].answer.status = "200"
              /\ cli'[c].at = "close" /\ cli'[c].uuid = cli[c].uuid
              /\ cli'[c].result = cli[c].answer.body
           \/ /\ cli[c].at = "close"
              /\ cli'[c].at = "end" /\ cli'[c].uuid = cli[c].uuid
              /\ cli'[c].result = cli[c].result
    BY <1>0, <1>18, ReturnEffect DEF ClientInv
  <2>3. CASE cli[c].at = "request"
    BY <1>0, <1>15, <2>1, <2>2, <2>3 DEF ClientInv, AnswerInv
  <2>4. CASE cli[c].at = "reply" /\ cli[c].answer.status = "300"
    BY <1>0, <1>15, <2>1, <2>2, <2>4 DEF ClientInv
  <2>5. CASE cli[c].at = "reply" /\ cli[c].answer.status = "200"
    <3>1. cli[c].uuid \in Uuids /\ rep[cli[c].uuid] # None /\ cli[c].answer.body # None
      BY <1>0, <2>2, <2>5 DEF ClientInv, AnswerInv, TypeOK
    <3> QED
      BY <1>0, <1>15, <2>1, <2>2, <2>5, <3>1 DEF DiskInv
  <2>6. CASE cli[c].at = "close"
    BY <1>0, <1>15, <2>1, <2>2, <2>6 DEF ClientInv, AnswerInv
  <2> QED
    BY <2>2, <2>3, <2>4, <2>5, <2>6
<1>19. ASSUME NEW c \in Clients, Call(c) \/ Retry(c)
       PROVE  \E tries \in 0 .. Tries : cli[c].at \in Threads /\ Send(c, tries)
  BY <1>0, <1>19, NoneDistinct, ClientTypes DEF Call, Retry, ClientInv
<1> QED
  BY <1>3, <1>4, <1>5, <1>7, <1>9, <1>10, <1>11, <1>12, <1>13, <1>14, <1>16, <1>17, <1>18, <1>19, Cases
     DEF DispatcherSteps
-----------------------------------------------------------------------------
(* Who has which uuid. *)

LEMMA OwnFrame ==
  ASSUME OwnInv, used \subseteq used',
         \A c \in Clients : /\ cli'[c].uuid \in {cli[c].uuid, cli[c].answer.uuid, None}
                            /\ cli'[c].answer.uuid \in {cli[c].uuid, cli[c].answer.uuid, None}
                            /\ cli'[c].at # "request" => cli'[c].answer.uuid = None,
         At("request", "pipe")' \/ At("request", "reply")' =>
            /\ At("request", "pipe") \/ At("request", "reply")
            /\ thread'["request"].uuid = thread["request"].uuid /\ thread["request"].uuid # None
  PROVE  OwnInv'
<1>1. \A c, d \in Clients : c # d =>
         {cli'[c].uuid, cli'[c].answer.uuid} \cap {cli'[d].uuid, cli'[d].answer.uuid} \subseteq {None}
  BY DEF OwnInv
<1>2. \A c \in Clients : {cli'[c].uuid, cli'[c].answer.uuid} \subseteq used' \cup {None}
  BY DEF OwnInv
<1>3. (At("request", "pipe")' \/ At("request", "reply")') =>
          \A c \in Clients : thread'["request"].uuid \notin {cli'[c].uuid, cli'[c].answer.uuid}
  BY DEF OwnInv
<1> QED
  BY <1>1, <1>2, <1>3 DEF OwnInv

LEMMA OwnStep == ASSUME Inv, Next PROVE OwnInv'
<1> USE DEF Threads
<1>0. TypeOK /\ ThreadInv /\ CallInv /\ ClientInv /\ OwnInv /\ DiskInv
  BY DEF Inv
<1>a. used \subseteq used'
  BY UsedGrows
<1>b. At("request", "pipe") \/ At("request", "reply") => thread["request"].uuid # None
  BY <1>0, NoneDistinct DEF ThreadInv, TypeOK
<1>1. ASSUME UNCHANGED cli,
             At("request", "pipe")' \/ At("request", "reply")' =>
                /\ At("request", "pipe") \/ At("request", "reply")
                /\ thread'["request"].uuid = thread["request"].uuid
      PROVE  OwnInv'
  <2>1. \A c \in Clients : cli[c].at # "request" => cli[c].answer.uuid = None
    BY <1>0 DEF OwnInv
  <2> QED
    BY <1>0, <1>1, <1>a, <1>b, <2>1, OwnFrame
<1>2. ASSUME NEW m \in wire, TakeRequest(m) \/ TakePoll(m) \/ TakeClose(m)
      PROVE  OwnInv'
  <2>1. PICK t \in Threads : \E next \in Steps[t] \ {"pipe", "reply"} : Take(t, m, next)
    BY <1>2 DEF TakeRequest, TakePoll, TakeClose, Steps
  <2>0. PICK next \in Steps[t] \ {"pipe", "reply"} : Take(t, m, next)
    BY <2>1
  <2>3. UNCHANGED cli
    BY <2>0 DEF Take
  <2>2. Others(t) /\ thread'[t].at \notin {"pipe", "reply"}
    BY <1>0, <2>0, TakeEffect
  <2> QED
    BY <1>1, <2>2, <2>3 DEF Others, At
<1>3. CASE Save
  <2>1. PICK u \in Fresh :
          /\ At("request", "save") /\ used' = used \cup {u} /\ UNCHANGED cli
          /\ thread' = [thread EXCEPT !["request"].at = "pipe", !["request"].uuid = u]
    BY <1>3 DEF Save
  <2>2. thread'["request"].uuid = u /\ u \notin used /\ u # None
    BY <1>0, <2>1, SaveEffect, NoneDistinct DEF Fresh
  <2>3. \A c \in Clients : u \notin {cli[c].uuid, cli[c].answer.uuid}
    BY <1>0, <2>2 DEF OwnInv
  <2> QED
    BY <1>0, <1>a, <2>1, <2>2, <2>3 DEF OwnInv
<1>4. CASE Pipe
  <2>1. At("request", "pipe") /\ Goto("request", "reply") /\ UNCHANGED cli
    BY <1>4 DEF Pipe
  <2>2. thread'["request"].uuid = thread["request"].uuid
    BY <1>0, <2>1, AtServing, GotoEffect DEF Steps
  <2> QED
    BY <1>1, <2>1, <2>2
<1>5. CASE SaveFails \/ Look \/ RemoveReq
  <2>1. UNCHANGED cli
    BY <1>5 DEF SaveFails, Look, RemoveReq
  <2>2. PICK t \in Threads : Serving(t) /\ \E next \in Steps[t] \ {"pipe", "reply"} : Goto(t, next)
    BY <1>5 DEF SaveFails, Look, RemoveReq, At, Serving, Steps
  <2> QED
    BY <1>0, <1>1, <2>1, <2>2, GotoEffect DEF Others, At
<1>6. ASSUME NEW t \in Threads, NEW a \in Reply, Serving(t), Respond(t, a),
             a.uuid = None \/ (t = "request" /\ a.uuid = thread["request"].uuid /\ At("request", "reply"))
      PROVE  OwnInv'
  <2> DEFINE m == thread[t].call
  <2>1. /\ Others(t) /\ thread'[t] = Idle /\ m.by \in Clients
        /\ m.live => cli[m.by].at = t
        /\ \A c \in Clients :
              /\ AnswerOnly(c)
              /\ m.live /\ c = m.by => cli'[c].answer = a
              /\ ~(m.live /\ c = m.by) => cli'[c] = cli[c]
    BY <1>0, <1>6, RespondEffect, ThreadTypes DEF CallInv, Sound, ThreadInv
  <2>2. CASE a.uuid = None
    <3>1. ASSUME NEW c \in Clients
          PROVE  /\ cli'[c].uuid \in {cli[c].uuid, cli[c].answer.uuid, None}
                 /\ cli'[c].answer.uuid \in {cli[c].uuid, cli[c].answer.uuid, None}
                 /\ cli'[c].at # "request" => cli'[c].answer.uuid = None
      BY <1>0, <2>1, <2>2 DEF AnswerOnly, OwnInv
    <3>2. At("request", "pipe")' \/ At("request", "reply")' =>
                /\ At("request", "pipe") \/ At("request", "reply")
                /\ thread'["request"].uuid = thread["request"].uuid
      BY <2>1 DEF At, Others
    <3> QED
      BY <1>0, <1>a, <1>b, <3>1, <3>2, OwnFrame
  <2>3. CASE t = "request" /\ a.uuid = thread["request"].uuid /\ At("request", "reply")
    <3>1. ~At("request", "pipe")' /\ ~At("request", "reply")'
      BY <2>1, <2>3 DEF At
    <3>2. a.uuid \in used /\ \A c \in Clients : a.uuid \notin {cli[c].uuid, cli[c].answer.uuid}
      BY <1>0, <2>3 DEF ThreadInv, OwnInv
    <3>3. ASSUME NEW c \in Clients, NEW d \in Clients, c # d
          PROVE  {cli'[c].uuid, cli'[c].answer.uuid} \cap {cli'[d].uuid, cli'[d].answer.uuid} \subseteq {None}
      <4>1. {cli[c].uuid, cli[c].answer.uuid} \cap {cli[d].uuid, cli[d].answer.uuid} \subseteq {None}
        BY <1>0, <3>3 DEF OwnInv
      <4>2. /\ cli'[c].uuid = cli[c].uuid /\ cli'[d].uuid = cli[d].uuid
            /\ \/ cli'[c].answer = cli[c].answer /\ cli'[d].answer = cli[d].answer
               \/ cli'[c].answer = a /\ cli'[d].answer = cli[d].answer
               \/ cli'[c].answer = cli[c].answer /\ cli'[d].answer = a
        BY <2>1, <3>3 DEF AnswerOnly
      <4> QED
        BY <3>2, <4>1, <4>2
    <3>4. ASSUME NEW c \in Clients
          PROVE  /\ {cli'[c].uuid, cli'[c].answer.uuid} \subseteq used' \cup {None}
                 /\ cli'[c].at # "request" => cli'[c].answer.uuid = None
      BY <1>0, <1>a, <2>1, <2>3, <3>2 DEF AnswerOnly, OwnInv
    <3> QED
      BY <3>1, <3>3, <3>4 DEF OwnInv
  <2> QED
    BY <1>6, <2>2, <2>3
<1>7. CASE Accept \/ Load \/ Exists \/ RemoveRep
  <2>1. Accepted.uuid = thread["request"].uuid /\ Loaded.uuid = None /\ Looked.uuid = None /\ Removed.uuid = None
    BY DEF Accepted, Loaded, Looked, Removed
  <2> QED
    BY <1>0, <1>6, <1>7, <2>1, Answers
<1>8. CASE DispatcherSteps
  BY <1>1, <1>8, DispatcherFrame DEF At
<1>9. CASE Die
  BY <1>0, <1>1, <1>9, DieEffect DEF At
<1>10. ASSUME NEW c \in Clients, OtherClients(c), cli'[c].answer = NoReply,
              cli'[c].uuid \in {cli[c].uuid, cli[c].answer.uuid, None},
              At("request", "pipe")' \/ At("request", "reply")' =>
                 /\ At("request", "pipe") \/ At("request", "reply")
                 /\ thread'["request"].uuid = thread["request"].uuid
       PROVE  OwnInv'
  <2>1. ASSUME NEW d \in Clients
        PROVE  /\ cli'[d].uuid \in {cli[d].uuid, cli[d].answer.uuid, None}
               /\ cli'[d].answer.uuid \in {cli[d].uuid, cli[d].answer.uuid, None}
               /\ cli'[d].at # "request" => cli'[d].answer.uuid = None
    <3>1. NoReply.uuid = None
      BY DEF NoReply
    <3>2. cli[d].at # "request" => cli[d].answer.uuid = None
      BY <1>0 DEF OwnInv
    <3>3. d # c => cli'[d] = cli[d]
      BY <1>10 DEF OtherClients
    <3> QED
      BY <1>10, <3>1, <3>2, <3>3
  <2> QED
    BY <1>0, <1>10, <1>a, <1>b, <2>1, OwnFrame
<1>11. ASSUME NEW c \in Clients, Aged(c)
       PROVE  At("request", "pipe")' \/ At("request", "reply")' =>
                 /\ At("request", "pipe") \/ At("request", "reply")
                 /\ thread'["request"].uuid = thread["request"].uuid
  BY <1>0, <1>11, AgedEffect DEF At, Serving
<1>12. ASSUME NEW c \in Clients, NEW tries \in 0 .. Tries, cli[c].at \in Threads, Send(c, tries)
       PROVE  OwnInv'
  BY <1>0, <1>10, <1>11, <1>12, SendEffect
<1>13. ASSUME NEW c \in Clients, GiveUp(c)
       PROVE  OwnInv'
  BY <1>0, <1>10, <1>11, <1>13, GiveUpEffect
<1>14. ASSUME NEW c \in Clients, Return(c)
       PROVE  OwnInv'
  <2>1. UNCHANGED thread
    BY <1>14 DEF Return
  <2>2. /\ OtherClients(c) /\ cli'[c].answer = NoReply
        /\ cli'[c].uuid = cli[c].uuid \/ cli'[c].uuid = cli[c].answer.uuid
    BY <1>0, <1>14, ReturnEffect DEF ClientInv
  <2> QED
    BY <1>10, <2>1, <2>2 DEF At
<1>15. ASSUME NEW c \in Clients, Call(c) \/ Retry(c)
       PROVE  \E tries \in 0 .. Tries : cli[c].at \in Threads /\ Send(c, tries)
  BY <1>0, <1>15, NoneDistinct, ClientTypes DEF Call, Retry, ClientInv
<1> QED
  BY <1>2, <1>3, <1>4, <1>5, <1>7, <1>8, <1>9, <1>12, <1>13, <1>14, <1>15, Cases DEF DispatcherSteps
-----------------------------------------------------------------------------
(* While the process lives. *)

(* Only the dispatcher begins a reply. *)
LEMMA BegunFrame ==
  ASSUME Inv, Next, ~OpenRep
  PROVE  Begun' \subseteq Begun
<1> SUFFICES ASSUME NEW u \in Uuids, u \in Begun' PROVE u \in Begun
  BY DEF Begun
<1> USE DEF Threads
<1>0. TypeOK /\ ThreadInv /\ CallInv /\ ClientInv /\ PassInv /\ QueueInv
  BY DEF Inv
<1>1. ASSUME rep'[u] # None PROVE rep[u] # None
  <2>1. CASE UNCHANGED rep
    BY <1>1, <2>1
  <2>2. CASE RemoveRep
    BY <1>0, <1>1, <2>2 DEF RemoveRep, TypeOK
  <2>3. CASE WriteRep
    BY <1>0, <1>1, <2>3 DEF WriteRep, TypeOK
  <2>4. Save \/ RemoveReq \/ Die => UNCHANGED rep
    BY DEF Save, RemoveReq, Die
  <2>5. DispatcherSteps => UNCHANGED rep \/ WriteRep
    BY DEF DispatcherSteps, Wake, AppendFails, NextLine, LoadRequest, CallSucceeds, CallFails,
       RepFails, Commit, Rewrite, RewriteFails, DispatcherOnly, disk
  <2> QED
    BY <2>1, <2>2, <2>3, <2>4, <2>5, Elsewhere
<1>2. ASSUME NEW c \in Clients, cli'[c].uuid = u, cli'[c].at \in {"close", "end"},
             ~(cli[c].uuid = u /\ cli[c].at \in {"close", "end"})
      PROVE  rep[u] # None
  <2>1. ASSUME NEW d \in Clients, Return(d) PROVE rep[u] # None
    <3>1. d = c
      BY <1>0, <1>2, <2>1, ReturnEffect DEF ClientInv, OtherClients
    <3>2. cli[c].at = "reply" /\ cli[c].answer.status = "200" /\ cli[c].uuid = u
      BY <1>0, <1>2, <2>1, <3>1, ReturnEffect DEF ClientInv
    <3> QED
      BY <1>0, <2>1, <3>1, <3>2, ReturnEffect DEF ClientInv, AnswerInv
  <2>2. ASSUME NEW d \in Clients, Call(d) \/ Retry(d) \/ GiveUp(d) PROVE FALSE
    <3>1. GiveUp(d) \/ \E tries \in 0 .. Tries : cli[d].at \in Threads /\ Send(d, tries)
      BY <1>0, <2>2, NoneDistinct, ClientTypes DEF Call, Retry, ClientInv
    <3>2. cli'[d].uuid = cli[d].uuid /\ cli'[d].at \in {cli[d].at, "gone"} /\ OtherClients(d)
      BY <1>0, <3>1, SendEffect, GiveUpEffect
    <3> QED
      BY <1>2, <3>2 DEF OtherClients
  <2>3. ASSUME NEW t \in Threads, NEW a \in Reply, Serving(t), Respond(t, a) PROVE FALSE
    BY <1>0, <1>2, <2>3, RespondEffect DEF AnswerOnly
  <2>4. CASE Accept \/ Load \/ Exists \/ RemoveRep
    BY <1>0, <2>3, <2>4, Answers
  <2>5. ASSUME NEW m \in wire, TakeRequest(m) \/ TakePoll(m) \/ TakeClose(m) PROVE UNCHANGED cli
    BY <2>5 DEF TakeRequest, TakePoll, TakeClose, Take
  <2>6. Save \/ SaveFails \/ Pipe \/ Look \/ RemoveReq \/ Die \/ DispatcherSteps => UNCHANGED cli
    BY DispatcherFrame DEF Save, SaveFails, Pipe, Look, RemoveReq, Die
  <2> QED
    BY <1>2, <2>1, <2>2, <2>4, <2>5, <2>6, Cases DEF DispatcherSteps
<1> QED
  BY <1>1, <1>2 DEF Begun

LEMMA LiveStep == ASSUME Inv, Next PROVE LiveInv'
<1> USE DEF Threads
<1>0. /\ TypeOK /\ ThreadInv /\ CallInv /\ ClientInv /\ OwnInv /\ PassInv /\ QueueInv /\ DiskInv /\ LiveInv
  BY DEF Inv
<1>a. /\ Len(disp.lines) \in Nat /\ Len(queue) \in Nat /\ Len(pipe) \in Nat
      /\ \A k \in 1 .. Len(disp.lines) : disp.lines[k].uuid \in Uuids
      /\ \A k \in 1 .. Len(queue) : queue[k].uuid \in Uuids
      /\ \A k \in 1 .. Len(pipe) : pipe[k] \in Uuids
      /\ At("request", "pipe") => thread["request"].uuid \in Uuids
  BY <1>0, DispatcherTypes DEF ThreadInv, TypeOK
<1>b. ASSUME ~OpenRep PROVE Begun' \subseteq Begun
  BY <1>b, BegunFrame
(* Steps of the threads and the clients. *)
<1>1. ASSUME UNCHANGED <<queue, disp>>, lossy' = lossy, pipe' = pipe, ~OpenRep,
             At("request", "pipe")' => At("request", "pipe") /\ thread'["request"].uuid = thread["request"].uuid
      PROVE  LiveInv'
  BY <1>0, <1>1, <1>b DEF LiveInv
<1>2. ASSUME NEW m \in wire, TakeRequest(m) \/ TakePoll(m) \/ TakeClose(m), ~OpenRep
      PROVE  LiveInv'
  <2>1. PICK t \in Threads : \E next \in Steps[t] \ {"pipe"} : Take(t, m, next)
    BY <1>2 DEF TakeRequest, TakePoll, TakeClose, Steps
  <2>0. PICK next \in Steps[t] \ {"pipe"} : Take(t, m, next)
    BY <2>1
  <2>3. UNCHANGED <<queue, disp, pipe, lossy>>
    BY <2>0 DEF Take, disk, rest
  <2>2. Others(t) /\ thread'[t].at # "pipe"
    BY <1>0, <2>0, TakeEffect
  <2> QED
    BY <1>1, <1>2, <2>2, <2>3 DEF Others, At
<1>3. ASSUME Save, ~OpenRep PROVE LiveInv'
  <2>1. PICK u \in Fresh :
          /\ At("request", "save") /\ UNCHANGED <<rep, queue, pipe, disp, cli, lossy>>
          /\ thread' = [thread EXCEPT !["request"].at = "pipe", !["request"].uuid = u]
    BY <1>3 DEF Save, Lose, rest
  <2>2. thread'["request"].uuid = u /\ u \notin used /\ u \in Uuids
    BY <1>0, <2>1, SaveEffect DEF Fresh
  <2>3. u \notin Begun
    <3>1. rep[u] = None
      BY <1>0, <2>2 DEF DiskInv
    <3>2. \A c \in Clients : cli[c].uuid # u
      BY <1>0, <2>2, NoneDistinct DEF OwnInv
    <3> QED
      BY <3>1, <3>2 DEF Begun
  <2> QED
    BY <1>0, <1>3, <1>b, <2>1, <2>2, <2>3 DEF LiveInv
<1>4. ASSUME Pipe, ~OpenRep PROVE LiveInv'
  <2> DEFINE u == thread["request"].uuid
  <2>1. /\ At("request", "pipe") /\ pipe' = Append(pipe, u) /\ Goto("request", "reply")
        /\ UNCHANGED <<queue, disp, lossy>>
    BY <1>4 DEF Pipe, disk, rest
  <2>2. ~At("request", "pipe")'
    BY <1>0, <2>1, GotoEffect DEF At, Serving, Steps
  <2>3. /\ Len(pipe') = Len(pipe) + 1 /\ pipe'[Len(pipe) + 1] = u
        /\ \A k \in 1 .. Len(pipe) : pipe'[k] = pipe[k]
    BY <1>0, <1>a, <2>1, AppendProperties DEF TypeOK
  <2>4. ~lossy => u \notin Begun
    BY <1>0, <2>1 DEF LiveInv
  <2> HIDE DEF u
  <2>5. \A k \in 1 .. Len(pipe') : (k \in 1 .. Len(pipe) /\ pipe'[k] = pipe[k]) \/ pipe'[k] = u
    BY <1>a, <2>3
  <2> QED
    BY <1>0, <1>4, <1>b, <2>1, <2>2, <2>4, <2>5 DEF LiveInv
<1>5. ASSUME Accept \/ Load \/ Exists \/ RemoveRep, ~OpenRep PROVE LiveInv'
  <2>1. UNCHANGED <<queue, pipe, disp, lossy>>
    BY <1>5 DEF Accept, Load, Exists, RemoveRep, disk, rest
  <2>2. PICK t \in Threads : Serving(t) /\ \E a \in Reply : Respond(t, a)
    BY <1>0, <1>5, Answers
  <2> QED
    BY <1>0, <1>1, <1>5, <2>1, <2>2, RespondEffect DEF Others, At
<1>6. ASSUME SaveFails \/ Look \/ RemoveReq, ~OpenRep PROVE LiveInv'
  <2>1. UNCHANGED <<queue, pipe, disp, lossy>>
    BY <1>6 DEF SaveFails, Look, RemoveReq, disk, rest
  <2>2. PICK t \in Threads : Serving(t) /\ \E next \in Steps[t] \ {"pipe"} : Goto(t, next)
    BY <1>6 DEF SaveFails, Look, RemoveReq, At, Serving, Steps
  <2> QED
    BY <1>0, <1>1, <1>6, <2>1, <2>2, GotoEffect DEF Others, At
<1>7. ASSUME NEW c \in Clients, Call(c) \/ Retry(c) \/ GiveUp(c), ~OpenRep
      PROVE  LiveInv'
  <2>1. Aged(c) /\ UNCHANGED <<queue, pipe, disp, lossy>>
    BY <1>7 DEF Call, Retry, GiveUp, Send, Aged, disk, rest
  <2> QED
    BY <1>0, <1>1, <1>7, <2>1, AgedEffect DEF At, Serving
<1>8. ASSUME NEW c \in Clients, Return(c), ~OpenRep
      PROVE  LiveInv'
  BY <1>1, <1>8 DEF Return, disk, rest, At
(* The pass of the dispatcher. *)
<1>9. ASSUME Wake, ~OpenRep PROVE LiveInv'
  <2>1. /\ disp.at = "poll" /\ disp'.at = "line" /\ disp'.lines = queue'
        /\ UNCHANGED <<thread, lossy>>
        /\ pipe = <<>> => queue' = queue /\ pipe' = pipe
        /\ pipe # <<>> => /\ queue' = Append(queue, [mark |-> "-", uuid |-> Head(pipe)])
                          /\ pipe' = Tail(pipe)
    BY <1>9 DEF Wake, Pass, rest
  <2>2. CASE pipe = <<>>
    BY <1>0, <1>9, <1>b, <2>1, <2>2 DEF LiveInv, At
  <2>3. CASE pipe # <<>>
    <3> DEFINE l == [mark |-> "-", uuid |-> Head(pipe)]
    <3>a. pipe \in Seq(Uuids)
      BY <1>0 DEF TypeOK
    <3>1. /\ Len(pipe') = Len(pipe) - 1 /\ Len(pipe) >= 1
          /\ \A k \in 1 .. Len(pipe') : pipe'[k] = pipe[k + 1] /\ k + 1 \in 1 .. Len(pipe)
          /\ Head(pipe) = pipe[1] /\ 1 \in 1 .. Len(pipe)
      BY <1>a, <2>1, <2>3, <3>a, HeadTailProperties, EmptySeq
    <3>2. l.uuid = pipe[1] /\ l \in [mark : {"-", "+"}, uuid : Uuids]
      BY <1>a, <3>1
    <3>3. queue' = Append(queue, l) /\ queue \in Seq([mark : {"-", "+"}, uuid : Uuids])
      BY <1>0, <2>1, <2>3 DEF TypeOK, Lines
    <3> HIDE DEF l
    <3>4. \A k \in 1 .. Len(queue') : (k \in 1 .. Len(queue) /\ queue'[k] = queue[k]) \/ queue'[k] = l
      BY <1>a, <3>2, <3>3, AppendProperties
    <3> QED
      BY <1>0, <1>9, <1>b, <2>1, <3>1, <3>2, <3>4 DEF LiveInv, At
  <2> QED
    BY <2>2, <2>3
<1>9a. ASSUME AppendFails, ~OpenRep PROVE LiveInv'
  <2>1. /\ disp.at = "poll" /\ disp'.at = "line" /\ disp'.lines = queue
        /\ UNCHANGED <<queue, thread, lossy>>
        /\ \A k \in 1 .. Len(pipe') : pipe'[k] = pipe[k + 1] /\ k + 1 \in 1 .. Len(pipe)
    BY <1>0, <1>9a, AppendFailsEffect
  <2> QED
    BY <1>0, <1>9a, <1>b, <2>1 DEF LiveInv, At
<1>10. ASSUME UNCHANGED <<queue, pipe, thread>>, lossy' = lossy, ~OpenRep, disp.at # "write", disp'.at # "poll",
              disp'.lines = disp.lines
       PROVE  LiveInv'
  BY <1>0, <1>10, <1>b DEF LiveInv, At
<1>11. ASSUME UNCHANGED <<queue, pipe, thread>>, lossy' = lossy, ~OpenRep, Mark, disp.k <= Len(disp.lines)
       PROVE  LiveInv'
  <2>1. /\ disp'.at = "line"
        /\ Len(disp'.lines) = Len(disp.lines)
        /\ \A j \in 1 .. Len(disp.lines) :
              /\ disp'.lines[j].uuid = disp.lines[j].uuid
              /\ disp'.lines[j].mark = IF j = disp.k THEN "+" ELSE disp.lines[j].mark
    BY <1>0, <1>11, MarkEffect
  <2>2. \A k \in 1 .. Len(disp'.lines) : disp'.lines[k].mark = "-" =>
           k # disp.k /\ disp.lines[k].mark = "-" /\ disp'.lines[k].uuid = disp.lines[k].uuid
    BY <2>1
  <2> QED
    BY <1>0, <1>11, <1>b, <2>1, <2>2 DEF LiveInv, At
<1>12. ASSUME NextLine, ~OpenRep PROVE LiveInv'
  <2>1. disp.at = "line" /\ UNCHANGED <<queue, pipe, thread, lossy>>
    BY <1>12 DEF NextLine, DispatcherOnly, disk, rest
  <2>2. CASE disp' = Polling /\ ~disp.dirty
    <3>1. disp.lines = queue
      BY <1>0, <2>1, <2>2 DEF PassInv, InPass
    <3> QED
      BY <1>0, <1>12, <1>b, <2>1, <2>2, <3>1 DEF LiveInv, At, Polling
  <2>3. CASE Mark /\ disp.k <= Len(disp.lines)
    BY <1>11, <1>12, <2>1, <2>3
  <2>4. CASE Step("commit") \/ Skip \/ Step("load")
    BY <1>0, <1>10, <1>12, <2>1, <2>4, StepEffect, SkipEffect
  <2> QED
    BY <1>0, <1>12, <2>2, <2>3, <2>4, NextLineEffect
<1>13. ASSUME LoadRequest \/ CallSucceeds \/ CallFails, ~OpenRep PROVE LiveInv'
  BY <1>0, <1>10, <1>13, StepEffect, SkipEffect
     DEF LoadRequest, CallSucceeds, CallFails, DispatcherOnly, disk, rest
<1>14. ASSUME WriteRep, ~OpenRep PROVE LiveInv'
  BY <1>0, <1>11, <1>14 DEF WriteRep, PassInv, AtLine, rest
<1>14a. ASSUME RepFails, ~OpenRep PROVE LiveInv'
  <2>1. disp.k <= Len(disp.lines) /\ Current.uuid \in Uuids
    BY <1>0, <1>14a, CurrentUsed DEF RepFails, PassInv, AtLine
  <2> QED
    BY <1>0, <1>11, <1>14a, <2>1, RepFailsEffect
<1>15. ASSUME Commit, ~OpenRep PROVE LiveInv'
  <2>1. /\ disp'.at = "rewrite" /\ disp.at = "commit" /\ disp'.lines = disp.lines
        /\ UNCHANGED <<pipe, thread, lossy>>
    BY <1>0, <1>15, StepEffect DEF Commit, rest
  <2> QED
    BY <1>0, <1>15, <1>b, <2>1 DEF LiveInv, At
<1>16. ASSUME Rewrite, ~OpenRep PROVE LiveInv'
  BY <1>0, <1>16, <1>b DEF Rewrite, LiveInv, At, Polling, rest
<1>16a. ASSUME RewriteFails, ~OpenRep PROVE LiveInv'
  <2>1. /\ disp.at = "rewrite" /\ disp' = Polling /\ UNCHANGED <<pipe, thread, lossy>>
        /\ queue' \in Lines /\ Len(queue') <= Len(disp.lines)
        /\ \A k \in 1 .. Len(queue') : queue'[k] = disp.lines[k]
    BY <1>0, <1>16a, RewriteFailsEffect
  <2>2. \A k \in 1 .. Len(queue') : k \in 1 .. Len(disp.lines)
    BY <1>a, <2>1, LenProperties DEF Lines
  <2> QED
    BY <1>0, <1>16a, <1>b, <2>1, <2>2 DEF LiveInv, At, Polling
<1>17. CASE Die
  BY <1>0, <1>17, DieEffect DEF LiveInv
<1>18. CASE OpenRep
  <2>1. /\ disp.at = "open" /\ rep' = [rep EXCEPT ![Current.uuid] = "empty"]
        /\ UNCHANGED <<queue, pipe, thread, cli, lossy>>
        /\ disp'.lines = disp.lines /\ disp'.k = disp.k /\ disp'.at = "write"
    BY <1>0, <1>18, StepEffect DEF OpenRep, rest
  <2>2. /\ disp.k \in 1 .. Len(disp.lines) /\ Len(disp.lines) = Len(queue)
        /\ Current.uuid = queue[disp.k].uuid /\ Current.uuid \in Uuids /\ Backlog = queue
    BY <1>0, <2>1, CurrentUsed DEF AtLine, Backlog
  <2>3. Begun' \subseteq Begun \cup {Current.uuid}
    BY <1>0, <2>1, <2>2 DEF Begun, TypeOK
  <2>4. \A k \in 1 .. Len(pipe) : pipe[k] # Current.uuid
    BY <1>0, <2>2 DEF QueueInv
  <2>5. At("request", "pipe") => thread["request"].uuid # Current.uuid
    BY <1>0, <2>2 DEF QueueInv
  <2>6. \A k \in 1 .. Len(disp.lines) : k # disp.k => disp.lines[k].uuid # Current.uuid
    BY <1>0, <2>2, LinesUsed DEF Current
  <2> QED
    BY <1>0, <2>1, <2>3, <2>4, <2>5, <2>6 DEF LiveInv, At
<1> QED
  BY <1>2, <1>3, <1>4, <1>5, <1>6, <1>7, <1>8, <1>9, <1>9a, <1>12, <1>13, <1>14, <1>14a, <1>15, <1>16,
     <1>16a, <1>17, <1>18, Cases
-----------------------------------------------------------------------------
(* The theorems. *)

LEMMA InvInit == ASSUME Init PROVE Inv
<1> USE DEF Threads
<1>1. \A t \in Threads : thread[t] = Idle
  BY DEF Init
<1>2. \A c \in Clients : cli[c] = [at |-> "request", uuid |-> None, tries |-> 0,
                                   answer |-> NoReply, result |-> None]
  BY DEF Init
<1>3. TypeOK
  <2>1. cli \in [Clients -> Program]
    BY NoneDistinct DEF Init, Program
  <2>2. rep \in [Uuids -> {None, "empty", "written"}] /\ queue \in Lines /\ pipe \in Seq(Uuids)
    BY DEF Init, Lines
  <2>3. disp \in Dispatcher /\ faults \in 0 .. MaxFaults /\ lossy \in BOOLEAN
    <3>1. disp = Polling /\ faults = 0
      BY DEF Init
    <3>2. lossy \in BOOLEAN
      BY DEF Init
    <3>3. disp \in Dispatcher
      BY <3>1, PollingType
    <3>4. faults \in 0 .. MaxFaults
      BY <3>1, NoneDistinct
    <3> QED
      BY <3>2, <3>3, <3>4
  <2>4. req = {} /\ wire = {} /\ used = {} /\ executed = {} /\ lost = {}
    BY DEF Init
  <2> QED
    BY <1>1, <2>1, <2>2, <2>3, <2>4 DEF TypeOK
<1>4. ThreadInv
  BY <1>1 DEF Init, ThreadInv, Serving, At
<1>5. CallInv
  BY <1>1 DEF Init, CallInv, Serving
<1>6. ClientInv
  BY <1>2 DEF ClientInv
<1>7. OwnInv
  BY <1>1, <1>2 DEF OwnInv, At, NoReply
<1>8. PassInv /\ QueueInv /\ DiskInv
  BY <1>1 DEF Init, PassInv, QueueInv, DiskInv, Polling, InPass, AtLine, Backlog, At
<1>9. LiveInv
  BY <1>1 DEF Init, LiveInv, Polling, At
<1> QED
  BY <1>3, <1>4, <1>5, <1>6, <1>7, <1>8, <1>9 DEF Inv

LEMMA InvStutter == ASSUME Inv, UNCHANGED vars PROVE Inv'
<1> USE DEF vars
<1>1. TypeOK'
  BY DEF Inv, TypeOK
<1>2. ThreadInv' /\ CallInv'
  BY DEF Inv, ThreadInv, CallInv, Sound, Serving, At
<1>3. ClientInv'
  BY DEF Inv, ClientInv, AnswerInv, Closed
<1>4. OwnInv'
  BY DEF Inv, OwnInv, At
<1>5. PassInv' /\ QueueInv'
  BY DEF Inv, PassInv, QueueInv, Backlog, Current, At
<1>6. DiskInv'
  BY DEF Inv, DiskInv, Done
<1>7. LiveInv'
  BY DEF Inv, LiveInv, Begun, At
<1> QED
  BY <1>1, <1>2, <1>3, <1>4, <1>5, <1>6, <1>7 DEF Inv

LEMMA InvNext == ASSUME Inv, [Next]_vars PROVE Inv'
<1>1. CASE Next
  BY <1>1, TypeStep, ThreadStep, CallStep, ClientStep, OwnStep, PassStep, QueueStep, DiskStep, LiveStep
     DEF Inv
<1>2. CASE UNCHANGED vars
  BY <1>2, InvStutter
<1> QED
  BY <1>1, <1>2

(* The invariant, through every death of the process. *)
THEOREM Invariant == Spec => []Inv
<1> QED
  BY InvInit, InvNext, PTL DEF Spec

(* The variables keep their types: what the threads, the dispatcher and    *)
(* the clients hold is what titanic.cpp and ticlient.cpp can put there.    *)
THEOREM TypeCorrect == Spec => []TypeOK
<1>1. Inv => TypeOK
  BY DEF Inv
<1> QED
  BY <1>1, Invariant, PTL

(* What titanic.request has accepted stays on the disk until its client    *)
(* closes it, so that titanic.reply never answers 400 for it, and a reply  *)
(* handed out is one the service gave: however often calls are sent again  *)
(* and wherever the process dies.                                          *)
THEOREM AcceptedStays == Spec => []Truthful
<1>1. ASSUME Inv PROVE Truthful
  <2> SUFFICES ASSUME NEW c \in Clients
               PROVE  /\ cli[c].at = "reply" => cli[c].uuid \in req /\ cli[c].answer.status # "400"
                      /\ cli[c].result # None => cli[c].uuid \in executed
    BY DEF Truthful
  <2>1. cli[c].at = "reply" => cli[c].answer.status # "400"
    <3>1. cli[c].answer = NoReply => cli[c].answer.status = None
      BY DEF NoReply
    <3>2. cli[c].at = "reply" /\ cli[c].answer # NoReply => cli[c].answer.status \in {"200", "300"}
      BY <1>1 DEF Inv, ClientInv, AnswerInv
    <3> QED
      BY <3>1, <3>2 DEF None
  <2> QED
    BY <1>1, <2>1 DEF Inv, ClientInv
<1> QED
  BY <1>1, Invariant, PTL

(* The dispatcher passes over a request as done while its reply is missing *)
(* only if the disk did not take the reply, which it does not ask: never   *)
(* for a death at any point, the queue rewritten in part, or what the      *)
(* other threads do meanwhile.                                             *)
THEOREM DoneHasReply == Spec => []DoneIsDone
<1>1. ASSUME Inv PROVE DoneIsDone
  <2>1. DOMAIN queue = 1 .. Len(queue)
    BY <1>1, LenProperties DEF Inv, TypeOK, Lines
  <2> QED
    BY <1>1, <2>1 DEF Inv, DiskInv, Done, DoneIsDone
<1> QED
  BY <1>1, Invariant, PTL

(* A request closed leaves neither file behind, as long as the process     *)
(* lives: no thread and no pass of the dispatcher brings one back.         *)
THEOREM ClosedStaysGone == Spec => []ClosedIsGone
<1>1. ASSUME Inv PROVE ClosedIsGone
  BY <1>1 DEF Inv, ClientInv, Closed, ClosedIsGone
<1> QED
  BY <1>1, Invariant, PTL
=============================================================================

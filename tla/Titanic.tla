------------------------------- MODULE Titanic -------------------------------
(***************************************************************************)
(* The Titanic example (src/src/zmq/titanic.cpp): requests to a service    *)
(* are kept on disk, so that a client (ticlient.cpp) can leave one, come   *)
(* back for the reply and close it.  One process, four threads: three that *)
(* serve titanic.request, titanic.reply and titanic.close, and one that    *)
(* dispatches.  They share the disk, and an inproc pipe from the first to  *)
(* the dispatcher.  The process may die at any time and is started again.  *)
(*                                                                         *)
(* A call of the client is a ServiceCall: it may be sent several times,    *)
(* each time executed now or later, and only the reply to the last sending *)
(* is heard.  The dispatcher's own call succeeds or fails, with or without *)
(* the service executed: mdcli tries it once.  (service_name is a pointer  *)
(* into a string that is gone, titanic.cpp:328; where a build reads other  *)
(* bytes there, every such call fails.)                                    *)
(*                                                                         *)
(* The disk may fail to take what is written: a file may not open, or not  *)
(* take its content, which the code asks in some places only.  What can be *)
(* opened can be read, and lines of the queue are there whole or not.      *)
(***************************************************************************)
EXTENDS Naturals, Sequences, FiniteSets

CONSTANTS
    Clients,
    Uuids,       \* bound: all that generateUUID ever returns
    Tries,       \* how often a client sends a call, at most
    MaxFaults    \* bound: deaths from outside, and writes that fail

None == "none"

ASSUME TitanicAssumption ==
    /\ None \notin Clients \cup Uuids
    /\ Tries \in Nat \ {0} /\ MaxFaults \in Nat

Threads == {"request", "reply", "close"}

VARIABLES
    req,       \* uuids with a .req file
    rep,       \* uuid -> its .rep file: not there, just created, or written
    queue,     \* the queue file: lines of a mark and a uuid
    pipe,      \* uuids on their way to the dispatcher
    thread,    \* thread -> the step it is at and the call it serves
    disp,      \* the dispatcher
    wire,      \* calls on their way to a thread
    cli,       \* client -> its program
    used,      \* uuids generated so far
    executed,  \* history: uuids whose request the service has executed
    lost,      \* history: what the disk did not take: files' kinds and uuids
    faults,    \* deaths from outside, and failed writes, so far
    lossy      \* history: the process has died

vars == <<req, rep, queue, pipe, thread, disp, wire, cli, used, executed, lost, faults, lossy>>

disk == <<req, rep, queue>>
rest == <<executed, lost, faults, lossy>>

(* A sending of a call; live: the client still listens for its reply.      *)
Sending == [to : Threads, by : Clients, uuid : Uuids \cup {None}, live : BOOLEAN]

Kinds == {"req", "rep", "queue"}

Lines == Seq([mark : {"-", "+"}, uuid : Uuids])

(* at     what comes next                                                  *)
(* call   the sending it serves                                            *)
(* uuid   what it has generated, or been asked for                         *)
Idle == [at |-> "recv"]
Busy == [at : {"save", "ended", "pipe", "reply", "look", "load", "exists", "remove", "removeRep"},
         call : Sending, uuid : Uuids \cup {None}]

(* lines  new_lines, and after them what the pass has yet to read          *)
(* k      the line at hand                                                 *)
(* dirty  need_commit                                                      *)
Dispatcher == [at : {"poll", "line", "load", "call", "open", "write", "commit", "rewrite"},
               lines : Lines, k : Nat \ {0}, dirty : BOOLEAN]

(* at      what the program calls                                          *)
(* uuid    the one it was given                                            *)
(* tries   retries_left, 0 when no call is under way                       *)
(* answer  the reply in its socket                                         *)
(* result  what it was told to be the reply to its request                 *)
Reply == [status : {"200", "300", "400"}, uuid : Uuids \cup {None},
          body : {None, "empty", "written"}]
NoReply == [status |-> None, uuid |-> None, body |-> None]

Program == [at : Threads \cup {"end", "gone"}, uuid : Uuids \cup {None}, tries : 0 .. Tries,
            answer : Reply \cup {NoReply}, result : {None, "empty", "written"}]

TypeOK ==
    /\ req \subseteq Uuids
    /\ rep \in [Uuids -> {None, "empty", "written"}]
    /\ queue \in Lines
    /\ pipe \in Seq(Uuids)
    /\ \A t \in Threads : thread[t] = Idle \/ thread[t] \in Busy
    /\ disp \in Dispatcher
    /\ wire \subseteq Sending
    /\ cli \in [Clients -> Program]
    /\ used \subseteq Uuids
    /\ executed \subseteq Uuids
    /\ lost \subseteq Kinds \X Uuids
    /\ faults \in 0 .. MaxFaults
    /\ lossy \in BOOLEAN

Polling == [at |-> "poll", lines |-> <<>>, k |-> 1, dirty |-> FALSE]

Init ==
    /\ req = {} /\ rep = [u \in Uuids |-> None] /\ queue = <<>>
    /\ pipe = <<>>
    /\ thread = [t \in Threads |-> Idle]
    /\ disp = Polling
    /\ wire = {}
    /\ cli = [c \in Clients |-> [at |-> "request", uuid |-> None, tries |-> 0,
                                 answer |-> NoReply, result |-> None]]
    /\ used = {} /\ executed = {} /\ lost = {} /\ faults = 0 /\ lossy = FALSE

-----------------------------------------------------------------------------
(* The process dies and is started again.  What is left of the queue file  *)
(* when it dies while writing it is what had been written.                 *)
Die ==
    /\ pipe' = <<>>
    /\ thread' = [t \in Threads |-> Idle]
    /\ disp' = Polling
    /\ lossy' = TRUE
    /\ IF disp.at = "rewrite"
       THEN \E n \in 0 .. Len(disp.lines) : queue' = SubSeq(disp.lines, 1, n)
       ELSE queue' = queue
    /\ UNCHANGED <<req, rep, wire, cli, used, executed, lost>>

Fault ==
    /\ faults < MaxFaults
    /\ faults' = faults + 1

Crash == Die /\ Fault

(* An assertion, or a null pointer, ends the process. *)
Abort == Die /\ UNCHANGED faults

(* The disk does not take these, and nobody asks. *)
Lose(what) ==
    /\ Fault
    /\ lost' = lost \cup what
    /\ UNCHANGED <<executed, lossy>>

-----------------------------------------------------------------------------
(* The three services: recv, a few steps on the disk, and the reply, sent  *)
(* by the next recv to a client that may listen no longer.                 *)
Take(t, m, next) ==
    /\ thread[t] = Idle
    /\ m \in wire /\ m.to = t
    /\ wire' = wire \ {m}
    /\ thread' = [thread EXCEPT ![t] = [at |-> next, call |-> m, uuid |-> m.uuid]]
    /\ UNCHANGED <<disk, pipe, disp, cli, used, rest>>

Goto(t, next) == thread' = [thread EXCEPT ![t].at = next]

At(t, step) == thread[t] # Idle /\ thread[t].at = step

Respond(t, reply) ==
    LET m == thread[t].call
    IN  /\ thread' = [thread EXCEPT ![t] = Idle]
        /\ cli' = IF m.live THEN [cli EXCEPT ![m.by].answer = reply] ELSE cli

(* titanic.request: a .req file under a new uuid, the uuid to the          *)
(* dispatcher, and to the client.                                          *)
TakeRequest(m) == Take("request", m, "save")

(* generateUUID: 30 random digits, taken never to come twice. *)
Fresh == Uuids \ used

(* Fault: a request that could not be written is accepted all the same. *)
SaveUnchecked ==
    /\ At("request", "save")
    /\ \E u \in Fresh :
         /\ used' = used \cup {u}
         /\ req' \in {req, req \cup {u}}
         /\ thread' = [thread EXCEPT !["request"].at = "pipe", !["request"].uuid = u]
    /\ UNCHANGED <<rep, queue, pipe, disp, wire, cli, rest>>

Save ==
    /\ At("request", "save")
    /\ \E u \in Fresh :
         /\ used' = used \cup {u}
         /\ req' = req \cup {u}
         /\ thread' = [thread EXCEPT !["request"].at = "pipe", !["request"].uuid = u]
         /\ UNCHANGED rest \/ Lose({<<"req", u>>})
    /\ UNCHANGED <<rep, queue, pipe, disp, wire, cli>>

(* The file cannot be opened: the thread ends, and serves no more. *)
SaveFails ==
    /\ At("request", "save")
    /\ Goto("request", "ended")
    /\ Fault
    /\ UNCHANGED <<disk, pipe, disp, wire, cli, used, executed, lost, lossy>>

(* Fault: what it was sent with, not what it got. *)
PipeCall ==
    /\ At("request", "pipe")
    /\ pipe' = Append(pipe, thread["request"].call.uuid)
    /\ Goto("request", "reply")
    /\ UNCHANGED <<disk, disp, wire, cli, used, rest>>

Pipe ==
    /\ At("request", "pipe")
    /\ pipe' = Append(pipe, thread["request"].uuid)
    /\ Goto("request", "reply")
    /\ UNCHANGED <<disk, disp, wire, cli, used, rest>>

Accept ==
    /\ At("request", "reply")
    /\ Respond("request", [status |-> "200", uuid |-> thread["request"].uuid, body |-> None])
    /\ UNCHANGED <<disk, pipe, disp, wire, used, rest>>

(* titanic.reply: is there a .rep file? *)
TakePoll(m) == Take("reply", m, "look")

Look ==
    /\ At("reply", "look")
    /\ Goto("reply", IF rep[thread["reply"].uuid] # None THEN "load" ELSE "exists")
    /\ UNCHANGED <<disk, pipe, disp, wire, cli, used, rest>>

(* Its content, with 200; it may be empty as yet. *)
Load ==
    /\ At("reply", "load")
    /\ rep[thread["reply"].uuid] # None
    /\ Respond("reply", [status |-> "200", uuid |-> None, body |-> rep[thread["reply"].uuid]])
    /\ UNCHANGED <<disk, pipe, disp, wire, used, rest>>

(* Closed in between, it cannot be read: assert(reply) ends the process. *)
LoadFails ==
    /\ At("reply", "load")
    /\ rep[thread["reply"].uuid] = None
    /\ Abort

(* Pending, or unknown. *)
Exists ==
    /\ At("reply", "exists")
    /\ Respond("reply", [status |-> IF thread["reply"].uuid \in req THEN "300" ELSE "400",
                         uuid |-> None, body |-> None])
    /\ UNCHANGED <<disk, pipe, disp, wire, used, rest>>

(* titanic.close: both files are removed, one after the other. *)
TakeClose(m) == Take("close", m, "remove")

(* Fault: the reply is left to the next start to remove. *)
RemoveRepNot ==
    /\ At("close", "removeRep")
    /\ Respond("close", [status |-> "200", uuid |-> None, body |-> None])
    /\ UNCHANGED <<disk, pipe, disp, wire, used, rest>>

RemoveReq ==
    /\ At("close", "remove")
    /\ req' = req \ {thread["close"].uuid}
    /\ Goto("close", "removeRep")
    /\ UNCHANGED <<rep, queue, pipe, disp, wire, cli, used, rest>>

RemoveRep ==
    /\ At("close", "removeRep")
    /\ rep' = [rep EXCEPT ![thread["close"].uuid] = None]
    /\ Respond("close", [status |-> "200", uuid |-> None, body |-> None])
    /\ UNCHANGED <<req, queue, pipe, disp, wire, used, rest>>

Services ==
    \/ \E m \in wire : TakeRequest(m) \/ TakePoll(m) \/ TakeClose(m)
    \/ Save \/ SaveFails \/ Pipe \/ Accept
    \/ Look \/ Load \/ LoadFails \/ Exists
    \/ RemoveReq \/ RemoveRep

-----------------------------------------------------------------------------
(* The dispatcher. *)
Step(next) == disp' = [disp EXCEPT !.at = next]

Current == disp.lines[disp.k]

(* On to the next line, this one marked or not. *)
Mark == disp' = [disp EXCEPT !.at = "line", !.lines[disp.k].mark = "+",
                             !.k = @ + 1, !.dirty = TRUE]
Skip == disp' = [disp EXCEPT !.at = "line", !.k = @ + 1]

DispatcherOnly == UNCHANGED <<disk, pipe, thread, wire, cli, used, rest>>

(* The poll has returned: what it read goes to the queue, if the disk      *)
(* takes it, and a pass over the queue begins.                             *)
Pass == disp' = [at |-> "line", lines |-> queue', k |-> 1, dirty |-> FALSE]

Wake ==
    /\ disp.at = "poll"
    /\ queue' = IF pipe = <<>> THEN queue
                ELSE Append(queue, [mark |-> "-", uuid |-> Head(pipe)])
    /\ pipe' = IF pipe = <<>> THEN pipe ELSE Tail(pipe)
    /\ Pass
    /\ UNCHANGED <<req, rep, thread, wire, cli, used, rest>>

AppendFails ==
    /\ disp.at = "poll" /\ pipe # <<>>
    /\ pipe' = Tail(pipe)
    /\ Lose({<<"queue", Head(pipe)>>})
    /\ UNCHANGED <<disk, thread, wire, cli, used>>
    /\ Pass

(* A pending line whose request is closed counts as done. *)
NextLine ==
    /\ disp.at = "line"
    /\ IF disp.k > Len(disp.lines)
       THEN disp' = IF disp.dirty THEN [disp EXCEPT !.at = "commit"] ELSE Polling
       ELSE CASE Current.mark = "+"      -> Skip
              [] Current.mark = "-" /\ Current.uuid \notin req -> Mark
              [] OTHER                   -> Step("load")
    /\ DispatcherOnly

(* The request is read from its file, *)
LoadRequest ==
    /\ disp.at = "load" /\ Current.uuid \in req
    /\ Step("call")
    /\ DispatcherOnly

(* or has been closed since, or has no first line: a null pointer is used. *)
LoadRequestFails ==
    /\ disp.at = "load"
    /\ Current.uuid \notin req \/ <<"req", Current.uuid>> \in lost
    /\ Abort

(* The service is called. *)
CallSucceeds ==
    /\ disp.at = "call"
    /\ executed' = executed \cup {Current.uuid}
    /\ Step("open")
    /\ UNCHANGED <<disk, pipe, thread, wire, cli, used, lost, faults, lossy>>

CallFails ==
    /\ disp.at = "call"
    /\ executed' \in {executed, executed \cup {Current.uuid}}
    /\ Skip
    /\ UNCHANGED <<disk, pipe, thread, wire, cli, used, lost, faults, lossy>>

(* Fault: the line is marked when the file is created. *)
OpenRepDone ==
    /\ disp.at = "open"
    /\ rep' = [rep EXCEPT ![Current.uuid] = "empty"]
    /\ Mark
    /\ UNCHANGED <<req, queue, pipe, thread, wire, cli, used, rest>>

(* s_zmsg_save of the reply: the file is there before its content is. *)
OpenRep ==
    /\ disp.at = "open"
    /\ rep' = [rep EXCEPT ![Current.uuid] = "empty"]
    /\ Step("write")
    /\ UNCHANGED <<req, queue, pipe, thread, wire, cli, used, rest>>

(* A file removed meanwhile stays removed. *)
WriteRep ==
    /\ disp.at = "write"
    /\ rep' = [rep EXCEPT ![Current.uuid] = IF @ = None THEN None ELSE "written"]
    /\ Mark
    /\ UNCHANGED <<req, queue, pipe, thread, wire, cli, used, rest>>

(* The file does not open, or does not take the reply.  s_zmsg_save never  *)
(* asks the second, its caller neither: the line is marked.                *)
RepFails ==
    /\ disp.at \in {"open", "write"}
    /\ Lose({<<"rep", Current.uuid>>})
    /\ Mark
    /\ UNCHANGED <<disk, pipe, thread, wire, cli, used>>

(* The queue file is truncated, *)
Commit ==
    /\ disp.at = "commit"
    /\ queue' = <<>>
    /\ Step("rewrite")
    /\ UNCHANGED <<req, rep, pipe, thread, wire, cli, used, rest>>

(* or cannot be opened: the program ends. *)
CommitFails ==
    /\ disp.at = "commit"
    /\ Die /\ Fault

(* Fault: only what is done is written. *)
RewriteDone ==
    /\ disp.at = "rewrite"
    /\ queue' = SelectSeq(disp.lines, LAMBDA l : l.mark = "+")
    /\ disp' = Polling
    /\ UNCHANGED <<req, rep, pipe, thread, wire, cli, used, rest>>

(* and written anew, *)
Rewrite ==
    /\ disp.at = "rewrite"
    /\ queue' = disp.lines
    /\ disp' = Polling
    /\ UNCHANGED <<req, rep, pipe, thread, wire, cli, used, rest>>

(* or as much of it as the disk takes. *)
RewriteFails ==
    /\ disp.at = "rewrite"
    /\ \E n \in 0 .. Len(disp.lines) - 1 :
         /\ queue' = SubSeq(disp.lines, 1, n)
         /\ Lose({<<"queue", disp.lines[k].uuid>> : k \in n + 1 .. Len(disp.lines)})
    /\ disp' = Polling
    /\ UNCHANGED <<req, rep, pipe, thread, wire, cli, used>>

Dispatch ==
    \/ Wake \/ AppendFails \/ NextLine \/ LoadRequest \/ LoadRequestFails
    \/ CallSucceeds \/ CallFails \/ OpenRep \/ WriteRep \/ RepFails
    \/ Commit \/ CommitFails \/ Rewrite \/ RewriteFails

-----------------------------------------------------------------------------
(* The client's program. *)
Outdated(m, c) == IF m.by = c THEN [m EXCEPT !.live = FALSE] ELSE m

(* The call is sent, on a new socket if it was sent before: replies to     *)
(* earlier sendings are not heard.  Two outdated sendings of a call count  *)
(* as one.                                                                 *)
Send(c, tries) ==
    /\ wire' = {Outdated(m, c) : m \in wire}
               \cup {[to |-> cli[c].at, by |-> c, uuid |-> cli[c].uuid, live |-> TRUE]}
    /\ thread' = [t \in Threads |-> IF thread[t] = Idle THEN Idle
                                    ELSE [thread[t] EXCEPT !.call = Outdated(@, c)]]
    /\ cli' = [cli EXCEPT ![c].tries = tries, ![c].answer = NoReply]
    /\ UNCHANGED <<disk, pipe, disp, used, rest>>

Call(c) ==
    /\ cli[c].at \in Threads /\ cli[c].tries = 0
    /\ Send(c, Tries)

Retry(c) ==
    /\ cli[c].tries > 1 /\ cli[c].answer = NoReply
    /\ Send(c, cli[c].tries - 1)

(* No reply at all: the program exits. *)
GiveUp(c) ==
    /\ cli[c].tries = 1 /\ cli[c].answer = NoReply
    /\ wire' = {Outdated(m, c) : m \in wire}
    /\ thread' = [t \in Threads |-> IF thread[t] = Idle THEN Idle
                                    ELSE [thread[t] EXCEPT !.call = Outdated(@, c)]]
    /\ cli' = [cli EXCEPT ![c].tries = 0, ![c].at = "gone"]
    /\ UNCHANGED <<disk, pipe, disp, used, rest>>

(* s_service_call returns: 300 means to come back later, 400 is fatal. *)
Return(c) ==
    LET a == cli[c].answer
        d == [cli[c] EXCEPT !.tries = 0, !.answer = NoReply]
    IN  /\ a # NoReply
        /\ cli' = [cli EXCEPT ![c] =
             IF a.status = "400" THEN [d EXCEPT !.at = "gone"]
             ELSE IF a.status = "300" THEN d
             ELSE CASE d.at = "request" -> [d EXCEPT !.at = "reply", !.uuid = a.uuid]
                    [] d.at = "reply"   -> [d EXCEPT !.at = "close", !.result = a.body]
                    [] d.at = "close"   -> [d EXCEPT !.at = "end"]]
        /\ UNCHANGED <<disk, pipe, thread, disp, wire, used, rest>>

Client(c) == Call(c) \/ Retry(c) \/ GiveUp(c) \/ Return(c)

Next == Services \/ Dispatch \/ Crash \/ \E c \in Clients : Client(c)

(* The dispatcher goes on, and the service does not fail it forever. *)
Fairness ==
    /\ WF_vars(Wake \/ AppendFails \/ NextLine \/ LoadRequest \/ LoadRequestFails
               \/ OpenRep \/ WriteRep \/ RepFails
               \/ Commit \/ CommitFails \/ Rewrite \/ RewriteFails)
    /\ SF_vars(CallSucceeds)

Spec == Init /\ [][Next]_vars /\ Fairness

-----------------------------------------------------------------------------
(* Properties. *)

(* A client that was told its request is accepted finds it on the disk     *)
(* until it closes it, whoever crashes, so it is never told that there is  *)
(* no such request; and it is told 200 for a reply only after the service  *)
(* has executed it.                                                        *)
Truthful ==
    \A c \in Clients :
        /\ cli[c].at = "reply" => cli[c].uuid \in req /\ cli[c].answer.status # "400"
        /\ cli[c].result # None => cli[c].uuid \in executed

(* A request marked as done in the queue has its reply on the disk, whole, *)
(* or has been closed.  The one other way to be skipped is that the disk   *)
(* did not take the reply, which s_service_success does not ask: no crash, *)
(* and no order of the threads' steps, adds another.                       *)
DoneIsDone ==
    \A k \in DOMAIN queue : queue[k].mark = "+" =>
        \/ rep[queue[k].uuid] = "written" \/ queue[k].uuid \notin req
        \/ <<"rep", queue[k].uuid>> \in lost

(* While the process lives, a closed request has left nothing on the disk. *)
ClosedIsGone ==
    \A c \in Clients : cli[c].at = "end" /\ ~lossy =>
        cli[c].uuid \notin req /\ rep[cli[c].uuid] = None

(* While the process lives, what a client was told is accepted is carried  *)
(* out, and its reply kept, unless the client closes it first, or the disk *)
(* did not take one of the three writes of it: of its request, of its line *)
(* in the queue, or of its reply.                                          *)
Completed ==
    \A u \in Uuids :
        (\E c \in Clients : cli[c].uuid = u) ~>
            \/ rep[u] = "written" \/ u \notin req
            \/ lossy \/ \E kind \in Kinds : <<kind, u>> \in lost
=============================================================================

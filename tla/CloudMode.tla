------------------------------ MODULE CloudMode ------------------------------
(***************************************************************************)
(* One client in and out of the cloud: the cloud_mode flag, the heartbeats *)
(* that set it and the silence that clears it, and what the client's three *)
(* threads do with it: the heartbeat thread subscribes to the lists held,  *)
(* the main thread sends its requests, (un)subscribes and waits for a      *)
(* reply, the update listener stores what is published.                    *)
(*                                                                         *)
(*   client    src/src/client/majClient.cpp, src/src/client/main.cpp       *)
(*   broker    src/src/broker/majBroker.cpp: the list of clients and their *)
(*             heartbeats, the envelopes of requests and replies           *)
(*   workers   as far as a request and its replies go                      *)
(*                                                                         *)
(* Time goes in ticks, Interval of them to the 2500 ms that both are the   *)
(* heartbeat interval, its expiry and the timeout of a poll.  A tick waits *)
(* for the client's threads (they are fast, and a poll returns on time);   *)
(* the network and the broker take as long as they like.                   *)
(***************************************************************************)
EXTENDS Integers, Sequences, Envelopes

LOCAL INSTANCE SequencesExt

CONSTANTS
    Lists,      \* urls of shopping lists
    Me,         \* the client's identity at the broker's sockets
    Worker,     \* the identity of a worker
    Interval,   \* ticks of m_heartbeat, m_timeout, the expiry, the broker's interval
    MaxAsked,   \* bound: requests made altogether
    MaxSubs,    \* bound: this many subscriptions to a list, or more
    MaxLag,     \* bound: ticks a time to send at is past, or more
    Fan         \* workers a request may be passed on to

ASSUME CloudAssumption ==
    /\ Lists # {}
    /\ Interval \in Nat \ {0}
    /\ MaxAsked \in Nat /\ MaxSubs \in Nat \ {0} /\ Fan \in Nat /\ MaxLag \in Nat
    /\ Me # Delimiter

VARIABLES
    mode,       \* cloud_mode
    last,       \* last_cloud_mode of listenForHeartBeats
    expiresIn,  \* ticks until n_heartbeat_expiry, 0 when it is past
    sendIn,     \* ticks until m_heartbeat_at, negative when it is past
    hbPc,       \* where the heartbeat thread is
    hbLeft,     \* ticks until its poll times out
    mainPc,     \* where the main thread is
    mainLeft,   \* ticks until its poll times out
    choice,     \* the menu choice made and the url given
    held,       \* the lists in the local database
    subs,       \* list -> subscriptions of the SUB socket (ZMQ counts them)
    pending,    \* lists with a publication at the SUB socket
    inbox,      \* replies at the m_client socket
    asked,      \* requests made so far
    wire,       \* messages on their way from m_client to the broker
    up,         \* the broker process runs
    waiting,    \* its m_waiting is not empty
    registered, \* the client is in its m_client_senders
    beatIn,     \* ticks until its heartbeat_at_client, negative when past
    beat,       \* a heartbeat is on its way to the client
    silence,    \* history: ticks since the client took a heartbeat
    unfollowed  \* history: lists a deletion, or a change of mode the heartbeat
                \* thread missed, may have left without subscription

clock == <<expiresIn, sendIn>>
hb == <<last, hbPc, hbLeft>>
main == <<mainPc, mainLeft, choice, asked>>
db == <<held, subs, pending>>
cloud == <<up, waiting, registered, beatIn>>
vars == <<mode, clock, hb, main, db, inbox, wire, beat, cloud, silence, unfollowed>>

Other == <<"other", CHOOSE l \in Lists : TRUE>>

MenuChoices == {"create", "get", "update", "delete", "other"}

TypeOK ==
    /\ mode \in BOOLEAN /\ last \in BOOLEAN
    /\ expiresIn \in 0 .. Interval
    /\ sendIn \in -MaxLag .. 2 * Interval
    /\ hbPc \in {"poll", "compare", "assign", "act"}
    /\ hbLeft \in 0 .. Interval
    /\ mainPc \in {"menu", "decide", "recv", "expire"}
    /\ mainLeft \in 0 .. Interval
    /\ choice \in MenuChoices \X Lists
    /\ held \subseteq Lists
    /\ subs \in [Lists -> 0 .. MaxSubs]
    /\ pending \subseteq Lists
    /\ asked \in 0 .. MaxAsked
    /\ up \in BOOLEAN /\ waiting \in BOOLEAN /\ registered \in BOOLEAN /\ beat \in BOOLEAN
    /\ beatIn \in -MaxLag .. Interval
    /\ silence \in 0 .. Interval + 1
    /\ unfollowed \subseteq Lists

(* n_heartbeat_expiry starts with whatever was in its memory. *)
Init ==
    /\ mode = FALSE /\ last = FALSE
    /\ expiresIn \in 0 .. Interval
    /\ sendIn = Interval
    /\ hbPc = "poll" /\ hbLeft = Interval
    /\ mainPc = "menu" /\ mainLeft = 0
    /\ choice = Other
    /\ asked = 0
    /\ held \in SUBSET Lists
    /\ subs = [l \in Lists |-> 0]
    /\ pending = {}
    /\ inbox = <<>> /\ wire = <<>>
    /\ up = TRUE /\ waiting = FALSE /\ registered = FALSE
    /\ beatIn = Interval /\ beat = FALSE
    /\ silence = Interval + 1
    /\ unfollowed = {}

-----------------------------------------------------------------------------
(* zmq's subscribe and unsubscribe options: of two subscriptions to one    *)
(* topic, one is left after an unsubscription.                             *)
Subscribe(L) ==
    /\ subs' = [l \in Lists |-> IF l \in L /\ subs[l] < MaxSubs THEN subs[l] + 1 ELSE subs[l]]
    /\ unfollowed' = unfollowed \ L

(* Fault: one subscription is taken off where there is none. *)
UnsubscribeAnyway(l) ==
    /\ subs' = [subs EXCEPT ![l] = @ - 1]
    /\ unfollowed' = unfollowed \cup {l}

Unsubscribe(l) ==
    /\ \E n \in 0 .. MaxSubs :
          /\ n = subs[l] - 1 \/ (n = subs[l] /\ n \in {0, MaxSubs})
          /\ subs' = [subs EXCEPT ![l] = n]
    /\ unfollowed' = unfollowed \cup {l}

(* The end of recv and of recv_heartbeat when the poll timed out: send     *)
(* HEARTBEAT when it is time.  m_heartbeat_at is added to by both threads, *)
(* unprotected: both may find it in the past and both add to it.  A second *)
(* heartbeat under way adds nothing.                                       *)
SendIfDue(bothOut) ==
    IF sendIn > 0 THEN UNCHANGED <<sendIn, wire>>
    ELSE /\ \E k \in IF bothOut THEN {1, 2} ELSE {1} : sendIn' = sendIn + k * Interval
         /\ wire' = IF HeartbeatFrames \in ToSet(wire) THEN wire
                    ELSE Append(wire, HeartbeatFrames)

-----------------------------------------------------------------------------
(* The heartbeat thread: recv_heartbeat ... *)
TakeHeartbeat ==
    /\ hbPc = "poll"
    /\ beat
    /\ beat' = FALSE
    /\ expiresIn' = Interval
    /\ mode' = TRUE
    /\ hbPc' = "compare"
    /\ silence' = 0
    /\ UNCHANGED <<sendIn, last, hbLeft, main, db, inbox, wire, cloud, unfollowed>>

(* Fault: only recv checks the expiry. *)
PollOutUnchecked ==
    /\ hbPc = "poll" /\ hbLeft = 0
    /\ SendIfDue(mainPc = "recv" /\ mainLeft = 0)
    /\ hbPc' = "compare"
    /\ UNCHANGED <<mode, expiresIn, last, hbLeft, main, db, inbox, beat, cloud, silence, unfollowed>>

(* Fault: the client never tells the broker that it is there. *)
PollOutUnannounced ==
    /\ hbPc = "poll" /\ hbLeft = 0
    /\ mode' = (mode /\ expiresIn > 0)
    /\ hbPc' = "compare"
    /\ UNCHANGED <<clock, last, hbLeft, main, db, inbox, wire, beat, cloud, silence, unfollowed>>

PollOut ==
    /\ hbPc = "poll" /\ hbLeft = 0
    /\ SendIfDue(mainPc = "recv" /\ mainLeft = 0)
    /\ mode' = (mode /\ expiresIn > 0)
    /\ hbPc' = "compare"
    /\ UNCHANGED <<expiresIn, last, hbLeft, main, db, inbox, beat, cloud, silence, unfollowed>>

(* ... then listenForHeartBeats, which reads cloud_mode three times.       *)
Compare ==
    /\ hbPc = "compare"
    /\ IF last # mode THEN hbPc' = "assign" /\ UNCHANGED hbLeft
       ELSE hbPc' = "poll" /\ hbLeft' = Interval
    /\ UNCHANGED <<mode, clock, last, main, db, inbox, wire, beat, cloud, silence, unfollowed>>

Assign ==
    /\ hbPc = "assign"
    /\ last' = mode
    /\ hbPc' = "act"
    /\ UNCHANGED <<mode, clock, hbLeft, main, db, inbox, wire, beat, cloud, silence, unfollowed>>

(* Fault: back in the cloud, nothing is subscribed to. *)
HbActNothing ==
    /\ hbPc = "act"
    /\ hbPc' = "poll" /\ hbLeft' = Interval
    /\ UNCHANGED <<mode, clock, last, main, db, inbox, wire, beat, cloud, silence>>
    /\ unfollowed' = IF mode THEN unfollowed \cap (pending \ held) ELSE unfollowed

HbAct ==
    /\ hbPc = "act"
    /\ hbPc' = "poll" /\ hbLeft' = Interval
    /\ IF mode
       THEN /\ subs' = [l \in Lists |-> IF l \in held /\ subs[l] < MaxSubs
                                        THEN subs[l] + 1 ELSE subs[l]]
            /\ unfollowed' = unfollowed \cap (pending \ held)
       ELSE UNCHANGED <<subs, unfollowed>>
    /\ UNCHANGED <<mode, clock, last, main, held, pending, inbox, wire, beat, cloud, silence>>

-----------------------------------------------------------------------------
(* A url nothing is left of here stands for any other one, also a new one. *)
Unknown(l) == l \notin held \cup pending \cup unfollowed /\ subs[l] = 0

(* The main thread is back at the menu. *)
ToMenu == mainPc' = "menu" /\ mainLeft' = 0 /\ choice' = Other

(* The main thread: the menu, up to what a choice does to the database ... *)
Choose(kind, l) ==
    /\ mainPc = "menu"
    /\ kind \in {"create", "get", "update"} => asked < MaxAsked
    /\ \/ kind = "create" /\ Unknown(l) /\ held' = held \cup {l}
       \/ kind = "update" /\ l \in held /\ UNCHANGED held
       \/ kind = "delete" /\ held' = held \ {l}
       \/ kind \in {"get", "other"} /\ UNCHANGED held
    /\ choice' = <<kind, l>>
    /\ mainPc' = "decide"
    /\ UNCHANGED <<mode, clock, hb, mainLeft, asked, subs, pending, inbox, wire, up, waiting,
                   registered, beatIn, beat, silence, unfollowed>>

Ask(l) ==
    /\ wire' = Append(wire, RequestFrames(l))
    /\ asked' = asked + 1

(* ... the copy it takes of cloud_mode, and what it then sends and         *)
(* subscribes to; no step of another thread in between would matter.       *)
(* Choice 3 of a list that is not there does neither ...                   *)
Act ==
    LET l == choice[2] IN
    /\ mainPc = "decide"
    /\ mode
    /\ \/ choice[1] \in {"create", "get", "update"} /\ Ask(l) /\ Subscribe({l})
       \/ choice[1] = "delete" /\ Unsubscribe(l) /\ UNCHANGED <<wire, asked>>
       \/ choice[1] = "other" /\ UNCHANGED <<wire, asked, subs, unfollowed>>
    /\ mainPc' = "recv" /\ mainLeft' = Interval /\ choice' = Other
    /\ UNCHANGED <<mode, clock, hb, held, pending, inbox, beat, cloud, silence>>

Offline ==
    /\ mainPc = "decide"
    /\ ~mode
    /\ ToMenu
    /\ UNCHANGED <<mode, clock, hb, asked, db, inbox, wire, beat, cloud, silence, unfollowed>>

(* ... and recv: one reply, if there is one, whatever it replies to ...    *)
Recv ==
    /\ mainPc = "recv"
    /\ inbox # <<>>
    /\ inbox' = Tail(inbox)
    /\ ToMenu
    /\ UNCHANGED <<mode, clock, hb, asked, db, wire, beat, cloud, silence,
                   unfollowed>>

RecvOut ==
    /\ mainPc = "recv" /\ mainLeft = 0
    /\ SendIfDue(hbPc = "poll" /\ hbLeft = 0)
    /\ mainPc' = IF expiresIn = 0 THEN "expire" ELSE "menu"
    /\ UNCHANGED <<mode, expiresIn, hb, mainLeft, choice, asked, db, inbox, beat, cloud,
                   silence, unfollowed>>

(* ... which clears cloud_mode some time after it found it expired: a      *)
(* heartbeat taken in between counts for nothing, and the heartbeat thread *)
(* may see no change of mode at all.                                       *)
Expire ==
    /\ mainPc = "expire"
    /\ mode' = FALSE
    /\ unfollowed' = IF mode THEN Lists ELSE unfollowed
    /\ ToMenu
    /\ UNCHANGED <<clock, hb, asked, db, inbox, wire, beat, cloud, silence>>

(* The update listener: updateList stores what it receives. *)
Store(l) ==
    /\ l \in pending
    /\ pending' = pending \ {l}
    /\ held' = held \cup {l}
    /\ UNCHANGED <<mode, clock, hb, main, subs, inbox, wire, beat, cloud, silence, unfollowed>>

-----------------------------------------------------------------------------
(* What reaches the client of a worker's reply. *)
Reply(replyTo, text) ==
    RouterOut(Forwarded(RouterIn(Worker, WorkerReplies(replyTo, text))))

(* The replies to the request r that a worker gets: it handles it, or      *)
(* passes it on to n others (mdwrk::recv, distribute_work), or both; each  *)
(* of them replies, unless all ended before they could.                    *)
Replies(r) ==
    LET pulled == PassedOn(ReplyTo(r), Work(r))
        own == Reply(ReplyTo(r), Handle(Work(r)))
    IN  {<<>>} \cup {<<own>> \o [k \in 1 .. n |-> Reply(ReplyTo(pulled), Handle(PulledWork(pulled)))] :
                        n \in 0 .. Fan}

Requests == {RequestFrames(l) : l \in Lists}

(* What the client may get for each request it sends. *)
RepliesTo == [m \in Requests |-> Replies(BrokerSends(Worker, Queued(RouterIn(Me, m))))]

(* The broker: client_process.  Queueing, dispatching and the workers are  *)
(* the subject of Broker; here a request is answered in the step that      *)
(* takes it, which may come late.                                          *)
ClientProcess ==
    /\ up
    /\ wire # <<>>
    /\ wire' = Tail(wire)
    /\ IF ServiceOf(RouterIn(Me, Head(wire))) = "HEARTBEAT"
       THEN registered' = TRUE /\ UNCHANGED inbox
       ELSE /\ \E replies \in RepliesTo[Head(wire)] : inbox' = inbox \o replies
            /\ UNCHANGED registered
    /\ UNCHANGED <<mode, clock, hb, main, db, up, waiting, beatIn, beat, silence,
                   unfollowed>>

(* Heartbeats to clients, only while some worker waits; what was not sent  *)
(* meanwhile is caught up with.  Two under way count as one.               *)
Beat ==
    /\ up /\ waiting
    /\ beatIn <= 0
    /\ beatIn' = beatIn + Interval
    /\ beat' = (beat \/ registered)
    /\ UNCHANGED <<mode, clock, hb, main, db, inbox, wire, up, waiting, registered,
                   silence, unfollowed>>

(* A worker starts or is done; the last one waiting gets work or ends.     *)
WorkersChange ==
    /\ up
    /\ waiting' = ~waiting
    /\ UNCHANGED <<mode, clock, hb, main, db, inbox, wire, up, registered, beatIn,
                   beat, silence, unfollowed>>

Crash ==
    /\ up
    /\ up' = FALSE /\ waiting' = FALSE /\ registered' = FALSE
    /\ \E k \in 0 .. Len(wire) : wire' = SubSeq(wire, k + 1, Len(wire))
    /\ UNCHANGED <<mode, clock, hb, main, db, inbox, beatIn, beat, silence,
                   unfollowed>>

Boot ==
    /\ ~up
    /\ up' = TRUE
    /\ beatIn' = Interval
    /\ UNCHANGED <<mode, clock, hb, main, db, inbox, wire, waiting, registered,
                   beat, silence, unfollowed>>

-----------------------------------------------------------------------------
(* A worker publishes a list, at a request of this client or of another.   *)
Publish(l) ==
    /\ up
    /\ subs[l] > 0
    /\ pending' = pending \cup {l}
    /\ UNCHANGED <<mode, clock, hb, main, held, subs, inbox, wire, up, waiting, registered,
                   beatIn, beat, silence, unfollowed>>

Tick ==
    /\ hbPc = "poll" /\ hbLeft > 0
    /\ mainPc = "menu" \/ (mainPc = "recv" /\ mainLeft > 0 /\ inbox = <<>>)
    /\ hbLeft' = hbLeft - 1
    /\ mainLeft' = IF mainPc = "recv" THEN mainLeft - 1 ELSE mainLeft
    /\ expiresIn' = IF expiresIn > 0 THEN expiresIn - 1 ELSE 0
    /\ sendIn' = IF sendIn > -MaxLag THEN sendIn - 1 ELSE sendIn
    /\ beatIn' = IF beatIn > -MaxLag THEN beatIn - 1 ELSE beatIn
    /\ silence' = IF silence <= Interval THEN silence + 1 ELSE silence
    /\ UNCHANGED <<mode, last, hbPc, mainPc, choice, asked, db, inbox, wire, up, waiting,
                   registered, beat, unfollowed>>

-----------------------------------------------------------------------------
HeartbeatThread == TakeHeartbeat \/ PollOut \/ Compare \/ Assign \/ HbAct

MainThread == Act \/ Offline \/ Recv \/ RecvOut \/ Expire

Next ==
    \/ HeartbeatThread \/ MainThread
    \/ ClientProcess \/ Beat \/ WorkersChange \/ Crash \/ Boot \/ Tick
    \/ \E l \in Lists : Store(l) \/ Publish(l) \/ \E kind \in MenuChoices : Choose(kind, l)

(* The client's threads run, a heartbeat under way arrives, the broker     *)
(* keeps polling, and time passes: no one does infinitely much in no time. *)
(* The user, the workers and the other users owe nothing.                  *)
Spec ==
    /\ Init
    /\ [][Next]_vars
    /\ WF_vars(HeartbeatThread) /\ SF_vars(TakeHeartbeat) /\ WF_vars(MainThread)
    /\ WF_vars(ClientProcess) /\ WF_vars(Beat) /\ SF_vars(Tick)

-----------------------------------------------------------------------------
(* Properties. *)

(* Cloud mode is never on longer than the 2500 ms after the last heartbeat *)
(* that n_heartbeat_expiry allows: the poll of recv_heartbeat always       *)
(* returns in time to see the expiry.                                      *)
OffWhenSilent == mode => silence <= Interval

(* In cloud mode the client is subscribed to every list it holds, also to  *)
(* those created or received out of it (listenForHeartBeats subscribes to  *)
(* all on every change to cloud mode), except those deleted before and, if *)
(* the main thread cleared cloud_mode, all until the next change.          *)
HeldFollowed ==
    mode /\ last /\ hbPc = "poll" /\ mainPc = "menu" =>
        \A l \in held \ unfollowed : subs[l] > 0

(* Every reply reaches the client in the form mdcli::recv asserts, with    *)
(* the text a worker replied and nothing left of the envelopes, however    *)
(* many workers the request was passed through.                            *)
RepliesIntact ==
    \A k \in DOMAIN inbox :
        /\ WellFormed(inbox[k])
        /\ Received(inbox[k]) = <<"reply">>

(* While the broker runs and some worker waits, the client comes back to   *)
(* cloud mode again and again, after any crash of the broker and any race  *)
(* of the two threads that clear the flag.                                 *)
ModeRecovers == <>[](up /\ waiting) => []<>mode

(* With the broker gone, or all workers busy for good, cloud mode ends.    *)
SilentCloud == <>[](~up \/ ~waiting) => <>[](~mode)

-----------------------------------------------------------------------------
(* The inductive invariant behind OffWhenSilent and HeldFollowed. *)

(* In cloud mode, the poll under way ends when the heartbeat expires. *)
ClockInv ==
    mode => /\ silence + expiresIn = Interval
            /\ IF hbPc = "poll" THEN hbLeft = expiresIn ELSE expiresIn = Interval

Followed(l) ==
    subs[l] > 0 \/ l \in unfollowed \/ (mainPc = "decide" /\ choice = <<"create", l>>)

(* The heartbeat thread misses no change of mode but the main thread's.    *)
FollowInv ==
    /\ \A l \in pending : subs[l] > 0 \/ l \in unfollowed
    /\ hbPc = "assign" => ~(last /\ mode)
    /\ hbPc \in {"poll", "act"} /\ last /\ ~mode => unfollowed = Lists
    /\ hbPc \in {"poll", "compare"} /\ last /\ mode => \A l \in held : Followed(l)
=============================================================================

------------------------------ MODULE BinaryStar ------------------------------
(***************************************************************************)
(* The Binary Star example (src/src/zmq/bstarsrv.cpp, bstarcli.cpp): two   *)
(* servers that tell each other their states, so that one is active, and   *)
(* clients that turn to the other server when one does not answer.         *)
(*                                                                         *)
(* A server that ends loses what it has not read; what it has sent may     *)
(* still arrive.  PUB drops what it sends to a peer that is not there.     *)
(*                                                                         *)
(* Prompt is an assumption about time: a state is read less than half a    *)
(* HEARTBEAT after it was sent.  With the times of the code (a server      *)
(* sends every HEARTBEAT, first one HEARTBEAT after it started, lines 156  *)
(* and 201; the peer expires after two, line 193) it leaves three marks:   *)
(*  - a state has been read when the next one goes out;                    *)
(*  - before a server's first word there was a moment at which nothing was *)
(*    on its way: what it said in a former life is read in the first half  *)
(*    of that HEARTBEAT, what the peer said before that in the second;     *)
(*  - a peer expires only when it is gone and all it said has been read,   *)
(*    or when nothing of it was heard since it started again.              *)
(***************************************************************************)
EXTENDS Naturals, Sequences

CONSTANTS
    Clients,
    Prompt,    \* TRUE: states are read within half a HEARTBEAT
    MaxSaid    \* bound: states on their way to a server

Servers == {"primary", "backup"}

Peer(s) == IF s = "primary" THEN "backup" ELSE "primary"

(* state_t; a server starts in the state of its name. *)
States == {"primary", "backup", "active", "passive"}

VARIABLES
    state,     \* server -> m_state, or "down"
    said,      \* server -> states of its peer in its SUB socket
    silent,    \* servers whose m_peer_expiry is over
    restless,  \* history: since they started something has been on its way
    unheard,   \* history: servers of which nothing was heard since they
               \* started, when all they had said before was read
    requests,  \* requests that may yet reach a server
    at,        \* client -> the server it is connected to
    waits      \* clients that expect a reply

vars == <<state, said, silent, restless, unheard, requests, at, waits>>
history == <<restless, unheard>>

(* live: the socket it was sent on is still the client's. *)
Requests == [by : Clients, to : Servers, live : BOOLEAN]

TypeOK ==
    /\ state \in [Servers -> States \cup {"down"}]
    /\ said \in [Servers -> Seq(States)]
    /\ silent \subseteq Servers /\ restless \subseteq Servers /\ unheard \subseteq Servers
    /\ requests \subseteq Requests
    /\ at \in [Clients -> Servers]
    /\ waits \subseteq Clients

Init ==
    /\ state = [s \in Servers |-> "down"]
    /\ said = [s \in Servers |-> <<>>]
    /\ silent = {} /\ restless = {} /\ unheard = {}
    /\ requests = {}
    /\ at = [c \in Clients |-> "primary"]
    /\ waits = {}

Down(s) == state[s] = "down"

(* Nothing is on its way. *)
Hushed == \A s \in Servers : said[s] = <<>>

-----------------------------------------------------------------------------
(* A server. *)
Start(s) ==
    /\ Down(s)
    /\ state' = [state EXCEPT ![s] = s]
    /\ restless' = IF Hushed THEN {} ELSE restless \cup {s}
    /\ unheard' = IF said[Peer(s)] = <<>> THEN unheard \cup {s} ELSE unheard
    /\ UNCHANGED <<said, silent, requests, at, waits>>

(* It ends: what is on its way to it is lost, or some of it. *)
End(s) ==
    /\ state' = [state EXCEPT ![s] = "down"]
    /\ said' = [said EXCEPT ![s] = <<>>]
    /\ silent' = silent \ {s}
    /\ \E lost \in SUBSET {m \in requests : m.to = s} : requests' = requests \ lost
    /\ restless' = IF Hushed' THEN {} ELSE restless
    /\ UNCHANGED <<unheard, at, waits>>

Crash(s) == ~Down(s) /\ End(s)

(* Its state goes out, every HEARTBEAT. *)
SendState(s) ==
    /\ ~Down(s) /\ ~Down(Peer(s))
    /\ Len(said[Peer(s)]) < MaxSaid
    /\ Prompt => said[Peer(s)] = <<>> /\ s \notin restless
    /\ said' = [said EXCEPT ![Peer(s)] = Append(@, state[s])]
    /\ UNCHANGED <<state, silent, history, requests, at, waits>>

(* Two HEARTBEATs without a word of the peer. *)
Expire(s) ==
    /\ ~Down(s)
    /\ Prompt => Peer(s) \in unheard \/ (Down(Peer(s)) /\ said[s] = <<>>)
    /\ silent' = silent \cup {s}
    /\ UNCHANGED <<state, said, history, requests, at, waits>>

(* The state machine on a state p of the peer: the next state, *)
Turned(s, p) ==
    CASE state[s] = "primary" /\ p = "backup"                -> "active"
      [] state[s] \in {"primary", "backup"} /\ p = "active"  -> "passive"
      [] state[s] = "passive" /\ p \in {"primary", "backup"} -> "active"
      [] OTHER                                               -> state[s]

(* or the end: dual actives, dual passives. *)
Fatal(s) == state[s] \in {"active", "passive"} /\ Head(said[s]) = state[s]

Hear(s) ==
    /\ ~Down(s) /\ said[s] # <<>> /\ ~Fatal(s)
    /\ state' = [state EXCEPT ![s] = Turned(s, Head(said[s]))]
    /\ said' = [said EXCEPT ![s] = Tail(@)]
    /\ silent' = silent \ {s}
    /\ restless' = IF Hushed' THEN {} ELSE restless
    /\ unheard' = unheard \ {Peer(s)}
    /\ UNCHANGED <<requests, at, waits>>

HearFatal(s) ==
    /\ ~Down(s) /\ said[s] # <<>> /\ Fatal(s)
    /\ End(s)

(* The state machine on a client's request: a passive server takes over    *)
(* when its peer is silent.                                                *)
Accepts(s) == state[s] \in {"primary", "active"} \/ (state[s] = "passive" /\ s \in silent)

Serve(s, m) ==
    /\ ~Down(s) /\ m \in requests /\ m.to = s
    /\ requests' = requests \ {m}
    /\ state' = IF state[s] = "passive" /\ s \in silent THEN [state EXCEPT ![s] = "active"] ELSE state
    /\ waits' = IF Accepts(s) /\ m.live THEN waits \ {m.by} ELSE waits
    /\ UNCHANGED <<said, silent, history, at>>

Server(s) ==
    \/ Start(s) \/ Crash(s) \/ SendState(s) \/ Expire(s) \/ Hear(s) \/ HearFatal(s)
    \/ \E m \in requests : Serve(s, m)

-----------------------------------------------------------------------------
(* A client. *)
Outdated(m, c) == IF m.by = c THEN [m EXCEPT !.live = FALSE] ELSE m

Send(c, s) ==
    /\ requests' = {Outdated(m, c) : m \in requests} \cup {[by |-> c, to |-> s, live |-> TRUE]}
    /\ at' = [at EXCEPT ![c] = s]
    /\ waits' = waits \cup {c}
    /\ UNCHANGED <<state, said, silent, history>>

(* The next request, once the last one is answered. *)
Request(c) == c \notin waits /\ Send(c, at[c])

(* No answer in time. *)
FailOver(c) == c \in waits /\ Send(c, Peer(at[c]))

Next ==
    \/ \E s \in Servers : Server(s)
    \/ \E c \in Clients : Request(c) \/ FailOver(c)

Spec == Init /\ [][Next]_vars

-----------------------------------------------------------------------------
(* The two servers are never active together.  (Without Prompt they are:   *)
(* the passive one takes over from a peer that is slow, line 92 of         *)
(* bstarsrv.cpp, and the peer hears of it only later; or words of a life   *)
(* that is over are taken for the peer's state.)                           *)
OneActive == ~ \A s \in Servers : state[s] = "active"

(* No server meets a state of its peer that makes it end: the "dual        *)
(* actives" and "dual passives" of lines 69 and 84.                        *)
NeverFatal == \A s \in Servers : ~Down(s) /\ said[s] # <<>> => ~Fatal(s)
=============================================================================

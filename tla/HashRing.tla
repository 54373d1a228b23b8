------------------------------ MODULE HashRing ------------------------------
(***************************************************************************)
(* The consistent hashing of src/src/server/consistent_hashing.cpp and the *)
(* choice of workers made from it in src/src/worker/majWorker.cpp.  Pure   *)
(* operators, no state.                                                    *)
(*                                                                         *)
(* A ring is the set of servers in it: ConsistentHashing::ring maps the    *)
(* hash of each server to the server, and ConsistentHashing::servers lists *)
(* the same ones (addServer adds to both, updateCH replaces both,          *)
(* removeServer is never called).                                          *)
(***************************************************************************)
EXTENDS Integers, FiniteSets, Sequences

LOCAL INSTANCE SequencesExt

CONSTANTS
    Servers,           \* pull addresses of workers
    Lists,             \* urls of shopping lists
    Position,          \* generateHash, of servers and lists
    NumberOfReplicas   \* mdwrk::numberOfReplicas

(* Two servers with one hash would share an entry of the map. *)
ASSUME PositionAssumption ==
    /\ Position \in [Servers \cup Lists -> Nat]
    /\ \A s, t \in Servers : Position[s] = Position[t] => s = t

ASSUME ReplicasAssumption == NumberOfReplicas \in Nat

ASSUME ServersAssumption == IsFiniteSet(Servers)

(* The first server of S: its begin(). *)
First(S) == CHOOSE s \in S : \A t \in S : Position[s] <= Position[t]

(* lower_bound(p) of the map, going on at begin() past the end. *)
AtOrAfter(ring, p) ==
    LET after == {s \in ring : Position[s] >= p} IN
    IF after # {} THEN First(after) ELSE First(ring)

GetServer(ring, list) == AtOrAfter(ring, Position[list])

(* Fault: lower_bound is taken for the one after. *)
GetNextServerNotNext(ring, server) == AtOrAfter(ring, Position[server])

(* std::next of lower_bound, going on at begin(). *)
GetNextServer(ring, server) ==
    LET at == AtOrAfter(ring, Position[server])
        beyond == {s \in ring : Position[s] > Position[at]}
    IN  IF beyond # {} THEN First(beyond) ELSE First(ring)

(* One turn of the loop of distribute_work.  When the next server is       *)
(* already a target the code breaks off; the turns left then change        *)
(* nothing.                                                                *)
AddTarget(ring, targets) ==
    LET next == GetNextServer(ring, Last(targets)) IN
    IF next \in ToSet(targets) THEN targets ELSE Append(targets, next)

(* The workers a request is for: the list's server and the ones after it. *)
DistributeWork(ring, list) ==
    LET targets[n \in 0 .. NumberOfReplicas] ==
            IF n = 0 THEN <<GetServer(ring, list)>> ELSE AddTarget(ring, targets[n - 1])
    IN  targets[NumberOfReplicas]

-----------------------------------------------------------------------------
(* What distribute_work is for: the servers first met clockwise from the   *)
(* list, one more than there are replicas, or all of them.                 *)

(* How many servers of the ring are met before s. *)
Rank(ring, list, s) ==
    Cardinality({t \in ring :
        IF Position[s] >= Position[list]
        THEN Position[list] <= Position[t] /\ Position[t] < Position[s]
        ELSE Position[t] >= Position[list] \/ Position[t] < Position[s]})

Preference(ring, list) ==
    LET n == IF Cardinality(ring) <= NumberOfReplicas
             THEN Cardinality(ring) ELSE NumberOfReplicas + 1
    IN  [k \in 1 .. n |-> CHOOSE s \in ring : Rank(ring, list, s) = k - 1]
=============================================================================

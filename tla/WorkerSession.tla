---------------------------- MODULE WorkerSession ----------------------------
(***************************************************************************)
(* What a worker makes of a broker that has gone silent: the counter       *)
(* m_liveness of mdwrk::recv (src/src/worker/majWorker.cpp).               *)
(*                                                                         *)
(* One step is one turn of the loop of recv: a poll that lasts up to a     *)
(* heartbeat interval, and what it brought.  m_liveness is a size_t, and a *)
(* turn in which no other worker's message came takes two off it, one in   *)
(* each of two tests for zero, of which only the second connects again.    *)
(***************************************************************************)
EXTENDS Integers

CONSTANTS
    Modulus,    \* 2 to the number of bits of a size_t
    Liveness    \* n_heartbeat_liveness

VARIABLES
    liveness,   \* m_liveness
    turns,      \* history: such turns since m_liveness was last set
    connects    \* history: connect_to_broker was called again by recv

vars == <<liveness, turns, connects>>

TypeOK ==
    /\ liveness \in 0 .. Modulus - 1
    /\ turns \in Nat
    /\ connects \in BOOLEAN

(* connect_to_broker, the first time. *)
Init == liveness = Liveness /\ turns = 0 /\ connects = FALSE

OneLess(n) == (n - 1) % Modulus

(* The two tests, on m_liveness = n and after t such turns. *)
CountDown(n, t) ==
    LET once == OneLess(n)
        twice == OneLess(once)
        zero == once # 0 /\ twice = 0
    IN  /\ liveness' = IF once = 0 THEN 0 ELSE IF zero THEN Liveness ELSE twice
        /\ turns' = IF zero THEN 0 ELSE t + 1
        /\ connects' = (connects \/ zero)

(* Nothing came. *)
Silence == CountDown(liveness, turns)

(* The broker's message came, and none of another worker: m_liveness is    *)
(* set, then counted down in the same turn.                                *)
Heartbeat == CountDown(Liveness, 0)

(* The broker's message was a request this worker handled, which ends recv,*)
(* or another worker's message came too.                                   *)
Work == liveness' = Liveness /\ turns' = 0 /\ UNCHANGED connects

(* (A turn that brings only another worker's message changes nothing.)     *)
Next == Silence \/ Heartbeat \/ Work

Spec == Init /\ [][Next]_vars

-----------------------------------------------------------------------------
(* However long the broker is silent, up to half of what a size_t counts,  *)
(* the worker does not connect again: line 306 says "If liveness hits      *)
(* zero, queue is considered disconnected", but the count is 1, then 0 in  *)
(* the test that only logs, then wraps around.                             *)
NoReconnect == [][connects' # connects => 2 * turns > Modulus]_vars
=============================================================================

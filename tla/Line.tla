-------------------------------- MODULE Line --------------------------------
(***************************************************************************)
(* The list of workers waiting for a service, m_waiting in struct service  *)
(* of src/src/broker/majBroker.cpp and of src/src/zmq/mdbroker.cpp.  Age   *)
(* is the time since a worker's m_expiry was last set.                     *)
(***************************************************************************)
EXTENDS Integers, Sequences

(* The line after every entry of a worker of W is erased. *)
Without(line, W) ==
    LET left[n \in 0 .. Len(line)] ==
            IF n = 0 THEN <<>>
            ELSE IF line[n] \in W THEN left[n - 1] ELSE Append(left[n - 1], line[n])
    IN  left[Len(line)]

(* The place of the most recently seen worker, the first of them. *)
MostRecentOf(line, age) ==
    CHOOSE k \in DOMAIN line : \A j \in DOMAIN line :
        \/ age[line[k]] < age[line[j]]
        \/ age[line[k]] = age[line[j]] /\ k <= j
=============================================================================

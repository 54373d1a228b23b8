---------------------------- MODULE MCMajordomo ----------------------------
(***************************************************************************)
(* One worker and a client that calls it twice.  A worker's session may    *)
(* leave two identities behind beside its own, so the broker may hold one  *)
(* worker for several.                                                     *)
(***************************************************************************)
EXTENDS Majordomo

CONSTANTS w1, c1

MCIdsOf == [p \in Workers \cup Clients |-> IF p = c1 THEN {1, 2} ELSE {3, 4, 5}]
MCServiceOf == [w \in Workers |-> "echo"]
=============================================================================

----------------------------- MODULE MCTitanic -----------------------------
(***************************************************************************)
(* One client, two uuids, so that it may be given the second after it has  *)
(* sent its request again.                                                 *)
(***************************************************************************)
EXTENDS Titanic

CONSTANTS c1, c2, u1, u2, u3
=============================================================================

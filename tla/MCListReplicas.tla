--------------------------- MODULE MCListReplicas ---------------------------
(* Small instances of ListReplicas for TLC. *)
EXTENDS ListReplicas, TLC

(* Clients, workers and uuids are interchangeable: no definition names one. *)
Symmetry == Permutations(Clients) \cup Permutations(Workers) \cup Permutations(Uuids)
=============================================================================

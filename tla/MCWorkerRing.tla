---------------------------- MODULE MCWorkerRing ----------------------------
(* Small instances of WorkerRing for TLC. *)
EXTENDS WorkerRing, TLC

CONSTANTS w1, w2, w3, milkList, breadList

(* The Makefile's chain: each worker joins through the one before it. *)
ChainSeed == w1 :> NoWorker @@ w2 :> w1 @@ w3 :> w2

(* Positions on the ring, out of start order, with a list in two gaps. *)
Positions == w1 :> 2 @@ w2 :> 6 @@ w3 :> 4 @@ milkList :> 3 @@ breadList :> 7
=============================================================================

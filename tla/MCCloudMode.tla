----------------------------- MODULE MCCloudMode -----------------------------
(* A small instance of CloudMode for TLC. *)
EXTENDS CloudMode
=============================================================================

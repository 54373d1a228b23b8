----------------------------- MODULE ServiceCall -----------------------------
(***************************************************************************)
(* What the Majordomo client promises the program that calls a service:    *)
(* a call that returns does so once, with the result of an execution of    *)
(* this very call, and the service executes a call at most once per try.   *)
(* It may execute it after the call has returned, or been given up.        *)
(***************************************************************************)
EXTENDS Naturals

CONSTANTS
    Callers,
    MaxCalls,   \* calls a caller makes, one after the other
    Tries       \* how often a call is sent at most

VARIABLES
    made,   \* caller -> calls made
    got,    \* caller -> number of the call whose result it was given last
    runs    \* caller -> call -> how often it was executed

cvars == <<made, got, runs>>

Init ==
    /\ made = [c \in Callers |-> 0]
    /\ got = [c \in Callers |-> 0]
    /\ runs = [c \in Callers |-> [k \in 1 .. MaxCalls |-> 0]]

(* The next call, when the last one has returned. *)
Call(c) ==
    /\ made[c] < MaxCalls
    /\ got[c] = made[c]
    /\ made' = [made EXCEPT ![c] = @ + 1]
    /\ UNCHANGED <<got, runs>>

Run(c, k) ==
    /\ k <= made[c]
    /\ runs[c][k] < Tries
    /\ runs' = [runs EXCEPT ![c][k] = @ + 1]
    /\ UNCHANGED <<made, got>>

Return(c) ==
    /\ got[c] < made[c]
    /\ runs[c][made[c]] > 0
    /\ got' = [got EXCEPT ![c] = made[c]]
    /\ UNCHANGED <<made, runs>>

Next ==
    \E c \in Callers :
        \/ Call(c)
        \/ Return(c)
        \/ \E k \in 1 .. MaxCalls : Run(c, k)

Spec == Init /\ [][Next]_cvars
=============================================================================

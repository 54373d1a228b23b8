----------------------------- MODULE SharedList -----------------------------
(***************************************************************************)
(* What the application promises of one shopping list that is kept in many *)
(* places: edits are made, a place hears of them, and what it holds is a   *)
(* function of what it has heard.  No message, thread or clock is here.    *)
(*                                                                         *)
(* An edit sets the count that one editor contributes to one item; editors *)
(* number their edits.  A place hears of an editor's edits in their order, *)
(* and holds of every editor and item the last one it has heard of.        *)
(***************************************************************************)
EXTENDS Naturals

CONSTANTS
    Edits,      \* all possible edits: records with item, rep, seq and val
    Places,     \* where the list is kept
    Forgetful   \* places that may go back to what they had heard earlier

VARIABLES
    made,       \* the edits made so far
    heard,      \* place -> the edits it has heard of
    held        \* place -> the edits it holds

svars == <<made, heard, held>>

(* Of every editor and item the last edit in H. *)
Latest(H) ==
    {e \in H : ~ \E f \in H : f.rep = e.rep /\ f.item = e.item /\ f.seq > e.seq}

(* H leaves out no edit of an editor before another one. *)
InOrder(H) ==
    \A e \in H, f \in made : f.rep = e.rep /\ f.seq <= e.seq => f \in H

Init ==
    /\ made = {}
    /\ heard = [p \in Places |-> {}]
    /\ held = [p \in Places |-> {}]

(* Someone edits: the edit comes after all earlier ones of its editor. *)
Make(e) ==
    /\ e \in Edits
    /\ \A f \in made : f.rep = e.rep => f.seq < e.seq
    /\ made' = made \cup {e}
    /\ UNCHANGED <<heard, held>>

(* A place hears of something: what it then holds follows. *)
Hear(p, H) ==
    /\ heard' = [heard EXCEPT ![p] = H]
    /\ InOrder(H)
    /\ held' = [held EXCEPT ![p] = Latest(H)]
    /\ UNCHANGED made

(* A place hears of more edits ... *)
Learn(p, H) == Hear(p, H) /\ heard[p] \subseteq H

(* ... or drops its copy; where a process may lose what was not saved, or  *)
(* replace its copy, it may be left with less.                             *)
Forget(p, H) == Hear(p, H) /\ (H = {} \/ p \in Forgetful)

Next ==
    \/ \E e \in made' : Make(e)
    \/ \E p \in Places : \E H \in {heard'[p]} \cap SUBSET made : Learn(p, H) \/ Forget(p, H)

Spec == Init /\ [][Next]_svars
=============================================================================

---------------------------- MODULE ShoppingList ----------------------------
(***************************************************************************)
(* The shopping list data type: class ShoppingList of                      *)
(* src/src/crdt/shopping_list.h over the dotted causal counters and the    *)
(* observed-remove map of src/src/crdt/ormap.h.  Pure operators, no state. *)
(*                                                                         *)
(* A copy of the list is a record                                          *)
(*    id   the replica id under which this copy edits (ShoppingList::id),  *)
(*         NoUuid for the empty string a worker stores,                    *)
(*    vc   the version vector of the map's DotContext; an id the C++ map   *)
(*         does not hold has the value 0,                                  *)
(*    map  the ORMap flattened to a set of entries: the entry              *)
(*         [item, rep, seq, val] is the element {(rep,seq) -> val} of      *)
(*         map[item].core.values.                                          *)
(* Left out: the dot cloud DotContext::dc, which no operation of the       *)
(* program ever makes non-empty (nextDot only touches vc, and join inserts *)
(* the dots of an empty dc); title and url, because one list (one url) is  *)
(* modelled and they never differ between its copies; items mapped to no   *)
(* dot, which read as 0 like absent ones.                                  *)
(***************************************************************************)
EXTENDS Integers, FiniteSets

LOCAL INSTANCE FiniteSetsExt

CONSTANTS
    Items,      \* product names
    Uuids,      \* ids generateUUID can return
    NoUuid,     \* the empty id ""
    NoCopy      \* the null JSON value: no list is stored

ASSUME UuidAssumption == NoUuid \notin Uuids

Reps == Uuids \cup {NoUuid}

Entry == [item : Items, rep : Reps, seq : Nat \ {0}, val : Int]

Copy == [id : Reps, vc : [Reps -> Nat], map : SUBSET Entry]

ASSUME NoCopyAssumption == NoCopy \notin Copy

MaybeCopy == Copy \cup {NoCopy}

(* DotContext::contains, for the dot of entry e. *)
Seen(vc, e) == e.seq <= vc[e.rep]

(* DotContext::join: the pointwise maximum. *)
JoinClock(a, b) == [r \in Reps |-> IF a[r] < b[r] THEN b[r] ELSE a[r]]

SameDot(e, f) == e.item = f.item /\ e.rep = f.rep /\ e.seq = f.seq

(* Fault: the own entries are never checked against the other context. *)
JoinMapKeepsOwn(a, b) ==
    a.map \cup {f \in b.map : /\ ~ \E e \in a.map : SameDot(e, f)
                              /\ ~Seen(a.vc, f)}

(* DotKernel::join of the entries E under context v with F under w.  An    *)
(* own entry survives if the other side holds its dot or has not seen it;  *)
(* an entry of the other side comes in if it has not been seen here.  When *)
(* both hold the dot, the own value stays: the result of join::join is     *)
(* discarded.                                                              *)
JoinCore(E, v, F, w) ==
    {e \in E : (\E f \in F : SameDot(e, f)) \/ ~Seen(w, e)}
    \cup
    {f \in F : (~ \E e \in E : SameDot(e, f)) /\ ~Seen(v, f)}

(* ORMap::join: DotKernel::join item by item, each from the same initial   *)
(* context.                                                                *)
JoinMap(a, b) == JoinCore(a.map, a.vc, b.map, b.vc)

(* ShoppingList::join; the id is the one of the copy joined into. *)
Join(a, b) == [id |-> a.id, vc |-> JoinClock(a.vc, b.vc), map |-> JoinMap(a, b)]

(* The constructors: ShoppingList(id, title, url) and, with NoUuid, the    *)
(* default one.                                                            *)
EmptyCopy(id) == [id |-> id, vc |-> [r \in Reps |-> 0], map |-> {}]

(* from_json on a default ShoppingList.  Null leaves it as constructed;    *)
(* otherwise it takes the id and joins what was parsed.                    *)
FromJson(j) ==
    IF j = NoCopy THEN EmptyCopy(NoUuid) ELSE Join(EmptyCopy(j.id), j)

OwnEntries(l, i) == {e \in l.map : e.item = i /\ e.rep = l.id}

(* The values the loops of CausalCounter::inc and ::dec take the maximum   *)
(* of, starting from 0.                                                    *)
OwnValues(l, i) == {0} \cup {e.val : e \in OwnEntries(l, i)}

Largest(v, S) == v \in S /\ \A w \in S : w <= v

(* Fault: nextDot returns the count before it adds one. *)
NewEntryPostIncrement(l, i, v) ==
    [item |-> i, rep |-> l.id, seq |-> l.vc[l.id], val |-> v]

(* The entry inc and dec add: DotKernel::add under DotContext::nextDot. *)
NewEntry(l, i, v) == [item |-> i, rep |-> l.id, seq |-> l.vc[l.id] + 1, val |-> v]

(* Fault: the counter holds a context of its own, not the map's. *)
PutOwnContext(l, i, v) ==
    [l EXCEPT !.map = (@ \ OwnEntries(l, i)) \cup {NewEntry(l, i, v)}]

(* Fault: the replica's own dots are left in place. *)
PutKeepsOwn(l, i, v) ==
    [l EXCEPT !.vc[l.id] = @ + 1, !.map = @ \cup {NewEntry(l, i, v)}]

(* The common tail of inc and dec: drop the replica's own dots of the item *)
(* and add one under the next dot.                                         *)
Put(l, i, v) ==
    [id  |-> l.id,
     vc  |-> [l.vc EXCEPT ![l.id] = @ + 1],
     map |-> (l.map \ OwnEntries(l, i)) \cup {NewEntry(l, i, v)}]

(* CausalCounter::read, ShoppingList::getQuantity. *)
Read(l, i) == MapThenSumSet(LAMBDA e : e.val, {e \in l.map : e.item = i})

(* ShoppingList::contains. *)
Contains(l, i) == Read(l, i) > 0

(* ShoppingList::removeItem, ORMap::remove: the dots go, the context stays.*)
(* The menu offers no removal yet.                                         *)
RemoveItem(l, i) ==
    IF Contains(l, i) THEN [l EXCEPT !.map = {e \in @ : e.item # i}] ELSE l

-----------------------------------------------------------------------------
(* What the data type promises, relative to the set M of all entries ever  *)
(* added by an edit anywhere.                                              *)

(* No two edits got the same dot. *)
UniqueDots(M) == \A e, f \in M : e.rep = f.rep /\ e.seq = f.seq => e = f

(* Of every replica and item, the last edit that a clock has seen. *)
ViewOf(M, vc) ==
    {e \in M : /\ Seen(vc, e)
               /\ ~ \E f \in M : /\ f.rep = e.rep /\ f.item = e.item
                                 /\ f.seq > e.seq /\ Seen(vc, f)}

(* A copy's clock determines its entries: no edit marked as seen is        *)
(* missing, and no superseded one is back.                                 *)
Faithful(M, l) == l.map = ViewOf(M, l.vc)

(* A clock counts no edit that was not made. *)
Grounded(M, vc) ==
    \A r \in Reps : vc[r] = 0 \/ \E e \in M : e.rep = r /\ vc[r] <= e.seq
=============================================================================

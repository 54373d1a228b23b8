------------------------ MODULE ListReplicas_proofs -------------------------
(***************************************************************************)
(* Theorems about ShoppingList, the data type, for all items and ids; and  *)
(* about ListReplicas, its copies, for any clients, workers, items, ids    *)
(* and bounds.                                                             *)
(***************************************************************************)
EXTENDS ListReplicas, SequenceTheorems, TLAPS

-----------------------------------------------------------------------------
(* The shopping list data type. *)

(* Every operation returns a copy: constructors, join, parsing and the     *)
(* edit that inc and dec end in.                                           *)
LEMMA EmptyCopyType == ASSUME NEW id \in Reps PROVE EmptyCopy(id) \in Copy
  BY DEF EmptyCopy, Copy

LEMMA JoinClockType ==
  ASSUME NEW a \in [Reps -> Nat], NEW b \in [Reps -> Nat]
  PROVE  JoinClock(a, b) \in [Reps -> Nat]
  BY DEF JoinClock

LEMMA JoinType ==
  ASSUME NEW a \in Copy, NEW b \in Copy
  PROVE  Join(a, b) \in Copy
<1>1. JoinClock(a.vc, b.vc) \in [Reps -> Nat]
  BY JoinClockType DEF Copy
<1>2. JoinMap(a, b) \subseteq Entry
  BY DEF Copy, JoinMap, JoinCore
<1> QED
  BY <1>1, <1>2 DEF Join, Copy

(* Parsing what to_json wrote gives back the same copy: nothing is lost on *)
(* the way through a database or a message.                                *)
LEMMA FromJsonIdentity ==
  ASSUME NEW l \in Copy
  PROVE  FromJson(l) = l
<1>1. l # NoCopy
  BY NoCopyAssumption
<1>2. JoinClock(EmptyCopy(l.id).vc, l.vc) = l.vc
  BY DEF JoinClock, EmptyCopy, Copy
<1>3. JoinMap(EmptyCopy(l.id), l) = l.map
  <2>1. \A e \in l.map : ~Seen(EmptyCopy(l.id).vc, e)
    BY DEF Seen, EmptyCopy, Copy, Entry
  <2> QED
    BY <2>1 DEF JoinMap, JoinCore, EmptyCopy
<1>4. EmptyCopy(l.id).id = l.id
  BY DEF EmptyCopy
<1>5. l = [id |-> l.id, vc |-> l.vc, map |-> l.map]
  BY DEF Copy
<1> QED
  BY <1>1, <1>2, <1>3, <1>4, <1>5 DEF FromJson, Join

LEMMA FromJsonType ==
  ASSUME NEW j \in MaybeCopy
  PROVE  FromJson(j) \in Copy
<1>1. CASE j = NoCopy
  BY <1>1, EmptyCopyType DEF FromJson, Reps
<1>2. CASE j \in Copy
  BY <1>2, FromJsonIdentity
<1> QED
  BY <1>1, <1>2 DEF MaybeCopy

LEMMA OwnValuesType ==
  ASSUME NEW l \in Copy, NEW i \in Items
  PROVE  OwnValues(l, i) \subseteq Int
  BY DEF OwnValues, OwnEntries, Copy, Entry

LEMMA NewEntryType ==
  ASSUME NEW l \in Copy, NEW i \in Items, NEW v \in Int
  PROVE  NewEntry(l, i, v) \in Entry
<1>1. l.id \in Reps /\ l.vc[l.id] \in Nat
  BY DEF Copy
<1>2. l.vc[l.id] + 1 \in Nat \ {0}
  BY <1>1
<1> QED
  BY <1>1, <1>2 DEF NewEntry, Entry

LEMMA PutFields ==
  ASSUME NEW l \in Copy, NEW i \in Items, NEW v \in Int
  PROVE  /\ Put(l, i, v).id = l.id
         /\ Put(l, i, v).vc = [l.vc EXCEPT ![l.id] = @ + 1]
         /\ Put(l, i, v).map = (l.map \ OwnEntries(l, i)) \cup {NewEntry(l, i, v)}
         /\ Put(l, i, v) \in Copy
<1>1. NewEntry(l, i, v) \in Entry
  BY NewEntryType
<1> DEFINE m == (l.map \ OwnEntries(l, i)) \cup {NewEntry(l, i, v)}
           vc == [l.vc EXCEPT ![l.id] = @ + 1]
<1>2. m \subseteq Entry
  BY <1>1 DEF Copy
<1>3. vc \in [Reps -> Nat]
  BY DEF Copy
<1>4. Put(l, i, v) = [id |-> l.id, vc |-> vc, map |-> m]
  BY DEF Put, Copy
<1> HIDE DEF m, vc
<1>5. Put(l, i, v) \in Copy
  BY <1>2, <1>3, <1>4 DEF Copy
<1> QED
  BY <1>4, <1>5 DEF m, vc

-----------------------------------------------------------------------------
(* A join of two copies that hold what their clocks call for holds what    *)
(* the joined clock calls for (ORMap::join).  Unique dots make "the other  *)
(* copy holds the same dot" mean that it holds the same entry.             *)
LEMMA JoinFaithful ==
  ASSUME NEW M \in SUBSET Entry, UniqueDots(M),
         NEW a \in Copy, NEW b \in Copy,
         Faithful(M, a), Faithful(M, b)
  PROVE  Faithful(M, Join(a, b))
<1> DEFINE j == JoinClock(a.vc, b.vc)
<1>1. \A e \in M : Seen(j, e) <=> Seen(a.vc, e) \/ Seen(b.vc, e)
  BY DEF JoinClock, Seen, Entry, Copy
<1>2. \A e, f \in M : SameDot(e, f) => e = f
  BY DEF UniqueDots, SameDot
<1>3. \A e, f \in M : e.rep = f.rep /\ f.seq > e.seq =>
          /\ Seen(a.vc, f) => Seen(a.vc, e)
          /\ Seen(b.vc, f) => Seen(b.vc, e)
  <2> SUFFICES ASSUME NEW e \in M, NEW f \in M, e.rep = f.rep, f.seq > e.seq
               PROVE  /\ Seen(a.vc, f) => Seen(a.vc, e)
                      /\ Seen(b.vc, f) => Seen(b.vc, e)
    OBVIOUS
  <2>1. e.seq \in Nat /\ f.seq \in Nat /\ a.vc[e.rep] \in Nat /\ b.vc[e.rep] \in Nat
    BY DEF Entry, Copy
  <2> QED
    BY <2>1 DEF Seen
<1>4. a.map = ViewOf(M, a.vc) /\ b.map = ViewOf(M, b.vc)
  BY DEF Faithful
<1>5. JoinMap(a, b) \subseteq ViewOf(M, j)
  <2> SUFFICES ASSUME NEW e \in JoinMap(a, b)
               PROVE  e \in ViewOf(M, j)
    OBVIOUS
  <2>1. CASE e \in a.map /\ \E f \in b.map : SameDot(e, f)
    <3>1. e \in ViewOf(M, a.vc) /\ e \in ViewOf(M, b.vc)
      BY <1>2, <1>4, <2>1 DEF ViewOf
    <3> QED
      BY <1>1, <3>1 DEF ViewOf
  <2>2. CASE e \in a.map /\ ~Seen(b.vc, e)
    BY <1>1, <1>3, <1>4, <2>2 DEF ViewOf
  <2>3. CASE e \in b.map /\ ~Seen(a.vc, e)
    BY <1>1, <1>3, <1>4, <2>3 DEF ViewOf
  <2> QED
    BY <2>1, <2>2, <2>3 DEF JoinMap, JoinCore
<1>6. ViewOf(M, j) \subseteq JoinMap(a, b)
  <2> SUFFICES ASSUME NEW e \in ViewOf(M, j)
               PROVE  e \in JoinMap(a, b)
    OBVIOUS
  <2>1. e \in M /\ (Seen(a.vc, e) \/ Seen(b.vc, e))
    BY <1>1 DEF ViewOf
  <2>2. Seen(a.vc, e) => e \in a.map
    BY <1>1, <1>4 DEF ViewOf
  <2>3. Seen(b.vc, e) => e \in b.map
    BY <1>1, <1>4 DEF ViewOf
  <2>4. ~Seen(a.vc, e) => ~ \E f \in a.map : SameDot(f, e)
    BY <1>2, <1>4, <2>1 DEF ViewOf
  <2>5. SameDot(e, e)
    BY DEF SameDot
  <2> QED
    BY <2>1, <2>2, <2>3, <2>4, <2>5 DEF JoinMap, JoinCore
<1>7. Join(a, b).map = JoinMap(a, b) /\ Join(a, b).vc = j
  BY DEF Join
<1> QED
  BY <1>5, <1>6, <1>7 DEF Faithful

LEMMA JoinGrounded ==
  ASSUME NEW M, NEW a \in Copy, NEW b \in Copy,
         Grounded(M, a.vc), Grounded(M, b.vc)
  PROVE  Grounded(M, Join(a, b).vc)
  BY DEF Grounded, Join, JoinClock, Copy

LEMMA EmptyCopyFaithful ==
  ASSUME NEW M \in SUBSET Entry, NEW id \in Reps
  PROVE  Faithful(M, EmptyCopy(id)) /\ Grounded(M, EmptyCopy(id).vc)
<1>1. \A e \in M : ~Seen(EmptyCopy(id).vc, e)
  BY DEF Seen, EmptyCopy, Entry
<1> QED
  BY <1>1 DEF Faithful, ViewOf, Grounded, EmptyCopy

-----------------------------------------------------------------------------
(* An edit under a dot later than all of its replica id leaves every       *)
(* grounded copy what it was, and makes the edited one what its new clock  *)
(* calls for.                                                              *)
LEMMA OthersStayFaithful ==
  ASSUME NEW M \in SUBSET Entry, NEW n \in Entry,
         \A e \in M : e.rep = n.rep => e.seq < n.seq,
         NEW l \in Copy, Faithful(M, l), Grounded(M, l.vc)
  PROVE  Faithful(M \cup {n}, l) /\ Grounded(M \cup {n}, l.vc)
<1>1. l.vc[n.rep] \in Nat /\ n.rep \in Reps /\ n.seq \in Nat \ {0}
  BY DEF Copy, Entry
<1>2. \A e \in M : e.seq \in Nat
  BY DEF Entry
<1>3. ~Seen(l.vc, n)
  BY <1>1, <1>2 DEF Grounded, Seen
<1>4. ViewOf(M \cup {n}, l.vc) = ViewOf(M, l.vc)
  BY <1>3 DEF ViewOf
<1>5. Grounded(M \cup {n}, l.vc)
  BY DEF Grounded
<1> QED
  BY <1>4, <1>5 DEF Faithful

LEMMA PutFaithful ==
  ASSUME NEW M \in SUBSET Entry, NEW l \in Copy, NEW i \in Items, NEW v \in Int,
         \A e \in M : e.rep = l.id => e.seq <= l.vc[l.id],
         Faithful(M, l), Grounded(M, l.vc)
  PROVE  /\ Faithful(M \cup {NewEntry(l, i, v)}, Put(l, i, v))
         /\ Grounded(M \cup {NewEntry(l, i, v)}, Put(l, i, v).vc)
<1> DEFINE n == NewEntry(l, i, v)
           p == Put(l, i, v)
<1>1. /\ n \in Entry /\ n.item = i /\ n.rep = l.id /\ n.seq = l.vc[l.id] + 1
      /\ l.id \in Reps /\ l.vc[l.id] \in Nat /\ l.vc \in [Reps -> Nat]
  BY NewEntryType DEF NewEntry, Copy
<1>2. /\ p.vc = [l.vc EXCEPT ![l.id] = @ + 1]
      /\ p.map = (l.map \ OwnEntries(l, i)) \cup {n}
  BY PutFields
<1>3. \A e \in M : e.seq \in Nat /\ e.rep \in Reps
  BY DEF Entry
<1> HIDE DEF n, p
<1>4. \A e \in M : Seen(p.vc, e) <=> Seen(l.vc, e)
  BY <1>1, <1>2, <1>3 DEF Seen
<1>5. Seen(p.vc, n)
  BY <1>1, <1>2 DEF Seen
<1>6. \A e \in M : e.rep = n.rep => e.seq < n.seq
  BY <1>1, <1>3
<1>7. ViewOf(M \cup {n}, p.vc) =
        {e \in ViewOf(M, l.vc) : ~(e.item = i /\ e.rep = l.id)} \cup {n}
  <2>1. ASSUME NEW e \in ViewOf(M \cup {n}, p.vc), e # n
        PROVE  e \in ViewOf(M, l.vc) /\ ~(e.item = i /\ e.rep = l.id)
    <3>1. e \in M /\ Seen(l.vc, e)
      BY <1>4, <2>1 DEF ViewOf
    <3>2. ~ \E f \in M : f.rep = e.rep /\ f.item = e.item /\ f.seq > e.seq /\ Seen(l.vc, f)
      BY <1>4 DEF ViewOf
    <3>3. ~(e.item = i /\ e.rep = l.id)
      <4>1. n.seq > e.seq => ~(n.rep = e.rep /\ n.item = e.item)
        BY <1>5 DEF ViewOf
      <4>2. e.rep = n.rep => n.seq > e.seq
        BY <1>1, <1>3, <1>6, <3>1
      <4> QED
        BY <1>1, <4>1, <4>2
    <3> QED
      BY <3>1, <3>2, <3>3 DEF ViewOf
  <2>2. ASSUME NEW e \in ViewOf(M, l.vc), ~(e.item = i /\ e.rep = l.id)
        PROVE  e \in ViewOf(M \cup {n}, p.vc)
    BY <1>1, <1>4, <2>2 DEF ViewOf
  <2>3. n \in ViewOf(M \cup {n}, p.vc)
    <3>1. \A f \in M \cup {n} : f.rep = n.rep => ~(f.seq > n.seq)
      BY <1>1, <1>3, <1>6
    <3> QED
      BY <1>5, <3>1 DEF ViewOf
  <2> QED
    BY <2>1, <2>2, <2>3
<1>8. p.map = {e \in l.map : ~(e.item = i /\ e.rep = l.id)} \cup {n}
  BY <1>2 DEF OwnEntries
<1>9. Faithful(M \cup {n}, p)
  BY <1>7, <1>8 DEF Faithful
<1>10. Grounded(M \cup {n}, p.vc)
  <2> SUFFICES ASSUME NEW r \in Reps, p.vc[r] # 0
               PROVE  \E e \in M \cup {n} : e.rep = r /\ p.vc[r] <= e.seq
    BY DEF Grounded
  <2>1. CASE r = l.id
    BY <1>1, <1>2, <2>1
  <2>2. CASE r # l.id
    BY <1>1, <1>2, <2>2 DEF Grounded
  <2> QED
    BY <2>1, <2>2
<1> QED
  BY <1>9, <1>10 DEF n, p

-----------------------------------------------------------------------------
(* A removed item stays removed: a join with a copy that knows of no       *)
(* addition the remover had not seen does not bring it back, whichever of  *)
(* the two joins (removeItem drops the dots but not the context).          *)
THEOREM RemovalHolds ==
  ASSUME NEW l \in Copy, NEW o \in Copy, NEW i \in Items, Contains(l, i),
         \A e \in o.map : e.item = i => Seen(l.vc, e)
  PROVE  LET r == RemoveItem(l, i) IN
         \A e \in Join(r, o).map \cup Join(o, r).map : e.item # i
<1> DEFINE r == RemoveItem(l, i)
<1>1. r.map = {e \in l.map : e.item # i} /\ r.vc = l.vc
  BY DEF RemoveItem, Copy
<1>2. \A e, f : SameDot(e, f) => e.item = f.item
  BY DEF SameDot
<1> HIDE DEF r
<1>3. \A e \in Join(r, o).map : e.item # i
  BY <1>1 DEF Join, JoinMap, JoinCore
<1>4. \A e \in Join(o, r).map : e.item # i
  BY <1>1, <1>2 DEF Join, JoinMap, JoinCore
<1> QED
  BY <1>3, <1>4 DEF r

(* And an addition wins over a removal that had not seen it.               *)
THEOREM AdditionWins ==
  ASSUME NEW l \in Copy, NEW o \in Copy, NEW i \in Items,
         NEW e \in o.map, e.item = i, ~Seen(l.vc, e), Contains(l, i)
  PROVE  LET r == RemoveItem(l, i) IN e \in Join(r, o).map \cap Join(o, r).map
<1> DEFINE r == RemoveItem(l, i)
<1>1. r.map = {f \in l.map : f.item # i} /\ r.vc = l.vc
  BY DEF RemoveItem, Copy
<1>2. ~ \E f \in r.map : SameDot(f, e)
  BY <1>1 DEF SameDot
<1> HIDE DEF r
<1>3. e \in Join(r, o).map
  BY <1>1, <1>2 DEF Join, JoinMap, JoinCore
<1>4. e \in Join(o, r).map
  BY <1>1 DEF Join, JoinMap, JoinCore
<1> QED
  BY <1>3, <1>4 DEF r

-----------------------------------------------------------------------------
(* Types. *)

LEMMA SendType ==
  ASSUME TypeOK, NEW c \in Clients, NEW type, NEW l,
         \A w \in Workers : [type |-> type, list |-> l, to |-> w] \in Request,
         Send(c, type, l)
  PROVE  reqs' \subseteq Request /\ subscribed' \subseteq Clients
<1>1. CASE UNCHANGED <<reqs, subscribed>>
  BY <1>1 DEF TypeOK
<1>2. CASE \E W \in SUBSET Workers :
              /\ reqs' = reqs \cup {[type |-> type, list |-> l, to |-> w] : w \in W}
              /\ Cardinality(reqs') <= MaxReqs
              /\ subscribed' = subscribed \cup {c}
  <2> PICK W \in SUBSET Workers :
              /\ reqs' = reqs \cup {[type |-> type, list |-> l, to |-> w] : w \in W}
              /\ subscribed' = subscribed \cup {c}
    BY <1>2
  <2> QED
    BY DEF TypeOK
<1> QED
  BY <1>1, <1>2 DEF Send

LEMMA PublishType ==
  ASSUME TypeOK, NEW l \in Copy, Publish(l)
  PROVE  pubs' \in [Clients -> Seq(Copy)]
<1>1. \A c \in Clients : pubs[c] \in Seq(Copy) /\ Append(pubs[c], l) \in Seq(Copy)
  BY DEF TypeOK
<1> QED
  BY <1>1 DEF Publish

LEMMA EditType ==
  ASSUME TypeOK, NEW c \in Clients, NEW i \in Items, NEW d \in Int, Edit(c, i, d)
  PROVE  TypeOK'
<1>1. session[c] \in Copy
  BY DEF TypeOK, Edit
<1>2. PICK v \in OwnValues(session[c], i) :
          /\ session' = [session EXCEPT ![c] = Put(session[c], i, v + d)]
          /\ minted' = minted \cup {NewEntry(session[c], i, v + d)}
  BY DEF Edit
<1>3. v + d \in Int
  BY <1>1, <1>2, OwnValuesType
<1>4. Put(session[c], i, v + d) \in Copy /\ NewEntry(session[c], i, v + d) \in Entry
  BY <1>1, <1>3, PutFields, NewEntryType
<1>5. session' \in [Clients -> MaybeCopy]
  BY <1>2, <1>4 DEF TypeOK, MaybeCopy
<1>6. minted' \subseteq Entry
  BY <1>2, <1>4 DEF TypeOK
<1>7. \A x \in Clients : mainPc[x] # "menu" => session'[x] \in Copy
  BY <1>2, <1>4 DEF TypeOK
<1> QED
  BY <1>5, <1>6, <1>7 DEF TypeOK, Edit, lstVars, netVars

LEMMA ClientGoneType ==
  ASSUME TypeOK, NEW c \in Clients, ClientGone(c)
  PROVE  /\ mainVars' \in [Clients -> {"menu", "edit", "save"}]
                          \X [Clients -> MaybeCopy] \X [Clients -> MaybeCopy]
         /\ lstVars' \in [Clients -> {"idle", "get", "merge", "create"}]
                         \X [Clients -> MaybeCopy] \X [Clients -> MaybeCopy]
         /\ subscribed' \subseteq Clients
         /\ pubs' \in [Clients -> Seq(Copy)]
         /\ \A x \in Clients : /\ mainPc'[x] # "menu" => session'[x] \in Copy
                               /\ lstPc'[x] # "idle" => update'[x] \in Copy
<1>1. NoCopy \in MaybeCopy /\ <<>> \in Seq(Copy)
  BY DEF MaybeCopy
<1> QED
  BY <1>1 DEF TypeOK, ClientGone, ListenerDone, mainVars, lstVars

LEMMA NodeGoneType ==
  ASSUME TypeOK, NEW n \in Nodes, NodeGone(n)
  PROVE  /\ mainPc' \in [Clients -> {"menu", "edit", "save"}]
         /\ session' \in [Clients -> MaybeCopy]
         /\ saveBase' \in [Clients -> MaybeCopy]
         /\ lstPc' \in [Clients -> {"idle", "get", "merge", "create"}]
         /\ update' \in [Clients -> MaybeCopy]
         /\ lstBase' \in [Clients -> MaybeCopy]
         /\ subscribed' \subseteq Clients
         /\ pubs' \in [Clients -> Seq(Copy)]
         /\ \A x \in Clients : /\ mainPc'[x] # "menu" => session'[x] \in Copy
                               /\ lstPc'[x] # "idle" => update'[x] \in Copy
<1>1. CASE n \in Clients
  BY <1>1, ClientGoneType DEF NodeGone, mainVars, lstVars
<1>2. CASE n \notin Clients
  BY <1>2 DEF NodeGone, TypeOK, mainVars, lstVars
<1> QED
  BY <1>1, <1>2

(* Every step keeps the types: the databases, sessions and messages hold   *)
(* copies, the threads of a client are where a copy is there for them.     *)
LEMMA TypeStep == TypeOK /\ [Next]_vars => TypeOK'
<1> SUFFICES ASSUME TypeOK, [Next]_vars PROVE TypeOK'
  OBVIOUS
<1> USE DEF MaybeCopy
<1>1. ASSUME NEW c \in Clients, CreateList(c) PROVE TypeOK'
  <2>1. PICK u \in Uuids : /\ used' = {u}
                           /\ db' = [db EXCEPT ![c] = EmptyCopy(u)]
                           /\ Send(c, "CREATE_LIST", EmptyCopy(u))
    BY <1>1 DEF CreateList
  <2>2. EmptyCopy(u) \in Copy
    BY EmptyCopyType DEF Reps
  <2>3. reqs' \subseteq Request /\ subscribed' \subseteq Clients
    <3>1. \A w \in Workers :
            [type |-> "CREATE_LIST", list |-> EmptyCopy(u), to |-> w] \in Request
      BY <2>2 DEF Request
    <3> QED
      BY <2>1, <3>1, SendType
  <2> QED
    BY <1>1, <2>1, <2>2, <2>3 DEF CreateList, TypeOK, mainVars, lstVars
<1>2. ASSUME NEW c \in Clients, GetList(c) PROVE TypeOK'
  <2>1. reqs' \subseteq Request /\ subscribed' \subseteq Clients
    <3>1. \A w \in Workers : [type |-> "GET_LIST", list |-> NoCopy, to |-> w] \in Request
      BY DEF Request
    <3> QED
      BY <1>2, <3>1, SendType DEF GetList
  <2> QED
    BY <1>2, <2>1 DEF GetList, TypeOK, mainVars, lstVars, histVars
<1>3. ASSUME NEW c \in Clients, OpenList(c) PROVE TypeOK'
  <2>1. db[c] \in Copy /\ FromJson(db[c]) \in Copy
    BY <1>3, FromJsonType DEF OpenList, TypeOK, Nodes
  <2> QED
    BY <1>3, <2>1 DEF OpenList, TypeOK, lstVars, netVars, histVars
<1>4. ASSUME NEW c \in Clients, NEW i \in Items, NEW q \in Quantities, AddItem(c, i, q)
      PROVE  TypeOK'
  BY <1>4, EditType, BoundAssumption DEF AddItem, CreateItem, IncreaseItem
<1>5. ASSUME NEW c \in Clients, NEW i \in Items, NEW q \in Quantities, BuyItem(c, i, q)
      PROVE  TypeOK'
  BY <1>5, EditType, BoundAssumption DEF BuyItem
<1>6. ASSUME NEW c \in Clients, SaveRead(c) PROVE TypeOK'
  BY <1>6 DEF SaveRead, TypeOK, lstVars, netVars, histVars, Nodes
<1>7. ASSUME NEW c \in Clients, SaveWrite(c) PROVE TypeOK'
  <2>1. session[c] \in Copy
    BY <1>7 DEF SaveWrite, TypeOK
  <2>2. Join(FromJson(saveBase[c]), session[c]) \in Copy
    BY <2>1, FromJsonType, JoinType DEF TypeOK
  <2>3. reqs' \subseteq Request /\ subscribed' \subseteq Clients
    <3>1. \A w \in Workers :
            [type |-> "UPDATE_LIST", list |-> session[c], to |-> w] \in Request
      BY <2>1 DEF Request
    <3> QED
      BY <1>7, <3>1, SendType DEF SaveWrite
  <2> QED
    BY <1>7, <2>1, <2>2, <2>3 DEF SaveWrite, TypeOK, lstVars, histVars
<1>8. ASSUME NEW c \in Clients, DeleteList(c) PROVE TypeOK'
  BY <1>8 DEF DeleteList, TypeOK, mainVars, lstVars, histVars
<1>9. ASSUME NEW c \in Clients, Resubscribe(c) PROVE TypeOK'
  BY <1>9 DEF Resubscribe, TypeOK, mainVars, lstVars, histVars
<1>10. ASSUME NEW c \in Clients, ReceiveUpdate(c) PROVE TypeOK'
  <2>1. PICK k \in 1 .. Len(pubs[c]) :
            /\ update' = [update EXCEPT ![c] = Head(pubs[c])]
            /\ pubs' = [pubs EXCEPT ![c] = SubSeq(@, k + 1, Len(@))]
    BY <1>10 DEF ReceiveUpdate
  <2>2. pubs[c] \in Seq(Copy)
    BY DEF TypeOK
  <2>3. Head(pubs[c]) \in Copy
    BY <2>1, <2>2
  <2>4. SubSeq(pubs[c], k + 1, Len(pubs[c])) \in Seq(Copy)
    <3>1. \A j \in k + 1 .. Len(pubs[c]) : pubs[c][j] \in Copy
      BY <2>1, <2>2
    <3> QED
      BY <2>1, <2>2, <3>1, SubSeqProperties
  <2> QED
    BY <1>10, <2>1, <2>3, <2>4 DEF ReceiveUpdate, TypeOK, mainVars, histVars
<1>11. ASSUME NEW c \in Clients, ListenerGet(c) PROVE TypeOK'
  BY <1>11 DEF ListenerGet, TypeOK, mainVars, netVars, histVars, Nodes
<1>12. ASSUME NEW c \in Clients, ListenerMerge(c) PROVE TypeOK'
  <2>1. Join(FromJson(lstBase[c]), FromJson(update[c])) \in Copy
    BY FromJsonType, JoinType DEF TypeOK
  <2> QED
    BY <1>12, <2>1 DEF ListenerMerge, ListenerDone, TypeOK, mainVars, netVars, histVars
<1>13. ASSUME NEW c \in Clients, ListenerCreate(c) PROVE TypeOK'
  <2>1. PICK u \in Uuids \ used :
            /\ used' = used \cup {u}
            /\ db' = [db EXCEPT ![c] = [update[c] EXCEPT !.id = u]]
    BY <1>13 DEF ListenerCreate
  <2>2. [update[c] EXCEPT !.id = u] \in Copy
    BY <1>13 DEF ListenerCreate, TypeOK, Copy, Reps
  <2> QED
    BY <1>13, <2>1, <2>2 DEF ListenerCreate, ListenerDone, TypeOK, mainVars, netVars
<1>14. ASSUME NEW r \in reqs, HandleRequest(r) PROVE TypeOK'
  <2>1. r \in Request /\ r.to \in Workers /\ r.to \in Nodes /\ r.list \in MaybeCopy
    BY DEF TypeOK, Request, Nodes
  <2>2. FromJson(r.list) \in Copy /\ FromJson(db[r.to]) \in Copy
    BY <2>1, FromJsonType DEF TypeOK
  <2>3. db' \in [Nodes -> MaybeCopy] /\ pubs' \in [Clients -> Seq(Copy)]
    <3>1. CASE HandleCreate(r)
      <4>1. [FromJson(r.list) EXCEPT !.id = NoUuid] \in Copy
        BY <2>2 DEF Copy, Reps
      <4> QED
        BY <3>1, <4>1, <2>1, PublishType DEF HandleCreate, TypeOK
    <3>2. CASE HandleGet(r)
      BY <3>2, <2>1, PublishType DEF HandleGet, TypeOK
    <3>3. CASE HandleUpdate(r)
      <4>1. Join(FromJson(db[r.to]), FromJson(r.list)) \in Copy
        BY <2>2, JoinType
      <4> QED
        BY <3>3, <4>1, <2>1, PublishType DEF HandleUpdate, TypeOK
    <3> QED
      BY <1>14, <3>1, <3>2, <3>3 DEF HandleRequest
  <2> QED
    BY <1>14, <2>3 DEF HandleRequest, TypeOK, mainVars, lstVars, histVars
<1>15. ASSUME NEW n \in Nodes, Restart(n) PROVE TypeOK'
  BY <1>15, NodeGoneType DEF Restart, TypeOK, histVars
<1>16. ASSUME NEW n \in Nodes, Crash(n) PROVE TypeOK'
  BY <1>16, NodeGoneType DEF Crash, TypeOK, histVars
<1>17. ASSUME NEW n \in Nodes, CrashInSave(n) PROVE TypeOK'
  BY <1>17, NodeGoneType DEF CrashInSave, TypeOK, histVars, MaybeCopy
<1>18. CASE UNCHANGED vars
  BY <1>18 DEF vars, TypeOK
<1> QED
  BY <1>1, <1>2, <1>3, <1>4, <1>5, <1>6, <1>7, <1>8, <1>9, <1>10, <1>11, <1>12,
     <1>13, <1>14, <1>15, <1>16, <1>17, <1>18 DEF Next, ClientStep

(* The types hold in every reachable state. *)
THEOREM TypeCorrect == Spec => []TypeOK
<1>1. Init => TypeOK
  BY DEF Init, TypeOK, MaybeCopy
<1> QED
  BY <1>1, TypeStep, PTL DEF Spec

-----------------------------------------------------------------------------
(* Where copies come from.  A set of copies that is closed under what the  *)
(* code does to a copy other than editing it keeps holding every copy.     *)

Closed(G) ==
    /\ G \subseteq Copy
    /\ \A a, b \in G : Join(a, b) \in G
    /\ \A id \in Reps : EmptyCopy(id) \in G
    /\ \A a \in G, id \in Reps : [a EXCEPT !.id = id] \in G

(* Every place that can hold a copy holds one of G or none. *)
AllIn(G) ==
    /\ db \in [Nodes -> G \cup {NoCopy}]
    /\ disk \in [Nodes -> G \cup {NoCopy}]
    /\ session \in [Clients -> G \cup {NoCopy}]
    /\ saveBase \in [Clients -> G \cup {NoCopy}]
    /\ update \in [Clients -> G \cup {NoCopy}]
    /\ lstBase \in [Clients -> G \cup {NoCopy}]
    /\ \A r \in reqs : r.list \in G \cup {NoCopy}
    /\ pubs \in [Clients -> Seq(G)]

LEMMA AllInCopies ==
  ASSUME TypeOK, NEW G, G \subseteq Copy
  PROVE  AllIn(G) <=> Copies \subseteq G
<1>1. ASSUME AllIn(G) PROVE Copies \subseteq G
  BY <1>1 DEF AllIn, Copies
<1>2. ASSUME Copies \subseteq G PROVE AllIn(G)
  <2>1. \A c \in Clients : pubs[c] \in Seq(G)
    <3> SUFFICES ASSUME NEW c \in Clients PROVE pubs[c] \in Seq(G)
      OBVIOUS
    <3>1. pubs[c] \in Seq(Copy)
      BY DEF TypeOK
    <3>2. \A k \in 1 .. Len(pubs[c]) : pubs[c][k] \in Copy /\ pubs[c][k] \in Copies
      BY <3>1, NoCopyAssumption DEF Copies
    <3> QED
      BY <1>2, <3>1, <3>2
  <2>2. \A r \in reqs : r.list \in G \cup {NoCopy}
    BY <1>2 DEF Copies
  <2>3. /\ \A n \in Nodes : db[n] \in G \cup {NoCopy} /\ disk[n] \in G \cup {NoCopy}
        /\ \A c \in Clients : /\ session[c] \in G \cup {NoCopy}
                              /\ saveBase[c] \in G \cup {NoCopy}
                              /\ update[c] \in G \cup {NoCopy}
                              /\ lstBase[c] \in G \cup {NoCopy}
    BY <1>2 DEF Copies
  <2> QED
    BY <2>1, <2>2, <2>3 DEF AllIn, TypeOK
<1> QED
  BY <1>1, <1>2

LEMMA FromJsonIn ==
  ASSUME NEW G, Closed(G), NEW j \in G \cup {NoCopy}
  PROVE  FromJson(j) \in G
<1>1. CASE j = NoCopy
  BY <1>1 DEF FromJson, Closed, Reps
<1>2. CASE j \in G
  BY <1>2, FromJsonIdentity DEF Closed
<1> QED
  BY <1>1, <1>2

LEMMA SendIn ==
  ASSUME NEW G, NEW c, NEW type, NEW l \in G \cup {NoCopy},
         \A r \in reqs : r.list \in G \cup {NoCopy}, Send(c, type, l)
  PROVE  \A r \in reqs' : r.list \in G \cup {NoCopy}
  BY DEF Send

LEMMA PublishIn ==
  ASSUME NEW G, pubs \in [Clients -> Seq(G)], NEW l \in G, Publish(l)
  PROVE  pubs' \in [Clients -> Seq(G)]
  BY DEF Publish

LEMMA NodeGoneIn ==
  ASSUME NEW G, AllIn(G), NEW n \in Nodes, NodeGone(n)
  PROVE  /\ session' \in [Clients -> G \cup {NoCopy}]
         /\ saveBase' \in [Clients -> G \cup {NoCopy}]
         /\ update' \in [Clients -> G \cup {NoCopy}]
         /\ lstBase' \in [Clients -> G \cup {NoCopy}]
         /\ pubs' \in [Clients -> Seq(G)]
<1>1. NoCopy \in G \cup {NoCopy} /\ <<>> \in Seq(G)
  OBVIOUS
<1>2. CASE n \in Clients
  BY <1>1, <1>2 DEF NodeGone, ClientGone, ListenerDone, AllIn
<1>3. CASE n \notin Clients
  BY <1>3 DEF NodeGone, mainVars, lstVars, AllIn
<1> QED
  BY <1>2, <1>3

(* An edit adds one copy, the edited one. *)
LEMMA EditIn ==
  ASSUME NEW G, AllIn(G), NEW c \in Clients, NEW i, NEW d, Edit(c, i, d),
         session'[c] \in G
  PROVE  AllIn(G)'
  BY DEF Edit, AllIn, lstVars, netVars

(* Every other step only moves, joins or renames copies. *)
LEMMA AllInStep ==
  ASSUME TypeOK, NEW G, Closed(G), AllIn(G), [Next]_vars,
         ~ \E c \in Clients, i \in Items, q \in Quantities : AddItem(c, i, q) \/ BuyItem(c, i, q)
  PROVE  AllIn(G)'
<1>1. ASSUME NEW c \in Clients, CreateList(c) PROVE AllIn(G)'
  <2>1. PICK u \in Uuids : /\ db' = [db EXCEPT ![c] = EmptyCopy(u)]
                           /\ Send(c, "CREATE_LIST", EmptyCopy(u))
    BY <1>1 DEF CreateList
  <2>2. EmptyCopy(u) \in G
    BY DEF Closed, Reps
  <2>3. \A r \in reqs' : r.list \in G \cup {NoCopy}
    BY <2>1, <2>2, SendIn DEF AllIn
  <2> QED
    BY <1>1, <2>1, <2>2, <2>3 DEF CreateList, AllIn, mainVars, lstVars
<1>2. ASSUME NEW c \in Clients, GetList(c) PROVE AllIn(G)'
  <2>1. \A r \in reqs' : r.list \in G \cup {NoCopy}
    BY <1>2, SendIn DEF AllIn, GetList
  <2> QED
    BY <1>2, <2>1 DEF GetList, AllIn, mainVars, lstVars
<1>3. ASSUME NEW c \in Clients, OpenList(c) PROVE AllIn(G)'
  <2>1. FromJson(db[c]) \in G
    BY FromJsonIn DEF AllIn, Nodes
  <2> QED
    BY <1>3, <2>1 DEF OpenList, AllIn, lstVars, netVars
<1>4. ASSUME NEW c \in Clients, SaveRead(c) PROVE AllIn(G)'
  BY <1>4 DEF SaveRead, AllIn, lstVars, netVars, Nodes
<1>5. ASSUME NEW c \in Clients, SaveWrite(c) PROVE AllIn(G)'
  <2>1. session[c] \in G
    BY <1>5, NoCopyAssumption DEF SaveWrite, TypeOK, AllIn
  <2>2. Join(FromJson(saveBase[c]), session[c]) \in G
    BY <2>1, FromJsonIn DEF AllIn, Closed
  <2>3. \A r \in reqs' : r.list \in G \cup {NoCopy}
    BY <1>5, <2>1, SendIn DEF AllIn, SaveWrite
  <2> QED
    BY <1>5, <2>1, <2>2, <2>3 DEF SaveWrite, AllIn, lstVars
<1>6. ASSUME NEW c \in Clients, DeleteList(c) PROVE AllIn(G)'
  BY <1>6 DEF DeleteList, AllIn, mainVars, lstVars
<1>7. ASSUME NEW c \in Clients, Resubscribe(c) PROVE AllIn(G)'
  BY <1>7 DEF Resubscribe, AllIn, mainVars, lstVars
<1>8. ASSUME NEW c \in Clients, ReceiveUpdate(c) PROVE AllIn(G)'
  <2>1. PICK k \in 1 .. Len(pubs[c]) :
            /\ update' = [update EXCEPT ![c] = Head(pubs[c])]
            /\ pubs' = [pubs EXCEPT ![c] = SubSeq(@, k + 1, Len(@))]
    BY <1>8 DEF ReceiveUpdate
  <2>2. pubs[c] \in Seq(G)
    BY DEF AllIn
  <2>3. Head(pubs[c]) \in G
    BY <2>1, <2>2
  <2>4. SubSeq(pubs[c], k + 1, Len(pubs[c])) \in Seq(G)
    <3>1. \A j \in k + 1 .. Len(pubs[c]) : pubs[c][j] \in G
      BY <2>1, <2>2
    <3> QED
      BY <2>1, <2>2, <3>1, SubSeqProperties
  <2> QED
    BY <1>8, <2>1, <2>3, <2>4 DEF ReceiveUpdate, AllIn, mainVars
<1>9. ASSUME NEW c \in Clients, ListenerGet(c) PROVE AllIn(G)'
  BY <1>9 DEF ListenerGet, AllIn, mainVars, netVars, Nodes
<1>10. ASSUME NEW c \in Clients, ListenerMerge(c) PROVE AllIn(G)'
  <2>1. Join(FromJson(lstBase[c]), FromJson(update[c])) \in G
    BY FromJsonIn DEF AllIn, Closed
  <2> QED
    BY <1>10, <2>1 DEF ListenerMerge, ListenerDone, AllIn, mainVars, netVars
<1>11. ASSUME NEW c \in Clients, ListenerCreate(c) PROVE AllIn(G)'
  <2>1. PICK u \in Uuids \ used : db' = [db EXCEPT ![c] = [update[c] EXCEPT !.id = u]]
    BY <1>11 DEF ListenerCreate
  <2>2. update[c] \in G
    BY <1>11, NoCopyAssumption DEF ListenerCreate, TypeOK, AllIn
  <2>3. [update[c] EXCEPT !.id = u] \in G
    BY <2>2 DEF Closed, Reps
  <2> QED
    BY <1>11, <2>1, <2>3 DEF ListenerCreate, ListenerDone, AllIn, mainVars, netVars
<1>12. ASSUME NEW r \in reqs, HandleRequest(r) PROVE AllIn(G)'
  <2>1. r.to \in Nodes /\ r.list \in G \cup {NoCopy} /\ db[r.to] \in G \cup {NoCopy}
    BY DEF TypeOK, AllIn, Request, Nodes
  <2>2. FromJson(r.list) \in G /\ FromJson(db[r.to]) \in G
    BY <2>1, FromJsonIn
  <2>3. db' \in [Nodes -> G \cup {NoCopy}] /\ pubs' \in [Clients -> Seq(G)]
    <3>1. CASE HandleCreate(r)
      <4>1. [FromJson(r.list) EXCEPT !.id = NoUuid] \in G
        BY <2>2 DEF Closed, Reps
      <4> QED
        BY <3>1, <4>1, PublishIn DEF HandleCreate, AllIn
    <3>2. CASE HandleGet(r)
      BY <3>2, <2>1, PublishIn DEF HandleGet, AllIn
    <3>3. CASE HandleUpdate(r)
      <4>1. Join(FromJson(db[r.to]), FromJson(r.list)) \in G
        BY <2>2 DEF Closed
      <4> QED
        BY <3>3, <4>1, PublishIn DEF HandleUpdate, AllIn
    <3> QED
      BY <1>12, <3>1, <3>2, <3>3 DEF HandleRequest
  <2> QED
    BY <1>12, <2>3 DEF HandleRequest, AllIn, mainVars, lstVars
<1>13. ASSUME NEW n \in Nodes, Restart(n) PROVE AllIn(G)'
  BY <1>13, NodeGoneIn DEF Restart, AllIn
<1>14. ASSUME NEW n \in Nodes, Crash(n) PROVE AllIn(G)'
  BY <1>14, NodeGoneIn DEF Crash, AllIn
<1>15. ASSUME NEW n \in Nodes, CrashInSave(n) PROVE AllIn(G)'
  BY <1>15, NodeGoneIn DEF CrashInSave, AllIn
<1>16. CASE UNCHANGED vars
  BY <1>16 DEF vars, AllIn
<1> QED
  BY <1>1, <1>2, <1>3, <1>4, <1>5, <1>6, <1>7, <1>8, <1>9, <1>10, <1>11, <1>12,
     <1>13, <1>14, <1>15, <1>16 DEF Next, ClientStep

-----------------------------------------------------------------------------
(* No double counting, in every schedule and after any crash. *)

(* The copies NoDoubleCount allows. *)
Single == {l \in Copy :
              /\ \A e, f \in l.map : e.item = f.item /\ e.rep = f.rep => e = f
              /\ \A e \in l.map : Seen(l.vc, e)}

LEMMA JoinSingle == \A a, b \in Single : Join(a, b) \in Single
<1> SUFFICES ASSUME NEW a \in Single, NEW b \in Single PROVE Join(a, b) \in Single
  OBVIOUS
<1> DEFINE j == Join(a, b)
<1>1. /\ j \in Copy /\ a \in Copy /\ b \in Copy
      /\ j.vc = JoinClock(a.vc, b.vc) /\ j.map = JoinMap(a, b)
  BY JoinType DEF Single, Join
<1>2. \A e \in a.map \cup b.map :
        e.seq \in Nat /\ e.rep \in Reps /\ a.vc[e.rep] \in Nat /\ b.vc[e.rep] \in Nat
  BY <1>1 DEF Copy, Entry
<1>3. \A e \in j.map : Seen(j.vc, e)
  <2>1. \A e \in a.map \cup b.map : Seen(a.vc, e) \/ Seen(b.vc, e) => Seen(j.vc, e)
    BY <1>1, <1>2 DEF JoinClock, Seen
  <2> QED
    BY <1>1, <2>1 DEF JoinMap, JoinCore, Single
<1>4. ASSUME NEW e \in j.map, NEW f \in j.map, e.item = f.item, e.rep = f.rep
      PROVE  e = f
  <2>1. CASE e \in a.map /\ f \in a.map
    BY <1>4, <2>1 DEF Single
  <2>2. CASE e \in b.map /\ f \in b.map
    BY <1>4, <2>2 DEF Single
  <2>3. ASSUME NEW x \in j.map, NEW y \in j.map, x.item = y.item, x.rep = y.rep,
               x \in a.map, y \notin a.map
        PROVE  FALSE
    <3>1. y \in b.map /\ ~Seen(a.vc, y) /\ ~SameDot(x, y)
      BY <1>1, <2>3 DEF JoinMap, JoinCore
    <3>2. Seen(a.vc, x) /\ Seen(b.vc, y)
      BY <2>3, <3>1 DEF Single
    <3>3. x.seq < y.seq
      BY <1>2, <2>3, <3>1, <3>2 DEF Seen
    <3>4. Seen(b.vc, x)
      BY <1>2, <2>3, <3>1, <3>2, <3>3 DEF Seen
    <3>5. PICK z \in b.map : SameDot(x, z)
      BY <1>1, <2>3, <3>1, <3>4 DEF JoinMap, JoinCore, SameDot
    <3>6. z.item = y.item /\ z.rep = y.rep /\ z.seq = x.seq
      BY <2>3, <3>5 DEF SameDot
    <3>7. z = y
      BY <3>1, <3>5, <3>6 DEF Single
    <3> QED
      BY <1>2, <2>3, <3>1, <3>3, <3>6, <3>7
  <2>4. j.map \subseteq a.map \cup b.map
    BY <1>1 DEF JoinMap, JoinCore
  <2> QED
    BY <1>4, <2>1, <2>2, <2>3, <2>4
<1> QED
  BY <1>1, <1>3, <1>4 DEF Single

LEMMA SingleClosed == Closed(Single)
<1>1. \A id \in Reps : EmptyCopy(id) \in Single
  BY EmptyCopyType DEF Single, EmptyCopy
<1>2. \A a \in Single, id \in Reps : [a EXCEPT !.id = id] \in Single
  BY DEF Single, Copy
<1> QED
  BY <1>1, <1>2, JoinSingle DEF Closed, Single

LEMMA PutSingle ==
  ASSUME NEW l \in Single, NEW i \in Items, NEW v \in Int
  PROVE  Put(l, i, v) \in Single
<1> DEFINE n == NewEntry(l, i, v)
           p == Put(l, i, v)
<1>1. /\ p \in Copy /\ l \in Copy
      /\ p.vc = [l.vc EXCEPT ![l.id] = @ + 1]
      /\ p.map = (l.map \ OwnEntries(l, i)) \cup {n}
  BY PutFields DEF Single
<1>2. /\ n.item = i /\ n.rep = l.id /\ n.seq = l.vc[l.id] + 1
      /\ l.id \in Reps /\ l.vc \in [Reps -> Nat]
  BY <1>1 DEF NewEntry, Copy
<1> HIDE DEF n, p
<1>3. \A e \in l.map : Seen(p.vc, e)
  <2>1. \A e \in l.map : e.seq \in Nat /\ e.rep \in Reps /\ l.vc[e.rep] \in Nat
    BY <1>1 DEF Copy, Entry
  <2> QED
    BY <1>1, <1>2, <2>1 DEF Seen, Single
<1>4. Seen(p.vc, n)
  BY <1>1, <1>2 DEF Seen
<1>5. \A e, f \in p.map : e.item = f.item /\ e.rep = f.rep => e = f
  BY <1>1, <1>2 DEF Single, OwnEntries
<1> QED
  BY <1>1, <1>3, <1>4, <1>5 DEF Single, p

(* NoDoubleCount holds for any number of clients, workers and items,       *)
(* whether or not the threads of a client overlap and whichever processes  *)
(* die: it is inductive, because a join drops the older of two entries of  *)
(* one replica and item, which the clock of the copy with the newer one    *)
(* has seen.                                                               *)
THEOREM NeverDoubleCounts == Spec => []NoDoubleCount
<1>1. Init => AllIn(Single)
  BY DEF Init, AllIn
<1>2. TypeOK /\ AllIn(Single) /\ [Next]_vars => AllIn(Single)'
  <2> SUFFICES ASSUME TypeOK, AllIn(Single), [Next]_vars PROVE AllIn(Single)'
    OBVIOUS
  <2>1. ASSUME NEW c \in Clients, NEW i \in Items, NEW d \in Int, Edit(c, i, d)
        PROVE  AllIn(Single)'
    <3>1. session[c] \in Single
      BY <2>1, NoCopyAssumption DEF Edit, TypeOK, AllIn
    <3>2. PICK v \in OwnValues(session[c], i) :
              session' = [session EXCEPT ![c] = Put(session[c], i, v + d)]
      BY <2>1 DEF Edit
    <3>3. v + d \in Int
      BY <3>1, <3>2, OwnValuesType DEF Single
    <3>4. session'[c] \in Single
      BY <3>1, <3>2, <3>3, PutSingle DEF TypeOK
    <3> QED
      BY <2>1, <3>4, EditIn
  <2>2. CASE \E c \in Clients, i \in Items, q \in Quantities : AddItem(c, i, q) \/ BuyItem(c, i, q)
    <3> SUFFICES ASSUME NEW c \in Clients, NEW i \in Items, NEW q \in Quantities,
                        AddItem(c, i, q) \/ BuyItem(c, i, q)
                 PROVE  AllIn(Single)'
      BY <2>2
    <3>1. q \in Int /\ -q \in Int
      BY BoundAssumption
    <3>2. Edit(c, i, q) \/ Edit(c, i, -q)
      BY DEF AddItem, CreateItem, IncreaseItem, BuyItem
    <3> QED
      BY <2>1, <3>1, <3>2
  <2>3. CASE ~ \E c \in Clients, i \in Items, q \in Quantities : AddItem(c, i, q) \/ BuyItem(c, i, q)
    BY <2>3, SingleClosed, AllInStep
  <2> QED
    BY <2>2, <2>3
<1>3. TypeOK /\ AllIn(Single) => NoDoubleCount
  <2>1. TypeOK /\ AllIn(Single) => Copies \subseteq Single
    BY AllInCopies DEF Single
  <2> QED
    BY <2>1 DEF NoDoubleCount, Single
<1> QED
  BY <1>1, <1>2, <1>3, TypeCorrect, PTL DEF Spec

-----------------------------------------------------------------------------
(* What the workers forget. *)

LEMMA JoinKeepsClock ==
  ASSUME NEW a \in Copy, NEW b \in Copy, NEW r \in Reps
  PROVE  a.vc[r] <= Join(a, b).vc[r]
<1>1. Join(a, b) \in Copy
  BY JoinType
<1>2. Join(a, b).vc = JoinClock(a.vc, b.vc)
  BY DEF Join
<1> QED
  BY <1>1, <1>2 DEF JoinClock, Copy

(* What a worker stores only grows while it runs, but for a CREATE_LIST    *)
(* that arrives late: in any schedule of the clients' threads, and         *)
(* whichever processes die.                                                *)
THEOREM WorkersKeepWhatTheyHeard == Spec => CloudForgetsOnlyOnCreate
<1> DEFINE Keeps(w) ==
             \/ w \in CrashProne /\ db'[w] = disk'[w]
             \/ \E r \in reqs \ reqs' : r.type = "CREATE_LIST" /\ r.to = w
             \/ db[w] = NoCopy
             \/ db'[w] # NoCopy /\ \A r \in Reps : db[w].vc[r] <= db'[w].vc[r]
<1>1. ASSUME TypeOK, [Next]_vars, NEW w \in Workers PROVE Keeps(w)
  <2>1. /\ db \in [Nodes -> MaybeCopy] /\ disk \in [Nodes -> MaybeCopy]
        /\ w \in Nodes /\ w \notin Clients /\ reqs \subseteq Request
    BY <1>1, NodeAssumption DEF TypeOK, Nodes
  <2>2. db[w] \in Copy => \A r \in Reps : db[w].vc[r] <= db[w].vc[r]
    BY DEF Copy
  <2>3. ASSUME db'[w] = db[w] PROVE Keeps(w)
    BY <2>1, <2>2, <2>3 DEF MaybeCopy
  <2>4. ASSUME NEW c \in Clients, ClientStep(c) PROVE db'[w] = db[w]
    <3>1. UNCHANGED db \/ \E l : db' = [db EXCEPT ![c] = l]
      BY <2>4 DEF ClientStep, CreateList, GetList, OpenList, AddItem, CreateItem, IncreaseItem, BuyItem,
         Edit, SaveRead, SaveWrite, DeleteList, Resubscribe, ReceiveUpdate, ListenerGet, ListenerMerge,
         ListenerCreate
    <3> QED
      BY <2>1, <2>4, <3>1
  <2>5. ASSUME NEW r \in reqs, HandleRequest(r) PROVE Keeps(w)
    <3>1. r \in reqs \ reqs' /\ r.to \in Nodes
      BY <1>1, <2>1, <2>5 DEF HandleRequest, Request, Nodes
    <3>2. CASE HandleCreate(r)
      <4>1. r.to = w \/ db'[w] = db[w]
        BY <2>1, <3>1, <3>2 DEF HandleCreate
      <4> QED
        BY <2>3, <3>1, <3>2, <4>1 DEF HandleCreate
    <3>3. CASE HandleGet(r)
      BY <2>3, <3>3 DEF HandleGet
    <3>4. CASE HandleUpdate(r)
      <4>1. r.list \in Copy
        BY <2>1, <3>4 DEF HandleUpdate, Request
      <4>2. CASE r.to = w /\ db[w] # NoCopy
        <5>1. db[w] \in Copy /\ FromJson(db[w]) = db[w] /\ FromJson(r.list) = r.list
          BY <2>1, <4>1, <4>2, FromJsonIdentity DEF MaybeCopy
        <5>2. db'[w] = Join(db[w], r.list)
          BY <2>1, <3>4, <4>2, <5>1 DEF HandleUpdate
        <5>3. \A p \in Reps : db[w].vc[p] <= db'[w].vc[p]
          BY <4>1, <5>1, <5>2, JoinKeepsClock
        <5>4. db'[w] # NoCopy
          BY <4>1, <5>1, <5>2, JoinType, NoCopyAssumption
        <5> QED
          BY <5>3, <5>4
      <4>3. CASE r.to # w
        BY <2>1, <2>3, <3>1, <3>4, <4>3 DEF HandleUpdate
      <4> QED
        BY <4>2, <4>3
    <3> QED
      BY <2>5, <3>2, <3>3, <3>4 DEF HandleRequest
  <2>6. ASSUME NEW n \in Nodes, Restart(n) \/ Crash(n) \/ CrashInSave(n) PROVE Keeps(w)
    <3>1. CASE Restart(n)
      BY <2>3, <3>1 DEF Restart
    <3>2. CASE Crash(n)
      BY <2>1, <2>3, <3>2 DEF Crash
    <3>3. CASE CrashInSave(n)
      BY <2>1, <2>3, <3>3 DEF CrashInSave
    <3> QED
      BY <2>6, <3>1, <3>2, <3>3
  <2> QED
    BY <1>1, <2>3, <2>4, <2>5, <2>6 DEF Next, vars
<1>2. TypeOK /\ [Next]_vars => [\A w \in Workers : Keeps(w)]_vars
  BY <1>1
<1> QED
  BY <1>2, TypeCorrect, PTL DEF Spec, CloudForgetsOnlyOnCreate

-----------------------------------------------------------------------------
(* Convergence, under two conditions the code itself does not enforce: the *)
(* read-join-write windows of a client's two threads do not overlap        *)
(* (Serialized), and no client dies without saving its database.  Workers  *)
(* may die at any time.                                                    *)

Orderly == Serialized /\ CrashProne \cap Clients = {}

LEMMA CopyIsNotNoCopy == \A l \in Copy : l # NoCopy
  BY NoCopyAssumption

(* Requests are handled at workers, and only workers crash. *)
LEMMA ElsewhereUntouched ==
  ASSUME TypeOK, Orderly, NEW c \in Clients
  PROVE  /\ \A r \in reqs : HandleRequest(r) => db'[c] = db[c]
         /\ \A n \in Nodes : Crash(n) \/ CrashInSave(n) =>
               /\ n \notin Clients /\ db'[c] = db[c]
               /\ UNCHANGED <<mainVars, lstVars, subscribed, pubs>>
<1>1. ASSUME NEW r \in reqs, HandleRequest(r) PROVE db'[c] = db[c]
  <2>1. r.to # c /\ c \in Nodes
    BY NodeAssumption DEF TypeOK, Request, Nodes
  <2> QED
    BY <1>1, <2>1 DEF HandleRequest, HandleCreate, HandleGet, HandleUpdate, TypeOK
<1>2. ASSUME NEW n \in Nodes, Crash(n) \/ CrashInSave(n)
      PROVE  /\ n \notin Clients /\ db'[c] = db[c]
             /\ UNCHANGED <<mainVars, lstVars, subscribed, pubs>>
  BY <1>2 DEF Orderly, Crash, CrashInSave, NodeGone, Nodes, TypeOK
<1> QED
  BY <1>1, <1>2

(* What a thread writes to the database it just read: a copy with the same *)
(* id and a clock no smaller in any place.                                 *)
LEMMA WriteBack ==
  ASSUME NEW b \in Copy, NEW o \in Copy
  PROVE  /\ FromJson(b) = b /\ FromJson(o) = o
         /\ Join(b, o) \in Copy /\ Join(b, o) # NoCopy
         /\ Join(b, o).id = b.id
         /\ \A r \in Reps : /\ b.vc[r] <= Join(b, o).vc[r]
                            /\ o.vc[r] <= Join(b, o).vc[r]
<1>1. Join(b, o) \in Copy /\ Join(b, o).id = b.id /\ Join(b, o).vc = JoinClock(b.vc, o.vc)
  BY JoinType DEF Join
<1>2. \A r \in Reps : b.vc[r] \in Nat /\ o.vc[r] \in Nat
  BY DEF Copy
<1>3. \A r \in Reps : b.vc[r] <= JoinClock(b.vc, o.vc)[r] /\ o.vc[r] <= JoinClock(b.vc, o.vc)[r]
  BY <1>2 DEF JoinClock
<1> QED
  BY <1>1, <1>3, FromJsonIdentity, CopyIsNotNoCopy

LEMMA SaveWriteEffect ==
  ASSUME TypeOK, ThreadInv, NEW c \in Clients, SaveWrite(c)
  PROVE  /\ db[c] \in Copy /\ session[c] \in Copy
         /\ db' = [db EXCEPT ![c] = Join(db[c], session[c])]
<1>1. db[c] \in Copy /\ session[c] \in Copy /\ saveBase[c] = db[c]
  BY DEF SaveWrite, TypeOK, ThreadInv, MaybeCopy, Nodes
<1> QED
  BY <1>1, WriteBack, CopyIsNotNoCopy DEF SaveWrite

LEMMA ListenerMergeEffect ==
  ASSUME TypeOK, ThreadInv, NEW c \in Clients, ListenerMerge(c)
  PROVE  /\ db[c] \in Copy /\ update[c] \in Copy
         /\ db' = [db EXCEPT ![c] = Join(db[c], update[c])]
<1>1. db[c] \in Copy /\ update[c] \in Copy /\ lstBase[c] = db[c]
  BY DEF ListenerMerge, TypeOK, ThreadInv, MaybeCopy, Nodes
<1> QED
  BY <1>1, WriteBack DEF ListenerMerge

-----------------------------------------------------------------------------
LEMMA ThreadStep ==
  ASSUME TypeOK, ThreadInv, IdInv, Orderly, [Next]_vars
  PROVE  ThreadInv'
<1> USE DEF ThreadInv
<1>1. ASSUME NEW c \in Clients, CreateList(c) PROVE ThreadInv'
  <2>1. PICK u \in Uuids : db' = [db EXCEPT ![c] = EmptyCopy(u)]
    BY <1>1 DEF CreateList
  <2>2. EmptyCopy(u) # NoCopy
    BY EmptyCopyType, CopyIsNotNoCopy DEF Reps
  <2>3. \A x \in Clients : lstPc[x] = "idle" /\ c \in Nodes
    BY <1>1 DEF CreateList, IdInv, Nodes
  <2> QED
    BY <1>1, <2>1, <2>2, <2>3 DEF CreateList, mainVars, lstVars, TypeOK, Nodes
<1>2. ASSUME NEW c \in Clients, GetList(c) PROVE ThreadInv'
  BY <1>2 DEF GetList, mainVars, lstVars
<1>3. ASSUME NEW c \in Clients, OpenList(c) PROVE ThreadInv'
  <2>1. FromJson(db[c]) = db[c]
    BY <1>3, FromJsonIdentity DEF OpenList, TypeOK, MaybeCopy, Nodes
  <2> QED
    BY <1>3, <2>1 DEF OpenList, lstVars, TypeOK
<1>4. ASSUME NEW c \in Clients, NEW i \in Items, NEW d \in Int, Edit(c, i, d)
      PROVE  ThreadInv'
  <2>1. PICK v \in OwnValues(session[c], i) :
            session' = [session EXCEPT ![c] = Put(session[c], i, v + d)]
    BY <1>4 DEF Edit
  <2>2. Put(session[c], i, v + d).id = session[c].id
    BY DEF Put
  <2> QED
    BY <1>4, <2>1, <2>2 DEF Edit, lstVars, TypeOK
<1>5. ASSUME NEW c \in Clients, SaveRead(c) PROVE ThreadInv'
  BY <1>5 DEF SaveRead, lstVars, TypeOK, Orderly
<1>6. ASSUME NEW c \in Clients, SaveWrite(c) PROVE ThreadInv'
  <2>1. db'[c] # NoCopy /\ \A x \in Clients \ {c} : db'[x] = db[x]
    <3>1. /\ db[c] \in Copy /\ session[c] \in Copy
          /\ db' = [db EXCEPT ![c] = Join(db[c], session[c])]
      BY <1>6, SaveWriteEffect
    <3>2. Join(db[c], session[c]) # NoCopy
      BY <3>1, WriteBack
    <3> QED
      BY <3>1, <3>2 DEF TypeOK, Nodes
  <2>2. lstPc[c] = "idle"
    BY <1>6 DEF SaveWrite
  <2> QED
    BY <1>6, <2>1, <2>2 DEF SaveWrite, lstVars, TypeOK
<1>7. ASSUME NEW c \in Clients, DeleteList(c) PROVE ThreadInv'
  BY <1>7 DEF DeleteList, mainVars, lstVars, TypeOK, Orderly, Nodes
<1>8. ASSUME NEW c \in Clients, Resubscribe(c) PROVE ThreadInv'
  BY <1>8 DEF Resubscribe, mainVars, lstVars
<1>9. ASSUME NEW c \in Clients, ReceiveUpdate(c) PROVE ThreadInv'
  BY <1>9 DEF ReceiveUpdate, mainVars, TypeOK, Orderly
<1>10. ASSUME NEW c \in Clients, ListenerGet(c) PROVE ThreadInv'
  BY <1>10 DEF ListenerGet, mainVars, TypeOK
<1>11. ASSUME NEW c \in Clients, ListenerMerge(c) PROVE ThreadInv'
  <2>1. /\ db'[c] # NoCopy /\ db'[c].id = db[c].id
        /\ \A x \in Clients \ {c} : db'[x] = db[x]
    <3>1. /\ db[c] \in Copy /\ update[c] \in Copy
          /\ db' = [db EXCEPT ![c] = Join(db[c], update[c])]
      BY <1>11, ListenerMergeEffect
    <3>2. Join(db[c], update[c]) # NoCopy /\ Join(db[c], update[c]).id = db[c].id
      BY <3>1, WriteBack
    <3> QED
      BY <3>1, <3>2 DEF TypeOK, Nodes
  <2>2. mainPc[c] # "save"
    BY <1>11 DEF ListenerMerge
  <2> QED
    BY <1>11, <2>1, <2>2 DEF ListenerMerge, ListenerDone, mainVars, TypeOK
<1>12. ASSUME NEW c \in Clients, ListenerCreate(c) PROVE ThreadInv'
  <2>1. mainPc[c] = "menu"
    BY <1>12 DEF ListenerCreate, TypeOK
  <2>2. \A x \in Clients \ {c} : db'[x] = db[x]
    BY <1>12 DEF ListenerCreate, TypeOK, Nodes
  <2> QED
    BY <1>12, <2>1, <2>2 DEF ListenerCreate, ListenerDone, mainVars, TypeOK
<1>13. ASSUME NEW r \in reqs, HandleRequest(r) PROVE ThreadInv'
  BY <1>13, ElsewhereUntouched DEF HandleRequest, mainVars, lstVars
<1>14. ASSUME NEW n \in Nodes, Restart(n) PROVE ThreadInv'
  <2>1. db' = db
    BY <1>14 DEF Restart
  <2>2. CASE n \in Clients
    <3>1. ClientGone(n)
      BY <1>14, <2>2 DEF Restart, NodeGone
    <3>2. /\ mainPc' = [mainPc EXCEPT ![n] = "menu"]
          /\ session' = [session EXCEPT ![n] = NoCopy]
          /\ saveBase' = [saveBase EXCEPT ![n] = NoCopy]
          /\ lstPc' = [lstPc EXCEPT ![n] = "idle"]
          /\ lstBase' = [lstBase EXCEPT ![n] = NoCopy]
      BY <3>1 DEF ClientGone, ListenerDone
    <3>3. \A x \in Clients \ {n} :
            /\ mainPc'[x] = mainPc[x] /\ session'[x] = session[x]
            /\ saveBase'[x] = saveBase[x] /\ lstPc'[x] = lstPc[x]
            /\ lstBase'[x] = lstBase[x]
      BY <3>2 DEF TypeOK
    <3>4. mainPc'[n] = "menu" /\ lstPc'[n] = "idle"
      BY <2>2, <3>2 DEF TypeOK
    <3> QED
      BY <2>1, <3>3, <3>4
  <2>3. CASE n \notin Clients
    BY <1>14, <2>1, <2>3 DEF Restart, NodeGone, mainVars, lstVars
  <2> QED
    BY <2>2, <2>3
<1>15. ASSUME NEW n \in Nodes, Crash(n) \/ CrashInSave(n) PROVE ThreadInv'
  BY <1>15, ElsewhereUntouched DEF mainVars, lstVars
<1>16. CASE UNCHANGED vars
  BY <1>16 DEF vars
<1>17. ASSUME NEW c \in Clients, NEW i \in Items, NEW q \in Quantities,
              AddItem(c, i, q) \/ BuyItem(c, i, q)
       PROVE  ThreadInv'
  BY <1>4, <1>17, BoundAssumption DEF AddItem, CreateItem, IncreaseItem, BuyItem
<1> QED
  BY <1>1, <1>2, <1>3, <1>5, <1>6, <1>7, <1>8, <1>9, <1>10, <1>11, <1>12, <1>13,
     <1>14, <1>15, <1>16, <1>17 DEF Next, ClientStep

-----------------------------------------------------------------------------
(* What a step does to the database of a client: the first copy is stored  *)
(* under an id nobody used, and a copy that is replaced passes on its id   *)
(* and all its clock.                                                      *)
KeptOrFresh(x) ==
    /\ used \subseteq used'
    /\ db[x] = NoCopy /\ db'[x] # NoCopy =>
          /\ db'[x].id \in used' \ used
          /\ \A y \in Clients \ {x} : db'[y] = db[y]
    /\ db[x] # NoCopy /\ db'[x] # NoCopy =>
          /\ db'[x].id = db[x].id
          /\ \A r \in Reps : db[x].vc[r] <= db'[x].vc[r]

LEMMA StoredStep ==
  ASSUME TypeOK, ThreadInv, IdInv, Orderly, [Next]_vars
  PROVE  \A x \in Clients : KeptOrFresh(x)
<1> SUFFICES ASSUME NEW x \in Clients PROVE KeptOrFresh(x)
  OBVIOUS
<1>0. x \in Nodes /\ db[x] \in MaybeCopy
  BY DEF Nodes, TypeOK
<1>1. ASSUME db'[x] = db[x], used' = used PROVE KeptOrFresh(x)
  <2>1. db[x] # NoCopy => \A r \in Reps : db[x].vc[r] \in Nat
    BY <1>0 DEF MaybeCopy, Copy
  <2> QED
    BY <1>1, <2>1 DEF KeptOrFresh
<1>2. ASSUME NEW c \in Clients, CreateList(c) PROVE KeptOrFresh(x)
  <2>1. PICK u \in Uuids : /\ used' = {u} /\ used = {}
                           /\ db' = [db EXCEPT ![c] = EmptyCopy(u)]
    BY <1>2 DEF CreateList
  <2>2. db[x] = NoCopy
    BY <2>1 DEF IdInv
  <2>3. \A y \in Clients \ {c} : db'[y] = db[y]
    BY <2>1 DEF TypeOK, Nodes
  <2>4. c \in Nodes /\ db'[c] = EmptyCopy(u)
    BY <2>1 DEF TypeOK, Nodes
  <2>5. db'[c].id = u
    BY <2>4 DEF EmptyCopy
  <2> QED
    BY <2>1, <2>2, <2>3, <2>5 DEF KeptOrFresh
<1>3. ASSUME NEW c \in Clients, ListenerCreate(c) PROVE KeptOrFresh(x)
  <2>1. PICK u \in Uuids \ used :
            used' = used \cup {u} /\ db' = [db EXCEPT ![c] = [update[c] EXCEPT !.id = u]]
    BY <1>3 DEF ListenerCreate
  <2>2. db[c] = NoCopy /\ update[c] \in Copy
    BY <1>3 DEF ThreadInv, ListenerCreate, TypeOK
  <2>3. \A y \in Clients \ {c} : db'[y] = db[y]
    BY <2>1 DEF TypeOK, Nodes
  <2>4. db'[c] = [update[c] EXCEPT !.id = u]
    BY <2>1 DEF TypeOK, Nodes
  <2>5. db'[c].id = u
    BY <2>2, <2>4 DEF Copy
  <2>6. \A r \in Reps : db[x] # NoCopy => db[x].vc[r] \in Nat
    BY <1>0 DEF MaybeCopy, Copy
  <2> QED
    BY <2>1, <2>2, <2>3, <2>5, <2>6 DEF KeptOrFresh
<1>4. ASSUME NEW c \in Clients, NEW b \in Copy, NEW o \in Copy, b = db[c],
             db' = [db EXCEPT ![c] = Join(b, o)], used' = used
      PROVE  KeptOrFresh(x)
  <2>1. \A y \in Clients \ {c} : db'[y] = db[y]
    BY <1>4 DEF TypeOK, Nodes
  <2>2. db'[c] = Join(b, o)
    BY <1>4 DEF TypeOK, Nodes
  <2>3. CASE x = c
    <3>1. b # NoCopy
      BY CopyIsNotNoCopy
    <3>2. /\ Join(b, o).id = b.id
          /\ \A r \in Reps : b.vc[r] <= Join(b, o).vc[r]
      BY WriteBack
    <3>3. db[x] = b /\ db'[x] = Join(b, o)
      BY <1>4, <2>2, <2>3
    <3> QED
      BY <1>4, <3>1, <3>2, <3>3 DEF KeptOrFresh
  <2>4. CASE x # c
    BY <1>1, <1>4, <2>1, <2>4
  <2> QED
    BY <2>3, <2>4
<1>5. ASSUME NEW c \in Clients, SaveWrite(c) PROVE KeptOrFresh(x)
  BY <1>4, <1>5, SaveWriteEffect DEF SaveWrite, histVars
<1>6. ASSUME NEW c \in Clients, ListenerMerge(c) PROVE KeptOrFresh(x)
  BY <1>4, <1>6, ListenerMergeEffect DEF ListenerMerge, histVars
<1>7. ASSUME NEW c \in Clients, DeleteList(c) PROVE KeptOrFresh(x)
  <2>1. db'[x] = NoCopy \/ db'[x] = db[x]
    BY <1>0, <1>7 DEF DeleteList, TypeOK
  <2> QED
    BY <1>1, <1>7, <2>1 DEF DeleteList, histVars, KeptOrFresh
<1>8. ASSUME NEW r \in reqs, HandleRequest(r) PROVE KeptOrFresh(x)
  BY <1>1, <1>8, ElsewhereUntouched DEF HandleRequest, histVars
<1>9. ASSUME NEW n \in Nodes, Crash(n) \/ CrashInSave(n) PROVE KeptOrFresh(x)
  BY <1>1, <1>9, ElsewhereUntouched DEF Crash, CrashInSave, histVars
<1>10. CASE db' = db /\ used' = used
  BY <1>1, <1>10
<1>11. ASSUME NEW c \in Clients,
              \/ GetList(c) \/ OpenList(c) \/ SaveRead(c) \/ Resubscribe(c)
              \/ ReceiveUpdate(c) \/ ListenerGet(c)
              \/ \E i \in Items, q \in Quantities : AddItem(c, i, q) \/ BuyItem(c, i, q)
       PROVE  KeptOrFresh(x)
  BY <1>10, <1>11 DEF GetList, OpenList, SaveRead, Resubscribe, ReceiveUpdate,
       ListenerGet, AddItem, CreateItem, IncreaseItem, BuyItem, Edit, histVars
<1>12. ASSUME NEW n \in Nodes, Restart(n) PROVE KeptOrFresh(x)
  BY <1>10, <1>12 DEF Restart, histVars
<1>13. CASE UNCHANGED vars
  BY <1>10, <1>13 DEF vars
<1> QED
  BY <1>2, <1>3, <1>5, <1>6, <1>7, <1>8, <1>9, <1>11, <1>12, <1>13 DEF Next, ClientStep

(* Of the entries an edit mints, the one under the next dot of its own id. *)
LEMMA EditEffect ==
  ASSUME TypeOK, ThreadInv, NEW c \in Clients, NEW i \in Items, NEW d \in Int,
         Edit(c, i, d)
  PROVE  \E v \in Int :
           LET l == session[c] IN
           /\ l \in Copy /\ db[c] # NoCopy /\ l.id = db[c].id
           /\ session' = [session EXCEPT ![c] = Put(l, i, v)]
           /\ minted' = minted \cup {NewEntry(l, i, v)}
           /\ Lead(c) = l.vc[l.id]
<1>1. session[c] \in Copy /\ db[c] # NoCopy /\ session[c].id = db[c].id
  BY DEF Edit, TypeOK, ThreadInv
<1>2. PICK v \in OwnValues(session[c], i) :
          /\ session' = [session EXCEPT ![c] = Put(session[c], i, v + d)]
          /\ minted' = minted \cup {NewEntry(session[c], i, v + d)}
  BY DEF Edit
<1>3. v + d \in Int
  BY <1>1, <1>2, OwnValuesType
<1>4. Lead(c) = session[c].vc[session[c].id]
  BY <1>1 DEF Lead, Edit
<1> QED
  BY <1>1, <1>2, <1>3, <1>4

Editing == \E c \in Clients, i \in Items, q \in Quantities : AddItem(c, i, q) \/ BuyItem(c, i, q)

LEMMA EditingIsEdit ==
  Editing => \E c \in Clients, i \in Items, d \in Int : Edit(c, i, d)
<1> SUFFICES ASSUME NEW c \in Clients, NEW i \in Items, NEW q \in Quantities,
                    AddItem(c, i, q) \/ BuyItem(c, i, q)
             PROVE  \E d \in Int : Edit(c, i, d)
  BY DEF Editing
<1>1. q \in Int /\ -q \in Int
  BY BoundAssumption
<1>2. Edit(c, i, q) \/ Edit(c, i, -q)
  BY DEF AddItem, CreateItem, IncreaseItem, BuyItem
<1> QED
  BY <1>1, <1>2

(* Only edits mint entries. *)
LEMMA MintedKept ==
  ASSUME [Next]_vars, ~Editing
  PROVE  minted' = minted
  BY DEF Editing, Next, ClientStep, vars, CreateList, GetList, OpenList, SaveRead, SaveWrite,
         DeleteList, Resubscribe, ReceiveUpdate, ListenerGet, ListenerMerge,
         ListenerCreate, HandleRequest, Restart, Crash, CrashInSave, histVars

LEMMA IdStep ==
  ASSUME TypeOK, ThreadInv, IdInv, Orderly, [Next]_vars
  PROVE  IdInv'
<1>1. \A x \in Clients : KeptOrFresh(x)
  BY StoredStep
<1>2. \A x \in Clients : db'[x] # NoCopy => db'[x].id \in used'
  BY <1>1 DEF KeptOrFresh, IdInv
<1>3. \A x, y \in Clients : x # y /\ db'[x] # NoCopy /\ db'[y] # NoCopy => db'[x].id # db'[y].id
  BY <1>1 DEF KeptOrFresh, IdInv
<1>4. \A e \in minted' : e.rep \in used'
  <2>1. CASE Editing
    <3>1. PICK c \in Clients, i \in Items, d \in Int : Edit(c, i, d)
      BY <2>1, EditingIsEdit
    <3>2. PICK v \in Int : /\ minted' = minted \cup {NewEntry(session[c], i, v)}
                           /\ db[c] # NoCopy /\ session[c].id = db[c].id
      BY <3>1, EditEffect
    <3>3. NewEntry(session[c], i, v).rep = db[c].id
      BY <3>2 DEF NewEntry
    <3>4. used' = used
      BY <3>1 DEF Edit
    <3> QED
      BY <3>2, <3>3, <3>4 DEF IdInv
  <2>2. CASE ~Editing
    <3>1. minted' = minted
      BY <2>2, MintedKept
    <3>2. used \subseteq used'
      <4>1. CASE Clients = {}
        BY <2>2, <4>1 DEF Editing, Next, ClientStep, vars, HandleRequest, Restart, Crash, CrashInSave, histVars
      <4>2. CASE Clients # {}
        BY <1>1, <4>2 DEF KeptOrFresh
      <4> QED
        BY <4>1, <4>2
    <3> QED
      BY <3>1, <3>2 DEF IdInv
  <2> QED
    BY <2>1, <2>2
<1>5. used' = {} => reqs' = {} /\ \A c \in Clients : pubs'[c] = <<>> /\ lstPc'[c] = "idle"
  <2> SUFFICES ASSUME used' = {} PROVE reqs' = {} /\ \A c \in Clients : pubs'[c] = <<>> /\ lstPc'[c] = "idle"
    OBVIOUS
  <2>1. CASE Clients = {}
    BY <2>1 DEF IdInv, Next, vars, HandleRequest, Restart, Crash, CrashInSave, histVars
  <2>2. CASE Clients # {}
    <3>1. used = {}
      BY <1>1, <2>2 DEF KeptOrFresh
    <3>2. /\ reqs = {} /\ \A c \in Clients : pubs[c] = <<>> /\ lstPc[c] = "idle"
          /\ \A c \in Clients : db[c] = NoCopy /\ mainPc[c] = "menu"
      BY <3>1 DEF IdInv, ThreadInv, TypeOK
    <3>3. ASSUME NEW c \in Clients, ClientStep(c) PROVE FALSE
      <4>1. ~CreateList(c)
        BY <3>1, <1>2 DEF CreateList, IdInv
      <4>2. ~ReceiveUpdate(c)
        BY <3>2 DEF ReceiveUpdate
      <4> QED
        BY <3>1, <3>2, <3>3, <4>1, <4>2 DEF ClientStep, GetList, OpenList, AddItem, CreateItem, IncreaseItem, BuyItem, Edit, SaveRead,
             SaveWrite, DeleteList, Resubscribe, ListenerGet, ListenerMerge, ListenerCreate
    <3>4. ASSUME NEW n \in Nodes, Restart(n) \/ Crash(n) \/ CrashInSave(n)
          PROVE  reqs' = {} /\ \A c \in Clients : pubs'[c] = <<>> /\ lstPc'[c] = "idle"
      BY <3>2, <3>4 DEF Restart, Crash, CrashInSave, NodeGone, ClientGone, ListenerDone, lstVars, TypeOK
    <3>5. CASE UNCHANGED vars
      BY <3>2, <3>5 DEF vars
    <3> QED
      BY <3>2, <3>3, <3>4, <3>5 DEF Next
  <2> QED
    BY <2>1, <2>2
<1> QED
  BY <1>2, <1>3, <1>4, <1>5 DEF IdInv

-----------------------------------------------------------------------------
(* Without an edit, what a client leads with only grows: it is taken from  *)
(* the database into the session and comes back by a join.                 *)
LEMMA LeadKept ==
  ASSUME TypeOK, ThreadInv, IdInv, Orderly, [Next]_vars, ~Editing,
         NEW x \in Clients, db[x] # NoCopy, db'[x] # NoCopy
  PROVE  Lead(x) <= Lead(x)'
<1> DEFINE k == db[x].id
<1>1. /\ x \in Nodes /\ db[x] \in Copy /\ k \in Reps
      /\ mainPc[x] # "menu" => session[x] \in Copy
      /\ db[x].vc[k] \in Nat
      /\ mainPc[x] # "menu" => session[x].vc[k] \in Nat
  BY DEF TypeOK, Nodes, MaybeCopy, Copy
<1>2. db'[x].id = k /\ db[x].vc[k] <= db'[x].vc[k]
  BY <1>1, StoredStep DEF KeptOrFresh
<1> HIDE DEF k
<1>3. Lead(x) = IF mainPc[x] = "menu" THEN db[x].vc[k] ELSE session[x].vc[k]
  BY DEF Lead, k
<1>4. Lead(x)' = IF mainPc'[x] = "menu" THEN db'[x].vc[k] ELSE session'[x].vc[k]
  BY <1>2 DEF Lead
<1>5. CASE mainPc'[x] = mainPc[x] /\ session'[x] = session[x]
  BY <1>1, <1>2, <1>3, <1>4, <1>5
<1>6. ASSUME NEW c \in Clients, OpenList(c) PROVE Lead(x) <= Lead(x)'
  <2>1. CASE x = c
    <3>1. session' = [session EXCEPT ![x] = FromJson(db[x])] /\ mainPc[x] = "menu"
          /\ mainPc' = [mainPc EXCEPT ![x] = "edit"]
      BY <1>6, <2>1 DEF OpenList
    <3>2. FromJson(db[x]) = db[x]
      BY <1>1, FromJsonIdentity
    <3>3. session'[x] = db[x] /\ mainPc'[x] = "edit"
      BY <3>1, <3>2 DEF TypeOK
    <3> QED
      BY <1>1, <1>3, <1>4, <3>1, <3>3
  <2>2. CASE x # c
    <3>1. session'[x] = session[x] /\ mainPc'[x] = mainPc[x]
      BY <1>6, <2>2 DEF OpenList, TypeOK
    <3> QED
      BY <1>5, <3>1
  <2> QED
    BY <2>1, <2>2
<1>7. ASSUME NEW c \in Clients, SaveRead(c) PROVE Lead(x) <= Lead(x)'
  <2>1. session'[x] = session[x] /\ mainPc' = [mainPc EXCEPT ![c] = "save"] /\ mainPc[c] = "edit"
    BY <1>7 DEF SaveRead
  <2>2. mainPc'[x] = "menu" <=> mainPc[x] = "menu"
    BY <2>1 DEF TypeOK
  <2> QED
    BY <1>1, <1>2, <1>3, <1>4, <2>1, <2>2
<1>8. ASSUME NEW c \in Clients, SaveWrite(c) PROVE Lead(x) <= Lead(x)'
  <2>1. CASE x = c
    <3>1. db[x] \in Copy /\ session[x] \in Copy /\ db' = [db EXCEPT ![x] = Join(db[x], session[x])]
      BY <1>8, <2>1, SaveWriteEffect
    <3>2. db'[x] = Join(db[x], session[x])
      BY <1>1, <3>1 DEF TypeOK
    <3>3. session[x].vc[k] <= db'[x].vc[k]
      BY <1>1, <3>1, <3>2, WriteBack
    <3>4. mainPc[x] = "save" /\ mainPc'[x] = "menu"
      BY <1>8, <2>1 DEF SaveWrite, TypeOK
    <3> QED
      BY <1>3, <1>4, <3>3, <3>4
  <2>2. CASE x # c
    <3>1. session'[x] = session[x] /\ mainPc'[x] = mainPc[x]
      BY <1>8, <2>2 DEF SaveWrite, TypeOK
    <3> QED
      BY <1>5, <3>1
  <2> QED
    BY <2>1, <2>2
<1>9. ASSUME NEW n \in Nodes, Restart(n) PROVE Lead(x) <= Lead(x)'
  <2>1. CASE n = x
    <3>1. mainPc[x] = "menu" /\ mainPc'[x] = "menu"
      BY <1>9, <2>1 DEF Restart, NodeGone, ClientGone, TypeOK
    <3> QED
      BY <1>2, <1>3, <1>4, <3>1
  <2>2. CASE n # x
    <3>1. session'[x] = session[x] /\ mainPc'[x] = mainPc[x]
      <4>1. CASE n \in Clients
        BY <1>9, <2>2, <4>1 DEF Restart, NodeGone, ClientGone, TypeOK
      <4>2. CASE n \notin Clients
        BY <1>9, <4>2 DEF Restart, NodeGone, mainVars
      <4> QED
        BY <4>1, <4>2
    <3> QED
      BY <1>5, <3>1
  <2> QED
    BY <2>1, <2>2
<1>10. ASSUME NEW n \in Nodes, Crash(n) \/ CrashInSave(n) PROVE Lead(x) <= Lead(x)'
  BY <1>5, <1>10, ElsewhereUntouched DEF mainVars
<1>11. ASSUME NEW c \in Clients,
              \/ CreateList(c) \/ GetList(c) \/ DeleteList(c) \/ Resubscribe(c)
              \/ ReceiveUpdate(c) \/ ListenerGet(c) \/ ListenerMerge(c) \/ ListenerCreate(c)
       PROVE  Lead(x) <= Lead(x)'
  BY <1>5, <1>11 DEF CreateList, GetList, DeleteList, Resubscribe, ReceiveUpdate,
       ListenerGet, ListenerMerge, ListenerCreate, mainVars
<1>12. ASSUME NEW r \in reqs, HandleRequest(r) PROVE Lead(x) <= Lead(x)'
  BY <1>5, <1>12 DEF HandleRequest, mainVars
<1>13. CASE UNCHANGED vars
  BY <1>5, <1>13 DEF vars
<1> QED
  BY <1>6, <1>7, <1>8, <1>9, <1>10, <1>11, <1>12, <1>13 DEF Next, ClientStep, Editing

LEMMA LeadType ==
  ASSUME TypeOK, NEW x \in Clients, db[x] # NoCopy
  PROVE  Lead(x) \in Nat
  BY DEF TypeOK, Nodes, MaybeCopy, Copy, Lead

(* The new entry of an edit comes after all of its id, which is the id of  *)
(* the editing client alone.                                               *)
LEMMA EditIsNext ==
  ASSUME TypeOK, ThreadInv, LeadInv, NEW c \in Clients, NEW i \in Items, NEW v \in Int,
         session[c] \in Copy, db[c] # NoCopy, session[c].id = db[c].id,
         Lead(c) = session[c].vc[session[c].id]
  PROVE  LET n == NewEntry(session[c], i, v) IN
         /\ n \in Entry /\ n.rep = db[c].id /\ n.seq = Lead(c) + 1
         /\ \A e \in minted : e.rep = n.rep => e.seq < n.seq
<1>1. NewEntry(session[c], i, v) \in Entry
  BY NewEntryType
<1>2. NewEntry(session[c], i, v).rep = db[c].id /\ NewEntry(session[c], i, v).seq = Lead(c) + 1
  BY DEF NewEntry
<1>3. Lead(c) \in Nat /\ \A e \in minted : e.seq \in Nat
  BY LeadType DEF TypeOK, Entry
<1> QED
  BY <1>1, <1>2, <1>3 DEF LeadInv

LEMMA LeadStep ==
  ASSUME TypeOK, ThreadInv, IdInv, LeadInv, UniqueDots(minted), Orderly, [Next]_vars, TypeOK'
  PROVE  LeadInv' /\ UniqueDots(minted)'
<1>1. CASE Editing
  <2>1. PICK c \in Clients, i \in Items, d \in Int : Edit(c, i, d)
    BY <1>1, EditingIsEdit
  <2>2. PICK v \in Int :
           /\ session[c] \in Copy /\ db[c] # NoCopy /\ session[c].id = db[c].id
           /\ session' = [session EXCEPT ![c] = Put(session[c], i, v)]
           /\ minted' = minted \cup {NewEntry(session[c], i, v)}
           /\ Lead(c) = session[c].vc[session[c].id]
    BY <2>1, EditEffect
  <2> DEFINE n == NewEntry(session[c], i, v)
  <2>3. /\ n \in Entry /\ n.rep = db[c].id /\ n.seq = Lead(c) + 1
        /\ \A e \in minted : e.rep = n.rep => e.seq < n.seq
    BY <2>2, EditIsNext
  <2>4. db' = db /\ mainPc' = mainPc /\ mainPc[c] = "edit"
    BY <2>1 DEF Edit
  <2>5. Lead(c)' = Lead(c) + 1
    <3>1. Put(session[c], i, v).vc = [session[c].vc EXCEPT ![session[c].id] = @ + 1]
      BY DEF Put
    <3>2. session'[c].vc = [session[c].vc EXCEPT ![session[c].id] = @ + 1]
      BY <2>2, <3>1 DEF TypeOK
    <3>3. session[c].vc \in [Reps -> Nat] /\ session[c].id \in Reps
      BY <2>2 DEF Copy
    <3>4. Lead(c)' = session'[c].vc[session[c].id]
      BY <2>2, <2>4 DEF Lead
    <3> QED
      BY <2>2, <3>2, <3>3, <3>4
  <2>6. \A x \in Clients \ {c} : Lead(x)' = Lead(x)
    BY <2>2, <2>4 DEF Lead, TypeOK
  <2>7. Lead(c) \in Nat /\ \A e \in minted : e.seq \in Nat
    BY <2>2, LeadType DEF TypeOK, Entry
  <2> HIDE DEF n
  <2>8. minted' = minted \cup {n}
    BY <2>2 DEF n
  <2>9. UniqueDots(minted')
    BY <2>3, <2>7, <2>8 DEF UniqueDots
  <2>10. ASSUME NEW x \in Clients, db'[x] # NoCopy, NEW e \in minted', e.rep = db'[x].id
         PROVE  e.seq <= Lead(x)'
    <3>1. CASE x = c /\ e = n
      BY <2>3, <2>5, <2>7, <3>1
    <3>2. CASE x = c /\ e \in minted
      BY <2>4, <2>5, <2>7, <2>10, <3>2 DEF LeadInv
    <3>3. CASE x # c /\ e = n
      BY <2>2, <2>3, <2>4, <2>10, <3>3 DEF IdInv
    <3>4. CASE x # c /\ e \in minted
      BY <2>4, <2>6, <2>10, <3>4 DEF LeadInv
    <3> QED
      BY <2>8, <3>1, <3>2, <3>3, <3>4
  <2> QED
    BY <2>9, <2>10 DEF LeadInv
<1>2. CASE ~Editing
  <2>1. minted' = minted
    BY <1>2, MintedKept
  <2>2. ASSUME NEW x \in Clients, db'[x] # NoCopy, NEW e \in minted, e.rep = db'[x].id
        PROVE  e.seq <= Lead(x)'
    <3>1. KeptOrFresh(x)
      BY StoredStep
    <3>2. db[x] # NoCopy /\ db'[x].id = db[x].id
      BY <2>2, <3>1 DEF KeptOrFresh, IdInv
    <3>3. e.seq <= Lead(x) /\ Lead(x) <= Lead(x)'
      BY <1>2, <2>2, <3>2, LeadKept DEF LeadInv
    <3>4. e.seq \in Nat /\ Lead(x) \in Nat /\ Lead(x)' \in Nat
      <4>1. Lead(x)' \in Nat
        BY <2>2 DEF TypeOK, Nodes, MaybeCopy, Copy, Lead
      <4> QED
        BY <3>2, <4>1, LeadType DEF TypeOK, Entry
    <3> QED
      BY <3>3, <3>4
  <2> QED
    BY <2>1, <2>2 DEF LeadInv
<1> QED
  BY <1>1, <1>2

-----------------------------------------------------------------------------
(* The copies that hold what their clocks call for, of the edits in M.     *)
Valid(M) == {l \in Copy : Faithful(M, l) /\ Grounded(M, l.vc)}

LEMMA ValidClosed ==
  ASSUME NEW M \in SUBSET Entry, UniqueDots(M)
  PROVE  Closed(Valid(M))
<1>1. ASSUME NEW a \in Valid(M), NEW b \in Valid(M) PROVE Join(a, b) \in Valid(M)
  BY <1>1, JoinType, JoinFaithful, JoinGrounded DEF Valid
<1>2. \A id \in Reps : EmptyCopy(id) \in Valid(M)
  BY EmptyCopyType, EmptyCopyFaithful DEF Valid
<1>3. ASSUME NEW a \in Valid(M), NEW id \in Reps PROVE [a EXCEPT !.id = id] \in Valid(M)
  <2> DEFINE b == [a EXCEPT !.id = id]
  <2>1. b \in Copy /\ b.vc = a.vc /\ b.map = a.map
    BY DEF Valid, Copy
  <2> HIDE DEF b
  <2>2. b \in Valid(M)
    BY <2>1 DEF Valid, Faithful
  <2> QED
    BY <2>2 DEF b
<1>4. Valid(M) \subseteq Copy
  BY DEF Valid
<1> QED
  BY <1>1, <1>2, <1>3, <1>4 DEF Closed

LEMMA CopyStep ==
  ASSUME TypeOK, ThreadInv, LeadInv, UniqueDots(minted), CopyInv, [Next]_vars, TypeOK'
  PROVE  CopyInv'
<1>1. minted \in SUBSET Entry /\ \A l \in Copies : l \in Copy
  <2>1. AllIn(Copy) => Copies \subseteq Copy
    BY AllInCopies
  <2>2. AllIn(Copy)
    BY DEF TypeOK, AllIn, Request, MaybeCopy
  <2> QED
    BY <2>1, <2>2 DEF TypeOK
<1>2. Copies \subseteq Valid(minted)
  BY <1>1 DEF CopyInv, Valid
<1>3. PICK G : G = Valid(minted')
  OBVIOUS
<1>4. G \subseteq Copy
  BY <1>3 DEF Valid
<1>5. AllIn(G)'
  <2>1. CASE Editing
    <3>1. PICK c \in Clients, i \in Items, d \in Int : Edit(c, i, d)
      BY <2>1, EditingIsEdit
    <3>2. PICK v \in Int :
             /\ session[c] \in Copy /\ db[c] # NoCopy /\ session[c].id = db[c].id
             /\ session' = [session EXCEPT ![c] = Put(session[c], i, v)]
             /\ minted' = minted \cup {NewEntry(session[c], i, v)}
             /\ Lead(c) = session[c].vc[session[c].id]
      BY <3>1, EditEffect
    <3> DEFINE n == NewEntry(session[c], i, v)
    <3>3. n \in Entry /\ n.rep = db[c].id /\ \A e \in minted : e.rep = n.rep => e.seq < n.seq
      BY <3>2, EditIsNext
    <3>4. Copies \subseteq G
      <4>1. \A l \in Copies : Faithful(minted \cup {n}, l) /\ Grounded(minted \cup {n}, l.vc)
        BY <1>1, <3>3, OthersStayFaithful DEF CopyInv
      <4> QED
        BY <1>1, <1>3, <3>2, <4>1 DEF Valid
    <3>5. AllIn(G)
      BY <1>4, <3>4, AllInCopies
    <3>6. session'[c] \in G
      <4>1. session[c] \in Copies
        BY <3>2, CopyIsNotNoCopy DEF Copies
      <4>2. Faithful(minted, session[c]) /\ Grounded(minted, session[c].vc)
        BY <4>1 DEF CopyInv
      <4>3. \A e \in minted : e.rep = session[c].id => e.seq <= session[c].vc[session[c].id]
        BY <3>2 DEF LeadInv
      <4>4. /\ Faithful(minted \cup {n}, Put(session[c], i, v))
            /\ Grounded(minted \cup {n}, Put(session[c], i, v).vc)
        BY <1>1, <3>2, <4>2, <4>3, PutFaithful
      <4>5. Put(session[c], i, v) \in Copy
        BY <3>2, PutFields
      <4>6. Put(session[c], i, v) \in G
        BY <1>3, <3>2, <4>4, <4>5 DEF Valid
      <4> QED
        BY <3>2, <4>6 DEF TypeOK
    <3> QED
      BY <3>1, <3>5, <3>6, EditIn
  <2>2. CASE ~Editing
    <3>1. minted' = minted
      BY <2>2, MintedKept
    <3>2. Closed(G)
      BY <1>1, <1>3, <3>1, ValidClosed
    <3>3. AllIn(G)
      BY <1>2, <1>3, <1>4, <3>1, AllInCopies
    <3> QED
      BY <2>2, <3>2, <3>3, AllInStep DEF Editing
  <2> QED
    BY <2>1, <2>2
<1>6. Copies' \subseteq G
  BY <1>5 DEF AllIn, Copies
<1> QED
  BY <1>3, <1>6 DEF CopyInv, Valid

LEMMA SerialInit == Init => SerialInv
<1> SUFFICES ASSUME Init PROVE SerialInv
  OBVIOUS
<1>1. Copies = {}
  BY DEF Init, Copies
<1>2. ThreadInv /\ IdInv /\ LeadInv /\ UniqueDots(minted) /\ CopyInv
  BY <1>1 DEF Init, ThreadInv, IdInv, LeadInv, UniqueDots, CopyInv, Nodes
<1> QED
  BY <1>2 DEF SerialInv

LEMMA SerialStep ==
  TypeOK /\ SerialInv /\ Orderly /\ [Next]_vars => SerialInv'
<1> SUFFICES ASSUME TypeOK, SerialInv, Orderly, [Next]_vars PROVE SerialInv'
  OBVIOUS
<1>1. TypeOK'
  BY TypeStep
<1> QED
  BY <1>1, ThreadStep, IdStep, LeadStep, CopyStep DEF SerialInv

-----------------------------------------------------------------------------
(* The inductive invariant holds in every reachable state of an orderly    *)
(* system.                                                                 *)
THEOREM SerialCorrect == ASSUME Orderly PROVE Spec => [](TypeOK /\ SerialInv)
  BY SerialInit, SerialStep, TypeCorrect, PTL DEF Spec

(* No two edits anywhere get the same dot from nextDot.                    *)
THEOREM EditsHaveTheirOwnDots == ASSUME Orderly PROVE Spec => []DotsUnique
<1>1. SerialInv => DotsUnique
  BY DEF SerialInv, DotsUnique
<1> QED
  BY <1>1, SerialCorrect, PTL

(* Every copy, in any process or message, holds the entries its clock      *)
(* calls for: joins neither lose an edit they mark as seen nor bring a     *)
(* superseded one back.                                                    *)
THEOREM CopiesAreDetermined == ASSUME Orderly PROVE Spec => []Determined
<1>1. SerialInv => Determined
  BY DEF SerialInv, CopyInv, Determined
<1> QED
  BY <1>1, SerialCorrect, PTL

(* Two copies whose clocks agree are the same list, which is what          *)
(* ShoppingList::join promises its users.                                  *)
THEOREM CopiesConverge == ASSUME Orderly PROVE Spec => []StrongConvergence
<1>1. Determined => StrongConvergence
  BY DEF Determined, StrongConvergence, Faithful
<1> QED
  BY <1>1, CopiesAreDetermined, PTL

(* A client is ahead of everybody on the id it edits under, so the next    *)
(* dot it hands out is new.                                                *)
THEOREM OwnersLead == ASSUME Orderly PROVE Spec => []OwnerLeads
<1>1. TypeOK /\ SerialInv => OwnerLeads
  <2> SUFFICES ASSUME TypeOK, SerialInv, NEW c \in Clients, db[c] # NoCopy, NEW l \in Copies
               PROVE  l.vc[db[c].id] <= Lead(c)
    BY DEF OwnerLeads
  <2>1. db[c].id \in Reps /\ Lead(c) \in Nat
    BY LeadType DEF TypeOK, Nodes, MaybeCopy, Copy
  <2>2. \/ l.vc[db[c].id] = 0
        \/ \E e \in minted : e.rep = db[c].id /\ l.vc[db[c].id] <= e.seq
    BY <2>1 DEF SerialInv, CopyInv, Grounded
  <2>3. CASE l.vc[db[c].id] = 0
    BY <2>1, <2>3
  <2>4. ASSUME NEW e \in minted, e.rep = db[c].id, l.vc[db[c].id] <= e.seq
        PROVE  l.vc[db[c].id] <= Lead(c)
    <3>1. e.seq <= Lead(c)
      BY <2>4 DEF SerialInv, LeadInv
    <3>2. l \in Copy
      <4>1. AllIn(Copy) => Copies \subseteq Copy
        BY AllInCopies
      <4>2. AllIn(Copy)
        BY DEF TypeOK, AllIn, Request, MaybeCopy
      <4> QED
        BY <4>1, <4>2
    <3>3. l.vc[db[c].id] \in Nat /\ e.seq \in Nat
      BY <2>1, <3>2 DEF Copy, TypeOK, Entry
    <3> QED
      BY <2>1, <2>4, <3>1, <3>3
  <2> QED
    BY <2>2, <2>3, <2>4
<1> QED
  BY <1>1, SerialCorrect, PTL

(* While a client keeps the list, its database never forgets an edit and   *)
(* never changes the id it edits under.                                    *)
THEOREM LocalCopiesOnlyGrow == ASSUME Orderly PROVE Spec => LocalNeverForgets
<1>1. TypeOK /\ SerialInv /\ [Next]_vars =>
        [\A c \in Clients : db[c] # NoCopy /\ db'[c] # NoCopy =>
           /\ db'[c].id = db[c].id
           /\ \A r \in Reps : db[c].vc[r] <= db'[c].vc[r]]_vars
  BY StoredStep DEF SerialInv, KeptOrFresh
<1> QED
  BY <1>1, SerialCorrect, PTL DEF Spec, LocalNeverForgets

-----------------------------------------------------------------------------
(* ListReplicas implements SharedList, under the same two conditions.  The *)
(* proof reads the databases through SerialInv: what a place holds is the  *)
(* latest of what it has heard of because copies are faithful, and an edit *)
(* is unheard of because clocks are grounded.                              *)

(* The databases are among the copies. *)
LEMMA StoredIsCopy ==
  ASSUME TypeOK, NEW n \in Nodes, db[n] # NoCopy
  PROVE  db[n] \in Copies /\ db[n] \in Copy
  BY DEF TypeOK, MaybeCopy, Copies

(* What a place holds is the latest of what it has heard of, and as clocks *)
(* count without gaps, it hears of edits in order.                         *)
HoldsWhatItHeard ==
    \A n \in Nodes :
        /\ HeldAt(n) = Shared!Latest(HeardAt(n))
        /\ HeardAt(n) \subseteq minted
        /\ Shared!InOrder(HeardAt(n))

LEMMA PlacesAreInOrder == TypeOK /\ SerialInv => HoldsWhatItHeard
<1> SUFFICES ASSUME TypeOK, SerialInv, NEW n \in Nodes
             PROVE  /\ HeldAt(n) = Shared!Latest(HeardAt(n))
                    /\ HeardAt(n) \subseteq minted
                    /\ Shared!InOrder(HeardAt(n))
  BY DEF HoldsWhatItHeard
<1>1. CASE db[n] = NoCopy
  BY <1>1 DEF HeldAt, HeardAt, Shared!Latest, Shared!InOrder
<1>2. CASE db[n] # NoCopy
  <2>1. db[n].map = ViewOf(minted, db[n].vc)
    BY <1>2, StoredIsCopy DEF SerialInv, CopyInv, Faithful
  <2>2. HeldAt(n) = Shared!Latest(HeardAt(n))
    BY <1>2, <2>1 DEF HeldAt, HeardAt, Shared!Latest, ViewOf
  <2>3. \A e \in minted : db[n].vc[e.rep] \in Nat /\ e.seq \in Nat
    BY <1>2, StoredIsCopy DEF TypeOK, Copy, Entry
  <2>4. HeardAt(n) \subseteq minted /\ Shared!InOrder(HeardAt(n))
    BY <1>2, <2>3 DEF HeardAt, Shared!InOrder, Seen
  <2> QED
    BY <2>2, <2>4
<1> QED
  BY <1>1, <1>2

(* Nobody has heard of an edit before it is made. *)
LEMMA EditUnheard ==
  ASSUME TypeOK, SerialInv, NEW n \in Nodes, db[n] # NoCopy, NEW x \in Entry,
         \A e \in minted : e.rep = x.rep => e.seq < x.seq
  PROVE  ~Seen(db[n].vc, x)
<1>1. x.rep \in Reps /\ x.seq \in Nat \ {0} /\ db[n].vc[x.rep] \in Nat
  BY StoredIsCopy DEF Entry, Copy
<1>2. \/ db[n].vc[x.rep] = 0
      \/ \E e \in minted : e.rep = x.rep /\ db[n].vc[x.rep] <= e.seq
  BY <1>1, StoredIsCopy DEF SerialInv, CopyInv, Grounded
<1>3. \A e \in minted : e.seq \in Nat
  BY DEF TypeOK, Entry
<1> QED
  BY <1>1, <1>2, <1>3 DEF Seen

-----------------------------------------------------------------------------
(* A step that edits makes one edit. *)
LEMMA EditMakes ==
  ASSUME TypeOK, SerialInv, Editing
  PROVE  /\ \E x \in minted' : Shared!Make(x)
<1>1. PICK c \in Clients, i \in Items, d \in Int : Edit(c, i, d)
  BY EditingIsEdit
<1>2. PICK v \in Int :
         /\ session[c] \in Copy /\ db[c] # NoCopy /\ session[c].id = db[c].id
         /\ minted' = minted \cup {NewEntry(session[c], i, v)}
         /\ Lead(c) = session[c].vc[session[c].id]
  BY <1>1, EditEffect DEF SerialInv
<1>3. PICK x : x = NewEntry(session[c], i, v)
  OBVIOUS
<1>4. x \in Entry /\ \A e \in minted : e.rep = x.rep => e.seq < x.seq
  BY <1>2, <1>3, EditIsNext DEF SerialInv
<1>5. db' = db /\ minted' = minted \cup {x}
  BY <1>1, <1>2, <1>3 DEF Edit
<1>6. \A n \in Nodes : HeardAt(n)' = HeardAt(n) /\ HeldAt(n)' = HeldAt(n)
  <2> SUFFICES ASSUME NEW n \in Nodes
               PROVE  HeardAt(n)' = HeardAt(n) /\ HeldAt(n)' = HeldAt(n)
    OBVIOUS
  <2>1. db[n] # NoCopy => ~Seen(db[n].vc, x)
    BY <1>4, EditUnheard
  <2> QED
    BY <1>5, <2>1 DEF HeardAt, HeldAt
<1>7. /\ [n \in Nodes |-> HeardAt(n)]' = [n \in Nodes |-> HeardAt(n)]
      /\ [n \in Nodes |-> HeldAt(n)]' = [n \in Nodes |-> HeldAt(n)]
  BY <1>6
<1> QED
  BY <1>4, <1>5, <1>7 DEF Shared!Make

(* Any other step changes the database of at most one place; at a client   *)
(* it leaves nothing, or no less than there was.                           *)
LEMMA OnePlace ==
  ASSUME TypeOK, SerialInv, Orderly, [Next]_vars, ~Editing
  PROVE  \/ db' = db
         \/ \E p \in Nodes :
              /\ \A n \in Nodes \ {p} : db'[n] = db[n]
              /\ \/ p \in Workers
                 \/ db'[p] = NoCopy
                 \/ db[p] = NoCopy
                 \/ \A r \in Reps : db[p].vc[r] <= db'[p].vc[r]
<1>1. \A c \in Clients : db[c] # NoCopy /\ db'[c] # NoCopy =>
          \A r \in Reps : db[c].vc[r] <= db'[c].vc[r]
  BY StoredStep DEF SerialInv, KeptOrFresh
<1>2. ASSUME NEW c \in Clients,
             \/ CreateList(c) \/ SaveWrite(c) \/ DeleteList(c)
             \/ ListenerMerge(c) \/ ListenerCreate(c)
      PROVE  c \in Nodes /\ \A n \in Nodes \ {c} : db'[n] = db[n]
  BY <1>2 DEF CreateList, SaveWrite, DeleteList, ListenerMerge, ListenerCreate, TypeOK, Nodes
<1>3. ASSUME NEW r \in reqs, HandleRequest(r)
      PROVE  r.to \in Workers /\ r.to \in Nodes /\ \A n \in Nodes \ {r.to} : db'[n] = db[n]
  <2>1. r.to \in Workers /\ r.to \in Nodes
    BY DEF TypeOK, Request, Nodes
  <2> QED
    BY <1>3, <2>1 DEF HandleRequest, HandleCreate, HandleGet, HandleUpdate, TypeOK
<1>4. ASSUME NEW w \in Nodes, Crash(w) \/ CrashInSave(w)
      PROVE  w \in Workers /\ \A n \in Nodes \ {w} : db'[n] = db[n]
  BY <1>4 DEF Crash, CrashInSave, Orderly, TypeOK, Nodes
<1>5. ASSUME NEW c \in Clients,
             \/ GetList(c) \/ OpenList(c) \/ SaveRead(c) \/ Resubscribe(c)
             \/ ReceiveUpdate(c) \/ ListenerGet(c)
      PROVE  db' = db
  BY <1>5 DEF GetList, OpenList, SaveRead, Resubscribe, ReceiveUpdate, ListenerGet
<1>6. ASSUME NEW n \in Nodes, Restart(n) PROVE db' = db
  BY <1>6 DEF Restart
<1>7. CASE UNCHANGED vars
  BY <1>7 DEF vars
<1> QED
  BY <1>1, <1>2, <1>3, <1>4, <1>5, <1>6, <1>7 DEF Next, ClientStep, Editing

(* A step without an edit is one place hearing of something, or nothing.   *)
LEMMA OtherStepHears ==
  ASSUME TypeOK, SerialInv, Orderly, [Next]_vars, ~Editing, TypeOK', SerialInv'
  PROVE  Shared!Next \/ UNCHANGED Shared!svars
<1>1. minted' = minted
  BY MintedKept
<1>2. CASE db' = db
  <2>1. \A n \in Nodes : HeardAt(n)' = HeardAt(n) /\ HeldAt(n)' = HeldAt(n)
    BY <1>1, <1>2 DEF HeardAt, HeldAt
  <2>2. /\ [n \in Nodes |-> HeardAt(n)]' = [n \in Nodes |-> HeardAt(n)]
        /\ [n \in Nodes |-> HeldAt(n)]' = [n \in Nodes |-> HeldAt(n)]
    BY <2>1
  <2> QED
    BY <1>1, <2>2 DEF Shared!svars
<1>3. ASSUME NEW p \in Nodes,
             \A n \in Nodes \ {p} : db'[n] = db[n],
             \/ p \in Workers
             \/ db'[p] = NoCopy
             \/ db[p] = NoCopy
             \/ \A r \in Reps : db[p].vc[r] <= db'[p].vc[r]
      PROVE  Shared!Next
  <2>1. PICK H : H = HeardAt(p)'
    OBVIOUS
  <2>2. H \subseteq minted /\ Shared!InOrder(H) /\ HeldAt(p)' = Shared!Latest(H)
    <3>1. HoldsWhatItHeard'
      BY PlacesAreInOrder, PTL
    <3> QED
      BY <1>1, <2>1, <3>1 DEF HoldsWhatItHeard, Shared!InOrder, Shared!Latest
  <2>3. \A n \in Nodes \ {p} : HeardAt(n)' = HeardAt(n) /\ HeldAt(n)' = HeldAt(n)
    BY <1>1, <1>3 DEF HeardAt, HeldAt
  <2>4. Shared!Hear(p, H)
    <3>1. [n \in Nodes |-> HeardAt(n)]' = [[n \in Nodes |-> HeardAt(n)] EXCEPT ![p] = H]
      BY <2>1, <2>3
    <3>2. [n \in Nodes |-> HeldAt(n)]'
            = [[n \in Nodes |-> HeldAt(n)] EXCEPT ![p] = Shared!Latest(H)]
      BY <2>2, <2>3
    <3> QED
      BY <1>1, <2>2, <3>1, <3>2 DEF Shared!Hear
  <2>5. H \in {([n \in Nodes |-> HeardAt(n)]')[p]} \cap SUBSET minted
    BY <2>1, <2>2
  <2>6. \/ p \in Workers
        \/ H = {}
        \/ HeardAt(p) \subseteq H
    <3>1. CASE db'[p] = NoCopy
      BY <2>1, <3>1 DEF HeardAt
    <3>2. CASE db[p] = NoCopy
      BY <3>2 DEF HeardAt
    <3>3. CASE /\ db[p] # NoCopy /\ db'[p] # NoCopy
               /\ \A r \in Reps : db[p].vc[r] <= db'[p].vc[r]
      <4>1. \A e \in minted : /\ e.rep \in Reps /\ e.seq \in Nat
                              /\ db[p].vc[e.rep] \in Nat /\ db'[p].vc[e.rep] \in Nat
        <5>1. db[p] \in Copy /\ db'[p] \in Copy
          BY <3>3 DEF TypeOK, MaybeCopy
        <5> QED
          BY <5>1 DEF TypeOK, Entry, Copy
      <4> QED
        BY <1>1, <2>1, <3>3, <4>1 DEF HeardAt, Seen
    <3> QED
      BY <1>3, <3>1, <3>2, <3>3
  <2>7. Shared!Learn(p, H) \/ Shared!Forget(p, H)
    BY <2>4, <2>6 DEF Shared!Learn, Shared!Forget
  <2> QED
    BY <2>5, <2>7 DEF Shared!Next
<1> QED
  BY <1>2, <1>3, OnePlace

(* Every behaviour of an orderly system, whatever requests and             *)
(* publications are lost, delayed or reordered and whichever workers die,  *)
(* is one of the shared list.                                              *)
THEOREM ImplementsSharedList == ASSUME Orderly PROVE Spec => IsSharedList
<1>1. Init => Shared!Init
  <2> SUFFICES ASSUME Init PROVE Shared!Init
    OBVIOUS
  <2>1. minted = {} /\ \A n \in Nodes : HeardAt(n) = {} /\ HeldAt(n) = {}
    BY DEF Init, HeardAt, HeldAt
  <2> QED
    BY <2>1 DEF Shared!Init
<1>2. TypeOK /\ SerialInv /\ TypeOK' /\ SerialInv' /\ [Next]_vars => [Shared!Next]_(Shared!svars)
  <2> SUFFICES ASSUME TypeOK, SerialInv, TypeOK', SerialInv', [Next]_vars
               PROVE  Shared!Next \/ UNCHANGED Shared!svars
    OBVIOUS
  <2>1. CASE Editing
    BY <2>1, EditMakes DEF Shared!Next
  <2>2. CASE ~Editing
    BY <2>2, OtherStepHears
  <2> QED
    BY <2>1, <2>2
<1> QED
  BY <1>1, <1>2, SerialCorrect, PTL DEF Spec, IsSharedList, Shared!Spec
=============================================================================

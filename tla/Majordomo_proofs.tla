-------------------------- MODULE Majordomo_proofs --------------------------
(***************************************************************************)
(* The sessions of workers and what the broker knows of them keep step,    *)
(* however often either of them dies, is started again, or connects anew;  *)
(* and a request is in one place at most, so that to its callers all this  *)
(* implements ServiceCall.                                                 *)
(***************************************************************************)
EXTENDS Majordomo, FiniteRecursion, FiniteSetTheorems

-----------------------------------------------------------------------------
(* Counting the messages of a type. *)

LEMMA CountNat ==
    ASSUME NEW M, NEW q \in Seq(M), NEW type
    PROVE  /\ IsFiniteSet({k \in DOMAIN q : q[k].type = type})
           /\ Count(q, type) \in Nat
           /\ Count(q, type) = 0 <=> \A k \in DOMAIN q : q[k].type # type
<1> DEFINE K == {k \in DOMAIN q : q[k].type = type}
<1>1. DOMAIN q = 1 .. Len(q) /\ Len(q) \in Nat
    BY LenProperties
<1>2. IsFiniteSet(1 .. Len(q))
    BY <1>1, FS_Interval
<1>3. IsFiniteSet(K)
    BY <1>1, <1>2, FS_Subset
<1>4. Count(q, type) = Cardinality(K)
    BY DEF Count
<1>5. Cardinality(K) \in Nat /\ (Cardinality(K) = 0 <=> K = {})
    <2> HIDE DEF K
    <2> QED
        BY <1>3, FS_CardinalityType, FS_EmptySet
<1> QED
    BY <1>3, <1>4, <1>5

LEMMA CountEmpty == \A type : Count(<<>>, type) = 0
<1>1. ASSUME NEW type PROVE Count(<<>>, type) = 0
    <2>1. <<>> \in Seq({}) /\ DOMAIN <<>> = {}
        OBVIOUS
    <2> QED
        BY <2>1, CountNat
<1> QED
    BY <1>1

LEMMA CountAppend ==
    ASSUME NEW M, NEW q \in Seq(M), NEW m \in M, NEW type
    PROVE  Count(Append(q, m), type) = Count(q, type) + IF m.type = type THEN 1 ELSE 0
<1> DEFINE K == {k \in DOMAIN q : q[k].type = type}
           r == Append(q, m)
           J == {k \in DOMAIN r : r[k].type = type}
           n == Len(q) + 1
<1>1. DOMAIN q = 1 .. Len(q) /\ Len(q) \in Nat
    BY LenProperties
<1>2. /\ r \in Seq(M) /\ DOMAIN r = 1 .. n
      /\ \A k \in 1 .. Len(q) : r[k] = q[k]
      /\ r[n] = m
    BY <1>1, AppendProperties, LenProperties
<1> HIDE DEF r
<1>3. 1 .. n = 1 .. Len(q) \cup {n} /\ n \notin 1 .. Len(q)
    BY <1>1
<1>4. J = IF m.type = type THEN K \cup {n} ELSE K
    BY <1>1, <1>2, <1>3
<1>5. IsFiniteSet(K) /\ n \notin K /\ Count(q, type) = Cardinality(K)
    BY <1>1, <1>3, CountNat DEF Count
<1>6. Count(r, type) = Cardinality(J)
    BY DEF Count
<1> HIDE DEF K, J, n
<1>7. Cardinality(K \cup {n}) = Cardinality(K) + 1
    BY <1>5, FS_AddElement
<1>8. Cardinality(K) \in Nat
    BY <1>5, FS_CardinalityType
<1>9. Count(r, type) = Count(q, type) + IF m.type = type THEN 1 ELSE 0
    BY <1>4, <1>5, <1>6, <1>7, <1>8
<1> QED
    BY <1>9 DEF r

LEMMA CountTail ==
    ASSUME NEW M, NEW q \in Seq(M), q # <<>>, NEW type
    PROVE  Count(Tail(q), type) = Count(q, type) - IF Head(q).type = type THEN 1 ELSE 0
<1> DEFINE K == {k \in DOMAIN q : q[k].type = type}
           r == Tail(q)
           J == {k \in DOMAIN r : r[k].type = type}
<1>1. DOMAIN q = 1 .. Len(q) /\ Len(q) \in Nat /\ Len(q) # 0
    BY LenProperties, EmptySeq
<1>2. /\ r \in Seq(M) /\ DOMAIN r = 1 .. Len(q) - 1
      /\ \A k \in 1 .. Len(q) - 1 : r[k] = q[k + 1]
      /\ Head(q) = q[1]
    BY <1>1, HeadTailProperties, LenProperties
<1> HIDE DEF r
<1>3. J \subseteq 1 .. Len(q) - 1 /\ \A k \in J : k + 1 \in K \ {1}
    BY <1>1, <1>2
<1>4. \A j \in K \ {1} : j - 1 \in J /\ j = (j - 1) + 1
    <2> SUFFICES ASSUME NEW j \in K \ {1} PROVE j - 1 \in J /\ j = (j - 1) + 1
        OBVIOUS
    <2>1. j \in 1 .. Len(q) /\ j # 1
        BY <1>1
    <2>2. j - 1 \in 1 .. Len(q) - 1 /\ (j - 1) + 1 = j
        BY <1>1, <2>1
    <2> QED
        BY <1>2, <2>2
<1>5. K \ {1} = {k + 1 : k \in J} /\ J \in SUBSET Nat
    <2>1. J \in SUBSET Nat
        BY <1>1, <1>2
    <2> HIDE DEF J, K
    <2>2. \A k \in J : k + 1 \in K \ {1}
        BY <1>3
    <2>3. \A j \in K \ {1} : \E k \in J : j = k + 1
        BY <1>4
    <2>4. K \ {1} = {k + 1 : k \in J}
        BY <2>2, <2>3
    <2> QED
        BY <2>1, <2>4
<1>6. IsFiniteSet(K) /\ IsFiniteSet(J) /\ Count(q, type) = Cardinality(K) /\ Count(r, type) = Cardinality(J)
    <2>1. IsFiniteSet(K) /\ Count(q, type) = Cardinality(K)
        BY CountNat DEF Count
    <2>2. IsFiniteSet(J) /\ Count(r, type) = Cardinality(J)
        BY <1>2, CountNat DEF Count
    <2> QED
        BY <2>1, <2>2
<1>7. 1 \in K <=> Head(q).type = type
    BY <1>1, <1>2
<1> HIDE DEF K, J
<1>8. Cardinality(K \ {1}) = Cardinality(J)
    BY <1>5, <1>6, Shifted
<1>9. Cardinality(K \ {1}) = IF 1 \in K THEN Cardinality(K) - 1 ELSE Cardinality(K)
    BY <1>6, FS_RemoveElement
<1>10. Cardinality(K) \in Nat
    BY <1>6, FS_CardinalityType
<1>11. Count(r, type) = Count(q, type) - IF Head(q).type = type THEN 1 ELSE 0
    BY <1>6, <1>7, <1>8, <1>9, <1>10
<1> QED
    BY <1>11 DEF r

-----------------------------------------------------------------------------
LOCAL INSTANCE SequencesExt
LOCAL INSTANCE FiniteSetsExt

(* States of the broker in which its lists agree, but for what W are.      *)
Sound(s, W) ==
    /\ s \in BrokerState
    /\ s.idle = UNION {ToSet(s.waiting[n]) : n \in Services}
    /\ \A n \in Services : Distinct(s.waiting[n])
    /\ \A n \in Services : \A i \in ToSet(s.waiting[n]) : i \in s.known /\ s.service[i] = n
    /\ \A i \in s.known \ W : s.service[i] \in Services
    /\ \A i \in Ids : s.service[i] # None => i \in s.known
    /\ IsFiniteSet(s.known)

(* The work of a worker that is with the broker: it waits for some, or     *)
(* some is on its way to it.                                               *)
Held(s, i) == Count(s.out[i], "REQUEST") + IF i \in s.idle THEN 1 ELSE 0

Young(s) == \A i \in Ids : s.age[i] < Expiry

AttachedTo(s, n) == {i \in s.known : s.service[i] = n}

(* What the broker's operations may do on the way from s to t.  D are the  *)
(* workers that are given something to hold.                               *)
Changes(s, t, D) ==
    /\ t.known \subseteq s.known
    /\ \A i \in t.known : t.service[i] = s.service[i]
    /\ \A i \in Ids : t.out[i] # <<>> => s.out[i] # <<>> \/ i \in Open
    /\ \A i \in Ids : Held(t, i) <= Held(s, i) + IF i \in D THEN 1 ELSE 0
    /\ \A i \in t.known \cap Open : Held(t, i) = Held(s, i) + IF i \in D THEN 1 ELSE 0
    /\ Young(s) => Young(t)
    /\ \A n \in Services :
          t.workers[n] - s.workers[n] = Cardinality(AttachedTo(t, n)) - Cardinality(AttachedTo(s, n))

LEMMA HeldNat == ASSUME NEW s \in BrokerState, NEW i \in Ids PROVE Held(s, i) \in Nat
<1>1. s.out[i] \in Seq(FromBroker)
    BY DEF BrokerState
<1>2. Count(s.out[i], "REQUEST") \in Nat
    BY <1>1, CountNat
<1> QED
    BY <1>2 DEF Held

LEMMA AttachedNat ==
    ASSUME NEW s, NEW W, Sound(s, W), NEW n \in Services
    PROVE  /\ IsFiniteSet(AttachedTo(s, n)) /\ Cardinality(AttachedTo(s, n)) \in Nat
           /\ s.workers[n] \in Int
<1>1. AttachedTo(s, n) \subseteq s.known /\ IsFiniteSet(s.known)
    BY DEF AttachedTo, Sound
<1>2. IsFiniteSet(AttachedTo(s, n))
    BY <1>1, FS_Subset
<1>3. s.workers[n] \in Int
    BY DEF Sound, BrokerState
<1> QED
    BY <1>2, <1>3, FS_CardinalityType

LEMMA ChangesTwice ==
    ASSUME NEW s, NEW W, Sound(s, W), NEW t, NEW V, Sound(t, V), NEW u, NEW U, Sound(u, U),
           NEW D, NEW E, D \cap E = {}, Changes(s, t, D), Changes(t, u, E)
    PROVE  Changes(s, u, D \cup E)
<1>1. s \in BrokerState /\ t \in BrokerState /\ u \in BrokerState
    BY DEF Sound
<1>2. \A i \in Ids : Held(s, i) \in Nat /\ Held(t, i) \in Nat /\ Held(u, i) \in Nat
    BY <1>1, HeldNat
<1>3. u.known \subseteq s.known /\ u.known \subseteq t.known /\ u.known \subseteq Ids
    BY <1>1 DEF Changes, BrokerState
<1>4. \A i \in u.known : u.service[i] = s.service[i]
    BY <1>3 DEF Changes
<1>5. \A i \in Ids : u.out[i] # <<>> => s.out[i] # <<>> \/ i \in Open
    BY DEF Changes
<1>6. \A i \in Ids : Held(u, i) <= Held(s, i) + IF i \in D \cup E THEN 1 ELSE 0
    <2> SUFFICES ASSUME NEW i \in Ids
                 PROVE  Held(u, i) <= Held(s, i) + IF i \in D \cup E THEN 1 ELSE 0
        OBVIOUS
    <2>1. /\ Held(u, i) <= Held(t, i) + IF i \in E THEN 1 ELSE 0
          /\ Held(t, i) <= Held(s, i) + IF i \in D THEN 1 ELSE 0
        BY DEF Changes
    <2>2. ~(i \in D /\ i \in E)
        OBVIOUS
    <2> QED
        BY <1>2, <2>1, <2>2
<1>7. \A i \in u.known \cap Open : Held(u, i) = Held(s, i) + IF i \in D \cup E THEN 1 ELSE 0
    <2> SUFFICES ASSUME NEW i \in u.known \cap Open
                 PROVE  Held(u, i) = Held(s, i) + IF i \in D \cup E THEN 1 ELSE 0
        OBVIOUS
    <2>1. /\ Held(u, i) = Held(t, i) + IF i \in E THEN 1 ELSE 0
          /\ Held(t, i) = Held(s, i) + IF i \in D THEN 1 ELSE 0
        BY <1>3 DEF Changes
    <2>2. ~(i \in D /\ i \in E)
        OBVIOUS
    <2> QED
        BY <1>2, <1>3, <2>1, <2>2
<1>8. Young(s) => Young(u)
    BY DEF Changes
<1>9. ASSUME NEW n \in Services
      PROVE  u.workers[n] - s.workers[n] = Cardinality(AttachedTo(u, n)) - Cardinality(AttachedTo(s, n))
    <2>1. /\ u.workers[n] \in Int /\ t.workers[n] \in Int /\ s.workers[n] \in Int
          /\ Cardinality(AttachedTo(u, n)) \in Nat /\ Cardinality(AttachedTo(t, n)) \in Nat
          /\ Cardinality(AttachedTo(s, n)) \in Nat
        BY AttachedNat
    <2>2. /\ u.workers[n] - t.workers[n] = Cardinality(AttachedTo(u, n)) - Cardinality(AttachedTo(t, n))
          /\ t.workers[n] - s.workers[n] = Cardinality(AttachedTo(t, n)) - Cardinality(AttachedTo(s, n))
        BY DEF Changes
    <2> QED
        BY <2>1, <2>2
<1> QED
    BY <1>3, <1>4, <1>5, <1>6, <1>7, <1>8, <1>9 DEF Changes

(* worker_delete, of each worker of W.                                     *)
LEMMA DeleteKeeps ==
    ASSUME NEW s, NEW W \in SUBSET Ids, Sound(s, W)
    PROVE  LET d == Delete(s, W)
           IN  /\ Sound(d, {}) /\ Changes(s, d, {})
               /\ d.known = s.known \ W /\ d.out = s.out /\ d.requests = s.requests
               /\ d.idle = s.idle \ W
               /\ \A i \in Ids : d.age[i] = IF i \in W THEN 0 ELSE s.age[i]
               /\ \A n \in Services : Len(d.waiting[n]) <= Len(s.waiting[n])
<1> DEFINE d == Delete(s, W)
           Gone(n) == {i \in W : s.service[i] = n}
<1>1. /\ s \in BrokerState
      /\ s.known \subseteq Ids /\ s.service \in [Ids -> Services \cup {None}]
      /\ s.age \in [Ids -> 0 .. Expiry] /\ s.idle \subseteq Ids
      /\ s.waiting \in [Services -> Seq(Ids)] /\ s.workers \in [Services -> Int]
      /\ 0 \in 0 .. Expiry /\ None \notin Services
    BY MajordomoAssumption DEF Sound, BrokerState
<1>2. /\ d.known = s.known \ W /\ d.idle = s.idle \ W
      /\ d.service = [i \in Ids |-> IF i \in W THEN None ELSE s.service[i]]
      /\ d.age = [i \in Ids |-> IF i \in W THEN 0 ELSE s.age[i]]
      /\ d.waiting = [n \in Services |-> Without(s.waiting[n], W)]
      /\ d.workers = [n \in Services |-> s.workers[n] - Cardinality(Gone(n))]
      /\ d.out = s.out /\ d.requests = s.requests /\ d.made = s.made
    BY <1>1 DEF Delete, BrokerState
<1>3. \A n \in Services :
         /\ d.waiting[n] \in Seq(Ids)
         /\ ToSet(d.waiting[n]) = ToSet(s.waiting[n]) \ W
         /\ Distinct(d.waiting[n])
         /\ Len(d.waiting[n]) <= Len(s.waiting[n])
    <2> SUFFICES ASSUME NEW n \in Services
                 PROVE  /\ Without(s.waiting[n], W) \in Seq(Ids)
                        /\ ToSet(Without(s.waiting[n], W)) = ToSet(s.waiting[n]) \ W
                        /\ Distinct(Without(s.waiting[n], W))
                        /\ Len(Without(s.waiting[n], W)) <= Len(s.waiting[n])
        BY <1>2
    <2>1. s.waiting[n] \in Seq(Ids) /\ Distinct(s.waiting[n])
        BY <1>1 DEF Sound
    <2> QED
        BY <2>1, WithoutLine
<1>4. \A n \in Services : /\ Gone(n) \subseteq AttachedTo(s, n)
                          /\ AttachedTo(d, n) = AttachedTo(s, n) \ Gone(n)
    <2> SUFFICES ASSUME NEW n \in Services
                 PROVE  /\ Gone(n) \subseteq AttachedTo(s, n)
                        /\ AttachedTo(d, n) = AttachedTo(s, n) \ Gone(n)
        OBVIOUS
    <2> QED
        BY <1>1, <1>2 DEF AttachedTo, Sound
<1>5. \A n \in Services : d.workers[n] - s.workers[n] = Cardinality(AttachedTo(d, n)) - Cardinality(AttachedTo(s, n))
    <2> SUFFICES ASSUME NEW n \in Services
                 PROVE  d.workers[n] - s.workers[n] = Cardinality(AttachedTo(d, n)) - Cardinality(AttachedTo(s, n))
        OBVIOUS
    <2> DEFINE A == AttachedTo(s, n)
    <2>1. IsFiniteSet(A) /\ Cardinality(A) \in Nat /\ s.workers[n] \in Int
        BY AttachedNat
    <2>2. Gone(n) \subseteq A /\ AttachedTo(d, n) = A \ Gone(n)
        BY <1>4
    <2>3. d.workers[n] = s.workers[n] - Cardinality(Gone(n))
        BY <1>2
    <2> HIDE DEF A, d, Gone
    <2>4. IsFiniteSet(Gone(n)) /\ A \cap Gone(n) = Gone(n)
        BY <2>1, <2>2, FS_Subset
    <2>5. Cardinality(A \ Gone(n)) = Cardinality(A) - Cardinality(Gone(n)) /\ Cardinality(Gone(n)) \in Nat
        <3>1. Cardinality(Gone(n)) \in Nat
            BY <2>4, FS_CardinalityType
        <3>2. Cardinality(A \ Gone(n)) = Cardinality(A) - Cardinality(A \cap Gone(n))
            BY <2>1, FS_Difference
        <3> QED
            BY <2>4, <3>1, <3>2
    <2> QED
        BY <2>1, <2>2, <2>3, <2>5 DEF A
<1>6. d \in BrokerState
    <2>1. \A n \in Services : s.workers[n] - Cardinality(Gone(n)) \in Int
        <3> SUFFICES ASSUME NEW n \in Services PROVE s.workers[n] - Cardinality(Gone(n)) \in Int
            OBVIOUS
        <3> HIDE DEF Gone
        <3>1. IsFiniteSet(AttachedTo(s, n)) /\ Gone(n) \subseteq AttachedTo(s, n)
            BY <1>4, AttachedNat
        <3>2. Cardinality(Gone(n)) \in Nat
            BY <3>1, FS_Subset, FS_CardinalityType
        <3> QED
            BY <1>1, <3>2
    <2>2. d.workers \in [Services -> Int]
        BY <1>2, <2>1
    <2>3. d.waiting \in [Services -> Seq(Ids)]
        BY <1>2, <1>3
    <2>4. d.service \in [Ids -> Services \cup {None}] /\ d.age \in [Ids -> 0 .. Expiry]
        BY <1>1, <1>2
    <2>5. d = [s EXCEPT !.known = d.known, !.idle = d.idle, !.service = d.service,
                        !.age = d.age, !.waiting = d.waiting, !.workers = d.workers]
        BY <1>1, <1>2 DEF Delete, BrokerState
    <2> HIDE DEF d, Gone
    <2>6. d.known \subseteq Ids /\ d.idle \subseteq Ids
        BY <1>1, <1>2
    <2> QED
        BY <1>1, <2>2, <2>3, <2>4, <2>5, <2>6 DEF BrokerState
<1> HIDE DEF d, Gone
<1>7. Sound(d, {})
    <2>1. d.idle = UNION {ToSet(d.waiting[n]) : n \in Services}
        <3>1. s.idle = UNION {ToSet(s.waiting[n]) : n \in Services}
            BY DEF Sound
        <3>2. UNION {ToSet(d.waiting[n]) : n \in Services} = UNION {ToSet(s.waiting[n]) \ W : n \in Services}
            BY <1>3
        <3> QED
            BY <1>2, <3>1, <3>2
    <2>2. \A n \in Services : \A i \in ToSet(d.waiting[n]) : i \in d.known /\ d.service[i] = n
        <3> SUFFICES ASSUME NEW n \in Services, NEW i \in ToSet(d.waiting[n])
                     PROVE  i \in d.known /\ d.service[i] = n
            OBVIOUS
        <3>1. i \in ToSet(s.waiting[n]) /\ i \notin W
            BY <1>3
        <3>2. i \in s.known /\ s.service[i] = n
            BY <3>1 DEF Sound
        <3> QED
            BY <1>1, <1>2, <3>1, <3>2
    <2>3. \A i \in d.known : d.service[i] \in Services
        BY <1>1, <1>2 DEF Sound
    <2>4. \A i \in Ids : d.service[i] # None => i \in d.known
        BY <1>1, <1>2 DEF Sound
    <2>5. IsFiniteSet(d.known)
        <3>1. IsFiniteSet(s.known)
            BY DEF Sound
        <3>2. d.known \subseteq s.known
            BY <1>2
        <3> QED
            BY <3>1, <3>2, FS_Subset
    <2> QED
        BY <1>3, <1>6, <2>1, <2>2, <2>3, <2>4, <2>5 DEF Sound
<1>8. Changes(s, d, {})
    <2>1. \A i \in Ids : Held(d, i) <= Held(s, i) + IF i \in {} THEN 1 ELSE 0
        <3> SUFFICES ASSUME NEW i \in Ids PROVE Held(d, i) <= Held(s, i) + 0
            OBVIOUS
        <3>1. Count(s.out[i], "REQUEST") \in Nat
            BY <1>1, CountNat DEF BrokerState
        <3> QED
            BY <1>2, <3>1 DEF Held
    <2>2. \A i \in d.known : Held(d, i) = Held(s, i) + IF i \in {} THEN 1 ELSE 0
        <3> SUFFICES ASSUME NEW i \in d.known PROVE Held(d, i) = Held(s, i) + 0
            OBVIOUS
        <3>1. Held(s, i) \in Nat
            BY <1>1, <1>2, HeldNat
        <3> QED
            BY <1>2, <3>1 DEF Held
    <2>3. Young(s) => Young(d)
        BY <1>1, <1>2, MajordomoAssumption DEF Young
    <2>4. \A i \in d.known : d.service[i] = s.service[i]
        BY <1>1, <1>2
    <2> QED
        BY <1>2, <1>5, <2>1, <2>2, <2>3, <2>4 DEF Changes
<1> QED
    BY <1>2, <1>3, <1>7, <1>8 DEF d

(* Purged of the workers that have expired, the broker has young ones only *)
(* if none was older.                                                      *)
LEMMA PurgeKeeps ==
    ASSUME NEW s, Sound(s, {})
    PROVE  LET d == Purge(s)
           IN  /\ Sound(d, {}) /\ Changes(s, d, {})
               /\ d.requests = s.requests /\ d.out = s.out
               /\ d.idle \subseteq s.idle
               /\ \A n \in Services : Len(d.waiting[n]) <= Len(s.waiting[n])
               /\ (\A i \in Ids \ s.idle : s.age[i] < Expiry) => Young(d)
<1> DEFINE W == {i \in s.idle : s.age[i] = Expiry}
<1>1. W \in SUBSET Ids /\ Sound(s, W) /\ s.age \in [Ids -> 0 .. Expiry]
    BY DEF Sound, BrokerState
<1>2. Purge(s) = Delete(s, W)
    BY DEF Purge
<1> HIDE DEF W
<1>3. /\ Sound(Purge(s), {}) /\ Changes(s, Purge(s), {})
      /\ Purge(s).requests = s.requests /\ Purge(s).out = s.out
      /\ Purge(s).idle = s.idle \ W
      /\ \A i \in Ids : Purge(s).age[i] = IF i \in W THEN 0 ELSE s.age[i]
      /\ \A n \in Services : Len(Purge(s).waiting[n]) <= Len(s.waiting[n])
    BY <1>1, <1>2, DeleteKeeps
<1>4. ASSUME \A i \in Ids \ s.idle : s.age[i] < Expiry, NEW i \in Ids
      PROVE  Purge(s).age[i] < Expiry
    <2>1. s.age[i] \in Nat /\ s.age[i] <= Expiry /\ Expiry \in Nat \ {0}
        BY <1>1, MajordomoAssumption
    <2> QED
        BY <1>3, <1>4, <2>1 DEF W
<1> QED
    BY <1>3, <1>4 DEF Young

LEMMA TellSound ==
    ASSUME NEW s, NEW W, Sound(s, W), NEW i \in Ids, NEW m \in FromBroker
    PROVE  LET t == Tell(s, i, m)
           IN  /\ Sound(t, W)
               /\ t = [s EXCEPT !.out = t.out]
               /\ \A j \in Ids : t.out[j] = IF j = i /\ i \in Open THEN Append(s.out[j], m) ELSE s.out[j]
<1> DEFINE t == Tell(s, i, m)
<1>1. s \in BrokerState /\ s.out \in [Ids -> Seq(FromBroker)]
    BY DEF Sound, BrokerState
<1>2. /\ t = [s EXCEPT !.out = t.out]
      /\ t.out = IF i \in Open THEN [s.out EXCEPT ![i] = Append(@, m)] ELSE s.out
    BY <1>1 DEF Tell, BrokerState
<1>3. t.out \in [Ids -> Seq(FromBroker)]
    BY <1>1, <1>2
<1> HIDE DEF t
<1>4. t \in BrokerState
    BY <1>1, <1>2, <1>3 DEF BrokerState
<1>5. /\ t.idle = s.idle /\ t.waiting = s.waiting /\ t.known = s.known
      /\ t.service = s.service
    BY <1>1, <1>2 DEF BrokerState
<1>6. Sound(t, W)
    BY <1>4, <1>5 DEF Sound
<1>7. \A j \in Ids : t.out[j] = IF j = i /\ i \in Open THEN Append(s.out[j], m) ELSE s.out[j]
    BY <1>1, <1>2
<1> QED
    BY <1>2, <1>6, <1>7 DEF t

(* What is no request.                                                     *)
LEMMA TellKeeps ==
    ASSUME NEW s, NEW W, Sound(s, W), NEW i \in Ids,
           NEW m \in FromBroker, m.type # "REQUEST"
    PROVE  Changes(s, Tell(s, i, m), {})
<1> DEFINE t == Tell(s, i, m)
<1>1. /\ Sound(t, W) /\ t = [s EXCEPT !.out = t.out]
      /\ \A j \in Ids : t.out[j] = IF j = i /\ i \in Open THEN Append(s.out[j], m) ELSE s.out[j]
    BY TellSound
<1>2. s \in BrokerState /\ \A j \in Ids : s.out[j] \in Seq(FromBroker)
    BY DEF Sound, BrokerState
<1> HIDE DEF t
<1>3. /\ t.idle = s.idle /\ t.age = s.age /\ t.known = s.known
      /\ t.service = s.service /\ t.workers = s.workers
    BY <1>1, <1>2 DEF BrokerState
<1>4. \A j \in Ids : Count(t.out[j], "REQUEST") = Count(s.out[j], "REQUEST")
    <2> SUFFICES ASSUME NEW j \in Ids PROVE Count(t.out[j], "REQUEST") = Count(s.out[j], "REQUEST")
        OBVIOUS
    <2>1. Count(Append(s.out[j], m), "REQUEST") = Count(s.out[j], "REQUEST") + 0
        BY <1>2, CountAppend
    <2>2. Count(s.out[j], "REQUEST") \in Nat
        BY <1>2, CountNat
    <2> QED
        BY <1>1, <2>1, <2>2
<1>5. \A j \in Ids : Held(t, j) = Held(s, j) /\ Held(s, j) \in Nat
    BY <1>2, <1>3, <1>4, HeldNat DEF Held
<1>6. \A n \in Services : AttachedTo(t, n) = AttachedTo(s, n)
    BY <1>3 DEF AttachedTo
<1>7. \A n \in Services : t.workers[n] - s.workers[n] = Cardinality(AttachedTo(t, n)) - Cardinality(AttachedTo(s, n))
    BY <1>3, <1>6, AttachedNat
<1>8. t.known \subseteq Ids
    BY <1>2, <1>3 DEF BrokerState
<1>9. \A j \in Ids : t.out[j] # <<>> => s.out[j] # <<>> \/ j \in Open
    BY <1>1
<1>10. Young(s) => Young(t)
    BY <1>3 DEF Young
<1> QED
    BY <1>3, <1>5, <1>7, <1>8, <1>9, <1>10 DEF t, Changes

LEMMA GiveKeeps ==
    ASSUME NEW s, Sound(s, {}), NEW n \in Services, s.requests[n] # <<>>,
           NEW k \in DOMAIN s.waiting[n]
    PROVE  LET t == Give(s, n, k)
           IN  /\ Sound(t, {}) /\ Changes(s, t, {})
               /\ Len(t.waiting[n]) = Len(s.waiting[n]) - 1
               /\ t.requests[n] = Tail(s.requests[n])
               /\ \A m \in Services \ {n} : t.waiting[m] = s.waiting[m] /\ t.requests[m] = s.requests[m]
<1> DEFINE i == s.waiting[n][k]
           m == [type |-> "REQUEST", job |-> Head(s.requests[n])]
           u == Tell(s, i, m)
           t == Give(s, n, k)
           left == RemoveAt(s.waiting[n], k)
<1>1. /\ s \in BrokerState
      /\ s.known \subseteq Ids /\ s.service \in [Ids -> Services \cup {None}]
      /\ s.age \in [Ids -> 0 .. Expiry] /\ s.idle \subseteq Ids
      /\ s.waiting \in [Services -> Seq(Ids)] /\ s.requests \in [Services -> Seq(Job)]
    BY DEF Sound, BrokerState
<1>2. i \in Ids /\ i \in ToSet(s.waiting[n]) /\ i \in s.known /\ s.service[i] = n /\ i \in s.idle
    <2>1. i \in ToSet(s.waiting[n])
        BY DEF ToSet
    <2>2. i \in s.known /\ s.service[i] = n /\ i \in s.idle
        BY <2>1 DEF Sound
    <2> QED
        BY <1>1, <2>1, <2>2
<1>3. m \in FromBroker /\ m.type = "REQUEST"
    <2>1. Head(s.requests[n]) \in Job
        BY <1>1
    <2> QED
        BY <2>1 DEF FromBroker
<1>4. /\ Sound(u, {}) /\ u = [s EXCEPT !.out = u.out]
      /\ \A j \in Ids : u.out[j] = IF j = i /\ i \in Open THEN Append(s.out[j], m) ELSE s.out[j]
    <2> HIDE DEF m, i
    <2> QED
        BY <1>2, <1>3, TellSound
<1>5. /\ left \in Seq(Ids)
      /\ Len(left) = Len(s.waiting[n]) - 1
      /\ ToSet(left) = ToSet(s.waiting[n]) \ {i}
      /\ Distinct(left)
    <2>1. Distinct(s.waiting[n]) /\ s.waiting[n] \in Seq(Ids)
        BY <1>1 DEF Sound
    <2>2. /\ left \in Seq(Ids)
          /\ Len(left) = Len(s.waiting[n]) - 1
          /\ ToSet(left) \subseteq ToSet(s.waiting[n])
          /\ ToSet(s.waiting[n]) \ {i} \subseteq ToSet(left)
          /\ Distinct(left) /\ i \notin ToSet(left)
        BY <2>1, RemoveAtLine
    <2> HIDE DEF left, i
    <2> QED
        BY <2>2
<1>6. /\ t = [u EXCEPT !.requests = t.requests, !.waiting = t.waiting, !.idle = t.idle, !.age = t.age]
      /\ t.requests = [s.requests EXCEPT ![n] = Tail(@)]
      /\ t.waiting = [s.waiting EXCEPT ![n] = left]
      /\ t.idle = s.idle \ {i}
      /\ t.age = [s.age EXCEPT ![i] = 0]
    <2> DEFINE v == u
    <2>1. t = [v EXCEPT !.requests[n] = Tail(@), !.waiting[n] = RemoveAt(@, k),
                        !.idle = @ \ {i}, !.age[i] = 0]
        BY DEF Give
    <2>2. v \in BrokerState
        BY <1>4 DEF Sound
    <2> HIDE DEF v, i
    <2>3. /\ t = [v EXCEPT !.requests = t.requests, !.waiting = t.waiting, !.idle = t.idle, !.age = t.age]
          /\ t.requests = [v.requests EXCEPT ![n] = Tail(@)]
          /\ t.waiting = [v.waiting EXCEPT ![n] = RemoveAt(@, k)]
          /\ t.idle = v.idle \ {i}
          /\ t.age = [v.age EXCEPT ![i] = 0]
        BY <2>1, <2>2 DEF BrokerState
    <2>4. v.requests = s.requests /\ v.waiting = s.waiting /\ v.idle = s.idle /\ v.age = s.age
        BY <1>1, <1>4 DEF v, BrokerState
    <2>5. [s.waiting EXCEPT ![n] = RemoveAt(@, k)] = [s.waiting EXCEPT ![n] = left]
        OBVIOUS
    <2> QED
        BY <2>3, <2>4, <2>5 DEF v
<1> HIDE DEF m, u, t, left
<1>7. Tail(s.requests[n]) \in Seq(Job) /\ 0 \in 0 .. Expiry
    BY <1>1, MajordomoAssumption
<1>8. /\ t.waiting \in [Services -> Seq(Ids)] /\ t.requests \in [Services -> Seq(Job)]
      /\ t.age \in [Ids -> 0 .. Expiry] /\ t.idle \subseteq Ids
    <2> HIDE DEF i
    <2> QED
        BY <1>1, <1>2, <1>5, <1>6, <1>7
<1>9. /\ u \in BrokerState /\ u.known = s.known /\ u.service = s.service /\ u.workers = s.workers
      /\ u.idle = s.idle
    BY <1>1, <1>4 DEF Sound, BrokerState
<1>10. /\ t \in BrokerState /\ t.known = s.known /\ t.service = s.service
       /\ t.workers = s.workers /\ t.out = u.out
    BY <1>6, <1>8, <1>9 DEF BrokerState
<1> HIDE DEF i
<1>11. /\ t.waiting[n] = left /\ t.requests[n] = Tail(s.requests[n])
       /\ \A l \in Services \ {n} : t.waiting[l] = s.waiting[l] /\ t.requests[l] = s.requests[l]
    BY <1>1, <1>6
<1>12. Sound(t, {})
    <2>1. t.idle = UNION {ToSet(t.waiting[l]) : l \in Services}
        <3>1. s.idle = UNION {ToSet(s.waiting[l]) : l \in Services}
            BY DEF Sound
        <3>2. \A l \in Services \ {n} : i \notin ToSet(s.waiting[l])
            BY <1>2 DEF Sound
        <3>3. \A l \in Services : ToSet(t.waiting[l]) = ToSet(s.waiting[l]) \ {i}
            BY <1>5, <1>11, <3>2
        <3> DEFINE A(l) == ToSet(s.waiting[l])
                   B(l) == ToSet(t.waiting[l])
        <3>4. /\ s.idle = UNION {A(l) : l \in Services} /\ t.idle = s.idle \ {i}
              /\ \A l \in Services : B(l) = A(l) \ {i}
            BY <1>6, <3>1, <3>3
        <3> HIDE DEF A, B
        <3>5. t.idle = UNION {B(l) : l \in Services}
            BY <3>4
        <3> QED
            BY <3>5 DEF B
    <2>2. \A l \in Services : Distinct(t.waiting[l])
        BY <1>5, <1>11 DEF Sound
    <2>3. \A l \in Services : \A j \in ToSet(t.waiting[l]) : j \in t.known /\ t.service[j] = l
        BY <1>5, <1>10, <1>11 DEF Sound
    <2> QED
        BY <1>10, <2>1, <2>2, <2>3 DEF Sound
<1>13. Changes(s, t, {})
    <2>1. \A j \in Ids \ {i} : Held(t, j) = Held(s, j)
        BY <1>4, <1>6, <1>10 DEF Held
    <2>2. Held(t, i) <= Held(s, i) /\ (i \in Open => Held(t, i) = Held(s, i))
        <3>1. s.out[i] \in Seq(FromBroker)
            BY <1>1, <1>2 DEF BrokerState
        <3>2. Count(Append(s.out[i], m), "REQUEST") = Count(s.out[i], "REQUEST") + 1
            BY <1>3, <3>1, CountAppend
        <3>3. Count(s.out[i], "REQUEST") \in Nat
            BY <3>1, CountNat
        <3>4. Held(s, i) = Count(s.out[i], "REQUEST") + 1 /\ Held(t, i) = Count(t.out[i], "REQUEST") + 0
            BY <1>2, <1>6 DEF Held
        <3> QED
            BY <1>2, <1>4, <1>10, <3>2, <3>3, <3>4
    <2>3. \A j \in Ids : Held(s, j) \in Nat
        BY <1>1, HeldNat
    <2>4. Young(s) => Young(t)
        <3>1. 0 < Expiry
            BY MajordomoAssumption
        <3>2. \A j \in Ids : t.age[j] = IF j = i THEN 0 ELSE s.age[j]
            BY <1>1, <1>6
        <3> QED
            BY <3>1, <3>2 DEF Young
    <2>5. \A l \in Services : AttachedTo(t, l) = AttachedTo(s, l)
        BY <1>10 DEF AttachedTo
    <2>6. \A l \in Services : t.workers[l] - s.workers[l] = Cardinality(AttachedTo(t, l)) - Cardinality(AttachedTo(s, l))
        BY <1>10, <2>5, AttachedNat
    <2>7. \A j \in Ids : t.out[j] # <<>> => s.out[j] # <<>> \/ j \in Open
        BY <1>4, <1>10
    <2>8. \A j \in Ids : Held(t, j) <= Held(s, j) + IF j \in {} THEN 1 ELSE 0
        BY <2>1, <2>2, <2>3
    <2>9. \A j \in t.known \cap Open : Held(t, j) = Held(s, j) + IF j \in {} THEN 1 ELSE 0
        BY <1>1, <1>10, <2>1, <2>2, <2>3
    <2> QED
        BY <1>10, <2>4, <2>6, <2>7, <2>8, <2>9 DEF Changes
<1> QED
    BY <1>5, <1>11, <1>12, <1>13 DEF t, left

(* A worker and a request for it have not both waited before.              *)
Single(s, n) ==
    \/ s.waiting[n] = <<>> \/ s.requests[n] = <<>>
    \/ Len(s.waiting[n]) = 1 \/ Len(s.requests[n]) = 1

Served(s) == \A n \in Services : s.waiting[n] = <<>> \/ s.requests[n] = <<>>

LEMMA DispatchKeeps ==
    ASSUME NEW s, Sound(s, {}), NEW n \in Services, Single(s, n),
           \A m \in Services \ {n} : s.waiting[m] = <<>> \/ s.requests[m] = <<>>
    PROVE  LET t == Dispatch(s, n)
           IN  Sound(t, {}) /\ Changes(s, t, {}) /\ Served(t)
<1> DEFINE p == Purge(s)
           t == Dispatch(s, n)
<1>1. /\ Sound(p, {}) /\ Changes(s, p, {})
      /\ p.requests = s.requests
      /\ \A m \in Services : Len(p.waiting[m]) <= Len(s.waiting[m])
    BY PurgeKeeps
<1>2. t = IF p.waiting[n] = <<>> \/ p.requests[n] = <<>> THEN p
          ELSE Give(p, n, MostRecent(p, n))
    BY DEF Dispatch
<1> HIDE DEF p, t
<1>3. \A m \in Services : /\ s.waiting[m] \in Seq(Ids) /\ p.waiting[m] \in Seq(Ids)
                           /\ s.requests[m] \in Seq(Job)
    BY <1>1 DEF Sound, BrokerState
<1>4. \A m \in Services : s.waiting[m] = <<>> => p.waiting[m] = <<>>
    <2> SUFFICES ASSUME NEW m \in Services, s.waiting[m] = <<>> PROVE p.waiting[m] = <<>>
        OBVIOUS
    <2>1. Len(s.waiting[m]) = 0
        OBVIOUS
    <2>2. p.waiting[m] \in Seq(Ids) /\ Len(p.waiting[m]) <= 0 /\ Len(p.waiting[m]) \in Nat
        BY <1>1, <1>3, <2>1, LenProperties
    <2> QED
        BY <2>2, EmptySeq
<1>5. \A m \in Services \ {n} : p.waiting[m] = <<>> \/ p.requests[m] = <<>>
    BY <1>1, <1>4
<1>6. CASE p.waiting[n] = <<>> \/ p.requests[n] = <<>>
    <2>1. t = p
        BY <1>2, <1>6
    <2> QED
        BY <1>1, <1>5, <1>6, <2>1 DEF t, Served
<1>7. CASE p.waiting[n] # <<>> /\ p.requests[n] # <<>>
    <2> DEFINE k == MostRecent(p, n)
    <2>1. t = Give(p, n, k)
        BY <1>2, <1>7
    <2>2. k \in DOMAIN p.waiting[n]
        <3>1. p.age \in [Ids -> Nat]
            BY <1>1 DEF Sound, BrokerState
        <3> QED
            BY <1>3, <1>7, <3>1, MostRecentOfLine DEF MostRecent
    <2> HIDE DEF k
    <2>3. /\ Sound(t, {}) /\ Changes(p, t, {})
          /\ Len(t.waiting[n]) = Len(p.waiting[n]) - 1
          /\ t.requests[n] = Tail(p.requests[n])
          /\ \A m \in Services \ {n} : t.waiting[m] = p.waiting[m] /\ t.requests[m] = p.requests[m]
        BY <1>1, <1>7, <2>1, <2>2, GiveKeeps
    <2>4. Changes(s, t, {} \cup {})
        BY <1>1, <2>3, ChangesTwice
    <2>5. t.waiting[n] = <<>> \/ t.requests[n] = <<>>
        <3>1. CASE Len(s.waiting[n]) = 1
            <4>1. Len(p.waiting[n]) <= 1 /\ Len(p.waiting[n]) \in Nat
                BY <1>1, <1>3, <3>1, LenProperties
            <4>2. t.waiting[n] \in Seq(Ids) /\ Len(t.waiting[n]) \in Nat
                BY <2>3, LenProperties DEF Sound, BrokerState
            <4>3. Len(t.waiting[n]) = Len(p.waiting[n]) - 1
                BY <2>3
            <4> DEFINE before == Len(p.waiting[n])
                       after == Len(t.waiting[n])
            <4>4. before <= 1 /\ before \in Nat /\ after \in Nat /\ after = before - 1
                BY <4>1, <4>2, <4>3
            <4> HIDE DEF before, after
            <4>5. after = 0
                BY <4>4
            <4> QED
                BY <4>2, <4>5, EmptySeq DEF after
        <3>2. CASE Len(s.requests[n]) = 1
            <4>1. p.requests[n] \in Seq(Job) /\ Len(p.requests[n]) = 1
                BY <1>1, <1>3, <3>2
            <4>2. Tail(p.requests[n]) \in Seq(Job) /\ Len(Tail(p.requests[n])) = 0
                BY <1>7, <4>1, HeadTailProperties
            <4> QED
                BY <2>3, <4>2, EmptySeq
        <3> QED
            BY <1>1, <1>4, <1>7, <3>1, <3>2 DEF Single
    <2>6. Served(t)
        BY <1>5, <2>3, <2>5 DEF Served
    <2> QED
        BY <2>3, <2>4, <2>6 DEF t
<1> QED
    BY <1>6, <1>7

(* worker_waiting, up to the dispatch.                                     *)
Queue(s, i) ==
    [s EXCEPT !.idle = @ \cup {i}, !.waiting[s.service[i]] = Append(@, i), !.age[i] = 0]

LEMMA QueueKeeps ==
    ASSUME NEW s, Sound(s, {}), NEW i \in s.known, i \notin s.idle
    PROVE  LET t == Queue(s, i)
               n == s.service[i]
           IN  /\ Sound(t, {}) /\ Changes(s, t, {i})
               /\ n \in Services
               /\ t.requests = s.requests /\ t.waiting = [s.waiting EXCEPT ![n] = Append(@, i)]
<1> DEFINE n == s.service[i]
           t == Queue(s, i)
           more == Append(s.waiting[n], i)
<1>1. /\ s \in BrokerState
      /\ s.known \subseteq Ids /\ s.service \in [Ids -> Services \cup {None}]
      /\ s.age \in [Ids -> 0 .. Expiry] /\ s.idle \subseteq Ids
      /\ s.waiting \in [Services -> Seq(Ids)] /\ s.requests \in [Services -> Seq(Job)]
    BY DEF Sound, BrokerState
<1>2. i \in Ids /\ n \in Services /\ 0 \in 0 .. Expiry
    BY <1>1, MajordomoAssumption DEF Sound
<1>3. /\ t = [s EXCEPT !.idle = t.idle, !.waiting = t.waiting, !.age = t.age]
      /\ t.idle = s.idle \cup {i}
      /\ t.waiting = [s.waiting EXCEPT ![n] = more]
      /\ t.age = [s.age EXCEPT ![i] = 0]
    <2> HIDE DEF n
    <2>1. /\ t = [s EXCEPT !.idle = t.idle, !.waiting = t.waiting, !.age = t.age]
          /\ t.idle = s.idle \cup {i}
          /\ t.waiting = [s.waiting EXCEPT ![n] = Append(@, i)]
          /\ t.age = [s.age EXCEPT ![i] = 0]
        BY <1>1 DEF Queue, BrokerState, n
    <2>2. [s.waiting EXCEPT ![n] = Append(@, i)] = [s.waiting EXCEPT ![n] = more]
        OBVIOUS
    <2> QED
        BY <2>1, <2>2
<1>4. /\ more \in Seq(Ids) /\ ToSet(more) = ToSet(s.waiting[n]) \cup {i} /\ Distinct(more)
    <2> DEFINE line == s.waiting[n]
    <2>1. line \in Seq(Ids) /\ Distinct(line) /\ i \notin ToSet(line)
        <3>1. ToSet(line) \subseteq s.idle
            BY <1>2 DEF Sound
        <3> QED
            BY <1>1, <1>2, <3>1 DEF Sound
    <2> HIDE DEF line, n
    <2>2. Append(line, i) \in Seq(Ids) /\ ToSet(Append(line, i)) = ToSet(line) \cup {i} /\ Distinct(Append(line, i))
        BY <1>2, <2>1, Appended
    <2> QED
        BY <2>2 DEF line
<1> HIDE DEF t, more, n
<1>5. /\ t.waiting \in [Services -> Seq(Ids)] /\ t.idle \subseteq Ids /\ t.age \in [Ids -> 0 .. Expiry]
    BY <1>1, <1>2, <1>3, <1>4
<1>6. /\ t \in BrokerState /\ t.known = s.known /\ t.service = s.service
      /\ t.workers = s.workers /\ t.out = s.out /\ t.requests = s.requests
    <2>1. /\ t.known = s.known /\ t.service = s.service
          /\ t.workers = s.workers /\ t.out = s.out /\ t.requests = s.requests
        BY <1>1, <1>3 DEF BrokerState
    <2> DEFINE idle == t.idle
               waiting == t.waiting
               age == t.age
    <2>2. t = [s EXCEPT !.idle = idle, !.waiting = waiting, !.age = age]
        BY <1>3
    <2>3. /\ waiting \in [Services -> Seq(Ids)] /\ idle \in SUBSET Ids /\ age \in [Ids -> 0 .. Expiry]
          /\ s \in BrokerState
        BY <1>1, <1>5
    <2> HIDE DEF idle, waiting, age
    <2>4. [s EXCEPT !.idle = idle, !.waiting = waiting, !.age = age] \in BrokerState
        BY <2>3 DEF BrokerState
    <2> QED
        BY <2>1, <2>2, <2>4
<1>7. t.waiting[n] = more /\ \A m \in Services \ {n} : t.waiting[m] = s.waiting[m]
    BY <1>1, <1>2, <1>3
<1>8. Sound(t, {})
    <2>1. t.idle = UNION {ToSet(t.waiting[m]) : m \in Services}
        <3> DEFINE A(m) == ToSet(s.waiting[m])
                   B(m) == ToSet(t.waiting[m])
        <3>1. /\ s.idle = UNION {A(m) : m \in Services} /\ t.idle = s.idle \cup {i}
              /\ n \in Services /\ B(n) = A(n) \cup {i}
              /\ \A m \in Services \ {n} : B(m) = A(m)
            BY <1>2, <1>3, <1>4, <1>7 DEF Sound
        <3> HIDE DEF A, B
        <3>2. t.idle = UNION {B(m) : m \in Services}
            BY <3>1
        <3> QED
            BY <3>2 DEF B
    <2>2. \A m \in Services : Distinct(t.waiting[m])
        BY <1>4, <1>7 DEF Sound
    <2>3. \A m \in Services : \A j \in ToSet(t.waiting[m]) : j \in t.known /\ t.service[j] = m
        BY <1>4, <1>6, <1>7 DEF Sound, n
    <2> QED
        BY <1>6, <2>1, <2>2, <2>3 DEF Sound
<1>9. Changes(s, t, {i})
    <2>1. \A j \in Ids : Held(t, j) = Held(s, j) + IF j \in {i} THEN 1 ELSE 0
        <3> SUFFICES ASSUME NEW j \in Ids
                     PROVE  Held(t, j) = Held(s, j) + IF j \in {i} THEN 1 ELSE 0
            OBVIOUS
        <3>1. Count(s.out[j], "REQUEST") \in Nat
            BY <1>1, CountNat DEF BrokerState
        <3>2. t.out[j] = s.out[j]
            BY <1>6
        <3>3. (j \in t.idle <=> j \in s.idle \/ j = i) /\ i \notin s.idle
            BY <1>3
        <3> QED
            BY <3>1, <3>2, <3>3 DEF Held
    <2>2. \A j \in Ids : Held(s, j) \in Nat
        BY <1>1, HeldNat
    <2>3. Young(s) => Young(t)
        BY <1>1, <1>2, <1>3, MajordomoAssumption DEF Young
    <2>4. \A m \in Services : AttachedTo(t, m) = AttachedTo(s, m)
        BY <1>6 DEF AttachedTo
    <2>5. \A m \in Services : t.workers[m] - s.workers[m] = Cardinality(AttachedTo(t, m)) - Cardinality(AttachedTo(s, m))
        BY <1>6, <2>4, AttachedNat
    <2>6. \A j \in Ids : Held(t, j) <= Held(s, j) + IF j \in {i} THEN 1 ELSE 0
        BY <2>1, <2>2
    <2> QED
        BY <1>1, <1>6, <2>1, <2>3, <2>5, <2>6 DEF Changes
<1> QED
    BY <1>2, <1>3, <1>6, <1>8, <1>9 DEF t, n, more

LEMMA WaitingKeeps ==
    ASSUME NEW s, Sound(s, {}), Served(s), NEW i \in s.known, i \notin s.idle
    PROVE  LET t == Waiting(s, i)
           IN  Sound(t, {}) /\ Served(t) /\ Changes(s, t, {i})
<1> DEFINE n == s.service[i]
           u == Queue(s, i)
           t == Waiting(s, i)
<1>1. /\ Sound(u, {}) /\ Changes(s, u, {i})
      /\ n \in Services
      /\ u.requests = s.requests /\ u.waiting = [s.waiting EXCEPT ![n] = Append(@, i)]
    BY QueueKeeps
<1>2. t = Dispatch(u, n)
    BY DEF Waiting, Queue
<1>3. /\ s.waiting \in [Services -> Seq(Ids)] /\ i \in Ids
    BY DEF Sound, BrokerState
<1> HIDE DEF u, t, n
<1>4. \A m \in Services \ {n} : u.waiting[m] = <<>> \/ u.requests[m] = <<>>
    BY <1>1, <1>3 DEF Served
<1>5. Single(u, n)
    <2>1. CASE s.waiting[n] = <<>>
        <3>1. u.waiting[n] = Append(<<>>, i)
            BY <1>1, <1>3, <2>1
        <3>2. Len(u.waiting[n]) = 1
            BY <3>1, <1>3
        <3> QED
            BY <3>2 DEF Single
    <2>2. CASE s.requests[n] = <<>>
        BY <1>1, <2>2 DEF Single
    <2> QED
        BY <1>1, <2>1, <2>2 DEF Served
<1>6. Sound(t, {}) /\ Changes(u, t, {}) /\ Served(t)
    BY <1>1, <1>2, <1>4, <1>5, DispatchKeeps
<1>7. Changes(s, t, {i} \cup {})
    BY <1>1, <1>6, ChangesTwice
<1>8. {i} \cup {} = {i}
    OBVIOUS
<1> QED
    BY <1>6, <1>7, <1>8 DEF t

(* worker_delete of one worker, which is told so, and knew it or has just  *)
(* been entered.                                                           *)
LEMMA DismissKeeps ==
    ASSUME NEW s, Sound(s, {}), Served(s), NEW i \in Ids
    PROVE  LET r == IF i \in s.known THEN s ELSE Require(s, i)
               t == Dismiss(r, i)
           IN  Sound(t, {}) /\ Served(t) /\ Changes(s, t, {}) /\ i \notin t.known
<1> DEFINE m == [type |-> "DISCONNECT"]
           r == IF i \in s.known THEN s ELSE Require(s, i)
           u == Tell(r, i, m)
           t == Dismiss(r, i)
<1>1. s \in BrokerState /\ s.known \subseteq Ids
    BY DEF Sound, BrokerState
<1>2. r = [s EXCEPT !.known = @ \cup {i}]
    <2>1. CASE i \in s.known
        <3>1. s.known \cup {i} = s.known
            BY <2>1
        <3> QED
            BY <1>1, <2>1, <3>1 DEF BrokerState
    <2>2. CASE i \notin s.known
        BY <2>2 DEF Require
    <2> QED
        BY <2>1, <2>2
<1>3. m \in FromBroker /\ m.type # "REQUEST"
    BY DEF FromBroker
<1>4. t = Delete(u, {i})
    BY DEF Dismiss
<1>5. /\ r \in BrokerState /\ r.known = s.known \cup {i} /\ r.idle = s.idle
      /\ r.waiting = s.waiting /\ r.requests = s.requests /\ r.service = s.service
      /\ r.age = s.age /\ r.out = s.out /\ r.workers = s.workers
    <2> HIDE DEF r
    <2>1. /\ r.known = s.known \cup {i} /\ r.idle = s.idle
          /\ r.waiting = s.waiting /\ r.requests = s.requests /\ r.service = s.service
          /\ r.age = s.age /\ r.out = s.out /\ r.workers = s.workers
        BY <1>1, <1>2 DEF BrokerState
    <2>2. s.known \cup {i} \subseteq Ids
        BY <1>1
    <2>3. r \in BrokerState
        BY <1>1, <1>2, <2>2 DEF BrokerState
    <2> QED
        BY <2>1, <2>3
<1> HIDE DEF r, m, u, t
<1>6. Sound(r, {i})
    <2>1. IsFiniteSet(r.known)
        BY <1>5, FS_AddElement DEF Sound
    <2> QED
        BY <1>5, <2>1 DEF Sound
<1>7. /\ Sound(u, {i}) /\ u = [r EXCEPT !.out = u.out] /\ Changes(r, u, {})
    BY <1>3, <1>6, TellSound, TellKeeps DEF u
<1>8. /\ Sound(t, {}) /\ Changes(u, t, {})
      /\ t.known = u.known \ {i} /\ t.requests = u.requests
      /\ \A n \in Services : Len(t.waiting[n]) <= Len(u.waiting[n])
    <2> DEFINE W == {i}
    <2>1. Sound(u, W) /\ W \in SUBSET Ids /\ t = Delete(u, W)
        BY <1>4, <1>7
    <2> HIDE DEF W
    <2>2. /\ Sound(t, {}) /\ Changes(u, t, {})
          /\ t.known = u.known \ W /\ t.requests = u.requests
          /\ \A n \in Services : Len(t.waiting[n]) <= Len(u.waiting[n])
        BY <2>1, DeleteKeeps
    <2> QED
        BY <2>2 DEF W
<1>9. /\ u.known = r.known /\ u.requests = r.requests /\ u.waiting = r.waiting
    BY <1>5, <1>7 DEF BrokerState
<1>10. Changes(r, t, {} \cup {})
    BY <1>6, <1>7, <1>8, ChangesTwice
<1>11. i \notin t.known /\ t.known \subseteq s.known
    BY <1>5, <1>8, <1>9
<1>12. Changes(s, t, {})
    <2>1. \A j \in Ids : Held(s, j) = Held(r, j)
        BY <1>5 DEF Held
    <2>2. \A n \in Services : AttachedTo(s, n) = AttachedTo(r, n)
        <3> SUFFICES ASSUME NEW n \in Services PROVE AttachedTo(s, n) = AttachedTo(r, n)
            OBVIOUS
        <3>1. i \notin s.known => s.service[i] = None
            BY DEF Sound
        <3>2. None # n
            BY MajordomoAssumption
        <3> QED
            BY <1>5, <3>1, <3>2 DEF AttachedTo
    <2>3. Young(s) => Young(r)
        BY <1>5 DEF Young
    <2>4. /\ \A j \in Ids : Held(t, j) <= Held(s, j) + IF j \in {} THEN 1 ELSE 0
          /\ \A j \in t.known \cap Open : Held(t, j) = Held(s, j) + IF j \in {} THEN 1 ELSE 0
        <3>1. /\ \A j \in Ids : Held(t, j) <= Held(r, j) + IF j \in {} \cup {} THEN 1 ELSE 0
              /\ \A j \in t.known \cap Open : Held(t, j) = Held(r, j) + IF j \in {} \cup {} THEN 1 ELSE 0
            BY <1>10 DEF Changes
        <3> QED
            BY <1>1, <1>11, <2>1, <3>1
    <2>5. \A n \in Services :
             t.workers[n] - s.workers[n] = Cardinality(AttachedTo(t, n)) - Cardinality(AttachedTo(s, n))
        <3>1. \A n \in Services :
                 t.workers[n] - r.workers[n] = Cardinality(AttachedTo(t, n)) - Cardinality(AttachedTo(r, n))
            BY <1>10 DEF Changes
        <3> QED
            BY <1>5, <2>2, <3>1
    <2>6. /\ \A j \in t.known : t.service[j] = s.service[j]
          /\ \A j \in Ids : t.out[j] # <<>> => s.out[j] # <<>> \/ j \in Open
          /\ Young(s) => Young(t)
        BY <1>5, <1>10, <2>3 DEF Changes
    <2> QED
        BY <1>11, <2>4, <2>5, <2>6 DEF Changes
<1>13. Served(t)
    <2> SUFFICES ASSUME NEW n \in Services PROVE t.waiting[n] = <<>> \/ t.requests[n] = <<>>
        BY DEF Served
    <2>1. CASE s.requests[n] = <<>>
        BY <1>5, <1>8, <1>9, <2>1
    <2>2. CASE s.waiting[n] = <<>>
        <3>1. Len(s.waiting[n]) = 0
            BY <2>2
        <3>2. t.waiting[n] \in Seq(Ids) /\ Len(t.waiting[n]) <= 0 /\ Len(t.waiting[n]) \in Nat
            BY <1>5, <1>8, <1>9, <3>1, LenProperties DEF Sound, BrokerState
        <3> QED
            BY <3>2, EmptySeq
    <2> QED
        BY <2>1, <2>2 DEF Served
<1> QED
    BY <1>8, <1>11, <1>12, <1>13 DEF t, r

-----------------------------------------------------------------------------
(* What is kept besides.  The work of the socket of each identity, OneJob  *)
(* for those that are no worker's present one too, is one at most, and one *)
(* if the broker knows it and it is open.                                  *)
Busy == {sock[w] : w \in {x \in Workers : job[x] # NoJob}}

Load(i) == Held(b, i) + Count(toBroker[i], "REPLY") + IF i \in Busy THEN 1 ELSE 0

OneLoad == \A i \in Ids : Load(i) <= 1 /\ (i \in b.known \cap Open => Load(i) = 1)

(* A READY is the first a socket sends, before the broker knows it.        *)
OwnReady ==
    \A i \in Ids : \A k \in DOMAIN toBroker[i] :
        toBroker[i][k].type = "READY" =>
            /\ k = 1 /\ i \notin b.known /\ Load(i) = 0
            /\ \E w \in Workers : i \in IdsOf[w] /\ toBroker[i][k].service = ServiceOf[w]

OwnKnown == \A i \in b.known : \E w \in Workers : i \in IdsOf[w] /\ b.service[i] = ServiceOf[w]

OutOpen == \A i \in Ids : b.out[i] # <<>> => i \in Open

Sockets == \A p \in Procs : sock[p] \in IdsOf[p] \cup {Closed}

Sessions ==
    /\ \A w \in Workers : job[w] # NoJob => sock[w] # Closed
    /\ \A c \in Clients : cli[c].tries > 0 => sock[c] # Closed /\ (cli[c].asks \/ cli[c].made > 0)

InStep ==
    /\ TypeOK
    /\ Sound(b, {}) /\ Young(b) /\ Served(b)
    /\ OneLoad /\ OwnReady /\ OwnKnown
    /\ OutOpen /\ Sockets /\ Sessions

Balanced ==
    up /\ up' => \A n \in Services :
        b'.workers[n] - b.workers[n] = Cardinality(AttachedTo(b', n)) - Cardinality(AttachedTo(b, n))

LEMMA LoadNat ==
    ASSUME NEW i \in Ids
    PROVE  /\ TypeOK => /\ Load(i) \in Nat /\ Held(b, i) \in Nat
                        /\ Count(toBroker[i], "REPLY") \in Nat
           /\ TypeOK' => /\ Load(i)' \in Nat /\ Held(b', i) \in Nat
                         /\ Count(toBroker'[i], "REPLY") \in Nat
<1>1. ASSUME TypeOK
      PROVE  Held(b, i) \in Nat /\ Count(toBroker[i], "REPLY") \in Nat
    <2>1. b \in BrokerState /\ toBroker[i] \in Seq(ToBroker)
        BY <1>1 DEF TypeOK
    <2> QED
        BY <2>1, HeldNat, CountNat
<1>2. ASSUME TypeOK'
      PROVE  Held(b', i) \in Nat /\ Count(toBroker'[i], "REPLY") \in Nat
    <2>1. b' \in BrokerState /\ toBroker'[i] \in Seq(ToBroker)
        BY <1>2 DEF TypeOK
    <2> QED
        BY <2>1, HeldNat, CountNat
<1> QED
    BY <1>1, <1>2 DEF Load

(* The broker takes a message: s is what it knows when it has entered a    *)
(* worker that is ready, D the worker it makes wait.                       *)
LEMMA TakeStep ==
    ASSUME InStep, NEW i \in Ids, NEW type, Take(i, type), NEW s, NEW D \in SUBSET {i},
           Sound(s, {}), Sound(b', {}), Served(b'), Young(s), Changes(s, b', D),
           s.out = b.out, s.idle = b.idle,
           IF type = "READY" THEN s.known = b.known \cup D ELSE s.known = b.known,
           \A j \in b.known : s.service[j] = b.service[j],
           \A j \in s.known \ b.known : \E w \in Workers : j \in IdsOf[w] /\ s.service[j] = ServiceOf[w],
           \A n \in Services :
              s.workers[n] - b.workers[n] = Cardinality(AttachedTo(s, n)) - Cardinality(AttachedTo(b, n)),
           type \in {"READY", "REPLY"} \/ D = {},
           type = "READY" => D = {i},
           type = "REPLY" => D = {i} \/ i \notin b'.known
    PROVE  InStep' /\ Balanced
<1> USE DEF InStep
<1>1. /\ up /\ up' = up /\ sock' = sock /\ job' = job /\ cli' = cli /\ runs' = runs /\ faults' = faults
      /\ toBroker[i] # <<>> /\ Head(toBroker[i]).type = type
      /\ toBroker' = [toBroker EXCEPT ![i] = Tail(@)]
    BY DEF Take, workerVars
<1>2. toBroker \in [Ids -> Seq(ToBroker)] /\ b \in BrokerState /\ b' \in BrokerState /\ s \in BrokerState
    BY DEF TypeOK, Sound
<1>3. /\ toBroker'[i] = Tail(toBroker[i]) /\ toBroker'[i] \in Seq(ToBroker)
      /\ \A j \in Ids \ {i} : toBroker'[j] = toBroker[j]
    BY <1>1, <1>2
<1>4. TypeOK'
    <2>1. toBroker' \in [Ids -> Seq(ToBroker)]
        BY <1>1, <1>2, <1>3
    <2> QED
        BY <1>1, <1>2, <2>1 DEF TypeOK
<1>5. Open' = Open /\ Busy' = Busy
    BY <1>1 DEF Open, Busy
<1>6. /\ \A j \in Ids : Load(j) \in Nat /\ Held(b, j) \in Nat /\ Count(toBroker[j], "REPLY") \in Nat
      /\ \A j \in Ids : Load(j)' \in Nat /\ Held(b', j) \in Nat /\ Count(toBroker'[j], "REPLY") \in Nat
    BY <1>4, LoadNat
<1>7. /\ b'.known \subseteq s.known /\ s.known \subseteq Ids
      /\ \A j \in b'.known \ {i} : j \in b.known
      /\ type # "READY" => b'.known \subseteq b.known
    BY <1>2 DEF Changes, BrokerState
<1>8. /\ \A j \in Ids : Held(b', j) <= Held(b, j) + IF j \in D THEN 1 ELSE 0
      /\ \A j \in b'.known \cap Open : Held(b', j) = Held(b, j) + IF j \in D THEN 1 ELSE 0
    <2>1. \A j \in Ids : Held(s, j) = Held(b, j)
        BY DEF Held
    <2> QED
        BY <1>2, <1>7, <2>1 DEF Changes
<1>9. Count(toBroker'[i], "REPLY") = Count(toBroker[i], "REPLY") - IF type = "REPLY" THEN 1 ELSE 0
    BY <1>1, <1>2, <1>3, CountTail
<1>10. \A j \in Ids \ {i} : Load(j)' <= Load(j) /\ (j \in b'.known \cap Open => Load(j)' = Load(j))
    <2> SUFFICES ASSUME NEW j \in Ids \ {i}
                 PROVE  Load(j)' <= Load(j) /\ (j \in b'.known \cap Open => Load(j)' = Load(j))
        OBVIOUS
    <2>1. Held(b', j) <= Held(b, j) /\ (j \in b'.known \cap Open => Held(b', j) = Held(b, j))
        BY <1>6, <1>8
    <2>2. Load(j) = Held(b, j) + Count(toBroker[j], "REPLY") + IF j \in Busy THEN 1 ELSE 0
        BY DEF Load
    <2>3. Load(j)' = Held(b', j) + Count(toBroker[j], "REPLY") + IF j \in Busy THEN 1 ELSE 0
        BY <1>3, <1>5 DEF Load
    <2> QED
        BY <1>6, <2>1, <2>2, <2>3
<1>11. /\ 1 \in DOMAIN toBroker[i] /\ Head(toBroker[i]) = toBroker[i][1]
       /\ \A k \in DOMAIN toBroker'[i] : k + 1 \in DOMAIN toBroker[i] /\ k + 1 # 1
                                         /\ toBroker'[i][k] = toBroker[i][k + 1]
    <2> DEFINE q == toBroker[i]
    <2>1. q \in Seq(ToBroker) /\ q # <<>>
        BY <1>1, <1>2
    <2> HIDE DEF q
    <2>2. DOMAIN q = 1 .. Len(q) /\ Len(q) \in Nat /\ Len(q) # 0
        BY <2>1, LenProperties, EmptySeq
    <2>3. /\ Tail(q) \in Seq(ToBroker) /\ Len(Tail(q)) = Len(q) - 1
          /\ \A k \in 1 .. Len(Tail(q)) : Tail(q)[k] = q[k + 1]
          /\ Head(q) = q[1]
        BY <2>1, HeadTailProperties
    <2>4. DOMAIN Tail(q) = 1 .. Len(q) - 1
        BY <2>3, LenProperties
    <2>5. \A k \in DOMAIN Tail(q) : k + 1 \in DOMAIN q /\ k + 1 # 1 /\ Tail(q)[k] = q[k + 1]
        BY <2>2, <2>3, <2>4
    <2>6. 1 \in DOMAIN q
        BY <2>2
    <2> QED
        BY <1>3, <2>3, <2>5, <2>6 DEF q
<1>12. type = "READY" => i \notin b.known /\ Load(i) = 0
    BY <1>1, <1>11 DEF OwnReady
<1>13. Load(i)' <= 1 /\ (i \in b'.known \cap Open => Load(i)' = 1)
    <2>1. Load(i) = Held(b, i) + Count(toBroker[i], "REPLY") + IF i \in Busy THEN 1 ELSE 0
        BY DEF Load
    <2>2. Load(i)' = Held(b', i) + Count(toBroker'[i], "REPLY") + IF i \in Busy THEN 1 ELSE 0
        BY <1>5 DEF Load
    <2>3. Load(i) <= 1 /\ (i \in b.known \cap Open => Load(i) = 1)
        BY DEF OneLoad
    <2>4. CASE type = "READY"
        <3>1. Held(b', i) <= Held(b, i) + 1 /\ (i \in b'.known \cap Open => Held(b', i) = Held(b, i) + 1)
            BY <1>8, <2>4
        <3>2. Count(toBroker'[i], "REPLY") = Count(toBroker[i], "REPLY")
            BY <1>6, <1>9, <2>4
        <3> QED
            BY <1>6, <1>12, <2>1, <2>2, <2>4, <3>1, <3>2
    <2>5. CASE type = "REPLY" /\ D = {i}
        <3>1. Held(b', i) <= Held(b, i) + 1 /\ (i \in b'.known \cap Open => Held(b', i) = Held(b, i) + 1)
            BY <1>8, <2>5
        <3>2. Count(toBroker'[i], "REPLY") = Count(toBroker[i], "REPLY") - 1
            BY <1>9, <2>5
        <3>3. Load(i)' <= Load(i) /\ (i \in b'.known \cap Open => Load(i)' = Load(i))
            BY <1>6, <2>1, <2>2, <3>1, <3>2
        <3>4. i \in b'.known => i \in b.known
            BY <1>7, <2>5
        <3> QED
            BY <1>6, <2>3, <3>3, <3>4
    <2>6. CASE type # "READY" /\ D = {}
        <3>1. Held(b', i) <= Held(b, i) /\ (i \in b'.known \cap Open => Held(b', i) = Held(b, i))
            BY <1>6, <1>8, <2>6
        <3>2. /\ Count(toBroker'[i], "REPLY") <= Count(toBroker[i], "REPLY")
              /\ i \in b'.known => Count(toBroker'[i], "REPLY") = Count(toBroker[i], "REPLY")
            BY <1>6, <1>9, <2>6
        <3>3. Load(i)' <= Load(i) /\ (i \in b'.known \cap Open => Load(i)' = Load(i))
            BY <1>6, <2>1, <2>2, <3>1, <3>2
        <3>4. i \in b'.known => i \in b.known
            BY <1>7, <2>6
        <3> QED
            BY <1>6, <2>3, <3>3, <3>4
    <2> QED
        BY <2>4, <2>5, <2>6
<1>14. OneLoad'
    <2> SUFFICES ASSUME NEW j \in Ids
                 PROVE  Load(j)' <= 1 /\ (j \in b'.known \cap Open => Load(j)' = 1)
        BY <1>5 DEF OneLoad
    <2>1. CASE j # i
        <3>1. Load(j) <= 1 /\ (j \in b.known \cap Open => Load(j) = 1)
            BY DEF OneLoad
        <3>2. j \in b'.known => j \in b.known
            BY <1>7, <2>1
        <3> QED
            BY <1>6, <1>10, <2>1, <3>1, <3>2
    <2> QED
        BY <1>13, <2>1
<1>15. OwnReady'
    <2> SUFFICES ASSUME NEW j \in Ids, NEW k \in DOMAIN toBroker'[j], toBroker'[j][k].type = "READY"
                 PROVE  /\ k = 1 /\ j \notin b'.known /\ Load(j)' = 0
                        /\ \E w \in Workers : j \in IdsOf[w] /\ toBroker'[j][k].service = ServiceOf[w]
        BY DEF OwnReady
    <2>1. CASE j = i
        BY <1>11, <2>1 DEF OwnReady
    <2>2. CASE j # i
        <3>1. toBroker'[j] = toBroker[j]
            BY <1>3, <2>2
        <3>2. /\ k = 1 /\ j \notin b.known /\ Load(j) = 0
              /\ \E w \in Workers : j \in IdsOf[w] /\ toBroker[j][k].service = ServiceOf[w]
            BY <3>1 DEF OwnReady
        <3>3. Load(j)' = 0 /\ j \notin b'.known
            BY <1>6, <1>7, <1>10, <2>2, <3>2
        <3> QED
            BY <3>1, <3>2, <3>3
    <2> QED
        BY <2>1, <2>2
<1>16. OwnKnown'
    <2> SUFFICES ASSUME NEW j \in b'.known
                 PROVE  \E w \in Workers : j \in IdsOf[w] /\ b'.service[j] = ServiceOf[w]
        BY DEF OwnKnown
    <2>1. j \in s.known /\ b'.service[j] = s.service[j]
        BY DEF Changes
    <2>2. CASE j \in b.known
        BY <2>1, <2>2 DEF OwnKnown
    <2>3. CASE j \notin b.known
        BY <2>1, <2>3
    <2> QED
        BY <2>2, <2>3
<1>17. OutOpen'
    BY <1>5 DEF OutOpen, Changes
<1>18. Sockets' /\ Sessions'
    BY <1>1 DEF Sockets, Sessions
<1>19. Young(b')
    BY DEF Changes
<1>20. Balanced
    <2> SUFFICES ASSUME NEW n \in Services
                 PROVE  b'.workers[n] - b.workers[n] = Cardinality(AttachedTo(b', n)) - Cardinality(AttachedTo(b, n))
        BY DEF Balanced
    <2>1. /\ b'.workers[n] \in Int /\ s.workers[n] \in Int /\ b.workers[n] \in Int
          /\ Cardinality(AttachedTo(b', n)) \in Nat /\ Cardinality(AttachedTo(s, n)) \in Nat
          /\ Cardinality(AttachedTo(b, n)) \in Nat
        BY AttachedNat
    <2>2. /\ b'.workers[n] - s.workers[n] = Cardinality(AttachedTo(b', n)) - Cardinality(AttachedTo(s, n))
          /\ s.workers[n] - b.workers[n] = Cardinality(AttachedTo(s, n)) - Cardinality(AttachedTo(b, n))
        BY DEF Changes
    <2> QED
        BY <2>1, <2>2
<1> QED
    BY <1>4, <1>14, <1>15, <1>16, <1>17, <1>18, <1>19, <1>20

(* Changes of nothing, and of nothing but ages.                            *)
LEMMA AgesKept ==
    ASSUME NEW s, Sound(s, {}), NEW age \in [Ids -> 0 .. Expiry]
    PROVE  LET t == [s EXCEPT !.age = age]
           IN  /\ Sound(t, {}) /\ (Served(s) => Served(t)) /\ t.age = age /\ t.idle = s.idle
               /\ t.known = s.known /\ t.service = s.service /\ t.out = s.out
               /\ \A i \in Ids : Held(t, i) = Held(s, i)
               /\ \A n \in Services :
                     t.workers[n] - s.workers[n] = Cardinality(AttachedTo(t, n)) - Cardinality(AttachedTo(s, n))
               /\ (Young(s) => Young(t)) => Changes(s, t, {})
<1> DEFINE t == [s EXCEPT !.age = age]
<1>1. s \in BrokerState
    BY DEF Sound
<1>2. /\ t.age = age /\ t.idle = s.idle /\ t.known = s.known /\ t.service = s.service
      /\ t.out = s.out /\ t.waiting = s.waiting /\ t.requests = s.requests /\ t.workers = s.workers
    BY <1>1 DEF BrokerState
<1>3. t \in BrokerState
    BY <1>1 DEF BrokerState
<1> HIDE DEF t
<1>4. Sound(t, {})
    BY <1>2, <1>3 DEF Sound
<1>5. Served(s) => Served(t)
    BY <1>2 DEF Served
<1>6. \A i \in Ids : Held(t, i) = Held(s, i) /\ Held(s, i) \in Nat
    BY <1>1, <1>2, HeldNat DEF Held
<1>7. \A n \in Services : AttachedTo(t, n) = AttachedTo(s, n)
    BY <1>2 DEF AttachedTo
<1>8. \A n \in Services :
         t.workers[n] - s.workers[n] = Cardinality(AttachedTo(t, n)) - Cardinality(AttachedTo(s, n))
    BY <1>2, <1>7, AttachedNat
<1>9. t.known \subseteq Ids
    BY <1>3 DEF BrokerState
<1>10. (Young(s) => Young(t)) => Changes(s, t, {})
    BY <1>2, <1>6, <1>8, <1>9 DEF Changes
<1> QED
    BY <1>2, <1>4, <1>5, <1>6, <1>8, <1>10 DEF t

LEMMA NothingKept ==
    ASSUME NEW s, Sound(s, {})
    PROVE  /\ Changes(s, s, {})
           /\ \A n \in Services :
                 s.workers[n] - s.workers[n] = Cardinality(AttachedTo(s, n)) - Cardinality(AttachedTo(s, n))
<1>1. s \in BrokerState /\ s.known \subseteq Ids
    BY DEF Sound, BrokerState
<1>2. \A i \in Ids : Held(s, i) \in Nat
    BY <1>1, HeldNat
<1>3. \A n \in Services :
         s.workers[n] - s.workers[n] = Cardinality(AttachedTo(s, n)) - Cardinality(AttachedTo(s, n))
    BY AttachedNat
<1> QED
    BY <1>1, <1>2, <1>3 DEF Changes

(* What the broker takes is of the kind its type says.                     *)
LEMMA TakeTyped ==
    ASSUME TypeOK, NEW i \in Ids, NEW type, Take(i, type)
    PROVE  LET m == Head(toBroker[i])
           IN  /\ m.type = type
               /\ type = "READY" => m.service \in Services
               /\ type = "REPLY" => m.job.client \in Ids /\ m.job.call \in 1 .. MaxCalls
               /\ type = "CALL" => /\ m.service \in Services
                                   /\ [client |-> i, caller |-> m.caller, call |-> m.call] \in Job
               /\ type = "ASK" => m.service \in Services
<1> DEFINE m == Head(toBroker[i])
<1>1. m \in ToBroker /\ m.type = type
    <2>1. toBroker[i] \in Seq(ToBroker) /\ toBroker[i] # <<>> /\ m.type = type
        BY DEF TypeOK, Take
    <2> QED
        BY <2>1
<1> HIDE DEF m
<1>2. type = "READY" => m.service \in Services
    BY <1>1 DEF ToBroker
<1>3. type = "REPLY" => m.job \in Job
    BY <1>1 DEF ToBroker
<1>4. type = "CALL" => m.service \in Services /\ m.caller \in Clients /\ m.call \in 1 .. MaxCalls
    BY <1>1 DEF ToBroker
<1>5. type = "ASK" => m.service \in Services
    BY <1>1 DEF ToBroker
<1> QED
    BY <1>1, <1>2, <1>3, <1>4, <1>5 DEF m, Job

LEMMA TakeReplyKept == ASSUME InStep, NEW i \in Ids, TakeReply(i) PROVE InStep' /\ Balanced
<1> DEFINE j == Head(toBroker[i]).job
           m == [type |-> "RESULT", call |-> j.call]
           u == Tell(b, j.client, m)
<1>1. Take(i, "REPLY") /\ b' = IF i \in b.known THEN Waiting(u, i) ELSE Dismiss(Require(b, i), i)
    BY DEF TakeReply
<1>2. TypeOK /\ Sound(b, {}) /\ Young(b) /\ Served(b) /\ OneLoad
    BY DEF InStep
<1>3. j.client \in Ids /\ j.call \in 1 .. MaxCalls
    BY <1>1, <1>2, TakeTyped
<1> HIDE DEF j
<1>4. m \in FromBroker /\ m.type # "REQUEST"
    BY <1>3 DEF FromBroker
<1>5. CASE i \in b.known
    <2>1. /\ Sound(u, {}) /\ u = [b EXCEPT !.out = u.out] /\ Changes(b, u, {})
        BY <1>2, <1>3, <1>4, TellSound, TellKeeps
    <2>2. u.known = b.known /\ u.idle = b.idle /\ u.waiting = b.waiting /\ u.requests = b.requests
        BY <1>2, <2>1 DEF Sound, BrokerState
    <2>3. i \notin b.idle
        <3>1. toBroker[i] \in Seq(ToBroker) /\ toBroker[i] # <<>> /\ Head(toBroker[i]).type = "REPLY"
            BY <1>1, <1>2 DEF Take, TypeOK
        <3>2. Count(Tail(toBroker[i]), "REPLY") = Count(toBroker[i], "REPLY") - 1
            BY <3>1, CountTail
        <3>3. Count(Tail(toBroker[i]), "REPLY") \in Nat /\ Count(toBroker[i], "REPLY") \in Nat
            BY <3>1, CountNat, HeadTailProperties
        <3>4. Load(i) <= 1 /\ Held(b, i) \in Nat
            BY <1>2, LoadNat DEF OneLoad
        <3>5. Held(b, i) = 0
            BY <3>2, <3>3, <3>4 DEF Load
        <3>6. Count(b.out[i], "REQUEST") \in Nat
            BY <1>2, CountNat DEF Sound, BrokerState
        <3> QED
            BY <3>5, <3>6 DEF Held
    <2>4. Served(u)
        BY <1>2, <2>2 DEF Served
    <2> HIDE DEF u
    <2>5. Sound(b', {}) /\ Served(b') /\ Changes(u, b', {i})
        BY <1>1, <1>5, <2>1, <2>2, <2>3, <2>4, WaitingKeeps
    <2>6. Changes(b, b', {} \cup {i})
        BY <1>2, <2>1, <2>5, ChangesTwice
    <2> DEFINE D == {i}
    <2>7. Changes(b, b', D) /\ D \in SUBSET {i} /\ D = {i}
        <3>1. {} \cup {i} = {i}
            OBVIOUS
        <3> QED
            BY <2>6, <3>1
    <2> HIDE DEF D
    <2> QED
        BY <1>1, <1>2, <2>5, <2>7, NothingKept, TakeStep
<1>6. CASE i \notin b.known
    <2>1. Sound(b', {}) /\ Served(b') /\ Changes(b, b', {}) /\ i \notin b'.known
        BY <1>1, <1>2, <1>6, DismissKeeps
    <2> QED
        BY <1>1, <1>2, <2>1, NothingKept, TakeStep
<1> QED
    BY <1>5, <1>6

LEMMA TakeHeartbeatKept == ASSUME InStep, NEW i \in Ids, TakeHeartbeat(i) PROVE InStep' /\ Balanced
<1>1. /\ Take(i, "HEARTBEAT")
      /\ b' = IF i \in b.known
              THEN IF i \in b.idle THEN [b EXCEPT !.age[i] = 0] ELSE b
              ELSE Dismiss(Require(b, i), i)
    BY DEF TakeHeartbeat
<1>2. Sound(b, {}) /\ Young(b) /\ Served(b)
    BY DEF InStep
<1>3. Sound(b', {}) /\ Served(b') /\ Changes(b, b', {})
    <2>1. CASE i \in b.idle /\ i \in b.known
        <3> DEFINE age == [b.age EXCEPT ![i] = 0]
        <3>1. b.age \in [Ids -> 0 .. Expiry] /\ b \in BrokerState /\ 0 \in 0 .. Expiry
            BY <1>2, MajordomoAssumption DEF Sound, BrokerState
        <3>2. age \in [Ids -> 0 .. Expiry] /\ b' = [b EXCEPT !.age = age]
            BY <1>1, <2>1, <3>1 DEF BrokerState
        <3>3. \A k \in Ids : age[k] < Expiry
            BY <1>2, <3>1, MajordomoAssumption DEF Young
        <3> HIDE DEF age
        <3>4. /\ Sound(b', {}) /\ Served(b') /\ b'.age = age
              /\ (Young(b) => Young(b')) => Changes(b, b', {})
            BY <1>2, <3>2, AgesKept
        <3> QED
            BY <3>3, <3>4 DEF Young
    <2>2. CASE i \in b.known /\ i \notin b.idle
        BY <1>1, <1>2, <2>2, NothingKept
    <2>3. CASE i \notin b.known
        BY <1>1, <1>2, <2>3, DismissKeeps
    <2> QED
        BY <2>1, <2>2, <2>3
<1> QED
    BY <1>1, <1>2, <1>3, NothingKept, TakeStep

LEMMA TakeAskKept == ASSUME InStep, NEW i \in Ids, TakeAsk(i) PROVE InStep' /\ Balanced
<1> DEFINE n == Head(toBroker[i]).service
           m == [type |-> "STATUS", found |-> n \in b.made /\ b.workers[n] # 0]
<1>1. Take(i, "ASK") /\ b' = Tell(b, i, m)
    BY DEF TakeAsk
<1>2. Sound(b, {}) /\ Young(b) /\ Served(b)
    BY DEF InStep
<1>3. m \in FromBroker /\ m.type # "REQUEST"
    BY DEF FromBroker
<1> HIDE DEF m
<1>4. /\ Sound(b', {}) /\ Changes(b, b', {}) /\ b' = [b EXCEPT !.out = b'.out]
    BY <1>1, <1>2, <1>3, TellSound, TellKeeps
<1>5. Served(b')
    <2>1. b'.waiting = b.waiting /\ b'.requests = b.requests
        BY <1>2, <1>4 DEF Sound, BrokerState
    <2> QED
        BY <1>2, <2>1 DEF Served
<1> QED
    BY <1>1, <1>2, <1>4, <1>5, NothingKept, TakeStep

(* What the broker knows once it has entered a request.                    *)
Queued(s, n, j) == s = [ServiceRequire(b, n) EXCEPT !.requests[n] = Append(@, j)]

LEMMA CallQueued ==
    ASSUME Sound(b, {}), NEW n \in Services, NEW j \in Job, NEW s, Queued(s, n, j)
    PROVE  /\ Sound(s, {})
           /\ s.known = b.known /\ s.service = b.service /\ s.age = b.age /\ s.idle = b.idle
           /\ s.waiting = b.waiting /\ s.workers = b.workers /\ s.out = b.out
           /\ s.requests = [b.requests EXCEPT ![n] = Append(@, j)]
<1>1. b \in BrokerState
    BY DEF Sound
<1>2. /\ s.known = b.known /\ s.service = b.service /\ s.age = b.age /\ s.idle = b.idle
      /\ s.waiting = b.waiting /\ s.workers = b.workers /\ s.out = b.out
      /\ s.requests = [b.requests EXCEPT ![n] = Append(@, j)] /\ s.made = b.made \cup {n}
    BY <1>1 DEF Queued, ServiceRequire, BrokerState
<1>3. s = [b EXCEPT !.requests = s.requests, !.made = s.made]
    BY <1>1 DEF Queued, ServiceRequire, BrokerState
<1>4. b.requests \in [Services -> Seq(Job)] /\ b.made \subseteq Services
    BY <1>1 DEF BrokerState
<1>5. s.requests \in [Services -> Seq(Job)] /\ s.made \subseteq Services
    BY <1>2, <1>4
<1>6. s \in BrokerState
    BY <1>1, <1>3, <1>5 DEF BrokerState
<1>7. Sound(s, {})
    BY <1>2, <1>6 DEF Sound
<1> QED
    BY <1>2, <1>7

LEMMA TakeCallKept == ASSUME InStep, NEW i \in Ids, TakeCall(i) PROVE InStep' /\ Balanced
<1> DEFINE m == Head(toBroker[i])
           n == m.service
           j == [client |-> i, caller |-> m.caller, call |-> m.call]
           s == [ServiceRequire(b, n) EXCEPT !.requests[n] = Append(@, j)]
<1>1. Take(i, "CALL") /\ b' = Dispatch(s, n)
    BY DEF TakeCall
<1>2. TypeOK /\ Sound(b, {}) /\ Young(b) /\ Served(b) /\ b \in BrokerState
    BY DEF InStep, Sound
<1>3. n \in Services /\ j \in Job
    BY <1>1, <1>2, TakeTyped
<1>4. Queued(s, n, j)
    BY DEF Queued
<1> HIDE DEF n, j, s
<1>5. /\ Sound(s, {})
      /\ s.known = b.known /\ s.service = b.service /\ s.age = b.age /\ s.idle = b.idle
      /\ s.waiting = b.waiting /\ s.workers = b.workers /\ s.out = b.out
      /\ s.requests = [b.requests EXCEPT ![n] = Append(@, j)]
    BY <1>2, <1>3, <1>4, CallQueued
<1>6. b.requests \in [Services -> Seq(Job)] /\ b.known \subseteq Ids /\ s \in BrokerState
    BY <1>2, <1>5 DEF Sound, BrokerState
<1>7. Changes(b, s, {})
    <2>1. \A k \in Ids : Held(s, k) = Held(b, k) /\ Held(b, k) \in Nat
        BY <1>2, <1>5, HeldNat DEF Held
    <2>2. \A l \in Services : AttachedTo(s, l) = AttachedTo(b, l)
        BY <1>5 DEF AttachedTo
    <2>3. \A l \in Services :
             s.workers[l] - b.workers[l] = Cardinality(AttachedTo(s, l)) - Cardinality(AttachedTo(b, l))
        BY <1>2, <1>5, <2>2, AttachedNat
    <2>4. Young(b) => Young(s)
        BY <1>5 DEF Young
    <2> QED
        BY <1>5, <1>6, <2>1, <2>3, <2>4 DEF Changes
<1>8. Single(s, n)
    <2>1. CASE b.requests[n] = <<>>
        <3>1. s.requests[n] = Append(<<>>, j)
            BY <1>3, <1>5, <1>6, <2>1
        <3>2. Len(s.requests[n]) = 1
            BY <1>3, <3>1
        <3> QED
            BY <3>2 DEF Single
    <2>2. CASE b.waiting[n] = <<>>
        BY <1>5, <2>2 DEF Single
    <2> QED
        BY <1>2, <1>3, <2>1, <2>2 DEF Served
<1>9. \A l \in Services \ {n} : s.waiting[l] = <<>> \/ s.requests[l] = <<>>
    BY <1>2, <1>5, <1>6 DEF Served
<1>10. Sound(b', {}) /\ Changes(s, b', {}) /\ Served(b')
    BY <1>1, <1>3, <1>5, <1>8, <1>9, DispatchKeeps
<1>11. Changes(b, b', {} \cup {})
    BY <1>2, <1>5, <1>7, <1>10, ChangesTwice
<1>12. Changes(b, b', {})
    <2>1. {} \cup {} = {}
        OBVIOUS
    <2> QED
        BY <1>11, <2>1
<1> QED
    BY <1>1, <1>2, <1>10, <1>12, NothingKept, TakeStep

(* What the broker knows once it has entered a worker that is ready.       *)
Entered(s, i, n) ==
    s = [ServiceRequire(Require(b, i), n) EXCEPT !.service[i] = n, !.workers[n] = @ + 1]

LEMMA ReadyEntered ==
    ASSUME InStep, NEW i \in Ids, Take(i, "READY"),
           NEW n, n = Head(toBroker[i]).service,
           NEW s, Entered(s, i, n)
    PROVE  /\ i \notin b.known /\ \E w \in Workers : i \in IdsOf[w] /\ n = ServiceOf[w]
           /\ Sound(s, {}) /\ Served(s) /\ Young(s)
           /\ i \in s.known /\ i \notin s.idle
           /\ s.known = b.known \cup {i} /\ s.idle = b.idle
           /\ s.requests = b.requests /\ s.out = b.out
           /\ s.service[i] = n /\ \A k \in Ids \ {i} : s.service[k] = b.service[k]
           /\ s.workers = [b.workers EXCEPT ![n] = @ + 1]
<1> DEFINE r == ServiceRequire(Require(b, i), n)
<1>1. Take(i, "READY")
    OBVIOUS
<1>2. /\ TypeOK /\ Sound(b, {}) /\ Young(b) /\ Served(b) /\ b \in BrokerState /\ OwnReady
      /\ n \in Services
    BY <1>1, TakeTyped DEF InStep, Sound
<1>3. i \notin b.known /\ \E w \in Workers : i \in IdsOf[w] /\ n = ServiceOf[w]
    <2> DEFINE q == toBroker[i]
    <2>1. q \in Seq(ToBroker) /\ q # <<>> /\ Head(q).type = "READY" /\ n = Head(q).service
        BY <1>1, <1>2 DEF Take, TypeOK
    <2> HIDE DEF q
    <2>2. DOMAIN q = 1 .. Len(q) /\ Len(q) \in Nat /\ Len(q) # 0
        BY <2>1, LenProperties, EmptySeq
    <2>3. 1 \in DOMAIN q /\ Head(q) = q[1]
        BY <2>1, <2>2, HeadTailProperties
    <2> QED
        BY <1>2, <2>1, <2>3 DEF OwnReady, q
<1>4. /\ b.known \subseteq Ids /\ b.service \in [Ids -> Services \cup {None}] /\ b.made \subseteq Services
      /\ b.workers \in [Services -> Int] /\ b.idle \subseteq b.known
    <2>1. /\ b.known \subseteq Ids /\ b.service \in [Ids -> Services \cup {None}] /\ b.made \subseteq Services
          /\ b.workers \in [Services -> Int]
        BY <1>2 DEF BrokerState
    <2>2. b.idle \subseteq b.known
        BY <1>2 DEF Sound
    <2> QED
        BY <2>1, <2>2
<1>5. /\ s.known = b.known \cup {i} /\ s.service = [b.service EXCEPT ![i] = n] /\ s.age = b.age
      /\ s.idle = b.idle /\ s.waiting = b.waiting /\ s.requests = b.requests /\ s.out = b.out
      /\ s.workers = [b.workers EXCEPT ![n] = @ + 1] /\ s.made = b.made \cup {n}
    BY <1>2 DEF Entered, Require, ServiceRequire, BrokerState
<1>6. s = [b EXCEPT !.known = s.known, !.service = s.service, !.workers = s.workers, !.made = s.made]
    <2>1. r = [b EXCEPT !.known = b.known \cup {i}, !.made = b.made \cup {n}]
        BY <1>2 DEF Require, ServiceRequire, BrokerState
    <2>2. s = [r EXCEPT !.service[i] = n, !.workers[n] = @ + 1]
        BY DEF Entered
    <2> HIDE DEF r
    <2>3. s = [r EXCEPT !.service = s.service, !.workers = s.workers]
        BY <1>2, <2>1, <2>2 DEF BrokerState
    <2>4. s = [b EXCEPT !.known = b.known \cup {i}, !.service = s.service, !.workers = s.workers,
                        !.made = b.made \cup {n}]
        BY <1>2, <2>1, <2>3 DEF BrokerState
    <2> QED
        BY <1>5, <2>4
<1>7. /\ s.known \subseteq Ids /\ s.service \in [Ids -> Services \cup {None}] /\ s.made \subseteq Services
      /\ s.workers \in [Services -> Int]
    BY <1>2, <1>4, <1>5
<1>8. s \in BrokerState
    BY <1>2, <1>6, <1>7 DEF BrokerState
<1>9. /\ s.service[i] = n /\ \A k \in Ids \ {i} : s.service[k] = b.service[k]
    BY <1>4, <1>5
<1>10. Sound(s, {})
    <2>1. IsFiniteSet(s.known)
        BY <1>2, <1>5, FS_AddElement DEF Sound
    <2>2. \A m \in Services : \A k \in ToSet(s.waiting[m]) : k \in s.known /\ s.service[k] = m
        <3> SUFFICES ASSUME NEW m \in Services, NEW k \in ToSet(s.waiting[m])
                     PROVE  k \in s.known /\ s.service[k] = m
            OBVIOUS
        <3>1. k \in b.known /\ b.service[k] = m
            BY <1>2, <1>5 DEF Sound
        <3> QED
            BY <1>3, <1>4, <1>5, <1>9, <3>1
    <2>3. \A k \in s.known : s.service[k] \in Services
        BY <1>2, <1>4, <1>5, <1>9 DEF Sound
    <2>4. \A k \in Ids : s.service[k] # None => k \in s.known
        BY <1>2, <1>5, <1>9 DEF Sound
    <2>5. s.idle = UNION {ToSet(s.waiting[m]) : m \in Services} /\ \A m \in Services : Distinct(s.waiting[m])
        BY <1>2, <1>5 DEF Sound
    <2> QED
        BY <1>8, <2>1, <2>2, <2>3, <2>4, <2>5 DEF Sound
<1>11. Served(s) /\ Young(s)
    BY <1>2, <1>5 DEF Served, Young
<1>12. i \in s.known /\ i \notin s.idle
    BY <1>3, <1>4, <1>5
<1> QED
    BY <1>3, <1>5, <1>9, <1>10, <1>11, <1>12

LEMMA TakeReadyKept == ASSUME InStep, NEW i \in Ids, TakeReady(i) PROVE InStep' /\ Balanced
<1> DEFINE n == Head(toBroker[i]).service
           s == [ServiceRequire(Require(b, i), n) EXCEPT !.service[i] = n, !.workers[n] = @ + 1]
<1>1. Take(i, "READY") /\ b' = IF i \in b.known THEN Dismiss(b, i) ELSE Waiting(s, i)
    BY DEF TakeReady
<1>2. Entered(s, i, n)
    BY DEF Entered
<1> HIDE DEF s
<1>3. TypeOK /\ Sound(b, {}) /\ b \in BrokerState /\ n \in Services
    <2>1. TypeOK /\ Sound(b, {}) /\ b \in BrokerState
        BY DEF InStep, Sound
    <2>2. n \in Services
        BY <1>1, <2>1, TakeTyped
    <2> QED
        BY <2>1, <2>2
<1>4. /\ i \notin b.known /\ \E w \in Workers : i \in IdsOf[w] /\ n = ServiceOf[w]
      /\ Sound(s, {}) /\ Served(s) /\ Young(s)
      /\ i \in s.known /\ i \notin s.idle
      /\ s.known = b.known \cup {i} /\ s.idle = b.idle /\ s.out = b.out
      /\ s.service[i] = n /\ \A k \in Ids \ {i} : s.service[k] = b.service[k]
      /\ s.workers = [b.workers EXCEPT ![n] = @ + 1]
    BY <1>1, <1>2, ReadyEntered
<1> HIDE DEF n
<1>5. b.known \subseteq Ids /\ b.workers \in [Services -> Int]
    BY <1>3 DEF BrokerState
<1>6. Sound(b', {}) /\ Served(b') /\ Changes(s, b', {i})
    BY <1>1, <1>4, WaitingKeeps
<1>7. \A m \in Services :
          s.workers[m] - b.workers[m] = Cardinality(AttachedTo(s, m)) - Cardinality(AttachedTo(b, m))
    <2> SUFFICES ASSUME NEW m \in Services
                 PROVE  s.workers[m] - b.workers[m] = Cardinality(AttachedTo(s, m)) - Cardinality(AttachedTo(b, m))
        OBVIOUS
    <2> DEFINE A == AttachedTo(b, m)
    <2>1. IsFiniteSet(A) /\ Cardinality(A) \in Nat /\ b.workers[m] \in Int
        BY <1>3, AttachedNat
    <2>2. i \notin A
        BY <1>4 DEF AttachedTo
    <2>3. AttachedTo(s, m) = IF m = n THEN A \cup {i} ELSE A
        BY <1>4, <1>5 DEF AttachedTo
    <2>4. s.workers[m] = IF m = n THEN b.workers[m] + 1 ELSE b.workers[m]
        BY <1>3, <1>4, <1>5
    <2> HIDE DEF A
    <2>5. Cardinality(A \cup {i}) = Cardinality(A) + 1
        BY <2>1, <2>2, FS_AddElement
    <2>6. s.workers[m] - b.workers[m] = Cardinality(AttachedTo(s, m)) - Cardinality(A)
        BY <2>1, <2>3, <2>4, <2>5
    <2> QED
        BY <2>6 DEF A
<1> DEFINE D == {i}
<1>8. Changes(s, b', D) /\ D \in SUBSET {i} /\ D = {i} /\ s.known = b.known \cup D
    BY <1>4, <1>6
<1>9. \A k \in b.known : s.service[k] = b.service[k]
    BY <1>4, <1>5
<1>10. \A k \in s.known \ b.known : \E w \in Workers : k \in IdsOf[w] /\ s.service[k] = ServiceOf[w]
    BY <1>4
<1> HIDE DEF D
<1> QED
    BY <1>1, <1>4, <1>6, <1>7, <1>8, <1>9, <1>10, TakeStep

-----------------------------------------------------------------------------
(* Steps that enter nothing in the broker's lists: a READY on its way was  *)
(* so before, at its place, or is the first message of a new socket.       *)
LEMMA QuietStep ==
    ASSUME InStep, TypeOK', Sound(b', {}), Young(b'), Served(b'),
           b'.known \subseteq b.known,
           \A j \in b'.known : b'.service[j] = b.service[j],
           \A j \in Ids : Load(j)' <= Load(j),
           \A j \in Ids : j \in b'.known /\ j \in Open' => j \in Open /\ Load(j)' = Load(j),
           \A j \in Ids : \A k \in DOMAIN toBroker'[j] :
               toBroker'[j][k].type = "READY" =>
                  \/ k \in DOMAIN toBroker[j] /\ toBroker'[j][k] = toBroker[j][k]
                  \/ /\ k = 1 /\ j \notin b.known /\ Load(j) = 0
                     /\ \E w \in Workers : j \in IdsOf[w] /\ toBroker'[j][k].service = ServiceOf[w],
           OutOpen', Sockets', Sessions'
    PROVE  InStep'
<1>1. /\ TypeOK /\ OneLoad /\ OwnReady /\ OwnKnown
      /\ b.known \subseteq Ids
    BY DEF InStep, TypeOK, BrokerState
<1>2. \A j \in Ids : Load(j) \in Nat /\ Load(j)' \in Nat
    BY <1>1, LoadNat
<1>3. OneLoad'
    <2> SUFFICES ASSUME NEW j \in Ids
                 PROVE  Load(j)' <= 1 /\ (j \in b'.known /\ j \in Open' => Load(j)' = 1)
        BY DEF OneLoad
    <2>1. Load(j) <= 1 /\ (j \in b.known \cap Open => Load(j) = 1)
        BY <1>1 DEF OneLoad
    <2> QED
        BY <1>2, <2>1
<1>4. OwnReady'
    <2> SUFFICES ASSUME NEW j \in Ids, NEW k \in DOMAIN toBroker'[j], toBroker'[j][k].type = "READY"
                 PROVE  /\ k = 1 /\ j \notin b'.known /\ Load(j)' = 0
                        /\ \E w \in Workers : j \in IdsOf[w] /\ toBroker'[j][k].service = ServiceOf[w]
        BY DEF OwnReady
    <2>1. /\ k = 1 /\ j \notin b.known /\ Load(j) = 0
          /\ \E w \in Workers : j \in IdsOf[w] /\ toBroker'[j][k].service = ServiceOf[w]
        BY <1>1 DEF OwnReady
    <2>2. Load(j)' = 0
        BY <1>2, <2>1
    <2> QED
        BY <2>1, <2>2
<1>5. OwnKnown'
    BY <1>1 DEF OwnKnown
<1> QED
    BY <1>3, <1>4, <1>5 DEF InStep

(* Messages to the sockets come and go.                                    *)
LEMMA OutKept ==
    ASSUME InStep, b' = [b EXCEPT !.out = b'.out], b'.out \in [Ids -> Seq(FromBroker)]
    PROVE  /\ Sound(b', {}) /\ Young(b') /\ Served(b') /\ Balanced
           /\ b' \in BrokerState
           /\ b'.known = b.known /\ b'.service = b.service /\ b'.idle = b.idle
<1>1. Sound(b, {}) /\ Young(b) /\ Served(b) /\ b \in BrokerState
    BY DEF InStep, Sound
<1>2. /\ b'.known = b.known /\ b'.service = b.service /\ b'.idle = b.idle /\ b'.age = b.age
      /\ b'.waiting = b.waiting /\ b'.requests = b.requests /\ b'.workers = b.workers
    BY <1>1 DEF BrokerState
<1>3. b' \in BrokerState
    BY <1>1 DEF BrokerState
<1>4. Sound(b', {})
    BY <1>1, <1>2, <1>3 DEF Sound
<1>5. Young(b') /\ Served(b')
    BY <1>1, <1>2 DEF Young, Served
<1>6. \A n \in Services : AttachedTo(b', n) = AttachedTo(b, n)
    BY <1>2 DEF AttachedTo
<1>7. Balanced
    <2> SUFFICES ASSUME NEW n \in Services
                 PROVE  b'.workers[n] - b.workers[n] = Cardinality(AttachedTo(b', n)) - Cardinality(AttachedTo(b, n))
        BY DEF Balanced
    <2>1. b.workers[n] \in Int /\ Cardinality(AttachedTo(b, n)) \in Nat
        BY <1>1, AttachedNat
    <2> QED
        BY <1>2, <1>6, <2>1
<1> QED
    BY <1>2, <1>3, <1>4, <1>5, <1>7

(* Whose a socket is.                                                      *)
LEMMA OwnSocket ==
    ASSUME Sockets, NEW p \in Procs, sock[p] # Closed
    PROVE  /\ sock[p] \in IdsOf[p] /\ sock[p] \in Ids /\ sock[p] \in Open
           /\ \A q \in Procs \ {p} : sock[q] # sock[p]
<1>1. sock[p] \in IdsOf[p] /\ sock[p] \in Ids
    BY DEF Sockets, Ids
<1>2. ASSUME NEW q \in Procs \ {p} PROVE sock[q] # sock[p]
    <2>1. sock[q] \in IdsOf[q] \cup {Closed} /\ IdsOf[p] \cap IdsOf[q] = {}
        BY MajordomoAssumption DEF Sockets
    <2> QED
        BY <1>1, <2>1
<1> QED
    BY <1>1, <1>2 DEF Open

LEMMA BusyOne ==
    ASSUME Sockets, Sessions, NEW w \in Workers, sock[w] # Closed
    PROVE  sock[w] \in Busy <=> job[w] # NoJob
<1>1. w \in Procs /\ \A x \in Workers \ {w} : sock[x] # sock[w]
    BY OwnSocket DEF Procs
<1> QED
    BY <1>1 DEF Busy

(* The broker's own steps.                                                 *)
LEMMA BeatKept == ASSUME InStep, Beat PROVE InStep' /\ Balanced
<1> DEFINE age == [i \in Ids |-> IF i \in b.idle THEN b.age[i] + 1 ELSE b.age[i]]
           s == [b EXCEPT !.age = age]
<1>1. TypeOK /\ Sound(b, {}) /\ Young(b) /\ Served(b) /\ b \in BrokerState
    BY DEF InStep, Sound
<1>2. /\ b' = Purge([b EXCEPT !.age = [i \in Ids |-> IF i \in b.idle THEN @[i] + 1 ELSE @[i]]])
      /\ up' = up /\ sock' = sock /\ toBroker' = toBroker /\ job' = job /\ runs' = runs
      /\ cli' = cli /\ faults' = faults
    BY DEF Beat, workerVars
<1>3. b' = Purge(s)
    <2>1. [b EXCEPT !.age = [i \in Ids |-> IF i \in b.idle THEN @[i] + 1 ELSE @[i]]] = s
        BY <1>1 DEF BrokerState
    <2> HIDE DEF s
    <2> QED
        BY <1>2, <2>1
<1>4. b.age \in [Ids -> 0 .. Expiry]
    BY <1>1 DEF BrokerState
<1>5. age \in [Ids -> 0 .. Expiry] /\ \A i \in Ids \ b.idle : age[i] < Expiry
    BY <1>1, <1>4, MajordomoAssumption DEF Young
<1> HIDE DEF age
<1>6. /\ Sound(s, {}) /\ Served(s) /\ s.age = age /\ s.idle = b.idle
      /\ s.known = b.known /\ s.service = b.service /\ s.out = b.out
      /\ \A i \in Ids : Held(s, i) = Held(b, i)
      /\ \A n \in Services :
            s.workers[n] - b.workers[n] = Cardinality(AttachedTo(s, n)) - Cardinality(AttachedTo(b, n))
    BY <1>1, <1>5, AgesKept
<1>7. s.waiting = b.waiting /\ s.requests = b.requests
    BY <1>1 DEF BrokerState
<1> HIDE DEF s
<1>8. /\ Sound(b', {}) /\ Changes(s, b', {})
      /\ b'.requests = s.requests
      /\ \A n \in Services : Len(b'.waiting[n]) <= Len(s.waiting[n])
      /\ Young(b')
    BY <1>3, <1>5, <1>6, PurgeKeeps
<1>9. Served(b')
    <2> SUFFICES ASSUME NEW n \in Services PROVE b'.waiting[n] = <<>> \/ b'.requests[n] = <<>>
        BY DEF Served
    <2>1. CASE s.requests[n] = <<>>
        BY <1>8, <2>1
    <2>2. CASE s.waiting[n] = <<>>
        <3>1. Len(s.waiting[n]) = 0
            BY <2>2
        <3>2. b'.waiting[n] \in Seq(Ids) /\ Len(b'.waiting[n]) <= 0 /\ Len(b'.waiting[n]) \in Nat
            BY <1>8, <3>1, LenProperties DEF Sound, BrokerState
        <3> QED
            BY <3>2, EmptySeq
    <2> QED
        BY <1>6, <2>1, <2>2 DEF Served
<1>10. TypeOK'
    BY <1>1, <1>2, <1>8 DEF TypeOK, Sound
<1>11. Open' = Open /\ Busy' = Busy
    BY <1>2 DEF Open, Busy
<1>12. ASSUME NEW j \in Ids
       PROVE  Load(j)' <= Load(j) /\ (j \in b'.known /\ j \in Open' => j \in Open /\ Load(j)' = Load(j))
    <2>1. Held(b', j) <= Held(s, j) + 0 /\ (j \in b'.known \cap Open => Held(b', j) = Held(s, j) + 0)
        BY <1>8 DEF Changes
    <2>2. Held(s, j) = Held(b, j) /\ Held(b, j) \in Nat /\ Held(b', j) \in Nat /\ Count(toBroker[j], "REPLY") \in Nat
        BY <1>1, <1>6, <1>10, LoadNat
    <2>3. Load(j) = Held(b, j) + Count(toBroker[j], "REPLY") + IF j \in Busy THEN 1 ELSE 0
        BY DEF Load
    <2>4. Load(j)' = Held(b', j) + Count(toBroker[j], "REPLY") + IF j \in Busy THEN 1 ELSE 0
        BY <1>2, <1>11 DEF Load
    <2> QED
        BY <1>11, <2>1, <2>2, <2>3, <2>4
<1>13. b'.known \subseteq b.known /\ \A j \in b'.known : b'.service[j] = b.service[j]
    BY <1>6, <1>8 DEF Changes
<1>14. OutOpen' /\ Sockets' /\ Sessions'
    <2>1. OutOpen'
        BY <1>6, <1>8, <1>11 DEF InStep, OutOpen, Changes
    <2>2. Sockets' /\ Sessions'
        BY <1>2 DEF InStep, Sockets, Sessions
    <2> QED
        BY <2>1, <2>2
<1>15. \A j \in Ids : \A k \in DOMAIN toBroker'[j] :
          k \in DOMAIN toBroker[j] /\ toBroker'[j][k] = toBroker[j][k]
    BY <1>2
<1>16. InStep'
    BY <1>8, <1>9, <1>10, <1>12, <1>13, <1>14, <1>15, QuietStep
<1>17. Balanced
    <2> SUFFICES ASSUME NEW n \in Services
                 PROVE  b'.workers[n] - b.workers[n] = Cardinality(AttachedTo(b', n)) - Cardinality(AttachedTo(b, n))
        BY DEF Balanced
    <2>1. /\ b'.workers[n] \in Int /\ s.workers[n] \in Int /\ b.workers[n] \in Int
          /\ Cardinality(AttachedTo(b', n)) \in Nat /\ Cardinality(AttachedTo(s, n)) \in Nat
          /\ Cardinality(AttachedTo(b, n)) \in Nat
        BY <1>1, <1>6, <1>8, AttachedNat
    <2>2. /\ b'.workers[n] - s.workers[n] = Cardinality(AttachedTo(b', n)) - Cardinality(AttachedTo(s, n))
          /\ s.workers[n] - b.workers[n] = Cardinality(AttachedTo(s, n)) - Cardinality(AttachedTo(b, n))
        BY <1>6, <1>8 DEF Changes
    <2> QED
        BY <2>1, <2>2
<1> QED
    BY <1>16, <1>17

LEMMA CrashBrokerKept == ASSUME InStep, CrashBroker PROVE InStep' /\ Balanced
<1>1. PICK lost \in SUBSET {i \in Ids : toBroker[i] # <<>>}, gone \in SUBSET {i \in Ids : b.out[i] # <<>>} :
         /\ toBroker' = [i \in Ids |-> IF i \in lost \/ i \notin Open THEN <<>> ELSE toBroker[i]]
         /\ b' = [Blank([s \in Services |-> 0]) EXCEPT
                     !.out = [i \in Ids |-> IF i \in gone THEN <<>> ELSE b.out[i]]]
    BY DEF CrashBroker
<1>2. /\ up' = FALSE /\ faults < MaxFaults /\ faults' = faults + 1
      /\ sock' = sock /\ job' = job /\ runs' = runs /\ cli' = cli
    BY DEF CrashBroker, workerVars
<1>3. TypeOK /\ b \in BrokerState
    BY DEF InStep, Sound
<1>4. /\ b'.known = {} /\ b'.service = [i \in Ids |-> None] /\ b'.age = [i \in Ids |-> 0]
      /\ b'.idle = {} /\ b'.made = {} /\ b'.waiting = [s \in Services |-> <<>>]
      /\ b'.requests = [s \in Services |-> <<>>] /\ b'.workers = [s \in Services |-> 0]
      /\ b'.out = [i \in Ids |-> IF i \in gone THEN <<>> ELSE b.out[i]]
    BY <1>1 DEF Blank
<1>5. b' = [known |-> b'.known, service |-> b'.service, age |-> b'.age, idle |-> b'.idle,
            made |-> b'.made, waiting |-> b'.waiting, requests |-> b'.requests,
            workers |-> b'.workers, out |-> b'.out]
    BY <1>1 DEF Blank
<1>6. /\ b'.service \in [Ids -> Services \cup {None}] /\ b'.age \in [Ids -> 0 .. Expiry]
      /\ b'.waiting \in [Services -> Seq(Ids)] /\ b'.requests \in [Services -> Seq(Job)]
      /\ b'.workers \in [Services -> Int] /\ b'.out \in [Ids -> Seq(FromBroker)]
    <2>1. 0 \in 0 .. Expiry
        BY MajordomoAssumption
    <2>2. b.out \in [Ids -> Seq(FromBroker)]
        BY <1>3 DEF BrokerState
    <2> QED
        BY <1>4, <2>1, <2>2
<1>7. b' \in BrokerState
    BY <1>4, <1>5, <1>6 DEF BrokerState
<1>8. Sound(b', {})
    <2>1. \A n \in Services : ToSet(b'.waiting[n]) = {} /\ Distinct(b'.waiting[n])
        BY <1>4 DEF ToSet, Distinct
    <2>2. b'.idle = UNION {ToSet(b'.waiting[n]) : n \in Services}
        BY <1>4, <2>1
    <2> QED
        BY <1>4, <1>7, <2>1, <2>2, FS_EmptySet DEF Sound
<1>9. Young(b') /\ Served(b')
    BY <1>4, MajordomoAssumption DEF Young, Served
<1>10. toBroker' \in [Ids -> Seq(ToBroker)] /\ \A j \in Ids : toBroker'[j] \in {<<>>, toBroker[j]}
    BY <1>1, <1>3 DEF TypeOK
<1>11. TypeOK'
    <2>1. faults' \in 0 .. MaxFaults
        BY <1>2, <1>3, MajordomoAssumption DEF TypeOK
    <2> QED
        BY <1>2, <1>3, <1>7, <1>10, <2>1 DEF TypeOK
<1>12. Open' = Open /\ Busy' = Busy
    BY <1>2 DEF Open, Busy
<1>13. \A j \in Ids : Load(j)' <= Load(j)
    <2> SUFFICES ASSUME NEW j \in Ids PROVE Load(j)' <= Load(j)
        OBVIOUS
    <2>1. Count(toBroker'[j], "REPLY") <= Count(toBroker[j], "REPLY")
        BY <1>3, <1>10, LoadNat, CountEmpty
    <2>2. Count(b.out[j], "REQUEST") \in Nat
        BY <1>3, CountNat DEF BrokerState
    <2>3. Count(b'.out[j], "REQUEST") <= Count(b.out[j], "REQUEST")
        BY <1>4, <2>2, CountEmpty
    <2>4. Held(b', j) = Count(b'.out[j], "REQUEST") + 0
        BY <1>4 DEF Held
    <2>5. Held(b', j) <= Held(b, j)
        <3>1. Count(b'.out[j], "REQUEST") \in Nat
            BY <1>6, CountNat
        <3> QED
            BY <2>2, <2>3, <2>4, <3>1 DEF Held
    <2>6. Load(j) = Held(b, j) + Count(toBroker[j], "REPLY") + IF j \in Busy THEN 1 ELSE 0
        BY DEF Load
    <2>7. Load(j)' = Held(b', j) + Count(toBroker'[j], "REPLY") + IF j \in Busy THEN 1 ELSE 0
        BY <1>12 DEF Load
    <2> QED
        BY <1>3, <1>11, <2>1, <2>5, <2>6, <2>7, LoadNat
<1>14. OutOpen'
    BY <1>4, <1>12 DEF InStep, OutOpen
<1>15. Sockets' /\ Sessions'
    BY <1>2 DEF InStep, Sockets, Sessions
<1>16. \A j \in Ids : \A k \in DOMAIN toBroker'[j] :
          k \in DOMAIN toBroker[j] /\ toBroker'[j][k] = toBroker[j][k]
    BY <1>10
<1>17. InStep'
    BY <1>4, <1>8, <1>9, <1>11, <1>13, <1>14, <1>15, <1>16, QuietStep
<1> QED
    BY <1>2, <1>17 DEF Balanced

LEMMA StartBrokerKept == ASSUME InStep, StartBroker PROVE InStep' /\ Balanced
<1>1. PICK g \in [Services -> Garbage] : b' = [b EXCEPT !.workers = g]
    BY DEF StartBroker
<1>2. /\ ~up /\ up' = TRUE /\ sock' = sock /\ toBroker' = toBroker /\ job' = job /\ runs' = runs
      /\ cli' = cli /\ faults' = faults
    BY DEF StartBroker, workerVars
<1>3. TypeOK /\ Sound(b, {}) /\ Young(b) /\ Served(b) /\ b \in BrokerState
    BY DEF InStep, Sound
<1>4. /\ b'.known = b.known /\ b'.service = b.service /\ b'.idle = b.idle /\ b'.age = b.age
      /\ b'.waiting = b.waiting /\ b'.requests = b.requests /\ b'.out = b.out
    BY <1>1, <1>3 DEF BrokerState
<1>5. b' \in BrokerState
    <2>1. g \in [Services -> Int]
        BY MajordomoAssumption
    <2> QED
        BY <1>1, <1>3, <2>1 DEF BrokerState
<1>6. Sound(b', {})
    BY <1>3, <1>4, <1>5 DEF Sound
<1>7. Young(b') /\ Served(b')
    BY <1>3, <1>4 DEF Young, Served
<1>8. TypeOK'
    BY <1>2, <1>3, <1>5 DEF TypeOK
<1>9. Open' = Open /\ Busy' = Busy
    BY <1>2 DEF Open, Busy
<1>10. \A j \in Ids : Load(j)' = Load(j) /\ Load(j) \in Nat
    <2> SUFFICES ASSUME NEW j \in Ids PROVE Load(j)' = Load(j)
        BY <1>3, LoadNat
    <2>1. Held(b', j) = Held(b, j)
        BY <1>4 DEF Held
    <2> QED
        BY <1>2, <1>9, <2>1 DEF Load
<1>11. OutOpen' /\ Sockets' /\ Sessions'
    BY <1>2, <1>4, <1>9 DEF InStep, OutOpen, Sockets, Sessions
<1>12. InStep'
    BY <1>2, <1>4, <1>6, <1>7, <1>8, <1>9, <1>10, <1>11, QuietStep
<1> QED
    BY <1>2, <1>12 DEF Balanced

-----------------------------------------------------------------------------
(* A session sends m, which is no READY; when it is the reply to a job,    *)
(* the worker has done with the job.                                       *)
LEMMA SendStep ==
    ASSUME InStep, NEW p \in Procs, sock[p] # Closed, NEW m \in ToBroker, m.type # "READY",
           SendToBroker(p, m), up' = up, b' = b, sock' = sock, faults' = faults,
           cli' \in [Clients -> Session], runs' \in [Clients -> [1 .. MaxCalls -> Nat]],
           IF m.type = "REPLY" THEN p \in Workers /\ job[p] # NoJob /\ job' = [job EXCEPT ![p] = NoJob]
           ELSE job' = job,
           Sessions'
    PROVE  InStep' /\ Balanced
<1>1. /\ TypeOK /\ Sound(b, {}) /\ Young(b) /\ Served(b) /\ b \in BrokerState
      /\ OutOpen /\ Sockets /\ Sessions
    BY DEF InStep, Sound
<1> DEFINE i == sock[p]
           q == toBroker[i]
<1>2. i \in Ids /\ \A x \in Procs \ {p} : sock[x] # i
    BY <1>1, OwnSocket
<1>3. toBroker \in [Ids -> Seq(ToBroker)] /\ q \in Seq(ToBroker)
    BY <1>1, <1>2 DEF TypeOK
<1>4. toBroker' = [toBroker EXCEPT ![i] = Append(q, m)]
    BY DEF SendToBroker
<1> HIDE DEF i
<1>5. toBroker'[i] = Append(q, m) /\ \A j \in Ids \ {i} : toBroker'[j] = toBroker[j]
    BY <1>2, <1>3, <1>4
<1> HIDE DEF q
<1>6. /\ Append(q, m) \in Seq(ToBroker) /\ \A k \in DOMAIN Append(q, m) :
            (k \in DOMAIN q /\ Append(q, m)[k] = q[k]) \/ Append(q, m)[k] = m
    <2>1. DOMAIN q = 1 .. Len(q) /\ Len(q) \in Nat
        BY <1>3, LenProperties
    <2>2. /\ Append(q, m) \in Seq(ToBroker) /\ DOMAIN Append(q, m) = 1 .. Len(q) + 1
          /\ \A k \in 1 .. Len(q) : Append(q, m)[k] = q[k]
          /\ Append(q, m)[Len(q) + 1] = m
        BY <1>3, <2>1, AppendProperties, LenProperties
    <2> QED
        BY <2>1, <2>2
<1>7. TypeOK'
    <2>1. toBroker' \in [Ids -> Seq(ToBroker)]
        BY <1>3, <1>4, <1>6
    <2>2. job' \in [Workers -> Job \cup {NoJob}]
        BY <1>1 DEF TypeOK
    <2> QED
        BY <1>1, <2>1, <2>2 DEF TypeOK
<1>8. Open' = Open
    BY DEF Open
<1>9. Busy' = IF m.type = "REPLY" THEN Busy \ {i} ELSE Busy
    <2>1. CASE m.type = "REPLY"
        <3>1. \A w \in Workers : job'[w] = IF w = p THEN NoJob ELSE job[w]
            BY <1>1, <2>1 DEF TypeOK
        <3>2. \A w \in Workers \ {p} : sock[w] # i
            BY <1>2 DEF Procs
        <3> QED
            BY <2>1, <3>1, <3>2 DEF Busy, i
    <2> QED
        BY <2>1 DEF Busy
<1>10. m.type = "REPLY" => i \in Busy
    BY DEF Busy, i
<1>11. ASSUME NEW j \in Ids PROVE Load(j)' = Load(j) /\ Load(j) \in Nat
    <2>1. Load(j) = Held(b, j) + Count(toBroker[j], "REPLY") + IF j \in Busy THEN 1 ELSE 0
        BY DEF Load
    <2>2. Load(j)' = Held(b, j) + Count(toBroker'[j], "REPLY") + IF j \in Busy' THEN 1 ELSE 0
        BY DEF Load
    <2>3. Held(b, j) \in Nat /\ Count(toBroker[j], "REPLY") \in Nat /\ Load(j) \in Nat
        BY <1>1, LoadNat
    <2>4. CASE j # i
        BY <1>5, <1>9, <2>1, <2>2, <2>3, <2>4
    <2>5. CASE j = i
        <3>1. Count(toBroker'[j], "REPLY") = Count(toBroker[j], "REPLY") + IF m.type = "REPLY" THEN 1 ELSE 0
            <4>1. Count(Append(q, m), "REPLY") = Count(q, "REPLY") + IF m.type = "REPLY" THEN 1 ELSE 0
                BY <1>3, CountAppend
            <4>2. toBroker'[j] = Append(q, m) /\ toBroker[j] = q
                BY <1>5, <2>5 DEF q
            <4> QED
                BY <4>1, <4>2
        <3> QED
            BY <1>9, <1>10, <2>1, <2>2, <2>3, <2>5, <3>1
    <2> QED
        BY <2>4, <2>5
<1>12. \A j \in Ids : \A k \in DOMAIN toBroker'[j] :
          toBroker'[j][k].type = "READY" => k \in DOMAIN toBroker[j] /\ toBroker'[j][k] = toBroker[j][k]
    BY <1>5, <1>6 DEF q
<1>13. OutOpen' /\ Sockets'
    BY <1>1, <1>8 DEF OutOpen, Sockets
<1>14. InStep'
    BY <1>1, <1>7, <1>8, <1>11, <1>12, <1>13, QuietStep
<1>15. Balanced
    BY <1>1, NothingKept DEF Balanced
<1> QED
    BY <1>14, <1>15

(* A session takes what has come; when it is a request, the worker has a   *)
(* job.                                                                    *)
LEMMA HearStep ==
    ASSUME InStep, NEW p \in Procs, sock[p] # Closed, b.out[sock[p]] # <<>>,
           b' = [b EXCEPT !.out[sock[p]] = Tail(@)], up' = up, sock' = sock, toBroker' = toBroker,
           runs' = runs, faults' = faults, cli' \in [Clients -> Session],
           IF p \in Workers
           THEN /\ job[p] = NoJob
                /\ Head(b.out[sock[p]]).type = "REQUEST"
                /\ job' = [job EXCEPT ![p] = Head(b.out[sock[p]]).job]
           ELSE job' = job,
           Sessions'
    PROVE  InStep' /\ Balanced
<1>1. /\ TypeOK /\ Sound(b, {}) /\ Young(b) /\ Served(b) /\ b \in BrokerState
      /\ OutOpen /\ Sockets /\ Sessions /\ OwnKnown
    BY DEF InStep, Sound
<1> DEFINE i == sock[p]
           q == b.out[i]
<1>2. i \in Ids /\ i \in IdsOf[p] /\ \A x \in Procs \ {p} : sock[x] # i
    BY <1>1, OwnSocket
<1>3. b.out \in [Ids -> Seq(FromBroker)] /\ q \in Seq(FromBroker) /\ q # <<>>
    BY <1>1, <1>2 DEF BrokerState
<1> HIDE DEF i
<1>4. b'.out = [b.out EXCEPT ![i] = Tail(q)] /\ b' = [b EXCEPT !.out = b'.out]
    BY <1>1 DEF BrokerState, i
<1>5. b'.out[i] = Tail(q) /\ \A j \in Ids \ {i} : b'.out[j] = b.out[j]
    BY <1>2, <1>3, <1>4
<1> HIDE DEF q
<1>6. Tail(q) \in Seq(FromBroker) /\ Head(q) \in FromBroker
    BY <1>3
<1>7. b'.out \in [Ids -> Seq(FromBroker)]
    <2>1. [b.out EXCEPT ![i] = Tail(q)] \in [Ids -> Seq(FromBroker)]
        BY <1>3, <1>6
    <2>2. b'.out = [b.out EXCEPT ![i] = Tail(q)]
        BY <1>4
    <2> QED
        BY <2>1, <2>2
<1>8. /\ Sound(b', {}) /\ Young(b') /\ Served(b') /\ Balanced
      /\ b' \in BrokerState
      /\ b'.known = b.known /\ b'.service = b.service /\ b'.idle = b.idle
    BY <1>4, <1>7, OutKept
<1>9. p \in Workers => Head(q).job \in Job /\ Head(q).job # NoJob
    <2> SUFFICES ASSUME p \in Workers PROVE Head(q).job \in Job /\ Head(q).job # NoJob
        OBVIOUS
    <2>1. Head(q).type = "REQUEST"
        BY DEF q, i
    <2>2. Head(q).job \in Job
        BY <1>6, <2>1 DEF FromBroker
    <2>3. Closed \notin Ids
        BY MajordomoAssumption DEF Ids
    <2> QED
        BY <2>2, <2>3 DEF Job, NoJob
<1>10. TypeOK'
    <2>1. job' \in [Workers -> Job \cup {NoJob}]
        BY <1>1, <1>9 DEF TypeOK, q, i
    <2> QED
        BY <1>1, <1>8, <2>1 DEF TypeOK
<1>11. Open' = Open
    BY DEF Open
<1>12. Busy' = IF p \in Workers THEN Busy \cup {i} ELSE Busy
    <2>1. CASE p \in Workers
        <3>1. \A w \in Workers : job'[w] = IF w = p THEN Head(q).job ELSE job[w]
            BY <1>1, <2>1 DEF TypeOK, q, i
        <3> QED
            BY <1>9, <2>1, <3>1 DEF Busy, i
    <2>2. CASE p \notin Workers
        BY <2>2 DEF Busy
    <2> QED
        BY <2>1, <2>2
<1>13. p \in Workers => i \notin Busy
    BY <1>1, BusyOne DEF i
<1>14. p \notin Workers => i \notin b.known
    <2> SUFFICES ASSUME p \notin Workers, i \in b.known PROVE FALSE
        OBVIOUS
    <2>1. PICK w \in Workers : i \in IdsOf[w]
        BY <1>1 DEF OwnKnown
    <2>2. IdsOf[w] \cap IdsOf[p] = {}
        BY MajordomoAssumption DEF Procs
    <2> QED
        BY <1>2, <2>1, <2>2
<1>15. ASSUME NEW j \in Ids
       PROVE  Load(j) \in Nat /\ Load(j)' <= Load(j) /\ (j \in b.known => Load(j)' = Load(j))
    <2>1. Load(j) = Held(b, j) + Count(toBroker[j], "REPLY") + IF j \in Busy THEN 1 ELSE 0
        BY DEF Load
    <2>2. Load(j)' = Held(b', j) + Count(toBroker[j], "REPLY") + IF j \in Busy' THEN 1 ELSE 0
        BY DEF Load
    <2>3. /\ Held(b, j) \in Nat /\ Held(b', j) \in Nat /\ Count(toBroker[j], "REPLY") \in Nat
          /\ Load(j) \in Nat
        BY <1>1, <1>10, LoadNat
    <2>4. CASE j # i
        <3>1. Held(b', j) = Held(b, j)
            BY <1>5, <1>8, <2>4 DEF Held
        <3>2. j \in Busy' <=> j \in Busy
            BY <1>12, <2>4
        <3> QED
            BY <2>1, <2>2, <2>3, <3>1, <3>2
    <2>5. CASE j = i
        <3> DEFINE one == IF Head(q).type = "REQUEST" THEN 1 ELSE 0
                   idle == IF i \in b.idle THEN 1 ELSE 0
        <3>1. Count(Tail(q), "REQUEST") = Count(q, "REQUEST") - one /\ Count(q, "REQUEST") \in Nat
            BY <1>3, CountTail, CountNat
        <3>2. Held(b, i) = Count(q, "REQUEST") + idle /\ Held(b', i) = Count(Tail(q), "REQUEST") + idle
            BY <1>5, <1>8 DEF Held, q
        <3>3. one \in {0, 1} /\ idle \in {0, 1}
            OBVIOUS
        <3> HIDE DEF one, idle
        <3>4. Held(b', i) = Held(b, i) - one
            BY <3>1, <3>2, <3>3
        <3>5. CASE p \in Workers
            <4>1. one = 1
                BY <3>5 DEF one, q, i
            <4> QED
                BY <1>12, <1>13, <2>1, <2>2, <2>3, <2>5, <3>4, <3>5, <4>1
        <3>6. CASE p \notin Workers
            BY <1>12, <1>14, <2>1, <2>2, <2>3, <2>5, <3>3, <3>4, <3>6
        <3> QED
            BY <3>5, <3>6
    <2> QED
        BY <2>4, <2>5
<1>16. OutOpen' /\ Sockets'
    <2>1. OutOpen'
        <3>1. \A j \in Ids : b'.out[j] # <<>> => b.out[j] # <<>>
            BY <1>3, <1>5 DEF q
        <3> QED
            BY <1>1, <1>11, <3>1 DEF OutOpen
    <2> QED
        BY <1>1, <2>1 DEF Sockets
<1>17. InStep'
    BY <1>8, <1>10, <1>11, <1>15, <1>16, QuietStep
<1> QED
    BY <1>8, <1>17

LEMMA FreeOne ==
    ASSUME NEW p \in Procs, Free(p) # {}
    PROVE  Min(Free(p)) \in Free(p)
<1>1. Free(p) \subseteq IdsOf[p] /\ IdsOf[p] \subseteq Nat
    BY MajordomoAssumption DEF Free
<1>2. \E x \in Free(p) : \A y \in Free(p) : x <= y
    <2> HIDE DEF Free
    <2> QED
        BY <1>1, LeastNumber
<1> HIDE DEF Free
<1> QED
    BY <1>2 DEF Min

(* p's socket is closed, and maybe another taken, with the identity of     *)
(* nothing the broker knows of; what is first sent on it is no reply.      *)
Moved(p, new) ==
    /\ new = Closed \/ new \in Free(p)
    /\ sock' = [sock EXCEPT ![p] = new]
    /\ toBroker' \in [Ids -> Seq(ToBroker)]
    /\ \A j \in Ids : j # new => /\ toBroker'[j] \in {<<>>, toBroker[j]}
                                 /\ j # sock[p] => toBroker'[j] = toBroker[j]
    /\ new # Closed => Count(toBroker'[new], "REPLY") = 0
    /\ new # Closed => \A k \in DOMAIN toBroker'[new] : toBroker'[new][k].type = "READY" =>
           k = 1 /\ p \in Workers /\ toBroker'[new][k].service = ServiceOf[p]
    /\ b' = [b EXCEPT !.out = b'.out] /\ b'.out \in [Ids -> Seq(FromBroker)]
    /\ \A j \in Ids : b'.out[j] = IF j = sock[p] THEN <<>> ELSE b.out[j]
    /\ job' = [w \in Workers |-> IF w = p THEN NoJob ELSE job[w]]
    /\ \A c \in Clients : cli'[c].tries > 0 =>
           /\ IF c = p THEN new # Closed ELSE cli[c].tries > 0
           /\ cli'[c].asks \/ cli'[c].made > 0

LEMMA MoveStep ==
    ASSUME InStep, NEW p \in Procs, NEW new, Moved(p, new),
           up' = up, runs' = runs, faults' \in 0 .. MaxFaults, cli' \in [Clients -> Session]
    PROVE  InStep' /\ Balanced
<1> USE DEF Moved
<1>1. /\ TypeOK /\ Sound(b, {}) /\ Young(b) /\ Served(b) /\ b \in BrokerState
      /\ OutOpen /\ Sockets /\ Sessions
    BY DEF InStep, Sound
<1> DEFINE old == sock[p]
<1>2. Closed \notin Ids /\ IdsOf[p] \subseteq Ids
    BY MajordomoAssumption DEF Ids
<1>3. new # Closed => /\ new \in IdsOf[p] /\ new \in Ids /\ new \notin Open
                     /\ new \notin b.known /\ toBroker[new] = <<>>
    BY <1>2 DEF Free
<1>4. \A q \in Procs : sock'[q] = IF q = p THEN new ELSE sock[q]
    BY <1>1 DEF TypeOK
<1>5. Sockets'
    BY <1>1, <1>3, <1>4 DEF Sockets
<1>6. old # Closed => /\ old \in Ids /\ old \in Open
                     /\ \A q \in Procs \ {p} : sock[q] # old
    BY <1>1, OwnSocket
<1>7. /\ \A j \in Open' : j = new \/ (j \in Open /\ j # old)
      /\ \A j \in Open : j # old => j \in Open'
    <2>1. ASSUME NEW j \in Open' PROVE j = new \/ (j \in Open /\ j # old)
        <3>1. j \in Ids /\ \E q \in Procs : sock'[q] = j
            BY DEF Open
        <3>2. PICK q \in Procs : sock'[q] = j
            BY <3>1
        <3>3. CASE q = p
            BY <1>4, <3>2, <3>3
        <3>4. CASE q # p
            <4>1. sock[q] = j
                BY <1>4, <3>2, <3>4
            <4> QED
                BY <1>2, <1>6, <3>1, <3>4, <4>1 DEF Open
        <3> QED
            BY <3>3, <3>4
    <2>2. ASSUME NEW j \in Open, j # old PROVE j \in Open'
        <3>1. PICK q \in Procs : sock[q] = j
            BY DEF Open
        <3>2. sock'[q] = j /\ j \in Ids
            BY <1>4, <2>2, <3>1 DEF Open
        <3> QED
            BY <3>2 DEF Open
    <2> QED
        BY <2>1, <2>2
<1>8. /\ Sound(b', {}) /\ Young(b') /\ Served(b') /\ Balanced
      /\ b' \in BrokerState
      /\ b'.known = b.known /\ b'.service = b.service /\ b'.idle = b.idle
    BY OutKept
<1>9. TypeOK'
    <2>1. sock' \in [Procs -> Ids \cup {Closed}]
        BY <1>1, <1>3 DEF TypeOK
    <2>2. job' \in [Workers -> Job \cup {NoJob}]
        BY <1>1 DEF TypeOK
    <2> QED
        BY <1>1, <1>8, <2>1, <2>2 DEF TypeOK
<1>10. Busy' \subseteq Busy /\ \A j \in Busy : j = old \/ j \in Busy'
    <2>1. \A w \in Workers : job'[w] = IF w = p THEN NoJob ELSE job[w]
        OBVIOUS
    <2>2. \A w \in Workers : w # p => sock'[w] = sock[w]
        BY <1>4 DEF Procs
    <2>3. ASSUME NEW j \in Busy' PROVE j \in Busy
        <3>1. PICK w \in Workers : job'[w] # NoJob /\ j = sock'[w]
            BY DEF Busy
        <3>2. w # p
            BY <2>1, <3>1
        <3>3. job[w] # NoJob /\ j = sock[w]
            BY <2>1, <2>2, <3>1, <3>2
        <3> QED
            BY <3>3 DEF Busy
    <2>4. ASSUME NEW j \in Busy, j # old PROVE j \in Busy'
        <3>1. PICK w \in Workers : job[w] # NoJob /\ j = sock[w]
            BY DEF Busy
        <3>2. w # p
            BY <2>4, <3>1
        <3>3. job'[w] # NoJob /\ j = sock'[w]
            BY <2>1, <2>2, <3>1, <3>2
        <3> QED
            BY <3>3 DEF Busy
    <2> QED
        BY <2>3, <2>4
<1>11. Busy \subseteq Open
    <2>1. \A w \in Workers : job[w] # NoJob => sock[w] \in Open
        BY <1>1, OwnSocket DEF Sessions, Procs
    <2> QED
        BY <2>1 DEF Busy
<1>12. new # Closed => Load(new) = 0
    <2> SUFFICES ASSUME new # Closed PROVE Load(new) = 0
        OBVIOUS
    <2>1. b.out[new] = <<>> /\ toBroker[new] = <<>>
        BY <1>1, <1>3 DEF OutOpen
    <2>2. Count(b.out[new], "REQUEST") = 0 /\ Count(toBroker[new], "REPLY") = 0
        BY <2>1, CountEmpty
    <2>3. new \notin b.idle
        BY <1>1, <1>3 DEF Sound
    <2>4. new \notin Busy
        BY <1>3, <1>11
    <2> QED
        BY <2>2, <2>3, <2>4 DEF Load, Held
<1>13. ASSUME NEW j \in Ids
       PROVE  Load(j) \in Nat /\ Load(j)' <= Load(j) /\ (j # old => Load(j)' = Load(j))
    <2>1. Load(j) = Held(b, j) + Count(toBroker[j], "REPLY") + IF j \in Busy THEN 1 ELSE 0
        BY DEF Load
    <2>2. Load(j)' = Held(b', j) + Count(toBroker'[j], "REPLY") + IF j \in Busy' THEN 1 ELSE 0
        BY DEF Load
    <2>3. /\ Held(b, j) \in Nat /\ Held(b', j) \in Nat /\ Load(j) \in Nat
          /\ Count(toBroker[j], "REPLY") \in Nat /\ Count(toBroker'[j], "REPLY") \in Nat
        BY <1>1, <1>9, LoadNat
    <2>4. Count(toBroker'[j], "REPLY") <= Count(toBroker[j], "REPLY")
          /\ (j # old => Count(toBroker'[j], "REPLY") = Count(toBroker[j], "REPLY"))
        <3>1. CASE j = new
            <4>1. Count(toBroker'[j], "REPLY") = 0 /\ toBroker[j] = <<>>
                BY <1>2, <1>3, <3>1
            <4> QED
                BY <4>1, CountEmpty
        <3>2. CASE j # new
            <4>1. Count(<<>>, "REPLY") = 0
                BY CountEmpty
            <4> QED
                BY <2>3, <3>2, <4>1
        <3> QED
            BY <3>1, <3>2
    <2>5. Held(b', j) <= Held(b, j) /\ (j # old => Held(b', j) = Held(b, j))
        <3>1. CASE j = old
            <4>1. b'.out[j] = <<>>
                BY <3>1
            <4>2. Count(b'.out[j], "REQUEST") = 0 /\ Count(b.out[j], "REQUEST") \in Nat
                BY <1>1, <4>1, CountEmpty, CountNat DEF BrokerState
            <4> QED
                BY <1>8, <3>1, <4>2 DEF Held
        <3>2. CASE j # old
            BY <1>8, <2>3, <3>2 DEF Held
        <3> QED
            BY <3>1, <3>2
    <2>6. (j \in Busy' => j \in Busy) /\ (j # old => (j \in Busy' <=> j \in Busy))
        BY <1>10
    <2> QED
        BY <2>1, <2>2, <2>3, <2>4, <2>5, <2>6
<1>14. \A j \in Ids : j \in b'.known /\ j \in Open' => j \in Open /\ Load(j)' = Load(j)
    <2> SUFFICES ASSUME NEW j \in Ids, j \in b.known, j \in Open' PROVE j \in Open /\ Load(j)' = Load(j)
        BY <1>8
    <2>1. j # new
        BY <1>2, <1>3
    <2> QED
        BY <1>7, <1>13, <2>1
<1>15. ASSUME NEW j \in Ids, NEW k \in DOMAIN toBroker'[j], toBroker'[j][k].type = "READY"
       PROVE  \/ k \in DOMAIN toBroker[j] /\ toBroker'[j][k] = toBroker[j][k]
              \/ /\ k = 1 /\ j \notin b.known /\ Load(j) = 0
                 /\ \E w \in Workers : j \in IdsOf[w] /\ toBroker'[j][k].service = ServiceOf[w]
    <2>1. CASE j = new
        BY <1>2, <1>3, <1>12, <1>15, <2>1
    <2>2. CASE j # new
        <3>1. toBroker'[j] \in {<<>>, toBroker[j]}
            BY <2>2
        <3> QED
            BY <3>1
    <2> QED
        BY <2>1, <2>2
<1>16. OutOpen'
    <2> SUFFICES ASSUME NEW j \in Ids, b'.out[j] # <<>> PROVE j \in Open'
        BY DEF OutOpen
    <2>1. j # old /\ b.out[j] # <<>>
        OBVIOUS
    <2> QED
        BY <1>1, <1>7, <2>1 DEF OutOpen
<1>17. Sessions'
    <2>1. \A w \in Workers : job'[w] # NoJob => sock'[w] # Closed
        BY <1>1, <1>4 DEF Sessions, Procs
    <2>2. \A c \in Clients : cli'[c].tries > 0 => sock'[c] # Closed /\ (cli'[c].asks \/ cli'[c].made > 0)
        BY <1>1, <1>4 DEF Sessions, Procs
    <2> QED
        BY <2>1, <2>2 DEF Sessions
<1>18. InStep'
    <2>1. \A j \in Ids : Load(j)' <= Load(j)
        BY <1>13
    <2> QED
        BY <1>5, <1>8, <1>9, <1>14, <1>15, <1>16, <1>17, <2>1, QuietStep
<1> QED
    BY <1>8, <1>18

LEMMA OneFirst ==
    ASSUME NEW m \in ToBroker, m.type # "REPLY"
    PROVE  /\ <<m>> \in Seq(ToBroker) /\ Count(<<m>>, "REPLY") = 0
           /\ \A k \in DOMAIN <<m>> : k = 1 /\ <<m>>[k] = m
<1>1. <<m>> \in Seq(ToBroker) /\ \A k \in DOMAIN <<m>> : k = 1 /\ <<m>>[k] = m
    OBVIOUS
<1>2. Count(<<m>>, "REPLY") = 0
    BY <1>1, CountNat
<1> QED
    BY <1>1, <1>2

LEMMA LeftoverOne ==
    ASSUME TypeOK, NEW i \in Ids, NEW q \in Leftover(i)
    PROVE  q \in {<<>>, toBroker[i]} /\ q \in Seq(ToBroker)
<1>1. toBroker[i] \in Seq(ToBroker)
    BY DEF TypeOK
<1>2. CASE up
    <2>1. Leftover(i) = {<<>>} \cup {toBroker[i]}
        BY <1>2 DEF Leftover
    <2>2. q = <<>> \/ q = toBroker[i]
        BY <2>1
    <2>3. <<>> \in Seq(ToBroker)
        OBVIOUS
    <2> QED
        BY <1>1, <2>2, <2>3
<1>3. CASE ~up
    BY <1>3 DEF Leftover
<1> QED
    BY <1>2, <1>3

(* What connecting does to the sockets.                                   *)
LEMMA ConnectMoves ==
    ASSUME InStep, NEW p \in Procs, NEW first \in Seq(ToBroker), Connect(p, first),
           Count(first, "REPLY") = 0,
           \A k \in DOMAIN first : first[k].type = "READY" =>
                k = 1 /\ p \in Workers /\ first[k].service = ServiceOf[p],
           job' = job, p \in Workers => job[p] = NoJob,
           \A c \in Clients : cli'[c].tries > 0 =>
                (c = p \/ cli[c].tries > 0) /\ (cli'[c].asks \/ cli'[c].made > 0)
    PROVE  \E new \in Free(p) : Moved(p, new) /\ new \in Ids /\ new \notin Open /\ toBroker'[new] = first
<1> DEFINE old == sock[p]
           new == Min(Free(p))
<1>1. TypeOK /\ b \in BrokerState /\ Sockets
    BY DEF InStep, Sound
<1>2. Closed \notin Ids
    BY MajordomoAssumption DEF Ids
<1>3. /\ Free(p) # {}
      /\ sock' = [sock EXCEPT ![p] = new]
      /\ IF old = Closed
         THEN toBroker' = [toBroker EXCEPT ![new] = first] /\ b' = b
         ELSE /\ \E q \in Leftover(old) : toBroker' = [toBroker EXCEPT ![new] = first, ![old] = q]
              /\ b' = [b EXCEPT !.out[old] = <<>>]
    BY DEF Connect
<1>4. new \in Free(p)
    BY <1>3, FreeOne
<1> HIDE DEF new
<1>5. new \in Ids /\ new # Closed /\ new \notin Open
    BY <1>2, <1>4 DEF Free, Ids
<1>6. new # old /\ (old # Closed => old \in Ids)
    BY <1>1, <1>5, OwnSocket
<1>7. toBroker \in [Ids -> Seq(ToBroker)] /\ b.out \in [Ids -> Seq(FromBroker)]
    BY <1>1 DEF TypeOK, BrokerState
<1>8. /\ toBroker' \in [Ids -> Seq(ToBroker)] /\ toBroker'[new] = first
      /\ \A j \in Ids : j # new => /\ toBroker'[j] \in {<<>>, toBroker[j]}
                                   /\ j # old => toBroker'[j] = toBroker[j]
    <2>1. CASE old = Closed
        BY <1>2, <1>3, <1>5, <1>7, <2>1
    <2>2. CASE old # Closed
        <3>1. PICK q \in Leftover(old) : toBroker' = [toBroker EXCEPT ![new] = first, ![old] = q]
            BY <1>3, <2>2
        <3>2. q \in {<<>>, toBroker[old]} /\ q \in Seq(ToBroker)
            BY <1>1, <1>6, <2>2, LeftoverOne
        <3> HIDE DEF old
        <3>3. /\ toBroker'[new] = first /\ toBroker'[old] = q
              /\ \A j \in Ids : j # new /\ j # old => toBroker'[j] = toBroker[j]
            BY <1>5, <1>6, <1>7, <2>2, <3>1
        <3>4. toBroker' \in [Ids -> Seq(ToBroker)]
            BY <1>5, <1>6, <1>7, <2>2, <3>1, <3>2
        <3> QED
            BY <3>2, <3>3, <3>4
    <2> QED
        BY <2>1, <2>2
<1>9. /\ b' = [b EXCEPT !.out = b'.out] /\ b'.out \in [Ids -> Seq(FromBroker)]
      /\ \A j \in Ids : b'.out[j] = IF j = old THEN <<>> ELSE b.out[j]
    <2>1. CASE old = Closed
        <3>1. b' = b
            BY <1>3, <2>1
        <3>2. b = [b EXCEPT !.out = b.out]
            BY <1>1 DEF BrokerState
        <3> QED
            BY <1>2, <1>7, <2>1, <3>1, <3>2
    <2>2. CASE old # Closed
        <3>1. b' = [b EXCEPT !.out[old] = <<>>] /\ old \in Ids
            BY <1>3, <1>6, <2>2
        <3> HIDE DEF old
        <3>2. b'.out = [b.out EXCEPT ![old] = <<>>] /\ b' = [b EXCEPT !.out = b'.out]
            BY <1>1, <3>1 DEF BrokerState
        <3>3. [b.out EXCEPT ![old] = <<>>] \in [Ids -> Seq(FromBroker)]
            <4>1. <<>> \in Seq(FromBroker)
                OBVIOUS
            <4> QED
                BY <1>7, <4>1
        <3>4. \A j \in Ids : b'.out[j] = IF j = old THEN <<>> ELSE b.out[j]
            BY <1>7, <3>1, <3>2
        <3> QED
            BY <3>2, <3>3, <3>4
    <2> QED
        BY <2>1, <2>2
<1>10. job' = [w \in Workers |-> IF w = p THEN NoJob ELSE job[w]]
    BY <1>1 DEF TypeOK
<1>11. \A c \in Clients : cli'[c].tries > 0 =>
          /\ IF c = p THEN new # Closed ELSE cli[c].tries > 0
          /\ cli'[c].asks \/ cli'[c].made > 0
    BY <1>5
<1>12. /\ Count(toBroker'[new], "REPLY") = 0
       /\ \A k \in DOMAIN toBroker'[new] : toBroker'[new][k].type = "READY" =>
             k = 1 /\ p \in Workers /\ toBroker'[new][k].service = ServiceOf[p]
    BY <1>8
<1>13. sock' = [sock EXCEPT ![p] = new] /\ toBroker' \in [Ids -> Seq(ToBroker)]
    BY <1>3, <1>8
<1>14. \A j \in Ids : j # new => /\ toBroker'[j] \in {<<>>, toBroker[j]}
                                 /\ j # sock[p] => toBroker'[j] = toBroker[j]
    BY <1>8
<1>15. \A j \in Ids : b'.out[j] = IF j = sock[p] THEN <<>> ELSE b.out[j]
    BY <1>9
<1> HIDE DEF old
<1>16. Moved(p, new)
    BY <1>4, <1>9, <1>10, <1>11, <1>12, <1>13, <1>14, <1>15 DEF Moved
<1> QED
    BY <1>4, <1>5, <1>8, <1>16

LEMMA ConnectStep ==
    ASSUME InStep, NEW p \in Procs, NEW first \in Seq(ToBroker), Connect(p, first),
           Count(first, "REPLY") = 0,
           \A k \in DOMAIN first : first[k].type = "READY" =>
                k = 1 /\ p \in Workers /\ first[k].service = ServiceOf[p],
           job' = job, p \in Workers => job[p] = NoJob,
           up' = up, runs' = runs, faults' \in 0 .. MaxFaults, cli' \in [Clients -> Session],
           \A c \in Clients : cli'[c].tries > 0 =>
                (c = p \/ cli[c].tries > 0) /\ (cli'[c].asks \/ cli'[c].made > 0)
    PROVE  InStep' /\ Balanced
<1>1. \E new \in Free(p) : Moved(p, new)
    BY ConnectMoves
<1> QED
    BY <1>1, MoveStep

LEMMA CloseMoves ==
    ASSUME InStep, NEW p \in Procs, sock[p] # Closed, Close(p),
           job' = [w \in Workers |-> IF w = p THEN NoJob ELSE job[w]],
           \A c \in Clients : cli'[c].tries > 0 =>
                c # p /\ cli[c].tries > 0 /\ (cli'[c].asks \/ cli'[c].made > 0)
    PROVE  Moved(p, Closed)
<1> DEFINE old == sock[p]
           new == Closed
<1>1. TypeOK /\ b \in BrokerState /\ Sockets
    BY DEF InStep, Sound
<1>2. old \in Ids
    BY <1>1, OwnSocket
<1>3. /\ toBroker \in [Ids -> Seq(ToBroker)] /\ b.out \in [Ids -> Seq(FromBroker)]
      /\ Closed \notin Ids
    BY <1>1, MajordomoAssumption DEF TypeOK, BrokerState, Ids
<1>4. PICK q \in Leftover(old) : toBroker' = [toBroker EXCEPT ![old] = q]
    BY DEF Close
<1>5. q \in {<<>>, toBroker[old]} /\ q \in Seq(ToBroker)
    BY <1>1, <1>2, LeftoverOne
<1>6. sock' = [sock EXCEPT ![p] = new] /\ b' = [b EXCEPT !.out[old] = <<>>]
    BY DEF Close
<1> HIDE DEF old
<1>7. /\ toBroker' \in [Ids -> Seq(ToBroker)]
      /\ \A j \in Ids : j # new => /\ toBroker'[j] \in {<<>>, toBroker[j]}
                                   /\ j # old => toBroker'[j] = toBroker[j]
    BY <1>2, <1>3, <1>4, <1>5
<1>8. b'.out = [b.out EXCEPT ![old] = <<>>] /\ b' = [b EXCEPT !.out = b'.out]
    BY <1>1, <1>6 DEF BrokerState
<1>9. [b.out EXCEPT ![old] = <<>>] \in [Ids -> Seq(FromBroker)]
    <2>1. <<>> \in Seq(FromBroker)
        OBVIOUS
    <2> QED
        BY <1>3, <2>1
<1>10. \A j \in Ids : b'.out[j] = IF j = old THEN <<>> ELSE b.out[j]
    BY <1>2, <1>3, <1>8
<1>11. \A c \in Clients : cli'[c].tries > 0 =>
          /\ IF c = p THEN new # Closed ELSE cli[c].tries > 0
          /\ cli'[c].asks \/ cli'[c].made > 0
    OBVIOUS
<1>12. new = Closed
    OBVIOUS
<1> HIDE DEF new
<1>13. \A j \in Ids : j # new => /\ toBroker'[j] \in {<<>>, toBroker[j]}
                                 /\ j # sock[p] => toBroker'[j] = toBroker[j]
    BY <1>7 DEF old
<1>14. \A j \in Ids : b'.out[j] = IF j = sock[p] THEN <<>> ELSE b.out[j]
    BY <1>10 DEF old
<1>15. b'.out \in [Ids -> Seq(FromBroker)] /\ b' = [b EXCEPT !.out = b'.out]
    BY <1>8, <1>9
<1>16. Moved(p, new)
    BY <1>6, <1>7, <1>11, <1>12, <1>13, <1>14, <1>15 DEF Moved
<1> QED
    BY <1>16 DEF new

LEMMA CloseStep ==
    ASSUME InStep, NEW p \in Procs, sock[p] # Closed, Close(p),
           job' = [w \in Workers |-> IF w = p THEN NoJob ELSE job[w]],
           up' = up, runs' = runs, faults' \in 0 .. MaxFaults, cli' \in [Clients -> Session],
           \A c \in Clients : cli'[c].tries > 0 =>
                c # p /\ cli[c].tries > 0 /\ (cli'[c].asks \/ cli'[c].made > 0)
    PROVE  InStep' /\ Balanced
<1> DEFINE new == Closed
<1>1. Moved(p, new)
    BY CloseMoves
<1> HIDE DEF new
<1> QED
    BY <1>1, MoveStep

-----------------------------------------------------------------------------
LEMMA WorkerKept == ASSUME InStep, NEW w \in Workers, Worker(w) PROVE InStep' /\ Balanced
<1>1. /\ TypeOK /\ b \in BrokerState /\ Sockets /\ Sessions /\ w \in Procs
      /\ cli \in [Clients -> Session] /\ faults \in 0 .. MaxFaults
      /\ runs \in [Clients -> [1 .. MaxCalls -> Nat]] /\ w \notin Clients
      /\ MaxFaults \in Nat
    BY MajordomoAssumption DEF InStep, Sound, TypeOK, Procs
<1>2. \A c \in Clients : cli[c].tries > 0 => sock[c] # Closed /\ (cli[c].asks \/ cli[c].made > 0)
    BY <1>1 DEF Sessions
<1>3. ASSUME Connect(w, Ready(w)), UNCHANGED <<up, cli, runs, job>>, faults' \in 0 .. MaxFaults,
             job[w] = NoJob
      PROVE  InStep' /\ Balanced
    <2> DEFINE m == [type |-> "READY", service |-> ServiceOf[w]]
               first == Ready(w)
    <2>1. m \in ToBroker /\ m.type = "READY" /\ m.service = ServiceOf[w]
        BY MajordomoAssumption DEF ToBroker
    <2>2. first = <<m>>
        BY DEF Ready
    <2> HIDE DEF m
    <2>3. /\ first \in Seq(ToBroker) /\ Count(first, "REPLY") = 0
          /\ \A k \in DOMAIN first : k = 1 /\ first[k] = m
        BY <2>1, <2>2, OneFirst
    <2> HIDE DEF first
    <2>4. Connect(w, first)
        BY <1>3 DEF first
    <2>5. \A k \in DOMAIN first : first[k].type = "READY" =>
            k = 1 /\ w \in Workers /\ first[k].service = ServiceOf[w]
        BY <2>1, <2>3
    <2> QED
        BY <1>1, <1>2, <1>3, <2>3, <2>4, <2>5, ConnectStep
<1>4. CASE StartWorker(w)
    <2>1. job[w] = NoJob
        BY <1>1, <1>4 DEF StartWorker, Sessions
    <2> QED
        BY <1>1, <1>3, <1>4, <2>1 DEF StartWorker
<1>5. CASE HearRequest(w)
    <2> USE <1>5 DEF HearRequest, Hear
    <2>1. Sessions'
        BY <1>1 DEF Sessions, TypeOK
    <2> QED
        BY <1>1, <2>1, HearStep
<1>6. CASE HearDisconnect(w)
    BY <1>1, <1>3, <1>6 DEF HearDisconnect, Hear
<1>7. CASE Pulse(w)
    <2> DEFINE m == [type |-> "HEARTBEAT"]
    <2>1. m \in ToBroker /\ m.type # "READY" /\ m.type # "REPLY"
        BY DEF ToBroker
    <2>2. SendToBroker(w, m) /\ sock[w] # Closed /\ UNCHANGED <<up, b, sock, job, cli, runs, faults>>
        BY <1>7 DEF Pulse, brokerVars
    <2> HIDE DEF m
    <2>3. Sessions'
        BY <1>1, <2>2 DEF Sessions
    <2> QED
        BY <1>1, <2>1, <2>2, <2>3, SendStep
<1>8. CASE Finish(w)
    <2> DEFINE m == [type |-> "REPLY", job |-> job[w]]
    <2>1. job[w] \in Job
        BY <1>1, <1>8 DEF Finish, TypeOK
    <2>2. m \in ToBroker /\ m.type # "READY" /\ m.type = "REPLY"
        BY <2>1 DEF ToBroker
    <2>3. /\ SendToBroker(w, m) /\ sock[w] # Closed /\ job[w] # NoJob
          /\ job' = [job EXCEPT ![w] = NoJob]
          /\ UNCHANGED <<up, b, sock, cli, faults>>
        BY <1>1, <1>8 DEF Finish, brokerVars, Sessions
    <2>4. runs' \in [Clients -> [1 .. MaxCalls -> Nat]]
        <3>1. job[w].caller \in Clients /\ job[w].call \in 1 .. MaxCalls
            BY <2>1 DEF Job
        <3> DEFINE c == job[w].caller
                   k == job[w].call
        <3>2. runs' = [runs EXCEPT ![c][k] = @ + 1]
            BY <1>8 DEF Finish
        <3> HIDE DEF c, k
        <3>3. runs' = [runs EXCEPT ![c] = [runs[c] EXCEPT ![k] = @ + 1]]
            BY <1>1, <3>1, <3>2 DEF c, k
        <3>4. runs[c] \in [1 .. MaxCalls -> Nat] /\ k \in 1 .. MaxCalls
            BY <1>1, <3>1 DEF c, k
        <3> DEFINE f == runs[c]
        <3>5. [f EXCEPT ![k] = @ + 1] \in [1 .. MaxCalls -> Nat]
            <4>1. f \in [1 .. MaxCalls -> Nat] /\ k \in 1 .. MaxCalls /\ MaxCalls \in Nat
                BY <3>4, MajordomoAssumption
            <4> HIDE DEF f
            <4>2. f[k] \in Nat
                BY <4>1
            <4>3. f[k] + 1 \in Nat
                BY <4>2
            <4> QED
                BY <4>1, <4>3
        <3> QED
            BY <1>1, <3>3, <3>5
    <2> HIDE DEF m
    <2>5. Sessions'
        BY <1>1, <2>3 DEF Sessions, TypeOK
    <2> QED
        BY <1>1, <2>2, <2>3, <2>4, <2>5, SendStep
<1>9. CASE LosePatience(w)
    <2>1. /\ Connect(w, Ready(w)) /\ UNCHANGED <<up, job, cli, runs>> /\ job[w] = NoJob
          /\ (MereSlowness(w) => faults < MaxFaults)
          /\ faults' = IF MereSlowness(w) THEN faults + 1 ELSE faults
        BY <1>9 DEF LosePatience
    <2>2. faults' \in 0 .. MaxFaults
        <3>1. faults' = faults \/ (faults < MaxFaults /\ faults' = faults + 1)
            BY <2>1
        <3> QED
            BY <1>1, <3>1
    <2> QED
        BY <1>3, <2>1, <2>2
<1>10. CASE Die(w)
    <2>1. /\ sock[w] # Closed /\ faults < MaxFaults /\ Close(w)
          /\ job' = [job EXCEPT ![w] = NoJob] /\ faults' = faults + 1 /\ UNCHANGED <<up, cli, runs>>
        BY <1>10 DEF Die
    <2>2. job' = [x \in Workers |-> IF x = w THEN NoJob ELSE job[x]]
        BY <1>1, <2>1 DEF TypeOK
    <2>3. faults' \in 0 .. MaxFaults
        BY <1>1, <2>1
    <2> QED
        BY <1>1, <1>2, <2>1, <2>2, <2>3, CloseStep
<1> QED
    BY <1>4, <1>5, <1>6, <1>7, <1>8, <1>9, <1>10 DEF Worker, Serve

LEMMA RequestTyped ==
    ASSUME NEW c \in Clients, NEW s \in Session, s.asks \/ s.made > 0
    PROVE  Request(c, s) \in ToBroker /\ Request(c, s).type \notin {"READY", "REPLY"}
<1>1. s.service \in Services /\ s.made \in 0 .. MaxCalls /\ s.asks \in BOOLEAN
    BY DEF Session
<1>2. CASE s.asks
    <2>1. Request(c, s) = [type |-> "ASK", service |-> s.service]
        BY <1>2 DEF Request
    <2> QED
        BY <1>1, <2>1 DEF ToBroker
<1>3. CASE ~s.asks
    <2>1. Request(c, s) = [type |-> "CALL", service |-> s.service, caller |-> c, call |-> s.made]
        BY <1>3 DEF Request
    <2>2. s.made \in 1 .. MaxCalls
        BY <1>1, <1>3, MajordomoAssumption
    <2> QED
        BY <1>1, <2>1, <2>2 DEF ToBroker
<1> QED
    BY <1>2, <1>3

LEMMA ClientKept == ASSUME InStep, NEW c \in Clients, Client(c) PROVE InStep' /\ Balanced
<1>1. /\ TypeOK /\ b \in BrokerState /\ Sockets /\ Sessions /\ c \in Procs /\ c \notin Workers
      /\ cli \in [Clients -> Session] /\ faults \in 0 .. MaxFaults
      /\ runs \in [Clients -> [1 .. MaxCalls -> Nat]] /\ job \in [Workers -> Job \cup {NoJob}]
    BY MajordomoAssumption DEF InStep, Sound, TypeOK, Procs
<1>2. \A d \in Clients : cli[d].tries > 0 => sock[d] # Closed /\ (cli[d].asks \/ cli[d].made > 0)
    BY <1>1 DEF Sessions
<1>3. /\ cli[c] \in Session
      /\ cli[c].made \in 0 .. MaxCalls /\ cli[c].got \in 0 .. MaxCalls /\ cli[c].asked \in 0 .. MaxAsks
      /\ cli[c].tries \in 0 .. Retries
      /\ MaxCalls \in Nat /\ MaxAsks \in Nat /\ Retries \in Nat \ {0}
    BY <1>1, MajordomoAssumption DEF Session
<1>4. CASE StartClient(c)
    <2>1. Connect(c, <<>>) /\ UNCHANGED <<up, job, runs, cli, faults>>
        BY <1>4 DEF StartClient, workerVars
    <2> DEFINE first == <<>>
    <2>2. first \in Seq(ToBroker) /\ Count(first, "REPLY") = 0 /\ DOMAIN first = {}
        BY CountEmpty
    <2>3. Connect(c, first)
        BY <2>1
    <2> HIDE DEF first
    <2> QED
        BY <1>1, <1>2, <2>1, <2>2, <2>3, ConnectStep
<1>5. ASSUME NEW s \in Session, s.asks \/ s.made > 0, Begin(c, s) PROVE InStep' /\ Balanced
    <2> DEFINE m == Request(c, s)
    <2>1. m \in ToBroker /\ m.type # "READY" /\ m.type # "REPLY"
        BY <1>5, RequestTyped
    <2>2. /\ SendToBroker(c, m) /\ sock[c] # Closed /\ cli' = [cli EXCEPT ![c] = s]
          /\ UNCHANGED <<up, b, sock, job, runs, faults>>
        BY <1>5 DEF Begin, Idle, brokerVars, workerVars
    <2>3. cli' \in [Clients -> Session] /\ \A d \in Clients : cli'[d] = IF d = c THEN s ELSE cli[d]
        BY <1>1, <2>2
    <2>4. Sessions'
        <3>1. \A w \in Workers : job'[w] # NoJob => sock'[w] # Closed
            BY <1>1, <2>2 DEF Sessions
        <3>2. \A d \in Clients : cli'[d].tries > 0 => sock'[d] # Closed /\ (cli'[d].asks \/ cli'[d].made > 0)
            BY <1>2, <1>5, <2>2, <2>3
        <3> QED
            BY <3>1, <3>2 DEF Sessions
    <2> HIDE DEF m
    <2> QED
        BY <1>1, <2>1, <2>2, <2>3, <2>4, SendStep
<1>6. CASE Call(c)
    <2>1. PICK n \in Services :
             Begin(c, [cli[c] EXCEPT !.made = @ + 1, !.tries = Retries, !.asks = FALSE, !.service = n])
        BY <1>6 DEF Call
    <2> DEFINE s == [cli[c] EXCEPT !.made = @ + 1, !.tries = Retries, !.asks = FALSE, !.service = n]
    <2>2. s \in Session /\ s.made > 0
        <3>1. cli[c].made + 1 \in 0 .. MaxCalls /\ cli[c].made + 1 > 0 /\ Retries \in 0 .. Retries
            BY <1>3, <1>6 DEF Call
        <3>2. s.made = cli[c].made + 1
            BY <1>3 DEF Session
        <3> QED
            BY <1>3, <3>1, <3>2 DEF Session
    <2>3. Begin(c, s)
        BY <2>1
    <2> HIDE DEF s
    <2> QED
        BY <1>5, <2>2, <2>3
<1>7. CASE Ask(c)
    <2>1. PICK n \in Services :
             Begin(c, [cli[c] EXCEPT !.asked = @ + 1, !.tries = Retries, !.asks = TRUE, !.service = n])
        BY <1>7 DEF Ask
    <2> DEFINE s == [cli[c] EXCEPT !.asked = @ + 1, !.tries = Retries, !.asks = TRUE, !.service = n]
    <2>2. s \in Session /\ s.asks
        <3>1. cli[c].asked + 1 \in 0 .. MaxAsks /\ Retries \in 0 .. Retries
            BY <1>3, <1>7 DEF Ask
        <3>2. s.asks = TRUE
            BY <1>3 DEF Session
        <3> QED
            BY <1>3, <3>1, <3>2 DEF Session
    <2>3. Begin(c, s)
        BY <2>1
    <2> HIDE DEF s
    <2> QED
        BY <1>5, <2>2, <2>3
<1>8. CASE Answer(c)
    <2> DEFINE m == Head(b.out[sock[c]])
               got == IF cli[c].asks THEN cli[c].got ELSE IF m.type = "RESULT" THEN m.call ELSE 0
    <2>1. /\ cli[c].tries > 0 /\ b.out[sock[c]] # <<>>
          /\ cli' = [cli EXCEPT ![c].tries = 0,
                              ![c].got = IF cli[c].asks THEN @
                                         ELSE IF m.type = "RESULT" THEN m.call ELSE 0]
          /\ b' = [b EXCEPT !.out[sock[c]] = Tail(@)]
          /\ UNCHANGED <<up, sock, toBroker, job, runs, faults>>
        BY <1>8 DEF Answer, workerVars
    <2>2. sock[c] # Closed /\ sock[c] \in Ids
        BY <1>1, <1>2, <2>1, OwnSocket
    <2>3. got \in 0 .. MaxCalls
        <3>1. m \in FromBroker
            BY <1>1, <2>1, <2>2 DEF BrokerState
        <3> HIDE DEF m
        <3>2. m.type = "RESULT" => m.call \in 1 .. MaxCalls
            BY <3>1 DEF FromBroker
        <3> QED
            BY <1>3, <3>2
    <2>4. cli' = [cli EXCEPT ![c] = [cli[c] EXCEPT !.tries = 0, !.got = got]]
        BY <1>1, <1>3, <2>1 DEF Session
    <2> HIDE DEF got, m
    <2>5. /\ [cli[c] EXCEPT !.tries = 0, !.got = got] \in Session
          /\ [cli[c] EXCEPT !.tries = 0, !.got = got].tries = 0
        <3>1. 0 \in 0 .. Retries
            BY <1>3
        <3> QED
            BY <1>3, <2>3, <3>1 DEF Session
    <2>6. /\ cli' \in [Clients -> Session] /\ cli'[c].tries = 0
          /\ \A d \in Clients \ {c} : cli'[d] = cli[d]
        BY <1>1, <2>4, <2>5
    <2>7. Sessions'
        BY <1>1, <1>2, <2>1, <2>6 DEF Sessions
    <2> QED
        BY <1>1, <2>1, <2>2, <2>6, <2>7, HearStep
<1>9. CASE Retry(c)
    <2> DEFINE m == Request(c, cli[c])
               first == <<m>>
    <2>1. /\ cli[c].tries > 1 /\ Connect(c, <<Request(c, cli[c])>>)
          /\ cli' = [cli EXCEPT ![c].tries = @ - 1] /\ UNCHANGED <<up, job, runs, faults>>
        BY <1>9 DEF Retry, workerVars
    <2>2. cli[c].tries > 0 /\ cli[c].tries - 1 \in 0 .. Retries
        BY <1>3, <2>1
    <2>3. m \in ToBroker /\ m.type # "READY" /\ m.type # "REPLY"
        BY <1>2, <1>3, <2>2, RequestTyped
    <2>4. Connect(c, first)
        BY <2>1
    <2> HIDE DEF m
    <2>5. /\ first \in Seq(ToBroker) /\ Count(first, "REPLY") = 0
          /\ \A k \in DOMAIN first : k = 1 /\ first[k] = m
        BY <2>3, OneFirst
    <2> HIDE DEF first
    <2>6. /\ cli' \in [Clients -> Session] /\ cli'[c].asks = cli[c].asks /\ cli'[c].made = cli[c].made
          /\ \A d \in Clients \ {c} : cli'[d] = cli[d]
        <3>1. [cli[c] EXCEPT !.tries = @ - 1] \in Session
            BY <1>3, <2>2 DEF Session
        <3>2. cli' = [cli EXCEPT ![c] = [cli[c] EXCEPT !.tries = @ - 1]]
            BY <1>1, <1>3, <2>1 DEF Session
        <3>3. /\ cli' \in [Clients -> Session] /\ cli'[c] = [cli[c] EXCEPT !.tries = @ - 1]
              /\ \A d \in Clients \ {c} : cli'[d] = cli[d]
            BY <1>1, <3>1, <3>2
        <3> QED
            BY <1>3, <3>3 DEF Session
    <2>7. \A d \in Clients : cli'[d].tries > 0 =>
            (d = c \/ cli[d].tries > 0) /\ (cli'[d].asks \/ cli'[d].made > 0)
        BY <1>2, <2>2, <2>6
    <2> QED
        BY <1>1, <2>1, <2>3, <2>4, <2>5, <2>6, <2>7, ConnectStep
<1>10. CASE GiveUp(c)
    <2>1. /\ cli[c].tries = 1 /\ Close(c) /\ cli' = [cli EXCEPT ![c].tries = 0]
          /\ UNCHANGED <<up, job, runs, faults>>
        BY <1>10 DEF GiveUp, workerVars
    <2>2. sock[c] # Closed
        BY <1>2, <2>1
    <2>3. /\ cli' \in [Clients -> Session] /\ cli'[c].tries = 0
          /\ \A d \in Clients \ {c} : cli'[d] = cli[d]
        <3>1. 0 \in 0 .. Retries
            BY <1>3
        <3>2. [cli[c] EXCEPT !.tries = 0] \in Session /\ [cli[c] EXCEPT !.tries = 0].tries = 0
            BY <1>3, <3>1 DEF Session
        <3>3. cli' = [cli EXCEPT ![c] = [cli[c] EXCEPT !.tries = 0]]
            BY <1>1, <1>3, <2>1 DEF Session
        <3> QED
            BY <1>1, <3>2, <3>3
    <2>4. job' = [w \in Workers |-> IF w = c THEN NoJob ELSE job[w]]
        BY <1>1, <2>1
    <2>5. \A d \in Clients : cli'[d].tries > 0 =>
            d # c /\ cli[d].tries > 0 /\ (cli'[d].asks \/ cli'[d].made > 0)
        BY <1>2, <2>3
    <2> QED
        BY <1>1, <2>1, <2>2, <2>3, <2>4, <2>5, CloseStep
<1> QED
    BY <1>4, <1>6, <1>7, <1>8, <1>9, <1>10 DEF Client

LEMMA BrokerKept == ASSUME InStep, Broker PROVE InStep' /\ Balanced
<1>1. CASE \E i \in Ids : TakeFrom(i)
    BY <1>1, TakeReadyKept, TakeReplyKept, TakeHeartbeatKept, TakeCallKept, TakeAskKept DEF TakeFrom
<1>2. CASE Beat
    BY <1>2, BeatKept
<1>3. CASE CrashBroker
    BY <1>3, CrashBrokerKept
<1>4. CASE StartBroker
    BY <1>4, StartBrokerKept
<1> QED
    BY <1>1, <1>2, <1>3, <1>4 DEF Broker

LEMMA StutterKept == ASSUME InStep, UNCHANGED vars PROVE InStep' /\ Balanced
<1> USE DEF vars
<1>1. Open' = Open /\ Busy' = Busy
    BY DEF Open, Busy
<1>2. \A i \in Ids : Load(i)' = Load(i)
    BY <1>1 DEF Load
<1>3. OneLoad' /\ OutOpen'
    BY <1>1, <1>2 DEF InStep, OneLoad, OutOpen
<1>4. OwnReady' /\ OwnKnown'
    BY <1>2 DEF InStep, OwnReady, OwnKnown
<1>5. TypeOK' /\ Sockets' /\ Sessions'
    BY DEF InStep, TypeOK, Sockets, Sessions
<1>6. Sound(b', {}) /\ Young(b') /\ Served(b')
    BY DEF InStep
<1>7. Balanced
    BY NothingKept DEF InStep, Balanced
<1> QED
    BY <1>3, <1>4, <1>5, <1>6, <1>7 DEF InStep

LEMMA NextKept == ASSUME InStep, [Next]_vars PROVE InStep' /\ Balanced
<1>1. CASE Next
    <2>1. CASE Broker
        BY <2>1, BrokerKept
    <2>2. CASE \E w \in Workers : Worker(w)
        BY <2>2, WorkerKept
    <2>3. CASE \E c \in Clients : Client(c)
        BY <2>3, ClientKept
    <2> QED
        BY <1>1, <2>1, <2>2, <2>3 DEF Next
<1>2. CASE UNCHANGED vars
    BY <1>2, StutterKept
<1> QED
    BY <1>1, <1>2

LEMMA InitKept == ASSUME Init PROVE InStep
<1>1. PICK g \in [Services -> Garbage] : b = Blank(g)
    BY DEF Init
<1>2. /\ up = TRUE /\ sock = [p \in Procs |-> Closed]
      /\ toBroker = [i \in Ids |-> <<>>] /\ job = [w \in Workers |-> NoJob]
      /\ cli = [c \in Clients |-> [made |-> 0, got |-> 0, asked |-> 0, tries |-> 0,
                                   asks |-> FALSE, service |-> CHOOSE s \in Services : TRUE]]
      /\ runs = [c \in Clients |-> [k \in 1 .. MaxCalls |-> 0]] /\ faults = 0
    BY DEF Init
<1>3. /\ b.known = {} /\ b.service = [i \in Ids |-> None] /\ b.age = [i \in Ids |-> 0]
      /\ b.idle = {} /\ b.made = {} /\ b.waiting = [s \in Services |-> <<>>]
      /\ b.requests = [s \in Services |-> <<>>] /\ b.workers = g /\ b.out = [i \in Ids |-> <<>>]
    BY <1>1 DEF Blank
<1>4. b = [known |-> b.known, service |-> b.service, age |-> b.age, idle |-> b.idle,
           made |-> b.made, waiting |-> b.waiting, requests |-> b.requests,
           workers |-> b.workers, out |-> b.out]
    BY <1>1 DEF Blank
<1>5. b \in BrokerState
    <2>1. 0 \in 0 .. Expiry /\ g \in [Services -> Int]
        <3>1. 0 \in 0 .. Expiry
            BY MajordomoAssumption
        <3>2. g \in [Services -> Int]
            BY MajordomoAssumption
        <3> QED
            BY <3>1, <3>2
    <2>2. /\ b.service \in [Ids -> Services \cup {None}] /\ b.age \in [Ids -> 0 .. Expiry]
          /\ b.waiting \in [Services -> Seq(Ids)] /\ b.requests \in [Services -> Seq(Job)]
          /\ b.workers \in [Services -> Int] /\ b.out \in [Ids -> Seq(FromBroker)]
        BY <1>3, <2>1
    <2> QED
        BY <1>3, <1>4, <2>2 DEF BrokerState
<1>6. Sound(b, {})
    <2>1. \A n \in Services : ToSet(b.waiting[n]) = {} /\ Distinct(b.waiting[n])
        BY <1>3 DEF ToSet, Distinct
    <2>2. b.idle = UNION {ToSet(b.waiting[n]) : n \in Services}
        BY <1>3, <2>1
    <2> QED
        BY <1>3, <1>5, <2>1, <2>2, FS_EmptySet DEF Sound
<1>7. Young(b) /\ Served(b)
    BY <1>3, MajordomoAssumption DEF Young, Served
<1>8. TypeOK
    <2>1. toBroker \in [Ids -> Seq(ToBroker)]
        BY <1>2
    <2>2. cli \in [Clients -> Session]
        <3> DEFINE none == CHOOSE s \in Services : TRUE
        <3>1. none \in Services
            BY MajordomoAssumption
        <3> HIDE DEF none
        <3>2. [made |-> 0, got |-> 0, asked |-> 0, tries |-> 0, asks |-> FALSE, service |-> none] \in Session
            BY <3>1, MajordomoAssumption DEF Session
        <3>3. cli = [c \in Clients |->
                        [made |-> 0, got |-> 0, asked |-> 0, tries |-> 0, asks |-> FALSE, service |-> none]]
            BY <1>2 DEF none
        <3> QED
            BY <3>2, <3>3
    <2>3. runs \in [Clients -> [1 .. MaxCalls -> Nat]] /\ faults \in 0 .. MaxFaults
        BY <1>2, MajordomoAssumption
    <2> QED
        BY <1>2, <1>5, <2>1, <2>2, <2>3 DEF TypeOK
<1>9. Busy = {}
    BY <1>2 DEF Busy
<1>10. \A i \in Ids : Load(i) = 0
    <2> SUFFICES ASSUME NEW i \in Ids PROVE Load(i) = 0
        OBVIOUS
    <2>1. Count(b.out[i], "REQUEST") = 0 /\ Count(toBroker[i], "REPLY") = 0
        BY <1>2, <1>3, CountEmpty
    <2> QED
        BY <1>3, <1>9, <2>1 DEF Load, Held
<1>11. OneLoad /\ OwnKnown /\ OutOpen
    BY <1>3, <1>10 DEF OneLoad, OwnKnown, OutOpen
<1>12. OwnReady
    BY <1>2 DEF OwnReady
<1>13. Sockets
    BY <1>2 DEF Sockets
<1>14. Sessions
    BY <1>2 DEF Sessions
<1> QED
    BY <1>6, <1>7, <1>8, <1>11, <1>12, <1>13, <1>14 DEF InStep

LEMMA InStepAlways == Spec => []InStep
<1>1. Init => InStep
    BY InitKept
<1>2. InStep /\ [Next]_vars => InStep'
    BY NextKept
<1> QED
    BY <1>1, <1>2, PTL DEF Spec

(* The broker's state and the sessions are what their types say.           *)
THEOREM MajordomoTypes == Spec => []TypeOK
<1>1. InStep => TypeOK
    BY DEF InStep
<1> QED
    BY <1>1, InStepAlways, PTL

LEMMA DistinctOnce ==
    ASSUME NEW S, NEW line \in Seq(S), Distinct(line), NEW i
    PROVE  Cardinality({k \in DOMAIN line : line[k] = i}) = IF i \in ToSet(line) THEN 1 ELSE 0
<1> DEFINE K == {k \in DOMAIN line : line[k] = i}
<1>1. CASE i \in ToSet(line)
    <2>1. PICK k \in DOMAIN line : line[k] = i
        BY <1>1 DEF ToSet
    <2>2. K = {k}
        BY <2>1 DEF Distinct
    <2> HIDE DEF K
    <2>3. Cardinality(K) = 1
        BY <2>2, FS_Singleton
    <2> QED
        BY <1>1, <2>3 DEF K
<1>2. CASE i \notin ToSet(line)
    <2>1. K = {}
        BY <1>2 DEF ToSet
    <2> HIDE DEF K
    <2>2. Cardinality(K) = 0
        BY <2>1, FS_EmptySet
    <2> QED
        BY <1>2, <2>2 DEF K
<1> QED
    BY <1>1, <1>2

LEMMA JobsIsLoad ==
    ASSUME InStep, NEW w \in Workers, sock[w] # Closed
    PROVE  Jobs(w) = Load(sock[w]) /\ sock[w] \in Ids /\ sock[w] \in Open
<1> DEFINE i == sock[w]
           n == ServiceOf[w]
           line == b.waiting[n]
<1>1. /\ TypeOK /\ Sound(b, {}) /\ OwnKnown /\ Sockets /\ Sessions /\ b \in BrokerState
      /\ w \in Procs /\ n \in Services
    BY MajordomoAssumption DEF InStep, Sound, Procs
<1>2. i \in IdsOf[w] /\ i \in Ids /\ i \in Open
    BY <1>1, OwnSocket
<1>3. line \in Seq(Ids) /\ Distinct(line)
    BY <1>1 DEF Sound, BrokerState
<1>4. i \in b.idle <=> i \in ToSet(line)
    <2>1. i \in ToSet(line) => i \in b.idle
        BY <1>1 DEF Sound
    <2>2. ASSUME i \in b.idle PROVE i \in ToSet(line)
        <3>1. PICK m \in Services : i \in ToSet(b.waiting[m])
            BY <1>1, <2>2 DEF Sound
        <3>2. i \in b.known /\ b.service[i] = m
            BY <1>1, <3>1 DEF Sound
        <3>3. PICK x \in Workers : i \in IdsOf[x] /\ b.service[i] = ServiceOf[x]
            BY <1>1, <3>2 DEF OwnKnown
        <3>4. x \in Procs /\ (x # w => IdsOf[x] \cap IdsOf[w] = {})
            BY <1>1, MajordomoAssumption DEF Procs
        <3>5. x = w
            BY <1>2, <3>3, <3>4
        <3> QED
            BY <3>1, <3>2, <3>3, <3>5
    <2> QED
        BY <2>1, <2>2
<1>5. i \in Busy <=> job[w] # NoJob
    BY <1>1, BusyOne
<1> DEFINE waits == Cardinality({k \in DOMAIN line : line[k] = i})
           asked == Count(b.out[i], "REQUEST")
           told == Count(toBroker[i], "REPLY")
<1>6. waits = IF i \in ToSet(line) THEN 1 ELSE 0
    BY <1>3, DistinctOnce
<1>7. asked \in Nat /\ told \in Nat
    BY <1>1, <1>2, LoadNat, CountNat DEF BrokerState
<1>8. /\ Jobs(w) = waits + asked + (IF job[w] = NoJob THEN 0 ELSE 1) + told
      /\ Load(i) = (asked + IF i \in b.idle THEN 1 ELSE 0) + told + IF i \in Busy THEN 1 ELSE 0
    BY DEF Jobs, Load, Held
<1> HIDE DEF waits, asked, told, line
<1> QED
    BY <1>2, <1>4, <1>5, <1>6, <1>7, <1>8

(* A worker is waiting or at work, for the broker as for itself: never     *)
(* both, never twice; one the broker knows never neither.                  *)
THEOREM WorkersKeepStep == Spec => []OneJob
<1>1. ASSUME InStep PROVE OneJob
    <2>1. ASSUME NEW w \in Workers, sock[w] # Closed
          PROVE  Jobs(w) <= 1 /\ (sock[w] \in b.known => Jobs(w) = 1)
        <3>1. Jobs(w) = Load(sock[w]) /\ sock[w] \in Ids /\ sock[w] \in Open
            BY <1>1, <2>1, JobsIsLoad
        <3> QED
            BY <1>1, <3>1 DEF InStep, OneLoad
    <2>2. /\ b.idle = UNION {ToSet(b.waiting[n]) : n \in Services}
          /\ \A n \in Services : b.waiting[n] = <<>> \/ b.requests[n] = <<>>
        BY <1>1 DEF InStep, Sound, Served
    <2> QED
        BY <2>1, <2>2 DEF OneJob
<1> QED
    BY <1>1, InStepAlways, PTL

(* The broker's count of a service's workers keeps its distance from their *)
(* number, whatever memory it started from.                                *)
THEOREM CountsKeepStep == Spec => CountKept
<1>1. ASSUME InStep, [Next]_vars
      PROVE  [up /\ up' => \A n \in Services :
                b.workers[n]' - b.workers[n] = Cardinality(Attached(n))' - Cardinality(Attached(n))]_vars
    <2>1. Balanced
        BY <1>1, NextKept
    <2> QED
        BY <2>1 DEF Balanced, Attached, AttachedTo
<1> QED
    BY <1>1, InStepAlways, PTL DEF Spec, CountKept

-----------------------------------------------------------------------------
(* The refinement of ServiceCall.  Where the calls of the clients are.     *)

(* The jobs in the messages of a type. *)
JobsOf(q, type) == {q[k].job : k \in {x \in DOMAIN q : q[x].type = type}}

LEMMA JobsOfNone ==
    ASSUME NEW q, NEW type, \A k \in DOMAIN q : q[k].type # type
    PROVE  JobsOf(q, type) = {}
BY DEF JobsOf

LEMMA JobsOfEmpty == \A type : JobsOf(<<>>, type) = {}
<1>1. DOMAIN <<>> = {}
    OBVIOUS
<1> QED
    BY <1>1 DEF JobsOf

LEMMA JobsOfAppend ==
    ASSUME NEW M, NEW q \in Seq(M), NEW m \in M, NEW type
    PROVE  JobsOf(Append(q, m), type) = JobsOf(q, type) \cup IF m.type = type THEN {m.job} ELSE {}
<1> DEFINE r == Append(q, m)
           n == Len(q) + 1
<1>1. DOMAIN q = 1 .. Len(q) /\ Len(q) \in Nat
    BY LenProperties
<1>2. /\ DOMAIN r = 1 .. n /\ r[n] = m
      /\ \A k \in 1 .. Len(q) : r[k] = q[k]
    BY <1>1, AppendProperties, LenProperties
<1>3. 1 .. n = 1 .. Len(q) \cup {n}
    BY <1>1
<1> HIDE DEF r, n
<1>4. DOMAIN r = DOMAIN q \cup {n} /\ \A k \in DOMAIN q : r[k] = q[k]
    BY <1>1, <1>2, <1>3
<1>5. JobsOf(r, type) = JobsOf(q, type) \cup IF m.type = type THEN {m.job} ELSE {}
    BY <1>2, <1>4 DEF JobsOf
<1> QED
    BY <1>5 DEF r

LEMMA JobsOfTail ==
    ASSUME NEW M, NEW q \in Seq(M), q # <<>>, NEW type
    PROVE  /\ JobsOf(Tail(q), type) \subseteq JobsOf(q, type)
           /\ Head(q).type = type => Head(q).job \in JobsOf(q, type)
           /\ Head(q).type = type /\ Count(q, type) <= 1 => JobsOf(Tail(q), type) = {}
<1> DEFINE r == Tail(q)
<1>1. DOMAIN q = 1 .. Len(q) /\ Len(q) \in Nat /\ Len(q) # 0
    BY LenProperties, EmptySeq
<1>2. /\ r \in Seq(M) /\ DOMAIN r = 1 .. Len(q) - 1
      /\ \A k \in 1 .. Len(q) - 1 : r[k] = q[k + 1]
      /\ Head(q) = q[1]
    BY <1>1, HeadTailProperties, LenProperties
<1>3. Count(r, type) = Count(q, type) - IF Head(q).type = type THEN 1 ELSE 0
    BY CountTail
<1> HIDE DEF r
<1>4. \A k \in DOMAIN r : k + 1 \in DOMAIN q /\ r[k] = q[k + 1]
    BY <1>1, <1>2
<1>5. JobsOf(r, type) \subseteq JobsOf(q, type)
    BY <1>4 DEF JobsOf
<1>6. 1 \in DOMAIN q
    BY <1>1
<1>7. Head(q).type = type => Head(q).job \in JobsOf(q, type)
    BY <1>2, <1>6 DEF JobsOf
<1>8. ASSUME Head(q).type = type, Count(q, type) <= 1 PROVE JobsOf(r, type) = {}
    <2>1. Count(q, type) \in Nat /\ Count(r, type) \in Nat
        BY <1>2, CountNat
    <2>2. Count(r, type) = 0
        BY <1>3, <1>8, <2>1
    <2>3. \A k \in DOMAIN r : r[k].type # type
        BY <1>2, <2>2, CountNat
    <2> QED
        BY <2>3, JobsOfNone
<1> QED
    BY <1>5, <1>7, <1>8 DEF r

(* One request for each address. *)
OnePer(q) == \A k, l \in DOMAIN q : q[k].client = q[l].client => k = l

LEMMA OnePerAppend ==
    ASSUME NEW q \in Seq(Job), OnePer(q), NEW j \in Job, \A l \in ToSet(q) : l.client # j.client
    PROVE  OnePer(Append(q, j))
<1> DEFINE r == Append(q, j)
           n == Len(q) + 1
<1>1. DOMAIN q = 1 .. Len(q) /\ Len(q) \in Nat
    BY LenProperties
<1>2. /\ DOMAIN r = 1 .. n /\ r[n] = j
      /\ \A k \in 1 .. Len(q) : r[k] = q[k]
    BY <1>1, AppendProperties, LenProperties
<1>3. 1 .. n = 1 .. Len(q) \cup {n}
    BY <1>1
<1> HIDE DEF r, n
<1>4. DOMAIN r = DOMAIN q \cup {n} /\ \A k \in DOMAIN q : r[k] = q[k]
    BY <1>1, <1>2, <1>3
<1>5. \A k \in DOMAIN q : q[k].client # j.client
    BY DEF ToSet
<1>6. OnePer(r)
    BY <1>2, <1>4, <1>5 DEF OnePer
<1> QED
    BY <1>6 DEF r

LEMMA OnePerTail ==
    ASSUME NEW q \in Seq(Job), OnePer(q), q # <<>>
    PROVE  /\ Head(q) \in ToSet(q) /\ Head(q) \in Job
           /\ OnePer(Tail(q))
           /\ ToSet(Tail(q)) \subseteq ToSet(q) \ {Head(q)}
           /\ \A l \in ToSet(q) : l.client = Head(q).client => l = Head(q)
<1> DEFINE r == Tail(q)
<1>1. DOMAIN q = 1 .. Len(q) /\ Len(q) \in Nat /\ Len(q) # 0
    BY LenProperties, EmptySeq
<1>2. /\ DOMAIN r = 1 .. Len(q) - 1
      /\ \A k \in 1 .. Len(q) - 1 : r[k] = q[k + 1]
      /\ Head(q) = q[1] /\ Head(q) \in Job
    BY <1>1, HeadTailProperties, LenProperties
<1> HIDE DEF r
<1>3. \A k \in DOMAIN r : k + 1 \in DOMAIN q /\ k + 1 # 1 /\ r[k] = q[k + 1] /\ k \in Nat
    BY <1>1, <1>2
<1>4. 1 \in DOMAIN q
    BY <1>1
<1>5. OnePer(r)
    <2> SUFFICES ASSUME NEW k \in DOMAIN r, NEW l \in DOMAIN r, r[k].client = r[l].client
                 PROVE  k = l
        BY DEF OnePer
    <2>1. k + 1 = l + 1
        BY <1>3 DEF OnePer
    <2> QED
        BY <1>3, <2>1
<1>6. ToSet(r) \subseteq ToSet(q) \ {Head(q)}
    <2>1. ASSUME NEW k \in DOMAIN r PROVE r[k] \in ToSet(q) /\ r[k] # Head(q)
        <3>1. k + 1 \in DOMAIN q /\ k + 1 # 1 /\ r[k] = q[k + 1]
            BY <1>3
        <3>2. q[k + 1].client # q[1].client
            BY <1>4, <3>1 DEF OnePer
        <3> QED
            BY <1>2, <3>1, <3>2 DEF ToSet
    <2> QED
        BY <2>1 DEF ToSet
<1>7. \A l \in ToSet(q) : l.client = Head(q).client => l = Head(q)
    <2>1. \A k \in DOMAIN q : q[k].client = q[1].client => k = 1
        BY <1>4 DEF OnePer
    <2> QED
        BY <1>2, <2>1 DEF ToSet
<1> QED
    BY <1>2, <1>4, <1>5, <1>6, <1>7 DEF r, ToSet

-----------------------------------------------------------------------------
(* What dispatching does to requests and messages: the first request of a  *)
(* service may go to a worker.                                             *)
Gives(s, t) ==
    \/ t.requests = s.requests /\ t.out = s.out
    \/ \E n \in Services : \E x \in t.known :
          /\ s.requests[n] # <<>>
          /\ t.requests = [s.requests EXCEPT ![n] = Tail(@)]
          /\ \A i \in Ids : t.out[i] =
                IF i = x /\ x \in Open
                THEN Append(s.out[i], [type |-> "REQUEST", job |-> Head(s.requests[n])])
                ELSE s.out[i]

LEMMA DispatchGives ==
    ASSUME NEW s, Sound(s, {}), NEW n \in Services
    PROVE  Gives(s, Dispatch(s, n))
<1> DEFINE p == Purge(s)
           t == Dispatch(s, n)
           k == MostRecent(p, n)
           x == p.waiting[n][k]
           m == [type |-> "REQUEST", job |-> Head(p.requests[n])]
           u == Tell(p, x, m)
<1>1. Sound(p, {}) /\ p.requests = s.requests /\ p.out = s.out
    BY PurgeKeeps
<1>2. t = IF p.waiting[n] = <<>> \/ p.requests[n] = <<>> THEN p ELSE Give(p, n, k)
    BY DEF Dispatch
<1>3. /\ Give(p, n, k) = [u EXCEPT !.requests[n] = Tail(@), !.waiting[n] = RemoveAt(@, k),
                                   !.idle = @ \ {x}, !.age[x] = 0]
    BY DEF Give
<1> HIDE DEF p, t
<1>4. CASE p.waiting[n] = <<>> \/ p.requests[n] = <<>>
    <2>1. t = p
        BY <1>2, <1>4
    <2> QED
        BY <1>1, <2>1 DEF Gives, t
<1>5. CASE p.waiting[n] # <<>> /\ p.requests[n] # <<>>
    <2>1. /\ p \in BrokerState /\ p.waiting[n] \in Seq(Ids) /\ p.age \in [Ids -> Nat]
          /\ p.requests[n] \in Seq(Job)
        BY <1>1 DEF Sound, BrokerState
    <2>2. k \in DOMAIN p.waiting[n]
        BY <1>5, <2>1, MostRecentOfLine DEF MostRecent
    <2> HIDE DEF k
    <2>3. x \in ToSet(p.waiting[n])
        BY <2>2 DEF ToSet
    <2>4. x \in p.known /\ x \in Ids
        BY <1>1, <2>1, <2>3 DEF Sound, BrokerState
    <2>5. m \in FromBroker
        <3>1. Head(p.requests[n]) \in Job
            BY <1>5, <2>1, HeadTailProperties
        <3> QED
            BY <3>1 DEF FromBroker
    <2> HIDE DEF x, m
    <2>6. /\ Sound(u, {}) /\ u = [p EXCEPT !.out = u.out]
          /\ \A i \in Ids : u.out[i] = IF i = x /\ x \in Open THEN Append(p.out[i], m) ELSE p.out[i]
        BY <1>1, <2>4, <2>5, TellSound
    <2> HIDE DEF u
    <2>7. u \in BrokerState /\ u.requests = p.requests /\ u.known = p.known
        BY <2>1, <2>6 DEF Sound, BrokerState
    <2>8. t = [u EXCEPT !.requests[n] = Tail(@), !.waiting[n] = RemoveAt(@, k),
                        !.idle = @ \ {x}, !.age[x] = 0]
        BY <1>2, <1>3, <1>5
    <2>9. t.requests = [u.requests EXCEPT ![n] = Tail(@)] /\ t.out = u.out /\ t.known = u.known
        BY <2>7, <2>8 DEF BrokerState
    <2>10. \A i \in Ids : t.out[i] = IF i = x /\ x \in Open
              THEN Append(s.out[i], [type |-> "REQUEST", job |-> Head(s.requests[n])]) ELSE s.out[i]
        BY <1>1, <2>6, <2>9 DEF m
    <2>11. /\ s.requests[n] # <<>> /\ x \in t.known
           /\ t.requests = [s.requests EXCEPT ![n] = Tail(@)]
        BY <1>1, <1>5, <2>4, <2>7, <2>9
    <2>12. Gives(s, t)
        BY <2>10, <2>11 DEF Gives
    <2> QED
        BY <2>12 DEF t
<1> QED
    BY <1>4, <1>5

LEMMA WaitingGives ==
    ASSUME NEW s, Sound(s, {}), NEW i \in s.known, i \notin s.idle
    PROVE  Gives(s, Waiting(s, i))
<1> DEFINE n == s.service[i]
           u == Queue(s, i)
           t == Waiting(s, i)
<1>1. Sound(u, {}) /\ n \in Services /\ u.requests = s.requests
    BY QueueKeeps
<1>2. t = Dispatch(u, n)
    BY DEF Waiting, Queue
<1>3. u.out = s.out
    BY DEF Queue, Sound, BrokerState
<1> HIDE DEF u, n
<1>4. Gives(u, t)
    <2> HIDE DEF t
    <2> QED
        BY <1>1, <1>2, DispatchGives
<1> HIDE DEF t
<1>5. Gives(s, t)
    <2>1. u.requests = s.requests /\ u.out = s.out
        BY <1>1, <1>3
    <2>2. CASE t.requests = u.requests /\ t.out = u.out
        BY <2>1, <2>2 DEF Gives
    <2>3. CASE ~(t.requests = u.requests /\ t.out = u.out)
        <3>1. PICK o \in Services, x \in t.known :
                 /\ u.requests[o] # <<>>
                 /\ t.requests = [u.requests EXCEPT ![o] = Tail(@)]
                 /\ \A k \in Ids : t.out[k] =
                       IF k = x /\ x \in Open
                       THEN Append(u.out[k], [type |-> "REQUEST", job |-> Head(u.requests[o])])
                       ELSE u.out[k]
            BY <1>4, <2>3 DEF Gives
        <3>2. /\ s.requests[o] # <<>>
              /\ t.requests = [s.requests EXCEPT ![o] = Tail(@)]
              /\ \A k \in Ids : t.out[k] =
                    IF k = x /\ x \in Open
                    THEN Append(s.out[k], [type |-> "REQUEST", job |-> Head(s.requests[o])])
                    ELSE s.out[k]
            BY <2>1, <3>1
        <3> QED
            BY <3>2 DEF Gives
    <2> QED
        BY <2>2, <2>3
<1> QED
    BY <1>5 DEF t

LEMMA DismissGives ==
    ASSUME NEW s, Sound(s, {}), NEW i \in Ids
    PROVE  LET r == IF i \in s.known THEN s ELSE Require(s, i)
               t == Dismiss(r, i)
           IN  /\ t.requests = s.requests
               /\ \A j \in Ids : t.out[j] = IF j = i /\ i \in Open
                                            THEN Append(s.out[j], [type |-> "DISCONNECT"]) ELSE s.out[j]
<1> DEFINE m == [type |-> "DISCONNECT"]
           r == IF i \in s.known THEN s ELSE Require(s, i)
           u == Tell(r, i, m)
           t == Dismiss(r, i)
<1>1. /\ s \in BrokerState
      /\ r \in BrokerState /\ r.requests = s.requests /\ r.out = s.out
    <2>1. s \in BrokerState
        BY DEF Sound
    <2>2. CASE i \in s.known
        BY <2>1, <2>2
    <2>3. CASE i \notin s.known
        BY <2>1, <2>3 DEF Require, BrokerState
    <2> QED
        BY <2>1, <2>2, <2>3
<1>2. Sound(r, {i})
    <2>1. CASE i \in s.known
        BY <2>1 DEF Sound
    <2>2. CASE i \notin s.known
        <3>1. r = [s EXCEPT !.known = @ \cup {i}]
            BY <2>2 DEF Require
        <3> HIDE DEF r
        <3>2. /\ r.known = s.known \cup {i} /\ r.idle = s.idle /\ r.waiting = s.waiting
              /\ r.service = s.service
            BY <1>1, <3>1 DEF BrokerState
        <3>3. IsFiniteSet(r.known)
            BY <3>2, FS_AddElement DEF Sound
        <3> QED
            BY <1>1, <3>2, <3>3 DEF Sound
    <2> QED
        BY <2>1, <2>2
<1>3. m \in FromBroker
    BY DEF FromBroker
<1> HIDE DEF r, m
<1>4. /\ Sound(u, {i}) /\ u = [r EXCEPT !.out = u.out]
      /\ \A j \in Ids : u.out[j] = IF j = i /\ i \in Open THEN Append(r.out[j], m) ELSE r.out[j]
    BY <1>2, <1>3, TellSound
<1>5. t = Delete(u, {i})
    BY DEF Dismiss, m
<1>6. u.requests = r.requests
    BY <1>1, <1>4 DEF BrokerState
<1> HIDE DEF u
<1>7. {i} \in SUBSET Ids
    OBVIOUS
<1>8. Delete(u, {i}).out = u.out /\ Delete(u, {i}).requests = u.requests
    BY <1>4, <1>7, DeleteKeeps
<1>9. t.out = u.out /\ t.requests = u.requests
    BY <1>5, <1>8
<1> HIDE DEF t
<1> QED
    BY <1>1, <1>4, <1>6, <1>9 DEF t, r, m

-----------------------------------------------------------------------------
(* Every request is in one place. *)
Sent(x) == JobsOf(b.out[x], "REQUEST")
Replied(x) == JobsOf(toBroker[x], "REPLY")
AtWork(x) == {job[w] : w \in {y \in Workers : sock[y] = x /\ job[y] # NoJob}}

(* Who has a request: a service's queue, or the worker at an address. *)
Holders == ({"line"} \X Services) \cup ({"worker"} \X Ids)
QueueOf(n) == <<"line", n>>
Hands(x) == <<"worker", x>>

Under == [h \in Holders |-> IF h[1] = "line" THEN ToSet(b.requests[h[2]])
                            ELSE Sent(h[2]) \cup AtWork(h[2]) \cup Replied(h[2])]

Apart(U) == \A g, h \in Holders : \A j \in U[g], l \in U[h] : j.client = l.client => g = h

OneHolder == Apart(Under) /\ \A n \in Services : OnePer(b.requests[n])

LEMMA HolderKinds ==
    /\ \A n \in Services : QueueOf(n) \in Holders
    /\ \A x \in Ids : Hands(x) \in Holders
    /\ \A h \in Holders : (\E n \in Services : h = QueueOf(n)) \/ (\E x \in Ids : h = Hands(x))
    /\ \A n, x : QueueOf(n) # Hands(x)
    /\ \A m, n : QueueOf(m) = QueueOf(n) => m = n
    /\ \A x, y : Hands(x) = Hands(y) => x = y
BY DEF Holders, QueueOf, Hands

LEMMA UnderKinds ==
    /\ \A n \in Services : Under[QueueOf(n)] = ToSet(b.requests[n])
    /\ \A x \in Ids : Under[Hands(x)] = Sent(x) \cup AtWork(x) \cup Replied(x)
    /\ \A n \in Services : Under'[QueueOf(n)] = ToSet(b'.requests[n])
    /\ \A x \in Ids : Under'[Hands(x)] = Sent(x)' \cup AtWork(x)' \cup Replied(x)'
<1>1. ASSUME NEW n \in Services
      PROVE  /\ Under[QueueOf(n)] = ToSet(b.requests[n])
             /\ Under'[QueueOf(n)] = ToSet(b'.requests[n])
    <2>1. QueueOf(n) \in Holders /\ QueueOf(n)[1] = "line" /\ QueueOf(n)[2] = n
        BY DEF Holders, QueueOf
    <2> QED
        BY <2>1 DEF Under
<1>2. ASSUME NEW x \in Ids
      PROVE  /\ Under[Hands(x)] = Sent(x) \cup AtWork(x) \cup Replied(x)
             /\ Under'[Hands(x)] = Sent(x)' \cup AtWork(x)' \cup Replied(x)'
    <2>1. Hands(x) \in Holders /\ Hands(x)[1] = "worker" /\ Hands(x)[2] = x
        BY DEF Holders, Hands
    <2>2. Hands(x)[1] # "line"
        BY <2>1
    <2> QED
        BY <2>1, <2>2 DEF Under
<1> QED
    BY <1>1, <1>2

LEMMA ApartLess ==
    ASSUME NEW U, NEW V, Apart(U), \A h \in Holders : V[h] \subseteq U[h]
    PROVE  Apart(V)
BY DEF Apart

LEMMA ApartMore ==
    ASSUME NEW U, NEW V, Apart(U), NEW h \in Holders, NEW j,
           \A g \in Holders : \A l \in U[g] : l.client # j.client,
           \A g \in Holders : V[g] \subseteq IF g = h THEN U[g] \cup {j} ELSE U[g]
    PROVE  Apart(V)
BY DEF Apart

LEMMA ApartMove ==
    ASSUME NEW U, NEW V, Apart(U), NEW f \in Holders, NEW h \in Holders, f # h, NEW j \in U[f],
           \A l \in U[f] : l.client = j.client => l = j,
           \A g \in Holders : V[g] \subseteq IF g = h THEN U[g] \cup {j}
                                            ELSE IF g = f THEN U[g] \ {j} ELSE U[g]
    PROVE  Apart(V)
<1> SUFFICES ASSUME NEW g \in Holders, NEW k \in Holders, NEW l \in V[g], NEW m \in V[k],
                    l.client = m.client
             PROVE  g = k
    BY DEF Apart
<1>1. \A e \in Holders : e # f => \A y \in U[e] : y.client # j.client
    BY DEF Apart
<1>2. \A e \in Holders : \A y \in V[e] : (e = h /\ y = j) \/ (y \in U[e] /\ y.client # j.client)
    BY <1>1
<1>3. CASE l.client = j.client
    BY <1>2, <1>3
<1>4. CASE l.client # j.client
    <2>1. l \in U[g] /\ m \in U[k]
        BY <1>2, <1>4
    <2> QED
        BY <2>1 DEF Apart
<1> QED
    BY <1>3, <1>4

(* Giving a request to a worker leaves every request in one place.         *)
LEMMA GivesApart ==
    ASSUME NEW s, s.requests \in [Services -> Seq(Job)], s.out \in [Ids -> Seq(FromBroker)],
           Gives(s, b'), b'.known \subseteq Ids,
           NEW U, Apart(U),
           \A n \in Services : OnePer(s.requests[n]) /\ U[QueueOf(n)] = ToSet(s.requests[n]),
           \A x \in Ids : /\ JobsOf(s.out[x], "REQUEST") \subseteq U[Hands(x)]
                          /\ AtWork(x)' \cup Replied(x)' \subseteq U[Hands(x)]
    PROVE  /\ OneHolder'
           /\ \A h \in Holders : \A j \in Under'[h] : \E g \in Holders : j \in U[g]
           /\ \A n \in Services : ToSet(b'.requests[n]) \subseteq ToSet(s.requests[n])
           /\ \A x \in Ids : \A j \in Sent(x)' :
                 j \in JobsOf(s.out[x], "REQUEST") \/ \E n \in Services : j \in ToSet(s.requests[n])
<1> DEFINE V == Under'
<1>1. /\ \A n \in Services : V[QueueOf(n)] = ToSet(b'.requests[n])
      /\ \A x \in Ids : V[Hands(x)] = Sent(x)' \cup AtWork(x)' \cup Replied(x)'
    BY UnderKinds
<1>2. \A x \in Ids : Sent(x)' = JobsOf(b'.out[x], "REQUEST")
    BY DEF Sent
<1>3. CASE b'.requests = s.requests /\ b'.out = s.out
    <2>1. \A h \in Holders : V[h] \subseteq U[h]
        <3>1. \A n \in Services : V[QueueOf(n)] \subseteq U[QueueOf(n)]
            BY <1>1, <1>3
        <3>2. \A x \in Ids : V[Hands(x)] \subseteq U[Hands(x)]
            BY <1>1, <1>2, <1>3
        <3> HIDE DEF V
        <3> QED
            BY <3>1, <3>2, HolderKinds
    <2> HIDE DEF V
    <2>2. Apart(V)
        BY <2>1, ApartLess
    <2>3. \A n \in Services : OnePer(b'.requests[n])
        BY <1>3
    <2>4. OneHolder'
        BY <2>2, <2>3 DEF OneHolder, V
    <2>5. \A h \in Holders : \A j \in V[h] : \E g \in Holders : j \in U[g]
        BY <2>1
    <2> QED
        BY <1>2, <1>3, <2>4, <2>5 DEF V
<1>4. CASE ~(b'.requests = s.requests /\ b'.out = s.out)
    <2>1. PICK n \in Services, x \in b'.known :
             /\ s.requests[n] # <<>>
             /\ b'.requests = [s.requests EXCEPT ![n] = Tail(@)]
             /\ \A i \in Ids : b'.out[i] =
                   IF i = x /\ x \in Open
                   THEN Append(s.out[i], [type |-> "REQUEST", job |-> Head(s.requests[n])])
                   ELSE s.out[i]
        BY <1>4 DEF Gives
    <2> DEFINE q == s.requests[n]
               j == Head(q)
               m == [type |-> "REQUEST", job |-> j]
    <2>2. q \in Seq(Job) /\ OnePer(q) /\ q # <<>> /\ x \in Ids
        BY <2>1
    <2>3. /\ j \in ToSet(q) /\ j \in Job
          /\ OnePer(Tail(q))
          /\ ToSet(Tail(q)) \subseteq ToSet(q) \ {j}
          /\ \A l \in ToSet(q) : l.client = j.client => l = j
        BY <2>2, OnePerTail
    <2>4. \A k \in Services : b'.requests[k] = IF k = n THEN Tail(q) ELSE s.requests[k]
        BY <2>1
    <2> HIDE DEF j, q
    <2>5. m \in FromBroker /\ m.type = "REQUEST" /\ m.job = j
        BY <2>3 DEF FromBroker
    <2>6. \A i \in Ids : b'.out[i] = IF i = x /\ x \in Open THEN Append(s.out[i], m) ELSE s.out[i]
        BY <2>1 DEF j, q
    <2> HIDE DEF m
    <2>7. \A i \in Ids : Sent(i)' \subseteq JobsOf(s.out[i], "REQUEST") \cup IF i = x THEN {j} ELSE {}
        <3> SUFFICES ASSUME NEW i \in Ids
                     PROVE  JobsOf(b'.out[i], "REQUEST")
                            \subseteq JobsOf(s.out[i], "REQUEST") \cup IF i = x THEN {j} ELSE {}
            BY <1>2
        <3>1. s.out[i] \in Seq(FromBroker)
            OBVIOUS
        <3>2. JobsOf(Append(s.out[i], m), "REQUEST") = JobsOf(s.out[i], "REQUEST") \cup {j}
            BY <2>5, <3>1, JobsOfAppend
        <3> QED
            BY <2>6, <3>2
    <2>8. \A g \in Holders : V[g] \subseteq IF g = Hands(x) THEN U[g] \cup {j}
                                           ELSE IF g = QueueOf(n) THEN U[g] \ {j} ELSE U[g]
        <3>1. \A k \in Services : V[QueueOf(k)] \subseteq IF k = n THEN U[QueueOf(k)] \ {j} ELSE U[QueueOf(k)]
            BY <1>1, <2>3, <2>4 DEF q
        <3>2. \A i \in Ids : V[Hands(i)] \subseteq IF i = x THEN U[Hands(i)] \cup {j} ELSE U[Hands(i)]
            BY <1>1, <2>7
        <3> HIDE DEF V
        <3> SUFFICES ASSUME NEW g \in Holders
                     PROVE  V[g] \subseteq IF g = Hands(x) THEN U[g] \cup {j}
                                           ELSE IF g = QueueOf(n) THEN U[g] \ {j} ELSE U[g]
            OBVIOUS
        <3>3. CASE \E k \in Services : g = QueueOf(k)
            BY <3>1, <3>3, HolderKinds
        <3>4. CASE \E i \in Ids : g = Hands(i)
            BY <3>2, <3>4, HolderKinds
        <3> QED
            BY <3>3, <3>4, HolderKinds
    <2> HIDE DEF V
    <2>9. /\ QueueOf(n) \in Holders /\ Hands(x) \in Holders /\ QueueOf(n) # Hands(x)
          /\ j \in U[QueueOf(n)] /\ \A l \in U[QueueOf(n)] : l.client = j.client => l = j
        BY <2>2, <2>3, HolderKinds DEF q
    <2>10. Apart(V)
        BY <2>8, <2>9, ApartMove
    <2>11. \A k \in Services : OnePer(b'.requests[k])
        BY <2>3, <2>4
    <2>12. OneHolder'
        BY <2>10, <2>11 DEF OneHolder, V
    <2>13. \A h \in Holders : \A l \in V[h] : \E g \in Holders : l \in U[g]
        <3> SUFFICES ASSUME NEW h \in Holders, NEW l \in V[h] PROVE \E g \in Holders : l \in U[g]
            OBVIOUS
        <3>1. l \in U[h] \/ l = j
            BY <2>8
        <3> QED
            BY <2>9, <3>1
    <2>14. \A k \in Services : ToSet(b'.requests[k]) \subseteq ToSet(s.requests[k])
        BY <2>3, <2>4 DEF q
    <2>15. \A i \in Ids : \A l \in Sent(i)' :
              l \in JobsOf(s.out[i], "REQUEST") \/ \E k \in Services : l \in ToSet(s.requests[k])
        BY <2>3, <2>7 DEF q
    <2> QED
        BY <2>12, <2>13, <2>14, <2>15 DEF V
<1> QED
    BY <1>3, <1>4

-----------------------------------------------------------------------------
(* What a client awaits, and what there is of it. *)
Awaited(c, k) == cli[c].tries > 0 /\ ~cli[c].asks /\ cli[c].made = k
Asking(c) == cli[c].tries > 0 /\ cli[c].asks

(* The request of a client that awaits its result, if it is to come to the *)
(* client's present socket, and of which there is nothing else.            *)
Proper(j) ==
    /\ j \in Job /\ j.client \in IdsOf[j.caller]
    /\ sock[j.caller] = j.client => Awaited(j.caller, j.call)
    /\ toBroker[j.client] = <<>> /\ b.out[j.client] = <<>>

AllProper == \A h \in Holders : \A j \in Under[h] : Proper(j)

Said(c, i, m) ==
    \/ m.type = "CALL" /\ m.caller = c /\ (sock[c] = i => Awaited(c, m.call))
    \/ m.type = "ASK" /\ (sock[c] = i => Asking(c))

ClientsSay ==
    \A c \in Clients : \A i \in IdsOf[c] : \A k \in DOMAIN toBroker[i] :
        k = 1 /\ b.out[i] = <<>> /\ Said(c, i, toBroker[i][k])

HeardBy(c, m) ==
    \/ m.type = "RESULT" /\ Awaited(c, m.call) /\ runs[c][m.call] > 0
    \/ m.type = "STATUS" /\ Asking(c)

ClientsHear ==
    \A c \in Clients : \A i \in IdsOf[c] : \A k \in DOMAIN b.out[i] :
        k = 1 /\ HeardBy(c, b.out[i][k])

WorkersSay ==
    \A w \in Workers : \A i \in IdsOf[w] : \A k \in DOMAIN toBroker[i] :
        toBroker[i][k].type \notin {"CALL", "ASK"}

RepliesRun == \A x \in Ids : \A j \in Replied(x) : runs[j.caller][j.call] > 0

(* The requests that may still be executed. *)
Asked(x) ==
    {[client |-> x, caller |-> m.caller, call |-> m.call] :
        m \in {y \in ToSet(toBroker[x]) : y.type = "CALL"}}

Live(j) ==
    \/ \E n \in Services : j \in ToSet(b.requests[n])
    \/ \E x \in Ids : j \in Sent(x) \cup AtWork(x) \cup Asked(x)

LiveAt(c, k) == {i \in IdsOf[c] : Live([client |-> i, caller |-> c, call |-> k])}

Sends(c, k) ==
    IF k > cli[c].made THEN 0
    ELSE IF Awaited(c, k) THEN Retries - cli[c].tries + 1 ELSE Retries

(* Each sending is executed once at most. *)
Budget ==
    \A c \in Clients : \A k \in 1 .. MaxCalls :
        Cardinality(LiveAt(c, k)) + runs[c][k] <= Sends(c, k)

(* A client that makes no call has the result of its last. *)
HasLast(c) ==
    /\ cli[c].got <= cli[c].made
    /\ cli[c].tries > 0 /\ ~cli[c].asks => cli[c].got < cli[c].made
    /\ sock[c] # Closed /\ ~(cli[c].tries > 0 /\ ~cli[c].asks) => cli[c].got = cli[c].made

GotLast == \A c \in Clients : HasLast(c)

Tracked ==
    /\ OneHolder /\ AllProper
    /\ ClientsSay /\ ClientsHear /\ WorkersSay /\ RepliesRun
    /\ Budget /\ GotLast

LEMMA LiveFinite ==
    ASSUME NEW c \in Clients, NEW k \in 1 .. MaxCalls
    PROVE  /\ IsFiniteSet(LiveAt(c, k)) /\ Cardinality(LiveAt(c, k)) \in Nat
           /\ IsFiniteSet(LiveAt(c, k)') /\ Cardinality(LiveAt(c, k)') \in Nat
<1>1. IsFiniteSet(IdsOf[c])
    BY MajordomoAssumption DEF Procs
<1>2. LiveAt(c, k) \subseteq IdsOf[c] /\ LiveAt(c, k)' \subseteq IdsOf[c]
    BY DEF LiveAt
<1> DEFINE X == LiveAt(c, k)
           Y == LiveAt(c, k)'
<1> HIDE DEF X, Y
<1>3. X \subseteq IdsOf[c] /\ Y \subseteq IdsOf[c]
    BY <1>2 DEF X, Y
<1>4. IsFiniteSet(X) /\ IsFiniteSet(Y)
    BY <1>1, <1>3, FS_Subset
<1>5. Cardinality(X) \in Nat /\ Cardinality(Y) \in Nat
    BY <1>4, FS_CardinalityType
<1> QED
    BY <1>4, <1>5 DEF X, Y

(* Fewer may still be executed. *)
LEMMA LiveLess ==
    ASSUME \A j : Live(j)' => Live(j), NEW c \in Clients, NEW k \in 1 .. MaxCalls
    PROVE  Cardinality(LiveAt(c, k)') <= Cardinality(LiveAt(c, k))
<1> DEFINE X == LiveAt(c, k)
           Y == LiveAt(c, k)'
<1>1. IsFiniteSet(X) /\ IsFiniteSet(Y)
    BY LiveFinite
<1>2. Y \subseteq X
    BY DEF LiveAt
<1> HIDE DEF X, Y
<1>3. Cardinality(Y) <= Cardinality(X)
    BY <1>1, <1>2, FS_Subset
<1> QED
    BY <1>3 DEF X, Y

LEMMA BudgetStays ==
    ASSUME Budget, TypeOK, TypeOK', cli' = cli, runs' = runs, \A j : Live(j)' => Live(j)
    PROVE  Budget'
<1> SUFFICES ASSUME NEW c \in Clients, NEW k \in 1 .. MaxCalls
             PROVE  (Cardinality(LiveAt(c, k)) + runs[c][k] <= Sends(c, k))'
    BY DEF Budget
<1>1. Sends(c, k)' = Sends(c, k)
    BY DEF Sends, Awaited
<1>2. Sends(c, k) \in Int /\ runs[c][k] \in Nat
    BY MajordomoAssumption DEF Sends, TypeOK, Session
<1>3. Cardinality(LiveAt(c, k)') <= Cardinality(LiveAt(c, k))
    BY LiveLess
<1>4. Cardinality(LiveAt(c, k)') \in Nat /\ Cardinality(LiveAt(c, k)) \in Nat
    BY LiveFinite
<1>5. Cardinality(LiveAt(c, k)) + runs[c][k] <= Sends(c, k)
    BY DEF Budget
<1>6. Cardinality(LiveAt(c, k)') + runs[c][k] <= Sends(c, k)
    BY <1>2, <1>3, <1>4, <1>5
<1> QED
    BY <1>1, <1>6

(* A step of the broker or of a worker that adds no request and no answer. *)
LEMMA TrackStays ==
    ASSUME Tracked, TypeOK, TypeOK', cli' = cli, runs' = runs,
           \A c \in Clients : sock'[c] = sock[c],
           OneHolder',
           \A h \in Holders : \A j \in Under'[h] : \E g \in Holders : j \in Under[g],
           \A j : Live(j)' => Live(j),
           \A x \in Ids : \A j \in Replied(x)' : \E y \in Ids : j \in Replied(y),
           \A c \in Clients : \A i \in IdsOf[c] :
               toBroker'[i] \in {<<>>, toBroker[i]} /\ b'.out[i] \in {<<>>, b.out[i]},
           WorkersSay'
    PROVE  Tracked'
<1>1. /\ AllProper /\ ClientsSay /\ ClientsHear /\ RepliesRun /\ Budget /\ GotLast
    BY DEF Tracked
<1>2. AllProper'
    <2> SUFFICES ASSUME NEW h \in Holders, NEW j \in Under'[h] PROVE Proper(j)'
        BY DEF AllProper
    <2>1. Proper(j)
        BY <1>1 DEF AllProper
    <2>2. j \in Job /\ j.client \in IdsOf[j.caller] /\ j.caller \in Clients
        BY <2>1 DEF Proper, Job
    <2> QED
        BY <2>1, <2>2 DEF Proper, Awaited
<1>3. DOMAIN <<>> = {}
    OBVIOUS
<1>4. ClientsSay'
    <2> SUFFICES ASSUME NEW c \in Clients, NEW i \in IdsOf[c], NEW k \in DOMAIN toBroker'[i]
                 PROVE  (k = 1 /\ b.out[i] = <<>> /\ Said(c, i, toBroker[i][k]))'
        BY DEF ClientsSay
    <2>1. toBroker'[i] = toBroker[i]
        BY <1>3
    <2>2. k = 1 /\ b.out[i] = <<>> /\ Said(c, i, toBroker[i][k])
        BY <1>1, <2>1 DEF ClientsSay
    <2> QED
        BY <2>1, <2>2 DEF Said, Awaited, Asking
<1>5. ClientsHear'
    <2> SUFFICES ASSUME NEW c \in Clients, NEW i \in IdsOf[c], NEW k \in DOMAIN b'.out[i]
                 PROVE  (k = 1 /\ HeardBy(c, b.out[i][k]))'
        BY DEF ClientsHear
    <2>1. b'.out[i] = b.out[i]
        BY <1>3
    <2>2. k = 1 /\ HeardBy(c, b.out[i][k])
        BY <1>1, <2>1 DEF ClientsHear
    <2> QED
        BY <2>1, <2>2 DEF HeardBy, Awaited, Asking
<1>6. RepliesRun'
    BY <1>1 DEF RepliesRun
<1>7. Budget'
    BY <1>1, BudgetStays
<1>8. GotLast'
    BY <1>1 DEF GotLast, HasLast
<1> QED
    BY <1>2, <1>4, <1>5, <1>6, <1>7, <1>8 DEF Tracked

-----------------------------------------------------------------------------
(* The broker's steps. *)
LEMMA WhoseIds ==
    /\ \A w \in Workers, c \in Clients : IdsOf[w] \cap IdsOf[c] = {}
    /\ \A c, d \in Clients : c # d => IdsOf[c] \cap IdsOf[d] = {}
    /\ \A w, x \in Workers : w # x => IdsOf[w] \cap IdsOf[x] = {}
    /\ \A i \in Ids : (\E w \in Workers : i \in IdsOf[w]) \/ (\E c \in Clients : i \in IdsOf[c])
    /\ \A p \in Procs : IdsOf[p] \subseteq Ids /\ Closed \notin IdsOf[p]
BY MajordomoAssumption DEF Procs, Ids

LEMMA TailOf ==
    ASSUME NEW M, NEW q \in Seq(M), q # <<>>
    PROVE  /\ ToSet(Tail(q)) \subseteq ToSet(q)
           /\ Head(q) = q[1] /\ 1 \in DOMAIN q /\ Head(q) \in ToSet(q)
           /\ (\A k \in DOMAIN q : k = 1) => Tail(q) = <<>>
<1> DEFINE r == Tail(q)
<1>1. DOMAIN q = 1 .. Len(q) /\ Len(q) \in Nat /\ Len(q) # 0
    BY LenProperties, EmptySeq
<1>2. /\ r \in Seq(M) /\ Len(r) = Len(q) - 1 /\ DOMAIN r = 1 .. Len(q) - 1
      /\ \A k \in 1 .. Len(q) - 1 : r[k] = q[k + 1]
      /\ Head(q) = q[1]
    BY <1>1, HeadTailProperties, LenProperties
<1> HIDE DEF r
<1>3. \A k \in DOMAIN r : k + 1 \in DOMAIN q /\ r[k] = q[k + 1]
    BY <1>1, <1>2
<1>4. ToSet(r) \subseteq ToSet(q)
    BY <1>3 DEF ToSet
<1>5. 1 \in DOMAIN q
    BY <1>1
<1>6. ASSUME \A k \in DOMAIN q : k = 1 PROVE r = <<>>
    <2>1. Len(q) \in DOMAIN q
        BY <1>1
    <2>2. Len(q) = 1
        BY <1>6, <2>1
    <2> QED
        BY <1>2, <2>2, EmptySeq
<1> QED
    BY <1>2, <1>4, <1>5, <1>6 DEF r, ToSet

LEMMA TakeLess ==
    ASSUME InStep, Tracked, NEW i \in Ids, NEW type, Take(i, type)
    PROVE  /\ cli' = cli /\ runs' = runs /\ job' = job /\ sock' = sock
           /\ \A x \in Ids : /\ AtWork(x)' = AtWork(x) /\ Replied(x)' \subseteq Replied(x)
                             /\ Asked(x)' \subseteq Asked(x)
           /\ type = "REPLY" => Replied(i)' = {} /\ Head(toBroker[i]).job \in Replied(i)
           /\ \A c \in Clients : \A y \in IdsOf[c] :
                 toBroker'[y] \in {<<>>, toBroker[y]} /\ (y = i => toBroker'[y] = <<>>)
           /\ WorkersSay'
           /\ type \notin {"CALL", "ASK"} => \A c \in Clients : i \notin IdsOf[c]
           /\ type \in {"CALL", "ASK"} =>
                 \E c \in Clients : i \in IdsOf[c] /\ b.out[i] = <<>> /\ Said(c, i, Head(toBroker[i]))
<1> DEFINE q == toBroker[i]
<1>1. /\ cli' = cli /\ runs' = runs /\ job' = job /\ sock' = sock
      /\ toBroker' = [toBroker EXCEPT ![i] = Tail(@)]
      /\ q # <<>> /\ Head(q).type = type
    BY DEF Take, workerVars
<1>2. /\ toBroker \in [Ids -> Seq(ToBroker)] /\ q \in Seq(ToBroker) /\ TypeOK
      /\ ClientsSay /\ WorkersSay /\ OneLoad
    BY DEF InStep, TypeOK, Tracked
<1>3. \A x \in Ids : toBroker'[x] = IF x = i THEN Tail(q) ELSE toBroker[x]
    BY <1>1, <1>2
<1>4. /\ ToSet(Tail(q)) \subseteq ToSet(q)
      /\ Head(q) = q[1] /\ 1 \in DOMAIN q
      /\ (\A k \in DOMAIN q : k = 1) => Tail(q) = <<>>
    BY <1>1, <1>2, TailOf
<1>5. Count(q, "REPLY") <= 1
    <2>1. Load(i) <= 1 /\ Held(b, i) \in Nat /\ Count(q, "REPLY") \in Nat
        BY <1>2, LoadNat DEF OneLoad
    <2> QED
        BY <2>1 DEF Load
<1>6. /\ JobsOf(Tail(q), "REPLY") \subseteq JobsOf(q, "REPLY")
      /\ type = "REPLY" => JobsOf(Tail(q), "REPLY") = {} /\ Head(q).job \in JobsOf(q, "REPLY")
    BY <1>1, <1>2, <1>5, JobsOfTail
<1>7. ASSUME NEW x \in Ids
      PROVE  /\ AtWork(x)' = AtWork(x) /\ Replied(x)' \subseteq Replied(x)
             /\ Asked(x)' \subseteq Asked(x)
    <2>1. AtWork(x)' = AtWork(x)
        BY <1>1 DEF AtWork
    <2>2. Replied(x)' = JobsOf(toBroker'[x], "REPLY") /\ Replied(x) = JobsOf(toBroker[x], "REPLY")
        BY DEF Replied
    <2>3. Replied(x)' \subseteq Replied(x)
        BY <1>3, <1>6, <2>2
    <2>4. ToSet(toBroker'[x]) \subseteq ToSet(toBroker[x])
        BY <1>3, <1>4
    <2>5. Asked(x)' \subseteq Asked(x)
        BY <2>4 DEF Asked
    <2> QED
        BY <2>1, <2>3, <2>5
<1>8. type = "REPLY" => Replied(i)' = {} /\ Head(q).job \in Replied(i)
    BY <1>3, <1>6 DEF Replied
<1>9. ASSUME NEW c \in Clients, NEW y \in IdsOf[c]
      PROVE  /\ toBroker'[y] \in {<<>>, toBroker[y]} /\ (y = i => toBroker'[y] = <<>>)
             /\ y = i => type \in {"CALL", "ASK"} /\ b.out[i] = <<>> /\ Said(c, i, Head(q))
    <2>1. y \in Ids
        BY WhoseIds DEF Procs
    <2>2. CASE y = i
        <3>1. \A k \in DOMAIN q : k = 1
            BY <1>2, <2>2 DEF ClientsSay
        <3>2. b.out[i] = <<>> /\ Said(c, i, Head(q))
            BY <1>2, <1>4, <2>2 DEF ClientsSay
        <3>3. type \in {"CALL", "ASK"}
            BY <1>1, <3>2 DEF Said
        <3> QED
            BY <1>3, <1>4, <2>2, <3>1, <3>2, <3>3
    <2> QED
        BY <1>3, <2>1, <2>2
<1>10. WorkersSay'
    <2> SUFFICES ASSUME NEW w \in Workers, NEW x \in IdsOf[w], NEW k \in DOMAIN toBroker'[x]
                 PROVE  toBroker'[x][k].type \notin {"CALL", "ASK"}
        BY DEF WorkersSay
    <2>1. x \in Ids
        BY WhoseIds DEF Procs
    <2>2. toBroker'[x][k] \in ToSet(toBroker[x])
        <3>1. toBroker'[x][k] \in ToSet(toBroker'[x])
            BY DEF ToSet
        <3> QED
            BY <1>3, <1>4, <2>1, <3>1
    <2> QED
        BY <1>2, <2>2 DEF WorkersSay, ToSet
<1>11. type \in {"CALL", "ASK"} =>
          \E c \in Clients : i \in IdsOf[c] /\ b.out[i] = <<>> /\ Said(c, i, Head(q))
    <2> SUFFICES ASSUME type \in {"CALL", "ASK"} PROVE \E c \in Clients : i \in IdsOf[c]
        BY <1>9
    <2>1. \A w \in Workers : i \notin IdsOf[w]
        BY <1>1, <1>2, <1>4 DEF WorkersSay
    <2> QED
        BY <2>1, WhoseIds
<1> QED
    BY <1>1, <1>7, <1>8, <1>9, <1>10, <1>11

-----------------------------------------------------------------------------
(* A step after which there is nothing that was not there before.          *)
LEMMA LessUnder ==
    ASSUME Tracked,
           \A n \in Services : OnePer(b'.requests[n]) /\ ToSet(b'.requests[n]) \subseteq ToSet(b.requests[n]),
           \A x \in Ids : /\ Sent(x)' \cup AtWork(x)' \subseteq Sent(x) \cup AtWork(x)
                          /\ Replied(x)' \subseteq Replied(x)
                          /\ Asked(x)' \subseteq Asked(x)
    PROVE  /\ \A h \in Holders : Under'[h] \subseteq Under[h]
           /\ OneHolder'
           /\ \A j : Live(j)' => Live(j)
<1>1. \A h \in Holders : Under'[h] \subseteq Under[h]
    <2>1. \A n \in Services : Under'[QueueOf(n)] \subseteq Under[QueueOf(n)]
        BY UnderKinds
    <2>2. \A x \in Ids : Under'[Hands(x)] \subseteq Under[Hands(x)]
        <3> SUFFICES ASSUME NEW x \in Ids PROVE Under'[Hands(x)] \subseteq Under[Hands(x)]
            OBVIOUS
        <3>1. /\ Under[Hands(x)] = Sent(x) \cup AtWork(x) \cup Replied(x)
              /\ Under'[Hands(x)] = Sent(x)' \cup AtWork(x)' \cup Replied(x)'
            BY UnderKinds
        <3>2. Sent(x)' \cup AtWork(x)' \subseteq Sent(x) \cup AtWork(x) /\ Replied(x)' \subseteq Replied(x)
            OBVIOUS
        <3> QED
            BY <3>1, <3>2
    <2> QED
        BY <2>1, <2>2, HolderKinds
<1>2. OneHolder'
    <2> DEFINE V == Under'
    <2>1. Apart(V)
        <3>1. Apart(Under) /\ \A h \in Holders : V[h] \subseteq Under[h]
            BY <1>1 DEF Tracked, OneHolder
        <3> HIDE DEF V
        <3> QED
            BY <3>1, ApartLess
    <2> QED
        BY <2>1 DEF OneHolder
<1>3. \A j : Live(j)' => Live(j)
    <2> SUFFICES ASSUME NEW j, Live(j)' PROVE Live(j)
        OBVIOUS
    <2>1. CASE \E n \in Services : j \in ToSet(b'.requests[n])
        BY <2>1 DEF Live
    <2>2. CASE \E x \in Ids : j \in Sent(x)' \cup AtWork(x)' \cup Asked(x)'
        <3>1. PICK x \in Ids : j \in Sent(x)' \cup AtWork(x)' \cup Asked(x)'
            BY <2>2
        <3>2. j \in Sent(x) \cup AtWork(x) \cup Asked(x)
            BY <3>1
        <3> QED
            BY <3>2 DEF Live
    <2> QED
        BY <2>1, <2>2 DEF Live
<1> QED
    BY <1>1, <1>2, <1>3

LEMMA ShrinkStays ==
    ASSUME Tracked, TypeOK, TypeOK', cli' = cli, runs' = runs,
           \A c \in Clients : sock'[c] = sock[c],
           \A n \in Services : OnePer(b'.requests[n]) /\ ToSet(b'.requests[n]) \subseteq ToSet(b.requests[n]),
           \A x \in Ids : /\ Sent(x)' \cup AtWork(x)' \subseteq Sent(x) \cup AtWork(x)
                          /\ Replied(x)' \subseteq Replied(x)
                          /\ Asked(x)' \subseteq Asked(x),
           \A c \in Clients : \A i \in IdsOf[c] :
               toBroker'[i] \in {<<>>, toBroker[i]} /\ b'.out[i] \in {<<>>, b.out[i]},
           WorkersSay'
    PROVE  Tracked'
<1>1. /\ \A h \in Holders : Under'[h] \subseteq Under[h]
      /\ OneHolder' /\ \A j : Live(j)' => Live(j)
    BY LessUnder
<1>2. \A h \in Holders : \A j \in Under'[h] : \E g \in Holders : j \in Under[g]
    BY <1>1
<1>3. \A x \in Ids : \A j \in Replied(x)' : \E y \in Ids : j \in Replied(y)
    OBVIOUS
<1> QED
    BY <1>1, <1>2, <1>3, TrackStays

(* The broker takes a message and tells no worker and no client anything.  *)
LEMMA QuietTake ==
    ASSUME InStep, InStep', Tracked, NEW i \in Ids, NEW type, Take(i, type),
           b'.requests = b.requests,
           \A x \in Ids : Sent(x)' \subseteq Sent(x),
           \A c \in Clients : \A y \in IdsOf[c] : b'.out[y] = b.out[y]
    PROVE  Tracked'
<1>1. /\ cli' = cli /\ runs' = runs /\ sock' = sock
      /\ \A x \in Ids : /\ AtWork(x)' = AtWork(x) /\ Replied(x)' \subseteq Replied(x)
                        /\ Asked(x)' \subseteq Asked(x)
      /\ \A c \in Clients : \A y \in IdsOf[c] : toBroker'[y] \in {<<>>, toBroker[y]}
      /\ WorkersSay'
    BY TakeLess
<1>2. TypeOK /\ TypeOK'
    BY DEF InStep
<1>3. \A n \in Services : OnePer(b'.requests[n]) /\ ToSet(b'.requests[n]) \subseteq ToSet(b.requests[n])
    BY DEF Tracked, OneHolder
<1>4. \A x \in Ids : Sent(x)' \cup AtWork(x)' \subseteq Sent(x) \cup AtWork(x)
    BY <1>1
<1> QED
    BY <1>1, <1>2, <1>3, <1>4, ShrinkStays

(* ... or something, at the address of the message or of its reply.        *)
LEMMA TakeTracked ==
    ASSUME InStep, InStep', Tracked, NEW i \in Ids, NEW type, Take(i, type), OneHolder',
           \A h \in Holders : \A j \in Under'[h] : Proper(j)',
           \A j : Live(j)' => Live(j),
           \A c \in Clients : \A y \in IdsOf[c] :
               \/ b'.out[y] = b.out[y]
               \/ toBroker'[y] = <<>> /\ \A k \in DOMAIN b'.out[y] : k = 1 /\ HeardBy(c, b'.out[y][k])
    PROVE  Tracked'
<1>1. /\ cli' = cli /\ runs' = runs /\ sock' = sock
      /\ \A x \in Ids : Replied(x)' \subseteq Replied(x)
      /\ \A c \in Clients : \A y \in IdsOf[c] : toBroker'[y] \in {<<>>, toBroker[y]}
      /\ WorkersSay'
    BY TakeLess
<1>2. /\ ClientsSay /\ ClientsHear /\ RepliesRun /\ Budget /\ GotLast /\ TypeOK /\ TypeOK'
    BY DEF Tracked, InStep
<1>3. DOMAIN <<>> = {}
    OBVIOUS
<1>4. AllProper'
    BY DEF AllProper
<1>5. ClientsSay'
    <2> SUFFICES ASSUME NEW c \in Clients, NEW y \in IdsOf[c], NEW k \in DOMAIN toBroker'[y]
                 PROVE  (k = 1 /\ b.out[y] = <<>> /\ Said(c, y, toBroker[y][k]))'
        BY DEF ClientsSay
    <2>1. toBroker'[y] = toBroker[y] /\ b'.out[y] = b.out[y]
        BY <1>1, <1>3
    <2>2. k = 1 /\ b.out[y] = <<>> /\ Said(c, y, toBroker[y][k])
        BY <1>2, <2>1 DEF ClientsSay
    <2> QED
        BY <1>1, <2>1, <2>2 DEF Said, Awaited, Asking
<1>6. ClientsHear'
    <2> SUFFICES ASSUME NEW c \in Clients, NEW y \in IdsOf[c], NEW k \in DOMAIN b'.out[y]
                 PROVE  (k = 1 /\ HeardBy(c, b.out[y][k]))'
        BY DEF ClientsHear
    <2>1. k = 1 /\ HeardBy(c, b'.out[y][k])
        BY <1>2 DEF ClientsHear
    <2> QED
        BY <1>1, <2>1 DEF HeardBy, Awaited, Asking
<1>7. RepliesRun'
    BY <1>1, <1>2 DEF RepliesRun
<1>8. Budget'
    BY <1>1, <1>2, BudgetStays
<1>9. GotLast'
    BY <1>1, <1>2 DEF GotLast, HasLast
<1> QED
    BY <1>1, <1>4, <1>5, <1>6, <1>7, <1>8, <1>9 DEF Tracked

(* A worker with a request on its way to it, at work or replying has no    *)
(* other.                                                                  *)
LEMMA HandsOne ==
    ASSUME InStep, NEW i \in Ids
    PROVE  /\ Replied(i) # {} => Sent(i) = {} /\ AtWork(i) = {} /\ i \notin b.idle
           /\ AtWork(i) # {} => Sent(i) = {} /\ Replied(i) = {}
<1>1. /\ Load(i) <= 1 /\ Held(b, i) \in Nat /\ Count(toBroker[i], "REPLY") \in Nat
      /\ Count(b.out[i], "REQUEST") \in Nat
      /\ Count(b.out[i], "REQUEST") = 0 => \A k \in DOMAIN b.out[i] : b.out[i][k].type # "REQUEST"
      /\ Count(toBroker[i], "REPLY") = 0 => \A k \in DOMAIN toBroker[i] : toBroker[i][k].type # "REPLY"
    <2>1. TypeOK /\ OneLoad /\ b.out[i] \in Seq(FromBroker) /\ toBroker[i] \in Seq(ToBroker)
        BY DEF InStep, TypeOK, BrokerState
    <2>2. Load(i) <= 1 /\ Held(b, i) \in Nat /\ Count(toBroker[i], "REPLY") \in Nat
        BY <2>1, LoadNat DEF OneLoad
    <2> QED
        BY <2>1, <2>2, CountNat
<1>2. Count(b.out[i], "REQUEST") = 0 => Sent(i) = {}
    BY <1>1, JobsOfNone DEF Sent
<1>3. Count(toBroker[i], "REPLY") = 0 => Replied(i) = {}
    BY <1>1, JobsOfNone DEF Replied
<1>4. i \notin Busy => AtWork(i) = {}
    BY DEF Busy, AtWork
<1>5. \/ Count(toBroker[i], "REPLY") = 0 /\ i \notin Busy
      \/ Count(toBroker[i], "REPLY") = 0 /\ Count(b.out[i], "REQUEST") = 0
      \/ Count(b.out[i], "REQUEST") = 0 /\ i \notin Busy /\ i \notin b.idle
    BY <1>1 DEF Load, Held
<1> QED
    BY <1>2, <1>3, <1>4, <1>5

(* The broker takes a message, and a request that waited may go to a       *)
(* worker: s is what it knows before that.                                 *)
LEMMA TakeGives ==
    ASSUME InStep, InStep', Tracked, NEW i \in Ids, NEW type, Take(i, type),
           NEW s, s.requests = b.requests, s.out \in [Ids -> Seq(FromBroker)],
           \A x \in Ids : JobsOf(s.out[x], "REQUEST") \subseteq Sent(x),
           Gives(s, b')
    PROVE  /\ OneHolder'
           /\ \A h \in Holders : \A j \in Under'[h] :
                 \E g \in Holders : j \in Under[g] /\ (type = "REPLY" => g # Hands(i))
           /\ \A j : Live(j)' => Live(j)
           /\ \A c \in Clients : \A y \in IdsOf[c] : b'.out[y] = s.out[y]
<1>1. /\ \A x \in Ids : /\ AtWork(x)' = AtWork(x) /\ Replied(x)' \subseteq Replied(x)
                        /\ Asked(x)' \subseteq Asked(x)
      /\ type = "REPLY" => Replied(i)' = {} /\ Head(toBroker[i]).job \in Replied(i)
    BY TakeLess
<1>2. /\ b.requests \in [Services -> Seq(Job)] /\ b'.known \subseteq Ids
      /\ Apart(Under) /\ \A n \in Services : OnePer(b.requests[n])
    BY DEF InStep, TypeOK, BrokerState, Tracked, OneHolder
<1> DEFINE U == [h \in Holders |-> IF type = "REPLY" /\ h = Hands(i) THEN {} ELSE Under[h]]
<1>3. \A h \in Holders : U[h] \subseteq Under[h]
    OBVIOUS
<1>4. \A n \in Services : U[QueueOf(n)] = ToSet(b.requests[n])
    BY HolderKinds, UnderKinds
<1>5. \A x \in Ids : /\ JobsOf(s.out[x], "REQUEST") \subseteq U[Hands(x)]
                     /\ AtWork(x)' \cup Replied(x)' \subseteq U[Hands(x)]
    <2> SUFFICES ASSUME NEW x \in Ids
                 PROVE  Sent(x) \cup AtWork(x) \cup Replied(x)' \subseteq U[Hands(x)]
        BY <1>1
    <2>1. Under[Hands(x)] = Sent(x) \cup AtWork(x) \cup Replied(x) /\ Hands(x) \in Holders
        BY UnderKinds, HolderKinds
    <2>2. CASE type = "REPLY" /\ x = i
        <3>1. Sent(x) = {} /\ AtWork(x) = {} /\ Replied(x)' = {}
            BY <1>1, <2>2, HandsOne
        <3> QED
            BY <3>1
    <2>3. CASE ~(type = "REPLY" /\ x = i)
        <3>1. U[Hands(x)] = Under[Hands(x)]
            BY <2>1, <2>3, HolderKinds
        <3> QED
            BY <1>1, <2>1, <3>1
    <2> QED
        BY <2>2, <2>3
<1>6. \A h \in Holders : \A j \in U[h] : j \in Under[h] /\ (type = "REPLY" => h # Hands(i))
    OBVIOUS
<1> HIDE DEF U
<1>7. Apart(U)
    BY <1>2, <1>3, ApartLess
<1>8. \A n \in Services : OnePer(s.requests[n]) /\ U[QueueOf(n)] = ToSet(s.requests[n])
    BY <1>2, <1>4
<1>9. /\ OneHolder'
      /\ \A h \in Holders : \A j \in Under'[h] : \E g \in Holders : j \in U[g]
      /\ \A n \in Services : ToSet(b'.requests[n]) \subseteq ToSet(s.requests[n])
      /\ \A x \in Ids : \A j \in Sent(x)' :
            j \in JobsOf(s.out[x], "REQUEST") \/ \E n \in Services : j \in ToSet(s.requests[n])
    BY <1>2, <1>5, <1>7, <1>8, GivesApart
<1>10. \A h \in Holders : \A j \in Under'[h] :
          \E g \in Holders : j \in Under[g] /\ (type = "REPLY" => g # Hands(i))
    BY <1>6, <1>9
<1>11. \A j : Live(j)' => Live(j)
    <2> SUFFICES ASSUME NEW j, Live(j)' PROVE Live(j)
        OBVIOUS
    <2>1. CASE \E n \in Services : j \in ToSet(b'.requests[n])
        BY <1>9, <2>1 DEF Live
    <2>2. ASSUME NEW x \in Ids, j \in Sent(x)' PROVE Live(j)
        <3>1. j \in Sent(x) \/ \E n \in Services : j \in ToSet(b.requests[n])
            BY <1>9, <2>2
        <3> QED
            BY <3>1 DEF Live
    <2>3. ASSUME NEW x \in Ids, j \in AtWork(x)' \/ j \in Asked(x)' PROVE Live(j)
        <3>1. j \in AtWork(x) \/ j \in Asked(x)
            BY <1>1, <2>3
        <3> QED
            BY <3>1 DEF Live
    <2>4. (\E n \in Services : j \in ToSet(b'.requests[n]))
          \/ \E x \in Ids : j \in Sent(x)' \/ j \in AtWork(x)' \/ j \in Asked(x)'
        BY DEF Live
    <2> QED
        BY <2>1, <2>2, <2>3, <2>4
<1>12. ASSUME NEW c \in Clients, NEW y \in IdsOf[c] PROVE b'.out[y] = s.out[y]
    <2>1. y \notin b'.known
        BY WhoseIds DEF InStep, OwnKnown
    <2>2. y \in Ids
        BY WhoseIds DEF Procs
    <2> QED
        BY <2>1, <2>2 DEF Gives
<1> QED
    BY <1>9, <1>10, <1>11, <1>12

(* A client's open address is that of its socket.                          *)
LEMMA OpenWhose ==
    ASSUME Sockets, NEW c \in Clients, NEW i \in IdsOf[c] \cap Open
    PROVE  sock[c] = i
<1>1. PICK p \in Procs : sock[p] = i
    BY DEF Open
<1>2. i \in IdsOf[p]
    BY <1>1, WhoseIds DEF Sockets, Procs
<1>3. p = c
    BY <1>2, WhoseIds DEF Procs
<1> QED
    BY <1>1, <1>3

LEMMA ProperTake ==
    ASSUME InStep, Tracked, NEW i \in Ids, NEW type, Take(i, type),
           NEW j, Proper(j), b'.out[j.client] \in {<<>>, b.out[j.client]}
    PROVE  Proper(j)'
<1>1. /\ cli' = cli /\ sock' = sock
      /\ \A c \in Clients : \A y \in IdsOf[c] : toBroker'[y] \in {<<>>, toBroker[y]}
    BY TakeLess
<1>2. j \in Job /\ j.caller \in Clients /\ j.client \in IdsOf[j.caller]
    BY DEF Proper, Job
<1> QED
    BY <1>1, <1>2 DEF Proper, Awaited

LEMMA ProperStays ==
    ASSUME InStep, Tracked, NEW i \in Ids, NEW type, Take(i, type),
           \A h \in Holders : \A j \in Under'[h] : \E g \in Holders : j \in Under[g],
           \A c \in Clients : \A y \in IdsOf[c] : b'.out[y] = b.out[y]
    PROVE  \A h \in Holders : \A j \in Under'[h] : Proper(j)'
<1> SUFFICES ASSUME NEW h \in Holders, NEW j \in Under'[h] PROVE Proper(j)'
    OBVIOUS
<1>1. Proper(j)
    BY DEF Tracked, AllProper
<1>2. b'.out[j.client] = b.out[j.client]
    BY <1>1 DEF Proper, Job
<1> QED
    BY <1>1, <1>2, ProperTake

LEMMA NoRequestTold ==
    ASSUME NEW q \in Seq(FromBroker), NEW m \in FromBroker, m.type # "REQUEST"
    PROVE  JobsOf(Append(q, m), "REQUEST") = JobsOf(q, "REQUEST")
<1>1. JobsOf(Append(q, m), "REQUEST") =
         JobsOf(q, "REQUEST") \cup IF m.type = "REQUEST" THEN {m.job} ELSE {}
    BY JobsOfAppend
<1> QED
    BY <1>1

(* A worker is told that it is not known any more.                         *)
LEMMA DismissTracked ==
    ASSUME InStep, InStep', Tracked, NEW i \in Ids, \A c \in Clients : i \notin IdsOf[c],
           NEW type, Take(i, type),
           b' = Dismiss(IF i \in b.known THEN b ELSE Require(b, i), i)
    PROVE  Tracked'
<1> DEFINE m == [type |-> "DISCONNECT"]
<1>1. Sound(b, {}) /\ b \in BrokerState
    BY DEF InStep, Sound
<1>2. /\ b'.requests = b.requests
      /\ \A y \in Ids : b'.out[y] = IF y = i /\ i \in Open THEN Append(b.out[y], m) ELSE b.out[y]
    BY <1>1, DismissGives
<1>3. m \in FromBroker /\ m.type # "REQUEST"
    BY DEF FromBroker
<1> HIDE DEF m
<1>4. \A x \in Ids : Sent(x)' \subseteq Sent(x)
    <2> SUFFICES ASSUME NEW x \in Ids PROVE JobsOf(b'.out[x], "REQUEST") \subseteq JobsOf(b.out[x], "REQUEST")
        BY DEF Sent
    <2>1. b.out[x] \in Seq(FromBroker)
        BY <1>1 DEF BrokerState
    <2>2. JobsOf(Append(b.out[x], m), "REQUEST") = JobsOf(b.out[x], "REQUEST")
        BY <1>3, <2>1, NoRequestTold
    <2> QED
        BY <1>2, <2>2
<1>5. \A c \in Clients : \A y \in IdsOf[c] : b'.out[y] = b.out[y]
    BY <1>2, WhoseIds DEF Procs
<1> QED
    BY <1>2, <1>4, <1>5, QuietTake

LEMMA TakeHeartbeatTracked ==
    ASSUME InStep, InStep', Tracked, NEW i \in Ids, TakeHeartbeat(i) PROVE Tracked'
<1>1. /\ Take(i, "HEARTBEAT")
      /\ b' = IF i \in b.known
              THEN IF i \in b.idle THEN [b EXCEPT !.age[i] = 0] ELSE b
              ELSE Dismiss(Require(b, i), i)
    BY DEF TakeHeartbeat
<1>2. Sound(b, {}) /\ b \in BrokerState /\ \A c \in Clients : i \notin IdsOf[c]
    BY <1>1, TakeLess DEF InStep, Sound
<1>3. CASE i \in b.known
    <2>1. b'.requests = b.requests /\ b'.out = b.out
        BY <1>1, <1>2, <1>3 DEF BrokerState
    <2> QED
        BY <1>1, <2>1, QuietTake DEF Sent
<1>4. CASE i \notin b.known
    BY <1>1, <1>2, <1>4, DismissTracked
<1> QED
    BY <1>3, <1>4

LEMMA TakeReadyTracked ==
    ASSUME InStep, InStep', Tracked, NEW i \in Ids, TakeReady(i) PROVE Tracked'
<1> DEFINE n == Head(toBroker[i]).service
           s == [ServiceRequire(Require(b, i), n) EXCEPT !.service[i] = n, !.workers[n] = @ + 1]
<1>1. Take(i, "READY") /\ b' = IF i \in b.known THEN Dismiss(b, i) ELSE Waiting(s, i)
    BY DEF TakeReady
<1>2. Entered(s, i, n)
    BY DEF Entered
<1> HIDE DEF s
<1>3. /\ i \notin b.known /\ \E w \in Workers : i \in IdsOf[w] /\ n = ServiceOf[w]
      /\ Sound(s, {}) /\ Served(s) /\ Young(s)
      /\ i \in s.known /\ i \notin s.idle
      /\ s.known = b.known \cup {i} /\ s.idle = b.idle
      /\ s.requests = b.requests /\ s.out = b.out
      /\ s.service[i] = n /\ \A k \in Ids \ {i} : s.service[k] = b.service[k]
      /\ s.workers = [b.workers EXCEPT ![n] = @ + 1]
    BY ONLY <1>1, <1>2, InStep, i \in Ids, ReadyEntered
<1> HIDE DEF n
<1>4. /\ i \notin b.known /\ Sound(s, {}) /\ i \in s.known /\ i \notin s.idle
      /\ s.requests = b.requests /\ s.out = b.out
    BY <1>3
<1>5. Gives(s, b')
    BY <1>1, <1>4, WaitingGives
<1>6. s.out \in [Ids -> Seq(FromBroker)] /\ \A x \in Ids : JobsOf(s.out[x], "REQUEST") \subseteq Sent(x)
    BY <1>4 DEF Sound, BrokerState, Sent
<1>7. /\ OneHolder'
      /\ \A h \in Holders : \A j \in Under'[h] : \E g \in Holders : j \in Under[g]
      /\ \A j : Live(j)' => Live(j)
      /\ \A c \in Clients : \A y \in IdsOf[c] : b'.out[y] = b.out[y]
    BY <1>1, <1>4, <1>5, <1>6, TakeGives
<1>8. \A h \in Holders : \A j \in Under'[h] : Proper(j)'
    BY <1>1, <1>7, ProperStays
<1> QED
    BY <1>1, <1>7, <1>8, TakeTracked

LEMMA TakeAskTracked ==
    ASSUME InStep, InStep', Tracked, NEW i \in Ids, TakeAsk(i) PROVE Tracked'
<1> DEFINE n == Head(toBroker[i]).service
           m == [type |-> "STATUS", found |-> n \in b.made /\ b.workers[n] # 0]
<1>1. Take(i, "ASK") /\ b' = Tell(b, i, m)
    BY DEF TakeAsk
<1>2. Sound(b, {}) /\ b \in BrokerState /\ Sockets /\ m \in FromBroker
      /\ m.type = "STATUS"
    BY DEF InStep, Sound, FromBroker
<1> HIDE DEF m
<1>3. /\ b' = [b EXCEPT !.out = b'.out]
      /\ \A y \in Ids : b'.out[y] = IF y = i /\ i \in Open THEN Append(b.out[y], m) ELSE b.out[y]
    BY <1>1, <1>2, TellSound
<1>4. b'.requests = b.requests /\ b'.known = b.known
    BY <1>2, <1>3 DEF BrokerState
<1>5. PICK d \in Clients : i \in IdsOf[d] /\ b.out[i] = <<>> /\ Said(d, i, Head(toBroker[i]))
    BY <1>1, TakeLess
<1>6. /\ sock' = sock /\ toBroker'[i] = <<>>
      /\ \A x \in Ids : AtWork(x)' = AtWork(x) /\ Replied(x)' \subseteq Replied(x) /\ Asked(x)' \subseteq Asked(x)
    BY <1>1, <1>5, TakeLess
<1>7. \A x \in Ids : Sent(x)' \subseteq Sent(x)
    <2> SUFFICES ASSUME NEW x \in Ids PROVE JobsOf(b'.out[x], "REQUEST") \subseteq JobsOf(b.out[x], "REQUEST")
        BY DEF Sent
    <2>1. b.out[x] \in Seq(FromBroker)
        BY <1>2 DEF BrokerState
    <2>2. JobsOf(Append(b.out[x], m), "REQUEST") = JobsOf(b.out[x], "REQUEST")
        BY <1>2, <2>1, NoRequestTold
    <2> QED
        BY <1>3, <2>2
<1>8. i \in Open => Asking(d)
    <2> SUFFICES ASSUME i \in Open PROVE Asking(d)
        OBVIOUS
    <2>1. sock[d] = i
        BY <1>2, <1>5, OpenWhose
    <2>2. Head(toBroker[i]).type = "ASK"
        BY <1>1 DEF Take
    <2> QED
        BY <1>5, <2>1, <2>2 DEF Said
<1>9. /\ OneHolder' /\ \A j : Live(j)' => Live(j)
      /\ \A h \in Holders : Under'[h] \subseteq Under[h]
    BY <1>4, <1>6, <1>7, LessUnder DEF Tracked, OneHolder
<1>10. \A h \in Holders : \A j \in Under'[h] : Proper(j)'
    <2> SUFFICES ASSUME NEW h \in Holders, NEW j \in Under'[h] PROVE Proper(j)'
        OBVIOUS
    <2>1. Proper(j)
        BY <1>9 DEF Tracked, AllProper
    <2>2. j.client # i /\ j.client \in Ids
        BY <1>1, <2>1 DEF Proper, Take, Job
    <2>3. b'.out[j.client] = b.out[j.client]
        BY <1>3, <2>2
    <2> QED
        BY <1>1, <2>1, <2>3, ProperTake
<1>11. \A c \in Clients : \A y \in IdsOf[c] :
          \/ b'.out[y] = b.out[y]
          \/ toBroker'[y] = <<>> /\ \A k \in DOMAIN b'.out[y] : k = 1 /\ HeardBy(c, b'.out[y][k])
    <2> SUFFICES ASSUME NEW c \in Clients, NEW y \in IdsOf[c], b'.out[y] # b.out[y]
                 PROVE  toBroker'[y] = <<>> /\ \A k \in DOMAIN b'.out[y] : k = 1 /\ HeardBy(c, b'.out[y][k])
        OBVIOUS
    <2>1. y \in Ids
        BY WhoseIds DEF Procs
    <2>2. y = i /\ i \in Open /\ b'.out[y] = Append(<<>>, m)
        BY <1>3, <1>5, <2>1
    <2>5. c = d
        BY <1>5, <2>2, WhoseIds
    <2>3. Append(<<>>, m) = <<m>>
        OBVIOUS
    <2>4. \A k \in DOMAIN <<m>> : k = 1 /\ <<m>>[k] = m
        OBVIOUS
    <2> QED
        BY <1>2, <1>6, <1>8, <2>2, <2>3, <2>4, <2>5 DEF HeardBy
<1> QED
    BY <1>1, <1>9, <1>10, <1>11, TakeTracked

(* A request is entered, which may go to a worker at once.                 *)
LEMMA TakeCallTracked ==
    ASSUME InStep, InStep', Tracked, NEW i \in Ids, TakeCall(i) PROVE Tracked'
<1> DEFINE m == Head(toBroker[i])
           n == m.service
           r == [client |-> i, caller |-> m.caller, call |-> m.call]
           s == [ServiceRequire(b, n) EXCEPT !.requests[n] = Append(@, r)]
<1>1. Take(i, "CALL") /\ b' = Dispatch(s, n)
    BY DEF TakeCall
<1>2. TypeOK /\ Sound(b, {}) /\ b \in BrokerState
    BY DEF InStep, Sound
<1>3. n \in Services /\ r \in Job
    BY <1>1, <1>2, TakeTyped
<1>4. PICK j \in Job : j = r
    BY <1>3
<1>5. Queued(s, n, j) /\ j.client = i /\ j.caller = m.caller /\ j.call = m.call
    BY <1>4 DEF Queued
<1> HIDE DEF n, s, m
<1>6. /\ Sound(s, {}) /\ s.out = b.out
      /\ s.requests = [b.requests EXCEPT ![n] = Append(@, j)]
    BY <1>2, <1>3, <1>5, CallQueued
<1>7. /\ s.requests \in [Services -> Seq(Job)] /\ s.out \in [Ids -> Seq(FromBroker)]
      /\ b.requests \in [Services -> Seq(Job)] /\ b'.known \subseteq Ids
    BY <1>2, <1>6 DEF Sound, BrokerState, InStep, TypeOK
<1>8. Gives(s, b')
    BY <1>1, <1>3, <1>6, DispatchGives
<1>9. PICK c \in Clients : i \in IdsOf[c] /\ b.out[i] = <<>> /\ Said(c, i, m)
    BY <1>1, TakeLess DEF m
<1>10. m.type = "CALL" /\ toBroker[i] # <<>>
    BY <1>1 DEF Take, m
<1>11. m.caller = c /\ (sock[c] = i => Awaited(c, m.call))
    BY <1>9, <1>10 DEF Said
<1>12. /\ \A x \in Ids : AtWork(x)' = AtWork(x) /\ Replied(x)' \subseteq Replied(x) /\ Asked(x)' \subseteq Asked(x)
       /\ toBroker'[i] = <<>> /\ cli' = cli /\ sock' = sock
    BY <1>1, <1>9, TakeLess
<1>13. \A h \in Holders : \A l \in Under[h] : Proper(l) /\ l.client # i /\ l.client \in Ids
    BY <1>10 DEF Tracked, AllProper, Proper, Job
<1>14. Apart(Under) /\ \A k \in Services : OnePer(b.requests[k])
    BY DEF Tracked, OneHolder
<1> DEFINE U == [h \in Holders |-> IF h = QueueOf(n) THEN Under[h] \cup {j} ELSE Under[h]]
<1>15. Apart(U)
    <2>1. \A g \in Holders : U[g] \subseteq IF g = QueueOf(n) THEN Under[g] \cup {j} ELSE Under[g]
        OBVIOUS
    <2>2. \A g \in Holders : \A l \in Under[g] : l.client # j.client
        BY <1>5, <1>13
    <2>3. QueueOf(n) \in Holders
        BY <1>3, HolderKinds
    <2> HIDE DEF U
    <2> QED
        BY <1>14, <2>1, <2>2, <2>3, ApartMore
<1>16. \A k \in Services : OnePer(s.requests[k]) /\ U[QueueOf(k)] = ToSet(s.requests[k])
    <2> SUFFICES ASSUME NEW k \in Services
                 PROVE  OnePer(s.requests[k]) /\ U[QueueOf(k)] = ToSet(s.requests[k])
        OBVIOUS
    <2>1. /\ Under[QueueOf(k)] = ToSet(b.requests[k]) /\ QueueOf(k) \in Holders
          /\ QueueOf(k) = QueueOf(n) <=> k = n
        BY HolderKinds, UnderKinds
    <2>2. CASE k = n
        <3>1. s.requests[k] = Append(b.requests[k], j) /\ b.requests[k] \in Seq(Job)
            BY <1>6, <1>7, <2>2
        <3>2. ToSet(Append(b.requests[k], j)) = ToSet(b.requests[k]) \cup {j}
            BY <1>3, <3>1, Appended
        <3>3. \A l \in ToSet(b.requests[k]) : l.client # j.client
            BY <1>5, <1>13, <2>1
        <3>4. OnePer(Append(b.requests[k], j))
            BY <1>3, <1>14, <3>1, <3>3, OnePerAppend
        <3> QED
            BY <2>1, <2>2, <3>1, <3>2, <3>4
    <2>3. CASE k # n
        <3>1. s.requests[k] = b.requests[k]
            BY <1>6, <1>7, <2>3
        <3> QED
            BY <1>14, <2>1, <2>3, <3>1
    <2> QED
        BY <2>2, <2>3
<1>17. \A x \in Ids : /\ JobsOf(s.out[x], "REQUEST") \subseteq U[Hands(x)]
                      /\ AtWork(x)' \cup Replied(x)' \subseteq U[Hands(x)]
    <2> SUFFICES ASSUME NEW x \in Ids
                 PROVE  Sent(x) \cup AtWork(x)' \cup Replied(x)' \subseteq U[Hands(x)]
        BY <1>6 DEF Sent
    <2>1. Under[Hands(x)] = Sent(x) \cup AtWork(x) \cup Replied(x) /\ Hands(x) \in Holders
        BY UnderKinds, HolderKinds
    <2>2. Under[Hands(x)] \subseteq U[Hands(x)]
        BY <2>1
    <2> QED
        BY <1>12, <2>1, <2>2
<1>18. \A h \in Holders : \A l \in U[h] : l \in Under[h] \/ l = j
    OBVIOUS
<1> HIDE DEF U
<1>19. /\ OneHolder'
       /\ \A h \in Holders : \A l \in Under'[h] : \E g \in Holders : l \in U[g]
       /\ \A k \in Services : ToSet(b'.requests[k]) \subseteq ToSet(s.requests[k])
       /\ \A x \in Ids : \A l \in Sent(x)' :
             l \in JobsOf(s.out[x], "REQUEST") \/ \E k \in Services : l \in ToSet(s.requests[k])
    BY <1>7, <1>8, <1>15, <1>16, <1>17, GivesApart
<1>20. \A d \in Clients : \A y \in IdsOf[d] : b'.out[y] = b.out[y]
    <2> SUFFICES ASSUME NEW d \in Clients, NEW y \in IdsOf[d] PROVE b'.out[y] = b.out[y]
        OBVIOUS
    <2>1. y \notin b'.known
        BY WhoseIds DEF InStep, OwnKnown
    <2>2. y \in Ids
        BY WhoseIds DEF Procs
    <2> QED
        BY <1>6, <1>8, <2>1, <2>2 DEF Gives
<1>21. Proper(j)'
    BY <1>3, <1>5, <1>9, <1>11, <1>12, <1>20 DEF Proper, Awaited
<1>22. \A h \in Holders : \A l \in Under'[h] : Proper(l)'
    <2> SUFFICES ASSUME NEW h \in Holders, NEW l \in Under'[h], l # j PROVE Proper(l)'
        BY <1>21
    <2>1. PICK g \in Holders : l \in Under[g]
        BY <1>18, <1>19
    <2>2. Proper(l)
        BY <1>13, <2>1
    <2>3. b'.out[l.client] = b.out[l.client]
        BY <1>20, <2>2 DEF Proper, Job
    <2> QED
        BY <1>1, <2>2, <2>3, ProperTake
<1>23. j \in Asked(i)
    <2>1. toBroker[i] \in Seq(ToBroker)
        BY <1>2 DEF TypeOK
    <2>2. m \in ToSet(toBroker[i])
        BY <1>10, <2>1, TailOf DEF m
    <2> QED
        BY <1>4, <1>10, <2>2 DEF Asked
<1>24. \A l : Live(l)' => Live(l)
    <2> SUFFICES ASSUME NEW l, Live(l)' PROVE Live(l)
        OBVIOUS
    <2>1. ASSUME NEW k \in Services, l \in ToSet(s.requests[k]) PROVE Live(l)
        <3>1. l \in U[QueueOf(k)] /\ QueueOf(k) \in Holders
            BY <1>16, <2>1, HolderKinds
        <3>2. CASE l = j
            BY <1>23, <3>2 DEF Live
        <3>3. CASE l # j
            <4>1. l \in ToSet(b.requests[k])
                BY <1>18, <3>1, <3>3, UnderKinds
            <4> QED
                BY <4>1 DEF Live
        <3> QED
            BY <3>2, <3>3
    <2>2. ASSUME NEW x \in Ids, l \in Sent(x)' PROVE Live(l)
        <3>1. l \in Sent(x) \/ \E k \in Services : l \in ToSet(s.requests[k])
            BY <1>6, <1>19, <2>2 DEF Sent
        <3>2. CASE l \in Sent(x)
            BY <3>2 DEF Live
        <3> QED
            BY <2>1, <3>1, <3>2
    <2>3. ASSUME NEW x \in Ids, l \in AtWork(x)' \/ l \in Asked(x)' PROVE Live(l)
        <3>1. l \in AtWork(x) \/ l \in Asked(x)
            BY <1>12, <2>3
        <3> QED
            BY <3>1 DEF Live
    <2>4. (\E k \in Services : l \in ToSet(b'.requests[k]))
          \/ \E x \in Ids : l \in Sent(x)' \/ l \in AtWork(x)' \/ l \in Asked(x)'
        BY DEF Live
    <2>5. \A k \in Services : ToSet(b'.requests[k]) \subseteq ToSet(s.requests[k])
        BY <1>19
    <2> QED
        BY <2>1, <2>2, <2>3, <2>4, <2>5
<1> QED
    BY <1>1, <1>19, <1>20, <1>22, <1>24, TakeTracked

(* The reply goes to the address the request came from, and a request that *)
(* waited may go to the worker.                                            *)
LEMMA TakeReplyTracked ==
    ASSUME InStep, InStep', Tracked, NEW i \in Ids, TakeReply(i) PROVE Tracked'
<1> DEFINE r == Head(toBroker[i]).job
<1>1. /\ Take(i, "REPLY")
      /\ b' = IF i \in b.known
              THEN Waiting(Tell(b, r.client, [type |-> "RESULT", call |-> r.call]), i)
              ELSE Dismiss(Require(b, i), i)
    BY DEF TakeReply
<1>2. TypeOK /\ Sound(b, {}) /\ b \in BrokerState /\ Sockets
    BY DEF InStep, Sound
<1>3. r \in Replied(i) /\ \A c \in Clients : i \notin IdsOf[c]
    BY <1>1, TakeLess
<1>4. PICK j \in Replied(i) : j = r
    BY <1>3
<1> HIDE DEF r
<1>5. CASE i \notin b.known
    BY <1>1, <1>3, <1>5, DismissTracked
<1>6. CASE i \in b.known
    <2> DEFINE m == [type |-> "RESULT", call |-> j.call]
               u == Tell(b, j.client, m)
    <2>1. b' = Waiting(u, i)
        BY <1>1, <1>4, <1>6
    <2>2. /\ j \in Under[Hands(i)] /\ Hands(i) \in Holders
        BY UnderKinds, HolderKinds
    <2>3. Proper(j)
        BY <2>2 DEF Tracked, AllProper
    <2>4. /\ j.client \in Ids /\ j.call \in 1 .. MaxCalls /\ j.caller \in Clients
          /\ j.client \in IdsOf[j.caller] /\ b.out[j.client] = <<>> /\ toBroker[j.client] = <<>>
          /\ sock[j.caller] = j.client => Awaited(j.caller, j.call)
        BY <2>3 DEF Proper, Job
    <2>5. m \in FromBroker /\ m.type = "RESULT" /\ m.call = j.call
        BY <2>4 DEF FromBroker
    <2> HIDE DEF m
    <2>6. /\ Sound(u, {}) /\ u = [b EXCEPT !.out = u.out]
          /\ \A y \in Ids : u.out[y] = IF y = j.client /\ j.client \in Open THEN Append(b.out[y], m) ELSE b.out[y]
        BY <1>2, <2>4, <2>5, TellSound
    <2> HIDE DEF u
    <2>7. /\ u.known = b.known /\ u.idle = b.idle /\ u.requests = b.requests
          /\ u.out \in [Ids -> Seq(FromBroker)]
        BY <1>2, <2>6 DEF Sound, BrokerState
    <2>8. i \notin u.idle
        BY <2>7, HandsOne
    <2>9. Gives(u, b')
        BY <1>6, <2>1, <2>6, <2>7, <2>8, WaitingGives
    <2>10. \A x \in Ids : JobsOf(u.out[x], "REQUEST") \subseteq Sent(x)
        <3> SUFFICES ASSUME NEW x \in Ids PROVE JobsOf(u.out[x], "REQUEST") \subseteq JobsOf(b.out[x], "REQUEST")
            BY DEF Sent
        <3>1. b.out[x] \in Seq(FromBroker)
            BY <1>2 DEF BrokerState
        <3>2. JobsOf(Append(b.out[x], m), "REQUEST") = JobsOf(b.out[x], "REQUEST")
            BY <2>5, <3>1, NoRequestTold
        <3> QED
            BY <2>6, <3>2
    <2>11. /\ OneHolder'
           /\ \A h \in Holders : \A l \in Under'[h] : \E g \in Holders : l \in Under[g] /\ g # Hands(i)
           /\ \A l : Live(l)' => Live(l)
           /\ \A c \in Clients : \A y \in IdsOf[c] : b'.out[y] = u.out[y]
        BY <1>1, <2>7, <2>9, <2>10, TakeGives
    <2>12. \A h \in Holders : \A l \in Under'[h] : Proper(l)'
        <3> SUFFICES ASSUME NEW h \in Holders, NEW l \in Under'[h] PROVE Proper(l)'
            OBVIOUS
        <3>1. PICK g \in Holders : l \in Under[g] /\ g # Hands(i)
            BY <2>11
        <3>2. l.client # j.client
            BY <2>2, <3>1 DEF Tracked, OneHolder, Apart
        <3>3. Proper(l)
            BY <3>1 DEF Tracked, AllProper
        <3>4. l.client \in Ids /\ l.client \in IdsOf[l.caller] /\ l.caller \in Clients
            BY <3>3 DEF Proper, Job
        <3>5. b'.out[l.client] = b.out[l.client]
            BY <2>6, <2>11, <3>2, <3>4
        <3> QED
            BY <1>1, <3>3, <3>5, ProperTake
    <2>13. \A c \in Clients : \A y \in IdsOf[c] :
              \/ b'.out[y] = b.out[y]
              \/ toBroker'[y] = <<>> /\ \A k \in DOMAIN b'.out[y] : k = 1 /\ HeardBy(c, b'.out[y][k])
        <3> SUFFICES ASSUME NEW c \in Clients, NEW y \in IdsOf[c], b'.out[y] # b.out[y]
                     PROVE  toBroker'[y] = <<>> /\ \A k \in DOMAIN b'.out[y] : k = 1 /\ HeardBy(c, b'.out[y][k])
            OBVIOUS
        <3>1. y \in Ids
            BY WhoseIds DEF Procs
        <3>2. y = j.client /\ y \in Open /\ b'.out[y] = Append(<<>>, m)
            BY <2>4, <2>6, <2>11, <3>1
        <3>3. c = j.caller
            BY <2>4, <3>2, WhoseIds
        <3>4. Awaited(c, m.call)
            BY <1>2, <2>4, <2>5, <3>2, <3>3, OpenWhose
        <3>5. runs[c][m.call] > 0
            BY <2>5, <3>3 DEF Tracked, RepliesRun
        <3>6. Append(<<>>, m) = <<m>> /\ \A k \in DOMAIN <<m>> : k = 1 /\ <<m>>[k] = m
            OBVIOUS
        <3>7. toBroker'[y] = <<>>
            BY <1>1, <2>4, <3>2, TakeLess
        <3> QED
            BY <2>5, <3>2, <3>4, <3>5, <3>6, <3>7 DEF HeardBy
    <2> QED
        BY <1>1, <2>11, <2>12, <2>13, TakeTracked
<1> QED
    BY <1>5, <1>6

(* Messages that are lost, or are not.                                     *)
LEMMA LostSent ==
    ASSUME NEW x, b'.out[x] \in {<<>>, b.out[x]}
    PROVE  Sent(x)' \subseteq Sent(x)
<1>1. Sent(x) = JobsOf(b.out[x], "REQUEST") /\ Sent(x)' = JobsOf(b'.out[x], "REQUEST")
    BY DEF Sent
<1> QED
    BY <1>1, JobsOfEmpty

LEMMA LostSaid ==
    ASSUME NEW x, toBroker'[x] \in {<<>>, toBroker[x]}
    PROVE  Replied(x)' \subseteq Replied(x) /\ Asked(x)' \subseteq Asked(x)
<1>1. Replied(x) = JobsOf(toBroker[x], "REPLY") /\ Replied(x)' = JobsOf(toBroker'[x], "REPLY")
    BY DEF Replied
<1>2. Replied(x)' \subseteq Replied(x)
    BY <1>1, JobsOfEmpty
<1>3. ToSet(<<>>) = {}
    BY DEF ToSet
<1>4. ToSet(toBroker'[x]) \subseteq ToSet(toBroker[x])
    BY <1>3
<1> QED
    BY <1>2, <1>4 DEF Asked

LEMMA LostByWorkers ==
    ASSUME WorkersSay, \A w \in Workers : \A x \in IdsOf[w] : toBroker'[x] \in {<<>>, toBroker[x]}
    PROVE  WorkersSay'
<1> SUFFICES ASSUME NEW w \in Workers, NEW x \in IdsOf[w], NEW k \in DOMAIN toBroker'[x]
             PROVE  toBroker'[x][k].type \notin {"CALL", "ASK"}
    BY DEF WorkersSay
<1>1. DOMAIN <<>> = {}
    OBVIOUS
<1>2. toBroker'[x] = toBroker[x]
    BY <1>1
<1> QED
    BY <1>2 DEF WorkersSay

(* A step of the broker in which messages may be lost, and its requests.   *)
LEMMA LossTracked ==
    ASSUME InStep, InStep', Tracked, cli' = cli, runs' = runs, sock' = sock, job' = job,
           \A n \in Services : b'.requests[n] \in {<<>>, b.requests[n]},
           \A x \in Ids : b'.out[x] \in {<<>>, b.out[x]} /\ toBroker'[x] \in {<<>>, toBroker[x]}
    PROVE  Tracked'
<1>1. \A n \in Services : OnePer(b'.requests[n]) /\ ToSet(b'.requests[n]) \subseteq ToSet(b.requests[n])
    <2> SUFFICES ASSUME NEW n \in Services
                 PROVE  OnePer(b'.requests[n]) /\ ToSet(b'.requests[n]) \subseteq ToSet(b.requests[n])
        OBVIOUS
    <2>1. OnePer(<<>>) /\ ToSet(<<>>) = {}
        BY DEF OnePer, ToSet
    <2>2. OnePer(b.requests[n])
        BY DEF Tracked, OneHolder
    <2> QED
        BY <2>1, <2>2
<1>2. \A x \in Ids : /\ Sent(x)' \cup AtWork(x)' \subseteq Sent(x) \cup AtWork(x)
                     /\ Replied(x)' \subseteq Replied(x) /\ Asked(x)' \subseteq Asked(x)
    <2> SUFFICES ASSUME NEW x \in Ids
                 PROVE  /\ Sent(x)' \cup AtWork(x)' \subseteq Sent(x) \cup AtWork(x)
                        /\ Replied(x)' \subseteq Replied(x) /\ Asked(x)' \subseteq Asked(x)
        OBVIOUS
    <2>1. AtWork(x)' = AtWork(x)
        BY DEF AtWork
    <2>2. Sent(x)' \subseteq Sent(x)
        BY LostSent
    <2>3. Replied(x)' \subseteq Replied(x) /\ Asked(x)' \subseteq Asked(x)
        BY LostSaid
    <2> QED
        BY <2>1, <2>2, <2>3
<1>3. \A p \in Procs : \A x \in IdsOf[p] : b'.out[x] \in {<<>>, b.out[x]} /\ toBroker'[x] \in {<<>>, toBroker[x]}
    BY WhoseIds
<1>4. WorkersSay'
    BY <1>3, LostByWorkers DEF Tracked, Procs
<1>5. TypeOK /\ TypeOK'
    BY DEF InStep
<1> QED
    BY <1>1, <1>2, <1>3, <1>4, <1>5, ShrinkStays DEF Procs

LEMMA BeatTracked == ASSUME InStep, InStep', Tracked, Beat PROVE Tracked'
<1>1. b \in BrokerState
    BY DEF InStep, TypeOK
<1>2. /\ b' = Purge([b EXCEPT !.age = [i \in Ids |-> IF i \in b.idle THEN @[i] + 1 ELSE @[i]]])
      /\ toBroker' = toBroker /\ sock' = sock /\ cli' = cli /\ job' = job /\ runs' = runs
    BY DEF Beat, workerVars
<1>3. b'.requests = b.requests /\ b'.out = b.out
    BY <1>1, <1>2 DEF Purge, Delete, BrokerState
<1> QED
    BY <1>2, <1>3, LossTracked

LEMMA CrashBrokerTracked == ASSUME InStep, InStep', Tracked, CrashBroker PROVE Tracked'
<1> DEFINE g == [n \in Services |-> 0]
<1>1. PICK lost \in SUBSET {i \in Ids : toBroker[i] # <<>>}, gone \in SUBSET {i \in Ids : b.out[i] # <<>>} :
         /\ toBroker' = [i \in Ids |-> IF i \in lost \/ i \notin Open THEN <<>> ELSE toBroker[i]]
         /\ b' = [Blank(g) EXCEPT !.out = [i \in Ids |-> IF i \in gone THEN <<>> ELSE b.out[i]]]
    BY DEF CrashBroker
<1>2. sock' = sock /\ cli' = cli /\ job' = job /\ runs' = runs
    BY DEF CrashBroker, workerVars
<1> HIDE DEF g
<1>3. /\ b'.requests = [n \in Services |-> <<>>]
      /\ b'.out = [i \in Ids |-> IF i \in gone THEN <<>> ELSE b.out[i]]
    BY <1>1 DEF Blank
<1>4. \A n \in Services : b'.requests[n] \in {<<>>, b.requests[n]}
    BY <1>3
<1>5. \A x \in Ids : b'.out[x] \in {<<>>, b.out[x]} /\ toBroker'[x] \in {<<>>, toBroker[x]}
    BY <1>1, <1>3
<1> QED
    BY <1>2, <1>4, <1>5, LossTracked

LEMMA StartBrokerTracked == ASSUME InStep, InStep', Tracked, StartBroker PROVE Tracked'
<1>1. b \in BrokerState
    BY DEF InStep, TypeOK
<1>2. PICK g \in [Services -> Garbage] : b' = [b EXCEPT !.workers = g]
    BY DEF StartBroker
<1>3. toBroker' = toBroker /\ sock' = sock /\ cli' = cli /\ job' = job /\ runs' = runs
    BY DEF StartBroker, workerVars
<1>4. b'.requests = b.requests /\ b'.out = b.out
    BY <1>1, <1>2 DEF BrokerState
<1> QED
    BY <1>3, <1>4, LossTracked

LEMMA BrokerTracked == ASSUME InStep, InStep', Tracked, Broker PROVE Tracked'
<1>1. ASSUME NEW i \in Ids, TakeFrom(i) PROVE Tracked'
    BY <1>1, TakeReadyTracked, TakeReplyTracked, TakeHeartbeatTracked, TakeCallTracked, TakeAskTracked
       DEF TakeFrom
<1> QED
    BY <1>1, BeatTracked, CrashBrokerTracked, StartBrokerTracked DEF Broker

-----------------------------------------------------------------------------
(* The workers' steps. *)

(* A worker takes a new socket, or ends.                                   *)
LEMMA WorkerMoves ==
    ASSUME InStep, InStep', Tracked, NEW w \in Workers, NEW new, Moved(w, new),
           new # Closed => \A k \in DOMAIN toBroker'[new] : toBroker'[new][k].type \notin {"CALL", "ASK"},
           cli' = cli, runs' = runs
    PROVE  Tracked'
<1>1. /\ TypeOK /\ TypeOK' /\ b \in BrokerState /\ sock \in [Procs -> Ids \cup {Closed}]
      /\ w \in Procs /\ w \notin Clients
    BY MajordomoAssumption DEF InStep, TypeOK, Procs
<1>2. /\ sock' = [sock EXCEPT ![w] = new] /\ toBroker' \in [Ids -> Seq(ToBroker)]
      /\ new # Closed => new \in IdsOf[w] /\ new \in Ids
      /\ \A x \in Ids : x # new => toBroker'[x] \in {<<>>, toBroker[x]}
      /\ new # Closed => Count(toBroker'[new], "REPLY") = 0
      /\ b' = [b EXCEPT !.out = b'.out]
      /\ \A x \in Ids : b'.out[x] \in {<<>>, b.out[x]}
      /\ job' = [v \in Workers |-> IF v = w THEN NoJob ELSE job[v]]
    BY <1>1, WhoseIds DEF Moved, Free
<1>3. Closed \notin Ids
    BY MajordomoAssumption DEF Ids
<1>4. \A p \in Procs : p # w => sock'[p] = sock[p]
    BY <1>1, <1>2
<1>5. b'.requests = b.requests
    BY <1>1, <1>2 DEF BrokerState
<1>6. \A n \in Services : OnePer(b'.requests[n]) /\ ToSet(b'.requests[n]) \subseteq ToSet(b.requests[n])
    BY <1>5 DEF Tracked, OneHolder
<1>7. ASSUME NEW x \in Ids
      PROVE  /\ Sent(x)' \cup AtWork(x)' \subseteq Sent(x) \cup AtWork(x)
             /\ Replied(x)' \subseteq Replied(x) /\ Asked(x)' \subseteq Asked(x)
    <2>1. Sent(x)' \subseteq Sent(x)
        BY <1>2, LostSent
    <2>2. AtWork(x)' \subseteq AtWork(x)
        <3>1. AtWork(x)' = {job'[v] : v \in {y \in Workers : sock'[y] = x /\ job'[y] # NoJob}}
            BY DEF AtWork
        <3>2. \A v \in Workers : job'[v] # NoJob => job'[v] = job[v] /\ sock'[v] = sock[v]
            BY <1>2, <1>4 DEF Procs
        <3> QED
            BY <3>1, <3>2 DEF AtWork
    <2>3. CASE x # new
        <3>1. toBroker'[x] \in {<<>>, toBroker[x]}
            BY <1>2, <2>3
        <3>2. Replied(x)' \subseteq Replied(x) /\ Asked(x)' \subseteq Asked(x)
            BY <3>1, LostSaid
        <3> QED
            BY <2>1, <2>2, <3>2
    <2>4. CASE x = new
        <3>1. toBroker'[x] \in Seq(ToBroker) /\ Count(toBroker'[x], "REPLY") = 0 /\ new # Closed
            BY <1>2, <1>3, <2>4
        <3>2. \A k \in DOMAIN toBroker'[x] : toBroker'[x][k].type # "REPLY"
            BY <3>1, CountNat
        <3>3. JobsOf(toBroker'[x], "REPLY") = {}
            BY <3>2, JobsOfNone
        <3>4. Replied(x)' = {}
            BY <3>3 DEF Replied
        <3>5. \A m \in ToSet(toBroker'[x]) : m.type # "CALL"
            BY <2>4, <3>1 DEF ToSet
        <3>6. Asked(x)' = {}
            BY <3>5 DEF Asked
        <3> QED
            BY <2>1, <2>2, <3>4, <3>6
    <2> QED
        BY <2>3, <2>4
<1>8. \A c \in Clients : \A y \in IdsOf[c] :
         toBroker'[y] \in {<<>>, toBroker[y]} /\ b'.out[y] \in {<<>>, b.out[y]}
    <2> SUFFICES ASSUME NEW c \in Clients, NEW y \in IdsOf[c]
                 PROVE  toBroker'[y] \in {<<>>, toBroker[y]} /\ b'.out[y] \in {<<>>, b.out[y]}
        OBVIOUS
    <2>1. y \in Ids /\ y # new
        BY <1>2, WhoseIds DEF Procs
    <2> QED
        BY <1>2, <2>1
<1>9. WorkersSay'
    <2> SUFFICES ASSUME NEW v \in Workers, NEW x \in IdsOf[v], NEW k \in DOMAIN toBroker'[x]
                 PROVE  toBroker'[x][k].type \notin {"CALL", "ASK"}
        BY DEF WorkersSay
    <2>1. x \in Ids
        BY WhoseIds DEF Procs
    <2>2. CASE x = new
        BY <1>3, <2>1, <2>2
    <2>3. CASE x # new
        <3>1. toBroker'[x] = toBroker[x]
            <4>1. DOMAIN <<>> = {}
                OBVIOUS
            <4> QED
                BY <1>2, <2>1, <2>3, <4>1
        <3> QED
            BY <3>1 DEF Tracked, WorkersSay
    <2> QED
        BY <2>2, <2>3
<1>10. \A c \in Clients : sock'[c] = sock[c]
    BY <1>1, <1>4 DEF Procs
<1> QED
    BY <1>1, <1>6, <1>7, <1>8, <1>9, <1>10, ShrinkStays

LEMMA HearRequestTracked ==
    ASSUME InStep, InStep', Tracked, NEW w \in Workers, HearRequest(w) PROVE Tracked'
<1> DEFINE i == sock[w]
           q == b.out[i]
<1>1. /\ TypeOK /\ TypeOK' /\ b \in BrokerState /\ Sockets /\ w \in Procs
    BY DEF InStep, TypeOK, Procs
<1>2. /\ i # Closed /\ q # <<>> /\ Head(q).type = "REQUEST"
      /\ job' = [job EXCEPT ![w] = Head(q).job]
      /\ b' = [b EXCEPT !.out[i] = Tail(@)]
      /\ sock' = sock /\ toBroker' = toBroker /\ cli' = cli /\ runs' = runs
    BY DEF HearRequest, Hear
<1>3. i \in IdsOf[w] /\ i \in Ids
    BY <1>1, <1>2, OwnSocket
<1>4. q \in Seq(FromBroker) /\ job \in [Workers -> Job \cup {NoJob}]
    BY <1>1, <1>3 DEF TypeOK, BrokerState
<1> HIDE DEF i
<1>5. b'.requests = b.requests /\ \A x \in Ids : b'.out[x] = IF x = i THEN Tail(q) ELSE b.out[x]
    BY <1>1, <1>2, <1>3 DEF BrokerState
<1>6. JobsOf(Tail(q), "REQUEST") \subseteq JobsOf(q, "REQUEST") /\ Head(q).job \in JobsOf(q, "REQUEST")
    BY <1>2, <1>4, JobsOfTail
<1> HIDE DEF q
<1>7. ASSUME NEW x \in Ids
      PROVE  /\ Sent(x)' \cup AtWork(x)' \subseteq Sent(x) \cup AtWork(x)
             /\ Replied(x)' = Replied(x) /\ Asked(x)' = Asked(x)
    <2>1. Sent(x)' \subseteq Sent(x)
        BY <1>5, <1>6 DEF Sent, q
    <2>2. AtWork(x)' \subseteq Sent(x) \cup AtWork(x)
        <3>1. AtWork(x)' = {job'[v] : v \in {y \in Workers : sock[y] = x /\ job'[y] # NoJob}}
            BY <1>2 DEF AtWork
        <3>2. \A v \in Workers : job'[v] = IF v = w THEN Head(q).job ELSE job[v]
            BY <1>2, <1>4
        <3>3. x = i => Head(q).job \in Sent(x)
            BY <1>6 DEF Sent, q
        <3>4. sock[w] = i
            BY DEF i
        <3> QED
            BY <3>1, <3>2, <3>3, <3>4 DEF AtWork
    <2>3. Replied(x)' = Replied(x) /\ Asked(x)' = Asked(x)
        BY <1>2 DEF Replied, Asked
    <2> QED
        BY <2>1, <2>2, <2>3
<1>8. \A n \in Services : OnePer(b'.requests[n]) /\ ToSet(b'.requests[n]) \subseteq ToSet(b.requests[n])
    BY <1>5 DEF Tracked, OneHolder
<1>9. \A c \in Clients : \A y \in IdsOf[c] :
         toBroker'[y] \in {<<>>, toBroker[y]} /\ b'.out[y] \in {<<>>, b.out[y]}
    <2> SUFFICES ASSUME NEW c \in Clients, NEW y \in IdsOf[c]
                 PROVE  toBroker'[y] = toBroker[y] /\ b'.out[y] = b.out[y]
        OBVIOUS
    <2>1. y \in Ids /\ y # i
        BY <1>3, WhoseIds DEF Procs
    <2> QED
        BY <1>2, <1>5, <2>1
<1>10. WorkersSay'
    BY <1>2 DEF Tracked, WorkersSay
<1> QED
    BY <1>1, <1>2, <1>7, <1>8, <1>9, <1>10, ShrinkStays

(* One more message on its way to the broker, which is no request.         *)
LEMMA SaidMore ==
    ASSUME TypeOK, NEW i \in Ids, NEW m \in ToBroker, m.type # "CALL",
           toBroker' = [toBroker EXCEPT ![i] = Append(@, m)]
    PROVE  /\ \A x \in Ids \ {i} : toBroker'[x] = toBroker[x]
           /\ \A x \in Ids : Asked(x)' = Asked(x)
           /\ \A x \in Ids :
                 Replied(x)' = Replied(x) \cup IF x = i /\ m.type = "REPLY" THEN {m.job} ELSE {}
           /\ m.type # "ASK" /\ WorkersSay => WorkersSay'
<1>1. toBroker \in [Ids -> Seq(ToBroker)] /\ toBroker[i] \in Seq(ToBroker)
    BY DEF TypeOK
<1>2. \A x \in Ids : toBroker'[x] = IF x = i THEN Append(toBroker[i], m) ELSE toBroker[x]
    BY <1>1
<1>3. ToSet(Append(toBroker[i], m)) = ToSet(toBroker[i]) \cup {m}
    BY <1>1, Appended
<1>4. JobsOf(Append(toBroker[i], m), "REPLY") = JobsOf(toBroker[i], "REPLY") \cup IF m.type = "REPLY" THEN {m.job} ELSE {}
    BY <1>1, JobsOfAppend
<1>5. ASSUME NEW x \in Ids PROVE Asked(x)' = Asked(x)
    <2>1. ToSet(toBroker'[x]) = ToSet(toBroker[x]) \/ ToSet(toBroker'[x]) = ToSet(toBroker[x]) \cup {m}
        BY <1>2, <1>3
    <2>2. {y \in ToSet(toBroker'[x]) : y.type = "CALL"} = {y \in ToSet(toBroker[x]) : y.type = "CALL"}
        BY <2>1
    <2> QED
        BY <2>2 DEF Asked
<1>6. \A x \in Ids : Replied(x)' = Replied(x) \cup IF x = i /\ m.type = "REPLY" THEN {m.job} ELSE {}
    <2> SUFFICES ASSUME NEW x \in Ids
                 PROVE  JobsOf(toBroker'[x], "REPLY") =
                           JobsOf(toBroker[x], "REPLY") \cup IF x = i /\ m.type = "REPLY" THEN {m.job} ELSE {}
        BY DEF Replied
    <2> QED
        BY <1>2, <1>4
<1>7. ASSUME m.type # "ASK", WorkersSay PROVE WorkersSay'
    <2> SUFFICES ASSUME NEW w \in Workers, NEW x \in IdsOf[w], NEW k \in DOMAIN toBroker'[x]
                 PROVE  toBroker'[x][k].type \notin {"CALL", "ASK"}
        BY DEF WorkersSay
    <2>1. x \in Ids
        BY WhoseIds DEF Procs
    <2>2. toBroker'[x][k] \in ToSet(toBroker'[x])
        BY DEF ToSet
    <2>3. toBroker'[x][k] \in ToSet(toBroker[x]) \cup {m}
        BY <1>2, <1>3, <2>1, <2>2
    <2>4. \A y \in ToSet(toBroker[x]) : y.type \notin {"CALL", "ASK"}
        BY <1>7 DEF WorkersSay, ToSet
    <2> QED
        BY <1>7, <2>3, <2>4
<1> QED
    BY <1>2, <1>5, <1>6, <1>7

LEMMA PulseTracked == ASSUME InStep, InStep', Tracked, NEW w \in Workers, Pulse(w) PROVE Tracked'
<1> DEFINE i == sock[w]
           m == [type |-> "HEARTBEAT"]
<1>1. TypeOK /\ TypeOK' /\ Sockets /\ w \in Procs
    BY DEF InStep, Procs
<1>2. /\ i # Closed /\ toBroker' = [toBroker EXCEPT ![i] = Append(@, m)]
      /\ b' = b /\ sock' = sock /\ job' = job /\ cli' = cli /\ runs' = runs
    BY DEF Pulse, SendToBroker, brokerVars
<1>3. i \in IdsOf[w] /\ i \in Ids
    BY <1>1, <1>2, OwnSocket
<1>4. m \in ToBroker /\ m.type # "CALL" /\ m.type # "REPLY" /\ m.type # "ASK"
    BY DEF ToBroker
<1> HIDE DEF i, m
<1>5. /\ \A x \in Ids \ {i} : toBroker'[x] = toBroker[x]
      /\ \A x \in Ids : Asked(x)' = Asked(x) /\ Replied(x)' = Replied(x)
      /\ WorkersSay'
    BY <1>1, <1>2, <1>3, <1>4, SaidMore DEF Tracked
<1>6. \A x \in Ids : Sent(x)' = Sent(x) /\ AtWork(x)' = AtWork(x)
    BY <1>2 DEF Sent, AtWork
<1>7. \A n \in Services : OnePer(b'.requests[n]) /\ ToSet(b'.requests[n]) \subseteq ToSet(b.requests[n])
    BY <1>2 DEF Tracked, OneHolder
<1>8. \A c \in Clients : \A y \in IdsOf[c] : toBroker'[y] = toBroker[y]
    BY <1>3, <1>5, WhoseIds DEF Procs
<1> QED
    BY <1>1, <1>2, <1>5, <1>6, <1>7, <1>8, ShrinkStays

LEMMA SendsBounds ==
    ASSUME TypeOK, NEW c \in Clients, NEW k \in 1 .. MaxCalls
    PROVE  /\ Sends(c, k) \in Int /\ Sends(c, k) <= Retries
           /\ k > cli[c].made => Sends(c, k) = 0
<1>1. cli[c] \in Session
    BY DEF TypeOK
<1>2. cli[c].tries \in 0 .. Retries /\ Retries \in Nat
    BY <1>1, MajordomoAssumption DEF Session
<1> QED
    BY <1>2 DEF Sends, Awaited

(* The work on a request ends.                                             *)
LEMMA FinishTracked ==
    ASSUME InStep, InStep', Tracked, NEW w \in Workers, Finish(w)
    PROVE  /\ Tracked'
           /\ job[w] \in Job
           /\ job[w].call <= cli[job[w].caller].made
           /\ runs[job[w].caller][job[w].call] < Retries
<1>1. /\ TypeOK /\ TypeOK' /\ Sockets /\ Sessions /\ w \in Procs
      /\ job \in [Workers -> Job \cup {NoJob}] /\ runs \in [Clients -> [1 .. MaxCalls -> Nat]]
    BY DEF InStep, TypeOK, Procs
<1>2. PICK j \in Job : j = job[w] /\ j # NoJob
    BY <1>1 DEF Finish
<1>3. PICK i \in Ids : i = sock[w] /\ i \in IdsOf[w]
    BY <1>1, <1>2, OwnSocket DEF Sessions
<1> DEFINE m == [type |-> "REPLY", job |-> j]
           c == j.caller
           k == j.call
<1>4. /\ toBroker' = [toBroker EXCEPT ![i] = Append(@, m)]
      /\ job' = [job EXCEPT ![w] = NoJob]
      /\ runs' = [runs EXCEPT ![c][k] = @ + 1]
      /\ b' = b /\ sock' = sock /\ cli' = cli
    BY <1>2, <1>3 DEF Finish, SendToBroker, brokerVars
<1>5. m \in ToBroker /\ m.type = "REPLY" /\ m.job = j
    BY DEF ToBroker
<1> HIDE DEF m
<1>6. /\ \A x \in Ids \ {i} : toBroker'[x] = toBroker[x]
      /\ \A x \in Ids : Asked(x)' = Asked(x)
      /\ \A x \in Ids : Replied(x)' = Replied(x) \cup IF x = i THEN {j} ELSE {}
      /\ WorkersSay'
    BY <1>1, <1>4, <1>5, SaidMore DEF Tracked
<1>7. \A v \in Workers : sock[v] = i => v = w
    BY <1>1, <1>3, WhoseIds DEF Sockets, Procs
<1>8. j \in AtWork(i)
    BY <1>2, <1>3 DEF AtWork
<1>9. AtWork(i)' = {} /\ \A x \in Ids : AtWork(x)' \subseteq AtWork(x)
    <2>1. \A v \in Workers : job'[v] = IF v = w THEN NoJob ELSE job[v]
        BY <1>1, <1>4
    <2>2. \A x : AtWork(x)' = {job'[v] : v \in {y \in Workers : sock[y] = x /\ job'[y] # NoJob}}
        BY <1>4 DEF AtWork
    <2> QED
        BY <1>7, <2>1, <2>2 DEF AtWork
<1>10. Sent(i) = {} /\ Replied(i) = {} /\ \A x \in Ids : Sent(x)' = Sent(x)
    BY <1>4, <1>8, HandsOne DEF Sent
<1>11. j \in Under[Hands(i)] /\ Hands(i) \in Holders
    BY <1>8, UnderKinds, HolderKinds
<1>12. Proper(j) /\ c \in Clients /\ k \in 1 .. MaxCalls /\ j.client \in IdsOf[c] /\ j.client \in Ids
    BY <1>11 DEF Tracked, AllProper, Proper, Job
<1>13. \A h \in Holders : Under'[h] \subseteq Under[h]
    <2>1. \A n \in Services : Under'[QueueOf(n)] = Under[QueueOf(n)]
        BY <1>4, UnderKinds
    <2>2. \A x \in Ids : Under'[Hands(x)] \subseteq Under[Hands(x)]
        <3> SUFFICES ASSUME NEW x \in Ids
                     PROVE  Sent(x)' \cup AtWork(x)' \cup Replied(x)' \subseteq Sent(x) \cup AtWork(x) \cup Replied(x)
            BY UnderKinds
        <3> QED
            BY <1>6, <1>8, <1>9, <1>10
    <2> QED
        BY <2>1, <2>2, HolderKinds
<1>14. OneHolder'
    <2> DEFINE V == Under'
    <2>1. Apart(V)
        <3>1. Apart(Under) /\ \A h \in Holders : V[h] \subseteq Under[h]
            BY <1>13 DEF Tracked, OneHolder
        <3> HIDE DEF V
        <3> QED
            BY <3>1, ApartLess
    <2> QED
        BY <1>4, <2>1 DEF Tracked, OneHolder
<1>15. \A d \in Clients : \A y \in IdsOf[d] : toBroker'[y] = toBroker[y]
    BY <1>3, <1>6, WhoseIds DEF Procs
<1>16. AllProper'
    <2> SUFFICES ASSUME NEW h \in Holders, NEW l \in Under'[h] PROVE Proper(l)'
        BY DEF AllProper
    <2>1. Proper(l)
        BY <1>13 DEF Tracked, AllProper
    <2> QED
        BY <1>4, <1>15, <2>1 DEF Proper, Awaited, Job
<1>17. /\ runs'[c][k] = runs[c][k] + 1 /\ runs[c][k] \in Nat
       /\ \A d \in Clients : \A n \in 1 .. MaxCalls :
             /\ runs[d][n] \in Nat /\ runs'[d][n] >= runs[d][n]
             /\ ~(d = c /\ n = k) => runs'[d][n] = runs[d][n]
    <2>1. \A d \in Clients : \A n \in 1 .. MaxCalls : runs[d][n] \in Nat
        BY <1>1
    <2>2. \A d \in Clients : \A n \in 1 .. MaxCalls :
             runs'[d][n] = IF d = c /\ n = k THEN runs[d][n] + 1 ELSE runs[d][n]
        BY <1>1, <1>4, <1>12
    <2> QED
        BY <1>12, <2>1, <2>2
<1>18. ClientsSay'
    <2> SUFFICES ASSUME NEW d \in Clients, NEW y \in IdsOf[d], NEW n \in DOMAIN toBroker'[y]
                 PROVE  (n = 1 /\ b.out[y] = <<>> /\ Said(d, y, toBroker[y][n]))'
        BY DEF ClientsSay
    <2>1. toBroker'[y] = toBroker[y]
        BY <1>15
    <2>2. n = 1 /\ b.out[y] = <<>> /\ Said(d, y, toBroker[y][n])
        BY <2>1 DEF Tracked, ClientsSay
    <2> QED
        BY <1>4, <2>1, <2>2 DEF Said, Awaited, Asking
<1>19. ClientsHear'
    <2> SUFFICES ASSUME NEW d \in Clients, NEW y \in IdsOf[d], NEW n \in DOMAIN b'.out[y]
                 PROVE  (n = 1 /\ HeardBy(d, b.out[y][n]))'
        BY DEF ClientsHear
    <2>1. n = 1 /\ HeardBy(d, b.out[y][n])
        BY <1>4 DEF Tracked, ClientsHear
    <2>2. y \in Ids /\ b.out[y] \in Seq(FromBroker) /\ n \in DOMAIN b.out[y]
        BY <1>1, <1>4, WhoseIds DEF TypeOK, BrokerState, Procs
    <2>3. b.out[y][n].type = "RESULT" => b.out[y][n].call \in 1 .. MaxCalls
        <3>1. b.out[y][n] \in FromBroker
            BY <2>2
        <3> QED
            BY <3>1 DEF FromBroker
    <2> QED
        BY <1>4, <1>17, <2>1, <2>3 DEF HeardBy, Awaited, Asking
<1>20. RepliesRun'
    <2> SUFFICES ASSUME NEW x \in Ids, NEW l \in Replied(x)' PROVE runs'[l.caller][l.call] > 0
        BY DEF RepliesRun
    <2>1. CASE l = j
        BY <1>17, <2>1
    <2>2. CASE l # j
        <3>1. l \in Replied(x)
            BY <1>6, <2>2
        <3>2. runs[l.caller][l.call] > 0
            BY <3>1 DEF Tracked, RepliesRun
        <3>3. l \in Under[Hands(x)] /\ Hands(x) \in Holders
            BY <3>1, UnderKinds, HolderKinds
        <3>4. l \in Job
            BY <3>3 DEF Tracked, AllProper, Proper
        <3> QED
            BY <1>17, <3>2, <3>4 DEF Job
    <2> QED
        BY <2>1, <2>2
<1>21. \A l : Live(l)' => Live(l)
    <2> SUFFICES ASSUME NEW l, Live(l)' PROVE Live(l)
        OBVIOUS
    <2>1. (\E n \in Services : l \in ToSet(b.requests[n]))
          \/ \E x \in Ids : l \in Sent(x)' \/ l \in AtWork(x)' \/ l \in Asked(x)'
        BY <1>4 DEF Live
    <2>2. (\E n \in Services : l \in ToSet(b.requests[n]))
          \/ \E x \in Ids : l \in Sent(x) \/ l \in AtWork(x) \/ l \in Asked(x)
        BY <1>6, <1>9, <1>10, <2>1
    <2> QED
        BY <2>2 DEF Live
<1>22. Live(j) /\ ~Live(j)'
    <2>1. Live(j)
        BY <1>8 DEF Live
    <2>2. \A g \in Holders : g # Hands(i) => j \notin Under[g]
        BY <1>11 DEF Tracked, OneHolder, Apart
    <2>3. \A n \in Services : j \notin ToSet(b.requests[n])
        BY <2>2, HolderKinds, UnderKinds
    <2>4. \A x \in Ids : j \notin Sent(x)' /\ j \notin AtWork(x)'
        <3> SUFFICES ASSUME NEW x \in Ids PROVE j \notin Sent(x)' /\ j \notin AtWork(x)'
            OBVIOUS
        <3>1. CASE x = i
            BY <1>9, <1>10, <3>1
        <3>2. CASE x # i
            <4>1. j \notin Under[Hands(x)]
                BY <2>2, <3>2, HolderKinds
            <4> QED
                BY <1>9, <1>10, <4>1, UnderKinds
        <3> QED
            BY <3>1, <3>2
    <2>5. \A x \in Ids : j \notin Asked(x)'
        <3> SUFFICES ASSUME NEW x \in Ids, j \in Asked(x) PROVE FALSE
            BY <1>6
        <3>1. j.client = x /\ ToSet(toBroker[x]) # {}
            BY DEF Asked
        <3>2. toBroker[x] = <<>>
            BY <1>12, <3>1 DEF Proper
        <3>3. ToSet(<<>>) = {}
            BY DEF ToSet
        <3> QED
            BY <3>1, <3>2, <3>3
    <2>6. ~Live(j)'
        BY <1>4, <2>3, <2>4, <2>5 DEF Live
    <2> QED
        BY <2>1, <2>6
<1>23. j.client \in LiveAt(c, k) /\ j.client \notin LiveAt(c, k)'
    <2>1. [client |-> j.client, caller |-> c, call |-> k] = j
        BY DEF Job
    <2> QED
        BY <1>12, <1>22, <2>1 DEF LiveAt
<1>24. Cardinality(LiveAt(c, k)') <= Cardinality(LiveAt(c, k)) - 1 /\ Cardinality(LiveAt(c, k)) >= 1
    <2> DEFINE X == LiveAt(c, k)
               Y == LiveAt(c, k)'
               x == j.client
    <2>1. IsFiniteSet(X) /\ IsFiniteSet(Y) /\ Cardinality(X) \in Nat /\ Cardinality(Y) \in Nat
        BY <1>12, LiveFinite
    <2>2. Y \subseteq X /\ x \in X /\ x \notin Y
        BY <1>21, <1>23 DEF LiveAt
    <2> HIDE DEF X, Y, x
    <2>3. IsFiniteSet(X \ {x}) /\ Cardinality(X \ {x}) = Cardinality(X) - 1
        BY <2>1, <2>2, FS_RemoveElement
    <2>4. Y \subseteq X \ {x}
        BY <2>2
    <2>5. Cardinality(Y) <= Cardinality(X \ {x})
        BY <2>3, <2>4, FS_Subset
    <2>6. Cardinality(Y) <= Cardinality(X) - 1 /\ Cardinality(X) >= 1
        BY <2>1, <2>3, <2>5
    <2> QED
        BY <2>6 DEF X, Y
<1>25. ASSUME NEW d \in Clients, NEW n \in 1 .. MaxCalls
       PROVE  /\ Sends(d, n)' = Sends(d, n) /\ Sends(d, n) \in Int /\ Sends(d, n) <= Retries
              /\ n > cli[d].made => Sends(d, n) = 0
              /\ Cardinality(LiveAt(d, n)) + runs[d][n] <= Sends(d, n)
    <2>1. Sends(d, n)' = Sends(d, n)
        BY <1>4 DEF Sends, Awaited
    <2>2. Sends(d, n) \in Int /\ Sends(d, n) <= Retries /\ (n > cli[d].made => Sends(d, n) = 0)
        BY <1>1, SendsBounds
    <2>3. Cardinality(LiveAt(d, n)) + runs[d][n] <= Sends(d, n)
        BY DEF Tracked, Budget
    <2> QED
        BY <2>1, <2>2, <2>3
<1>26. Budget'
    <2> SUFFICES ASSUME NEW d \in Clients, NEW n \in 1 .. MaxCalls
                 PROVE  (Cardinality(LiveAt(d, n)) + runs[d][n] <= Sends(d, n))'
        BY DEF Budget
    <2>1. /\ Cardinality(LiveAt(d, n)) \in Nat /\ Cardinality(LiveAt(d, n)') \in Nat
          /\ runs[d][n] \in Nat
        BY <1>17, LiveFinite
    <2>2. CASE d = c /\ n = k
        BY <1>17, <1>24, <1>25, <2>1, <2>2
    <2>3. CASE ~(d = c /\ n = k)
        <3>1. Cardinality(LiveAt(d, n)') <= Cardinality(LiveAt(d, n))
            BY <1>21, LiveLess
        <3> QED
            BY <1>17, <1>25, <2>1, <2>3, <3>1
    <2> QED
        BY <2>2, <2>3
<1>27. GotLast'
    BY <1>4 DEF Tracked, GotLast, HasLast
<1>28. Tracked'
    BY <1>6, <1>14, <1>16, <1>18, <1>19, <1>20, <1>26, <1>27 DEF Tracked
<1>29. k <= cli[c].made /\ runs[c][k] < Retries
    <2>1. Sends(c, k) \in Int /\ Sends(c, k) <= Retries /\ Cardinality(LiveAt(c, k)) \in Nat
        BY <1>12, <1>25, LiveFinite
    <2>2. 1 + runs[c][k] <= Sends(c, k)
        BY <1>12, <1>17, <1>24, <1>25, <2>1
    <2>3. cli[c] \in Session
        BY <1>1, <1>12 DEF TypeOK
    <2>4. cli[c].made \in Nat /\ k \in Nat /\ Retries \in Nat
        BY <1>12, <2>3, MajordomoAssumption DEF Session
    <2>5. ~(k > cli[c].made)
        BY <1>12, <1>17, <1>25, <2>1, <2>2
    <2> QED
        BY <1>12, <1>17, <2>1, <2>2, <2>4, <2>5
<1> QED
    BY <1>2, <1>28, <1>29

LEMMA WorkerConnects ==
    ASSUME InStep, InStep', Tracked, NEW w \in Workers, Connect(w, Ready(w)),
           cli' = cli, runs' = runs, job' = job, job[w] = NoJob
    PROVE  Tracked'
<1>1. w \in Procs /\ Sessions
    BY DEF InStep, Procs
<1> DEFINE m == [type |-> "READY", service |-> ServiceOf[w]]
           first == Ready(w)
<1>2. m \in ToBroker /\ m.type = "READY" /\ m.service = ServiceOf[w]
    BY MajordomoAssumption DEF ToBroker
<1>3. first = <<m>>
    BY DEF Ready
<1> HIDE DEF m
<1>4. /\ first \in Seq(ToBroker) /\ Count(first, "REPLY") = 0
      /\ \A k \in DOMAIN first : k = 1 /\ first[k] = m
    BY <1>2, <1>3, OneFirst
<1>5. Connect(w, first)
    OBVIOUS
<1> HIDE DEF first
<1>6. \A k \in DOMAIN first : first[k].type = "READY" =>
          k = 1 /\ w \in Workers /\ first[k].service = ServiceOf[w]
    BY <1>2, <1>4
<1>7. \A c \in Clients : cli'[c].tries > 0 =>
          (c = w \/ cli[c].tries > 0) /\ (cli'[c].asks \/ cli'[c].made > 0)
    BY <1>1 DEF Sessions
<1>8. PICK new \in Free(w) : Moved(w, new) /\ new \in Ids /\ toBroker'[new] = first
    BY <1>1, <1>4, <1>5, <1>6, <1>7, ConnectMoves
<1>9. \A k \in DOMAIN toBroker'[new] : toBroker'[new][k].type \notin {"CALL", "ASK"}
    BY <1>2, <1>4, <1>8
<1> QED
    BY <1>8, <1>9, WorkerMoves

LEMMA WorkerTracked ==
    ASSUME InStep, InStep', Tracked, NEW w \in Workers, Worker(w) PROVE Tracked'
<1>1. /\ TypeOK /\ Sessions /\ w \in Procs /\ w \notin Clients
    BY MajordomoAssumption DEF InStep, Procs
<1>2. CASE StartWorker(w)
    <2>1. job[w] = NoJob
        BY <1>1, <1>2 DEF StartWorker, Sessions
    <2> QED
        BY <1>2, <2>1, WorkerConnects DEF StartWorker
<1>3. CASE HearDisconnect(w)
    BY <1>3, WorkerConnects DEF HearDisconnect, Hear
<1>4. CASE LosePatience(w)
    BY <1>4, WorkerConnects DEF LosePatience
<1>5. CASE Die(w)
    <2>1. /\ sock[w] # Closed /\ Close(w) /\ cli' = cli /\ runs' = runs
          /\ job' = [job EXCEPT ![w] = NoJob]
        BY <1>5 DEF Die
    <2>2. job' = [x \in Workers |-> IF x = w THEN NoJob ELSE job[x]]
        BY <1>1, <2>1 DEF TypeOK
    <2>3. \A c \in Clients : cli'[c].tries > 0 =>
              c # w /\ cli[c].tries > 0 /\ (cli'[c].asks \/ cli'[c].made > 0)
        BY <1>1, <2>1 DEF Sessions
    <2> DEFINE new == Closed
    <2>4. Moved(w, new)
        BY <1>1, <2>1, <2>2, <2>3, CloseMoves
    <2>5. ~(new # Closed)
        OBVIOUS
    <2> HIDE DEF new
    <2> QED
        BY <2>1, <2>4, <2>5, WorkerMoves
<1> QED
    BY <1>2, <1>3, <1>4, <1>5, HearRequestTracked, PulseTracked, FinishTracked DEF Worker, Serve

-----------------------------------------------------------------------------
(* The clients' steps. *)

(* What a client says and hears on its socket i; K are the calls it sends. *)
Speaks(c, i, K) ==
    i # Closed => \A k \in DOMAIN toBroker[i] :
        /\ k = 1 /\ b.out[i] = <<>> /\ Said(c, i, toBroker[i][k])
        /\ toBroker[i][k].type = "CALL" => toBroker[i][k].call \in K

Hears(c, i) == i # Closed => \A k \in DOMAIN b.out[i] : k = 1 /\ HeardBy(c, b.out[i][k])

(* A call of K may be executed once more than before.                      *)
Counted(c, K) ==
    \A k \in 1 .. MaxCalls : Sends(c, k)' >= Sends(c, k) + IF k \in K THEN 1 ELSE 0

(* A client sends, takes an answer, or changes its socket: new is the one  *)
(* it has then, to which nothing else is to come, and K the calls it sends *)
(* once more.                                                              *)
LEMMA ClientStep ==
    ASSUME InStep, InStep', Tracked, NEW c \in Clients, NEW new, new = sock'[c], NEW K,
           job' = job, runs' = runs, b'.requests = b.requests,
           \A d \in Clients \ {c} : cli'[d] = cli[d] /\ sock'[d] = sock[d],
           \A w \in Workers : sock'[w] = sock[w],
           \A x \in Ids \ IdsOf[c] : toBroker'[x] = toBroker[x] /\ b'.out[x] = b.out[x],
           \A x \in IdsOf[c] \ {new} : toBroker'[x] \in {<<>>, toBroker[x]},
           \A h \in Holders : \A j \in Under[h] : j.client # new,
           Speaks(c, new, K)', Hears(c, new)', Counted(c, K), HasLast(c)'
    PROVE  Tracked'
<1>1. /\ TypeOK /\ TypeOK' /\ Sockets' /\ OutOpen' /\ DOMAIN <<>> = {}
      /\ ClientsSay /\ ClientsHear /\ WorkersSay /\ RepliesRun /\ AllProper
      /\ Budget /\ GotLast /\ OneHolder
      /\ IdsOf[c] \subseteq Ids /\ Closed \notin IdsOf[c]
    BY WhoseIds DEF InStep, Tracked, Procs
<1>2. \A x \in IdsOf[c] \ {new} : b'.out[x] = <<>>
    <2> SUFFICES ASSUME NEW x \in IdsOf[c], b'.out[x] # <<>> PROVE x = new
        OBVIOUS
    <2>1. PICK p \in Procs : sock'[p] = x
        BY <1>1 DEF OutOpen, Open
    <2>2. x \in IdsOf[p]
        BY <1>1, <2>1 DEF Sockets
    <2>3. p = c
        BY <2>2, WhoseIds DEF Procs
    <2> QED
        BY <2>1, <2>3
<1>3. ASSUME NEW d \in Clients \ {c}, NEW x \in IdsOf[d]
      PROVE  /\ x \in Ids \ IdsOf[c] /\ toBroker'[x] = toBroker[x] /\ b'.out[x] = b.out[x]
             /\ cli'[d] = cli[d] /\ sock'[d] = sock[d]
    <2>1. x \in Ids \ IdsOf[c]
        BY WhoseIds DEF Procs
    <2> QED
        BY <2>1
<1>4. ClientsSay'
    <2> SUFFICES ASSUME NEW d \in Clients, NEW x \in IdsOf[d], NEW k \in DOMAIN toBroker'[x]
                 PROVE  (k = 1 /\ b.out[x] = <<>> /\ Said(d, x, toBroker[x][k]))'
        BY DEF ClientsSay
    <2>1. CASE d # c
        BY <1>1, <1>3, <2>1 DEF ClientsSay, Said, Awaited, Asking
    <2>2. CASE d = c /\ x = new
        BY <1>1, <2>2 DEF Speaks
    <2>3. CASE d = c /\ x # new
        <3>1. toBroker'[x] = toBroker[x]
            BY <1>1, <2>3
        <3> QED
            BY <1>1, <1>2, <2>3, <3>1 DEF ClientsSay, Said
    <2> QED
        BY <2>1, <2>2, <2>3
<1>5. ClientsHear'
    <2> SUFFICES ASSUME NEW d \in Clients, NEW x \in IdsOf[d], NEW k \in DOMAIN b'.out[x]
                 PROVE  (k = 1 /\ HeardBy(d, b.out[x][k]))'
        BY DEF ClientsHear
    <2>1. CASE d # c
        BY <1>1, <1>3, <2>1 DEF ClientsHear, HeardBy, Awaited, Asking
    <2>2. CASE d = c
        <3>1. x = new
            BY <1>1, <1>2, <2>2
        <3> QED
            BY <1>1, <2>2, <3>1 DEF Hears
    <2> QED
        BY <2>1, <2>2
<1>6. ASSUME NEW x \in Ids PROVE Sent(x)' = Sent(x) /\ Replied(x)' = Replied(x) /\ AtWork(x)' = AtWork(x)
    <2>1. AtWork(x)' = AtWork(x)
        BY DEF AtWork
    <2>2. /\ Sent(x) = JobsOf(b.out[x], "REQUEST") /\ Replied(x) = JobsOf(toBroker[x], "REPLY")
          /\ Sent(x)' = JobsOf(b'.out[x], "REQUEST") /\ Replied(x)' = JobsOf(toBroker'[x], "REPLY")
        BY DEF Sent, Replied
    <2>3. CASE x \notin IdsOf[c]
        BY <2>1, <2>2, <2>3
    <2>4. CASE x \in IdsOf[c]
        <3>1. \A k \in DOMAIN b.out[x] : b.out[x][k].type # "REQUEST"
            BY <1>1, <2>4 DEF ClientsHear, HeardBy
        <3>2. \A k \in DOMAIN b'.out[x] : b'.out[x][k].type # "REQUEST"
            BY <1>5, <2>4 DEF ClientsHear, HeardBy
        <3>3. \A k \in DOMAIN toBroker[x] : toBroker[x][k].type # "REPLY"
            BY <1>1, <2>4 DEF ClientsSay, Said
        <3>4. \A k \in DOMAIN toBroker'[x] : toBroker'[x][k].type # "REPLY"
            BY <1>4, <2>4 DEF ClientsSay, Said
        <3>5. JobsOf(b.out[x], "REQUEST") = {} /\ JobsOf(b'.out[x], "REQUEST") = {}
            BY <3>1, <3>2, JobsOfNone
        <3>6. JobsOf(toBroker[x], "REPLY") = {} /\ JobsOf(toBroker'[x], "REPLY") = {}
            BY <3>3, <3>4, JobsOfNone
        <3> QED
            BY <2>1, <2>2, <3>5, <3>6
    <2> QED
        BY <2>3, <2>4
<1>7. \A h \in Holders : Under'[h] = Under[h]
    <2>1. \A n \in Services : Under'[QueueOf(n)] = Under[QueueOf(n)]
        BY UnderKinds
    <2>2. \A x \in Ids : Under'[Hands(x)] = Under[Hands(x)]
        BY <1>6, UnderKinds
    <2> QED
        BY <2>1, <2>2, HolderKinds
<1>8. OneHolder'
    <2> DEFINE V == Under'
    <2>1. Apart(V)
        <3>1. Apart(Under) /\ \A h \in Holders : V[h] \subseteq Under[h]
            BY <1>1, <1>7 DEF OneHolder
        <3> HIDE DEF V
        <3> QED
            BY <3>1, ApartLess
    <2> QED
        BY <1>1, <2>1 DEF OneHolder
<1>9. AllProper'
    <2> SUFFICES ASSUME NEW h \in Holders, NEW j \in Under'[h] PROVE Proper(j)'
        BY DEF AllProper
    <2>1. Proper(j) /\ j.client # new
        BY <1>1, <1>7 DEF AllProper
    <2>2. j \in Job /\ j.client \in IdsOf[j.caller] /\ j.caller \in Clients
        BY <2>1 DEF Proper, Job
    <2>3. CASE j.caller = c
        BY <1>1, <1>2, <2>1, <2>2, <2>3 DEF Proper
    <2>4. CASE j.caller # c
        BY <1>3, <2>1, <2>2, <2>4 DEF Proper, Awaited
    <2> QED
        BY <2>3, <2>4
<1>10. RepliesRun'
    BY <1>1, <1>6 DEF RepliesRun
<1>11. WorkersSay'
    <2> SUFFICES ASSUME NEW w \in Workers, NEW x \in IdsOf[w], NEW k \in DOMAIN toBroker'[x]
                 PROVE  toBroker'[x][k].type \notin {"CALL", "ASK"}
        BY DEF WorkersSay
    <2>1. x \in Ids \ IdsOf[c]
        BY WhoseIds DEF Procs
    <2> QED
        BY <1>1, <2>1 DEF WorkersSay
<1>12. \A x \in Ids \ {new} : Asked(x)' \subseteq Asked(x)
    <2> SUFFICES ASSUME NEW x \in Ids, x # new PROVE Asked(x)' \subseteq Asked(x)
        OBVIOUS
    <2>1. toBroker'[x] \in {<<>>, toBroker[x]}
        OBVIOUS
    <2> QED
        BY <2>1, LostSaid
<1>13. ASSUME NEW j, Live(j)' PROVE Live(j) \/ (j.client = new /\ j \in Asked(new)')
    <2>1. (\E n \in Services : j \in ToSet(b'.requests[n]))
          \/ \E x \in Ids : j \in Sent(x)' \/ j \in AtWork(x)' \/ j \in Asked(x)'
        BY <1>13 DEF Live
    <2>2. (\E n \in Services : j \in ToSet(b.requests[n]))
          \/ \E x \in Ids : j \in Sent(x) \/ j \in AtWork(x) \/ j \in Asked(x)'
        BY <1>6, <2>1
    <2>3. ASSUME NEW x \in Ids, j \in Asked(x)' PROVE Live(j) \/ (j.client = new /\ j \in Asked(new)')
        <3>1. CASE x # new
            BY <1>12, <2>3, <3>1 DEF Live
        <3>2. CASE x = new
            BY <2>3, <3>2 DEF Asked
        <3> QED
            BY <3>1, <3>2
    <2> QED
        BY <2>2, <2>3 DEF Live
<1>14. Budget'
    <2> SUFFICES ASSUME NEW d \in Clients, NEW k \in 1 .. MaxCalls
                 PROVE  (Cardinality(LiveAt(d, k)) + runs[d][k] <= Sends(d, k))'
        BY DEF Budget
    <2> DEFINE X == LiveAt(d, k)
               Y == LiveAt(d, k)'
    <2>1. IsFiniteSet(X) /\ IsFiniteSet(Y) /\ Cardinality(X) \in Nat /\ Cardinality(Y) \in Nat
        BY LiveFinite
    <2>2. runs[d][k] \in Nat /\ Sends(d, k) \in Int /\ Sends(d, k)' \in Int
        <3>1. Sends(d, k) \in Int
            BY <1>1, SendsBounds
        <3>2. cli'[d] \in Session
            BY <1>1 DEF TypeOK
        <3>3. cli'[d].tries \in Int /\ Retries \in Int
            BY <3>2, MajordomoAssumption DEF Session
        <3>4. Sends(d, k)' \in Int
            BY <3>3 DEF Sends, Awaited
        <3> QED
            BY <1>1, <3>1, <3>4 DEF TypeOK
    <2>3. Cardinality(X) + runs[d][k] <= Sends(d, k)
        BY <1>1 DEF Budget
    <2>4. \A x \in Y : x \in IdsOf[d] /\ (x \in X \/ (x = new /\ [client |-> x, caller |-> d, call |-> k] \in Asked(new)'))
        <3> SUFFICES ASSUME NEW x \in IdsOf[d], Live([client |-> x, caller |-> d, call |-> k])'
                     PROVE  x \in X \/ (x = new /\ [client |-> x, caller |-> d, call |-> k] \in Asked(new)')
            BY DEF LiveAt
        <3> DEFINE j == [client |-> x, caller |-> d, call |-> k]
        <3>1. j.client = x
            OBVIOUS
        <3>2. Live(j) \/ (j.client = new /\ j \in Asked(new)')
            BY <1>13
        <3> QED
            BY <3>1, <3>2 DEF LiveAt
    <2>5. ASSUME NEW x \in Y, x \notin X PROVE d = c /\ x = new /\ k \in K
        <3>1. x \in IdsOf[d] /\ x = new /\ [client |-> x, caller |-> d, call |-> k] \in Asked(new)'
            BY <2>4, <2>5
        <3>2. PICK m \in ToSet(toBroker'[new]) :
                 m.type = "CALL" /\ [client |-> x, caller |-> d, call |-> k]
                                    = [client |-> new, caller |-> m.caller, call |-> m.call]
            BY <3>1 DEF Asked
        <3>3. m.call = k /\ new # Closed
            BY <1>1, <3>1, <3>2, WhoseIds DEF Procs
        <3>4. \E y \in DOMAIN toBroker'[new] : toBroker'[new][y] = m
            BY <3>2 DEF ToSet
        <3>5. k \in K
            BY <3>2, <3>3, <3>4 DEF Speaks
        <3>6. new \in IdsOf[c]
            BY <1>1, <3>3 DEF Sockets, Procs
        <3>7. d = c
            BY <3>1, <3>6, WhoseIds
        <3> QED
            BY <3>1, <3>5, <3>7
    <2>6. d # c => Sends(d, k)' = Sends(d, k)
        BY DEF Sends, Awaited
    <2> HIDE DEF X, Y
    <2>7. CASE Y \subseteq X
        <3>1. Cardinality(Y) <= Cardinality(X)
            BY <2>1, <2>7, FS_Subset
        <3>2. Sends(d, k)' >= Sends(d, k)
            BY <2>2, <2>6 DEF Counted
        <3>3. Cardinality(Y) + runs[d][k] <= Sends(d, k)'
            BY <2>1, <2>2, <2>3, <3>1, <3>2
        <3> QED
            BY <3>3 DEF Y
    <2>8. CASE ~(Y \subseteq X)
        <3>1. PICK x \in Y : x \notin X
            BY <2>8
        <3>2. d = c /\ k \in K /\ Y \subseteq X \cup {new}
            BY <2>5, <3>1
        <3> DEFINE n == Cardinality(X \cup {new})
        <3>7. IsFiniteSet(X \cup {new}) /\ (n = Cardinality(X) \/ n = Cardinality(X) + 1)
            BY <2>1, FS_AddElement
        <3> HIDE DEF n
        <3>3. n <= Cardinality(X) + 1
            BY <2>1, <3>7
        <3>4. Cardinality(Y) <= n /\ n \in Nat
            BY <3>2, <3>7, FS_Subset, FS_CardinalityType DEF n
        <3>5. Sends(d, k)' >= Sends(d, k) + 1
            BY <3>2 DEF Counted
        <3>6. Cardinality(Y) + runs[d][k] <= Sends(d, k)'
            BY <2>1, <2>2, <2>3, <3>3, <3>4, <3>5
        <3> QED
            BY <3>6 DEF Y
    <2> QED
        BY <2>7, <2>8
<1>15. GotLast'
    BY <1>1 DEF GotLast, HasLast
<1> QED
    BY <1>4, <1>5, <1>8, <1>9, <1>10, <1>11, <1>14, <1>15 DEF Tracked

(* No request is to come to a free address.                                *)
LEMMA UnderAddressed == \A h \in Holders : \A j \in Under[h] : j.client \in Addressed
<1>1. ASSUME NEW n \in Services, NEW j \in ToSet(b.requests[n]) PROVE j.client \in Addressed
    <2>1. j \in UNION {ToSet(b.requests[s]) : s \in Services}
        OBVIOUS
    <2> QED
        BY <2>1 DEF Addressed
<1>2. ASSUME NEW x \in Ids, NEW j \in AtWork(x) PROVE j.client \in Addressed
    BY DEF AtWork, Addressed
<1>3. ASSUME NEW i \in Ids, NEW j \in Sent(i) PROVE j.client \in Addressed
    <2>1. PICK k \in DOMAIN b.out[i] : b.out[i][k].type = "REQUEST" /\ j = b.out[i][k].job
        BY DEF Sent, JobsOf
    <2>2. b.out[i][k] \in {x \in ToSet(b.out[i]) : x.type = "REQUEST"}
        BY <2>1 DEF ToSet
    <2>3. j.client \in {m.job.client : m \in {x \in ToSet(b.out[i]) : x.type = "REQUEST"}}
        BY <2>1, <2>2
    <2> QED
        BY <2>3 DEF Addressed
<1>4. ASSUME NEW i \in Ids, NEW j \in Replied(i) PROVE j.client \in Addressed
    <2>1. PICK k \in DOMAIN toBroker[i] : toBroker[i][k].type = "REPLY" /\ j = toBroker[i][k].job
        BY DEF Replied, JobsOf
    <2>2. toBroker[i][k] \in {x \in ToSet(toBroker[i]) : x.type = "REPLY"}
        BY <2>1 DEF ToSet
    <2>3. j.client \in {m.job.client : m \in {x \in ToSet(toBroker[i]) : x.type = "REPLY"}}
        BY <2>1, <2>2
    <2> QED
        BY <2>3 DEF Addressed
<1>5. ASSUME NEW n \in Services, NEW j \in Under[QueueOf(n)] PROVE j.client \in Addressed
    BY <1>1, <1>5, UnderKinds
<1>6. ASSUME NEW x \in Ids, NEW j \in Under[Hands(x)] PROVE j.client \in Addressed
    BY <1>2, <1>3, <1>4, <1>6, UnderKinds
<1> QED
    BY <1>5, <1>6, HolderKinds

(* A client takes a new socket, or ends.                                   *)
LEMMA ClientMoves ==
    ASSUME InStep, InStep', Tracked, NEW c \in Clients, NEW new, Moved(c, new), NEW K,
           runs' = runs, \A d \in Clients \ {c} : cli'[d] = cli[d],
           Speaks(c, new, K)', Counted(c, K), HasLast(c)'
    PROVE  Tracked'
<1>1. /\ TypeOK /\ Sockets /\ OutOpen /\ c \in Procs /\ c \notin Workers /\ Closed \notin Ids
      /\ IdsOf[c] \subseteq Ids /\ DOMAIN <<>> = {} /\ b \in BrokerState
      /\ sock \in [Procs -> Ids \cup {Closed}] /\ job \in [Workers -> Job \cup {NoJob}]
    BY MajordomoAssumption, WhoseIds DEF InStep, TypeOK, Procs, Ids
<1>2. /\ new = Closed \/ new \in Free(c)
      /\ sock' = [sock EXCEPT ![c] = new]
      /\ \A x \in Ids : x # new => /\ toBroker'[x] \in {<<>>, toBroker[x]}
                                   /\ x # sock[c] => toBroker'[x] = toBroker[x]
      /\ b' = [b EXCEPT !.out = b'.out]
      /\ \A x \in Ids : b'.out[x] = IF x = sock[c] THEN <<>> ELSE b.out[x]
      /\ job' = [w \in Workers |-> IF w = c THEN NoJob ELSE job[w]]
    BY DEF Moved
<1>3. new # Closed => /\ new \in IdsOf[c] /\ new \in Ids
                     /\ new \notin Open /\ new \notin Addressed
    BY <1>1, <1>2 DEF Free
<1>4. /\ sock'[c] = new /\ \A p \in Procs : p # c => sock'[p] = sock[p]
    BY <1>1, <1>2
<1>5. job' = job /\ b'.requests = b.requests
    BY <1>1, <1>2 DEF BrokerState
<1>6. \A d \in Clients \ {c} : sock'[d] = sock[d]
    BY <1>4 DEF Procs
<1>7. \A w \in Workers : sock'[w] = sock[w]
    BY <1>1, <1>4 DEF Procs
<1>8. \A x \in Ids \ IdsOf[c] : toBroker'[x] = toBroker[x] /\ b'.out[x] = b.out[x]
    <2>1. sock[c] \in IdsOf[c] \cup {Closed}
        BY <1>1 DEF Sockets
    <2> QED
        BY <1>1, <1>2, <1>3, <2>1
<1>9. \A x \in IdsOf[c] \ {new} : toBroker'[x] \in {<<>>, toBroker[x]}
    BY <1>1, <1>2
<1>10. \A h \in Holders : \A j \in Under[h] : j.client # new
    <2> SUFFICES ASSUME NEW h \in Holders, NEW j \in Under[h] PROVE j.client # new
        OBVIOUS
    <2>1. j.client \in Addressed
        BY UnderAddressed
    <2>2. j.client \in Ids
        BY DEF Tracked, AllProper, Proper, Job
    <2> QED
        BY <1>1, <1>3, <2>1, <2>2
<1>11. new # Closed => b'.out[new] = <<>>
    BY <1>1, <1>2, <1>3 DEF OutOpen
<1>12. Hears(c, new)'
    BY <1>1, <1>11 DEF Hears
<1>13. new = sock'[c]
    BY <1>4
<1>14. \A d \in Clients \ {c} : cli'[d] = cli[d] /\ sock'[d] = sock[d]
    BY <1>6
<1> QED
    BY <1>5, <1>7, <1>8, <1>9, <1>10, <1>12, <1>13, <1>14, ClientStep

LEMMA SentOnce ==
    ASSUME NEW c \in Clients, NEW s \in Session, NEW m, m = Request(c, s)
    PROVE  \/ s.asks /\ m.type = "ASK"
           \/ ~s.asks /\ m.type = "CALL" /\ m.caller = c /\ m.call = s.made
<1>1. s.asks \in BOOLEAN
    BY DEF Session
<1>2. CASE s.asks
    BY <1>2 DEF Request
<1>3. CASE ~s.asks
    BY <1>3 DEF Request
<1> QED
    BY <1>1, <1>2, <1>3

LEMMA StartClientTracked ==
    ASSUME InStep, InStep', Tracked, NEW c \in Clients, StartClient(c)
    PROVE  Tracked' /\ cli' = cli /\ runs' = runs
<1>1. /\ TypeOK /\ Sessions /\ c \in Procs /\ c \notin Workers /\ cli[c] \in Session
    BY MajordomoAssumption DEF InStep, Procs, TypeOK
<1>2. /\ sock[c] = Closed /\ cli[c].got = cli[c].made /\ Connect(c, <<>>)
      /\ job' = job /\ runs' = runs /\ cli' = cli
    BY DEF StartClient, workerVars
<1> DEFINE first == <<>>
<1>3. first \in Seq(ToBroker) /\ Count(first, "REPLY") = 0 /\ DOMAIN first = {}
    BY CountEmpty
<1>4. Connect(c, first)
    BY <1>2
<1> HIDE DEF first
<1>5. \A d \in Clients : cli'[d].tries > 0 =>
          (d = c \/ cli[d].tries > 0) /\ (cli'[d].asks \/ cli'[d].made > 0)
    BY <1>1, <1>2 DEF Sessions
<1>6. PICK new \in Free(c) : Moved(c, new) /\ toBroker'[new] = first
    BY <1>1, <1>2, <1>3, <1>4, <1>5, ConnectMoves
<1> DEFINE K == {}
<1>7. Counted(c, K)
    <2> SUFFICES ASSUME NEW k \in 1 .. MaxCalls PROVE Sends(c, k)' >= Sends(c, k)
        BY SendsBounds, <1>1 DEF Counted
    <2>1. Sends(c, k)' = Sends(c, k)
        BY <1>2 DEF Sends, Awaited
    <2> QED
        BY <1>1, <2>1, SendsBounds
<1>8. cli[c].tries = 0
    BY <1>1, <1>2, MajordomoAssumption DEF Sessions, Session
<1>9. HasLast(c)'
    BY <1>1, <1>2, <1>8, MajordomoAssumption DEF Session, HasLast
<1> HIDE DEF K
<1>10. Speaks(c, new, K)'
    BY <1>3, <1>6 DEF Speaks
<1>11. Tracked'
    BY <1>2, <1>6, <1>7, <1>9, <1>10, ClientMoves
<1> QED
    BY <1>2, <1>11

(* Between calls nothing is under way on a client's socket.                *)
LEMMA IdleQuiet ==
    ASSUME InStep, Tracked, NEW c \in Clients, Idle(c)
    PROVE  /\ sock[c] \in IdsOf[c] /\ sock[c] \in Ids /\ sock[c] # Closed
           /\ toBroker[sock[c]] = <<>> /\ b.out[sock[c]] = <<>>
           /\ \A h \in Holders : \A j \in Under[h] : j.client # sock[c]
<1>1. /\ TypeOK /\ Sockets /\ c \in Procs /\ ClientsSay /\ ClientsHear /\ AllProper
      /\ sock[c] # Closed /\ cli[c].tries = 0 /\ b \in BrokerState
    BY DEF InStep, Tracked, Procs, Idle, TypeOK
<1>2. PICK i \in Ids : i = sock[c] /\ i \in IdsOf[c]
    BY <1>1, OwnSocket
<1>3. toBroker[i] \in Seq(ToBroker) /\ b.out[i] \in Seq(FromBroker)
    BY <1>1 DEF TypeOK, BrokerState
<1>4. ~(cli[c].tries > 0)
    BY <1>1
<1>5. \A k : ~Awaited(c, k) /\ ~Asking(c)
    BY <1>4 DEF Awaited, Asking
<1>6. toBroker[i] = <<>>
    <2> SUFFICES ASSUME toBroker[i] # <<>> PROVE FALSE
        OBVIOUS
    <2>1. 1 \in DOMAIN toBroker[i]
        BY <1>3, TailOf
    <2> QED
        BY <1>1, <1>2, <1>5, <2>1 DEF ClientsSay, Said
<1>7. b.out[i] = <<>>
    <2> SUFFICES ASSUME b.out[i] # <<>> PROVE FALSE
        OBVIOUS
    <2>1. 1 \in DOMAIN b.out[i]
        BY <1>3, TailOf
    <2> QED
        BY <1>1, <1>2, <1>5, <2>1 DEF ClientsHear, HeardBy
<1>8. \A h \in Holders : \A j \in Under[h] : j.client # i
    <2> SUFFICES ASSUME NEW h \in Holders, NEW j \in Under[h], j.client = i PROVE FALSE
        OBVIOUS
    <2>1. Proper(j) /\ j.caller \in Clients /\ i \in IdsOf[j.caller]
        BY <1>1 DEF AllProper, Proper, Job
    <2>2. j.caller = c
        BY <1>2, <2>1, WhoseIds
    <2> QED
        BY <1>2, <1>5, <2>1, <2>2 DEF Proper
<1> QED
    BY <1>1, <1>2, <1>6, <1>7, <1>8

LEMMA BeginTracked ==
    ASSUME InStep, InStep', Tracked, NEW c \in Clients, NEW s \in Session, Begin(c, s),
           s.tries = Retries, s.got = cli[c].got, s.asks \/ s.made > 0,
           s.made = IF s.asks THEN cli[c].made ELSE cli[c].made + 1
    PROVE  Tracked' /\ cli[c].got = cli[c].made /\ runs' = runs /\ cli' = [cli EXCEPT ![c] = s]
<1>1. /\ TypeOK /\ Sockets /\ c \in Procs /\ cli \in [Clients -> Session]
      /\ toBroker \in [Ids -> Seq(ToBroker)]
    BY DEF InStep, Procs, TypeOK
<1> DEFINE m == Request(c, s)
<1>2. /\ Idle(c) /\ cli' = [cli EXCEPT ![c] = s]
      /\ toBroker' = [toBroker EXCEPT ![sock[c]] = Append(@, m)]
      /\ b' = b /\ sock' = sock /\ job' = job /\ runs' = runs
    BY DEF Begin, SendToBroker, brokerVars, workerVars
<1>3. PICK i \in Ids : i = sock[c] /\ i \in IdsOf[c]
    BY <1>2, IdleQuiet
<1>4. /\ i # Closed /\ toBroker[i] = <<>> /\ b.out[i] = <<>>
      /\ \A h \in Holders : \A j \in Under[h] : j.client # i
    BY <1>2, <1>3, IdleQuiet
<1>5. cli'[c] = s /\ \A d \in Clients \ {c} : cli'[d] = cli[d] /\ sock'[d] = sock[d]
    BY <1>1, <1>2
<1>6. \/ s.asks /\ m.type = "ASK"
      \/ ~s.asks /\ m.type = "CALL" /\ m.caller = c /\ m.call = s.made
    BY SentOnce
<1> HIDE DEF m
<1>7. toBroker'[i] = <<m>> /\ \A x \in Ids \ {i} : toBroker'[x] = toBroker[x]
    BY <1>1, <1>2, <1>3, <1>4
<1>8. \A k \in DOMAIN <<m>> : k = 1 /\ <<m>>[k] = m
    OBVIOUS
<1>9. cli[c] \in Session /\ cli[c].tries = 0 /\ cli[c].made \in Nat /\ s.made \in Nat /\ Retries \in Nat
      /\ s.made \in Int /\ s.asks \in BOOLEAN /\ Retries > 0
    BY <1>1, <1>2, MajordomoAssumption DEF Idle, Session
<1>10. \A k : Awaited(c, k)' <=> ~s.asks /\ k = s.made
    BY <1>5, <1>9 DEF Awaited
<1>11. Asking(c)' <=> s.asks
    BY <1>5, <1>9 DEF Asking
<1>12. \A k : ~Awaited(c, k)
    BY <1>9 DEF Awaited
<1> DEFINE K == IF s.asks THEN {} ELSE {s.made}
<1>13. Speaks(c, i, K)'
    <2> SUFFICES ASSUME NEW k \in DOMAIN toBroker'[i]
                 PROVE  /\ k = 1 /\ b'.out[i] = <<>> /\ Said(c, i, toBroker[i][k])'
                        /\ toBroker'[i][k].type = "CALL" => toBroker'[i][k].call \in K
        BY DEF Speaks
    <2>1. k = 1 /\ toBroker'[i][k] = m
        BY <1>7, <1>8
    <2>2. Said(c, i, toBroker[i][k])'
        BY <1>6, <1>10, <1>11, <2>1 DEF Said
    <2> QED
        BY <1>2, <1>4, <1>6, <2>1, <2>2
<1>14. Hears(c, i)'
    BY <1>2, <1>4 DEF Hears
<1>15. Counted(c, K)
    <2> SUFFICES ASSUME NEW k \in 1 .. MaxCalls
                 PROVE  Sends(c, k)' >= Sends(c, k) + IF k \in K THEN 1 ELSE 0
        BY DEF Counted
    <2>1. Sends(c, k) = IF k > cli[c].made THEN 0 ELSE Retries
        BY <1>12 DEF Sends
    <2>2. Sends(c, k)' = IF k > s.made THEN 0
                         ELSE IF ~s.asks /\ k = s.made THEN Retries - s.tries + 1 ELSE Retries
        BY <1>5, <1>10 DEF Sends
    <2>3. CASE s.asks
        BY <1>9, <2>1, <2>2, <2>3
    <2>4. CASE ~s.asks
        BY <1>9, <2>1, <2>2, <2>4
    <2> QED
        BY <2>3, <2>4
<1>16. cli[c].got = cli[c].made
    BY <1>3, <1>4, <1>9 DEF Tracked, GotLast, HasLast
<1>17. HasLast(c)'
    BY <1>2, <1>5, <1>9, <1>16 DEF HasLast
<1>18. \A x \in Ids \ IdsOf[c] : toBroker'[x] = toBroker[x] /\ b'.out[x] = b.out[x]
    BY <1>2, <1>3, <1>7
<1>19. \A x \in IdsOf[c] \ {i} : toBroker'[x] \in {<<>>, toBroker[x]}
    BY <1>1, <1>7, WhoseIds
<1>20. i = sock'[c] /\ b'.requests = b.requests /\ \A w \in Workers : sock'[w] = sock[w]
    BY <1>2, <1>3
<1> HIDE DEF K
<1>21. Tracked'
    BY <1>2, <1>4, <1>5, <1>13, <1>14, <1>15, <1>17, <1>18, <1>19, <1>20, ClientStep
<1> QED
    BY <1>2, <1>16, <1>21

LEMMA AnswerTracked ==
    ASSUME InStep, InStep', Tracked, NEW c \in Clients, Answer(c)
    PROVE  /\ Tracked' /\ runs' = runs /\ \A d \in Clients \ {c} : cli'[d] = cli[d]
           /\ cli'[c].made = cli[c].made
           /\ \/ cli'[c].got = cli[c].got
              \/ /\ cli[c].got < cli[c].made /\ runs[c][cli[c].made] > 0
                 /\ cli'[c].got = cli[c].made
<1>1. /\ TypeOK /\ Sockets /\ Sessions /\ c \in Procs /\ cli \in [Clients -> Session]
      /\ b \in BrokerState /\ ClientsSay /\ ClientsHear /\ AllProper /\ HasLast(c)
    BY DEF InStep, Procs, TypeOK, Tracked, GotLast
<1> DEFINE m == Head(b.out[sock[c]])
           got == IF cli[c].asks THEN cli[c].got ELSE IF m.type = "RESULT" THEN m.call ELSE 0
<1>2. /\ cli[c].tries > 0 /\ b.out[sock[c]] # <<>>
      /\ cli' = [cli EXCEPT ![c].tries = 0,
                            ![c].got = IF cli[c].asks THEN @
                                       ELSE IF m.type = "RESULT" THEN m.call ELSE 0]
      /\ b' = [b EXCEPT !.out[sock[c]] = Tail(@)]
      /\ sock' = sock /\ toBroker' = toBroker /\ job' = job /\ runs' = runs
    BY DEF Answer, workerVars
<1>3. sock[c] # Closed
    BY <1>1, <1>2 DEF Sessions
<1>4. PICK i \in Ids : i = sock[c] /\ i \in IdsOf[c]
    BY <1>1, <1>3, OwnSocket
<1>5. b.out[i] \in Seq(FromBroker) /\ b.out[i] # <<>> /\ i # Closed
    BY <1>1, <1>2, <1>3, <1>4 DEF BrokerState
<1>6. m = b.out[i][1] /\ 1 \in DOMAIN b.out[i]
    BY <1>4, <1>5, TailOf
<1>7. HeardBy(c, m) /\ \A k \in DOMAIN b.out[i] : k = 1
    BY <1>1, <1>4, <1>6 DEF ClientsHear
<1>8. Tail(b.out[i]) = <<>>
    BY <1>5, <1>7, TailOf
<1>9. /\ b'.requests = b.requests /\ b'.out[i] = <<>>
      /\ \A x \in Ids \ {i} : b'.out[x] = b.out[x]
    BY <1>1, <1>2, <1>4, <1>8 DEF BrokerState
<1>10. toBroker[i] = <<>>
    <2> SUFFICES ASSUME toBroker[i] # <<>> PROVE FALSE
        OBVIOUS
    <2>1. toBroker[i] \in Seq(ToBroker)
        BY <1>1 DEF TypeOK
    <2>2. 1 \in DOMAIN toBroker[i]
        BY <2>1, TailOf
    <2> QED
        BY <1>1, <1>4, <1>5, <2>2 DEF ClientsSay
<1>11. cli' = [cli EXCEPT ![c] = [cli[c] EXCEPT !.tries = 0, !.got = got]]
    BY <1>1, <1>2 DEF Session
<1> HIDE DEF got, m
<1>12. /\ cli[c] \in Session /\ cli[c].made \in Nat /\ cli[c].got \in Nat /\ cli[c].asks \in BOOLEAN
       /\ Retries \in Nat
    BY <1>1, MajordomoAssumption DEF Session
<1>13. /\ cli'[c].made = cli[c].made /\ cli'[c].tries = 0 /\ cli'[c].got = got /\ cli'[c].asks = cli[c].asks
       /\ \A d \in Clients \ {c} : cli'[d] = cli[d] /\ sock'[d] = sock[d]
    <2> DEFINE r == [cli[c] EXCEPT !.tries = 0, !.got = got]
    <2>1. r.made = cli[c].made /\ r.tries = 0 /\ r.got = got /\ r.asks = cli[c].asks
        BY <1>12 DEF Session
    <2>2. cli' = [cli EXCEPT ![c] = r]
        BY <1>11
    <2> HIDE DEF r
    <2>3. cli'[c] = r /\ \A d \in Clients \ {c} : cli'[d] = cli[d]
        BY <1>1, <2>2
    <2> QED
        BY <1>2, <2>1, <2>3
<1>15. /\ got = cli[c].made
       /\ \/ got = cli[c].got
          \/ cli[c].got < cli[c].made /\ runs[c][cli[c].made] > 0
    <2>1. CASE cli[c].asks
        <3>1. got = cli[c].got
            BY <2>1 DEF got
        <3> QED
            BY <1>1, <1>3, <2>1, <3>1 DEF HasLast
    <2>2. CASE ~cli[c].asks
        <3>1. m.type = "RESULT" /\ cli[c].made = m.call /\ runs[c][m.call] > 0
            BY <1>7, <2>2 DEF HeardBy, Awaited, Asking
        <3>2. got = cli[c].made
            BY <2>2, <3>1 DEF got
        <3> QED
            BY <1>1, <1>2, <2>2, <3>1, <3>2 DEF HasLast
    <2> QED
        BY <2>1, <2>2
<1>16. HasLast(c)'
    BY <1>2, <1>12, <1>13, <1>15 DEF HasLast
<1> DEFINE K == {}
<1>17. Counted(c, K)
    <2> SUFFICES ASSUME NEW k \in 1 .. MaxCalls PROVE Sends(c, k)' >= Sends(c, k)
        BY <1>1, SendsBounds DEF Counted
    <2>1. Sends(c, k)' = IF k > cli[c].made THEN 0 ELSE Retries
        BY <1>13 DEF Sends, Awaited
    <2> QED
        BY <1>1, <1>12, <2>1, SendsBounds
<1>18. Speaks(c, i, K)'
    BY <1>2, <1>10 DEF Speaks
<1>19. Hears(c, i)'
    BY <1>9 DEF Hears
<1>20. \A h \in Holders : \A j \in Under[h] : j.client # i
    BY <1>1, <1>5 DEF AllProper, Proper
<1>21. \A x \in Ids \ IdsOf[c] : toBroker'[x] = toBroker[x] /\ b'.out[x] = b.out[x]
    BY <1>2, <1>4, <1>9
<1>22. \A x \in IdsOf[c] \ {i} : toBroker'[x] \in {<<>>, toBroker[x]}
    BY <1>2
<1>23. i = sock'[c] /\ \A w \in Workers : sock'[w] = sock[w]
    BY <1>2, <1>4
<1> HIDE DEF K
<1>24. /\ InStep /\ InStep' /\ Tracked /\ c \in Clients /\ job' = job /\ runs' = runs
       /\ b'.requests = b.requests
       /\ \A d \in Clients \ {c} : cli'[d] = cli[d] /\ sock'[d] = sock[d]
    BY <1>2, <1>9, <1>13
<1>25. Tracked'
    BY ONLY <1>16, <1>17, <1>18, <1>19, <1>20, <1>21, <1>22, <1>23, <1>24, ClientStep
<1> QED
    BY <1>2, <1>13, <1>15, <1>25

LEMMA RetryTracked ==
    ASSUME InStep, InStep', Tracked, NEW c \in Clients, Retry(c)
    PROVE  /\ Tracked' /\ runs' = runs
           /\ \A d \in Clients : cli'[d].made = cli[d].made /\ cli'[d].got = cli[d].got
<1>1. /\ TypeOK /\ Sessions /\ c \in Procs /\ c \notin Workers /\ cli \in [Clients -> Session]
      /\ HasLast(c)
    BY MajordomoAssumption DEF InStep, Procs, TypeOK, Tracked, GotLast
<1> DEFINE m == Request(c, cli[c])
           first == <<m>>
<1>2. /\ cli[c].tries > 1 /\ Connect(c, first)
      /\ cli' = [cli EXCEPT ![c].tries = @ - 1]
      /\ job' = job /\ runs' = runs
    BY DEF Retry, workerVars
<1>3. /\ cli[c] \in Session /\ cli[c].made \in Nat /\ cli[c].asks \in BOOLEAN
      /\ cli[c].tries \in 1 .. Retries /\ Retries \in Nat /\ cli[c].tries > 0
    BY <1>1, <1>2, MajordomoAssumption DEF Session
<1>4. cli[c].asks \/ cli[c].made > 0
    BY <1>1, <1>3 DEF Sessions
<1>5. m \in ToBroker /\ m.type # "READY" /\ m.type # "REPLY"
    BY <1>3, <1>4, RequestTyped
<1>6. \/ cli[c].asks /\ m.type = "ASK"
      \/ ~cli[c].asks /\ m.type = "CALL" /\ m.caller = c /\ m.call = cli[c].made
    BY <1>3, SentOnce
<1> HIDE DEF m
<1>7. /\ first \in Seq(ToBroker) /\ Count(first, "REPLY") = 0
      /\ \A k \in DOMAIN first : k = 1 /\ first[k] = m
    BY <1>5, OneFirst
<1> HIDE DEF first
<1>8. /\ cli'[c].made = cli[c].made /\ cli'[c].got = cli[c].got /\ cli'[c].asks = cli[c].asks
      /\ cli'[c].tries = cli[c].tries - 1
      /\ \A d \in Clients \ {c} : cli'[d] = cli[d]
    <2> DEFINE r == [cli[c] EXCEPT !.tries = @ - 1]
    <2>1. r.made = cli[c].made /\ r.got = cli[c].got /\ r.asks = cli[c].asks /\ r.tries = cli[c].tries - 1
        BY <1>3 DEF Session
    <2>2. cli' = [cli EXCEPT ![c] = r]
        BY <1>1, <1>2, <1>3 DEF Session
    <2> HIDE DEF r
    <2>3. cli'[c] = r /\ \A d \in Clients \ {c} : cli'[d] = cli[d]
        BY <1>1, <2>2
    <2> QED
        BY <2>1, <2>3
<1>9. \A d \in Clients : cli'[d].tries > 0 =>
          (d = c \/ cli[d].tries > 0) /\ (cli'[d].asks \/ cli'[d].made > 0)
    BY <1>1, <1>4, <1>8 DEF Sessions
<1>10. \A k \in DOMAIN first : first[k].type = "READY" =>
           k = 1 /\ c \in Workers /\ first[k].service = ServiceOf[c]
    BY <1>5, <1>7
<1>11. PICK new \in Free(c) : Moved(c, new) /\ toBroker'[new] = first
    BY <1>1, <1>2, <1>7, <1>9, <1>10, ConnectMoves
<1>12. cli'[c].tries > 0 /\ cli[c].tries > 0 /\ sock[c] # Closed
    BY <1>1, <1>2, <1>3, <1>8 DEF Sessions
<1>13. PICK K : K = IF cli[c].asks THEN {} ELSE {cli[c].made}
    OBVIOUS
<1>14. \A k : Awaited(c, k)' <=> ~cli[c].asks /\ k = cli[c].made
    BY <1>8, <1>12 DEF Awaited
<1>15. Asking(c)' <=> cli[c].asks
    BY <1>8, <1>12 DEF Asking
<1>16. Speaks(c, new, K)'
    <2>1. b'.out[new] = <<>>
        <3>1. /\ OutOpen /\ new \in Ids /\ new \notin Open
              /\ b'.out[new] = IF new = sock[c] THEN <<>> ELSE b.out[new]
            BY <1>1, <1>11, WhoseIds DEF InStep, Free, Moved
        <3> QED
            BY <3>1 DEF OutOpen
    <2> SUFFICES ASSUME NEW k \in DOMAIN toBroker'[new]
                 PROVE  /\ k = 1 /\ b'.out[new] = <<>> /\ Said(c, new, toBroker[new][k])'
                        /\ toBroker'[new][k].type = "CALL" => toBroker'[new][k].call \in K
        BY DEF Speaks
    <2>2. k = 1 /\ toBroker'[new][k] = m
        BY <1>7, <1>11
    <2>3. Said(c, new, toBroker[new][k])'
        BY <1>6, <1>14, <1>15, <2>2 DEF Said
    <2> QED
        BY <1>6, <1>13, <2>1, <2>2, <2>3
<1>17. Counted(c, K)
    <2> SUFFICES ASSUME NEW k \in 1 .. MaxCalls
                 PROVE  Sends(c, k)' >= Sends(c, k) + IF k \in K THEN 1 ELSE 0
        BY DEF Counted
    <2>1. Sends(c, k) = IF k > cli[c].made THEN 0
                        ELSE IF ~cli[c].asks /\ k = cli[c].made THEN Retries - cli[c].tries + 1 ELSE Retries
        BY <1>12 DEF Sends, Awaited
    <2>2. Sends(c, k)' = IF k > cli[c].made THEN 0
                         ELSE IF ~cli[c].asks /\ k = cli[c].made
                         THEN Retries - (cli[c].tries - 1) + 1 ELSE Retries
        BY <1>8, <1>14 DEF Sends
    <2>3. CASE cli[c].asks
        BY <1>3, <1>13, <2>1, <2>2, <2>3
    <2>4. CASE ~cli[c].asks
        BY <1>3, <1>13, <2>1, <2>2, <2>4
    <2> QED
        BY <2>3, <2>4
<1>18. HasLast(c)'
    BY <1>1, <1>8, <1>12 DEF HasLast
<1>19. InStep /\ InStep' /\ Tracked /\ c \in Clients /\ runs' = runs /\ Moved(c, new)
       /\ \A d \in Clients \ {c} : cli'[d] = cli[d]
    BY <1>2, <1>8, <1>11
<1>20. Tracked'
    BY <1>16, <1>17, <1>18, <1>19, ClientMoves
<1> QED
    BY <1>2, <1>8, <1>20

LEMMA GiveUpTracked ==
    ASSUME InStep, InStep', Tracked, NEW c \in Clients, GiveUp(c)
    PROVE  /\ Tracked' /\ runs' = runs
           /\ \A d \in Clients : cli'[d].made = cli[d].made /\ cli'[d].got = cli[d].got
<1>1. /\ TypeOK /\ Sessions /\ c \in Procs /\ c \notin Workers /\ cli \in [Clients -> Session]
      /\ HasLast(c) /\ job \in [Workers -> Job \cup {NoJob}]
    BY MajordomoAssumption DEF InStep, Procs, TypeOK, Tracked, GotLast
<1>2. /\ cli[c].tries = 1 /\ Close(c) /\ cli' = [cli EXCEPT ![c].tries = 0]
      /\ job' = job /\ runs' = runs
    BY DEF GiveUp, workerVars
<1>3. /\ cli[c] \in Session /\ cli[c].made \in Nat /\ Retries \in Nat /\ cli[c].tries > 0
      /\ sock[c] # Closed
    BY <1>1, <1>2, MajordomoAssumption DEF Session, Sessions
<1>4. /\ cli'[c].made = cli[c].made /\ cli'[c].got = cli[c].got /\ cli'[c].tries = 0
      /\ \A d \in Clients \ {c} : cli'[d] = cli[d]
    <2> DEFINE r == [cli[c] EXCEPT !.tries = 0]
    <2>1. r.made = cli[c].made /\ r.got = cli[c].got /\ r.tries = 0
        BY <1>3 DEF Session
    <2>2. cli' = [cli EXCEPT ![c] = r]
        BY <1>1, <1>2, <1>3 DEF Session
    <2> HIDE DEF r
    <2>3. cli'[c] = r /\ \A d \in Clients \ {c} : cli'[d] = cli[d]
        BY <1>1, <2>2
    <2> QED
        BY <2>1, <2>3
<1>5. \A d \in Clients : cli'[d].tries > 0 =>
          d # c /\ cli[d].tries > 0 /\ (cli'[d].asks \/ cli'[d].made > 0)
    BY <1>1, <1>4 DEF Sessions
<1>6. job' = [w \in Workers |-> IF w = c THEN NoJob ELSE job[w]]
    BY <1>1, <1>2
<1> DEFINE new == Closed
           K == {}
<1>7. Moved(c, new)
    BY <1>1, <1>2, <1>3, <1>5, <1>6, CloseMoves
<1>8. Speaks(c, new, K)'
    BY DEF Speaks
<1>9. Counted(c, K)
    <2> SUFFICES ASSUME NEW k \in 1 .. MaxCalls PROVE Sends(c, k)' >= Sends(c, k)
        BY <1>1, SendsBounds DEF Counted
    <2>1. Sends(c, k)' = IF k > cli[c].made THEN 0 ELSE Retries
        BY <1>4 DEF Sends, Awaited
    <2> QED
        BY <1>1, <1>3, <2>1, SendsBounds
<1>10. sock'[c] = Closed
    BY <1>1, <1>2 DEF Close, TypeOK
<1>11. HasLast(c)'
    BY <1>1, <1>4, <1>10 DEF HasLast
<1> HIDE DEF new, K
<1>12. InStep /\ InStep' /\ Tracked /\ c \in Clients /\ runs' = runs
       /\ \A d \in Clients \ {c} : cli'[d] = cli[d]
    BY <1>2, <1>4
<1>13. Tracked'
    BY ONLY <1>7, <1>8, <1>9, <1>11, <1>12, ClientMoves
<1> QED
    BY <1>2, <1>4, <1>13

-----------------------------------------------------------------------------
LEMMA InitTracked == ASSUME Init PROVE Tracked
<1>1. PICK g \in [Services -> Garbage] : b = Blank(g)
    BY DEF Init
<1>2. /\ sock = [p \in Procs |-> Closed] /\ toBroker = [i \in Ids |-> <<>>]
      /\ job = [w \in Workers |-> NoJob]
      /\ cli = [c \in Clients |-> [made |-> 0, got |-> 0, asked |-> 0, tries |-> 0,
                                   asks |-> FALSE, service |-> CHOOSE s \in Services : TRUE]]
      /\ runs = [c \in Clients |-> [k \in 1 .. MaxCalls |-> 0]]
    BY DEF Init
<1>3. b.requests = [s \in Services |-> <<>>] /\ b.out = [i \in Ids |-> <<>>]
    BY <1>1 DEF Blank
<1>4. DOMAIN <<>> = {} /\ ToSet(<<>>) = {} /\ OnePer(<<>>)
    BY DEF ToSet, OnePer
<1>5. ASSUME NEW x \in Ids PROVE Sent(x) = {} /\ Replied(x) = {} /\ AtWork(x) = {} /\ Asked(x) = {}
    <2>1. toBroker[x] = <<>> /\ b.out[x] = <<>>
        BY <1>2, <1>3
    <2>2. Sent(x) = {} /\ Replied(x) = {}
        BY <2>1, JobsOfEmpty DEF Sent, Replied
    <2>3. AtWork(x) = {}
        BY <1>2 DEF AtWork
    <2>4. Asked(x) = {}
        BY <1>4, <2>1 DEF Asked
    <2> QED
        BY <2>2, <2>3, <2>4
<1>6. \A n \in Services : ToSet(b.requests[n]) = {} /\ OnePer(b.requests[n])
    BY <1>3, <1>4
<1>7. \A h \in Holders : Under[h] = {}
    <2>1. \A n \in Services : Under[QueueOf(n)] = {}
        BY <1>6, UnderKinds
    <2>2. \A x \in Ids : Under[Hands(x)] = {}
        BY <1>5, UnderKinds
    <2> QED
        BY <2>1, <2>2, HolderKinds
<1>8. OneHolder /\ AllProper
    BY <1>6, <1>7 DEF OneHolder, Apart, AllProper
<1>9. \A p \in Procs : \A x \in IdsOf[p] : toBroker[x] = <<>> /\ b.out[x] = <<>>
    BY <1>2, <1>3, WhoseIds
<1>10. ClientsSay /\ ClientsHear /\ WorkersSay
    BY <1>4, <1>9 DEF ClientsSay, ClientsHear, WorkersSay, Procs
<1>11. RepliesRun
    BY <1>5 DEF RepliesRun
<1>12. ASSUME NEW c \in Clients
       PROVE  cli[c].made = 0 /\ cli[c].got = 0 /\ cli[c].tries = 0 /\ sock[c] = Closed
    BY <1>2 DEF Procs
<1>13. Budget
    <2> SUFFICES ASSUME NEW c \in Clients, NEW k \in 1 .. MaxCalls
                 PROVE  Cardinality(LiveAt(c, k)) + runs[c][k] <= Sends(c, k)
        BY DEF Budget
    <2>1. LiveAt(c, k) = {}
        BY <1>5, <1>6 DEF LiveAt, Live
    <2>2. Cardinality({}) = 0
        BY FS_EmptySet
    <2>3. runs[c][k] = 0 /\ Sends(c, k) = 0
        BY <1>2, <1>12, MajordomoAssumption DEF Sends
    <2> QED
        BY <2>1, <2>2, <2>3
<1>14. GotLast
    BY <1>12 DEF GotLast, HasLast
<1> QED
    BY <1>8, <1>10, <1>11, <1>13, <1>14 DEF Tracked

(* To the callers a step is one of the service they call.                  *)
Serves == [Called!Next]_(Called!cvars)

LEMMA QuietServes ==
    ASSUME runs' = runs, \A d \in Clients : cli'[d].made = cli[d].made /\ cli'[d].got = cli[d].got
    PROVE  Serves
<1>1. [c \in Clients |-> cli'[c].made] = [c \in Clients |-> cli[c].made]
    OBVIOUS
<1>2. [c \in Clients |-> cli'[c].got] = [c \in Clients |-> cli[c].got]
    OBVIOUS
<1> QED
    BY <1>1, <1>2 DEF Serves, Called!cvars

LEMMA WorkerServes ==
    ASSUME InStep, InStep', Tracked, NEW w \in Workers, Worker(w) PROVE Serves
<1>1. CASE Finish(w)
    <2>1. PICK j \in Job : /\ j = job[w] /\ j.call <= cli[j.caller].made
                           /\ runs[j.caller][j.call] < Retries
        BY <1>1, FinishTracked
    <2>2. j.caller \in Clients /\ j.call \in 1 .. MaxCalls
        BY DEF Job
    <2>3. runs' = [runs EXCEPT ![j.caller][j.call] = @ + 1] /\ cli' = cli
        BY <1>1, <2>1 DEF Finish
    <2>4. Called!Run(j.caller, j.call)
        BY <2>1, <2>2, <2>3 DEF Called!Run
    <2> QED
        BY <2>2, <2>4 DEF Serves, Called!Next
<1>2. CASE ~Finish(w)
    <2>1. cli' = cli /\ runs' = runs
        BY <1>2 DEF Worker, Serve, StartWorker, HearRequest, HearDisconnect, Hear, Pulse, LosePatience, Die
    <2> QED
        BY <2>1, QuietServes
<1> QED
    BY <1>1, <1>2

LEMMA ClientServes ==
    ASSUME InStep, InStep', Tracked, NEW c \in Clients, Client(c) PROVE Tracked' /\ Serves
<1>1. cli \in [Clients -> Session] /\ cli[c] \in Session
      /\ MaxCalls \in Nat /\ MaxAsks \in Nat /\ Retries \in Nat
    BY MajordomoAssumption DEF InStep, TypeOK
<1>2. CASE StartClient(c)
    BY <1>2, StartClientTracked, QuietServes
<1>3. CASE Retry(c)
    BY <1>3, RetryTracked, QuietServes
<1>4. CASE GiveUp(c)
    BY <1>4, GiveUpTracked, QuietServes
<1>5. CASE Answer(c)
    <2>1. /\ Tracked' /\ runs' = runs /\ \A d \in Clients \ {c} : cli'[d] = cli[d]
          /\ cli'[c].made = cli[c].made
          /\ \/ cli'[c].got = cli[c].got
             \/ /\ cli[c].got < cli[c].made /\ runs[c][cli[c].made] > 0
                /\ cli'[c].got = cli[c].made
        BY <1>5, AnswerTracked
    <2>2. CASE cli'[c].got = cli[c].got
        <3>1. \A d \in Clients : cli'[d].made = cli[d].made /\ cli'[d].got = cli[d].got
            BY <2>1, <2>2
        <3> QED
            BY <2>1, <3>1, QuietServes
    <2>3. CASE /\ cli[c].got < cli[c].made /\ runs[c][cli[c].made] > 0
               /\ cli'[c].got = cli[c].made
        <3>1. [d \in Clients |-> cli'[d].made] = [d \in Clients |-> cli[d].made]
            BY <2>1
        <3>2. [d \in Clients |-> cli'[d].got] = [[d \in Clients |-> cli[d].got] EXCEPT ![c] = cli[c].made]
            BY <2>1, <2>3
        <3>3. Called!Return(c)
            BY <2>1, <2>3, <3>1, <3>2 DEF Called!Return
        <3> QED
            BY <2>1, <3>3 DEF Serves, Called!Next
    <2> QED
        BY <2>1, <2>2, <2>3
<1>6. CASE Call(c)
    <2>1. PICK n \in Services :
             Begin(c, [cli[c] EXCEPT !.made = @ + 1, !.tries = Retries, !.asks = FALSE, !.service = n])
        BY <1>6 DEF Call
    <2> DEFINE r == [cli[c] EXCEPT !.made = @ + 1, !.tries = Retries, !.asks = FALSE, !.service = n]
    <2>2. /\ r \in Session /\ r.made > 0 /\ r.made = cli[c].made + 1 /\ r.got = cli[c].got
          /\ r.tries = Retries /\ r.asks = FALSE /\ cli[c].made < MaxCalls
        <3>1. cli[c].made + 1 \in 0 .. MaxCalls /\ cli[c].made + 1 > 0 /\ Retries \in 0 .. Retries
            BY <1>1, <1>6 DEF Call, Session
        <3> QED
            BY <1>1, <1>6, <3>1 DEF Call, Session
    <2>3. PICK s \in Session : s = r
        BY <2>2
    <2>4. Begin(c, s)
        BY <2>1, <2>3
    <2> HIDE DEF r
    <2>5. Tracked' /\ cli[c].got = cli[c].made /\ runs' = runs /\ cli' = [cli EXCEPT ![c] = s]
        BY <2>2, <2>3, <2>4, BeginTracked
    <2>6. cli'[c] = s /\ \A d \in Clients \ {c} : cli'[d] = cli[d]
        BY <1>1, <2>5
    <2>7. [d \in Clients |-> cli'[d].made] = [[d \in Clients |-> cli[d].made] EXCEPT ![c] = @ + 1]
        BY <2>2, <2>3, <2>6
    <2>8. [d \in Clients |-> cli'[d].got] = [d \in Clients |-> cli[d].got]
        BY <2>2, <2>3, <2>6
    <2>9. Called!Call(c)
        BY <2>2, <2>5, <2>7, <2>8 DEF Called!Call
    <2> QED
        BY <2>5, <2>9 DEF Serves, Called!Next
<1>7. CASE Ask(c)
    <2>1. PICK n \in Services :
             Begin(c, [cli[c] EXCEPT !.asked = @ + 1, !.tries = Retries, !.asks = TRUE, !.service = n])
        BY <1>7 DEF Ask
    <2> DEFINE r == [cli[c] EXCEPT !.asked = @ + 1, !.tries = Retries, !.asks = TRUE, !.service = n]
    <2>2. /\ r \in Session /\ r.made = cli[c].made /\ r.got = cli[c].got
          /\ r.tries = Retries /\ r.asks = TRUE
        <3>1. cli[c].asked + 1 \in 0 .. MaxAsks /\ Retries \in 0 .. Retries
            BY <1>1, <1>7 DEF Ask, Session
        <3> QED
            BY <1>1, <3>1 DEF Session
    <2>3. PICK s \in Session : s = r
        BY <2>2
    <2>4. Begin(c, s)
        BY <2>1, <2>3
    <2> HIDE DEF r
    <2>5. Tracked' /\ runs' = runs /\ cli' = [cli EXCEPT ![c] = s]
        BY <2>2, <2>3, <2>4, BeginTracked
    <2>6. \A d \in Clients : cli'[d].made = cli[d].made /\ cli'[d].got = cli[d].got
        BY <1>1, <2>2, <2>3, <2>5
    <2> QED
        BY <2>5, <2>6, QuietServes
<1> QED
    BY <1>2, <1>3, <1>4, <1>5, <1>6, <1>7 DEF Client

LEMMA NextTracked ==
    ASSUME InStep, InStep', Tracked, [Next]_vars PROVE Tracked' /\ Serves
<1>1. CASE Broker
    <2>1. cli' = cli /\ runs' = runs
        BY <1>1 DEF Broker, TakeFrom, TakeReady, TakeReply, TakeHeartbeat, TakeCall, TakeAsk, Take,
                    Beat, CrashBroker, StartBroker, workerVars
    <2> QED
        BY <1>1, <2>1, BrokerTracked, QuietServes
<1>2. ASSUME NEW w \in Workers, Worker(w) PROVE Tracked' /\ Serves
    BY <1>2, WorkerTracked, WorkerServes
<1>3. ASSUME NEW c \in Clients, Client(c) PROVE Tracked' /\ Serves
    BY <1>3, ClientServes
<1>4. CASE UNCHANGED vars
    <2>1. b' = b /\ sock' = sock /\ toBroker' = toBroker /\ job' = job /\ cli' = cli /\ runs' = runs
        BY <1>4 DEF vars
    <2>2. \A x \in Ids : b'.out[x] = b.out[x] /\ toBroker'[x] = toBroker[x]
        BY <2>1
    <2>3. \A n \in Services : b'.requests[n] = b.requests[n]
        BY <2>1
    <2> QED
        BY <2>1, <2>2, <2>3, LossTracked, QuietServes
<1> QED
    BY <1>1, <1>2, <1>3, <1>4 DEF Next

(* Whatever dies, is lost or is sent again, to its callers this is a       *)
(* service that may be slow: a call that returns has the result of an      *)
(* execution of its own request, and none is executed more often than it   *)
(* was sent.                                                               *)
THEOREM ImplementsServiceCall == Spec => IsServiceCall
<1>1. Init => Tracked
    BY InitTracked
<1>2. InStep /\ InStep' /\ Tracked /\ [Next]_vars => Tracked' /\ Serves
    BY NextTracked
<1>3. Init => Called!Init
    BY DEF Init, Called!Init
<1> QED
    BY <1>1, <1>2, <1>3, InStepAlways, PTL DEF Spec, IsServiceCall, Called!Spec, Serves
=============================================================================

------------------------- MODULE WorkerRing_proofs --------------------------
(***************************************************************************)
(* Theorems about WorkerRing, for any workers, lists, positions and seeds, *)
(* and for workers that start, stop and join at any time unless a theorem  *)
(* assumes otherwise; and about the other state of a worker, its session   *)
(* with the broker (WorkerSession).                                        *)
(***************************************************************************)
EXTENDS WorkerRing, FiniteRecursion, SequenceTheorems, FiniteSetTheorems

LOCAL INSTANCE SequencesExt

-----------------------------------------------------------------------------
(* The targets of a list. *)

LEMMA FirstIsFirst ==
    ASSUME NEW S \in SUBSET Servers, S # {}
    PROVE  First(S) \in S /\ \A t \in S : Position[First(S)] <= Position[t]
<1> DEFINE places == {Position[s] : s \in S}
           Least(s) == \A t \in S : Position[s] <= Position[t]
<1>1. places \subseteq Nat /\ places # {}
    BY PositionAssumption
<1>2. PICK p \in places : \A x \in places : p <= x
    <2> HIDE DEF places
    <2> QED
        BY <1>1, LeastNumber
<1>3. PICK s \in S : Position[s] = p
    BY <1>2
<1>4. Least(s)
    BY <1>2, <1>3
<1>5. First(S) = CHOOSE x \in S : Least(x)
    BY DEF First
<1> HIDE DEF Least
<1>6. First(S) \in S /\ Least(First(S))
    BY <1>3, <1>4, <1>5
<1> QED
    BY <1>6 DEF Least

(* The servers met before s, clockwise from the list. *)
Met(R, list, s) ==
    {t \in R : IF Position[s] >= Position[list]
               THEN Position[list] <= Position[t] /\ Position[t] < Position[s]
               ELSE Position[t] >= Position[list] \/ Position[t] < Position[s]}

(* The list's server is met first. *)
LEMMA GetServerMet ==
    ASSUME NEW R \in SUBSET Servers, R # {}, NEW list \in Lists
    PROVE  GetServer(R, list) \in R /\ Met(R, list, GetServer(R, list)) = {}
<1> DEFINE p == Position[list]
           after == {s \in R : Position[s] >= p}
           x == GetServer(R, list)
<1>1. p \in Nat /\ \A s \in R : Position[s] \in Nat
    BY PositionAssumption
<1>2. x = IF after # {} THEN First(after) ELSE First(R)
    BY DEF GetServer, AtOrAfter
<1>3. CASE after # {}
    <2>1. x \in after /\ \A t \in after : Position[x] <= Position[t]
        BY <1>2, <1>3, FirstIsFirst
    <2>2. ASSUME NEW t \in R PROVE t \notin Met(R, list, x)
        <3>1. Position[x] >= p /\ Position[x] \in Nat /\ Position[t] \in Nat
            BY <1>1, <2>1
        <3>2. ~(p <= Position[t] /\ Position[t] < Position[x])
            BY <1>1, <2>1, <3>1
        <3> HIDE DEF x
        <3> QED
            BY <3>1, <3>2 DEF Met
    <2> HIDE DEF x
    <2> QED
        BY <2>1, <2>2 DEF Met, x
<1>4. CASE after = {}
    <2>1. x \in R /\ \A t \in R : Position[x] <= Position[t]
        BY <1>2, <1>4, FirstIsFirst
    <2>2. ASSUME NEW t \in R PROVE t \notin Met(R, list, x)
        <3>1. ~(Position[x] >= p) /\ ~(Position[t] >= p)
            BY <1>4, <2>1
        <3>2. ~(Position[t] < Position[x])
            BY <1>1, <2>1
        <3> HIDE DEF x
        <3> QED
            BY <3>1, <3>2 DEF Met
    <2> HIDE DEF x
    <2> QED
        BY <2>1, <2>2 DEF Met, x
<1> QED
    BY <1>3, <1>4

(* After s the next one clockwise is met, or s was the last and it is the  *)
(* first again.                                                            *)
LEMMA NextServerMet ==
    ASSUME NEW R \in SUBSET Servers, NEW s \in R, NEW list \in Lists
    PROVE  /\ GetNextServer(R, s) \in R
           /\ \/ Met(R, list, GetNextServer(R, s)) = Met(R, list, s) \cup {s}
              \/ /\ Met(R, list, GetNextServer(R, s)) = {}
                 /\ Met(R, list, s) \cup {s} = R
<1> DEFINE p == Position[list]
           beyond == {t \in R : Position[t] > Position[s]}
           x == GetNextServer(R, s)
<1>1. /\ p \in Nat
      /\ \A t \in R : Position[t] \in Nat
      /\ \A t, u \in R : Position[t] = Position[u] => t = u
    BY PositionAssumption
<1>2. AtOrAfter(R, Position[s]) = s
    <2> DEFINE after == {t \in R : Position[t] >= Position[s]}
    <2>1. s \in after
        BY <1>1
    <2>2. First(after) \in after /\ \A t \in after : Position[First(after)] <= Position[t]
        BY <2>1, FirstIsFirst
    <2>3. First(after) = s
        BY <1>1, <2>1, <2>2
    <2> QED
        BY <2>1, <2>3 DEF AtOrAfter
<1>3. x = IF beyond # {} THEN First(beyond) ELSE First(R)
    BY <1>2 DEF GetNextServer
<1>4. /\ x \in R
      /\ \/ /\ Position[s] < Position[x]
            /\ \A t \in R : Position[t] <= Position[s] \/ Position[x] <= Position[t]
         \/ \A t \in R : Position[t] <= Position[s] /\ Position[x] <= Position[t]
    <2>1. CASE beyond # {}
        <3>1. x \in beyond /\ \A t \in beyond : Position[x] <= Position[t]
            BY <1>3, <2>1, FirstIsFirst
        <3> HIDE DEF x
        <3>2. \A t \in R : Position[t] <= Position[s] \/ t \in beyond
            BY <1>1
        <3> QED
            BY <1>1, <3>1, <3>2
    <2>2. CASE beyond = {}
        <3>1. x \in R /\ \A t \in R : Position[x] <= Position[t]
            BY <1>3, <2>2, FirstIsFirst
        <3>2. \A t \in R : Position[t] <= Position[s]
            BY <1>1, <2>2
        <3> HIDE DEF x
        <3> QED
            BY <3>1, <3>2
    <2> QED
        BY <2>1, <2>2
<1> HIDE DEF x
<1>5. /\ Position[x] \in Nat /\ Position[s] \in Nat
    BY <1>1, <1>4
<1>6. \/ \A t \in R : t \in Met(R, list, x) <=> t \in Met(R, list, s) \/ t = s
      \/ \A t \in R : t \notin Met(R, list, x) /\ (t \in Met(R, list, s) \/ t = s)
    <2>1. CASE /\ Position[s] < Position[x]
               /\ \A t \in R : Position[t] <= Position[s] \/ Position[x] <= Position[t]
        <3>1. CASE Position[s] >= p
            <4>1. Position[x] >= p
                BY <1>1, <1>5, <2>1, <3>1
            <4>2. ASSUME NEW t \in R
                  PROVE  t \in Met(R, list, x) <=> t \in Met(R, list, s) \/ t = s
                <5>1. p <= Position[t] /\ Position[t] < Position[x]
                        <=> (p <= Position[t] /\ Position[t] < Position[s]) \/ t = s
                    BY <1>1, <1>5, <2>1, <3>1
                <5> QED
                    BY <3>1, <4>1, <5>1 DEF Met
            <4> QED
                BY <4>2
        <3>2. CASE Position[s] < p /\ Position[x] < p
            <4>1. ~(Position[s] >= p) /\ ~(Position[x] >= p)
                BY <1>1, <1>5, <3>2
            <4>2. ASSUME NEW t \in R
                  PROVE  t \in Met(R, list, x) <=> t \in Met(R, list, s) \/ t = s
                <5>1. Position[t] >= p \/ Position[t] < Position[x]
                        <=> Position[t] >= p \/ Position[t] < Position[s] \/ t = s
                    BY <1>1, <1>5, <2>1, <3>2
                <5> QED
                    BY <4>1, <5>1 DEF Met
            <4> QED
                BY <4>2
        <3>3. CASE Position[s] < p /\ Position[x] >= p
            <4>1. ~(Position[s] >= p)
                BY <1>1, <1>5, <3>3
            <4>2. ASSUME NEW t \in R
                  PROVE  t \notin Met(R, list, x) /\ (t \in Met(R, list, s) \/ t = s)
                <5>1. ~(p <= Position[t] /\ Position[t] < Position[x])
                    BY <1>1, <1>5, <2>1, <3>3
                <5>2. Position[t] >= p \/ Position[t] < Position[s] \/ t = s
                    BY <1>1, <1>5, <2>1, <3>3
                <5> QED
                    BY <3>3, <4>1, <5>1, <5>2 DEF Met
            <4> QED
                BY <4>2
        <3> QED
            BY <1>1, <1>5, <3>1, <3>2, <3>3
    <2>2. CASE \A t \in R : Position[t] <= Position[s] /\ Position[x] <= Position[t]
        <3>1. CASE Position[s] >= p /\ Position[x] >= p
            <4>1. ASSUME NEW t \in R
                  PROVE  t \notin Met(R, list, x) /\ (t \in Met(R, list, s) \/ t = s)
                <5>1. ~(Position[t] < Position[x])
                    BY <1>1, <1>5, <2>2
                <5>2. (p <= Position[t] /\ Position[t] < Position[s]) \/ t = s
                    BY <1>1, <1>5, <2>2, <3>1
                <5> QED
                    BY <3>1, <5>1, <5>2 DEF Met
            <4> QED
                BY <4>1
        <3>2. CASE Position[s] >= p /\ Position[x] < p
            <4>1. ~(Position[x] >= p)
                BY <1>1, <1>5, <3>2
            <4>2. ASSUME NEW t \in R
                  PROVE  t \in Met(R, list, x) <=> t \in Met(R, list, s) \/ t = s
                <5>1. Position[t] >= p \/ Position[t] < Position[x]
                        <=> (p <= Position[t] /\ Position[t] < Position[s]) \/ t = s
                    BY <1>1, <1>5, <2>2, <3>2
                <5> QED
                    BY <3>2, <4>1, <5>1 DEF Met
            <4> QED
                BY <4>2
        <3>3. CASE Position[s] < p
            <4>1. ~(Position[s] >= p) /\ ~(Position[x] >= p)
                BY <1>1, <1>4, <1>5, <2>2, <3>3
            <4>2. ASSUME NEW t \in R
                  PROVE  t \notin Met(R, list, x) /\ (t \in Met(R, list, s) \/ t = s)
                <5>1. ~(Position[t] >= p \/ Position[t] < Position[x])
                    BY <1>1, <1>5, <2>2, <3>3
                <5>2. Position[t] < Position[s] \/ t = s
                    BY <1>1, <1>5, <2>2, <3>3
                <5> QED
                    BY <4>1, <5>1, <5>2 DEF Met
            <4> QED
                BY <4>2
        <3> QED
            BY <1>1, <1>5, <3>1, <3>2, <3>3
    <2> QED
        BY <1>4, <2>1, <2>2
<1>7. Met(R, list, x) \subseteq R /\ Met(R, list, s) \subseteq R
    BY DEF Met
<1> QED
    BY <1>4, <1>6, <1>7 DEF x

LEMMA RankMet ==
    ASSUME NEW R \in SUBSET Servers, IsFiniteSet(R), NEW list \in Lists, NEW s \in R
    PROVE  /\ IsFiniteSet(Met(R, list, s))
           /\ Rank(R, list, s) = Cardinality(Met(R, list, s))
           /\ Rank(R, list, s) \in Nat
           /\ s \notin Met(R, list, s)
           /\ Rank(R, list, s) < Cardinality(R)
<1>1. Met(R, list, s) \subseteq R
    BY DEF Met
<1>2. s \notin Met(R, list, s)
    <2>1. ~(Position[s] < Position[s]) /\ Position[list] \in Nat /\ Position[s] \in Nat
        BY PositionAssumption
    <2> QED
        BY <2>1 DEF Met
<1>3. Rank(R, list, s) = Cardinality(Met(R, list, s))
    BY DEF Rank, Met
<1>4. IsFiniteSet(Met(R, list, s)) /\ Cardinality(Met(R, list, s)) \in Nat
    BY <1>1, FS_Subset, FS_CardinalityType
<1>5. Cardinality(Met(R, list, s)) <= Cardinality(R) /\ Cardinality(R) \in Nat
    BY <1>1, FS_Subset, FS_CardinalityType
<1>6. Cardinality(Met(R, list, s)) # Cardinality(R)
    BY <1>1, <1>2, FS_Subset
<1> QED
    BY <1>2, <1>3, <1>4, <1>5, <1>6

(* No two servers have the same rank. *)
LEMMA RanksDiffer ==
    ASSUME NEW R \in SUBSET Servers, IsFiniteSet(R), NEW list \in Lists,
           NEW s \in R, NEW t \in R, Rank(R, list, s) = Rank(R, list, t)
    PROVE  s = t
<1> DEFINE p == Position[list]
<1>1. /\ p \in Nat /\ \A u \in R : Position[u] \in Nat
      /\ Position[s] = Position[t] => s = t
    BY PositionAssumption
<1>2. ASSUME NEW u \in R, NEW v \in R, u \in Met(R, list, v) PROVE Rank(R, list, u) < Rank(R, list, v)
    <2>1. Met(R, list, u) \subseteq Met(R, list, v)
        <3>1. ASSUME NEW x \in Met(R, list, u) PROVE x \in Met(R, list, v)
            <4>1. x \in R /\ Position[x] \in Nat /\ Position[u] \in Nat /\ Position[v] \in Nat
                BY <1>1 DEF Met
            <4>2. IF Position[u] >= p THEN p <= Position[x] /\ Position[x] < Position[u]
                  ELSE Position[x] >= p \/ Position[x] < Position[u]
                BY DEF Met
            <4>3. IF Position[v] >= p THEN p <= Position[u] /\ Position[u] < Position[v]
                  ELSE Position[u] >= p \/ Position[u] < Position[v]
                BY <1>2 DEF Met
            <4>4. IF Position[v] >= p THEN p <= Position[x] /\ Position[x] < Position[v]
                  ELSE Position[x] >= p \/ Position[x] < Position[v]
                BY <1>1, <4>1, <4>2, <4>3
            <4> QED
                BY <4>1, <4>4 DEF Met
        <3> QED
            BY <3>1
    <2>2. u \notin Met(R, list, u) /\ IsFiniteSet(Met(R, list, v))
        BY RankMet
    <2>3. /\ Cardinality(Met(R, list, u)) <= Cardinality(Met(R, list, v))
          /\ Cardinality(Met(R, list, u)) # Cardinality(Met(R, list, v))
        BY <1>2, <2>1, <2>2, FS_Subset
    <2> QED
        BY <2>3, RankMet
<1>3. s = t \/ s \in Met(R, list, t) \/ t \in Met(R, list, s)
    <2>1. CASE Position[s] >= p /\ Position[t] >= p
        BY <1>1, <2>1 DEF Met
    <2>2. CASE Position[s] >= p /\ ~(Position[t] >= p)
        BY <1>1, <2>2 DEF Met
    <2>3. CASE ~(Position[s] >= p) /\ Position[t] >= p
        BY <1>1, <2>3 DEF Met
    <2>4. CASE ~(Position[s] >= p) /\ ~(Position[t] >= p)
        BY <1>1, <2>4 DEF Met
    <2> QED
        BY <2>1, <2>2, <2>3, <2>4
<1>4. Rank(R, list, s) \in Nat /\ Rank(R, list, t) \in Nat
    BY RankMet
<1> QED
    BY <1>2, <1>3, <1>4

LEMMA RankSteps ==
    ASSUME NEW R \in SUBSET Servers, R # {}, IsFiniteSet(R), NEW list \in Lists
    PROVE  /\ Rank(R, list, GetServer(R, list)) = 0
           /\ \A s \in R :
                \/ Rank(R, list, GetNextServer(R, s)) = Rank(R, list, s) + 1
                \/ /\ Rank(R, list, GetNextServer(R, s)) = 0
                   /\ Rank(R, list, s) + 1 = Cardinality(R)
<1>1. Rank(R, list, GetServer(R, list)) = 0
    BY GetServerMet, RankMet, FS_EmptySet
<1>2. ASSUME NEW s \in R
      PROVE  \/ Rank(R, list, GetNextServer(R, s)) = Rank(R, list, s) + 1
             \/ /\ Rank(R, list, GetNextServer(R, s)) = 0
                /\ Rank(R, list, s) + 1 = Cardinality(R)
    <2>1. /\ GetNextServer(R, s) \in R
          /\ \/ Met(R, list, GetNextServer(R, s)) = Met(R, list, s) \cup {s}
             \/ /\ Met(R, list, GetNextServer(R, s)) = {}
                /\ Met(R, list, s) \cup {s} = R
        BY NextServerMet
    <2>2. Cardinality(Met(R, list, s) \cup {s}) = Rank(R, list, s) + 1
        BY RankMet, FS_AddElement
    <2>3. Rank(R, list, GetNextServer(R, s)) = Cardinality(Met(R, list, GetNextServer(R, s)))
        BY <2>1, RankMet
    <2>4. Cardinality({}) = 0
        BY FS_EmptySet
    <2> QED
        BY <2>1, <2>2, <2>3, <2>4
<1> QED
    BY <1>1, <1>2

(* The sequence of the first n servers clockwise from the list. *)
InOrder(R, list, T, n) ==
    T \in Seq(R) /\ Len(T) = n /\ \A k \in 1 .. n : Rank(R, list, T[k]) = k - 1

(* Any sequence of some length that distribute_work can build. *)
Turns(R, list, targets) ==
    /\ targets[0] = <<GetServer(R, list)>>
    /\ \A n \in 1 .. NumberOfReplicas : targets[n] = AddTarget(R, targets[n - 1])

LEMMA AddTargetInOrder ==
    ASSUME NEW R \in SUBSET Servers, R # {}, IsFiniteSet(R), NEW list \in Lists,
           NEW n \in 1 .. Cardinality(R), NEW T, InOrder(R, list, T, n)
    PROVE  InOrder(R, list, AddTarget(R, T), IF n = Cardinality(R) THEN n ELSE n + 1)
<1> DEFINE s == Last(T)
           x == GetNextServer(R, s)
           c == Cardinality(R)
<1>1. T \in Seq(R) /\ Len(T) = n /\ \A k \in 1 .. n : Rank(R, list, T[k]) = k - 1
    BY DEF InOrder
<1>2. c \in Nat /\ n \in Nat /\ n >= 1 /\ n <= c
    BY FS_CardinalityType
<1>3. s = T[n] /\ s \in R /\ Rank(R, list, s) = n - 1
    BY <1>1, <1>2, ElementOfSeq DEF Last
<1> HIDE DEF s, c
<1>4. /\ x \in R /\ Rank(R, list, x) \in Nat /\ Rank(R, list, x) < c
      /\ Rank(R, list, x) = n \/ (Rank(R, list, x) = 0 /\ n = c)
    <2>1. x \in R
        BY <1>3, NextServerMet
    <2>2. Rank(R, list, x) \in Nat /\ Rank(R, list, x) < c
        BY <2>1, RankMet DEF c
    <2>3. Rank(R, list, x) = (n - 1) + 1 \/ (Rank(R, list, x) = 0 /\ (n - 1) + 1 = c)
        BY <1>3, RankSteps DEF c
    <2> QED
        BY <1>2, <2>1, <2>2, <2>3
<1>5. AddTarget(R, T) = IF x \in ToSet(T) THEN T ELSE Append(T, x)
    BY DEF AddTarget, s
<1> HIDE DEF x
<1>6. CASE n = c
    <2>1. Rank(R, list, x) = 0
        BY <1>2, <1>4, <1>6
    <2>2. 1 \in 1 .. n /\ T[1] \in R /\ Rank(R, list, T[1]) = 0
        BY <1>1, <1>2, ElementOfSeq
    <2>3. x = T[1]
        BY <1>4, <2>1, <2>2, RanksDiffer
    <2>4. x \in ToSet(T)
        BY <1>1, <2>2, <2>3, LenProperties DEF ToSet
    <2> QED
        BY <1>5, <1>6, <2>4 DEF c
<1>7. CASE n # c
    <2>1. Rank(R, list, x) = n
        BY <1>4, <1>7
    <2>2. ASSUME NEW k \in 1 .. n PROVE x # T[k]
        BY <1>1, <1>2, <2>1
    <2>3. x \notin ToSet(T)
        BY <1>1, <2>2, LenProperties DEF ToSet
    <2>4. AddTarget(R, T) = Append(T, x)
        BY <1>5, <2>3
    <2>5. /\ Append(T, x) \in Seq(R) /\ Len(Append(T, x)) = n + 1
          /\ \A k \in 1 .. n : Append(T, x)[k] = T[k]
          /\ Append(T, x)[n + 1] = x
        BY <1>1, <1>4, AppendProperties
    <2>6. ASSUME NEW k \in 1 .. n + 1 PROVE Rank(R, list, Append(T, x)[k]) = k - 1
        <3>1. CASE k \in 1 .. n
            BY <1>1, <2>5, <3>1
        <3>2. CASE k = n + 1
            BY <1>2, <2>1, <2>5, <3>2
        <3>3. k \in 1 .. n \/ k = n + 1
            BY <1>2
        <3> QED
            BY <3>1, <3>2, <3>3
    <2>7. InOrder(R, list, Append(T, x), n + 1)
        BY <2>5, <2>6 DEF InOrder
    <2> QED
        BY <1>7, <2>4, <2>7 DEF c
<1> QED
    BY <1>6, <1>7

LEMMA AddTargetTyped ==
    ASSUME NEW R \in SUBSET Servers, NEW T \in Seq(R), T # <<>>
    PROVE  AddTarget(R, T) \in Seq(R) /\ AddTarget(R, T) # <<>> /\ AddTarget(R, T)[1] = T[1]
<1>1. Len(T) \in Nat /\ Len(T) >= 1 /\ Last(T) \in R
    BY EmptySeq, ElementOfSeq DEF Last
<1>2. GetNextServer(R, Last(T)) \in R
    <2> DEFINE s == Last(T)
               beyond == {t \in R : Position[t] > Position[AtOrAfter(R, Position[s])]}
    <2>1. GetNextServer(R, s) = IF beyond # {} THEN First(beyond) ELSE First(R)
        BY DEF GetNextServer
    <2>2. First(R) \in R /\ (beyond # {} => First(beyond) \in R)
        BY <1>1, FirstIsFirst
    <2> QED
        BY <2>1, <2>2
<1>3. AddTarget(R, T) = T \/ AddTarget(R, T) = Append(T, GetNextServer(R, Last(T)))
    BY DEF AddTarget
<1> QED
    BY <1>1, <1>2, <1>3, AppendProperties

(* What distribute_work returns, by what its turns build. *)
LEMMA DistributeWorkTurns ==
    ASSUME NEW R \in SUBSET Servers, R # {}, NEW list \in Lists
    PROVE  \E targets : /\ Turns(R, list, targets)
                        /\ DistributeWork(R, list) = targets[NumberOfReplicas]
                        /\ \A n \in 0 .. NumberOfReplicas :
                              /\ targets[n] \in Seq(R) /\ targets[n] # <<>>
                              /\ targets[n][1] = GetServer(R, list)
<1> DEFINE N == NumberOfReplicas
           S == {T \in Seq(R) : T # <<>> /\ T[1] = GetServer(R, list)}
           none == <<GetServer(R, list)>>
           step == [x \in (1 .. N) \X S |-> AddTarget(R, x[2])]
           Is(f) == f = [n \in 0 .. N |-> IF n = 0 THEN none ELSE AddTarget(R, f[n - 1])]
           targets == CHOOSE f : Is(f)
<1>1. N \in Nat
    BY ReplicasAssumption
<1>2. none \in S
    <2>1. GetServer(R, list) \in R
        BY FirstIsFirst DEF GetServer, AtOrAfter
    <2> HIDE DEF none
    <2>2. none \in Seq(R) /\ none # <<>> /\ none[1] = GetServer(R, list)
        BY <2>1 DEF none
    <2> QED
        BY <2>2
<1>3. \A T \in S : AddTarget(R, T) \in S
    BY AddTargetTyped
<1> HIDE DEF N, none, S
<1>4. step \in [(1 .. N) \X S -> S]
    BY <1>3
<1>5. PICK f \in [0 .. N -> S] : f[0] = none /\ \A n \in 1 .. N : f[n] = step[<<n, f[n - 1]>>]
    <2> HIDE DEF step
    <2>1. Iterates(S, none, N, step) # {}
        BY <1>1, <1>2, <1>4, RecursionTo
    <2> QED
        BY <2>1 DEF Iterates
<1>6. Is(f)
    <2>1. ASSUME NEW n \in 1 .. N PROVE f[n] = AddTarget(R, f[n - 1])
        <3>1. n - 1 \in 0 .. N /\ f[n - 1] \in S
            BY <1>1, <1>5
        <3>2. f[n] = step[<<n, f[n - 1]>>] /\ <<n, f[n - 1]>> \in (1 .. N) \X S
            BY <1>5, <3>1
        <3> QED
            BY <3>2
    <2> HIDE DEF step
    <2>2. f = [n \in 0 .. N |-> f[n]]
        BY <1>5
    <2>3. \A n \in 0 .. N : f[n] = IF n = 0 THEN none ELSE AddTarget(R, f[n - 1])
        <3>1. \A n \in 0 .. N : n = 0 \/ n \in 1 .. N
            BY <1>1
        <3>2. \A n \in 1 .. N : n # 0
            BY <1>1
        <3> QED
            BY <1>5, <2>1, <3>1, <3>2
    <2> QED
        BY <2>2, <2>3
<1>7. Is(targets)
    <2> HIDE DEF Is
    <2> QED
        BY <1>6
<1>8. DistributeWork(R, list) = targets[N]
    BY DEF DistributeWork, N, none
<1>9. targets[0] = none /\ \A n \in 1 .. N : targets[n] = AddTarget(R, targets[n - 1])
    <2> HIDE DEF targets
    <2>1. 0 \in 0 .. N /\ \A n \in 1 .. N : n \in 0 .. N /\ n # 0
        BY <1>1
    <2> QED
        BY <1>7, <2>1
<1> HIDE DEF targets, Is
<1> DEFINE U == {n \in 0 .. N : targets[n] \in S}
<1>10. \A n \in 0 .. N : targets[n] \in S
    <2>1. 0 \in U
        BY <1>1, <1>2, <1>9
    <2>2. ASSUME NEW n \in 1 .. N, n - 1 \in U PROVE n \in U
        BY <1>1, <1>3, <1>9, <2>2
    <2>3. 0 .. N \subseteq U
        <3> HIDE DEF U
        <3> QED
            BY <1>1, <2>1, <2>2, CountingTo
    <2> QED
        BY <2>3
<1>11. Turns(R, list, targets)
    BY <1>9 DEF Turns, N, none
<1> QED
    BY <1>8, <1>10, <1>11 DEF N, S

(* The targets of a list are in the ring, the list's server first. *)
LEMMA DistributeWorkTyped ==
    ASSUME NEW R \in SUBSET Servers, R # {}, NEW list \in Lists
    PROVE  /\ DistributeWork(R, list) \in Seq(R) /\ DistributeWork(R, list) # <<>>
           /\ DistributeWork(R, list)[1] = GetServer(R, list)
<1>1. PICK targets : /\ DistributeWork(R, list) = targets[NumberOfReplicas]
                     /\ \A n \in 0 .. NumberOfReplicas :
                           /\ targets[n] \in Seq(R) /\ targets[n] # <<>>
                           /\ targets[n][1] = GetServer(R, list)
    BY DistributeWorkTurns
<1>2. NumberOfReplicas \in 0 .. NumberOfReplicas
    BY ReplicasAssumption
<1> QED
    BY <1>1, <1>2

(* distribute_work finds the servers next to the list clockwise, each once, *)
(* as many as there are to be copies.                                      *)
LEMMA DistributeWorkIsPreference ==
    ASSUME NEW R \in SUBSET Servers, R # {}, IsFiniteSet(R), NEW list \in Lists
    PROVE  DistributeWork(R, list) = Preference(R, list)
<1> DEFINE N == NumberOfReplicas
           c == Cardinality(R)
           n(m) == IF c <= m THEN c ELSE m + 1
<1>1. N \in Nat /\ c \in Nat /\ c >= 1
    <2>1. c \in Nat /\ c # 0
        BY FS_CardinalityType, FS_EmptySet
    <2> QED
        BY <2>1, ReplicasAssumption
<1>2. PICK targets : /\ Turns(R, list, targets) /\ DistributeWork(R, list) = targets[N]
                     /\ \A m \in 0 .. N : targets[m] \in Seq(R)
    BY DistributeWorkTurns
<1> DEFINE U == {m \in 0 .. N : InOrder(R, list, targets[m], n(m))}
<1>3. 0 \in U
    <2>1. GetServer(R, list) \in R /\ Rank(R, list, GetServer(R, list)) = 0
        BY GetServerMet, RankSteps
    <2>2. targets[0] = <<GetServer(R, list)>>
        BY <1>2 DEF Turns
    <2>3. n(0) = 1
        BY <1>1
    <2>4. InOrder(R, list, targets[0], 1)
        BY <2>1, <2>2 DEF InOrder
    <2> HIDE DEF n
    <2> QED
        BY <1>1, <2>3, <2>4
<1>4. ASSUME NEW m \in 1 .. N, m - 1 \in U PROVE m \in U
    <2>1. InOrder(R, list, targets[m - 1], n(m - 1)) /\ targets[m] = AddTarget(R, targets[m - 1])
        BY <1>4, <1>2 DEF Turns
    <2>2. n(m - 1) \in 1 .. c /\ n(m) = IF n(m - 1) = c THEN n(m - 1) ELSE n(m - 1) + 1
        BY <1>1
    <2> HIDE DEF n
    <2>3. InOrder(R, list, targets[m], n(m))
        BY <2>1, <2>2, AddTargetInOrder
    <2> QED
        BY <1>1, <2>3
<1>5. InOrder(R, list, targets[N], n(N))
    <2>1. 0 .. N \subseteq U
        <3> HIDE DEF U
        <3> QED
            BY <1>1, <1>3, <1>4, CountingTo
    <2> HIDE DEF n
    <2> QED
        BY <1>1, <2>1
<1> DEFINE T == targets[N]
           len == n(N)
<1>6. T \in Seq(R) /\ Len(T) = len /\ \A k \in 1 .. len : Rank(R, list, T[k]) = k - 1
    BY <1>5 DEF InOrder
<1>7. len = IF c <= N THEN c ELSE N + 1
    OBVIOUS
<1> HIDE DEF T, len, n
<1>8. ASSUME NEW k \in 1 .. len PROVE T[k] = CHOOSE s \in R : Rank(R, list, s) = k - 1
    <2>1. T[k] \in R /\ Rank(R, list, T[k]) = k - 1
        BY <1>6, ElementOfSeq
    <2> DEFINE u == CHOOSE s \in R : Rank(R, list, s) = k - 1
    <2>2. u \in R /\ Rank(R, list, u) = k - 1
        BY <2>1
    <2> HIDE DEF u
    <2>3. T[k] = u
        BY <2>1, <2>2, RanksDiffer
    <2> QED
        BY <2>3 DEF u
<1>9. T = [k \in 1 .. len |-> CHOOSE s \in R : Rank(R, list, s) = k - 1]
    <2>1. T = [k \in 1 .. len |-> T[k]]
        BY <1>6, LenProperties
    <2> QED
        BY <1>8, <2>1
<1> QED
    BY <1>2, <1>7, <1>9 DEF Preference, T
-----------------------------------------------------------------------------
(* Messages and sockets. *)

LEMMA PostType ==
  ASSUME NEW ch \in [Workers -> [Workers -> Seq(Message)]],
         NEW v \in Workers, NEW to, NEW m \in Message
  PROVE  Post(ch, v, to, m) \in [Workers -> [Workers -> Seq(Message)]]
<1>1. \A w \in Workers : ch[v][w] \in Seq(Message) /\ Append(ch[v][w], m) \in Seq(Message)
  OBVIOUS
<1>2. [w \in Workers |-> IF w \in to THEN Append(ch[v][w], m) ELSE ch[v][w]]
         \in [Workers -> Seq(Message)]
  BY <1>1
<1> QED
  BY <1>2 DEF Post

LEMMA TookType ==
  ASSUME MembershipTypeOK, NEW u \in Workers, NEW v \in Workers, chan[u][v] # <<>>
  PROVE  /\ Took(u, v) \in [Workers -> [Workers -> Seq(Message)]]
         /\ Head(chan[u][v]) \in Message
<1>1. chan[u][v] \in Seq(Message)
  BY DEF MembershipTypeOK
<1>2. Tail(chan[u][v]) \in Seq(Message) /\ Head(chan[u][v]) \in Message
  BY <1>1
<1> QED
  BY <1>2 DEF Took, MembershipTypeOK

LEMMA BroadcastType ==
  ASSUME NEW R \in SUBSET Workers, NEW u \in Workers
  PROVE  [type |-> "BROADCAST_RING", ring |-> R \cup {u}] \in Message
<1>1. R \cup {u} \in (SUBSET Workers) \ {{}}
  OBVIOUS
<1> QED
  BY <1>1 DEF Message

LEMMA BroadcastRing ==
  ASSUME NEW m \in Message, m.type = "BROADCAST_RING"
  PROVE  m.ring \in SUBSET Workers /\ m.ring # {}
BY DEF Message

(* One step per action: each leaves every ring covered by sockets.         *)
LEMMA ConnectedStep ==
  ASSUME MembershipTypeOK, RoutesConnected, [Next]_vars
  PROVE  MembershipTypeOK' /\ RoutesConnected'
<1> USE DEF MembershipTypeOK, RoutesConnected
<1>1. ASSUME NEW w \in Workers, Start(w)
      PROVE  MembershipTypeOK' /\ RoutesConnected'
  <2>1. CASE StartFirst(w)
    <3>1. ring' = [ring EXCEPT ![w] = {w}] /\ push' = [push EXCEPT ![w] = {}]
      BY <2>1 DEF StartFirst
    <3>2. chan' = chan /\ up' = up \cup {w}
      BY <1>1, <2>1 DEF Start, StartFirst
    <3>3. ring'[w] = {w} /\ push'[w] = {} /\ \A x \in up \ {w} : ring'[x] = ring[x] /\ push'[x] = push[x]
      BY <3>1
    <3>4. RoutesConnected'
      BY <3>2, <3>3
    <3>5. ring' \in [Workers -> SUBSET Workers] /\ push' \in [Workers -> SUBSET Workers]
      BY <3>1
    <3> QED
      BY <3>2, <3>4, <3>5
  <2>2. CASE StartJoining(w)
    <3>1. Seed[w] \in Workers
      BY <2>2, SeedAssumption DEF StartJoining
    <3>2. [type |-> "JOIN_RING"] \in Message
      BY DEF Message
    <3>3. chan' \in [Workers -> [Workers -> Seq(Message)]]
      BY <2>2, <3>2, PostType DEF StartJoining
    <3>4. ring' = [ring EXCEPT ![w] = {Seed[w]}] /\ push' = [push EXCEPT ![w] = {Seed[w]}]
      BY <2>2 DEF StartJoining
    <3>5. up' = up \cup {w}
      BY <1>1 DEF Start
    <3>6. /\ ring'[w] = {Seed[w]} /\ push'[w] = {Seed[w]}
          /\ \A x \in up \ {w} : ring'[x] = ring[x] /\ push'[x] = push[x]
      BY <3>4
    <3>7. RoutesConnected'
      BY <3>5, <3>6
    <3>8. /\ up' \subseteq Workers
          /\ ring' \in [Workers -> SUBSET Workers]
          /\ push' \in [Workers -> SUBSET Workers]
      BY <3>1, <3>4, <3>5
    <3>9. MembershipTypeOK'
      BY ONLY <3>3, <3>8 DEF MembershipTypeOK
    <3> QED
      BY ONLY <3>7, <3>9
  <2> QED
    BY <1>1, <2>1, <2>2 DEF Start
<1>2. ASSUME NEW w \in Workers, Stop(w)
      PROVE  MembershipTypeOK' /\ RoutesConnected'
  <2>1. PICK P \in SUBSET Workers, Q \in SUBSET Workers :
            chan' = [u \in Workers |-> [v \in Workers |->
                      IF (v = w /\ u \in P) \/ (u = w /\ v \in Q)
                      THEN <<>> ELSE chan[u][v]]]
    BY <1>2 DEF Stop
  <2>2. chan' \in [Workers -> [Workers -> Seq(Message)]]
    BY <2>1
  <2> QED
    BY <1>2, <2>2 DEF Stop
<1>3. ASSUME NEW u \in Workers, NEW v \in Workers, RecvJoin(u, v)
      PROVE  MembershipTypeOK' /\ RoutesConnected'
  <2>1. Took(u, v) \in [Workers -> [Workers -> Seq(Message)]]
    BY <1>3, TookType DEF RecvJoin, NextIs
  <2>2. /\ ring' = [ring EXCEPT ![v] = @ \cup {u}]
        /\ push' = [push EXCEPT ![v] = @ \cup {u}]
        /\ up' = up
    BY <1>3 DEF RecvJoin
  <2>3. [type |-> "BROADCAST_RING", ring |-> ring'[v]] \in Message
    <3>1. PICK told : told = ring'[v]
      OBVIOUS
    <3>2. told = ring[v] \cup {u} /\ ring[v] \in SUBSET Workers
      BY <2>2, <3>1
    <3> QED
      BY <3>1, <3>2, BroadcastType
  <2>4. chan' \in [Workers -> [Workers -> Seq(Message)]]
    BY <1>3, <2>1, <2>3, PostType DEF RecvJoin
  <2>5. /\ ring'[v] = ring[v] \cup {u} /\ push'[v] = push[v] \cup {u}
        /\ \A x \in up \ {v} : ring'[x] = ring[x] /\ push'[x] = push[x]
    BY <2>2
  <2>6. RoutesConnected'
    BY <2>2, <2>5
  <2>7. ring' \in [Workers -> SUBSET Workers] /\ push' \in [Workers -> SUBSET Workers]
    BY <2>2
  <2> QED
    BY <2>2, <2>4, <2>6, <2>7
<1>4. ASSUME NEW u \in Workers, NEW v \in Workers, RecvBroadcast(u, v)
      PROVE  MembershipTypeOK' /\ RoutesConnected'
  <2>1. /\ Took(u, v) \in [Workers -> [Workers -> Seq(Message)]]
        /\ Head(chan[u][v]) \in Message
    BY <1>4, TookType DEF RecvBroadcast, NextIs
  <2>2. Head(chan[u][v]).type = "BROADCAST_RING"
    BY <1>4 DEF RecvBroadcast, NextIs
  <2> DEFINE told == Head(chan[u][v]).ring
  <2>4. told \in SUBSET Workers /\ told # {}
    BY <2>1, <2>2, BroadcastRing
  <2>3. /\ ring' = [ring EXCEPT ![v] = told]
        /\ push' = [push EXCEPT ![v] = @ \cup (told \ {v})]
        /\ up' = up /\ chan' = Took(u, v)
    BY <1>4 DEF RecvBroadcast
  <2> HIDE DEF told
  <2>5. /\ ring'[v] = told /\ push'[v] = push[v] \cup (told \ {v})
        /\ \A x \in up \ {v} : ring'[x] = ring[x] /\ push'[x] = push[x]
    BY <2>3
  <2>6. RoutesConnected'
    BY <2>3, <2>4, <2>5
  <2>7. ring' \in [Workers -> SUBSET Workers] /\ push' \in [Workers -> SUBSET Workers]
    BY <2>3, <2>4
  <2> QED
    BY <2>1, <2>3, <2>6, <2>7
<1>5. ASSUME NEW u \in Workers, NEW v \in Workers, RecvWork(u, v)
      PROVE  MembershipTypeOK' /\ RoutesConnected'
  BY <1>5, TookType DEF RecvWork, NextIs
<1>6. ASSUME NEW w \in Workers, NEW list \in Lists, Request(w, list)
      PROVE  MembershipTypeOK' /\ RoutesConnected'
  <2>1. [type |-> "RECV_WORK", list |-> list] \in Message
    BY DEF Message
  <2>2. chan' \in [Workers -> [Workers -> Seq(Message)]]
    BY <1>6, <2>1, PostType DEF Request
  <2> QED
    BY <1>6, <2>2 DEF Request
<1>7. CASE UNCHANGED vars
  BY <1>7 DEF vars
<1> QED
  BY <1>1, <1>2, <1>3, <1>4, <1>5, <1>6, <1>7 DEF Next, Receive

-----------------------------------------------------------------------------
(* The types, which need that a ring is never empty: distribute_work on an *)
(* empty one would return no server.                                       *)

LEMMA SeqSubset ==
    ASSUME NEW S, NEW T, S \subseteq T, NEW s \in Seq(S)
    PROVE  s \in Seq(T)
<1>1. Len(s) \in Nat /\ s = [i \in 1 .. Len(s) |-> s[i]] /\ \A i \in 1 .. Len(s) : s[i] \in T
    BY LenProperties, ElementOfSeq
<1> QED
    BY <1>1

LEMMA TypeInit == Init => TypeOK /\ RoutesConnected
<1> SUFFICES ASSUME Init PROVE TypeOK /\ RoutesConnected
    OBVIOUS
<1>1. MembershipTypeOK /\ RoutesConnected
    BY DEF Init, MembershipTypeOK, RoutesConnected
<1>2. holds \in [Workers -> SUBSET Lists] /\ asked \in Seq([list : Lists, targets : Seq(Workers)])
    BY EmptySeq DEF Init
<1> QED
    BY <1>1, <1>2 DEF TypeOK

LEMMA TypeStep == ASSUME TypeOK, RoutesConnected, [Next]_vars PROVE TypeOK'
<1>1. MembershipTypeOK'
    BY ConnectedStep DEF TypeOK
<1>2. holds' \in [Workers -> SUBSET Lists] /\ asked' \in Seq([list : Lists, targets : Seq(Workers)])
    <2>1. CASE UNCHANGED <<holds, asked>>
        BY <2>1 DEF TypeOK
    <2>2. ASSUME NEW u \in Workers, NEW v \in Workers, RecvWork(u, v)
          PROVE  holds' \in [Workers -> SUBSET Lists] /\ UNCHANGED asked
        <3>1. Head(chan[u][v]) \in Message /\ Head(chan[u][v]).type = "RECV_WORK"
            BY <2>2, TookType DEF RecvWork, NextIs, TypeOK
        <3>2. Head(chan[u][v]).list \in Lists
            BY <3>1 DEF Message
        <3> QED
            BY <2>2, <3>2 DEF RecvWork, TypeOK
    <2>3. ASSUME NEW w \in Workers, NEW list \in Lists, Request(w, list)
          PROVE  /\ holds' \in [Workers -> SUBSET Lists]
                 /\ asked' \in Seq([list : Lists, targets : Seq(Workers)])
        <3> DEFINE targets == DistributeWork(ring[w], list)
        <3>1. ring[w] \in SUBSET Workers /\ ring[w] # {}
            BY <2>3 DEF Request, RoutesConnected, TypeOK, MembershipTypeOK
        <3>2. targets \in Seq(Workers)
            BY <3>1, DistributeWorkTyped, SeqSubset DEF Workers
        <3>3. asked' = Append(asked, [list |-> list, targets |-> targets])
            BY <2>3 DEF Request
        <3>4. holds' \in [Workers -> SUBSET Lists]
            BY <2>3 DEF Request, TypeOK
        <3> HIDE DEF targets
        <3>5. [list |-> list, targets |-> targets] \in [list : Lists, targets : Seq(Workers)]
            BY <3>2
        <3> QED
            BY <3>3, <3>4, <3>5, AppendProperties DEF TypeOK
    <2>4. ASSUME NEW w \in Workers, Start(w) \/ Stop(w) PROVE UNCHANGED <<holds, asked>>
        BY <2>4 DEF Start, Stop
    <2>5. ASSUME NEW u \in Workers, NEW v \in Workers, RecvJoin(u, v) \/ RecvBroadcast(u, v)
          PROVE  UNCHANGED <<holds, asked>>
        BY <2>5 DEF RecvJoin, RecvBroadcast
    <2>6. CASE UNCHANGED vars
        BY <2>1, <2>6 DEF vars
    <2>7. CASE Next
        <3>1. ASSUME NEW u \in Workers, NEW v \in Workers, Receive(u, v)
              PROVE  UNCHANGED <<holds, asked>> \/ RecvWork(u, v)
            BY <2>5, <3>1 DEF Receive
        <3>2. ASSUME NEW u \in Workers, NEW v \in Workers, Receive(u, v)
              PROVE  /\ holds' \in [Workers -> SUBSET Lists]
                     /\ asked' \in Seq([list : Lists, targets : Seq(Workers)])
            <4>1. CASE RecvWork(u, v)
                BY <2>2, <4>1 DEF TypeOK
            <4> QED
                BY <2>1, <3>1, <3>2, <4>1
        <3> QED
            BY <2>1, <2>3, <2>4, <2>7, <3>2 DEF Next
    <2> QED
        BY <2>6, <2>7
<1> QED
    BY <1>1, <1>2 DEF TypeOK

LEMMA AlwaysTyped == Spec => [](TypeOK /\ RoutesConnected)
<1>1. TypeOK /\ RoutesConnected /\ [Next]_vars => (TypeOK /\ RoutesConnected)'
    <2>1. TypeOK => MembershipTypeOK
        BY DEF TypeOK
    <2> QED
        BY <2>1, ConnectedStep, TypeStep
<1> QED
    BY <1>1, TypeInit, PTL DEF Spec

(* Every variable keeps its type: in particular the targets distribute_work *)
(* returns are always workers.                                             *)
THEOREM RingTypes == Spec => []TypeOK
BY AlwaysTyped, PTL

(* A worker never routes to a worker it has no socket to, however joins,   *)
(* broadcasts, stops and restarts interleave: rings are replaced as a      *)
(* whole by BROADCAST_RING, sockets only ever get added.                   *)
THEOREM AlwaysConnected == Spec => []RoutesConnected
BY AlwaysTyped, PTL

(* Whatever ring a worker has come to, and wherever the servers and the    *)
(* list lie on it, distribute_work returns the servers next to the list.   *)
THEOREM AlwaysNext == Spec => []TargetsAreNext
<1>1. TypeOK /\ RoutesConnected => TargetsAreNext
    <2> SUFFICES ASSUME TypeOK, RoutesConnected, NEW w \in up, NEW list \in Lists
                 PROVE  DistributeWork(ring[w], list) = Preference(ring[w], list)
        BY DEF TargetsAreNext
    <2>1. ring[w] \in SUBSET Servers /\ ring[w] # {}
        BY DEF TypeOK, MembershipTypeOK, RoutesConnected, Workers
    <2>2. IsFiniteSet(ring[w])
        BY <2>1, ServersAssumption, FS_Subset
    <2> QED
        BY <2>1, <2>2, DistributeWorkIsPreference
<1> QED
    BY <1>1, AlwaysTyped, PTL

-----------------------------------------------------------------------------
(* What is in a channel after a send and after a receive. *)

Channels == [Workers -> [Workers -> Seq(Message)]]

(* The places of the messages of a type that x sent y. *)
Of(ch, x, y, type) == {k \in 1 .. Len(ch[x][y]) : ch[x][y][k].type = type}

LEMMA PostContent ==
    ASSUME NEW ch \in Channels, NEW v \in Workers, NEW to, NEW m \in Message,
           NEW x \in Workers, NEW y \in Workers
    PROVE  /\ ch[x][y] \in Seq(Message)
           /\ Len(ch[x][y]) \in Nat
           /\ x = v /\ y \in to =>
                 /\ Len(Post(ch, v, to, m)[x][y]) = Len(ch[x][y]) + 1
                 /\ \A k \in 1 .. Len(ch[x][y]) : Post(ch, v, to, m)[x][y][k] = ch[x][y][k]
                 /\ Post(ch, v, to, m)[x][y][Len(ch[x][y]) + 1] = m
           /\ ~(x = v /\ y \in to) => Post(ch, v, to, m)[x][y] = ch[x][y]
<1>1. ch[x][y] \in Seq(Message) /\ ch \in [Workers -> [Workers -> Seq(Message)]]
    BY DEF Channels
<1>2. Post(ch, v, to, m)[x][y] = IF x = v /\ y \in to THEN Append(ch[x][y], m) ELSE ch[x][y]
    BY <1>1 DEF Post
<1>3. /\ Len(Append(ch[x][y], m)) = Len(ch[x][y]) + 1
      /\ \A k \in 1 .. Len(ch[x][y]) : Append(ch[x][y], m)[k] = ch[x][y][k]
      /\ Append(ch[x][y], m)[Len(ch[x][y]) + 1] = m
    BY <1>1, AppendProperties
<1> QED
    BY <1>1, <1>2, <1>3, LenProperties

(* A message of another type changes nothing among those of this one; one  *)
(* of this type comes last.                                                *)
LEMMA PostOf ==
    ASSUME NEW ch \in Channels, NEW v \in Workers, NEW to, NEW m \in Message,
           NEW x \in Workers, NEW y \in Workers, NEW type
    PROVE  /\ x = v /\ y \in to /\ m.type = type =>
                 Of(Post(ch, v, to, m), x, y, type) = Of(ch, x, y, type) \cup {Len(ch[x][y]) + 1}
           /\ ~(x = v /\ y \in to /\ m.type = type) =>
                 Of(Post(ch, v, to, m), x, y, type) = Of(ch, x, y, type)
           /\ \A k \in Of(ch, x, y, type) : Post(ch, v, to, m)[x][y][k] = ch[x][y][k]
<1> DEFINE c == Post(ch, v, to, m)[x][y]
           n == Len(ch[x][y])
<1>1. n \in Nat
    BY PostContent
<1>2. CASE ~(x = v /\ y \in to)
    BY <1>2, PostContent DEF Of
<1>3. CASE x = v /\ y \in to
    <2>1. Len(c) = n + 1 /\ (\A k \in 1 .. n : c[k] = ch[x][y][k]) /\ c[n + 1] = m
        BY <1>3, PostContent
    <2>2. 1 .. n + 1 = 1 .. n \cup {n + 1}
        BY <1>1
    <2>3. Of(Post(ch, v, to, m), x, y, type) = {k \in 1 .. n + 1 : c[k].type = type}
        BY <2>1 DEF Of
    <2>4. Of(ch, x, y, type) = {k \in 1 .. n : ch[x][y][k].type = type}
        BY DEF Of
    <2> HIDE DEF c, n
    <2>5. \A k \in Of(ch, x, y, type) : c[k] = ch[x][y][k]
        BY <2>1, <2>4
    <2>6. {k \in 1 .. n + 1 : c[k].type = type}
             = {k \in 1 .. n : ch[x][y][k].type = type} \cup {k \in {n + 1} : m.type = type}
        BY <2>1, <2>2
    <2> QED
        BY <1>3, <2>3, <2>4, <2>5, <2>6 DEF c, n
<1> QED
    BY <1>2, <1>3

(* Taking the next message moves the others up.                            *)
LEMMA TookContent ==
    ASSUME chan \in Channels, NEW u \in Workers, NEW v \in Workers, chan[u][v] # <<>>,
           NEW x \in Workers, NEW y \in Workers
    PROVE  /\ Took(u, v) \in Channels
           /\ Head(chan[u][v]) = chan[u][v][1] /\ Head(chan[u][v]) \in Message
           /\ Len(chan[u][v]) \in Nat \ {0}
           /\ x = u /\ y = v =>
                 /\ Len(Took(u, v)[x][y]) = Len(chan[u][v]) - 1
                 /\ \A k \in 1 .. Len(chan[u][v]) - 1 : Took(u, v)[x][y][k] = chan[u][v][k + 1]
           /\ ~(x = u /\ y = v) => Took(u, v)[x][y] = chan[x][y]
<1>1. chan[u][v] \in Seq(Message) /\ chan \in [Workers -> [Workers -> Seq(Message)]]
    BY DEF Channels
<1>2. /\ Tail(chan[u][v]) \in Seq(Message)
      /\ Len(Tail(chan[u][v])) = Len(chan[u][v]) - 1
      /\ \A k \in 1 .. Len(Tail(chan[u][v])) : Tail(chan[u][v])[k] = chan[u][v][k + 1]
      /\ Len(chan[u][v]) \in Nat \ {0} /\ Head(chan[u][v]) \in Message
    BY <1>1, HeadTailProperties, EmptySeq
<1>3. Head(chan[u][v]) = chan[u][v][1]
    BY <1>1
<1>4. Took(u, v) \in [Workers -> [Workers -> Seq(Message)]]
    BY <1>1, <1>2 DEF Took
<1>5. Took(u, v)[x][y] = IF x = u /\ y = v THEN Tail(chan[u][v]) ELSE chan[x][y]
    BY <1>1 DEF Took
<1> QED
    BY <1>2, <1>3, <1>4, <1>5 DEF Channels

LEMMA TookOf ==
    ASSUME chan \in Channels, NEW u \in Workers, NEW v \in Workers, chan[u][v] # <<>>,
           NEW x \in Workers, NEW y \in Workers, NEW type
    PROVE  /\ x = u /\ y = v =>
                 /\ \A k \in Of(Took(u, v), x, y, type) :
                       k + 1 \in Of(chan, x, y, type) /\ Took(u, v)[x][y][k] = chan[x][y][k + 1]
                 /\ \A k \in Of(chan, x, y, type) : k = 1 \/ k - 1 \in Of(Took(u, v), x, y, type)
           /\ ~(x = u /\ y = v) =>
                 /\ Of(Took(u, v), x, y, type) = Of(chan, x, y, type)
                 /\ Took(u, v)[x][y] = chan[x][y]
<1> DEFINE c == Took(u, v)[x][y]
           n == Len(chan[u][v])
<1>1. CASE ~(x = u /\ y = v)
    BY <1>1, TookContent DEF Of
<1>2. CASE x = u /\ y = v
    <2>1. n \in Nat \ {0} /\ Len(c) = n - 1 /\ \A k \in 1 .. n - 1 : c[k] = chan[x][y][k + 1]
        BY <1>2, TookContent
    <2>2. Of(Took(u, v), x, y, type) = {k \in 1 .. n - 1 : c[k].type = type}
        BY <2>1 DEF Of
    <2>3. Of(chan, x, y, type) = {k \in 1 .. n : chan[x][y][k].type = type}
        BY <1>2 DEF Of
    <2> HIDE DEF c, n
    <2>4. \A k \in 1 .. n - 1 : k + 1 \in 1 .. n
        BY <2>1
    <2>5. ASSUME NEW k \in 1 .. n PROVE k = 1 \/ (k - 1 \in 1 .. n - 1 /\ (k - 1) + 1 = k)
        BY <2>1
    <2>6. \A k \in Of(Took(u, v), x, y, type) :
                       k + 1 \in Of(chan, x, y, type) /\ c[k] = chan[x][y][k + 1]
        BY <2>1, <2>2, <2>3, <2>4
    <2>7. \A k \in Of(chan, x, y, type) : k = 1 \/ k - 1 \in Of(Took(u, v), x, y, type)
        BY <2>1, <2>2, <2>3, <2>5
    <2> QED
        BY <1>2, <2>6, <2>7 DEF c
<1> QED
    BY <1>1, <1>2

-----------------------------------------------------------------------------
(* No request is lost between the workers, when none is stopped with       *)
(* messages under way.                                                     *)

(* The message of a list is under way to t. *)
Sent(ch, list, t) ==
    \E u \in Workers : \E k \in Of(ch, u, t, "RECV_WORK") : ch[u][t][k].list = list

Handled(request) ==
    \E t \in Workers :
        /\ request.targets # <<>> /\ t = request.targets[1]
        /\ request.list \in holds[t] \/ Sent(chan, request.list, t)

HandledInv == TypeOK /\ RoutesConnected /\ \A k \in 1 .. Len(asked) : Handled(asked[k])

LEMMA SentKept ==
    ASSUME NEW ch \in Channels, NEW v \in Workers, NEW to, NEW m \in Message,
           NEW list, NEW t \in Workers, Sent(ch, list, t)
    PROVE  Sent(Post(ch, v, to, m), list, t)
<1>1. PICK u \in Workers : \E k \in Of(ch, u, t, "RECV_WORK") : ch[u][t][k].list = list
    BY DEF Sent
<1>2. PICK k \in Of(ch, u, t, "RECV_WORK") : ch[u][t][k].list = list
    BY <1>1
<1>3. k \in Of(Post(ch, v, to, m), u, t, "RECV_WORK") /\ Post(ch, v, to, m)[u][t][k] = ch[u][t][k]
    BY <1>2, PostOf
<1> QED
    BY <1>2, <1>3 DEF Sent

LEMMA SentKeptOrNext ==
    ASSUME chan \in Channels, NEW u \in Workers, NEW v \in Workers, chan[u][v] # <<>>,
           NEW list, NEW t \in Workers, Sent(chan, list, t)
    PROVE  \/ Sent(Took(u, v), list, t)
           \/ t = v /\ Head(chan[u][v]).type = "RECV_WORK" /\ Head(chan[u][v]).list = list
<1>1. PICK x \in Workers : \E k \in Of(chan, x, t, "RECV_WORK") : chan[x][t][k].list = list
    BY DEF Sent
<1>2. PICK k \in Of(chan, x, t, "RECV_WORK") : chan[x][t][k].list = list
    BY <1>1
<1>3. CASE ~(x = u /\ t = v)
    <2>1. k \in Of(Took(u, v), x, t, "RECV_WORK") /\ Took(u, v)[x][t] = chan[x][t]
        BY <1>2, <1>3, TookOf
    <2> QED
        BY <1>2, <2>1 DEF Sent
<1>4. CASE x = u /\ t = v /\ k = 1
    <2>1. Head(chan[u][v]) = chan[u][v][1]
        BY TookContent
    <2> QED
        BY <1>2, <1>4, <2>1 DEF Of
<1>5. CASE x = u /\ t = v /\ k # 1
    <2>1. k - 1 \in Of(Took(u, v), u, v, "RECV_WORK")
        BY <1>2, <1>5, TookOf
    <2>2. Took(u, v)[u][v][k - 1] = chan[u][v][(k - 1) + 1] /\ (k - 1) + 1 = k
        <3>1. k \in Nat
            BY <1>2 DEF Of
        <3> QED
            BY <2>1, <3>1, TookOf
    <2> QED
        BY <1>2, <1>5, <2>1, <2>2 DEF Sent
<1> QED
    BY <1>3, <1>4, <1>5

LEMMA AskedList == ASSUME TypeOK, NEW k \in 1 .. Len(asked) PROVE asked[k].list \in Lists
<1>1. asked \in Seq([list : Lists, targets : Seq(Workers)])
    BY DEF TypeOK
<1>2. asked[k] \in [list : Lists, targets : Seq(Workers)]
    BY <1>1, ElementOfSeq
<1> QED
    BY <1>2

(* Nothing is taken from a database, so that only what is under way can be *)
(* lost.                                                                   *)
LEMMA HandledKeeps ==
    ASSUME HandledInv, TypeOK', RoutesConnected', UNCHANGED asked,
           \A t \in Workers : holds[t] \subseteq holds'[t],
           \A list \in Lists, t \in Workers :
                Sent(chan, list, t) => Sent(chan, list, t)' \/ list \in holds'[t]
    PROVE  HandledInv'
<1>1. ASSUME NEW k \in 1 .. Len(asked) PROVE Handled(asked[k])'
    <2>1. asked[k].list \in Lists
        BY AskedList DEF HandledInv
    <2>2. PICK t \in Workers : /\ asked[k].targets # <<>> /\ t = asked[k].targets[1]
                               /\ asked[k].list \in holds[t] \/ Sent(chan, asked[k].list, t)
        BY DEF HandledInv, Handled
    <2>3. asked[k].list \in holds'[t] \/ Sent(chan, asked[k].list, t)'
        BY <2>1, <2>2
    <2> QED
        BY <2>2, <2>3 DEF Handled
<1> QED
    BY <1>1 DEF HandledInv

LEMMA HandledStep == ASSUME Serialized, HandledInv, [Next]_vars PROVE HandledInv'
<1>1. TypeOK /\ RoutesConnected /\ MembershipTypeOK /\ chan \in Channels
    BY DEF HandledInv, TypeOK, MembershipTypeOK, Channels
<1>2. TypeOK' /\ RoutesConnected'
    BY <1>1, TypeStep, ConnectedStep
<1>3. CASE UNCHANGED vars
    BY <1>2, <1>3 DEF vars, HandledInv, Handled, Sent, Of
<1>4. ASSUME NEW w \in Workers, Start(w) PROVE HandledInv'
    <2>1. UNCHANGED <<holds, asked>>
        BY <1>4 DEF Start
    <2>2. \A list \in Lists, t \in Workers : Sent(chan, list, t) => Sent(chan, list, t)'
        <3>1. CASE StartFirst(w)
            BY <3>1 DEF StartFirst, Sent, Of
        <3>2. CASE StartJoining(w)
            <4>1. [type |-> "JOIN_RING"] \in Message
                BY DEF Message
            <4> DEFINE c == Post(chan, w, {Seed[w]}, [type |-> "JOIN_RING"])
            <4>2. chan' = c
                BY <3>2 DEF StartJoining
            <4>3. \A list \in Lists, t \in Workers : Sent(chan, list, t) => Sent(c, list, t)
                BY <1>1, <4>1, SentKept
            <4> HIDE DEF c
            <4> QED
                BY <4>2, <4>3 DEF Sent, Of
        <3> QED
            BY <1>4, <3>1, <3>2 DEF Start
    <2> QED
        BY <1>2, <2>1, <2>2, HandledKeeps
<1>5. ASSUME NEW w \in Workers, Stop(w) PROVE HandledInv'
    <2>1. UNCHANGED <<holds, asked>> /\ Quiet
        BY <1>5 DEF Stop
    <2>2. \A list \in Lists, t \in Workers : ~Sent(chan, list, t)
        <3>1. \A u, v \in Workers : Of(chan, u, v, "RECV_WORK") = {}
            <4>1. Len(<<>>) = 0
                OBVIOUS
            <4> QED
                BY <2>1, <4>1 DEF Quiet, Of
        <3> QED
            BY <3>1 DEF Sent
    <2> QED
        BY <1>2, <2>1, <2>2, HandledKeeps
<1>6. ASSUME NEW u \in Workers, NEW v \in Workers, RecvJoin(u, v) PROVE HandledInv'
    <2>1. UNCHANGED <<holds, asked>> /\ chan[u][v] # <<>> /\ Head(chan[u][v]).type = "JOIN_RING"
        BY <1>6 DEF RecvJoin, NextIs
    <2> DEFINE m == [type |-> "BROADCAST_RING", ring |-> ring'[v]]
               c == Post(Took(u, v), v, push'[v], m)
    <2>2. ring'[v] = ring[v] \cup {u} /\ chan' = c
        BY <1>1, <1>6 DEF RecvJoin, MembershipTypeOK
    <2>3. m \in Message
        <3>1. ring[v] \in SUBSET Workers
            BY <1>1 DEF MembershipTypeOK
        <3> QED
            BY <2>2, <3>1, BroadcastType
    <2>4. Took(u, v) \in Channels
        BY <1>1, <2>1, TookContent
    <2>5. ASSUME NEW list \in Lists, NEW t \in Workers, Sent(chan, list, t) PROVE Sent(chan, list, t)'
        <3>1. Sent(Took(u, v), list, t)
            BY <1>1, <2>1, <2>5, SentKeptOrNext
        <3> HIDE DEF m
        <3>2. Sent(c, list, t)
            BY <2>3, <2>4, <3>1, SentKept
        <3> HIDE DEF c
        <3> QED
            BY <2>2, <3>2 DEF Sent, Of
    <2> QED
        BY <1>2, <2>1, <2>5, HandledKeeps
<1>7. ASSUME NEW u \in Workers, NEW v \in Workers, RecvBroadcast(u, v) PROVE HandledInv'
    <2>1. /\ UNCHANGED <<holds, asked>> /\ chan[u][v] # <<>>
          /\ Head(chan[u][v]).type = "BROADCAST_RING" /\ chan' = Took(u, v)
        BY <1>7 DEF RecvBroadcast, NextIs
    <2>2. \A list \in Lists, t \in Workers : Sent(chan, list, t) => Sent(Took(u, v), list, t)
        BY <1>1, <2>1, SentKeptOrNext
    <2>3. \A list \in Lists, t \in Workers : Sent(chan, list, t) => Sent(chan, list, t)'
        BY <2>1, <2>2 DEF Sent, Of
    <2> QED
        BY <1>2, <2>1, <2>3, HandledKeeps
<1>8. ASSUME NEW u \in Workers, NEW v \in Workers, RecvWork(u, v) PROVE HandledInv'
    <2>1. /\ UNCHANGED asked /\ chan[u][v] # <<>> /\ chan' = Took(u, v)
          /\ holds' = [holds EXCEPT ![v] = @ \cup {Head(chan[u][v]).list}]
        BY <1>8 DEF RecvWork, NextIs
    <2>2. (\A t \in Workers : holds[t] \subseteq holds'[t]) /\ Head(chan[u][v]).list \in holds'[v]
        BY <1>1, <2>1 DEF TypeOK
    <2>3. \A list \in Lists, t \in Workers :
             Sent(chan, list, t) => Sent(Took(u, v), list, t) \/ list \in holds'[t]
        BY <1>1, <2>1, <2>2, SentKeptOrNext
    <2>4. \A list \in Lists, t \in Workers :
             Sent(chan, list, t) => Sent(chan, list, t)' \/ list \in holds'[t]
        BY <2>1, <2>3 DEF Sent, Of
    <2> QED
        BY <1>2, <2>1, <2>2, <2>4, HandledKeeps
<1>9. ASSUME NEW w \in Workers, NEW list \in Lists, Request(w, list) PROVE HandledInv'
    <2> DEFINE targets == DistributeWork(ring[w], list)
               passedOn == {t \in ToSet(targets) :
                              \E k \in DOMAIN targets :
                                 targets[k] = t /\ \A j \in 1 .. k : targets[j] # w}
               m == [type |-> "RECV_WORK", list |-> list]
               c == Post(chan, w, passedOn, m)
               t1 == targets[1]
    <2>1. /\ chan' = c /\ asked' = Append(asked, [list |-> list, targets |-> targets])
          /\ holds' = IF w \in ToSet(targets)
                      THEN [holds EXCEPT ![w] = @ \cup {list}] ELSE holds
        BY <1>9 DEF Request
    <2>2. m \in Message
        BY DEF Message
    <2>3. ring[w] \in SUBSET Workers /\ ring[w] # {}
        BY <1>1, <1>9 DEF Request, RoutesConnected, MembershipTypeOK
    <2>4. targets \in Seq(Workers) /\ targets # <<>>
        BY <2>3, DistributeWorkTyped, SeqSubset DEF Workers
    <2> HIDE DEF targets
    <2>5. t1 \in Workers /\ 1 \in DOMAIN targets
        BY <2>4, EmptySeq, LenProperties
    <2>6. list \in holds'[t1] \/ Sent(c, list, t1)
        <3>1. CASE t1 = w
            <4>1. w \in ToSet(targets)
                BY <2>5, <3>1 DEF ToSet
            <4> QED
                BY <1>1, <2>1, <3>1, <4>1 DEF TypeOK
        <3>2. CASE t1 # w
            <4>1. t1 \in passedOn
                BY <2>5, <3>2 DEF ToSet
            <4> HIDE DEF passedOn, t1
            <4>2. /\ Of(c, w, t1, "RECV_WORK")
                        = Of(chan, w, t1, "RECV_WORK") \cup {Len(chan[w][t1]) + 1}
                  /\ c[w][t1][Len(chan[w][t1]) + 1] = m
                <5>1. m.type = "RECV_WORK"
                    OBVIOUS
                <5> HIDE DEF m
                <5>2. Of(c, w, t1, "RECV_WORK")
                        = Of(chan, w, t1, "RECV_WORK") \cup {Len(chan[w][t1]) + 1}
                    BY <1>1, <2>2, <2>5, <4>1, <5>1, PostOf
                <5>3. c[w][t1][Len(chan[w][t1]) + 1] = m
                    BY <1>1, <2>2, <2>5, <4>1, PostContent
                <5> QED
                    BY <5>2, <5>3
            <4> HIDE DEF c
            <4> QED
                BY <4>2 DEF Sent
        <3> QED
            BY <3>1, <3>2
    <2>7. \A t \in Workers : holds[t] \subseteq holds'[t]
        BY <1>1, <2>1 DEF TypeOK
    <2> HIDE DEF passedOn, t1, m
    <2>8. ASSUME NEW l \in Lists, NEW t \in Workers, Sent(chan, l, t) PROVE Sent(c, l, t)
        BY <1>1, <2>2, <2>8, SentKept
    <2> HIDE DEF c
    <2>9. \A l \in Lists, t \in Workers : Sent(c, l, t) => Sent(chan, l, t)'
        BY <2>1 DEF Sent, Of
    <2>10. /\ Len(asked') = Len(asked) + 1 /\ Len(asked) \in Nat
           /\ \A k \in 1 .. Len(asked) : asked'[k] = asked[k]
           /\ asked'[Len(asked) + 1] = [list |-> list, targets |-> targets]
        <3>1. [list |-> list, targets |-> targets] \in [list : Lists, targets : Seq(Workers)]
            BY <2>4
        <3>2. asked \in Seq([list : Lists, targets : Seq(Workers)])
            BY <1>1 DEF TypeOK
        <3> QED
            BY <2>1, <3>1, <3>2, AppendProperties, LenProperties
    <2>11. ASSUME NEW k \in 1 .. Len(asked)' PROVE Handled(asked[k])'
        <3>1. CASE k \in 1 .. Len(asked)
            <4>1. PICK r : r = asked[k]
                OBVIOUS
            <4>2. r.list \in Lists /\ asked'[k] = r
                BY <1>1, <2>10, <3>1, <4>1, AskedList
            <4>3. PICK t \in Workers :
                       /\ r.targets # <<>> /\ t = r.targets[1]
                       /\ r.list \in holds[t] \/ Sent(chan, r.list, t)
                BY <3>1, <4>1 DEF HandledInv, Handled
            <4>4. r.list \in holds'[t] \/ Sent(chan, r.list, t)'
                <5>1. Sent(chan, r.list, t) => Sent(c, r.list, t)
                    BY <2>8, <4>2
                <5>2. Sent(c, r.list, t) => Sent(chan, r.list, t)'
                    BY <2>9, <4>2
                <5> QED
                    BY <2>7, <4>3, <5>1, <5>2
            <4>5. Handled(r)'
                BY <4>3, <4>4 DEF Handled
            <4> QED
                BY <4>2, <4>5 DEF Handled, Sent, Of
        <3>2. CASE k = Len(asked) + 1
            <4> DEFINE r == [list |-> list, targets |-> targets]
            <4>1. PICK q : q = r
                OBVIOUS
            <4>2. asked'[k] = q
                BY <2>10, <3>2, <4>1
            <4>3. PICK t \in Workers : t = t1
                BY <2>5
            <4>4. list \in holds'[t] \/ Sent(chan, list, t)'
                <5>1. Sent(c, list, t) => Sent(chan, list, t)'
                    BY <2>9
                <5> QED
                    BY <2>6, <4>3, <5>1
            <4>5. q.list = list /\ q.targets # <<>> /\ t = q.targets[1]
                BY <2>4, <4>1, <4>3 DEF t1
            <4>6. q.list \in holds'[t] \/ Sent(chan, q.list, t)'
                BY <4>4, <4>5
            <4>7. Handled(q)'
                BY <4>5, <4>6 DEF Handled
            <4> QED
                BY <4>2, <4>7 DEF Handled, Sent, Of
        <3> QED
            BY <2>10, <3>1, <3>2
    <2> QED
        BY <1>2, <2>11 DEF HandledInv
<1> QED
    BY <1>3, <1>4, <1>5, <1>6, <1>7, <1>8, <1>9 DEF Next, Receive

(* When workers are only stopped with nothing under way, no request gets   *)
(* lost on the way to the server of its list: recv passes it on before it  *)
(* meets itself among the targets, or handles it when it does.             *)
THEOREM PrimaryAlwaysHolds == ASSUME Serialized PROVE Spec => []PrimaryHolds
<1>1. Init => HandledInv
    <2>1. Init => asked = <<>> /\ Len(<<>>) = 0
        BY DEF Init
    <2> QED
        BY <2>1, TypeInit DEF HandledInv
<1>2. HandledInv => PrimaryHolds
    <2> SUFFICES ASSUME HandledInv, Quiet, NEW k \in DOMAIN asked
                 PROVE  asked[k].list \in holds[asked[k].targets[1]]
        BY DEF PrimaryHolds
    <2>1. k \in 1 .. Len(asked)
        BY LenProperties DEF HandledInv, TypeOK
    <2>2. \A u, v \in Workers : Of(chan, u, v, "RECV_WORK") = {}
        <3>1. Len(<<>>) = 0
            OBVIOUS
        <3> QED
            BY <3>1 DEF Quiet, Of
    <2> QED
        BY <2>1, <2>2 DEF HandledInv, Handled, Sent
<1> QED
    BY <1>1, <1>2, HandledStep, PTL DEF Spec

-----------------------------------------------------------------------------
(* The rings of the running workers agree once everybody has been told, if *)
(* one worker only is the first and that one is never stopped, and if      *)
(* workers come and go one at a time.                                      *)

OneFirst(f) ==
    /\ Serialized
    /\ f \in Workers \ Stoppable
    /\ \A w \in Workers : Seed[w] = NoWorker <=> w = f

News(x, y) == Of(chan, x, y, "BROADCAST_RING")
Joins(x, y) == Of(chan, x, y, "JOIN_RING")
Joining(w) == \E y \in Workers : Joins(w, y) # {}

(* No worker runs before the first one. *)
FirstRuns(f, M) ==
    /\ f \in up => f \in M
    /\ f \notin up => /\ M = {} /\ up = {}
                      /\ \A x, y \in Workers : News(x, y) = {} /\ Joins(x, y) = {}

(* M is the ring: every ring under way is M, and a worker that has another *)
(* ring is to get one or still has to be heard by its seed.                *)
RingIs(M) ==
    /\ \A v \in up : v \in M \/ Joining(v)
    /\ \A x, y \in Workers : \A k \in News(x, y) : chan[x][y][k].ring = M /\ y \in M
    /\ \A v \in up : ring[v] = M \/ Joining(v) \/ \E x \in Workers : News(x, v) # {}

(* Whoever is told of a joiner can tell all the others. *)
SocketsWithin(M) ==
    /\ \A v \in Workers : push[v] \subseteq M
    /\ \A v \in up : ring[v] \subseteq push[v] \cup {v}

(* At most one worker has to be heard by its seed, and no news of the ring *)
(* is under way but to that one.                                           *)
OneJoin ==
    \A u, v \in Workers : \A k \in Joins(u, v) :
        /\ u \in up /\ v \in up /\ v = Seed[u]
        /\ \A x, y \in Workers : \A j \in Joins(x, y) : x = u /\ y = v /\ j = k
        /\ \A x, y \in Workers : y # u => News(x, y) = {}

Around(f, M) == FirstRuns(f, M) /\ RingIs(M) /\ SocketsWithin(M) /\ OneJoin

AgreementInv(f) == MembershipTypeOK /\ \E M \in SUBSET Workers : Around(f, M)

LEMMA ToldNone ==
    ASSUME NEW W \in SUBSET Workers, Told(W), NEW x \in Workers, NEW y \in W
    PROVE  News(x, y) = {} /\ Joins(x, y) = {}
BY DEF Told, News, Joins, Of

LEMMA StartKeepsRing ==
    ASSUME NEW f, OneFirst(f), NEW M \in SUBSET Workers, MembershipTypeOK, Around(f, M),
           NEW w \in Workers, Start(w)
    PROVE  \E N \in SUBSET Workers : Around(f, N)'
<1>1. /\ FirstRuns(f, M) /\ RingIs(M) /\ SocketsWithin(M) /\ OneJoin
      /\ w \notin up /\ up' = up \cup {w} /\ Told(Workers \ {w})
      /\ Seed[w] \in up \cup {NoWorker} /\ f \in Workers /\ up \subseteq Workers
    BY DEF Around, Start, OneFirst, MembershipTypeOK
<1>2. CASE StartFirst(w)
    <2>1. w = f /\ f \notin up /\ M = {} /\ up = {}
        BY <1>1, <1>2 DEF StartFirst, OneFirst, FirstRuns
    <2>2. chan' = chan /\ up' = {f} /\ ring'[f] = {f}
          /\ push' = [push EXCEPT ![f] = {}]
        BY <1>1, <1>2, <2>1 DEF StartFirst, MembershipTypeOK
    <2>3. \A x, y \in Workers : News(x, y)' = {} /\ Joins(x, y)' = {}
        BY <1>1, <2>1, <2>2 DEF FirstRuns, News, Joins, Of
    <2>4. FirstRuns(f, {f})' /\ RingIs({f})' /\ OneJoin'
        <3>1. FirstRuns(f, {f})'
            BY <2>2 DEF FirstRuns
        <3>2. RingIs({f})'
            BY <2>2, <2>3 DEF RingIs
        <3>3. OneJoin'
            BY <2>3 DEF OneJoin
        <3> QED
            BY <3>1, <3>2, <3>3
    <2>5. SocketsWithin({f})'
        <3>1. \A v \in Workers : push'[v] = {}
            BY <1>1, <2>1, <2>2 DEF SocketsWithin, MembershipTypeOK
        <3> QED
            BY <2>2, <3>1 DEF SocketsWithin
    <2>6. Around(f, {f})' /\ {f} \in SUBSET Workers
        BY <1>1, <2>4, <2>5 DEF Around
    <2> QED
        BY <2>6
<1>3. CASE StartJoining(w)
    <2> DEFINE s == Seed[w]
               m == [type |-> "JOIN_RING"]
               c == Post(chan, w, {s}, m)
    <2>1. /\ s # NoWorker /\ chan' = c
          /\ ring' = [ring EXCEPT ![w] = {s}] /\ push' = [push EXCEPT ![w] = {s}]
        BY <1>3 DEF StartJoining
    <2>2. s \in up /\ s # w /\ f \in up /\ w # f
        BY <1>1, <2>1 DEF FirstRuns, OneFirst
    <2>3. m \in Message /\ m.type = "JOIN_RING" /\ chan \in Channels
        BY DEF Message, MembershipTypeOK, Channels
    <2>4. \A x, y \in Workers : Joins(x, y) = {}
        <3> SUFFICES ASSUME NEW x \in Workers, NEW y \in Workers, NEW k \in Joins(x, y) PROVE FALSE
            OBVIOUS
        <3>1. y \in up
            BY <1>1 DEF OneJoin
        <3> QED
            BY <1>1, <3>1, ToldNone
    <2>5. \A x, y \in Workers : y # w => News(x, y) = {}
        BY <1>1, ToldNone
    <2> HIDE DEF s, m
    <2>6. \A x, y \in Workers : Of(c, x, y, "BROADCAST_RING") = News(x, y)
                                /\ \A k \in News(x, y) : c[x][y][k] = chan[x][y][k]
        <3>1. m.type # "BROADCAST_RING"
            BY <2>3
        <3> QED
            BY <2>3, <3>1, PostOf DEF News
    <2>7. /\ Of(c, w, s, "JOIN_RING") = {Len(chan[w][s]) + 1}
          /\ \A x, y \in Workers : ~(x = w /\ y = s) => Of(c, x, y, "JOIN_RING") = {}
        <3>1. s \in Workers
            BY <1>1, <2>2
        <3>2. Of(c, w, s, "JOIN_RING") = Of(chan, w, s, "JOIN_RING") \cup {Len(chan[w][s]) + 1}
            BY <2>3, <3>1, PostOf
        <3>3. \A x, y \in Workers : ~(x = w /\ y = s) => Of(c, x, y, "JOIN_RING") = Of(chan, x, y, "JOIN_RING")
            BY <2>3, PostOf
        <3> QED
            BY <2>4, <3>1, <3>2, <3>3 DEF Joins
    <2> HIDE DEF c
    <2>8. /\ \A x, y \in Workers : News(x, y)' = News(x, y)
          /\ \A x, y \in Workers : \A k \in News(x, y) : chan'[x][y][k] = chan[x][y][k]
        BY <2>1, <2>6 DEF News, Of
    <2>9. /\ Joins(w, s)' = {Len(chan[w][s]) + 1}
          /\ \A x, y \in Workers : ~(x = w /\ y = s) => Joins(x, y)' = {}
        BY <2>1, <2>7 DEF Joins, Of
    <2>10. Joining(w)'
        BY <1>1, <2>2, <2>9 DEF Joining
    <2>11. FirstRuns(f, M)'
        BY <1>1, <2>2 DEF FirstRuns
    <2>12. RingIs(M)'
        <3>1. \A v \in up : v \in M /\ (ring[v] = M \/ \E x \in Workers : News(x, v) # {})
            BY <1>1, <2>4 DEF RingIs, Joining
        <3>2. \A v \in up : ring'[v] = ring[v]
            BY <1>1, <2>1 DEF MembershipTypeOK
        <3>3. \A v \in up' : v \in M \/ Joining(v)'
            BY <1>1, <2>10, <3>1
        <3>4. \A v \in up' : \/ ring'[v] = M \/ Joining(v)'
                             \/ \E x \in Workers : News(x, v)' # {}
            BY <1>1, <2>8, <2>10, <3>1, <3>2
        <3>5. \A x, y \in Workers : \A k \in News(x, y)' : chan'[x][y][k].ring = M /\ y \in M
            BY <1>1, <2>8 DEF RingIs
        <3> QED
            BY <3>3, <3>4, <3>5 DEF RingIs
    <2>13. SocketsWithin(M)'
        <3>1. s \in M
            BY <1>1, <2>2, <2>4 DEF RingIs, Joining
        <3>2. /\ push'[w] = {s} /\ ring'[w] = {s}
              /\ \A v \in Workers \ {w} : push'[v] = push[v] /\ ring'[v] = ring[v]
            BY <2>1 DEF MembershipTypeOK
        <3>3. \A v \in Workers : push'[v] \subseteq M
            BY <1>1, <3>1, <3>2 DEF SocketsWithin
        <3>4. \A v \in up' : ring'[v] \subseteq push'[v] \cup {v}
            BY <1>1, <3>2 DEF SocketsWithin
        <3> QED
            BY <3>3, <3>4 DEF SocketsWithin
    <2>14. OneJoin'
        <3> SUFFICES ASSUME NEW u \in Workers, NEW v \in Workers, NEW k \in Joins(u, v)'
                     PROVE  /\ u \in up' /\ v \in up' /\ v = Seed[u]
                            /\ \A x, y \in Workers : \A j \in Joins(x, y)' : x = u /\ y = v /\ j = k
                            /\ \A x, y \in Workers : y # u => News(x, y)' = {}
            BY DEF OneJoin
        <3>1. u = w /\ v = s /\ k = Len(chan[w][s]) + 1
            BY <2>9
        <3>2. \A x, y \in Workers : \A j \in Joins(x, y)' : x = u /\ y = v /\ j = k
            BY <2>9, <3>1
        <3>3. \A x, y \in Workers : y # u => News(x, y)' = {}
            BY <2>5, <2>8, <3>1
        <3> QED
            BY <1>1, <2>2, <3>1, <3>2, <3>3 DEF s
    <2>15. Around(f, M)'
        BY <2>11, <2>12, <2>13, <2>14 DEF Around
    <2> QED
        BY <2>15
<1> QED
    BY <1>2, <1>3 DEF Start

LEMMA StopKeepsRing ==
    ASSUME NEW f, OneFirst(f), NEW M \in SUBSET Workers, MembershipTypeOK, Around(f, M),
           NEW w \in Workers, Stop(w)
    PROVE  Around(f, M)'
<1>1. /\ FirstRuns(f, M) /\ RingIs(M) /\ SocketsWithin(M) /\ OneJoin
      /\ w \in up /\ up' = up \ {w} /\ w # f /\ Quiet
      /\ UNCHANGED <<ring, push>> /\ up \subseteq Workers
    BY DEF Around, Stop, OneFirst, MembershipTypeOK
<1>2. \A u, v \in Workers : chan'[u][v] = <<>> /\ chan[u][v] = <<>>
    BY <1>1 DEF Stop, Quiet
<1>3. /\ \A x, y \in Workers : News(x, y) = {} /\ Joins(x, y) = {}
      /\ \A x, y \in Workers : News(x, y)' = {} /\ Joins(x, y)' = {}
    <2>1. Len(<<>>) = 0
        OBVIOUS
    <2> QED
        BY <1>2, <2>1 DEF News, Joins, Of
<1>4. FirstRuns(f, M)'
    BY <1>1 DEF FirstRuns
<1>5. RingIs(M)'
    BY <1>1, <1>3 DEF RingIs, Joining
<1>6. SocketsWithin(M)'
    BY <1>1 DEF SocketsWithin
<1>7. OneJoin'
    BY <1>3 DEF OneJoin
<1> QED
    BY <1>4, <1>5, <1>6, <1>7 DEF Around

LEMMA RecvJoinKeepsRing ==
    ASSUME NEW f, OneFirst(f), NEW M \in SUBSET Workers, MembershipTypeOK, Around(f, M),
           NEW u \in Workers, NEW v \in Workers, RecvJoin(u, v)
    PROVE  \E N \in SUBSET Workers : Around(f, N)'
<1> DEFINE N == M \cup {u}
           m == [type |-> "BROADCAST_RING", ring |-> N]
           took == Took(u, v)
           c == Post(took, v, push'[v], m)
<1>1. /\ FirstRuns(f, M) /\ RingIs(M) /\ SocketsWithin(M) /\ OneJoin
      /\ chan \in Channels /\ chan[u][v] # <<>> /\ Head(chan[u][v]).type = "JOIN_RING"
      /\ v \in up /\ up' = up /\ up \subseteq Workers
    BY DEF Around, RecvJoin, NextIs, MembershipTypeOK, Channels
<1>2. 1 \in Joins(u, v)
    BY <1>1, TookContent DEF Joins, Of
<1>3. /\ u \in up /\ v = Seed[u] /\ u # v
      /\ \A x, y \in Workers : \A j \in Joins(x, y) : x = u /\ y = v /\ j = 1
      /\ \A x, y \in Workers : y # u => News(x, y) = {}
    BY <1>1, <1>2, SeedAssumption DEF OneJoin
<1>4. ring[v] = M /\ v \in M
    BY <1>1, <1>3 DEF RingIs, Joining
<1>5. /\ ring' = [ring EXCEPT ![v] = N] /\ push' = [push EXCEPT ![v] = @ \cup {u}]
      /\ chan' = c
    <2>1. ring' = [ring EXCEPT ![v] = N]
        BY <1>4 DEF RecvJoin
    <2>2. ring'[v] = N
        BY <2>1 DEF MembershipTypeOK
    <2> HIDE DEF N
    <2> QED
        BY <2>1, <2>2 DEF RecvJoin
<1>6. m \in Message /\ m.type = "BROADCAST_RING" /\ m.ring = N
    <2>1. m \in Message
        BY BroadcastType
    <2> QED
        BY <2>1
<1>7. took \in Channels
    BY <1>1, TookContent
<1>8. \A x, y \in Workers : Of(took, x, y, "JOIN_RING") = {}
    <2> SUFFICES ASSUME NEW x \in Workers, NEW y \in Workers, NEW k \in Of(took, x, y, "JOIN_RING")
                 PROVE  FALSE
        OBVIOUS
    <2>1. x = u /\ y = v => k + 1 \in Joins(x, y) /\ k \in Nat /\ k # 0
        <3>1. k \in 1 .. Len(took[x][y]) /\ Len(took[x][y]) \in Nat
            BY <1>7, LenProperties DEF Of, Channels
        <3>2. x = u /\ y = v => k + 1 \in Joins(x, y)
            BY <1>1, TookOf DEF Joins
        <3> HIDE DEF took
        <3> QED
            BY <3>1, <3>2
    <2>2. ~(x = u /\ y = v) => k \in Joins(x, y)
        BY <1>1, TookOf DEF Joins
    <2> QED
        BY <1>3, <2>1, <2>2
<1>9. \A x, y \in Workers : \A k \in Of(took, x, y, "BROADCAST_RING") :
            took[x][y][k].ring = N /\ y \in N
    <2> SUFFICES ASSUME NEW x \in Workers, NEW y \in Workers,
                        NEW k \in Of(took, x, y, "BROADCAST_RING")
                 PROVE  took[x][y][k].ring = N /\ y \in N
        OBVIOUS
    <2>1. \E j \in News(x, y) : took[x][y][k] = chan[x][y][j]
        BY <1>1, TookOf DEF News
    <2>2. y = u /\ y \in M /\ took[x][y][k].ring = M
        BY <1>1, <1>3, <2>1 DEF RingIs
    <2>3. N = M
        BY <2>2
    <2> QED
        BY <2>2, <2>3
<1> HIDE DEF m, took, N
<1>10. \A x, y \in Workers : Of(c, x, y, "JOIN_RING") = {}
    BY <1>6, <1>7, <1>8, PostOf
<1>11. \A x, y \in Workers : \A k \in Of(c, x, y, "BROADCAST_RING") : c[x][y][k].ring = N /\ y \in N
    <2>1. push'[v] \subseteq N
        BY <1>1, <1>5 DEF SocketsWithin, MembershipTypeOK, N
    <2> SUFFICES ASSUME NEW x \in Workers, NEW y \in Workers,
                        NEW k \in Of(c, x, y, "BROADCAST_RING")
                 PROVE  c[x][y][k].ring = N /\ y \in N
        OBVIOUS
    <2>2. CASE k \in Of(took, x, y, "BROADCAST_RING")
        <3>1. c[x][y][k] = took[x][y][k]
            BY <1>6, <1>7, <2>2, PostOf
        <3> QED
            BY <1>9, <2>2, <3>1
    <2>3. CASE k \notin Of(took, x, y, "BROADCAST_RING")
        <3>1. x = v /\ y \in push'[v] /\ k = Len(took[x][y]) + 1
            BY <1>6, <1>7, <2>3, PostOf
        <3>2. c[x][y][k] = m
            BY <1>6, <1>7, <3>1, PostContent
        <3> QED
            BY <1>6, <2>1, <3>1, <3>2
    <2> QED
        BY <2>2, <2>3
<1>12. \A y \in Workers : y \in push'[v] => Of(c, v, y, "BROADCAST_RING") # {}
    <2> SUFFICES ASSUME NEW y \in Workers, y \in push'[v]
                 PROVE  Of(c, v, y, "BROADCAST_RING") # {}
        OBVIOUS
    <2>1. Of(c, v, y, "BROADCAST_RING") =
             Of(took, v, y, "BROADCAST_RING") \cup {Len(took[v][y]) + 1}
        BY <1>6, <1>7, PostOf
    <2> HIDE DEF c
    <2> QED
        BY <2>1
<1> HIDE DEF c
<1>13. /\ \A x, y \in Workers : Joins(x, y)' = {}
       /\ \A x, y \in Workers : \A k \in News(x, y)' : chan'[x][y][k].ring = N /\ y \in N
       /\ \A y \in Workers : y \in push'[v] => News(v, y)' # {}
    BY <1>5, <1>10, <1>11, <1>12 DEF News, Joins, Of
<1>14. /\ ring'[v] = N /\ push'[v] = push[v] \cup {u}
       /\ \A x \in Workers \ {v} : ring'[x] = ring[x] /\ push'[x] = push[x]
    BY <1>5 DEF MembershipTypeOK
<1>15. N \subseteq push'[v] \cup {v}
    BY <1>1, <1>4, <1>14 DEF SocketsWithin, N
<1>16. \A x \in up : x \in N
    BY <1>1, <1>3 DEF RingIs, Joining, N
<1>17. FirstRuns(f, N)'
    BY <1>1 DEF FirstRuns, N
<1>18. RingIs(N)'
    <2>1. \A x \in up : ring'[x] = N \/ News(v, x)' # {}
        BY <1>1, <1>13, <1>14, <1>15, <1>16
    <2> QED
        BY <1>1, <1>13, <1>16, <2>1 DEF RingIs
<1>19. SocketsWithin(N)'
    <2>1. \A x \in Workers : push'[x] \subseteq N
        BY <1>1, <1>14 DEF SocketsWithin, N
    <2>2. \A x \in up' : ring'[x] \subseteq push'[x] \cup {x}
        BY <1>1, <1>14, <1>15 DEF SocketsWithin
    <2> QED
        BY <2>1, <2>2 DEF SocketsWithin
<1>20. OneJoin'
    BY <1>13 DEF OneJoin
<1>21. Around(f, N)' /\ N \in SUBSET Workers
    BY <1>17, <1>18, <1>19, <1>20 DEF Around, N
<1> QED
    BY <1>21

LEMMA TakenKeepsRing ==
    ASSUME NEW f, NEW M \in SUBSET Workers, MembershipTypeOK, Around(f, M),
           NEW u \in Workers, NEW v \in Workers, NEW type \in {"BROADCAST_RING", "RECV_WORK"},
           NextIs(u, v, type), chan' = Took(u, v)
    PROVE  /\ \A x, y \in Workers : \A k \in News(x, y)' : chan'[x][y][k].ring = M /\ y \in M
           /\ \A w \in Workers : Joining(w) => Joining(w)'
           /\ \A x, y \in Workers :
                 News(x, y) # {} => News(x, y)' # {} \/ (type = "BROADCAST_RING" /\ y = v)
           /\ up' = up => OneJoin'
<1>1. /\ RingIs(M) /\ OneJoin /\ chan \in Channels /\ chan[u][v] # <<>>
      /\ Head(chan[u][v]).type = type
    BY DEF Around, NextIs, MembershipTypeOK, Channels
<1> DEFINE took == Took(u, v)
<1>2. \A x, y \in Workers : News(x, y)' = Of(took, x, y, "BROADCAST_RING")
                            /\ Joins(x, y)' = Of(took, x, y, "JOIN_RING")
                            /\ chan'[x][y] = took[x][y]
    BY DEF News, Joins, Of
<1>3. chan[u][v][1].type = type
    BY <1>1, TookContent
<1>4. ASSUME NEW x \in Workers, NEW y \in Workers, NEW k \in News(x, y)'
      PROVE  chan'[x][y][k].ring = M /\ y \in M
    <2>1. \E j \in News(x, y) : took[x][y][k] = chan[x][y][j]
        BY <1>1, <1>2, TookOf DEF News
    <2> HIDE DEF took
    <2> QED
        BY <1>1, <1>2, <2>1 DEF RingIs
<1>5. ASSUME NEW x \in Workers, NEW y \in Workers, NEW k \in Joins(x, y)
      PROVE  (IF x = u /\ y = v THEN k - 1 ELSE k) \in Joins(x, y)'
    <2>1. x = u /\ y = v => k # 1
        BY <1>3 DEF Joins, Of
    <2> QED
        BY <1>1, <1>2, <2>1, TookOf DEF Joins
<1>6. ASSUME NEW x \in Workers, NEW y \in Workers, News(x, y) # {}, ~(type = "BROADCAST_RING" /\ y = v)
      PROVE  News(x, y)' # {}
    <2>1. PICK k \in News(x, y) : TRUE
        BY <1>6
    <2>2. x = u /\ y = v => k # 1
        BY <1>3, <1>6, <2>1 DEF News, Of
    <2>3. (IF x = u /\ y = v THEN k - 1 ELSE k) \in News(x, y)'
        BY <1>1, <1>2, <2>1, <2>2, TookOf DEF News
    <2> QED
        BY <2>3
<1>7. ASSUME up' = up PROVE OneJoin'
    <2>1. ASSUME NEW x \in Workers, NEW y \in Workers, NEW k \in Joins(x, y)'
          PROVE  (IF x = u /\ y = v THEN k + 1 ELSE k) \in Joins(x, y)
        BY <1>1, <1>2, TookOf DEF Joins
    <2>2. \A x, y \in Workers : \A k \in Joins(x, y)' : k \in Nat
        BY <1>2 DEF Of
    <2> SUFFICES ASSUME NEW a \in Workers, NEW b \in Workers, NEW k \in Joins(a, b)'
                 PROVE  /\ a \in up' /\ b \in up' /\ b = Seed[a]
                        /\ \A x, y \in Workers : \A j \in Joins(x, y)' : x = a /\ y = b /\ j = k
                        /\ \A x, y \in Workers : y # a => News(x, y)' = {}
        BY DEF OneJoin
    <2> DEFINE i == IF a = u /\ b = v THEN k + 1 ELSE k
    <2>3. i \in Joins(a, b)
        BY <2>1
    <2>4. /\ a \in up /\ b \in up /\ b = Seed[a]
          /\ \A x, y \in Workers : \A j \in Joins(x, y) : x = a /\ y = b /\ j = i
          /\ \A x, y \in Workers : y # a => News(x, y) = {}
        <3> HIDE DEF i
        <3> QED
            BY <1>1, <2>3 DEF OneJoin
    <2>5. ASSUME NEW x \in Workers, NEW y \in Workers, NEW j \in Joins(x, y)'
          PROVE  x = a /\ y = b /\ j = k
        <3>1. x = a /\ y = b /\ (IF x = u /\ y = v THEN j + 1 ELSE j) = i
            BY <2>1, <2>4
        <3>2. j \in Nat /\ k \in Nat
            BY <2>2
        <3> QED
            BY <3>1, <3>2
    <2>6. ASSUME NEW x \in Workers, NEW y \in Workers, y # a PROVE News(x, y)' = {}
        <3>1. News(x, y) = {}
            BY <2>4, <2>6
        <3>2. \A j \in News(x, y)' : \E n : n \in News(x, y)
            BY <1>1, <1>2, TookOf DEF News
        <3> QED
            BY <3>1, <3>2
    <2> HIDE DEF i
    <2> QED
        BY <1>7, <2>4, <2>5, <2>6
<1>8. \A w \in Workers : Joining(w) => Joining(w)'
    BY <1>5 DEF Joining
<1> QED
    BY <1>4, <1>6, <1>7, <1>8

LEMMA RecvBroadcastKeepsRing ==
    ASSUME NEW f, NEW M \in SUBSET Workers, MembershipTypeOK, Around(f, M),
           NEW u \in Workers, NEW v \in Workers, RecvBroadcast(u, v)
    PROVE  Around(f, M)'
<1>1. /\ FirstRuns(f, M) /\ RingIs(M) /\ SocketsWithin(M) /\ OneJoin
      /\ NextIs(u, v, "BROADCAST_RING") /\ chan' = Took(u, v)
      /\ chan \in Channels /\ chan[u][v] # <<>> /\ Head(chan[u][v]).type = "BROADCAST_RING"
      /\ v \in up /\ up' = up /\ up \subseteq Workers
    BY DEF Around, RecvBroadcast, NextIs, MembershipTypeOK, Channels
<1>2. Head(chan[u][v]).ring = M /\ v \in M
    <2>1. 1 \in News(u, v) /\ Head(chan[u][v]) = chan[u][v][1]
        BY <1>1, TookContent DEF News, Of
    <2> QED
        BY <1>1, <2>1 DEF RingIs
<1>3. /\ ring'[v] = M /\ push'[v] = push[v] \cup (M \ {v})
      /\ \A x \in Workers \ {v} : ring'[x] = ring[x] /\ push'[x] = push[x]
    BY <1>2 DEF RecvBroadcast, MembershipTypeOK
<1>4. /\ \A x, y \in Workers : \A k \in News(x, y)' : chan'[x][y][k].ring = M /\ y \in M
      /\ \A w \in Workers : Joining(w) => Joining(w)'
      /\ \A x, y \in Workers : News(x, y) # {} => News(x, y)' # {} \/ y = v
      /\ OneJoin'
    BY <1>1, TakenKeepsRing
<1>5. FirstRuns(f, M)'
    BY <1>1 DEF FirstRuns
<1>6. RingIs(M)'
    <2>1. \A x \in up : x \in M \/ Joining(x)'
        BY <1>1, <1>4 DEF RingIs
    <2>2. \A x \in up : ring'[x] = M \/ Joining(x)' \/ \E y \in Workers : News(y, x)' # {}
        BY <1>1, <1>3, <1>4 DEF RingIs
    <2> QED
        BY <1>1, <1>4, <2>1, <2>2 DEF RingIs
<1>7. SocketsWithin(M)'
    <2>1. \A x \in Workers : push'[x] \subseteq M
        BY <1>1, <1>3 DEF SocketsWithin
    <2>2. \A x \in up' : ring'[x] \subseteq push'[x] \cup {x}
        BY <1>1, <1>3 DEF SocketsWithin
    <2> QED
        BY <2>1, <2>2 DEF SocketsWithin
<1> QED
    BY <1>4, <1>5, <1>6, <1>7 DEF Around

LEMMA RecvWorkKeepsRing ==
    ASSUME NEW f, NEW M \in SUBSET Workers, MembershipTypeOK, Around(f, M),
           NEW u \in Workers, NEW v \in Workers, RecvWork(u, v)
    PROVE  Around(f, M)'
<1>1. /\ FirstRuns(f, M) /\ RingIs(M) /\ SocketsWithin(M) /\ OneJoin
      /\ NextIs(u, v, "RECV_WORK") /\ chan' = Took(u, v)
      /\ v \in up /\ UNCHANGED <<up, ring, push>> /\ up \subseteq Workers
    BY DEF Around, RecvWork, NextIs, MembershipTypeOK
<1>2. /\ \A x, y \in Workers : \A k \in News(x, y)' : chan'[x][y][k].ring = M /\ y \in M
      /\ \A w \in Workers : Joining(w) => Joining(w)'
      /\ \A x, y \in Workers : News(x, y) # {} => News(x, y)' # {}
      /\ OneJoin'
    BY <1>1, TakenKeepsRing
<1>3. FirstRuns(f, M)'
    BY <1>1 DEF FirstRuns
<1>4. RingIs(M)'
    <2>1. \A x \in up : x \in M \/ Joining(x)'
        BY <1>1, <1>2 DEF RingIs
    <2>2. \A x \in up : ring[x] = M \/ Joining(x)' \/ \E y \in Workers : News(y, x)' # {}
        BY <1>1, <1>2 DEF RingIs
    <2> QED
        BY <1>1, <1>2, <2>1, <2>2 DEF RingIs
<1>5. SocketsWithin(M)'
    BY <1>1 DEF SocketsWithin
<1> QED
    BY <1>2, <1>3, <1>4, <1>5 DEF Around

LEMMA RequestKeepsRing ==
    ASSUME NEW f, NEW M \in SUBSET Workers, MembershipTypeOK, Around(f, M),
           NEW w \in Workers, NEW list \in Lists, Request(w, list)
    PROVE  Around(f, M)'
<1>1. /\ FirstRuns(f, M) /\ RingIs(M) /\ SocketsWithin(M) /\ OneJoin
      /\ UNCHANGED <<up, ring, push>> /\ chan \in Channels
    BY DEF Around, Request, MembershipTypeOK, Channels
<1>2. PICK to : chan' = Post(chan, w, to, [type |-> "RECV_WORK", list |-> list])
    BY DEF Request
<1> DEFINE m == [type |-> "RECV_WORK", list |-> list]
           c == Post(chan, w, to, m)
<1>3. m \in Message /\ m.type # "BROADCAST_RING" /\ m.type # "JOIN_RING"
    BY DEF Message
<1> HIDE DEF m
<1>4. \A x, y \in Workers : /\ Of(c, x, y, "BROADCAST_RING") = News(x, y)
                            /\ Of(c, x, y, "JOIN_RING") = Joins(x, y)
                            /\ \A k \in News(x, y) : c[x][y][k] = chan[x][y][k]
    BY <1>1, <1>3, PostOf DEF News, Joins
<1>5. chan' = c
    BY <1>2 DEF m
<1> HIDE DEF c
<1>6. \A x, y \in Workers : /\ News(x, y)' = News(x, y) /\ Joins(x, y)' = Joins(x, y)
                            /\ \A k \in News(x, y) : chan'[x][y][k] = chan[x][y][k]
    BY <1>4, <1>5 DEF News, Joins, Of
<1>7. \A x \in Workers : Joining(x)' <=> Joining(x)
    BY <1>6 DEF Joining
<1>8. FirstRuns(f, M)'
    BY <1>1, <1>6 DEF FirstRuns
<1>9. RingIs(M)'
    <2>1. up \subseteq Workers
        BY DEF MembershipTypeOK
    <2> QED
        BY <1>1, <1>6, <1>7, <2>1 DEF RingIs
<1>10. SocketsWithin(M)'
    BY <1>1 DEF SocketsWithin
<1>11. OneJoin'
    BY <1>1, <1>6 DEF OneJoin
<1> QED
    BY <1>8, <1>9, <1>10, <1>11 DEF Around

LEMMA AgreementStep ==
    ASSUME NEW f, OneFirst(f), RoutesConnected, AgreementInv(f), [Next]_vars
    PROVE  AgreementInv(f)'
<1>1. MembershipTypeOK /\ MembershipTypeOK'
    BY ConnectedStep DEF AgreementInv
<1>2. PICK M \in SUBSET Workers : Around(f, M)
    BY DEF AgreementInv
<1>3. CASE UNCHANGED vars
    <2>1. \A x, y \in Workers : News(x, y)' = News(x, y) /\ Joins(x, y)' = Joins(x, y)
        BY <1>3 DEF vars, News, Joins, Of
    <2>2. up' = up /\ ring' = ring /\ push' = push /\ chan' = chan
        BY <1>3 DEF vars
    <2>3. \A x \in Workers : Joining(x)' <=> Joining(x)
        BY <2>1 DEF Joining
    <2>4. FirstRuns(f, M)'
        BY <1>2, <2>1, <2>2 DEF Around, FirstRuns
    <2>5. RingIs(M)'
        <3>1. up \subseteq Workers
            BY <1>1 DEF MembershipTypeOK
        <3> QED
            BY <1>2, <2>1, <2>2, <2>3, <3>1 DEF Around, RingIs
    <2>6. SocketsWithin(M)'
        BY <1>2, <2>2 DEF Around, SocketsWithin
    <2>7. OneJoin'
        BY <1>2, <2>1, <2>2 DEF Around, OneJoin
    <2>8. Around(f, M)'
        BY <2>4, <2>5, <2>6, <2>7 DEF Around
    <2> QED
        BY <1>1, <2>8 DEF AgreementInv
<1>4. ASSUME NEW w \in Workers, Start(w) PROVE \E N \in SUBSET Workers : Around(f, N)'
    BY <1>1, <1>2, <1>4, StartKeepsRing
<1>5. ASSUME NEW w \in Workers, Stop(w) PROVE Around(f, M)'
    BY <1>1, <1>2, <1>5, StopKeepsRing
<1>6. ASSUME NEW u \in Workers, NEW v \in Workers, RecvJoin(u, v)
      PROVE  \E N \in SUBSET Workers : Around(f, N)'
    BY <1>1, <1>2, <1>6, RecvJoinKeepsRing
<1>7. ASSUME NEW u \in Workers, NEW v \in Workers, RecvBroadcast(u, v) PROVE Around(f, M)'
    BY <1>1, <1>2, <1>7, RecvBroadcastKeepsRing
<1>8. ASSUME NEW u \in Workers, NEW v \in Workers, RecvWork(u, v) PROVE Around(f, M)'
    BY <1>1, <1>2, <1>8, RecvWorkKeepsRing
<1>9. ASSUME NEW w \in Workers, NEW list \in Lists, Request(w, list) PROVE Around(f, M)'
    BY <1>1, <1>2, <1>9, RequestKeepsRing
<1>10. CASE Next
    <2>1. \E N \in SUBSET Workers : Around(f, N)'
        BY <1>4, <1>5, <1>6, <1>7, <1>8, <1>9, <1>10 DEF Next, Receive
    <2> QED
        BY <1>1, <2>1 DEF AgreementInv
<1> QED
    BY <1>3, <1>10

(* Workers that join one at a time, through any worker that runs, come to  *)
(* the same ring: the seed's BROADCAST_RING reaches all of them, since the *)
(* seed's ring, and so its sockets, cannot be behind when it is asked.     *)
THEOREM RingsAgree ==
    ASSUME NEW f, OneFirst(f)
    PROVE  Spec => []Agreement
<1>1. Init => RoutesConnected /\ AgreementInv(f)
    <2> SUFFICES ASSUME Init PROVE RoutesConnected /\ AgreementInv(f)
        OBVIOUS
    <2>1. MembershipTypeOK /\ RoutesConnected
        BY TypeInit DEF TypeOK
    <2>2. \A x, y \in Workers : News(x, y) = {} /\ Joins(x, y) = {}
        <3>1. \A x, y \in Workers : chan[x][y] = <<>>
            BY DEF Init
        <3>2. Len(<<>>) = 0
            OBVIOUS
        <3> QED
            BY <3>1, <3>2 DEF News, Joins, Of
    <2>3. up = {} /\ \A v \in Workers : push[v] = {}
        BY DEF Init
    <2>4. Around(f, {})
        BY <2>2, <2>3 DEF Around, FirstRuns, RingIs, SocketsWithin, OneJoin
    <2> QED
        BY <2>1, <2>4 DEF AgreementInv
<1>2. RoutesConnected /\ AgreementInv(f) /\ [Next]_vars => (RoutesConnected /\ AgreementInv(f))'
    BY ConnectedStep, AgreementStep DEF AgreementInv
<1>3. AgreementInv(f) => Agreement
    <2> SUFFICES ASSUME AgreementInv(f), Settled
                 PROVE  \A v, w \in up : ring[v] = ring[w] /\ w \in ring[v]
        BY DEF Agreement
    <2>1. PICK M \in SUBSET Workers : Around(f, M)
        BY DEF AgreementInv
    <2>2. up \subseteq Workers
        BY DEF AgreementInv, MembershipTypeOK
    <2>3. \A x \in Workers, y \in up : News(x, y) = {} /\ Joins(x, y) = {}
        BY <2>2, ToldNone DEF Settled
    <2>4. \A v \in up : ~Joining(v)
        <3> SUFFICES ASSUME NEW v \in up, NEW y \in Workers, NEW k \in Joins(v, y) PROVE FALSE
            BY DEF Joining
        <3>1. y \in up
            BY <2>1, <2>2 DEF Around, OneJoin
        <3> QED
            BY <2>2, <2>3, <3>1
    <2>5. \A v \in up : v \in M /\ ring[v] = M
        BY <2>1, <2>2, <2>3, <2>4 DEF Around, RingIs
    <2> QED
        BY <2>5
<1> QED
    BY <1>1, <1>2, <1>3, PTL DEF Spec

-----------------------------------------------------------------------------
(* The session of a worker with the broker.  For how long a worker takes a *)
(* silent broker for a live one, for a size_t of any width.                *)

CONSTANTS Modulus, Liveness
VARIABLES liveness, turns, connects

Session == INSTANCE WorkerSession

(* An even modulus, and the value of n_heartbeat_liveness. *)
Sized == Liveness = 3 /\ \E half \in Nat : Modulus = 2 * half /\ half > 1

LEMMA OneLessValue ==
    ASSUME Sized, NEW n \in 0 .. Modulus - 1
    PROVE  Session!OneLess(n) = IF n = 0 THEN Modulus - 1 ELSE n - 1
<1>1. Modulus \in Nat /\ Modulus > 3
    BY DEF Sized
<1>2. CASE n = 0
    <2>1. (0 - 1) % Modulus = Modulus - 1
        BY <1>1
    <2> QED BY <1>2, <2>1 DEF Session!OneLess
<1>3. CASE n # 0
    <2>1. n - 1 \in 0 .. Modulus - 1
        BY <1>1, <1>3
    <2>2. \A k \in 0 .. Modulus - 1 : k % Modulus = k
        BY <1>1
    <2> QED BY <1>3, <2>1, <2>2 DEF Session!OneLess
<1> QED BY <1>2, <1>3

(* The count after each turn: 3, 1, 0, then down from the largest even     *)
(* value by two.                                                           *)
Counted ==
    \/ turns = 0 /\ liveness = 3
    \/ turns = 1 /\ liveness = 1
    \/ turns = 2 /\ liveness = 0
    \/ turns > 2 /\ liveness = Modulus - 2 * (turns - 2) /\ liveness > 0

SessionInv == Session!TypeOK /\ Counted

LEMMA CountDownKeeps ==
    ASSUME Sized, NEW n \in 0 .. Modulus - 1, NEW t \in Nat, connects \in BOOLEAN,
           \/ t = 0 /\ n = 3
           \/ t = 1 /\ n = 1
           \/ t = 2 /\ n = 0
           \/ t > 2 /\ n = Modulus - 2 * (t - 2) /\ n > 0,
           Session!CountDown(n, t)
    PROVE  SessionInv' /\ (connects' # connects => 2 * t > Modulus)
<1>1. PICK half \in Nat : Modulus = 2 * half /\ half > 1
    BY DEF Sized
<1>2. \A k \in 0 .. Modulus - 1 : Session!OneLess(k) = IF k = 0 THEN Modulus - 1 ELSE k - 1
    BY OneLessValue
<1> DEFINE once == Session!OneLess(n)
           twice == Session!OneLess(once)
           zero == once # 0 /\ twice = 0
<1>3. once = (IF n = 0 THEN Modulus - 1 ELSE n - 1) /\ once \in 0 .. Modulus - 1
    BY <1>1, <1>2
<1>4. twice = (IF once = 0 THEN Modulus - 1 ELSE once - 1)
    BY <1>2, <1>3
<1>5. /\ liveness' = IF once = 0 THEN 0 ELSE IF zero THEN 3 ELSE twice
      /\ turns' = IF zero THEN 0 ELSE t + 1
      /\ connects' = (connects \/ zero)
    BY DEF Session!CountDown, Sized
<1> HIDE DEF once, twice
<1>6. zero <=> n = 2
    BY <1>1, <1>3, <1>4
<1>7. n = 2 => 2 * t > Modulus
    BY <1>1
<1>8. Counted'
    BY <1>1, <1>3, <1>4, <1>5, <1>6 DEF Counted
<1>9. Session!TypeOK'
    <2>1. connects' \in BOOLEAN
        BY <1>5
    <2>2. turns' \in Nat
        BY <1>5
    <2>3. liveness' \in 0 .. Modulus - 1
        BY <1>1, <1>3, <1>4, <1>5
    <2> QED BY <2>1, <2>2, <2>3 DEF Session!TypeOK
<1> QED BY <1>5, <1>6, <1>7, <1>8, <1>9 DEF SessionInv

LEMMA SessionStep == ASSUME Sized, SessionInv, [Session!Next]_Session!vars
              PROVE  SessionInv' /\ (connects' # connects => 2 * turns > Modulus)
<1>1. Modulus \in Nat /\ Modulus > 3 /\ Liveness = 3
    BY DEF Sized
<1>2. CASE Session!Silence
    BY <1>2, CountDownKeeps DEF Session!Silence, SessionInv, Session!TypeOK, Counted
<1>3. CASE Session!Heartbeat
    <2>1. Session!CountDown(3, 0)
        BY <1>1, <1>3 DEF Session!Heartbeat
    <2>2. SessionInv' /\ (connects' # connects => 2 * 0 > Modulus)
        BY <1>1, <2>1, CountDownKeeps DEF SessionInv, Session!TypeOK
    <2> QED BY <1>1, <2>2
<1>4. CASE Session!Work
    BY <1>1, <1>4 DEF Session!Work, SessionInv, Session!TypeOK, Counted
<1>5. CASE UNCHANGED Session!vars
    BY <1>5 DEF Session!vars, SessionInv, Session!TypeOK, Counted
<1> QED BY <1>2, <1>3, <1>4, <1>5 DEF Session!Next

LEMMA SessionInit == ASSUME Sized PROVE Session!Init => SessionInv
<1>1. Modulus \in Nat /\ Modulus > 3 /\ Liveness = 3
    BY DEF Sized
<1>2. Session!Init => Session!TypeOK
    <2>1. Session!Init => connects \in BOOLEAN
        BY DEF Session!Init
    <2>2. Session!Init => liveness \in 0 .. Modulus - 1 /\ turns \in Nat
        BY <1>1 DEF Session!Init
    <2> QED BY <2>1, <2>2 DEF Session!TypeOK
<1>3. Session!Init => Counted
    BY <1>1 DEF Session!Init, Counted
<1> QED BY <1>2, <1>3 DEF SessionInv

(* m_liveness stays in range, through the wrap.                            *)
THEOREM SessionTypes == ASSUME Sized PROVE Session!Spec => []Session!TypeOK
<1>1. SessionInv => Session!TypeOK
    BY DEF SessionInv
<1> QED BY <1>1, SessionInit, SessionStep, PTL DEF Session!Spec

(* A worker that hears nothing of its broker goes on for more turns of its *)
(* loop than half the size of a size_t before it would connect again: with *)
(* 64 bits and 2.5 s a turn, it never does.                                *)
THEOREM NeverReconnects == ASSUME Sized PROVE Session!Spec => Session!NoReconnect
<1>1. SessionInv /\ [Session!Next]_Session!vars => [connects' # connects => 2 * turns > Modulus]_Session!vars
    BY SessionStep
<1> QED BY <1>1, SessionInit, SessionStep, PTL DEF Session!Spec, Session!NoReconnect
=============================================================================

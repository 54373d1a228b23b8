-------------------------- MODULE FiniteRecursion ---------------------------
(***************************************************************************)
(* Facts about counting and about functions defined by recursion on an     *)
(* interval of numbers, for the proofs about HashRing, Broker and          *)
(* Majordomo: the loop of DistributeWork over the replicas, and that of    *)
(* Without over a service's waiting workers (Line).                        *)
(***************************************************************************)
EXTENDS Integers, WellFoundedInduction, Line, SequenceTheorems, FiniteSetTheorems, TLAPS

(* A set of numbers has a least one.                                       *)
LEMMA LeastNumber ==
  ASSUME NEW T \in SUBSET Nat, T # {}
  PROVE  \E x \in T : \A y \in T : x <= y
<1>1. PICK x \in T : \A y \in T : ~(<<y, x>> \in OpToRel(<, Nat))
  BY WFMin, NatLessThanWellFounded
<1>2. \A y \in T : y \in Nat /\ x \in Nat /\ ~(y < x)
  BY <1>1 DEF OpToRel
<1> QED
  BY <1>2

(* As many numbers, each moved up by one.                                  *)
LEMMA Shifted ==
  ASSUME NEW T \in SUBSET Nat, IsFiniteSet(T)
  PROVE  IsFiniteSet({n + 1 : n \in T}) /\ Cardinality({n + 1 : n \in T}) = Cardinality(T)
<1> DEFINE U == {n + 1 : n \in T}
           f == [n \in T |-> n + 1]
<1>1. f \in [T -> U] /\ \A m, n \in T : f[m] = f[n] => m = n
  OBVIOUS
<1>2. \A u \in U : \E n \in T : f[n] = u
  OBVIOUS
<1> HIDE DEF U, f
<1>3. f \in Bijection(T, U)
  <2>1. f \in Injection(T, U) /\ f \in Surjection(T, U)
    BY <1>1, <1>2 DEF Injection, Surjection, IsInjective
  <2> QED
    BY <2>1 DEF Bijection
<1>4. ExistsBijection(T, U)
  BY <1>3 DEF ExistsBijection
<1>5. IsFiniteSet(U) /\ Cardinality(U) = Cardinality(T)
  BY <1>4, FS_Bijection
<1> QED
  BY <1>5 DEF U

(* A set that has 0 and the number after each of its own has all of them.  *)
LEMMA Counting ==
  ASSUME NEW T \in SUBSET Nat, 0 \in T, \A n \in T : n + 1 \in T
  PROVE  T = Nat
<1>1. SUFFICES ASSUME Nat \ T # {} PROVE FALSE
  OBVIOUS
<1>2. PICK x \in Nat \ T : \A y \in Nat \ T : x <= y
  BY <1>1, LeastNumber
<1>3. x # 0 /\ x - 1 \in Nat
  BY <1>2
<1>4. x - 1 \in T
  BY <1>2, <1>3
<1> QED
  BY <1>2, <1>3, <1>4

(* The same up to N.                                                       *)
LEMMA CountingTo ==
  ASSUME NEW N \in Nat, NEW T, 0 \in T, \A n \in 1 .. N : n - 1 \in T => n \in T
  PROVE  0 .. N \subseteq T
<1> DEFINE U == {n \in Nat : n <= N => n \in T}
<1>1. 0 \in U
  OBVIOUS
<1>2. ASSUME NEW n \in U PROVE n + 1 \in U
  <2>1. n + 1 <= N => n + 1 \in 1 .. N /\ (n + 1) - 1 = n /\ n <= N
    BY <1>2
  <2> QED
    BY <2>1
<1>3. U = Nat
  <2> HIDE DEF U
  <2>1. U \in SUBSET Nat
    BY DEF U
  <2> QED
    BY <1>1, <1>2, <2>1, Counting
<1> QED
  BY <1>3

(* The functions on 0 .. N with values in S that start with a and go on by g. *)
Iterates(S, a, N, g) ==
  {f \in [0 .. N -> S] : f[0] = a /\ \A n \in 1 .. N : f[n] = g[<<n, f[n - 1]>>]}

(* There is such a function: the recursion has a result.                   *)
LEMMA RecursionTo ==
  ASSUME NEW S, NEW a \in S, NEW N \in Nat, NEW g \in [(1 .. N) \X S -> S]
  PROVE  Iterates(S, a, N, g) # {}
<1> DEFINE Upto(m) == {f \in [0 .. m -> S] : f[0] = a /\ \A n \in 1 .. m : f[n] = g[<<n, f[n - 1]>>]}
           T == {m \in 0 .. N : Upto(m) # {}}
<1>1. 0 \in T
  <2>1. [n \in 0 .. 0 |-> a] \in Upto(0)
    OBVIOUS
  <2>2. Upto(0) # {}
    BY <2>1
  <2> QED
    BY <2>2
<1>2. ASSUME NEW m \in 1 .. N, m - 1 \in T PROVE m \in T
  <2>1. PICK f \in Upto(m - 1) : TRUE
    BY <1>2
  <2>2. m - 1 \in 0 .. m - 1 /\ f[m - 1] \in S /\ f \in [0 .. m - 1 -> S]
    BY <2>1
  <2>0. f[0] = a /\ \A n \in 1 .. m - 1 : f[n] = g[<<n, f[n - 1]>>]
    BY <2>1
  <2> DEFINE last == g[<<m, f[m - 1]>>]
             h == [n \in 0 .. m |-> IF n = m THEN last ELSE f[n]]
  <2>l. last \in S
    BY <2>2
  <2> HIDE DEF last
  <2>3. h \in [0 .. m -> S]
    <3>1. ASSUME NEW n \in 0 .. m, n # m PROVE f[n] \in S
      BY <2>2, <3>1
    <3> QED
      BY <2>l, <3>1
  <2>4. h[0] = a
    BY <2>0
  <2>5. ASSUME NEW n \in 1 .. m PROVE h[n] = g[<<n, h[n - 1]>>]
    <3>1. n - 1 \in 0 .. m - 1 /\ n \in 0 .. m /\ n - 1 \in 0 .. m
      OBVIOUS
    <3>4. h[n - 1] = f[n - 1]
      BY <3>1
    <3>2. CASE n = m
      <4>1. h[n] = last
        BY <3>1, <3>2
      <4> QED
        BY <4>1, <3>2, <3>4 DEF last
    <3>3. CASE n # m
      <4>1. n \in 1 .. m - 1 /\ h[n] = f[n]
        BY <3>1, <3>3
      <4>2. f[n] = g[<<n, f[n - 1]>>]
        BY <2>0, <4>1
      <4> HIDE DEF h
      <4> QED
        BY <3>4, <4>1, <4>2
    <3> QED
      BY <3>2, <3>3
  <2>6. h \in Upto(m)
    <3> HIDE DEF h
    <3> QED
      BY <2>3, <2>4, <2>5
  <2>7. Upto(m) # {}
    <3> HIDE DEF Upto
    <3> QED BY <2>6
  <2> QED
    BY <2>7
<1>3. N \in T
  <2> HIDE DEF T
  <2>1. 0 .. N \subseteq T
    BY <1>1, <1>2, CountingTo
  <2> QED
    BY <2>1
<1>4. Upto(N) # {}
  BY <1>3
<1> QED
  BY <1>4 DEF Iterates

-----------------------------------------------------------------------------
(* Lines of waiting workers. *)
LOCAL INSTANCE SequencesExt

(* Nobody waits in it twice. *)
Distinct(line) == \A j, k \in DOMAIN line : line[j] = line[k] => j = k

(* One more entry at the end of a line.                                    *)
LEMMA Appended ==
    ASSUME NEW S, NEW line \in Seq(S), NEW x \in S
    PROVE  /\ Append(line, x) \in Seq(S)
           /\ Len(Append(line, x)) = Len(line) + 1
           /\ Append(line, x) # <<>>
           /\ ToSet(Append(line, x)) = ToSet(line) \cup {x}
           /\ Distinct(line) /\ x \notin ToSet(line) => Distinct(Append(line, x))
<1> DEFINE y == Append(line, x)
<1>1. /\ y \in Seq(S) /\ Len(y) = Len(line) + 1 /\ Len(line) \in Nat
      /\ \A i \in 1 .. Len(line) : y[i] = line[i]
      /\ y[Len(line) + 1] = x
    BY AppendProperties, LenProperties
<1>2. DOMAIN y = 1 .. Len(line) + 1 /\ DOMAIN line = 1 .. Len(line)
    BY <1>1, LenProperties
<1> HIDE DEF y
<1>3. 1 .. Len(line) + 1 = 1 .. Len(line) \cup {Len(line) + 1}
    BY <1>1
<1>4. ToSet(y) = ToSet(line) \cup {x}
    BY <1>1, <1>2, <1>3 DEF ToSet
<1>5. ASSUME Distinct(line), x \notin ToSet(line) PROVE Distinct(y)
    <2>1. \A i \in 1 .. Len(line) : y[i] # x
        BY <1>1, <1>2, <1>5 DEF ToSet
    <2> SUFFICES ASSUME NEW j \in DOMAIN y, NEW k \in DOMAIN y, y[j] = y[k] PROVE j = k
        BY DEF Distinct
    <2>2. CASE j \in 1 .. Len(line) /\ k \in 1 .. Len(line)
        BY <1>1, <1>2, <1>5, <2>2 DEF Distinct
    <2>3. CASE j = Len(line) + 1 \/ k = Len(line) + 1
        BY <1>1, <1>2, <1>3, <2>1, <2>3
    <2> QED
        BY <1>2, <1>3, <2>2, <2>3
<1>6. y # <<>>
    <2>1. Len(<<>>) = 0
        OBVIOUS
    <2> QED
        BY <1>1, <2>1
<1> QED
    BY <1>1, <1>4, <1>5, <1>6 DEF y

(* A line that is not empty has a first one of those seen last.            *)
LEMMA MostRecentOfLine ==
    ASSUME NEW S, NEW line \in Seq(S), line # <<>>, NEW age \in [S -> Nat]
    PROVE  MostRecentOf(line, age) \in DOMAIN line
<1> DEFINE D == DOMAIN line
           ages == {age[line[k]] : k \in D}
           Best(k) == \A j \in D : \/ age[line[k]] < age[line[j]]
                                   \/ age[line[k]] = age[line[j]] /\ k <= j
<1>1. D = 1 .. Len(line) /\ Len(line) \in Nat /\ Len(line) # 0
    BY LenProperties, EmptySeq
<1>2. \A k \in D : age[line[k]] \in Nat
    <2>1. \A k \in D : line[k] \in S
        BY <1>1, ElementOfSeq
    <2> QED
        BY <2>1
<1> HIDE DEF D
<1>3. PICK a \in ages : \A x \in ages : a <= x
    <2>1. ages \subseteq Nat /\ 1 \in D
        BY <1>1, <1>2
    <2>2. ages # {}
        BY <2>1
    <2> HIDE DEF ages
    <2> QED
        BY <2>1, <2>2, LeastNumber
<1> DEFINE youngest == {k \in D : age[line[k]] = a}
<1>4. PICK k \in youngest : \A x \in youngest : k <= x
    <2>1. youngest \subseteq Nat /\ youngest # {}
        BY <1>1, <1>3
    <2> HIDE DEF youngest
    <2> QED
        BY <2>1, LeastNumber
<1>5. k \in D /\ Best(k)
    <2>1. ASSUME NEW j \in D
          PROVE  age[line[k]] < age[line[j]] \/ (age[line[k]] = age[line[j]] /\ k <= j)
        <3>1. /\ age[line[j]] \in ages /\ age[line[k]] = a /\ a \in Nat
              /\ age[line[j]] \in Nat
            BY <1>2, <1>3, <1>4
        <3>2. a <= age[line[j]]
            BY <1>3, <3>1
        <3>3. age[line[j]] = a => k <= j
            BY <1>4
        <3> QED
            BY <3>1, <3>2, <3>3
    <2> QED
        BY <1>4, <2>1
<1>6. MostRecentOf(line, age) = CHOOSE i \in D : Best(i)
    BY DEF MostRecentOf, D
<1> HIDE DEF Best
<1>7. MostRecentOf(line, age) \in D
    BY <1>5, <1>6
<1> QED
    BY <1>7 DEF D

(* Erasing the entries of some workers leaves those of the others.         *)
LEMMA WithoutLine ==
    ASSUME NEW S, NEW line \in Seq(S), NEW W
    PROVE  /\ Without(line, W) \in Seq(S)
           /\ ToSet(Without(line, W)) = ToSet(line) \ W
           /\ Len(Without(line, W)) <= Len(line)
           /\ Distinct(line) => Distinct(Without(line, W))
<1> DEFINE N == Len(line)
           step == [p \in (1 .. N) \X Seq(S) |->
                       IF line[p[1]] \in W THEN p[2] ELSE Append(p[2], line[p[1]])]
           IsLeft(f) == f = [n \in 0 .. N |->
                       IF n = 0 THEN <<>>
                       ELSE IF line[n] \in W THEN f[n - 1] ELSE Append(f[n - 1], line[n])]
           left == CHOOSE f : IsLeft(f)
           Erased(n) == {x \in Seq(S) :
                            /\ ToSet(x) = {line[i] : i \in 1 .. n} \ W
                            /\ Len(x) <= n
                            /\ Distinct(line) => Distinct(x)}
           T == {n \in 0 .. N : left[n] \in Erased(n)}
<1>1. N \in Nat /\ (\A n \in 1 .. N : line[n] \in S) /\ <<>> \in Seq(S)
    BY LenProperties, ElementOfSeq
<1> HIDE DEF N
<1>2. step \in [(1 .. N) \X Seq(S) -> Seq(S)]
    <2> SUFFICES ASSUME NEW p \in (1 .. N) \X Seq(S)
                 PROVE  (IF line[p[1]] \in W THEN p[2] ELSE Append(p[2], line[p[1]])) \in Seq(S)
        OBVIOUS
    <2>1. p[1] \in 1 .. N /\ p[2] \in Seq(S)
        OBVIOUS
    <2> QED
        BY <1>1, <2>1, AppendProperties
<1>3. PICK f \in [0 .. N -> Seq(S)] :
            f[0] = <<>> /\ \A n \in 1 .. N : f[n] = step[<<n, f[n - 1]>>]
    <2> DEFINE Lines == Seq(S)
               none == <<>>
    <2>1. none \in Lines /\ N \in Nat /\ step \in [(1 .. N) \X Lines -> Lines]
        BY <1>1, <1>2
    <2> HIDE DEF step, Lines, none
    <2>2. Iterates(Lines, none, N, step) # {}
        BY <2>1, RecursionTo
    <2> QED
        BY <2>2 DEF Iterates, Lines, none
<1>4. IsLeft(f)
    <2>1. ASSUME NEW n \in 1 .. N
          PROVE  f[n] = IF line[n] \in W THEN f[n - 1] ELSE Append(f[n - 1], line[n])
        <3>1. n - 1 \in 0 .. N /\ f[n - 1] \in Seq(S)
            BY <1>1, <1>3
        <3>2. f[n] = step[<<n, f[n - 1]>>] /\ <<n, f[n - 1]>> \in (1 .. N) \X Seq(S)
            BY <1>3, <3>1
        <3> QED
            BY <3>2
    <2> HIDE DEF step
    <2>2. f = [n \in 0 .. N |-> f[n]]
        BY <1>3
    <2>3. \A n \in 0 .. N : f[n] = IF n = 0 THEN <<>>
                       ELSE IF line[n] \in W THEN f[n - 1] ELSE Append(f[n - 1], line[n])
        <3>1. \A n \in 0 .. N : n = 0 \/ n \in 1 .. N
            BY <1>1
        <3>2. \A n \in 1 .. N : n # 0
            BY <1>1
        <3> QED
            BY <1>3, <2>1, <3>1, <3>2
    <2> QED
        BY <2>2, <2>3
<1>5. IsLeft(left)
    <2> HIDE DEF IsLeft
    <2> QED
        BY <1>4
<1>6. Without(line, W) = left[N]
    BY DEF Without, N
<1>7. left[0] = <<>> /\ \A n \in 1 .. N :
            left[n] = IF line[n] \in W THEN left[n - 1] ELSE Append(left[n - 1], line[n])
    <2> HIDE DEF left
    <2>1. 0 \in 0 .. N /\ \A n \in 1 .. N : n \in 0 .. N /\ n # 0
        BY <1>1
    <2> QED
        BY <1>5, <2>1
<1> HIDE DEF left, IsLeft
<1>8. 0 \in T
    <2>1. ToSet(<<>>) = {} /\ {line[i] : i \in 1 .. 0} = {} /\ Len(<<>>) = 0 /\ Distinct(<<>>)
        BY DEF ToSet, Distinct
    <2>2. <<>> \in Erased(0)
        BY <1>1, <2>1
    <2> HIDE DEF Erased
    <2> QED
        BY <1>1, <1>7, <2>2
<1>9. ASSUME NEW n \in 1 .. N, n - 1 \in T PROVE n \in T
    <2> DEFINE x == left[n - 1]
    <2>1. /\ x \in Seq(S) /\ ToSet(x) = {line[i] : i \in 1 .. n - 1} \ W
          /\ Len(x) <= n - 1
          /\ Distinct(line) => Distinct(x)
        BY <1>9
    <2> HIDE DEF x
    <2>2. {line[i] : i \in 1 .. n} = {line[i] : i \in 1 .. n - 1} \cup {line[n]}
        <3>1. 1 .. n = 1 .. n - 1 \cup {n}
            BY <1>1
        <3> QED
            BY <3>1
    <2>0. Len(x) \in Nat /\ n \in Nat /\ n \in 0 .. N /\ line[n] \in S
        BY <1>1, <2>1, LenProperties
    <2>3. CASE line[n] \in W
        <3>1. left[n] = x
            BY <1>7, <2>3 DEF x
        <3>2. ToSet(x) = {line[i] : i \in 1 .. n} \ W /\ Len(x) <= n
            BY <2>0, <2>1, <2>2, <2>3
        <3>3. x \in Erased(n)
            BY <2>1, <3>2
        <3> HIDE DEF Erased
        <3> QED
            BY <2>0, <3>1, <3>3
    <2>4. CASE line[n] \notin W
        <3> DEFINE y == Append(x, line[n])
        <3>1. left[n] = y
            BY <1>7, <2>4 DEF x
        <3>2. /\ y \in Seq(S) /\ Len(y) = Len(x) + 1
              /\ ToSet(y) = ToSet(x) \cup {line[n]}
              /\ Distinct(x) /\ line[n] \notin ToSet(x) => Distinct(y)
            <4> DEFINE z == line[n]
            <4>1. x \in Seq(S) /\ z \in S
                BY <2>0, <2>1
            <4> HIDE DEF y, z, Erased, T, step
            <4>2. /\ Append(x, z) \in Seq(S) /\ Len(Append(x, z)) = Len(x) + 1
                  /\ ToSet(Append(x, z)) = ToSet(x) \cup {z}
                  /\ Distinct(x) /\ z \notin ToSet(x) => Distinct(Append(x, z))
                BY <4>1, Appended
            <4> QED
                BY <4>2 DEF y, z
        <3> HIDE DEF y
        <3>3. ToSet(y) = {line[i] : i \in 1 .. n} \ W /\ Len(y) <= n
            BY <2>0, <2>1, <2>2, <2>4, <3>2
        <3>4. ASSUME Distinct(line) PROVE line[n] \notin ToSet(x)
            <4>1. DOMAIN line = 1 .. N
                BY LenProperties DEF N
            <4>2. \A i \in 1 .. n - 1 : i \in 1 .. N /\ n \in 1 .. N /\ i # n
                BY <1>1
            <4>3. \A i \in 1 .. n - 1 : line[i] # line[n]
                BY <3>4, <4>1, <4>2 DEF Distinct
            <4> QED
                BY <2>1, <4>3
        <3>5. y \in Erased(n)
            BY <2>1, <3>2, <3>3, <3>4
        <3> HIDE DEF Erased
        <3> QED
            BY <2>0, <3>1, <3>5
    <2> QED
        BY <2>3, <2>4
<1>10. N \in T
    <2> HIDE DEF T
    <2>1. 0 .. N \subseteq T
        BY <1>1, <1>8, <1>9, CountingTo
    <2> QED
        BY <1>1, <2>1
<1>11. {line[i] : i \in 1 .. N} = ToSet(line)
    BY LenProperties DEF ToSet, N
<1> QED
    BY <1>6, <1>10, <1>11 DEF N

(* Taking one entry off a line.                                            *)
LEMMA RemoveAtLine ==
    ASSUME NEW S, NEW line \in Seq(S), NEW k \in DOMAIN line
    PROVE  /\ RemoveAt(line, k) \in Seq(S)
           /\ Len(RemoveAt(line, k)) = Len(line) - 1
           /\ ToSet(RemoveAt(line, k)) \subseteq ToSet(line)
           /\ ToSet(line) \ {line[k]} \subseteq ToSet(RemoveAt(line, k))
           /\ Distinct(line) => /\ Distinct(RemoveAt(line, k))
                                /\ line[k] \notin ToSet(RemoveAt(line, k))
<1> DEFINE before == SubSeq(line, 1, k - 1)
           after == SubSeq(line, k + 1, Len(line))
<1>1. k \in 1 .. Len(line) /\ Len(line) \in Nat
    BY LenProperties
<1>2. /\ before \in Seq(S) /\ Len(before) = k - 1
      /\ \A i \in 1 .. k - 1 : before[i] = line[i]
    BY <1>1
<1>3. /\ after \in Seq(S) /\ Len(after) = Len(line) - k
      /\ \A i \in 1 .. Len(line) - k : after[i] = line[k + i]
    BY <1>1
<1> HIDE DEF before, after
<1>4. RemoveAt(line, k) = before \o after
    BY DEF RemoveAt, before, after
<1>5. /\ before \o after \in Seq(S)
      /\ Len(before \o after) = Len(line) - 1
      /\ \A i \in 1 .. Len(line) - 1 :
            (before \o after)[i] = IF i < k THEN line[i] ELSE line[i + 1]
    <2>1. before \o after \in Seq(S) /\ Len(before \o after) = Len(line) - 1
        BY <1>1, <1>2, <1>3, ConcatProperties
    <2>2. ASSUME NEW i \in 1 .. Len(line) - 1
          PROVE  (before \o after)[i] = IF i < k THEN line[i] ELSE line[i + 1]
        <3>1. CASE i < k
            BY <1>1, <1>2, <1>3, <3>1, ConcatProperties
        <3>2. CASE i >= k
            <4>1. (before \o after)[i] = after[i - (k - 1)]
                <5>1. Len(before) = k - 1 /\ Len(after) = Len(line) - k
                      /\ i \in 1 .. Len(before) + Len(after) /\ ~(i <= Len(before))
                    BY <1>1, <1>2, <1>3, <3>2
                <5>2. (before \o after)[i] = after[i - Len(before)]
                    BY ONLY <1>2, <1>3, <5>1, ConcatProperties
                <5> QED
                    BY ONLY <5>1, <5>2
            <4>2. i - (k - 1) \in 1 .. Len(line) - k /\ k + (i - (k - 1)) = i + 1
                BY <1>1, <3>2
            <4>3. ~(i < k)
                BY <1>1, <3>2
            <4> QED
                BY <1>3, <4>1, <4>2, <4>3
        <3>3. i < k \/ i >= k
            BY <1>1
        <3> HIDE DEF before, after
        <3> QED
            BY <3>1, <3>2, <3>3
    <2> QED
        BY <2>1, <2>2
<1> DEFINE r == before \o after
<1> HIDE DEF r
<1>6. r \in Seq(S) /\ Len(r) = Len(line) - 1 /\ DOMAIN r = 1 .. Len(line) - 1
    BY <1>1, <1>5, LenProperties DEF r
<1>7. \A i \in 1 .. Len(line) - 1 : r[i] = IF i < k THEN line[i] ELSE line[i + 1]
    BY <1>5 DEF r
<1>8. ToSet(r) \subseteq ToSet(line)
    <2>1. ASSUME NEW i \in 1 .. Len(line) - 1 PROVE r[i] \in ToSet(line)
        <3>1. i \in 1 .. Len(line) /\ i + 1 \in 1 .. Len(line)
            BY <1>1
        <3>2. line[i] \in ToSet(line) /\ line[i + 1] \in ToSet(line)
            BY <3>1, LenProperties DEF ToSet
        <3> QED
            BY <1>7, <3>2
    <2> QED
        BY <1>6, <2>1 DEF ToSet
<1>9. ToSet(line) \ {line[k]} \subseteq ToSet(r)
    <2>1. ASSUME NEW j \in 1 .. Len(line), j # k PROVE line[j] \in ToSet(r)
        <3>1. CASE j < k
            <4>1. j \in 1 .. Len(line) - 1 /\ r[j] = line[j]
                BY <1>1, <1>7, <3>1
            <4> QED
                BY <1>6, <4>1 DEF ToSet
        <3>2. CASE j > k
            <4>1. j - 1 \in 1 .. Len(line) - 1 /\ ~(j - 1 < k) /\ (j - 1) + 1 = j
                BY <1>1, <3>2
            <4>2. r[j - 1] = line[j]
                BY <1>7, <4>1
            <4> QED
                BY <1>6, <4>1, <4>2 DEF ToSet
        <3> QED
            BY <1>1, <2>1, <3>1, <3>2
    <2>2. DOMAIN line = 1 .. Len(line)
        BY LenProperties
    <2> QED
        BY <2>1, <2>2 DEF ToSet
<1>10. ASSUME Distinct(line) PROVE Distinct(r) /\ line[k] \notin ToSet(r)
    <2> DEFINE At(i) == IF i < k THEN i ELSE i + 1
    <2>1. \A i \in 1 .. Len(line) - 1 : At(i) \in 1 .. Len(line) /\ At(i) # k
        BY <1>1
    <2>2. \A i, j \in 1 .. Len(line) - 1 : At(i) = At(j) => i = j
        BY <1>1
    <2>3. \A i \in 1 .. Len(line) - 1 : r[i] = line[At(i)]
        BY <1>7
    <2>4. \A i, j \in 1 .. Len(line) : line[i] = line[j] => i = j
        BY <1>10, LenProperties DEF Distinct
    <2> HIDE DEF At
    <2>5. Distinct(r)
        <3>1. ASSUME NEW i \in DOMAIN r, NEW j \in DOMAIN r, r[i] = r[j] PROVE i = j
            <4>1. i \in 1 .. Len(line) - 1 /\ j \in 1 .. Len(line) - 1
                BY <1>6
            <4>2. line[At(i)] = line[At(j)]
                BY <2>3, <3>1, <4>1
            <4>3. At(i) = At(j)
                BY ONLY <2>1, <2>4, <4>1, <4>2
            <4> QED
                BY ONLY <2>2, <4>1, <4>3
        <3> QED
            BY <3>1 DEF Distinct
    <2>6. line[k] \notin ToSet(r)
        BY <1>1, <1>6, <2>1, <2>3, <2>4 DEF ToSet
    <2> QED
        BY <2>5, <2>6
<1> QED
    BY <1>4, <1>6, <1>8, <1>9, <1>10 DEF r
=============================================================================

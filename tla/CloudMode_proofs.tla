-------------------------- MODULE CloudMode_proofs --------------------------
(***************************************************************************)
(* Theorems about CloudMode, for any lists, intervals and bounds.          *)
(***************************************************************************)
EXTENDS CloudMode, SequenceTheorems, TLAPS

(* A choice that will make a request is made while requests are left. *)
AskInv ==
    mainPc = "decide" /\ choice[1] \in {"create", "get", "update"} => asked < MaxAsked

Inv == TypeOK /\ AskInv /\ ClockInv /\ FollowInv

LEMMA OtherType == Other \in MenuChoices \X Lists
BY CloudAssumption DEF Other, MenuChoices

LEMMA SubscribeType ==
  ASSUME TypeOK, NEW L \in SUBSET Lists, Subscribe(L)
  PROVE  /\ subs' \in [Lists -> 0 .. MaxSubs]
         /\ unfollowed' \subseteq Lists
         /\ \A l \in Lists : subs[l] > 0 => subs'[l] > 0
         /\ \A l \in L : subs'[l] > 0
<1>1. \A l \in Lists : subs[l] \in 0 .. MaxSubs
  BY DEF TypeOK
<1> QED
  BY <1>1, CloudAssumption DEF TypeOK, Subscribe

LEMMA UnsubscribeType ==
  ASSUME TypeOK, NEW l \in Lists, Unsubscribe(l)
  PROVE  /\ subs' \in [Lists -> 0 .. MaxSubs]
         /\ unfollowed' = unfollowed \cup {l}
         /\ \A k \in Lists \ {l} : subs'[k] = subs[k]
BY DEF TypeOK, Unsubscribe

LEMMA HbActType ==
  ASSUME TypeOK, HbAct
  PROVE  /\ subs' \in [Lists -> 0 .. MaxSubs]
         /\ unfollowed' \subseteq Lists
         /\ \A l \in Lists : subs[l] > 0 => subs'[l] > 0
         /\ mode => \A l \in held : subs'[l] > 0
<1>1. \A l \in Lists : subs[l] \in 0 .. MaxSubs
  BY DEF TypeOK
<1> QED
  BY <1>1, CloudAssumption DEF TypeOK, HbAct

LEMMA SendIfDueType ==
  ASSUME TypeOK, NEW both \in BOOLEAN, SendIfDue(both)
  PROVE  sendIn' \in -MaxLag .. 2 * Interval
<1>1. CASE sendIn > 0
  BY <1>1 DEF SendIfDue, TypeOK
<1>2. CASE ~(sendIn > 0)
  <2>1. PICK k \in {1, 2} : sendIn' = sendIn + k * Interval
    BY <1>2 DEF SendIfDue
  <2>2. sendIn' = sendIn + Interval \/ sendIn' = sendIn + 2 * Interval
    BY <2>1, CloudAssumption
  <2> QED
    BY <2>2, <1>2, CloudAssumption DEF TypeOK
<1> QED
  BY <1>1, <1>2

LEMMA TypeInit == Init => TypeOK
<1> SUFFICES ASSUME Init PROVE TypeOK
  OBVIOUS
<1>1. /\ Interval \in 0 .. Interval /\ Interval \in -MaxLag .. Interval
      /\ Interval \in -MaxLag .. 2 * Interval /\ Interval + 1 \in 0 .. Interval + 1
      /\ 0 \in 0 .. MaxAsked /\ 0 \in 0 .. MaxSubs /\ 0 \in 0 .. Interval
  BY CloudAssumption
<1>2. subs \in [Lists -> 0 .. MaxSubs]
  BY <1>1 DEF Init
<1> QED
  BY <1>1, <1>2, OtherType DEF Init, TypeOK

(* One step per action. *)
LEMMA TypeStep ==
  ASSUME TypeOK, AskInv, [Next]_vars
  PROVE  TypeOK' /\ AskInv'
<1> USE CloudAssumption DEF TypeOK, AskInv, clock, hb, main, db, cloud
<1>1. CASE TakeHeartbeat
  <2>1. expiresIn' \in 0 .. Interval /\ silence' \in 0 .. Interval + 1
    BY <1>1 DEF TakeHeartbeat
  <2> QED
    BY <1>1, <2>1 DEF TakeHeartbeat
<1>2. CASE PollOut
  <2>1. SendIfDue(mainPc = "recv" /\ mainLeft = 0)
    BY <1>2 DEF PollOut
  <2>2. sendIn' \in -MaxLag .. 2 * Interval
    BY <2>1, SendIfDueType
  <2> QED
    BY <1>2, <2>2 DEF PollOut
<1>3. CASE Compare \/ Assign
  BY <1>3 DEF Compare, Assign
<1>4. CASE HbAct
  <2>1. subs' \in [Lists -> 0 .. MaxSubs] /\ unfollowed' \subseteq Lists
    BY <1>4, HbActType
  <2> QED
    BY <1>4, <2>1 DEF HbAct
<1>5. ASSUME NEW kind \in MenuChoices, NEW l \in Lists, Choose(kind, l)
      PROVE  TypeOK' /\ AskInv'
  BY <1>5 DEF Choose, MenuChoices
<1>6. CASE Act
  <2>1. choice[2] \in Lists /\ choice[1] \in MenuChoices
    BY DEF MenuChoices
  <2>2. subs' \in [Lists -> 0 .. MaxSubs] /\ unfollowed' \subseteq Lists /\ asked' \in 0 .. MaxAsked
    <3>1. CASE choice[1] \in {"create", "get", "update"}
      <4>1. Subscribe({choice[2]}) /\ Ask(choice[2])
        BY <1>6, <3>1 DEF Act
      <4>2. asked' = asked + 1 /\ asked < MaxAsked
        BY <1>6, <3>1, <4>1 DEF Act, Ask
      <4> QED
        BY <2>1, <4>1, <4>2, SubscribeType
    <3>2. CASE choice[1] = "delete"
      <4>1. Unsubscribe(choice[2]) /\ asked' = asked
        BY <1>6, <3>2 DEF Act
      <4> QED
        BY <2>1, <4>1, UnsubscribeType
    <3>3. CASE choice[1] = "other"
      BY <1>6, <3>3 DEF Act
    <3> QED
      BY <2>1, <3>1, <3>2, <3>3 DEF MenuChoices
  <2>3. choice' \in MenuChoices \X Lists
    BY <1>6, OtherType DEF Act
  <2> QED
    BY <1>6, <2>2, <2>3 DEF Act
<1>7. CASE Offline \/ Recv \/ Expire
  <2>1. ToMenu /\ (unfollowed' = Lists \/ unfollowed' = unfollowed)
    BY <1>7 DEF Offline, Recv, Expire
  <2>2. mainPc' = "menu" /\ mainLeft' \in 0 .. Interval /\ choice' \in MenuChoices \X Lists
    BY <2>1, OtherType DEF ToMenu
  <2> QED
    BY <1>7, <2>1, <2>2 DEF Offline, Recv, Expire
<1>8. CASE RecvOut
  <2>1. SendIfDue(hbPc = "poll" /\ hbLeft = 0)
    BY <1>8 DEF RecvOut
  <2>2. sendIn' \in -MaxLag .. 2 * Interval
    BY <2>1, SendIfDueType
  <2> QED
    BY <1>8, <2>2 DEF RecvOut
<1>9. ASSUME NEW l \in Lists, Store(l) \/ Publish(l)
      PROVE  TypeOK' /\ AskInv'
  BY <1>9 DEF Store, Publish
<1>10. CASE ClientProcess
  BY <1>10 DEF ClientProcess
<1>11. CASE Beat
  BY <1>11 DEF Beat
<1>12. CASE WorkersChange
  BY <1>12 DEF WorkersChange
<1>13. CASE Crash
  BY <1>13 DEF Crash
<1>14. CASE Boot
  <2>1. beatIn' \in -MaxLag .. Interval
    BY <1>14 DEF Boot
  <2> QED
    BY <1>14, <2>1 DEF Boot
<1>15. CASE Tick
  BY <1>15 DEF Tick
<1>16. CASE UNCHANGED vars
  BY <1>16 DEF vars
<1> QED
  BY <1>1, <1>2, <1>3, <1>4, <1>5, <1>6, <1>7, <1>8, <1>9, <1>10, <1>11, <1>12, <1>13, <1>14,
     <1>15, <1>16
  DEF Next, HeartbeatThread, MainThread

(* Only the heartbeat thread and time touch what ClockInv relates; the     *)
(* main thread can only clear the flag.                                    *)
LEMMA ClockStep ==
  ASSUME TypeOK, ClockInv, [Next]_vars
  PROVE  ClockInv'
<1> USE CloudAssumption DEF TypeOK, ClockInv, clock, hb, main, db, cloud
<1>1. CASE TakeHeartbeat
  BY <1>1 DEF TakeHeartbeat
<1>2. CASE PollOut
  <2>1. hbPc = "poll" /\ hbLeft = 0 /\ (mode' => mode /\ expiresIn > 0)
    BY <1>2 DEF PollOut
  <2>2. mode => expiresIn = 0
    BY <2>1
  <2> QED
    BY <2>1, <2>2
<1>3. CASE Compare \/ Assign \/ HbAct
  BY <1>3 DEF Compare, Assign, HbAct
<1>4. CASE \E l \in Lists, kind \in MenuChoices : Choose(kind, l)
  BY <1>4 DEF Choose
<1>5. CASE MainThread
  BY <1>5 DEF MainThread, Act, Offline, Recv, RecvOut, Expire
<1>6. CASE \E l \in Lists : Store(l) \/ Publish(l)
  BY <1>6 DEF Store, Publish
<1>7. CASE ClientProcess \/ Beat \/ WorkersChange \/ Crash \/ Boot
  BY <1>7 DEF ClientProcess, Beat, WorkersChange, Crash, Boot
<1>8. CASE Tick
  BY <1>8 DEF Tick
<1>9. CASE UNCHANGED vars
  BY <1>9 DEF vars
<1> QED
  BY <1>1, <1>2, <1>3, <1>4, <1>5, <1>6, <1>7, <1>8, <1>9 DEF Next, HeartbeatThread

LEMMA FollowStep ==
  ASSUME TypeOK, FollowInv, [Next]_vars
  PROVE  FollowInv'
<1> USE DEF FollowInv, Followed, clock, hb, main, db, cloud
<1>0. unfollowed \subseteq Lists /\ held \subseteq Lists /\ pending \subseteq Lists
  BY DEF TypeOK
<1>1. CASE TakeHeartbeat
  BY <1>0, <1>1 DEF TakeHeartbeat
<1>2. CASE PollOut
  BY <1>2 DEF PollOut
<1>3. CASE Compare
  BY <1>3 DEF Compare, TypeOK
<1>4. CASE Assign
  BY <1>4 DEF Assign, TypeOK
<1>5. CASE HbAct
  <2>1. /\ \A l \in Lists : subs[l] > 0 => subs'[l] > 0
        /\ mode => \A l \in held : subs'[l] > 0
    BY <1>5, HbActType
  <2>2. CASE mode
    BY <1>0, <1>5, <2>1, <2>2 DEF HbAct
  <2>3. CASE ~mode
    BY <1>5, <2>3 DEF HbAct
  <2> QED
    BY <2>2, <2>3
<1>6. ASSUME NEW kind \in MenuChoices, NEW l \in Lists, Choose(kind, l)
      PROVE  FollowInv'
  <2>1. UNCHANGED <<mode, hb, pending, subs, unfollowed>>
    BY <1>6 DEF Choose
  <2>2. \A k \in held' \ {l} : k \in held /\ (Followed(k) => Followed(k)')
    BY <1>6, <2>1 DEF Choose
  <2> QED
    BY <1>6, <2>1 DEF Choose
<1>7. CASE Act
  <2>1. choice[2] \in Lists /\ choice[1] \in MenuChoices /\ choice = <<choice[1], choice[2]>>
    BY DEF TypeOK
  <2>2. UNCHANGED <<mode, hb, pending, held>> /\ mode /\ mainPc = "decide"
    BY <1>7 DEF Act
  <2>3. CASE choice[1] \in {"create", "get", "update"}
    <3>1. Subscribe({choice[2]})
      BY <1>7, <2>3 DEF Act
    <3>2. /\ \A l \in Lists : subs[l] > 0 => subs'[l] > 0
          /\ subs'[choice[2]] > 0
          /\ unfollowed' = unfollowed \ {choice[2]}
      BY <2>1, <3>1, SubscribeType DEF Subscribe
    <3>3. \A l \in held : Followed(l) => Followed(l)'
      BY <1>0, <2>1, <3>2
    <3> QED
      BY <1>0, <2>2, <3>2, <3>3
  <2>4. CASE choice[1] = "delete"
    <3>1. Unsubscribe(choice[2])
      BY <1>7, <2>4 DEF Act
    <3>2. /\ unfollowed' = unfollowed \cup {choice[2]}
          /\ \A k \in Lists \ {choice[2]} : subs'[k] = subs[k]
      BY <2>1, <3>1, UnsubscribeType
    <3>3. \A l \in held : Followed(l) => Followed(l)'
      BY <1>0, <2>1, <2>4, <3>2
    <3> QED
      BY <1>0, <2>2, <3>2, <3>3
  <2>5. CASE choice[1] = "other"
    <3>1. UNCHANGED <<subs, unfollowed>>
      BY <1>7, <2>5 DEF Act
    <3>2. \A l \in held : Followed(l) => Followed(l)'
      BY <2>1, <2>5, <3>1
    <3> QED
      BY <2>2, <3>1, <3>2
  <2> QED
    BY <2>1, <2>3, <2>4, <2>5 DEF MenuChoices
<1>8. CASE Offline
  BY <1>8 DEF Offline
<1>9. CASE Recv
  BY <1>9 DEF Recv
<1>10. CASE RecvOut
  BY <1>10 DEF RecvOut
<1>11. CASE Expire
  BY <1>11, <1>0 DEF Expire, TypeOK
<1>12. ASSUME NEW l \in Lists, Store(l) \/ Publish(l)
       PROVE  FollowInv'
  BY <1>12, <1>0 DEF Store, Publish
<1>13. CASE ClientProcess \/ Beat \/ WorkersChange \/ Crash \/ Boot
  BY <1>13 DEF ClientProcess, Beat, WorkersChange, Crash, Boot
<1>14. CASE Tick
  BY <1>14 DEF Tick
<1>15. CASE UNCHANGED vars
  BY <1>15 DEF vars
<1> QED
  BY <1>1, <1>2, <1>3, <1>4, <1>5, <1>6, <1>7, <1>8, <1>9, <1>10, <1>11, <1>12, <1>13, <1>14, <1>15
  DEF Next, HeartbeatThread, MainThread

LEMMA Invariance == Spec => []Inv
<1>1. Init => Inv
  <2>1. Init => AskInv /\ ClockInv /\ FollowInv
    BY DEF Init, AskInv, ClockInv, FollowInv
  <2> QED
    BY <2>1, TypeInit DEF Inv
<1>2. Inv /\ [Next]_vars => Inv'
  BY TypeStep, ClockStep, FollowStep DEF Inv
<1> QED
  BY <1>1, <1>2, PTL DEF Spec

(* Every variable keeps its type. *)
THEOREM CloudTypes == Spec => []TypeOK
<1>1. Inv => TypeOK
  BY DEF Inv
<1> QED
  BY <1>1, Invariance, PTL

(* Cloud mode ends with the expiry of the last heartbeat (recv_heartbeat), *)
(* whatever the main thread does and however the messages are delayed.     *)
THEOREM NeverStale == Spec => []OffWhenSilent
<1>1. Inv => OffWhenSilent
  BY CloudAssumption DEF Inv, TypeOK, ClockInv, OffWhenSilent
<1> QED
  BY <1>1, Invariance, PTL

(* In cloud mode every list held is subscribed to, but for those deleted   *)
(* and for the changes of mode only the main thread saw                    *)
(* (listenForHeartBeats, main).                                            *)
THEOREM AllFollowed == Spec => []HeldFollowed
<1>1. Inv => HeldFollowed
  BY DEF Inv, FollowInv, Followed, HeldFollowed
<1> QED
  BY <1>1, Invariance, PTL

-----------------------------------------------------------------------------
(* The bytes of an envelope.                                               *)
LEMMA Nibbles ==
  \A n \in Byte : /\ n \div 16 \in 0 .. 15 /\ n % 16 \in 0 .. 15
                  /\ 16 * (n \div 16) + (n % 16) = n
  BY DEF Byte

LEMMA Digits ==
  \A n \in 0 .. 15 : HexToBin(Digit(n)) = n /\ Digit(n) \in 48 .. 57 \cup 65 .. 70
  BY DEF HexToBin, Digit

(* A binary identity that a router reads is the one it sends back to.      *)
THEOREM IdentitySurvives ==
  ASSUME NEW data \in [1 .. 17 -> Byte], data[1] = 0
  PROVE  DecodeUuid(EncodeUuid(data)) = data
<1> DEFINE u == EncodeUuid(data)
<1>1. ASSUME NEW k \in 2 .. 17
      PROVE  (16 * HexToBin(u[2 * k - 2]) + HexToBin(u[2 * k - 1])) % 256 = data[k]
  <2>1. /\ 2 * k - 2 \in 1 .. 33 /\ 2 * k - 2 # 1 /\ (2 * k - 2) % 2 = 0
        /\ 2 * k - 1 \in 1 .. 33 /\ 2 * k - 1 # 1 /\ (2 * k - 1) % 2 # 0
        /\ (2 * k - 2) \div 2 + 1 = k /\ (2 * k - 1) \div 2 + 1 = k
    OBVIOUS
  <2>2. u[2 * k - 2] = Digit(data[k] \div 16) /\ u[2 * k - 1] = Digit(data[k] % 16)
    BY <2>1 DEF EncodeUuid
  <2>3. data[k] \in Byte
    OBVIOUS
  <2> HIDE DEF u
  <2>4. HexToBin(u[2 * k - 2]) = data[k] \div 16 /\ HexToBin(u[2 * k - 1]) = data[k] % 16
    BY <2>2, <2>3, Nibbles, Digits
  <2> QED
    BY <2>3, <2>4, Nibbles DEF Byte
<1> QED
  BY <1>1 DEF DecodeUuid

(* But a frame of 33 bytes that starts with '@' arrives as it was sent     *)
(* only if the rest are digits and capital letters from A to F: any other  *)
(* text of that form is altered on its way (zmsg::send).                   *)
THEOREM OnlyIdentitiesSurvive ==
  ASSUME NEW u \in [1 .. 33 -> Byte], u[1] = AtSign,
         EncodeUuid(DecodeUuid(u)) = u
  PROVE  \A k \in 2 .. 33 : u[k] \in 48 .. 57 \cup 65 .. 70
<1> SUFFICES ASSUME NEW k \in 2 .. 33
             PROVE  u[k] \in 48 .. 57 \cup 65 .. 70
  OBVIOUS
<1> DEFINE d == DecodeUuid(u)
<1>1. k \div 2 + 1 \in 2 .. 17
  OBVIOUS
<1>2. d[k \div 2 + 1] \in Byte
  <2>1. \A c : HexToBin(c) \in Int
    BY DEF HexToBin
  <2> DEFINE j == k \div 2 + 1
  <2>2. j \in 2 .. 17
    BY <1>1
  <2> HIDE DEF j
  <2>3. d[j] = (16 * HexToBin(u[2 * j - 2]) + HexToBin(u[2 * j - 1])) % 256
    BY <2>2 DEF DecodeUuid
  <2> HIDE DEF d
  <2>4. 16 * HexToBin(u[2 * j - 2]) + HexToBin(u[2 * j - 1]) \in Int
    BY <2>1
  <2>5. d[j] \in 0 .. 255
    BY <2>3, <2>4
  <2> QED
    BY <2>5 DEF Byte, j
<1> HIDE DEF d
<1>3. u[k] \in {Digit(d[k \div 2 + 1] \div 16), Digit(d[k \div 2 + 1] % 16)}
  BY DEF EncodeUuid, d
<1> QED
  BY <1>2, <1>3, Nibbles, Digits

-----------------------------------------------------------------------------
(* Envelopes: what reaches the client of a reply.                          *)

(* The frames pop_front leaves. *)
LEMMA PoppedFrames ==
  ASSUME NEW S, NEW m \in Seq(S), NEW n \in 0 .. Len(m)
  PROVE  /\ Popped(m, n) \in Seq(S) /\ Len(Popped(m, n)) = Len(m) - n
         /\ \A i \in 1 .. Len(m) - n : Popped(m, n)[i] = m[n + i]
<1>1. n + 1 \in Int /\ Len(m) \in Nat /\ n \in Nat /\ n <= Len(m)
  OBVIOUS
<1>2. \A i \in n + 1 .. Len(m) : m[i] \in S
  OBVIOUS
<1> DEFINE p == Popped(m, n)
<1>4. /\ p \in Seq(S)
      /\ Len(p) = IF n + 1 <= Len(m) THEN Len(m) - (n + 1) + 1 ELSE 0
      /\ \A i \in 1 .. Len(m) - (n + 1) + 1 : p[i] = m[(n + 1) + i - 1]
  BY <1>1, <1>2, SubSeqProperties DEF Popped
<1> HIDE DEF p
<1>3. \A i \in 1 .. Len(m) - n : (n + 1) + i - 1 = n + i
  BY <1>1
<1>5. Len(p) = Len(m) - n
  BY <1>1, <1>4
<1>6. 1 .. Len(m) - (n + 1) + 1 = 1 .. Len(m) - n
  BY <1>1
<1>7. \A i \in 1 .. Len(m) - n : p[i] = m[n + i]
  BY <1>3, <1>4, <1>6
<1> QED
  BY <1>4, <1>5, <1>7 DEF p

(* The frames of two sequences put together. *)
LEMMA JoinedFrames ==
  ASSUME NEW S, NEW s \in Seq(S), NEW t \in Seq(S)
  PROVE  /\ s \o t \in Seq(S) /\ Len(s \o t) = Len(s) + Len(t)
         /\ \A i \in 1 .. Len(s) : (s \o t)[i] = s[i]
         /\ \A i \in 1 .. Len(t) : (s \o t)[Len(s) + i] = t[i]
<1> DEFINE c == s \o t
<1>1. /\ c \in Seq(S) /\ Len(c) = Len(s) + Len(t)
      /\ \A i \in 1 .. Len(s) + Len(t) : c[i] = IF i <= Len(s) THEN s[i] ELSE t[i - Len(s)]
  BY ConcatProperties
<1>2. Len(s) \in Nat /\ Len(t) \in Nat
  OBVIOUS
<1> HIDE DEF c
<1>3. \A i \in 1 .. Len(s) : c[i] = s[i]
  BY <1>1, <1>2
<1>4. ASSUME NEW i \in 1 .. Len(t) PROVE c[Len(s) + i] = t[i]
  <2>1. Len(s) + i \in 1 .. Len(s) + Len(t) /\ ~(Len(s) + i <= Len(s)) /\ (Len(s) + i) - Len(s) = i
    BY <1>2
  <2> QED
    BY <1>1, <2>1
<1> QED
  BY <1>1, <1>3, <1>4 DEF c

(* ... and a sequence that has them. *)
LEMMA Joined ==
  ASSUME NEW S, NEW s \in Seq(S), NEW t \in Seq(S), NEW m \in Seq(S), Len(m) = Len(s) + Len(t),
         \A i \in 1 .. Len(s) : m[i] = s[i], \A i \in 1 .. Len(t) : m[Len(s) + i] = t[i]
  PROVE  s \o t = m
<1> DEFINE c == s \o t
<1>1. /\ c \in Seq(S) /\ Len(c) = Len(s) + Len(t)
      /\ \A i \in 1 .. Len(s) + Len(t) : c[i] = IF i <= Len(s) THEN s[i] ELSE t[i - Len(s)]
  BY ConcatProperties
<1>2. Len(s) \in Nat /\ Len(t) \in Nat
  OBVIOUS
<1> HIDE DEF c
<1>3. ASSUME NEW i \in 1 .. Len(m) PROVE c[i] = m[i]
  <2>1. CASE i <= Len(s)
    BY <1>1, <1>2, <2>1
  <2>2. CASE ~(i <= Len(s))
    <3>1. i - Len(s) \in 1 .. Len(t) /\ Len(s) + (i - Len(s)) = i
      BY <1>2, <2>2
    <3>2. m[i] = t[i - Len(s)]
      BY <3>1
    <3> QED
      BY <1>1, <2>2, <3>2
  <2> QED
    BY <2>1, <2>2
<1>4. c = m
  BY <1>1, <1>3, SeqEqual
<1> QED
  BY <1>4 DEF c

(* Literals put together. *)
LEMMA Literals ==
  ASSUME NEW S, NEW a \in S, NEW b \in S, NEW c \in S, NEW d \in S
  PROVE  /\ <<a>> \o <<b>> = <<a, b>>
         /\ <<a>> \o <<b, c>> = <<a, b, c>>
         /\ <<a, b, c>> \o <<d>> = <<a, b, c, d>>
<1>1. <<a>> \o <<b>> = <<a, b>>
  <2> DEFINE s == <<a>>
             t == <<b>>
             m == <<a, b>>
  <2>1. s \in Seq(S) /\ t \in Seq(S) /\ m \in Seq(S) /\ Len(m) = Len(s) + Len(t)
    OBVIOUS
  <2>2. \A i \in 1 .. Len(s) : m[i] = s[i]
    OBVIOUS
  <2>3. \A i \in 1 .. Len(t) : m[Len(s) + i] = t[i]
    OBVIOUS
  <2> HIDE DEF s, t, m
  <2>4. s \o t = m
    BY <2>1, <2>2, <2>3, Joined
  <2> QED
    BY <2>4 DEF s, t, m
<1>2. <<a>> \o <<b, c>> = <<a, b, c>>
  <2> DEFINE s == <<a>>
             t == <<b, c>>
             m == <<a, b, c>>
  <2>1. s \in Seq(S) /\ t \in Seq(S) /\ m \in Seq(S) /\ Len(m) = Len(s) + Len(t)
    OBVIOUS
  <2>2. \A i \in 1 .. Len(s) : m[i] = s[i]
    OBVIOUS
  <2>3. \A i \in 1 .. Len(t) : m[Len(s) + i] = t[i]
    OBVIOUS
  <2> HIDE DEF s, t, m
  <2>4. s \o t = m
    BY <2>1, <2>2, <2>3, Joined
  <2> QED
    BY <2>4 DEF s, t, m
<1>3. <<a, b, c>> \o <<d>> = <<a, b, c, d>>
  <2> DEFINE s == <<a, b, c>>
             t == <<d>>
             m == <<a, b, c, d>>
  <2>1. s \in Seq(S) /\ t \in Seq(S) /\ m \in Seq(S) /\ Len(m) = Len(s) + Len(t)
    OBVIOUS
  <2>2. \A i \in 1 .. Len(s) : m[i] = s[i]
    OBVIOUS
  <2>3. \A i \in 1 .. Len(t) : m[Len(s) + i] = t[i]
    OBVIOUS
  <2> HIDE DEF s, t, m
  <2>4. s \o t = m
    BY <2>1, <2>2, <2>3, Joined
  <2> QED
    BY <2>4 DEF s, t, m
<1> QED
  BY <1>1, <1>2, <1>3

(* One frame put before others, as push_front and a ROUTER do. *)
LEMMA OneBefore ==
  ASSUME NEW S, NEW a \in S, NEW t \in Seq(S)
  PROVE  /\ <<a>> \o t \in Seq(S) /\ Len(<<a>> \o t) = Len(t) + 1
         /\ (<<a>> \o t)[1] = a
         /\ \A i \in 1 .. Len(t) : (<<a>> \o t)[1 + i] = t[i]
<1> DEFINE s == <<a>>
           m == s \o t
<1>1. s \in Seq(S) /\ Len(s) = 1 /\ s[1] = a
  OBVIOUS
<1> HIDE DEF s
<1>2. /\ m \in Seq(S) /\ Len(m) = Len(s) + Len(t)
      /\ \A i \in 1 .. Len(s) : m[i] = s[i]
      /\ \A i \in 1 .. Len(t) : m[Len(s) + i] = t[i]
  <2>1. s \in Seq(S)
    BY <1>1
  <2> QED
    BY <2>1, JoinedFrames
<1> HIDE DEF m
<1>3. /\ m \in Seq(S) /\ Len(m) = Len(t) + 1 /\ m[1] = a
      /\ \A i \in 1 .. Len(t) : m[1 + i] = t[i]
  BY <1>1, <1>2
<1> QED
  BY <1>3 DEF m, s

(* What was put before a message can be popped off again, *)
(* also when it was put on in two parts. *)
LEMMA PoppedOff ==
  ASSUME NEW S, NEW s \in Seq(S), NEW t \in Seq(S), NEW n \in Nat, n = Len(s)
  PROVE  Popped(s \o t, n) = t
<1> DEFINE m == s \o t
           p == Popped(m, Len(s))
<1>1. /\ m \in Seq(S) /\ Len(m) = Len(s) + Len(t)
      /\ \A i \in 1 .. Len(t) : m[Len(s) + i] = t[i]
  BY JoinedFrames
<1>2. Len(s) \in 0 .. Len(s) + Len(t) /\ Len(s) + Len(t) - Len(s) = Len(t)
  OBVIOUS
<1> HIDE DEF m
<1>3. /\ p \in Seq(S) /\ Len(p) = Len(m) - Len(s)
      /\ \A i \in 1 .. Len(m) - Len(s) : p[i] = m[Len(s) + i]
  <2>1. Len(s) \in 0 .. Len(m)
    BY <1>1, <1>2
  <2> QED
    BY <1>1, <2>1, PoppedFrames
<1> HIDE DEF p
<1>4. Len(p) = Len(t) /\ \A i \in 1 .. Len(t) : p[i] = t[i]
  BY <1>1, <1>2, <1>3
<1>5. p = t
  BY <1>3, <1>4, SeqEqual
<1> QED
  BY <1>5 DEF p, m

LEMMA PoppedOffBoth ==
  ASSUME NEW S, NEW r \in Seq(S), NEW s \in Seq(S), NEW t \in Seq(S)
  PROVE  Popped(r \o (s \o t), Len(r) + Len(s)) = t
<1> DEFINE rs == r \o s
<1>1. rs \in Seq(S) /\ Len(rs) = Len(r) + Len(s) /\ Len(rs) \in Nat
  BY ConcatProperties
<1>2. r \o (s \o t) = rs \o t
  BY ConcatAssociative
<1> HIDE DEF rs
<1> QED
  BY <1>1, <1>2, PoppedOff

(* zmsg::unwrap takes off what zmsg::wrap put on. *)
LEMMA Unwrapped ==
  ASSUME NEW S, NEW a \in S, NEW t \in Seq(S), Delimiter \in S
  PROVE  LET m == Wrap(a, Delimiter, t) IN
         m \in Seq(S) /\ Addressee(m) = a /\ Unwrap(m) = t
<1> DEFINE s == <<a, Delimiter>>
           m == s \o t
<1>1. s \in Seq(S) /\ Len(s) = 2 /\ s[1] = a /\ s[2] = Delimiter
  OBVIOUS
<1> HIDE DEF s
<1>2. /\ m \in Seq(S) /\ Len(m) = Len(s) + Len(t)
      /\ \A i \in 1 .. Len(s) : m[i] = s[i]
  <2>1. s \in Seq(S)
    BY <1>1
  <2> QED
    BY <2>1, JoinedFrames
<1>3. Popped(m, 2) = t
  BY <1>1, PoppedOff
<1> HIDE DEF m
<1>4. /\ m \in Seq(S) /\ Len(m) > 1 /\ m[1] = a /\ m[2] = Delimiter
  BY <1>1, <1>2
<1>5. Head(m) = a
  BY <1>4
<1> QED
  BY <1>3, <1>4, <1>5 DEF Wrap, Unwrap, Addressee, m, s

(* A ROUTER that sends takes one frame off, whatever follows. *)
LEMMA TailJoined ==
  ASSUME NEW S, NEW s \in Seq(S), NEW t \in Seq(S), s # <<>>
  PROVE  Tail(s \o t) = Tail(s) \o t
<1> DEFINE m == s \o t
           r == Tail(s)
           u == r \o t
           p == Tail(m)
<1>1. /\ m \in Seq(S) /\ Len(m) = Len(s) + Len(t)
      /\ \A i \in 1 .. Len(s) : m[i] = s[i]
      /\ \A i \in 1 .. Len(t) : m[Len(s) + i] = t[i]
  BY JoinedFrames
<1>2. Len(s) \in Nat /\ Len(s) # 0 /\ Len(t) \in Nat
  OBVIOUS
<1>3. r \in Seq(S) /\ Len(r) = Len(s) - 1 /\ \A i \in 1 .. Len(r) : r[i] = s[i + 1]
  BY HeadTailProperties
<1> HIDE DEF m, r
<1>4. /\ u \in Seq(S) /\ Len(u) = Len(r) + Len(t)
      /\ \A i \in 1 .. Len(r) : u[i] = r[i]
      /\ \A i \in 1 .. Len(t) : u[Len(r) + i] = t[i]
  <2>1. r \in Seq(S)
    BY <1>3
  <2> QED
    BY <2>1, JoinedFrames
<1> HIDE DEF u
<1>5. p \in Seq(S) /\ Len(p) = Len(m) - 1 /\ \A i \in 1 .. Len(p) : p[i] = m[i + 1]
  <2>1. m \in Seq(S) /\ m # <<>>
    BY <1>1, <1>2
  <2> QED
    BY <2>1, HeadTailProperties
<1> HIDE DEF p
<1>6. ASSUME NEW i \in 1 .. Len(p) PROVE p[i] = u[i]
  <2>1. p[i] = m[i + 1]
    BY <1>5
  <2>2. CASE i \in 1 .. Len(r)
    <3>1. i + 1 \in 1 .. Len(s)
      BY <1>2, <1>3, <2>2
    <3> QED
      BY <1>1, <1>3, <1>4, <2>1, <2>2, <3>1
  <2>3. CASE ~(i \in 1 .. Len(r))
    <3>1. PICK j \in 1 .. Len(t) : i = Len(r) + j
      <4>1. i - Len(r) \in 1 .. Len(t) /\ i = Len(r) + (i - Len(r))
        BY <1>1, <1>2, <1>3, <1>5, <2>3
      <4> QED
        BY <4>1
    <3>2. i + 1 = Len(s) + j
      BY <1>2, <1>3, <3>1
    <3>3. m[Len(s) + j] = t[j] /\ u[Len(r) + j] = t[j]
      BY <1>1, <1>4
    <3> QED
      BY <2>1, <3>1, <3>2, <3>3
  <2> QED
    BY <2>2, <2>3
<1>7. Len(p) = Len(u)
  BY <1>1, <1>2, <1>3, <1>4, <1>5
<1>8. p = u
  BY <1>4, <1>5, <1>6, <1>7, SeqEqual
<1> QED
  BY <1>8 DEF p, u, m, r

(* S has all the frames of an envelope. *)
Known(S) ==
  {Delimiter, MdpClient, MdpWorker, Service, Me, Worker, "request", "list", "reply", "REQUEST",
   "RECV_WORK", "REPLY"} \subseteq S

(* mdwrk::send_to_broker, the broker's forwarding, mdcli::recv.            *)
LEMMA ReplyArrives ==
  ASSUME NEW S, Known(S), NEW text \in S
  PROVE  WellFormed(Reply(Me, text)) /\ Received(Reply(Me, text)) = <<text>>
<1> DEFINE t == <<text>>
           x == Wrap(Me, Delimiter, t)
           r == <<Delimiter, MdpWorker, "REPLY">>
           f == <<MdpClient, Service>> \o t
           m == <<Delimiter>> \o f
<1>1. /\ t \in Seq(S) /\ Len(t) = 1 /\ t[1] = text
      /\ Me \in S /\ Worker \in S /\ Delimiter \in S /\ MdpClient \in S /\ Service \in S
      /\ r \in Seq(S) /\ Len(r) = 3
      /\ <<Worker>> \in Seq(S) /\ Len(<<Worker>>) = 1
      /\ <<Delimiter>> \in Seq(S) /\ Len(<<Delimiter>>) = 1
      /\ <<MdpClient, Service>> \in Seq(S) /\ Len(<<MdpClient, Service>>) = 2
  BY DEF Known
<1> HIDE DEF t
<1>2. x \in Seq(S) /\ Addressee(x) = Me /\ Unwrap(x) = t
  BY <1>1, Unwrapped
<1> HIDE DEF x, r
<1>3. Popped(<<Worker>> \o (r \o x), 4) = x
  <2> DEFINE one == <<Worker>>
  <2>1. one \in Seq(S) /\ Len(one) = 1
    BY <1>1
  <2> HIDE DEF one
  <2>2. Popped(one \o (r \o x), 4) = x
    <3>1. r \in Seq(S) /\ x \in Seq(S) /\ Len(one) + Len(r) = 4
      BY <1>1, <1>2, <2>1
    <3>2. Popped(one \o (r \o x), Len(one) + Len(r)) = x
      BY <2>1, <3>1, PoppedOffBoth
    <3> QED
      BY <3>1, <3>2
  <2> QED
    BY <2>2 DEF one
<1>4. f \in Seq(S) /\ f = <<MdpClient>> \o (<<Service>> \o t)
  <2> DEFINE one == <<MdpClient>>
             two == <<Service>>
             both == <<MdpClient, Service>>
  <2>1. one \o two = both
    BY <1>1, Literals
  <2>2. one \in Seq(S) /\ two \in Seq(S) /\ both \in Seq(S) /\ t \in Seq(S)
    BY <1>1
  <2> HIDE DEF one, two, both
  <2>3. (one \o two) \o t = one \o (two \o t) /\ both \o t \in Seq(S)
    BY <2>2, ConcatAssociative, ConcatProperties
  <2> QED
    BY <2>1, <2>3 DEF one, two, both
<1>5. Reply(Me, text) = m
  <2>1. Forwarded(RouterIn(Worker, WorkerReplies(Me, text))) = Wrap(Me, Delimiter, f)
    BY <1>2, <1>3 DEF Forwarded, RouterIn, WorkerReplies, Wrap, x, r, t
  <2> HIDE DEF f
  <2>2. Tail(<<Me, Delimiter>> \o f) = m
    <3> DEFINE a == <<Me, Delimiter>>
    <3>1. a \in Seq(S) /\ a # <<>> /\ Tail(a) = <<Delimiter>>
      BY <1>1
    <3>2. f \in Seq(S)
      BY <1>4
    <3> HIDE DEF a
    <3>3. Tail(a \o f) = Tail(a) \o f
      BY <3>1, <3>2, TailJoined
    <3> QED
      BY <3>1, <3>3 DEF a
  <2> QED
    BY <2>1, <2>2 DEF Reply, RouterOut, Wrap
<1>6. Popped(m, 3) = t
  <2> DEFINE one == <<Delimiter>>
             two == <<MdpClient, Service>>
  <2>1. one \in Seq(S) /\ Len(one) = 1 /\ two \in Seq(S) /\ Len(two) = 2
    BY <1>1
  <2> HIDE DEF one, two
  <2>2. Popped(one \o (two \o t), 3) = t
    <3>1. t \in Seq(S) /\ Len(one) + Len(two) = 3
      BY <1>1, <2>1
    <3>2. Popped(one \o (two \o t), Len(one) + Len(two)) = t
      BY <2>1, <3>1, PoppedOffBoth
    <3> QED
      BY <3>1, <3>2
  <2> QED
    BY <2>2 DEF one, two
<1>7. m \in Seq(S) /\ Len(m) = 4 /\ m[1] = Delimiter /\ m[2] = MdpClient
  <2> DEFINE g == <<Service>> \o t
  <2>1. g \in Seq(S) /\ Len(g) = 2
    <3>1. t \in Seq(S) /\ Service \in S
      BY <1>1
    <3>2. g \in Seq(S) /\ Len(g) = Len(t) + 1
      BY <3>1, OneBefore
    <3> HIDE DEF g
    <3> QED
      BY <1>1, <3>2
  <2>2. f = <<MdpClient>> \o g
    BY <1>4
  <2> HIDE DEF g
  <2>3. f \in Seq(S) /\ Len(f) = 3 /\ f[1] = MdpClient
    <3>1. LET h == <<MdpClient>> \o g IN h \in Seq(S) /\ Len(h) = Len(g) + 1 /\ h[1] = MdpClient
      BY <1>1, <2>1, OneBefore
    <3> HIDE DEF f
    <3> QED
      BY <2>1, <2>2, <3>1
  <2> HIDE DEF f
  <2>4. /\ m \in Seq(S) /\ Len(m) = Len(f) + 1 /\ m[1] = Delimiter
        /\ \A i \in 1 .. Len(f) : m[1 + i] = f[i]
    <3>1. f \in Seq(S) /\ Delimiter \in S
      BY <1>1, <2>3
    <3> QED
      BY <3>1, OneBefore
  <2> HIDE DEF m
  <2> QED
    BY <2>3, <2>4
<1> HIDE DEF m
<1> QED
  BY <1>5, <1>6, <1>7 DEF WellFormed, Received, t

(* What a worker is asked, and what another worker it asks is.             *)
LEMMA WorkArrives ==
  ASSUME NEW S, Known(S), NEW l \in S
  PROVE  LET r == BrokerSends(Worker, Queued(RouterIn(Me, RequestFrames(l))))
             pulled == PassedOn(ReplyTo(r), Work(r))
         IN  /\ ReplyTo(r) = Me /\ Handle(Work(r)) = "reply"
             /\ ReplyTo(pulled) = Me /\ Handle(PulledWork(pulled)) = "reply"
<1> DEFINE b == <<l, "list">>
           w == <<"request">> \o b
           h == <<Delimiter, MdpClient, Service>>
           q == Wrap(Me, Delimiter, w)
           o == <<Delimiter, MdpWorker, "REQUEST">>
           p == <<Delimiter, MdpWorker, "RECV_WORK">>
           r == BrokerSends(Worker, Queued(RouterIn(Me, RequestFrames(l))))
           work == <<Delimiter>> \o w
           pulled == PassedOn(Me, work)
<1>1. /\ b \in Seq(S) /\ Len(b) = 2 /\ h \in Seq(S) /\ Len(h) = 3
      /\ o \in Seq(S) /\ Len(o) = 3 /\ p \in Seq(S) /\ Len(p) = 3
      /\ Me \in S /\ Worker \in S /\ Delimiter \in S /\ "request" \in S /\ MdpWorker \in S /\ "REQUEST" \in S
      /\ <<Me>> \in Seq(S) /\ Len(<<Me>>) = 1
      /\ <<"request">> \in Seq(S)
  BY DEF Known
<1>2. RouterIn(Me, RequestFrames(l)) = <<Me>> \o (h \o w)
  <2>1. Delimiter \in S /\ MdpClient \in S /\ Service \in S /\ "request" \in S
    BY DEF Known
  <2>2. <<Delimiter, MdpClient, Service, "request">> = h \o <<"request">>
    BY <2>1, Literals
  <2> HIDE DEF h, b
  <2>3. (h \o <<"request">>) \o b = h \o w
    BY <1>1, ConcatAssociative
  <2> QED
    BY <2>2, <2>3 DEF RouterIn, RequestFrames, ClientSends, b
<1>3. w \in Seq(S) /\ Len(w) = 3 /\ w[1] = "request"
  <2> HIDE DEF b
  <2>1. b \in Seq(S) /\ "request" \in S
    BY <1>1
  <2>2. w \in Seq(S) /\ Len(w) = Len(b) + 1 /\ w[1] = "request"
    BY <2>1, OneBefore
  <2> HIDE DEF w
  <2> QED
    BY <1>1, <2>2
<1> HIDE DEF w, h, b
<1>4. Popped(<<Me>> \o (h \o w), 4) = w /\ Head(<<Me>> \o (h \o w)) = Me
  <2>1. Popped(<<Me>> \o (h \o w), 4) = w
    <3> DEFINE one == <<Me>>
    <3>1. one \in Seq(S) /\ Len(one) = 1
      BY <1>1
    <3> HIDE DEF one
    <3>2. Popped(one \o (h \o w), 4) = w
      <4>1. h \in Seq(S) /\ w \in Seq(S) /\ Len(one) + Len(h) = 4
        BY <1>1, <1>3, <3>1
      <4>2. Popped(one \o (h \o w), Len(one) + Len(h)) = w
        BY <3>1, <4>1, PoppedOffBoth
      <4> QED
        BY <4>1, <4>2
    <3> QED
      BY <3>2 DEF one
  <2> DEFINE g == h \o w
             k == <<Me>> \o g
  <2>2. g \in Seq(S)
    BY <1>1, <1>3, ConcatProperties
  <2> HIDE DEF g
  <2>3. k \in Seq(S) /\ Len(k) = Len(g) + 1 /\ k[1] = Me
    BY <1>1, <2>2, OneBefore
  <2> HIDE DEF k
  <2>4. Head(k) = Me
    BY <2>2, <2>3
  <2> QED
    BY <2>1, <2>4 DEF k, g
<1>5. Queued(RouterIn(Me, RequestFrames(l))) = q
  BY <1>2, <1>4 DEF Queued
<1>6. q \in Seq(S) /\ Addressee(q) = Me /\ Unwrap(q) = w
  BY <1>1, <1>3, Unwrapped
<1> HIDE DEF q
<1>7. r = o \o q
  <2> DEFINE c == <<MdpWorker, "REQUEST">> \o q
  <2>1. c \in Seq(S)
    <3> DEFINE a == <<MdpWorker, "REQUEST">>
    <3>1. a \in Seq(S)
      BY <1>1
    <3> HIDE DEF a
    <3>2. a \o q \in Seq(S)
      BY <1>6, <3>1, ConcatProperties
    <3> QED
      BY <3>2 DEF a
  <2>2. Tail(<<Worker, Delimiter>> \o c) = <<Delimiter>> \o c
    <3> HIDE DEF c
    <3> DEFINE a == <<Worker, Delimiter>>
    <3>1. a \in Seq(S) /\ a # <<>> /\ Tail(a) = <<Delimiter>>
      BY <1>1
    <3> HIDE DEF a
    <3>2. Tail(a \o c) = Tail(a) \o c
      BY <2>1, <3>1, TailJoined
    <3> QED
      BY <3>1, <3>2 DEF a
  <2>3. <<Delimiter>> \o c = o \o q
    <3>1. <<Delimiter>> \o <<MdpWorker, "REQUEST">> = o
      <4>1. Delimiter \in S /\ MdpWorker \in S /\ "REQUEST" \in S
        BY <1>1
      <4>2. <<Delimiter>> \o <<MdpWorker, "REQUEST">> = <<Delimiter, MdpWorker, "REQUEST">>
        BY <4>1, Literals
      <4> QED
        BY <4>2
    <3>2. <<Delimiter>> \in Seq(S) /\ <<MdpWorker, "REQUEST">> \in Seq(S)
      BY <1>1
    <3>3. (<<Delimiter>> \o <<MdpWorker, "REQUEST">>) \o q = <<Delimiter>> \o (<<MdpWorker, "REQUEST">> \o q)
      BY <1>6, <3>2, ConcatAssociative
    <3> QED
      BY <3>1, <3>3
  <2> QED
    BY <1>5, <2>2, <2>3 DEF BrokerSends, RouterOut, Wrap
<1> HIDE DEF r, o
<1>8. Popped(r, 3) = q
  BY <1>1, <1>6, <1>7, PoppedOff
<1>9. ReplyTo(r) = Me /\ Work(r) = work
  BY <1>6, <1>8 DEF ReplyTo, Work
<1>10. work \in Seq(S) /\ Handle(work) = "reply"
  <2>1. /\ work \in Seq(S) /\ Len(work) = Len(w) + 1 /\ work[1] = Delimiter
        /\ \A i \in 1 .. Len(w) : work[1 + i] = w[i]
    <3>1. w \in Seq(S) /\ Delimiter \in S
      BY <1>1, <1>3
    <3> QED
      BY <3>1, OneBefore
  <2> HIDE DEF work
  <2>2. Len(work) = 4 /\ work[2] = "request"
    BY <1>3, <2>1
  <2>3. Len(work) >= 3 /\ work[1] = Delimiter /\ work[2] = "request"
    <3>1. Len(work) >= 3
      BY <2>2
    <3>2. work[1] = Delimiter
      BY <2>1
    <3> QED
      BY <2>2, <3>1, <3>2
  <2>4. Handle(work) = "reply"
    BY <2>3 DEF Handle
  <2> QED
    BY <2>1, <2>4
<1> HIDE DEF work
<1>11. Popped(pulled, 3) = Wrap(Me, Delimiter, work)
  <2> DEFINE y == Wrap(Me, Delimiter, work)
  <2>1. y \in Seq(S)
    BY <1>1, <1>10, Unwrapped
  <2>2. pulled = p \o y
    BY DEF PassedOn
  <2> HIDE DEF y, p, pulled
  <2> QED
    BY <1>1, <2>1, <2>2, PoppedOff DEF y
<1>12. ReplyTo(pulled) = Me /\ PulledWork(pulled) = work
  <2>1. Addressee(Wrap(Me, Delimiter, work)) = Me /\ Unwrap(Wrap(Me, Delimiter, work)) = work
    BY <1>1, <1>10, Unwrapped
  <2> HIDE DEF pulled
  <2> QED
    BY <1>11, <2>1 DEF ReplyTo, PulledWork
<1> QED
  BY <1>9, <1>10, <1>12 DEF r

(* The broker reads a heartbeat as one.                                    *)
LEMMA HeartbeatIsKnown == ServiceOf(RouterIn(Me, HeartbeatFrames)) = "HEARTBEAT"
<1> DEFINE S == {Me, Delimiter, MdpClient, "HEARTBEAT"}
           h == <<Delimiter, MdpClient, "HEARTBEAT", Delimiter>>
           m == <<Me>> \o h
           p == Popped(m, 2)
<1>1. /\ h \in Seq(S) /\ Len(h) = 4 /\ h[3] = "HEARTBEAT" /\ Me \in S
  OBVIOUS
<1>2. HeartbeatFrames = h
  <2> HIDE DEF h
  <2>1. h \o <<>> = h
    BY <1>1, ConcatEmptySeq
  <2> QED
    BY <2>1 DEF HeartbeatFrames, ClientSends, h
<1> HIDE DEF h, S
<1>3. /\ m \in Seq(S) /\ Len(m) = Len(h) + 1
      /\ \A i \in 1 .. Len(h) : m[1 + i] = h[i]
  <2>1. h \in Seq(S) /\ Me \in S
    BY <1>1
  <2> QED
    BY <2>1, OneBefore
<1> HIDE DEF m
<1>4. m[4] = "HEARTBEAT" /\ 2 \in 0 .. Len(m) /\ 2 \in 1 .. Len(m) - 2
  <2>1. 3 \in 1 .. Len(h) /\ 1 + 3 = 4
    BY <1>1
  <2> QED
    BY <1>1, <1>3, <2>1
<1>5. \A i \in 1 .. Len(m) - 2 : p[i] = m[2 + i]
  <2>1. m \in Seq(S) /\ 2 \in 0 .. Len(m)
    BY <1>3, <1>4
  <2> QED
    BY <2>1, PoppedFrames
<1> HIDE DEF p
<1>6. p[2] = "HEARTBEAT"
  BY <1>4, <1>5
<1> QED
  BY <1>2, <1>6 DEF ServiceOf, RouterIn, m, p

TheReply == Reply(Me, "reply")

(* However many workers handle it, a request gets one kind of reply.       *)
LEMMA RepliesAreIntact ==
  ASSUME NEW m \in Requests, NEW replies \in RepliesTo[m]
  PROVE  replies \in Seq({TheReply})
<1> DEFINE r == BrokerSends(Worker, Queued(RouterIn(Me, m)))
           pulled == PassedOn(ReplyTo(r), Work(r))
           own == Reply(ReplyTo(r), Handle(Work(r)))
           other == Reply(ReplyTo(pulled), Handle(PulledWork(pulled)))
<1>1. PICK l \in Lists : m = RequestFrames(l)
  BY DEF Requests
<1>2. own = TheReply /\ other = TheReply
  <2> DEFINE S == {Delimiter, MdpClient, MdpWorker, Service, Me, Worker, "request", "list",
                   "reply", "REQUEST", "RECV_WORK", "REPLY", l}
  <2>1. Known(S) /\ l \in S
    BY DEF Known
  <2> HIDE DEF S
  <2>2. /\ ReplyTo(r) = Me /\ Handle(Work(r)) = "reply"
        /\ ReplyTo(pulled) = Me /\ Handle(PulledWork(pulled)) = "reply"
    BY <1>1, <2>1, WorkArrives
  <2> HIDE DEF r, pulled
  <2> QED
    BY <2>2 DEF TheReply
<1>3. replies \in Replies(r)
  BY DEF RepliesTo
<1> HIDE DEF r
<1>4. \/ replies = <<>>
      \/ \E n \in 0 .. Fan : replies = <<own>> \o [k \in 1 .. n |-> other]
  BY <1>3 DEF Replies
<1> HIDE DEF own, other, pulled
<1>5. CASE replies = <<>>
  BY <1>5
<1>6. ASSUME NEW n \in 0 .. Fan, replies = <<own>> \o [k \in 1 .. n |-> other]
      PROVE  replies \in Seq({TheReply})
  <2> DEFINE one == <<own>>
             more == [k \in 1 .. n |-> other]
  <2>1. n \in Nat
    BY CloudAssumption
  <2>2. one \in Seq({TheReply}) /\ more \in Seq({TheReply})
    BY <1>2, <2>1
  <2> HIDE DEF one, more
  <2>3. one \o more \in Seq({TheReply})
    BY <2>2, ConcatProperties
  <2> QED
    BY <1>6, <2>3 DEF one, more
<1> QED
  BY <1>4, <1>5, <1>6

EnvelopeInv ==
  /\ wire \in Seq(Requests \cup {HeartbeatFrames})
  /\ inbox \in Seq({TheReply})

LEMMA SendIfDueFrames ==
  ASSUME EnvelopeInv, NEW both, SendIfDue(both)
  PROVE  wire' \in Seq(Requests \cup {HeartbeatFrames})
BY AppendProperties DEF SendIfDue, EnvelopeInv

LEMMA EnvelopeStep ==
  ASSUME TypeOK, EnvelopeInv, [Next]_vars
  PROVE  EnvelopeInv'
<1> DEFINE F == Requests \cup {HeartbeatFrames}
<1>0. wire \in Seq(F) /\ inbox \in Seq({TheReply})
  BY DEF EnvelopeInv
<1> SUFFICES wire' \in Seq(F) /\ inbox' \in Seq({TheReply})
  BY DEF EnvelopeInv
<1>1. CASE PollOut
  <2>1. SendIfDue(mainPc = "recv" /\ mainLeft = 0) /\ inbox' = inbox
    BY <1>1 DEF PollOut
  <2>2. wire' \in Seq(F)
    BY <2>1, SendIfDueFrames
  <2> QED
    BY <1>0, <2>1, <2>2
<1>2. CASE RecvOut
  <2>1. SendIfDue(hbPc = "poll" /\ hbLeft = 0) /\ inbox' = inbox
    BY <1>2 DEF RecvOut
  <2>2. wire' \in Seq(F)
    BY <2>1, SendIfDueFrames
  <2> QED
    BY <1>0, <2>1, <2>2
<1>3. CASE Act
  <2>1. inbox' = inbox /\ (wire' = wire \/ wire' = Append(wire, RequestFrames(choice[2])))
    BY <1>3 DEF Act, Ask
  <2>2. RequestFrames(choice[2]) \in F
    <3>1. choice[2] \in Lists
      BY DEF TypeOK
    <3> QED
      BY <3>1 DEF Requests
  <2> HIDE DEF F
  <2> QED
    BY <1>0, <2>1, <2>2, AppendProperties
<1>4. CASE Recv
  <2>1. wire' = wire /\ inbox # <<>> /\ inbox' = Tail(inbox)
    BY <1>4 DEF Recv
  <2> QED
    BY <1>0, <2>1, HeadTailProperties
<1>5. CASE ClientProcess
  <2>1. wire # <<>> /\ wire' = Tail(wire)
    BY <1>5 DEF ClientProcess
  <2> DEFINE m == Head(wire)
  <2>2. m \in F /\ wire' \in Seq(F)
    <3> HIDE DEF F
    <3> QED
      BY <1>0, <2>1, HeadTailProperties
  <2>3. CASE ServiceOf(RouterIn(Me, m)) = "HEARTBEAT"
    BY <1>0, <1>5, <2>2, <2>3 DEF ClientProcess
  <2>4. CASE ServiceOf(RouterIn(Me, m)) # "HEARTBEAT"
    <3>1. m \in Requests
      BY <2>2, <2>4, HeartbeatIsKnown
    <3>2. PICK replies \in RepliesTo[m] : inbox' = inbox \o replies
      BY <1>5, <2>4 DEF ClientProcess
    <3>3. replies \in Seq({TheReply})
      BY <3>1, RepliesAreIntact
    <3>4. inbox \o replies \in Seq({TheReply})
      BY <1>0, <3>3, ConcatProperties
    <3> QED
      BY <2>2, <3>2, <3>4
  <2> QED
    BY <2>3, <2>4
<1>6. CASE Crash
  <2>1. PICK k \in 0 .. Len(wire) : wire' = SubSeq(wire, k + 1, Len(wire))
    BY <1>6 DEF Crash
  <2>2. SubSeq(wire, k + 1, Len(wire)) \in Seq(F)
    <3> HIDE DEF F
    <3> QED
      BY <1>0, PoppedFrames DEF Popped
  <2>3. inbox' = inbox
    BY <1>6 DEF Crash
  <2> QED
    BY <1>0, <2>1, <2>2, <2>3
<1>7. CASE UNCHANGED <<wire, inbox>>
  BY <1>0, <1>7
<1>8. ASSUME NEW l \in Lists,
             Store(l) \/ Publish(l) \/ \E kind \in MenuChoices : Choose(kind, l)
      PROVE  UNCHANGED <<wire, inbox>>
  BY <1>8 DEF Store, Publish, Choose
<1>9. TakeHeartbeat \/ Compare \/ Assign \/ HbAct \/ Offline \/ Expire \/ Beat \/ WorkersChange
        \/ Boot \/ Tick \/ UNCHANGED vars => UNCHANGED <<wire, inbox>>
  BY DEF TakeHeartbeat, Compare, Assign, HbAct, Offline, Expire, Beat, WorkersChange, Boot, Tick, vars
<1> QED
  BY <1>1, <1>2, <1>3, <1>4, <1>5, <1>6, <1>7, <1>8, <1>9 DEF Next, HeartbeatThread, MainThread

(* What wrap, push_front and the sockets put on a message, unwrap, popping *)
(* and the sockets take off, on every way a reply can take.                *)
THEOREM RepliesAlwaysIntact == Spec => []RepliesIntact
<1>1. Init => EnvelopeInv
  BY DEF Init, EnvelopeInv
<1>2. EnvelopeInv => RepliesIntact
  <2> DEFINE S == {Delimiter, MdpClient, MdpWorker, Service, Me, Worker, "request", "list",
                   "reply", "REQUEST", "RECV_WORK", "REPLY"}
  <2>1. Known(S) /\ "reply" \in S
    BY DEF Known
  <2> HIDE DEF S
  <2>2. WellFormed(TheReply) /\ Received(TheReply) = <<"reply">>
    BY <2>1, ReplyArrives DEF TheReply
  <2>3. EnvelopeInv => \A k \in DOMAIN inbox : inbox[k] = TheReply
    BY DEF EnvelopeInv
  <2> QED
    BY <2>2, <2>3 DEF RepliesIntact
<1>3. Inv => TypeOK
  BY DEF Inv
<1> QED
  BY <1>1, <1>2, <1>3, EnvelopeStep, Invariance, PTL DEF Spec
=============================================================================

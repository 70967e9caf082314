------------------------ MODULE Lv2ReassemblyProofs ------------------------
(***************************************************************************)
(* Proofs about Lv2Reassembly, for every stream of messages, every way of  *)
(* cutting it into segments and whatever the capture misses or doubles.    *)
(*                                                                         *)
(* Positions are sums of message lengths, so the facts about them go by    *)
(* induction on the number of a message; the theorems then follow dataptr  *)
(* from message to message, within a segment that starts with one          *)
(* (AlignedInv) and along a stream seen whole (CleanInv).                  *)
(***************************************************************************)
EXTENDS Lv2Reassembly, WellFoundedInduction, SequenceTheorems, TLAPS

---------------------------------------------------------------------------
(* Numbers.                                                                *)

(* A set of numbers that is not empty has a least one.                     *)
LEMMA Least ==
  ASSUME NEW T, T \subseteq Nat, T # {}
  PROVE  \E m \in T : \A k \in T : m <= k
  <1>1. PICK m \in T : \A k \in T : ~ (<<k, m>> \in OpToRel(<, Nat))
        BY WFMin, NatLessThanWellFounded, Zenon
  <1>2. \A k \in T : <<k, m>> \in OpToRel(<, Nat) <=> k < m
        BY DEF OpToRel
  <1>3. \A k \in T : ~(k < m)
        BY <1>1, <1>2, Zenon
  <1>4. \A k \in T : m <= k
        BY <1>3
  <1> QED BY <1>4

(* Induction: a set with 0 and all successors has all numbers.             *)
LEMMA Induction ==
  ASSUME NEW T, 0 \in T, \A n \in Nat : n \in T => n + 1 \in T
  PROVE  Nat \subseteq T
  <1> SUFFICES ASSUME Nat \ T # {} PROVE FALSE
      OBVIOUS
  <1>1. PICK m \in Nat \ T : \A k \in Nat \ T : m <= k
        BY Least, Nat \ T \subseteq Nat, Zenon
  <1>2. m # 0 /\ m - 1 \in Nat
        BY <1>1
  <1>3. m - 1 \in T
        BY <1>1, <1>2
  <1>4. (m - 1) + 1 \in T
        BY <1>2, <1>3
  <1> QED BY <1>1, <1>4

---------------------------------------------------------------------------
(* Where messages start, and what is read there.                           *)

(* The lengths of the messages.                                            *)
LEMMA LensType ==
  /\ N \in Nat /\ N > 0 /\ DOMAIN Lens = 1 .. N
  /\ \A k \in 1 .. N : Lens[k] \in Nat /\ (Lens[k] = 6 \/ Lens[k] > 7)
  <1>1. Lens \in Seq(Nat) /\ N = Len(Lens)
        BY LensAssumption DEF N
  <1>2. N \in Nat /\ DOMAIN Lens = 1 .. N /\ \A k \in 1 .. N : Lens[k] \in Nat
        BY <1>1, LenProperties, ElementOfSeq
  <1> QED BY <1>2, LensAssumption DEF MinLeft

(* Start is defined for every message: it exists up to each one.           *)
LEMMA StartExists ==
  \E f \in [1 .. N + 1 -> Nat] :
     f[1] = 0 /\ \A k \in 1 .. N : f[k + 1] = f[k] + Lens[k]
  <1> DEFINE Sums(n) == \E f \in [1 .. n + 1 -> Nat] :
                           f[1] = 0 /\ \A k \in 1 .. n : f[k + 1] = f[k] + Lens[k]
             T == {n \in Nat : n <= N => Sums(n)}
  <1>1. 0 \in T
    <2> DEFINE f == [k \in 1 .. 1 |-> 0]
    <2>1. f \in [1 .. 0 + 1 -> Nat] /\ f[1] = 0 /\ \A k \in 1 .. 0 : f[k + 1] = f[k] + Lens[k]
          OBVIOUS
    <2>2. Sums(0)
          BY <2>1
    <2> HIDE DEF Sums
    <2> QED BY <2>2
  <1>2. ASSUME NEW n \in Nat, n \in T PROVE n + 1 \in T
    <2> SUFFICES ASSUME n + 1 <= N PROVE Sums(n + 1)
      <3> HIDE DEF Sums
      <3> QED OBVIOUS
    <2>1. n <= N /\ Sums(n)
      <3> HIDE DEF Sums
      <3> QED BY <1>2, LensType
    <2>2. PICK f \in [1 .. n + 1 -> Nat] :
             f[1] = 0 /\ \A k \in 1 .. n : f[k + 1] = f[k] + Lens[k]
          BY <2>1
    <2> DEFINE g == [k \in 1 .. n + 2 |-> IF k = n + 2 THEN f[n + 1] + Lens[n + 1] ELSE f[k]]
    <2>3. Lens[n + 1] \in Nat
          BY LensType
    <2>4. g \in [1 .. (n + 1) + 1 -> Nat]
          BY <2>2, <2>3
    <2>5. n + 2 \in 1 .. n + 2 /\ \A k \in 1 .. n + 1 : k \in 1 .. n + 2 /\ k # n + 2
          OBVIOUS
    <2>6. \A k \in 1 .. n + 2 : g[k] = IF k = n + 2 THEN f[n + 1] + Lens[n + 1] ELSE f[k]
          OBVIOUS
    <2>7. /\ g[n + 2] = f[n + 1] + Lens[n + 1]
          /\ \A k \in 1 .. n + 1 : g[k] = f[k]
      <3> HIDE DEF g
      <3> QED BY <2>5, <2>6
    <2> HIDE DEF g
    <2>8. g[1] = 0
          BY <2>2, <2>7
    <2>9. ASSUME NEW k \in 1 .. n + 1 PROVE g[k + 1] = g[k] + Lens[k]
      <3>1. CASE k = n + 1
            BY <2>7, <3>1
      <3>2. CASE k # n + 1
        <4>1. k \in 1 .. n /\ k + 1 \in 1 .. n + 1
              BY <3>2
        <4> QED BY <2>2, <2>7, <4>1
      <3> QED BY <3>1, <3>2
    <2> QED BY <2>4, <2>8, <2>9
  <1> HIDE DEF T
  <1>3. Nat \subseteq T
        BY <1>1, <1>2, Induction
  <1>4. N \in T
        BY <1>3, LensType
  <1>5. Sums(N)
    <2> HIDE DEF Sums
    <2> QED BY <1>4, LensType DEF T
  <1> QED BY <1>5

\* A message starts where the one before it ends.
LEMMA StartDef ==
  /\ Start \in [1 .. N + 1 -> Nat] /\ Start[1] = 0
  /\ \A k \in 1 .. N : Start[k + 1] = Start[k] + Lens[k]
  <1> DEFINE Unfolds(f) == f = [k \in 1 .. N + 1 |-> IF k = 1 THEN 0 ELSE f[k - 1] + Lens[k - 1]]
  <1>1. PICK f \in [1 .. N + 1 -> Nat] : f[1] = 0 /\ \A k \in 1 .. N : f[k + 1] = f[k] + Lens[k]
        BY StartExists
  <1>2. \A k \in 1 .. N + 1 : f[k] = IF k = 1 THEN 0 ELSE f[k - 1] + Lens[k - 1]
    <2> TAKE k \in 1 .. N + 1
    <2>1. CASE k = 1
          BY <1>1, <2>1
    <2>2. CASE k # 1
      <3>1. k - 1 \in 1 .. N /\ (k - 1) + 1 = k
            BY <2>2, LensType
      <3> QED BY <1>1, <2>2, <3>1
    <2> QED BY <2>1, <2>2
  <1>3. Unfolds(f)
        BY <1>1, <1>2
  <1>4. Start = CHOOSE g : Unfolds(g)
        BY DEF Start
  <1>5. Unfolds(Start)
        BY <1>3, <1>4, Zenon
  <1>6. Start = [k \in 1 .. N + 1 |-> IF k = 1 THEN 0 ELSE Start[k - 1] + Lens[k - 1]]
        BY <1>5
  <1>7. Start[1] = 0
        BY <1>6, LensType
  <1>8. \A k \in 1 .. N : Start[k + 1] = Start[k] + Lens[k]
        BY <1>6, LensType
  <1>9. \A n \in Nat : n <= N => Start[n + 1] \in Nat
    <2> DEFINE T == {n \in Nat : n <= N => Start[n + 1] \in Nat}
    <2>1. 0 \in T
          BY <1>7
    <2>2. ASSUME NEW n \in Nat, n \in T PROVE n + 1 \in T
      <3> SUFFICES ASSUME n + 1 <= N PROVE Start[(n + 1) + 1] \in Nat
          OBVIOUS
      <3>1. n + 1 \in 1 .. N /\ n <= N
            BY LensType
      <3>2. Start[n + 1] \in Nat /\ Lens[n + 1] \in Nat
            BY <2>2, <3>1, LensType
      <3> QED BY <1>8, <3>1, <3>2
    <2> HIDE DEF T
    <2>3. Nat \subseteq T
          BY <2>1, <2>2, Induction
    <2> QED BY <2>3 DEF T
  <1>10. \A k \in 1 .. N + 1 : Start[k] \in Nat
    <2> TAKE k \in 1 .. N + 1
    <2>1. k - 1 \in Nat /\ k - 1 <= N /\ (k - 1) + 1 = k
          BY LensType
    <2> QED BY <1>9, <2>1
  <1>11. Start \in [1 .. N + 1 -> Nat]
    <2>1. DOMAIN Start = 1 .. N + 1
          BY <1>6
    <2>2. Start = [k \in 1 .. N + 1 |-> Start[k]]
          BY <1>6, Zenon
    <2> QED BY <1>10, <2>2
  <1> QED BY <1>7, <1>8, <1>11

\* The messages follow each other, and none is shorter than six bytes.
LEMMA StartIncreases ==
  \A i, j \in 1 .. N + 1 : i < j => Start[i] + Lens[i] <= Start[j] /\ Start[i] + 6 <= Start[j]
  <1> DEFINE T == {n \in Nat : \A i \in 1 .. N + 1 : i < n /\ n <= N + 1 => Start[i] + Lens[i] <= Start[n]}
  <1>1. 0 \in T
        BY LensType
  <1>2. ASSUME NEW n \in Nat, n \in T PROVE n + 1 \in T
    <2> SUFFICES ASSUME NEW i \in 1 .. N + 1, i < n + 1, n + 1 <= N + 1
                 PROVE  Start[i] + Lens[i] <= Start[n + 1]
        OBVIOUS
    <2>1. i \in 1 .. N /\ n \in 1 .. N /\ n \in 1 .. N + 1 /\ i \in 1 .. N + 1
          BY LensType
    <2>2. Start[n + 1] = Start[n] + Lens[n] /\ Start[n] \in Nat /\ Lens[n] \in Nat
          BY <2>1, StartDef, LensType
    <2>3. Start[i] \in Nat /\ Lens[i] \in Nat
          BY <2>1, StartDef, LensType
    <2>4. i = n \/ Start[i] + Lens[i] <= Start[n]
          BY <1>2, <2>1
    <2> QED BY <2>2, <2>3, <2>4
  <1> HIDE DEF T
  <1>3. Nat \subseteq T
        BY <1>1, <1>2, Induction
  <1> SUFFICES ASSUME NEW i \in 1 .. N + 1, NEW j \in 1 .. N + 1, i < j
               PROVE  Start[i] + Lens[i] <= Start[j] /\ Start[i] + 6 <= Start[j]
      OBVIOUS
  <1>4. j \in T /\ i \in 1 .. N
        BY <1>3, LensType
  <1>5. Start[i] + Lens[i] <= Start[j]
        BY <1>4, LensType DEF T
  <1>6. Lens[i] >= 6 /\ Lens[i] \in Nat
        BY <1>4, LensType
  <1>7. Start[i] \in Nat /\ Start[j] \in Nat
        BY StartDef
  <1> QED BY <1>5, <1>6, <1>7

(* Where a message starts its header is read, and no other message starts. *)
LEMMA HeaderAtStart ==
  \A k \in 1 .. N : /\ Start[k] \in Starts /\ HeaderLen(Start[k]) = Lens[k]
                    /\ MessageAt(Start[k], Lens[k]) = k
  <1> SUFFICES ASSUME NEW k \in 1 .. N
               PROVE  /\ Start[k] \in Starts /\ HeaderLen(Start[k]) = Lens[k]
                      /\ MessageAt(Start[k], Lens[k]) = k
      OBVIOUS
  <1>1. Start[k] \in Starts
        BY DEF Starts
  <1>2. \A i \in 1 .. N : Start[i] = Start[k] => i = k
    <2> SUFFICES ASSUME NEW i \in 1 .. N, Start[i] = Start[k], i # k PROVE FALSE
        OBVIOUS
    <2>1. i \in 1 .. N + 1 /\ k \in 1 .. N + 1 /\ (i < k \/ k < i)
          BY LensType
    <2>2. Start[i] \in Nat /\ Start[k] \in Nat
          BY <2>1, StartDef
    <2> QED BY <2>1, <2>2, StartIncreases
  <1>3. (CHOOSE i \in 1 .. N : Start[i] = Start[k]) = k
        BY <1>2
  <1> QED BY <1>1, <1>3 DEF HeaderLen, MessageAt

\* The longest of the lengths that a header may announce.
LEMMA MaxLenType ==
  MaxLen \in Nat /\ FakeLen <= MaxLen /\ \A k \in 1 .. N : Lens[k] <= MaxLen
  <1> DEFINE S == {Lens[k] : k \in 1 .. N} \cup {FakeLen}
             T == {b \in Nat : \A l \in S : l <= b}
  <1>1. S \subseteq Nat /\ FakeLen \in S /\ \A k \in 1 .. N : Lens[k] \in S
        BY LensType, EnvAssumption
  <1>2. Total + FakeLen \in T
    <2>1. Total \in Nat /\ FakeLen \in Nat
          BY StartDef, LensType, EnvAssumption DEF Total
    <2>2. ASSUME NEW k \in 1 .. N PROVE Lens[k] <= Total
      <3>1. k \in 1 .. N + 1 /\ N + 1 \in 1 .. N + 1 /\ k < N + 1
            BY LensType
      <3>2. Start[k] + Lens[k] <= Total
            BY <3>1, StartIncreases DEF Total
      <3>3. Start[k] \in Nat /\ Lens[k] \in Nat
            BY <3>1, StartDef, LensType
      <3> QED BY <2>1, <3>2, <3>3
    <2>3. \A l \in S : l <= Total + FakeLen
      <3> TAKE l \in S
      <3>1. CASE l = FakeLen
            BY <2>1, <3>1
      <3>2. ASSUME NEW k \in 1 .. N, l = Lens[k] PROVE l <= Total + FakeLen
        <4>1. Lens[k] \in Nat
              BY LensType
        <4> QED BY <2>1, <2>2, <3>2, <4>1
      <3> QED BY <3>1, <3>2
    <2> QED BY <2>1, <2>3
  <1>3. PICK m \in T : \A b \in T : m <= b
    <2>1. T \subseteq Nat /\ T # {}
          BY <1>2
    <2> HIDE DEF T
    <2> QED BY <2>1, Least
  <1>4. m \in Nat /\ \A l \in S : l <= m
        BY <1>3
  <1>5. m \in S
    <2> SUFFICES ASSUME m \notin S PROVE FALSE
        OBVIOUS
    <2> HIDE DEF S
    <2>1. \A l \in S : l \in Nat /\ l <= m /\ l # m
          BY <1>1, <1>4
    <2>2. m - 1 \in Nat /\ \A l \in S : l <= m - 1
          BY <1>1, <1>4, <2>1
    <2>3. m - 1 \in T
          BY <2>2
    <2> QED BY <1>3, <1>4, <2>3
  <1> HIDE DEF S, T
  <1>6. MaxLen \in S /\ \A l \in S : l <= MaxLen
        BY <1>4, <1>5 DEF MaxLen, S
  <1> QED BY <1>1, <1>6

(* What is read at the head of a segment or after a message: a length, or  *)
(* 0, and surely the length of the header there if 8 bytes are there.      *)
LEMMA AnnouncedLength ==
  ASSUME NEW p, NEW left \in Int, NEW h \in GetCurReadMsgLength(p, left)
  PROVE  /\ h \in 0 .. MaxLen /\ HeaderLen(p) \in 0 .. MaxLen
         /\ h = 0 \/ h = HeaderLen(p)
         /\ left > 7 => h = HeaderLen(p)
  <1>1. HeaderLen(p) \in 0 .. MaxLen
    <2>1. CASE p \in Starts
      <3>1. PICK k \in 1 .. N : p = Start[k]
            BY <2>1 DEF Starts
      <3>2. HeaderLen(p) = Lens[k]
            BY <3>1, HeaderAtStart
      <3> QED BY <3>2, MaxLenType, LensType
    <2>2. CASE p \notin Starts
          BY <2>2, MaxLenType, EnvAssumption DEF HeaderLen
    <2> QED BY <2>1, <2>2
  <1>2. h = 0 \/ h = HeaderLen(p)
        BY DEF GetCurReadMsgLength
  <1>3. left > 7 => h = HeaderLen(p)
        BY DEF GetCurReadMsgLength, MinLeft
  <1> QED BY <1>1, <1>2, <1>3, MaxLenType

\* A message or none.
LEMMA MessageAtType == \A p, len : MessageAt(p, len) \in 0 .. N
  BY LensType DEF MessageAt

---------------------------------------------------------------------------
(* Types, and the half message.                                            *)

KeptInv == TypeOK /\ HalfInv

\* Nothing is kept before the first segment.
LEMMA KeptInit == Init => KeptInv
  <1> SUFFICES ASSUME Init PROVE KeptInv
      OBVIOUS
  <1>1. Total \in Nat /\ MaxLen \in Nat /\ MaxLost \in Nat /\ MaxDuplicates \in Nat
        BY StartDef, LensType, MaxLenType, EnvAssumption DEF Total
  <1>2. got \in Seq(0 .. N) /\ Len(got) = 0
        BY DEF Init
  <1>3. clean \in BOOLEAN
        BY Zenon DEF Init
  <1> QED BY <1>1, <1>2, <1>3 DEF Init, KeptInv, TypeOK, HalfInv

\* A segment arrives.
LEMMA ArriveType ==
  ASSUME TypeOK, NEW s \in [a : 0 .. Total, b : 0 .. Total], s.a <= s.b, Arrive(s)
  PROVE  /\ seg' = s /\ at' \in seg'.a .. seg'.b /\ msg_len' \in 0 .. MaxLen
         /\ pc' = "loop" /\ before' \in 0 .. Len(got)
  <1>1. s.a \in Int /\ s.b \in Int /\ s.b - s.a \in Int
        BY StartDef, LensType DEF Total
  <1>2. msg_len' \in 0 .. MaxLen
        BY <1>1, AnnouncedLength DEF Arrive
  <1>3. Len(got) \in Nat
        BY LenProperties DEF TypeOK
  <1> QED BY <1>1, <1>2, <1>3 DEF Arrive

\* Every step of handler and capture keeps the types, the half and its length.
LEMMA KeptNext == KeptInv /\ [Next]_vars => KeptInv'
  <1> SUFFICES ASSUME KeptInv, [Next]_vars PROVE KeptInv'
      OBVIOUS
  <1>0. /\ Total \in Nat /\ MaxLen \in Nat /\ MaxLost \in Nat /\ MaxDuplicates \in Nat
        /\ Len(got) \in Nat /\ Left \in Int
        BY StartDef, LensType, MaxLenType, EnvAssumption, LenProperties
        DEF Total, KeptInv, TypeOK, Left
  <1>1. ASSUME NEW n \in Sizes, Segment(n) PROVE KeptInv'
    <2> DEFINE s == [a |-> sent, b |-> sent + n]
    <2>1. n \in Nat /\ n > 0
          BY EnvAssumption
    <2>2. s \in [a : 0 .. Total, b : 0 .. Total] /\ s.a <= s.b /\ s.b = sent'
          BY <1>0, <1>1, <2>1 DEF Segment, KeptInv, TypeOK
    <2>3. clean' \in BOOLEAN
          BY <1>1, Zenon DEF Segment, KeptInv, TypeOK
    <2>4. Arrive(s)
          BY <1>1 DEF Segment
    <2> HIDE DEF s
    <2>5. /\ seg' = s /\ at' \in seg'.a .. seg'.b /\ msg_len' \in 0 .. MaxLen
          /\ pc' = "loop" /\ before' \in 0 .. Len(got)
          BY <2>2, <2>4, ArriveType DEF KeptInv
    <2>6. sent' \in 0 .. Total
          BY <1>0, <1>1, <2>1 DEF Segment, KeptInv, TypeOK
    <2>7. UNCHANGED <<half, miss, from, got, lost, duplicated>>
          BY <1>1 DEF Segment
    <2>8. TypeOK'
          BY <2>2, <2>3, <2>5, <2>6, <2>7 DEF KeptInv, TypeOK
    <2>9. HalfInv'
          BY <2>7 DEF KeptInv, HalfInv, HeaderLen
    <2> QED BY <2>8, <2>9 DEF KeptInv
  <1>2. CASE Duplicate
    <2>1. seg \in [a : 0 .. Total, b : 0 .. Total] /\ seg.a <= seg.b /\ seg.b <= sent /\ Arrive(seg)
          BY <1>2 DEF Duplicate, KeptInv, TypeOK
    <2>2. /\ seg' = seg /\ at' \in seg'.a .. seg'.b /\ msg_len' \in 0 .. MaxLen
          /\ pc' = "loop" /\ before' \in 0 .. Len(got)
          BY <2>1, ArriveType DEF KeptInv
    <2>0. duplicated < MaxDuplicates /\ duplicated' = duplicated + 1
          BY <1>2 DEF Duplicate
    <2>3. duplicated' \in 0 .. MaxDuplicates
          BY <1>0, <2>0 DEF KeptInv, TypeOK
    <2>4. UNCHANGED <<sent, half, miss, from, got, lost>>
          BY <1>2 DEF Duplicate
    <2>5. HalfInv'
          BY <2>4 DEF KeptInv, HalfInv, HeaderLen
    <2>6. clean' \in BOOLEAN
          BY <1>2, Zenon DEF Duplicate
    <2>7. TypeOK'
          BY <2>6, <2>1, <2>2, <2>3, <2>4 DEF KeptInv, TypeOK
    <2> QED BY <2>5, <2>7 DEF KeptInv
  <1>3. ASSUME NEW n \in Sizes, Lose(n) PROVE KeptInv'
    <2>1. n \in Nat
          BY EnvAssumption
    <2>0. sent' = sent + n /\ sent + n <= Total /\ lost < MaxLost /\ lost' = lost + 1
          BY <1>3 DEF Lose
    <2>2. sent' \in 0 .. Total /\ lost' \in 0 .. MaxLost /\ sent <= sent'
          BY <1>0, <2>0, <2>1 DEF KeptInv, TypeOK
    <2>3. seg.b <= sent'
          BY <1>0, <2>2 DEF KeptInv, TypeOK
    <2>4. UNCHANGED <<seg, at, msg_len, half, miss, from, pc, got, before, duplicated>>
          BY <1>3 DEF Lose
    <2>5. clean' \in BOOLEAN
          BY <1>3, Zenon DEF Lose
    <2> QED BY <2>2, <2>3, <2>4, <2>5 DEF KeptInv, TypeOK, HalfInv, HeaderLen
  <1>4. CASE EndOfSegment
        BY <1>4 DEF EndOfSegment, KeptInv, TypeOK, HalfInv, HeaderLen
  <1>5. CASE DeliverWhole
    <2>1. PICK h \in GetCurReadMsgLength(at, Left) :
             h > 0 /\ h <= Left /\ got' = Append(got, MessageAt(at, h)) /\ at' = at + h
          BY <1>5 DEF DeliverWhole
    <2>2. h \in Nat
          BY <1>0, <2>1, AnnouncedLength
    <2>3. at' \in seg.a .. seg.b
          BY <1>0, <2>1, <2>2 DEF KeptInv, TypeOK, Left
    <2>4. MessageAt(at, h) \in 0 .. N
          BY MessageAtType
    <2>5. got' \in Seq(0 .. N) /\ Len(got') = Len(got) + 1
          BY <2>1, <2>4, AppendProperties DEF KeptInv, TypeOK
    <2>6. before \in 0 .. Len(got')
          BY <1>0, <2>5 DEF KeptInv, TypeOK
    <2>7. UNCHANGED <<sent, seg, msg_len, half, miss, from, pc, before, clean, lost, duplicated>>
          BY <1>5 DEF DeliverWhole
    <2> QED BY <2>3, <2>5, <2>6, <2>7 DEF KeptInv, TypeOK, HalfInv, HeaderLen
  <1>6. CASE StashHalf
    <2>1. PICK h \in GetCurReadMsgLength(at, Left) :
             h > Left /\ half' = Left /\ miss' = h - Left /\ from' = at
          BY <1>6 DEF StashHalf
    <2>2. Left > 6
          BY <1>6 DEF StashHalf, MinLeft
    <2>3. h \in 0 .. MaxLen /\ h = HeaderLen(at)
          BY <1>0, <2>1, <2>2, AnnouncedLength
    <2>4. /\ half' \in 0 .. MaxLen /\ half' > 6 /\ miss' \in 0 .. MaxLen /\ miss' > 0
          /\ half' + miss' = h
          BY <1>0, <2>1, <2>2, <2>3
    <2>5. HeaderLen(from)' = h
          BY <2>1, <2>3 DEF HeaderLen
    <2>6. from' \in 0 .. Total
          BY <1>0, <2>1 DEF KeptInv, TypeOK
    <2>7. /\ UNCHANGED <<sent, seg, at, msg_len, got, before, clean, lost, duplicated>>
          /\ pc' = "idle"
          BY <1>6 DEF StashHalf
    <2>8. HalfInv'
          BY <2>4, <2>5 DEF HalfInv, MinLeft
    <2> QED BY <2>4, <2>6, <2>7, <2>8 DEF KeptInv, TypeOK
  <1>7. CASE GiveUp
        BY <1>7 DEF GiveUp, KeptInv, TypeOK, HalfInv, HeaderLen
  <1>8. CASE DiscardHalf
        BY <1>0, <1>8 DEF DiscardHalf, KeptInv, TypeOK, HalfInv, HeaderLen
  <1>9. CASE CompleteHalf
    <2>1. /\ at' = at + miss /\ miss <= Left /\ half' = 0 /\ miss' = 0
          /\ got' = Append(got, IF at = from + half THEN MessageAt(from, half + miss) ELSE 0)
          /\ UNCHANGED <<sent, seg, msg_len, from, pc, before, clean, lost, duplicated>>
          BY <1>9 DEF CompleteHalf
    <2>2. at' \in seg.a .. seg.b
          BY <1>0, <2>1 DEF KeptInv, TypeOK, Left
    <2>3. (IF at = from + half THEN MessageAt(from, half + miss) ELSE 0) \in 0 .. N
          BY MessageAtType, LensType
    <2>4. got' \in Seq(0 .. N) /\ Len(got') = Len(got) + 1
          BY <2>1, <2>3, AppendProperties DEF KeptInv, TypeOK
    <2>5. before \in 0 .. Len(got')
          BY <1>0, <2>4 DEF KeptInv, TypeOK
    <2>6. TypeOK'
          BY <1>0, <2>1, <2>2, <2>4, <2>5 DEF KeptInv, TypeOK
    <2>7. HalfInv'
          BY <2>1 DEF HalfInv
    <2> QED BY <2>6, <2>7 DEF KeptInv
  <1>10. CASE Overrun
        BY <1>10 DEF Overrun, KeptInv, TypeOK, HalfInv, HeaderLen
  <1>11. CASE UNCHANGED vars
        BY <1>11 DEF vars, KeptInv, TypeOK, HalfInv, HeaderLen
  <1> QED BY <1>1, <1>2, <1>3, <1>4, <1>5, <1>6, <1>7, <1>8, <1>9, <1>10, <1>11 DEF Next, Over

---------------------------------------------------------------------------
(* The last half.                                                          *)

(* The loop leaves a message that starts at dataptr only for want of its   *)
(* header or to keep its half.                                             *)
LEMMA LastHalfNext == KeptInv /\ LastHalfKept /\ [Next]_vars => LastHalfKept'
  <1> SUFFICES ASSUME KeptInv, LastHalfKept, [Next]_vars, pc' = "idle", at' \in Starts,
                      seg'.b - at' > 7
               PROVE  half' = seg'.b - at'
      BY DEF LastHalfKept, MinLeft
  <1>1. CASE UNCHANGED <<seg, at, pc, half>>
        BY <1>1 DEF LastHalfKept, MinLeft
  <1>2. CASE EndOfSegment
    <2>1. seg' = seg /\ at' = at /\ Left <= 6
          BY <1>2 DEF EndOfSegment, MinLeft
    <2>2. Total \in Nat
          BY LensType, StartDef DEF Total
    <2>3. seg.b \in Int /\ at \in Int
          BY <2>2 DEF KeptInv, TypeOK
    <2> QED BY <2>1, <2>3 DEF Left
  <1>3. CASE StashHalf
        BY <1>3 DEF StashHalf, Left
  <1>4. CASE GiveUp
    <2>1. seg' = seg /\ at' = at /\ 0 \in GetCurReadMsgLength(at, Left)
          BY <1>4 DEF GiveUp
    <2>2. Left > 7
          BY <2>1 DEF Left
    <2>3. HeaderLen(at) = 0
          BY <2>1, <2>2 DEF GetCurReadMsgLength, MinLeft
    <2>4. PICK k \in 1 .. N : at = Start[k]
          BY <2>1 DEF Starts
    <2> QED BY <2>3, <2>4, HeaderAtStart, LensType
  <1>5. pc' # "loop"
        OBVIOUS
  <1> QED BY <1>1, <1>2, <1>3, <1>4, <1>5, Zenon DEF Next, Segment, Duplicate, Arrive, Lose, DeliverWhole,
          DiscardHalf, CompleteHalf, Overrun, Over, vars

---------------------------------------------------------------------------
(* What was given to OnData_lv2.                                           *)

\* From the i-th on, the quotes of s are those of the messages k to m - 1, in order.
Exactly(s, i, k, m) ==
    /\ \A j \in i .. Len(s) : IsQuote(s[j]) => s[j] \in k .. m - 1
    /\ \A n \in k .. m - 1 : IsQuote(n) => \E j \in i .. Len(s) : s[j] = n
    /\ \A j, l \in i .. Len(s) : IsQuote(s[j]) /\ IsQuote(s[l]) /\ j < l => s[j] < s[l]

(* Nothing yet.                                                            *)
LEMMA ExactlyNone ==
  ASSUME NEW s \in Seq(0 .. N), NEW k \in 1 .. N + 1
  PROVE  Exactly(s, Len(s) + 1, k, k)
  <1>1. Len(s) \in Nat
        BY LenProperties
  <1> QED BY <1>1, LensType DEF Exactly

(* The next message, whether it is a quote or not.                         *)
LEMMA ExactlyAppend ==
  ASSUME NEW s \in Seq(0 .. N), NEW i \in Nat, i > 0, i <= Len(s) + 1,
         NEW k \in 1 .. N, NEW m \in 1 .. N, k <= m, Exactly(s, i, k, m)
  PROVE  Exactly(Append(s, m), i, k, m + 1)
  <1> DEFINE t == Append(s, m)
  <1>1. /\ Len(s) \in Nat /\ Len(t) = Len(s) + 1 /\ t[Len(s) + 1] = m
        /\ \A j \in 1 .. Len(s) : t[j] = s[j]
    <2>1. m \in 0 .. N
          BY LensType
    <2> QED BY <2>1, AppendProperties, LenProperties
  <1> HIDE DEF t
  <1>2. \A j \in i .. Len(s) : j \in 1 .. Len(s) /\ t[j] = s[j] /\ j \in i .. Len(t)
        BY <1>1
  <1>3. \A j \in i .. Len(t) : j \in i .. Len(s) \/ (j = Len(s) + 1 /\ t[j] = m)
        BY <1>1
  <1>4. k \in Int /\ m \in Int /\ Len(s) + 1 \in i .. Len(t)
        BY <1>1, LensType
  <1>5. ASSUME NEW j \in i .. Len(t), IsQuote(t[j]) PROVE t[j] \in k .. (m + 1) - 1
    <2>1. CASE j \in i .. Len(s)
      <3>1. s[j] \in k .. m - 1
            BY <1>2, <1>5, <2>1 DEF Exactly
      <3> QED BY <1>2, <1>4, <2>1, <3>1
    <2>2. CASE j \notin i .. Len(s)
          BY <1>3, <1>4, <2>2
    <2> QED BY <2>1, <2>2
  <1>6. ASSUME NEW n \in k .. (m + 1) - 1, IsQuote(n) PROVE \E j \in i .. Len(t) : t[j] = n
    <2>1. CASE n = m
          BY <1>1, <1>4, <2>1
    <2>2. CASE n # m
      <3>1. n \in k .. m - 1
            BY <1>4, <2>2
      <3>2. PICK j \in i .. Len(s) : s[j] = n
            BY <1>6, <3>1 DEF Exactly
      <3> QED BY <1>2, <3>2
    <2> QED BY <2>1, <2>2
  <1>7. ASSUME NEW j \in i .. Len(t), NEW l \in i .. Len(t), IsQuote(t[j]), IsQuote(t[l]), j < l
        PROVE  t[j] < t[l]
    <2>1. j \in i .. Len(s)
          BY <1>1, <1>7
    <2>2. CASE l \in i .. Len(s)
          BY <1>2, <1>7, <2>1, <2>2 DEF Exactly
    <2>3. CASE l \notin i .. Len(s)
      <3>1. s[j] \in k .. m - 1
            BY <1>2, <1>7, <2>1 DEF Exactly
      <3> QED BY <1>2, <1>3, <1>4, <2>1, <2>3, <3>1
    <2> QED BY <2>2, <2>3
  <1>8. Exactly(t, i, k, m + 1)
        BY <1>5, <1>6, <1>7 DEF Exactly
  <1> QED BY <1>8 DEF t

(* A message that is no quote need not be there.                           *)
LEMMA ExactlySkip ==
  ASSUME NEW s, NEW i, NEW k \in 1 .. N, NEW m \in 1 .. N, k <= m, ~IsQuote(m), Exactly(s, i, k, m)
  PROVE  Exactly(s, i, k, m + 1)
  <1>1. \A n \in k .. (m + 1) - 1 : n = m \/ n \in k .. m - 1
        BY LensType
  <1>2. \A n \in k .. m - 1 : n \in k .. (m + 1) - 1
        BY LensType
  <1> QED BY <1>1, <1>2 DEF Exactly

(* No quote that starts at a message's start or later ends by x if that    *)
(* message does not, or if no more than 7 bytes are left.                  *)
LEMMA NoMore ==
  ASSUME NEW m \in 1 .. N + 1, NEW x \in Int,
         x <= Start[m] + 7 \/ (m <= N /\ x < Start[m] + Lens[m])
  PROVE  \A n \in m .. N : IsQuote(n) => Start[n + 1] > x
  <1> SUFFICES ASSUME NEW n \in m .. N, IsQuote(n) PROVE Start[n + 1] > x
      OBVIOUS
  <1>1. m \in 1 .. N /\ n \in 1 .. N /\ n + 1 \in 1 .. N + 1 /\ m \in 1 .. N + 1 /\ n \in 1 .. N + 1
        BY LensType
  <1>2. /\ Start[m] \in Nat /\ Start[n] \in Nat /\ Start[n + 1] \in Nat
        /\ Lens[m] \in Nat /\ Lens[n] \in Nat
        BY <1>1, StartDef, LensType
  <1>3. Start[n + 1] = Start[n] + Lens[n] /\ (Lens[n] = 6 \/ Lens[n] > 7)
        BY <1>1, StartDef, LensType
  <1>4. CASE n = m
    <2>1. Lens[n] > 6
          BY <1>1 DEF IsQuote, MinLeft
    <2> QED BY <1>2, <1>3, <1>4, <2>1
  <1>5. CASE n # m
    <2>1. m < n
          BY <1>1, <1>5
    <2>2. Start[m] + Lens[m] <= Start[n] /\ Start[m] + 6 <= Start[n]
          BY <1>1, <2>1, StartIncreases
    <2> QED BY <1>2, <1>3, <2>2
  <1> QED BY <1>4, <1>5

---------------------------------------------------------------------------
(* A segment that starts with a message.                                   *)

(* As long as it is handled, its messages up to dataptr have been given to *)
(* OnData_lv2; then there is none left that ends in it.                    *)
Aligned(k, m) ==
    /\ Start[k] = seg.a /\ k <= m /\ Exactly(got, before + 1, k, m)
    /\ pc = "loop" => Start[m] = at
    /\ pc = "idle" => /\ Start[m] <= seg.b
                      /\ \A n \in m .. N : IsQuote(n) => Start[n + 1] > seg.b

AlignedInv ==
    seg.b - seg.a > MinLeft + 1 /\ seg.a \in Starts =>
        /\ pc # "undefined"
        /\ pc = "loop" => msg_len > 0
        /\ \E k, m \in 1 .. N + 1 : Aligned(k, m)

\* The numbers behind the types.
LEMMA Numbers ==
  ASSUME TypeOK
  PROVE  /\ Total \in Nat /\ sent \in Nat /\ at \in Nat /\ half \in Nat /\ miss \in Nat /\ from \in Nat
         /\ seg.a \in Nat /\ seg.b \in Nat /\ Len(got) \in Nat /\ before \in Nat
         /\ Left = seg.b - at /\ Left \in Int
         /\ seg.a <= at /\ at <= seg.b /\ seg.b <= sent /\ sent <= Total /\ before <= Len(got)
  <1>1. Total \in Nat
        BY LensType, StartDef DEF Total
  <1>2. MaxLen \in Nat
        BY MaxLenType
  <1>3. Len(got) \in Nat
        BY LenProperties DEF TypeOK
  <1> QED BY <1>1, <1>2, <1>3 DEF TypeOK, Left

(* Where there are 7 bytes or more and a message starts, the handler finds *)
(* its length, unless it takes the end of the packet for another type.     *)
LEMMA AtMessage ==
  ASSUME TypeOK, NEW m \in 1 .. N + 1, at = Start[m], Left > 6
  PROVE  /\ m \in 1 .. N /\ m + 1 \in 1 .. N + 1
         /\ Lens[m] \in Nat /\ Lens[m] >= 6 /\ Start[m + 1] = at + Lens[m]
         /\ HeaderLen(at) = Lens[m]
         /\ \A h \in GetCurReadMsgLength(at, Left) : h = Lens[m] \/ (h = 0 /\ Left = 7)
  <1>1. m # N + 1
        BY Numbers DEF Total
  <1>2. m \in 1 .. N /\ m + 1 \in 1 .. N + 1
        BY <1>1, LensType
  <1>3. Lens[m] \in Nat /\ Lens[m] >= 6 /\ Start[m + 1] = at + Lens[m] /\ HeaderLen(at) = Lens[m]
    <2>1. Lens[m] \in Nat /\ Lens[m] >= 6
          BY <1>2, LensType
    <2>2. Start[m + 1] = at + Lens[m]
          BY <1>2, StartDef
    <2>3. HeaderLen(at) = Lens[m]
          BY <1>2, HeaderAtStart
    <2> QED BY <2>1, <2>2, <2>3
  <1>4. ASSUME NEW h \in GetCurReadMsgLength(at, Left) PROVE h = Lens[m] \/ (h = 0 /\ Left = 7)
    <2>1. Left \in Int
          BY Numbers
    <2>2. (h = 0 \/ h = HeaderLen(at)) /\ (Left > 7 => h = HeaderLen(at))
          BY <2>1, AnnouncedLength
    <2> QED BY <1>3, <2>1, <2>2
  <1> QED BY <1>2, <1>3, <1>4

\* A segment that starts with a message arrives, first or again.
LEMMA AlignedArrive ==
  ASSUME TypeOK, NEW s \in [a : 0 .. Total, b : 0 .. Total], Arrive(s), got' = got
  PROVE  AlignedInv'
  <1> SUFFICES ASSUME s.b - s.a > 7, s.a \in Starts
               PROVE  pc' = "loop" /\ msg_len' > 0 /\ \E k \in 1 .. N + 1 : Aligned(k, k)'
    <2>1. seg' = s
          BY DEF Arrive
    <2> QED BY <2>1 DEF AlignedInv, MinLeft
  <1>1. PICK k \in 1 .. N : s.a = Start[k]
        BY DEF Starts
  <1>2. k \in 1 .. N + 1 /\ Lens[k] \in Nat /\ Lens[k] > 0
        BY LensType
  <1>3. msg_len' = Lens[k]
    <2>1. msg_len' \in GetCurReadMsgLength(s.a, s.b - s.a)
          BY DEF Arrive
    <2> QED BY <2>1, <1>1, HeaderAtStart DEF GetCurReadMsgLength, MinLeft
  <1>4. Exactly(got', before' + 1, k, k)
        BY <1>2, ExactlyNone DEF Arrive, TypeOK
  <1>5. pc' = "loop" /\ at' = s.a /\ seg' = s
        BY DEF Arrive
  <1>6. Aligned(k, k)'
        BY <1>1, <1>2, <1>4, <1>5 DEF Aligned
  <1> QED BY <1>2, <1>3, <1>5, <1>6

(* The loop goes from message to message of such a segment.                *)
LEMMA AlignedNext == KeptInv /\ AlignedInv /\ [Next]_vars => AlignedInv'
  <1> SUFFICES ASSUME KeptInv, AlignedInv, [Next]_vars PROVE AlignedInv'
      OBVIOUS
  <1>0. TypeOK
        BY DEF KeptInv
  <1>1. ASSUME NEW n \in Sizes, Segment(n) PROVE AlignedInv'
    <2> DEFINE s == [a |-> sent, b |-> sent + n]
    <2>1. n \in Nat
          BY EnvAssumption
    <2>2. s \in [a : 0 .. Total, b : 0 .. Total]
          BY <1>0, <1>1, <2>1, Numbers DEF Segment
    <2>3. Arrive(s) /\ got' = got
          BY <1>1 DEF Segment
    <2> QED BY <1>0, <2>2, <2>3, AlignedArrive
  <1>2. CASE Duplicate
    <2>1. seg \in [a : 0 .. Total, b : 0 .. Total] /\ Arrive(seg) /\ got' = got
          BY <1>0, <1>2 DEF Duplicate, TypeOK
    <2> QED BY <1>0, <2>1, AlignedArrive
  <1>3. CASE UNCHANGED <<seg, at, msg_len, pc, got, before>>
        BY <1>3 DEF AlignedInv, Aligned
  <1>4. CASE pc = "loop" /\ UNCHANGED <<seg, before, msg_len>>
    <2> SUFFICES ASSUME seg.b - seg.a > 7, seg.a \in Starts
                 PROVE  pc' # "undefined" /\ \E k, m \in 1 .. N + 1 : Aligned(k, m)'
        BY <1>4 DEF AlignedInv, MinLeft
    <2>1. msg_len > 0
          BY <1>4 DEF AlignedInv, MinLeft
    <2>2. PICK k \in 1 .. N + 1, m \in 1 .. N + 1 : Aligned(k, m)
          BY DEF AlignedInv, MinLeft
    <2>3. Start[k] = seg.a /\ k <= m /\ Exactly(got, before + 1, k, m) /\ Start[m] = at
          BY <1>4, <2>2 DEF Aligned
    <2>4. Start[m] <= seg.b
          BY <1>0, <2>3, Numbers
    <2>5. ASSUME pc' = "idle", got' = got, seg.b <= Start[m] + 7 \/ (m <= N /\ seg.b < Start[m] + Lens[m])
          PROVE  Aligned(k, m)'
      <3>0. seg.b \in Int
            BY <1>0, Numbers
      <3>1. \A n \in m .. N : IsQuote(n) => Start[n + 1] > seg.b
            BY <2>5, <3>0, NoMore
      <3> QED BY <1>4, <2>3, <2>4, <2>5, <3>1 DEF Aligned
    <2>6. CASE EndOfSegment
      <3>1. Left <= 6 /\ pc' = "idle" /\ got' = got
            BY <2>6 DEF EndOfSegment, MinLeft
      <3>2. seg.b <= Start[m] + 7
            BY <1>0, <2>3, <3>1, Numbers
      <3> QED BY <2>5, <3>1, <3>2
    <2>7. CASE DeliverWhole
      <3>1. PICK h \in GetCurReadMsgLength(at, Left) :
               h > 0 /\ got' = Append(got, MessageAt(at, h)) /\ at' = at + h
            BY <2>7 DEF DeliverWhole
      <3>2. Left > 6 /\ pc' = pc
            BY <2>7 DEF DeliverWhole, MinLeft
      <3>3. m \in 1 .. N /\ m + 1 \in 1 .. N + 1 /\ h = Lens[m] /\ Start[m + 1] = at + Lens[m]
            BY <1>0, <2>3, <3>1, <3>2, AtMessage
      <3>4. MessageAt(at, h) = m /\ k \in 1 .. N
            BY <2>3, <3>3, HeaderAtStart, LensType
      <3>5. Exactly(got', before + 1, k, m + 1)
        <4>1. got \in Seq(0 .. N) /\ before + 1 \in Nat /\ before + 1 > 0 /\ before + 1 <= Len(got) + 1
              BY <1>0, Numbers DEF TypeOK
        <4> QED BY <2>3, <3>1, <3>3, <3>4, <4>1, ExactlyAppend
      <3>6. Start[m + 1] = at' /\ k <= m + 1
            BY <2>3, <3>1, <3>3
      <3>7. Aligned(k, m + 1)'
            BY <1>4, <2>3, <3>2, <3>5, <3>6 DEF Aligned
      <3> QED BY <1>4, <3>2, <3>3, <3>7
    <2>8. CASE StashHalf
      <3>1. PICK h \in GetCurReadMsgLength(at, Left) : h > Left
            BY <2>8 DEF StashHalf
      <3>2. Left > 6 /\ pc' = "idle" /\ got' = got
            BY <2>8 DEF StashHalf, MinLeft
      <3>3. /\ m \in 1 .. N /\ Lens[m] \in Nat
            /\ h = Lens[m] \/ (h = 0 /\ Left = 7)
            BY <1>0, <2>3, <3>1, <3>2, AtMessage
      <3>4. Left \in Int /\ at \in Nat /\ seg.b \in Nat
            BY <1>0, Numbers
      <3>5. h = Lens[m] /\ h \in Nat
            BY <3>1, <3>2, <3>3, <3>4
      <3>6. m <= N /\ seg.b < Start[m] + Lens[m]
            BY <2>3, <3>1, <3>5, <3>3, <3>4, LensType DEF Left
      <3> QED BY <2>5, <3>2, <3>6
    <2>9. CASE GiveUp
      <3>1. 0 \in GetCurReadMsgLength(at, Left) /\ Left > 6 /\ pc' = "idle" /\ got' = got
            BY <2>9 DEF GiveUp, MinLeft
      <3>2. Left = 7
            BY <1>0, <2>3, <3>1, AtMessage
      <3>3. seg.b <= Start[m] + 7
            BY <1>0, <2>3, <3>2, Numbers
      <3> QED BY <2>5, <3>1, <3>3
    <2>10. CASE UNCHANGED <<pc, at, got>>
          BY <1>4, <2>2, <2>10 DEF Aligned
    <2>11. ~CompleteHalf /\ ~Overrun
          BY <2>1 DEF CompleteHalf, Overrun
    <2> QED BY <1>4, <2>6, <2>7, <2>8, <2>9, <2>10, <2>11, Zenon DEF Next, Segment, Duplicate, Lose,
            DiscardHalf, Over, vars
  <1> QED BY <1>1, <1>2, <1>3, <1>4, Zenon DEF Next, Segment, Duplicate, Lose, EndOfSegment, DeliverWhole,
          StashHalf, GiveUp, DiscardHalf, CompleteHalf, Overrun, Over, vars

\* When such a segment is handled, what was given is what ends in it.
LEMMA AlignedDelivers == KeptInv /\ AlignedInv => SegmentDelivered
  <1> SUFFICES ASSUME KeptInv, AlignedInv, pc = "idle", seg.b - seg.a > 7, seg.a \in Starts
               PROVE  /\ {got[j] : j \in Quoted(before + 1)} = InSegment
                      /\ \A i, j \in Quoted(before + 1) : i < j => got[i] < got[j]
      BY DEF SegmentDelivered, MinLeft
  <1>1. PICK k \in 1 .. N + 1, m \in 1 .. N + 1 : Aligned(k, m)
        BY DEF AlignedInv, MinLeft
  <1>2. /\ Start[k] = seg.a /\ k <= m /\ Exactly(got, before + 1, k, m) /\ Start[m] <= seg.b
        /\ \A n \in m .. N : IsQuote(n) => Start[n + 1] > seg.b
        BY <1>1 DEF Aligned
  <1>3. seg.a \in Nat /\ seg.b \in Nat
        BY Numbers DEF KeptInv
  <1>4. ASSUME NEW n \in 1 .. N, IsQuote(n)
        PROVE  seg.a <= Start[n] /\ Start[n + 1] <= seg.b <=> n \in k .. m - 1
    <2>1. n \in 1 .. N + 1 /\ n + 1 \in 1 .. N + 1 /\ k \in Int /\ m \in Int
          BY LensType
    <2>2. /\ Start[n] \in Nat /\ Start[n + 1] \in Nat /\ Start[k] \in Nat /\ Start[m] \in Nat
          BY <2>1, StartDef
    <2>3. n < k => Start[n] < Start[k]
      <3>1. n < k => Start[n] + 6 <= Start[k]
            BY <2>1, StartIncreases
      <3> QED BY <2>2, <3>1
    <2>4. k <= n => Start[k] <= Start[n]
      <3>1. k < n => Start[k] + 6 <= Start[n]
            BY <2>1, StartIncreases
      <3> QED BY <2>1, <2>2, <3>1
    <2>5. n < m => Start[n + 1] <= Start[m]
      <3>1. n + 1 < m => Start[n + 1] + 6 <= Start[m]
            BY <2>1, StartIncreases
      <3> QED BY <2>1, <2>2, <3>1
    <2>6. m <= n => Start[n + 1] > seg.b
          BY <1>2, <1>4, <2>1
    <2> QED BY <1>2, <1>3, <2>1, <2>2, <2>3, <2>4, <2>5, <2>6
  <1>5. InSegment = {n \in k .. m - 1 : IsQuote(n)}
    <2>1. \A n \in k .. m - 1 : n \in 1 .. N
          BY LensType
    <2> QED BY <1>4, <2>1 DEF InSegment
  <1>6. {got[j] : j \in Quoted(before + 1)} = {n \in k .. m - 1 : IsQuote(n)}
        BY <1>2 DEF Exactly, Quoted
  <1>7. \A i, j \in Quoted(before + 1) : i < j => got[i] < got[j]
        BY <1>2 DEF Exactly, Quoted
  <1> QED BY <1>5, <1>6, <1>7

---------------------------------------------------------------------------
(* A stream without gaps.                                                  *)

(* The messages before the m-th have been given, and the m-th is next: the *)
(* handler stands at its start, or keeps its half.                         *)
AtStart(m) ==
    /\ half = 0
    /\ pc = "loop" => at = Start[m]
    /\ pc = "idle" => sent = Start[m]

AtHalf(m) ==
    /\ half > 0 /\ m <= N /\ from = Start[m] /\ half + miss = Lens[m] /\ miss > 6
    /\ pc = "loop" => at = seg.a /\ from + half = seg.a /\ msg_len = 0 /\ seg.a < seg.b
    /\ pc = "idle" => from + half = sent

CleanInv ==
    clean =>
        /\ pc # "undefined" /\ seg.b = sent /\ CleanCut(seg.a, seg.b)
        /\ \E m \in 1 .. N + 1 : Exactly(got, 1, 1, m) /\ (AtStart(m) \/ AtHalf(m))

\* The first message is next, and nothing is cut yet.
LEMMA CleanInit == Init => CleanInv
  <1> SUFFICES ASSUME Init PROVE CleanInv
      OBVIOUS
  <1>1. 1 \in 1 .. N + 1 /\ 1 \in 1 .. N /\ Start[1] = 0
        BY LensType, StartDef
  <1>2. seg.a = 0 /\ seg.b = 0 /\ got = <<>> /\ pc = "idle" /\ sent = 0 /\ half = 0
        BY DEF Init
  <1>3. CleanCut(0, 0)
    <2>1. 0 \notin Lookalikes
          BY <1>1, EnvAssumption DEF Starts
    <2>2. \A k \in 1 .. N : ~(Start[k] < 0)
      <3> TAKE k \in 1 .. N
      <3>1. Start[k] \in Nat
            BY LensType, StartDef
      <3> QED BY <3>1
    <2> QED BY <2>1, <2>2 DEF CleanCut
  <1>4. Exactly(got, 1, 1, 1)
    <2>1. got \in Seq(0 .. N) /\ Len(got) + 1 = 1
          BY <1>2
    <2> QED BY <1>1, <2>1, ExactlyNone
  <1> QED BY <1>1, <1>2, <1>3, <1>4 DEF CleanInv, AtStart

(* Whoever cuts a message in two leaves more than 6 bytes of it to the     *)
(* next segment, which therefore does not begin with a header.             *)
LEMMA CutInside ==
  ASSUME TypeOK, CleanCut(seg.a, seg.b), NEW m \in 1 .. N, Start[m] < seg.b, seg.b < Start[m + 1]
  PROVE  /\ seg.b - Start[m] > 7 /\ Start[m + 1] - seg.b > 6 /\ seg.a <= Start[m]
         /\ HeaderLen(seg.b) = 0
  <1>1. /\ seg.b - Start[m] > 7 /\ Start[m + 1] - seg.b > 6 /\ seg.a <= Start[m]
        /\ seg.b \notin Lookalikes
        BY DEF CleanCut, MinLeft
  <1>2. seg.b \notin Starts
    <2> SUFFICES ASSUME NEW k \in 1 .. N, seg.b = Start[k] PROVE FALSE
        BY DEF Starts
    <2>1. /\ k \in 1 .. N + 1 /\ m \in 1 .. N + 1 /\ m + 1 \in 1 .. N + 1
          /\ k \in Int /\ m \in Int
          BY LensType
    <2>2. Start[k] \in Nat /\ Start[m] \in Nat /\ Start[m + 1] \in Nat
          BY <2>1, StartDef
    <2>3. CASE k < m
      <3>1. Start[k] + 6 <= Start[m]
            BY <2>1, <2>3, StartIncreases
      <3> QED BY <2>2, <3>1
    <2>4. CASE m + 1 < k
      <3>1. Start[m + 1] + 6 <= Start[k]
            BY <2>1, <2>4, StartIncreases
      <3> QED BY <2>2, <3>1
    <2>5. CASE k = m \/ k = m + 1
          BY <2>2, <2>5
    <2> QED BY <2>1, <2>3, <2>4, <2>5
  <1> QED BY <1>1, <1>2 DEF HeaderLen

(* The segment after a half completes it.                                  *)
LEMMA HalfIsCompleted ==
  ASSUME TypeOK, CleanCut(seg.a, seg.b), pc = "loop", NEW m \in 1 .. N + 1, AtHalf(m)
  PROVE  miss <= Left /\ Left > 6 /\ m \in 1 .. N /\ at + miss = Start[m + 1]
  <1>1. /\ half > 0 /\ m <= N /\ from = Start[m] /\ half + miss = Lens[m] /\ miss > 6
        /\ at = seg.a /\ from + half = seg.a /\ seg.a < seg.b
        BY DEF AtHalf
  <1>2. m \in 1 .. N /\ Start[m + 1] = Start[m] + Lens[m] /\ Start[m] \in Nat /\ Lens[m] \in Nat
        BY <1>1, LensType, StartDef
  <1>3. ~(seg.b < Start[m + 1])
    <2> SUFFICES ASSUME seg.b < Start[m + 1] PROVE FALSE
        OBVIOUS
    <2>1. half \in Nat /\ seg.a \in Nat /\ seg.b \in Nat
          BY Numbers
    <2>2. Start[m] < seg.b
          BY <1>1, <1>2, <2>1
    <2>3. seg.a <= Start[m]
          BY <1>2, <2>2, CutInside
    <2> QED BY <1>1, <1>2, <2>1, <2>3
  <1>numbers. /\ miss \in Nat /\ half \in Nat /\ at \in Nat /\ seg.b \in Nat
        /\ Left = seg.b - at
        BY Numbers
  <1>4. at + miss = Start[m + 1]
        BY <1>1, <1>2, <1>numbers
  <1>5. miss <= Left /\ Left > 6
        BY <1>1, <1>2, <1>3, <1>4, <1>numbers
  <1> QED BY <1>2, <1>4, <1>5

(* Where the loop stands at a message it delivers it, keeps its half or    *)
(* is at the end of the segment, and nothing in between.                   *)
LEMMA MessageIsWhole ==
  ASSUME TypeOK, CleanCut(seg.a, seg.b), NEW m \in 1 .. N + 1, at = Start[m], m \in 1 .. N
  PROVE  /\ Start[m + 1] = at + Lens[m] /\ Lens[m] \in Nat /\ Lens[m] >= 6
         /\ Left # 0 /\ Left < Lens[m] => Left > 7 /\ Lens[m] - Left > 6
         /\ Left # 7
  <1>1. /\ Start[m + 1] = at + Lens[m] /\ Lens[m] \in Nat /\ Lens[m] >= 6
        /\ Lens[m] = 6 \/ Lens[m] > 7
    <2>1. Lens[m] \in Nat /\ (Lens[m] = 6 \/ Lens[m] > 7)
          BY LensType
    <2> QED BY <2>1, StartDef
  <1>numbers. /\ Total \in Nat /\ at \in Nat /\ seg.b \in Nat /\ at <= seg.b /\ seg.b <= Total
        /\ Left = seg.b - at
        BY Numbers
  <1>2. Left # 0 /\ Left < Lens[m] => Left > 7 /\ Lens[m] - Left > 6
    <2> SUFFICES ASSUME Left # 0, Left < Lens[m] PROVE Left > 7 /\ Lens[m] - Left > 6
        OBVIOUS
    <2>1. Start[m] < seg.b /\ seg.b < Start[m + 1]
          BY <1>1, <1>numbers
    <2>2. seg.b - Start[m] > 7 /\ Start[m + 1] - seg.b > 6
          BY <2>1, CutInside
    <2> QED BY <1>1, <1>numbers, <2>2
  <1>3. Left # 7
    <2> SUFFICES ASSUME Left = 7 PROVE FALSE
        OBVIOUS
    <2>1. Lens[m] = 6
          BY <1>1, <1>2
    <2>2. seg.b = Start[m + 1] + 1
          BY <1>1, <1>numbers, <2>1
    <2>5. Start[m + 1] \in Nat
          BY <1>1, <1>numbers
    <2>3. m + 1 \in 1 .. N
      <3>1. m + 1 # N + 1
        <4> SUFFICES ASSUME m + 1 = N + 1 PROVE FALSE
            OBVIOUS
        <4>1. seg.b = Total + 1
              BY <2>2 DEF Total
        <4> QED BY <4>1, <1>numbers
      <3> QED BY <3>1, LensType
    <2>4. Start[m + 1 + 1] = Start[m + 1] + Lens[m + 1] /\ Lens[m + 1] \in Nat /\ Lens[m + 1] >= 6
      <3>1. Lens[m + 1] \in Nat /\ (Lens[m + 1] = 6 \/ Lens[m + 1] > 7)
            BY <2>3, LensType
      <3> QED BY <2>3, <3>1, StartDef
    <2>6. seg.b - Start[m + 1] > 7
          BY <2>2, <2>3, <2>4, <2>5, CutInside
    <2> QED BY <2>2, <2>5, <2>6
  <1> QED BY <1>1, <1>2, <1>3

(* As long as the stream is seen whole, each step of the loop takes the    *)
(* next message from it.                                                   *)
LEMMA CleanNext == KeptInv /\ CleanInv /\ [Next]_vars => CleanInv'
  <1> SUFFICES ASSUME KeptInv, CleanInv, [Next]_vars, clean'
               PROVE  /\ pc' # "undefined" /\ seg'.b = sent' /\ CleanCut(seg'.a, seg'.b)
                      /\ \E m \in 1 .. N + 1 : Exactly(got', 1, 1, m) /\ (AtStart(m)' \/ AtHalf(m)')
      BY DEF CleanInv
  <1> DEFINE Good == /\ pc' # "undefined" /\ seg'.b = sent' /\ CleanCut(seg'.a, seg'.b)
                     /\ \E m \in 1 .. N + 1 : Exactly(got', 1, 1, m) /\ (AtStart(m)' \/ AtHalf(m)')
  <1>0. TypeOK
        BY DEF KeptInv
  <1>numbers. /\ Total \in Nat /\ sent \in Nat /\ at \in Nat /\ half \in Nat /\ miss \in Nat
        /\ seg.b \in Nat /\ Left = seg.b - at /\ at <= seg.b /\ seg.b <= sent /\ sent <= Total
        BY <1>0, Numbers
  <1>1. clean
        BY Zenon DEF Next, Segment, Duplicate, Lose, EndOfSegment, DeliverWhole, StashHalf, GiveUp,
           DiscardHalf, CompleteHalf, Overrun, Over, vars
  <1>2. pc # "undefined" /\ seg.b = sent /\ CleanCut(seg.a, seg.b)
        BY <1>1 DEF CleanInv
  <1>3. PICK m \in 1 .. N + 1 : Exactly(got, 1, 1, m) /\ (AtStart(m) \/ AtHalf(m))
        BY <1>1 DEF CleanInv
  <1>4. m \in Nat /\ Start[m] \in Nat
        BY LensType, StartDef
  <1>5. ASSUME NEW n \in Sizes, Segment(n) PROVE Good
    <2>1. /\ pc = "idle" /\ pc' = "loop" /\ sent' = sent + n /\ seg' = [a |-> sent, b |-> sent + n]
          /\ at' = sent /\ msg_len' \in GetCurReadMsgLength(sent, (sent + n) - sent)
          /\ UNCHANGED <<half, miss, from, got>>
          BY <1>5 DEF Segment, Arrive
    <2>2. n \in Nat /\ n > 0
          BY EnvAssumption
    <2>3. CleanCut(sent, sent + n)
          BY <1>5, Zenon DEF Segment
    <2>4. seg'.a = sent /\ seg'.b = sent + n
          BY <2>1
    <2>5. CASE AtStart(m)
      <3>1. AtStart(m)'
            BY <2>1, <2>5 DEF AtStart
      <3> QED BY <1>3, <2>1, <2>3, <2>4, <3>1
    <2>6. CASE AtHalf(m)
      <3>1. /\ half > 0 /\ m <= N /\ from = Start[m] /\ half + miss = Lens[m] /\ miss > 6
            /\ from + half = sent
            BY <2>1, <2>6 DEF AtHalf
      <3>2. m \in 1 .. N /\ Start[m + 1] = Start[m] + Lens[m] /\ Lens[m] \in Nat
            BY <3>1, <1>4, LensType, StartDef
      <3>3. HeaderLen(sent) = 0
        <4>1. Start[m] < seg.b /\ seg.b < Start[m + 1]
              BY <1>2, <1>4, <1>numbers, <3>1, <3>2
        <4> QED BY <1>0, <1>2, <3>2, <4>1, CutInside
      <3>4. msg_len' = 0
            BY <2>1, <3>3 DEF GetCurReadMsgLength
      <3>5. sent < sent + n
            BY <1>numbers, <2>2
      <3>6. AtHalf(m)'
            BY <2>1, <2>4, <3>1, <3>4, <3>5 DEF AtHalf
      <3> QED BY <1>3, <2>1, <2>3, <2>4, <3>6
    <2> QED BY <1>3, <2>5, <2>6
  <1>6. ~Duplicate /\ \A n \in Sizes : ~Lose(n)
        BY DEF Duplicate, Lose
  <1>8. CASE EndOfSegment
    <2>1. /\ pc = "loop" /\ pc' = "idle" /\ Left <= 6
          /\ UNCHANGED <<sent, seg, half, got>>
          BY <1>8 DEF EndOfSegment, MinLeft
    <2>2. ~AtHalf(m)
      <3>1. AtHalf(m) => Left > 6
            BY <1>0, <1>2, <2>1, HalfIsCompleted
      <3> QED BY <1>numbers, <2>1, <3>1
    <2>3. half = 0 /\ at = Start[m]
          BY <1>3, <2>1, <2>2 DEF AtStart
    <2>4. CASE Left = 0
      <3>1. sent = Start[m]
            BY <1>2, <1>numbers, <2>3, <2>4
      <3>2. AtStart(m)'
            BY <2>1, <2>3, <3>1 DEF AtStart
      <3> QED BY <1>2, <1>3, <2>1, <3>2
    <2>5. CASE Left # 0
      <3>1. m \in 1 .. N
        <4>1. at < Total
              BY <1>numbers, <2>5
        <4>2. m # N + 1
              BY <1>numbers, <2>3, <4>1 DEF Total
        <4> QED BY <4>2, LensType
      <3>2. /\ Start[m + 1] = at + Lens[m] /\ Lens[m] \in Nat /\ Lens[m] >= 6
            /\ Left < Lens[m] => Left > 7
            BY <1>0, <1>2, <2>3, <2>5, <3>1, MessageIsWhole
      <3>3. Left = 6 /\ Lens[m] = 6
            BY <1>numbers, <2>1, <3>2
      <3>4. ~IsQuote(m)
            BY <1>4, <3>1, <3>3 DEF IsQuote, MinLeft
      <3>5. Exactly(got', 1, 1, m + 1) /\ m + 1 \in 1 .. N + 1
        <4>1. 1 \in 1 .. N /\ 1 <= m /\ m + 1 \in 1 .. N + 1
              BY <3>1, LensType
        <4> QED BY <1>3, <2>1, <3>1, <3>4, <4>1, ExactlySkip
      <3>6. sent = Start[m + 1]
            BY <1>2, <1>numbers, <2>3, <3>2, <3>3
      <3>7. AtStart(m + 1)'
            BY <2>1, <2>3, <3>6 DEF AtStart
      <3> QED BY <1>2, <2>1, <3>5, <3>7
    <2> QED BY <2>4, <2>5
  <1>9. CASE DeliverWhole
    <2>1. /\ pc = "loop" /\ Left > 6 /\ half = 0
          /\ UNCHANGED <<sent, seg, half, pc>>
          BY <1>9 DEF DeliverWhole, MinLeft
    <2>2. PICK h \in GetCurReadMsgLength(at, Left) :
             h > 0 /\ got' = Append(got, MessageAt(at, h)) /\ at' = at + h
          BY <1>9 DEF DeliverWhole
    <2>3. at = Start[m]
          BY <1>3, <2>1 DEF AtStart, AtHalf
    <2>4. m \in 1 .. N /\ m + 1 \in 1 .. N + 1 /\ h = Lens[m] /\ Start[m + 1] = at + Lens[m]
          BY <1>0, <2>1, <2>2, <2>3, AtMessage
    <2>5. MessageAt(at, h) = m
          BY <2>3, <2>4, HeaderAtStart
    <2>6. Exactly(got', 1, 1, m + 1)
      <3>1. got \in Seq(0 .. N) /\ 1 <= Len(got) + 1 /\ 1 \in 1 .. N /\ 1 <= m
            BY <1>0, <2>4, Numbers, LensType DEF TypeOK
      <3> QED BY <1>3, <2>2, <2>4, <2>5, <3>1, ExactlyAppend
    <2>7. AtStart(m + 1)'
          BY <2>1, <2>2, <2>4 DEF AtStart
    <2> QED BY <1>2, <2>1, <2>4, <2>6, <2>7
  <1>10. CASE StashHalf
    <2>1. /\ pc = "loop" /\ Left > 6 /\ half = 0 /\ pc' = "idle"
          /\ UNCHANGED <<sent, seg, got>>
          BY <1>10 DEF StashHalf, MinLeft
    <2>2. PICK h \in GetCurReadMsgLength(at, Left) :
             h > Left /\ half' = Left /\ miss' = h - Left /\ from' = at
          BY <1>10 DEF StashHalf
    <2>3. at = Start[m]
          BY <1>3, <2>1 DEF AtStart, AtHalf
    <2>4. m \in 1 .. N /\ h = Lens[m] /\ Lens[m] \in Nat
          BY <1>0, <2>1, <2>2, <2>3, AtMessage
    <2>5. Lens[m] - Left > 6
          BY <1>0, <1>2, <2>1, <2>2, <2>3, <2>4, MessageIsWhole
    <2>6. half' > 0 /\ m <= N /\ half' + miss' = Lens[m] /\ miss' > 6 /\ from' + half' = sent'
          BY <1>2, <1>numbers, <2>1, <2>2, <2>4, <2>5
    <2>7. AtHalf(m)'
          BY <2>1, <2>2, <2>3, <2>6 DEF AtHalf
    <2> QED BY <1>2, <1>3, <2>1, <2>7
  <1>11. ~GiveUp
    <2> SUFFICES ASSUME GiveUp PROVE FALSE
        OBVIOUS
    <2>1. pc = "loop" /\ Left > 6 /\ half = 0 /\ 0 \in GetCurReadMsgLength(at, Left)
          BY DEF GiveUp, MinLeft
    <2>2. at = Start[m]
          BY <1>3, <2>1 DEF AtStart, AtHalf
    <2>3. m \in 1 .. N /\ Lens[m] >= 6 /\ Lens[m] \in Nat /\ (0 = Lens[m] \/ Left = 7)
          BY <1>0, <2>1, <2>2, AtMessage
    <2>4. Left # 7
          BY <1>0, <1>2, <2>2, <2>3, MessageIsWhole
    <2> QED BY <2>3, <2>4
  <1>12. ~DiscardHalf
    <2> SUFFICES ASSUME DiscardHalf PROVE FALSE
        OBVIOUS
    <2>1. pc = "loop" /\ half > 0 /\ msg_len > 0
          BY DEF DiscardHalf
    <2>2. AtHalf(m)
          BY <1>3, <2>1 DEF AtStart
    <2> QED BY <2>1, <2>2 DEF AtHalf
  <1>13. CASE CompleteHalf
    <2>1. /\ pc = "loop" /\ half > 0 /\ at' = at + miss /\ half' = 0
          /\ got' = Append(got, IF at = from + half THEN MessageAt(from, half + miss) ELSE 0)
          /\ UNCHANGED <<sent, seg, pc>>
          BY <1>13 DEF CompleteHalf
    <2>2. AtHalf(m)
          BY <1>3, <2>1 DEF AtStart
    <2>3. m \in 1 .. N /\ at + miss = Start[m + 1]
          BY <1>0, <1>2, <2>1, <2>2, HalfIsCompleted
    <2>4. at = from + half /\ MessageAt(from, half + miss) = m
          BY <2>1, <2>2, <2>3, HeaderAtStart DEF AtHalf
    <2>5. m + 1 \in 1 .. N + 1 /\ Exactly(got', 1, 1, m + 1)
      <3>1. /\ got \in Seq(0 .. N) /\ 1 <= Len(got) + 1 /\ 1 \in 1 .. N /\ 1 <= m
            /\ m + 1 \in 1 .. N + 1
            BY <1>0, <2>3, Numbers, LensType DEF TypeOK
      <3> QED BY <1>3, <2>1, <2>3, <2>4, <3>1, ExactlyAppend
    <2>6. AtStart(m + 1)'
          BY <2>1, <2>3 DEF AtStart
    <2> QED BY <1>2, <2>1, <2>5, <2>6
  <1>14. ~Overrun
    <2> SUFFICES ASSUME Overrun PROVE FALSE
        OBVIOUS
    <2>1. pc = "loop" /\ half > 0 /\ miss > Left
          BY DEF Overrun
    <2>2. AtHalf(m)
          BY <1>3, <2>1 DEF AtStart
    <2> QED BY <1>0, <1>2, <1>numbers, <2>1, <2>2, HalfIsCompleted
  <1>15. CASE UNCHANGED vars
        BY <1>2, <1>3, <1>15 DEF vars, AtStart, AtHalf
  <1> QED BY <1>5, <1>6, <1>8, <1>9, <1>10, <1>11, <1>12, <1>13, <1>14, <1>15, Zenon DEF Next, Over

\* The messages given so far are those before the next one.
LEMMA CleanIsExact == KeptInv /\ CleanInv => NoOverrun /\ ExactStream
  <1> SUFFICES ASSUME KeptInv, CleanInv, clean
               PROVE  /\ pc # "undefined"
                      /\ \A j \in Quoted(1) : got[j] # 0
                      /\ \A i, j \in Quoted(1) : i < j => got[i] < got[j]
                      /\ \A k \in 1 .. N :
                            /\ IsQuote(k)
                            /\ (\E j \in Quoted(1) : k < got[j]) \/ (pc = "idle" /\ Start[k + 1] <= sent)
                            => \E j \in Quoted(1) : got[j] = k
      BY DEF NoOverrun, ExactStream
  <1>1. PICK m \in 1 .. N + 1 : Exactly(got, 1, 1, m) /\ (AtStart(m) \/ AtHalf(m))
        BY DEF CleanInv
  <1>2. m \in Nat /\ Start[m] \in Nat
        BY LensType, StartDef
  <1>3. \A j \in Quoted(1) : got[j] \in 1 .. m - 1
        BY <1>1 DEF Exactly, Quoted
  <1>4. \A k \in 1 .. m - 1 : IsQuote(k) => \E j \in Quoted(1) : got[j] = k
        BY <1>1 DEF Exactly, Quoted
  <1>5. \A i, j \in Quoted(1) : i < j => got[i] < got[j]
        BY <1>1 DEF Exactly, Quoted
  <1>6. ASSUME NEW k \in 1 .. N, NEW j \in Quoted(1), k < got[j] PROVE k \in 1 .. m - 1
        BY <1>2, <1>3, <1>6
  <1>7. ASSUME NEW k \in 1 .. N, pc = "idle", Start[k + 1] <= sent PROVE k \in 1 .. m - 1
    <2>1. /\ k \in 1 .. N + 1 /\ k + 1 \in 1 .. N + 1 /\ k \in Nat
          /\ Start[k] \in Nat /\ Start[k + 1] \in Nat
          BY LensType, StartDef
    <2>2. m < k + 1 => Start[m] + Lens[m] <= Start[k + 1] /\ Start[m] + 6 <= Start[k + 1]
          BY <2>1, StartIncreases
    <2>3. CASE AtStart(m)
      <3>1. sent = Start[m]
            BY <1>7, <2>3 DEF AtStart
      <3> QED BY <1>2, <1>7, <2>1, <2>2, <3>1
    <2>4. CASE AtHalf(m)
      <3>1. m <= N /\ from = Start[m] /\ half + miss = Lens[m] /\ miss > 6 /\ from + half = sent
            BY <1>7, <2>4 DEF AtHalf
      <3>2. half \in Nat /\ miss \in Nat /\ sent \in Nat
            BY Numbers DEF KeptInv
      <3>3. sent < Start[m] + Lens[m]
            BY <1>2, <3>1, <3>2
      <3>4. Lens[m] \in Nat
            BY <1>2, <3>1, LensType
      <3> QED BY <1>2, <1>7, <2>1, <2>2, <3>2, <3>3, <3>4
    <2> QED BY <1>1, <2>3, <2>4
  <1>8. pc # "undefined" /\ \A j \in Quoted(1) : got[j] # 0
        BY <1>2, <1>3 DEF CleanInv
  <1> QED BY <1>4, <1>5, <1>6, <1>7, <1>8

---------------------------------------------------------------------------
(* The theorems.                                                           *)

(* The half message kept in g_extern_msg_buffer and the bytes it misses    *)
(* always add up to the length its own header announced, so completing it  *)
(* never writes past the longest message.                                  *)
THEOREM HalfAnnounced == Spec => []HalfInv
  <1>1. KeptInv => HalfInv
        BY DEF KeptInv
  <1> QED BY <1>1, KeptInit, KeptNext, PTL DEF Spec

(* Lv2Handler stays inside the packet as long as the stream is seen whole  *)
(* and cut cleanly, and never drops the half a segment ends in while its   *)
(* header is there.                                                        *)
THEOREM BuffersHold == Spec => []BufferInv
  <1>1. Spec => []KeptInv
        BY KeptInit, KeptNext, PTL DEF Spec
  <1>2. Init => LastHalfKept
        BY DEF Init, LastHalfKept, MinLeft
  <1>3. Spec => []LastHalfKept
        BY <1>1, <1>2, LastHalfNext, PTL DEF Spec
  <1>4. Spec => []CleanInv
        BY <1>1, CleanInit, CleanNext, PTL DEF Spec
  <1>5. KeptInv /\ LastHalfKept /\ CleanInv => BufferInv
        BY CleanIsExact DEF KeptInv, BufferInv
  <1> QED BY <1>1, <1>3, <1>4, <1>5, PTL

(* Whatever went wrong before, a segment that starts with a message gives  *)
(* its whole messages and nothing else.                                    *)
THEOREM Resynchronises == Spec => []SegmentDelivered
  <1>1. Spec => []KeptInv
        BY KeptInit, KeptNext, PTL DEF Spec
  <1>2. Init => AlignedInv
        BY DEF Init, AlignedInv, MinLeft
  <1>3. Spec => []AlignedInv
        BY <1>1, <1>2, AlignedNext, PTL DEF Spec
  <1> QED BY <1>1, <1>3, AlignedDelivers, PTL

(* For every stream of messages and every way of cutting it cleanly,       *)
(* OnData_lv2 is given that stream.                                        *)
THEOREM StreamIsExact == Spec => []ExactStream
  <1>1. Spec => []KeptInv
        BY KeptInit, KeptNext, PTL DEF Spec
  <1>2. Spec => []CleanInv
        BY <1>1, CleanInit, CleanNext, PTL DEF Spec
  <1> QED BY <1>1, <1>2, CleanIsExact, PTL

---------------------------------------------------------------------------
(* Why the loop ends.                                                      *)

\* The loop is left, or has no half and less to read, or as much but had one.
Nearer ==
  \/ pc' # "loop"
  \/ half' = 0 /\ (Left' < Left \/ (Left' = Left /\ half > 0))

(* Every turn of the loop of Lv2Handler reads on or leaves it, but for the *)
(* one that discards a half; that comes at most once, since no turn that   *)
(* stays in the loop keeps a half.  So a segment takes at most a turn for  *)
(* each of its bytes and two more, whatever is in it and whatever was lost.*)
THEOREM LoopAdvances == Spec => [][pc = "loop" => Nearer]_vars
  <1>1. KeptInv /\ [Next]_vars => [pc = "loop" => Nearer]_vars
    <2> SUFFICES ASSUME KeptInv, Next, pc = "loop", pc' = "loop", vars' # vars
                 PROVE  Nearer
        BY DEF Nearer
    <2>1. /\ Left \in Int /\ Left = seg.b - at /\ seg.a \in Int /\ seg.b \in Int /\ at \in Int
          /\ half \in Nat /\ miss \in Nat
          BY Numbers DEF KeptInv
    <2>2. DeliverWhole \/ DiscardHalf \/ CompleteHalf
          BY DEF Next, Segment, Duplicate, Lose, EndOfSegment, StashHalf, GiveUp, Overrun, Over
    <2>3. CASE DeliverWhole
      <3>1. PICK h \in GetCurReadMsgLength(at, Left) : h > 0 /\ at' = at + h
            BY <2>3 DEF DeliverWhole
      <3>2. h \in Nat
            BY <2>1, <3>1, AnnouncedLength
      <3>3. Left' = seg.b - at' /\ half' = 0
            BY <2>3 DEF DeliverWhole, Left
      <3> QED BY <2>1, <3>1, <3>2, <3>3 DEF Nearer
    <2>4. CASE DiscardHalf
          BY <2>4 DEF DiscardHalf, Nearer, Left
    <2>5. CASE CompleteHalf
      <3>1. miss > 0
            BY <2>1, <2>5 DEF CompleteHalf, KeptInv, HalfInv
      <3>2. Left' = seg.b - at' /\ at' = at + miss /\ half' = 0
            BY <2>5 DEF CompleteHalf, Left
      <3> QED BY <2>1, <3>1, <3>2 DEF Nearer
    <2> QED BY <2>2, <2>3, <2>4, <2>5
  <1>2. Spec => []KeptInv
        BY KeptInit, KeptNext, PTL DEF Spec
  <1> QED BY <1>1, <1>2, PTL DEF Spec
=============================================================================

-------------------------- MODULE Lv1StreamProofs --------------------------
(***************************************************************************)
(* Proofs about Lv1Stream, for every layout of the messages that           *)
(* LayoutAssumption admits, any streams, packet sizes and bounds.          *)
(*                                                                         *)
(* Everything rests on where the bytes are.  Message k of a stream lies    *)
(* behind the Off(stream)[k] bytes before it (Layout), packet and rest are *)
(* pieces of the stream (Place), and what the loop stands on starts with   *)
(* the first byte of a message.  So a mark or a head is recognised exactly *)
(* in front of the message it belongs to, and the length that the code     *)
(* steps over is that of the message.  On top of this stand four           *)
(* invariants, one for each property:                                      *)
(*                                                                         *)
(*   HalfShort   the buffer holds less than one message, so that           *)
(*               appending to it stays within its size (StreamInv);        *)
(*   Contiguous  as long as nothing was missed or doubled, the buffer and  *)
(*               the rest of the packet are joined in the stream           *)
(*               (NothingForeign);                                         *)
(*   PacketDone  a packet that starts with a message has had handled what  *)
(*               it was read up to, and no other (PacketHandled);          *)
(*   CleanRun    with clean cuts the list is that of the connection up to  *)
(*               the message in the buffer (ExactStream).                  *)
(*                                                                         *)
(* Of the handler's return the part that needs no fairness is proved at    *)
(* the end (HandlerAdvances); that it does return is left to TLC.          *)
(***************************************************************************)
EXTENDS Lv1Stream, WellFoundedInduction, SequenceTheorems, TLAPS

---------------------------------------------------------------------------
(* Where the messages of a stream lie: behind one another, each behind the *)
(* sum of the lengths before it.                                           *)

(* A set of numbers that is not empty has a least one.                     *)
LEMMA Least ==
  ASSUME NEW T, T \subseteq Nat, T # {}
  PROVE  \E m \in T : \A k \in T : m <= k
  <1>1. PICK m \in T : \A k \in T : ~ (<<k, m>> \in OpToRel(<, Nat))
        BY WFMin, NatLessThanWellFounded, Zenon
  <1>2. \A k \in T : <<k, m>> \in OpToRel(<, Nat) <=> k < m
        BY DEF OpToRel
  <1>3. \A k \in T : ~(k < m)
        BY <1>1, <1>2, Zenon
  <1>4. \A k \in T : m <= k
        BY <1>3
  <1> QED BY <1>4

(* Induction: a set with 0 and all successors has all numbers.             *)
LEMMA Induction ==
  ASSUME NEW T, 0 \in T, \A n \in Nat : n \in T => n + 1 \in T
  PROVE  Nat \subseteq T
  <1> SUFFICES ASSUME Nat \ T # {} PROVE FALSE
      OBVIOUS
  <1>1. PICK m \in Nat \ T : \A k \in Nat \ T : m <= k
        BY Least, Nat \ T \subseteq Nat, Zenon
  <1>2. m # 0 /\ m - 1 \in Nat
        BY <1>1
  <1>3. m - 1 \in T
        BY <1>1, <1>2
  <1>4. (m - 1) + 1 \in T
        BY <1>2, <1>3
  <1> QED BY <1>1, <1>4

(* The lengths.                                                            *)
LEMMA Sizing ==
  /\ MarkLen \in Nat /\ HeadLen \in Nat /\ Peek \in Nat /\ Cap \in Nat
  /\ 0 < MarkLen /\ MarkLen < HeadLen /\ HeadLen < Peek
  /\ \A k \in Kinds : LenOf[k] \in Nat /\ HeadLen <= LenOf[k] /\ LenOf[k] <= Cap
  /\ \A k \in Kinds \ {"index"} : HeadLen < LenOf[k]
  /\ LenOf["index"] = HeadLen
  <1> USE LayoutAssumption
  <1>1. /\ MarkLen \in Nat /\ HeadLen \in Nat /\ Peek \in Nat /\ Cap \in Nat
        /\ 0 < MarkLen /\ MarkLen < HeadLen /\ HeadLen < Peek /\ Peek < LenOf["mapping"]
        /\ LenOf["index"] = HeadLen
        OBVIOUS
  <1>2. \A k \in Kinds : LenOf[k] \in 0 .. Cap
        OBVIOUS
  <1>3. \A k \in Kinds \ {"index", "mapping"} : HeadLen < LenOf[k]
        OBVIOUS
  <1>4. "mapping" \in Kinds /\ "index" \in Kinds
        BY DEF Kinds
  <1>5. \A k \in Kinds \ {"index"} : HeadLen < LenOf[k]
    <2> TAKE k \in Kinds \ {"index"}
    <2>1. CASE k = "mapping"
          BY <1>1, <1>2, <1>4, <2>1
    <2> QED BY <1>3, <2>1
  <1>6. \A k \in Kinds : LenOf[k] \in Nat /\ HeadLen <= LenOf[k] /\ LenOf[k] <= Cap
    <2> TAKE k \in Kinds
    <2>1. LenOf[k] \in Nat /\ LenOf[k] <= Cap
          BY <1>1, <1>2
    <2>2. HeadLen <= LenOf[k]
          BY <1>1, <1>5, <2>1
    <2> QED BY <2>1, <2>2
  <1> QED BY <1>1, <1>5, <1>6

(* b is the messages of s one behind the other, message k behind off[k].   *)
Laid(s, b, off) ==
  /\ b \in Seq(Nat \X Nat)
  /\ off \in [1 .. Len(s) + 1 -> Nat] /\ off[1] = 0 /\ off[Len(s) + 1] = Len(b)
  /\ \A k \in 1 .. Len(s) : off[k + 1] = off[k] + LenOf[s[k]]
  /\ \A i \in 1 .. Len(b) :
        /\ b[i][1] \in 1 .. Len(s) /\ b[i][2] \in 1 .. LenOf[s[b[i][1]]]
        /\ i = off[b[i][1]] + b[i][2]
  /\ \A k \in 1 .. Len(s) : \A o \in 1 .. LenOf[s[k]] : b[off[k] + o] = <<k, o>>

(* Bytes are defined: the concatenation exists up to each message.         *)
LEMMA FlattenExists ==
  ASSUME NEW P, NEW N \in Nat, \A k \in 1 .. N : P[k] \in Seq(Nat \X Nat)
  PROVE  \E f \in [1 .. N -> Seq(Nat \X Nat)] :
            \A k \in 1 .. N : f[k] = IF k = 1 THEN P[k] ELSE f[k - 1] \o P[k]
  <1> DEFINE F(n, f) == \A k \in 1 .. n : f[k] = IF k = 1 THEN P[k] ELSE f[k - 1] \o P[k]
             T == {n \in Nat : n <= N => \E f \in [1 .. n -> Seq(Nat \X Nat)] : F(n, f)}
  <1>1. 0 \in T
    <2>1. [k \in 1 .. 0 |-> <<>>] \in [1 .. 0 -> Seq(Nat \X Nat)]
          OBVIOUS
    <2>2. F(0, [k \in 1 .. 0 |-> <<>>])
          OBVIOUS
    <2> HIDE DEF F
    <2> QED BY <2>1, <2>2
  <1>2. ASSUME NEW n \in Nat, n \in T PROVE n + 1 \in T
    <2> SUFFICES ASSUME n + 1 <= N PROVE \E f \in [1 .. n + 1 -> Seq(Nat \X Nat)] : F(n + 1, f)
      <3> HIDE DEF F
      <3> QED OBVIOUS
    <2>1. PICK g \in [1 .. n -> Seq(Nat \X Nat)] : F(n, g)
          BY <1>2
    <2> DEFINE new == IF n = 0 THEN P[1] ELSE g[n] \o P[n + 1]
               h == [k \in 1 .. n + 1 |-> IF k = n + 1 THEN new ELSE g[k]]
    <2>2. new \in Seq(Nat \X Nat)
      <3>1. CASE n = 0
            BY <3>1
      <3>2. CASE n # 0
        <4>1. n \in 1 .. n /\ n + 1 \in 1 .. N
              BY <3>2
        <4>2. g[n] \in Seq(Nat \X Nat) /\ P[n + 1] \in Seq(Nat \X Nat)
              BY <4>1
        <4> QED BY <3>2, <4>2
      <3> QED BY <3>1, <3>2
    <2> HIDE DEF new
    <2>3. h \in [1 .. n + 1 -> Seq(Nat \X Nat)]
          BY <2>2
    <2>4. h[n + 1] = new /\ \A k \in 1 .. n : h[k] = g[k]
          OBVIOUS
    <2> HIDE DEF h
    <2>5. \A k \in 1 .. n + 1 : h[k] = IF k = 1 THEN P[k] ELSE h[k - 1] \o P[k]
      <3> TAKE k \in 1 .. n + 1
      <3>1. CASE k = n + 1 /\ n = 0
            BY <2>4, <3>1 DEF new
      <3>2. CASE k = n + 1 /\ n # 0
        <4>1. n \in 1 .. n /\ (n + 1) - 1 = n /\ k # 1
              BY <3>2
        <4> QED BY <2>4, <3>2, <4>1 DEF new
      <3>3. CASE k # n + 1
        <4>1. k \in 1 .. n /\ (k # 1 => k - 1 \in 1 .. n)
              BY <3>3
        <4> QED BY <2>1, <2>4, <4>1
      <3> QED BY <3>1, <3>2, <3>3
    <2>6. F(n + 1, h)
          BY <2>5, Zenon
    <2> HIDE DEF F
    <2> QED BY <2>3, <2>6, Zenon
  <1> HIDE DEF T
  <1>3. N \in T
        BY <1>1, <1>2, Induction
  <1> QED BY <1>3 DEF T

(* FlattenSeq is that concatenation.                                       *)
LEMMA FlattenDef ==
  ASSUME NEW P, NEW N \in Nat \ {0}, DOMAIN P = 1 .. N, Len(P) = N,
         \A k \in 1 .. N : P[k] \in Seq(Nat \X Nat)
  PROVE  \E f \in [1 .. N -> Seq(Nat \X Nat)] :
            /\ \A k \in 1 .. N : f[k] = IF k = 1 THEN P[k] ELSE f[k - 1] \o P[k]
            /\ FlattenSeq(P) = f[N]
  <1> DEFINE Unfolds(g) == g = [i \in 1 .. N |-> IF i = 1 THEN P[i] ELSE g[i - 1] \o P[i]]
             c == CHOOSE g : Unfolds(g)
  <1>1. PICK f \in [1 .. N -> Seq(Nat \X Nat)] :
            \A k \in 1 .. N : f[k] = IF k = 1 THEN P[k] ELSE f[k - 1] \o P[k]
        BY FlattenExists
  <1>2. Unfolds(f)
        BY <1>1
  <1>3. Unfolds(c)
    <2> HIDE DEF Unfolds
    <2> QED BY <1>2, Zenon
  <1>4. FlattenSeq(P) = c[N]
        BY Zenon DEF FlattenSeq
  <1>5. DOMAIN c = 1 .. N /\ \A k \in 1 .. N : c[k] = IF k = 1 THEN P[k] ELSE c[k - 1] \o P[k]
        BY <1>3
  <1> HIDE DEF c, Unfolds
  <1>6. \A n \in Nat : n + 1 <= N => c[n + 1] = f[n + 1]
    <2> DEFINE T == {n \in Nat : n + 1 <= N => c[n + 1] = f[n + 1]}
    <2>1. 0 \in T
      <3>1. 1 \in 1 .. N
            OBVIOUS
      <3> QED BY <1>1, <1>5, <3>1
    <2>2. ASSUME NEW n \in Nat, n \in T PROVE n + 1 \in T
      <3> SUFFICES ASSUME (n + 1) + 1 <= N PROVE c[(n + 1) + 1] = f[(n + 1) + 1]
          OBVIOUS
      <3>1. (n + 1) + 1 \in 1 .. N /\ (n + 1) + 1 # 1 /\ ((n + 1) + 1) - 1 = n + 1 /\ n + 1 <= N
            OBVIOUS
      <3>2. c[n + 1] = f[n + 1]
            BY <2>2, <3>1
      <3> DEFINE m == (n + 1) + 1
      <3>3. m \in 1 .. N /\ m # 1 /\ c[m - 1] = f[m - 1]
            BY <3>1, <3>2
      <3> HIDE DEF m
      <3>4. c[m] = f[m]
            BY <1>1, <1>5, <3>3, Zenon
      <3> QED BY <3>4 DEF m
    <2> HIDE DEF T
    <2>3. Nat \subseteq T
          BY <2>1, <2>2, Induction
    <2> QED BY <2>3 DEF T
  <1>7. \E n \in Nat : n + 1 = N /\ n + 1 <= N
    <2>1. N - 1 \in Nat /\ (N - 1) + 1 = N /\ (N - 1) + 1 <= N
          OBVIOUS
    <2> QED BY <2>1, Zenon
  <1>8. PICK n \in Nat : n + 1 = N /\ n + 1 <= N
        BY <1>7, Zenon
  <1>9. c[N] = f[N]
    <2>1. c[n + 1] = f[n + 1]
          BY <1>6, <1>8, Zenon
    <2> QED BY <1>8, <2>1, Zenon
  <1> QED BY <1>1, <1>4, <1>9

\* The bytes of the k-th message.
Piece(s, k) == [o \in 1 .. LenOf[s[k]] |-> <<k, o>>]

(* A message as bytes.                                                     *)
LEMMA Pieces ==
  ASSUME NEW s \in Seq(Kinds), NEW k \in 1 .. Len(s)
  PROVE  /\ s[k] \in Kinds /\ LenOf[s[k]] \in Nat
         /\ Piece(s, k) \in Seq(Nat \X Nat) /\ Len(Piece(s, k)) = LenOf[s[k]]
         /\ \A o \in 1 .. LenOf[s[k]] : Piece(s, k)[o] = <<k, o>>
  <1>1. s[k] \in Kinds
        OBVIOUS
  <1>2. LenOf[s[k]] \in Nat
        BY <1>1, Sizing
  <1> DEFINE L == LenOf[s[k]]
  <1> HIDE DEF L
  <1>3. L \in Nat
        BY <1>2 DEF L
  <1>4. [o \in 1 .. L |-> <<k, o>>] \in Seq(Nat \X Nat) /\ Len([o \in 1 .. L |-> <<k, o>>]) = L
        BY <1>3
  <1> QED BY <1>1, <1>3, <1>4 DEF L, Piece

\* b is the first n messages.
LaidTo(s, n, b, off) ==
  /\ b \in Seq(Nat \X Nat)
  /\ \A i \in 1 .. Len(b) :
        /\ b[i][1] \in 1 .. n /\ b[i][2] \in 1 .. LenOf[s[b[i][1]]]
        /\ i = off[b[i][1]] + b[i][2]
  /\ \A k \in 1 .. n : \A o \in 1 .. LenOf[s[k]] : off[k] + o <= Len(b) /\ b[off[k] + o] = <<k, o>>

(* Layout of n messages, and of one more behind them.                      *)
LEMMA LaidOn ==
  ASSUME NEW s \in Seq(Kinds), NEW n \in Nat, n + 1 <= Len(s), NEW b, NEW off, LaidTo(s, n, b, off),
         \A k \in 1 .. n + 1 : off[k] \in Nat, off[n + 1] = Len(b)
  PROVE  LaidTo(s, n + 1, b \o Piece(s, n + 1), off)
  <1> DEFINE m == n + 1
             p == Piece(s, m)
             c == b \o p
  <1>1. m \in 1 .. Len(s) /\ m \in Nat
        OBVIOUS
  <1>2. s[m] \in Kinds /\ LenOf[s[m]] \in Nat /\ p \in Seq(Nat \X Nat) /\ Len(p) = LenOf[s[m]]
        /\ \A o \in 1 .. LenOf[s[m]] : p[o] = <<m, o>>
    <2> HIDE DEF m
    <2> QED BY <1>1, Pieces
  <1>3. b \in Seq(Nat \X Nat)
        BY DEF LaidTo
  <1> HIDE DEF p
  <1>4. c \in Seq(Nat \X Nat) /\ Len(c) = Len(b) + Len(p)
        BY <1>2, <1>3, ConcatProperties, Zenon
  <1>5. /\ \A i \in 1 .. Len(b) : c[i] = b[i]
        /\ \A o \in 1 .. Len(p) : c[Len(b) + o] = p[o]
        BY <1>2, <1>3
  <1>8. Len(b) \in Nat /\ Len(p) \in Nat
        BY <1>2, <1>3
  <1> HIDE DEF c
  <1>6. \A i \in 1 .. Len(c) : /\ c[i][1] \in 1 .. m /\ c[i][2] \in 1 .. LenOf[s[c[i][1]]]
                               /\ i = off[c[i][1]] + c[i][2]
    <2> TAKE i \in 1 .. Len(c)
    <2>1. CASE i <= Len(b)
      <3>1. i \in 1 .. Len(b)
            BY <1>3, <2>1
      <3>2. c[i] = b[i] /\ b[i][1] \in 1 .. n /\ b[i][2] \in 1 .. LenOf[s[b[i][1]]] /\ i = off[b[i][1]] + b[i][2]
            BY <1>5, <3>1 DEF LaidTo
      <3>3. b[i][1] \in 1 .. m
            BY <3>2
      <3> QED BY <3>2, <3>3, Zenon
    <2>2. CASE i > Len(b)
      <3>1. i - Len(b) \in 1 .. Len(p) /\ Len(b) + (i - Len(b)) = i
        <4>1. Len(c) = Len(b) + Len(p)
              BY <1>4
        <4> QED BY <1>8, <2>2, <4>1
      <3>2. PICK o \in 1 .. Len(p) : Len(b) + o = i
            BY <3>1
      <3>3. c[i] = <<m, o>>
            BY <1>2, <1>5, <3>2
      <3>4. c[i][1] = m /\ c[i][2] = o
            BY <3>3
      <3>5. m \in 1 .. m
            BY <1>1
      <3> QED BY <1>2, <3>2, <3>4, <3>5
    <2> QED BY <1>3, <2>1, <2>2
  <1>7. \A k \in 1 .. m : \A o \in 1 .. LenOf[s[k]] : off[k] + o <= Len(c) /\ c[off[k] + o] = <<k, o>>
    <2> TAKE k \in 1 .. m
    <2> TAKE o \in 1 .. LenOf[s[k]]
    <2>1. CASE k = m
      <3>1. o \in 1 .. Len(p) /\ off[k] = Len(b)
            BY <1>2, <2>1
      <3>2. c[Len(b) + o] = p[o] /\ p[o] = <<m, o>>
            BY <1>2, <1>5, <3>1
      <3>3. Len(b) + o <= Len(c)
            BY <1>2, <1>3, <1>4, <3>1
      <3> QED BY <2>1, <3>1, <3>2, <3>3
    <2>2. CASE k # m
      <3>1. k \in 1 .. n /\ k \in 1 .. Len(s)
            BY <2>2
      <3>2. off[k] + o <= Len(b) /\ b[off[k] + o] = <<k, o>> /\ off[k] \in Nat /\ LenOf[s[k]] \in Nat
            BY <3>1, Pieces DEF LaidTo
      <3>3. off[k] + o \in 1 .. Len(b)
        <4>1. LenOf[s[k]] \in Nat /\ off[k] \in Nat /\ off[k] + o <= Len(b)
              BY <3>2
        <4>2. o \in Nat /\ o >= 1
              BY <4>1
        <4>3. Len(b) \in Nat
              BY <1>3
        <4> QED BY <4>1, <4>2, <4>3
      <3>4. off[k] + o <= Len(c)
        <4>1. Len(c) = Len(b) + Len(p)
              BY <1>4
        <4>2. off[k] + o \in Nat /\ off[k] + o <= Len(b)
              BY <3>2
        <4> QED BY <1>8, <4>1, <4>2
      <3>5. c[off[k] + o] = b[off[k] + o]
            BY <1>5, <3>3
      <3> QED BY <3>2, <3>4, <3>5
    <2> QED BY <2>1, <2>2
  <1> QED BY <1>4, <1>6, <1>7 DEF LaidTo, c, p

(* Where each message of a stream lies.                                    *)
LEMMA Layout ==
  ASSUME NEW s \in Streams
  PROVE  \E off : Laid(s, Bytes[s], off)
  <1>1. s \in Seq(Kinds)
        BY EnvAssumption
  <1> DEFINE N == Len(s)
             P == [k \in DOMAIN s |-> [o \in 1 .. LenOf[s[k]] |-> <<k, o>>]]
  <1>2. N \in Nat /\ DOMAIN s = 1 .. N
        BY <1>1
  <1>3. Bytes[s] = FlattenSeq(P)
        BY DEF Bytes
  <1>4. DOMAIN P = 1 .. N /\ Len(P) = N /\ \A k \in 1 .. N : P[k] = Piece(s, k)
        BY <1>2 DEF Piece
  <1> HIDE DEF P
  <1>5. \A k \in 1 .. N : P[k] \in Seq(Nat \X Nat)
        BY <1>1, <1>4, Pieces
  <1>6. CASE N = 0
    <2>1. FlattenSeq(P) = P
          BY <1>4, <1>6 DEF FlattenSeq
    <2>2. P \in Seq(Nat \X Nat) /\ Len(P) = 0
          BY <1>4, <1>5, <1>6
    <2> DEFINE off == [k \in 1 .. N + 1 |-> 0]
    <2>3. off \in [1 .. Len(s) + 1 -> Nat] /\ off[1] = 0 /\ off[Len(s) + 1] = Len(P)
          BY <1>6, <2>2
    <2>4. Laid(s, P, off)
      <3> HIDE DEF off, N
      <3> QED BY <1>6, <2>2, <2>3 DEF Laid, N
    <2> HIDE DEF off
    <2> QED BY <1>3, <2>1, <2>4, Zenon
  <1>7. CASE N # 0
    <2>1. PICK f \in [1 .. N -> Seq(Nat \X Nat)] :
                 /\ \A k \in 1 .. N : f[k] = IF k = 1 THEN P[k] ELSE f[k - 1] \o P[k]
                 /\ FlattenSeq(P) = f[N]
      <3>1. N \in Nat \ {0}
            BY <1>2, <1>7
      <3> HIDE DEF N
      <3> QED BY <1>4, <1>5, <3>1, FlattenDef
    <2> DEFINE g == [n \in 0 .. N |-> IF n = 0 THEN <<>> ELSE f[n]]
               off == [k \in 1 .. N + 1 |-> Len(g[k - 1])]
    <2> HIDE DEF N, P
    <2>2. g \in [0 .. N -> Seq(Nat \X Nat)] /\ g[0] = <<>> /\ g[N] = Bytes[s]
          BY <1>2, <1>3, <1>7, <2>1
    <2> HIDE DEF g, off
    <2>3. \A n \in 0 .. N - 1 : g[n + 1] = g[n] \o Piece(s, n + 1)
      <3> TAKE n \in 0 .. N - 1
      <3>1. n + 1 \in 1 .. N /\ n \in 0 .. N /\ n + 1 \in 0 .. N /\ n + 1 # 0 /\ (n + 1) - 1 = n
            BY <1>2
      <3>2. g[n + 1] = f[n + 1] /\ P[n + 1] = Piece(s, n + 1) /\ P[n + 1] \in Seq(Nat \X Nat)
            BY <1>4, <1>5, <3>1 DEF g
      <3>3. CASE n = 0
        <4>1. n + 1 = 1
              BY <3>3
        <4>2. f[n + 1] = P[n + 1]
              BY <2>1, <3>1, <4>1, Zenon
        <4>3. g[n] = <<>> /\ g[n + 1] = P[n + 1] /\ P[n + 1] \in Seq(Nat \X Nat)
              BY <2>2, <3>2, <3>3, <4>2, Zenon
        <4>4. <<>> \o P[n + 1] = P[n + 1]
              BY <4>3
        <4> QED BY <3>2, <4>3, <4>4, Zenon
      <3>4. CASE n # 0
        <4>1. n + 1 # 1 /\ g[n] = f[n]
              BY <3>1, <3>4 DEF g
        <4>2. f[n + 1] = f[(n + 1) - 1] \o P[n + 1]
              BY <2>1, <3>1, <4>1, Zenon
        <4> QED BY <3>1, <3>2, <4>1, <4>2, Zenon
      <3> QED BY <3>3, <3>4, Zenon
    <2>4. off \in [1 .. N + 1 -> Nat] /\ \A n \in 0 .. N : off[n + 1] = Len(g[n])
      <3>1. \A k \in 1 .. N + 1 : k - 1 \in 0 .. N
            BY <1>2
      <3>2. \A n \in 0 .. N : n + 1 \in 1 .. N + 1 /\ (n + 1) - 1 = n
            BY <1>2
      <3>3. \A n \in 0 .. N : Len(g[n]) \in Nat
            BY <2>2
      <3> QED BY <3>1, <3>2, <3>3 DEF off
    <2>5. \A n \in Nat : n <= N => LaidTo(s, n, g[n], off)
      <3> DEFINE T == {n \in Nat : n <= N => LaidTo(s, n, g[n], off)}
      <3>1. 0 \in T
            BY <2>2 DEF LaidTo
      <3>2. ASSUME NEW n \in Nat, n \in T PROVE n + 1 \in T
        <4> SUFFICES ASSUME n + 1 <= N PROVE LaidTo(s, n + 1, g[n + 1], off)
            OBVIOUS
        <4>1. n \in 0 .. N - 1 /\ n <= N /\ n \in 0 .. N
              BY <1>2
        <4>2. LaidTo(s, n, g[n], off)
              BY <3>2, <4>1
        <4>3. off[n + 1] = Len(g[n]) /\ \A k \in 1 .. n + 1 : off[k] \in Nat
              BY <1>2, <2>4, <4>1
        <4>4. LaidTo(s, n + 1, g[n] \o Piece(s, n + 1), off)
              BY <1>1, <4>2, <4>3, LaidOn DEF N
        <4> QED BY <2>3, <4>1, <4>4
      <3> HIDE DEF T
      <3>3. Nat \subseteq T
            BY <3>1, <3>2, Induction
      <3> QED BY <3>3 DEF T
    <2>6. LaidTo(s, N, Bytes[s], off)
          BY <1>2, <2>2, <2>5
    <2>7. off[1] = 0 /\ off[N + 1] = Len(Bytes[s])
      <3>1. 0 \in 0 .. N /\ N \in 0 .. N /\ 0 + 1 = 1
            BY <1>2
      <3>2. off[0 + 1] = Len(g[0]) /\ off[N + 1] = Len(g[N])
            BY <2>4, <3>1, Zenon
      <3> QED BY <2>2, <3>1, <3>2
    <2>8. \A k \in 1 .. N : off[k + 1] = off[k] + LenOf[s[k]]
      <3> TAKE k \in 1 .. N
      <3>1. PICK n \in 0 .. N - 1 : k = n + 1
        <4>1. k - 1 \in 0 .. N - 1 /\ k = (k - 1) + 1
              BY <1>2
        <4> QED BY <4>1
      <3>2. n \in 0 .. N /\ k \in 0 .. N
            BY <1>2
      <3>3. off[k + 1] = Len(g[k]) /\ off[k] = Len(g[n]) /\ g[k] = g[n] \o Piece(s, k)
            BY <2>3, <2>4, <3>1, <3>2
      <3>4. Piece(s, k) \in Seq(Nat \X Nat) /\ Len(Piece(s, k)) = LenOf[s[k]]
            BY <1>1, Pieces DEF N
      <3>5. g[n] \in Seq(Nat \X Nat)
            BY <2>2, <3>2
      <3>6. Len(g[n] \o Piece(s, k)) = Len(g[n]) + Len(Piece(s, k))
            BY <3>4, <3>5, ConcatProperties, Zenon
      <3> QED BY <3>3, <3>4, <3>6, Zenon
    <2>9. Laid(s, Bytes[s], off)
          BY <2>4, <2>6, <2>7, <2>8 DEF Laid, LaidTo, N
    <2> QED BY <2>9, Zenon
  <1> QED BY <1>6, <1>7

Off(s) == CHOOSE off : Laid(s, Bytes[s], off)

(* Later messages lie further behind.                                      *)
LEMMA Offsets ==
  ASSUME NEW s \in Streams
  PROVE  /\ Laid(s, Bytes[s], Off(s))
         /\ \A j, k \in 1 .. Len(s) + 1 : j <= k => Off(s)[j] <= Off(s)[k]
  <1>1. Laid(s, Bytes[s], Off(s))
        BY Layout, Zenon DEF Off
  <1> DEFINE f == Off(s)
             N == Len(s)
  <1> HIDE DEF f
  <1>2. s \in Seq(Kinds) /\ N \in Nat
        BY EnvAssumption
  <1>3. f \in [1 .. N + 1 -> Nat] /\ \A k \in 1 .. N : f[k + 1] = f[k] + LenOf[s[k]]
        BY <1>1 DEF Laid, f
  <1>4. \A k \in 1 .. N : LenOf[s[k]] \in Nat
        BY <1>2, Pieces
  <1> HIDE DEF N
  <1>5. \A j \in 1 .. N + 1 : \A n \in Nat : j + n <= N + 1 => f[j] <= f[j + n]
    <2> TAKE j \in 1 .. N + 1
    <2> DEFINE T == {n \in Nat : j + n <= N + 1 => f[j] <= f[j + n]}
    <2>1. 0 \in T
      <3>1. j + 0 = j /\ f[j] \in Nat
            BY <1>2, <1>3
      <3> QED BY <3>1
    <2>2. ASSUME NEW n \in Nat, n \in T PROVE n + 1 \in T
      <3> SUFFICES ASSUME j + (n + 1) <= N + 1 PROVE f[j] <= f[j + (n + 1)]
          OBVIOUS
      <3>1. j + n \in 1 .. N /\ j + n <= N + 1 /\ j + (n + 1) = (j + n) + 1 /\ j + n \in 1 .. N + 1
            BY <1>2
      <3>2. f[j] <= f[j + n]
            BY <2>2, <3>1
      <3>3. f[(j + n) + 1] = f[j + n] + LenOf[s[j + n]] /\ LenOf[s[j + n]] \in Nat
            BY <1>3, <1>4, <3>1
      <3>4. f[j] \in Nat /\ f[j + n] \in Nat
            BY <1>3, <3>1
      <3>5. f[j] <= f[(j + n) + 1]
            BY <3>2, <3>3, <3>4
      <3> QED BY <3>1, <3>5
    <2> HIDE DEF T
    <2>3. Nat \subseteq T
          BY <2>1, <2>2, Induction
    <2> QED BY <2>3 DEF T
  <1>6. ASSUME NEW j \in 1 .. N + 1, NEW k \in 1 .. N + 1, j <= k PROVE f[j] <= f[k]
    <2>1. k - j \in Nat /\ j + (k - j) = k /\ j + (k - j) <= N + 1
          BY <1>2, <1>6
    <2>2. PICK n \in Nat : j + n = k /\ j + n <= N + 1
          BY <2>1
    <2> QED BY <1>5, <2>2
  <1> QED BY <1>1, <1>6 DEF f, N

---------------------------------------------------------------------------
(* Bytes that lie one behind the other in the stream, and parts of them.   *)

\* A byte of the stream; bytes that come one behind the other in it, from P on.
Byte(s) == {b \in (1 .. Len(s)) \X (1 .. Cap) : b[2] <= LenOf[s[b[1]]]}

Run(s, x, P) ==
  /\ x \in Seq(Byte(s)) /\ P \in Nat /\ P + Len(x) <= Len(Bytes[s])
  /\ \A i \in 1 .. Len(x) : x[i] = Bytes[s][P + i]

(* A sequence is a sequence over any set of what it consists of.           *)
LEMMA Retyped ==
  ASSUME NEW S, NEW T, NEW b \in Seq(S), \A i \in 1 .. Len(b) : b[i] \in T
  PROVE  b \in Seq(T)
  OBVIOUS

(* A stream: its kinds, and the bytes of each of its messages.             *)
LEMMA Stream ==
  ASSUME NEW s \in Streams
  PROVE  /\ s \in Seq(Kinds) /\ Len(s) \in Nat
         /\ Bytes[s] \in Seq(Byte(s)) /\ Len(Bytes[s]) \in Nat
         /\ \A k \in 1 .. Len(s) : /\ s[k] \in Kinds /\ LenOf[s[k]] \in Nat /\ HeadLen <= LenOf[s[k]]
                                   /\ LenOf[s[k]] <= Cap
                                   /\ k \in Nat /\ Off(s)[k] \in Nat /\ Off(s)[k + 1] \in Nat
                                   /\ Off(s)[k + 1] = Off(s)[k] + LenOf[s[k]]
                                   /\ Off(s)[k + 1] <= Len(Bytes[s])
  <1>1. s \in Seq(Kinds) /\ Len(s) \in Nat
        BY EnvAssumption
  <1>2. Laid(s, Bytes[s], Off(s)) /\ \A j, k \in 1 .. Len(s) + 1 : j <= k => Off(s)[j] <= Off(s)[k]
        BY Offsets
  <1>3. \A k \in 1 .. Len(s) : s[k] \in Kinds /\ LenOf[s[k]] \in Nat /\ HeadLen <= LenOf[s[k]] /\ LenOf[s[k]] <= Cap
    <2> TAKE k \in 1 .. Len(s)
    <2>1. s[k] \in Kinds
          BY <1>1
    <2> QED BY <2>1, Sizing
  <1>4. Bytes[s] \in Seq(Nat \X Nat)
        BY <1>2 DEF Laid
  <1>5. Bytes[s] \in Seq(Byte(s)) /\ Len(Bytes[s]) \in Nat
    <2> DEFINE b == Bytes[s]
    <2>1. b \in Seq(Nat \X Nat)
          BY <1>4
    <2>2. \A i \in 1 .. Len(b) : b[i] \in Nat \X Nat /\ b[i][1] \in 1 .. Len(s) /\ b[i][2] \in 1 .. LenOf[s[b[i][1]]]
          BY <1>2, <1>4 DEF Laid
    <2> HIDE DEF b
    <2>3. \A i \in 1 .. Len(b) : b[i] \in Byte(s)
      <3> TAKE i \in 1 .. Len(b)
      <3>1. b[i] \in Nat \X Nat /\ b[i][1] \in 1 .. Len(s) /\ b[i][2] \in 1 .. LenOf[s[b[i][1]]]
            BY <2>2
      <3>2. LenOf[s[b[i][1]]] \in Nat /\ LenOf[s[b[i][1]]] <= Cap
            BY <1>3, <3>1
      <3>3. b[i][2] \in 1 .. Cap /\ b[i][2] <= LenOf[s[b[i][1]]]
            BY <3>1, <3>2, Sizing
      <3> QED BY <3>1, <3>3 DEF Byte
    <2>4. b \in Seq(Byte(s)) /\ Len(b) \in Nat
          BY <2>1, <2>3, Retyped, LenProperties
    <2> QED BY <2>4 DEF b
  <1>6. \A k \in 1 .. Len(s) : /\ k \in Nat /\ Off(s)[k] \in Nat /\ Off(s)[k + 1] \in Nat
                               /\ Off(s)[k + 1] = Off(s)[k] + LenOf[s[k]]
                               /\ Off(s)[k + 1] <= Len(Bytes[s])
    <2> TAKE k \in 1 .. Len(s)
    <2>1. k \in 1 .. Len(s) + 1 /\ k + 1 \in 1 .. Len(s) + 1 /\ Len(s) + 1 \in 1 .. Len(s) + 1 /\ k + 1 <= Len(s) + 1
          BY <1>1
    <2>2. Off(s) \in [1 .. Len(s) + 1 -> Nat] /\ Off(s)[Len(s) + 1] = Len(Bytes[s])
          /\ Off(s)[k + 1] = Off(s)[k] + LenOf[s[k]]
          BY <1>2 DEF Laid
    <2>3. Off(s)[k + 1] <= Off(s)[Len(s) + 1]
          BY <1>2, <2>1
    <2> QED BY <2>1, <2>2, <2>3
  <1> QED BY <1>1, <1>3, <1>5, <1>6

(* The bytes behind the first d.                                           *)
LEMMA Dropped ==
  ASSUME NEW S, NEW x \in Seq(S), NEW d \in Nat
  PROVE  /\ Drop(x, d) \in Seq(S)
         /\ d <= Len(x) => Len(Drop(x, d)) = Len(x) - d
         /\ d >= Len(x) => Drop(x, d) = <<>> /\ Len(Drop(x, d)) = 0
         /\ \A i \in 1 .. Len(Drop(x, d)) : i + d \in 1 .. Len(x) /\ Drop(x, d)[i] = x[i + d]
  <1>1. Len(x) \in Nat /\ \A i \in 1 .. Len(x) : x[i] \in S
        BY ElementOfSeq, LenProperties
  <1>2. \A i \in d + 1 .. Len(x) : x[i] \in S
        BY <1>1
  <1>3. /\ SubSeq(x, d + 1, Len(x)) \in Seq(S)
        /\ Len(SubSeq(x, d + 1, Len(x))) = IF d + 1 <= Len(x) THEN Len(x) - (d + 1) + 1 ELSE 0
        /\ \A i \in 1 .. Len(x) - (d + 1) + 1 : SubSeq(x, d + 1, Len(x))[i] = x[d + 1 + i - 1]
    <2>1. d + 1 \in Int /\ Len(x) \in Int
          BY <1>1
    <2> QED BY <1>2, <2>1, SubSeqProperties
  <1> DEFINE y == Drop(x, d)
  <1>4. y \in Seq(S) /\ Len(y) = (IF d + 1 <= Len(x) THEN Len(x) - (d + 1) + 1 ELSE 0)
        /\ \A i \in 1 .. Len(x) - (d + 1) + 1 : y[i] = x[d + 1 + i - 1]
        BY <1>3 DEF Drop
  <1> HIDE DEF y
  <1>5. d <= Len(x) => Len(y) = Len(x) - d
        BY <1>1, <1>4
  <1>6. d >= Len(x) => Len(y) = 0 /\ y = <<>>
        BY <1>1, <1>4
  <1>7. \A i \in 1 .. Len(y) : i + d \in 1 .. Len(x) /\ y[i] = x[i + d]
    <2> TAKE i \in 1 .. Len(y)
    <2>1. i \in 1 .. Len(x) - (d + 1) + 1 /\ d + 1 + i - 1 = i + d /\ i + d \in 1 .. Len(x)
          BY <1>1, <1>4
    <2>2. y[i] = x[d + 1 + i - 1]
          BY <1>4, <2>1
    <2> QED BY <2>1, <2>2
  <1> QED BY <1>4, <1>5, <1>6, <1>7 DEF y

(* Parts of a run are runs.                                                *)
LEMMA Runs ==
  ASSUME NEW s \in Streams, NEW x, NEW P, Run(s, x, P), NEW d \in Nat, d <= Len(x)
  PROVE  Run(s, Drop(x, d), P + d) /\ Len(Drop(x, d)) = Len(x) - d
  <1> DEFINE y == Drop(x, d)
  <1>1. x \in Seq(Byte(s)) /\ P \in Nat /\ P + Len(x) <= Len(Bytes[s]) /\ Len(x) \in Nat
        /\ \A i \in 1 .. Len(x) : x[i] = Bytes[s][P + i]
        BY DEF Run
  <1>2. y \in Seq(Byte(s)) /\ Len(y) = Len(x) - d /\ \A i \in 1 .. Len(y) : i + d \in 1 .. Len(x) /\ y[i] = x[i + d]
        BY <1>1, Dropped
  <1> HIDE DEF y
  <1>3. P + d \in Nat /\ (P + d) + Len(y) <= Len(Bytes[s])
    <2>1. Len(Bytes[s]) \in Nat
          BY Stream
    <2> QED BY <1>1, <1>2, <2>1
  <1>4. \A i \in 1 .. Len(y) : y[i] = Bytes[s][(P + d) + i]
    <2> TAKE i \in 1 .. Len(y)
    <2>1. y[i] = x[i + d] /\ x[i + d] = Bytes[s][P + (i + d)]
          BY <1>1, <1>2
    <2>2. P + (i + d) = (P + d) + i
          BY <1>1
    <2> QED BY <2>1, <2>2
  <1> QED BY <1>2, <1>3, <1>4 DEF Run, y

(* Where a byte of a run is from.                                          *)
LEMMA At ==
  ASSUME NEW s \in Streams, NEW x, NEW P, Run(s, x, P), NEW i \in 1 .. Len(x)
  PROVE  /\ x[i] \in Byte(s) /\ x[i] = <<x[i][1], x[i][2]>>
         /\ x[i][1] \in 1 .. Len(s) /\ x[i][2] \in 1 .. LenOf[s[x[i][1]]]
         /\ P + i = Off(s)[x[i][1]] + x[i][2]
  <1>1. x \in Seq(Byte(s)) /\ P \in Nat /\ P + Len(x) <= Len(Bytes[s]) /\ Len(x) \in Nat
        /\ x[i] = Bytes[s][P + i]
        BY DEF Run
  <1>2. x[i] \in Byte(s)
        BY <1>1, ElementOfSeq
  <1>3. P + i \in 1 .. Len(Bytes[s])
        BY <1>1, Stream
  <1>4. /\ Bytes[s][P + i][1] \in 1 .. Len(s) /\ Bytes[s][P + i][2] \in 1 .. LenOf[s[Bytes[s][P + i][1]]]
        /\ P + i = Off(s)[Bytes[s][P + i][1]] + Bytes[s][P + i][2]
        BY <1>3, Offsets DEF Laid
  <1>5. x[i] = <<x[i][1], x[i][2]>>
        BY <1>2 DEF Byte
  <1> QED BY <1>1, <1>2, <1>4, <1>5, Zenon

(* The message that a run starts with, and what comes behind it.           *)
LEMMA Message ==
  ASSUME NEW s \in Streams, NEW x, NEW P, Run(s, x, P), Len(x) > 0, x[1][2] = 1,
         NEW k, k = x[1][1]
  PROVE  /\ k \in 1 .. Len(s) /\ P = Off(s)[k]
         /\ \A i \in 1 .. Len(x) : i <= LenOf[s[k]] => x[i] = <<k, i>>
         /\ Len(x) > LenOf[s[k]] => /\ k + 1 \in 1 .. Len(s)
                                    /\ x[LenOf[s[k]] + 1][1] = k + 1 /\ x[LenOf[s[k]] + 1][2] = 1
  <1>1. x \in Seq(Byte(s)) /\ P \in Nat /\ P + Len(x) <= Len(Bytes[s]) /\ Len(x) \in Nat
        /\ \A i \in 1 .. Len(x) : x[i] = Bytes[s][P + i]
        BY DEF Run
  <1>2. k \in 1 .. Len(s) /\ P + 1 = Off(s)[k] + 1
        BY <1>1, At
  <1>3. Off(s)[k] \in Nat /\ LenOf[s[k]] \in Nat /\ Off(s)[k + 1] = Off(s)[k] + LenOf[s[k]] /\ Len(s) \in Nat
        BY <1>2, Stream
  <1>4. P = Off(s)[k]
        BY <1>1, <1>2, <1>3
  <1>5. Laid(s, Bytes[s], Off(s))
        BY Offsets
  <1>6. ASSUME NEW i \in 1 .. Len(x), i <= LenOf[s[k]] PROVE x[i] = <<k, i>>
    <2>1. i \in 1 .. LenOf[s[k]]
          BY <1>3, <1>6
    <2>2. Bytes[s][Off(s)[k] + i] = <<k, i>>
          BY <1>2, <1>5, <2>1 DEF Laid
    <2> QED BY <1>1, <1>4, <2>2
  <1>7. ASSUME Len(x) > LenOf[s[k]]
        PROVE  k + 1 \in 1 .. Len(s) /\ x[LenOf[s[k]] + 1][1] = k + 1 /\ x[LenOf[s[k]] + 1][2] = 1
    <2>1. k # Len(s)
      <3>1. SUFFICES ASSUME k = Len(s) PROVE FALSE
            OBVIOUS
      <3>2. Off(s)[Len(s) + 1] = Len(Bytes[s])
            BY <1>5 DEF Laid
      <3>3. Off(s)[k] + LenOf[s[k]] = Len(Bytes[s])
            BY <1>3, <3>1, <3>2
      <3> DEFINE L == LenOf[s[k]]
                 T == Len(Bytes[s])
      <3>4. P + L = T /\ L \in Nat /\ Len(x) > L /\ P + Len(x) <= T /\ P \in Nat /\ Len(x) \in Nat
            BY <1>1, <1>3, <1>4, <1>7, <3>3
      <3> HIDE DEF L, T
      <3> QED BY <3>4
    <2>2. k + 1 \in 1 .. Len(s)
          BY <1>2, <1>3, <2>1
    <2>3. LenOf[s[k + 1]] \in Nat /\ HeadLen <= LenOf[s[k + 1]] /\ 0 < HeadLen /\ HeadLen \in Nat
          BY <2>2, Stream, Sizing
    <2>4. 1 \in 1 .. LenOf[s[k + 1]]
          BY <2>3
    <2>5. Bytes[s][Off(s)[k + 1] + 1] = <<k + 1, 1>>
          BY <1>5, <2>2, <2>4 DEF Laid
    <2>6. LenOf[s[k]] + 1 \in 1 .. Len(x) /\ P + (LenOf[s[k]] + 1) = Off(s)[k + 1] + 1
      <3> DEFINE L == LenOf[s[k]]
                 n == Off(s)[k + 1]
      <3>1. L \in Nat /\ P \in Nat /\ Len(x) \in Nat /\ n = P + L /\ Len(x) > L
            BY <1>1, <1>3, <1>4, <1>7
      <3> HIDE DEF L, n
      <3>2. L + 1 \in 1 .. Len(x) /\ P + (L + 1) = n + 1
            BY <3>1
      <3> QED BY <3>2 DEF L, n
    <2>7. x[LenOf[s[k]] + 1] = <<k + 1, 1>>
          BY <1>1, <2>2, <2>5, <2>6
    <2> QED BY <2>2, <2>7
  <1> QED BY <1>2, <1>4, <1>6, <1>7

---------------------------------------------------------------------------
(* What the handler recognises in them, and the list of what it handled.   *)

(* What the first bytes of a message tell.                                 *)
LEMMA Recognised ==
  ASSUME stream \in Streams, NEW k \in 1 .. Len(stream), NEW mem, NEW n \in Nat, n <= Len(mem), Len(mem) \in Nat,
         \A i \in 1 .. n : i <= LenOf[stream[k]] => mem[i] = <<k, i>>
  PROVE  /\ n >= MarkLen => (MarkAt(mem) <=> stream[k] = "mapping")
         /\ n >= HeadLen => HeadAt(mem) = IF stream[k] \in {"mapping", "other"} THEN 0 ELSE k
  <1>1. /\ stream[k] \in Kinds /\ LenOf[stream[k]] \in Nat /\ HeadLen <= LenOf[stream[k]]
        /\ k \in Nat /\ k # 0 /\ Len(stream) \in Nat
        BY Stream
  <1>2. Kind(k) = stream[k] /\ stream[k] # "none"
        BY <1>1 DEF Kind, Kinds
  <1>3. MarkLen \in Nat /\ HeadLen \in Nat /\ 0 < MarkLen /\ MarkLen < HeadLen
        BY Sizing
  <1>4. ASSUME n >= MarkLen PROVE MarkAt(mem) <=> stream[k] = "mapping"
    <2>1. \A i \in 1 .. MarkLen : i \in 1 .. n /\ i <= LenOf[stream[k]]
          BY <1>1, <1>3, <1>4
    <2>2. \A i \in 1 .. MarkLen : mem[i] = <<k, i>>
          BY <2>1
    <2>3. \A i \in 1 .. MarkLen : mem[i][1] = k /\ mem[i][2] = i
          BY <2>2
    <2>4. Len(mem) >= MarkLen /\ 1 \in 1 .. MarkLen
          BY <1>3, <1>4
    <2> QED BY <1>2, <2>3, <2>4 DEF MarkAt
  <1>5. ASSUME n >= HeadLen PROVE HeadAt(mem) = IF stream[k] \in {"mapping", "other"} THEN 0 ELSE k
    <2>1. \A i \in 1 .. HeadLen : i \in 1 .. n /\ i <= LenOf[stream[k]]
          BY <1>1, <1>3, <1>5
    <2>2. \A i \in 1 .. HeadLen : mem[i] = <<k, i>>
          BY <2>1
    <2>3. \A i \in 1 .. HeadLen : mem[i][1] = k /\ mem[i][2] = i
          BY <2>2
    <2>4. Len(mem) >= HeadLen /\ 1 \in 1 .. HeadLen /\ HeadLen \in 1 .. HeadLen
          BY <1>3, <1>5
    <2> QED BY <1>2, <2>3, <2>4 DEF HeadAt
  <1> QED BY <1>4, <1>5

(* What is recognised starts with the first byte of a message.             *)
LEMMA FirstByte ==
  ASSUME NEW mem, MarkAt(mem) \/ HeadAt(mem) # 0
  PROVE  mem[1][2] = 1 /\ Len(mem) >= MarkLen
  <1>1. MarkLen \in Nat /\ HeadLen \in Nat /\ 1 \in 1 .. MarkLen /\ 1 \in 1 .. HeadLen /\ MarkLen < HeadLen
        BY Sizing
  <1>2. CASE MarkAt(mem)
        BY <1>1, <1>2 DEF MarkAt
  <1>3. CASE HeadAt(mem) # 0
    <2>1. Len(mem) >= HeadLen /\ \A i \in 1 .. HeadLen : mem[i][2] = i
          BY <1>3 DEF HeadAt
    <2> QED BY <1>1, <2>1
  <1> QED BY <1>2, <1>3

(* A run that starts with a message.                                       *)
LEMMA Reading ==
  ASSUME stream \in Streams, NEW x, NEW P, Run(stream, x, P), Len(x) > 0, x[1][2] = 1,
         NEW k, k = x[1][1]
  PROVE  /\ MarkAt(x) <=> Len(x) >= MarkLen /\ stream[k] = "mapping"
         /\ HeadAt(x) = IF Len(x) >= HeadLen /\ stream[k] \notin {"mapping", "other"} THEN k ELSE 0
         /\ Len(x) >= HeadLen => Kind(HeadAt(x)) = IF stream[k] \notin {"mapping", "other"} THEN stream[k] ELSE "none"
         /\ Len(x) < HeadLen => Kind(HeadAt(x)) = "none"
  <1>1. k \in 1 .. Len(stream) /\ \A i \in 1 .. Len(x) : i <= LenOf[stream[k]] => x[i] = <<k, i>>
        BY Message
  <1>2. Len(x) \in Nat
        BY DEF Run
  <1>3. /\ Len(x) >= MarkLen => (MarkAt(x) <=> stream[k] = "mapping")
        /\ Len(x) >= HeadLen => HeadAt(x) = IF stream[k] \in {"mapping", "other"} THEN 0 ELSE k
    <2> DEFINE n == Len(x)
    <2>1. n \in Nat /\ n <= Len(x)
          BY <1>2
    <2>2. \A i \in 1 .. n : i <= LenOf[stream[k]] => x[i] = <<k, i>>
          BY <1>1
    <2> HIDE DEF n
    <2>3. /\ n >= MarkLen => (MarkAt(x) <=> stream[k] = "mapping")
          /\ n >= HeadLen => HeadAt(x) = IF stream[k] \in {"mapping", "other"} THEN 0 ELSE k
          BY <1>1, <1>2, <2>1, <2>2, Recognised
    <2> QED BY <2>3 DEF n
  <1>4. MarkAt(x) => Len(x) >= MarkLen
        BY DEF MarkAt
  <1>5. HeadAt(x) # 0 => Len(x) >= HeadLen
        BY DEF HeadAt
  <1>6. k # 0
        BY <1>1, Stream
  <1>7. Kind(k) = stream[k] /\ Kind(0) = "none"
        BY <1>6 DEF Kind
  <1>8. ~(Len(x) >= HeadLen /\ Len(x) < HeadLen)
        BY <1>2, Sizing
  <1> QED BY <1>3, <1>4, <1>5, <1>7, <1>8, Zenon

(* A message as it is handed over.                                         *)
LEMMA Handed ==
  ASSUME stream \in Streams, NEW k \in 1 .. Len(stream), NEW mem, NEW L \in Nat, L = LenOf[stream[k]],
         \A i \in 1 .. L : mem[i] = <<k, i>>
  PROVE  MessageOf(SubSeq(mem, 1, L)) = k
  <1> DEFINE y == SubSeq(mem, 1, L)
  <1>1. L >= 1 /\ k # 0 /\ k \in Nat
        BY Stream, Sizing
  <1>2. \A i \in 1 .. L : mem[i] \in Nat \X Nat
    <2> TAKE i \in 1 .. L
    <2>1. i \in Nat /\ k \in Nat
          BY <1>1
    <2>2. <<k, i>> \in Nat \X Nat
          BY <2>1
    <2> QED BY <2>2
  <1>3. y \in Seq(Nat \X Nat) /\ Len(y) = L /\ \A i \in 1 .. L : y[i] = mem[i]
    <2>1. 1 \in Int /\ L \in Int
          OBVIOUS
    <2>2. /\ SubSeq(mem, 1, L) \in Seq(Nat \X Nat)
          /\ Len(SubSeq(mem, 1, L)) = IF 1 <= L THEN L - 1 + 1 ELSE 0
          /\ \A i \in 1 .. L - 1 + 1 : SubSeq(mem, 1, L)[i] = mem[1 + i - 1]
          BY <1>2, <2>1, SubSeqProperties
    <2>3. y \in Seq(Nat \X Nat) /\ Len(y) = L - 1 + 1 /\ \A i \in 1 .. L - 1 + 1 : y[i] = mem[1 + i - 1]
          BY <1>1, <2>2
    <2> HIDE DEF y
    <2>4. L - 1 + 1 = L /\ \A i \in 1 .. L : 1 + i - 1 = i
          OBVIOUS
    <2> QED BY <2>3, <2>4
  <1> HIDE DEF y
  <1>4. \A i \in 1 .. L : y[i] = <<k, i>>
        BY <1>3
  <1>5. y[1][1] = k
    <2>1. 1 \in 1 .. L
          BY <1>1
    <2>2. y[1] = <<k, 1>>
          BY <1>4, <2>1
    <2> QED BY <2>2
  <1>6. y = [o \in 1 .. LenOf[stream[k]] |-> <<k, o>>]
    <2>1. y \in [1 .. L -> Nat \X Nat]
          BY <1>3
    <2>2. y = [i \in 1 .. L |-> y[i]]
          BY <2>1
    <2>3. y = [i \in 1 .. L |-> <<k, i>>]
          BY <2>2, <1>4
    <2> QED BY <2>3
  <1>7. MessageOf(y) = k
        BY <1>1, <1>5, <1>6 DEF MessageOf
  <1> QED BY <1>7 DEF y

\* The wanted messages that lie between two places of the stream.
Between(s, from, to) ==
  {k \in 1 .. Len(s) : s[k] \in Wanted /\ from <= Off(s)[k] /\ Off(s)[k + 1] <= to}

(* Between two messages and no further: nothing more is complete.          *)
LEMMA Incomplete ==
  ASSUME NEW s \in Streams, NEW from \in Nat, NEW k \in 1 .. Len(s), NEW d \in Nat, d < LenOf[s[k]]
  PROVE  Between(s, from, Off(s)[k] + d) = Between(s, from, Off(s)[k])
  <1> DEFINE f == Off(s)
  <1>1. f[k] \in Nat /\ LenOf[s[k]] \in Nat /\ f[k + 1] = f[k] + LenOf[s[k]] /\ k \in Nat /\ Len(s) \in Nat
        BY Stream
  <1>2. ASSUME NEW j \in 1 .. Len(s) PROVE f[j + 1] <= f[k] + d <=> f[j + 1] <= f[k]
    <2>1. f[j + 1] \in Nat /\ j \in Nat
          BY Stream
    <2>2. CASE j < k
      <3>1. j + 1 \in 1 .. Len(s) + 1 /\ k \in 1 .. Len(s) + 1 /\ j + 1 <= k
            BY <1>1, <2>1, <2>2
      <3>2. f[j + 1] <= f[k]
            BY <3>1, Offsets
      <3> HIDE DEF f
      <3> QED BY <1>1, <2>1, <3>2
    <2>3. CASE j >= k
      <3>1. j + 1 \in 1 .. Len(s) + 1 /\ k + 1 \in 1 .. Len(s) + 1 /\ k + 1 <= j + 1
            BY <1>1, <2>1, <2>3
      <3>2. f[k + 1] <= f[j + 1]
            BY <3>1, Offsets
      <3> DEFINE L == LenOf[s[k]]
                 a == f[k]
                 c == f[k + 1]
                 e == f[j + 1]
      <3>3. L \in Nat /\ a \in Nat /\ c = a + L /\ e \in Nat /\ c <= e /\ d < L
            BY <1>1, <2>1, <3>2
      <3> HIDE DEF L, a, c, e
      <3>4. ~(e <= a + d) /\ ~(e <= a)
            BY <3>3
      <3> QED BY <3>4 DEF a, e
    <2> QED BY <1>1, <2>1, <2>2, <2>3
  <1> QED BY <1>2 DEF Between

(* One message further.                                                    *)
LEMMA OneMore ==
  ASSUME NEW s \in Streams, NEW from \in Nat, NEW k \in 1 .. Len(s), from <= Off(s)[k]
  PROVE  /\ Between(s, from, Off(s)[k + 1]) = Between(s, from, Off(s)[k]) \cup (IF s[k] \in Wanted THEN {k} ELSE {})
         /\ \A j \in Between(s, from, Off(s)[k]) : j < k
  <1> DEFINE f == Off(s)
  <1>1. /\ f[k] \in Nat /\ LenOf[s[k]] \in Nat /\ LenOf[s[k]] > 0 /\ f[k + 1] = f[k] + LenOf[s[k]] /\ k \in Nat
        /\ Len(s) \in Nat /\ f[k + 1] \in Nat
        BY Stream, Sizing
  <1>2. ASSUME NEW j \in 1 .. Len(s) PROVE f[j + 1] <= f[k + 1] <=> j <= k
    <2>1. f[j + 1] \in Nat /\ j \in Nat
          BY Stream
    <2>2. CASE j <= k
      <3>1. j + 1 \in 1 .. Len(s) + 1 /\ k + 1 \in 1 .. Len(s) + 1 /\ j + 1 <= k + 1
            BY <1>1, <2>1, <2>2
      <3> QED BY <2>2, <3>1, Offsets
    <2>3. CASE j > k
      <3>1. j \in 1 .. Len(s) + 1 /\ k + 1 \in 1 .. Len(s) + 1 /\ k + 1 <= j
            BY <1>1, <2>1, <2>3
      <3>2. f[k + 1] <= f[j]
            BY <3>1, Offsets
      <3>3. f[j] \in Nat /\ LenOf[s[j]] \in Nat /\ LenOf[s[j]] > 0 /\ f[j + 1] = f[j] + LenOf[s[j]]
            BY Stream, Sizing
      <3> DEFINE a == f[j]
                 b == f[j + 1]
                 c == f[k + 1]
                 L == LenOf[s[j]]
      <3>4. a \in Nat /\ L \in Nat /\ L > 0 /\ b = a + L /\ c <= a /\ c \in Nat
            BY <1>1, <3>2, <3>3
      <3> HIDE DEF a, b, c, L
      <3>5. ~(b <= c)
            BY <3>4
      <3>6. ~(j <= k)
            BY <1>1, <2>1, <2>3
      <3> QED BY <3>5, <3>6 DEF b, c
    <2> QED BY <1>1, <2>1, <2>2, <2>3
  <1>3. ASSUME NEW j \in 1 .. Len(s) PROVE f[j + 1] <= f[k] <=> j < k
    <2>1. f[j + 1] \in Nat /\ j \in Nat
          BY Stream
    <2>2. CASE j < k
      <3>1. j + 1 \in 1 .. Len(s) + 1 /\ k \in 1 .. Len(s) + 1 /\ j + 1 <= k
            BY <1>1, <2>1, <2>2
      <3> QED BY <2>2, <3>1, Offsets
    <2>3. CASE j >= k
      <3>1. j + 1 \in 1 .. Len(s) + 1 /\ k + 1 \in 1 .. Len(s) + 1 /\ k + 1 <= j + 1
            BY <1>1, <2>1, <2>3
      <3>2. f[k + 1] <= f[j + 1]
            BY <3>1, Offsets
      <3> DEFINE a == f[k]
                 b == f[j + 1]
                 c == f[k + 1]
                 L == LenOf[s[k]]
      <3>4. a \in Nat /\ L \in Nat /\ L > 0 /\ c = a + L /\ c <= b /\ b \in Nat
            BY <1>1, <2>1, <3>2
      <3> HIDE DEF a, b, c, L
      <3>5. ~(b <= a)
            BY <3>4
      <3>6. ~(j < k)
            BY <1>1, <2>1, <2>3
      <3> QED BY <3>5, <3>6 DEF a, b
    <2> QED BY <1>1, <2>1, <2>2, <2>3
  <1> HIDE DEF f
  <1>4. \A j \in 1 .. Len(s) : j <= k <=> j < k \/ j = k
        BY <1>1
  <1>5. k \in 1 .. Len(s) /\ from <= f[k]
        BY DEF f
  <1>6. Between(s, from, f[k + 1]) = {j \in 1 .. Len(s) : s[j] \in Wanted /\ from <= f[j] /\ (j < k \/ j = k)}
        BY <1>2, <1>4 DEF Between, f
  <1>7. Between(s, from, f[k]) = {j \in 1 .. Len(s) : s[j] \in Wanted /\ from <= f[j] /\ j < k}
        BY <1>3 DEF Between, f
  <1>8. Between(s, from, f[k + 1]) = Between(s, from, f[k]) \cup (IF s[k] \in Wanted THEN {k} ELSE {})
        BY <1>5, <1>6, <1>7
  <1>9. \A j \in Between(s, from, f[k]) : j < k
        BY <1>7
  <1> QED BY <1>8, <1>9 DEF f

(* One message more in the list.                                           *)
LEMMA Listed ==
  ASSUME NEW g \in Seq(Nat), NEW S, Lists(g, S), NEW k \in Nat, \A j \in S : j < k
  PROVE  Lists(Append(g, k), S \cup {k})
  <1> DEFINE h == Append(g, k)
  <1>1. Len(g) \in Nat /\ DOMAIN g = 1 .. Len(g) /\ h \in Seq(Nat) /\ Len(h) = Len(g) + 1 /\ DOMAIN h = 1 .. Len(h)
        /\ (\A i \in 1 .. Len(g) : h[i] = g[i]) /\ h[Len(g) + 1] = k
        BY AppendProperties, LenProperties
  <1> HIDE DEF h
  <1>2. \A i \in 1 .. Len(h) : i \in 1 .. Len(g) \/ i = Len(g) + 1
        BY <1>1
  <1>3. \A i \in 1 .. Len(g) : i \in 1 .. Len(h) /\ Len(g) + 1 \in 1 .. Len(h)
        BY <1>1
  <1>4. Len(g) + 1 \in 1 .. Len(h)
        BY <1>1
  <1>5. {g[i] : i \in 1 .. Len(g)} = S /\ \A i, j \in 1 .. Len(g) : i < j => g[i] < g[j]
        BY <1>1 DEF Lists
  <1>6. {h[i] : i \in 1 .. Len(h)} = S \cup {k}
        BY <1>1, <1>2, <1>3, <1>4, <1>5
  <1>7. ASSUME NEW i \in 1 .. Len(h), NEW j \in 1 .. Len(h), i < j PROVE h[i] < h[j]
    <2>1. i \in 1 .. Len(g)
          BY <1>1, <1>7
    <2>2. CASE j \in 1 .. Len(g)
          BY <1>1, <1>5, <1>7, <2>1, <2>2
    <2>3. CASE j = Len(g) + 1
      <3>1. g[i] \in S /\ h[i] = g[i] /\ h[j] = k
            BY <1>1, <1>5, <2>1, <2>3
      <3> QED BY <3>1
    <2> QED BY <1>2, <2>2, <2>3
  <1> QED BY <1>1, <1>6, <1>7 DEF Lists, h

\* The list when a message has come to its handler, if it has one.
With(s, g, k) == IF s[k] \in Wanted THEN Append(g, k) ELSE g

(* A message handled: the list is that of one message more.                *)
LEMMA Advanced ==
  ASSUME NEW s \in Streams, NEW from \in Nat, NEW k \in 1 .. Len(s), from <= Off(s)[k], NEW g \in Seq(Nat),
         Lists(g, Between(s, from, Off(s)[k]))
  PROVE  Lists(With(s, g, k), Between(s, from, Off(s)[k + 1]))
  <1> DEFINE S == Between(s, from, Off(s)[k])
  <1>1. Between(s, from, Off(s)[k + 1]) = S \cup (IF s[k] \in Wanted THEN {k} ELSE {}) /\ \A j \in S : j < k
        BY OneMore
  <1>2. k \in Nat
        BY Stream
  <1> HIDE DEF S
  <1>3. Lists(g, S)
        BY DEF S
  <1>4. CASE s[k] \in Wanted
        BY <1>1, <1>2, <1>3, <1>4, Listed DEF With
  <1>5. CASE s[k] \notin Wanted
        BY <1>1, <1>3, <1>5 DEF With
  <1> QED BY <1>4, <1>5

(* The messages that a run holds are those between its ends.               *)
LEMMA Held ==
  ASSUME stream \in Streams, NEW x, NEW P, Run(stream, x, P)
  PROVE  Wholly(x) = Between(stream, P, P + Len(x))
  <1> DEFINE f == Off(stream)
  <1>1. x \in Seq(Byte(stream)) /\ P \in Nat /\ P + Len(x) <= Len(Bytes[stream]) /\ Len(x) \in Nat /\ DOMAIN x = 1 .. Len(x)
        /\ \A i \in 1 .. Len(x) : x[i] = Bytes[stream][P + i]
        BY LenProperties DEF Run
  <1>2. ASSUME NEW k \in 1 .. Len(stream), NEW o \in 1 .. LenOf[stream[k]]
        PROVE  <<k, o>> \in {x[i] : i \in DOMAIN x} <=> P < f[k] + o /\ f[k] + o <= P + Len(x)
    <2>1. f[k] \in Nat /\ LenOf[stream[k]] \in Nat /\ o \in Nat
          BY Stream
    <2> HIDE DEF f
    <2>2. ASSUME NEW i \in 1 .. Len(x), x[i] = <<k, o>> PROVE P < f[k] + o /\ f[k] + o <= P + Len(x)
      <3>1. P + i = Off(stream)[x[i][1]] + x[i][2]
            BY At
      <3>2. x[i][1] = k /\ x[i][2] = o
            BY <2>2
      <3>3. P + i = f[k] + o
            BY <3>1, <3>2 DEF f
      <3> QED BY <1>1, <2>1, <3>3
    <2>3. ASSUME P < f[k] + o, f[k] + o <= P + Len(x) PROVE \E i \in 1 .. Len(x) : x[i] = <<k, o>>
      <3> DEFINE i == f[k] + o - P
      <3>1. i \in 1 .. Len(x) /\ P + i = f[k] + o
            BY <1>1, <2>1, <2>3
      <3> HIDE DEF i
      <3>2. Bytes[stream][f[k] + o] = <<k, o>>
            BY Offsets DEF Laid, f
      <3> QED BY <1>1, <3>1, <3>2
    <2> QED BY <1>1, <2>2, <2>3
  <1>3. ASSUME NEW k \in 1 .. Len(stream)
        PROVE  {<<k, 1>>, <<k, LenOf[stream[k]]>>} \subseteq {x[i] : i \in DOMAIN x}
                 <=> P <= f[k] /\ f[k + 1] <= P + Len(x)
    <2> DEFINE L == LenOf[stream[k]]
               a == f[k]
               b == f[k + 1]
               X == {x[i] : i \in DOMAIN x}
    <2>1. a \in Nat /\ L \in Nat /\ L > 0 /\ b = a + L
          BY Stream, Sizing
    <2> HIDE DEF a, b, L
    <2>2. 1 \in 1 .. L /\ L \in 1 .. L
          BY <2>1
    <2>3. /\ <<k, 1>> \in X <=> P < a + 1 /\ a + 1 <= P + Len(x)
          /\ <<k, L>> \in X <=> P < a + L /\ a + L <= P + Len(x)
      <3> HIDE DEF X, f
      <3> QED BY <1>2, <2>2 DEF a, L, X, f
    <2>4. (P < a + 1 /\ a + 1 <= P + Len(x)) /\ (P < a + L /\ a + L <= P + Len(x)) <=> P <= a /\ b <= P + Len(x)
          BY <1>1, <2>1
    <2>5. {<<k, 1>>, <<k, L>>} \subseteq X <=> <<k, 1>> \in X /\ <<k, L>> \in X
          BY Zenon
    <2>6. {<<k, 1>>, <<k, L>>} \subseteq X <=> P <= a /\ b <= P + Len(x)
          BY <2>3, <2>4, <2>5, Zenon
    <2> QED BY <2>6 DEF a, b, L, X
  <1> QED BY <1>3, Zenon DEF Wholly, Between

---------------------------------------------------------------------------
(* Types, and the place of the packet in the stream: the operators.        *)

\* What a byte of the buffer can be.
Parts == Byte(stream) \cup {<<0, 0>>}

\* Every variable has its type.
Types ==
  /\ stream \in Streams /\ sent \in Nat /\ sent <= Len(Bytes[stream])
  /\ packet \in Seq(Byte(stream)) /\ rest \in Seq(Byte(stream))
  /\ half \in [1 .. Cap -> Parts] /\ used \in Nat
  /\ pc \in {"idle", "start", "half", "search", "loop", "undefined"}
  /\ got \in Seq(0 .. Len(stream)) /\ before \in Nat /\ before <= Len(got)
  /\ clean \in BOOLEAN /\ lost \in Nat /\ duplicated \in Nat

\* The packet is from P on in the stream, and rest is its end.
Placed(P) ==
  /\ Run(stream, packet, P) /\ Len(rest) <= Len(packet)
  /\ Run(stream, rest, P + (Len(packet) - Len(rest)))

\* What is left of the packet, and of the half, at each place of the code.
Phases ==
  /\ pc = "idle" => rest = <<>>
  /\ pc # "undefined" => used <= Cap
  /\ pc = "start" => rest = packet /\ packet # <<>> /\ before = Len(got)
  /\ pc = "half" => used > 0
  /\ pc = "search" => used = 0
  /\ pc = "loop" /\ rest # <<>> => used = 0 /\ rest[1][2] = 1

\* The packet is a piece of the stream.
Place == Phases /\ \E P \in Nat : Placed(P)

(* Nothing dropped is no change.                                           *)
LEMMA DropNone ==
  ASSUME NEW S, NEW x \in Seq(S)
  PROVE  /\ Drop(x, 0) = x
         /\ Len(x) \in Nat
         /\ Drop(x, Len(x)) = <<>>
         /\ x # <<>> <=> Len(x) > 0
         /\ \A i \in 1 .. Len(x) : x[i] \in S
  <1>1. Len(x) \in Nat /\ \A i \in 1 .. Len(x) : x[i] \in S
        BY LenProperties, ElementOfSeq
  <1>2. /\ 0 \in Nat /\ Drop(x, 0) \in Seq(S) /\ Len(Drop(x, 0)) = Len(x) - 0
        /\ \A i \in 1 .. Len(Drop(x, 0)) : Drop(x, 0)[i] = x[i + 0]
        BY <1>1, Dropped
  <1>3. \A i \in 1 .. Len(x) : i + 0 = i
        OBVIOUS
  <1>4. Len(x) - 0 = Len(x)
        BY <1>1
  <1>5. Len(Drop(x, 0)) = Len(x) /\ \A i \in 1 .. Len(x) : Drop(x, 0)[i] = x[i]
        BY <1>2, <1>3, <1>4
  <1>6. Drop(x, 0) = x
        BY <1>2, <1>5, SeqEqual
  <1>7. Drop(x, Len(x)) = <<>>
        BY <1>1, Dropped
  <1>8. x # <<>> <=> Len(x) > 0
        BY <1>1
  <1> QED BY <1>1, <1>6, <1>7, <1>8

(* The buffer with something written behind its first n bytes.             *)
LEMMA Writing ==
  ASSUME NEW S, NEW mem \in [1 .. Cap -> S], NEW n \in Nat, NEW x \in Seq(S)
  PROVE  /\ Written(mem, n, x) \in [1 .. Cap -> S] /\ Len(Written(mem, n, x)) = Cap
         /\ \A i \in 1 .. Cap : i <= n => Written(mem, n, x)[i] = mem[i]
         /\ \A i \in 1 .. Cap : i > n /\ i <= n + Len(x) => i - n \in 1 .. Len(x) /\ Written(mem, n, x)[i] = x[i - n]
         /\ \A i \in 1 .. Cap : i > n + Len(x) => Written(mem, n, x)[i] = mem[i]
  <1> DEFINE w == Written(mem, n, x)
  <1>1. Len(x) \in Nat /\ \A i \in 1 .. Len(x) : x[i] \in S
        BY DropNone
  <1>2. w = [i \in 1 .. Cap |-> IF i > n /\ i <= n + Len(x) THEN x[i - n] ELSE mem[i]]
        BY DEF Written
  <1>3. Cap \in Nat
        BY Sizing
  <1> HIDE DEF w
  <1>4. \A i \in 1 .. Cap : i > n /\ i <= n + Len(x) => i - n \in 1 .. Len(x)
        BY <1>1, <1>3
  <1>5. \A i \in 1 .. Cap : (i <= n \/ i > n + Len(x)) => ~(i > n /\ i <= n + Len(x))
        BY <1>1, <1>3
  <1>6. \A i \in 1 .. Cap : w[i] = IF i > n /\ i <= n + Len(x) THEN x[i - n] ELSE mem[i]
        BY <1>2
  <1>7. \A i \in 1 .. Cap : w[i] \in S
        BY <1>1, <1>4, <1>6
  <1>8. w \in [1 .. Cap -> S] /\ DOMAIN w = 1 .. Cap
        BY <1>2, <1>7
  <1>9. Len(w) = Cap
        BY <1>3, <1>8
  <1> QED BY <1>4, <1>5, <1>6, <1>8, <1>9 DEF w

(* The first of some bytes.                                                *)
LEMMA FirstOf ==
  ASSUME NEW mem, NEW L \in Nat, L > 0
  PROVE  SubSeq(mem, 1, L)[1] = mem[1] /\ Len(SubSeq(mem, 1, L)) = L
  OBVIOUS

(* What a handler is called on is a message of the stream, or none.        *)
LEMMA Handling ==
  ASSUME Types, NEW bytes, bytes[1] \in Parts, NEW kind
  PROVE  /\ MessageOf(bytes) \in 0 .. Len(stream)
         /\ Handled(kind, bytes) \in Seq(0 .. Len(stream)) /\ Len(got) <= Len(Handled(kind, bytes))
  <1>1. stream \in Streams /\ got \in Seq(0 .. Len(stream)) /\ Len(stream) \in Nat
        BY Stream DEF Types
  <1>2. bytes[1][1] \in 0 .. Len(stream)
    <2>1. CASE bytes[1] \in Byte(stream)
      <3>1. bytes[1][1] \in 1 .. Len(stream)
            BY <2>1 DEF Byte
      <3> QED BY <1>1, <3>1
    <2>2. CASE bytes[1] = <<0, 0>>
      <3>1. bytes[1][1] = 0
            BY <2>2
      <3> QED BY <1>1, <3>1
    <2> QED BY <2>1, <2>2 DEF Parts
  <1>3. MessageOf(bytes) \in {0, bytes[1][1]}
        BY DEF MessageOf
  <1>4. MessageOf(bytes) \in 0 .. Len(stream)
        BY <1>1, <1>2, <1>3
  <1> DEFINE m == MessageOf(bytes)
  <1> HIDE DEF m
  <1>5. Append(got, m) \in Seq(0 .. Len(stream)) /\ Len(Append(got, m)) = Len(got) + 1 /\ Len(got) \in Nat
        BY <1>1, <1>4, AppendProperties, LenProperties DEF m
  <1>6. Handled(kind, bytes) \in {got, Append(got, m)}
        BY DEF Handled, m
  <1>7. Len(got) <= Len(got) /\ Len(got) <= Len(Append(got, m))
        BY <1>5
  <1> QED BY <1>1, <1>4, <1>5, <1>6, <1>7

(* A step of the handler, as far as types and places go.                   *)
LEMMA Kept ==
  ASSUME Types, UNCHANGED net, NEW d \in Nat, rest' = Drop(rest, d),
         half' \in [1 .. Cap -> Parts], used' \in Nat,
         pc' \in {"idle", "start", "half", "search", "loop", "undefined"},
         got' \in Seq(0 .. Len(stream)), Len(got) <= Len(got')
  PROVE  Types' /\ \A P \in Nat : Placed(P) => Placed(P)'
  <1>1. /\ stream' = stream /\ sent' = sent /\ packet' = packet /\ before' = before /\ clean' = clean
        /\ lost' = lost /\ duplicated' = duplicated
        BY DEF net
  <1>2. rest \in Seq(Byte(stream)) /\ packet \in Seq(Byte(stream)) /\ stream \in Streams
        BY DEF Types
  <1>3. rest' \in Seq(Byte(stream))
        BY <1>2, Dropped
  <1>4. before \in Nat /\ before <= Len(got) /\ got \in Seq(0 .. Len(stream))
        BY DEF Types
  <1>5. Len(got) \in Nat /\ Len(got') \in Nat
        BY <1>4, LenProperties
  <1>6. before' <= Len(got')
        BY <1>1, <1>4, <1>5
  <1>7. Types'
        BY <1>1, <1>3, <1>6 DEF Types, Parts
  <1>8. ASSUME NEW P \in Nat, Placed(P) PROVE Placed(P)'
    <2>1. Len(rest) \in Nat /\ Len(packet) \in Nat /\ Len(rest) <= Len(packet)
          BY <1>2, <1>8, LenProperties DEF Placed
    <2>2. PICK e \in Nat : e <= Len(rest) /\ rest' = Drop(rest, e)
      <3>1. CASE d <= Len(rest)
            BY <3>1
      <3>2. CASE d > Len(rest)
        <4>1. rest' = <<>>
              BY <1>2, <2>1, <3>2, Dropped
        <4>2. Drop(rest, Len(rest)) = <<>>
              BY <1>2, DropNone
        <4> QED BY <2>1, <4>1, <4>2
      <3> QED BY <2>1, <3>1, <3>2
    <2> DEFINE Q == P + (Len(packet) - Len(rest))
    <2>3. Run(stream, rest, Q)
          BY <1>8 DEF Placed
    <2>4. Run(stream, Drop(rest, e), Q + e) /\ Len(Drop(rest, e)) = Len(rest) - e
      <3> HIDE DEF Q
      <3> QED BY <1>2, <2>2, <2>3, Runs
    <2>5. Len(rest') = Len(rest) - e
          BY <2>2, <2>4
    <2>6. Q + e = P + (Len(packet) - Len(rest')) /\ Len(rest') <= Len(packet)
          BY <2>1, <2>2, <2>5
    <2>7. Run(stream, rest', P + (Len(packet) - Len(rest')))
          BY <2>2, <2>4, <2>6
    <2> QED BY <1>1, <1>8, <2>6, <2>7 DEF Placed, Run
  <1> QED BY <1>7, <1>8

(* The kind that is handled is that of the message at the start.           *)
LEMMA InFront ==
  ASSUME stream \in Streams, NEW x, NEW P, Run(stream, x, P), Len(x) > 0, x[1][2] = 1,
         NEW k, k = x[1][1], NEW kind, kind = (IF MarkAt(x) THEN "mapping" ELSE Kind(HeadAt(x))), kind # "none"
  PROVE  k \in 1 .. Len(stream) /\ kind = stream[k] /\ kind # "other"
  <1>1. /\ MarkAt(x) <=> Len(x) >= MarkLen /\ stream[k] = "mapping"
        /\ HeadAt(x) = IF Len(x) >= HeadLen /\ stream[k] \notin {"mapping", "other"} THEN k ELSE 0
        BY Reading
  <1>2. k \in 1 .. Len(stream)
        BY Message
  <1>3. Kind(0) = "none"
        BY DEF Kind
  <1>4. k # 0 /\ Kind(k) = stream[k]
        BY <1>2, Stream DEF Kind
  <1>5. MarkAt(x) => kind = stream[k] /\ kind # "other"
        BY <1>1
  <1>6. ~MarkAt(x) => HeadAt(x) # 0 /\ kind = Kind(HeadAt(x))
        BY <1>3
  <1>7. HeadAt(x) # 0 => HeadAt(x) = k /\ stream[k] # "other"
        BY <1>1
  <1>8. kind = stream[k] /\ kind # "other"
        BY <1>4, <1>5, <1>6, <1>7, Zenon
  <1> QED BY <1>2, <1>8, Zenon

(* What comes behind the message at the start.                             *)
LEMMA Behind ==
  ASSUME NEW s \in Streams, NEW x, NEW P, Run(s, x, P), Len(x) > 0, x[1][2] = 1,
         NEW k, k = x[1][1], NEW L, L = LenOf[s[k]], Drop(x, L) # <<>>
  PROVE  k + 1 \in 1 .. Len(s) /\ Len(x) > L /\ Drop(x, L)[1][1] = k + 1 /\ Drop(x, L)[1][2] = 1
  <1> DEFINE y == Drop(x, L)
  <1>1. x \in Seq(Byte(s)) /\ Len(x) \in Nat
        BY LenProperties DEF Run
  <1>2. y # <<>>
        OBVIOUS
  <1> HIDE DEF y
  <1>3. k \in 1 .. Len(s)
        BY Message
  <1>4. Len(x) > L => k + 1 \in 1 .. Len(s) /\ x[L + 1][1] = k + 1 /\ x[L + 1][2] = 1
        BY Message
  <1>5. L \in Nat
        BY <1>3, Stream
  <1>6. Len(x) > L
        BY <1>1, <1>2, <1>5, Dropped DEF y
  <1>7. Len(y) = Len(x) - L /\ \A i \in 1 .. Len(y) : y[i] = x[i + L]
    <2>1. Len(y) = Len(x) - L
      <3>1. L <= Len(x)
            BY <1>1, <1>5, <1>6
      <3> QED BY <1>1, <1>5, <3>1, Dropped DEF y
    <2>2. \A i \in 1 .. Len(y) : y[i] = x[i + L]
          BY <1>1, <1>5, Dropped DEF y
    <2> QED BY <2>1, <2>2
  <1>8. 1 \in 1 .. Len(y) /\ 1 + L = L + 1
        BY <1>1, <1>5, <1>6, <1>7
  <1>9. y[1] = x[L + 1]
        BY <1>7, <1>8
  <1> QED BY <1>4, <1>6, <1>9 DEF y

---------------------------------------------------------------------------
(* Types and places: the steps on the half.                                *)

\* A step of the handler: it reads on and changes nothing of the capture.
Moves ==
  /\ UNCHANGED net
  /\ \E d \in Nat : rest' = Drop(rest, d)
  /\ half' \in [1 .. Cap -> Parts] /\ used' \in Nat
  /\ pc' \in {"idle", "start", "half", "search", "loop", "undefined"}
  /\ got' \in Seq(0 .. Len(stream)) /\ Len(got) <= Len(got')

(* What is known of a step of the handler before it is taken.              *)
LEMMA Typed ==
  ASSUME Types, Place
  PROVE  /\ stream \in Streams /\ rest \in Seq(Byte(stream)) /\ rest \in Seq(Parts) /\ Len(rest) \in Nat
         /\ (rest # <<>> <=> Len(rest) > 0)
         /\ half \in [1 .. Cap -> Parts] /\ used \in Nat
         /\ got \in Seq(0 .. Len(stream)) /\ Len(got) \in Nat
         /\ Drop(rest, 0) = rest /\ Drop(rest, Len(rest)) = <<>>
         /\ \E P \in Nat : Run(stream, rest, P)
         /\ Phases
  <1>1. stream \in Streams /\ rest \in Seq(Byte(stream)) /\ packet \in Seq(Byte(stream))
        /\ half \in [1 .. Cap -> Parts] /\ used \in Nat /\ got \in Seq(0 .. Len(stream))
        BY DEF Types
  <1>2. /\ Len(rest) \in Nat /\ Len(packet) \in Nat /\ Drop(rest, 0) = rest /\ Drop(rest, Len(rest)) = <<>>
        /\ (rest # <<>> <=> Len(rest) > 0) /\ \A i \in 1 .. Len(rest) : rest[i] \in Byte(stream)
        BY <1>1, DropNone
  <1>3. rest \in Seq(Parts)
    <2>1. \A i \in 1 .. Len(rest) : rest[i] \in Parts
          BY <1>2 DEF Parts
    <2> QED BY <1>1, <2>1, Retyped
  <1>4. Len(got) \in Nat
        BY <1>1, LenProperties
  <1>5. PICK P \in Nat : Placed(P)
        BY DEF Place
  <1>6. Run(stream, rest, P + (Len(packet) - Len(rest))) /\ P + (Len(packet) - Len(rest)) \in Nat
        BY <1>2, <1>5 DEF Placed
  <1> QED BY <1>1, <1>2, <1>3, <1>4, <1>6 DEF Place

(* A step that moves, and ends where it may, keeps types and places.       *)
LEMMA Moved ==
  ASSUME Types, Place, Moves, Phases'
  PROVE  Types' /\ Place'
  <1>1. PICK d \in Nat : rest' = Drop(rest, d)
        BY DEF Moves
  <1>2. Types' /\ \A P \in Nat : Placed(P) => Placed(P)'
        BY <1>1, Kept DEF Moves
  <1>3. PICK P \in Nat : Placed(P)
        BY DEF Place
  <1>4. Placed(P)'
        BY <1>2, <1>3
  <1> QED BY <1>2, <1>4 DEF Place

(* OnData_lv1 begins: what is in the buffer may be discarded.              *)
LEMMA DiscardMoves ==
  ASSUME Types, Place, Discard
  PROVE  Moves /\ Phases'
  <1>1. /\ stream \in Streams /\ half \in [1 .. Cap -> Parts] /\ used \in Nat
        /\ got \in Seq(0 .. Len(stream)) /\ Len(got) \in Nat /\ Drop(rest, 0) = rest
        BY Typed
  <1>2. HeadLen \in Nat
        BY Sizing
  <1>3. \E d \in Nat : rest' = Drop(rest, d)
    <2>1. CASE Kind(HeadAt(rest)) = "index"
          BY <1>2, <2>1 DEF Discard
    <2>2. CASE Kind(HeadAt(rest)) # "index"
          BY <1>1, <2>2 DEF Discard
    <2> QED BY <2>1, <2>2
  <1>4. used' \in {0, used} /\ pc' = (IF used' > 0 THEN "half" ELSE "search") /\ half' = half /\ got' = got
        /\ UNCHANGED net
    <2>1. \E mark \in MarkRead(rest) : used' = IF HeadAt(rest) # 0 \/ mark THEN 0 ELSE used
          BY DEF Discard
    <2>2. used' \in {0, used}
          BY <2>1
    <2> QED BY <2>2 DEF Discard
  <1>5. used' \in Nat /\ (used' > 0 => pc' = "half") /\ (~(used' > 0) => used' = 0 /\ pc' = "search")
        BY <1>1, <1>4
  <1>6. Moves
        BY <1>1, <1>3, <1>4, <1>5 DEF Moves
  <1>7. Phases'
    <2>1. used <= Cap /\ 0 <= Cap
          BY Typed, Sizing DEF Discard, Phases
    <2> QED BY <1>4, <1>5, <2>1 DEF Phases
  <1> QED BY <1>6, <1>7

(* The half with what follows, as it is looked at.                         *)
LEMMA Looking ==
  ASSUME Types, Place
  PROVE  /\ Peeked \in [1 .. Cap -> Parts] /\ Len(Peeked) = Cap
         /\ \A i \in 1 .. Cap : i <= used => Peeked[i] = half[i]
         /\ \A i \in 1 .. HeadLen : i > used /\ i <= used + Len(rest)
                                       => i - used \in 1 .. Len(rest) /\ Peeked[i] = rest[i - used]
  <1>1. /\ rest \in Seq(Parts) /\ Len(rest) \in Nat /\ half \in [1 .. Cap -> Parts] /\ used \in Nat
        BY Typed
  <1>2. HeadLen \in Nat /\ Peek \in Nat /\ HeadLen < Peek /\ Cap \in Nat /\ HeadLen <= Cap
    <2>1. "index" \in Kinds
          BY DEF Kinds
    <2> QED BY <2>1, Sizing
  <1>3. CASE used >= Peek
    <2>1. Peeked = half
          BY <1>1, <1>2, <1>3 DEF Peeked
    <2>2. \A i \in 1 .. HeadLen : ~(i > used)
          BY <1>1, <1>2, <1>3
    <2>3. Len(half) = Cap
          BY <1>1, <1>2
    <2> QED BY <1>1, <2>1, <2>2, <2>3
  <1>4. CASE used < Peek
    <2> DEFINE x == Take(rest, Peek)
    <2>1. x \in Seq(Parts) /\ Len(x) = (IF Peek < Len(rest) THEN Peek ELSE Len(rest))
          /\ \A i \in 1 .. Len(x) : x[i] = rest[i]
      <3>1. CASE Peek < Len(rest)
        <4>1. x = SubSeq(rest, 1, Peek)
              BY <3>1 DEF Take
        <4>2. \A i \in 1 .. Peek : rest[i] \in Parts
              BY <1>1, <1>2, <3>1, DropNone
        <4>3. 1 \in Int /\ Peek \in Int /\ 1 <= Peek
              BY <1>2
        <4>4. /\ SubSeq(rest, 1, Peek) \in Seq(Parts)
              /\ Len(SubSeq(rest, 1, Peek)) = IF 1 <= Peek THEN Peek - 1 + 1 ELSE 0
              /\ \A i \in 1 .. Peek - 1 + 1 : SubSeq(rest, 1, Peek)[i] = rest[1 + i - 1]
              BY <4>2, <4>3, SubSeqProperties
        <4>5. Peek - 1 + 1 = Peek /\ \A i \in 1 .. Peek : 1 + i - 1 = i
              BY <1>2
        <4> HIDE DEF x
        <4>6. Len(x) = Peek /\ x \in Seq(Parts) /\ \A i \in 1 .. Peek : x[i] = rest[i]
              BY <4>1, <4>3, <4>4, <4>5
        <4> QED BY <3>1, <4>6
      <3>2. CASE ~(Peek < Len(rest))
            BY <1>1, <3>2 DEF Take
      <3> QED BY <3>1, <3>2
    <2>2. Peeked = Written(half, used, x)
          BY <1>4 DEF Peeked
    <2> HIDE DEF x
    <2>3. /\ Peeked \in [1 .. Cap -> Parts] /\ Len(Peeked) = Cap
          /\ \A i \in 1 .. Cap : i <= used => Peeked[i] = half[i]
          /\ \A i \in 1 .. Cap : i > used /\ i <= used + Len(x) => i - used \in 1 .. Len(x) /\ Peeked[i] = x[i - used]
      <3>1. /\ Written(half, used, x) \in [1 .. Cap -> Parts] /\ Len(Written(half, used, x)) = Cap
            /\ \A i \in 1 .. Cap : i <= used => Written(half, used, x)[i] = half[i]
            /\ \A i \in 1 .. Cap : i > used /\ i <= used + Len(x)
                                      => i - used \in 1 .. Len(x) /\ Written(half, used, x)[i] = x[i - used]
            BY <1>1, <2>1, Writing
      <3> QED BY <2>2, <3>1, Zenon
    <2>4. ASSUME NEW i \in 1 .. HeadLen, i > used, i <= used + Len(rest)
          PROVE  i - used \in 1 .. Len(rest) /\ Peeked[i] = rest[i - used]
      <3>1. i \in 1 .. Cap /\ i <= used + Len(x) /\ i - used \in 1 .. Len(rest)
            BY <1>1, <1>2, <2>1, <2>4
      <3>2. i - used \in 1 .. Len(x) /\ Peeked[i] = x[i - used]
            BY <2>3, <2>4, <3>1
      <3> QED BY <2>1, <3>1, <3>2
    <2> QED BY <2>3, <2>4
  <1> QED BY <1>1, <1>2, <1>3, <1>4

(* What the half is of.                                                    *)
LEMMA HalfKinds ==
  ASSUME stream \in Streams, HeadAt(Peeked) \in 0 .. Len(stream)
  PROVE  HalfKind \in Kinds \cup {"none"}
  <1> DEFINE k == HeadAt(Peeked)
  <1>1. Kind(k) \in Kinds \cup {"none"}
    <2>1. CASE k = 0
          BY <2>1 DEF Kind
    <2>2. CASE k # 0
      <3>1. k \in 1 .. Len(stream)
            BY <2>2, Stream
      <3>2. stream[k] \in Kinds
            BY <3>1, Stream
      <3> QED BY <2>2, <3>2 DEF Kind
    <2> QED BY <2>1, <2>2
  <1>2. "mapping" \in Kinds
        BY DEF Kinds
  <1>3. HalfKind \in {"mapping", Kind(k)}
        BY DEF HalfKind
  <1> QED BY <1>1, <1>2, <1>3

(* A head names a message of the stream, or none.                          *)
LEMMA HeadOf ==
  ASSUME stream \in Streams, NEW mem \in [1 .. Cap -> Parts]
  PROVE  HeadAt(mem) \in 0 .. Len(stream)
  <1>1. HeadLen \in 1 .. Cap /\ Len(stream) \in Nat
    <2>1. "index" \in Kinds
          BY DEF Kinds
    <2> QED BY <2>1, Sizing, Stream
  <1>2. mem[HeadLen] \in Parts
        BY <1>1
  <1>3. mem[HeadLen][1] \in 0 .. Len(stream)
    <2>1. CASE mem[HeadLen] \in Byte(stream)
      <3>1. mem[HeadLen][1] \in 1 .. Len(stream)
            BY <2>1 DEF Byte
      <3> QED BY <1>1, <3>1
    <2>2. CASE mem[HeadLen] = <<0, 0>>
      <3>1. mem[HeadLen][1] = 0
            BY <2>2
      <3> QED BY <1>1, <3>1
    <2> QED BY <1>2, <2>1, <2>2 DEF Parts
  <1>4. HeadAt(mem) \in {0, mem[HeadLen][1]}
        BY DEF HeadAt
  <1> QED BY <1>1, <1>3, <1>4

\* The length of what the half is of.
LEMMA HalfLength ==
  ASSUME Types, Place, HalfKind # "none"
  PROVE  /\ HalfKind \in Kinds /\ LenOf[HalfKind] \in Nat /\ HeadLen <= LenOf[HalfKind] /\ LenOf[HalfKind] <= Cap
         /\ LenOf[HalfKind] > 0
  <1>1. stream \in Streams /\ Peeked \in [1 .. Cap -> Parts]
        BY Typed, Looking
  <1>2. HalfKind \in Kinds
        BY <1>1, HeadOf, HalfKinds
  <1> QED BY <1>2, Sizing

(* The bytes that complete the half.                                       *)
LEMMA Completing ==
  ASSUME Types, Place, NEW L \in Nat, L <= Cap, used <= L, L - used <= Len(rest)
  PROVE  LET w == Written(Peeked, used, SubSeq(rest, 1, L - used))
         IN  /\ w \in [1 .. Cap -> Parts]
             /\ \A i \in 1 .. L : w[i] = IF i <= used THEN half[i] ELSE rest[i - used]
             /\ \A i \in 1 .. L : i > used => i - used \in 1 .. Len(rest)
  <1> DEFINE m == L - used
             x == SubSeq(rest, 1, m)
             w == Written(Peeked, used, x)
  <1>1. /\ rest \in Seq(Parts) /\ Len(rest) \in Nat /\ used \in Nat
        BY Typed
  <1>2. m \in Nat /\ m <= Len(rest)
        BY <1>1
  <1>3. Peeked \in [1 .. Cap -> Parts] /\ \A i \in 1 .. Cap : i <= used => Peeked[i] = half[i]
        BY Looking
  <1>9. Cap \in Nat
        BY Sizing
  <1> HIDE DEF m
  <1>4. x \in Seq(Parts) /\ Len(x) = m /\ \A i \in 1 .. m : x[i] = rest[i]
    <2>1. \A i \in 1 .. m : rest[i] \in Parts
          BY <1>1, <1>2, DropNone
    <2>2. 1 \in Int /\ m \in Int
          BY <1>2
    <2>3. /\ SubSeq(rest, 1, m) \in Seq(Parts)
          /\ Len(SubSeq(rest, 1, m)) = IF 1 <= m THEN m - 1 + 1 ELSE 0
          /\ \A i \in 1 .. m - 1 + 1 : SubSeq(rest, 1, m)[i] = rest[1 + i - 1]
          BY <2>1, <2>2, SubSeqProperties
    <2>4. m - 1 + 1 = m /\ (IF 1 <= m THEN m - 1 + 1 ELSE 0) = m /\ \A i \in 1 .. m : 1 + i - 1 = i
          BY <1>2
    <2> QED BY <2>3, <2>4
  <1> HIDE DEF x
  <1>5. /\ w \in [1 .. Cap -> Parts]
        /\ \A i \in 1 .. Cap : i <= used => w[i] = Peeked[i]
        /\ \A i \in 1 .. Cap : i > used /\ i <= used + Len(x) => i - used \in 1 .. Len(x) /\ w[i] = x[i - used]
    <2> DEFINE p == Peeked
    <2> HIDE DEF p
    <2>1. /\ Written(p, used, x) \in [1 .. Cap -> Parts]
          /\ \A i \in 1 .. Cap : i <= used => Written(p, used, x)[i] = p[i]
          /\ \A i \in 1 .. Cap : i > used /\ i <= used + Len(x)
                                    => i - used \in 1 .. Len(x) /\ Written(p, used, x)[i] = x[i - used]
      <3>1. p \in [1 .. Cap -> Parts] /\ used \in Nat /\ x \in Seq(Parts)
            BY <1>1, <1>3, <1>4 DEF p
      <3> HIDE DEF w
      <3> QED BY <3>1, Writing
    <2> QED BY <2>1 DEF p
  <1> HIDE DEF w
  <1>6. \A i \in 1 .. L : i > used => i - used \in 1 .. m
        BY <1>1, <1>2 DEF m
  <1>7. \A i \in 1 .. L : i > used => i - used \in 1 .. Len(rest)
        BY <1>1, <1>2, <1>6
  <1>8. \A i \in 1 .. L : w[i] = IF i <= used THEN half[i] ELSE rest[i - used]
    <2> TAKE i \in 1 .. L
    <2>1. i \in 1 .. Cap
          BY <1>9
    <2>2. CASE i <= used
          BY <1>3, <1>5, <2>1, <2>2
    <2>3. CASE i > used
      <3>1. i - used \in 1 .. m /\ i <= used + Len(x)
            BY <1>1, <1>2, <1>4, <1>6, <2>3 DEF m
      <3>2. w[i] = x[i - used]
            BY <1>5, <2>1, <2>3, <3>1
      <3>3. ~(i <= used)
            BY <1>1, <2>3
      <3> QED BY <1>4, <3>1, <3>2, <3>3
    <2> QED BY <1>1, <2>2, <2>3
  <1> QED BY <1>5, <1>7, <1>8 DEF w, x, m

(* The half is completed.                                                  *)
LEMMA HalfCompleteMoves ==
  ASSUME Types, Place, HalfComplete
  PROVE  Moves /\ Phases'
  <1> DEFINE L == LenOf[HalfKind]
  <1>1. /\ rest \in Seq(Parts) /\ Len(rest) \in Nat /\ used \in Nat /\ got \in Seq(0 .. Len(stream))
        BY Typed
  <1>2. L \in Nat /\ L <= Cap /\ L > 0
        BY HalfLength DEF HalfComplete
  <1>3. Missing = L - used
        BY DEF Missing
  <1> HIDE DEF L
  <1>4. used <= L /\ L - used <= Len(rest) /\ L - used \in Nat
    <2>1. ~StillHalf
          BY DEF HalfComplete
    <2>2. ~(L - used < 0) /\ ~(Len(rest) < L - used)
          BY <1>3, <2>1 DEF StillHalf
    <2> QED BY <1>1, <1>2, <2>2
  <1> DEFINE w == Written(Peeked, used, SubSeq(rest, 1, L - used))
  <1>5. w \in [1 .. Cap -> Parts]
        BY <1>2, <1>4, Completing
  <1> HIDE DEF w
  <1>6. half' = w /\ got' = Handled(HalfKind, SubSeq(w, 1, L)) /\ rest' = Drop(rest, L - used)
        /\ used' = 0 /\ pc' = "search" /\ UNCHANGED net
        BY <1>3 DEF HalfComplete, w, L
  <1>7. SubSeq(w, 1, L)[1] \in Parts
    <2>1. SubSeq(w, 1, L)[1] = w[1]
          BY <1>2, FirstOf
    <2>2. 1 \in 1 .. Cap
          BY <1>2, Sizing
    <2> QED BY <1>5, <2>1, <2>2
  <1>8. got' \in Seq(0 .. Len(stream)) /\ Len(got) <= Len(got')
    <2>1. Handled(HalfKind, SubSeq(w, 1, L)) \in Seq(0 .. Len(stream)) /\ Len(got) <= Len(Handled(HalfKind, SubSeq(w, 1, L)))
          BY <1>7, Handling
    <2> QED BY <1>6, <2>1, Zenon
  <1>9. Moves
        BY <1>4, <1>5, <1>6, <1>8 DEF Moves
  <1>10. Phases'
        BY <1>6, Sizing DEF Phases
  <1> QED BY <1>9, <1>10

(* The half grows.                                                         *)
LEMMA HalfGrowsMoves ==
  ASSUME Types, Place, HalfGrows
  PROVE  Moves /\ Phases'
  <1>1. /\ rest \in Seq(Parts) /\ Len(rest) \in Nat /\ used \in Nat /\ got \in Seq(0 .. Len(stream)) /\ Len(got) \in Nat
        /\ half \in [1 .. Cap -> Parts] /\ Drop(rest, Len(rest)) = <<>>
        BY Typed
  <1>2. half' = Written(half, used, rest) /\ used' = used + Len(rest) /\ rest' = <<>> /\ got' = got
        /\ pc' = (IF used' > Cap THEN "undefined" ELSE "idle") /\ UNCHANGED net
        BY DEF HalfGrows
  <1>3. half' \in [1 .. Cap -> Parts]
    <2>1. Written(half, used, rest) \in [1 .. Cap -> Parts]
          BY <1>1, Writing
    <2> QED BY <1>2, <2>1
  <1>4. used' \in Nat /\ (pc' = "idle" => used' <= Cap) /\ pc' \in {"idle", "undefined"}
        BY <1>1, <1>2, Sizing
  <1>5. \E d \in Nat : rest' = Drop(rest, d)
        BY <1>1, <1>2
  <1>6. Moves
        BY <1>1, <1>2, <1>3, <1>4, <1>5 DEF Moves
  <1>7. Phases'
        BY <1>2, <1>4 DEF Phases
  <1> QED BY <1>6, <1>7

(* The half is an index head: what follows it may be a mapping.            *)
LEMMA HalfIndexMoves ==
  ASSUME Types, Place, HalfIndex
  PROVE  Moves /\ Phases'
  <1>1. /\ rest \in Seq(Parts) /\ Len(rest) \in Nat /\ used \in Nat /\ got \in Seq(0 .. Len(stream)) /\ Len(got) \in Nat
        /\ half \in [1 .. Cap -> Parts] /\ Drop(rest, 0) = rest
        BY Typed
  <1>2. HeadLen \in Nat /\ Peeked \in [1 .. Cap -> Parts]
        BY Looking, Sizing
  <1>3. CASE used > HeadLen
    <2>1. pc' = "undefined" /\ UNCHANGED <<net, half, rest, used, got>>
          BY <1>3 DEF HalfIndex
    <2>2. Moves
          BY <1>1, <2>1 DEF Moves
    <2> QED BY <2>1, <2>2 DEF Phases
  <1>4. CASE ~(used > HeadLen)
    <2> DEFINE m == HeadLen - used
               x == Take(rest, m)
    <2>1. m \in Nat
          BY <1>1, <1>2, <1>4
    <2>2. half' = Written(Peeked, used, x) /\ rest' = Drop(rest, m) /\ used' = 0 /\ pc' = "search"
          /\ UNCHANGED <<net, got>>
          BY <1>4 DEF HalfIndex
    <2> HIDE DEF m
    <2>3. x \in Seq(Parts)
      <3>1. CASE m < Len(rest)
        <4>1. \A i \in 1 .. m : rest[i] \in Parts
              BY <1>1, <2>1, <3>1, DropNone
        <4>2. 1 \in Int /\ m \in Int
              BY <2>1
        <4>3. SubSeq(rest, 1, m) \in Seq(Parts)
              BY <4>1, <4>2, SubSeqProperties
        <4> QED BY <3>1, <4>3 DEF Take
      <3>2. CASE ~(m < Len(rest))
            BY <1>1, <3>2 DEF Take
      <3> QED BY <3>1, <3>2
    <2> HIDE DEF x
    <2>4. Written(Peeked, used, x) \in [1 .. Cap -> Parts]
          BY <1>1, <1>2, <2>3, Writing
    <2>5. half' \in [1 .. Cap -> Parts]
          BY <2>2, <2>4
    <2>6. Moves
          BY <1>1, <2>1, <2>2, <2>5 DEF Moves
    <2> QED BY <2>2, <2>6, Sizing DEF Phases
  <1> QED BY <1>3, <1>4

(* The half is not recognised.                                             *)
LEMMA HalfUnknownMoves ==
  ASSUME Types, Place, HalfUnknown
  PROVE  Moves /\ Phases'
  <1>1. got \in Seq(0 .. Len(stream)) /\ Len(got) \in Nat /\ Drop(rest, 0) = rest
        BY Typed
  <1>2. Peeked \in [1 .. Cap -> Parts]
        BY Looking
  <1>3. half' = Peeked /\ used' = 0 /\ pc' = "search" /\ UNCHANGED <<net, rest, got>>
        BY DEF HalfUnknown
  <1>4. half' \in [1 .. Cap -> Parts]
        BY <1>2, <1>3
  <1>5. Moves
        BY <1>1, <1>3, <1>4 DEF Moves
  <1> QED BY <1>3, <1>5, Sizing DEF Phases

---------------------------------------------------------------------------
(* Types and places: the search and the loop.                              *)

(* The search leaves what starts with the first place, or nothing.         *)
LEMMA Searching ==
  ASSUME Types, Place, Search
  PROVE  /\ UNCHANGED <<net, half, used, got>>
         /\ \/ /\ rest' = <<>> /\ pc' = "idle"
               /\ \A i \in 1 .. Len(rest) : ~Starts(Drop(rest, i - 1))
            \/ /\ pc' = "loop"
               /\ \E i \in 1 .. Len(rest) : /\ rest' = Drop(rest, i - 1) /\ Starts(Drop(rest, i - 1))
                                            /\ \A j \in 1 .. Len(rest) : Starts(Drop(rest, j - 1)) => i <= j
  <1> DEFINE places == {i \in 1 .. Len(rest) : Starts(Drop(rest, i - 1))}
             first == CHOOSE i \in places : \A j \in places : i <= j
  <1>1. /\ UNCHANGED <<net, half, used, got>>
        /\ IF places = {} THEN rest' = <<>> /\ pc' = "idle" ELSE rest' = Drop(rest, first - 1) /\ pc' = "loop"
        BY DEF Search
  <1>2. CASE places = {}
        BY <1>1, <1>2
  <1>3. CASE places # {}
    <2>1. \E i \in places : \A j \in places : i <= j
      <3>1. places \subseteq Nat
            OBVIOUS
      <3> HIDE DEF places
      <3> QED BY <1>3, <3>1, Least
    <2>2. first \in places /\ \A j \in places : first <= j
      <3> HIDE DEF places
      <3> QED BY <2>1, Zenon
    <2> HIDE DEF first
    <2>3. first \in 1 .. Len(rest) /\ Starts(Drop(rest, first - 1))
          /\ \A j \in 1 .. Len(rest) : Starts(Drop(rest, j - 1)) => first <= j
          BY <2>2, Zenon
    <2>4. rest' = Drop(rest, first - 1) /\ pc' = "loop"
          BY <1>1, <1>3
    <2> QED BY <1>1, <2>3, <2>4, Zenon
  <1> QED BY <1>2, <1>3

(* The search.                                                             *)
LEMMA SearchMoves ==
  ASSUME Types, Place, Search
  PROVE  Moves /\ Phases'
  <1>1. /\ Drop(rest, Len(rest)) = <<>> /\ Len(rest) \in Nat /\ got \in Seq(0 .. Len(stream)) /\ Len(got) \in Nat
        /\ half \in [1 .. Cap -> Parts] /\ used \in Nat /\ Phases
        BY Typed
  <1>2. used = 0 /\ Cap \in Nat
        BY <1>1, Sizing DEF Search, Phases
  <1>3. UNCHANGED <<net, half, used, got>>
        BY Searching
  <1>4. CASE rest' = <<>> /\ pc' = "idle"
    <2>1. \E d \in Nat : rest' = Drop(rest, d)
          BY <1>1, <1>4
    <2>2. Moves
          BY <1>1, <1>3, <1>4, <2>1 DEF Moves
    <2> QED BY <1>2, <1>3, <1>4, <2>2 DEF Phases
  <1>5. CASE pc' = "loop" /\ \E i \in 1 .. Len(rest) : rest' = Drop(rest, i - 1) /\ Starts(Drop(rest, i - 1))
    <2>1. PICK i \in 1 .. Len(rest) : rest' = Drop(rest, i - 1) /\ Starts(Drop(rest, i - 1))
          BY <1>5
    <2>2. i - 1 \in Nat
          OBVIOUS
    <2>3. \E d \in Nat : rest' = Drop(rest, d)
          BY <2>1, <2>2
    <2>4. Moves
          BY <1>1, <1>3, <1>5, <2>3 DEF Moves
    <2>5. rest'[1][2] = 1
      <3>1. Drop(rest, i - 1)[1][2] = 1
            BY <2>1, FirstByte DEF Starts
      <3> QED BY <2>1, <3>1
    <2> QED BY <1>2, <1>3, <1>5, <2>4, <2>5 DEF Phases
  <1> QED BY <1>4, <1>5, Searching

(* Some bytes are put into the buffer.                                     *)
LEMMA StashMoves ==
  ASSUME Types, Place, NEW d \in Nat, NEW then \in {"idle", "loop"}, Stash(Drop(rest, d), then), UNCHANGED net,
         got' = got
  PROVE  Moves /\ Phases'
  <1> DEFINE x == Drop(rest, d)
  <1>1. /\ rest \in Seq(Parts) /\ Drop(rest, Len(rest)) = <<>> /\ Len(rest) \in Nat
        /\ got \in Seq(0 .. Len(stream)) /\ Len(got) \in Nat /\ half \in [1 .. Cap -> Parts]
        BY Typed
  <1>2. x \in Seq(Parts)
        BY <1>1, Dropped
  <1> HIDE DEF x
  <1>3. half' = Written(half, 0, x) /\ used' = Len(x) /\ rest' = <<>>
        /\ pc' = IF Len(x) > Cap THEN "undefined" ELSE then
        BY DEF Stash, x
  <1>4. Written(half, 0, x) \in [1 .. Cap -> Parts]
        BY <1>1, <1>2, Writing
  <1>5. half' \in [1 .. Cap -> Parts] /\ used' \in Nat /\ (pc' # "undefined" => used' <= Cap)
        BY <1>2, <1>3, <1>4, LenProperties, Sizing
  <1>6. \E e \in Nat : rest' = Drop(rest, e)
        BY <1>1, <1>3
  <1>7. pc' \in {"idle", "loop", "undefined"}
        BY <1>3
  <1>8. Moves
        BY <1>1, <1>5, <1>6, <1>7 DEF Moves
  <1> QED BY <1>3, <1>5, <1>7, <1>8 DEF Phases

\* The message at the start of what is left in the loop.
LEMMA LoopFront ==
  ASSUME Types, Place, pc = "loop", rest # <<>>, NEW kind,
         kind = (IF MarkAt(rest) THEN "mapping" ELSE Kind(HeadAt(rest))), kind # "none"
  PROVE  /\ rest[1][1] \in 1 .. Len(stream) /\ kind = stream[rest[1][1]] /\ kind # "other"
         /\ kind \in Kinds /\ LenOf[kind] \in Nat /\ LenOf[kind] > 0 /\ used = 0
         /\ Drop(rest, LenOf[kind]) # <<>> => Drop(rest, LenOf[kind])[1][2] = 1
  <1>1. PICK P \in Nat : Run(stream, rest, P)
        BY Typed
  <1>2. stream \in Streams /\ Len(rest) > 0 /\ rest[1][2] = 1 /\ used = 0
        BY Typed DEF Phases
  <1>3. rest[1][1] \in 1 .. Len(stream) /\ kind = stream[rest[1][1]] /\ kind # "other"
        BY <1>1, <1>2, InFront
  <1>4. kind \in Kinds
        BY <1>2, <1>3, Stream
  <1>5. LenOf[kind] \in Nat /\ LenOf[kind] > 0
        BY <1>4, Sizing
  <1>6. ASSUME Drop(rest, LenOf[kind]) # <<>> PROVE Drop(rest, LenOf[kind])[1][2] = 1
        BY <1>1, <1>2, <1>3, <1>6, Behind
  <1> QED BY <1>2, <1>3, <1>4, <1>5, <1>6

(* The loop comes to a message that is cut off.                            *)
LEMMA LoopCutMoves ==
  ASSUME Types, Place, LoopCut
  PROVE  Moves /\ Phases'
  <1>1. Drop(rest, 0) = rest
        BY Typed
  <1>2. Stash(Drop(rest, 0), "idle") /\ UNCHANGED net /\ got' = got
        BY <1>1 DEF LoopCut
  <1> QED BY <1>2, StashMoves

(* The loop comes to bytes it does not recognise.                          *)
LEMMA LoopUnknownMoves ==
  ASSUME Types, Place, LoopUnknown
  PROVE  Moves /\ Phases'
  <1>1. Drop(rest, 0) = rest
        BY Typed
  <1>2. Stash(Drop(rest, 0), "loop") /\ UNCHANGED net /\ got' = got
        BY <1>1 DEF LoopUnknown
  <1> QED BY <1>2, StashMoves

(* The loop hands over a message.                                          *)
LEMMA LoopMessageMoves ==
  ASSUME Types, Place, LoopMessage
  PROVE  Moves /\ Phases'
  <1>1. /\ rest \in Seq(Parts) /\ Len(rest) \in Nat /\ used \in Nat /\ half \in [1 .. Cap -> Parts]
        /\ rest # <<>> /\ Len(rest) > 0 /\ pc = "loop"
        BY Typed DEF LoopMessage
  <1> DEFINE kind == IF MarkAt(rest) THEN "mapping" ELSE Kind(HeadAt(rest))
             L == LenOf[kind]
             y == SubSeq(rest, 1, L)
             z == Drop(rest, L)
  <1>2. kind \in {"mapping", "time", "static", "quota"} /\ got' = Handled(kind, y) /\ rest' = z
        /\ UNCHANGED <<net, half, used, pc>>
        BY DEF LoopMessage
  <1>3. kind # "none"
        BY <1>2
  <1>4. L \in Nat /\ L > 0 /\ used = 0 /\ (z # <<>> => z[1][2] = 1)
    <2> HIDE DEF kind
    <2>1. kind = IF MarkAt(rest) THEN "mapping" ELSE Kind(HeadAt(rest))
          BY DEF kind
    <2> QED BY <1>1, <1>3, <2>1, LoopFront
  <1> HIDE DEF kind, L
  <1>5. y[1] \in Parts
    <2>1. y[1] = rest[1]
          BY <1>4, FirstOf
    <2>2. rest[1] \in Parts
          BY <1>1, DropNone
    <2> QED BY <2>1, <2>2
  <1> HIDE DEF y, z
  <1>6. Handled(kind, y) \in Seq(0 .. Len(stream)) /\ Len(got) <= Len(Handled(kind, y))
        BY <1>5, Handling
  <1>7. got' \in Seq(0 .. Len(stream)) /\ Len(got) <= Len(got')
        BY <1>2, <1>6, Zenon
  <1>8. \E d \in Nat : rest' = Drop(rest, d)
        BY <1>2, <1>4 DEF z
  <1>9. Moves
        BY <1>1, <1>2, <1>7, <1>8 DEF Moves
  <1>10. Phases'
        BY <1>1, <1>2, <1>4, Sizing DEF Phases
  <1> QED BY <1>9, <1>10

(* Dropped twice.                                                          *)
LEMMA DropDrop ==
  ASSUME NEW S, NEW x \in Seq(S), NEW a \in Nat, NEW b \in Nat
  PROVE  Drop(Drop(x, a), b) = Drop(x, a + b)
  <1> DEFINE y == Drop(x, a)
             z == Drop(y, b)
             w == Drop(x, a + b)
  <1>1. Len(x) \in Nat /\ a + b \in Nat
        BY LenProperties
  <1>2. /\ y \in Seq(S)
        /\ a <= Len(x) => Len(y) = Len(x) - a
        /\ a >= Len(x) => Len(y) = 0
        /\ \A i \in 1 .. Len(y) : i + a \in 1 .. Len(x) /\ y[i] = x[i + a]
        BY Dropped
  <1>3. /\ w \in Seq(S)
        /\ a + b <= Len(x) => Len(w) = Len(x) - (a + b)
        /\ a + b >= Len(x) => Len(w) = 0
        /\ \A i \in 1 .. Len(w) : i + (a + b) \in 1 .. Len(x) /\ w[i] = x[i + (a + b)]
        BY <1>1, Dropped
  <1> HIDE DEF y, w
  <1>4. /\ z \in Seq(S)
        /\ b <= Len(y) => Len(z) = Len(y) - b
        /\ b >= Len(y) => Len(z) = 0
        /\ \A i \in 1 .. Len(z) : i + b \in 1 .. Len(y) /\ z[i] = y[i + b]
        BY <1>2, Dropped
  <1> HIDE DEF z
  <1>5. Len(z) = Len(w)
        BY <1>1, <1>2, <1>3, <1>4
  <1>6. \A i \in 1 .. Len(z) : z[i] = w[i]
    <2> TAKE i \in 1 .. Len(z)
    <2>1. z[i] = y[i + b] /\ y[i + b] = x[(i + b) + a]
          BY <1>2, <1>4
    <2>2. w[i] = x[i + (a + b)]
          BY <1>3, <1>5
    <2>3. (i + b) + a = i + (a + b)
          OBVIOUS
    <2> QED BY <2>1, <2>2, <2>3
  <1>7. z = w
        BY <1>3, <1>4, <1>5, <1>6, SeqEqual
  <1> QED BY <1>7 DEF y, z, w

(* Behind an index head in the loop.                                       *)
LEMMA IndexFront ==
  ASSUME Types, Place, pc = "loop", ~Cut, Kind(HeadAt(rest)) = "index"
  PROVE  /\ rest # <<>> /\ Len(rest) >= HeadLen /\ ~MarkAt(rest)
         /\ rest[1][1] \in 1 .. Len(stream) /\ stream[rest[1][1]] = "index" /\ used = 0
         /\ Drop(rest, HeadLen) # <<>> => Drop(rest, HeadLen)[1][2] = 1 /\ Drop(rest, HeadLen)[1][1] = rest[1][1] + 1
         /\ \E P \in Nat : Run(stream, Drop(rest, HeadLen), P)
  <1>1. PICK P \in Nat : Run(stream, rest, P)
        BY Typed
  <1>2. stream \in Streams /\ HeadLen \in Nat /\ LenOf["index"] = HeadLen /\ Len(rest) \in Nat /\ 0 < HeadLen
        BY Typed, Sizing
  <1>3. HeadAt(rest) # 0
        BY DEF Kind
  <1>4. rest # <<>> /\ Len(rest) > 0 /\ Len(rest) >= HeadLen
    <2>1. Len(rest) >= HeadLen
          BY <1>3 DEF HeadAt
    <2>2. Len(rest) > 0
          BY <1>2, <2>1
    <2> QED BY <2>1, <2>2, Typed
  <1>5. rest[1][2] = 1 /\ used = 0
        BY <1>4, Typed DEF Phases
  <1>6. ~MarkAt(rest) /\ rest[1][1] \in 1 .. Len(stream) /\ stream[rest[1][1]] = "index"
    <2>1. /\ MarkAt(rest) <=> Len(rest) >= MarkLen /\ stream[rest[1][1]] = "mapping"
          /\ HeadAt(rest) = IF Len(rest) >= HeadLen /\ stream[rest[1][1]] \notin {"mapping", "other"} THEN rest[1][1] ELSE 0
          BY <1>1, <1>2, <1>4, <1>5, Reading
    <2>2. HeadAt(rest) = rest[1][1] /\ stream[rest[1][1]] # "mapping"
          BY <1>3, <2>1
    <2>3. Kind(HeadAt(rest)) = stream[rest[1][1]]
          BY <1>3, <2>2 DEF Kind
    <2>4. rest[1][1] \in 1 .. Len(stream)
          BY <1>1, <1>2, <1>4, <1>5, Message
    <2> QED BY <2>1, <2>2, <2>3, <2>4
  <1>7. ASSUME Drop(rest, HeadLen) # <<>>
        PROVE  Drop(rest, HeadLen)[1][2] = 1 /\ Drop(rest, HeadLen)[1][1] = rest[1][1] + 1
        BY <1>1, <1>2, <1>4, <1>5, <1>6, <1>7, Behind
  <1>8. \E Q \in Nat : Run(stream, Drop(rest, HeadLen), Q)
    <2>1. Run(stream, Drop(rest, HeadLen), P + HeadLen)
          BY <1>1, <1>2, <1>4, Runs
    <2>2. P + HeadLen \in Nat
          BY <1>2
    <2> QED BY <2>1, <2>2
  <1> QED BY <1>4, <1>5, <1>6, <1>7, <1>8

---------------------------------------------------------------------------
(* Types and places: all steps.                                            *)

(* The loop comes to an index head.                                        *)
LEMMA LoopIndexMoves ==
  ASSUME Types, Place, LoopIndex
  PROVE  Moves /\ Phases'
  <1> DEFINE behind == Drop(rest, HeadLen)
             L == LenOf["mapping"]
             y == SubSeq(behind, 1, L)
  <1>1. /\ stream \in Streams /\ rest \in Seq(Parts) /\ Len(rest) \in Nat /\ half \in [1 .. Cap -> Parts]
        BY Typed
  <1>2. pc = "loop" /\ ~Cut /\ Kind(HeadAt(rest)) = "index" /\ UNCHANGED net
        BY DEF LoopIndex
  <1>3. /\ used = 0 /\ (behind # <<>> => behind[1][2] = 1)
        BY <1>2, IndexFront
  <1>4. PICK P \in Nat : Run(stream, behind, P)
        BY <1>2, IndexFront
  <1>5. HeadLen \in Nat /\ L \in Nat /\ L > 0 /\ HeadLen < L
    <2>1. "mapping" \in Kinds /\ "mapping" # "index"
          BY DEF Kinds
    <2> QED BY <2>1, Sizing
  <1>6. CASE MarkAt(behind) /\ Len(behind) >= L
    <2>1. got' = Handled("mapping", y) /\ rest' = Drop(behind, L) /\ UNCHANGED <<half, used, pc>>
          BY <1>6 DEF LoopIndex
    <2>2. behind \in Seq(Parts) /\ behind \in Seq(Byte(stream)) /\ Len(behind) \in Nat
          BY <1>1, <1>4, <1>5, Dropped, LenProperties DEF Run
    <2>3. y[1] \in Parts
      <3> HIDE DEF behind
      <3>1. y[1] = behind[1]
            BY <1>5, FirstOf
      <3>2. 1 \in 1 .. Len(behind)
            BY <1>5, <1>6, <2>2
      <3>3. behind[1] \in Parts
            BY <2>2, <3>2, DropNone
      <3> QED BY <3>1, <3>3
    <2> HIDE DEF y
    <2>4. Handled("mapping", y) \in Seq(0 .. Len(stream)) /\ Len(got) <= Len(Handled("mapping", y))
          BY <2>3, Handling
    <2>5. got' \in Seq(0 .. Len(stream)) /\ Len(got) <= Len(got')
          BY <2>1, <2>4, Zenon
    <2>6. rest' = Drop(rest, HeadLen + L) /\ HeadLen + L \in Nat
      <3>1. Drop(Drop(rest, HeadLen), L) = Drop(rest, HeadLen + L)
            BY <1>1, <1>5, DropDrop
      <3> QED BY <1>5, <2>1, <3>1
    <2>7. Moves
          BY <1>1, <1>2, <1>3, <2>1, <2>5, <2>6 DEF Moves
    <2>8. ASSUME Drop(behind, L) # <<>> PROVE Drop(behind, L)[1][2] = 1
      <3> HIDE DEF behind
      <3>1. Len(behind) > 0
            BY <1>5, <1>6, <2>2
      <3>2. behind[1][2] = 1 /\ stream[behind[1][1]] = "mapping"
        <4>1. behind[1][2] = 1
              BY <1>6, FirstByte
        <4> QED BY <1>1, <1>4, <1>6, <3>1, <4>1, Reading
      <3> QED BY <1>1, <1>4, <2>8, <3>1, <3>2, Behind
    <2>9. Phases'
          BY <1>2, <1>3, <2>1, <2>8, Sizing DEF Phases
    <2> QED BY <2>7, <2>9
  <1>7. CASE ~(MarkAt(behind) /\ Len(behind) >= L)
    <2>1. Stash(Drop(rest, HeadLen), "loop") /\ got' = got
          BY <1>7 DEF LoopIndex
    <2> QED BY <1>2, <1>5, <2>1, StashMoves
  <1> QED BY <1>6, <1>7

\* What changes nothing keeps everything.
LEMMA Still ==
  ASSUME Types, Place, UNCHANGED vars
  PROVE  Types' /\ Place'
  <1>1. /\ stream' = stream /\ sent' = sent /\ packet' = packet /\ rest' = rest /\ half' = half /\ used' = used
        /\ pc' = pc /\ got' = got /\ before' = before /\ clean' = clean /\ lost' = lost /\ duplicated' = duplicated
        BY DEF vars
  <1>2. Types'
        BY <1>1 DEF Types, Parts
  <1>3. PICK P \in Nat : Placed(P)
        BY DEF Place
  <1>4. Placed(P)'
        BY <1>1, <1>3 DEF Placed
  <1>5. Phases'
        BY <1>1 DEF Place, Phases
  <1> QED BY <1>2, <1>4, <1>5 DEF Place

(* The handler's steps.                                                    *)
LEMMA HandlerMoves ==
  ASSUME Types, Place, OnData_lv1
  PROVE  Moves /\ Types' /\ Place'
  <1>1. CASE Discard
        BY <1>1, DiscardMoves, Moved
  <1>2. CASE HalfComplete
        BY <1>2, HalfCompleteMoves, Moved
  <1>3. CASE HalfGrows
        BY <1>3, HalfGrowsMoves, Moved
  <1>4. CASE HalfIndex
        BY <1>4, HalfIndexMoves, Moved
  <1>5. CASE HalfUnknown
        BY <1>5, HalfUnknownMoves, Moved
  <1>6. CASE Search
        BY <1>6, SearchMoves, Moved
  <1>7. CASE LoopEnd
    <2>1. got \in Seq(0 .. Len(stream)) /\ Len(got) \in Nat /\ Drop(rest, 0) = rest /\ half \in [1 .. Cap -> Parts]
          /\ used \in Nat
          BY Typed
    <2>2. UNCHANGED <<net, rest, half, used, got>> /\ pc' = "idle"
          BY <1>7 DEF LoopEnd
    <2>3. Moves
          BY <2>1, <2>2 DEF Moves
    <2>4. rest' = <<>> /\ used' <= Cap
          BY <1>7, <2>2 DEF LoopEnd, Place, Phases
    <2>5. Phases'
          BY <2>2, <2>4 DEF Phases
    <2> QED BY <2>3, <2>5, Moved
  <1>8. CASE LoopCut
        BY <1>8, LoopCutMoves, Moved
  <1>9. CASE LoopMessage
        BY <1>9, LoopMessageMoves, Moved
  <1>10. CASE LoopIndex
        BY <1>10, LoopIndexMoves, Moved
  <1>11. CASE LoopUnknown
        BY <1>11, LoopUnknownMoves, Moved
  <1>12. CASE LoopArbitrage
    <2>1. got \in Seq(0 .. Len(stream)) /\ Len(got) \in Nat /\ Drop(rest, 0) = rest /\ half \in [1 .. Cap -> Parts]
          /\ used \in Nat
          BY Typed
    <2>2. UNCHANGED vars
          BY <1>12 DEF LoopArbitrage
    <2>3. Types' /\ Place'
          BY <2>2, Still
    <2>4. Moves
          BY <2>1, <2>2 DEF Moves, vars, net, Types
    <2> QED BY <2>3, <2>4
  <1> QED BY <1>1, <1>2, <1>3, <1>4, <1>5, <1>6, <1>7, <1>8, <1>9, <1>10, <1>11, <1>12 DEF OnData_lv1

(* A piece of the stream.                                                  *)
LEMMA CutOut ==
  ASSUME NEW s \in Streams, NEW a \in Nat, NEW n \in Nat, a + n <= Len(Bytes[s])
  PROVE  Run(s, SubSeq(Bytes[s], a + 1, a + n), a) /\ Len(SubSeq(Bytes[s], a + 1, a + n)) = n
  <1> DEFINE b == Bytes[s]
             x == SubSeq(b, a + 1, a + n)
  <1>1. b \in Seq(Byte(s)) /\ Len(b) \in Nat
        BY Stream
  <1> HIDE DEF b
  <1>2. \A i \in a + 1 .. a + n : b[i] \in Byte(s)
    <2> TAKE i \in a + 1 .. a + n
    <2>1. i \in 1 .. Len(b)
          BY <1>1 DEF b
    <2> QED BY <1>1, <2>1, DropNone
  <1>3. a + 1 \in Int /\ a + n \in Int
        OBVIOUS
  <1>4. /\ SubSeq(b, a + 1, a + n) \in Seq(Byte(s))
        /\ Len(SubSeq(b, a + 1, a + n)) = IF a + 1 <= a + n THEN a + n - (a + 1) + 1 ELSE 0
        /\ \A i \in 1 .. a + n - (a + 1) + 1 : SubSeq(b, a + 1, a + n)[i] = b[a + 1 + i - 1]
        BY <1>2, <1>3, SubSeqProperties
  <1>5. (IF a + 1 <= a + n THEN a + n - (a + 1) + 1 ELSE 0) = n /\ a + n - (a + 1) + 1 = n
        /\ \A i \in 1 .. n : a + 1 + i - 1 = a + i
        OBVIOUS
  <1>6. x \in Seq(Byte(s)) /\ Len(x) = n /\ \A i \in 1 .. n : x[i] = b[a + i]
        BY <1>4, <1>5
  <1> HIDE DEF x
  <1>7. Run(s, x, a) /\ Len(x) = n
        BY <1>6 DEF Run, b
  <1> QED BY <1>7 DEF x, b

(* Nothing has been sent yet.                                              *)
LEMMA BasicInit ==
  ASSUME Init
  PROVE  Types /\ Place
  <1>1. stream \in Streams /\ sent = 0 /\ packet = <<>> /\ rest = <<>> /\ half = [i \in 1 .. Cap |-> <<0, 0>>]
        /\ used = 0 /\ pc = "idle" /\ got = <<>> /\ before = 0 /\ clean = TRUE /\ lost = 0 /\ duplicated = 0
        BY DEF Init
  <1>2. Len(Bytes[stream]) \in Nat /\ Cap \in Nat
        BY <1>1, Stream, Sizing
  <1>3. half \in [1 .. Cap -> Parts]
        BY <1>1 DEF Parts
  <1>4. /\ <<>> \in Seq(Byte(stream)) /\ <<>> \in Seq(0 .. Len(stream)) /\ Len(<<>>) = 0
        OBVIOUS
  <1>5. Types
        BY <1>1, <1>2, <1>3, <1>4 DEF Types
  <1>6. Run(stream, <<>>, 0)
        BY <1>2, <1>4 DEF Run
  <1>7. Placed(0)
    <2>1. 0 + (0 - 0) = 0
          OBVIOUS
    <2> QED BY <1>1, <1>4, <1>6, <2>1 DEF Placed
  <1>8. Phases
        BY <1>1, <1>2 DEF Phases
  <1> QED BY <1>5, <1>7, <1>8 DEF Place

\* A packet arrives.
LEMMA Arrives ==
  ASSUME Types, Place, NEW p, NEW P \in Nat, Run(stream, p, P), p # <<>>, Arrive(p), pc = "idle"
  PROVE  /\ stream' = stream /\ half' = half /\ used' = used /\ got' = got
         /\ packet' = p /\ rest' = p /\ pc' = "start" /\ before' = Len(got)
         /\ packet' \in Seq(Byte(stream)) /\ before' \in Nat /\ Placed(P)' /\ Phases'
  <1>1. /\ stream' = stream /\ half' = half /\ used' = used /\ got' = got
        /\ packet' = p /\ rest' = p /\ pc' = "start" /\ before' = Len(got)
        BY DEF Arrive
  <1>2. p \in Seq(Byte(stream)) /\ Len(p) \in Nat /\ Len(got) \in Nat
        BY LenProperties, Typed DEF Run
  <1>3. Len(p) <= Len(p) /\ P + (Len(p) - Len(p)) = P
        BY <1>2
  <1>4. Placed(P)'
        BY <1>1, <1>3 DEF Placed
  <1>5. Phases'
        BY <1>1, p # <<>>, Typed DEF Phases
  <1> QED BY <1>1, <1>2, <1>4, <1>5

(* The next packet of the stream arrives.                                  *)
LEMMA PacketArrives ==
  ASSUME Types, Place, NEW n \in Sizes, Packet(n)
  PROVE  /\ Types' /\ Place' /\ stream' = stream /\ half' = half /\ used' = used /\ got' = got
         /\ rest' = packet' /\ pc' = "start" /\ before' = Len(got) /\ packet' # <<>>
         /\ pc = "idle" /\ sent' = sent + n /\ n \in Nat /\ n > 0 /\ Len(packet') = n
         /\ lost' = lost /\ duplicated' = duplicated /\ clean' = (clean /\ CleanCut(packet'))
         /\ \E P \in Nat : P = sent /\ Placed(P)'
  <1>1. n \in Nat /\ n > 0
        BY EnvAssumption
  <1>2. stream \in Streams /\ sent \in Nat /\ sent + n <= Len(Bytes[stream])
        BY DEF Types, Packet
  <1>3. PICK P \in Nat : P = sent
        BY <1>2
  <1> DEFINE p == SubSeq(Bytes[stream], sent + 1, sent + n)
  <1>4. Run(stream, p, P) /\ Len(p) = n
        BY <1>1, <1>2, <1>3, CutOut
  <1>5. /\ Arrive(p) /\ clean' = (clean /\ CleanCut(p)) /\ sent' = sent + n /\ lost' = lost
        /\ duplicated' = duplicated /\ pc = "idle"
        BY DEF Packet
  <1> HIDE DEF p
  <1>6. p # <<>>
        BY <1>1, <1>4
  <1>7. /\ stream' = stream /\ half' = half /\ used' = used /\ got' = got
        /\ packet' = p /\ rest' = p /\ pc' = "start" /\ before' = Len(got)
        /\ packet' \in Seq(Byte(stream)) /\ before' \in Nat /\ Placed(P)' /\ Phases'
        BY <1>4, <1>5, <1>6, Arrives
  <1>8. CleanCut(p) \in BOOLEAN /\ CleanCut(packet') = CleanCut(p)
        BY <1>7 DEF CleanCut
  <1>9. Types'
    <2>1. /\ stream' \in Streams /\ sent' \in Nat /\ sent' <= Len(Bytes[stream'])
          /\ half' \in [1 .. Cap -> Parts'] /\ used' \in Nat /\ got' \in Seq(0 .. Len(stream'))
          /\ clean' \in BOOLEAN /\ lost' \in Nat /\ duplicated' \in Nat
          BY <1>1, <1>2, <1>5, <1>7, <1>8 DEF Types, Parts
    <2>2. Len(got) <= Len(got')
          BY <1>7, Typed
    <2> QED BY <1>7, <2>1, <2>2 DEF Types
  <1>10. Place'
         BY <1>7 DEF Place
  <1> QED BY <1>1, <1>3, <1>4, <1>5, <1>6, <1>7, <1>8, <1>9, <1>10

(* The packet arrives again.                                               *)
LEMMA DuplicateArrives ==
  ASSUME Types, Place, Duplicate
  PROVE  /\ Types' /\ Place' /\ stream' = stream /\ half' = half /\ used' = used /\ got' = got
         /\ packet' = packet /\ rest' = packet /\ pc' = "start" /\ before' = Len(got) /\ packet # <<>>
         /\ duplicated' = duplicated + 1 /\ clean' = FALSE /\ sent' = sent
         /\ \A P \in Nat : Run(stream, packet, P) => Placed(P)'
  <1>1. PICK Q \in Nat : Run(stream, packet, Q)
        BY DEF Place, Placed
  <1>2. Arrive(packet) /\ pc = "idle" /\ packet # <<>> /\ duplicated' = duplicated + 1 /\ clean' = FALSE /\ sent' = sent /\ lost' = lost
        BY DEF Duplicate
  <1>3. /\ stream' = stream /\ half' = half /\ used' = used /\ got' = got
        /\ packet' = packet /\ rest' = packet /\ pc' = "start" /\ before' = Len(got)
        /\ packet' \in Seq(Byte(stream)) /\ before' \in Nat /\ Placed(Q)' /\ Phases'
        BY <1>1, <1>2, Arrives
  <1>4. ASSUME NEW P \in Nat, Run(stream, packet, P) PROVE Placed(P)'
        BY <1>2, <1>4, Arrives
  <1>5. Types'
    <2>1. /\ stream' \in Streams /\ sent' \in Nat /\ sent' <= Len(Bytes[stream'])
          /\ half' \in [1 .. Cap -> Parts'] /\ used' \in Nat /\ got' \in Seq(0 .. Len(stream'))
          /\ clean' \in BOOLEAN /\ lost' \in Nat /\ duplicated' \in Nat
      <3>1. /\ stream \in Streams /\ sent \in Nat /\ sent <= Len(Bytes[stream])
            /\ half \in [1 .. Cap -> Parts] /\ used \in Nat /\ got \in Seq(0 .. Len(stream))
            /\ lost \in Nat /\ duplicated \in Nat
            BY DEF Types
      <3>2. duplicated' \in Nat /\ clean' \in BOOLEAN
        <4>1. duplicated' = duplicated + 1
              BY <1>2, Zenon
        <4>2. duplicated' \in Nat
              BY <3>1, <4>1
        <4>3. clean' \in BOOLEAN
              BY <1>2, Zenon
        <4> QED BY <4>2, <4>3, Zenon
      <3>3. Parts' = Parts
            BY <1>3 DEF Parts
      <3> QED BY <1>2, <1>3, <3>1, <3>2, <3>3
    <2>2. Len(got) <= Len(got')
          BY <1>3, Typed
    <2> QED BY <1>3, <2>1, <2>2 DEF Types
  <1>6. Place'
        BY <1>3 DEF Place
  <1> QED BY <1>2, <1>3, <1>4, <1>5, <1>6

(* The capture misses a packet.                                            *)
LEMMA LoseMisses ==
  ASSUME Types, Place, NEW n \in Sizes, Lose(n)
  PROVE  /\ Types' /\ Place' /\ UNCHANGED <<stream, packet, rest, half, used, pc, got, before, duplicated>>
         /\ lost' = lost + 1 /\ clean' = FALSE
         /\ \A P \in Nat : Placed(P) => Placed(P)'
  <1>1. n \in Nat
        BY EnvAssumption
  <1>2. /\ UNCHANGED <<stream, packet, rest, half, used, pc, got, before, duplicated>>
        /\ lost' = lost + 1 /\ clean' = FALSE /\ sent' = sent + n /\ sent + n <= Len(Bytes[stream])
        BY DEF Lose
  <1>3. Types'
    <2>1. sent' \in Nat /\ lost' \in Nat /\ clean' \in BOOLEAN /\ sent' <= Len(Bytes[stream])
      <3>1. lost \in Nat /\ sent \in Nat
            BY DEF Types
      <3>2. lost' = lost + 1 /\ sent' = sent + n /\ sent + n <= Len(Bytes[stream])
            BY <1>2, Zenon
      <3>3. lost' \in Nat /\ sent' \in Nat /\ sent' <= Len(Bytes[stream])
            BY <1>1, <3>1, <3>2
      <3>4. clean' \in BOOLEAN
            BY <1>2, Zenon
      <3> QED BY <3>3, <3>4, Zenon
    <2>2. Parts' = Parts /\ Byte(stream)' = Byte(stream)
          BY <1>2 DEF Parts
    <2> QED BY <1>2, <2>1, <2>2 DEF Types
  <1>4. \A P \in Nat : Placed(P) => Placed(P)'
        BY <1>2 DEF Placed
  <1>5. Phases'
        BY <1>2 DEF Phases, Place
  <1> QED BY <1>2, <1>3, <1>4, <1>5 DEF Place

(* Every step keeps types and places.                                      *)
LEMMA BasicNext ==
  ASSUME Types, Place, [Next]_vars
  PROVE  Types' /\ Place'
  <1>1. CASE \E n \in Sizes : Packet(n)
        BY <1>1, PacketArrives
  <1>2. CASE \E n \in Sizes : Lose(n)
        BY <1>2, LoseMisses
  <1>3. CASE Duplicate
        BY <1>3, DuplicateArrives
  <1>4. CASE OnData_lv1
        BY <1>4, HandlerMoves
  <1>5. CASE Quiet \/ UNCHANGED vars
        BY <1>5, Still DEF Quiet
  <1> QED BY <1>1, <1>2, <1>3, <1>4, <1>5 DEF Next

(* Every variable has its type, and packet and rest lie in the stream.     *)
LEMMA Basic == Spec => [](Types /\ Place)
  <1>1. Init => Types /\ Place
        BY BasicInit
  <1>2. Types /\ Place /\ [Next]_vars => (Types /\ Place)'
        BY BasicNext
  <1> QED BY <1>1, <1>2, PTL DEF Spec

---------------------------------------------------------------------------
(* The buffer holds less than one message: what is put into it.            *)

(* The lengths, seen from the buffer.                                      *)
LEMMA Room ==
  /\ HeadLen \in 1 .. Cap /\ MarkLen \in 1 .. HeadLen /\ Cap \in Nat /\ MarkLen < HeadLen /\ HeadLen \in Nat
  /\ HeadLen < LenOf["mapping"] /\ LenOf["mapping"] \in Nat /\ LenOf["mapping"] <= Cap
  <1>1. "mapping" \in Kinds /\ "mapping" # "index"
        BY DEF Kinds
  <1> QED BY <1>1, Sizing

\* n bytes of a buffer: less than a message, as far as they tell.
Short(mem, n) ==
  /\ \E K \in Kinds : n < LenOf[K]
  /\ n >= HeadLen => /\ MarkAt(mem) => n < LenOf["mapping"]
                     /\ HeadAt(mem) # 0 => Kind(HeadAt(mem)) # "index" /\ n < LenOf[Kind(HeadAt(mem))]

\* The buffer holds less than one message, if the stream is orderly.
HalfShort == Orderly(Bytes[stream]) => pc # "undefined" /\ Short(half, used)

(* What a step leaves in the buffer.                                       *)
LEMMA ShortNext ==
  ASSUME stream' = stream, NEW mem, NEW n, half' = mem, used' = n, Orderly(Bytes[stream]) => pc' # "undefined" /\ Short(mem, n)
  PROVE  HalfShort'
  <1>1. Orderly(Bytes[stream])' = Orderly(Bytes[stream])
        BY DEF Orderly
  <1>2. Short(half, used)' = Short(mem, n)
        BY DEF Short, MarkAt, HeadAt, Kind
  <1> QED BY <1>1, <1>2 DEF HalfShort

(* An empty buffer holds less than a message.                              *)
LEMMA ShortNone ==
  ASSUME NEW mem
  PROVE  Short(mem, 0)
  <1>1. "quota" \in Kinds
        BY DEF Kinds
  <1>2. 0 < LenOf["quota"] /\ ~(0 >= HeadLen)
        BY <1>1, Sizing
  <1> QED BY <1>1, <1>2 DEF Short

(* Two buffers that start the same.                                        *)
LEMMA SameHead ==
  ASSUME NEW a, NEW b, Len(a) = Cap, Len(b) = Cap, \A i \in 1 .. HeadLen : a[i] = b[i]
  PROVE  HeadAt(a) = HeadAt(b) /\ (MarkAt(a) <=> MarkAt(b))
  <1>1. \A i \in 1 .. MarkLen : i \in 1 .. HeadLen
        BY Room
  <1>2. HeadLen \in 1 .. HeadLen
        BY Room
  <1>3. \A i \in 1 .. MarkLen : a[i] = b[i]
        BY <1>1
  <1>4. HeadAt(a) = HeadAt(b)
        BY <1>2 DEF HeadAt
  <1>5. MarkAt(a) <=> MarkAt(b)
        BY <1>3 DEF MarkAt
  <1> QED BY <1>4, <1>5

\* A head is not a mark.
LEMMA HeadNoMark ==
  ASSUME NEW mem, HeadAt(mem) # 0
  PROVE  ~MarkAt(mem)
  <1>1. 1 \in 1 .. HeadLen /\ 1 \in 1 .. MarkLen
        BY Room
  <1>2. Kind(mem[1][1]) \notin {"none", "mapping", "other"}
        BY <1>1 DEF HeadAt
  <1> QED BY <1>1, <1>2 DEF MarkAt

(* What is left of a packet, put into the buffer.                          *)
LEMMA ShortStash ==
  ASSUME Types, Place, NEW x, NEW P, Run(stream, x, P),
         x # <<>> => x[1][2] = 1 /\ Len(x) < LenOf[stream[x[1][1]]]
  PROVE  Short(Written(half, 0, x), Len(x)) /\ Len(x) <= Cap
  <1>1. stream \in Streams /\ half \in [1 .. Cap -> Parts] /\ x \in Seq(Byte(stream)) /\ Len(x) \in Nat
        BY Typed, LenProperties DEF Run
  <1>2. CASE x = <<>>
    <2>1. Len(x) = 0
          BY <1>2
    <2> QED BY <2>1, ShortNone, Room
  <1>3. CASE x # <<>>
    <2> DEFINE k == x[1][1]
               w == Written(half, 0, x)
               n == Len(x)
    <2>1. n > 0 /\ x[1][2] = 1 /\ n < LenOf[stream[k]]
          BY <1>1, <1>3
    <2>2. k \in 1 .. Len(stream) /\ \A i \in 1 .. n : i <= LenOf[stream[k]] => x[i] = <<k, i>>
          BY <1>1, <2>1, Message
    <2>3. stream[k] \in Kinds /\ LenOf[stream[k]] \in Nat /\ LenOf[stream[k]] <= Cap
          BY <1>1, <2>2, Stream
    <2>4. Len(w) = Cap /\ \A i \in 1 .. n : w[i] = x[i]
      <3>1. x \in Seq(Parts)
        <4>1. \A i \in 1 .. Len(x) : x[i] \in Parts
              BY <1>1, DropNone DEF Parts
        <4> QED BY <1>1, <4>1, Retyped
      <3>2. /\ Len(Written(half, 0, x)) = Cap
            /\ \A i \in 1 .. Cap : i > 0 /\ i <= 0 + Len(x) => i - 0 \in 1 .. Len(x) /\ Written(half, 0, x)[i] = x[i - 0]
        <4>1. 0 \in Nat
              OBVIOUS
        <4> QED BY <1>1, <3>1, <4>1, Writing
      <3>3. \A i \in 1 .. n : i \in 1 .. Cap /\ i > 0 /\ i <= 0 + Len(x) /\ i - 0 = i
            BY <1>1, <2>1, <2>3, Room
      <3> QED BY <3>2, <3>3
    <2> HIDE DEF w, n, k
    <2>5. \A i \in 1 .. n : i <= LenOf[stream[k]] => w[i] = <<k, i>>
          BY <2>2, <2>4
    <2>6. n \in Nat /\ n <= Len(w) /\ Len(w) \in Nat
          BY <1>1, <2>1, <2>3, <2>4, Room DEF n
    <2>7. /\ n >= MarkLen => (MarkAt(w) <=> stream[k] = "mapping")
          /\ n >= HeadLen => HeadAt(w) = IF stream[k] \in {"mapping", "other"} THEN 0 ELSE k
          BY <1>1, <2>2, <2>5, <2>6, Recognised
    <2>8. n >= HeadLen => n >= MarkLen
          BY <2>6, Room
    <2>9. n >= HeadLen => stream[k] # "index"
          BY <2>1, <2>6, <2>3, Sizing
    <2>10. HeadAt(w) = k => Kind(HeadAt(w)) = stream[k]
          BY <1>1, <2>2, Stream DEF Kind
    <2>11. Short(w, n)
          BY <2>1, <2>3, <2>7, <2>8, <2>9, <2>10 DEF Short
    <2>12. n <= Cap
          BY <2>1, <2>3, <2>6, Room
    <2> QED BY <2>11, <2>12 DEF w, n
  <1> QED BY <1>2, <1>3

(* What is cut off is less than a message; what is not cut is whole.       *)
LEMMA Cuts ==
  ASSUME Types, Place, pc = "loop", rest # <<>>
  PROVE  /\ rest[1][2] = 1 /\ rest[1][1] \in 1 .. Len(stream)
         /\ Cut => Len(rest) < LenOf[stream[rest[1][1]]]
         /\ ~Cut => Len(rest) >= HeadLen
         /\ ~Cut /\ stream[rest[1][1]] \in {"mapping", "time", "static", "quota"}
               => Len(rest) >= LenOf[stream[rest[1][1]]]
         /\ ~Cut /\ ~Starts(rest) => stream[rest[1][1]] = "other"
  <1> DEFINE k == rest[1][1]
  <1>1. PICK P \in Nat : Run(stream, rest, P)
        BY Typed
  <1>2. stream \in Streams /\ Len(rest) \in Nat /\ Len(rest) > 0 /\ rest[1][2] = 1
        BY Typed DEF Phases
  <1>3. k \in 1 .. Len(stream)
        BY <1>1, <1>2, Message
  <1>4. stream[k] \in Kinds /\ LenOf[stream[k]] \in Nat /\ HeadLen <= LenOf[stream[k]]
        BY <1>2, <1>3, Stream
  <1>5. /\ MarkAt(rest) <=> Len(rest) >= MarkLen /\ stream[k] = "mapping"
        /\ HeadAt(rest) = IF Len(rest) >= HeadLen /\ stream[k] \notin {"mapping", "other"} THEN k ELSE 0
        /\ Len(rest) >= HeadLen => Kind(HeadAt(rest)) = IF stream[k] \notin {"mapping", "other"} THEN stream[k] ELSE "none"
        /\ Len(rest) < HeadLen => Kind(HeadAt(rest)) = "none"
        BY <1>1, <1>2, Reading
  <1> HIDE DEF k
  <1>6. HeadLen \in Nat /\ MarkLen \in Nat /\ MarkLen < HeadLen
        BY Room
  <1>7. ASSUME Cut PROVE Len(rest) < LenOf[stream[k]]
    <2>1. CASE Len(rest) < HeadLen
          BY <1>2, <1>4, <1>6, <2>1
    <2>2. CASE MarkAt(rest) /\ Len(rest) < LenOf["mapping"]
          BY <1>5, <2>2
    <2>3. CASE Kind(HeadAt(rest)) \in {"time", "static", "quota"} /\ Len(rest) < LenOf[Kind(HeadAt(rest))]
      <3>1. Kind(HeadAt(rest)) # "none"
            BY <2>3
      <3>2. Len(rest) >= HeadLen
            BY <1>2, <1>5, <1>6, <3>1
      <3>3. Kind(HeadAt(rest)) = stream[k]
            BY <1>5, <3>1, <3>2
      <3> QED BY <2>3, <3>3
    <2> QED BY <1>7, <2>1, <2>2, <2>3 DEF Cut
  <1>8. ASSUME ~Cut PROVE Len(rest) >= HeadLen
        BY <1>2, <1>6, <1>8 DEF Cut
  <1>9. ASSUME ~Cut, stream[k] \in {"mapping", "time", "static", "quota"} PROVE Len(rest) >= LenOf[stream[k]]
    <2>1. Len(rest) >= HeadLen /\ Len(rest) >= MarkLen
          BY <1>2, <1>6, <1>8, <1>9
    <2>2. CASE stream[k] = "mapping"
      <3>1. MarkAt(rest)
            BY <1>5, <2>1, <2>2
      <3>2. ~(Len(rest) < LenOf["mapping"])
            BY <1>9, <3>1 DEF Cut
      <3> QED BY <1>2, <1>4, <2>2, <3>2
    <2>3. CASE stream[k] # "mapping"
      <3>1. Kind(HeadAt(rest)) = stream[k]
            BY <1>5, <1>9, <2>1, <2>3
      <3>2. ~(Len(rest) < LenOf[stream[k]])
            BY <1>9, <2>3, <3>1 DEF Cut
      <3> QED BY <1>2, <1>4, <3>2
    <2> QED BY <2>2, <2>3
  <1>10. ASSUME ~Cut, ~Starts(rest) PROVE stream[k] = "other"
    <2>1. Len(rest) >= HeadLen /\ Len(rest) >= MarkLen
          BY <1>2, <1>6, <1>8, <1>10
    <2>2. ~MarkAt(rest) /\ HeadAt(rest) = 0
          BY <1>10 DEF Starts
    <2>3. k # 0
          BY <1>2, <1>3, Stream
    <2> QED BY <1>5, <2>1, <2>2, <2>3
  <1> QED BY <1>2, <1>3, <1>7, <1>8, <1>9, <1>10 DEF k

(* A part of what is orderly is orderly.                                   *)
LEMMA OrderlyPart ==
  ASSUME NEW S, NEW T, NEW y \in Seq(S), NEW x \in Seq(T), Orderly(y), NEW e \in Nat, e + Len(x) <= Len(y),
         \A i \in 1 .. Len(x) : x[i] = y[e + i]
  PROVE  Orderly(x)
  <1>1. Len(x) \in Nat /\ Len(y) \in Nat /\ DOMAIN x = 1 .. Len(x) /\ DOMAIN y = 1 .. Len(y) /\ HeadLen \in Nat
        BY LenProperties, Room
  <1>2. ASSUME NEW i \in 1 .. Len(x) PROVE stream[x[i][1]] # "other"
    <2>1. e + i \in 1 .. Len(y) /\ x[i] = y[e + i]
          BY <1>1
    <2> QED BY <1>1, <2>1 DEF Orderly
  <1>3. ASSUME NEW i \in 1 .. Len(x), i + HeadLen <= Len(x), x[i][2] = 1, stream[x[i][1]] = "index"
        PROVE  stream[x[i + HeadLen][1]] = "mapping"
    <2>1. e + i \in 1 .. Len(y) /\ x[i] = y[e + i] /\ i + HeadLen \in 1 .. Len(x)
          BY <1>1, <1>3
    <2>2. (e + i) + HeadLen <= Len(y) /\ e + (i + HeadLen) = (e + i) + HeadLen
          BY <1>1, <1>3
    <2>3. stream[y[(e + i) + HeadLen][1]] = "mapping"
          BY <1>1, <1>3, <2>1, <2>2 DEF Orderly
    <2>4. x[i + HeadLen] = y[(e + i) + HeadLen]
          BY <2>1, <2>2
    <2> QED BY <2>3, <2>4
  <1> QED BY <1>1, <1>2, <1>3 DEF Orderly

---------------------------------------------------------------------------
(* The buffer holds less than one message: the steps.                      *)

(* What is left of an orderly packet is orderly.                           *)
LEMMA OrderlyRest ==
  ASSUME Types, Place, Orderly(Bytes[stream]) \/ Orderly(packet)
  PROVE  Orderly(rest)
  <1>1. stream \in Streams /\ rest \in Seq(Byte(stream)) /\ packet \in Seq(Byte(stream))
        BY DEF Types
  <1>2. PICK P \in Nat : Placed(P)
        BY DEF Place
  <1>3. Len(rest) \in Nat /\ Len(packet) \in Nat
        BY <1>1, LenProperties
  <1> DEFINE e == Len(packet) - Len(rest)
             Q == P + e
  <1>4. e \in Nat /\ Q \in Nat /\ e + Len(rest) = Len(packet)
        BY <1>2, <1>3 DEF Placed
  <1>5. Run(stream, packet, P) /\ Run(stream, rest, Q)
        BY <1>2 DEF Placed
  <1>6. CASE Orderly(Bytes[stream])
    <2> DEFINE y == Bytes[stream]
    <2> HIDE DEF e, Q
    <2>1. y \in Seq(Byte(stream)) /\ Q + Len(rest) <= Len(y) /\ \A i \in 1 .. Len(rest) : rest[i] = y[Q + i]
          BY <1>1, <1>5, Stream DEF Run
    <2>2. Orderly(y)
          BY <1>6
    <2> HIDE DEF y
    <2> QED BY <1>1, <1>4, <2>1, <2>2, OrderlyPart
  <1>7. CASE Orderly(packet)
    <2>1. \A i \in 1 .. Len(rest) : rest[i] = packet[e + i]
      <3> TAKE i \in 1 .. Len(rest)
      <3>1. e + i \in 1 .. Len(packet) /\ Q + i = P + (e + i)
            BY <1>2, <1>3, <1>4
      <3> HIDE DEF e, Q
      <3>2. rest[i] = Bytes[stream][Q + i] /\ packet[e + i] = Bytes[stream][P + (e + i)]
            BY <1>5, <3>1 DEF Run
      <3> QED BY <3>1, <3>2
    <2> HIDE DEF e, Q
    <2>2. e + Len(rest) <= Len(packet)
          BY <1>3, <1>4
    <2> QED BY <1>1, <1>4, <1>7, <2>1, <2>2, OrderlyPart
  <1> QED BY <1>6, <1>7

\* In what is orderly a mapping follows an index.
LEMMA IndexThenMapping ==
  ASSUME Types, Place, pc = "loop", ~Cut, Kind(HeadAt(rest)) = "index", Orderly(rest), Drop(rest, HeadLen) # <<>>
  PROVE  stream[Drop(rest, HeadLen)[1][1]] = "mapping"
  <1>1. /\ Len(rest) >= HeadLen /\ rest[1][2] = 1 /\ stream[rest[1][1]] = "index" /\ rest # <<>>
    <2>1. rest # <<>> /\ Len(rest) >= HeadLen /\ stream[rest[1][1]] = "index"
          BY IndexFront
    <2> QED BY <2>1, Typed DEF Phases
  <1>2. rest \in Seq(Parts) /\ Len(rest) \in Nat /\ DOMAIN rest = 1 .. Len(rest)
        BY Typed, LenProperties
  <1>3. HeadLen \in Nat /\ HeadLen > 0
        BY Room
  <1> DEFINE z == Drop(rest, HeadLen)
  <1>4. /\ HeadLen <= Len(rest) => Len(z) = Len(rest) - HeadLen
        /\ HeadLen >= Len(rest) => z = <<>>
        BY <1>2, <1>3, Dropped
  <1>11. \A i \in 1 .. Len(z) : z[i] = rest[i + HeadLen]
        BY <1>2, <1>3, Dropped
  <1>5. z # <<>>
        OBVIOUS
  <1> HIDE DEF z
  <1>12. Len(rest) \in Nat
        BY <1>2
  <1>9. HeadLen < Len(rest)
        BY <1>3, <1>4, <1>5, <1>12
  <1>10. Len(z) = Len(rest) - HeadLen
        BY <1>3, <1>4, <1>9, <1>12
  <1>6. HeadLen < Len(rest) /\ 1 \in 1 .. Len(z) /\ 1 + HeadLen <= Len(rest) /\ 1 \in 1 .. Len(rest)
        BY <1>2, <1>3, <1>9, <1>10
  <1>7. stream[rest[1 + HeadLen][1]] = "mapping"
        BY <1>1, <1>2, <1>6 DEF Orderly
  <1>8. z[1] = rest[1 + HeadLen]
        BY <1>6, <1>11
  <1> QED BY <1>7, <1>8 DEF z

\* What is put into the buffer behind an index head is less than a mapping.
LEMMA IndexStash ==
  ASSUME Types, Place, pc = "loop", ~Cut, Kind(HeadAt(rest)) = "index", Orderly(rest),
         ~(MarkAt(Drop(rest, HeadLen)) /\ Len(Drop(rest, HeadLen)) >= LenOf["mapping"]), Drop(rest, HeadLen) # <<>>
  PROVE  /\ Drop(rest, HeadLen)[1][2] = 1 /\ stream[Drop(rest, HeadLen)[1][1]] = "mapping"
         /\ Len(Drop(rest, HeadLen)) < LenOf["mapping"]
  <1> DEFINE z == Drop(rest, HeadLen)
  <1>1. z[1][2] = 1 /\ \E P \in Nat : Run(stream, z, P)
        BY IndexFront
  <1>2. stream[z[1][1]] = "mapping"
        BY IndexThenMapping
  <1>3. z \in Seq(Byte(stream)) /\ Len(z) \in Nat /\ z # <<>>
        BY <1>1, LenProperties DEF Run
  <1>4. ~(MarkAt(z) /\ Len(z) >= LenOf["mapping"])
        OBVIOUS
  <1> HIDE DEF z
  <1>5. Len(z) > 0 /\ stream \in Streams
        BY <1>3, Typed
  <1>6. MarkAt(z) <=> Len(z) >= MarkLen
    <2>1. PICK P \in Nat : Run(stream, z, P)
          BY <1>1
    <2> QED BY <1>1, <1>2, <1>5, <2>1, Reading
  <1>7. LenOf["mapping"] \in Nat /\ MarkLen \in Nat /\ MarkLen < LenOf["mapping"]
        BY Room
  <1>8. Len(z) < LenOf["mapping"]
        BY <1>3, <1>4, <1>6, <1>7
  <1> QED BY <1>1, <1>2, <1>8 DEF z

\* Bytes added to the half before it is whole.
LEMMA GrowsShort ==
  ASSUME Types, Place, HalfShort, Orderly(Bytes[stream]), HalfGrows
  PROVE  Short(half', used') /\ used' <= Cap
  <1> DEFINE K == HalfKind
             w == Written(half, used, rest)
             n == used + Len(rest)
  <1>1. /\ rest \in Seq(Parts) /\ Len(rest) \in Nat /\ used \in Nat /\ half \in [1 .. Cap -> Parts]
        BY Typed
  <1>2. K # "none" /\ K # "index" /\ StillHalf /\ half' = w /\ used' = n
        BY DEF HalfGrows
  <1>3. K \in Kinds /\ LenOf[K] \in Nat /\ HeadLen <= LenOf[K] /\ LenOf[K] <= Cap
        BY <1>2, HalfLength
  <1>4. Short(half, used)
        BY DEF HalfShort
  <1>5. Len(Peeked) = Cap /\ Len(half) = Cap
    <2>1. DOMAIN half = 1 .. Cap /\ Cap \in Nat
          BY <1>1, Room
    <2> QED BY <2>1, Looking
  <1>6. K = IF Kind(HeadAt(Peeked)) # "index" /\ MarkAt(Peeked) THEN "mapping" ELSE Kind(HeadAt(Peeked))
        BY DEF HalfKind
  <1>7. Kind(HeadAt(Peeked)) # "index"
        BY <1>2, <1>6
  <1>8. MarkAt(Peeked) => K = "mapping"
        BY <1>6, <1>7
  <1>9. ~MarkAt(Peeked) => K = Kind(HeadAt(Peeked)) /\ HeadAt(Peeked) # 0
        BY <1>2, <1>6 DEF Kind
  <1> HIDE DEF K, w, n
  <1>10. n < LenOf[K]
    <2>1. Len(rest) < LenOf[K] - used
      <3>1. SUFFICES ASSUME LenOf[K] - used < 0 PROVE FALSE
            BY <1>2 DEF StillHalf, Missing, K
      <3>2. used >= HeadLen /\ ~(used < LenOf[K])
            BY <1>1, <1>3, <3>1, Room
      <3>3. \A i \in 1 .. HeadLen : Peeked[i] = half[i]
        <4> TAKE i \in 1 .. HeadLen
        <4>1. i \in 1 .. Cap /\ i <= used
              BY <1>1, <3>2, Room
        <4> QED BY <4>1, Looking
      <3>4. HeadAt(Peeked) = HeadAt(half) /\ (MarkAt(Peeked) <=> MarkAt(half))
            BY <1>5, <3>3, SameHead
      <3> QED BY <1>4, <1>8, <1>9, <3>2, <3>4 DEF Short
    <2> QED BY <1>1, <1>3, <2>1 DEF n
  <1>11. n \in Nat /\ n <= Cap
         BY <1>1, <1>3, <1>10, Room DEF n
  <1>12. ASSUME n >= HeadLen PROVE HeadAt(w) = HeadAt(Peeked) /\ (MarkAt(w) <=> MarkAt(Peeked))
    <2>1. /\ Len(w) = Cap
          /\ \A i \in 1 .. Cap : i <= used => w[i] = half[i]
          /\ \A i \in 1 .. Cap : i > used /\ i <= used + Len(rest) => i - used \in 1 .. Len(rest) /\ w[i] = rest[i - used]
          BY <1>1, Writing DEF w
    <2>2. \A i \in 1 .. HeadLen : w[i] = Peeked[i]
      <3> TAKE i \in 1 .. HeadLen
      <3>1. i \in 1 .. Cap
            BY Room
      <3>2. CASE i <= used
            BY <2>1, <3>1, <3>2, Looking
      <3>3. CASE i > used
        <4>1. i <= used + Len(rest)
              BY <1>1, <1>12, Room DEF n
        <4> QED BY <2>1, <3>1, <3>3, <4>1, Looking
      <3> QED BY <1>1, <3>2, <3>3
    <2> QED BY <1>5, <2>1, <2>2, SameHead
  <1>13. Short(w, n)
    <2>1. \E kind \in Kinds : n < LenOf[kind]
          BY <1>3, <1>10
    <2>2. ASSUME n >= HeadLen, MarkAt(w) PROVE n < LenOf["mapping"]
          BY <1>8, <1>10, <1>12, <2>2
    <2>3. ASSUME n >= HeadLen, HeadAt(w) # 0 PROVE Kind(HeadAt(w)) # "index" /\ n < LenOf[Kind(HeadAt(w))]
      <3>1. HeadAt(w) = HeadAt(Peeked) /\ ~MarkAt(Peeked)
            BY <1>12, <2>3, HeadNoMark
      <3>2. K = Kind(HeadAt(w))
            BY <1>9, <3>1
      <3> QED BY <1>2, <1>10, <3>2 DEF K
    <2> QED BY <2>1, <2>2, <2>3 DEF Short
  <1> QED BY <1>2, <1>11, <1>13

(* An index head is never behind in the buffer.                            *)
LEMMA IndexShort ==
  ASSUME Types, Place, HalfShort, Orderly(Bytes[stream]), HalfIndex
  PROVE  used <= HeadLen
  <1>1. used \in Nat /\ half \in [1 .. Cap -> Parts]
        BY Typed
  <1>2. SUFFICES ASSUME used > HeadLen PROVE FALSE
        BY <1>1, Room
  <1>3. Len(Peeked) = Cap /\ Len(half) = Cap
    <2>1. DOMAIN half = 1 .. Cap /\ Cap \in Nat
          BY <1>1, Room
    <2> QED BY <2>1, Looking
  <1>4. \A i \in 1 .. HeadLen : Peeked[i] = half[i]
    <2> TAKE i \in 1 .. HeadLen
    <2>1. i \in 1 .. Cap /\ i <= used
          BY <1>1, <1>2, Room
    <2> QED BY <2>1, Looking
  <1>5. HeadAt(Peeked) = HeadAt(half)
        BY <1>3, <1>4, SameHead
  <1>6. Kind(HeadAt(Peeked)) = "index"
        BY DEF HalfIndex, HalfKind
  <1>7. HeadAt(half) # 0 /\ Kind(HeadAt(half)) = "index"
        BY <1>5, <1>6 DEF Kind
  <1>8. used >= HeadLen
        BY <1>1, <1>2, Room
  <1> QED BY <1>7, <1>8 DEF HalfShort, Short

(* What is put into the buffer is less than a message.                     *)
LEMMA StashShort ==
  ASSUME Types, Place, NEW x, NEW P, Run(stream, x, P), NEW then \in {"idle", "loop"}, Stash(x, then), stream' = stream,
         x # <<>> => x[1][2] = 1 /\ Len(x) < LenOf[stream[x[1][1]]]
  PROVE  HalfShort'
  <1>1. half' = Written(half, 0, x) /\ used' = Len(x) /\ pc' = (IF Len(x) > Cap THEN "undefined" ELSE then)
        BY DEF Stash
  <1>2. Short(Written(half, 0, x), Len(x)) /\ Len(x) <= Cap
        BY ShortStash
  <1>3. Len(x) \in Nat
        BY LenProperties DEF Run
  <1>4. pc' # "undefined"
        BY <1>1, <1>2, <1>3, Room
  <1> QED BY <1>1, <1>2, <1>4, ShortNext

(* Every step of the handler leaves less than a message there.             *)
LEMMA HandlerShort ==
  ASSUME Types, Place, HalfShort, OnData_lv1
  PROVE  HalfShort'
  <1> SUFFICES ASSUME Orderly(Bytes[stream]) PROVE HalfShort'
    <2>1. Moves
          BY HandlerMoves
    <2>2. stream' = stream
          BY <2>1 DEF Moves, net
    <2>3. Orderly(Bytes[stream])' = Orderly(Bytes[stream])
          BY <2>2 DEF Orderly
    <2> QED BY <2>3 DEF HalfShort
  <1>1. Moves /\ Orderly(rest)
        BY HandlerMoves, OrderlyRest
  <1>2. stream' = stream
        BY <1>1 DEF Moves, net
  <1>3. pc # "undefined" /\ Short(half, used) /\ Short(half, 0)
        BY ShortNone DEF HalfShort
  <1>4. ASSUME used' = 0, pc' # "undefined" PROVE HalfShort'
        BY <1>2, <1>4, ShortNext, ShortNone
  <1>5. ASSUME half' = half, used' = used, pc' # "undefined" PROVE HalfShort'
        BY <1>2, <1>3, <1>5, ShortNext
  <1>6. CASE Discard
    <2>1. used' \in {0, used} /\ half' = half /\ pc' # "undefined"
          BY <1>6 DEF Discard
    <2> QED BY <1>4, <1>5, <2>1
  <1>7. CASE HalfComplete
        BY <1>4, <1>7 DEF HalfComplete
  <1>8. CASE HalfGrows
    <2>1. Short(half', used') /\ used' <= Cap
          BY <1>8, GrowsShort
    <2>2. used' \in Nat
          BY <1>1 DEF Moves
    <2>3. pc' # "undefined"
          BY <1>8, <2>1, <2>2, Room DEF HalfGrows
    <2> QED BY <1>2, <2>1, <2>3, ShortNext
  <1>9. CASE HalfIndex
    <2>1. ~(used > HeadLen)
          BY <1>9, IndexShort, Typed, Room
    <2> QED BY <1>4, <1>9, <2>1 DEF HalfIndex
  <1>10. CASE HalfUnknown
         BY <1>4, <1>10 DEF HalfUnknown
  <1>11. CASE Search
         BY <1>5, <1>11, Searching
  <1>12. CASE LoopEnd
         BY <1>5, <1>12 DEF LoopEnd
  <1>13. CASE LoopCut
    <2>1. pc = "loop" /\ rest # <<>> /\ Cut /\ Stash(rest, "idle")
          BY <1>13 DEF LoopCut
    <2>2. PICK P \in Nat : Run(stream, rest, P)
          BY Typed
    <2>3. rest[1][2] = 1 /\ Len(rest) < LenOf[stream[rest[1][1]]]
          BY <2>1, Cuts
    <2> QED BY <1>2, <2>1, <2>2, <2>3, StashShort
  <1>14. CASE LoopMessage
         BY <1>3, <1>5, <1>14 DEF LoopMessage
  <1>15. CASE LoopIndex
    <2> DEFINE z == Drop(rest, HeadLen)
    <2>1. pc = "loop" /\ ~Cut /\ Kind(HeadAt(rest)) = "index"
          BY <1>15 DEF LoopIndex
    <2>2. PICK P \in Nat : Run(stream, z, P)
          BY <2>1, IndexFront
    <2>3. CASE MarkAt(z) /\ Len(z) >= LenOf["mapping"]
          BY <1>3, <1>5, <1>15, <2>3 DEF LoopIndex
    <2>4. CASE ~(MarkAt(z) /\ Len(z) >= LenOf["mapping"])
      <3>1. Stash(z, "loop")
            BY <1>15, <2>4 DEF LoopIndex
      <3>2. z # <<>> => z[1][2] = 1 /\ stream[z[1][1]] = "mapping" /\ Len(z) < LenOf["mapping"]
            BY <1>1, <2>1, <2>4, IndexStash
      <3> HIDE DEF z
      <3> QED BY <1>2, <2>2, <3>1, <3>2, StashShort
    <2> QED BY <2>3, <2>4
  <1>16. CASE LoopUnknown
    <2>1. pc = "loop" /\ rest # <<>> /\ ~Cut /\ ~Starts(rest)
          BY <1>16 DEF LoopUnknown
    <2>2. stream[rest[1][1]] = "other"
          BY <2>1, Cuts
    <2>3. 1 \in DOMAIN rest
          BY <2>1, Typed, LenProperties
    <2> QED BY <1>1, <2>2, <2>3 DEF Orderly
  <1>17. CASE LoopArbitrage
         BY <1>3, <1>5, <1>17 DEF LoopArbitrage, vars
  <1> QED BY <1>6, <1>7, <1>8, <1>9, <1>10, <1>11, <1>12, <1>13, <1>14, <1>15, <1>16, <1>17 DEF OnData_lv1

(* So does every step.                                                     *)
LEMMA ShortStep ==
  ASSUME Types, Place, HalfShort, [Next]_vars
  PROVE  HalfShort'
  <1>1. ASSUME stream' = stream, half' = half, used' = used, pc # "undefined" => pc' # "undefined" PROVE HalfShort'
    <2>1. Orderly(Bytes[stream]) => pc' # "undefined" /\ Short(half, used)
          BY <1>1 DEF HalfShort
    <2> QED BY <1>1, <2>1, ShortNext
  <1>2. CASE \E n \in Sizes : Packet(n)
        BY <1>1, <1>2, PacketArrives
  <1>3. CASE \E n \in Sizes : Lose(n)
        BY <1>1, <1>3, LoseMisses
  <1>4. CASE Duplicate
        BY <1>1, <1>4, DuplicateArrives
  <1>5. CASE OnData_lv1
        BY <1>5, HandlerShort
  <1>6. CASE Quiet \/ UNCHANGED vars
        BY <1>1, <1>6 DEF Quiet, vars
  <1> QED BY <1>2, <1>3, <1>4, <1>5, <1>6 DEF Next

---------------------------------------------------------------------------
(* StreamInv.                                                              *)

(* The buffer holds less than one message in every state.                  *)
LEMMA ShortAlways == Spec => [](Types /\ Place /\ HalfShort)
  <1>1. Init => HalfShort
    <2> SUFFICES ASSUME Init PROVE HalfShort
        OBVIOUS
    <2>1. used = 0 /\ pc = "idle"
          BY DEF Init
    <2>2. Short(half, 0)
          BY ShortNone
    <2> QED BY <2>1, <2>2 DEF HalfShort
  <1>2. Types /\ Place /\ HalfShort /\ [Next]_vars => HalfShort'
        BY ShortStep
  <1> QED BY <1>1, <1>2, BasicInit, BasicNext, PTL DEF Spec

(* In every state the variables have their types, between packets nothing  *)
(* is left unread, and in an orderly stream the buffer is never asked to   *)
(* hold more than one unfinished message, whatever is missed or doubled.   *)
THEOREM Bounded == Spec => []StreamInv
  <1>1. Types /\ Place /\ HalfShort => StreamInv
    <2> SUFFICES ASSUME Types, Place, HalfShort PROVE StreamInv
        OBVIOUS
    <2>1. TypeOK
      <3>1. rest \in Seq(Byte(stream)) /\ got \in Seq(0 .. Len(stream)) /\ Phases
            BY Typed
      <3>2. pc = "idle" => pc # "undefined"
            OBVIOUS
      <3>3. pc = "idle" => rest = <<>> /\ used <= Cap
            BY <3>1, <3>2 DEF Phases
      <3>4. \A i \in DOMAIN got : got[i] \in 0 .. Len(stream)
            BY <3>1, LenProperties, ElementOfSeq
      <3> QED BY <3>1, <3>3, <3>4 DEF TypeOK, Byte
    <2>2. HalfFits
      <3> SUFFICES ASSUME Orderly(Bytes[stream])
                   PROVE  /\ pc # "undefined"
                          /\ \A k \in {LenOf[kind] : kind \in Kinds} :
                                (\A kind \in Kinds : LenOf[kind] <= k) => used < k
          BY DEF HalfFits
      <3>1. pc # "undefined" /\ \E K \in Kinds : used < LenOf[K]
            BY DEF HalfShort, Short
      <3>2. ASSUME NEW k \in {LenOf[kind] : kind \in Kinds}, \A kind \in Kinds : LenOf[kind] <= k PROVE used < k
        <4>1. PICK K \in Kinds : used < LenOf[K]
              BY <3>1
        <4>2. used \in Nat /\ LenOf[K] \in Nat /\ LenOf[K] <= k /\ k \in Nat
              BY <3>2, Typed, Sizing
        <4> QED BY <4>1, <4>2
      <3> QED BY <3>1, <3>2
    <2> QED BY <2>1, <2>2 DEF StreamInv
  <1> QED BY <1>1, ShortAlways, PTL

---------------------------------------------------------------------------
(* Which message is handed over.                                           *)

(* A message handled is the one the packet goes on with.                   *)
LEMMA LoopHands ==
  ASSUME Types, Place, LoopMessage
  PROVE  \E k \in 1 .. Len(stream) :
            /\ rest # <<>> /\ k = rest[1][1] /\ rest[1][2] = 1 /\ LenOf[stream[k]] <= Len(rest)
            /\ got' = With(stream, got, k) /\ rest' = Drop(rest, LenOf[stream[k]])
  <1> DEFINE kind == IF MarkAt(rest) THEN "mapping" ELSE Kind(HeadAt(rest))
             L == LenOf[kind]
             k == rest[1][1]
  <1>1. /\ pc = "loop" /\ rest # <<>> /\ ~Cut /\ kind \in {"mapping", "time", "static", "quota"}
        /\ got' = Handled(kind, SubSeq(rest, 1, L)) /\ rest' = Drop(rest, L)
        BY DEF LoopMessage
  <1>2. kind # "none"
        BY <1>1
  <1> HIDE DEF kind
  <1>3. k \in 1 .. Len(stream) /\ kind = stream[k] /\ L \in Nat
        BY <1>1, <1>2, LoopFront DEF kind
  <1>4. rest[1][2] = 1 /\ L <= Len(rest)
    <2>1. rest[1][2] = 1 /\ Len(rest) >= LenOf[stream[rest[1][1]]]
          BY <1>1, <1>3, Cuts
    <2> QED BY <1>3, <2>1, Typed
  <1>5. MessageOf(SubSeq(rest, 1, L)) = k
    <2>1. PICK P \in Nat : Run(stream, rest, P)
          BY Typed
    <2>2. stream \in Streams /\ Len(rest) \in Nat /\ Len(rest) > 0
          BY <1>1, Typed
    <2>3. \A i \in 1 .. Len(rest) : i <= LenOf[stream[k]] => rest[i] = <<k, i>>
          BY <1>4, <2>1, <2>2, Message
    <2>4. \A i \in 1 .. L : rest[i] = <<k, i>>
      <3> HIDE DEF k
      <3> QED BY <1>3, <1>4, <2>2, <2>3
    <2> HIDE DEF k
    <2> QED BY <1>3, <2>2, <2>4, Handed
  <1>6. got' = With(stream, got, k)
        BY <1>1, <1>3, <1>5 DEF Handled, With
  <1> HIDE DEF k
  <1> QED BY <1>1, <1>3, <1>4, <1>6 DEF k

(* Behind an index head it is the mapping that follows.                    *)
LEMMA IndexHands ==
  ASSUME Types, Place, LoopIndex,
         MarkAt(Drop(rest, HeadLen)) /\ Len(Drop(rest, HeadLen)) >= LenOf["mapping"]
  PROVE  \E k \in 1 .. Len(stream) :
            /\ rest # <<>> /\ k = rest[1][1] /\ rest[1][2] = 1 /\ stream[k] = "index"
            /\ k + 1 \in 1 .. Len(stream) /\ stream[k + 1] = "mapping"
            /\ HeadLen + LenOf["mapping"] <= Len(rest)
            /\ got' = Append(got, k + 1) /\ rest' = Drop(rest, HeadLen + LenOf["mapping"])
            /\ half' = half /\ used' = used /\ pc' = pc
  <1> DEFINE z == Drop(rest, HeadLen)
             L == LenOf["mapping"]
             k == rest[1][1]
             j == z[1][1]
  <1>1. /\ pc = "loop" /\ ~Cut /\ Kind(HeadAt(rest)) = "index"
        /\ got' = Handled("mapping", SubSeq(z, 1, L)) /\ rest' = Drop(z, L)
        /\ half' = half /\ used' = used /\ pc' = pc
        BY DEF LoopIndex
  <1>2. /\ rest # <<>> /\ Len(rest) >= HeadLen /\ k \in 1 .. Len(stream) /\ stream[k] = "index"
        /\ z # <<>> => z[1][2] = 1 /\ j = k + 1
        /\ \E P \in Nat : Run(stream, z, P)
        BY <1>1, IndexFront
  <1>3. rest[1][2] = 1
        BY <1>1, <1>2, Typed DEF Phases
  <1>4. L \in Nat /\ L > HeadLen /\ HeadLen \in Nat /\ stream \in Streams
        BY Room, Typed
  <1>5. rest \in Seq(Parts) /\ Len(rest) \in Nat
        BY Typed
  <1>6. PICK P \in Nat : Run(stream, z, P)
        BY <1>2
  <1>7. MarkAt(z) /\ Len(z) >= L
        OBVIOUS
  <1>14. rest' = Drop(rest, HeadLen + L)
        BY <1>1, <1>4, <1>5, DropDrop
  <1>15. HeadLen <= Len(rest) => Len(z) = Len(rest) - HeadLen
        BY <1>4, <1>5, Dropped
  <1> HIDE DEF z, L
  <1>8. z \in Seq(Byte(stream)) /\ Len(z) \in Nat
        BY <1>6, LenProperties DEF Run
  <1>9. Len(z) > 0 /\ z # <<>>
    <2>1. Len(z) > 0
          BY <1>4, <1>7, <1>8, Sizing
    <2> QED BY <2>1
  <1>10. z[1][2] = 1 /\ j = k + 1
         BY <1>2, <1>9
  <1>11. /\ j \in 1 .. Len(stream) /\ \A i \in 1 .. Len(z) : i <= LenOf[stream[j]] => z[i] = <<j, i>>
         BY <1>4, <1>6, <1>9, <1>10, Message
  <1>12. stream[j] = "mapping"
         BY <1>4, <1>6, <1>7, <1>9, <1>10, Reading
  <1>13. MessageOf(SubSeq(z, 1, L)) = j
    <2>1. L = LenOf[stream[j]]
          BY <1>12 DEF L
    <2>2. \A i \in 1 .. L : z[i] = <<j, i>>
      <3> HIDE DEF j
      <3> QED BY <1>4, <1>7, <1>8, <1>11, <2>1
    <2> HIDE DEF j
    <2> QED BY <1>4, <1>11, <2>1, <2>2, Handed
  <1>16. HeadLen + L <= Len(rest)
    <2>1. Len(rest) >= HeadLen
          BY <1>2
    <2>2. Len(z) = Len(rest) - HeadLen
          BY <1>4, <1>5, <1>15, <2>1
    <2> QED BY <1>4, <1>5, <1>7, <2>2
  <1>17. got' = Append(got, j)
         BY <1>1, <1>13 DEF Handled, Wanted
  <1> HIDE DEF j, k
  <1>18. k + 1 \in 1 .. Len(stream) /\ stream[k + 1] = "mapping" /\ got' = Append(got, k + 1)
         BY <1>10, <1>11, <1>12, <1>17
  <1> QED BY <1>1, <1>2, <1>3, <1>14, <1>16, <1>18 DEF k, L

---------------------------------------------------------------------------
(* What is in the buffer and the rest of the packet belong together while  *)
(* nothing was missed or doubled.                                          *)

\* What is in the buffer and what is left of the packet lie one behind the
\* other in the stream, and end where it has been sent to.
Follows(Q) ==
  /\ Q + used + Len(rest) = sent /\ Run(stream, rest, Q + used)
  /\ \A i \in 1 .. used : half[i] = Bytes[stream][Q + i]

\* There is such a place in the stream.
Joined == \E Q \in Nat : Follows(Q)

(* Bytes of the packet left behind and an empty buffer.                    *)
LEMMA Forward ==
  ASSUME Types, Place, Joined, stream' = stream, sent' = sent, NEW d \in Nat, rest' = Drop(rest, d), used' = 0
  PROVE  Joined'
  <1>1. PICK Q \in Nat : Follows(Q)
        BY DEF Joined
  <1>2. stream \in Streams /\ rest \in Seq(Byte(stream)) /\ Len(rest) \in Nat /\ used \in Nat
        BY Typed
  <1>3. PICK e \in Nat : e <= Len(rest) /\ rest' = Drop(rest, e)
    <2>1. CASE d <= Len(rest)
          BY <2>1
    <2>2. CASE d > Len(rest)
      <3>1. rest' = <<>>
            BY <1>2, <2>2, Dropped
      <3>2. Drop(rest, Len(rest)) = <<>>
            BY <1>2, DropNone
      <3> QED BY <1>2, <3>1, <3>2
    <2> QED BY <1>2, <2>1, <2>2
  <1>4. PICK P \in Nat : P = Q + used
        BY <1>2
  <1>5. Run(stream, Drop(rest, e), P + e) /\ Len(Drop(rest, e)) = Len(rest) - e
        BY <1>1, <1>2, <1>3, <1>4, Runs DEF Follows
  <1>6. PICK R \in Nat : R = P + e
        BY <1>3
  <1>7. R + Len(rest') = sent
        BY <1>1, <1>2, <1>3, <1>4, <1>5, <1>6 DEF Follows
  <1>8. Run(stream, rest', R)
        BY <1>3, <1>5, <1>6
  <1>9. Follows(R)'
    <2>1. R + 0 = R /\ 1 .. 0 = {}
          OBVIOUS
    <2> QED BY <1>7, <1>8, <2>1 DEF Follows, Run
  <1> QED BY <1>9 DEF Joined

(* What is stashed was the last that was sent.                             *)
LEMMA Stashed ==
  ASSUME Types, Place, Joined, stream' = stream, sent' = sent, NEW d \in Nat, d <= Len(rest), used = 0,
         NEW then, Stash(Drop(rest, d), then), pc' # "undefined", then # "undefined"
  PROVE  Joined'
  <1> DEFINE x == Drop(rest, d)
  <1>1. PICK Q \in Nat : Follows(Q)
        BY DEF Joined
  <1>2. stream \in Streams /\ rest \in Seq(Byte(stream)) /\ Len(rest) \in Nat /\ half \in [1 .. Cap -> Parts]
        BY Typed
  <1>3. PICK R \in Nat : R = Q + d
        OBVIOUS
  <1>4. Q + 0 = Q
        OBVIOUS
  <1>5. Q + Len(rest) = sent /\ Run(stream, rest, Q)
    <2>1. Q + 0 + Len(rest) = sent /\ Run(stream, rest, Q + 0)
          BY <1>1 DEF Follows
    <2> QED BY <1>4, <2>1
  <1>6. Run(stream, x, R) /\ Len(x) = Len(rest) - d
        BY <1>2, <1>3, <1>5, Runs
  <1>7. half' = Written(half, 0, x) /\ used' = Len(x) /\ rest' = <<>> /\ pc' = IF Len(x) > Cap THEN "undefined" ELSE then
        BY DEF Stash
  <1> HIDE DEF x
  <1>8. x \in Seq(Byte(stream)) /\ Len(x) \in Nat /\ x \in Seq(Parts)
    <2>1. x \in Seq(Byte(stream)) /\ Byte(stream) \subseteq Parts
          BY <1>6 DEF Run, Parts
    <2> QED BY <2>1, LenProperties, ElementOfSeq
  <1>9. Len(x) <= Cap
        BY <1>7, <1>8, Room
  <1>10. \A i \in 1 .. Len(x) : half'[i] = Bytes[stream][R + i]
    <2> TAKE i \in 1 .. Len(x)
    <2>1. i \in 1 .. Cap /\ i > 0 /\ i <= 0 + Len(x) /\ i - 0 = i
          BY <1>8, <1>9, Room
    <2>2. Written(half, 0, x)[i] = x[i]
      <3>1. 0 \in Nat
            OBVIOUS
      <3>2. \A j \in 1 .. Cap : j > 0 /\ j <= 0 + Len(x) => Written(half, 0, x)[j] = x[j - 0]
            BY <1>2, <1>8, <3>1, Writing
      <3> QED BY <2>1, <3>2
    <2> QED BY <1>6, <1>7, <2>2 DEF Run
  <1>11. R + Len(x) = sent
         BY <1>2, <1>3, <1>5, <1>6
  <1>12. Run(stream, <<>>, R + Len(x))
    <2>1. Drop(x, Len(x)) = <<>>
          BY <1>8, DropNone
    <2>2. stream \in Streams /\ Run(stream, x, R) /\ Len(x) \in Nat /\ Len(x) <= Len(x)
          BY <1>2, <1>6, <1>8
    <2>3. Run(stream, Drop(x, Len(x)), R + Len(x))
          BY <2>2, Runs
    <2> QED BY <2>1, <2>3
  <1>13. R + Len(x) + 0 = sent /\ Len(<<>>) = 0
         BY <1>11, <1>8
  <1>14. Follows(R)'
         BY <1>7, <1>10, <1>12, <1>13 DEF Follows, Run
  <1> QED BY <1>14 DEF Joined

(* Bytes added to the half before it is whole.                             *)
LEMMA Grown ==
  ASSUME Types, Place, Joined, HalfGrows, pc' # "undefined"
  PROVE  Joined'
  <1>1. PICK Q \in Nat : Follows(Q)
        BY DEF Joined
  <1>2. stream \in Streams /\ rest \in Seq(Byte(stream)) /\ rest \in Seq(Parts) /\ Len(rest) \in Nat
        /\ half \in [1 .. Cap -> Parts] /\ used \in Nat
        BY Typed
  <1>3. /\ half' = Written(half, used, rest) /\ used' = used + Len(rest) /\ rest' = <<>>
        /\ pc' = (IF used' > Cap THEN "undefined" ELSE "idle") /\ stream' = stream /\ sent' = sent
        BY DEF HalfGrows, net
  <1>4. used + Len(rest) <= Cap
        BY <1>2, <1>3, Room
  <1>5. Q + used + Len(rest) = sent /\ Run(stream, rest, Q + used) /\ \A i \in 1 .. used : half[i] = Bytes[stream][Q + i]
        BY <1>1 DEF Follows
  <1>6. /\ \A i \in 1 .. Cap : i <= used => Written(half, used, rest)[i] = half[i]
        /\ \A i \in 1 .. Cap : i > used /\ i <= used + Len(rest) =>
              i - used \in 1 .. Len(rest) /\ Written(half, used, rest)[i] = rest[i - used]
        BY <1>2, Writing
  <1>7. \A i \in 1 .. used + Len(rest) : half'[i] = Bytes[stream][Q + i]
    <2> TAKE i \in 1 .. used + Len(rest)
    <2>1. i \in 1 .. Cap
          BY <1>2, <1>4, Room
    <2>2. CASE i <= used
      <3>1. i \in 1 .. used
            BY <1>2, <2>2
      <3> QED BY <1>3, <1>5, <1>6, <2>1, <2>2, <3>1
    <2>3. CASE i > used
      <3>1. i - used \in 1 .. Len(rest) /\ half'[i] = rest[i - used]
            BY <1>2, <1>3, <1>6, <2>1, <2>3
      <3>2. rest[i - used] = Bytes[stream][(Q + used) + (i - used)]
            BY <1>5, <3>1 DEF Run
      <3>3. (Q + used) + (i - used) = Q + i
            BY <1>2
      <3> QED BY <3>1, <3>2, <3>3
    <2> QED BY <1>2, <2>2, <2>3
  <1>8. Run(stream, <<>>, Q + (used + Len(rest)))
    <2>1. PICK P \in Nat : P = Q + used
          BY <1>2
    <2>2. Run(stream, Drop(rest, Len(rest)), P + Len(rest)) /\ Drop(rest, Len(rest)) = <<>>
          BY <1>2, <1>5, <2>1, Runs, DropNone
    <2>3. P + Len(rest) = Q + (used + Len(rest))
          BY <1>2, <2>1
    <2> QED BY <2>2, <2>3
  <1>9. Q + (used + Len(rest)) + 0 = sent /\ Len(<<>>) = 0
        BY <1>2, <1>5
  <1>10. Follows(Q)'
         BY <1>3, <1>7, <1>8, <1>9 DEF Follows, Run
  <1> QED BY <1>10 DEF Joined

(* A half put together is the message it was the start of.                 *)
LEMMA HalfHands ==
  ASSUME Types, Place, NEW Q \in Nat, Follows(Q), HalfComplete
  PROVE  \E k \in 1 .. Len(stream) :
            /\ Q = Off(stream)[k] /\ HalfKind = stream[k] /\ stream[k] # "index"
            /\ used <= LenOf[stream[k]] /\ LenOf[stream[k]] - used \in Nat /\ LenOf[stream[k]] - used <= Len(rest)
            /\ got' = With(stream, got, k) /\ rest' = Drop(rest, LenOf[stream[k]] - used) /\ used' = 0
            /\ pc' = "search"
  <1> DEFINE K == HalfKind
             L == LenOf[K]
             n == used + Len(rest)
             x == Drop(Bytes[stream], Q)
             k == x[1][1]
             w == Written(Peeked, used, SubSeq(rest, 1, L - used))
  <1>1. /\ K # "none" /\ K # "index" /\ ~StillHalf /\ pc = "half"
        /\ half' = w /\ got' = Handled(K, SubSeq(w, 1, L)) /\ rest' = Drop(rest, L - used) /\ used' = 0
        /\ pc' = "search"
        BY DEF HalfComplete, Missing
  <1>2. /\ stream \in Streams /\ Len(rest) \in Nat /\ used \in Nat
        BY Typed
  <1>3. L \in Nat /\ HeadLen <= L /\ L <= Cap /\ L > 0
        BY <1>1, HalfLength
  <1>4. L - used >= 0 /\ L - used <= Len(rest)
    <2>1. ~(L - used < 0) /\ ~(Len(rest) < L - used)
          BY <1>1 DEF StillHalf, Missing
    <2> HIDE DEF L
    <2> QED BY <1>2, <1>3, <2>1
  <1>5. /\ n + Q = sent /\ sent <= Len(Bytes[stream]) /\ sent \in Nat /\ Len(Bytes[stream]) \in Nat
        BY <1>2, Stream DEF Follows, Types
  <1>6. L <= n /\ n \in Nat
    <2> HIDE DEF L
    <2> QED BY <1>2, <1>3, <1>4
  <1>7. Run(stream, x, Q) /\ Len(x) = Len(Bytes[stream]) - Q
    <2>1. Run(stream, Bytes[stream], 0)
      <3>1. \A i \in 1 .. Len(Bytes[stream]) : 0 + i = i
            OBVIOUS
      <3> QED BY <1>2, <1>5, <3>1, Stream DEF Run
    <2>2. Q <= Len(Bytes[stream])
          BY <1>5, <1>6
    <2>3. Run(stream, Drop(Bytes[stream], Q), 0 + Q)
          BY <1>2, <2>1, <2>2, Runs
    <2>4. Len(Drop(Bytes[stream], Q)) = Len(Bytes[stream]) - Q
          BY <1>2, <2>1, <2>2, Runs
    <2> QED BY <2>3, <2>4
  <1> HIDE DEF x
  <1>8. Len(x) \in Nat /\ n <= Len(x)
        BY <1>5, <1>6, <1>7
  <1>9. /\ \A i \in 1 .. used : half[i] = Bytes[stream][Q + i]
        /\ \A i \in 1 .. Len(rest) : rest[i] = Bytes[stream][(Q + used) + i]
        /\ \A i \in 1 .. Len(x) : x[i] = Bytes[stream][Q + i]
        BY <1>7 DEF Follows, Run
  <1> HIDE DEF n
  <1>10. ASSUME NEW i \in 1 .. Len(x) PROVE /\ i <= used => half[i] = x[i]
                                            /\ i > used /\ i - used \in 1 .. Len(rest) => rest[i - used] = x[i]
    <2>1. i <= used => i \in 1 .. used
          BY <1>2
    <2>2. (Q + used) + (i - used) = Q + i
          BY <1>2
    <2> QED BY <1>9, <2>1, <2>2
  <1>11. /\ Peeked \in [1 .. Cap -> Parts] /\ Len(Peeked) = Cap
         /\ \A i \in 1 .. Cap : i <= used => Peeked[i] = half[i]
         /\ \A i \in 1 .. HeadLen : i > used /\ i <= used + Len(rest) => i - used \in 1 .. Len(rest) /\ Peeked[i] = rest[i - used]
         BY Looking
  <1> HIDE DEF K
  <1>12. \A i \in 1 .. HeadLen : Peeked[i] = x[i] /\ i \in 1 .. Len(x)
    <2> TAKE i \in 1 .. HeadLen
    <2>1. i \in 1 .. Cap /\ i \in 1 .. Len(x) /\ i <= n
      <3> HIDE DEF L
      <3> QED BY <1>3, <1>6, <1>8, Room
    <2>2. CASE i <= used
          BY <1>10, <1>11, <2>1, <2>2
    <2>3. CASE i > used
      <3>1. i - used \in 1 .. Len(rest) /\ Peeked[i] = rest[i - used]
            BY <1>11, <2>1, <2>3 DEF n
      <3> QED BY <1>10, <2>1, <2>3, <3>1
    <2> QED BY <1>2, <2>2, <2>3
  <1>13. K = IF Kind(HeadAt(Peeked)) # "index" /\ MarkAt(Peeked) THEN "mapping" ELSE Kind(HeadAt(Peeked))
         BY DEF HalfKind, K
  <1>14. MarkAt(Peeked) \/ HeadAt(Peeked) # 0
         BY <1>1, <1>13 DEF Kind
  <1>15. x[1][2] = 1 /\ Len(x) > 0
    <2>1. Peeked[1][2] = 1
          BY <1>14, FirstByte
    <2>2. 1 \in 1 .. HeadLen
          BY Room
    <2>3. Peeked[1] = x[1] /\ 1 \in 1 .. Len(x)
          BY <1>12, <2>2
    <2> QED BY <1>8, <2>1, <2>3
  <1>16. k \in 1 .. Len(stream) /\ Q = Off(stream)[k] /\ \A i \in 1 .. Len(x) : i <= LenOf[stream[k]] => x[i] = <<k, i>>
         BY <1>2, <1>7, <1>15, Message
  <1> HIDE DEF k
  <1>17. /\ MarkAt(Peeked) <=> stream[k] = "mapping"
         /\ HeadAt(Peeked) = IF stream[k] \in {"mapping", "other"} THEN 0 ELSE k
    <2>1. HeadLen \in Nat /\ HeadLen <= Len(Peeked) /\ Len(Peeked) \in Nat /\ HeadLen >= MarkLen
          BY <1>11, Room
    <2>2. \A i \in 1 .. HeadLen : i <= LenOf[stream[k]] => Peeked[i] = <<k, i>>
          BY <1>12, <1>16
    <2>3. /\ HeadLen >= MarkLen => (MarkAt(Peeked) <=> stream[k] = "mapping")
          /\ HeadLen >= HeadLen => HeadAt(Peeked) = IF stream[k] \in {"mapping", "other"} THEN 0 ELSE k
          BY <1>2, <1>16, <2>1, <2>2, Recognised
    <2> QED BY <2>1, <2>3
  <1>18. K = stream[k]
    <2>1. k # 0 /\ Kind(k) = stream[k]
          BY <1>2, <1>16, Stream DEF Kind
    <2>2. Kind(0) = "none"
          BY DEF Kind
    <2>3. CASE stream[k] = "mapping"
          BY <1>13, <1>17, <2>2, <2>3
    <2>4. CASE stream[k] # "mapping"
          BY <1>1, <1>13, <1>17, <2>1, <2>2, <2>4
    <2> QED BY <2>3, <2>4
  <1>19. \A i \in 1 .. L : w[i] = <<k, i>>
    <2> HIDE DEF L, w
    <2>0. w = Written(Peeked, used, SubSeq(rest, 1, L - used))
          BY DEF w
    <2>1. /\ \A i \in 1 .. L : w[i] = IF i <= used THEN half[i] ELSE rest[i - used]
          /\ \A i \in 1 .. L : i > used => i - used \in 1 .. Len(rest)
          BY <1>2, <1>3, <1>4, <2>0, Completing
    <2> TAKE i \in 1 .. L
    <2>2. i \in 1 .. Len(x) /\ i <= L
          BY <1>3, <1>6, <1>8
    <2>3. x[i] = <<k, i>>
          BY <1>16, <1>18, <2>2 DEF L
    <2>4. w[i] = x[i]
      <3>1. CASE i <= used
            BY <1>10, <2>1, <2>2, <3>1
      <3>2. CASE i > used
        <4>1. i - used \in 1 .. Len(rest) /\ ~(i <= used)
              BY <1>2, <2>1, <3>2
        <4> QED BY <1>10, <2>1, <2>2, <3>2, <4>1
      <3> QED BY <1>2, <3>1, <3>2
    <2> QED BY <2>3, <2>4
  <1>20. MessageOf(SubSeq(w, 1, L)) = k
    <2> HIDE DEF L, w
    <2>1. L = LenOf[stream[k]]
          BY <1>18 DEF L
    <2> QED BY <1>2, <1>3, <1>16, <1>19, <2>1, Handed
  <1> HIDE DEF w
  <1>21. got' = With(stream, got, k)
         BY <1>1, <1>18, <1>20 DEF Handled, With
  <1> HIDE DEF L
  <1>22. used <= L /\ L - used \in Nat
         BY <1>2, <1>3, <1>4
  <1>23. L = LenOf[stream[k]]
         BY <1>18 DEF L
  <1> QED BY <1>1, <1>4, <1>16, <1>18, <1>21, <1>22, <1>23 DEF K

---------------------------------------------------------------------------
(* NothingForeign.                                                         *)

\* While nothing was missed or doubled.
Contiguous == lost = 0 /\ duplicated = 0 /\ pc # "undefined" => Joined

(* The handler keeps buffer and packet joined.                             *)
LEMMA JoinedStep ==
  ASSUME Types, Place, Joined, OnData_lv1, pc' # "undefined"
  PROVE  Joined'
  <1>1. stream' = stream /\ sent' = sent
    <2>1. Moves
          BY HandlerMoves
    <2> QED BY <2>1 DEF Moves, net
  <1>2. /\ rest \in Seq(Byte(stream)) /\ Len(rest) \in Nat /\ Drop(rest, 0) = rest /\ 0 \in Nat /\ HeadLen \in Nat
        /\ Drop(rest, Len(rest)) = <<>>
        BY Typed, Room
  <1>3. ASSUME NEW d \in Nat, rest' = Drop(rest, d), used' = 0 PROVE Joined'
        BY <1>1, <1>3, Forward
  <1>4. ASSUME rest' = rest, used' = used, half' = half PROVE Joined'
        BY <1>1, <1>4 DEF Joined, Follows, Run
  <1>5. CASE Discard
    <2>1. /\ rest' = (IF Kind(HeadAt(rest)) = "index" THEN Drop(rest, HeadLen) ELSE rest) /\ half' = half
          /\ \E mark \in MarkRead(rest) : used' = IF HeadAt(rest) # 0 \/ mark THEN 0 ELSE used
          BY <1>5 DEF Discard
    <2>2. CASE used' = 0
          BY <1>2, <1>3, <2>1, <2>2
    <2>3. CASE used' # 0
      <3>1. used' = used /\ HeadAt(rest) = 0
            BY <2>1, <2>3
      <3>2. Kind(HeadAt(rest)) # "index"
            BY <3>1 DEF Kind
      <3> QED BY <1>4, <2>1, <3>1, <3>2
    <2> QED BY <2>2, <2>3
  <1>6. CASE HalfComplete
    <2>1. PICK Q \in Nat : Follows(Q)
          BY DEF Joined
    <2>2. PICK k \in 1 .. Len(stream) : /\ LenOf[stream[k]] - used \in Nat
                                        /\ rest' = Drop(rest, LenOf[stream[k]] - used) /\ used' = 0
          BY <1>6, <2>1, HalfHands
    <2> QED BY <1>3, <2>2
  <1>7. CASE HalfGrows
        BY <1>7, Grown
  <1>8. CASE HalfIndex
    <2>1. used <= HeadLen => rest' = Drop(rest, HeadLen - used) /\ used' = 0
          BY <1>8, Typed, Room DEF HalfIndex
    <2>2. used <= HeadLen /\ HeadLen - used \in Nat
          BY <1>8, Typed, Room DEF HalfIndex
    <2> QED BY <1>3, <2>1, <2>2
  <1>9. CASE HalfUnknown
    <2>1. rest' = rest /\ used' = 0
          BY <1>9 DEF HalfUnknown
    <2> QED BY <1>2, <1>3, <2>1
  <1>10. CASE Search
    <2>1. used' = 0 /\ \E d \in Nat : rest' = Drop(rest, d)
      <3>1. used = 0 /\ used' = used
            BY <1>10, Searching, Typed DEF Phases, Search
      <3>2. Moves
            BY HandlerMoves
      <3> QED BY <3>1, <3>2 DEF Moves
    <2> QED BY <1>3, <2>1
  <1>11. CASE LoopEnd
         BY <1>4, <1>11 DEF LoopEnd
  <1>12. CASE LoopCut
    <2>1. pc = "loop" /\ rest # <<>> /\ Stash(Drop(rest, 0), "idle") /\ "idle" # "undefined" /\ 0 <= Len(rest)
          BY <1>2, <1>12 DEF LoopCut
    <2>2. used = 0
          BY <2>1, Typed DEF Phases
    <2> QED BY <1>1, <1>2, <2>1, <2>2, Stashed
  <1>13. CASE LoopMessage
    <2>1. PICK k \in 1 .. Len(stream) : rest' = Drop(rest, LenOf[stream[k]]) /\ rest # <<>>
          BY <1>13, LoopHands
    <2>2. LenOf[stream[k]] \in Nat
          BY Stream, Typed
    <2>3. used' = 0
          BY <1>13, <2>1, Typed DEF LoopMessage, Phases
    <2> QED BY <1>3, <2>1, <2>2, <2>3
  <1>14. CASE LoopIndex
    <2> DEFINE z == Drop(rest, HeadLen)
    <2>1. pc = "loop" /\ rest # <<>> /\ Len(rest) >= HeadLen
          BY <1>14, IndexFront DEF LoopIndex
    <2>2. used = 0
          BY <2>1, Typed DEF Phases
    <2>3. CASE MarkAt(z) /\ Len(z) >= LenOf["mapping"]
      <3>1. rest' = Drop(rest, HeadLen + LenOf["mapping"]) /\ used' = used
            BY <1>14, <2>3, IndexHands
      <3>2. HeadLen + LenOf["mapping"] \in Nat
            BY Room
      <3> QED BY <1>3, <2>2, <3>1, <3>2
    <2>4. CASE ~(MarkAt(z) /\ Len(z) >= LenOf["mapping"])
      <3>1. Stash(Drop(rest, HeadLen), "loop")
            BY <1>14, <2>4 DEF LoopIndex
      <3>2. HeadLen <= Len(rest) /\ "loop" # "undefined"
            BY <1>2, <2>1
      <3> QED BY <1>1, <1>2, <2>2, <3>1, <3>2, Stashed
    <2> QED BY <2>3, <2>4
  <1>15. CASE LoopUnknown
    <2>1. pc = "loop" /\ rest # <<>> /\ Stash(Drop(rest, 0), "loop") /\ "loop" # "undefined" /\ 0 <= Len(rest)
          BY <1>2, <1>15 DEF LoopUnknown
    <2>2. used = 0
          BY <2>1, Typed DEF Phases
    <2> QED BY <1>1, <1>2, <2>1, <2>2, Stashed
  <1>16. CASE LoopArbitrage
         BY <1>4, <1>16 DEF LoopArbitrage, vars
  <1> QED BY <1>5, <1>6, <1>7, <1>8, <1>9, <1>10, <1>11, <1>12, <1>13, <1>14, <1>15, <1>16 DEF OnData_lv1

(* What the handler adds to the list, if anything, is a message.           *)
LEMMA HandlerAdds ==
  ASSUME Types, Place, pc # "idle" /\ pc # "undefined" => Joined, OnData_lv1
  PROVE  got' = got \/ \E k \in 1 .. Len(stream) : got' = Append(got, k)
  <1>1. ASSUME NEW k \in 1 .. Len(stream), got' = With(stream, got, k)
        PROVE  got' = got \/ \E j \in 1 .. Len(stream) : got' = Append(got, j)
        BY <1>1 DEF With
  <1>2. CASE HalfComplete
    <2>1. Joined
          BY <1>2 DEF HalfComplete
    <2>2. PICK Q \in Nat : Follows(Q)
          BY <2>1 DEF Joined
    <2>3. PICK k \in 1 .. Len(stream) : got' = With(stream, got, k)
          BY <1>2, <2>2, HalfHands
    <2> QED BY <1>1, <2>3
  <1>3. CASE LoopMessage
    <2>1. PICK k \in 1 .. Len(stream) : got' = With(stream, got, k)
          BY <1>3, LoopHands
    <2> QED BY <1>1, <2>1
  <1>4. CASE LoopIndex
    <2>1. CASE MarkAt(Drop(rest, HeadLen)) /\ Len(Drop(rest, HeadLen)) >= LenOf["mapping"]
      <3>1. PICK k \in 1 .. Len(stream) : k + 1 \in 1 .. Len(stream) /\ got' = Append(got, k + 1)
            BY <1>4, <2>1, IndexHands
      <3> QED BY <3>1
    <2>2. CASE ~(MarkAt(Drop(rest, HeadLen)) /\ Len(Drop(rest, HeadLen)) >= LenOf["mapping"])
          BY <1>4, <2>2 DEF LoopIndex
    <2> QED BY <2>1, <2>2
  <1>5. CASE ~(HalfComplete \/ LoopMessage \/ LoopIndex)
        BY <1>5 DEF OnData_lv1, Discard, HalfGrows, HalfIndex, HalfUnknown, Search, LoopEnd, LoopCut, LoopUnknown,
                    LoopArbitrage, vars
  <1> QED BY <1>2, <1>3, <1>4, <1>5

(* No message is put together from foreign bytes.                          *)
LEMMA ForeignStep ==
  ASSUME Types, Place, Contiguous, NothingForeign, [Next]_vars
  PROVE  Contiguous' /\ NothingForeign'
  <1>0. lost \in Nat /\ duplicated \in Nat /\ got \in Seq(0 .. Len(stream)) /\ Len(stream) \in Nat
        BY Stream DEF Types
  <1>1. CASE \E n \in Sizes : Packet(n)
    <2>1. PICK n \in Sizes : Packet(n)
          BY <1>1
    <2>2. /\ stream' = stream /\ half' = half /\ used' = used /\ got' = got
          /\ rest' = packet' /\ pc = "idle" /\ sent' = sent + n /\ n \in Nat /\ Len(packet') = n
          /\ lost' = lost /\ duplicated' = duplicated
          /\ \E P \in Nat : P = sent /\ Placed(P)'
          BY <2>1, PacketArrives
    <2>3. NothingForeign'
          BY <2>2 DEF NothingForeign
    <2>4. ASSUME lost = 0, duplicated = 0 PROVE Joined'
      <3>1. PICK Q \in Nat : Follows(Q)
            BY <2>2, <2>4 DEF Contiguous, Joined
      <3>2. rest = <<>> /\ Len(<<>>) = 0 /\ used \in Nat
            BY <2>2, Typed DEF Phases
      <3>3. Q + used + 0 = sent
            BY <3>1, <3>2 DEF Follows
      <3>4. Q + used = sent
            BY <3>2, <3>3
      <3>5. PICK P \in Nat : P = sent /\ Placed(P)'
            BY <2>2
      <3>6. Run(stream', packet', P)
            BY <3>5 DEF Placed, Run
      <3>7. Run(stream', rest', Q + used')
            BY <2>2, <3>4, <3>5, <3>6
      <3>8. Q + used' + Len(rest') = sent'
            BY <2>2, <3>4
      <3>9. Follows(Q)'
        <4>1. \A i \in 1 .. used' : half'[i] = Bytes[stream'][Q + i]
              BY <2>2, <3>1 DEF Follows
        <4> QED BY <3>7, <3>8, <4>1 DEF Follows, Run
      <3> QED BY <3>9 DEF Joined
    <2>5. Contiguous'
          BY <2>2, <2>4 DEF Contiguous
    <2> QED BY <2>3, <2>5
  <1>2. CASE \E n \in Sizes : Lose(n)
    <2>1. lost' = lost + 1
          BY <1>2, LoseMisses
    <2>2. lost' # 0
          BY <1>0, <2>1
    <2> QED BY <2>2 DEF Contiguous, NothingForeign
  <1>3. CASE Duplicate
    <2>1. duplicated' = duplicated + 1
          BY <1>3, DuplicateArrives
    <2>2. duplicated' # 0
          BY <1>0, <2>1
    <2> QED BY <2>2 DEF Contiguous, NothingForeign
  <1>4. CASE OnData_lv1
    <2>1. Moves
          BY <1>4, HandlerMoves
    <2>2. lost' = lost /\ duplicated' = duplicated /\ stream' = stream
          BY <2>1 DEF Moves, net
    <2> SUFFICES ASSUME lost = 0, duplicated = 0 PROVE Contiguous' /\ NothingForeign'
        BY <2>2 DEF Contiguous, NothingForeign
    <2>3. pc # "undefined"
          BY <1>4 DEF OnData_lv1, Discard, HalfComplete, HalfGrows, HalfIndex, HalfUnknown, Search, LoopEnd, LoopCut,
                      LoopMessage, LoopIndex, LoopUnknown, LoopArbitrage
    <2>4. Joined
          BY <2>3 DEF Contiguous
    <2>5. Contiguous'
          BY <1>4, <2>4, JoinedStep DEF Contiguous
    <2>6. got' = got \/ \E k \in 1 .. Len(stream) : got' = Append(got, k)
          BY <1>4, <2>4, HandlerAdds
    <2>7. \A i \in DOMAIN got : got[i] # 0
          BY DEF NothingForeign
    <2>8. \A i \in DOMAIN got' : got'[i] # 0
      <3>1. CASE got' = got
            BY <2>7, <3>1
      <3>2. ASSUME NEW k \in 1 .. Len(stream), got' = Append(got, k) PROVE \A i \in DOMAIN got' : got'[i] # 0
        <4>1. k # 0 /\ k \in 0 .. Len(stream)
              BY <1>0
        <4>2. /\ Len(got) \in Nat /\ DOMAIN got = 1 .. Len(got) /\ DOMAIN Append(got, k) = 1 .. Len(got) + 1
              /\ (\A i \in 1 .. Len(got) : Append(got, k)[i] = got[i]) /\ Append(got, k)[Len(got) + 1] = k
              BY <1>0, <4>1, AppendProperties, LenProperties
        <4>3. \A i \in 1 .. Len(got) + 1 : i \in 1 .. Len(got) \/ i = Len(got) + 1
              BY <4>2
        <4> QED BY <2>7, <3>2, <4>1, <4>2, <4>3
      <3> QED BY <2>6, <3>1, <3>2
    <2> QED BY <2>5, <2>8 DEF NothingForeign
  <1>5. CASE Quiet \/ UNCHANGED vars
        BY <1>5 DEF Quiet, vars, Contiguous, NothingForeign, Joined, Follows, Run
  <1> QED BY <1>1, <1>2, <1>3, <1>4, <1>5 DEF Next

(* Nothing has been put together yet.                                      *)
LEMMA ForeignInit ==
  ASSUME Init
  PROVE  Contiguous /\ NothingForeign
  <1>1. sent = 0 /\ rest = <<>> /\ used = 0 /\ got = <<>> /\ Len(<<>>) = 0
        BY DEF Init
  <1>2. Types
        BY BasicInit
  <1>3. Run(stream, <<>>, 0)
    <2>1. rest \in Seq(Byte(stream)) /\ Len(Bytes[stream]) \in Nat
          BY <1>2, Stream DEF Types
    <2> QED BY <1>1, <2>1 DEF Run
  <1>4. 0 + 0 + 0 = 0 /\ 0 + 0 = 0 /\ 1 .. 0 = {}
        OBVIOUS
  <1>5. Follows(0)
        BY <1>1, <1>3, <1>4 DEF Follows
  <1> QED BY <1>1, <1>5 DEF Contiguous, NothingForeign, Joined

(* As long as no packet was missed or seen twice, no message is put        *)
(* together from foreign bytes.                                            *)
THEOREM OwnBytes == Spec => []NothingForeign
  <1>1. Init => Types /\ Place /\ Contiguous /\ NothingForeign
        BY BasicInit, ForeignInit
  <1>2. Types /\ Place /\ Contiguous /\ NothingForeign /\ [Next]_vars => (Types /\ Place /\ Contiguous /\ NothingForeign)'
        BY BasicNext, ForeignStep
  <1> QED BY <1>1, <1>2, PTL DEF Spec

---------------------------------------------------------------------------
(* A packet that starts with a message: the loop.                          *)

(* Nothing lies between a place and itself.                                *)
LEMMA NoneBetween ==
  ASSUME NEW s \in Streams, NEW a \in Nat
  PROVE  Between(s, a, a) = {} /\ Lists(<<>>, {})
  <1>1. ASSUME NEW k \in Between(s, a, a) PROVE FALSE
    <2> DEFINE x == Off(s)[k]
               y == Off(s)[k + 1]
               L == LenOf[s[k]]
    <2>1. k \in 1 .. Len(s) /\ a <= x /\ y <= a
          BY <1>1 DEF Between
    <2>2. x \in Nat /\ L \in Nat /\ L > 0 /\ y = x + L
          BY <2>1, Stream, Sizing
    <2> HIDE DEF x, y, L
    <2> QED BY <2>1, <2>2
  <1>2. Lists(<<>>, {})
        BY DEF Lists
  <1> QED BY <1>1, <1>2

(* What comes behind the first b of a list that grows.                     *)
LEMMA Appended ==
  ASSUME NEW S, NEW g \in Seq(S), NEW b \in Nat, b <= Len(g), NEW k \in S
  PROVE  Drop(Append(g, k), b) = Append(Drop(g, b), k) /\ Len(Append(g, k)) = Len(g) + 1
  <1> DEFINE h == Append(g, k)
             u == Drop(h, b)
             d == Drop(g, b)
             v == Append(d, k)
  <1>1. Len(g) \in Nat
        BY LenProperties
  <1>2. /\ h \in Seq(S) /\ Len(h) = Len(g) + 1
        /\ (\A i \in 1 .. Len(g) : h[i] = g[i]) /\ h[Len(g) + 1] = k
        BY AppendProperties
  <1> HIDE DEF h
  <1>3. u \in Seq(S) /\ Len(u) = Len(h) - b /\ \A i \in 1 .. Len(u) : u[i] = h[i + b]
    <2>1. b <= Len(h)
          BY <1>1, <1>2
    <2> QED BY <1>2, <2>1, Dropped
  <1>4. d \in Seq(S) /\ Len(d) = Len(g) - b /\ \A i \in 1 .. Len(d) : i + b \in 1 .. Len(g) /\ d[i] = g[i + b]
        BY Dropped
  <1> HIDE DEF u, d
  <1>5. v \in Seq(S) /\ Len(v) = Len(d) + 1 /\ (\A i \in 1 .. Len(d) : v[i] = d[i]) /\ v[Len(d) + 1] = k
        BY <1>4, AppendProperties
  <1> HIDE DEF v
  <1>6. Len(u) = Len(v) /\ Len(d) \in Nat
        BY <1>1, <1>2, <1>3, <1>4, <1>5
  <1>7. \A i \in 1 .. Len(u) : u[i] = v[i]
    <2> TAKE i \in 1 .. Len(u)
    <2>1. u[i] = h[i + b]
          BY <1>3
    <2>2. CASE i \in 1 .. Len(d)
          BY <1>2, <1>4, <1>5, <2>1, <2>2
    <2>3. CASE i \notin 1 .. Len(d)
      <3>1. i = Len(d) + 1 /\ i + b = Len(g) + 1
            BY <1>1, <1>4, <1>5, <1>6, <2>3
      <3> QED BY <1>2, <1>5, <2>1, <3>1
    <2> QED BY <2>2, <2>3
  <1>8. u = v
        BY <1>3, <1>5, <1>6, <1>7, SeqEqual
  <1> QED BY <1>2, <1>8 DEF u, v, d, h

\* The handler has come to the place end: the list since b has what lies
\* behind from, up to the message whose start is in the buffer, if any.
Reached(from, end, b) ==
  \E m \in 1 .. Len(stream) + 1 :
     /\ Off(stream)[m] + used + Len(rest) = end /\ from <= Off(stream)[m]
     /\ Lists(Drop(got, b), Between(stream, from, Off(stream)[m]))
     /\ used > 0 => m <= Len(stream) /\ used < LenOf[stream[m]]

(* The list with one message more.                                         *)
LEMMA Further ==
  ASSUME Types, Place, NEW k \in 1 .. Len(stream), NEW from \in Nat, from <= Off(stream)[k], NEW b \in Nat, b <= Len(got),
         Lists(Drop(got, b), Between(stream, from, Off(stream)[k]))
  PROVE  /\ Lists(Drop(With(stream, got, k), b), Between(stream, from, Off(stream)[k + 1]))
         /\ b <= Len(With(stream, got, k)) /\ With(stream, got, k) \in Seq(0 .. Len(stream))
         /\ from <= Off(stream)[k + 1]
  <1>1. stream \in Streams /\ got \in Seq(0 .. Len(stream)) /\ Len(got) \in Nat
        BY Typed
  <1>2. Len(stream) \in Nat /\ k \in 0 .. Len(stream) /\ 0 .. Len(stream) \subseteq Nat
        BY <1>1, Stream
  <1>3. Drop(got, b) \in Seq(0 .. Len(stream))
        BY <1>1, Dropped
  <1>4. Drop(got, b) \in Seq(Nat)
        BY <1>2, <1>3, Retyped, ElementOfSeq
  <1>5. Lists(With(stream, Drop(got, b), k), Between(stream, from, Off(stream)[k + 1]))
        BY <1>1, <1>4, Advanced
  <1>6. /\ Drop(Append(got, k), b) = Append(Drop(got, b), k) /\ Len(Append(got, k)) = Len(got) + 1
        /\ Append(got, k) \in Seq(0 .. Len(stream))
        BY <1>1, <1>2, Appended, AppendProperties
  <1>7. Drop(With(stream, got, k), b) = With(stream, Drop(got, b), k)
        BY <1>6 DEF With
  <1>8. b <= Len(With(stream, got, k)) /\ With(stream, got, k) \in Seq(0 .. Len(stream))
    <2>1. b <= Len(got) + 1
          BY <1>1
    <2>2. With(stream, got, k) = got \/ With(stream, got, k) = Append(got, k)
          BY DEF With
    <2>3. CASE With(stream, got, k) = got
          BY <1>1, <2>3
    <2>4. CASE With(stream, got, k) = Append(got, k)
          BY <1>6, <2>1, <2>4
    <2> QED BY <2>2, <2>3, <2>4
  <1>9. from <= Off(stream)[k + 1]
    <2>1. Off(stream)[k] \in Nat /\ LenOf[stream[k]] \in Nat /\ Off(stream)[k + 1] = Off(stream)[k] + LenOf[stream[k]]
          BY <1>1, Stream
    <2> QED BY <2>1
  <1> QED BY <1>5, <1>7, <1>8, <1>9

(* One turn of the loop on what is orderly.                                *)
LEMMA LoopStep ==
  ASSUME Types, Place, pc = "loop", rest # <<>>, OnData_lv1, Orderly(rest), NEW from \in Nat, NEW C \in Nat,
         Run(stream, rest, C), from <= C, NEW b \in Nat, b <= Len(got), Lists(Drop(got, b), Between(stream, from, C)),
         NEW end, end = C + Len(rest)
  PROVE  pc' \in {"loop", "idle"} /\ b <= Len(got') /\ Reached(from, end, b)'
  <1> DEFINE k == rest[1][1]
             L == LenOf[stream[k]]
             f == Off(stream)
  <1>1. /\ stream \in Streams /\ rest \in Seq(Byte(stream)) /\ Len(rest) \in Nat /\ Len(rest) > 0 /\ used = 0
        /\ rest[1][2] = 1 /\ Drop(rest, 0) = rest
        BY Typed DEF Phases
  <1>2. k \in 1 .. Len(stream) /\ C = f[k]
        BY <1>1, Message
  <1>3. stream' = stream
    <2>1. Moves
          BY HandlerMoves
    <2> QED BY <2>1 DEF Moves, net
  <1> HIDE DEF f
  <1>4. /\ Len(stream) \in Nat /\ L \in Nat /\ L <= Cap /\ Cap \in Nat /\ f[k] \in Nat /\ f[k + 1] = f[k] + L
        BY <1>1, <1>2, Stream, Room DEF f
  <1>5. ASSUME NEW m \in 1 .. Len(stream) + 1, f[m] + used' + Len(rest') = end, from <= f[m],
               Lists(Drop(got', b), Between(stream, from, f[m])),
               used' > 0 => m <= Len(stream) /\ used' < LenOf[stream[m]]
        PROVE  Reached(from, end, b)'
        BY <1>3, <1>5, Zenon DEF Reached, f
  <1> HIDE DEF k
  <1>6. k \in 1 .. Len(stream) + 1 /\ k + 1 \in 1 .. Len(stream) + 1 /\ k <= Len(stream)
        BY <1>2, <1>4
  <1>7. CASE LoopCut
    <2>1. Stash(rest, "idle") /\ Cut /\ got' = got
          BY <1>7 DEF LoopCut
    <2>2. Len(rest) < L
          BY <1>1, <2>1, Cuts DEF k
    <2>3. rest' = <<>> /\ used' = Len(rest) /\ pc' = IF Len(rest) > Cap THEN "undefined" ELSE "idle"
          BY <2>1 DEF Stash
    <2>4. pc' = "idle"
      <3> HIDE DEF L
      <3> QED BY <1>1, <1>4, <2>2, <2>3
    <2>5. f[k] + used' + Len(rest') = end
      <3>1. Len(<<>>) = 0
            OBVIOUS
      <3> HIDE DEF L
      <3> QED BY <1>1, <1>2, <1>4, <2>3, <3>1
    <2>6. Reached(from, end, b)'
          BY <1>2, <1>5, <1>6, <2>1, <2>2, <2>3, <2>5
    <2> QED BY <2>1, <2>4, <2>6
  <1>8. CASE LoopMessage
    <2>1. /\ LenOf[stream[k]] <= Len(rest) /\ got' = With(stream, got, k) /\ rest' = Drop(rest, LenOf[stream[k]])
          BY <1>8, LoopHands DEF k
    <2>2. used' = 0 /\ pc' = "loop"
          BY <1>1, <1>8 DEF LoopMessage
    <2>3. Lists(Drop(got', b), Between(stream, from, f[k + 1])) /\ b <= Len(got') /\ from <= f[k + 1]
          BY <1>2, <2>1, Further DEF f
    <2>4. Len(rest') = Len(rest) - L
          BY <1>1, <1>4, <2>1, Dropped
    <2>5. f[k + 1] + used' + Len(rest') = end
      <3> HIDE DEF L
      <3> QED BY <1>1, <1>2, <1>4, <2>2, <2>4
    <2>6. Reached(from, end, b)'
      <3>1. ~(used' > 0)
            BY <2>2
      <3> QED BY <1>5, <1>6, <2>3, <2>5, <3>1
    <2> QED BY <2>2, <2>3, <2>6
  <1>9. CASE LoopIndex
    <2> DEFINE z == Drop(rest, HeadLen)
    <2>1. ~Cut /\ Kind(HeadAt(rest)) = "index"
          BY <1>9 DEF LoopIndex
    <2>2. /\ Len(rest) >= HeadLen /\ stream[k] = "index" /\ (z # <<>> => z[1][2] = 1 /\ z[1][1] = k + 1)
          BY <2>1, IndexFront DEF k
    <2>3. L = HeadLen /\ HeadLen \in Nat
          BY <2>2, Sizing
    <2>4. /\ Lists(Drop(got, b), Between(stream, from, f[k + 1])) /\ from <= f[k + 1]
      <3>1. With(stream, got, k) = got
            BY <2>2 DEF With, Wanted
      <3>2. /\ Lists(Drop(With(stream, got, k), b), Between(stream, from, f[k + 1])) /\ from <= f[k + 1]
            BY <1>2, Further DEF f
      <3> QED BY <3>1, <3>2
    <2>5. Len(z) = Len(rest) - HeadLen /\ z \in Seq(Byte(stream))
          BY <1>1, <2>2, <2>3, Dropped
    <2>6. CASE MarkAt(z) /\ Len(z) >= LenOf["mapping"]
      <3>1. /\ k + 1 \in 1 .. Len(stream) /\ stream[k + 1] = "mapping" /\ HeadLen + LenOf["mapping"] <= Len(rest)
            /\ got' = Append(got, k + 1) /\ rest' = Drop(rest, HeadLen + LenOf["mapping"])
            /\ used' = used /\ pc' = pc
            BY <1>9, <2>6, IndexHands DEF k
      <3>2. PICK j \in 1 .. Len(stream) : j = k + 1
            BY <3>1
      <3>3. got' = With(stream, got, j)
            BY <3>1, <3>2 DEF With, Wanted
      <3>4. Lists(Drop(got', b), Between(stream, from, f[j + 1])) /\ b <= Len(got') /\ from <= f[j + 1]
            BY <2>4, <3>2, <3>3, Further DEF f
      <3>5. f[j + 1] = f[k] + HeadLen + LenOf["mapping"] /\ j + 1 \in 1 .. Len(stream) + 1
        <4>1. f[j + 1] = f[j] + LenOf[stream[j]]
              BY <1>1, Stream DEF f
        <4>2. f[j] = f[k] + HeadLen
              BY <1>4, <2>3, <3>2
        <4>3. j + 1 \in 1 .. Len(stream) + 1
              BY <1>4, <3>2
        <4> QED BY <3>1, <3>2, <4>1, <4>2, <4>3
      <3>6. LenOf["mapping"] \in Nat
            BY Room
      <3>7. Len(rest') = Len(rest) - (HeadLen + LenOf["mapping"])
        <4>1. PICK d \in Nat : d = HeadLen + LenOf["mapping"]
              BY <2>3, <3>6
        <4>2. rest \in Seq(Byte(stream)) /\ d <= Len(rest) /\ rest' = Drop(rest, d)
              BY <1>1, <3>1, <4>1
        <4>3. Len(rest') = Len(rest) - d
              BY <4>2, Dropped
        <4> QED BY <4>1, <4>3
      <3>8. f[j + 1] + used' + Len(rest') = end
        <4>1. used' = 0 /\ Len(rest) \in Nat /\ f[k] \in Nat
              BY <1>1, <1>4, <3>1
        <4>2. end = f[k] + Len(rest)
              BY <1>2
        <4>3. f[j + 1] = f[k] + HeadLen + LenOf["mapping"]
              BY <3>5
        <4> DEFINE M == LenOf["mapping"]
                   a == f[j + 1]
                   c == f[k]
                   n == Len(rest)
                   r == Len(rest')
                   u == used'
        <4>4. HeadLen \in Nat /\ M \in Nat /\ a = c + HeadLen + M /\ r = n - (HeadLen + M)
              BY <3>6, <3>7, <4>3, Room
        <4>5. u = 0 /\ n \in Nat /\ c \in Nat /\ end = c + n
              BY <4>1, <4>2
        <4> HIDE DEF M, a, c, n, r, u
        <4>6. a + u + r = end
              BY <4>4, <4>5
        <4> QED BY <4>6 DEF a, u, r
      <3>9. Reached(from, end, b)'
        <4>1. ~(used' > 0)
              BY <1>1, <3>1
        <4> QED BY <1>5, <3>4, <3>5, <3>8, <4>1
      <3> QED BY <3>1, <3>4, <3>9
    <2>7. CASE ~(MarkAt(z) /\ Len(z) >= LenOf["mapping"])
      <3>1. Stash(z, "loop") /\ got' = got
            BY <1>9, <2>7 DEF LoopIndex
      <3>2. z # <<>> => z[1][2] = 1 /\ stream[k + 1] = "mapping" /\ Len(z) < LenOf["mapping"] /\ z[1][1] = k + 1
        <4>1. z # <<>> => z[1][2] = 1 /\ stream[z[1][1]] = "mapping" /\ Len(z) < LenOf["mapping"]
              BY <2>1, <2>7, IndexStash
        <4> QED BY <2>2, <4>1
      <3>3. z # <<>> => k + 1 \in 1 .. Len(stream)
        <4> SUFFICES ASSUME z # <<>> PROVE k + 1 \in 1 .. Len(stream)
            OBVIOUS
        <4>1. Drop(rest, LenOf[stream[rest[1][1]]]) # <<>>
              BY <2>3 DEF k
        <4> QED BY <1>1, <4>1, Behind DEF k
      <3> HIDE DEF z
      <3>4. rest' = <<>> /\ used' = Len(z) /\ pc' = IF Len(z) > Cap THEN "undefined" ELSE "loop"
            BY <3>1 DEF Stash
      <3>5. Len(z) \in Nat /\ (z # <<>> <=> Len(z) > 0) /\ Len(<<>>) = 0
            BY <2>5
      <3>6. Len(z) <= Cap
            BY <1>4, <3>2, <3>5, Room
      <3>7. pc' = "loop"
            BY <1>4, <3>4, <3>5, <3>6
      <3>8. f[k + 1] + used' + Len(rest') = end
        <4>1. used' = Len(z) /\ Len(rest') = 0
              BY <3>4, <3>5
        <4>2. end = f[k] + Len(rest) /\ f[k + 1] = f[k] + HeadLen /\ f[k] \in Nat /\ Len(rest) \in Nat
              BY <1>1, <1>2, <1>4, <2>3
        <4> QED BY <2>3, <2>5, <3>5, <4>1, <4>2
      <3>9. used' > 0 => k + 1 <= Len(stream) /\ used' < LenOf[stream[k + 1]]
        <4> SUFFICES ASSUME used' > 0 PROVE k + 1 <= Len(stream) /\ used' < LenOf[stream[k + 1]]
            OBVIOUS
        <4>1. z # <<>>
              BY <3>4, <3>5
        <4>2. k + 1 <= Len(stream)
              BY <1>4, <3>3, <4>1
        <4> QED BY <3>2, <3>4, <4>1, <4>2
      <3>10. Reached(from, end, b)'
             BY <1>5, <1>6, <2>4, <3>1, <3>8, <3>9
      <3> QED BY <3>1, <3>7, <3>10
    <2> QED BY <2>6, <2>7
  <1>10. CASE LoopUnknown
    <2>1. stream[k] = "other"
          BY <1>10, Cuts DEF LoopUnknown, k
    <2>2. 1 \in DOMAIN rest
          BY <1>1, LenProperties
    <2> QED BY <2>1, <2>2 DEF Orderly, k
  <1>11. CASE LoopArbitrage
    <2>1. got' = got /\ used' = 0 /\ rest' = rest /\ pc' = "loop"
          BY <1>1, <1>11 DEF LoopArbitrage, vars
    <2>2. f[k] + used' + Len(rest') = end /\ ~(used' > 0)
          BY <1>1, <1>2, <1>4, <2>1
    <2>3. Reached(from, end, b)'
          BY <1>2, <1>5, <1>6, <2>1, <2>2
    <2> QED BY <2>1, <2>3
  <1>12. CASE ~(LoopCut \/ LoopMessage \/ LoopIndex \/ LoopUnknown \/ LoopArbitrage)
         BY <1>12 DEF OnData_lv1, Discard, HalfComplete, HalfGrows, HalfIndex, HalfUnknown, Search, LoopEnd
  <1> QED BY <1>7, <1>8, <1>9, <1>10, <1>11, <1>12

---------------------------------------------------------------------------
(* A packet that starts with a message: the discard, and every step.       *)

(* The search on bytes that start with the first of a message.             *)
LEMMA SearchFront ==
  ASSUME Types, Place, Search, Orderly(rest), rest # <<>> => rest[1][2] = 1
  PROVE  \/ /\ rest' = rest /\ pc' = "loop"
         \/ /\ rest' = <<>> /\ pc' = "idle"
            /\ rest # <<>> => rest[1][1] \in 1 .. Len(stream) /\ Len(rest) < LenOf[stream[rest[1][1]]] /\ ~Starts(rest)
  <1>1. \/ /\ rest' = <<>> /\ pc' = "idle"
           /\ \A i \in 1 .. Len(rest) : ~Starts(Drop(rest, i - 1))
        \/ /\ pc' = "loop"
           /\ \E i \in 1 .. Len(rest) : /\ rest' = Drop(rest, i - 1) /\ Starts(Drop(rest, i - 1))
                                        /\ \A j \in 1 .. Len(rest) : Starts(Drop(rest, j - 1)) => i <= j
        BY Searching
  <1>2. stream \in Streams /\ rest \in Seq(Byte(stream)) /\ Len(rest) \in Nat /\ Drop(rest, 0) = rest
        /\ (rest # <<>> <=> Len(rest) > 0) /\ \E P \in Nat : Run(stream, rest, P)
        BY Typed
  <1>3. ASSUME rest # <<>>, Starts(rest) PROVE rest' = rest /\ pc' = "loop"
    <2>1. 1 \in 1 .. Len(rest) /\ 1 - 1 = 0
          BY <1>2, <1>3
    <2>2. Starts(Drop(rest, 1 - 1))
          BY <1>2, <1>3, <2>1
    <2>3. PICK i \in 1 .. Len(rest) : /\ rest' = Drop(rest, i - 1) /\ pc' = "loop"
                                      /\ \A j \in 1 .. Len(rest) : Starts(Drop(rest, j - 1)) => i <= j
          BY <1>1, <2>1, <2>2
    <2>4. i <= 1
          BY <2>1, <2>2, <2>3
    <2>5. i - 1 = 0
          BY <1>2, <2>4
    <2> QED BY <1>2, <2>3, <2>5
  <1>4. ASSUME rest # <<>>, ~Starts(rest)
        PROVE  /\ rest' = <<>> /\ pc' = "idle"
               /\ rest[1][1] \in 1 .. Len(stream) /\ Len(rest) < LenOf[stream[rest[1][1]]]
    <2> DEFINE k == rest[1][1]
               L == LenOf[stream[k]]
    <2>1. PICK P \in Nat : Run(stream, rest, P)
          BY <1>2
    <2>2. rest[1][2] = 1 /\ Len(rest) > 0
          BY <1>2, <1>4
    <2>3. /\ k \in 1 .. Len(stream) /\ \A i \in 1 .. Len(rest) : i <= LenOf[stream[k]] => rest[i] = <<k, i>>
          BY <1>2, <2>1, <2>2, Message
    <2>4. stream[k] # "other"
      <3>1. 1 \in DOMAIN rest
            BY <1>2, <2>2, LenProperties
      <3> QED BY <3>1 DEF Orderly
    <2>5. /\ MarkAt(rest) <=> Len(rest) >= MarkLen /\ stream[k] = "mapping"
          /\ HeadAt(rest) = IF Len(rest) >= HeadLen /\ stream[k] \notin {"mapping", "other"} THEN k ELSE 0
          BY <1>2, <2>1, <2>2, Reading
    <2> HIDE DEF k
    <2>6. L \in Nat /\ HeadLen <= L /\ HeadLen \in Nat /\ MarkLen \in Nat /\ MarkLen < HeadLen /\ k # 0
          BY <1>2, <2>3, Stream, Sizing
    <2>7. Len(rest) < HeadLen
      <3>1. CASE stream[k] = "mapping"
        <4>1. ~(Len(rest) >= MarkLen)
              BY <1>4, <2>5, <3>1 DEF Starts
        <4> HIDE DEF L
        <4> QED BY <1>2, <2>6, <4>1
      <3>2. CASE stream[k] # "mapping"
        <4>1. ~(Len(rest) >= HeadLen)
              BY <1>4, <2>4, <2>5, <2>6, <3>2 DEF Starts
        <4> HIDE DEF L
        <4> QED BY <1>2, <2>6, <4>1
      <3> QED BY <3>1, <3>2
    <2>8. Len(rest) < L
      <3> HIDE DEF L
      <3> QED BY <1>2, <2>6, <2>7
    <2>9. ASSUME NEW i \in 1 .. Len(rest) PROVE ~Starts(Drop(rest, i - 1))
      <3> SUFFICES ASSUME Starts(Drop(rest, i - 1)) PROVE FALSE
          OBVIOUS
      <3> DEFINE y == Drop(rest, i - 1)
      <3>1. y[1][2] = 1
            BY FirstByte DEF Starts
      <3>2. i - 1 \in Nat /\ i - 1 <= Len(rest) /\ i - 1 < Len(rest)
            BY <1>2
      <3>9. PICK n \in Nat : n = i - 1
            BY <3>2
      <3>10. n < Len(rest) /\ 1 + n = i
            BY <1>2, <3>2, <3>9
      <3>3. y = Drop(rest, n)
            BY <3>9
      <3> HIDE DEF y
      <3>11. Len(y) = Len(rest) - n
            BY <1>2, <3>3, <3>10, Dropped
      <3>12. \A j \in 1 .. Len(y) : y[j] = rest[j + n]
            BY <1>2, <3>3, Dropped
      <3>4. 1 \in 1 .. Len(y)
            BY <1>2, <3>10, <3>11
      <3>5. y[1] = rest[i]
            BY <3>4, <3>10, <3>12
      <3>6. i <= LenOf[stream[k]]
        <4>1. i <= L
          <5> HIDE DEF L
          <5> QED BY <1>2, <2>6, <2>8
        <4> QED BY <4>1
      <3>7. rest[i] = <<k, i>>
            BY <2>3, <3>6
      <3>8. i = 1
            BY <3>1, <3>5, <3>7
      <3> QED BY <1>2, <1>4, <3>8
    <2>10. rest' = <<>> /\ pc' = "idle"
           BY <1>1, <2>9
    <2> QED BY <2>3, <2>8, <2>10 DEF k
  <1>5. ASSUME rest = <<>> PROVE rest' = <<>> /\ pc' = "idle"
    <2>1. 1 .. Len(rest) = {}
          BY <1>2, <1>5
    <2> QED BY <1>1, <2>1
  <1> QED BY <1>3, <1>4, <1>5

\* What a packet that starts with a message is on the way to.
Handles(P) ==
  /\ pc \notin {"half", "undefined"}
  /\ pc = "search" /\ rest # <<>> => rest[1][2] = 1
  /\ Lists(Drop(got, before), Between(stream, P, P + (Len(packet) - Len(rest))))

\* The packet is read up to where rest begins.
PacketDone == \E P \in Nat : Placed(P) /\ (Starts(packet) /\ Orderly(packet) => Handles(P))

(* A packet that starts with a message discards what is in the buffer.     *)
LEMMA DiscardHandles ==
  ASSUME Types, Place, NEW P \in Nat, Placed(P), Starts(packet), Handles(P), Discard
  PROVE  Handles(P)'
  <1>1. /\ pc = "start" /\ half' = half /\ got' = got /\ pc' = (IF used' > 0 THEN "half" ELSE "search")
        /\ rest' = (IF Kind(HeadAt(rest)) = "index" THEN Drop(rest, HeadLen) ELSE rest)
        /\ \E mark \in MarkRead(rest) : used' = IF HeadAt(rest) # 0 \/ mark THEN 0 ELSE used
        /\ stream' = stream /\ packet' = packet /\ before' = before
        BY DEF Discard, net
  <1>2. rest = packet /\ packet # <<>> /\ before = Len(got) /\ got \in Seq(0 .. Len(stream))
        BY <1>1, Typed DEF Phases
  <1>3. stream \in Streams /\ rest \in Seq(Byte(stream)) /\ Len(rest) \in Nat /\ Len(rest) > 0
        BY <1>2, Typed
  <1>4. Run(stream, rest, P)
        BY <1>2 DEF Placed
  <1>5. rest[1][2] = 1 /\ (MarkAt(rest) \/ HeadAt(rest) # 0)
        BY <1>2, FirstByte DEF Starts
  <1>6. used' = 0
    <2>1. MarkAt(rest) => MarkRead(rest) = {TRUE}
          BY DEF MarkAt, MarkRead
    <2>2. PICK mark \in MarkRead(rest) : used' = IF HeadAt(rest) # 0 \/ mark THEN 0 ELSE used
          BY <1>1
    <2>3. CASE HeadAt(rest) # 0
          BY <2>2, <2>3
    <2>4. CASE MarkAt(rest)
      <3>1. mark = TRUE
            BY <2>1, <2>4
      <3> QED BY <2>2, <3>1
    <2> QED BY <1>5, <2>3, <2>4
  <1>7. pc' = "search"
        BY <1>1, <1>6
  <1>8. Drop(got', before') = <<>>
        BY <1>1, <1>2, DropNone
  <1>9. CASE Kind(HeadAt(rest)) # "index"
    <2>1. rest' = rest
          BY <1>1, <1>9
    <2>2. P + (Len(packet') - Len(rest')) = P
          BY <1>1, <1>2, <1>3, <2>1
    <2>3. Between(stream', P, P) = {} /\ Lists(<<>>, {})
          BY <1>1, <1>3, NoneBetween
    <2> QED BY <1>5, <1>7, <1>8, <2>1, <2>2, <2>3 DEF Handles
  <1>10. CASE Kind(HeadAt(rest)) = "index"
    <2> DEFINE k == rest[1][1]
               f == Off(stream)
    <2>1. k \in 1 .. Len(stream) /\ P = f[k]
          BY <1>3, <1>4, <1>5, Message
    <2>2. Len(rest) >= HeadLen /\ stream[k] = "index"
      <3>1. Len(rest) < HeadLen => Kind(HeadAt(rest)) = "none"
            BY <1>3, <1>4, <1>5, Reading
      <3>2. Len(rest) >= HeadLen
            BY <1>3, <1>10, <3>1, Room
      <3>3. Kind(HeadAt(rest)) = IF stream[k] \notin {"mapping", "other"} THEN stream[k] ELSE "none"
            BY <1>3, <1>4, <1>5, <3>2, Reading
      <3> QED BY <1>10, <3>2, <3>3
    <2>3. rest' = Drop(rest, HeadLen) /\ LenOf[stream[k]] = HeadLen /\ HeadLen \in Nat
          BY <1>1, <1>10, <2>2, Sizing
    <2>4. rest' # <<>> => rest'[1][2] = 1
      <3> SUFFICES ASSUME Drop(rest, LenOf[stream[k]]) # <<>> PROVE Drop(rest, LenOf[stream[k]])[1][2] = 1
          BY <2>3
      <3> QED BY <1>3, <1>4, <1>5, Behind
    <2>5. Len(rest') = Len(rest) - HeadLen
          BY <1>3, <2>2, <2>3, Dropped
    <2>6. P + (Len(packet') - Len(rest')) = f[k + 1]
      <3>1. f[k + 1] = f[k] + HeadLen /\ f[k] \in Nat
            BY <1>3, <2>1, <2>3, Stream
      <3> DEFINE a == f[k]
                 b == f[k + 1]
                 n == Len(rest)
                 q == Len(rest')
      <3>2. P = a /\ a \in Nat /\ b = a + HeadLen /\ HeadLen \in Nat /\ q = n - HeadLen /\ n \in Nat
            BY <1>3, <2>1, <2>3, <2>5, <3>1
      <3>3. Len(packet') = n
            BY <1>1, <1>2
      <3> HIDE DEF a, b, n, q
      <3>4. P + (n - q) = b
            BY <3>2
      <3> QED BY <3>3, <3>4 DEF q, b
    <2>7. Lists(<<>>, Between(stream, P, f[k + 1]))
      <3>1. Lists(<<>>, Between(stream, P, f[k]))
            BY <1>3, <2>1, NoneBetween
      <3>2. <<>> \in Seq(Nat) /\ P <= f[k]
            BY <2>1
      <3>3. Lists(With(stream, <<>>, k), Between(stream, P, f[k + 1]))
            BY <1>3, <2>1, <3>1, <3>2, Advanced
      <3>4. With(stream, <<>>, k) = <<>>
            BY <2>2 DEF With, Wanted
      <3> QED BY <3>3, <3>4
    <2>8. Lists(Drop(got', before'), Between(stream', P, P + (Len(packet') - Len(rest'))))
      <3> HIDE DEF f, k
      <3> QED BY <1>1, <1>8, <2>6, <2>7
    <2> QED BY <1>7, <2>4, <2>8 DEF Handles
  <1> QED BY <1>9, <1>10

(* A step of the handler on a packet that starts with a message.           *)
LEMMA HandlesStep ==
  ASSUME Types, Place, NEW P \in Nat, Placed(P), Starts(packet), Orderly(packet), Handles(P), OnData_lv1
  PROVE  Handles(P)'
  <1>1. stream' = stream /\ packet' = packet /\ before' = before
    <2>1. Moves
          BY HandlerMoves
    <2> QED BY <2>1 DEF Moves, net
  <1>2. /\ stream \in Streams /\ rest \in Seq(Byte(stream)) /\ Len(rest) \in Nat /\ Len(got) \in Nat
        /\ (rest # <<>> <=> Len(rest) > 0) /\ packet \in Seq(Byte(stream)) /\ Len(packet) \in Nat
        /\ before \in Nat /\ before <= Len(got)
    <2>1. packet \in Seq(Byte(stream)) /\ before \in Nat /\ before <= Len(got)
          BY DEF Types
    <2> QED BY <2>1, Typed, LenProperties
  <1>3. Len(rest) <= Len(packet)
        BY DEF Placed
  <1>4. PICK C \in Nat : C = P + (Len(packet) - Len(rest))
    <2>1. Len(rest) \in Nat /\ Len(packet) \in Nat
          BY <1>2
    <2>2. P + (Len(packet) - Len(rest)) \in Nat
          BY <1>3, <2>1
    <2> QED BY <2>2
  <1>5. Run(stream, rest, C)
        BY <1>4 DEF Placed
  <1>6. Orderly(rest)
        BY OrderlyRest
  <1>7. /\ pc \notin {"half", "undefined"} /\ (pc = "search" /\ rest # <<>> => rest[1][2] = 1)
        /\ Lists(Drop(got, before), Between(stream, P, C))
        BY <1>4 DEF Handles
  <1>8. ASSUME rest' = rest, got' = got, pc' \notin {"half", "undefined", "search"} PROVE Handles(P)'
        BY <1>1, <1>4, <1>7, <1>8 DEF Handles
  <1>9. ASSUME NEW e \in Nat, e = P + (Len(packet) - Len(rest')), Lists(Drop(got', before), Between(stream, P, e)),
               pc' \notin {"half", "undefined", "search"}
        PROVE  Handles(P)'
        BY <1>1, <1>9 DEF Handles
  <1>10. CASE Discard
         BY <1>10, DiscardHandles
  <1>11. CASE HalfComplete \/ HalfGrows \/ HalfIndex \/ HalfUnknown
         BY <1>7, <1>11 DEF HalfComplete, HalfGrows, HalfIndex, HalfUnknown
  <1>12. CASE Search
    <2>1. pc = "search" /\ got' = got
          BY <1>12, Searching DEF Search
    <2>2. CASE rest' = rest /\ pc' = "loop"
          BY <1>8, <2>1, <2>2
    <2>3. CASE /\ rest' = <<>> /\ pc' = "idle"
               /\ rest # <<>> => rest[1][1] \in 1 .. Len(stream) /\ Len(rest) < LenOf[stream[rest[1][1]]]
      <3>1. CASE rest = <<>>
            BY <1>8, <2>1, <2>3, <3>1
      <3>2. CASE rest # <<>>
        <4> DEFINE k == rest[1][1]
        <4>1. k \in 1 .. Len(stream) /\ C = Off(stream)[k] /\ Len(rest) < LenOf[stream[k]]
              BY <1>2, <1>5, <1>7, <2>1, <2>3, <3>2, Message
        <4> HIDE DEF k
        <4>2. Between(stream, P, Off(stream)[k] + Len(rest)) = Between(stream, P, Off(stream)[k])
              BY <1>2, <4>1, Incomplete
        <4>3. PICK e \in Nat : e = C + Len(rest)
              BY <1>2
        <4>4. e = P + (Len(packet) - Len(rest'))
          <5>1. Len(rest') = 0
                BY <2>3
          <5> QED BY <1>2, <1>4, <4>3, <5>1
        <4>5. Lists(Drop(got', before), Between(stream, P, e))
              BY <1>7, <2>1, <4>1, <4>2, <4>3
        <4> QED BY <1>9, <2>3, <4>4, <4>5
      <3> QED BY <3>1, <3>2
    <2>4. rest # <<>> => rest[1][2] = 1
          BY <1>7, <2>1
    <2> QED BY <1>6, <1>12, <2>2, <2>3, <2>4, SearchFront
  <1>13. CASE pc = "loop" /\ rest # <<>>
    <2>1. PICK end \in Nat : end = C + Len(rest)
          BY <1>2
    <2>2. P <= C
          BY <1>2, <1>3, <1>4
    <2>10. PICK b \in Nat : b = before
           BY <1>2
    <2>3. pc' \in {"loop", "idle"} /\ b <= Len(got') /\ Reached(P, end, b)'
      <3>1. pc = "loop" /\ rest # <<>> /\ Lists(Drop(got, b), Between(stream, P, C)) /\ b <= Len(got)
            BY <1>2, <1>7, <1>13, <2>10
      <3> QED BY <1>5, <1>6, <2>1, <2>2, <3>1, LoopStep
    <2>4. PICK m \in 1 .. Len(stream) + 1 :
             /\ Off(stream)[m] + used' + Len(rest') = end /\ P <= Off(stream)[m]
             /\ Lists(Drop(got', b), Between(stream, P, Off(stream)[m]))
             /\ used' > 0 => m <= Len(stream) /\ used' < LenOf[stream[m]]
          BY <1>1, <2>3, Zenon DEF Reached
    <2>5. used' \in Nat /\ Len(rest') \in Nat
      <3>1. Types'
            BY HandlerMoves
      <3>2. rest' \in Seq(Byte(stream')) /\ used' \in Nat
            BY <3>1 DEF Types
      <3> QED BY <3>2, LenProperties
    <2>6. Off(stream)[m] \in Nat
      <3>1. Off(stream) \in [1 .. Len(stream) + 1 -> Nat]
            BY <1>2, Offsets DEF Laid
      <3> QED BY <3>1
    <2>7. PICK e \in Nat : e = Off(stream)[m] + used'
          BY <2>5, <2>6
    <2>8. e = P + (Len(packet) - Len(rest'))
      <3> DEFINE a == Off(stream)[m]
                 n == Len(rest)
                 q == Len(rest')
                 p == Len(packet)
                 u == used'
      <3>1. n \in Nat /\ p \in Nat /\ q \in Nat /\ u \in Nat /\ a \in Nat
            BY <1>2, <2>5, <2>6
      <3>2. C = P + (p - n) /\ end = C + n /\ a + u + q = end /\ e = a + u
            BY <1>4, <2>1, <2>4, <2>7
      <3> HIDE DEF a, n, q, p, u
      <3>3. e = P + (p - q)
            BY <3>1, <3>2
      <3> QED BY <3>3 DEF p, q
    <2>9. Between(stream, P, e) = Between(stream, P, Off(stream)[m])
      <3>1. CASE used' = 0
            BY <2>6, <2>7, <3>1
      <3>2. CASE used' # 0
        <4>1. used' > 0
              BY <2>5, <3>2
        <4>2. m \in 1 .. Len(stream) /\ used' < LenOf[stream[m]]
              BY <1>2, <2>4, <4>1
        <4>3. Between(stream, P, Off(stream)[m] + used') = Between(stream, P, Off(stream)[m])
              BY <1>2, <2>5, <4>2, Incomplete
        <4> QED BY <2>7, <4>3
      <3> QED BY <3>1, <3>2
    <2> QED BY <1>9, <2>3, <2>4, <2>8, <2>9, <2>10
  <1>14. CASE pc = "loop" /\ rest = <<>>
    <2>1. CASE LoopEnd
          BY <1>8, <2>1 DEF LoopEnd
    <2>2. Cut
      <3>1. Len(rest) < HeadLen
            BY <1>2, <1>14, Room
      <3> QED BY <3>1 DEF Cut
    <2> QED BY <1>14, <2>1, <2>2 DEF OnData_lv1, Discard, HalfComplete, HalfGrows, HalfIndex, HalfUnknown, Search,
                                     LoopCut, LoopMessage, LoopIndex, LoopUnknown, LoopArbitrage
  <1>15. pc \in {"start", "half", "search", "loop"}
         BY DEF OnData_lv1, Discard, HalfComplete, HalfGrows, HalfIndex, HalfUnknown, Search, LoopEnd,
                LoopCut, LoopMessage, LoopIndex, LoopUnknown, LoopArbitrage
  <1> QED BY <1>10, <1>11, <1>12, <1>13, <1>14, <1>15 DEF OnData_lv1, LoopEnd, LoopCut, LoopMessage, LoopIndex, LoopUnknown,
                LoopArbitrage

---------------------------------------------------------------------------
(* PacketHandled.                                                          *)

(* A step of the handler leaves the packet where it is.                    *)
LEMMA StaysPlaced ==
  ASSUME Types, Place, OnData_lv1
  PROVE  \A P \in Nat : Placed(P) => Placed(P)'
  <1>1. Moves
        BY HandlerMoves
  <1>2. PICK d \in Nat : rest' = Drop(rest, d)
        BY <1>1 DEF Moves
  <1> QED BY <1>1, <1>2, Kept DEF Moves

(* A packet that has just come.                                            *)
LEMMA HandlesFirst ==
  ASSUME Types, Types', NEW P \in Nat, pc' = "start", rest' = packet', before' = Len(got), got' = got
  PROVE  Handles(P)'
  <1>1. got \in Seq(0 .. Len(stream)) /\ stream' \in Streams
        BY DEF Types
  <1>2. Drop(got', before') = <<>>
        BY <1>1, DropNone
  <1>3. Len(packet') \in Nat
    <2>1. packet' \in Seq(Byte(stream'))
          BY DEF Types
    <2> QED BY <2>1, LenProperties
  <1>4. P + (Len(packet') - Len(rest')) = P
        BY <1>3
  <1>5. Between(stream', P, P) = {} /\ Lists(<<>>, {})
        BY <1>1, NoneBetween
  <1> QED BY <1>2, <1>4, <1>5 DEF Handles

(* Every step keeps it: the list has what the packet is read up to.        *)
LEMMA DoneStep ==
  ASSUME Types, Place, PacketDone, [Next]_vars
  PROVE  PacketDone'
  <1>1. PICK P \in Nat : Placed(P) /\ (Starts(packet) /\ Orderly(packet) => Handles(P))
        BY DEF PacketDone
  <1>2. ASSUME NEW Q \in Nat, Placed(Q)', Handles(Q)' PROVE PacketDone'
        BY <1>2 DEF PacketDone
  <1>3. CASE \E n \in Sizes : Packet(n)
    <2>1. PICK n \in Sizes : Packet(n)
          BY <1>3
    <2>2. /\ Types' /\ got' = got /\ rest' = packet' /\ pc' = "start" /\ before' = Len(got)
          /\ \E Q \in Nat : Placed(Q)'
          BY <2>1, PacketArrives
    <2>3. PICK Q \in Nat : Placed(Q)'
          BY <2>2
    <2>4. Handles(Q)'
          BY <2>2, HandlesFirst
    <2> QED BY <1>2, <2>3, <2>4
  <1>4. CASE Duplicate
    <2>1. /\ Types' /\ got' = got /\ rest' = packet' /\ pc' = "start" /\ before' = Len(got)
          /\ \A Q \in Nat : Run(stream, packet, Q) => Placed(Q)'
          BY <1>4, DuplicateArrives
    <2>2. Placed(P)'
          BY <1>1, <2>1 DEF Placed
    <2>3. Handles(P)'
          BY <2>1, HandlesFirst
    <2> QED BY <1>2, <2>2, <2>3
  <1>5. ASSUME Placed(P)', UNCHANGED <<stream, packet>>, Starts(packet) /\ Orderly(packet) => Handles(P)' PROVE PacketDone'
    <2>1. Starts(packet)' => Starts(packet)
          BY <1>5 DEF Starts, MarkAt, HeadAt, Kind
    <2>2. Orderly(packet)' => Orderly(packet)
          BY <1>5 DEF Orderly
    <2> QED BY <1>5, <2>1, <2>2 DEF PacketDone
  <1>6. CASE \E n \in Sizes : Lose(n)
    <2>1. PICK n \in Sizes : Lose(n)
          BY <1>6
    <2>2. UNCHANGED <<stream, packet, rest, half, used, pc, got, before, duplicated>> /\ Placed(P)'
          BY <1>1, <2>1, LoseMisses
    <2>3. Handles(P) => Handles(P)'
          BY <2>2 DEF Handles
    <2> QED BY <1>1, <1>5, <2>2, <2>3
  <1>7. CASE OnData_lv1
    <2>1. Placed(P)'
          BY <1>1, <1>7, StaysPlaced
    <2>2. UNCHANGED <<stream, packet>>
      <3>1. Moves
            BY <1>7, HandlerMoves
      <3> QED BY <3>1 DEF Moves, net
    <2>3. Starts(packet) /\ Orderly(packet) => Handles(P)'
          BY <1>1, <1>7, HandlesStep
    <2> QED BY <1>5, <2>1, <2>2, <2>3
  <1>8. CASE Quiet \/ UNCHANGED vars
    <2>1. UNCHANGED vars
          BY <1>8 DEF Quiet
    <2>2. Placed(P)' /\ (Handles(P) => Handles(P)') /\ UNCHANGED <<stream, packet>>
          BY <1>1, <2>1 DEF vars, Placed, Run, Handles
    <2> QED BY <1>1, <1>5, <2>2
  <1> QED BY <1>3, <1>4, <1>6, <1>7, <1>8 DEF Next

(* There is no packet yet.                                                 *)
LEMMA DoneInit ==
  ASSUME Init
  PROVE  PacketDone
  <1>1. packet = <<>> /\ rest = <<>> /\ Len(<<>>) = 0 /\ 0 + (0 - 0) = 0 /\ 0 <= 0
        BY DEF Init
  <1>2. Types
        BY BasicInit
  <1>3. Run(stream, <<>>, 0)
    <2>1. rest \in Seq(Byte(stream)) /\ Len(Bytes[stream]) \in Nat
          BY <1>2, Stream DEF Types
    <2> QED BY <1>1, <2>1 DEF Run
  <1>4. Placed(0)
        BY <1>1, <1>3 DEF Placed
  <1>5. ~Starts(packet)
    <2> SUFFICES ASSUME Starts(packet) PROVE FALSE
        OBVIOUS
    <2>1. Len(packet) >= MarkLen
          BY FirstByte DEF Starts
    <2> QED BY <1>1, <2>1, Room
  <1> QED BY <1>4, <1>5 DEF PacketDone

(* Whatever was missed or doubled before, a packet that starts with a      *)
(* message has every wanted message in it handled, and no other.           *)
THEOREM WholePacket == Spec => []PacketHandled
  <1>1. Types /\ Place /\ PacketDone => PacketHandled
    <2> SUFFICES ASSUME Types, Place, PacketDone, pc = "idle", Starts(packet), Orderly(packet)
                 PROVE  Lists(SubSeq(got, before + 1, Len(got)), Wholly(packet))
        BY DEF PacketHandled
    <2>1. PICK P \in Nat : Placed(P) /\ Handles(P)
          BY DEF PacketDone
    <2>2. rest = <<>> /\ Len(<<>>) = 0 /\ stream \in Streams /\ packet \in Seq(Byte(stream)) /\ Len(packet) \in Nat
      <3>1. packet \in Seq(Byte(stream))
            BY DEF Types
      <3> QED BY <3>1, Typed, LenProperties DEF Phases
    <2>3. Len(packet) - Len(rest) = Len(packet)
          BY <2>2
    <2>4. Lists(Drop(got, before), Between(stream, P, P + Len(packet)))
          BY <2>1, <2>3 DEF Handles
    <2>5. Wholly(packet) = Between(stream, P, P + Len(packet))
          BY <2>1, <2>2, Held DEF Placed
    <2> QED BY <2>4, <2>5 DEF Drop
  <1>2. Init => Types /\ Place /\ PacketDone
        BY BasicInit, DoneInit
  <1>3. Types /\ Place /\ PacketDone /\ [Next]_vars => (Types /\ Place /\ PacketDone)'
        BY BasicNext, DoneStep
  <1> QED BY <1>1, <1>2, <1>3, PTL DEF Spec

---------------------------------------------------------------------------
(* A clean run: one message at a time.                                     *)

(* A run from where a message lies starts with it.                         *)
LEMMA Starting ==
  ASSUME NEW s \in Streams, NEW k \in 1 .. Len(s) + 1, NEW y, Run(s, y, Off(s)[k]), y # <<>>
  PROVE  /\ k \in 1 .. Len(s) /\ y[1][1] = k /\ y[1][2] = 1 /\ Len(y) > 0
         /\ \A i \in 1 .. Len(y) : i <= LenOf[s[k]] => y[i] = <<k, i>>
  <1> DEFINE P == Off(s)[k]
             B == Bytes[s]
  <1>1. y \in Seq(Byte(s)) /\ P \in Nat /\ P + Len(y) <= Len(B) /\ \A i \in 1 .. Len(y) : y[i] = B[P + i]
        BY DEF Run
  <1>2. Len(y) \in Nat /\ Len(y) > 0 /\ Len(B) \in Nat /\ Len(s) \in Nat
        BY <1>1, Stream
  <1>3. Laid(s, B, Off(s))
        BY Offsets
  <1>4. Off(s)[Len(s) + 1] = Len(B)
        BY <1>3 DEF Laid
  <1>5. k \in 1 .. Len(s)
    <2>1. k # Len(s) + 1
      <3> SUFFICES ASSUME k = Len(s) + 1 PROVE FALSE
          OBVIOUS
      <3>1. P = Len(B)
            BY <1>4
      <3> HIDE DEF P, B
      <3> QED BY <1>1, <1>2, <3>1
    <2> QED BY <1>2, <2>1
  <1>6. \A o \in 1 .. LenOf[s[k]] : B[P + o] = <<k, o>>
        BY <1>3, <1>5 DEF Laid
  <1>7. LenOf[s[k]] \in Nat /\ LenOf[s[k]] > 0
        BY <1>5, Stream, Sizing
  <1> DEFINE L == LenOf[s[k]]
  <1> HIDE DEF P, B
  <1>8. \A i \in 1 .. Len(y) : i <= L => y[i] = <<k, i>>
    <2> TAKE i \in 1 .. Len(y)
    <2> SUFFICES ASSUME i <= L PROVE y[i] = <<k, i>>
        OBVIOUS
    <2>1. L \in Nat
          BY <1>7
    <2>2. i \in 1 .. L
      <3> HIDE DEF L
      <3> QED BY <2>1
    <2> QED BY <1>1, <1>6, <2>2
  <1>9. y[1][1] = k /\ y[1][2] = 1
    <2>1. 1 \in 1 .. Len(y) /\ 1 <= L
          BY <1>2, <1>7
    <2>2. y[1] = <<k, 1>>
          BY <1>8, <2>1
    <2> QED BY <2>2
  <1> QED BY <1>2, <1>5, <1>8, <1>9

(* In a packet that is cut cleanly, what starts behind nothing that was    *)
(* recognised can be recognised.                                           *)
LEMMA CleanTail ==
  ASSUME stream \in Streams, CleanCut(packet), NEW P, Run(stream, packet, P), NEW e \in Nat, e < Len(packet),
         Drop(packet, e)[1][2] = 1,
         \A i \in 1 .. e : packet[i][2] = 1 => i = 1 /\ stream[packet[1][1]] = "index"
  PROVE  Starts(Drop(packet, e))
  <1> SUFFICES ASSUME ~Starts(Drop(packet, e)) PROVE FALSE
      OBVIOUS
  <1> DEFINE y == Drop(packet, e)
             k == y[1][1]
             L == LenOf[stream[k]]
             n == Len(y)
  <1>1. packet \in Seq(Byte(stream)) /\ Len(packet) \in Nat
        BY LenProperties DEF Run
  <1>2. Run(stream, y, P + e) /\ Len(y) = Len(packet) - e
        BY <1>1, Runs
  <1>3. \A i \in 1 .. Len(y) : i + e \in 1 .. Len(packet) /\ y[i] = packet[i + e]
        BY <1>1, Dropped
  <1>4. ~Starts(y) /\ y[1][2] = 1
        OBVIOUS
  <1> HIDE DEF y
  <1>5. n \in Nat /\ n > 0 /\ n + e = Len(packet)
        BY <1>1, <1>2
  <1>6. /\ k \in 1 .. Len(stream) /\ \A i \in 1 .. Len(y) : i <= LenOf[stream[k]] => y[i] = <<k, i>>
        BY <1>2, <1>4, <1>5, Message
  <1>7. /\ MarkAt(y) <=> Len(y) >= MarkLen /\ stream[k] = "mapping"
        /\ HeadAt(y) = IF Len(y) >= HeadLen /\ stream[k] \notin {"mapping", "other"} THEN k ELSE 0
        BY <1>2, <1>4, <1>5, Reading
  <1>8. stream[k] # "other"
    <2>1. 1 \in 1 .. Len(y) /\ 1 + e \in 1 .. Len(packet) /\ y[1] = packet[1 + e]
          BY <1>3, <1>5
    <2>2. 1 + e \in DOMAIN packet
          BY <1>1, <2>1, LenProperties
    <2>3. Orderly(packet)
          BY DEF CleanCut
    <2> QED BY <2>1, <2>2, <2>3 DEF Orderly
  <1> HIDE DEF k
  <1>9. L \in Nat /\ HeadLen <= L /\ HeadLen \in Nat /\ MarkLen \in Nat /\ MarkLen < HeadLen /\ k # 0
        BY <1>6, Stream, Sizing
  <1>10. ~(n >= IF stream[k] = "mapping" THEN MarkLen ELSE HeadLen)
         BY <1>4, <1>7, <1>8, <1>9 DEF Starts
  <1>11. n < HeadLen
         BY <1>5, <1>9, <1>10
  <1>12. n < L
    <2> HIDE DEF L, n
    <2> QED BY <1>5, <1>9, <1>11
  <1>13. y[n] = <<k, n>>
    <2>1. n \in 1 .. Len(y) /\ n <= LenOf[stream[k]]
      <3>1. n <= L
        <4> HIDE DEF L, n
        <4> QED BY <1>5, <1>9, <1>12
      <3>2. n \in 1 .. n
            BY <1>5
      <3> QED BY <3>1, <3>2
    <2> QED BY <1>6, <2>1
  <1>14. packet[Len(packet)] = <<k, n>>
    <2>1. n \in 1 .. Len(y) /\ n + e = Len(packet)
          BY <1>5
    <2> QED BY <1>3, <1>13, <2>1
  <1>15. packet[Len(packet)][1] = k /\ packet[Len(packet)][2] = n
         BY <1>14
  <1>16. Len(packet) - n + 1 = e + 1 /\ e + 1 - 1 = e /\ ~(e + 1 < 1)
         BY <1>1, <1>5
  <1> HIDE DEF n, L
  <1>17. \/ n = LenOf[stream[k]]
         \/ e + 1 < 1
         \/ n >= (IF stream[k] = "mapping" THEN MarkLen ELSE HeadLen)
         \/ \E i \in 1 .. e : packet[i][2] = 1 /\ ~(i = 1 /\ stream[packet[1][1]] = "index")
    <2> DEFINE last == packet[Len(packet)]
               start == Len(packet) - last[2] + 1
               kind == stream[last[1]]
    <2>1. \/ last[2] = LenOf[kind]
          \/ start < 1
          \/ last[2] >= (IF kind = "mapping" THEN MarkLen ELSE HeadLen)
          \/ \E i \in 1 .. start - 1 : packet[i][2] = 1 /\ ~(i = 1 /\ stream[packet[1][1]] = "index")
          BY Zenon DEF CleanCut
    <2>2. last[1] = k /\ last[2] = n
          BY <1>15, Zenon
    <2>3. start = e + 1 /\ kind = stream[k]
          BY <1>16, <2>2
    <2> HIDE DEF last, start, kind
    <2>4. start - 1 = e
          BY <1>16, <2>3
    <2> QED BY <2>1, <2>2, <2>3, <2>4, Zenon
  <1>18. n # LenOf[stream[k]]
         BY <1>5, <1>9, <1>12 DEF L
  <1> QED BY <1>10, <1>16, <1>17, <1>18

(* The half and what comes behind it are bytes of one message.             *)
LEMMA OneMessage ==
  ASSUME Types, Place, NEW m \in 1 .. Len(stream), Follows(Off(stream)[m])
  PROVE  /\ \A i \in 1 .. used : i <= LenOf[stream[m]] => half[i] = <<m, i>>
         /\ \A i \in 1 .. Len(rest) : used + i <= LenOf[stream[m]] => rest[i] = <<m, used + i>>
         /\ LenOf[stream[m]] \in Nat /\ Off(stream)[m] \in Nat /\ HeadLen <= LenOf[stream[m]]
         /\ stream[m] \in Kinds /\ LenOf[stream[m]] <= Cap
  <1> DEFINE P == Off(stream)[m]
             L == LenOf[stream[m]]
             B == Bytes[stream]
  <1>1. /\ L \in Nat /\ P \in Nat /\ HeadLen <= L /\ stream[m] \in Kinds /\ L <= Cap
        /\ Len(rest) \in Nat /\ used \in Nat /\ stream \in Streams
        BY Typed, Stream
  <1>2. \A o \in 1 .. L : B[P + o] = <<m, o>>
        BY <1>1, Offsets DEF Laid
  <1>3. /\ \A i \in 1 .. used : half[i] = B[P + i]
        /\ \A i \in 1 .. Len(rest) : rest[i] = B[(P + used) + i]
        BY DEF Follows, Run
  <1> HIDE DEF P, B, L
  <1>4. ASSUME NEW i \in 1 .. used, i <= L PROVE half[i] = <<m, i>>
    <2>1. i \in 1 .. L
          BY <1>1, <1>4
    <2> QED BY <1>2, <1>3, <2>1
  <1>5. ASSUME NEW i \in 1 .. Len(rest), used + i <= L PROVE rest[i] = <<m, used + i>>
    <2>1. used + i \in 1 .. L /\ (P + used) + i = P + (used + i)
          BY <1>1, <1>5
    <2> QED BY <1>2, <1>3, <2>1
  <1> QED BY <1>1, <1>4, <1>5 DEF P, L

(* A half whose head is whole is recognised.                               *)
LEMMA HalfIs ==
  ASSUME Types, Place, NEW m \in 1 .. Len(stream), Follows(Off(stream)[m]), used + Len(rest) >= HeadLen,
         stream[m] # "other"
  PROVE  HalfKind = stream[m]
  <1>1. /\ \A i \in 1 .. used : i <= LenOf[stream[m]] => half[i] = <<m, i>>
        /\ \A i \in 1 .. Len(rest) : used + i <= LenOf[stream[m]] => rest[i] = <<m, used + i>>
        /\ LenOf[stream[m]] \in Nat /\ HeadLen <= LenOf[stream[m]] /\ stream[m] \in Kinds
        BY OneMessage
  <1>2. /\ Peeked \in [1 .. Cap -> Parts] /\ Len(Peeked) = Cap
        /\ \A i \in 1 .. Cap : i <= used => Peeked[i] = half[i]
        /\ \A i \in 1 .. HeadLen : i > used /\ i <= used + Len(rest) => i - used \in 1 .. Len(rest) /\ Peeked[i] = rest[i - used]
        BY Looking
  <1>3. stream \in Streams /\ used \in Nat /\ Len(rest) \in Nat /\ m # 0
        BY Typed, Stream
  <1>4. \A i \in 1 .. HeadLen : Peeked[i] = <<m, i>>
    <2> TAKE i \in 1 .. HeadLen
    <2> DEFINE L == LenOf[stream[m]]
    <2>1. i \in 1 .. Cap /\ i <= L
      <3>1. L \in Nat /\ HeadLen <= L
            BY <1>1
      <3> HIDE DEF L
      <3> QED BY <3>1, Room
    <2>2. CASE i <= used
      <3>1. i \in 1 .. used
            BY <1>3, <2>2
      <3> QED BY <1>1, <1>2, <2>1, <2>2, <3>1
    <2>3. CASE i > used
      <3>1. i <= used + Len(rest)
            BY <1>3, Room
      <3>2. i - used \in 1 .. Len(rest) /\ Peeked[i] = rest[i - used]
            BY <1>2, <2>3, <3>1
      <3>3. used + (i - used) = i
            BY <1>3
      <3>4. rest[i - used] = <<m, i>>
        <4>1. used + (i - used) <= LenOf[stream[m]]
              BY <2>1, <3>3
        <4>2. rest[i - used] = <<m, used + (i - used)>>
              BY <1>1, <3>2, <4>1
        <4> QED BY <3>3, <4>2
      <3> QED BY <3>2, <3>4
    <2> QED BY <1>3, <2>2, <2>3
  <1>5. /\ MarkAt(Peeked) <=> stream[m] = "mapping"
        /\ HeadAt(Peeked) = IF stream[m] \in {"mapping", "other"} THEN 0 ELSE m
    <2>1. HeadLen \in Nat /\ HeadLen <= Len(Peeked) /\ Len(Peeked) \in Nat /\ HeadLen >= MarkLen /\ HeadLen >= HeadLen
          BY <1>2, Room
    <2>2. /\ HeadLen >= MarkLen => (MarkAt(Peeked) <=> stream[m] = "mapping")
          /\ HeadLen >= HeadLen => HeadAt(Peeked) = IF stream[m] \in {"mapping", "other"} THEN 0 ELSE m
          BY <1>3, <1>4, <2>1, Recognised
    <2> QED BY <2>1, <2>2
  <1>6. HalfKind = IF Kind(HeadAt(Peeked)) # "index" /\ MarkAt(Peeked) THEN "mapping" ELSE Kind(HeadAt(Peeked))
        BY DEF HalfKind
  <1>7. Kind(m) = stream[m] /\ Kind(0) = "none"
        BY <1>3 DEF Kind
  <1>8. CASE stream[m] = "mapping"
        BY <1>5, <1>6, <1>7, <1>8
  <1>9. CASE stream[m] # "mapping"
        BY <1>5, <1>6, <1>7, <1>9
  <1> QED BY <1>8, <1>9

---------------------------------------------------------------------------
(* A clean run: what the handler has come to.                              *)

\* As long as packets come once and are cut cleanly.
CleanRun == clean =>
  /\ pc # "undefined" /\ lost = 0 /\ duplicated = 0
  /\ Reached(0, sent, 0)
  /\ pc = "half" => rest = packet
  /\ pc = "search" /\ rest # <<>> => Starts(rest)
  /\ pc # "idle" => CleanCut(packet)

\* The message the handler has come to.
Stands(m) ==
  /\ m \in 1 .. Len(stream) + 1 /\ Follows(Off(stream)[m])
  /\ Lists(got, Between(stream, 0, Off(stream)[m]))
  /\ used > 0 => m <= Len(stream) /\ used < LenOf[stream[m]]

(* In a clean run the handler has come to some message.                    *)
LEMMA Standing ==
  ASSUME Types, Place, Contiguous, CleanRun, clean
  PROVE  \E m \in 1 .. Len(stream) + 1 : Stands(m)
  <1>1. PICK m \in 1 .. Len(stream) + 1 :
           /\ Off(stream)[m] + used + Len(rest) = sent
           /\ Lists(Drop(got, 0), Between(stream, 0, Off(stream)[m]))
           /\ used > 0 => m <= Len(stream) /\ used < LenOf[stream[m]]
        BY DEF CleanRun, Reached
  <1>2. PICK Q \in Nat : Follows(Q)
        BY DEF CleanRun, Contiguous, Joined
  <1>3. stream \in Streams /\ Len(rest) \in Nat /\ used \in Nat /\ got \in Seq(0 .. Len(stream))
        BY Typed
  <1>4. Off(stream)[m] \in Nat
    <2>1. Off(stream) \in [1 .. Len(stream) + 1 -> Nat]
          BY <1>3, Offsets DEF Laid
    <2> QED BY <2>1
  <1> DEFINE P == Off(stream)[m]
  <1>5. Q = P
    <2>1. Q + used + Len(rest) = sent /\ P + used + Len(rest) = sent /\ P \in Nat
          BY <1>1, <1>2, <1>4 DEF Follows
    <2> HIDE DEF P
    <2> QED BY <1>3, <2>1
  <1>6. Drop(got, 0) = got
        BY <1>3, DropNone
  <1> QED BY <1>1, <1>2, <1>5, <1>6 DEF Stands

(* Where a message lies and what is reached there.                         *)
LEMMA ReachedAt ==
  ASSUME Types, Place, NEW m \in 1 .. Len(stream) + 1, stream' = stream, sent' = sent, NEW g, got' = g,
         g \in Seq(0 .. Len(stream)), Lists(g, Between(stream, 0, Off(stream)[m])),
         Off(stream)[m] + used' + Len(rest') = sent,
         used' > 0 => m <= Len(stream) /\ used' < LenOf[stream[m]]
  PROVE  Reached(0, sent, 0)'
  <1>1. Drop(got', 0) = got'
        BY DropNone
  <1>2. 0 <= Off(stream)[m]
    <2>1. Off(stream) \in [1 .. Len(stream) + 1 -> Nat]
          BY Typed, Offsets DEF Laid
    <2> QED BY <2>1
  <1> QED BY <1>1, <1>2, Zenon DEF Reached

(* The list with one message more, from the first on.                      *)
LEMMA AllFurther ==
  ASSUME Types, Place, NEW m \in 1 .. Len(stream), Lists(got, Between(stream, 0, Off(stream)[m]))
  PROVE  /\ Lists(With(stream, got, m), Between(stream, 0, Off(stream)[m + 1]))
         /\ With(stream, got, m) \in Seq(0 .. Len(stream))
  <1>1. got \in Seq(0 .. Len(stream)) /\ Drop(got, 0) = got /\ 0 \in Nat /\ 0 <= Len(got)
    <2>1. got \in Seq(0 .. Len(stream)) /\ Len(got) \in Nat
          BY Typed
    <2> QED BY <2>1, DropNone
  <1>2. 0 <= Off(stream)[m]
    <2>1. Off(stream)[m] \in Nat
          BY Typed, Stream
    <2> QED BY <2>1
  <1>3. /\ Lists(Drop(With(stream, got, m), 0), Between(stream, 0, Off(stream)[m + 1]))
        /\ With(stream, got, m) \in Seq(0 .. Len(stream))
        BY <1>1, <1>2, Further
  <1>4. Drop(With(stream, got, m), 0) = With(stream, got, m)
        BY <1>3, DropNone
  <1> QED BY <1>3, <1>4

(* An index head is at the start of bytes that start with an index.        *)
LEMMA IndexStart ==
  ASSUME stream \in Streams, NEW x, NEW P, Run(stream, x, P), Len(x) > 0, x[1][2] = 1, Kind(HeadAt(x)) = "index"
  PROVE  Len(x) >= HeadLen /\ stream[x[1][1]] = "index"
  <1> DEFINE k == x[1][1]
  <1>1. /\ Len(x) >= HeadLen => Kind(HeadAt(x)) = IF stream[k] \notin {"mapping", "other"} THEN stream[k] ELSE "none"
        /\ Len(x) < HeadLen => Kind(HeadAt(x)) = "none"
        BY Reading
  <1>2. Len(x) \in Nat
        BY LenProperties DEF Run
  <1>3. ~(Len(x) < HeadLen)
        BY <1>1
  <1>4. Len(x) >= HeadLen
        BY <1>2, <1>3, Room
  <1> QED BY <1>1, <1>4

(* The half is whole: the next message is where the packet goes on.        *)
LEMMA HalfDone ==
  ASSUME Types, Place, CleanCut(packet), rest = packet, NEW m \in 1 .. Len(stream), Stands(m), used > 0,
         NEW L \in Nat, L = LenOf[stream[m]], L - used <= Len(rest), stream' = stream, sent' = sent,
         got' = With(stream, got, m), rest' = Drop(rest, L - used), used' = 0
  PROVE  Reached(0, sent, 0)' /\ (rest' # <<>> => Starts(rest)')
  <1> DEFINE P == Off(stream)[m]
             y == Drop(rest, L - used)
  <1>1. /\ stream \in Streams /\ rest \in Seq(Byte(stream)) /\ Len(rest) \in Nat /\ used \in Nat /\ used < L
        /\ P \in Nat /\ Off(stream)[m + 1] = P + L /\ Len(stream) \in Nat
    <2>1. used < L
          BY DEF Stands
    <2> QED BY <2>1, Typed, Stream
  <1>2. PICK d \in Nat : d = L - used
        BY <1>1
  <1>3. d > 0 /\ used + d = L
        BY <1>1, <1>2
  <1>4. Follows(P)
        BY DEF Stands
  <1>5. \A i \in 1 .. d : i <= Len(rest) => packet[i][2] # 1
    <2> TAKE i \in 1 .. d
    <2> SUFFICES ASSUME i <= Len(rest) PROVE packet[i][2] # 1
        OBVIOUS
    <2>1. i \in 1 .. Len(rest) /\ used + i <= L /\ used + i # 1
          BY <1>1, <1>3
    <2>2. rest[i] = <<m, used + i>>
          BY <1>4, <2>1, OneMessage
    <2> QED BY <2>1, <2>2
  <1>6. y = Drop(rest, d) /\ d <= Len(rest)
        BY <1>2
  <1> HIDE DEF y
  <1>7. Run(stream, y, Off(stream)[m + 1]) /\ Len(y) = Len(rest) - d
    <2>1. PICK R \in Nat : R = P + used
          BY <1>1
    <2>2. Run(stream, rest, R)
          BY <1>4, <2>1 DEF Follows
    <2>3. Run(stream, y, R + d) /\ Len(y) = Len(rest) - d
          BY <1>1, <1>6, <2>2, Runs
    <2>4. R + d = Off(stream)[m + 1]
      <3> HIDE DEF P
      <3> QED BY <1>1, <1>3, <2>1
    <2> QED BY <2>3, <2>4
  <1>8. PICK j \in 1 .. Len(stream) + 1 : j = m + 1
        BY <1>1
  <1>9. y # <<>> => Starts(y)
    <2> SUFFICES ASSUME y # <<>> PROVE Starts(y)
        OBVIOUS
    <2>1. y[1][2] = 1 /\ Len(y) > 0
      <3>1. Run(stream, y, Off(stream)[j])
            BY <1>7, <1>8
      <3>2. stream \in Streams
            BY <1>1
      <3> QED BY <3>1, <3>2, Starting
    <2>2. d < Len(packet)
          BY <1>1, <1>7, <2>1
    <2>3. \A i \in 1 .. d : packet[i][2] = 1 => i = 1 /\ stream[packet[1][1]] = "index"
      <3>1. \A i \in 1 .. d : i <= Len(rest)
            BY <1>1, <1>6
      <3> QED BY <1>5, <3>1
    <2>4. PICK S \in Nat : Run(stream, packet, S)
          BY DEF Place, Placed
    <2>5. Drop(packet, d)[1][2] = 1
          BY <1>6, <2>1
    <2>6. Starts(Drop(packet, d))
          BY <1>1, <2>2, <2>3, <2>4, <2>5, CleanTail
    <2> QED BY <1>6, <2>6
  <1>10. rest' # <<>> => Starts(rest)'
    <2> SUFFICES ASSUME rest' # <<>> PROVE Starts(rest)'
        OBVIOUS
    <2>1. Starts(y) /\ stream' = stream /\ rest' = y
          BY <1>9 DEF y
    <2> QED BY <2>1 DEF Starts, MarkAt, HeadAt, Kind
  <1>11. Off(stream)[j] + used' + Len(rest') = sent
    <2> DEFINE n == Len(rest)
               a == Off(stream)[j]
               q == Len(rest')
    <2>1. q = n - d /\ n \in Nat /\ a = P + L /\ P + used + n = sent
      <3>1. rest' = y
            BY DEF y
      <3> QED BY <1>1, <1>4, <1>7, <1>8, <3>1 DEF Follows
    <2> HIDE DEF n, a, P, q
    <2>2. a + 0 + q = sent
          BY <1>1, <1>3, <2>1
    <2> QED BY <2>2 DEF a, q
  <1>12. Lists(With(stream, got, m), Between(stream, 0, Off(stream)[j])) /\ With(stream, got, m) \in Seq(0 .. Len(stream))
         BY <1>8, AllFurther DEF Stands
  <1>13. Reached(0, sent, 0)'
    <2>1. ~(used' > 0)
          OBVIOUS
    <2> QED BY <1>11, <1>12, <2>1, ReachedAt
  <1> QED BY <1>10, <1>13

(* The discard on a packet that is cut cleanly.                            *)
LEMMA CleanDiscard ==
  ASSUME Types, Place, CleanCut(packet), NEW m \in 1 .. Len(stream) + 1, Stands(m), Discard
  PROVE  /\ Reached(0, sent, 0)' /\ pc' \in {"half", "search"} /\ (pc' = "half" => rest' = packet)
         /\ pc' = "search" /\ rest' # <<>> => Starts(rest)'
  <1> DEFINE P == Off(stream)[m]
  <1>1. /\ pc = "start" /\ got' = got /\ pc' = (IF used' > 0 THEN "half" ELSE "search")
        /\ rest' = (IF Kind(HeadAt(rest)) = "index" THEN Drop(rest, HeadLen) ELSE rest)
        /\ \E mark \in MarkRead(rest) : used' = IF HeadAt(rest) # 0 \/ mark THEN 0 ELSE used
        /\ stream' = stream /\ sent' = sent /\ packet' = packet
        BY DEF Discard, net
  <1>2. rest = packet /\ packet # <<>>
        BY <1>1, Typed DEF Phases
  <1>3. /\ stream \in Streams /\ rest \in Seq(Byte(stream)) /\ Len(rest) \in Nat /\ Len(rest) > 0 /\ used \in Nat
        /\ got \in Seq(0 .. Len(stream)) /\ Drop(rest, 0) = rest
        BY <1>2, Typed
  <1>4. Follows(P) /\ Lists(got, Between(stream, 0, P)) /\ (used > 0 => m <= Len(stream) /\ used < LenOf[stream[m]])
        BY DEF Stands
  <1>5. P + used + Len(rest) = sent /\ Run(stream, rest, P + used)
        BY <1>4 DEF Follows
  <1>6. CASE used > 0
    <2>1. m \in 1 .. Len(stream) /\ used < LenOf[stream[m]]
      <3>1. Len(stream) \in Nat
            BY <1>3, Stream
      <3> QED BY <1>4, <1>6, <3>1
    <2>2. rest[1] = <<m, used + 1>>
      <3> DEFINE L == LenOf[stream[m]]
      <3>1. L \in Nat /\ \A i \in 1 .. Len(rest) : used + i <= L => rest[i] = <<m, used + i>>
            BY <1>4, <2>1, OneMessage
      <3>2. used < L
            BY <2>1
      <3> HIDE DEF L
      <3>3. 1 \in 1 .. Len(rest) /\ used + 1 <= L
            BY <1>3, <3>1, <3>2
      <3> QED BY <3>1, <3>3
    <2>3. rest[1][2] # 1
      <3>1. used + 1 # 1
            BY <1>3, <1>6
      <3> QED BY <2>2, <3>1
    <2>4. HeadAt(rest) = 0 /\ ~MarkAt(rest)
          BY <2>3, FirstByte
    <2>5. MarkRead(rest) = {FALSE}
      <3>1. {MarkAt(rest)} = {FALSE}
            BY <2>4 DEF MarkAt
      <3>2. CASE Len(rest) >= MarkLen
            BY <3>1, <3>2, Zenon DEF MarkRead
      <3>3. CASE ~(Len(rest) >= MarkLen)
            BY <2>3, <3>3, Zenon DEF MarkRead
      <3> QED BY <3>2, <3>3
    <2>6. used' = used
          BY <1>1, <2>4, <2>5
    <2>7. rest' = rest /\ pc' = "half"
          BY <1>1, <1>6, <2>4, <2>6 DEF Kind
    <2>8. Reached(0, sent, 0)'
          BY <1>1, <1>3, <1>4, <1>5, <2>6, <2>7, ReachedAt
    <2> QED BY <1>2, <2>7, <2>8
  <1>7. CASE ~(used > 0)
    <2>1. used = 0
          BY <1>3, <1>7
    <2>2. used' = 0 /\ pc' = "search"
          BY <1>1, <2>1
    <2>3. Run(stream, rest, P)
      <3>1. P \in Nat
        <4>1. Off(stream) \in [1 .. Len(stream) + 1 -> Nat]
              BY <1>3, Offsets DEF Laid
        <4> QED BY <4>1
      <3>2. P + used = P
        <4> HIDE DEF P
        <4> QED BY <2>1, <3>1
      <3> QED BY <1>5, <3>2
    <2>4. m \in 1 .. Len(stream) /\ rest[1][1] = m /\ rest[1][2] = 1
          BY <1>2, <1>3, <2>3, Starting
    <2>5. Starts(rest)
      <3>1. Drop(packet, 0) = packet /\ 0 < Len(packet) /\ 1 .. 0 = {}
            BY <1>2, <1>3
      <3> QED BY <1>2, <1>3, <2>3, <2>4, <3>1, CleanTail
    <2>6. CASE Kind(HeadAt(rest)) # "index"
      <3>1. rest' = rest
            BY <1>1, <2>6
      <3>2. Starts(rest)'
            BY <1>1, <2>5, <3>1 DEF Starts, MarkAt, HeadAt, Kind
      <3>3. Reached(0, sent, 0)'
            BY <1>1, <1>3, <1>4, <1>5, <2>1, <2>2, <3>1, ReachedAt
      <3> QED BY <2>2, <3>2, <3>3
    <2>7. CASE Kind(HeadAt(rest)) = "index"
      <3> DEFINE y == Drop(rest, HeadLen)
      <3>1. Len(rest) >= HeadLen /\ stream[m] = "index"
            BY <1>3, <2>3, <2>4, <2>7, IndexStart
      <3>2. LenOf[stream[m]] = HeadLen /\ HeadLen \in Nat /\ rest' = y
            BY <1>1, <2>7, <3>1, Sizing
      <3>3. P \in Nat /\ Off(stream)[m + 1] = P + HeadLen /\ Len(stream) \in Nat
            BY <1>3, <2>4, <3>2, Stream
      <3>4. Run(stream, y, P + HeadLen) /\ Len(y) = Len(rest) - HeadLen
            BY <1>3, <2>3, <3>1, <3>2, Runs
      <3>5. PICK j \in 1 .. Len(stream) + 1 : j = m + 1
            BY <2>4, <3>3
      <3> HIDE DEF y
      <3>6. y # <<>> => Starts(y)
        <4> SUFFICES ASSUME y # <<>> PROVE Starts(y)
            OBVIOUS
        <4>1. Run(stream, y, Off(stream)[j])
              BY <3>3, <3>4, <3>5
        <4>2. y[1][2] = 1 /\ Len(y) > 0
              BY <1>3, <4>1, Starting
        <4>3. HeadLen < Len(packet)
              BY <1>2, <1>3, <3>2, <3>4, <4>2
        <4>4. \A i \in 1 .. HeadLen : packet[i][2] = 1 => i = 1 /\ stream[packet[1][1]] = "index"
          <5> TAKE i \in 1 .. HeadLen
          <5>1. /\ i \in 1 .. Len(rest) /\ i <= LenOf[stream[m]]
                BY <1>3, <3>1, <3>2
          <5>2. rest[i] = <<m, i>>
                BY <1>2, <1>3, <2>3, <5>1, Starting
          <5>3. rest[i][2] = i
                BY <5>2
          <5> QED BY <1>2, <2>4, <3>1, <5>3
        <4>5. Starts(Drop(packet, HeadLen))
          <5>1. Drop(packet, HeadLen)[1][2] = 1 /\ Run(stream, packet, P)
                BY <1>2, <2>3, <4>2 DEF y
          <5> QED BY <1>3, <3>2, <4>3, <4>4, <5>1, CleanTail
        <4> QED BY <1>2, <4>5 DEF y
      <3>7. rest' # <<>> => Starts(rest)'
        <4> SUFFICES ASSUME rest' # <<>> PROVE Starts(rest)'
            OBVIOUS
        <4>1. Starts(y) /\ stream' = stream /\ rest' = y
              BY <1>1, <3>2, <3>6
        <4> QED BY <4>1 DEF Starts, MarkAt, HeadAt, Kind
      <3>8. Lists(got, Between(stream, 0, Off(stream)[j]))
        <4>1. With(stream, got, m) = got
              BY <3>1 DEF With, Wanted
        <4>2. Lists(With(stream, got, m), Between(stream, 0, Off(stream)[m + 1]))
              BY <1>4, <2>4, AllFurther
        <4> QED BY <3>5, <4>1, <4>2
      <3>9. Off(stream)[j] + used' + Len(rest') = sent
        <4> DEFINE n == Len(rest)
                   a == Off(stream)[j]
                   q == Len(rest')
        <4>1. q = n - HeadLen /\ n \in Nat /\ a = P + HeadLen /\ P + 0 + n = sent
              BY <1>3, <1>5, <2>1, <3>2, <3>3, <3>4, <3>5
        <4> HIDE DEF n, a, P, q
        <4>2. a + 0 + q = sent
              BY <3>2, <3>3, <4>1
        <4> QED BY <2>2, <4>2 DEF a, q
      <3>10. Reached(0, sent, 0)'
        <4>1. ~(used' > 0)
              BY <2>2
        <4> QED BY <1>1, <1>3, <3>8, <3>9, <4>1, ReachedAt
      <3> QED BY <2>2, <3>7, <3>10
    <2> QED BY <2>6, <2>7
  <1> QED BY <1>6, <1>7

---------------------------------------------------------------------------
(* ExactStream.                                                            *)

(* A half in a clean run is put together or grows, as it should.           *)
LEMMA CleanHalf ==
  ASSUME Types, Place, CleanCut(packet), rest = packet, NEW m \in 1 .. Len(stream) + 1, Stands(m), pc = "half",
         HalfComplete \/ HalfGrows \/ HalfIndex \/ HalfUnknown
  PROVE  /\ Reached(0, sent, 0)' /\ pc' \in {"idle", "search"}
         /\ pc' = "search" /\ rest' # <<>> => Starts(rest)'
  <1> DEFINE L == LenOf[stream[m]]
  <1>1. /\ stream \in Streams /\ Len(rest) \in Nat /\ used \in Nat /\ used > 0 /\ Len(stream) \in Nat
        /\ got \in Seq(0 .. Len(stream)) /\ packet \in Seq(Byte(stream))
    <2>1. used > 0 /\ packet \in Seq(Byte(stream))
          BY Typed DEF Phases, Types
    <2> QED BY <2>1, Typed, Stream
  <1>2. /\ m \in 1 .. Len(stream) /\ used < L /\ Follows(Off(stream)[m]) /\ Lists(got, Between(stream, 0, Off(stream)[m]))
        BY <1>1 DEF Stands
  <1>3. L \in Nat /\ HeadLen <= L /\ L <= Cap
        BY <1>2, OneMessage
  <1>4. Len(rest) >= HeadLen /\ Orderly(packet)
        BY Zenon DEF CleanCut
  <1>5. stream[m] # "other"
    <2>1. 1 \in 1 .. Len(rest) /\ 1 \in DOMAIN packet
          BY <1>1, <1>4, LenProperties, Room
    <2>2. used + 1 <= L
      <3> HIDE DEF L
      <3> QED BY <1>1, <1>2, <1>3
    <2>3. rest[1] = <<m, used + 1>>
          BY <1>2, <2>1, <2>2, OneMessage
    <2>4. packet[1][1] = m
          BY <2>3
    <2> QED BY <1>4, <2>1, <2>4 DEF Orderly
  <1>6. HalfKind = stream[m]
    <2>1. used + Len(rest) >= HeadLen
          BY <1>1, <1>4, Room
    <2> QED BY <1>2, <1>5, <2>1, HalfIs
  <1>7. /\ stream' = stream /\ sent' = sent
        BY DEF HalfComplete, HalfGrows, HalfIndex, HalfUnknown, net
  <1>8. stream[m] # "none"
        BY <1>2, OneMessage DEF Kinds
  <1>9. CASE HalfComplete
    <2>1. PICK k \in 1 .. Len(stream) :
            /\ HalfKind = stream[k] /\ LenOf[stream[k]] - used <= Len(rest)
            /\ rest' = Drop(rest, LenOf[stream[k]] - used) /\ used' = 0 /\ pc' = "search"
            /\ got' = With(stream, got, k) /\ Off(stream)[m] = Off(stream)[k]
      <3>1. PICK Q \in Nat : Q = Off(stream)[m]
            BY <1>1, <1>2, Stream
      <3> QED BY <1>2, <1>9, <3>1, HalfHands
    <2>2. L - used <= Len(rest) /\ rest' = Drop(rest, L - used)
          BY <1>6, <2>1
    <2>3. k = m
      <3>1. Laid(stream, Bytes[stream], Off(stream)) /\ LenOf[stream[k]] \in Nat /\ LenOf[stream[m]] \in Nat
            /\ 1 \in 1 .. LenOf[stream[k]] /\ 1 \in 1 .. LenOf[stream[m]]
        <4>1. LenOf[stream[k]] \in Nat /\ LenOf[stream[k]] > 0 /\ LenOf[stream[m]] \in Nat /\ LenOf[stream[m]] > 0
          <5>1. stream[k] \in Kinds /\ stream[m] \in Kinds
                BY <1>1, <1>2, Stream
          <5> QED BY <5>1, Sizing
        <4> QED BY <1>1, <4>1, Offsets
      <3>2. Bytes[stream][Off(stream)[m] + 1] = <<m, 1>> /\ Bytes[stream][Off(stream)[k] + 1] = <<k, 1>>
            BY <1>2, <3>1 DEF Laid
      <3>3. <<m, 1>> = <<k, 1>>
            BY <2>1, <3>2
      <3> QED BY <3>3
    <2>4. got' = With(stream, got, m)
          BY <2>1, <2>3
    <2> QED BY <1>1, <1>2, <1>3, <1>7, <2>1, <2>2, <2>4, HalfDone
  <1>10. CASE HalfIndex
    <2>1. stream[m] = "index" /\ L = HeadLen
          BY <1>6, <1>10, Sizing DEF HalfIndex
    <2>2. ~(used > HeadLen)
          BY <1>1, <1>2, <2>1, Room
    <2>3. got' = got /\ rest' = Drop(rest, HeadLen - used) /\ used' = 0 /\ pc' = "search"
          BY <1>10, <2>2 DEF HalfIndex
    <2>4. got' = With(stream, got, m)
          BY <2>1, <2>3 DEF With, Wanted
    <2>5. L - used <= Len(rest) /\ rest' = Drop(rest, L - used)
          BY <1>1, <1>4, <2>1, <2>3, Room
    <2> QED BY <1>1, <1>2, <1>3, <1>7, <2>3, <2>4, <2>5, HalfDone
  <1>11. CASE HalfGrows
    <2>1. /\ StillHalf /\ used' = used + Len(rest) /\ rest' = <<>> /\ got' = got
          /\ pc' = (IF used' > Cap THEN "undefined" ELSE "idle")
          BY <1>11 DEF HalfGrows, net
    <2>2. L - used < 0 \/ Len(rest) < L - used
          BY <1>6, <2>1 DEF StillHalf, Missing
    <2>3. used' < L
      <3> HIDE DEF L
      <3> QED BY <1>1, <1>2, <1>3, <2>1, <2>2
    <2>4. pc' = "idle"
      <3> HIDE DEF L
      <3>1. used' \in Nat
            BY <1>1, <2>1
      <3> QED BY <1>3, <2>1, <2>3, <3>1, Room
    <2>5. Off(stream)[m] + used' + Len(rest') = sent
      <3> DEFINE P == Off(stream)[m]
      <3>1. P \in Nat /\ P + used + Len(rest) = sent /\ Len(rest') = 0
            BY <1>1, <1>2, <2>1, Stream DEF Follows
      <3> HIDE DEF P
      <3>2. P + used' + Len(rest') = sent
            BY <1>1, <2>1, <3>1
      <3> QED BY <3>2 DEF P
    <2>6. Reached(0, sent, 0)'
      <3>1. m <= Len(stream)
            BY <1>1, <1>2
      <3> QED BY <1>1, <1>2, <1>7, <2>1, <2>3, <2>5, <3>1, ReachedAt
    <2> QED BY <2>4, <2>6
  <1>12. CASE HalfUnknown
         BY <1>6, <1>8, <1>12 DEF HalfUnknown
  <1> QED BY <1>9, <1>10, <1>11, <1>12

(* A step of the handler in a clean run.                                   *)
LEMMA CleanHandler ==
  ASSUME Types, Place, Contiguous, CleanRun, clean, OnData_lv1
  PROVE  CleanRun'
  <1>1. UNCHANGED net
    <2>1. Moves
          BY HandlerMoves
    <2> QED BY <2>1 DEF Moves
  <1>2. /\ stream' = stream /\ sent' = sent /\ packet' = packet /\ lost' = lost /\ duplicated' = duplicated
        BY <1>1 DEF net
  <1>3. pc \in {"start", "half", "search", "loop"}
        BY DEF OnData_lv1, Discard, HalfComplete, HalfGrows, HalfIndex, HalfUnknown, Search, LoopEnd,
               LoopCut, LoopMessage, LoopIndex, LoopUnknown, LoopArbitrage
  <1>4. /\ lost = 0 /\ duplicated = 0 /\ CleanCut(packet) /\ (pc = "half" => rest = packet)
        /\ (pc = "search" /\ rest # <<>> => Starts(rest))
        BY <1>3 DEF CleanRun
  <1>5. ASSUME pc' # "undefined", Reached(0, sent, 0)', pc' = "half" => rest' = packet,
               pc' = "search" /\ rest' # <<>> => Starts(rest)'
        PROVE  CleanRun'
    <2>1. CleanCut(packet)'
          BY <1>2, <1>4 DEF CleanCut, Orderly
    <2> QED BY <1>2, <1>4, <1>5, <2>1 DEF CleanRun
  <1>6. PICK m \in 1 .. Len(stream) + 1 : Stands(m)
        BY Standing
  <1>7. Orderly(rest)
    <2>1. Orderly(packet)
          BY <1>4, Zenon DEF CleanCut
    <2> QED BY <2>1, OrderlyRest
  <1>8. CASE Discard
        BY <1>4, <1>5, <1>6, <1>8, CleanDiscard
  <1>9. CASE HalfComplete \/ HalfGrows \/ HalfIndex \/ HalfUnknown
    <2>1. pc = "half"
          BY <1>9 DEF HalfComplete, HalfGrows, HalfIndex, HalfUnknown
    <2>2. /\ Reached(0, sent, 0)' /\ pc' \in {"idle", "search"}
          /\ pc' = "search" /\ rest' # <<>> => Starts(rest)'
          BY <1>4, <1>6, <1>9, <2>1, CleanHalf
    <2> QED BY <1>5, <2>2
  <1>10. ASSUME rest' = rest, got' = got, used' = used, pc' \notin {"half", "undefined", "search"} PROVE CleanRun'
    <2>1. Reached(0, sent, 0)
          BY DEF CleanRun
    <2>2. Reached(0, sent, 0)'
          BY <1>2, <1>10, <2>1 DEF Reached
    <2> QED BY <1>5, <1>10, <2>2
  <1>11. CASE Search
    <2>1. pc = "search" /\ UNCHANGED <<net, half, used, got>>
          BY <1>11, Searching DEF Search
    <2>2. rest # <<>> => rest[1][2] = 1
          BY <1>4, <2>1, FirstByte DEF Starts
    <2>3. rest' = rest /\ pc' \in {"loop", "idle"}
          BY <1>4, <1>7, <1>11, <2>1, <2>2, SearchFront
    <2> QED BY <1>10, <2>1, <2>3
  <1>12. CASE pc = "loop" /\ rest # <<>>
    <2>1. used = 0 /\ stream \in Streams /\ Len(rest) \in Nat /\ got \in Seq(0 .. Len(stream)) /\ Len(got) \in Nat
          BY <1>12, Typed DEF Phases
    <2>2. Off(stream)[m] \in Nat
      <3>1. Off(stream) \in [1 .. Len(stream) + 1 -> Nat]
            BY <2>1, Offsets DEF Laid
      <3> QED BY <3>1
    <2>3. PICK C \in Nat : C = Off(stream)[m]
          BY <2>2
    <2>4. C + 0 = C /\ 0 <= C /\ 0 \in Nat /\ 0 <= Len(got)
          BY <2>1
    <2>5. C + used + Len(rest) = sent /\ Run(stream, rest, C + used)
          BY <1>6, <2>3 DEF Stands, Follows
    <2>6. Run(stream, rest, C) /\ C + Len(rest) = sent
          BY <2>1, <2>4, <2>5
    <2>7. Lists(Drop(got, 0), Between(stream, 0, C))
          BY <1>6, <2>1, <2>3, DropNone DEF Stands
    <2>8. PICK end \in Nat : end = C + Len(rest)
          BY <2>1
    <2>9. pc' \in {"loop", "idle"} /\ Reached(0, end, 0)'
          BY <1>7, <1>12, <2>4, <2>6, <2>7, <2>8, LoopStep
    <2>10. end = sent'
           BY <1>2, <2>6, <2>8
    <2>11. Reached(0, sent, 0)'
           BY <2>9, <2>10 DEF Reached
    <2> QED BY <1>5, <2>9, <2>11
  <1>13. CASE pc = "loop" /\ rest = <<>>
    <2>1. CASE LoopEnd
          BY <1>10, <2>1 DEF LoopEnd
    <2>2. Cut
      <3>1. Len(rest) < HeadLen
            BY <1>13, Room
      <3> QED BY <3>1 DEF Cut
    <2> QED BY <1>13, <2>1, <2>2 DEF OnData_lv1, Discard, HalfComplete, HalfGrows, HalfIndex, HalfUnknown, Search,
                                     LoopCut, LoopMessage, LoopIndex, LoopUnknown, LoopArbitrage
  <1> QED BY <1>3, <1>8, <1>9, <1>11, <1>12, <1>13 DEF OnData_lv1, LoopEnd, LoopCut, LoopMessage, LoopIndex, LoopUnknown,
               LoopArbitrage

(* Every step of a clean run leaves it one.                                *)
LEMMA CleanStep ==
  ASSUME Types, Place, Contiguous, CleanRun, [Next]_vars
  PROVE  CleanRun'
  <1>1. CASE \E n \in Sizes : Packet(n)
    <2>1. PICK n \in Sizes : Packet(n)
          BY <1>1
    <2>2. /\ stream' = stream /\ used' = used /\ got' = got /\ rest' = packet' /\ pc' = "start" /\ pc = "idle"
          /\ sent' = sent + n /\ n \in Nat /\ Len(packet') = n /\ lost' = lost /\ duplicated' = duplicated
          /\ clean' = (clean /\ CleanCut(packet'))
          BY <2>1, PacketArrives
    <2> SUFFICES ASSUME clean' PROVE CleanRun'
        BY DEF CleanRun
    <2>3. clean /\ CleanCut(packet')
          BY <2>2
    <2>4. CleanCut(packet)'
          BY <2>2, <2>3 DEF CleanCut, Orderly
    <2>5. PICK m \in 1 .. Len(stream) + 1 :
             /\ Off(stream)[m] + used + Len(rest) = sent /\ 0 <= Off(stream)[m]
             /\ Lists(Drop(got, 0), Between(stream, 0, Off(stream)[m]))
             /\ used > 0 => m <= Len(stream) /\ used < LenOf[stream[m]]
          BY <2>3 DEF CleanRun, Reached
    <2>6. Off(stream)[m] + used' + Len(rest') = sent'
      <3> DEFINE P == Off(stream)[m]
      <3>1. P \in Nat /\ used \in Nat
        <4>1. Off(stream) \in [1 .. Len(stream) + 1 -> Nat]
              BY Typed, Offsets DEF Laid
        <4> QED BY <4>1, Typed
      <3>2. Len(rest) = 0
            BY <2>2, Typed DEF Phases
      <3>3. P + used + 0 = sent
            BY <2>5, <3>2
      <3> HIDE DEF P
      <3>4. P + used + n = sent + n
            BY <2>2, <3>1, <3>3
      <3> QED BY <2>2, <3>4 DEF P
    <2>7. Reached(0, sent, 0)'
          BY <2>2, <2>5, <2>6 DEF Reached
    <2>8. pc' # "undefined" /\ pc' # "half" /\ pc' # "search" /\ lost' = 0 /\ duplicated' = 0
          BY <2>2, <2>3 DEF CleanRun
    <2> QED BY <2>4, <2>7, <2>8 DEF CleanRun
  <1>2. CASE \E n \in Sizes : Lose(n)
    <2>1. clean' = FALSE
          BY <1>2, LoseMisses
    <2> QED BY <2>1 DEF CleanRun
  <1>3. CASE Duplicate
    <2>1. clean' = FALSE
          BY <1>3, DuplicateArrives
    <2> QED BY <2>1 DEF CleanRun
  <1>4. CASE OnData_lv1
    <2>1. Moves
          BY <1>4, HandlerMoves
    <2>2. clean' = clean
          BY <2>1 DEF Moves, net
    <2>3. CASE clean
          BY <1>4, <2>3, CleanHandler
    <2>4. CASE ~clean
          BY <2>2, <2>4 DEF CleanRun
    <2> QED BY <2>3, <2>4
  <1>5. CASE Quiet \/ UNCHANGED vars
    <2>1. UNCHANGED vars
          BY <1>5 DEF Quiet
    <2> QED BY <2>1 DEF vars, CleanRun, Reached, CleanCut, Orderly, Starts, MarkAt, HeadAt, Kind
  <1> QED BY <1>1, <1>2, <1>3, <1>4, <1>5 DEF Next

(* The run is clean as long as nothing was sent.                           *)
LEMMA CleanInit ==
  ASSUME Init
  PROVE  CleanRun
  <1>1. /\ sent = 0 /\ rest = <<>> /\ used = 0 /\ got = <<>> /\ Len(<<>>) = 0 /\ pc = "idle" /\ lost = 0 /\ duplicated = 0
        /\ Types
        BY BasicInit DEF Init
  <1>2. stream \in Streams /\ Len(stream) \in Nat /\ got \in Seq(0 .. Len(stream))
        BY <1>1, Stream DEF Types
  <1>3. Off(stream)[1] = 0 /\ 1 \in 1 .. Len(stream) + 1
        BY <1>2, Offsets DEF Laid
  <1>4. Lists(Drop(got, 0), Between(stream, 0, Off(stream)[1]))
    <2>1. Drop(got, 0) = <<>>
          BY <1>1, <1>2, DropNone
    <2>2. Between(stream, 0, 0) = {} /\ Lists(<<>>, {})
          BY <1>2, NoneBetween
    <2> QED BY <1>3, <2>1, <2>2
  <1>5. 0 + 0 + 0 = 0 /\ ~(0 > 0) /\ 0 <= 0
        OBVIOUS
  <1>6. Reached(0, sent, 0)
        BY <1>1, <1>3, <1>4, <1>5 DEF Reached
  <1> QED BY <1>1, <1>6 DEF CleanRun

(* With clean cuts every wanted message of the connection is handled once  *)
(* and in order.                                                           *)
THEOREM WholeStream == Spec => []ExactStream
  <1>1. Types /\ Place /\ Contiguous /\ CleanRun => ExactStream
    <2> SUFFICES ASSUME Types, Place, Contiguous, CleanRun, clean, pc = "idle"
                 PROVE  Lists(got, Wholly(SubSeq(Bytes[stream], 1, sent)))
        BY DEF ExactStream
    <2>1. PICK m \in 1 .. Len(stream) + 1 : Stands(m)
          BY Standing
    <2>2. /\ rest = <<>> /\ Len(<<>>) = 0 /\ stream \in Streams /\ used \in Nat /\ sent \in Nat /\ sent <= Len(Bytes[stream])
          /\ Len(stream) \in Nat
      <3>1. sent \in Nat /\ sent <= Len(Bytes[stream])
            BY DEF Types
      <3> QED BY <3>1, Typed, Stream DEF Phases
    <2>3. Off(stream)[m] \in Nat
      <3>1. Off(stream) \in [1 .. Len(stream) + 1 -> Nat]
            BY <2>2, Offsets DEF Laid
      <3> QED BY <3>1
    <2>4. sent = Off(stream)[m] + used
      <3> DEFINE P == Off(stream)[m]
      <3>1. P + used + 0 = sent /\ P \in Nat
            BY <2>1, <2>2, <2>3 DEF Stands, Follows
      <3> HIDE DEF P
      <3>2. P + used = sent
            BY <2>2, <3>1
      <3> QED BY <3>2 DEF P
    <2>5. Lists(got, Between(stream, 0, Off(stream)[m])) /\ (used > 0 => m <= Len(stream) /\ used < LenOf[stream[m]])
          BY <2>1 DEF Stands
    <2>6. Between(stream, 0, sent) = Between(stream, 0, Off(stream)[m])
      <3>1. CASE used = 0
        <4>1. sent = Off(stream)[m]
              BY <2>3, <2>4, <3>1
        <4> QED BY <4>1
      <3>2. CASE used # 0
        <4>1. m \in 1 .. Len(stream) /\ used < LenOf[stream[m]]
              BY <2>2, <2>5, <3>2
        <4> QED BY <2>2, <2>4, <4>1, Incomplete
      <3> QED BY <3>1, <3>2
    <2> DEFINE x == SubSeq(Bytes[stream], 1, sent)
    <2>7. Run(stream, x, 0) /\ Len(x) = sent
      <3>1. 0 + 1 = 1 /\ 0 + sent = sent /\ 0 + sent <= Len(Bytes[stream])
            BY <2>2
      <3>2. Run(stream, SubSeq(Bytes[stream], 0 + 1, 0 + sent), 0) /\ Len(SubSeq(Bytes[stream], 0 + 1, 0 + sent)) = sent
        <4>1. stream \in Streams /\ sent \in Nat /\ 0 \in Nat /\ 0 + sent <= Len(Bytes[stream])
              BY <2>2, <3>1
        <4> QED BY <4>1, CutOut, Zenon
      <3> QED BY <3>1, <3>2
    <2> HIDE DEF x
    <2>8. Wholly(x) = Between(stream, 0, sent)
      <3>1. 0 + sent = sent
            BY <2>2
      <3> QED BY <2>2, <2>7, <3>1, Held
    <2> QED BY <2>5, <2>6, <2>8 DEF x
  <1>2. Init => Types /\ Place /\ Contiguous /\ NothingForeign /\ CleanRun
        BY BasicInit, ForeignInit, CleanInit
  <1>3. Types /\ Place /\ Contiguous /\ NothingForeign /\ CleanRun /\ [Next]_vars
           => (Types /\ Place /\ Contiguous /\ NothingForeign /\ CleanRun)'
        BY BasicNext, ForeignStep, CleanStep
  <1> QED BY <1>1, <1>2, <1>3, PTL DEF Spec
---------------------------------------------------------------------------
(* Why the handler returns, but for the fairness of its steps.             *)

\* How far each place of the code is from the end.
Stage == [idle |-> 0, undefined |-> 0, loop |-> 1, search |-> 2, half |-> 3, start |-> 4]

\* A place further on, or less to read at the same one.
Nearer ==
  \/ Stage[pc'] < Stage[pc]
  \/ pc' = pc /\ Len(rest') < Len(rest)

(* A turn of the loop that changes anything reads on or ends it.           *)
LEMMA LoopNearer ==
  ASSUME Types, Place, LoopEnd \/ LoopCut \/ LoopMessage \/ LoopIndex \/ LoopUnknown
  PROVE  Nearer
  <1>1. rest \in Seq(Byte(stream)) /\ Len(rest) \in Nat /\ (rest # <<>> <=> Len(rest) > 0) /\ pc = "loop"
    <2>1. pc = "loop"
          BY DEF LoopEnd, LoopCut, LoopMessage, LoopIndex, LoopUnknown
    <2> QED BY <2>1, Typed
  <1>2. ASSUME rest # <<>>, NEW L \in Nat, L > 0, rest' = Drop(rest, L), pc' = "loop"
        PROVE  Nearer
    <2>1. Len(rest') < Len(rest)
      <3>1. CASE L <= Len(rest)
            BY <1>1, <1>2, <3>1, Dropped
      <3>2. CASE L > Len(rest)
            BY <1>1, <1>2, <3>2, Dropped
      <3> QED BY <1>1, <1>2, <3>1, <3>2
    <2> QED BY <1>1, <1>2, <2>1 DEF Nearer
  <1>3. ASSUME rest # <<>>, NEW x, NEW then \in {"idle", "loop"}, Stash(x, then)
        PROVE  Nearer
    <2>1. rest' = <<>> /\ pc' \in {"undefined", "idle", "loop"}
          BY <1>3 DEF Stash
    <2>2. Len(rest') < Len(rest)
          BY <1>1, <1>3, <2>1
    <2>3. pc' = pc \/ Stage[pc'] < Stage[pc]
          BY <1>1, <2>1 DEF Stage
    <2> QED BY <2>2, <2>3 DEF Nearer
  <1>4. CASE LoopEnd
        BY <1>1, <1>4 DEF LoopEnd, Nearer, Stage
  <1>5. CASE LoopCut
        BY <1>3, <1>5 DEF LoopCut
  <1>6. CASE LoopUnknown
        BY <1>3, <1>6 DEF LoopUnknown
  <1>7. CASE LoopMessage
    <2>1. PICK k \in 1 .. Len(stream) : rest # <<>> /\ rest' = Drop(rest, LenOf[stream[k]])
          BY <1>7, LoopHands
    <2>2. LenOf[stream[k]] \in Nat /\ LenOf[stream[k]] > 0
      <3>1. stream[k] \in Kinds
            BY Stream DEF Types
      <3> QED BY <3>1, Sizing
    <2>3. pc' = "loop"
          BY <1>1, <1>7 DEF LoopMessage
    <2> QED BY <1>2, <2>1, <2>2, <2>3
  <1>8. CASE LoopIndex
    <2> DEFINE behind == Drop(rest, HeadLen)
    <2>1. CASE MarkAt(behind) /\ Len(behind) >= LenOf["mapping"]
      <3>1. rest # <<>> /\ rest' = Drop(rest, HeadLen + LenOf["mapping"]) /\ pc' = pc
            BY <1>8, <2>1, IndexHands
      <3>2. HeadLen + LenOf["mapping"] \in Nat /\ HeadLen + LenOf["mapping"] > 0
            BY Room
      <3> QED BY <1>1, <1>2, <3>1, <3>2
    <2>2. CASE ~(MarkAt(behind) /\ Len(behind) >= LenOf["mapping"])
      <3>1. Stash(behind, "loop")
            BY <1>8, <2>2 DEF LoopIndex
      <3>2. rest # <<>>
            BY <1>1, <1>8, IndexFront DEF LoopIndex
      <3> QED BY <1>3, <3>1, <3>2
    <2> QED BY <2>1, <2>2
  <1> QED BY <1>4, <1>5, <1>6, <1>7, <1>8

(* Every step of OnData_lv1 that changes anything brings it nearer to its  *)
(* end: it goes to a later place of the code, or the loop has less to      *)
(* read.  The one step that changes nothing is that of an arbitrage quote, *)
(* on which the code loops for ever.                                       *)
THEOREM HandlerAdvances == Spec => [][OnData_lv1 => Nearer]_vars
  <1>1. Types /\ Place /\ [Next]_vars => [OnData_lv1 => Nearer]_vars
    <2> SUFFICES ASSUME Types, Place, OnData_lv1, vars' # vars PROVE Nearer
        OBVIOUS
    <2>1. ~LoopArbitrage
          BY DEF LoopArbitrage, vars
    <2>2. CASE Discard
      <3>1. pc = "start" /\ pc' \in {"half", "search"}
            BY <2>2 DEF Discard
      <3> QED BY <3>1 DEF Nearer, Stage
    <2>3. CASE HalfComplete \/ HalfGrows \/ HalfIndex \/ HalfUnknown
      <3>1. pc = "half" /\ pc' \in {"search", "idle", "undefined"}
            BY <2>3 DEF HalfComplete, HalfGrows, HalfIndex, HalfUnknown
      <3> QED BY <3>1 DEF Nearer, Stage
    <2>4. CASE Search
      <3>1. pc = "search" /\ pc' \in {"loop", "idle"}
            BY <2>4, Searching DEF Search
      <3> QED BY <3>1 DEF Nearer, Stage
    <2> QED BY <2>1, <2>2, <2>3, <2>4, LoopNearer DEF OnData_lv1
  <1> QED BY <1>1, Basic, PTL DEF Spec
=============================================================================

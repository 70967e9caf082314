------------------------ MODULE NanoDceFilterProofs ------------------------
(***************************************************************************)
(* Proofs about NanoDceFilter, for any contracts, books and bounds.        *)
(***************************************************************************)
EXTENDS NanoDceFilter, FiniteSetTheorems, TLAPS

\* The fields of quotes and cache entries, and that numbers compare.
LEMMA FieldTypes ==
    /\ \A q \in Quote : /\ q.inst \in Insts /\ q.time \in Times /\ q.volume \in Volumes
                        /\ q.book \in Books /\ q.price \in Prices
    /\ \A c \in QuotaInfo : /\ c.time \in Times /\ c.volume \in Volumes /\ c.level \in {0, 1, 5}
                            /\ c.book \in Books /\ c.open \in Prices /\ c.high \in Highs
    /\ \A n \in Times \cup Volumes \cup Highs : n \in Int /\ n >= 0
    /\ Prices \subseteq Highs /\ NoPrice \in Highs /\ 0 \in Highs
    /\ ~IsPrice(0) /\ ~IsPrice(NoPrice)
BY BoundsAssumption DEF Quote, QuotaInfo, Times, Volumes, Prices, Highs, NoPrice, IsPrice

\* An empty cache and an empty queue are in order.
LEMMA FilterInit == Init => FilterInv
<1> SUFFICES ASSUME Init PROVE FilterInv
  OBVIOUS
<1> USE BoundsAssumption
<1>1. 0 \in Times /\ 0 \in Volumes
  BY DEF Times, Volumes
<1>2. cache \in [Insts -> QuotaInfo] /\ received \in 0 .. MaxQuotes /\ queue \in Seq(Quote)
  BY DEF Init
<1>3. last \in [Insts -> [time : Times, volume : Volumes]]
  BY <1>1 DEF Init
<1>4. opens \in [Insts -> SUBSET Prices] /\ cleared \subseteq Insts /\ high \in [Insts -> Highs]
  BY FieldTypes DEF Init
<1>5. \A i \in Insts : /\ last[i].time = 0 /\ last[i].volume = 0 /\ cache[i].time = 0
                       /\ cache[i].volume = 0 /\ opens[i] = {}
  BY DEF Init
<1>6. \A i \in Insts : Leq(last[i], cache[i])
  <2> SUFFICES ASSUME NEW i \in Insts PROVE Leq(last[i], cache[i])
    OBVIOUS
  <2>1. 0 <= 0
    OBVIOUS
  <2> QED
    BY <1>5, <2>1, Zenon DEF Leq
<1>7. Len(queue) = 0
  BY DEF Init
<1>8. HighInv
  <2>1. \A i \in Insts : high[i] = 0 /\ cache[i].high = 0
    BY DEF Init
  <2> QED
    BY <2>1, FieldTypes DEF HighInv
<1> QED
  BY <1>2, <1>3, <1>4, <1>5, <1>6, <1>7, <1>8 DEF FilterInv, TypeOK, OrderInv, OpenInv

---------------------------------------------------------------------------
(* What the five handlers have in common: the cache entry of the quote's   *)
(* contract becomes some c with the opening price of OpenAfter.            *)
LEMMA ReceiveTypes ==
    ASSUME TypeOK, NEW q \in Quote, NEW c \in QuotaInfo, Receive(q, c)
    PROVE  /\ cache' \in [Insts -> QuotaInfo] /\ received' \in 0 .. MaxQuotes
           /\ cache'[q.inst].time = c.time /\ cache'[q.inst].volume = c.volume
           /\ cache'[q.inst].level = c.level /\ cache'[q.inst].high = c.high
           /\ cache[q.inst].open # 0 => cache'[q.inst].open = cache[q.inst].open
           /\ \A i \in Insts \ {q.inst} : cache'[i] = cache[i]
<1> USE FieldTypes, BoundsAssumption
<1>1. cache[q.inst] \in QuotaInfo /\ q.inst \in Insts
  BY DEF TypeOK
<1>2. OpenAfter(cache[q.inst], q) \in Prices
  BY <1>1 DEF OpenAfter
<1>3. [c EXCEPT !.open = OpenAfter(cache[q.inst], q)] \in QuotaInfo
  BY <1>2 DEF QuotaInfo
<1>4. received' \in 0 .. MaxQuotes
  BY DEF Receive, TypeOK
<1>5. /\ cache' \in [Insts -> QuotaInfo]
      /\ cache'[q.inst] = [c EXCEPT !.open = OpenAfter(cache[q.inst], q)]
      /\ \A i \in Insts \ {q.inst} : cache'[i] = cache[i]
  BY <1>1, <1>3 DEF Receive, TypeOK
<1>6. /\ cache'[q.inst].time = c.time /\ cache'[q.inst].volume = c.volume
      /\ cache'[q.inst].level = c.level /\ cache'[q.inst].open = OpenAfter(cache[q.inst], q)
      /\ cache'[q.inst].high = c.high
  BY <1>5 DEF QuotaInfo
<1> QED
  BY <1>4, <1>5, <1>6 DEF OpenAfter

\* What the handlers hand to Receive.
LEMMA EntryTypes ==
    ASSUME NEW c \in QuotaInfo, NEW q \in Quote, NEW l \in {0, 1, 5}
    PROVE  /\ Record(c, q, l) \in QuotaInfo
           /\ Record(c, q, l).time = q.time /\ Record(c, q, l).volume = q.volume
           /\ Record(c, q, l).level = l /\ Record(c, q, l).high = c.high
           /\ [c EXCEPT !.level = l] \in QuotaInfo
           /\ [c EXCEPT !.level = l].time = c.time /\ [c EXCEPT !.level = l].volume = c.volume
           /\ [c EXCEPT !.level = l].level = l /\ [c EXCEPT !.level = l].high = c.high
BY FieldTypes DEF Record, QuotaInfo

\* A level 2 quote changes nothing else when it leaves its highest price.
LEMMA HighEntry ==
    ASSUME NEW c \in QuotaInfo, NEW v \in Volumes, NEW h \in HighsAt(v)
    PROVE  /\ WithHigh(c, h) \in QuotaInfo
           /\ WithHigh(c, h).time = c.time /\ WithHigh(c, h).volume = c.volume
           /\ WithHigh(c, h).level = c.level /\ WithHigh(c, h).high = h
<1>1. v # 0 => v \in 1 .. MaxVolume
  BY BoundsAssumption DEF Volumes
<1>2. h \in Highs
  BY <1>1, FieldTypes, HighAssumption, BoundsAssumption DEF HighsAt, Highs, NoPrice
<1> QED
  BY <1>2 DEF WithHigh, QuotaInfo

\* A received quote adds at most the entry's opening price to those seen.
LEMMA OpenStep ==
    ASSUME TypeOK, OpenInv, NEW q \in Quote, NEW c \in QuotaInfo, Receive(q, c), opens' = opens
    PROVE  OpenInv'
<1>1. ASSUME NEW i \in Insts PROVE opens'[i] \subseteq {cache'[i].open} \ {0}
  <2>1. cache[i].open # 0 => cache'[i].open = cache[i].open
    BY ReceiveTypes
  <2>2. opens[i] \subseteq {cache[i].open} \ {0}
    BY DEF OpenInv
  <2> QED
    BY <2>1, <2>2
<1> QED
  BY <1>1 DEF OpenInv

\* Leq at integers only.
LEMMA Numbers ==
    ASSUME TypeOK
    PROVE  /\ \A i \in Insts : /\ cache[i].time \in Int /\ cache[i].volume \in Int
                              /\ last[i].time \in Int /\ last[i].volume \in Int
                              /\ cache[i].time >= 0 /\ cache[i].volume >= 0
           /\ \A k \in 1 .. Len(queue) : /\ queue[k].time \in Int /\ queue[k].volume \in Int
                                         /\ queue[k].inst \in Insts
<1>1. \A i \in Insts : cache[i] \in QuotaInfo /\ last[i] \in [time : Times, volume : Volumes]
  BY DEF TypeOK
<1>2. \A k \in 1 .. Len(queue) : queue[k] \in Quote
  BY DEF TypeOK
<1>3. \A i \in Insts : last[i].time \in Times /\ last[i].volume \in Volumes
  BY <1>1
<1> QED
  BY <1>1, <1>2, <1>3, FieldTypes

\* The queue and the cache after a quote was recorded or only looked at.
LEMMA CacheGrows ==
    ASSUME TypeOK, OrderInv, NEW x \in Insts, cleared' = cleared, last' = last, queue' = queue,
           \A i \in Insts \ {x} : cache'[i] = cache[i],
           cache'[x].time \in Int, cache'[x].volume \in Int, cache'[x].level \in {0, 1, 5},
           cache'[x].time >= 0, cache'[x].volume >= 0,
           cache[x].level # 0 => Leq(cache[x], cache'[x]) /\ cache'[x].level # 0,
           cache[x].level = 0 => cache'[x].level # 0
    PROVE  OrderInv'
<1> USE Numbers
<1>1. \A i \in Insts \ cleared : /\ Leq(last[i], cache'[i])
                                 /\ cache'[i].level = 0 => last[i].time = 0 /\ last[i].volume = 0
  BY DEF OrderInv, Leq
<1>2. ASSUME NEW k \in 1 .. Len(queue), queue[k].inst \notin cleared
      PROVE  /\ Leq(last[queue[k].inst], queue[k])
             /\ Leq(queue[k], cache'[queue[k].inst])
             /\ cache'[queue[k].inst].level # 0
  <2>1. /\ queue[k].inst \in Insts /\ Leq(queue[k], cache[queue[k].inst])
        /\ Leq(last[queue[k].inst], queue[k]) /\ cache[queue[k].inst].level # 0
    BY <1>2 DEF OrderInv
  <2>2. CASE queue[k].inst = x
    BY <2>1, <2>2 DEF Leq
  <2>3. CASE queue[k].inst # x
    BY <2>1, <2>3
  <2> QED
    BY <2>2, <2>3
<1>3. \A j, k \in 1 .. Len(queue) :
        j < k /\ queue[j].inst = queue[k].inst /\ queue[j].inst \notin cleared
            => Leq(queue[j], queue[k])
  BY DEF OrderInv
<1> QED
  BY <1>1, <1>2, <1>3 DEF OrderInv, Leq

\* The highest price after a quote was recorded or only looked at: as it was, or
\* what level 2 carries at a volume that has not gone back.
LEMMA HighGrows ==
    ASSUME TypeOK, HighInv, NEW x \in Insts, cleared' = cleared, high' = high,
           \A i \in Insts \ {x} : cache'[i] = cache[i],
           cache'[x].volume \in Volumes, cache'[x].level # 0,
           cache[x].level # 0 => cache[x].volume <= cache'[x].volume,
           cache'[x].high \in {cache[x].high} \cup HighsAt(cache'[x].volume)
    PROVE  HighInv'
<1> DEFINE old == cache[x].high   new == cache'[x].high
           v == cache[x].volume   w == cache'[x].volume
<1>1. v \in Volumes /\ old \in Highs /\ high[x] \in Highs /\ v \in Int /\ w \in Int
      /\ v >= 0 /\ w >= 0 /\ high[x] \in Int
  BY FieldTypes DEF TypeOK
<1>2. ASSUME x \notin cleared, IsPrice(old)
      PROVE  /\ v \in 1 .. MaxVolume /\ w \in 1 .. MaxVolume /\ old <= HighOf[w]
  <2>1. v > 0 /\ old <= HighOf[v] /\ cache[x].level # 0
    BY <1>2, FieldTypes DEF HighInv
  <2>2. v \in 1 .. MaxVolume /\ w \in 1 .. MaxVolume /\ v <= w
    BY <1>1, <2>1, BoundsAssumption DEF Volumes
  <2>3. HighOf[v] <= HighOf[w] /\ HighOf[v] \in Int /\ HighOf[w] \in Int
    BY <2>2, HighAssumption, BoundsAssumption
  <2>4. old \in Int
    BY <1>2, BoundsAssumption DEF IsPrice
  <2> QED
    BY <2>1, <2>2, <2>3, <2>4
<1>3. ASSUME x \notin cleared
      PROVE  /\ IsPrice(old) => IsPrice(new) /\ old <= new
             /\ IsPrice(new) => w > 0 /\ new <= HighOf[w]
  <2>1. CASE new = old
    <3>1. IsPrice(old) => old <= old
      BY BoundsAssumption DEF IsPrice
    <3>2. IsPrice(old) => w > 0
      BY <1>2, <1>3
    <3> QED
      BY <1>2, <1>3, <2>1, <3>1, <3>2
  <2>2. CASE w = 0 /\ new \in {0, NoPrice}
    <3>1. ~IsPrice(new)
      BY <2>2, FieldTypes
    <3>2. ~IsPrice(old)
      BY <1>2, <1>3, <2>2
    <3> QED
      BY <3>1, <3>2
  <2>3. CASE w # 0 /\ new = HighOf[w]
    <3>1. w \in 1 .. MaxVolume
      BY <1>1, <2>3, BoundsAssumption DEF Volumes
    <3>2. IsPrice(new)
      BY <2>3, <3>1, HighAssumption DEF IsPrice
    <3>3. new <= new /\ w > 0
      BY <3>1, <3>2, BoundsAssumption DEF IsPrice
    <3> QED
      BY <1>2, <1>3, <2>3, <3>2, <3>3
  <2> QED
    BY <2>1, <2>2, <2>3 DEF HighsAt
<1>4. ASSUME x \notin cleared, IsPrice(high[x]) PROVE IsPrice(new) /\ high[x] <= new
  <2>1. IsPrice(old) /\ high[x] <= old
    BY <1>4 DEF HighInv
  <2>2. IsPrice(new) /\ old <= new
    BY <1>3, <1>4, <2>1
  <2>3. high[x] \in Int /\ old \in Int /\ new \in Int
    BY <1>4, <2>1, <2>2, BoundsAssumption DEF IsPrice
  <2> QED
    BY <2>1, <2>2, <2>3
<1> HIDE DEF old, new, v, w
<1>5. \A i \in Insts \ cleared : i # x =>
        /\ IsPrice(high'[i]) => IsPrice(cache'[i].high) /\ high'[i] <= cache'[i].high
        /\ IsPrice(cache'[i].high) =>
              cache'[i].volume > 0 /\ cache'[i].high <= HighOf[cache'[i].volume]
        /\ cache'[i].level = 0 => cache'[i].high = 0
  BY DEF HighInv
<1>6. x \notin cleared =>
        /\ IsPrice(high'[x]) => IsPrice(cache'[x].high) /\ high'[x] <= cache'[x].high
        /\ IsPrice(cache'[x].high) =>
              cache'[x].volume > 0 /\ cache'[x].high <= HighOf[cache'[x].volume]
        /\ cache'[x].level = 0 => cache'[x].high = 0
  BY <1>3, <1>4 DEF new, w
<1> QED
  BY <1>5, <1>6, Zenon DEF HighInv

---------------------------------------------------------------------------
\* Rejected quotes and level 2 repeats leave time and volume alone.
LEMMA KeepStep ==
    ASSUME FilterInv, NEW q \in Quote, Reject(q) \/ RepeatL2(q)
    PROVE  FilterInv'
<1> DEFINE d == [cache[q.inst] EXCEPT !.level = 1]
<1>0. TypeOK /\ OrderInv /\ OpenInv /\ HighInv /\ q.inst \in Insts /\ cache[q.inst] \in QuotaInfo
  BY FieldTypes DEF FilterInv, TypeOK
<1>1. PICK c \in QuotaInfo :
        /\ Receive(q, c)
        /\ c.time = cache[q.inst].time /\ c.volume = cache[q.inst].volume
        /\ c.level # 0 /\ cache[q.inst].level # 0
        /\ c.high \in {cache[q.inst].high} \cup HighsAt(cache[q.inst].volume)
  <2>1. cache[q.inst].level # 0
    BY DEF Reject, RepeatL2, TimeError, VolError, Repeats
  <2>2. CASE Reject(q)
    BY <1>0, <2>1, <2>2 DEF Reject
  <2>3. CASE RepeatL2(q)
    <3>1. LevelAfterRepeat(5) = 1
      BY DEF LevelAfterRepeat
    <3>2. PICK h \in HighsAt(q.volume) : Receive(q, WithHigh(d, h))
      BY <2>3, <3>1, Zenon DEF RepeatL2
    <3>3. q.volume = cache[q.inst].volume /\ q.volume \in Volumes
      BY <2>3, FieldTypes DEF RepeatL2, Repeats
    <3>4. d \in QuotaInfo /\ d.time = cache[q.inst].time /\ d.volume = cache[q.inst].volume
          /\ d.level = 1
      BY <1>0, EntryTypes
    <3> HIDE DEF d
    <3>5. WithHigh(d, h) \in QuotaInfo /\ WithHigh(d, h).time = d.time
          /\ WithHigh(d, h).volume = d.volume /\ WithHigh(d, h).level = 1
          /\ WithHigh(d, h).high = h
      BY <3>2, <3>3, <3>4, HighEntry
    <3> QED
      BY <2>1, <3>2, <3>3, <3>4, <3>5
  <2> QED
    BY <2>2, <2>3
<1>2. UNCHANGED <<queue, last, opens, high, cleared>>
  BY DEF Reject, RepeatL2
<1> HIDE DEF d
<1>3. TypeOK'
  BY <1>0, <1>1, <1>2, ReceiveTypes DEF TypeOK
<1>4. OpenInv'
  BY <1>0, <1>1, <1>2, OpenStep
<1>5. /\ cache'[q.inst].time = cache[q.inst].time /\ cache'[q.inst].volume = cache[q.inst].volume
      /\ cache'[q.inst].level # 0 /\ cache'[q.inst].level \in {0, 1, 5}
      /\ \A i \in Insts \ {q.inst} : cache'[i] = cache[i]
      /\ cache'[q.inst].high \in {cache[q.inst].high} \cup HighsAt(cache'[q.inst].volume)
  BY <1>0, <1>1, ReceiveTypes, FieldTypes
<1>6. Leq(cache[q.inst], cache'[q.inst])
  BY <1>0, <1>5, Numbers DEF Leq
<1>7. OrderInv'
  BY <1>0, <1>2, <1>5, <1>6, CacheGrows, Numbers
<1>8. HighInv'
  <2>1. cache'[q.inst].volume \in Volumes /\ cache[q.inst].volume <= cache'[q.inst].volume
    BY <1>0, <1>5, FieldTypes, Numbers
  <2> QED
    BY <1>0, <1>2, <1>5, <2>1, HighGrows
<1> QED
  BY <1>3, <1>4, <1>7, <1>8 DEF FilterInv

\* A repeated level 1 quote takes its contract out of the promise.
LEMMA RepeatStep ==
    ASSUME FilterInv, NEW q \in Quote, RepeatL1(q)
    PROVE  FilterInv'
<1> DEFINE c == [cache[q.inst] EXCEPT !.level = 0]
<1>0. TypeOK /\ OrderInv /\ OpenInv /\ HighInv /\ q.inst \in Insts /\ cache[q.inst] \in QuotaInfo
  BY FieldTypes DEF FilterInv, TypeOK
<1>1. Receive(q, c) /\ c \in QuotaInfo
  <2>1. LevelAfterRepeat(1) = 0
    BY DEF LevelAfterRepeat
  <2>2. Receive(q, c)
    BY <2>1, Zenon DEF RepeatL1
  <2>3. c \in QuotaInfo
    BY <1>0, EntryTypes
  <2> QED
    BY <2>2, <2>3
<1>2. UNCHANGED <<queue, last, opens, high>> /\ cleared' = cleared \cup {q.inst}
  BY DEF RepeatL1
<1> HIDE DEF c
<1>4. TypeOK'
  BY <1>0, <1>1, <1>2, ReceiveTypes DEF TypeOK
<1>5. OpenInv'
  BY <1>0, <1>1, <1>2, OpenStep
<1>6. \A i \in Insts \ cleared' : i \in Insts \ cleared /\ cache'[i] = cache[i]
  BY <1>0, <1>1, <1>2, ReceiveTypes
<1>7. OrderInv'
  BY <1>0, <1>2, <1>6, Numbers DEF OrderInv, Leq
<1>8. HighInv'
  BY <1>0, <1>2, <1>6 DEF HighInv
<1> QED
  BY <1>4, <1>5, <1>7, <1>8 DEF FilterInv

\* An accepted quote is recorded: level 2 stops there, level 1 is queued.
LEMMA AcceptStep ==
    ASSUME FilterInv, NEW q \in Quote, AcceptL1(q) \/ AcceptL2(q)
    PROVE  FilterInv'
<1> DEFINE x == q.inst
           l == IF AcceptL1(q) THEN 1 ELSE 5
           r == Record(cache[x], q, l)
<1>0. TypeOK /\ OrderInv /\ OpenInv /\ HighInv /\ x \in Insts /\ cache[x] \in QuotaInfo /\ l \in {1, 5}
  BY FieldTypes DEF FilterInv, TypeOK
<1>1. PICK c \in QuotaInfo :
        /\ Receive(q, c)
        /\ c.time = q.time /\ c.volume = q.volume /\ c.level = l
        /\ c.high \in {cache[x].high} \cup HighsAt(q.volume)
  <2>1. /\ r \in QuotaInfo /\ r.time = q.time /\ r.volume = q.volume /\ r.level = l
        /\ r.high = cache[x].high
    BY <1>0, EntryTypes
  <2>2. CASE AcceptL1(q)
    <3>1. Receive(q, r)
      BY <2>2, Zenon DEF AcceptL1
    <3> HIDE DEF r
    <3> QED
      BY <2>1, <3>1
  <2>3. CASE ~AcceptL1(q)
    <3>1. PICK h \in HighsAt(q.volume) : Receive(q, WithHigh(r, h))
      BY <2>3, Zenon DEF AcceptL2
    <3> HIDE DEF r
    <3>2. /\ WithHigh(r, h) \in QuotaInfo
          /\ WithHigh(r, h).time = r.time /\ WithHigh(r, h).volume = r.volume
          /\ WithHigh(r, h).level = r.level /\ WithHigh(r, h).high = h
      BY <2>1, <3>1, FieldTypes, HighEntry
    <3> QED
      BY <2>1, <3>1, <3>2
  <2> QED
    BY <2>2, <2>3
<1>2. /\ UNCHANGED <<last, opens, high, cleared>>
      /\ queue' = queue \/ queue' = Append(queue, q)
  BY DEF AcceptL1, AcceptL2
<1> HIDE DEF r, l
<1>3. TypeOK'
  <2>1. queue' \in Seq(Quote)
    BY <1>0, <1>2 DEF TypeOK
  <2>2. cache' \in [Insts -> QuotaInfo] /\ received' \in 0 .. MaxQuotes
    BY <1>0, <1>1, ReceiveTypes
  <2> QED
    BY <1>0, <1>2, <2>1, <2>2 DEF TypeOK
<1>4. OpenInv'
  BY <1>0, <1>1, <1>2, OpenStep
<1>5. /\ cache'[x].time = q.time /\ cache'[x].volume = q.volume /\ cache'[x].level \in {1, 5}
      /\ \A i \in Insts \ {x} : cache'[i] = cache[i]
      /\ cache'[x].high \in {cache[x].high} \cup HighsAt(cache'[x].volume)
  BY <1>0, <1>1, ReceiveTypes
<1>6. q.time \in Int /\ q.volume \in Int /\ q.time >= 0 /\ q.volume >= 0
  BY FieldTypes
<1>7. cache[x].level # 0 => Leq(cache[x], q)
  <2>1. ~TimeError(cache[x], q) /\ ~VolError(cache[x], q)
    BY DEF AcceptL1, AcceptL2, Accepted
  <2> QED
    BY <2>1, <1>0, <1>6, Numbers DEF TimeError, VolError, Leq
<1>8. ASSUME NEW k \in 1 .. Len(queue), queue[k].inst \notin cleared
      PROVE  /\ Leq(last[queue[k].inst], queue[k])
             /\ Leq(queue[k], cache'[queue[k].inst])
             /\ cache'[queue[k].inst].level # 0
             /\ queue[k].inst = x => Leq(queue[k], q)
  <2>1. /\ queue[k].inst \in Insts /\ Leq(queue[k], cache[queue[k].inst])
        /\ Leq(last[queue[k].inst], queue[k]) /\ cache[queue[k].inst].level # 0
    BY <1>0, <1>8, Numbers DEF OrderInv
  <2>2. CASE queue[k].inst = x
    BY <2>1, <2>2, <1>0, <1>5, <1>6, <1>7, Numbers DEF Leq
  <2>3. CASE queue[k].inst # x
    BY <2>1, <2>3, <1>5
  <2> QED
    BY <2>2, <2>3
<1>9. \A i \in Insts \ cleared : /\ Leq(last[i], cache'[i])
                                 /\ cache'[i].level = 0 => last[i].time = 0 /\ last[i].volume = 0
  BY <1>0, <1>5, <1>6, <1>7, Numbers DEF OrderInv, Leq
<1>10. x \notin cleared => Leq(last[x], q)
  BY <1>0, <1>5, <1>9 DEF Leq
<1>11. \A j, k \in 1 .. Len(queue) :
        j < k /\ queue[j].inst = queue[k].inst /\ queue[j].inst \notin cleared
            => Leq(queue[j], queue[k])
  BY <1>0 DEF OrderInv
<1>14. HighInv'
  <2>1. cache'[x].volume \in Volumes /\ cache'[x].level # 0
    BY <1>5, FieldTypes
  <2>2. cache[x].level # 0 => cache[x].volume <= cache'[x].volume
    BY <1>5, <1>7 DEF Leq
  <2> QED
    BY <1>0, <1>2, <1>5, <2>1, <2>2, HighGrows
<1>12. CASE queue' = queue
  BY <1>2, <1>3, <1>4, <1>8, <1>9, <1>11, <1>12, <1>14 DEF FilterInv, OrderInv, Leq
<1>13. CASE queue' = Append(queue, q)
  <2>1. /\ Len(queue') = Len(queue) + 1 /\ queue'[Len(queue) + 1] = q /\ Len(queue) \in Nat
        /\ \A k \in 1 .. Len(queue) : queue'[k] = queue[k]
    BY <1>0, <1>13 DEF TypeOK
  <2>2. ASSUME NEW k \in 1 .. Len(queue'), queue'[k].inst \notin cleared
        PROVE  /\ Leq(last[queue'[k].inst], queue'[k])
               /\ Leq(queue'[k], cache'[queue'[k].inst])
               /\ cache'[queue'[k].inst].level # 0
    <3>1. CASE k = Len(queue) + 1
      BY <2>1, <2>2, <3>1, <1>5, <1>6, <1>10 DEF Leq
    <3>2. CASE k \in 1 .. Len(queue)
      BY <2>1, <2>2, <3>2, <1>8
    <3> QED
      BY <2>1, <3>1, <3>2
  <2>3. ASSUME NEW j \in 1 .. Len(queue'), NEW k \in 1 .. Len(queue'), j < k,
               queue'[j].inst = queue'[k].inst, queue'[j].inst \notin cleared
        PROVE  Leq(queue'[j], queue'[k])
    <3>0. j \in 1 .. Len(queue)
      BY <2>1, <2>3
    <3>1. CASE k = Len(queue) + 1
      BY <2>1, <2>3, <3>0, <3>1, <1>8
    <3>2. CASE k \in 1 .. Len(queue)
      BY <2>1, <2>3, <3>0, <3>2, <1>11
    <3> QED
      BY <2>1, <3>1, <3>2
  <2> QED
    BY <1>2, <1>3, <1>4, <1>9, <1>14, <2>2, <2>3 DEF FilterInv, OrderInv, Leq
<1> QED
  BY <1>2, <1>12, <1>13

\* on_msg takes the head; its opening price is the cache's.
LEMMA DispatchStep ==
    ASSUME FilterInv, Dispatch
    PROVE  /\ FilterInv'
           /\ \A i \in Insts \ cleared : ~Backwards(i) /\ HighKept(i)
<1> USE Numbers
<1> DEFINE x == Head(queue).inst
<1>0. /\ TypeOK /\ OrderInv /\ OpenInv /\ HighInv
      /\ cache' = cache /\ received' = received /\ cleared' = cleared
      /\ queue' = Tail(queue) /\ queue' \in Seq(Quote)
      /\ Head(queue) = queue[1] /\ Head(queue) \in Quote /\ 1 \in 1 .. Len(queue) /\ x \in Insts
      /\ Len(queue') = Len(queue) - 1 /\ Len(queue) \in Nat
      /\ \A k \in 1 .. Len(queue') : k + 1 \in 1 .. Len(queue) /\ queue'[k] = queue[k + 1]
  BY FieldTypes DEF Dispatch, TypeOK, FilterInv
<1>1. /\ last' = [last EXCEPT ![x] = [time |-> Head(queue).time, volume |-> Head(queue).volume]]
      /\ last'[x].time = queue[1].time /\ last'[x].volume = queue[1].volume
      /\ \A i \in Insts \ {x} : last'[i] = last[i]
  BY <1>0 DEF Dispatch, TypeOK
<1>2. last' \in [Insts -> [time : Times, volume : Volumes]]
  BY <1>0, <1>1, FieldTypes DEF TypeOK
<1>3. opens' \in [Insts -> SUBSET Prices] /\ OpenInv'
  <2>1. cache[x].open \in Prices
    BY <1>0, FieldTypes DEF TypeOK
  <2>2. /\ opens' \in [Insts -> SUBSET Prices]
        /\ \A i \in Insts \ {x} : opens'[i] = opens[i]
        /\ opens'[x] \in {opens[x], opens[x] \cup {cache[x].open}}
        /\ opens'[x] # opens[x] => cache[x].open > 0
    BY <1>0, <2>1 DEF Dispatch, TypeOK
  <2>3. cache[x].open > 0 => cache[x].open # 0
    BY <2>1, FieldTypes
  <2>4. \A i \in Insts : opens'[i] \subseteq {cache[i].open} \ {0}
    BY <1>0, <2>2, <2>3 DEF OpenInv
  <2> QED
    BY <1>0, <2>2, <2>4 DEF OpenInv
<1>10. /\ high' \in [Insts -> Highs]
       /\ high'[x] \in {high[x], cache[x].high}
       /\ \A i \in Insts \ {x} : high'[i] = high[i]
  <2>1. cache[x].high \in Highs
    BY <1>0, FieldTypes DEF TypeOK
  <2> QED
    BY <1>0, <2>1 DEF Dispatch, TypeOK
<1>4. TypeOK'
  BY <1>0, <1>2, <1>3, <1>10 DEF TypeOK
<1>11. \A i \in Insts : high[i] \in Int /\ cache[i].high \in Int
  BY <1>0, FieldTypes DEF TypeOK
<1>12. HighInv'
  BY <1>0, <1>10, <1>11 DEF HighInv
<1>13. \A i \in Insts \ cleared : HighKept(i)
  BY <1>0, <1>10, <1>11 DEF HighInv, HighKept
<1>5. x \notin cleared => Leq(last[x], queue[1]) /\ Leq(queue[1], cache[x]) /\ cache[x].level # 0
  BY <1>0 DEF OrderInv
<1> HIDE DEF x
<1>6. \A i \in Insts \ cleared : ~Backwards(i)
  BY <1>0, <1>1, <1>5 DEF Backwards, Leq
<1>7. \A i \in Insts \ cleared : /\ Leq(last'[i], cache[i])
                                 /\ cache[i].level = 0 => last'[i].time = 0 /\ last'[i].volume = 0
  BY <1>0, <1>1, <1>5 DEF OrderInv, Leq
<1>8. ASSUME NEW k \in 1 .. Len(queue'), queue'[k].inst \notin cleared
      PROVE  /\ Leq(last'[queue'[k].inst], queue'[k])
             /\ Leq(queue'[k], cache[queue'[k].inst])
             /\ cache[queue'[k].inst].level # 0
  <2>1. k + 1 \in 1 .. Len(queue) /\ queue'[k] = queue[k + 1] /\ 1 < k + 1
    BY <1>0
  <2>2. /\ Leq(queue[k + 1], cache[queue[k + 1].inst]) /\ cache[queue[k + 1].inst].level # 0
        /\ Leq(last[queue[k + 1].inst], queue[k + 1]) /\ queue[k + 1].inst \in Insts
    BY <1>0, <1>8, <2>1 DEF OrderInv
  <2>3. CASE queue[k + 1].inst = x
    <3>1. Leq(queue[1], queue[k + 1])
      BY <2>1, <2>3, <1>0, <1>8 DEF OrderInv, x
    <3> QED
      BY <2>1, <2>2, <2>3, <3>1, <1>1 DEF Leq
  <2>4. CASE queue[k + 1].inst # x
    BY <2>1, <2>2, <2>4, <1>1
  <2> QED
    BY <2>3, <2>4
<1>9. ASSUME NEW j \in 1 .. Len(queue'), NEW k \in 1 .. Len(queue'), j < k,
             queue'[j].inst = queue'[k].inst, queue'[j].inst \notin cleared
      PROVE  Leq(queue'[j], queue'[k])
  BY <1>0, <1>9 DEF OrderInv
<1> QED
  BY <1>0, <1>3, <1>4, <1>6, <1>7, <1>8, <1>9, <1>12, <1>13 DEF FilterInv, OrderInv, Leq

\* No step takes the filter out of order, nor on_msg back.
LEMMA FilterStep ==
    ASSUME FilterInv, [Next]_vars
    PROVE  /\ FilterInv'
           /\ \A i \in Insts \ cleared : ~Backwards(i) /\ HighKept(i)
<1>0. \A i \in Insts : high[i] \in Int
  BY FieldTypes DEF FilterInv, TypeOK
<1>1. last' = last /\ high' = high
        => \A i \in Insts \ cleared : ~Backwards(i) /\ HighKept(i)
  BY <1>0, Numbers DEF Backwards, FilterInv, HighKept
<1>2. CASE UNCHANGED vars
  BY <1>1, <1>2 DEF vars, FilterInv, TypeOK, OrderInv, OpenInv, HighInv, Leq
<1>3. CASE Dispatch
  BY <1>3, DispatchStep
<1>4. ASSUME NEW q \in Quote,
             Reject(q) \/ RepeatL1(q) \/ AcceptL1(q) \/ RepeatL2(q) \/ AcceptL2(q)
      PROVE  FilterInv' /\ last' = last /\ high' = high
  <2>1. last' = last /\ high' = high
    BY <1>4 DEF Reject, RepeatL1, AcceptL1, RepeatL2, AcceptL2
  <2> QED
    BY <1>4, <2>1, KeepStep, RepeatStep, AcceptStep
<1> QED
  BY <1>1, <1>2, <1>3, <1>4 DEF Next, Poll

---------------------------------------------------------------------------
(* FilterInv is inductive: along on_msg, ring and cache, time and volume   *)
(* of a contract only grow until a level 1 quote of it is repeated.        *)
THEOREM FilterInvariant == Spec => []FilterInv
<1>1. FilterInv /\ [Next]_vars => FilterInv'
  BY FilterStep
<1> QED
  BY <1>1, FilterInit, PTL DEF Spec

(* IsValidQuota keeps its promise, never to let time or volume go back, on *)
(* every contract no level 1 quote of which was repeated.                  *)
THEOREM InOrderUntilRepeat == Spec => NeverBackUnlessCleared
<1>1. FilterInv /\ [Next]_vars => [\A i \in Insts \ cleared : ~Backwards(i)]_vars
  BY FilterStep
<1> QED
  BY <1>1, FilterInvariant, PTL DEF Spec, NeverBackUnlessCleared

(* Once on_msg has reported a highest price of such a contract that is a   *)
(* price, it reports one and never a lower one, although it is read from   *)
(* the cache long after the quote was queued.                              *)
THEOREM HighRises == Spec => HighNeverFallsUnlessCleared
<1>1. FilterInv /\ [Next]_vars => [\A i \in Insts \ cleared : HighKept(i)]_vars
  BY FilterStep
<1> QED
  BY <1>1, FilterInvariant, PTL DEF Spec, HighNeverFallsUnlessCleared

(* The dispatcher never reports two opening prices of one contract.        *)
THEOREM OpenIsFixed == Spec => []OneOpen
<1>1. FilterInv => OneOpen
  <2> SUFFICES ASSUME FilterInv, NEW i \in Insts PROVE Cardinality(opens[i]) <= 1
    BY DEF OneOpen
  <2>1. opens[i] = {} \/ opens[i] = {cache[i].open}
    BY DEF FilterInv, OpenInv
  <2>2. Cardinality({}) = 0 /\ Cardinality({cache[i].open}) = 1
    BY FS_EmptySet, FS_Singleton
  <2> QED
    BY <2>1, <2>2
<1> QED
  BY <1>1, FilterInvariant, PTL
=============================================================================

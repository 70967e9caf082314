-------------------------- MODULE QuotaMergeProofs --------------------------
(***************************************************************************)
(* Proofs about QuotaMerge, for any instruments, books, bounds and any of  *)
(* the two feeds: the quotes of an instrument are published in order as    *)
(* long as no two handlers of quotes of this instrument overlap, whatever  *)
(* happens to the others; hence always when there is a single feed.  And   *)
(* what is dropped as a repeat was published by then.                      *)
(***************************************************************************)
EXTENDS QuotaMerge, TLAPS

\* The fields of quotes and cache entries.
LEMMA QuoteTypes ==
    /\ \A q \in Quote : q.inst \in Insts /\ q.time \in Times /\ q.volume \in Volumes
                        /\ q.book \in Books
    /\ \A c \in QuotaInfo : c.time \in Times /\ c.volume \in Volumes
                            /\ c.level \in {0, 1, 5} /\ c.book \in Books
BY DEF Quote, QuotaInfo

\* A store to an instrument's entry keeps the cache well formed.
LEMMA StoreTimeTypes ==
    ASSUME cache \in [Insts -> QuotaInfo], NEW i \in Insts, NEW t \in Times
    PROVE  [cache EXCEPT ![i].time = t] \in [Insts -> QuotaInfo]
<1>1. [cache[i] EXCEPT !.time = t] \in QuotaInfo
  BY DEF QuotaInfo
<1> QED
  BY <1>1

\* So does a store of the volume.
LEMMA StoreVolumeTypes ==
    ASSUME cache \in [Insts -> QuotaInfo], NEW i \in Insts, NEW v \in Volumes
    PROVE  [cache EXCEPT ![i].volume = v] \in [Insts -> QuotaInfo]
<1>1. [cache[i] EXCEPT !.volume = v] \in QuotaInfo
  BY DEF QuotaInfo
<1> QED
  BY <1>1

\* So does a store of level and book.
LEMMA StoreRestTypes ==
    ASSUME cache \in [Insts -> QuotaInfo], NEW i \in Insts, NEW l \in {0, 1, 5}, NEW b \in Books
    PROVE  [cache EXCEPT ![i].level = l, ![i].book = b] \in [Insts -> QuotaInfo]
<1>1. [cache[i] EXCEPT !.level = l] \in QuotaInfo
  BY DEF QuotaInfo
<1>2. \A c \in QuotaInfo : [c EXCEPT !.book = b] \in QuotaInfo
  BY DEF QuotaInfo
<1>3. [cache EXCEPT ![i].level = l] \in [Insts -> QuotaInfo]
  BY <1>1
<1>4. \A c \in [Insts -> QuotaInfo] : [c EXCEPT ![i].book = b] \in [Insts -> QuotaInfo]
  BY <1>2
<1> QED
  BY <1>3, <1>4

\* An empty cache and an empty queue are in order.
LEMMA InitInv == Init => MergeInv
<1> SUFFICES ASSUME Init PROVE MergeInv
  OBVIOUS
<1> USE BooksAssumption, BoundsAssumption
<1>1. TypeOK
  <2>1. cache \in [Insts -> QuotaInfo]
    BY DEF Init, QuotaInfo, Times, Volumes
  <2>2. cur \in [Feeds -> Quote]
    BY DEF Init
  <2>3. last \in [Insts -> [time : Times, volume : Volumes]] /\ useless \in [Insts -> Volumes]
        /\ swallowed \subseteq Insts
    BY DEF Init, Times, Volumes
  <2>4. pc \in [Feeds -> {"idle", "store_time", "store_volume", "store_rest", "push"}]
        /\ queue \in Seq(Quote) /\ received \in [Feeds -> Nat]
    BY DEF Init
  <2>5. overlapped \in BOOLEAN
    BY DEF Init
  <2> QED
    BY <2>1, <2>2, <2>3, <2>4, <2>5 DEF TypeOK
<1>2. OneActive
  BY DEF Init, OneActive
<1>3. ASSUME NEW i \in Insts PROVE InOrder(i)
  <2>1. /\ cache[i].time = 0 /\ cache[i].volume = 0
        /\ last[i].time = 0 /\ last[i].volume = 0
    BY DEF Init
  <2>2. CacheInv(i)
    <3>1. 0 <= 0
      OBVIOUS
    <3> QED
      BY <2>1, <3>1, Zenon DEF CacheInv, Leq
  <2>3. QueueInv(i)
    BY DEF Init, QueueInv
  <2>4. ActiveInv(i)
    BY DEF Init, ActiveInv, Handles
  <2> QED
    BY <2>2, <2>3, <2>4 DEF InOrder
<1> QED
  BY <1>1, <1>2, <1>3 DEF MergeInv

(* Every step keeps the variables in their types.                          *)
LEMMA TypeStep == TypeOK /\ [Next]_vars => TypeOK'
<1> SUFFICES ASSUME TypeOK, [Next]_vars PROVE TypeOK'
  OBVIOUS
<1> USE QuoteTypes, BoundsAssumption, FeedsAssumption
<1>1. CASE UNCHANGED vars
  BY <1>1 DEF TypeOK, vars
<1>2. CASE Dispatch
  <2>1. Head(queue) \in Quote /\ Tail(queue) \in Seq(Quote)
    BY <1>2 DEF Dispatch, TypeOK
  <2> QED
    BY <1>2, <2>1 DEF Dispatch, TypeOK
<1>3. CASE Poll
  BY <1>3 DEF Poll, TypeOK, vars
<1>4. ASSUME NEW f \in Feeds, NEW q \in Quote,
             Check(f, q) \/ Reject(f, q) \/ DropUseless(f, q) \/ Discard(f, q)
      PROVE  TypeOK'
  <2>1. CASE Check(f, q)
    <3>1. overlapped' \in BOOLEAN
      BY <2>1, Zenon DEF Check
    <3> QED
      BY <2>1, <3>1 DEF Check, Arrives, Receive, TypeOK
  <2>2. CASE Reject(f, q)
    <3>1. received' \in [Feeds -> Nat]
      BY <2>2 DEF Reject, Arrives, Receive, TypeOK
    <3>2. UNCHANGED <<cache, pc, cur, queue, last, useless, swallowed, overlapped>>
      BY <2>2 DEF Reject
    <3> QED
      BY <3>1, <3>2 DEF TypeOK
  <2>3. CASE DropUseless(f, q)
    <3>1. useless' \in [Insts -> Volumes]
      BY <2>3 DEF DropUseless, TypeOK
    <3> QED
      BY <2>3, <3>1 DEF DropUseless, Arrives, Receive, TypeOK
  <2>4. CASE Discard(f, q)
    BY <2>4 DEF Discard, Discarded, Receive, TypeOK
  <2> QED
    BY <1>4, <2>1, <2>2, <2>3, <2>4
<1>5. ASSUME NEW f \in Feeds,
             StoreTime(f) \/ StoreVolume(f) \/ StoreRest(f) \/ DropEmpty(f) \/ Push(f)
      PROVE  TypeOK'
  <2>0. cur[f] \in Quote /\ f \in {1, 5}
    BY DEF TypeOK
  <2>1. CASE StoreTime(f)
    <3>1. cache' \in [Insts -> QuotaInfo]
      BY <2>0, <2>1, StoreTimeTypes DEF StoreTime, TypeOK
    <3> QED
      BY <2>1, <3>1 DEF StoreTime, TypeOK
  <2>2. CASE StoreVolume(f)
    <3>1. cache' \in [Insts -> QuotaInfo]
      BY <2>0, <2>2, StoreVolumeTypes DEF StoreVolume, TypeOK
    <3> QED
      BY <2>2, <3>1 DEF StoreVolume, TypeOK
  <2>3. CASE StoreRest(f)
    <3>1. cache' \in [Insts -> QuotaInfo]
      BY <2>0, <2>3, StoreRestTypes DEF StoreRest, TypeOK
    <3> QED
      BY <2>3, <3>1 DEF StoreRest, TypeOK
  <2>4. CASE DropEmpty(f)
    BY <2>4 DEF DropEmpty, TypeOK
  <2>5. CASE Push(f)
    BY <2>0, <2>5 DEF Push, TypeOK
  <2> QED
    BY <1>5, <2>1, <2>2, <2>3, <2>4, <2>5
<1> QED
  BY <1>1, <1>2, <1>3, <1>4, <1>5 DEF Next

---------------------------------------------------------------------------
\* Leq is read at integers only.
LEMMA Numbers ==
    ASSUME TypeOK
    PROVE  /\ \A i \in Insts : /\ cache[i].time \in Int /\ cache[i].volume \in Int
                              /\ last[i].time \in Int /\ last[i].volume \in Int
                              /\ cache[i].time >= 0 /\ cache[i].volume >= 0
           /\ \A k \in 1 .. Len(queue) : /\ queue[k].time \in Int /\ queue[k].volume \in Int
                                         /\ queue[k].inst \in Insts
           /\ \A f \in Feeds : /\ cur[f].time \in Int /\ cur[f].volume \in Int
                              /\ cur[f].time >= 0 /\ cur[f].volume >= 0
                              /\ cur[f].inst \in Insts
<1> USE BoundsAssumption
<1>1. \A i \in Insts : cache[i] \in QuotaInfo /\ last[i] \in [time : Times, volume : Volumes]
  BY DEF TypeOK
<1>2. \A k \in 1 .. Len(queue) : queue[k] \in Quote
  BY DEF TypeOK
<1>3. \A f \in Feeds : cur[f] \in Quote
  BY DEF TypeOK
<1>4. \A n \in Times \cup Volumes : n \in Int /\ n >= 0
  BY DEF Times, Volumes
<1>5. \A i \in Insts : last[i].time \in Times /\ last[i].volume \in Volumes
  BY <1>1
<1> QED
  BY <1>1, <1>2, <1>3, <1>4, <1>5, QuoteTypes

\* A step that leaves the instrument, its handlers and the queue alone.
LEMMA UntouchedStep ==
    ASSUME NEW i \in Insts, InOrder(i), UNCHANGED <<queue, last, cur>>, cache'[i] = cache[i],
           \A g \in Feeds : Handles(g, i)' => Handles(g, i) /\ pc'[g] = pc[g]
    PROVE  InOrder(i)'
BY DEF InOrder, QueueInv, CacheInv, ActiveInv, Leq, Handles

\* A quote that passes the tests is at or after its cache.
LEMMA CheckStep ==
    ASSUME TypeOK, NEW i \in Insts, InOrder(i), NEW f \in Feeds, NEW q \in Quote, Check(f, q)
    PROVE  InOrder(i)'
<1>1. /\ cache' = cache /\ queue' = queue /\ last' = last
      /\ pc'[f] = "store_time" /\ cur'[f] = q
      /\ \A g \in Feeds \ {f} : pc'[g] = pc[g] /\ cur'[g] = cur[g]
  BY DEF Check, Arrives, Receive, TypeOK
<1>2. QueueInv(i)' /\ CacheInv(i)'
  BY <1>1 DEF InOrder, QueueInv, CacheInv, Leq
<1>3. cache[q.inst].level # 0 => Leq(cache[q.inst], q)
  <2>1. ~TimeError(cache[q.inst], q) /\ ~VolError(cache[q.inst], q)
    BY DEF Check, Accepted
  <2>2. /\ cache[q.inst].time \in Int /\ cache[q.inst].volume \in Int
        /\ q.time \in Int /\ q.volume \in Int
    BY Numbers, QuoteTypes, BoundsAssumption DEF Times, Volumes
  <2> QED
    BY <2>1, <2>2 DEF TimeError, VolError, Leq
<1>4. ActiveInv(i)'
  BY <1>1, <1>3 DEF InOrder, ActiveInv, Handles, Leq
<1> QED
  BY <1>2, <1>4 DEF InOrder

\* The three stores: what changes is the entry the handler is at work on.
LEMMA StoreStep ==
    ASSUME TypeOK, NEW i \in Insts, InOrder(i), OneHandler(i), NEW f \in Feeds,
           StoreTime(f) \/ StoreVolume(f) \/ StoreRest(f)
    PROVE  InOrder(i)'
<1> USE Numbers
<1>0. /\ queue' = queue /\ last' = last /\ cur' = cur /\ cur[f].inst \in Insts
      /\ pc[f] # "idle" /\ pc'[f] # "idle" /\ f \in {1, 5}
      /\ \A g \in Feeds \ {f} : pc'[g] = pc[g]
  BY FeedsAssumption DEF StoreTime, StoreVolume, StoreRest, TypeOK
<1>1. CASE cur[f].inst # i
  <2>1. cache'[i] = cache[i]
    BY <1>0, <1>1 DEF StoreTime, StoreVolume, StoreRest, TypeOK
  <2>2. \A g \in Feeds : Handles(g, i)' => Handles(g, i) /\ pc'[g] = pc[g]
    BY <1>0, <1>1 DEF Handles
  <2> QED
    BY <1>0, <2>1, <2>2, UntouchedStep
<1>2. CASE cur[f].inst = i
  <2>1. Handles(f, i) /\ \A g \in Feeds \ {f} : ~Handles(g, i) /\ ~Handles(g, i)'
    BY <1>0, <1>2 DEF Handles, OneHandler
  <2>2. \/ /\ pc[f] = "store_time" /\ pc'[f] = "store_volume"
           /\ cache'[i].time = cur[f].time /\ cache'[i].volume = cache[i].volume
           /\ cache'[i].level = cache[i].level
        \/ /\ pc[f] = "store_volume" /\ pc'[f] = "store_rest"
           /\ cache'[i].time = cache[i].time /\ cache'[i].volume = cur[f].volume
           /\ cache'[i].level = cache[i].level
        \/ /\ pc[f] = "store_rest" /\ pc'[f] = "push"
           /\ cache'[i].time = cache[i].time /\ cache'[i].volume = cache[i].volume
           /\ cache'[i].level = f
    <3>1. cache[i] \in QuotaInfo
      BY DEF TypeOK
    <3> QED
      BY <1>0, <1>2, <3>1 DEF StoreTime, StoreVolume, StoreRest, TypeOK, QuotaInfo
  <2>3. /\ cache[i].level # 0
              => Leq(cache[i], cur[f]) /\ Leq(cache[i], cache'[i]) /\ cache'[i].level # 0
        /\ cache[i].level = 0 => last[i].time = 0 /\ last[i].volume = 0
        /\ cache'[i].time \in Int /\ cache'[i].volume \in Int
        /\ cache'[i].time >= 0 /\ cache'[i].volume >= 0
    BY <1>0, <2>1, <2>2 DEF InOrder, ActiveInv, CacheInv, Leq
  <2>4. QueueInv(i)'
    <3>1. ASSUME NEW k \in 1 .. Len(queue), queue[k].inst = i
          PROVE  Leq(last[i], queue[k]) /\ Leq(queue[k], cache'[i]) /\ cache'[i].level # 0
      <4>1. Leq(last[i], queue[k]) /\ Leq(queue[k], cache[i]) /\ cache[i].level # 0
        BY <3>1 DEF InOrder, QueueInv
      <4> QED
        BY <4>1, <2>3 DEF Leq
    <3>2. \A j, k \in 1 .. Len(queue) :
            j < k /\ queue[j].inst = i /\ queue[k].inst = i => Leq(queue[j], queue[k])
      BY DEF InOrder, QueueInv
    <3> QED
      BY <1>0, <3>1, <3>2 DEF QueueInv, Leq
  <2>5. CacheInv(i)'
    BY <1>0, <2>2, <2>3 DEF InOrder, CacheInv, Leq
  <2>6. ActiveInv(i)'
    BY <1>0, <2>1, <2>2, <2>3 DEF InOrder, ActiveInv, Leq
  <2> QED
    BY <2>4, <2>5, <2>6 DEF InOrder
<1> QED
  BY <1>1, <1>2

\* An accepted quote enters the ring behind all of its instrument's.
LEMMA PushStep ==
    ASSUME TypeOK, NEW i \in Insts, InOrder(i), NEW f \in Feeds, Push(f)
    PROVE  InOrder(i)'
<1> USE Numbers
<1>0. /\ cache' = cache /\ last' = last /\ cur' = cur /\ pc[f] = "push" /\ pc'[f] = "idle"
      /\ \A g \in Feeds \ {f} : pc'[g] = pc[g]
  BY DEF Push, TypeOK
<1>1. /\ Len(queue') = Len(queue) + 1 /\ queue'[Len(queue) + 1] = cur[f]
      /\ \A k \in 1 .. Len(queue) : queue'[k] = queue[k]
      /\ Len(queue) \in Nat
  BY DEF Push, TypeOK
<1>2. CacheInv(i)' /\ ActiveInv(i)'
  BY <1>0 DEF InOrder, CacheInv, ActiveInv, Handles, Leq
<1>3. cur[f].inst = i => /\ cache[i].time = cur[f].time /\ cache[i].volume = cur[f].volume
                         /\ cache[i].level # 0
                         /\ Leq(last[i], cur[f])
  BY <1>0 DEF InOrder, ActiveInv, CacheInv, Handles, Leq
<1>4. ASSUME NEW k \in 1 .. Len(queue'), queue'[k].inst = i
      PROVE  Leq(last[i], queue'[k]) /\ Leq(queue'[k], cache[i]) /\ cache[i].level # 0
  <2>1. CASE k = Len(queue) + 1
    BY <1>4, <2>1, <1>0, <1>1, <1>3 DEF Leq
  <2>2. CASE k \in 1 .. Len(queue)
    BY <1>4, <2>2, <1>1 DEF InOrder, QueueInv
  <2> QED
    BY <1>1, <2>1, <2>2
<1>5. ASSUME NEW j \in 1 .. Len(queue'), NEW k \in 1 .. Len(queue'),
             j < k, queue'[j].inst = i, queue'[k].inst = i
      PROVE  Leq(queue'[j], queue'[k])
  <2>0. j \in 1 .. Len(queue)
    BY <1>1, <1>5
  <2>1. CASE k = Len(queue) + 1
    <3>1. Leq(queue[j], cache[i])
      BY <2>0, <1>1, <1>5 DEF InOrder, QueueInv
    <3> QED
      BY <2>0, <2>1, <3>1, <1>1, <1>3, <1>5 DEF Leq
  <2>2. CASE k \in 1 .. Len(queue)
    BY <2>0, <2>2, <1>1, <1>5 DEF InOrder, QueueInv
  <2> QED
    BY <1>1, <2>1, <2>2
<1>6. QueueInv(i)'
  BY <1>0, <1>4, <1>5 DEF QueueInv, Leq
<1> QED
  BY <1>2, <1>6 DEF InOrder

\* on_msg takes the head, which no later quote of its instrument precedes.
LEMMA DispatchStep ==
    ASSUME TypeOK, NEW i \in Insts, InOrder(i), Dispatch
    PROVE  InOrder(i)' /\ Leq(last[i], last'[i])
<1> USE Numbers
<1>0. /\ cache' = cache /\ cur' = cur /\ pc' = pc /\ queue' = Tail(queue)
      /\ Head(queue) = queue[1] /\ 1 \in 1 .. Len(queue)
      /\ Len(queue') = Len(queue) - 1 /\ Len(queue) \in Nat
      /\ \A k \in 1 .. Len(queue') : k + 1 \in 1 .. Len(queue) /\ queue'[k] = queue[k + 1]
  BY DEF Dispatch, TypeOK
<1>1. IF queue[1].inst = i THEN last'[i].time = queue[1].time /\ last'[i].volume = queue[1].volume
                           ELSE last'[i] = last[i]
  BY <1>0 DEF Dispatch, TypeOK
<1>2. queue[1].inst = i => Leq(last[i], queue[1]) /\ Leq(queue[1], cache[i]) /\ cache[i].level # 0
  BY <1>0 DEF InOrder, QueueInv
<1>3. Leq(last[i], last'[i])
  BY <1>0, <1>1, <1>2 DEF Leq
<1>4. ActiveInv(i)' /\ CacheInv(i)'
  BY <1>0, <1>1, <1>2 DEF InOrder, ActiveInv, CacheInv, Handles, Leq
<1>5. ASSUME NEW k \in 1 .. Len(queue'), queue'[k].inst = i
      PROVE  Leq(last'[i], queue'[k]) /\ Leq(queue'[k], cache[i]) /\ cache[i].level # 0
  <2>1. k + 1 \in 1 .. Len(queue) /\ queue'[k] = queue[k + 1] /\ 1 < k + 1
    BY <1>0
  <2>2. /\ Leq(queue[k + 1], cache[i]) /\ cache[i].level # 0 /\ Leq(last[i], queue[k + 1])
        /\ queue[1].inst = i => Leq(queue[1], queue[k + 1])
    BY <2>1, <1>0, <1>5 DEF InOrder, QueueInv
  <2> QED
    BY <2>1, <2>2, <1>1 DEF Leq
<1>6. \A j, k \in 1 .. Len(queue') :
        j < k /\ queue'[j].inst = i /\ queue'[k].inst = i => Leq(queue'[j], queue'[k])
  BY <1>0 DEF InOrder, QueueInv
<1>7. QueueInv(i)'
  BY <1>0, <1>5, <1>6 DEF QueueInv, Leq
<1> QED
  BY <1>3, <1>4, <1>7 DEF InOrder

---------------------------------------------------------------------------
\* While one handler at a time is at work on an instrument, no step of any
\* handler or of the dispatcher takes it out of order.
LEMMA InOrderStep ==
    ASSUME TypeOK, NEW i \in Insts, InOrder(i), OneHandler(i), [Next]_vars
    PROVE  InOrder(i)' /\ Leq(last[i], last'[i])
<1>1. last'[i] = last[i] => Leq(last[i], last'[i])
  BY Numbers DEF Leq
<1>2. CASE UNCHANGED <<cache, pc, cur, queue, last>>
  BY <1>1, <1>2, UntouchedStep DEF Handles
<1>3. CASE Dispatch
  BY <1>3, DispatchStep
<1>4. ASSUME NEW f \in Feeds, NEW q \in Quote,
             Check(f, q) \/ Reject(f, q) \/ DropUseless(f, q) \/ Discard(f, q)
      PROVE  InOrder(i)' /\ Leq(last[i], last'[i])
  <2>1. CASE Check(f, q)
    BY <1>1, <2>1, CheckStep DEF Check
  <2>2. CASE Reject(f, q) \/ DropUseless(f, q) \/ Discard(f, q)
    BY <1>2, <2>2 DEF Reject, DropUseless, Discard
  <2> QED
    BY <1>4, <2>1, <2>2
<1>5. ASSUME NEW f \in Feeds,
             StoreTime(f) \/ StoreVolume(f) \/ StoreRest(f) \/ DropEmpty(f) \/ Push(f)
      PROVE  InOrder(i)' /\ Leq(last[i], last'[i])
  <2>1. CASE StoreTime(f) \/ StoreVolume(f) \/ StoreRest(f)
    BY <1>1, <2>1, StoreStep DEF StoreTime, StoreVolume, StoreRest
  <2>2. CASE DropEmpty(f)
    <3>1. /\ UNCHANGED <<cache, cur, queue, last>> /\ pc'[f] = "idle"
          /\ \A g \in Feeds \ {f} : pc'[g] = pc[g]
      BY <2>2 DEF DropEmpty, TypeOK
    <3>2. \A g \in Feeds : Handles(g, i)' => Handles(g, i) /\ pc'[g] = pc[g]
      BY <3>1 DEF Handles
    <3> QED
      BY <1>1, <3>1, <3>2, UntouchedStep
  <2>3. CASE Push(f)
    BY <1>1, <2>3, PushStep DEF Push
  <2> QED
    BY <1>5, <2>1, <2>2, <2>3
<1> QED
  BY <1>2, <1>3, <1>4, <1>5 DEF Next, Poll, vars

\* Nothing is out of order at first.
LEMMA InitOrder == Init => TypeOK /\ \A i \in Insts : InOrder(i)
<1>1. Init => ~overlapped
  BY DEF Init
<1> QED
  BY <1>1, InitInv DEF MergeInv

(* IsValidQuota keeps its promise to an instrument whenever the receiver   *)
(* threads take turns on it, from its tests to the push, whatever they do  *)
(* to the others at the same time: no on_msg takes its time or volume back.*)
THEOREM TurnsInOrder ==
    ASSUME NEW i \in Insts
    PROVE  Spec /\ []OneHandler(i) => [][Leq(last[i], last'[i])]_vars
<1>1. Init => TypeOK /\ InOrder(i)
  BY InitOrder
<1>2. TypeOK /\ InOrder(i) /\ OneHandler(i) /\ [Next]_vars
        => TypeOK' /\ InOrder(i)' /\ Leq(last[i], last'[i])
  BY TypeStep, InOrderStep
<1> QED
  BY <1>1, <1>2, PTL DEF Spec

---------------------------------------------------------------------------
\* No step takes overlapped back.
LEMMA OverlappedStays == [Next]_vars => (overlapped => overlapped')
BY DEF Next, vars, Dispatch, Poll, StoreTime, StoreVolume, StoreRest, DropEmpty, Push,
       Check, Reject, DropUseless, Discard

\* A handler that begins while another is active sets it.
LEMMA ActiveStep ==
    ASSUME TypeOK, OneActive, [Next]_vars, ~overlapped'
    PROVE  OneActive'
<1>1. CASE UNCHANGED pc
  BY <1>1 DEF OneActive
<1>2. ASSUME NEW f \in Feeds, NEW q \in Quote, Check(f, q) PROVE OneActive'
  <2>1. \A g \in Feeds \ {f} : pc'[g] = "idle"
    BY <1>2 DEF Check, TypeOK
  <2> QED
    BY <2>1 DEF OneActive
<1>3. ASSUME NEW f \in Feeds,
             StoreTime(f) \/ StoreVolume(f) \/ StoreRest(f) \/ DropEmpty(f) \/ Push(f)
      PROVE  OneActive'
  <2>1. pc[f] # "idle" /\ \A g \in Feeds \ {f} : pc'[g] = pc[g]
    BY <1>3 DEF StoreTime, StoreVolume, StoreRest, DropEmpty, Push, TypeOK
  <2> QED
    BY <2>1 DEF OneActive
<1> QED
  BY <1>1, <1>2, <1>3 DEF Next, vars, Dispatch, Poll, Reject, DropUseless, Discard

\* One active handler is one at most of each instrument.
LEMMA OneOfEach == OneActive => \A i \in Insts : OneHandler(i)
BY DEF OneActive, OneHandler, Handles

\* No step of handlers or dispatcher leaves the order while they do not overlap.
LEMMA InvStep ==
    ASSUME MergeInv, [Next]_vars
    PROVE  MergeInv' /\ (~overlapped' => NoStepBack)
<1>0. TypeOK /\ TypeOK'
  BY TypeStep DEF MergeInv
<1> SUFFICES ASSUME ~overlapped'
             PROVE  /\ OneActive'
                    /\ \A i \in Insts : InOrder(i)' /\ Leq(last[i], last'[i])
  BY <1>0 DEF MergeInv, NoStepBack, Leq
<1>1. OneActive /\ \A i \in Insts : InOrder(i)
  BY OverlappedStays DEF MergeInv
<1> QED
  BY <1>0, <1>1, ActiveStep, OneOfEach, InOrderStep

(* The variables of QuotaMerge always have their types, and MergeInv is an *)
(* invariant: along on_msg, ring, cache and the quote being stored, an     *)
(* instrument's time and volume only grow unless two handlers overlapped.  *)
THEOREM MergeInvariant == Spec => []MergeInv
<1>1. MergeInv /\ [Next]_vars => MergeInv'
  BY InvStep
<1> QED
  BY <1>1, InitInv, PTL DEF Spec

(* IsValidQuota keeps its promise whenever the two receiver threads do not *)
(* overlap between its tests and the push: no on_msg takes the time or the *)
(* volume of an instrument back.                                           *)
THEOREM PublishedInOrder == Spec => NeverBackUnlessOverlapped
<1>1. MergeInv /\ [Next]_vars => [~overlapped' => NoStepBack]_vars
  BY InvStep
<1> QED
  BY <1>1, MergeInvariant, PTL DEF Spec, NeverBackUnlessOverlapped

(* With one feed the handlers never overlap, so IsValidQuota and the queue *)
(* keep the promise unconditionally.                                       *)
THEOREM OneFeedInOrder ==
    ASSUME \A f, g \in Feeds : f = g
    PROVE  Spec => NeverBack
<1>1. Init => ~overlapped
  BY DEF Init
<1>2. ~overlapped /\ [Next]_vars => ~overlapped'
  BY DEF Next, vars, Dispatch, Poll, StoreTime, StoreVolume, StoreRest, DropEmpty, Push,
         Check, Reject, DropUseless, Discard
<1>3. MergeInv /\ ~overlapped' /\ [Next]_vars => [NoStepBack]_vars
  BY InvStep
<1> QED
  BY <1>1, <1>2, <1>3, MergeInvariant, PTL DEF Spec, NeverBack

---------------------------------------------------------------------------
\* Nothing was dropped or stored yet.
LEMMA InitRepeat == Init => \A i \in Insts : RepeatInv(i)
<1> SUFFICES ASSUME Init, NEW i \in Insts PROVE RepeatInv(i)
  OBVIOUS
<1>1. useless[i] = 0 /\ cache[i].volume = 0 /\ last[i].volume = 0
  BY DEF Init
<1>2. 0 <= 0
  OBVIOUS
<1> QED
  BY <1>1, <1>2, Zenon DEF RepeatInv, UnderWay

\* The volumes of dropped quotes are numbers.
LEMMA UselessNumbers == TypeOK => \A i \in Insts : useless[i] \in Int /\ useless[i] >= 0
BY BoundsAssumption DEF TypeOK, Volumes

\* on_msg takes the head: what was queued is published or still queued.
LEMMA DispatchRepeat ==
    ASSUME TypeOK, NEW i \in Insts, InOrder(i), RepeatInv(i), Dispatch
    PROVE  RepeatInv(i)'
<1> USE Numbers, UselessNumbers
<1>1. /\ cache' = cache /\ cur' = cur /\ pc' = pc /\ queue' = Tail(queue)
      /\ useless' = useless /\ swallowed' = swallowed
      /\ Head(queue) = queue[1] /\ Len(queue) \in Nat /\ Len(queue') = Len(queue) - 1
      /\ \A k \in 1 .. Len(queue') : queue'[k] = queue[k + 1]
  BY DEF Dispatch, TypeOK
<1>2. last[i].volume <= last'[i].volume /\ last'[i].volume \in Int
  <2>1. Leq(last[i], last'[i])
    BY DispatchStep
  <2>2. last'[i].volume \in Int
    BY <1>1 DEF Dispatch, TypeOK
  <2> QED
    BY <2>1, <2>2 DEF Leq
<1>3. queue # <<>> => last'[queue[1].inst].volume = queue[1].volume
  BY <1>1 DEF Dispatch, TypeOK
<1>4. ASSUME UnderWay(i) PROVE UnderWay(i)'
  <2>1. CASE cache[i].volume <= last[i].volume
    <3>1. cache'[i].volume <= last'[i].volume
      BY <2>1, <1>1, <1>2
    <3> QED
      BY <3>1 DEF UnderWay
  <2>2. ASSUME NEW k \in 1 .. Len(queue), queue[k].inst = i, cache[i].volume <= queue[k].volume
        PROVE  UnderWay(i)'
    <3>1. CASE k = 1
      BY <2>2, <3>1, <1>1, <1>3 DEF UnderWay
    <3>2. CASE k # 1
      <4>1. k - 1 \in 1 .. Len(queue') /\ queue'[k - 1] = queue[k]
        BY <3>2, <1>1
      <4> QED
        BY <2>2, <4>1, <1>1 DEF UnderWay
    <3> QED
      BY <3>1, <3>2
  <2>3. CASE \E f \in Feeds : /\ pc[f] \in {"store_rest", "push"} /\ cur[f].inst = i
                              /\ cache[i].volume <= cur[f].volume
    BY <2>3, <1>1 DEF UnderWay
  <2> QED
    BY <1>4, <2>1, <2>2, <2>3 DEF UnderWay
<1> QED
  BY <1>1, <1>4 DEF RepeatInv

\* An accepted quote is not stored yet; its handler held nothing before.
LEMMA CheckRepeat ==
    ASSUME TypeOK, NEW i \in Insts, RepeatInv(i), NEW f \in Feeds, NEW q \in Quote, Check(f, q)
    PROVE  RepeatInv(i)'
<1>1. /\ UNCHANGED <<cache, queue, last, useless, swallowed>>
      /\ pc[f] = "idle" /\ \A g \in Feeds \ {f} : pc'[g] = pc[g] /\ cur'[g] = cur[g]
  BY DEF Check, Arrives, Receive, TypeOK
<1>2. UnderWay(i) => UnderWay(i)'
  BY <1>1 DEF UnderWay
<1> QED
  BY <1>1, <1>2 DEF RepeatInv

\* A dropped repeat has the volume of the cache.
LEMMA DropRepeat ==
    ASSUME TypeOK, NEW i \in Insts, RepeatInv(i), NEW f \in Feeds, NEW q \in Quote,
           DropUseless(f, q)
    PROVE  RepeatInv(i)'
<1> USE Numbers, UselessNumbers
<1>1. /\ UNCHANGED <<cache, pc, cur, queue, last, swallowed>>
      /\ q.inst \in Insts /\ q.volume = cache[q.inst].volume /\ cache[q.inst].level = 5
  BY QuoteTypes DEF DropUseless, RepeatL1
<1>2. /\ i # q.inst => useless'[i] = useless[i]
      /\ i = q.inst => useless'[i] \in {useless[i], q.volume}
  BY <1>1 DEF DropUseless, TypeOK
<1>3. UnderWay(i) => UnderWay(i)'
  BY <1>1 DEF UnderWay
<1>4. useless'[i] <= cache[i].volume /\ (cache[i].level = 0 => useless'[i] = 0)
  BY <1>1, <1>2 DEF RepeatInv
<1> QED
  BY <1>1, <1>3, <1>4 DEF RepeatInv

\* The stores: a volume enters the cache together with its handler's promise.
LEMMA StoreRepeat ==
    ASSUME TypeOK, NEW i \in Insts, InOrder(i), RepeatInv(i), NEW f \in Feeds,
           StoreTime(f) \/ StoreVolume(f) \/ StoreRest(f)
    PROVE  RepeatInv(i)'
<1> USE Numbers, UselessNumbers
<1>0. /\ UNCHANGED <<queue, last, cur, useless, swallowed>> /\ cur[f].inst \in Insts
      /\ f \in {1, 5} /\ \A g \in Feeds \ {f} : pc'[g] = pc[g]
  BY FeedsAssumption DEF StoreTime, StoreVolume, StoreRest, TypeOK
<1>1. cur[f].inst # i => cache'[i] = cache[i]
  BY <1>0 DEF StoreTime, StoreVolume, StoreRest, TypeOK
<1>2. cur[f].inst = i =>
      \/ /\ pc[f] = "store_time"
         /\ cache'[i].volume = cache[i].volume /\ cache'[i].level = cache[i].level
      \/ /\ pc[f] = "store_volume" /\ pc'[f] = "store_rest"
         /\ cache'[i].volume = cur[f].volume /\ cache'[i].level = cache[i].level
      \/ /\ pc[f] = "store_rest" /\ pc'[f] = "push"
         /\ cache'[i].volume = cache[i].volume /\ cache'[i].level = f
  <2>1. cache[i] \in QuotaInfo
    BY DEF TypeOK
  <2>2. CASE StoreTime(f)
    BY <1>0, <2>1, <2>2 DEF StoreTime, TypeOK, QuotaInfo
  <2>3. CASE StoreVolume(f)
    BY <1>0, <2>1, <2>3 DEF StoreVolume, TypeOK, QuotaInfo
  <2>4. CASE StoreRest(f)
    BY <1>0, <2>1, <2>4 DEF StoreRest, TypeOK, QuotaInfo
  <2> QED
    BY <2>2, <2>3, <2>4
<1>3. pc[f] = "store_volume" /\ cur[f].inst = i => useless[i] <= cur[f].volume
  BY <1>0 DEF InOrder, ActiveInv, Handles, RepeatInv, Leq
<1>4. useless'[i] <= cache'[i].volume /\ (cache'[i].level = 0 => useless'[i] = 0)
  BY <1>0, <1>1, <1>2, <1>3 DEF RepeatInv
<1>5. ASSUME UnderWay(i) PROVE UnderWay(i)'
  <2>1. CASE cache'[i].volume = cache[i].volume
    <3>1. pc[f] \in {"store_rest", "push"} => pc'[f] \in {"store_rest", "push"}
      BY DEF StoreTime, StoreVolume, StoreRest, TypeOK
    <3>2. \A g \in Feeds : pc[g] \in {"store_rest", "push"} => pc'[g] \in {"store_rest", "push"}
      BY <1>0, <3>1
    <3> QED
      BY <1>5, <2>1, <3>2, <1>0 DEF UnderWay
  <2>2. CASE cache'[i].volume # cache[i].volume
    <3>1. cur[f].inst = i /\ pc'[f] = "store_rest" /\ cache'[i].volume = cur[f].volume
      BY <2>2, <1>1, <1>2
    <3>2. cur'[f] = cur[f] /\ cache'[i].volume <= cur[f].volume
      BY <3>1, <1>0
    <3> QED
      BY <3>1, <3>2 DEF UnderWay
  <2> QED
    BY <2>1, <2>2
<1> QED
  BY <1>0, <1>4, <1>5 DEF RepeatInv

\* What a handler held is queued, or its instrument counts as swallowed.
LEMMA PushRepeat ==
    ASSUME TypeOK, NEW i \in Insts, RepeatInv(i), NEW f \in Feeds, Push(f) \/ DropEmpty(f)
    PROVE  RepeatInv(i)'
<1> USE Numbers, UselessNumbers
<1>0. /\ UNCHANGED <<cache, last, cur, useless>>
      /\ \A g \in Feeds \ {f} : pc'[g] = pc[g]
  BY DEF Push, DropEmpty, TypeOK
<1>1. /\ \A k \in 1 .. Len(queue) : k \in 1 .. Len(queue') /\ queue'[k] = queue[k]
      /\ Push(f) => Len(queue') \in 1 .. Len(queue') /\ queue'[Len(queue')] = cur[f]
  BY DEF Push, DropEmpty, TypeOK
<1>2. ASSUME UnderWay(i), i \notin swallowed' PROVE UnderWay(i)'
  <2>1. CASE cache[i].volume <= last[i].volume
    BY <2>1, <1>0 DEF UnderWay
  <2>2. CASE \E k \in 1 .. Len(queue) : queue[k].inst = i /\ cache[i].volume <= queue[k].volume
    BY <2>2, <1>0, <1>1 DEF UnderWay
  <2>3. ASSUME NEW g \in Feeds, pc[g] \in {"store_rest", "push"}, cur[g].inst = i,
               cache[i].volume <= cur[g].volume
        PROVE  UnderWay(i)'
    <3>1. CASE g # f
      BY <2>3, <3>1, <1>0 DEF UnderWay
    <3>2. CASE g = f
      <4>1. Push(f)
        BY <1>2, <2>3, <3>2 DEF DropEmpty
      <4> QED
        BY <2>3, <3>2, <4>1, <1>0, <1>1 DEF UnderWay
    <3> QED
      BY <3>1, <3>2
  <2> QED
    BY <1>2, <2>1, <2>2, <2>3 DEF UnderWay
<1>3. swallowed \subseteq swallowed'
  BY DEF Push, DropEmpty
<1> QED
  BY <1>0, <1>2, <1>3 DEF RepeatInv

\* No step takes the volume of a dropped repeat off its way to on_msg.
LEMMA RepeatStep ==
    ASSUME TypeOK, NEW i \in Insts, InOrder(i), RepeatInv(i), [Next]_vars
    PROVE  RepeatInv(i)'
<1>1. CASE UNCHANGED <<cache, pc, cur, queue, last, useless, swallowed>>
  BY <1>1 DEF RepeatInv, UnderWay
<1>2. CASE Dispatch
  BY <1>2, DispatchRepeat
<1>3. ASSUME NEW f \in Feeds, NEW q \in Quote,
             Check(f, q) \/ Reject(f, q) \/ DropUseless(f, q) \/ Discard(f, q)
      PROVE  RepeatInv(i)'
  <2>1. CASE Check(f, q)
    BY <2>1, CheckRepeat
  <2>2. CASE DropUseless(f, q)
    BY <2>2, DropRepeat
  <2>3. CASE Reject(f, q) \/ Discard(f, q)
    BY <1>1, <2>3 DEF Reject, Discard
  <2> QED
    BY <1>3, <2>1, <2>2, <2>3
<1>4. ASSUME NEW f \in Feeds,
             StoreTime(f) \/ StoreVolume(f) \/ StoreRest(f) \/ DropEmpty(f) \/ Push(f)
      PROVE  RepeatInv(i)'
  BY <1>4, StoreRepeat, PushRepeat
<1> QED
  BY <1>1, <1>2, <1>3, <1>4 DEF Next, Poll, vars

\* With nothing of the instrument under way any more, it has been published.
LEMMA SettledPublished ==
    ASSUME TypeOK, NEW i \in Insts, RepeatInv(i), Settled(i), i \notin swallowed
    PROVE  useless[i] <= last[i].volume
<1>1. cache[i].volume <= last[i].volume /\ useless[i] <= cache[i].volume
  BY DEF RepeatInv, UnderWay, Settled, Handles
<1> QED
  BY <1>1, Numbers, UselessNumbers

(* A level 1 quote of an instrument dropped as useless was: when nothing   *)
(* of the instrument is queued or being handled, on_msg has had its        *)
(* volume, unless the cache took an empty level 2 quote of it.  The        *)
(* handlers take turns on this instrument; the others may collide.         *)
THEOREM TurnsDropPublished ==
    ASSUME NEW i \in Insts
    PROVE  Spec /\ []OneHandler(i)
             => [](Settled(i) /\ i \notin swallowed => useless[i] <= last[i].volume)
<1>1. Init => TypeOK /\ InOrder(i) /\ RepeatInv(i)
  BY InitOrder, InitRepeat
<1>2. TypeOK /\ InOrder(i) /\ RepeatInv(i) /\ OneHandler(i) /\ [Next]_vars
        => TypeOK' /\ InOrder(i)' /\ RepeatInv(i)'
  BY TypeStep, InOrderStep, RepeatStep
<1>3. TypeOK /\ RepeatInv(i)
        => (Settled(i) /\ i \notin swallowed => useless[i] <= last[i].volume)
  BY SettledPublished
<1> QED
  BY <1>1, <1>2, <1>3, PTL DEF Spec

\* UselessInv is inductive.
LEMMA UselessStep == UselessInv /\ [Next]_vars => UselessInv'
<1> SUFFICES ASSUME UselessInv, [Next]_vars PROVE UselessInv'
  OBVIOUS
<1>1. MergeInv' /\ MergeInv /\ TypeOK
  BY InvStep DEF UselessInv, MergeInv
<1>2. ASSUME ~overlapped', NEW i \in Insts PROVE RepeatInv(i)'
  <2>1. InOrder(i) /\ RepeatInv(i)
    BY <1>1, <1>2, OverlappedStays DEF UselessInv, MergeInv
  <2> QED
    BY <1>1, <2>1, RepeatStep
<1> QED
  BY <1>1, <1>2 DEF UselessInv

(* A level 1 quote dropped as useless was: when all is quiet, on_msg has   *)
(* had its volume, unless the cache took an empty level 2 quote of the     *)
(* instrument or two handlers overlapped.                                  *)
THEOREM DroppedWasPublished == Spec => []UselessWasPublished
<1>1. Init => UselessInv
  BY InitInv, InitRepeat DEF UselessInv
<1>2. UselessInv => UselessWasPublished
  <2> SUFFICES ASSUME UselessInv, queue = <<>>, ~overlapped, \A f \in Feeds : pc[f] = "idle",
                      NEW i \in Insts \ swallowed
               PROVE  useless[i] <= last[i].volume
    BY DEF UselessWasPublished
  <2>1. TypeOK /\ RepeatInv(i)
    BY DEF UselessInv, MergeInv
  <2>2. Settled(i)
    BY DEF Settled, Handles
  <2> QED
    BY <2>1, <2>2, SettledPublished
<1> QED
  BY <1>1, <1>2, UselessStep, PTL DEF Spec
=============================================================================

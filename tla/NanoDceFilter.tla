--------------------------- MODULE NanoDceFilter ---------------------------
(***************************************************************************)
(* CNanoMdReceiver of src/nano_febao_dce: NanoRecv calls the level 1 and   *)
(* the level 2 handlers on one thread; both check a quote against the      *)
(* instrument's QuotaInfo (IsValidQuota), only level 1 pushes it, and the  *)
(* dispatcher pops and calls on_msg, reading the opening and the highest   *)
(* price from the same QuotaInfo at that moment.                           *)
(*                                                                         *)
(* A quote is its exchange time, accumulated volume, best book (ap1, bp1,  *)
(* av1, bv1) and last price, 0 when the exchange sent none.  A level 2     *)
(* quote also carries the day's highest price: once there is volume it can *)
(* only rise with it (HighOf); an untraded contract has none, and what its *)
(* quotes carry is 0 or DBL_MAX, NoPrice here.  The lowest price, turnover *)
(* and open interest are stored with it and are left out.  The queue is    *)
(* the ring of RingBuffer with its one producer.  Deep level 2 messages    *)
(* change nothing: their push is commented out.                            *)
(***************************************************************************)
EXTENDS Integers, Sequences, FiniteSets

CONSTANTS
    Insts,                \* subscribed contracts
    Books,                \* best books
    MaxTime, MaxVolume, MaxPrice,   \* bounds of what quotes carry
    HighOf,               \* the day's highest price once a volume was traded
    MaxQuotes             \* bound: quotes received

ASSUME BoundsAssumption ==
    /\ MaxTime \in Nat /\ MaxVolume \in Nat /\ MaxPrice \in Nat /\ MaxQuotes \in Nat
ASSUME HighAssumption ==
    /\ HighOf \in [1 .. MaxVolume -> 1 .. MaxPrice]
    /\ \A v, w \in 1 .. MaxVolume : v <= w => HighOf[v] <= HighOf[w]

VARIABLES
    cache,        \* m_quota_cache: the fields IsValidQuota uses, open and high
    queue,        \* m_ringbuffer_lv1
    received,     \* number of quotes received
    last,         \* history: time and volume of the last on_msg, per contract
    opens,        \* history: the opening prices on_msg reported
    high,         \* history: the highest price on_msg reported last with volume
    cleared       \* history: contracts whose level was cleared by a repeat

vars == <<cache, queue, received, last, opens, high, cleared>>

Times   == 0 .. MaxTime
Volumes == 0 .. MaxVolume
Prices  == 0 .. MaxPrice
NoPrice == MaxPrice + 1     \* DBL_MAX
Highs   == 0 .. NoPrice
Quote == [inst : Insts, time : Times, volume : Volumes, book : Books, price : Prices]
QuotaInfo == [time : Times, volume : Volumes, level : {0, 1, 5}, book : Books,
              open : Prices, high : Highs]

Init ==
    /\ cache \in [Insts -> {c \in QuotaInfo : /\ c.time = 0 /\ c.volume = 0 /\ c.level = 0
                                                 /\ c.open = 0 /\ c.high = 0}]
    /\ queue = <<>>
    /\ received = 0
    /\ last = [i \in Insts |-> [time |-> 0, volume |-> 0]]
    /\ opens = [i \in Insts |-> {}]
    /\ high = [i \in Insts |-> 0]
    /\ cleared = {}

---------------------------------------------------------------------------
(* IsValidQuota.                                                           *)

TimeError(c, q) == c.level # 0 /\ q.time < c.time
VolError(c, q)  == c.level # 0 /\ ~TimeError(c, q) /\ q.volume < c.volume

Repeats(c, q) ==
    /\ c.level # 0 /\ ~TimeError(c, q) /\ ~VolError(c, q)
    /\ q.volume = c.volume /\ q.book = c.book

Accepted(c, q) == ~TimeError(c, q) /\ ~VolError(c, q) /\ ~Repeats(c, q)

\* Mutant: a quote is accepted without being recorded.
Record_Forgotten(c, q, level) == [c EXCEPT !.level = level]

Record(c, q, level) ==
    [c EXCEPT !.time = q.time, !.volume = q.volume, !.level = level, !.book = q.book]

\* `cache->level = 1 && (level == 5)` is an assignment, not a comparison.
LevelAfterRepeat(level) == IF level = 5 THEN 1 ELSE 0

\* The opening price is the first last price seen, of a rejected quote too.
\* Mutant: the opening price follows every last price.
OpenAfter_Always(c, q) == IF q.price > 0 THEN q.price ELSE c.open
OpenAfter(c, q) == IF c.open = 0 /\ q.price > 0 THEN q.price ELSE c.open

\* What a level 2 quote may carry as highest price at volume v.
HighsAt(v) == IF v = 0 THEN {0, NoPrice} ELSE {HighOf[v]}

\* Every level 2 quote that is not out of order leaves its highest price,
\* whatever that is.
WithHigh(c, h) == [c EXCEPT !.high = h]

---------------------------------------------------------------------------
Receive(q, c) ==
    /\ received < MaxQuotes
    /\ received' = received + 1
    /\ cache' = [cache EXCEPT ![q.inst] = [c EXCEPT !.open = OpenAfter(cache[q.inst], q)]]

\* Mutant: the highest price is stored before a time or volume error returns.
Reject_StoresHigh(q) ==
    /\ TimeError(cache[q.inst], q) \/ VolError(cache[q.inst], q)
    /\ \E h \in HighsAt(q.volume) : Receive(q, WithHigh(cache[q.inst], h))
    /\ UNCHANGED <<queue, last, opens, high, cleared>>

\* OnNanoDceL1Md and OnNanoDceL2ContractBestPriceMd drop time and volume errors.
Reject(q) ==
    /\ TimeError(cache[q.inst], q) \/ VolError(cache[q.inst], q)
    /\ Receive(q, cache[q.inst])
    /\ UNCHANGED <<queue, last, opens, high, cleared>>

\* A level 1 quote with the volume and the book of the cache is useless.
RepeatL1(q) ==
    /\ Repeats(cache[q.inst], q)
    /\ Receive(q, [cache[q.inst] EXCEPT !.level = LevelAfterRepeat(1)])
    /\ cleared' = cleared \cup {q.inst}
    /\ UNCHANGED <<queue, last, opens, high>>

AcceptL1(q) ==
    /\ Accepted(cache[q.inst], q)
    /\ Receive(q, Record(cache[q.inst], q, 1))
    /\ queue' = Append(queue, q)
    /\ UNCHANGED <<last, opens, high, cleared>>

RepeatL2(q) ==
    /\ Repeats(cache[q.inst], q)
    /\ \E h \in HighsAt(q.volume) :
          Receive(q, WithHigh([cache[q.inst] EXCEPT !.level = LevelAfterRepeat(5)], h))
    /\ UNCHANGED <<queue, last, opens, high, cleared>>

\* Recorded, but the push is commented out.
AcceptL2(q) ==
    /\ Accepted(cache[q.inst], q)
    /\ \E h \in HighsAt(q.volume) : Receive(q, WithHigh(Record(cache[q.inst], q, 5), h))
    /\ UNCHANGED <<queue, last, opens, high, cleared>>

\* ProcessMsg and DispatchMessage: prices are reported once there is volume.
Dispatch ==
    /\ queue # <<>>
    /\ LET q == Head(queue)
           open == cache[q.inst].open
       IN  /\ last' = [last EXCEPT ![q.inst] = [time |-> q.time, volume |-> q.volume]]
           /\ opens' = [opens EXCEPT ![q.inst] =
                            IF q.volume > 0 /\ open > 0 THEN @ \cup {open} ELSE @]
           /\ high' = [high EXCEPT ![q.inst] = IF q.volume > 0 THEN cache[q.inst].high ELSE @]
    /\ queue' = Tail(queue)
    /\ UNCHANGED <<cache, received, cleared>>

Poll == queue = <<>> /\ UNCHANGED vars

Next ==
    \/ Dispatch \/ Poll
    \/ \E q \in Quote : Reject(q) \/ RepeatL1(q) \/ AcceptL1(q) \/ RepeatL2(q) \/ AcceptL2(q)

Spec == Init /\ [][Next]_vars

---------------------------------------------------------------------------
TypeOK ==
    /\ cache \in [Insts -> QuotaInfo]
    /\ queue \in Seq(Quote)
    /\ received \in 0 .. MaxQuotes
    /\ last \in [Insts -> [time : Times, volume : Volumes]]
    /\ opens \in [Insts -> SUBSET Prices]
    /\ high \in [Insts -> Highs]
    /\ cleared \subseteq Insts

Backwards(i) == last'[i].time < last[i].time \/ last'[i].volume < last[i].volume

(* The comment above IsValidQuota: quotes whose time or volume went back   *)
(* are dropped.  That holds for every contract on which no level 1 quote   *)
(* was repeated: the repeat clears the level and with it both tests.       *)
NeverBackUnlessCleared == [][\A i \in Insts \ cleared : ~Backwards(i)]_vars

(* All on_msg of a contract report the same opening price, although the    *)
(* dispatcher reads it from the cache long after the quote was pushed.     *)
OneOpen == \A i \in Insts : Cardinality(opens[i]) <= 1

IsPrice(h)  == h \in 1 .. MaxPrice
HighKept(i) == IsPrice(high[i]) => IsPrice(high'[i]) /\ high'[i] >= high[i]

(* The highest price on_msg reports belongs to whatever level 2 quote came *)
(* last, not to the quote it is reported with.  Still, once it is a price, *)
(* it stays one and never falls, until a repeat has cleared the contract's *)
(* level.  (Before that a traded level 1 quote may be reported with 0 or   *)
(* DBL_MAX, left by the level 2 quotes of the untraded contract.)          *)
HighNeverFallsUnlessCleared == [][\A i \in Insts \ cleared : HighKept(i)]_vars

---------------------------------------------------------------------------
(* The inductive invariant: for a contract that was never cleared, time    *)
(* and volume grow along last, queue and cache; once the highest price is  *)
(* one, the one reported is at most the cache's, and that at most the      *)
(* exchange's at the cache's volume, which was traded; what was reported   *)
(* as opening price is what the cache still holds.                         *)
Leq(a, b) == a.time <= b.time /\ a.volume <= b.volume

OrderInv ==
    /\ \A i \in Insts \ cleared :
          /\ Leq(last[i], cache[i])
          /\ cache[i].level = 0 => last[i].time = 0 /\ last[i].volume = 0
    /\ \A k \in 1 .. Len(queue) :
          queue[k].inst \notin cleared =>
              /\ Leq(last[queue[k].inst], queue[k])
              /\ Leq(queue[k], cache[queue[k].inst])
              /\ cache[queue[k].inst].level # 0
    /\ \A j, k \in 1 .. Len(queue) :
          j < k /\ queue[j].inst = queue[k].inst /\ queue[j].inst \notin cleared
              => Leq(queue[j], queue[k])

OpenInv == \A i \in Insts : opens[i] \subseteq {cache[i].open} \ {0}

HighInv ==
    \A i \in Insts \ cleared :
        /\ IsPrice(high[i]) => IsPrice(cache[i].high) /\ high[i] <= cache[i].high
        /\ IsPrice(cache[i].high) =>
              cache[i].volume > 0 /\ cache[i].high <= HighOf[cache[i].volume]
        /\ cache[i].level = 0 => cache[i].high = 0

FilterInv == TypeOK /\ OrderInv /\ OpenInv /\ HighInv
=============================================================================

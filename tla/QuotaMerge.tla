---------------------------- MODULE QuotaMerge ----------------------------
(***************************************************************************)
(* GFEXQuota of src/dz_gfex_md: the level 1 and the level 2 receiver       *)
(* thread each check a quote against one cache per instrument              *)
(* (IsValidQuota), store it there and push it to the ring; the dispatcher  *)
(* pops and calls on_msg.  No lock protects the cache, so the check and    *)
(* the stores of the two threads interleave.                               *)
(*                                                                         *)
(* A quote is its exchange time, its accumulated volume and its best book, *)
(* which stands for ap1, bp1, av1 and bv1.  An incremental level 1 message *)
(* leaves absent fields at their previous value, one of the values         *)
(* quantified over, so m_lv1_quota is not kept.  The ring is taken as the  *)
(* queue it is meant to be (RingBuffer has its own module), and the error  *)
(* counters, which nothing reads, are left out.                            *)
(***************************************************************************)
EXTENDS Integers, Sequences

CONSTANTS
    Insts,        \* subscribed instruments
    Feeds,        \* levels received: 1, 5 or both, one thread each
    Books,        \* best books
    EmptyBook,    \* av[0] = bv[0] = 0
    NaNBook,      \* no best price: not received yet on level 1 (PRICE_COM is
                  \* false on NaN), both sides outside the limits on level 2
    MaxTime, MaxVolume,   \* bounds: exchange times and volumes
    CloseTime,    \* 15:00, after which level 2 is not taken
    MaxQuotes     \* bound: quotes of each feed

ASSUME FeedsAssumption == Feeds \subseteq {1, 5}
ASSUME BooksAssumption == {EmptyBook, NaNBook} \subseteq Books
ASSUME BoundsAssumption ==
    /\ MaxTime \in Nat /\ MaxVolume \in Nat /\ CloseTime \in Nat /\ MaxQuotes \in Nat

VARIABLES
    cache,        \* m_quota_cache
    pc,           \* where each receiver thread is in its handler
    cur,          \* the quote it handles
    queue,        \* m_ringbuffer
    last,         \* history: time and volume of the last on_msg, per instrument
    useless,      \* history: highest volume of a quote dropped as useless
    swallowed,    \* history: instruments of which the cache took a quote nobody was sent
    received,     \* quotes each feed has received
    overlapped    \* history: two handlers changed the cache at the same time

vars == <<cache, pc, cur, queue, last, useless, swallowed, received, overlapped>>

Times   == 0 .. MaxTime
Volumes == 0 .. MaxVolume
Quote   == [inst : Insts, time : Times, volume : Volumes, book : Books]
QuotaInfo == [time : Times, volume : Volumes, level : {0, 1, 5}, book : Books]

Init ==
    /\ cache = [i \in Insts |-> [time |-> 0, volume |-> 0, level |-> 0, book |-> EmptyBook]]
    /\ pc = [f \in Feeds |-> "idle"]
    /\ cur \in [Feeds -> {q \in Quote : q.time = 0 /\ q.volume = 0 /\ q.book = EmptyBook}]
    /\ queue = <<>>
    /\ last = [i \in Insts |-> [time |-> 0, volume |-> 0]]
    /\ useless = [i \in Insts |-> 0]
    /\ swallowed = {}
    /\ received = [f \in Feeds |-> 0]
    /\ overlapped = FALSE

---------------------------------------------------------------------------
(* IsValidQuota: the tests in their order; level 0 is an untouched cache.  *)

\* Mutant: the time test dropped.
TimeError_Missing(c, q) == FALSE

TimeError(c, q) == c.level # 0 /\ q.time < c.time
VolError(c, q)  == c.level # 0 /\ q.volume < c.volume

\* Mutant: a repeat is recognised by the book alone.
RepeatL1_AnyVolume(c, q, level) ==
    c.level = 5 /\ level = 1 /\ q.book = c.book /\ q.book # NaNBook

RepeatL1(c, q, level) ==
    /\ c.level = 5 /\ level = 1
    /\ q.volume = c.volume
    /\ q.book = c.book /\ q.book # NaNBook

Accepted(c, q, level) ==
    ~TimeError(c, q) /\ ~VolError(c, q) /\ ~RepeatL1(c, q, level)

\* A receiver calls the handler with the next quote of its feed.
Receive(f) ==
    /\ pc[f] = "idle"
    /\ received[f] < MaxQuotes
    /\ received' = [received EXCEPT ![f] = @ + 1]

\* OnData_lv2 returns before IsValidQuota after the close and when neither best
\* price is within the limits; HandleLv1Quota has no such test.
Discarded(f, q) == f = 5 /\ (q.time > CloseTime \/ q.book = NaNBook)

Discard(f, q) ==
    /\ Receive(f)
    /\ Discarded(f, q)
    /\ UNCHANGED <<cache, pc, cur, queue, last, useless, swallowed, overlapped>>

Arrives(f, q) == Receive(f) /\ ~Discarded(f, q)

\* The tests passed: the handler goes on to store the quote in the cache.
Check(f, q) ==
    /\ Arrives(f, q)
    /\ Accepted(cache[q.inst], q, f)
    /\ cur' = [cur EXCEPT ![f] = q]
    /\ pc' = [pc EXCEPT ![f] = "store_time"]
    /\ overlapped' = (overlapped \/ \E g \in Feeds \ {f} : pc[g] # "idle")
    /\ UNCHANGED <<cache, queue, last, useless, swallowed>>

Reject(f, q) ==
    /\ Arrives(f, q)
    /\ TimeError(cache[q.inst], q) \/ VolError(cache[q.inst], q)
    /\ UNCHANGED <<cache, pc, cur, queue, last, useless, swallowed, overlapped>>

\* Level 1 repeats what level 2 brought: m_l1_useless_lv1_sum.
DropUseless(f, q) ==
    /\ Arrives(f, q)
    /\ ~TimeError(cache[q.inst], q) /\ ~VolError(cache[q.inst], q)
    /\ RepeatL1(cache[q.inst], q, f)
    /\ useless' = [useless EXCEPT ![q.inst] = IF q.volume > @ THEN q.volume ELSE @]
    /\ UNCHANGED <<cache, pc, cur, queue, last, swallowed, overlapped>>

(* The stores of IsValidQuota, plain words another thread may read between. *)
StoreTime(f) ==
    /\ pc[f] = "store_time"
    /\ cache' = [cache EXCEPT ![cur[f].inst].time = cur[f].time]
    /\ pc' = [pc EXCEPT ![f] = "store_volume"]
    /\ UNCHANGED <<cur, queue, last, useless, swallowed, received, overlapped>>

StoreVolume(f) ==
    /\ pc[f] = "store_volume"
    /\ cache' = [cache EXCEPT ![cur[f].inst].volume = cur[f].volume]
    /\ pc' = [pc EXCEPT ![f] = "store_rest"]
    /\ UNCHANGED <<cur, queue, last, useless, swallowed, received, overlapped>>

StoreRest(f) ==
    /\ pc[f] = "store_rest"
    /\ cache' = [cache EXCEPT ![cur[f].inst].level = f,
                              ![cur[f].inst].book = cur[f].book]
    /\ pc' = [pc EXCEPT ![f] = "push"]
    /\ UNCHANGED <<cur, queue, last, useless, swallowed, received, overlapped>>

\* Level 2 without any volume is dropped, after the cache took it.
DropEmpty(f) ==
    /\ pc[f] = "push"
    /\ f = 5 /\ cur[f].book = EmptyBook
    /\ pc' = [pc EXCEPT ![f] = "idle"]
    /\ swallowed' = swallowed \cup {cur[f].inst}
    /\ UNCHANGED <<cache, cur, queue, last, useless, received, overlapped>>

Push(f) ==
    /\ pc[f] = "push"
    /\ ~(f = 5 /\ cur[f].book = EmptyBook)
    /\ queue' = Append(queue, cur[f])
    /\ pc' = [pc EXCEPT ![f] = "idle"]
    /\ UNCHANGED <<cache, cur, last, useless, swallowed, received, overlapped>>

\* ProcessMsg pops and DispatchMessage hands the quote to on_msg.
Dispatch ==
    /\ queue # <<>>
    /\ last' = [last EXCEPT ![Head(queue).inst] =
                    [time |-> Head(queue).time, volume |-> Head(queue).volume]]
    /\ queue' = Tail(queue)
    /\ UNCHANGED <<cache, pc, cur, useless, swallowed, received, overlapped>>

\* The dispatcher finds the ring empty and polls again.
Poll == queue = <<>> /\ UNCHANGED vars

Next ==
    \/ Dispatch \/ Poll
    \/ \E f \in Feeds :
          \/ StoreTime(f) \/ StoreVolume(f) \/ StoreRest(f) \/ DropEmpty(f) \/ Push(f)
          \/ \E q \in Quote : Check(f, q) \/ Reject(f, q) \/ DropUseless(f, q) \/ Discard(f, q)

Spec == Init /\ [][Next]_vars

---------------------------------------------------------------------------
TypeOK ==
    /\ cache \in [Insts -> QuotaInfo]
    /\ pc \in [Feeds -> {"idle", "store_time", "store_volume", "store_rest", "push"}]
    /\ cur \in [Feeds -> Quote]
    /\ queue \in Seq(Quote)
    /\ last \in [Insts -> [time : Times, volume : Volumes]]
    /\ useless \in [Insts -> Volumes]
    /\ swallowed \subseteq Insts
    /\ received \in [Feeds -> Nat]
    /\ overlapped \in BOOLEAN

NoStepBack ==
    \A i \in Insts : /\ last[i].time <= last'[i].time
                     /\ last[i].volume <= last'[i].volume

(* on_msg never sees the time or the volume of an instrument go back: the  *)
(* promise behind COM_RESULT_TIME_ERROR and COM_RESULT_VOL_ERROR.          *)
NeverBack == [][NoStepBack]_vars

(* The same as long as no two handlers were inside IsValidQuota and push   *)
(* at once: with one feed, or with feeds that happen not to collide.       *)
NeverBackUnlessOverlapped == [][~overlapped' => NoStepBack]_vars

(* When all is quiet, what was dropped as a useless level 1 repeat was     *)
(* useless: the volume it carried did reach on_msg.  An instrument of      *)
(* which DropEmpty took a quote into the cache without sending it is       *)
(* excepted: there the repeat of a quote nobody saw is dropped as well.    *)
UselessWasPublished ==
    (queue = <<>> /\ ~overlapped /\ \A f \in Feeds : pc[f] = "idle")
        => \A i \in Insts \ swallowed : useless[i] <= last[i].volume

---------------------------------------------------------------------------
(* The inductive invariant, instrument by instrument: while one handler at *)
(* a time is at work on the instrument, its time and volume only grow      *)
(* along last, queue, cache and the quote being stored.                    *)
Leq(a, b) == a.time <= b.time /\ a.volume <= b.volume

Handles(f, i) == pc[f] # "idle" /\ cur[f].inst = i
OneHandler(i) == \A f, g \in Feeds : Handles(f, i) /\ Handles(g, i) => f = g

QueueInv(i) ==
    /\ \A k \in 1 .. Len(queue) :
          queue[k].inst = i => /\ Leq(last[i], queue[k])
                               /\ Leq(queue[k], cache[i])
                               /\ cache[i].level # 0
    /\ \A j, k \in 1 .. Len(queue) :
          j < k /\ queue[j].inst = i /\ queue[k].inst = i => Leq(queue[j], queue[k])

CacheInv(i) ==
    /\ Leq(last[i], cache[i])
    /\ cache[i].level = 0 => last[i].time = 0 /\ last[i].volume = 0

ActiveInv(i) ==
    \A f \in Feeds : Handles(f, i) =>
        /\ cache[i].level # 0 => Leq(cache[i], cur[f])
        /\ pc[f] \in {"store_volume", "store_rest", "push"} => cache[i].time = cur[f].time
        /\ pc[f] \in {"store_rest", "push"} => cache[i].volume = cur[f].volume
        /\ pc[f] = "push" => cache[i].level # 0

InOrder(i) == QueueInv(i) /\ CacheInv(i) /\ ActiveInv(i)

OneActive == \A f, g \in Feeds : pc[f] # "idle" /\ pc[g] # "idle" => f = g

MergeInv == TypeOK /\ (~overlapped => OneActive /\ \A i \in Insts : InOrder(i))

(* Behind UselessWasPublished: a useless quote carried at most the volume  *)
(* in the cache, and that volume was published, is queued, or belongs to a *)
(* handler that is about to push or to swallow it.                         *)
UnderWay(i) ==
    \/ cache[i].volume <= last[i].volume
    \/ \E k \in 1 .. Len(queue) : queue[k].inst = i /\ cache[i].volume <= queue[k].volume
    \/ \E f \in Feeds : /\ pc[f] \in {"store_rest", "push"} /\ cur[f].inst = i
                        /\ cache[i].volume <= cur[f].volume

RepeatInv(i) ==
    /\ useless[i] <= cache[i].volume
    /\ cache[i].level = 0 => useless[i] = 0
    /\ i \notin swallowed => UnderWay(i)

UselessInv == MergeInv /\ (~overlapped => \A i \in Insts : RepeatInv(i))

(* Nothing of the instrument is queued or being handled.                   *)
Settled(i) ==
    /\ \A k \in 1 .. Len(queue) : queue[k].inst # i
    /\ \A f \in Feeds : ~Handles(f, i)
=============================================================================

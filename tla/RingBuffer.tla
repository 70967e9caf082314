---------------------------- MODULE RingBuffer ----------------------------
(***************************************************************************)
(* LockFreeRingBuffer (src/dz_gfex_md/src/ringbuffer.h): the queue between *)
(* the receiver threads of a plugin and its one dispatcher thread.         *)
(*                                                                         *)
(* Every access to a word that two threads share is a step of its own.  A  *)
(* slot is several words, written and copied without an atomic: here its   *)
(* head (timestamp_0, timestamp_1, msg_type) and its data (the Quota_t).   *)
(* A message is identified by the producer that pushes it and its number,  *)
(* so a lost, repeated or torn message shows.                              *)
(*                                                                         *)
(* compare_exchange_weak never fails spuriously on x86, the only target    *)
(* ("pause" in the wait loop), and TSO orders the slot stores before the   *)
(* locked exchange, so interleaved steps are the behaviours of the build.  *)
(***************************************************************************)
EXTENDS Integers, Sequences, FiniteSets

CONSTANTS
    Producers,    \* the threads that call push_l1 / push_l2
    Size,         \* RING_BUFFER_SIZE
    MaxPush       \* bound: pushes of each producer

ASSUME ProducersAssumption == Producers # {}
ASSUME SizeAssumption    == Size \in Nat \ {0}
ASSUME MaxPushAssumption == MaxPush \in Nat

VARIABLES
    slots,        \* m_buffer.slots
    write_idx, read_idx, sequence,      \* the three atomic counters
    ppc,          \* where each producer is in push
    current_write, current_read,        \* push's locals
    count,        \* number of the message each producer pushes or pushed last
    cpc,          \* where the consumer is in try_pop
    slot,         \* try_pop's out parameter
    published,    \* history: messages in the order push made them visible
    popped        \* history: what each successful try_pop returned

ringVars     == <<slots, write_idx, read_idx, sequence>>
producerVars == <<ppc, current_write, current_read, count>>
consumerVars == <<cpc, slot>>
vars == <<ringVars, producerVars, consumerVars, published, popped>>

\* A message; number 0 is never pushed and stands for a zeroed slot.
Message  == Producers \X (0 .. MaxPush)
Zeroed   == CHOOSE m \in Message : m[2] = 0
Indices  == 0 .. Size - 1
SlotType == [head : Message, data : Message]
Whole(m) == [head |-> m, data |-> m]
MessageOf(p) == <<p, count[p]>>

\* INDEX_MASK is RING_BUFFER_SIZE - 1 with a power of two, so the mask is mod.
get_index(seq) == seq % Size

is_full(r, w) == w - r >= Size

Init ==
    /\ slots = [i \in Indices |-> Whole(Zeroed)]
    /\ write_idx = 0 /\ read_idx = 0 /\ sequence = 0
    /\ ppc = [p \in Producers |-> "out"]
    /\ current_write = [p \in Producers |-> 0]
    /\ current_read = [p \in Producers |-> 0]
    /\ count = [p \in Producers |-> 0]
    /\ cpc = "out"
    /\ slot = Whole(Zeroed)
    /\ published = <<>> /\ popped = <<>>

---------------------------------------------------------------------------
(* push_l1 and push_l2 differ in the msg_type they store only.             *)

\* A call of push with the producer's next message: sequence.fetch_add.
BeginPush(p) ==
    /\ ppc[p] = "out"
    /\ count[p] < MaxPush
    /\ count' = [count EXCEPT ![p] = @ + 1]
    /\ sequence' = sequence + 1
    /\ ppc' = [ppc EXCEPT ![p] = "load_write"]
    /\ UNCHANGED <<slots, write_idx, read_idx, current_write, current_read,
                   consumerVars, published, popped>>

LoadWrite(p) ==
    /\ ppc[p] = "load_write"
    /\ current_write' = [current_write EXCEPT ![p] = write_idx]
    /\ ppc' = [ppc EXCEPT ![p] = "load_read"]
    /\ UNCHANGED <<ringVars, current_read, count, consumerVars, published, popped>>

\* Mutant: push keeps the read index it loaded first and never refreshes it.
LoadRead_Cached(p) ==
    /\ ppc[p] = "load_read"
    /\ ppc' = [ppc EXCEPT ![p] = IF is_full(current_read[p], current_write[p])
                                   THEN "load_write" ELSE "write_head"]
    /\ UNCHANGED <<ringVars, current_write, current_read, count, consumerVars,
                   published, popped>>

\* Loads read_idx and decides: a full ring is a pause and another round.
LoadRead(p) ==
    /\ ppc[p] = "load_read"
    /\ current_read' = [current_read EXCEPT ![p] = read_idx]
    /\ ppc' = [ppc EXCEPT ![p] = IF is_full(read_idx, current_write[p])
                                   THEN "load_write" ELSE "write_head"]
    /\ UNCHANGED <<ringVars, current_write, count, consumerVars, published, popped>>

\* The slot is filled before it is claimed.
WriteHead(p) ==
    /\ ppc[p] = "write_head"
    /\ slots' = [slots EXCEPT ![get_index(current_write[p])].head = MessageOf(p)]
    /\ ppc' = [ppc EXCEPT ![p] = "write_data"]
    /\ UNCHANGED <<write_idx, read_idx, sequence, current_write, current_read,
                   count, consumerVars, published, popped>>

WriteData(p) ==
    /\ ppc[p] = "write_data"
    /\ slots' = [slots EXCEPT ![get_index(current_write[p])].data = MessageOf(p)]
    /\ ppc' = [ppc EXCEPT ![p] = "cas"]
    /\ UNCHANGED <<write_idx, read_idx, sequence, current_write, current_read,
                   count, consumerVars, published, popped>>

CasWins(p) ==
    /\ ppc[p] = "cas"
    /\ write_idx = current_write[p]
    /\ write_idx' = write_idx + 1
    /\ published' = Append(published, MessageOf(p))
    /\ ppc' = [ppc EXCEPT ![p] = "out"]
    /\ UNCHANGED <<slots, read_idx, sequence, current_write, current_read, count,
                   consumerVars, popped>>

\* The exchange failed: another producer claimed the position meanwhile.
CasLoses(p) ==
    /\ ppc[p] = "cas"
    /\ write_idx # current_write[p]
    /\ ppc' = [ppc EXCEPT ![p] = "load_write"]
    /\ UNCHANGED <<ringVars, current_write, current_read, count, consumerVars,
                   published, popped>>

Push(p) ==
    \/ BeginPush(p) \/ LoadWrite(p) \/ LoadRead(p)
    \/ WriteHead(p) \/ WriteData(p) \/ CasWins(p) \/ CasLoses(p)

---------------------------------------------------------------------------
(* try_pop, called by the dispatcher only: read_idx is its own word.       *)

\* Mutants: try_pop without the empty test, and with one that keeps one back.
PopLoad_NoEmptyTest ==
    /\ cpc = "out"
    /\ cpc' = "copy_head"
    /\ UNCHANGED <<ringVars, producerVars, slot, published, popped>>

PopLoad_KeepsOne ==
    /\ cpc = "out"
    /\ read_idx + 1 < write_idx
    /\ cpc' = "copy_head"
    /\ UNCHANGED <<ringVars, producerVars, slot, published, popped>>

PopLoad ==
    /\ cpc = "out"
    /\ read_idx # write_idx
    /\ cpc' = "copy_head"
    /\ UNCHANGED <<ringVars, producerVars, slot, published, popped>>

CopyHead ==
    /\ cpc = "copy_head"
    /\ slot' = [slot EXCEPT !.head = slots[get_index(read_idx)].head]
    /\ cpc' = "copy_data"
    /\ UNCHANGED <<ringVars, producerVars, published, popped>>

\* Mutant: the data is copied from the position after the one being read.
CopyData_NextSlot ==
    /\ cpc = "copy_data"
    /\ slot' = [slot EXCEPT !.data = slots[get_index(read_idx + 1)].data]
    /\ cpc' = "store"
    /\ UNCHANGED <<ringVars, producerVars, published, popped>>

CopyData ==
    /\ cpc = "copy_data"
    /\ slot' = [slot EXCEPT !.data = slots[get_index(read_idx)].data]
    /\ cpc' = "store"
    /\ UNCHANGED <<ringVars, producerVars, published, popped>>

PopStore ==
    /\ cpc = "store"
    /\ read_idx' = read_idx + 1
    /\ popped' = Append(popped, slot)
    /\ cpc' = "out"
    /\ UNCHANGED <<slots, write_idx, sequence, producerVars, slot, published>>

\* The ring is empty: try_pop returns false and the dispatcher asks again.
PopEmpty ==
    /\ cpc = "out"
    /\ read_idx = write_idx
    /\ UNCHANGED vars

Pop == PopLoad \/ CopyHead \/ CopyData \/ PopStore \/ PopEmpty

Next == Pop \/ \E p \in Producers : Push(p)

Spec == Init /\ [][Next]_vars

\* The threads are pinned to cores of their own and never block: the consumer
\* spins in pop, a producer in the middle of a push spins on it.
Fairness ==
    /\ WF_vars(Pop)
    /\ \A p \in Producers : WF_vars(ppc[p] # "out" /\ Push(p))

FairSpec == Spec /\ Fairness

---------------------------------------------------------------------------
TypeOK ==
    /\ slots \in [Indices -> SlotType]
    /\ write_idx \in Nat /\ read_idx \in Nat /\ sequence \in Nat
    /\ ppc \in [Producers -> {"out", "load_write", "load_read", "write_head",
                              "write_data", "cas"}]
    /\ current_write \in [Producers -> Nat]
    /\ current_read \in [Producers -> Nat]
    /\ count \in [Producers -> 0 .. MaxPush]
    /\ cpc \in {"out", "copy_head", "copy_data", "store"}
    /\ slot \in SlotType
    /\ published \in Seq(Message)
    /\ popped \in Seq(SlotType)

(* However many threads push, size() never exceeds the capacity and never  *)
(* underflows: the full test a producer made on an old read_idx still      *)
(* holds when its exchange on write_idx succeeds (push_l1, push_l2).       *)
IndexBounds == read_idx <= write_idx /\ write_idx - read_idx <= Size

(* What the dispatcher popped is, in order, what the producers pushed: no  *)
(* message lost, repeated, reordered or made of two (try_pop against push).*)
PoppedInOrder ==
    /\ Len(popped) <= Len(published)
    /\ \A i \in 1 .. Len(popped) : popped[i] = Whole(published[i])

(* Nothing the dispatcher pops was never pushed: no producer publishes a   *)
(* position before some producer filled all of its slot.                   *)
OnlyPushed ==
    \A i \in 1 .. Len(popped) : popped[i].head[2] > 0 /\ popped[i].data[2] > 0

(* A message a push made visible stays intact in its slot until it is read,*)
(* whatever a producer that is inside push does to the slots.              *)
UnreadIntact ==
    \A i \in read_idx .. write_idx - 1 :
        slots[get_index(i)] = Whole(published[i + 1])

(* push is lock-free: while some push is under way, whatever the ring's     *)
(* state, a further message becomes visible, so a full ring or two racing  *)
(* exchanges never stop all the producers.  Of a single push nothing is    *)
(* said: it may lose its exchange again and again (push_l1, push_l2).      *)
PushProgresses ==
    \A n \in 0 .. MaxPush * Cardinality(Producers) :
        (\E p \in Producers : ppc[p] # "out") /\ Len(published) = n
            ~> Len(published) > n

(* Every message that push made visible reaches the dispatcher.            *)
AllPopped == \A n \in 1 .. MaxPush : Len(published) >= n ~> Len(popped) >= n

(* The unread part of the ring, and what was popped, behave as the bounded *)
(* FIFO of FifoQueue: each exchange on write_idx is a Put, each store to   *)
(* read_idx a Take, everything else stutters.                              *)
Fifo == INSTANCE FifoQueue WITH
            Message  <- {Whole(m) : m \in Message},
            Capacity <- Size,
            queue    <- [i \in 1 .. write_idx - read_idx |->
                            slots[get_index(read_idx + i - 1)]],
            taken    <- popped
ImplementsFifo == Fifo!Spec

---------------------------------------------------------------------------
(* The inductive invariants behind IndexBounds and PoppedInOrder.          *)

InSlot(p) == ppc[p] \in {"write_head", "write_data", "cas"}

(* A producer's view of the counters is old but never ahead of them, and a *)
(* producer that fills a slot saw room for it.                             *)
ViewsInv ==
    /\ \A p \in Producers :
          /\ current_write[p] <= write_idx
          /\ current_read[p] <= read_idx
          /\ InSlot(p) => current_write[p] - current_read[p] < Size
    /\ cpc # "out" => read_idx < write_idx

BoundsInv == TypeOK /\ IndexBounds /\ ViewsInv

(* push goes round its loop only for a reason: the ring is full at that    *)
(* moment, or a position was claimed since it loaded write_idx.            *)
RetriesForced ==
    [][\A p \in Producers :
          /\ LoadRead(p) /\ ppc'[p] = "load_write" => write_idx - read_idx = Size
          /\ CasLoses(p) => current_write[p] < write_idx]_vars

\* The deployment in which one receiver thread feeds the ring.
SingleProducer == \A p, q \in Producers : p = q

\* A producer holds a position from its load of write_idx to its exchange on
\* it; the pushes of several producers take turns when one at a time does.
HoldsPosition(p) == ppc[p] \in {"load_read", "write_head", "write_data", "cas"}
OneHolder == \A p, q \in Producers : HoldsPosition(p) /\ HoldsPosition(q) => p = q

(* With one holder its view of write_idx is exact, and the slot it fills   *)
(* and the slot the consumer copies hold what they should so far.          *)
HistoryInv ==
    /\ Len(published) = write_idx
    /\ Len(popped) = read_idx

FillInv ==
    \A p \in Producers :
        /\ InSlot(p) \/ ppc[p] = "load_read" => current_write[p] = write_idx
        /\ ppc[p] \in {"write_data", "cas"} =>
              slots[get_index(write_idx)].head = MessageOf(p)
        /\ ppc[p] = "cas" => slots[get_index(write_idx)].data = MessageOf(p)

CopyInv ==
    /\ cpc \in {"copy_data", "store"} => slot.head = published[read_idx + 1]
    /\ cpc = "store" => slot.data = published[read_idx + 1]

OrderInv ==
    /\ BoundsInv
    /\ HistoryInv
    /\ UnreadIntact
    /\ FillInv
    /\ CopyInv
    /\ PoppedInOrder

(* Behind OnlyPushed, for any number of producers: a slot whose position   *)
(* was ever claimed has been filled, and is only ever filled again.        *)
IsPushed(m) == m[2] > 0

FilledInv ==
    /\ \A i \in 0 .. write_idx - 1 :
          /\ IsPushed(slots[get_index(i)].head)
          /\ IsPushed(slots[get_index(i)].data)
    /\ \A p \in Producers :
          /\ ppc[p] # "out" => count[p] > 0
          /\ ppc[p] \in {"write_data", "cas"} => IsPushed(slots[get_index(current_write[p])].head)
          /\ ppc[p] = "cas" => IsPushed(slots[get_index(current_write[p])].data)
    /\ cpc \in {"copy_data", "store"} => IsPushed(slot.head)
    /\ cpc = "store" => IsPushed(slot.data)

PushedInv == BoundsInv /\ FilledInv /\ OnlyPushed

(* Also for any number of producers: whatever is in a slot or was popped   *)
(* is of a push that began, ...                                            *)
IsBegun(m) == m[2] <= count[m[1]]

BegunInv ==
    /\ \A i \in Indices : IsBegun(slots[i].head) /\ IsBegun(slots[i].data)
    /\ IsBegun(slot.head) /\ IsBegun(slot.data)
    /\ \A i \in 1 .. Len(popped) : IsBegun(popped[i].head) /\ IsBegun(popped[i].data)

(* ... and the positions claimed are those of the pushes that returned:    *)
(* one for each, the ones of a producer in the order of its calls.         *)
HasReturned(m) ==
    /\ m[2] \in 1 .. count[m[1]]
    /\ ppc[m[1]] # "out" => m[2] < count[m[1]]

ClaimedOnce ==
    /\ \A m \in Message : HasReturned(m) <=> \E i \in 1 .. Len(published) : published[i] = m
    /\ \A i, j \in 1 .. Len(published) :
          i < j /\ published[i][1] = published[j][1] => published[i][2] < published[j][2]

ClaimInv == TypeOK /\ HistoryInv /\ ClaimedOnce
=============================================================================

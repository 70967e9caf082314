------------------------- MODULE RingBufferProofs -------------------------
(* Theorems about the ring buffer, for every capacity, every number of     *)
(* pushes and, where it is not said otherwise, every set of producers.     *)
EXTENDS RingBuffer, SequenceTheorems, TLAPS

\* Two positions less than Size apart use different slots.
LEMMA DistinctSlots ==
    ASSUME NEW i \in Nat, NEW j \in Nat, i < j, j - i < Size
    PROVE  get_index(i) # get_index(j)
<1> DEFINE q == i \div Size
           r == j \div Size
<1>1. /\ i = Size * q + (i % Size) /\ q \in Int /\ i % Size \in Int
      /\ j = Size * r + (j % Size) /\ r \in Int /\ j % Size \in Int
  BY SizeAssumption
<1> HIDE DEF q, r
<1>2. SUFFICES ASSUME i % Size = j % Size PROVE FALSE
  BY DEF get_index
<1>3. j - i = Size * r - Size * q
  BY <1>1, <1>2, SizeAssumption
<1>4. j - i = Size * (r - q)
  BY <1>3, <1>1, SizeAssumption
<1>5. r - q > 0
  BY <1>4, <1>1, SizeAssumption
<1>6. Size * (r - q) >= Size
  BY <1>5, <1>1, SizeAssumption
<1> QED
  BY <1>4, <1>6, <1>1, SizeAssumption

\* A position maps to an index of the array.
LEMMA IndexInRange ==
    ASSUME NEW i \in Nat
    PROVE  get_index(i) \in Indices
BY SizeAssumption DEF get_index, Indices

\* The contents of a fresh slot have the type of a message.
LEMMA ZeroedType == Zeroed \in Message
<1> PICK p \in Producers : TRUE
  BY ProducersAssumption
<1>1. <<p, 0>> \in Message /\ <<p, 0>>[2] = 0
  BY MaxPushAssumption DEF Message
<1> QED
  BY <1>1 DEF Zeroed

\* Its number is the one that is never pushed.
LEMMA ZeroedIsZero == Zeroed[2] = 0
<1> PICK p \in Producers : TRUE
  BY ProducersAssumption
<1>1. <<p, 0>> \in Message /\ <<p, 0>>[2] = 0
  BY MaxPushAssumption DEF Message
<1> QED
  BY <1>1 DEF Zeroed

\* What a producer pushes has the type of a message.
LEMMA MessageType ==
    ASSUME TypeOK, NEW p \in Producers
    PROVE  MessageOf(p) \in Message
BY DEF TypeOK, MessageOf, Message

\* The constructor's ring is well typed.
LEMMA InitTypeOK == Init => TypeOK
BY ZeroedType, MaxPushAssumption
   DEF Init, TypeOK, Indices, SlotType, Whole

\* No step of push or try_pop leaves the types.
LEMMA NextTypeOK == TypeOK /\ [Next]_vars => TypeOK'
<1> SUFFICES ASSUME TypeOK, [Next]_vars PROVE TypeOK'
  OBVIOUS
<1> USE DEF TypeOK
<1>1. ASSUME NEW p \in Producers, BeginPush(p) PROVE TypeOK'
  BY <1>1, MaxPushAssumption DEF BeginPush, consumerVars
<1>2. ASSUME NEW p \in Producers, LoadWrite(p) PROVE TypeOK'
  BY <1>2 DEF LoadWrite, ringVars, consumerVars
<1>3. ASSUME NEW p \in Producers, LoadRead(p) PROVE TypeOK'
  BY <1>3 DEF LoadRead, ringVars, consumerVars
<1>4. ASSUME NEW p \in Producers, WriteHead(p) PROVE TypeOK'
  <2>1. slots' \in [Indices -> SlotType]
    BY <1>4, MessageType, IndexInRange DEF WriteHead, SlotType
  <2> QED
    BY <1>4, <2>1 DEF WriteHead, consumerVars
<1>5. ASSUME NEW p \in Producers, WriteData(p) PROVE TypeOK'
  <2>1. slots' \in [Indices -> SlotType]
    BY <1>5, MessageType, IndexInRange DEF WriteData, SlotType
  <2> QED
    BY <1>5, <2>1 DEF WriteData, consumerVars
<1>6. ASSUME NEW p \in Producers, CasWins(p) PROVE TypeOK'
  BY <1>6, MessageType DEF CasWins, consumerVars
<1>7. ASSUME NEW p \in Producers, CasLoses(p) PROVE TypeOK'
  BY <1>7 DEF CasLoses, ringVars, consumerVars
<1>8. CASE PopLoad
  BY <1>8 DEF PopLoad, ringVars, producerVars
<1>9. CASE CopyHead
  BY <1>9, IndexInRange DEF CopyHead, ringVars, producerVars, SlotType
<1>10. CASE CopyData
  BY <1>10, IndexInRange DEF CopyData, ringVars, producerVars, SlotType
<1>11. CASE PopStore
  BY <1>11 DEF PopStore, producerVars
<1>12. CASE UNCHANGED vars
  BY <1>12 DEF vars, ringVars, producerVars, consumerVars
<1> QED
  BY <1>1, <1>2, <1>3, <1>4, <1>5, <1>6, <1>7, <1>8, <1>9, <1>10, <1>11, <1>12
     DEF Next, Push, Pop, PopEmpty

(* Type correctness of the ring and of the locals of push and try_pop.     *)
THEOREM TypeCorrect == Spec => []TypeOK
BY InitTypeOK, NextTypeOK, PTL DEF Spec

---------------------------------------------------------------------------
\* An empty ring is within its bounds.
LEMMA InitBounds == Init => BoundsInv
BY InitTypeOK, SizeAssumption DEF Init, BoundsInv, IndexBounds, ViewsInv, InSlot

\* No step overfills the ring or pops what was not pushed.
LEMMA NextBounds == BoundsInv /\ [Next]_vars => BoundsInv'
<1> SUFFICES ASSUME BoundsInv, [Next]_vars PROVE BoundsInv'
  OBVIOUS
<1>t. TypeOK /\ TypeOK'
  BY NextTypeOK DEF BoundsInv
<1> SUFFICES IndexBounds' /\ ViewsInv'
  BY <1>t DEF BoundsInv
<1> USE <1>t, SizeAssumption DEF BoundsInv, TypeOK, IndexBounds, ViewsInv, InSlot
<1>1. ASSUME NEW p \in Producers, BeginPush(p) PROVE IndexBounds' /\ ViewsInv'
  BY <1>1 DEF BeginPush, consumerVars
<1>2. ASSUME NEW p \in Producers, LoadWrite(p) PROVE IndexBounds' /\ ViewsInv'
  BY <1>2 DEF LoadWrite, ringVars, consumerVars
<1>3. ASSUME NEW p \in Producers, LoadRead(p) PROVE IndexBounds' /\ ViewsInv'
  BY <1>3 DEF LoadRead, ringVars, consumerVars, is_full
<1>4. ASSUME NEW p \in Producers, WriteHead(p) PROVE IndexBounds' /\ ViewsInv'
  BY <1>4 DEF WriteHead, consumerVars
<1>5. ASSUME NEW p \in Producers, WriteData(p) PROVE IndexBounds' /\ ViewsInv'
  BY <1>5 DEF WriteData, consumerVars
<1>6. ASSUME NEW p \in Producers, CasWins(p) PROVE IndexBounds' /\ ViewsInv'
  BY <1>6 DEF CasWins, consumerVars
<1>7. ASSUME NEW p \in Producers, CasLoses(p) PROVE IndexBounds' /\ ViewsInv'
  BY <1>7 DEF CasLoses, ringVars, consumerVars
<1>8. CASE PopLoad
  BY <1>8 DEF PopLoad, ringVars, producerVars
<1>9. CASE CopyHead
  BY <1>9 DEF CopyHead, ringVars, producerVars
<1>10. CASE CopyData
  BY <1>10 DEF CopyData, ringVars, producerVars
<1>11. CASE PopStore
  BY <1>11 DEF PopStore, producerVars
<1>12. CASE UNCHANGED vars
  BY <1>12 DEF vars, ringVars, producerVars, consumerVars
<1> QED
  BY <1>1, <1>2, <1>3, <1>4, <1>5, <1>6, <1>7, <1>8, <1>9, <1>10, <1>11, <1>12
     DEF Next, Push, Pop, PopEmpty

(* However many receiver threads push into it, the ring never holds more   *)
(* than its capacity and its size never underflows.                        *)
THEOREM NeverOverfull == Spec => []IndexBounds
<1>1. BoundsInv => IndexBounds
  BY DEF BoundsInv
<1> QED
  BY InitBounds, NextBounds, <1>1, PTL DEF Spec

(* However many receiver threads push, none retries in vain: a full test   *)
(* made with an old write_idx finds the ring full only if it is, and an    *)
(* exchange fails only if another one has succeeded meanwhile.             *)
THEOREM NoVainRetry == Spec => RetriesForced
<1>1. ASSUME BoundsInv, NEW p \in Producers
      PROVE  /\ LoadRead(p) /\ ppc'[p] = "load_write" => write_idx - read_idx = Size
             /\ CasLoses(p) => current_write[p] < write_idx
  <2>1. /\ write_idx \in Nat /\ read_idx \in Nat /\ current_write[p] \in Nat
        /\ current_write[p] <= write_idx /\ write_idx - read_idx <= Size
    BY <1>1 DEF BoundsInv, TypeOK, IndexBounds, ViewsInv
  <2>2. LoadRead(p) /\ ppc'[p] = "load_write" => is_full(read_idx, current_write[p])
    BY <1>1 DEF LoadRead, BoundsInv, TypeOK
  <2> QED
    BY <2>1, <2>2, SizeAssumption DEF is_full, CasLoses
<1>2. BoundsInv =>
        \A p \in Producers : /\ LoadRead(p) /\ ppc'[p] = "load_write" => write_idx - read_idx = Size
                             /\ CasLoses(p) => current_write[p] < write_idx
  BY <1>1
<1> QED
  BY InitBounds, NextBounds, <1>2, PTL DEF Spec, RetriesForced

---------------------------------------------------------------------------
\* In an empty ring nothing is out of order.
LEMMA InitOrder == Init => OrderInv
BY InitBounds, SizeAssumption
   DEF Init, OrderInv, HistoryInv, UnreadIntact, FillInv, CopyInv, PoppedInOrder,
       InSlot

\* A write to the slot at write_idx, while there is room, leaves every
\* published and unread slot alone.
LEMMA FillsFreeSlot ==
    ASSUME OrderInv, write_idx - read_idx < Size,
           NEW i \in read_idx .. write_idx - 1
    PROVE  get_index(i) # get_index(write_idx)
<1> /\ i \in Nat /\ write_idx \in Nat /\ read_idx \in Nat
    /\ i < write_idx /\ write_idx - i < Size
  BY SizeAssumption DEF OrderInv, BoundsInv, TypeOK
<1> QED
  BY DistinctSlots

\* With one producer at most one holds a position.
LEMMA SingleIsOne == SingleProducer => OneHolder
BY DEF SingleProducer, OneHolder

\* While one producer at a time holds a position no step disturbs an unread slot.
LEMMA NextOrder == OneHolder /\ OrderInv /\ [Next]_vars => OrderInv'
<1> SUFFICES ASSUME OneHolder, OrderInv, [Next]_vars PROVE OrderInv'
  OBVIOUS
<1>t. BoundsInv /\ BoundsInv'
  BY NextBounds DEF OrderInv
<1>u. TypeOK /\ TypeOK' /\ IndexBounds /\ ViewsInv
  BY <1>t DEF BoundsInv
<1> DEFINE Rest == HistoryInv /\ UnreadIntact /\ FillInv /\ CopyInv /\ PoppedInOrder
<1>r. Rest
  BY DEF OrderInv
<1> SUFFICES Rest'
  BY <1>t DEF OrderInv
<1> USE <1>u, <1>r DEF TypeOK, IndexBounds, HistoryInv, UnreadIntact, FillInv,
        CopyInv, PoppedInOrder, InSlot, MessageOf
<1>1. ASSUME NEW p \in Producers, BeginPush(p) PROVE Rest'
  BY <1>1 DEF BeginPush, consumerVars
<1>2. ASSUME NEW p \in Producers, LoadWrite(p) PROVE Rest'
  BY <1>2 DEF LoadWrite, ringVars, consumerVars
<1>3. ASSUME NEW p \in Producers, LoadRead(p) PROVE Rest'
  BY <1>3 DEF LoadRead, ringVars, consumerVars
<1>4. ASSUME NEW p \in Producers, WriteHead(p) PROVE Rest'
  <2>1. current_write[p] = write_idx /\ write_idx - read_idx < Size
    BY <1>4, SizeAssumption DEF WriteHead, ViewsInv
  <2>2. \A i \in read_idx .. write_idx - 1 :
            slots'[get_index(i)] = slots[get_index(i)]
    BY <1>4, <2>1, FillsFreeSlot, IndexInRange DEF WriteHead
  <2>3. UnreadIntact'
    BY <1>4, <2>2 DEF WriteHead
  <2>4. FillInv'
    <3>1. slots'[get_index(write_idx)].head = MessageOf(p)
      BY <1>4, <2>1, IndexInRange DEF WriteHead, SlotType
    <3> QED
      BY <1>4, <2>1, <3>1 DEF WriteHead, OneHolder, HoldsPosition
  <2> QED
    BY <1>4, <2>3, <2>4 DEF WriteHead, consumerVars
<1>5. ASSUME NEW p \in Producers, WriteData(p) PROVE Rest'
  <2>1. current_write[p] = write_idx /\ write_idx - read_idx < Size
    BY <1>5, SizeAssumption DEF WriteData, ViewsInv
  <2>2. \A i \in read_idx .. write_idx - 1 :
            slots'[get_index(i)] = slots[get_index(i)]
    BY <1>5, <2>1, FillsFreeSlot, IndexInRange DEF WriteData
  <2>3. UnreadIntact'
    BY <1>5, <2>2 DEF WriteData
  <2>4. FillInv'
    <3>1. /\ slots'[get_index(write_idx)].data = MessageOf(p)
          /\ slots'[get_index(write_idx)].head = slots[get_index(write_idx)].head
      BY <1>5, <2>1, IndexInRange DEF WriteData, SlotType
    <3> QED
      BY <1>5, <2>1, <3>1 DEF WriteData, OneHolder, HoldsPosition
  <2> QED
    BY <1>5, <2>3, <2>4 DEF WriteData, consumerVars
<1>6. ASSUME NEW p \in Producers, CasWins(p) PROVE Rest'
  <2>1. slots[get_index(write_idx)] = Whole(MessageOf(p))
    BY <1>6, IndexInRange DEF CasWins, SlotType, Whole
  <2>2. /\ published' = Append(published, MessageOf(p))
        /\ Len(published') = write_idx + 1
        /\ published'[write_idx + 1] = MessageOf(p)
        /\ \A i \in 1 .. write_idx : published'[i] = published[i]
    BY <1>6, MessageType DEF CasWins
  <2>c. /\ slots' = slots /\ read_idx' = read_idx /\ popped' = popped
        /\ write_idx' = write_idx + 1
        /\ read_idx' .. write_idx' - 1 = read_idx .. write_idx
    BY <1>6 DEF CasWins
  <2>3. UnreadIntact'
    <3> SUFFICES ASSUME NEW i \in read_idx .. write_idx
                 PROVE  slots[get_index(i)] = Whole(published'[i + 1])
      BY <2>c
    <3>1. CASE i = write_idx
      BY <3>1, <2>1, <2>2
    <3>2. CASE i \in read_idx .. write_idx - 1
      BY <3>2, <2>2
    <3> QED
      BY <3>1, <3>2
  <2>4. FillInv'
    BY <1>6 DEF CasWins, OneHolder, HoldsPosition
  <2>5. CopyInv'
    BY <1>6, <2>2 DEF CasWins, consumerVars, ViewsInv
  <2>6. PoppedInOrder'
    BY <2>2, <2>c
  <2> QED
    BY <2>2, <2>3, <2>4, <2>5, <2>6, <2>c
<1>7. ASSUME NEW p \in Producers, CasLoses(p) PROVE Rest'
  BY <1>7 DEF CasLoses
<1>8. CASE PopLoad
  BY <1>8 DEF PopLoad, ringVars, producerVars
<1>9. CASE CopyHead
  <2>1. slots[get_index(read_idx)] = Whole(published[read_idx + 1])
    BY <1>9 DEF CopyHead, ViewsInv
  <2>2. CopyInv'
    BY <1>9, <2>1 DEF CopyHead, ringVars, SlotType, Whole
  <2> QED
    BY <1>9, <2>2 DEF CopyHead, ringVars, producerVars
<1>10. CASE CopyData
  <2>1. slots[get_index(read_idx)] = Whole(published[read_idx + 1])
    BY <1>10 DEF CopyData, ViewsInv
  <2>2. CopyInv'
    BY <1>10, <2>1 DEF CopyData, ringVars, SlotType, Whole
  <2> QED
    BY <1>10, <2>2 DEF CopyData, ringVars, producerVars
<1>11. CASE PopStore
  <2>1. slot = Whole(published[read_idx + 1])
    BY <1>11 DEF PopStore, SlotType, Whole
  <2>2. PoppedInOrder'
    BY <1>11, <2>1 DEF PopStore, ViewsInv
  <2> QED
    BY <1>11, <2>2 DEF PopStore, producerVars
<1>12. CASE UNCHANGED vars
  BY <1>12 DEF vars, ringVars, producerVars, consumerVars
<1> QED
  BY <1>1, <1>2, <1>3, <1>4, <1>5, <1>6, <1>7, <1>8, <1>9, <1>10, <1>11, <1>12
     DEF Next, Push, Pop, PopEmpty

(* Receiver threads that share the ring lose nothing as long as their      *)
(* pushes take turns: the dispatcher gets every message, whole, once and   *)
(* in the order of the exchanges, up to any point before which no two      *)
(* producers held a position at once.                                      *)
THEOREM TurnsInOrder == Spec /\ []OneHolder => []PoppedInOrder
<1>1. OrderInv => PoppedInOrder
  BY DEF OrderInv
<1> QED
  BY InitOrder, NextOrder, <1>1, PTL DEF Spec

(* ... and nothing a producer does inside push touches an unread message.  *)
THEOREM TurnsIntact == Spec /\ []OneHolder => []UnreadIntact
<1>1. OrderInv => UnreadIntact
  BY DEF OrderInv
<1> QED
  BY InitOrder, NextOrder, <1>1, PTL DEF Spec

(* An exchange on write_idx that fails is the mark of two pushes that      *)
(* overlapped: producers that take turns never go round the loop for it.   *)
THEOREM TurnsAlwaysWin ==
    Spec /\ []OneHolder => [][\A p \in Producers : ~CasLoses(p)]_vars
<1>1. OrderInv => \A p \in Producers : ~CasLoses(p)
  BY DEF OrderInv, FillInv, InSlot, CasLoses
<1> QED
  BY InitOrder, NextOrder, <1>1, PTL DEF Spec

(* With one receiver thread the dispatcher gets every message, whole, once *)
(* and in the order of the pushes, whatever the capacity and the timing.   *)
THEOREM SingleProducerInOrder ==
    ASSUME SingleProducer PROVE Spec => []PoppedInOrder
BY SingleIsOne, TurnsInOrder, PTL

(* ... and no unread message is touched either.                            *)
THEOREM SingleProducerIntact ==
    ASSUME SingleProducer PROVE Spec => []UnreadIntact
BY SingleIsOne, TurnsIntact, PTL

---------------------------------------------------------------------------
\* Nothing is claimed or popped yet.
LEMMA InitPushed == Init => PushedInv
BY InitBounds DEF Init, PushedInv, FilledInv, OnlyPushed

\* The message of a producer inside push has a number above 0.
LEMMA OwnIsPushed ==
    ASSUME PushedInv, NEW p \in Producers, ppc[p] # "out"
    PROVE  IsPushed(MessageOf(p))
BY DEF PushedInv, FilledInv, IsPushed, MessageOf

\* Storing a pushed message into a slot takes no slot back to zero.
LEMMA StoreKeepsFilled ==
    ASSUME TypeOK, NEW p \in Producers, NEW j \in Nat, IsPushed(MessageOf(p)),
           \/ slots' = [slots EXCEPT ![get_index(j)].head = MessageOf(p)]
           \/ slots' = [slots EXCEPT ![get_index(j)].data = MessageOf(p)]
    PROVE  \A i \in Indices :
              /\ IsPushed(slots[i].head) => IsPushed(slots'[i].head)
              /\ IsPushed(slots[i].data) => IsPushed(slots'[i].data)
<1> SUFFICES ASSUME NEW i \in Indices
             PROVE  /\ slots'[i].head \in {slots[i].head, MessageOf(p)}
                    /\ slots'[i].data \in {slots[i].data, MessageOf(p)}
  OBVIOUS
<1>1. slots[i] \in SlotType /\ slots \in [Indices -> SlotType]
  BY DEF TypeOK
<1> QED
  BY <1>1 DEF SlotType

\* However producers interleave, no step publishes or pops an unfilled slot.
LEMMA NextPushed == PushedInv /\ [Next]_vars => PushedInv'
<1> SUFFICES ASSUME PushedInv, [Next]_vars PROVE PushedInv'
  OBVIOUS
<1>t. BoundsInv /\ BoundsInv' /\ FilledInv /\ OnlyPushed
  BY NextBounds DEF PushedInv
<1>u. TypeOK /\ TypeOK' /\ ViewsInv
  BY <1>t DEF BoundsInv
<1> SUFFICES FilledInv' /\ OnlyPushed'
  BY <1>t DEF PushedInv
<1>v. /\ write_idx \in Nat /\ read_idx \in Nat
      /\ \A p \in Producers : current_write[p] \in Nat
  BY <1>u DEF TypeOK
<1>f. \A i \in 0 .. write_idx - 1 :
          IsPushed(slots[get_index(i)].head) /\ IsPushed(slots[get_index(i)].data)
  BY <1>t DEF FilledInv
<1>1. ASSUME NEW p \in Producers, BeginPush(p) PROVE FilledInv' /\ OnlyPushed'
  BY <1>1, <1>t, <1>u DEF BeginPush, consumerVars, FilledInv, OnlyPushed, TypeOK, IsPushed
<1>2. ASSUME NEW p \in Producers, LoadWrite(p) PROVE FilledInv' /\ OnlyPushed'
  BY <1>2, <1>t, <1>u DEF LoadWrite, ringVars, consumerVars, FilledInv, OnlyPushed, TypeOK
<1>3. ASSUME NEW p \in Producers, LoadRead(p) PROVE FilledInv' /\ OnlyPushed'
  BY <1>3, <1>t, <1>u DEF LoadRead, ringVars, consumerVars, FilledInv, OnlyPushed, TypeOK
<1>4. ASSUME NEW p \in Producers, WriteHead(p) PROVE FilledInv' /\ OnlyPushed'
  <2>1. \A i \in Indices : /\ IsPushed(slots[i].head) => IsPushed(slots'[i].head)
                           /\ IsPushed(slots[i].data) => IsPushed(slots'[i].data)
    BY <1>4, <1>u, <1>v, OwnIsPushed, StoreKeepsFilled DEF WriteHead
  <2>2. IsPushed(slots'[get_index(current_write[p])].head)
    BY <1>4, <1>u, <1>v, OwnIsPushed, IndexInRange DEF WriteHead, TypeOK, SlotType
  <2>3. /\ UNCHANGED <<write_idx, current_write, count, cpc, slot, popped>>
        /\ ppc[p] = "write_head" /\ ppc'[p] = "write_data"
        /\ \A q \in Producers \ {p} : ppc'[q] = ppc[q]
    BY <1>4, <1>u DEF WriteHead, consumerVars, TypeOK
  <2>4. \A i \in 0 .. write_idx - 1 : get_index(i) \in Indices
    BY <1>v, IndexInRange
  <2>5. \A q \in Producers : get_index(current_write[q]) \in Indices
    BY <1>v, IndexInRange
  <2> QED
    BY <1>t, <2>1, <2>2, <2>3, <2>4, <2>5 DEF FilledInv, OnlyPushed
<1>5. ASSUME NEW p \in Producers, WriteData(p) PROVE FilledInv' /\ OnlyPushed'
  <2>1. \A i \in Indices : /\ IsPushed(slots[i].head) => IsPushed(slots'[i].head)
                           /\ IsPushed(slots[i].data) => IsPushed(slots'[i].data)
    BY <1>5, <1>u, <1>v, OwnIsPushed, StoreKeepsFilled DEF WriteData
  <2>2. IsPushed(slots'[get_index(current_write[p])].data)
    BY <1>5, <1>u, <1>v, OwnIsPushed, IndexInRange DEF WriteData, TypeOK, SlotType
  <2>3. /\ UNCHANGED <<write_idx, current_write, count, cpc, slot, popped>>
        /\ ppc[p] = "write_data" /\ ppc'[p] = "cas"
        /\ \A q \in Producers \ {p} : ppc'[q] = ppc[q]
    BY <1>5, <1>u DEF WriteData, consumerVars, TypeOK
  <2>4. \A i \in 0 .. write_idx - 1 : get_index(i) \in Indices
    BY <1>v, IndexInRange
  <2>5. \A q \in Producers : get_index(current_write[q]) \in Indices
    BY <1>v, IndexInRange
  <2> QED
    BY <1>t, <2>1, <2>2, <2>3, <2>4, <2>5 DEF FilledInv, OnlyPushed
<1>6. ASSUME NEW p \in Producers, CasWins(p) PROVE FilledInv' /\ OnlyPushed'
  <2>1. IsPushed(slots[get_index(write_idx)].head) /\ IsPushed(slots[get_index(write_idx)].data)
    BY <1>6, <1>t DEF CasWins, FilledInv
  <2>2. \A i \in 0 .. write_idx' - 1 : i = write_idx \/ i \in 0 .. write_idx - 1
    BY <1>6, <1>v DEF CasWins
  <2>3. \A i \in 0 .. write_idx' - 1 :
            IsPushed(slots[get_index(i)].head) /\ IsPushed(slots[get_index(i)].data)
    BY <2>1, <2>2, <1>f
  <2> QED
    BY <1>6, <1>t, <1>u, <2>3 DEF CasWins, consumerVars, FilledInv, OnlyPushed, TypeOK
<1>7. ASSUME NEW p \in Producers, CasLoses(p) PROVE FilledInv' /\ OnlyPushed'
  BY <1>7, <1>t, <1>u DEF CasLoses, ringVars, consumerVars, FilledInv, OnlyPushed, TypeOK
<1>8. CASE PopLoad
  BY <1>8, <1>t DEF PopLoad, ringVars, producerVars, FilledInv, OnlyPushed
<1>r. cpc # "out" => IsPushed(slots[get_index(read_idx)].head)
                     /\ IsPushed(slots[get_index(read_idx)].data)
  BY <1>f, <1>u, <1>v DEF ViewsInv
<1>9. CASE CopyHead
  BY <1>9, <1>t, <1>u, <1>r DEF CopyHead, ringVars, producerVars, FilledInv, OnlyPushed, TypeOK, SlotType
<1>10. CASE CopyData
  BY <1>10, <1>t, <1>u, <1>r DEF CopyData, ringVars, producerVars, FilledInv, OnlyPushed, TypeOK, SlotType
<1>11. CASE PopStore
  BY <1>11, <1>t, <1>u DEF PopStore, producerVars, FilledInv, OnlyPushed, TypeOK, IsPushed
<1>12. CASE UNCHANGED vars
  BY <1>12, <1>t DEF vars, ringVars, producerVars, consumerVars, FilledInv, OnlyPushed
<1> QED
  BY <1>1, <1>2, <1>3, <1>4, <1>5, <1>6, <1>7, <1>8, <1>9, <1>10, <1>11, <1>12
     DEF Next, Push, Pop, PopEmpty

(* However many receiver threads push, and however they overwrite each     *)
(* other's slots, the dispatcher gets no word nobody pushed: the exchange  *)
(* that claims a position comes after the stores that fill it.             *)
THEOREM NothingUnpushed == Spec => []OnlyPushed
<1>1. PushedInv => OnlyPushed
  BY DEF PushedInv
<1> QED
  BY InitPushed, NextPushed, <1>1, PTL DEF Spec

---------------------------------------------------------------------------
\* A producer's count never goes back.
LEMMA NextCount ==
    ASSUME TypeOK, [Next]_vars
    PROVE  \A p \in Producers : count'[p] \in Nat /\ count[p] \in Nat /\ count[p] <= count'[p]
<1>1. ASSUME NEW p \in Producers, BeginPush(p)
      PROVE  count' = [count EXCEPT ![p] = @ + 1]
  BY <1>1 DEF BeginPush
<1>2. (\E p \in Producers : BeginPush(p)) \/ UNCHANGED count
  BY DEF Next, Push, Pop, LoadWrite, LoadRead, WriteHead, WriteData, CasWins, CasLoses, PopLoad,
         CopyHead, CopyData, PopStore, PopEmpty, vars, producerVars
<1> QED
  BY <1>1, <1>2, MaxPushAssumption DEF TypeOK

\* Nothing was begun, and every word is the zeroed one.
LEMMA InitBegun == Init => BegunInv
<1>1. Zeroed[2] = 0 /\ Zeroed[1] \in Producers
  BY ZeroedType, ZeroedIsZero DEF Message
<1> QED
  BY <1>1 DEF Init, BegunInv, IsBegun, Whole

\* No step makes up a word.
LEMMA NextBegun == TypeOK /\ BegunInv /\ [Next]_vars => BegunInv'
<1> SUFFICES ASSUME TypeOK, BegunInv, [Next]_vars PROVE BegunInv'
  OBVIOUS
<1>k. ASSUME NEW m \in Message, m[2] <= count[m[1]] PROVE m[2] <= count'[m[1]]
  <2>1. m[1] \in Producers /\ m[2] \in Nat
    BY MaxPushAssumption DEF Message
  <2>2. count'[m[1]] \in Nat /\ count[m[1]] \in Nat /\ count[m[1]] <= count'[m[1]]
    BY <2>1, NextCount
  <2> QED
    BY <1>k, <2>1, <2>2
<1>t. /\ \A i \in Indices : slots[i].head \in Message /\ slots[i].data \in Message
      /\ slot.head \in Message /\ slot.data \in Message
      /\ \A i \in 1 .. Len(popped) : popped[i].head \in Message /\ popped[i].data \in Message
  <2>1. \A s \in SlotType : s.head \in Message /\ s.data \in Message
    BY DEF SlotType
  <2>2. /\ \A i \in Indices : slots[i] \in SlotType
        /\ slot \in SlotType
        /\ \A i \in 1 .. Len(popped) : popped[i] \in SlotType
    BY DEF TypeOK
  <2> QED
    BY <2>1, <2>2
<1>1. CASE UNCHANGED <<slots, slot, popped>>
  BY <1>1, <1>k, <1>t DEF BegunInv, IsBegun
<1>2. ASSUME NEW p \in Producers, WriteHead(p) \/ WriteData(p) PROVE BegunInv'
  <2>1. UNCHANGED <<count, slot, popped>> /\ count[p] \in Nat
    BY <1>2, MaxPushAssumption DEF WriteHead, WriteData, consumerVars, TypeOK
  <2>2. IsBegun(MessageOf(p))
    BY <2>1 DEF IsBegun, MessageOf
  <2>3. \/ slots' = [slots EXCEPT ![get_index(current_write[p])].head = MessageOf(p)]
        \/ slots' = [slots EXCEPT ![get_index(current_write[p])].data = MessageOf(p)]
    BY <1>2 DEF WriteHead, WriteData
  <2>4. \A i \in Indices : /\ slots'[i].head \in {slots[i].head, MessageOf(p)}
                           /\ slots'[i].data \in {slots[i].data, MessageOf(p)}
    <3> SUFFICES ASSUME NEW i \in Indices
                 PROVE  /\ slots'[i].head \in {slots[i].head, MessageOf(p)}
                        /\ slots'[i].data \in {slots[i].data, MessageOf(p)}
      OBVIOUS
    <3>1. slots[i] \in SlotType /\ slots \in [Indices -> SlotType]
      BY DEF TypeOK
    <3> QED
      BY <2>3, <3>1 DEF SlotType
  <2> QED
    BY <2>1, <2>2, <2>4 DEF BegunInv, IsBegun
<1>3. CASE CopyHead \/ CopyData
  <2>1. /\ UNCHANGED <<count, slots, popped>> /\ get_index(read_idx) \in Indices
        /\ slot'.head \in {slot.head, slots[get_index(read_idx)].head}
        /\ slot'.data \in {slot.data, slots[get_index(read_idx)].data}
    BY <1>3, IndexInRange DEF CopyHead, CopyData, ringVars, producerVars, TypeOK, SlotType
  <2> QED
    BY <2>1 DEF BegunInv, IsBegun
<1>4. CASE PopStore
  <2>1. /\ UNCHANGED <<count, slots, slot>>
        /\ \A i \in 1 .. Len(popped') :
              popped'[i] = slot \/ (i \in 1 .. Len(popped) /\ popped'[i] = popped[i])
    BY <1>4 DEF PopStore, producerVars, TypeOK
  <2> QED
    BY <2>1 DEF BegunInv, IsBegun
<1> QED
  BY <1>1, <1>2, <1>3, <1>4
     DEF Next, Push, Pop, BeginPush, LoadWrite, LoadRead, CasWins, CasLoses, PopLoad, PopEmpty,
         vars, ringVars, producerVars, consumerVars

(* However pushes overlap, what a slot holds and what the dispatcher pops  *)
(* is of pushes that began: no number is above its producer's count.      *)
THEOREM OnlyBegun == Spec => []BegunInv
BY InitTypeOK, NextTypeOK, InitBegun, NextBegun, PTL DEF Spec

---------------------------------------------------------------------------
\* An empty history claims nothing.
LEMMA InitClaim == Init => ClaimInv
BY InitTypeOK DEF Init, ClaimInv, HistoryInv, ClaimedOnce, HasReturned, Message

\* A call of push has not returned, and changes nothing for those that have.
LEMMA BeginClaims ==
    ASSUME ClaimInv, TypeOK', NEW p \in Producers, BeginPush(p)
    PROVE  ClaimInv'
<1>1. /\ UNCHANGED <<write_idx, read_idx, published, popped>>
      /\ \A m \in Message : HasReturned(m)' <=> HasReturned(m)
  BY DEF BeginPush, ClaimInv, TypeOK, HasReturned, Message
<1> QED
  BY <1>1 DEF ClaimInv, HistoryInv, ClaimedOnce

\* The exchange that wins is the return of its push.
LEMMA CasWinsClaims ==
    ASSUME ClaimInv, TypeOK', NEW p \in Producers, CasWins(p), count[p] > 0
    PROVE  ClaimInv'
<1> DEFINE n == Len(published)
<1>1. /\ UNCHANGED <<read_idx, popped, count>> /\ n \in Nat /\ write_idx' = write_idx + 1
      /\ published \in Seq(Message) /\ MessageOf(p) \in Message
      /\ Len(published') = n + 1 /\ published'[n + 1] = MessageOf(p)
      /\ \A i \in 1 .. n : published'[i] = published[i]
  BY MessageType DEF CasWins, ClaimInv, TypeOK
<1>2. \A m \in Message : HasReturned(m)' <=> HasReturned(m) \/ m = MessageOf(p)
  BY DEF CasWins, ClaimInv, TypeOK, HasReturned, Message, MessageOf
<1>3. \A i \in 1 .. n : published[i][1] = p => published[i][2] < count[p]
  BY <1>1 DEF CasWins, ClaimInv, ClaimedOnce, HasReturned
<1> HIDE DEF n
<1>4. \A i \in 1 .. n + 1 : i \in 1 .. n \/ i = n + 1
  BY <1>1
<1>5. \A m \in Message : (\E i \in 1 .. n + 1 : published'[i] = m)
                          <=> (\E i \in 1 .. n : published[i] = m) \/ m = MessageOf(p)
  <2>1. n + 1 \in 1 .. n + 1 /\ \A i \in 1 .. n : i \in 1 .. n + 1
    BY <1>1
  <2> QED
    BY <1>1, <1>4, <2>1, Zenon
<1>6. \A m \in Message : HasReturned(m)' <=> \E i \in 1 .. n + 1 : published'[i] = m
  BY <1>2, <1>5 DEF ClaimInv, ClaimedOnce, n
<1>7. ASSUME NEW i \in 1 .. n + 1, NEW j \in 1 .. n + 1, i < j,
             published'[i][1] = published'[j][1]
      PROVE  published'[i][2] < published'[j][2]
  <2>1. i \in 1 .. n
    BY <1>1, <1>7
  <2>2. CASE j = n + 1
    BY <1>1, <1>3, <1>7, <2>1, <2>2 DEF MessageOf
  <2>3. CASE j \in 1 .. n
    BY <1>1, <1>7, <2>1, <2>3 DEF ClaimInv, ClaimedOnce, n
  <2> QED
    BY <1>4, <2>2, <2>3
<1>8. ClaimedOnce'
  BY <1>1, <1>6, <1>7 DEF ClaimedOnce
<1> QED
  BY <1>1, <1>8 DEF ClaimInv, HistoryInv, n

\* No other step of push begins or returns.
LEMMA OthersClaimNothing ==
    ASSUME ClaimInv, TypeOK', UNCHANGED <<write_idx, read_idx, published, popped, count>>,
           \A p \in Producers : ppc'[p] = "out" <=> ppc[p] = "out"
    PROVE  ClaimInv'
<1>1. \A m \in Message : HasReturned(m)' <=> HasReturned(m)
  BY DEF HasReturned, Message
<1> QED
  BY <1>1 DEF ClaimInv, HistoryInv, ClaimedOnce

\* Each step keeps the account of what was claimed and popped.
LEMMA NextClaim == PushedInv /\ ClaimInv /\ [Next]_vars => ClaimInv'
<1> SUFFICES ASSUME PushedInv, ClaimInv, [Next]_vars PROVE ClaimInv'
  OBVIOUS
<1>t. TypeOK /\ TypeOK'
  BY NextTypeOK DEF ClaimInv
<1>1. ASSUME NEW p \in Producers, BeginPush(p) PROVE ClaimInv'
  BY <1>1, <1>t, BeginClaims
<1>2. ASSUME NEW p \in Producers, CasWins(p) PROVE ClaimInv'
  <2>1. count[p] > 0
    BY <1>2 DEF CasWins, PushedInv, FilledInv
  <2> QED
    BY <1>2, <2>1, <1>t, CasWinsClaims
<1>3. CASE PopStore
  BY <1>3, <1>t DEF PopStore, producerVars, ClaimInv, HistoryInv, ClaimedOnce, HasReturned, TypeOK
<1>4. ASSUME NEW p \in Producers,
             LoadWrite(p) \/ LoadRead(p) \/ WriteHead(p) \/ WriteData(p) \/ CasLoses(p)
      PROVE  ClaimInv'
  <2>1. /\ UNCHANGED <<write_idx, read_idx, published, popped, count>>
        /\ \A q \in Producers : ppc'[q] = "out" <=> ppc[q] = "out"
    BY <1>4, <1>t DEF LoadWrite, LoadRead, WriteHead, WriteData, CasLoses, ringVars, TypeOK
  <2> QED
    BY <2>1, <1>t, OthersClaimNothing
<1>5. CASE UNCHANGED <<ringVars, producerVars, published, popped>>
         \/ (UNCHANGED <<write_idx, read_idx, published, popped, producerVars>>)
  BY <1>5, <1>t, OthersClaimNothing DEF ringVars, producerVars
<1> QED
  BY <1>1, <1>2, <1>3, <1>4, <1>5
     DEF Next, Push, Pop, PopLoad, CopyHead, CopyData, PopEmpty, vars, ringVars, producerVars

(* However pushes overlap, the positions claimed on write_idx are those of *)
(* the pushes that returned: one for each, and those of one producer in    *)
(* the order it pushed.  What overlapping spoils is what the slots hold.   *)
THEOREM EachPushClaimsOnce == Spec => [](HistoryInv /\ ClaimedOnce)
<1>1. ClaimInv => HistoryInv /\ ClaimedOnce
  BY DEF ClaimInv
<1> QED
  BY InitPushed, NextPushed, InitClaim, NextClaim, <1>1, PTL DEF Spec

---------------------------------------------------------------------------
(* The refinement: while pushes take turns the ring is FifoQueue's queue.  *)

\* What Fifo's queue stands for, and the same read off the history.
Unread        == [i \in 1 .. write_idx - read_idx |-> slots[get_index(read_idx + i - 1)]]
UnreadHistory == [i \in 1 .. write_idx - read_idx |-> Whole(published[read_idx + i])]

\* The unread slots hold the messages published and not yet popped.
LEMMA UnreadIsHistory == OrderInv => Unread = UnreadHistory
<1> SUFFICES ASSUME OrderInv PROVE Unread = UnreadHistory
  OBVIOUS
<1>1. write_idx \in Nat /\ read_idx \in Nat
  BY DEF OrderInv, BoundsInv, TypeOK
<1>2. ASSUME NEW i \in 1 .. write_idx - read_idx
      PROVE  slots[get_index(read_idx + i - 1)] = Whole(published[read_idx + i])
  <2>1. read_idx + i - 1 \in read_idx .. write_idx - 1 /\ (read_idx + i - 1) + 1 = read_idx + i
    BY <1>1
  <2> QED
    BY <2>1 DEF OrderInv, UnreadIntact
<1> QED
  BY <1>2 DEF Unread, UnreadHistory

\* What is unread is a queue of whole messages.
LEMMA UnreadType ==
    OrderInv => /\ UnreadHistory \in Seq({Whole(m) : m \in Message})
                /\ Len(UnreadHistory) = write_idx - read_idx
<1> SUFFICES ASSUME OrderInv
             PROVE  /\ UnreadHistory \in Seq({Whole(m) : m \in Message})
                    /\ Len(UnreadHistory) = write_idx - read_idx
  OBVIOUS
<1>1. /\ write_idx \in Nat /\ read_idx \in Nat /\ read_idx <= write_idx
      /\ published \in Seq(Message) /\ Len(published) = write_idx
  BY DEF OrderInv, BoundsInv, TypeOK, IndexBounds, HistoryInv
<1>2. \A i \in 1 .. write_idx - read_idx : published[read_idx + i] \in Message
  BY <1>1
<1>3. \A i \in 1 .. write_idx - read_idx :
          Whole(published[read_idx + i]) \in {Whole(m) : m \in Message}
  BY <1>2
<1> QED
  BY <1>1, <1>3 DEF UnreadHistory

\* What the two lemmas say, as one state predicate.
UnreadInv ==
    /\ Unread = UnreadHistory
    /\ UnreadHistory \in Seq({Whole(m) : m \in Message})
    /\ Len(UnreadHistory) = write_idx - read_idx

\* In an orderly ring the unread slots are such a queue,
LEMMA UnreadNow == OrderInv => UnreadInv
BY UnreadIsHistory, UnreadType DEF UnreadInv

\* and so they are in the state a step leads to,
LEMMA UnreadThen == OrderInv' => UnreadInv'
BY UnreadNow, PTL

\* word by word.
LEMMA UnreadAfter ==
    OrderInv' => /\ Unread' = UnreadHistory'
                 /\ UnreadHistory' \in Seq({Whole(m) : m \in Message})
                 /\ Len(UnreadHistory') = write_idx' - read_idx'
BY UnreadThen DEF UnreadInv

\* The exchange that publishes a message puts it into the queue.
LEMMA CasWinsPuts ==
    ASSUME OrderInv, OrderInv', NEW p \in Producers, CasWins(p)
    PROVE  Fifo!Put(Whole(MessageOf(p)))
<1>1. /\ write_idx \in Nat /\ read_idx \in Nat /\ read_idx <= write_idx
      /\ published \in Seq(Message) /\ Len(published) = write_idx
      /\ current_write[p] \in Nat /\ current_read[p] \in Nat
  BY DEF OrderInv, BoundsInv, TypeOK, IndexBounds, HistoryInv
<1>2. /\ write_idx' = write_idx + 1 /\ read_idx' = read_idx /\ popped' = popped
      /\ published' = Append(published, MessageOf(p))
  BY DEF CasWins
<1>3. Len(Unread) < Size
  <2>1. current_write[p] - current_read[p] < Size /\ current_read[p] <= read_idx
    BY DEF CasWins, OrderInv, BoundsInv, ViewsInv, InSlot
  <2>2. write_idx - read_idx < Size
    BY <2>1, <1>1, SizeAssumption DEF CasWins
  <2> QED
    BY <2>2, UnreadIsHistory, UnreadType
<1>4. UnreadHistory' = Append(UnreadHistory, Whole(MessageOf(p)))
  <2> DEFINE W == {Whole(m) : m \in Message}
             A == Append(UnreadHistory, Whole(MessageOf(p)))
             n == write_idx - read_idx
  <2>1. /\ UnreadHistory \in Seq(W) /\ Len(UnreadHistory) = n /\ n \in Nat
        /\ UnreadHistory' \in Seq(W) /\ Len(UnreadHistory') = n + 1
    BY <1>1, <1>2, UnreadType, UnreadAfter
  <2>2. Whole(MessageOf(p)) \in W
    BY MessageType DEF OrderInv, BoundsInv
  <2>3. \A i \in 1 .. n : UnreadHistory[i] = Whole(published[read_idx + i])
    BY DEF UnreadHistory
  <2>4. \A i \in 1 .. n + 1 : UnreadHistory'[i] = Whole(published'[read_idx + i])
    <3>1. write_idx' - read_idx' = n + 1
      BY <1>1, <1>2
    <3> QED
      BY <3>1, <1>2 DEF UnreadHistory
  <2> HIDE DEF W, n
  <2>5. A \in Seq(W) /\ Len(A) = n + 1
    BY <2>1, <2>2
  <2>6. \A i \in 1 .. n + 1 : A[i] = IF i = n + 1 THEN Whole(MessageOf(p)) ELSE UnreadHistory[i]
    BY <2>1, <2>2
  <2>7. \A i \in 1 .. n + 1 :
            published'[read_idx + i] = IF i = n + 1 THEN MessageOf(p) ELSE published[read_idx + i]
    BY <1>1, <1>2, MessageType DEF n
  <2>8. \A i \in 1 .. n + 1 : UnreadHistory'[i] = A[i]
    BY <2>1, <2>3, <2>4, <2>6, <2>7
  <2> HIDE DEF A
  <2>9. UnreadHistory' = A
    BY <2>1, <2>5, <2>8, SeqEqual
  <2> QED
    BY <2>9 DEF A
<1>5. Unread' = Append(Unread, Whole(MessageOf(p)))
  <2>1. Unread = UnreadHistory /\ Unread' = UnreadHistory'
    BY UnreadIsHistory, UnreadAfter
  <2> QED
    BY <2>1, <1>4
<1> QED
  BY <1>2, <1>3, <1>5 DEF Fifo!Put, Unread

\* The store to read_idx takes the first unread message.
LEMMA PopStoreTakes ==
    ASSUME OrderInv, OrderInv', PopStore
    PROVE  Fifo!Take
<1> DEFINE W == {Whole(m) : m \in Message}
           n == write_idx - read_idx
<1>1. /\ write_idx \in Nat /\ read_idx \in Nat /\ read_idx < write_idx
      /\ write_idx' = write_idx /\ read_idx' = read_idx + 1 /\ published' = published
      /\ popped' = Append(popped, slot)
  BY DEF PopStore, OrderInv, BoundsInv, TypeOK, ViewsInv
<1>2. slot = Whole(published[read_idx + 1])
  BY DEF PopStore, OrderInv, BoundsInv, TypeOK, CopyInv, SlotType, Whole
<1>3. /\ UnreadHistory \in Seq(W) /\ Len(UnreadHistory) = n /\ n \in Nat /\ n > 0
      /\ UnreadHistory' \in Seq(W) /\ Len(UnreadHistory') = n - 1
  BY <1>1, UnreadType, UnreadAfter
<1>4. /\ \A i \in 1 .. n : UnreadHistory[i] = Whole(published[read_idx + i])
      /\ \A i \in 1 .. n - 1 : UnreadHistory'[i] = Whole(published[read_idx + 1 + i])
  <2>1. write_idx' - read_idx' = n - 1
    BY <1>1
  <2> QED
    BY <2>1, <1>1 DEF UnreadHistory
<1> HIDE DEF W, n
<1>5. /\ UnreadHistory # <<>> /\ Head(UnreadHistory) = slot
      /\ Tail(UnreadHistory) \in Seq(W) /\ Len(Tail(UnreadHistory)) = n - 1
      /\ \A i \in 1 .. n - 1 : Tail(UnreadHistory)[i] = UnreadHistory[i + 1]
  BY <1>2, <1>3, <1>4
<1>6. \A i \in 1 .. n - 1 : UnreadHistory'[i] = Tail(UnreadHistory)[i]
  <2>1. \A i \in 1 .. n - 1 : i + 1 \in 1 .. n /\ read_idx + (i + 1) = read_idx + 1 + i
    BY <1>1, <1>3
  <2> QED
    BY <2>1, <1>4, <1>5
<1>7. UnreadHistory' = Tail(UnreadHistory)
  BY <1>3, <1>5, <1>6, SeqEqual
<1>8. Unread = UnreadHistory /\ Unread' = UnreadHistory'
  BY UnreadIsHistory, UnreadAfter
<1>9. Unread # <<>> /\ Unread' = Tail(Unread) /\ popped' = Append(popped, Head(Unread))
  BY <1>1, <1>5, <1>7, <1>8
<1> QED
  BY <1>9 DEF Fifo!Take, Unread

\* Every other step leaves the queue as it is, whatever it writes to slots.
LEMMA OthersStutter ==
    ASSUME OrderInv, OrderInv', UNCHANGED <<write_idx, read_idx, published, popped>>
    PROVE  Unread' = Unread /\ popped' = popped
<1>1. UnreadHistory' = UnreadHistory
  BY DEF UnreadHistory
<1> QED
  BY <1>1, UnreadIsHistory, UnreadAfter

(* While pushes take turns the ring implements the abstract queue: each    *)
(* exchange on write_idx is a Put into a queue with room, each store to    *)
(* read_idx a Take of its head, and no other step of push or try_pop shows.*)
THEOREM TurnsImplementFifo == Spec /\ []OneHolder => ImplementsFifo
<1>1. Init => Fifo!Init
  <2> SUFFICES ASSUME Init PROVE Fifo!Init
    OBVIOUS
  <2>1. Len(UnreadHistory) = 0 /\ UnreadHistory \in Seq({Whole(m) : m \in Message})
    BY InitOrder, UnreadType DEF Init
  <2>2. Unread = <<>>
    BY <2>1, InitOrder, UnreadIsHistory
  <2> QED
    BY <2>2 DEF Init, Fifo!Init, Unread
<1>2. OrderInv /\ OrderInv' /\ [Next]_vars => [Fifo!Next]_<<Unread, popped>>
  <2> SUFFICES ASSUME OrderInv, OrderInv', [Next]_vars
               PROVE  Fifo!Next \/ UNCHANGED <<Unread, popped>>
    OBVIOUS
  <2>1. ASSUME NEW p \in Producers, CasWins(p) PROVE Fifo!Next
    <3>1. Fifo!Put(Whole(MessageOf(p))) /\ MessageOf(p) \in Message
      BY <2>1, CasWinsPuts, MessageType DEF OrderInv, BoundsInv
    <3> QED
      BY <3>1 DEF Fifo!Next
  <2>2. CASE PopStore
    BY <2>2, PopStoreTakes DEF Fifo!Next
  <2>3. CASE UNCHANGED <<write_idx, read_idx, published, popped>>
    BY <2>3, OthersStutter
  <2>4. \/ \E p \in Producers : CasWins(p)
        \/ PopStore
        \/ UNCHANGED <<write_idx, read_idx, published, popped>>
    BY DEF Next, Push, Pop, BeginPush, LoadWrite, LoadRead, WriteHead, WriteData, CasLoses,
           PopLoad, CopyHead, CopyData, PopEmpty, vars, ringVars, producerVars, consumerVars
  <2> QED
    BY <2>1, <2>2, <2>3, <2>4
<1> QED
  BY <1>1, <1>2, NextOrder, InitOrder, PTL DEF Spec, ImplementsFifo, Fifo!Spec, Unread

(* With one receiver thread they always do.                                *)
THEOREM SingleProducerImplementsFifo ==
    ASSUME SingleProducer PROVE Spec => ImplementsFifo
BY SingleIsOne, TurnsImplementFifo, PTL
=============================================================================

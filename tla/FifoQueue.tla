----------------------------- MODULE FifoQueue -----------------------------
(***************************************************************************)
(* What a plugin relies on its ring buffer for: a bounded FIFO from which  *)
(* the dispatcher takes each message once, in the order they were accepted.*)
(***************************************************************************)
EXTENDS Integers, Sequences

CONSTANTS
    Message,      \* the messages that may be queued
    Capacity      \* how many the queue holds

VARIABLES
    queue,        \* accepted, not yet taken
    taken         \* all that was taken, in order

Init == queue = <<>> /\ taken = <<>>

Put(m) ==
    /\ Len(queue) < Capacity
    /\ queue' = Append(queue, m)
    /\ UNCHANGED taken

Take ==
    /\ queue # <<>>
    /\ taken' = Append(taken, Head(queue))
    /\ queue' = Tail(queue)

Next == Take \/ \E m \in Message : Put(m)

Spec == Init /\ [][Next]_<<queue, taken>>
=============================================================================

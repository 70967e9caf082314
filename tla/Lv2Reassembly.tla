--------------------------- MODULE Lv2Reassembly ---------------------------
(***************************************************************************)
(* Lv2Handler of src/dz_gfex_md: level 2 messages are cut out of captured  *)
(* TCP segments.  The capture is a mirror: nothing retransmits, a segment  *)
(* may be missed, and some ports deliver each segment twice.  A message    *)
(* that a segment ends in is kept in g_extern_msg_buffer and completed     *)
(* from the head of the next one.                                          *)
(*                                                                         *)
(* The stream is a fixed sequence of messages; a byte is its position in   *)
(* it.  Segments of other connections are filtered out before (the address *)
(* tests) and do not appear.  Lengths are scaled down; the loop's bound of *)
(* 6 bytes, which is the length of a type a message, is not.               *)
(***************************************************************************)
EXTENDS Integers, Sequences

CONSTANTS
    Lens,         \* lengths of the messages of the stream
    Lookalikes,   \* positions inside a message that read like a header
    FakeLen,      \* the length read there
    Sizes,        \* segment sizes
    MaxLost, MaxDuplicates   \* bounds: segments missed, segments seen twice

N     == Len(Lens)
Start[k \in 1 .. N + 1] == IF k = 1 THEN 0 ELSE Start[k - 1] + Lens[k - 1]
Starts == {Start[k] : k \in 1 .. N}
Total  == Start[N + 1]
MinLeft == 6      \* while (data_len > 6)

ASSUME LensAssumption ==
    /\ Lens \in Seq(Nat) /\ N > 0
    /\ \A k \in 1 .. N : Lens[k] = MinLeft \/ Lens[k] > MinLeft + 1
ASSUME EnvAssumption ==
    /\ Lookalikes \subseteq (0 .. Total) \ Starts
    /\ FakeLen \in Nat /\ FakeLen > MinLeft + 1
    /\ Sizes \subseteq Nat \ {0}
    /\ MaxLost \in Nat /\ MaxDuplicates \in Nat

VARIABLES
    sent,         \* position up to which the connection carried the stream
    seg,          \* the segment in the handler, or handled last
    at,           \* dataptr
    msg_len,      \* GetCurReadMsgLength at the head of the segment
    half, miss,   \* g_half_size, g_miss_size
    from,         \* where the bytes in g_extern_msg_buffer come from
    pc,           \* "idle", "loop", or "undefined" after an overrun
    got,          \* messages given to OnData_lv2, 0 for bytes of no message
    before,       \* history: Len(got) when the segment arrived
    clean,        \* history: every segment was seen once, cut as in CleanCut
    lost, duplicated   \* number of segments missed, seen twice

vars == <<sent, seg, at, msg_len, half, miss, from, pc, got, before, clean, lost, duplicated>>

Init ==
    /\ sent = 0
    /\ seg = [a |-> 0, b |-> 0]
    /\ at = 0
    /\ msg_len = 0
    /\ half = 0 /\ miss = 0 /\ from = 0
    /\ pc = "idle"
    /\ got = <<>>
    /\ before = 0
    /\ clean = TRUE
    /\ lost = 0 /\ duplicated = 0

---------------------------------------------------------------------------
Left == seg.b - at

\* What GetCurReadMsgLength finds at a position: 0 for no known header.
HeaderLen(p) ==
    IF p \in Starts THEN Lens[CHOOSE k \in 1 .. N : Start[k] = p]
    ELSE IF p \in Lookalikes THEN FakeLen ELSE 0

\* It reads 8 bytes: of the 8th, past the end, anything may come.
GetCurReadMsgLength(p, left) ==
    IF left > MinLeft + 1 THEN {HeaderLen(p)} ELSE {HeaderLen(p), 0}

\* The message that len bytes from p are, 0 if they are none.
MessageAt(p, len) ==
    IF \E k \in 1 .. N : Start[k] = p /\ Lens[k] = len
    THEN CHOOSE k \in 1 .. N : Start[k] = p ELSE 0

\* The segment [a, b) cuts a message at most once, with enough of it on either
\* side, and not where the rest reads like a header.
CleanCut(a, b) ==
    /\ b \notin Lookalikes
    /\ \A k \in 1 .. N :
          Start[k] < b /\ b < Start[k + 1] =>
              /\ b - Start[k] > MinLeft + 1 /\ Start[k + 1] - b > MinLeft
              /\ a <= Start[k]

---------------------------------------------------------------------------
(* The capture.                                                            *)
Arrive(s) ==
    /\ seg' = s
    /\ at' = s.a
    /\ msg_len' \in GetCurReadMsgLength(s.a, s.b - s.a)
    /\ pc' = "loop"
    /\ before' = Len(got)

Segment(n) ==
    /\ pc = "idle"
    /\ sent + n <= Total
    /\ Arrive([a |-> sent, b |-> sent + n])
    /\ sent' = sent + n
    /\ clean' = (clean /\ CleanCut(sent, sent + n))
    /\ UNCHANGED <<half, miss, from, got, lost, duplicated>>

Duplicate ==
    /\ pc = "idle" /\ seg.b > seg.a
    /\ duplicated < MaxDuplicates
    /\ Arrive(seg)
    /\ duplicated' = duplicated + 1
    /\ clean' = FALSE
    /\ UNCHANGED <<sent, half, miss, from, got, lost>>

Lose(n) ==
    /\ pc = "idle"
    /\ sent + n <= Total
    /\ lost < MaxLost
    /\ sent' = sent + n
    /\ lost' = lost + 1
    /\ clean' = FALSE
    /\ UNCHANGED <<seg, at, msg_len, half, miss, from, pc, got, before, duplicated>>

---------------------------------------------------------------------------
(* The loop: one action per branch of an iteration.                        *)

\* Mutant: the loop goes on to the last byte but one message too early.
EndOfSegment_Early ==
    /\ pc = "loop" /\ Left <= MinLeft + 3
    /\ pc' = "idle"
    /\ UNCHANGED <<sent, seg, at, msg_len, half, miss, from, got, before, clean, lost, duplicated>>

EndOfSegment ==
    /\ pc = "loop" /\ Left <= MinLeft
    /\ pc' = "idle"
    /\ UNCHANGED <<sent, seg, at, msg_len, half, miss, from, got, before, clean, lost, duplicated>>

DeliverWhole ==
    /\ pc = "loop" /\ Left > MinLeft /\ half = 0
    /\ \E h \in GetCurReadMsgLength(at, Left) :
          /\ h > 0 /\ h <= Left
          /\ got' = Append(got, MessageAt(at, h))
          /\ at' = at + h
    /\ UNCHANGED <<sent, seg, msg_len, half, miss, from, pc, before, clean, lost, duplicated>>

\* Mutant: one byte too few is asked of the next segment.
StashHalf_Short ==
    /\ pc = "loop" /\ Left > MinLeft /\ half = 0
    /\ \E h \in GetCurReadMsgLength(at, Left) :
          /\ h > Left
          /\ half' = Left /\ miss' = h - Left - 1 /\ from' = at
    /\ pc' = "idle"
    /\ UNCHANGED <<sent, seg, at, msg_len, got, before, clean, lost, duplicated>>

\* The last half message of the segment.
StashHalf ==
    /\ pc = "loop" /\ Left > MinLeft /\ half = 0
    /\ \E h \in GetCurReadMsgLength(at, Left) :
          /\ h > Left
          /\ half' = Left /\ miss' = h - Left /\ from' = at
    /\ pc' = "idle"
    /\ UNCHANGED <<sent, seg, at, msg_len, got, before, clean, lost, duplicated>>

\* No known header: the rest of the segment is skipped.
GiveUp ==
    /\ pc = "loop" /\ Left > MinLeft /\ half = 0
    /\ 0 \in GetCurReadMsgLength(at, Left)
    /\ pc' = "idle"
    /\ UNCHANGED <<sent, seg, at, msg_len, half, miss, from, got, before, clean, lost, duplicated>>

\* Mutant: the stale half stays and is completed by the new message.
DiscardHalf_Kept ==
    /\ pc = "loop" /\ Left > MinLeft /\ half > 0 /\ msg_len > 0
    /\ pc' = "idle"
    /\ UNCHANGED <<sent, seg, at, msg_len, half, miss, from, got, before, clean, lost, duplicated>>

\* The segment starts with a header: the half can only be discarded.
DiscardHalf ==
    /\ pc = "loop" /\ Left > MinLeft /\ half > 0 /\ msg_len > 0
    /\ half' = 0 /\ miss' = 0
    /\ UNCHANGED <<sent, seg, at, msg_len, from, pc, got, before, clean, lost, duplicated>>

CompleteHalf ==
    /\ pc = "loop" /\ Left > MinLeft /\ half > 0 /\ msg_len = 0
    /\ miss <= Left
    /\ got' = Append(got, IF at = from + half THEN MessageAt(from, half + miss) ELSE 0)
    /\ at' = at + miss
    /\ half' = 0 /\ miss' = 0
    /\ UNCHANGED <<sent, seg, msg_len, from, pc, before, clean, lost, duplicated>>

\* The segment is shorter than what is missing: data_len wraps around and the
\* loop reads past the packet.  What follows is undefined.
Overrun ==
    /\ pc = "loop" /\ Left > MinLeft /\ half > 0 /\ msg_len = 0
    /\ miss > Left
    /\ pc' = "undefined"
    /\ UNCHANGED <<sent, seg, at, msg_len, half, miss, from, got, before, clean, lost, duplicated>>

\* The whole stream was seen, or nothing more can be said.
Over ==
    /\ \/ pc = "undefined"
       \/ pc = "idle" /\ ~ \E n \in Sizes : sent + n <= Total
    /\ UNCHANGED vars

Next ==
    \/ Duplicate
    \/ \E n \in Sizes : Segment(n) \/ Lose(n)
    \/ EndOfSegment \/ DeliverWhole \/ StashHalf \/ GiveUp
    \/ DiscardHalf \/ CompleteHalf \/ Overrun \/ Over

Spec == Init /\ [][Next]_vars

---------------------------------------------------------------------------
MaxLen == CHOOSE m \in {Lens[k] : k \in 1 .. N} \cup {FakeLen} :
             \A l \in {Lens[k] : k \in 1 .. N} \cup {FakeLen} : l <= m

TypeOK ==
    /\ sent \in 0 .. Total
    /\ seg \in [a : 0 .. Total, b : 0 .. Total] /\ seg.a <= seg.b /\ seg.b <= sent
    /\ at \in seg.a .. seg.b
    /\ msg_len \in 0 .. MaxLen
    /\ half \in 0 .. MaxLen /\ miss \in 0 .. MaxLen /\ from \in 0 .. Total
    /\ pc \in {"idle", "loop", "undefined"}
    /\ got \in Seq(0 .. N) /\ before \in 0 .. Len(got)
    /\ clean \in BOOLEAN
    /\ lost \in 0 .. MaxLost /\ duplicated \in 0 .. MaxDuplicates

(* g_half_size and g_miss_size always describe one message that its header *)
(* announced, so the copy into g_extern_msg_buffer stays within it.        *)
HalfInv ==
    half > 0 => /\ miss > 0 /\ half > MinLeft
                /\ half + miss = HeaderLen(from)

(* A message longer than the loop's bound; type a is as short as it, and   *)
(* OnData_lv2 ignores it.                                                  *)
IsQuote(k) == k = 0 \/ Lens[k] > MinLeft

\* Where quotes were given to OnData_lv2, from its i-th call on.
Quoted(i) == {j \in i .. Len(got) : IsQuote(got[j])}

(* Whatever was missed, doubled or cut badly before, a segment that starts *)
(* with a message and holds its 8 header bytes gives exactly its whole     *)
(* messages to OnData_lv2, in order: the handler resynchronises there.     *)
InSegment == {k \in 1 .. N : seg.a <= Start[k] /\ Start[k + 1] <= seg.b /\ IsQuote(k)}
SegmentDelivered ==
    pc = "idle" /\ seg.b - seg.a > MinLeft + 1 /\ seg.a \in Starts =>
        /\ {got[j] : j \in Quoted(before + 1)} = InSegment
        /\ \A i, j \in Quoted(before + 1) : i < j => got[i] < got[j]

(* As long as every segment was seen once and cut as in CleanCut,          *)
(* OnData_lv2 gets the messages of the stream, in order, each once, with   *)
(* none left out and, once the segment is handled, all that were carried.  *)
ExactStream ==
    clean =>
        /\ \A j \in Quoted(1) : got[j] # 0
        /\ \A i, j \in Quoted(1) : i < j => got[i] < got[j]
        /\ \A k \in 1 .. N :
              /\ IsQuote(k)
              /\ (\E j \in Quoted(1) : k < got[j]) \/ (pc = "idle" /\ Start[k + 1] <= sent)
              => \E j \in Quoted(1) : got[j] = k

(* Up to then no segment is shorter than what a half misses, so data_len   *)
(* does not wrap and Lv2Handler stays inside the packet.                   *)
NoOverrun == clean => pc # "undefined"

(* The half message a segment ends in is kept for the next one if its      *)
(* 8 header bytes are there; a shorter one is thrown away.                 *)
LastHalfKept ==
    pc = "idle" /\ at \in Starts /\ seg.b - at > MinLeft + 1 => half = seg.b - at

(* In every state: the types, nothing read past the packet, and the last   *)
(* half kept.                                                              *)
BufferInv == TypeOK /\ NoOverrun /\ LastHalfKept
=============================================================================

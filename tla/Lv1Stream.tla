------------------------------ MODULE Lv1Stream ------------------------------
(***************************************************************************)
(* OnData_lv1 of src/dz_gfex_md: level 1 messages are cut out of captured  *)
(* TCP packets, which are cut anywhere, may be missed and may come twice.  *)
(* The start of a message a packet ends in is kept in m_half_buffer.       *)
(*                                                                         *)
(* Messages with a common_head: "index" (a head alone), "time", "static"   *)
(* (a time message with q_len 0xfe), "quota" and "arbitrage".  A "mapping" *)
(* starts with a mark instead, one of another kind with neither.  A byte   *)
(* is <<message, offset>>, <<0, 0>> if never written.  A head tells        *)
(* its type and length in its last bytes; no byte inside a message looks   *)
(* like the start of one.  Packets of other connections and the login's    *)
(* answers are filtered out before.                                        *)
(* Lengths are scaled down in their order: mark, head, 60, mapping.        *)
(***************************************************************************)
EXTENDS Integers, Sequences, SequencesExt

CONSTANTS
    Streams,      \* sequences of kinds of messages
    MarkLen,      \* sizeof(static_info_mark)
    HeadLen,      \* sizeof(common_head)
    Peek,         \* the 60 bytes copied behind a short half
    LenOf,        \* length of a message of each kind
    Cap,          \* sizeof(m_half_buffer)
    Sizes,        \* packet sizes
    MaxLost, MaxDuplicates   \* bounds: packets missed, packets seen twice

Kinds  == {"index", "mapping", "time", "static", "quota", "arbitrage", "other"}
Wanted == {"mapping", "static", "quota"}       \* messages with a handler

ASSUME LayoutAssumption ==
    /\ {MarkLen, HeadLen, Peek, Cap} \subseteq Nat
    /\ 0 < MarkLen /\ MarkLen < HeadLen /\ HeadLen < Peek /\ Peek < LenOf["mapping"]
    /\ LenOf \in [Kinds -> 0 .. Cap] /\ LenOf["index"] = HeadLen
    /\ \A k \in Kinds \ {"index", "mapping"} : LenOf[k] > HeadLen
ASSUME EnvAssumption ==
    /\ \A s \in Streams : s \in Seq(Kinds)
    /\ Sizes \subseteq Nat \ {0} /\ MaxLost \in Nat /\ MaxDuplicates \in Nat

Bytes == [s \in Streams |-> FlattenSeq([k \in DOMAIN s |-> [o \in 1 .. LenOf[s[k]] |-> <<k, o>>]])]

VARIABLES
    stream,       \* the messages of the connection; never changes
    sent,         \* bytes the connection has carried
    packet,       \* the packet in the handler, or handled last
    rest,         \* its bytes from start on: re_msg_len is its length
    half,         \* m_half_buffer: every byte written to it since the start
    used,         \* m_half_buffer_used
    pc,           \* "idle", "start", "half", "search", "loop"; or
                  \* "undefined" when more is copied than m_half_buffer holds
    got,          \* messages handled, 0 for bytes of no message
    before,       \* history: Len(got) when the packet came
    clean,        \* history: packets came once, each cut as CleanCut says
    lost, duplicated   \* number of packets missed, seen twice

vars == <<stream, sent, packet, rest, half, used, pc, got, before, clean, lost, duplicated>>
net  == <<stream, sent, packet, before, clean, lost, duplicated>>

Init ==
    /\ stream \in Streams
    /\ sent = 0 /\ packet = <<>> /\ rest = <<>>
    /\ half = [i \in 1 .. Cap |-> <<0, 0>>] /\ used = 0
    /\ pc = "idle" /\ got = <<>> /\ before = 0
    /\ clean = TRUE
    /\ lost = 0 /\ duplicated = 0

---------------------------------------------------------------------------
(* What the handler reads.                                                 *)

Kind(k) == IF k = 0 THEN "none" ELSE stream[k]

\* get_common_head_type: the message whose type and length the head tells.
HeadAt(mem) ==
    IF Len(mem) >= HeadLen /\ \A i \in 1 .. HeadLen : mem[i][2] = i /\ Kind(mem[i][1]) \notin {"none", "mapping", "other"}
    THEN mem[HeadLen][1] ELSE 0

MarkAt(mem) == Len(mem) >= MarkLen /\ \A i \in 1 .. MarkLen : mem[i][2] = i /\ Kind(mem[i][1]) = "mapping"

\* Read without a length test: what is missing lies behind the packet.
MarkRead(mem) ==
    IF Len(mem) >= MarkLen THEN {MarkAt(mem)}
    ELSE IF mem[1][2] = 1 /\ Kind(mem[1][1]) = "mapping" THEN {TRUE, FALSE} ELSE {FALSE}

Drop(s, n) == SubSeq(s, n + 1, Len(s))
Take(s, n) == IF n < Len(s) THEN SubSeq(s, 1, n) ELSE s

\* The message that the bytes are, 0 if they are none.
MessageOf(bytes) ==
    LET k == bytes[1][1]
    IN  IF k # 0 /\ bytes = [o \in 1 .. LenOf[stream[k]] |-> <<k, o>>] THEN k ELSE 0

\* The handler of a kind is called on the bytes.
Handled(kind, bytes) == IF kind \in Wanted THEN Append(got, MessageOf(bytes)) ELSE got

\* The buffer with s written behind its first n bytes.
Written(mem, n, s) == [i \in 1 .. Cap |-> IF i > n /\ i <= n + Len(s) THEN s[i - n] ELSE mem[i]]

---------------------------------------------------------------------------
(* The capture.                                                            *)

Orderly(p) ==   \* nothing unknown, and only mappings behind an index head
    \A i \in DOMAIN p :
        /\ stream[p[i][1]] # "other"
        /\ i + HeadLen <= Len(p) /\ p[i][2] = 1 /\ stream[p[i][1]] = "index" => stream[p[i + HeadLen][1]] = "mapping"

(* A packet is cut cleanly if it is no shorter than a head,                *)
(* if what it has of its last message can be recognised or comes behind a  *)
(* message that was (an index head the packet starts with is not looked    *)
(* at), and if it is orderly.                                              *)
CleanCut(p) ==
    LET last   == p[Len(p)]
        start  == Len(p) - last[2] + 1       \* where its last message starts
        kind   == stream[last[1]]
    IN  /\ Len(p) >= HeadLen
        /\ \/ last[2] = LenOf[kind]
           \/ start < 1
           \/ last[2] >= (IF kind = "mapping" THEN MarkLen ELSE HeadLen)
           \/ \E i \in 1 .. start - 1 : p[i][2] = 1 /\ ~(i = 1 /\ stream[p[1][1]] = "index")
        /\ Orderly(p)

Arrive(p) ==
    /\ packet' = p /\ rest' = p
    /\ pc' = "start"
    /\ before' = Len(got)
    /\ UNCHANGED <<stream, half, used, got>>

Packet(n) ==
    /\ pc = "idle" /\ sent + n <= Len(Bytes[stream])
    /\ LET p == SubSeq(Bytes[stream], sent + 1, sent + n)
       IN  Arrive(p) /\ clean' = (clean /\ CleanCut(p))
    /\ sent' = sent + n
    /\ UNCHANGED <<lost, duplicated>>

Duplicate ==
    /\ pc = "idle" /\ packet # <<>> /\ duplicated < MaxDuplicates
    /\ Arrive(packet)
    /\ duplicated' = duplicated + 1 /\ clean' = FALSE
    /\ UNCHANGED <<sent, lost>>

Lose(n) ==
    /\ pc = "idle" /\ sent + n <= Len(Bytes[stream]) /\ lost < MaxLost
    /\ sent' = sent + n
    /\ lost' = lost + 1 /\ clean' = FALSE
    /\ UNCHANGED <<stream, packet, rest, half, used, pc, got, before, duplicated>>

---------------------------------------------------------------------------
(* OnData_lv1.                                                             *)

\* Mutant: a packet that starts with a message does not discard the half.
Discard_Never ==
    /\ pc = "start"
    /\ rest' = IF Kind(HeadAt(rest)) = "index" THEN Drop(rest, HeadLen) ELSE rest
    /\ pc' = IF used > 0 THEN "half" ELSE "search"
    /\ UNCHANGED <<net, half, used, got>>

\* A packet that starts with a message: the rest of the half was missed.
Discard ==
    /\ pc = "start"
    /\ rest' = IF Kind(HeadAt(rest)) = "index" THEN Drop(rest, HeadLen) ELSE rest
    /\ \E mark \in MarkRead(rest) : used' = IF HeadAt(rest) # 0 \/ mark THEN 0 ELSE used
    /\ pc' = IF used' > 0 THEN "half" ELSE "search"
    /\ UNCHANGED <<net, half, got>>

\* The half with up to Peek bytes behind it, and what it then starts with.
Peeked == IF used < Peek THEN Written(half, used, Take(rest, Peek)) ELSE half
HalfKind ==
    LET k == HeadAt(Peeked)
    IN  IF Kind(k) # "index" /\ MarkAt(Peeked) THEN "mapping" ELSE Kind(k)

\* Mutants: what is missing is counted one byte short, or one too long.
Missing_OneLess == LenOf[HalfKind] - used - 1
Missing_OneMore == LenOf[HalfKind] - used + 1

\* size_t: a half longer than its message needs more than any packet has.
Missing == LenOf[HalfKind] - used
StillHalf == Missing < 0 \/ Len(rest) < Missing

HalfComplete ==
    /\ pc = "half" /\ HalfKind \notin {"none", "index"} /\ ~StillHalf
    /\ half' = Written(Peeked, used, SubSeq(rest, 1, Missing))
    /\ got' = Handled(HalfKind, SubSeq(half', 1, LenOf[HalfKind]))
    /\ rest' = Drop(rest, Missing)
    /\ used' = 0 /\ pc' = "search"
    /\ UNCHANGED net

HalfGrows ==
    /\ pc = "half" /\ HalfKind \notin {"none", "index"} /\ StillHalf
    /\ half' = Written(half, used, rest)
    /\ used' = used + Len(rest)
    /\ rest' = <<>> /\ pc' = IF used' > Cap THEN "undefined" ELSE "idle"
    /\ UNCHANGED <<net, got>>

\* An index head is completed without asking how much there is; need is a
\* size_t, so that memcpy is asked for too much if the half is longer.
HalfIndex ==
    /\ pc = "half" /\ HalfKind = "index"
    /\ IF used > HeadLen
       THEN pc' = "undefined" /\ UNCHANGED <<half, rest, used>>
       ELSE /\ half' = Written(Peeked, used, Take(rest, HeadLen - used))
            /\ rest' = Drop(rest, HeadLen - used)
            /\ used' = 0 /\ pc' = "search"
    /\ UNCHANGED <<net, got>>

HalfUnknown ==
    /\ pc = "half" /\ HalfKind = "none"
    /\ half' = Peeked
    /\ used' = 0 /\ pc' = "search"
    /\ UNCHANGED <<net, rest, got>>

\* The first place where a message starts; a head cut short is not one.
Starts(mem) == MarkAt(mem) \/ HeadAt(mem) # 0

Search ==
    /\ pc = "search"
    /\ LET places == {i \in 1 .. Len(rest) : Starts(Drop(rest, i - 1))}
       IN  IF places = {} THEN rest' = <<>> /\ pc' = "idle"
           ELSE rest' = Drop(rest, (CHOOSE i \in places : \A j \in places : i <= j) - 1) /\ pc' = "loop"
    /\ UNCHANGED <<net, half, used, got>>

Cut == \/ Len(rest) < HeadLen
       \/ MarkAt(rest) /\ Len(rest) < LenOf["mapping"]
       \/ Kind(HeadAt(rest)) \in {"time", "static", "quota"} /\ Len(rest) < LenOf[Kind(HeadAt(rest))]

Stash(s, then) ==
    /\ half' = Written(half, 0, s) /\ used' = Len(s) /\ rest' = <<>>
    /\ pc' = IF Len(s) > Cap THEN "undefined" ELSE then

LoopEnd == pc = "loop" /\ rest = <<>> /\ pc' = "idle" /\ UNCHANGED <<net, rest, half, used, got>>

\* Mutant: one byte of the half is left out.
LoopCut_Short ==
    /\ pc = "loop" /\ rest # <<>> /\ Cut
    /\ Stash(Drop(rest, 1), "idle")
    /\ UNCHANGED <<net, got>>

LoopCut ==
    /\ pc = "loop" /\ rest # <<>> /\ Cut
    /\ Stash(rest, "idle")
    /\ UNCHANGED <<net, got>>

LoopMessage ==
    /\ pc = "loop" /\ rest # <<>> /\ ~Cut
    /\ LET kind == IF MarkAt(rest) THEN "mapping" ELSE Kind(HeadAt(rest))
       IN  /\ kind \in {"mapping", "time", "static", "quota"}
           /\ got' = Handled(kind, SubSeq(rest, 1, LenOf[kind]))
           /\ rest' = Drop(rest, LenOf[kind])
    /\ UNCHANGED <<net, half, used, pc>>

\* Behind an index head only a whole mapping is handled.
LoopIndex ==
    /\ pc = "loop" /\ ~Cut /\ Kind(HeadAt(rest)) = "index"
    /\ LET behind == Drop(rest, HeadLen)
       IN  IF MarkAt(behind) /\ Len(behind) >= LenOf["mapping"]
           THEN /\ got' = Handled("mapping", SubSeq(behind, 1, LenOf["mapping"]))
                /\ rest' = Drop(behind, LenOf["mapping"])
                /\ UNCHANGED <<half, used, pc>>
           ELSE Stash(behind, "loop") /\ UNCHANGED got
    /\ UNCHANGED net

\* Mutant: re_msg_len is left as it is.
LoopUnknown_Stays ==
    /\ pc = "loop" /\ rest # <<>> /\ ~Cut /\ ~Starts(rest)
    /\ half' = Written(half, 0, rest) /\ used' = Len(rest)
    /\ UNCHANGED <<net, rest, pc, got>>

LoopUnknown ==
    /\ pc = "loop" /\ rest # <<>> /\ ~Cut /\ ~Starts(rest)
    /\ Stash(rest, "loop")
    /\ UNCHANGED <<net, got>>

\* Nothing advances start.
LoopArbitrage ==
    /\ pc = "loop" /\ ~Cut /\ Kind(HeadAt(rest)) = "arbitrage"
    /\ UNCHANGED vars

OnData_lv1 == \/ Discard \/ HalfComplete \/ HalfGrows \/ HalfIndex \/ HalfUnknown
              \/ Search \/ LoopEnd \/ LoopCut \/ LoopMessage \/ LoopIndex \/ LoopUnknown \/ LoopArbitrage

Quiet == pc \in {"idle", "undefined"} /\ UNCHANGED vars

Next == \/ \E n \in Sizes : Packet(n) \/ Lose(n)
        \/ Duplicate
        \/ OnData_lv1
        \/ Quiet

Spec == Init /\ [][Next]_vars /\ WF_vars(OnData_lv1)

---------------------------------------------------------------------------
Wholly(p) ==  \* the wanted messages that p holds from first to last byte
    {k \in 1 .. Len(stream) :
        /\ stream[k] \in Wanted
        /\ {<<k, 1>>, <<k, LenOf[stream[k]]>>} \subseteq {p[i] : i \in DOMAIN p}}

\* g is the messages of S, each once and in order.
Lists(g, S) ==
    /\ {g[i] : i \in DOMAIN g} = S
    /\ \A i, j \in DOMAIN g : i < j => g[i] < g[j]

(* Every variable has its type; between packets nothing is left unread.    *)
TypeOK ==
    /\ rest \in Seq({b \in (1 .. Len(stream)) \X (1 .. Cap) : b[2] <= LenOf[stream[b[1]]]})
    /\ \A i \in DOMAIN got : got[i] \in 0 .. Len(stream)
    /\ pc = "idle" => rest = <<>> /\ used <= Cap

(* No message is put together from foreign bytes as long as no packet was  *)
(* missed or seen twice: not by a head completed from what an earlier half *)
(* left in the buffer, either.                                             *)
NothingForeign == lost = 0 /\ duplicated = 0 => \A i \in DOMAIN got : got[i] # 0

(* The buffer is never asked to hold more than one unfinished message,     *)
(* whatever is missed or doubled, if the stream is orderly.                *)
HalfFits ==
    Orderly(Bytes[stream]) =>
        pc # "undefined" /\ \A k \in {LenOf[kind] : kind \in Kinds} :
                                (\A kind \in Kinds : LenOf[kind] <= k) => used < k

(* In every state: the types, and a half buffer that holds one message at  *)
(* most.                                                                   *)
StreamInv == TypeOK /\ HalfFits

(* With clean cuts every wanted message is handled once and in order.      *)
ExactStream == clean /\ pc = "idle" => Lists(got, Wholly(SubSeq(Bytes[stream], 1, sent)))

(* Whatever was missed or doubled before, a packet that starts with a      *)
(* message has every wanted message in it handled, and no other.           *)
PacketHandled ==
    pc = "idle" /\ packet # <<>> /\ Starts(packet) /\ Orderly(packet) =>
        Lists(SubSeq(got, before + 1, Len(got)), Wholly(packet))

(* The handler comes back, but for an arbitrage quote it meets in a packet *)
(* and for a copy that m_half_buffer does not hold.                        *)
HandlerReturns ==
    pc # "idle" ~> \/ pc \in {"idle", "undefined"}
                   \/ pc = "loop" /\ Kind(HeadAt(rest)) = "arbitrage"
=============================================================================

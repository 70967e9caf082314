----------------------------- MODULE Lv1CodeMap -----------------------------
(***************************************************************************)
(* Codes, indices and instrument maps of src/dz_gfex_md.                   *)
(*                                                                         *)
(* A level 1 quote names its instrument by an index and carries only the   *)
(* fields that changed.  The index is learnt on the receiver thread from   *)
(* HandleLv1Code2Index and, on the core thread, from the rows of the file  *)
(* that LoadMaping reads; HandleLv1Quota looks it up and merges the fields *)
(* into m_lv1_quota.  The core thread may also subscribe at any time.      *)
(* Nothing is locked: a container operation is one step, what a thread     *)
(* does between two of them is not.                                        *)
(*                                                                         *)
(* m_quota_cache, m_staticinfo_cache and m_lv1_quota always get the same   *)
(* keys; they are one InstMap here, whose entries hold a value of each:    *)
(* whether the filter recorded a quote, and the merged quote (the static   *)
(* data of an instrument is not told apart).                               *)
(* sse_option_md and its kin use the map alike, without the first Sort.    *)
(***************************************************************************)
EXTENDS InstMap, FiniteSets

CONSTANTS
    Codes,        \* instruments, by their key
    Configured,   \* m_subscribe_insts: the ones of the configuration
    Idxs,         \* level 1 indices
    Exchange,     \* the code the exchange gives each index
    File,         \* rows of the mapping file
    Fields,       \* fields of a quote
    MaxMsgs, MaxSubscribes   \* bounds

ASSUME CodesAssumption ==
    /\ Codes \subseteq Nat /\ Configured \subseteq Codes /\ IsFiniteSet(Codes)
    /\ Exchange \in [Idxs -> Codes]
    /\ File \in Seq([code : Codes, idx : Idxs])
ASSUME BoundsAssumption == MaxMsgs \in Nat /\ MaxSubscribes \in Nat

VARIABLES
    plugin,             \* "dz_gfex_md", or "sse_option_md" for the map alone
    entries,            \* the InstMaps
    sorted,             \* Sort was called since the last InitOnce
    m_code_save,        \* code -> position in m_staticinfo_save, from 0
    m_staticinfo_save,
    m_lv1_code_index_set, m_lv1_code_map,
    core, row,          \* core thread: where it is, and the row it is at
    lv1, msg, quota,    \* level 1 thread: where, its message, its pointer
    book,               \* the exchange's book of every code
    missed,             \* history: fields of quotes that were not merged
    recorded,           \* history: instruments with a record in their entry
    overlap,            \* history: both threads were inside an update
    msgs,               \* number of level 1 messages
    subscribes          \* number of entries subscriptions have added for a code

save  == <<m_code_save, m_staticinfo_save>>
index == <<m_lv1_code_index_set, m_lv1_code_map>>
map   == <<plugin, entries, sorted>>
hist  == <<book, missed, recorded, msgs, subscribes>>
vars  == <<map, save, index, core, row, lv1, msg, quota, overlap, hist>>

Entry(c) == [key |-> c, rec |-> FALSE, quota |-> [f \in Fields |-> 0]]
NoMsg    == [kind |-> "none"]

(* LoadJsonCfg: an entry for every configured instrument, in any order;    *)
(* sse_option_md's init does not sort.                                     *)
LoadJsonCfg ==
    \E s \in {t \in [1 .. Cardinality(Configured) -> Configured] : \A c \in Configured : \E i \in DOMAIN t : t[i] = c} :
        LET data == [i \in DOMAIN s |-> Entry(s[i])]
        IN  IF plugin = "dz_gfex_md" THEN entries \in Sort(data) /\ sorted = TRUE
                                     ELSE entries = data /\ sorted = FALSE

Init ==
    /\ plugin \in {"dz_gfex_md", "sse_option_md"}
    /\ LoadJsonCfg
    /\ m_code_save = <<>> /\ m_staticinfo_save = <<>>
    /\ m_lv1_code_index_set = {} /\ m_lv1_code_map = <<>>
    /\ core = "inited" /\ row = 1
    /\ lv1 = "idle" /\ msg = NoMsg /\ quota = 0
    /\ book = [c \in Codes |-> [f \in Fields |-> 0]]
    /\ missed = [c \in Codes |-> {}] /\ recorded = {}
    /\ overlap = FALSE
    /\ msgs = 0 /\ subscribes = [c \in Codes |-> 0]

(* A step of either thread; overlap remembers that both were inside.       *)
CoreInside(c) == c \notin {"inited", "row", "ready"}
Goes(c, l) ==
    /\ core' = c /\ lv1' = l
    /\ overlap' = (overlap \/ (CoreInside(c) /\ l # "idle"))
Core(c) == Goes(c, lv1) /\ UNCHANGED <<lv1, msg>>
Lv1(l)  == Goes(core, l) /\ msg' = (IF l = "idle" THEN NoMsg ELSE msg) /\ UNCHANGED <<core, row>>

\* emplace of a map or an unordered_map: an existing key keeps its value.
Emplaced(f, k, v) == [x \in DOMAIN f \cup {k} |-> IF x \in DOMAIN f THEN f[x] ELSE v]
Size(f) == Cardinality(DOMAIN f)

---------------------------------------------------------------------------
(* connect: the receivers run, then LoadMaping.  One step per container.   *)
Row == File[row]

Connect ==
    /\ plugin = "dz_gfex_md" /\ core = "inited"
    /\ Core("row")
    /\ UNCHANGED <<map, save, index, row, quota, hist>>

LoadTest ==
    /\ core = "row" /\ row <= Len(File)
    /\ Core(IF Row.code \in DOMAIN m_code_save THEN "index" ELSE "emplace")
    /\ UNCHANGED <<map, save, index, row, quota, hist>>

LoadEmplace ==
    /\ core = "emplace"
    /\ m_code_save' = Emplaced(m_code_save, Row.code, Size(m_code_save))
    /\ Core("append")
    /\ UNCHANGED <<map, m_staticinfo_save, index, row, quota, hist>>

\* Mutant: the row is not saved.
LoadAppend_Forgotten ==
    /\ core = "append"
    /\ Core("index")
    /\ UNCHANGED <<map, save, index, row, quota, hist>>

LoadAppend ==
    /\ core = "append"
    /\ m_staticinfo_save' = Append(m_staticinfo_save, [code |-> Row.code, idx |-> Row.idx])
    /\ Core("index")
    /\ UNCHANGED <<map, m_code_save, index, row, quota, hist>>

LoadIndex ==
    /\ core = "index"
    /\ IF Row.code \notin Configured
       THEN Core("row") /\ row' = row + 1 /\ UNCHANGED index
       ELSE /\ IF Row.idx \in m_lv1_code_index_set
               THEN Core("cache") /\ UNCHANGED index
               ELSE /\ m_lv1_code_index_set' = m_lv1_code_index_set \cup {Row.idx}
                    /\ Core("map")
                    /\ UNCHANGED m_lv1_code_map
            /\ UNCHANGED row
    /\ UNCHANGED <<map, save, quota, hist>>

LoadMap ==
    /\ core = "map"
    /\ m_lv1_code_map' = Emplaced(m_lv1_code_map, Row.idx, Row.code)
    /\ Core("cache")
    /\ UNCHANGED <<map, save, m_lv1_code_index_set, row, quota, hist>>

\* cache_info is written without a test for nullptr.
LoadCache ==
    /\ core = "cache"
    /\ LET i == Find(entries, Row.code)
       IN  IF i = 0 THEN Core("crashed") /\ UNCHANGED row
           ELSE Core("row") /\ row' = row + 1
    /\ UNCHANGED <<map, save, index, quota, hist>>

LoadDone ==
    /\ core = "row" /\ row > Len(File)
    /\ Core("ready")
    /\ UNCHANGED <<map, save, index, row, quota, hist>>

---------------------------------------------------------------------------
(* subscribe_inst, before or after connect.  m_subscribe_insts is not      *)
(* extended.  push_back and Sort move the entries: a pointer another       *)
(* thread got from Find no longer points at its entry.                     *)

InitNew(c) ==
    /\ core \in {"inited", "ready"} /\ subscribes[c] < MaxSubscribes
    /\ IF c \in Configured THEN UNCHANGED <<entries, sorted, subscribes>>
       ELSE /\ entries' = InitOnce(entries, Entry(c))
            /\ sorted' = FALSE
            /\ subscribes' = [subscribes EXCEPT ![c] = @ + 1]
    /\ quota' = 0
    /\ Core(IF core = "inited" THEN "sort first" ELSE "sort")
    /\ UNCHANGED <<plugin, save, index, row, book, missed, recorded, msgs>>

SortAll ==
    /\ core \in {"sort first", "sort"}
    /\ entries' \in Sort(entries)
    /\ sorted' = TRUE
    /\ quota' = 0
    /\ Core(IF core = "sort first" THEN "inited" ELSE "ready")
    /\ UNCHANGED <<plugin, save, index, row, hist>>

---------------------------------------------------------------------------
(* The receiver threads: level 1 messages after connect, and the record    *)
(* that a level 2 quote, or sse_option_md's handler, leaves in its entry.  *)

Mappings == {[kind |-> "mapping", code |-> Exchange[i], idx |-> i] : i \in Idxs}
Statics  == {[kind |-> "static", code |-> c, idx |-> 0] : c \in Codes}
Quotes   == {[kind |-> "quote", idx |-> i, fields |-> F, odd |-> F = {}] : i \in Idxs, F \in SUBSET Fields}

\* odd: a field of neither width comes first.  The book changes at the exchange; the quote reports the changed fields.
Arrive(m) ==
    /\ plugin = "dz_gfex_md" /\ core # "inited" /\ core # "sort first"
    /\ lv1 = "idle" /\ msgs < MaxMsgs
    /\ msg' = m
    /\ msgs' = msgs + 1
    /\ book' = IF m.kind # "quote" THEN book
               ELSE [book EXCEPT ![Exchange[m.idx]] =
                        [f \in Fields |-> IF f \in m.fields THEN 1 - @[f] ELSE @[f]]]
    /\ Goes(core, IF m.kind = "quote" THEN "find" ELSE "save")
    /\ UNCHANGED <<map, save, index, core, row, quota, missed, recorded, subscribes>>

SaveTest ==
    /\ lv1 = "save"
    /\ Lv1(IF msg.code \in DOMAIN m_code_save THEN "update" ELSE "append")
    /\ UNCHANGED <<map, save, index, quota, hist>>

SaveAppend ==
    /\ lv1 = "append"
    /\ m_staticinfo_save' = Append(m_staticinfo_save, [code |-> msg.code, idx |-> msg.idx])
    /\ Lv1("emplace")
    /\ UNCHANGED <<map, m_code_save, index, quota, hist>>

SaveEmplace ==
    /\ lv1 = "emplace"
    /\ m_code_save' = Emplaced(m_code_save, msg.code, Size(m_code_save))
    /\ Lv1("subscribed")
    /\ UNCHANGED <<map, m_staticinfo_save, index, quota, hist>>

\* The position may lie behind the end: the write is then undefined.
SaveUpdate ==
    /\ lv1 = "update"
    /\ LET id == m_code_save[msg.code] + 1
       IN  IF id > Len(m_staticinfo_save)
           THEN Lv1("undefined") /\ UNCHANGED m_staticinfo_save
           ELSE /\ m_staticinfo_save' =
                       IF msg.kind = "mapping" THEN [m_staticinfo_save EXCEPT ![id].idx = msg.idx]
                                               ELSE m_staticinfo_save
                /\ Lv1("subscribed")
    /\ UNCHANGED <<map, m_code_save, index, quota, hist>>

Unsubscribed ==
    /\ lv1 = "subscribed" /\ msg.code \notin Configured
    /\ Lv1("idle")
    /\ UNCHANGED <<map, save, index, quota, hist>>

\* Into the code's entry of m_staticinfo_cache, if Find finds one.
StaticCache ==
    /\ lv1 = "subscribed" /\ msg.code \in Configured /\ msg.kind = "static"
    /\ Lv1("idle")
    /\ UNCHANGED <<map, save, index, quota, hist>>

CodeIndex ==
    /\ lv1 = "subscribed" /\ msg.code \in Configured /\ msg.kind = "mapping"
    /\ IF msg.idx \in m_lv1_code_index_set
       THEN Lv1("idle") /\ UNCHANGED m_lv1_code_index_set
       ELSE /\ m_lv1_code_index_set' = m_lv1_code_index_set \cup {msg.idx}
            /\ Lv1("map")
    /\ UNCHANGED <<map, save, m_lv1_code_map, quota, hist>>

\* Mutant: the index is stored with another instrument's code.
CodeMap_Shifted ==
    /\ lv1 = "map"
    /\ m_lv1_code_map' = Emplaced(m_lv1_code_map, msg.idx, CHOOSE c \in Configured : c # msg.code)
    /\ Lv1("idle")
    /\ UNCHANGED <<map, save, m_lv1_code_index_set, quota, hist>>

CodeMap ==
    /\ lv1 = "map"
    /\ m_lv1_code_map' = Emplaced(m_lv1_code_map, msg.idx, msg.code)
    /\ Lv1("idle")
    /\ UNCHANGED <<map, save, m_lv1_code_index_set, quota, hist>>

\* HandleLv1Quota returns for an unknown index or a missing entry.
QuoteMissed ==
    /\ lv1 = "find"
    /\ ~(msg.idx \in DOMAIN m_lv1_code_map /\ Find(entries, m_lv1_code_map[msg.idx]) # 0)
    /\ missed' = [missed EXCEPT ![Exchange[msg.idx]] = @ \cup msg.fields]
    /\ Lv1("idle")
    /\ UNCHANGED <<map, save, index, quota, book, recorded, msgs, subscribes>>

QuoteFind ==
    /\ lv1 = "find" /\ msg.idx \in DOMAIN m_lv1_code_map
    /\ quota' = Find(entries, m_lv1_code_map[msg.idx]) /\ quota' # 0
    /\ Lv1("merge")
    /\ UNCHANGED <<map, save, index, hist>>

\* Mutant: the merged quote starts from an empty one.
Merge_Fresh ==
    /\ lv1 = "merge" /\ quota # 0 /\ ~msg.odd
    /\ entries' = [entries EXCEPT ![quota].quota =
                      [f \in Fields |-> IF f \in msg.fields THEN book[Exchange[msg.idx]][f] ELSE 0]]
    /\ missed' = [missed EXCEPT ![Exchange[msg.idx]] = @ \ msg.fields]
    /\ quota' = 0
    /\ Lv1("idle")
    /\ UNCHANGED <<plugin, sorted, save, index, book, recorded, msgs, subscribes>>

\* Mutant: fields of four bytes are not passed over either.
Merge_OneWidth ==
    /\ lv1 = "merge" /\ quota # 0 /\ ~msg.odd /\ "av1" \notin msg.fields
    /\ entries' = [entries EXCEPT ![quota].quota =
                      [f \in Fields |-> IF f \in msg.fields THEN book[Exchange[msg.idx]][f] ELSE @[f]]]
    /\ missed' = [missed EXCEPT ![Exchange[msg.idx]] = @ \ msg.fields]
    /\ quota' = 0
    /\ Lv1("idle")
    /\ UNCHANGED <<plugin, sorted, save, index, book, recorded, msgs, subscribes>>

\* The fields are merged and the quote goes to the filter, which may record it.
Merge ==
    /\ lv1 = "merge" /\ quota # 0 /\ ~msg.odd
    /\ \E rec \in {entries[quota].rec, TRUE} :
          /\ entries' = [entries EXCEPT ![quota].rec = rec,
                            ![quota].quota = [f \in Fields |-> IF f \in msg.fields
                                                               THEN book[Exchange[msg.idx]][f] ELSE @[f]]]
          /\ recorded' = IF rec THEN recorded \cup {entries[quota].key} ELSE recorded
    /\ missed' = [missed EXCEPT ![Exchange[msg.idx]] = @ \ msg.fields]
    /\ quota' = 0
    /\ Lv1("idle")
    /\ UNCHANGED <<plugin, sorted, save, index, book, msgs, subscribes>>

\* A field whose d_type is neither 0x0800 nor 0x0400 is never left behind.
MergeForever ==
    /\ lv1 = "merge" /\ msg.odd
    /\ UNCHANGED vars

MergeMoved ==
    /\ lv1 = "merge" /\ quota = 0 /\ ~msg.odd
    /\ Lv1("undefined")
    /\ UNCHANGED <<map, save, index, quota, hist>>

Record(c) ==
    /\ plugin = "sse_option_md" \/ core \notin {"inited", "sort first"}
    /\ LET i == Find(entries, c)
       IN  i # 0 /\ entries' = [entries EXCEPT ![i].rec = TRUE]
    /\ recorded' = recorded \cup {c}
    /\ UNCHANGED <<plugin, sorted, save, index, core, row, lv1, msg, quota, overlap,
                   book, missed, msgs, subscribes>>

---------------------------------------------------------------------------
LoadMaping == LoadTest \/ LoadEmplace \/ LoadAppend \/ LoadIndex \/ LoadMap \/ LoadCache \/ LoadDone

HandleLv1 == \/ SaveTest \/ SaveAppend \/ SaveEmplace \/ SaveUpdate
             \/ Unsubscribed \/ StaticCache \/ CodeIndex \/ CodeMap
             \/ QuoteMissed \/ QuoteFind \/ Merge \/ MergeForever \/ MergeMoved

\* Nothing more comes, or nothing more can be said.
Idle == UNCHANGED vars

Next ==
    \/ Connect \/ LoadMaping
    \/ \E c \in Codes : InitNew(c) \/ Record(c)
    \/ SortAll
    \/ \E m \in Mappings \cup Statics \cup Quotes : Arrive(m)
    \/ HandleLv1
    \/ Idle

Spec == Init /\ [][Next]_vars /\ WF_vars(LoadMaping \/ SortAll) /\ WF_vars(HandleLv1)

---------------------------------------------------------------------------
(* Every variable has its type; the codes of the file that are configured  *)
(* have an entry, so LoadMaping never writes through a null cache_info.    *)
TypeOK ==
    /\ entries \in Seq([key : Codes, rec : BOOLEAN, quota : [Fields -> {0, 1}]])
    /\ m_code_save \in [DOMAIN m_code_save -> Nat] /\ DOMAIN m_code_save \subseteq Codes
    /\ m_staticinfo_save \in Seq([code : Codes, idx : Idxs \cup {0}])
    /\ m_lv1_code_map \in [DOMAIN m_lv1_code_map -> Configured]
    /\ DOMAIN m_lv1_code_map \subseteq m_lv1_code_index_set
    /\ row \in 1 .. Len(File) + 1
    /\ core # "crashed"

(* As long as the two threads were never inside an update at once, every   *)
(* position in m_code_save is that of the code's own entry in              *)
(* m_staticinfo_save.                                                      *)
SaveAgrees ==
    ~overlap => \A c \in DOMAIN m_code_save :
        \/ core = "append" /\ c = Row.code
        \/ LET id == m_code_save[c] + 1
           IN  id \in 1 .. Len(m_staticinfo_save) /\ m_staticinfo_save[id].code = c

(* The level 1 thread leaves a vector or uses a moved entry only after the *)
(* core thread was inside LoadMaping or subscribe_inst beside it.          *)
DefinedUnlessOverlapped == lv1 = "undefined" => overlap

(* An index that file and stream agree on stands for the exchange's code,  *)
(* whichever thread learnt it first and however their steps interleave.    *)
Disputed == {i \in Idxs : \E r \in DOMAIN File : File[r].idx = i /\ File[r].code # Exchange[i]}
QuoteOfItsCode ==
    \A i \in DOMAIN m_lv1_code_map \ Disputed : m_lv1_code_map[i] = Exchange[i]

(* m_lv1_quota, built from changed fields alone, equals the exchange's     *)
(* book but for the fields of quotes dropped before their index was known  *)
(* or while the map was being sorted, of codes without a disputed index.   *)
MergedIsCurrent ==
    lv1 \notin {"find", "merge", "undefined"} =>
        \A i \in DOMAIN entries :
            LET c == entries[i].key
            IN  c \in Configured /\ (\A d \in Disputed : Exchange[d] # c /\ \A r \in DOMAIN File : File[r] # [code |-> c, idx |-> d])
                    => \A f \in Fields \ missed[c] : entries[i].quota[f] = book[c][f]

(* Once sorted, the halving search returns the first entry of a key and    *)
(* nullptr only when there is none; before, it never returns another's.    *)
FindIsFirst ==
    \A c \in Codes :
        LET found == Find(entries, c)
            holds == {i \in DOMAIN entries : entries[i].key = c}
        IN  /\ found # 0 => found \in holds
            /\ sorted => IF holds = {} THEN found = 0 ELSE found \in holds /\ \A i \in holds : found <= i

(* What was recorded for an instrument is found again after any number of  *)
(* subscriptions, but for an instrument not configured and subscribed      *)
(* twice: it has two entries, and which one is first is up to the sort.    *)
RecordSurvives ==
    sorted => \A c \in recorded :
        \/ c \notin Configured /\ subscribes[c] > 1
        \/ LET i == Find(entries, c) IN i # 0 /\ entries[i].rec

(* What must be true of the containers in every state: types, positions    *)
(* of saved codes, the search, and that nothing recorded is lost.          *)
CodesInv == TypeOK /\ SaveAgrees /\ FindIsFirst /\ RecordSurvives

(* Every message is handled to its end, but for a quote with a field of    *)
(* unknown width and what an overlap has left undefined.                   *)
HandlerReturns ==
    lv1 # "idle" ~> lv1 = "idle" \/ overlap \/ (msg.kind = "quote" /\ msg.odd)
=============================================================================

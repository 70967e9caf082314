-------------------------- MODULE Lv1CodeMapProofs --------------------------
(***************************************************************************)
(* Proofs about Lv1CodeMap, for every set of codes, indices and fields,    *)
(* every mapping file and every number of messages and subscriptions.      *)
(*                                                                         *)
(* The proofs follow the two threads: as long as one of them is outside    *)
(* its update, the other moves m_code_save and m_staticinfo_save through   *)
(* two steps that leave a gap of one entry between them (SaveInv).         *)
(* Then the instrument map: the halving search is right by induction on    *)
(* the length of its range, Sort loses no entry, so every configured       *)
(* instrument keeps its one entry and its record (EntryInv), and a quote   *)
(* on its way to its entry is the only thing that entry lacks (MergeInv).  *)
(***************************************************************************)
EXTENDS Lv1CodeMap, WellFoundedInduction, FiniteSetTheorems, SequenceTheorems, TLAPS

CoreStates == {"inited", "row", "emplace", "append", "index", "map", "cache", "ready", "crashed",
               "sort first", "sort"}
Lv1States  == {"idle", "save", "append", "emplace", "update", "subscribed", "map", "find",
               "merge", "undefined"}

ControlInv ==
    /\ core \in CoreStates /\ lv1 \in Lv1States /\ overlap \in BOOLEAN
    /\ row \in 1 .. Len(File) + 1
    /\ core \in {"emplace", "append", "index", "map", "cache"} => row <= Len(File)
    /\ lv1 \in {"save", "append", "emplace", "update", "subscribed"} => msg \in Mappings \cup Statics
    /\ lv1 = "map" => msg \in Mappings

StoredInfo == [code : Codes, idx : Idxs \cup {0}]

SaveType ==
    /\ m_code_save \in [DOMAIN m_code_save -> Nat] /\ DOMAIN m_code_save \subseteq Codes
    /\ m_staticinfo_save \in Seq(StoredInfo)

\* The position of a code is that of its own entry.
Agrees(c) ==
    /\ m_code_save[c] + 1 \in 1 .. Len(m_staticinfo_save)
    /\ m_staticinfo_save[m_code_save[c] + 1].code = c

\* What each thread is in the middle of.
GapInv ==
    /\ core = "emplace" => Row.code \notin DOMAIN m_code_save
    /\ core = "append" => /\ Row.code \in DOMAIN m_code_save
                          /\ m_code_save[Row.code] = Len(m_staticinfo_save)
                          /\ Size(m_code_save) = Len(m_staticinfo_save) + 1
    /\ lv1 = "append" => msg.code \notin DOMAIN m_code_save
    /\ lv1 = "emplace" => /\ msg.code \notin DOMAIN m_code_save
                          /\ Len(m_staticinfo_save) = Size(m_code_save) + 1
                          /\ m_staticinfo_save[Len(m_staticinfo_save)].code = msg.code
    /\ lv1 = "update" => msg.code \in DOMAIN m_code_save
    /\ core # "append" /\ lv1 # "emplace" => Size(m_code_save) = Len(m_staticinfo_save)

AgreeInv ==
    \A c \in DOMAIN m_code_save : (core = "append" /\ c = Row.code) \/ Agrees(c)

AloneInv ==
    /\ CoreInside(core) => lv1 = "idle"
    /\ lv1 = "merge" => quota # 0
    /\ lv1 # "undefined"

SaveInv == ~overlap => GapInv /\ AgreeInv /\ AloneInv

IInv == ControlInv /\ SaveType /\ SaveInv

---------------------------------------------------------------------------
(* What emplace does to a map.                                             *)

(* emplace keeps what is there and gives a new key its value.              *)
LEMMA EmplacedFunction ==
  ASSUME NEW f, NEW k, NEW v
  PROVE  /\ DOMAIN Emplaced(f, k, v) = DOMAIN f \cup {k}
         /\ \A x \in DOMAIN f : Emplaced(f, k, v)[x] = f[x]
         /\ k \notin DOMAIN f => Emplaced(f, k, v)[k] = v
  BY DEF Emplaced

(* A map over codes has a size.                                            *)
LEMMA SizeOfMap ==
  ASSUME NEW f, DOMAIN f \subseteq Codes
  PROVE  IsFiniteSet(DOMAIN f) /\ Size(f) \in Nat
<1>1. IsFiniteSet(DOMAIN f)
  BY CodesAssumption, FS_Subset DEF CodesAssumption
<1> QED
  BY <1>1, FS_CardinalityType DEF Size

(* emplace of a new key makes it one larger.                               *)
LEMMA EmplacedSize ==
  ASSUME NEW f, DOMAIN f \subseteq Codes, NEW k \in Codes, NEW v, k \notin DOMAIN f
  PROVE  Size(Emplaced(f, k, v)) = Size(f) + 1
<1>1. IsFiniteSet(DOMAIN f)
  BY SizeOfMap
<1>2. Cardinality(DOMAIN f \cup {k}) = Cardinality(DOMAIN f) + 1
  BY <1>1, FS_AddElement
<1> QED
  BY <1>2, EmplacedFunction DEF Size

(* emplace into a map of positions gives a map of positions.               *)
LEMMA EmplacedType ==
  ASSUME NEW f, f \in [DOMAIN f -> Nat], DOMAIN f \subseteq Codes, NEW k \in Codes, NEW v \in Nat
  PROVE  /\ Emplaced(f, k, v) \in [DOMAIN Emplaced(f, k, v) -> Nat]
         /\ DOMAIN Emplaced(f, k, v) \subseteq Codes
  BY DEF Emplaced

(* Every message about a code names a code, and every row one of the file. *)
LEMMA MessageTypes ==
  /\ \A m \in Mappings \cup Statics : m.code \in Codes /\ m.idx \in Idxs \cup {0}
  /\ \A m \in Mappings : m.idx \in Idxs /\ m.code = Exchange[m.idx]
  BY CodesAssumption DEF CodesAssumption, Mappings, Statics

\* The row LoadMaping is at is one of the file's.
LEMMA RowType ==
  ASSUME row \in 1 .. Len(File) + 1, row <= Len(File)
  PROVE  /\ row \in DOMAIN File /\ Row.code \in Codes /\ Row.idx \in Idxs
         /\ File[row] = [code |-> Row.code, idx |-> Row.idx]
<1>1. File \in Seq([code : Codes, idx : Idxs])
  BY CodesAssumption DEF CodesAssumption
<1>2. Len(File) \in Nat /\ DOMAIN File = 1 .. Len(File)
  BY <1>1
<1>3. row \in DOMAIN File
  BY <1>2
<1>4. File[row] \in [code : Codes, idx : Idxs]
  BY <1>1, <1>2, <1>3, ElementOfSeq
<1> QED
  BY <1>3, <1>4 DEF Row

---------------------------------------------------------------------------
(* Where the threads are, and what they hold there.                        *)

(* Each kind of message is one of its kind only.                           *)
LEMMA MessageKinds ==
  /\ \A m \in Mappings : m.kind = "mapping"
  /\ \A m \in Statics : m.kind = "static"
  /\ \A m \in Quotes : m.kind = "quote"
  BY DEF Mappings, Statics, Quotes

\* Both threads start outside their loops.
LEMMA ControlInit == Init => ControlInv
<1> SUFFICES ASSUME Init PROVE ControlInv
  OBVIOUS
<1>1. Len(File) \in Nat
  BY CodesAssumption DEF CodesAssumption
<1>2. row \in 1 .. Len(File) + 1 /\ core = "inited" /\ lv1 = "idle"
  BY <1>1 DEF Init
<1>3. overlap \in BOOLEAN
  BY Zenon DEF Init
<1> QED
  BY <1>2, <1>3 DEF ControlInv, CoreStates, Lv1States

(* The core thread's steps leave the level 1 thread and its message alone.  *)
LEMMA ControlCore ==
  ControlInv /\ (Connect \/ LoadMaping \/ SortAll \/ \E c \in Codes : InitNew(c)) => ControlInv'
<1> SUFFICES ASSUME ControlInv, Connect \/ LoadMaping \/ SortAll \/ \E c \in Codes : InitNew(c)
             PROVE  ControlInv'
  OBVIOUS
<1>0. Len(File) \in Nat
  BY CodesAssumption DEF CodesAssumption
<1>b. overlap' \in BOOLEAN
  BY Zenon DEF ControlInv, LoadMaping, Connect, LoadTest, LoadEmplace, LoadAppend, LoadIndex,
               LoadMap, LoadCache, LoadDone, SortAll, InitNew, Core, Goes
<1> USE <1>0, <1>b DEF ControlInv, CoreStates, Lv1States, Core, Goes, CoreInside
<1>1. CASE Connect
  BY <1>1 DEF Connect
<1>2. CASE LoadTest
  BY <1>2 DEF LoadTest
<1>3. CASE LoadEmplace
  BY <1>3 DEF LoadEmplace
<1>4. CASE LoadAppend
  BY <1>4 DEF LoadAppend
<1>5. CASE LoadIndex
  <2>1. CASE Row.code \notin Configured
    BY <1>5, <2>1 DEF LoadIndex
  <2>2. CASE Row.code \in Configured /\ Row.idx \in m_lv1_code_index_set
    BY <1>5, <2>2 DEF LoadIndex
  <2>3. CASE Row.code \in Configured /\ Row.idx \notin m_lv1_code_index_set
    BY <1>5, <2>3 DEF LoadIndex
  <2> QED
    BY <2>1, <2>2, <2>3
<1>6. CASE LoadMap
  BY <1>6 DEF LoadMap
<1>7. CASE LoadCache
  <2>1. CASE core' = "crashed" /\ UNCHANGED <<row, lv1, msg>>
    BY <1>7, <2>1
  <2>2. CASE core' = "row" /\ row' = row + 1 /\ UNCHANGED <<lv1, msg>>
    BY <1>7, <2>2 DEF LoadCache
  <2> QED
    BY <1>7, <2>1, <2>2 DEF LoadCache
<1>8. CASE LoadDone
  BY <1>8 DEF LoadDone
<1>9. CASE SortAll
  BY <1>9 DEF SortAll
<1>10. ASSUME NEW c \in Codes, InitNew(c) PROVE ControlInv'
  BY <1>10 DEF InitNew
<1> QED
  BY <1>1, <1>2, <1>3, <1>4, <1>5, <1>6, <1>7, <1>8, <1>9, <1>10 DEF LoadMaping

(* Nor do the level 1 thread's steps touch the core thread.                *)
LEMMA ControlLv1 ==
  ControlInv /\ (HandleLv1 \/ \E m \in Mappings \cup Statics \cup Quotes : Arrive(m)) => ControlInv'
<1> SUFFICES ASSUME ControlInv, HandleLv1 \/ \E m \in Mappings \cup Statics \cup Quotes : Arrive(m)
             PROVE  ControlInv'
  OBVIOUS
<1> USE DEF ControlInv, CoreStates, Lv1States, Lv1, Goes, CoreInside
<1>1. CASE SaveTest
  BY <1>1 DEF SaveTest
<1>2. CASE SaveAppend
  BY <1>2 DEF SaveAppend
<1>3. CASE SaveEmplace
  BY <1>3 DEF SaveEmplace
<1>4. CASE SaveUpdate
  BY <1>4 DEF SaveUpdate
<1>5. CASE Unsubscribed
  BY <1>5 DEF Unsubscribed
<1>6. CASE StaticCache
  BY <1>6 DEF StaticCache
<1>7. CASE CodeIndex
  BY <1>7, MessageKinds DEF CodeIndex
<1>8. CASE CodeMap
  BY <1>8 DEF CodeMap
<1>9. CASE QuoteMissed
  BY <1>9 DEF QuoteMissed
<1>10. CASE QuoteFind
  BY <1>10 DEF QuoteFind
<1>11. CASE Merge
  BY <1>11 DEF Merge
<1>12. CASE MergeForever
  BY <1>12 DEF MergeForever, vars, map, save, index, hist
<1>13. CASE MergeMoved
  BY <1>13 DEF MergeMoved
<1>14. ASSUME NEW m \in Mappings \cup Statics \cup Quotes, Arrive(m) PROVE ControlInv'
  BY <1>14, MessageKinds DEF Arrive
<1> QED
  BY <1>1, <1>2, <1>3, <1>4, <1>5, <1>6, <1>7, <1>8, <1>9, <1>10, <1>11, <1>12, <1>13, <1>14 DEF HandleLv1

\* Every step takes a thread where the control invariant expects it.
LEMMA ControlStep == ControlInv /\ [Next]_vars => ControlInv'
<1> SUFFICES ASSUME ControlInv, [Next]_vars PROVE ControlInv'
  OBVIOUS
<1>1. CASE UNCHANGED vars
  BY <1>1 DEF vars, ControlInv
<1>2. ASSUME NEW c \in Codes, Record(c) PROVE ControlInv'
  BY <1>2 DEF Record, ControlInv
<1> QED
  BY <1>1, <1>2, ControlCore, ControlLv1 DEF Next, Idle

(* The threads are where the program says, with the messages they handle.   *)
THEOREM Control == Spec => []ControlInv
  BY ControlInit, ControlStep, PTL DEF Spec

---------------------------------------------------------------------------
(* The index map.                                                          *)

\* No index stands for anything before the first mapping.
LEMMA QuoteInit == Init => QuoteOfItsCode
  BY DEF Init, QuoteOfItsCode

(* Only LoadMap and CodeMap write the map, each a pair of a row or of a    *)
(* message; neither overwrites.                                            *)
LEMMA QuoteStep == ControlInv /\ QuoteOfItsCode /\ [Next]_vars => QuoteOfItsCode'
<1> SUFFICES ASSUME ControlInv, QuoteOfItsCode, [Next]_vars PROVE QuoteOfItsCode'
  OBVIOUS
<1>1. CASE LoadMap
  <2>1. m_lv1_code_map' = Emplaced(m_lv1_code_map, Row.idx, Row.code)
    BY <1>1 DEF LoadMap
  <2>a. /\ DOMAIN m_lv1_code_map' = DOMAIN m_lv1_code_map \cup {Row.idx}
        /\ \A i \in DOMAIN m_lv1_code_map : m_lv1_code_map'[i] = m_lv1_code_map[i]
        /\ Row.idx \notin DOMAIN m_lv1_code_map => m_lv1_code_map'[Row.idx] = Row.code
    BY <2>1 DEF Emplaced
  <2>2. row \in DOMAIN File
    BY <1>1, RowType DEF LoadMap, ControlInv
  <2>3. Row.idx \in Idxs \ Disputed => Row.code = Exchange[Row.idx]
    BY <2>2 DEF Disputed, Row
  <2>4. Row.idx \in Idxs
    BY <1>1, RowType DEF LoadMap, ControlInv
  <2> QED
    <3>1. ASSUME NEW i \in DOMAIN m_lv1_code_map' \ Disputed PROVE m_lv1_code_map'[i] = Exchange[i]
      <4>1. CASE i \in DOMAIN m_lv1_code_map
        BY <2>a, <3>1, <4>1 DEF QuoteOfItsCode
      <4>2. CASE i \notin DOMAIN m_lv1_code_map
        BY <2>a, <2>3, <2>4, <3>1, <4>2
      <4> QED
        BY <4>1, <4>2
    <3> QED
      BY <3>1 DEF QuoteOfItsCode, Disputed
<1>2. CASE CodeMap
  <2>1. m_lv1_code_map' = Emplaced(m_lv1_code_map, msg.idx, msg.code)
    BY <1>2 DEF CodeMap
  <2>a. /\ DOMAIN m_lv1_code_map' = DOMAIN m_lv1_code_map \cup {msg.idx}
        /\ \A i \in DOMAIN m_lv1_code_map : m_lv1_code_map'[i] = m_lv1_code_map[i]
        /\ msg.idx \notin DOMAIN m_lv1_code_map => m_lv1_code_map'[msg.idx] = msg.code
    BY <2>1 DEF Emplaced
  <2>2. msg.code = Exchange[msg.idx]
    BY <1>2, MessageTypes DEF CodeMap, ControlInv
  <2> QED
    <3>1. ASSUME NEW i \in DOMAIN m_lv1_code_map' \ Disputed PROVE m_lv1_code_map'[i] = Exchange[i]
      <4>1. CASE i \in DOMAIN m_lv1_code_map
        BY <2>a, <3>1, <4>1 DEF QuoteOfItsCode
      <4>2. CASE i \notin DOMAIN m_lv1_code_map
        BY <2>a, <2>2, <3>1, <4>2
      <4> QED
        BY <4>1, <4>2
    <3> QED
      BY <3>1 DEF QuoteOfItsCode, Disputed
<1>3. CASE UNCHANGED m_lv1_code_map
  BY <1>3 DEF QuoteOfItsCode
<1>4. LoadMap \/ CodeMap \/ UNCHANGED m_lv1_code_map
  BY DEF Next, LoadMaping, HandleLv1, vars, map, save, index, hist, Connect, LoadTest, LoadEmplace,
         LoadAppend, LoadIndex, LoadCache, LoadDone, InitNew, SortAll, Arrive, SaveTest, SaveAppend,
         SaveEmplace, SaveUpdate, Unsubscribed, StaticCache, CodeIndex, QuoteMissed, QuoteFind,
         Merge, MergeForever, MergeMoved, Record, Idle
<1> QED
  BY <1>1, <1>2, <1>3, <1>4

(* An index stands for the exchange's code however the two threads that    *)
(* learn indices interleave.                                               *)
THEOREM QuotesOfTheirCode == Spec => []QuoteOfItsCode
  BY QuoteInit, QuoteStep, Control, PTL DEF Spec

---------------------------------------------------------------------------
(* The saved static data.                                                  *)

\* m_code_save starts empty.
LEMMA SaveInit == Init => SaveType /\ SaveInv
<1> SUFFICES ASSUME Init PROVE SaveType /\ SaveInv
  OBVIOUS
<1>1. /\ m_code_save = <<>> /\ m_staticinfo_save = <<>>
      /\ core = "inited" /\ lv1 = "idle"
  BY DEF Init
<1>2. DOMAIN m_code_save = {} /\ Len(m_staticinfo_save) = 0 /\ m_staticinfo_save \in Seq(StoredInfo)
  BY <1>1
<1>3. Size(m_code_save) = 0
  BY <1>2, FS_EmptySet DEF Size
<1>4. SaveType
  BY <1>1, <1>2 DEF SaveType
<1>5. GapInv /\ AgreeInv /\ AloneInv
  BY <1>1, <1>2, <1>3 DEF GapInv, AgreeInv, AloneInv, CoreInside
<1> QED
  BY <1>4, <1>5 DEF SaveInv

(* Five steps write the save, and each keeps its types.                    *)
LEMMA SaveTypeStep == ControlInv /\ SaveType /\ [Next]_vars => SaveType'
<1> SUFFICES ASSUME ControlInv, SaveType, [Next]_vars PROVE SaveType'
  OBVIOUS
<1>0. Size(m_code_save) \in Nat
  BY SizeOfMap DEF SaveType
<1>1. CASE LoadEmplace
  <2>1. Row.code \in Codes
    BY <1>1, RowType DEF LoadEmplace, ControlInv
  <2> QED
    BY <1>0, <1>1, <2>1, EmplacedType DEF SaveType, LoadEmplace
<1>2. CASE LoadAppend
  <2>1. [code |-> Row.code, idx |-> Row.idx] \in StoredInfo
    BY <1>2, RowType DEF LoadAppend, ControlInv, StoredInfo
  <2> QED
    BY <1>2, <2>1, AppendProperties DEF SaveType, LoadAppend
<1>3. CASE SaveAppend
  <2>1. [code |-> msg.code, idx |-> msg.idx] \in StoredInfo
    BY <1>3, MessageTypes DEF SaveAppend, ControlInv, StoredInfo
  <2> QED
    BY <1>3, <2>1, AppendProperties DEF SaveType, SaveAppend
<1>4. CASE SaveEmplace
  <2>1. msg.code \in Codes
    BY <1>4, MessageTypes DEF SaveEmplace, ControlInv
  <2> QED
    BY <1>0, <1>4, <2>1, EmplacedType DEF SaveType, SaveEmplace
<1>5. CASE SaveUpdate
  <2>1. msg.idx \in Idxs \cup {0}
    BY <1>5, MessageTypes DEF SaveUpdate, ControlInv
  <2>2. \/ UNCHANGED m_staticinfo_save
        \/ m_staticinfo_save' = [m_staticinfo_save EXCEPT ![m_code_save[msg.code] + 1].idx = msg.idx]
    BY <1>5 DEF SaveUpdate
  <2>3. m_staticinfo_save' \in Seq(StoredInfo)
    <3> DEFINE id == m_code_save[msg.code] + 1
    <3> DEFINE updated == [m_staticinfo_save[id] EXCEPT !.idx = msg.idx]
    <3>1. CASE UNCHANGED m_staticinfo_save
      BY <3>1 DEF SaveType
    <3>2. CASE id \in DOMAIN m_staticinfo_save /\ m_staticinfo_save' = [m_staticinfo_save EXCEPT ![id] = updated]
      <4>1. m_staticinfo_save[id] \in StoredInfo
        BY <3>2, ElementOfSeq, LenProperties DEF SaveType
      <4>2. updated \in StoredInfo
        BY <2>1, <4>1 DEF StoredInfo
      <4> HIDE DEF updated, id
      <4> QED
        BY <3>2, <4>2, ExceptSeq DEF SaveType
    <3>3. CASE id \notin DOMAIN m_staticinfo_save /\ m_staticinfo_save' = [m_staticinfo_save EXCEPT ![id] = updated]
      <4>1. m_staticinfo_save' = m_staticinfo_save
        BY <3>3 DEF SaveType
      <4> QED
        BY <4>1 DEF SaveType
    <3> QED
      BY <2>2, <3>1, <3>2, <3>3
  <2> QED
    BY <1>5, <2>3 DEF SaveType, SaveUpdate
<1>6. CASE UNCHANGED save
  BY <1>6 DEF save, SaveType
<1>7. LoadEmplace \/ LoadAppend \/ SaveAppend \/ SaveEmplace \/ SaveUpdate \/ UNCHANGED save
  BY DEF Next, LoadMaping, HandleLv1, vars, map, save, index, hist, Connect, LoadTest, LoadIndex,
         LoadMap, LoadCache, LoadDone, InitNew, SortAll, Arrive, SaveTest, Unsubscribed, StaticCache,
         CodeIndex, CodeMap, QuoteMissed, QuoteFind, Merge, MergeForever, MergeMoved, Record, Idle
<1> QED
  BY <1>1, <1>2, <1>3, <1>4, <1>5, <1>6, <1>7

(* Every step of a thread looks whether both are inside.                   *)
LEMMA OverlapStep ==
  [Next]_vars => \/ UNCHANGED <<core, lv1, overlap>>
                 \/ overlap' = (overlap \/ (CoreInside(core') /\ lv1' # "idle"))
<1> SUFFICES ASSUME [Next]_vars
             PROVE  \/ UNCHANGED <<core, lv1, overlap>>
                    \/ overlap' = (overlap \/ (CoreInside(core') /\ lv1' # "idle"))
  OBVIOUS
<1> DEFINE Looked == overlap' = (overlap \/ (CoreInside(core') /\ lv1' # "idle"))
<1>1. ASSUME NEW c, Core(c) PROVE Looked
  BY <1>1, Zenon DEF Core, Goes
<1>2. ASSUME NEW l, Lv1(l) PROVE Looked
  BY <1>2, Zenon DEF Lv1, Goes
<1>3. CASE Connect \/ LoadMaping
  BY <1>1, <1>3, Zenon DEF Connect, LoadMaping, LoadTest, LoadEmplace, LoadAppend, LoadIndex, LoadMap,
                    LoadCache, LoadDone
<1>4. CASE SortAll \/ \E c \in Codes : InitNew(c)
  BY <1>1, <1>4, Zenon DEF SortAll, InitNew
<1>5. CASE \E m \in Mappings \cup Statics \cup Quotes : Arrive(m)
  BY <1>5, Zenon DEF Arrive, Goes
<1>6. CASE MergeForever \/ Idle \/ UNCHANGED vars
  BY <1>6 DEF MergeForever, Idle, vars
<1>7. CASE \E c \in Codes : Record(c)
  BY <1>7 DEF Record
<1>8. CASE SaveTest \/ SaveAppend \/ SaveEmplace \/ SaveUpdate \/ Unsubscribed \/ StaticCache
  BY <1>2, <1>8, Zenon DEF SaveTest, SaveAppend, SaveEmplace, SaveUpdate, Unsubscribed, StaticCache
<1>9. CASE CodeIndex \/ CodeMap \/ QuoteMissed \/ QuoteFind \/ Merge \/ MergeMoved
  BY <1>2, <1>9, Zenon DEF CodeIndex, CodeMap, QuoteMissed, QuoteFind, Merge, MergeMoved
<1> QED
  BY <1>3, <1>4, <1>5, <1>6, <1>7, <1>8, <1>9, Zenon DEF Next, HandleLv1

(* After a step that ends without an overlap at most one thread is inside. *)
LEMMA AloneStep ==
  ASSUME SaveInv, ~overlap', [Next]_vars
  PROVE  /\ ~overlap /\ GapInv /\ AgreeInv /\ AloneInv
         /\ CoreInside(core') => lv1' = "idle"
<1>1. ~overlap
  BY OverlapStep, Zenon
<1>2. AloneInv
  BY <1>1 DEF SaveInv
<1>3. CoreInside(core') => lv1' = "idle"
  BY <1>1, <1>2, OverlapStep, Zenon DEF AloneInv, CoreInside
<1> QED
  BY <1>1, <1>3 DEF SaveInv

(* Steps of the core thread that do not write the save.                    *)
LEMMA SaveCore ==
  ASSUME ControlInv, SaveType, SaveInv, ~overlap', [Next]_vars,
         \/ Connect \/ LoadTest \/ LoadIndex \/ LoadMap \/ LoadCache \/ LoadDone
         \/ SortAll \/ \E c \in Codes : InitNew(c)
  PROVE  GapInv' /\ AgreeInv' /\ AloneInv'
<1> USE AloneStep DEF GapInv, AgreeInv, Agrees, AloneInv, Row, map, save, Core, Goes, CoreInside
<1>1. CASE Connect
  BY <1>1 DEF Connect
<1>2. CASE LoadTest
  BY <1>2 DEF LoadTest
<1>3. CASE LoadIndex
  BY <1>3 DEF LoadIndex
<1>4. CASE LoadMap
  BY <1>4 DEF LoadMap
<1>5. CASE LoadCache
  BY <1>5 DEF LoadCache
<1>6. CASE LoadDone
  BY <1>6 DEF LoadDone
<1>7. CASE SortAll
  BY <1>7 DEF SortAll
<1>8. ASSUME NEW c \in Codes, InitNew(c) PROVE GapInv' /\ AgreeInv' /\ AloneInv'
  BY <1>8 DEF InitNew
<1> QED
  BY <1>1, <1>2, <1>3, <1>4, <1>5, <1>6, <1>7, <1>8

(* Steps of the level 1 thread that do not write the save.                 *)
LEMMA SaveLv1 ==
  ASSUME ControlInv, SaveType, SaveInv, ~overlap', [Next]_vars,
         \/ SaveTest \/ Unsubscribed \/ StaticCache \/ CodeIndex \/ CodeMap
         \/ QuoteMissed \/ QuoteFind \/ Merge \/ MergeForever \/ MergeMoved
         \/ \E m \in Mappings \cup Statics \cup Quotes : Arrive(m)
  PROVE  GapInv' /\ AgreeInv' /\ AloneInv'
<1> USE AloneStep DEF GapInv, AgreeInv, Agrees, AloneInv, Row, map, save, Lv1, Goes, CoreInside
<1>1. CASE SaveTest
  BY <1>1 DEF SaveTest
<1>2. CASE Unsubscribed
  BY <1>2 DEF Unsubscribed
<1>3. CASE StaticCache
  BY <1>3 DEF StaticCache
<1>4. CASE CodeIndex
  BY <1>4 DEF CodeIndex
<1>5. CASE CodeMap
  BY <1>5 DEF CodeMap
<1>6. CASE QuoteMissed
  BY <1>6 DEF QuoteMissed
<1>7. CASE QuoteFind
  BY <1>7 DEF QuoteFind
<1>8. CASE Merge
  BY <1>8 DEF Merge
<1>9. CASE MergeForever
  BY <1>9 DEF MergeForever, vars
<1>10. CASE MergeMoved
  BY <1>10 DEF MergeMoved
<1>11. ASSUME NEW m \in Mappings \cup Statics \cup Quotes, Arrive(m)
      PROVE  GapInv' /\ AgreeInv' /\ AloneInv'
  BY <1>11 DEF Arrive
<1> QED
  BY <1>1, <1>2, <1>3, <1>4, <1>5, <1>6, <1>7, <1>8, <1>9, <1>10, <1>11

(* LoadMaping's emplace gives the row the position its append will fill.   *)
LEMMA SaveLoadEmplace ==
  ASSUME ControlInv, SaveType, SaveInv, ~overlap', [Next]_vars, LoadEmplace
  PROVE  GapInv' /\ AgreeInv' /\ AloneInv'
<1>1. /\ core = "emplace" /\ core' = "append" /\ lv1 = "idle" /\ lv1' = "idle"
      /\ m_staticinfo_save' = m_staticinfo_save /\ row' = row
      /\ m_code_save' = Emplaced(m_code_save, Row.code, Size(m_code_save))
  BY AloneStep DEF LoadEmplace, Core, Goes, AloneInv, CoreInside
<1>2. Row.code \in Codes /\ Row' = Row
  BY <1>1, RowType DEF ControlInv, Row
<1>3. Row.code \notin DOMAIN m_code_save /\ Size(m_code_save) = Len(m_staticinfo_save)
  BY <1>1, AloneStep DEF GapInv
<1>4. Size(m_code_save') = Size(m_code_save) + 1
  BY <1>1, <1>2, <1>3, EmplacedSize DEF SaveType
<1>5. /\ DOMAIN m_code_save' = DOMAIN m_code_save \cup {Row.code}
      /\ \A c \in DOMAIN m_code_save : m_code_save'[c] = m_code_save[c]
      /\ m_code_save'[Row.code] = Size(m_code_save)
  BY <1>1, <1>3 DEF Emplaced
<1>6. GapInv'
  BY <1>1, <1>2, <1>3, <1>4, <1>5 DEF GapInv
<1>7. AgreeInv'
  BY <1>1, <1>2, <1>3, <1>5, AloneStep DEF AgreeInv, Agrees
<1> QED
  BY <1>1, <1>6, <1>7 DEF AloneInv

(* The append fills it.                                                    *)
LEMMA SaveLoadAppend ==
  ASSUME ControlInv, SaveType, SaveInv, ~overlap', [Next]_vars, LoadAppend
  PROVE  GapInv' /\ AgreeInv' /\ AloneInv'
<1> DEFINE info == [code |-> Row.code, idx |-> Row.idx]
<1>1. /\ core = "append" /\ core' = "index" /\ lv1 = "idle" /\ lv1' = "idle"
      /\ m_code_save' = m_code_save /\ row' = row
      /\ m_staticinfo_save' = Append(m_staticinfo_save, info)
  BY AloneStep DEF LoadAppend, Core, Goes, AloneInv, CoreInside
<1>2. info \in StoredInfo /\ info.code = Row.code
  BY <1>1, RowType DEF ControlInv, StoredInfo
<1> HIDE DEF info
<1>3. /\ Len(m_staticinfo_save) \in Nat
      /\ Len(m_staticinfo_save') = Len(m_staticinfo_save) + 1
      /\ \A i \in 1 .. Len(m_staticinfo_save) : m_staticinfo_save'[i] = m_staticinfo_save[i]
      /\ m_staticinfo_save'[Len(m_staticinfo_save) + 1] = info
  BY <1>1, <1>2, AppendProperties, LenProperties DEF SaveType
<1>4. GapInv'
  BY <1>1, <1>3, AloneStep DEF GapInv
<1>5. ASSUME NEW c \in DOMAIN m_code_save PROVE Agrees(c)'
  <2>1. CASE c = Row.code
    BY <1>1, <1>2, <1>3, <2>1, AloneStep DEF GapInv, Agrees
  <2>2. CASE c # Row.code
    BY <1>1, <1>3, <2>2, AloneStep DEF AgreeInv, Agrees
  <2> QED
    BY <2>1, <2>2
<1>6. AgreeInv'
  BY <1>1, <1>5 DEF AgreeInv
<1> QED
  BY <1>1, <1>4, <1>6 DEF AloneInv

(* The level 1 thread does the two in the other order: append first,       *)
LEMMA SaveSaveAppend ==
  ASSUME ControlInv, SaveType, SaveInv, ~overlap', [Next]_vars, SaveAppend
  PROVE  GapInv' /\ AgreeInv' /\ AloneInv'
<1> DEFINE info == [code |-> msg.code, idx |-> msg.idx]
<1>1. /\ lv1 = "append" /\ lv1' = "emplace" /\ core' = core /\ ~CoreInside(core)
      /\ core # "append" /\ core # "emplace"
      /\ m_code_save' = m_code_save /\ row' = row /\ msg' = msg
      /\ m_staticinfo_save' = Append(m_staticinfo_save, info)
  BY AloneStep DEF SaveAppend, Lv1, Goes, AloneInv, CoreInside
<1>2. info \in StoredInfo /\ info.code = msg.code
  BY <1>1, MessageTypes DEF ControlInv, StoredInfo
<1> HIDE DEF info
<1>3. /\ Len(m_staticinfo_save) \in Nat
      /\ Len(m_staticinfo_save') = Len(m_staticinfo_save) + 1
      /\ \A i \in 1 .. Len(m_staticinfo_save) : m_staticinfo_save'[i] = m_staticinfo_save[i]
      /\ m_staticinfo_save'[Len(m_staticinfo_save) + 1] = info
  BY <1>1, <1>2, AppendProperties, LenProperties DEF SaveType
<1>4. GapInv'
  BY <1>1, <1>2, <1>3, AloneStep DEF GapInv
<1>5. AgreeInv'
  BY <1>1, <1>3, AloneStep DEF AgreeInv, Agrees
<1> QED
  BY <1>1, <1>4, <1>5 DEF AloneInv, CoreInside

(* then emplace, with the size of the map, which is the place of the last. *)
LEMMA SaveSaveEmplace ==
  ASSUME ControlInv, SaveType, SaveInv, ~overlap', [Next]_vars, SaveEmplace
  PROVE  GapInv' /\ AgreeInv' /\ AloneInv'
<1>1. /\ lv1 = "emplace" /\ lv1' = "subscribed" /\ core' = core /\ ~CoreInside(core)
      /\ core # "append" /\ core # "emplace"
      /\ m_staticinfo_save' = m_staticinfo_save /\ row' = row /\ msg' = msg
      /\ m_code_save' = Emplaced(m_code_save, msg.code, Size(m_code_save))
  BY AloneStep DEF SaveEmplace, Lv1, Goes, AloneInv, CoreInside
<1>2. msg.code \in Codes
  BY <1>1, MessageTypes DEF ControlInv
<1>3. /\ msg.code \notin DOMAIN m_code_save
      /\ Len(m_staticinfo_save) = Size(m_code_save) + 1
      /\ m_staticinfo_save[Len(m_staticinfo_save)].code = msg.code
      /\ Size(m_code_save) \in Nat
  BY <1>1, AloneStep, SizeOfMap DEF GapInv, SaveType
<1>4. Size(m_code_save') = Size(m_code_save) + 1
  BY <1>1, <1>2, <1>3, EmplacedSize DEF SaveType
<1>5. /\ DOMAIN m_code_save' = DOMAIN m_code_save \cup {msg.code}
      /\ \A c \in DOMAIN m_code_save : m_code_save'[c] = m_code_save[c]
      /\ m_code_save'[msg.code] = Size(m_code_save)
  BY <1>1, <1>3 DEF Emplaced
<1>6. GapInv'
  BY <1>1, <1>3, <1>4 DEF GapInv
<1>7. AgreeInv'
  BY <1>1, <1>3, <1>5, AloneStep DEF AgreeInv, Agrees
<1> QED
  BY <1>1, <1>6, <1>7 DEF AloneInv, CoreInside

(* An update finds its entry and leaves its code alone.                    *)
LEMMA SaveSaveUpdate ==
  ASSUME ControlInv, SaveType, SaveInv, ~overlap', [Next]_vars, SaveUpdate
  PROVE  GapInv' /\ AgreeInv' /\ AloneInv'
<1> DEFINE id == m_code_save[msg.code] + 1
<1>1. /\ lv1 = "update" /\ core' = core /\ ~CoreInside(core)
      /\ core # "append" /\ core # "emplace"
      /\ m_code_save' = m_code_save /\ row' = row
  BY AloneStep DEF SaveUpdate, Lv1, Goes, AloneInv, CoreInside
<1>2. id \in 1 .. Len(m_staticinfo_save)
  BY <1>1, AloneStep DEF GapInv, AgreeInv, Agrees
<1>3. Len(m_staticinfo_save) \in Nat
  BY LenProperties DEF SaveType
<1>4. /\ lv1' = "subscribed"
      /\ \/ m_staticinfo_save' = m_staticinfo_save
         \/ m_staticinfo_save' = [m_staticinfo_save EXCEPT ![id].idx = msg.idx]
  BY <1>1, <1>2, <1>3 DEF SaveUpdate, Lv1, Goes
<1>5. /\ Len(m_staticinfo_save') = Len(m_staticinfo_save)
      /\ \A i \in 1 .. Len(m_staticinfo_save) : m_staticinfo_save'[i].code = m_staticinfo_save[i].code
  <2>1. CASE m_staticinfo_save' = m_staticinfo_save
    BY <2>1
  <2>2. CASE m_staticinfo_save' = [m_staticinfo_save EXCEPT ![id].idx = msg.idx]
    <3>1. \A i \in 1 .. Len(m_staticinfo_save) : m_staticinfo_save[i] \in StoredInfo
      BY ElementOfSeq DEF SaveType
    <3>2. msg.idx \in Idxs \cup {0}
      BY <1>1, MessageTypes DEF ControlInv
    <3> DEFINE updated == [m_staticinfo_save[id] EXCEPT !.idx = msg.idx]
    <3>3. updated \in StoredInfo /\ updated.code = m_staticinfo_save[id].code
      BY <1>2, <3>1, <3>2 DEF StoredInfo
    <3>4. m_staticinfo_save' = [m_staticinfo_save EXCEPT ![id] = updated]
      BY <2>2
    <3> HIDE DEF updated, id
    <3> QED
      BY <1>2, <3>3, <3>4, ExceptSeq DEF SaveType
  <2> QED
    BY <1>4, <2>1, <2>2
<1>6. GapInv'
  BY <1>1, <1>4, <1>5, AloneStep DEF GapInv
<1>7. AgreeInv'
  BY <1>1, <1>5, AloneStep DEF AgreeInv, Agrees
<1> QED
  BY <1>1, <1>4, <1>6, <1>7 DEF AloneInv, CoreInside

(* Whatever the step, as long as it ends without an overlap.               *)
LEMMA SaveStep == ControlInv /\ SaveType /\ SaveInv /\ [Next]_vars => SaveInv'
<1> SUFFICES ASSUME ControlInv, SaveType, SaveInv, [Next]_vars, ~overlap'
             PROVE  GapInv' /\ AgreeInv' /\ AloneInv'
  BY DEF SaveInv
<1>1. CASE UNCHANGED vars
  BY <1>1, AloneStep DEF vars, save, GapInv, AgreeInv, Agrees, AloneInv, Row, CoreInside
<1>2. ASSUME NEW c \in Codes, Record(c) PROVE GapInv' /\ AgreeInv' /\ AloneInv'
  BY <1>2, AloneStep DEF Record, save, GapInv, AgreeInv, Agrees, AloneInv, Row, CoreInside
<1> QED
  BY <1>1, <1>2, SaveCore, SaveLv1, SaveLoadEmplace, SaveLoadAppend, SaveSaveAppend, SaveSaveEmplace,
     SaveSaveUpdate DEF Next, LoadMaping, HandleLv1, Idle

(* The two views of the saved static data, with the gap between them.      *)
THEOREM Saved == Spec => [](SaveType /\ SaveInv)
  BY SaveInit, SaveTypeStep, SaveStep, Control, PTL DEF Spec

(* Positions in m_code_save are those of the code's entry, unless both     *)
(* threads have been inside an update at once.                             *)
THEOREM SavedAgrees == Spec => []SaveAgrees
<1>1. SaveInv => SaveAgrees
  BY DEF SaveInv, AgreeInv, Agrees, SaveAgrees
<1> QED
  BY <1>1, Saved, PTL

(* No undefined access of the level 1 thread without such an overlap.      *)
THEOREM Defined == Spec => []DefinedUnlessOverlapped
<1>1. ControlInv /\ SaveInv => DefinedUnlessOverlapped
  BY DEF ControlInv, SaveInv, AloneInv, DefinedUnlessOverlapped
<1> QED
  BY <1>1, Saved, Control, PTL

---------------------------------------------------------------------------
(* The search of the instrument map.                                       *)

(* A set of numbers that is not empty has a least one.                     *)
LEMMA Least ==
  ASSUME NEW T, T \subseteq Nat, T # {}
  PROVE  \E m \in T : \A k \in T : m <= k
  <1>1. PICK m \in T : \A k \in T : ~ (<<k, m>> \in OpToRel(<, Nat))
        BY WFMin, NatLessThanWellFounded, Zenon
  <1>2. \A k \in T : <<k, m>> \in OpToRel(<, Nat) <=> k < m
        BY DEF OpToRel
  <1>3. \A k \in T : ~(k < m)
        BY <1>1, <1>2, Zenon
  <1>4. \A k \in T : m <= k
        BY <1>3
  <1> QED BY <1>4

(* Induction: a set with 0 and all successors has all numbers.             *)
LEMMA Induction ==
  ASSUME NEW T, 0 \in T, \A n \in Nat : n \in T => n + 1 \in T
  PROVE  Nat \subseteq T
  <1> SUFFICES ASSUME Nat \ T # {} PROVE FALSE
      OBVIOUS
  <1>1. PICK m \in Nat \ T : \A k \in Nat \ T : m <= k
        BY Least, Nat \ T \subseteq Nat, Zenon
  <1>2. m # 0 /\ m - 1 \in Nat
        BY <1>1
  <1>3. m - 1 \in T
        BY <1>1, <1>2
  <1>4. (m - 1) + 1 \in T
        BY <1>2, <1>3
  <1> QED BY <1>1, <1>4

LowerHalf(r) == <<r[1], r[2] \div 2>>
UpperHalf(r) == <<r[1] + r[2] \div 2 + 1, r[2] - r[2] \div 2 - 1>>
Halved(data, key, S, r) ==
    IF r[2] = 0 THEN r[1]
    ELSE IF data[r[1] + r[2] \div 2 + 1].key < key THEN S[UpperHalf(r)] ELSE S[LowerHalf(r)]

\* Both halves of a range are ranges, and shorter; the entry between them exists.
LEMMA Halves ==
  ASSUME NEW data, Len(data) \in Nat, NEW r \in Ranges(data)
  PROVE  /\ r[1] \in Nat /\ r[2] \in Nat /\ r[1] + r[2] <= Len(data)
         /\ r[2] # 0 => /\ LowerHalf(r) \in Ranges(data) /\ UpperHalf(r) \in Ranges(data)
                        /\ LowerHalf(r)[1] = r[1] /\ LowerHalf(r)[2] = r[2] \div 2
                        /\ UpperHalf(r)[1] = r[1] + r[2] \div 2 + 1
                        /\ UpperHalf(r)[2] = r[2] - r[2] \div 2 - 1
                        /\ r[2] \div 2 \in Nat /\ r[2] \div 2 < r[2]
                        /\ r[1] + r[2] \div 2 + 1 \in 1 .. Len(data)
  <1>1. r[1] \in Nat /\ r[2] \in Nat /\ r[1] + r[2] <= Len(data)
        BY DEF Ranges
  <1>2. ASSUME r[2] # 0 PROVE r[2] \div 2 \in Nat /\ r[2] \div 2 < r[2]
        BY <1>1, <1>2
  <1> QED BY <1>1, <1>2 DEF Ranges, LowerHalf, UpperHalf

(* The recursion of lower_bound has a result for every range.              *)
LEMMA SearchExists ==
  ASSUME NEW data, Len(data) \in Nat, NEW key
  PROVE  \E S : S = [r \in Ranges(data) |-> Halved(data, key, S, r)]
  <1> DEFINE Upto(S, n) == \A r \in Ranges(data) : r[2] <= n => S[r] = Halved(data, key, S, r)
             T == {n \in Nat : \E S \in [Ranges(data) -> Nat] : Upto(S, n)}
  <1>1. 0 \in T
    <2> DEFINE S == [r \in Ranges(data) |-> r[1]]
    <2>1. S \in [Ranges(data) -> Nat]
          BY DEF Ranges
    <2>2. Upto(S, 0)
      <3> SUFFICES ASSUME NEW r \in Ranges(data), r[2] <= 0 PROVE S[r] = Halved(data, key, S, r)
          OBVIOUS
      <3>1. r[2] = 0
            BY Halves
      <3> QED BY <3>1 DEF Halved
    <2> HIDE DEF S
    <2> QED BY <2>1, <2>2
  <1>2. ASSUME NEW n \in Nat, n \in T PROVE n + 1 \in T
    <2>1. PICK S \in [Ranges(data) -> Nat] : Upto(S, n)
          BY <1>2
    <2> DEFINE F == [r \in Ranges(data) |-> IF r[2] <= n THEN S[r] ELSE Halved(data, key, S, r)]
    <2>2. ASSUME NEW r \in Ranges(data) PROVE Halved(data, key, S, r) \in Nat
          BY Halves DEF Halved
    <2>3. F \in [Ranges(data) -> Nat]
          BY <2>2
    <2>4. ASSUME NEW r \in Ranges(data), r[2] <= n + 1 PROVE F[r] = Halved(data, key, F, r)
      <3>1. Halved(data, key, F, r) = Halved(data, key, S, r)
        <4>1. CASE r[2] = 0
              BY <4>1 DEF Halved
        <4>2. CASE r[2] # 0
          <5>1. LowerHalf(r) \in Ranges(data) /\ UpperHalf(r) \in Ranges(data)
                BY <4>2, Halves
          <5>2. LowerHalf(r)[2] <= n /\ UpperHalf(r)[2] <= n
                BY <2>4, <4>2, Halves
          <5>3. F[LowerHalf(r)] = S[LowerHalf(r)] /\ F[UpperHalf(r)] = S[UpperHalf(r)]
                BY <5>1, <5>2
          <5> HIDE DEF F
          <5> QED BY <5>3 DEF Halved
        <4> QED BY <4>1, <4>2
      <3>2. F[r] = Halved(data, key, S, r)
            BY <2>1, <2>4
      <3> QED BY <3>1, <3>2
    <2> HIDE DEF F
    <2> QED BY <2>3, <2>4
  <1> HIDE DEF T
  <1>3. Len(data) \in T
        BY <1>1, <1>2, Induction
  <1>4. PICK S \in [Ranges(data) -> Nat] : Upto(S, Len(data))
        BY <1>3 DEF T
  <1>5. ASSUME NEW r \in Ranges(data) PROVE S[r] = Halved(data, key, S, r)
    <2>1. r[2] <= Len(data)
      <3>1. r[1] \in Nat /\ r[2] \in Nat /\ r[1] + r[2] <= Len(data)
            BY Halves
      <3> QED BY <3>1
    <2> QED BY <1>4, <2>1
  <1> HIDE DEF Upto
  <1>6. S = [r \in Ranges(data) |-> Halved(data, key, S, r)]
        BY <1>4, <1>5
  <1> QED BY <1>6

(* lower_bound is what that recursion returns for the whole vector.        *)
LEMMA LowerBoundDef ==
  ASSUME NEW data, Len(data) \in Nat, NEW key
  PROVE  \E S : /\ lower_bound(data, key) = S[<<0, Len(data)>>]
                /\ \A r \in Ranges(data) : S[r] = Halved(data, key, S, r)
  <1> DEFINE Search == CHOOSE S : S = [r \in Ranges(data) |-> Halved(data, key, S, r)]
  <1>1. Search = [r \in Ranges(data) |-> Halved(data, key, Search, r)]
        BY SearchExists, Zenon
  <1>2. lower_bound(data, key) = Search[<<0, Len(data)>>]
        BY Zenon DEF lower_bound, Halved, LowerHalf, UpperHalf
  <1> HIDE DEF Search
  <1>3. \A r \in Ranges(data) : Search[r] = Halved(data, key, Search, r)
        BY <1>1
  <1> QED BY <1>2, <1>3

\* A map: its entries, by their place, have a key and something else.
Maps(E) == {data \in Seq(E) : \A e \in E : e.key \in Nat}

\* Entries of a sorted vector are in order.
LEMMA InOrder ==
  ASSUME NEW data, IsSorted(data), Len(data) \in Nat, \A i \in 1 .. Len(data) : data[i].key \in Nat,
         NEW i \in 1 .. Len(data), NEW j \in 1 .. Len(data), i <= j
  PROVE  data[i].key <= data[j].key
  <1>1. CASE i = j
        BY <1>1
  <1>2. CASE i < j
        BY <1>2 DEF IsSorted
  <1> QED BY <1>1, <1>2

(* The halving search ends in its range.  In a sorted vector the entries   *)
(* of the range before its result are smaller than the key, and the one    *)
(* at the result is not.                                                   *)
LEMMA SearchFinds ==
  ASSUME NEW E, NEW data \in Maps(E), NEW key \in Nat, NEW S,
         \A r \in Ranges(data) : S[r] = Halved(data, key, S, r),
         NEW r \in Ranges(data)
  PROVE  /\ S[r] \in Nat /\ r[1] <= S[r] /\ S[r] <= r[1] + r[2]
         /\ IsSorted(data) => /\ \A i \in r[1] + 1 .. S[r] : data[i].key < key
                              /\ S[r] < r[1] + r[2] => data[S[r] + 1].key >= key
  <1> DEFINE Within(q) == S[q] \in Nat /\ q[1] <= S[q] /\ S[q] <= q[1] + q[2]
             First(q) == /\ \A i \in q[1] + 1 .. S[q] : data[i].key < key
                         /\ S[q] < q[1] + q[2] => data[S[q] + 1].key >= key
             Good(q) == Within(q) /\ (IsSorted(data) => First(q))
             T == {n \in Nat : \A q \in Ranges(data) : q[2] <= n => Good(q)}
  <1>1. Len(data) \in Nat /\ \A i \in 1 .. Len(data) : data[i].key \in Nat
        BY ElementOfSeq, LenProperties DEF Maps
  <1>2. 0 \in T
    <2> SUFFICES ASSUME NEW q \in Ranges(data), q[2] <= 0 PROVE Good(q)
        OBVIOUS
    <2>1. q[1] \in Nat /\ q[2] = 0 /\ S[q] = q[1]
          BY <1>1, Halves DEF Halved
    <2> QED BY <2>1
  <1>3. ASSUME NEW n \in Nat, n \in T PROVE n + 1 \in T
    <2> SUFFICES ASSUME NEW q \in Ranges(data), q[2] <= n + 1 PROVE Good(q)
        OBVIOUS
    <2>1. CASE q[2] = 0
      <3>1. q[1] \in Nat /\ S[q] = q[1]
            BY <1>1, <2>1, Halves DEF Halved
      <3> QED BY <2>1, <3>1
    <2>2. CASE q[2] # 0
      <3> DEFINE half == q[2] \div 2
                 mid  == q[1] + half
      <3>1. /\ q[1] \in Nat /\ q[2] \in Nat /\ q[1] + q[2] <= Len(data)
            /\ LowerHalf(q) \in Ranges(data) /\ UpperHalf(q) \in Ranges(data)
            /\ LowerHalf(q)[1] = q[1] /\ LowerHalf(q)[2] = half
            /\ UpperHalf(q)[1] = mid + 1 /\ UpperHalf(q)[2] = q[2] - half - 1
            /\ half \in Nat /\ half < q[2] /\ mid + 1 \in 1 .. Len(data)
            BY <1>1, <2>2, Halves
      <3>2. S[q] = IF data[mid + 1].key < key THEN S[UpperHalf(q)] ELSE S[LowerHalf(q)]
            BY <2>2 DEF Halved
      <3> HIDE DEF half
      <3>3. LowerHalf(q)[2] <= n /\ UpperHalf(q)[2] <= n
            BY <3>1
      <3>4. Good(LowerHalf(q)) /\ Good(UpperHalf(q))
            BY <1>3, <3>1, <3>3
      <3>5. mid \in Nat
            BY <3>1
      <3>6. /\ S[LowerHalf(q)] \in Nat /\ q[1] <= S[LowerHalf(q)] /\ S[LowerHalf(q)] <= mid
            /\ S[UpperHalf(q)] \in Nat /\ mid + 1 <= S[UpperHalf(q)]
            /\ S[UpperHalf(q)] <= q[1] + q[2]
            BY <3>1, <3>4
      <3>7. ASSUME IsSorted(data)
            PROVE  /\ \A i \in q[1] + 1 .. S[LowerHalf(q)] : data[i].key < key
                   /\ S[LowerHalf(q)] < mid => data[S[LowerHalf(q)] + 1].key >= key
                   /\ \A i \in mid + 2 .. S[UpperHalf(q)] : data[i].key < key
                   /\ S[UpperHalf(q)] < q[1] + q[2] => data[S[UpperHalf(q)] + 1].key >= key
        <4>1. First(LowerHalf(q)) /\ First(UpperHalf(q))
              BY <3>4, <3>7
        <4>2. /\ LowerHalf(q)[1] + LowerHalf(q)[2] = mid /\ UpperHalf(q)[1] + 1 = mid + 2
              /\ UpperHalf(q)[1] + UpperHalf(q)[2] = q[1] + q[2] /\ LowerHalf(q)[1] = q[1]
              BY <3>1, <3>5
        <4> HIDE DEF mid
        <4> QED BY <4>1, <4>2
      <3> HIDE DEF mid
      <3>8. CASE data[mid + 1].key < key
        <4>1. S[q] = S[UpperHalf(q)] /\ Within(q) /\ mid + 1 <= S[q]
              BY <3>1, <3>2, <3>8, <3>6, <3>5
        <4>2. ASSUME IsSorted(data) PROVE First(q)
          <5>1. ASSUME NEW i \in q[1] + 1 .. S[q] PROVE data[i].key < key
            <6>1. CASE i <= mid + 1
              <7>1. i \in 1 .. Len(data)
                    BY <1>1, <3>1, <3>5, <6>1
              <7>2. data[i].key <= data[mid + 1].key
                    BY <1>1, <3>1, <4>2, <6>1, <7>1, InOrder
              <7> QED BY <1>1, <3>1, <3>8, <7>1, <7>2
            <6>2. CASE i > mid + 1
              <7>1. i \in mid + 2 .. S[UpperHalf(q)]
                    BY <3>5, <4>1, <6>2
              <7> QED BY <3>7, <4>2, <7>1
            <6> QED BY <3>1, <3>5, <6>1, <6>2
          <5>2. S[q] < q[1] + q[2] => data[S[q] + 1].key >= key
                BY <3>7, <4>1, <4>2
          <5> QED BY <5>1, <5>2
        <4> QED BY <4>1, <4>2
      <3>9. CASE ~(data[mid + 1].key < key)
        <4>1. S[q] = S[LowerHalf(q)] /\ Within(q) /\ S[q] <= mid
          <5>1. S[q] = S[LowerHalf(q)]
                BY <3>2, <3>9
          <5>2. q[1] \in Nat /\ q[2] \in Nat /\ mid <= q[1] + q[2]
                BY <3>1, <3>5, <3>6
          <5> QED BY <3>5, <3>6, <5>1, <5>2
        <4>2. ASSUME IsSorted(data) PROVE First(q)
          <5>1. \A i \in q[1] + 1 .. S[q] : data[i].key < key
                BY <3>7, <4>1, <4>2
          <5>2. data[S[q] + 1].key >= key
            <6>1. CASE S[q] < mid
                  BY <3>7, <4>1, <4>2, <6>1
            <6>2. CASE S[q] = mid
                  BY <1>1, <3>1, <3>9, <6>2
            <6> QED BY <3>5, <4>1, <6>1, <6>2
          <5> QED BY <5>1, <5>2
        <4> QED BY <4>1, <4>2
      <3> QED BY <3>8, <3>9
    <2> QED BY <2>1, <2>2, <1>1, Halves
  <1> HIDE DEF T
  <1>4. r[2] \in T /\ r[2] \in Nat
        BY <1>1, <1>2, <1>3, Halves, Induction
  <1>5. Good(r)
    <2> HIDE DEF Good
    <2> QED BY <1>4 DEF T
  <1> QED BY <1>5

(* Find returns a place of the key or nothing, and the first of a sorted    *)
(* map's places.                                                           *)
THEOREM FindDef ==
  ASSUME NEW E, NEW data \in Maps(E), NEW key \in Nat
  PROVE  /\ Find(data, key) \in 0 .. Len(data)
         /\ Find(data, key) # 0 => data[Find(data, key)].key = key
         /\ IsSorted(data) => \A i \in 1 .. Len(data) :
               data[i].key = key => Find(data, key) # 0 /\ Find(data, key) <= i
  <1>1. Len(data) \in Nat /\ \A i \in 1 .. Len(data) : data[i].key \in Nat
        BY ElementOfSeq, LenProperties DEF Maps
  <1>2. PICK S : /\ lower_bound(data, key) = S[<<0, Len(data)>>]
                 /\ \A r \in Ranges(data) : S[r] = Halved(data, key, S, r)
        BY <1>1, LowerBoundDef
  <1> DEFINE it == lower_bound(data, key)
  <1>3. /\ it \in Nat /\ it <= Len(data)
        /\ IsSorted(data) => /\ \A i \in 1 .. it : data[i].key < key
                             /\ it < Len(data) => data[it + 1].key >= key
    <2>1. <<0, Len(data)>> \in Ranges(data)
          BY <1>1 DEF Ranges
    <2>2. <<0, Len(data)>>[1] = 0 /\ <<0, Len(data)>>[2] = Len(data)
          OBVIOUS
    <2> DEFINE r == <<0, Len(data)>>
    <2>3. /\ S[r] \in Nat /\ r[1] <= S[r] /\ S[r] <= r[1] + r[2]
          /\ IsSorted(data) => /\ \A i \in r[1] + 1 .. S[r] : data[i].key < key
                               /\ S[r] < r[1] + r[2] => data[S[r] + 1].key >= key
      <3> HIDE DEF r
      <3> QED BY <1>2, <2>1, SearchFinds DEF r
    <2> QED BY <1>1, <1>2, <2>2, <2>3
  <1> HIDE DEF it
  <1>4. Find(data, key) = IF it # Len(data) /\ data[it + 1].key = key THEN it + 1 ELSE 0
        BY DEF Find, it
  <1>5. ASSUME IsSorted(data), NEW i \in 1 .. Len(data), data[i].key = key
        PROVE  Find(data, key) # 0 /\ Find(data, key) <= i
    <2>1. it < i
      <3> SUFFICES ASSUME i <= it PROVE FALSE
          BY <1>3
      <3>1. data[i].key < key
            BY <1>3, <1>5
      <3> QED BY <1>5, <3>1
    <2>2. data[it + 1].key = key
      <3>1. it + 1 \in 1 .. Len(data) /\ data[it + 1].key >= key
            BY <1>1, <1>3, <1>5, <2>1
      <3>2. data[it + 1].key <= data[i].key
        <4>1. it + 1 <= i
              BY <1>3, <2>1
        <4> QED BY <1>1, <1>5, <3>1, <4>1, InOrder
      <3> QED BY <1>1, <1>5, <3>1, <3>2
    <2> QED BY <1>1, <1>3, <1>4, <2>1, <2>2
  <1> QED BY <1>1, <1>3, <1>4, <1>5

\* s holds the entries of data, each in one place.
Rearranged(s, data) ==
    \E p \in [1 .. Len(data) -> 1 .. Len(data)] :
        /\ \A i, j \in 1 .. Len(data) : p[i] = p[j] => i = j
        /\ \A j \in 1 .. Len(data) : \E i \in 1 .. Len(data) : p[i] = j
        /\ \A i \in 1 .. Len(data) : s[i] = data[p[i]]

(* Sort sorts, and loses no entry and gains none.                          *)
THEOREM SortPermutes ==
  ASSUME NEW E, NEW data \in Maps(E), NEW s \in Sort(data)
  PROVE  /\ s \in Maps(E) /\ Len(s) = Len(data) /\ IsSorted(s)
         /\ Rearranged(s, data)
  <1>1. Len(data) \in Nat /\ \A i \in 1 .. Len(data) : data[i] \in E
        BY ElementOfSeq, LenProperties DEF Maps
  <1> DEFINE n == Len(data)
  <1> HIDE DEF n
  <1>2. PICK p \in Arrangements(n) : s = [i \in 1 .. n |-> data[p[i]]]
        BY DEF Sort, n
  <1>3. p \in [1 .. n -> 1 .. n] /\ \A i, j \in 1 .. n : p[i] = p[j] => i = j
        BY <1>2 DEF Arrangements
  <1>4. \A j \in 1 .. n : \E i \in 1 .. n : p[i] = j
    <2>1. p \in Injection(1 .. n, 1 .. n)
          BY <1>3 DEF Injection, IsInjective
    <2>2. IsFiniteSet(1 .. n)
          BY <1>1, FS_Interval DEF n
    <2>3. p \in Surjection(1 .. n, 1 .. n)
          BY <2>1, <2>2, FS_Injection
    <2> QED BY <2>3 DEF Surjection
  <1>5. s \in Seq(E) /\ Len(s) = n /\ \A i \in 1 .. n : s[i] = data[p[i]]
    <2>1. \A i \in 1 .. n : data[p[i]] \in E
          BY <1>1, <1>3 DEF n
    <2> QED BY <1>1, <1>2, <2>1 DEF n
  <1>6. IsSorted(s)
        BY DEF Sort
  <1> QED BY <1>3, <1>4, <1>5, <1>6 DEF n, Maps, Rearranged

---------------------------------------------------------------------------
(* The entries of the instrument map.                                      *)

EntryType == [key : Codes, rec : BOOLEAN, quota : [Fields -> {0, 1}]]
Places == 1 .. Len(entries)

EntriesInv == entries \in Seq(EntryType)

\* Sort was called wherever Find is.
OrderInv ==
    /\ sorted => IsSorted(entries)
    /\ core \notin {"inited", "sort first", "sort"} => sorted
    /\ plugin = "dz_gfex_md" /\ core = "inited" => sorted

\* Who has an entry, how many have two, and whose is recorded.
PlaceInv ==
    /\ subscribes \in [Codes -> Nat] /\ recorded \subseteq Codes
    /\ \A c \in Configured : \E i \in Places : entries[i].key = c
    /\ \A i \in Places : entries[i].key \in Configured \/ subscribes[entries[i].key] > 0
    /\ \A i, j \in Places :
          /\ entries[i].key = entries[j].key
          /\ entries[i].key \in Configured \/ subscribes[entries[i].key] <= 1
          => i = j
    /\ \A c \in recorded : \E i \in Places : entries[i].key = c /\ entries[i].rec

\* The index map holds configured instruments, and so do the threads about to write it.
MapInv ==
    /\ m_lv1_code_map \in [DOMAIN m_lv1_code_map -> Configured]
    /\ DOMAIN m_lv1_code_map \subseteq m_lv1_code_index_set
    /\ core \in {"map", "cache"} => Row.code \in Configured
    /\ core = "map" => Row.idx \in m_lv1_code_index_set
    /\ lv1 = "map" => msg.code \in Configured /\ msg.idx \in m_lv1_code_index_set
    /\ core # "crashed"

\* What an index stands for comes from the stream or from the file.
SourceInv ==
    \A i \in DOMAIN m_lv1_code_map :
        \/ m_lv1_code_map[i] = Exchange[i]
        \/ \E r \in DOMAIN File : File[r] = [code |-> m_lv1_code_map[i], idx |-> i]

\* The level 1 thread's pointer is to the entry of the code its index stands for.
PointInv ==
    /\ quota \in 0 .. Len(entries)
    /\ lv1 \in {"find", "merge"} => msg \in Quotes
    /\ lv1 = "merge" => /\ msg.idx \in DOMAIN m_lv1_code_map
                        /\ quota # 0 => entries[quota].key = m_lv1_code_map[msg.idx]

BookInv == book \in [Codes -> [Fields -> {0, 1}]] /\ missed \in [Codes -> SUBSET Fields]

\* Instruments that no disputed index stands for, and the fields of a quote on its way to its entry.
Clear(c) == /\ c \in Configured
            /\ \A d \in Disputed : Exchange[d] # c /\ \A r \in DOMAIN File : File[r] # [code |-> c, idx |-> d]
Pending(c) == IF lv1 \in {"find", "merge"} /\ Exchange[msg.idx] = c THEN msg.fields ELSE {}

MergeInv ==
    lv1 # "undefined" =>
        \A i \in Places : Clear(entries[i].key) =>
            \A f \in Fields \ (missed[entries[i].key] \cup Pending(entries[i].key)) :
                entries[i].quota[f] = book[entries[i].key][f]

---------------------------------------------------------------------------
(* The entries are a map with keys of instruments.                         *)
LEMMA EntriesMap ==
  ASSUME EntriesInv
  PROVE  /\ entries \in Maps(EntryType) /\ Len(entries) \in Nat /\ Codes \subseteq Nat
         /\ \A i \in Places : entries[i] \in EntryType /\ entries[i].key \in Codes
  <1>1. Codes \subseteq Nat
        BY CodesAssumption DEF CodesAssumption
  <1>2. \A e \in EntryType : e.key \in Nat
        BY <1>1 DEF EntryType
  <1>3. Len(entries) \in Nat /\ \A i \in Places : entries[i] \in EntryType
        BY ElementOfSeq, LenProperties DEF EntriesInv, Places
  <1>4. \A i \in Places : entries[i].key \in Codes
        BY <1>3 DEF EntryType
  <1> QED BY <1>1, <1>2, <1>3, <1>4 DEF Maps, EntriesInv

(* Find gives a code's first place, once sorted.                           *)
LEMMA Found ==
  ASSUME EntriesInv, NEW c \in Codes
  PROVE  /\ Find(entries, c) \in 0 .. Len(entries)
         /\ Find(entries, c) # 0 => Find(entries, c) \in Places /\ entries[Find(entries, c)].key = c
         /\ IsSorted(entries) => \A i \in Places :
               entries[i].key = c => Find(entries, c) # 0 /\ Find(entries, c) <= i
  <1>1. c \in Nat
        BY EntriesMap
  <1> QED BY <1>1, EntriesMap, FindDef DEF Places

(* LoadJsonCfg makes one entry for each configured instrument.             *)
LEMMA LoadedOnce ==
  ASSUME LoadJsonCfg
  PROVE  /\ EntriesInv /\ (sorted => IsSorted(entries)) /\ (plugin = "dz_gfex_md" => sorted)
         /\ \A c \in Configured : \E i \in Places : entries[i].key = c
         /\ \A i \in Places : entries[i].key \in Configured
         /\ \A i, j \in Places : entries[i].key = entries[j].key => i = j
         /\ \A i \in Places : \A f \in Fields : entries[i].quota[f] = 0
  <1> DEFINE n == Cardinality(Configured)
  <1>1. IsFiniteSet(Configured) /\ n \in Nat
    <2>1. IsFiniteSet(Configured)
          BY CodesAssumption, FS_Subset DEF CodesAssumption
    <2> QED BY <2>1, FS_CardinalityType
  <1>2. IsFiniteSet(1 .. n) /\ Cardinality(1 .. n) = n
        BY <1>1, FS_Interval
  <1> HIDE DEF n
  <1>3. PICK s \in [1 .. n -> Configured] :
           /\ \A c \in Configured : \E i \in DOMAIN s : s[i] = c
           /\ LET data == [i \in DOMAIN s |-> Entry(s[i])]
              IN  IF plugin = "dz_gfex_md" THEN entries \in Sort(data) /\ sorted = TRUE
                                           ELSE entries = data /\ sorted = FALSE
        BY DEF LoadJsonCfg, n
  <1> DEFINE data == [i \in 1 .. n |-> Entry(s[i])]
  <1>4. \A i, j \in 1 .. n : s[i] = s[j] => i = j
    <2>1. s \in Surjection(1 .. n, Configured)
          BY <1>3 DEF Surjection
    <2>2. s \in Injection(1 .. n, Configured)
          BY <1>2, <2>1, FS_SurjSameCardinalityImpliesInj DEF n
    <2> QED BY <2>2 DEF Injection, IsInjective
  <1>5. /\ \A i \in 1 .. n : s[i] \in Configured /\ s[i] \in Codes
        /\ \A c \in Configured : \E i \in 1 .. n : s[i] = c
    <2>1. Configured \subseteq Codes
          BY CodesAssumption DEF CodesAssumption
    <2> QED BY <1>3, <2>1
  <1>6. \A i \in 1 .. n : /\ data[i] = Entry(s[i]) /\ data[i] \in EntryType /\ data[i].key = s[i]
                          /\ \A f \in Fields : data[i].quota[f] = 0
        BY <1>5 DEF Entry, EntryType
  <1>7. data \in Seq(EntryType) /\ Len(data) = n
        BY <1>1, <1>6
  <1>8. data \in Maps(EntryType)
    <2>1. \A e \in EntryType : e.key \in Nat
          BY CodesAssumption DEF CodesAssumption, EntryType
    <2> QED BY <1>7, <2>1 DEF Maps
  <1>9. IF plugin = "dz_gfex_md" THEN entries \in Sort(data) /\ sorted = TRUE
                                 ELSE entries = data /\ sorted = FALSE
        BY <1>3
  <1> HIDE DEF data
  <1>10. CASE plugin # "dz_gfex_md"
    <2>1. entries = data /\ sorted = FALSE
          BY <1>9, <1>10
    <2> QED BY <1>4, <1>5, <1>6, <1>7, <1>10, <2>1 DEF EntriesInv, Places
  <1>11. CASE plugin = "dz_gfex_md"
    <2>1. entries \in Sort(data) /\ sorted = TRUE
          BY <1>9, <1>11
    <2>2. /\ entries \in Maps(EntryType) /\ Len(entries) = Len(data) /\ IsSorted(entries)
          /\ Rearranged(entries, data)
          BY <1>8, <2>1, SortPermutes
    <2>3. PICK p \in [1 .. Len(data) -> 1 .. Len(data)] :
               /\ \A i, j \in 1 .. Len(data) : p[i] = p[j] => i = j
               /\ \A j \in 1 .. Len(data) : \E i \in 1 .. Len(data) : p[i] = j
               /\ \A i \in 1 .. Len(data) : entries[i] = data[p[i]]
          BY <2>2 DEF Rearranged
    <2>4. 1 .. Len(data) = 1 .. n /\ Places = 1 .. n
          BY <1>7, <2>2 DEF Places
    <2>5. ASSUME NEW i \in Places
          PROVE  /\ p[i] \in 1 .. n /\ entries[i].key = s[p[i]]
                 /\ \A f \in Fields : entries[i].quota[f] = 0
      <3>1. p[i] \in 1 .. n /\ entries[i] = data[p[i]]
            BY <2>3, <2>4
      <3> QED BY <1>6, <3>1
    <2>6. ASSUME NEW i \in Places, NEW j \in Places, entries[i].key = entries[j].key PROVE i = j
      <3>1. p[i] = p[j]
            BY <1>4, <2>5, <2>6
      <3> QED BY <2>3, <2>4, <3>1
    <2>7. \A c \in Configured : \E i \in Places : entries[i].key = c
      <3> TAKE c \in Configured
      <3>1. PICK j \in 1 .. n : s[j] = c
            BY <1>5
      <3>2. PICK i \in 1 .. n : p[i] = j
            BY <2>3, <2>4
      <3> QED BY <2>4, <2>5, <3>1, <3>2
    <2>8. \A i \in Places : entries[i].key \in Configured
          BY <1>5, <2>5
    <2> QED BY <1>11, <2>1, <2>2, <2>5, <2>6, <2>7, <2>8 DEF EntriesInv, Maps
  <1> QED BY <1>10, <1>11

(* The steps that touch the entries.                                       *)
LEMMA EntrySteps ==
  [Next]_vars => \/ UNCHANGED <<entries, sorted, subscribes, recorded>>
                 \/ \E c \in Codes : InitNew(c) \/ Record(c)
                 \/ SortAll \/ Merge
  BY Zenon DEF Next, LoadMaping, HandleLv1, vars, map, hist, Connect, LoadTest, LoadEmplace, LoadAppend,
     LoadIndex, LoadMap, LoadCache, LoadDone, Arrive, SaveTest, SaveAppend, SaveEmplace, SaveUpdate,
     Unsubscribed, StaticCache, CodeIndex, CodeMap, QuoteMissed, QuoteFind, MergeForever, MergeMoved, Idle

\* What a quote names.
LEMMA QuoteType ==
  ASSUME NEW m \in Quotes
  PROVE  m.idx \in Idxs /\ Exchange[m.idx] \in Codes /\ m.fields \subseteq Fields
  BY CodesAssumption DEF CodesAssumption, Quotes

\* An entry written in its place.
LEMMA EntryWritten ==
  ASSUME EntriesInv, NEW i \in Places, NEW e \in EntryType, entries' = [entries EXCEPT ![i] = e]
  PROVE  EntriesInv' /\ Places' = Places /\ entries'[i] = e /\ \A j \in Places \ {i} : entries'[j] = entries[j]
  BY ExceptSeq, LenProperties DEF EntriesInv, Places

(* The record a level 2 quote leaves is in an entry of its instrument.     *)
LEMMA RecordEffect ==
  ASSUME EntriesInv, NEW c \in Codes, Record(c)
  PROVE  /\ EntriesInv' /\ Places' = Places
         /\ \A j \in Places : /\ entries'[j].key = entries[j].key /\ entries'[j].quota = entries[j].quota
                              /\ entries[j].rec => entries'[j].rec
         /\ recorded' = recorded \cup {c}
         /\ \E i \in Places : entries[i].key = c /\ entries'[i].rec
  <1> DEFINE i == Find(entries, c)
             e == [entries[i] EXCEPT !.rec = TRUE]
  <1>1. i # 0 /\ entries' = [entries EXCEPT ![i] = e] /\ recorded' = recorded \cup {c}
        BY DEF Record
  <1>2. i \in Places /\ entries[i].key = c
        BY <1>1, Found
  <1>3. e \in EntryType /\ e.key = c /\ e.quota = entries[i].quota /\ e.rec
    <2>1. entries[i] \in EntryType
          BY <1>2, EntriesMap
    <2> QED BY <1>2, <2>1 DEF EntryType
  <1> HIDE DEF e, i
  <1>4. EntriesInv' /\ Places' = Places /\ entries'[i] = e /\ \A j \in Places \ {i} : entries'[j] = entries[j]
        BY <1>1, <1>2, <1>3, EntryWritten
  <1> QED BY <1>1, <1>2, <1>3, <1>4

(* Merge writes the quote's fields into the entry it points to.            *)
LEMMA MergeEffect ==
  ASSUME EntriesInv, PointInv, BookInv, Merge
  PROVE  /\ EntriesInv' /\ Places' = Places /\ quota \in Places
         /\ \A j \in Places : /\ entries'[j].key = entries[j].key
                              /\ entries[j].rec => entries'[j].rec
                              /\ j # quota => entries'[j].quota = entries[j].quota
         /\ \A f \in Fields : entries'[quota].quota[f] = IF f \in msg.fields THEN book[Exchange[msg.idx]][f]
                                                                             ELSE entries[quota].quota[f]
         /\ \A c \in recorded' : c \in recorded \/ (c = entries[quota].key /\ entries'[quota].rec)
  <1>1. lv1 = "merge" /\ quota \in Places /\ msg \in Quotes
        BY DEF Merge, PointInv, Places
  <1>2. /\ entries[quota] \in EntryType /\ book[Exchange[msg.idx]] \in [Fields -> {0, 1}]
        /\ entries[quota].key \in Codes
        BY <1>1, EntriesMap, QuoteType DEF BookInv
  <1> DEFINE new == [f \in Fields |-> IF f \in msg.fields THEN book[Exchange[msg.idx]][f]
                                                          ELSE entries[quota].quota[f]]
             e(rec) == [key |-> entries[quota].key, rec |-> rec, quota |-> new]
  <1>3. PICK rec \in {entries[quota].rec, TRUE} :
           /\ entries' = [entries EXCEPT ![quota].rec = rec,
                            ![quota].quota = [f \in Fields |-> IF f \in msg.fields
                                                               THEN book[Exchange[msg.idx]][f] ELSE @[f]]]
           /\ recorded' = IF rec THEN recorded \cup {entries[quota].key} ELSE recorded
        BY Zenon DEF Merge
  <1>4. new \in [Fields -> {0, 1}]
    <2>1. entries[quota].quota \in [Fields -> {0, 1}]
          BY <1>2 DEF EntryType
    <2> QED BY <1>2, <2>1
  <1>5. rec \in BOOLEAN
        BY <1>2 DEF EntryType
  <1>6. entries' = [entries EXCEPT ![quota] = e(rec)]
    <2> DEFINE r1 == [entries[quota] EXCEPT !.rec = rec]
               e1 == [entries EXCEPT ![quota] = r1]
    <2>1. DOMAIN entries = Places /\ quota \in DOMAIN entries
          BY <1>1, LenProperties DEF EntriesInv, Places
    <2>2. e1[quota] = r1 /\ r1.quota = entries[quota].quota
          BY <1>2, <2>1 DEF EntryType
    <2>3. entries' = [e1 EXCEPT ![quota] = [e1[quota] EXCEPT !.quota =
                         [f \in Fields |-> IF f \in msg.fields THEN book[Exchange[msg.idx]][f]
                                                               ELSE e1[quota].quota[f]]]]
          BY <1>3
    <2>4. [r1 EXCEPT !.quota = new] = e(rec)
      <3>1. r1 = [key |-> entries[quota].key, rec |-> rec, quota |-> entries[quota].quota]
            BY <1>2 DEF EntryType
      <3> HIDE DEF new, r1
      <3> QED BY <3>1
    <2>5. entries' = [e1 EXCEPT ![quota] = e(rec)]
      <3> HIDE DEF e1, r1, e
      <3> QED BY <2>2, <2>3, <2>4
    <2>6. entries \in [Places -> EntryType]
          BY EntriesMap, <2>1 DEF EntriesInv
    <2> HIDE DEF r1, e
    <2> QED BY <2>1, <2>5, <2>6
  <1>7. e(rec) \in EntryType /\ e(rec).key = entries[quota].key /\ e(rec).rec = rec /\ e(rec).quota = new
        BY <1>2, <1>4, <1>5 DEF EntryType
  <1>8. \A f \in Fields : new[f] = IF f \in msg.fields THEN book[Exchange[msg.idx]][f] ELSE entries[quota].quota[f]
        OBVIOUS
  <1> HIDE DEF e, new
  <1>9. /\ EntriesInv' /\ Places' = Places /\ entries'[quota] = e(rec)
        /\ \A j \in Places \ {quota} : entries'[j] = entries[j]
        BY <1>1, <1>6, <1>7, EntryWritten
  <1>10. entries[quota].rec => rec
        BY <1>2, <1>3
  <1>11. \A c \in recorded' : c \in recorded \/ (c = entries[quota].key /\ rec)
        BY <1>3
  <1> QED BY <1>1, <1>7, <1>8, <1>9, <1>10, <1>11

(* Sort moves the entries.                                                 *)
LEMMA SortEffect ==
  ASSUME EntriesInv, SortAll
  PROVE  EntriesInv' /\ Places' = Places /\ IsSorted(entries') /\ Rearranged(entries', entries)
  <1>1. entries' \in Sort(entries)
        BY DEF SortAll
  <1>2. entries' \in Maps(EntryType) /\ Len(entries') = Len(entries) /\ IsSorted(entries') /\ Rearranged(entries', entries)
        BY <1>1, EntriesMap, SortPermutes
  <1> QED BY <1>2 DEF EntriesInv, Places, Maps

(* A subscription of an instrument that is not configured adds an entry.   *)
LEMMA NewEffect ==
  ASSUME EntriesInv, NEW c \in Codes, InitNew(c), c \notin Configured
  PROVE  /\ EntriesInv' /\ Len(entries') = Len(entries) + 1 /\ entries'[Len(entries) + 1] = Entry(c)
         /\ Places' = Places \cup {Len(entries) + 1} /\ Len(entries) + 1 \notin Places
         /\ \A j \in Places : entries'[j] = entries[j]
  <1>1. entries' = Append(entries, Entry(c)) /\ entries \in Seq(EntryType) /\ Len(entries) \in Nat
        BY EntriesMap DEF InitNew, InitOnce, EntriesInv
  <1>2. Entry(c) \in EntryType
        BY DEF Entry, EntryType
  <1>3. /\ entries' \in Seq(EntryType) /\ Len(entries') = Len(entries) + 1
        /\ entries'[Len(entries) + 1] = Entry(c)
        /\ \A j \in 1 .. Len(entries) : entries'[j] = entries[j]
        BY <1>1, <1>2, AppendProperties
  <1> QED BY <1>1, <1>3 DEF EntriesInv, Places

---------------------------------------------------------------------------
(* Each step keeps the invariants.                                         *)

\* Keys in order stay in order where only records and quotes are written.
LEMMA KeysKept ==
  ASSUME EntriesInv, Places' = Places, \A j \in Places : entries'[j].key = entries[j].key, IsSorted(entries)
  PROVE  IsSorted(entries')
  BY DEF IsSorted, Places

(* Only InitOnce leaves the map unsorted, and Sort follows it.             *)
LEMMA OrderStep ==
  ASSUME EntriesInv, PointInv, BookInv, OrderInv, [Next]_vars
  PROVE  OrderInv'
  <1>1. CASE UNCHANGED <<entries, sorted>>
    <2>1. /\ core' \notin {"inited", "sort first", "sort"} => sorted
          /\ plugin' = "dz_gfex_md" /\ core' = "inited" => sorted
          BY <1>1 DEF OrderInv, Next, LoadMaping, HandleLv1, vars, map, hist, Connect, LoadTest, LoadEmplace,
             LoadAppend, LoadIndex, LoadMap, LoadCache, LoadDone, InitNew, SortAll, Record, Arrive, SaveTest,
             SaveAppend, SaveEmplace, SaveUpdate, Unsubscribed, StaticCache, CodeIndex, CodeMap, QuoteMissed,
             QuoteFind, Merge, MergeForever, MergeMoved, Idle, Core, Lv1, Goes
    <2> QED BY <1>1, <2>1 DEF OrderInv
  <1>2. ASSUME NEW c \in Codes, InitNew(c) PROVE OrderInv'
    <2>1. core' \in {"sort first", "sort"}
          BY <1>2 DEF InitNew, Core, Goes
    <2>2. CASE c \in Configured
          BY <1>2, <2>1, <2>2 DEF InitNew, OrderInv
    <2>3. CASE c \notin Configured
          BY <1>2, <2>1, <2>3 DEF InitNew, OrderInv
    <2> QED BY <2>2, <2>3
  <1>3. ASSUME NEW c \in Codes, Record(c) PROVE OrderInv'
    <2>1. UNCHANGED <<sorted, core, plugin>>
          BY <1>3 DEF Record
    <2> QED BY <1>3, <2>1, RecordEffect, KeysKept DEF OrderInv
  <1>4. CASE SortAll
    <2>1. sorted' = TRUE
          BY <1>4 DEF SortAll
    <2> QED BY <1>4, <2>1, SortEffect DEF OrderInv
  <1>5. CASE Merge
    <2>1. UNCHANGED <<sorted, core, plugin>>
          BY <1>5, Zenon DEF Merge, Lv1, Goes
    <2> QED BY <1>5, <2>1, MergeEffect, KeysKept DEF OrderInv
  <1> QED BY <1>1, <1>2, <1>3, <1>4, <1>5, EntrySteps

(* No step takes an entry away or gives a configured instrument another.   *)
LEMMA PlaceStep ==
  ASSUME EntriesInv, PointInv, BookInv, PlaceInv, [Next]_vars
  PROVE  PlaceInv'
  <1>1. CASE UNCHANGED <<entries, subscribes, recorded>>
        BY <1>1 DEF PlaceInv, Places
  <1>2. ASSUME NEW c \in Codes, InitNew(c) PROVE PlaceInv'
    <2>1. CASE c \in Configured
      <3>1. UNCHANGED <<entries, subscribes, recorded>>
            BY <1>2, <2>1 DEF InitNew
      <3> QED BY <1>1, <3>1
    <2>2. CASE c \notin Configured
      <3> DEFINE n == Len(entries) + 1
      <3>1. /\ entries'[n] = Entry(c) /\ Places' = Places \cup {n} /\ n \notin Places
            /\ \A j \in Places : entries'[j] = entries[j]
            BY <1>2, <2>2, NewEffect
      <3>2. Entry(c).key = c
            BY DEF Entry
      <3>3. subscribes' = [subscribes EXCEPT ![c] = @ + 1] /\ recorded' = recorded
            BY <1>2, <2>2 DEF InitNew
      <3>4. /\ subscribes' \in [Codes -> Nat] /\ subscribes'[c] = subscribes[c] + 1
            /\ \A d \in Codes \ {c} : subscribes'[d] = subscribes[d]
            BY <3>3 DEF PlaceInv
      <3> HIDE DEF n
      <3>5. \A d \in Configured : \E i \in Places' : entries'[i].key = d
            BY <3>1 DEF PlaceInv
      <3>6. \A i \in Places' : entries'[i].key \in Configured \/ subscribes'[entries'[i].key] > 0
        <4> TAKE i \in Places'
        <4>1. CASE i = n
              BY <3>1, <3>2, <3>4, <4>1 DEF PlaceInv
        <4>2. CASE i \in Places
          <5>1. entries'[i].key = entries[i].key /\ entries[i].key \in Codes
                BY <3>1, <4>2, EntriesMap
          <5>2. subscribes[entries[i].key] \in Nat
                BY <5>1 DEF PlaceInv
          <5> QED BY <3>4, <4>2, <5>1, <5>2 DEF PlaceInv
        <4> QED BY <3>1, <4>1, <4>2
      <3>7. ASSUME NEW i \in Places', NEW j \in Places', entries'[i].key = entries'[j].key,
                   entries'[i].key \in Configured \/ subscribes'[entries'[i].key] <= 1
            PROVE  i = j
        <4>1. \A k \in Places : entries'[k].key = entries[k].key /\ entries[k].key \in Codes
              BY <3>1, EntriesMap
        <4>2. entries'[n].key = c
              BY <3>1, <3>2
        <4>3. ASSUME NEW k \in Places, entries'[k].key = c, subscribes'[c] <= 1 PROVE FALSE
          <5>1. entries[k].key = c /\ subscribes[c] \in Nat
                BY <4>1, <4>3 DEF PlaceInv
          <5> QED BY <2>2, <3>4, <4>3, <5>1 DEF PlaceInv
        <4>4. CASE i \in Places /\ j \in Places
          <5>1. entries[i].key = entries[j].key /\ subscribes[entries[i].key] \in Nat
                BY <3>7, <4>1, <4>4 DEF PlaceInv
          <5>2. entries[i].key \in Configured \/ subscribes[entries[i].key] <= 1
                BY <2>2, <3>4, <3>7, <4>1, <4>4, <5>1
          <5> QED BY <4>4, <5>1, <5>2 DEF PlaceInv
        <4>5. CASE i = n /\ j \in Places
              BY <2>2, <3>7, <4>2, <4>3, <4>5
        <4>6. CASE i \in Places /\ j = n
              BY <2>2, <3>7, <4>2, <4>3, <4>6
        <4> QED BY <3>1, <4>4, <4>5, <4>6
      <3>8. \A d \in recorded' : \E i \in Places' : entries'[i].key = d /\ entries'[i].rec
            BY <3>1, <3>3 DEF PlaceInv
      <3> QED BY <3>3, <3>4, <3>5, <3>6, <3>7, <3>8 DEF PlaceInv
    <2> QED BY <2>1, <2>2
  <1>3. ASSUME NEW c \in Codes, Record(c) PROVE PlaceInv'
    <2>1. subscribes' = subscribes
          BY <1>3 DEF Record
    <2>2. /\ Places' = Places /\ recorded' = recorded \cup {c}
          /\ \A j \in Places : entries'[j].key = entries[j].key /\ (entries[j].rec => entries'[j].rec)
          /\ \E i \in Places : entries[i].key = c /\ entries'[i].rec
          BY <1>3, RecordEffect
    <2> QED BY <2>1, <2>2 DEF PlaceInv
  <1>4. CASE SortAll
    <2>1. subscribes' = subscribes /\ recorded' = recorded
          BY <1>4 DEF SortAll, hist
    <2>2. Places' = Places /\ Rearranged(entries', entries)
          BY <1>4, SortEffect
    <2>3. PICK p \in [Places -> Places] :
             /\ \A i, j \in Places : p[i] = p[j] => i = j
             /\ \A j \in Places : \E i \in Places : p[i] = j
             /\ \A i \in Places : entries'[i] = entries[p[i]]
          BY <2>2 DEF Rearranged, Places
    <2>4. \A i \in Places : p[i] \in Places
          BY <2>3
    <2>5. \A d \in Configured : \E i \in Places' : entries'[i].key = d
          BY <2>2, <2>3 DEF PlaceInv
    <2>6. \A i \in Places' : entries'[i].key \in Configured \/ subscribes'[entries'[i].key] > 0
          BY <2>1, <2>2, <2>3, <2>4 DEF PlaceInv
    <2>7. ASSUME NEW i \in Places', NEW j \in Places', entries'[i].key = entries'[j].key,
                 entries'[i].key \in Configured \/ subscribes'[entries'[i].key] <= 1
          PROVE  i = j
      <3>1. entries[p[i]].key = entries[p[j]].key
            BY <2>2, <2>3, <2>7
      <3>2. entries[p[i]].key \in Configured \/ subscribes[entries[p[i]].key] <= 1
            BY <2>1, <2>2, <2>3, <2>7
      <3>3. p[i] = p[j]
            BY <2>2, <2>4, <3>1, <3>2 DEF PlaceInv
      <3> QED BY <2>2, <2>3, <3>3
    <2>8. \A d \in recorded' : \E i \in Places' : entries'[i].key = d /\ entries'[i].rec
          BY <2>1, <2>2, <2>3 DEF PlaceInv
    <2> QED BY <2>1, <2>5, <2>6, <2>7, <2>8 DEF PlaceInv
  <1>5. CASE Merge
    <2>1. subscribes' = subscribes
          BY <1>5, Zenon DEF Merge
    <2>2. /\ Places' = Places /\ quota \in Places
          /\ \A j \in Places : entries'[j].key = entries[j].key /\ (entries[j].rec => entries'[j].rec)
          /\ \A c \in recorded' : c \in recorded \/ (c = entries[quota].key /\ entries'[quota].rec)
          BY <1>5, MergeEffect
    <2>3. entries[quota].key \in Codes
          BY <2>2, EntriesMap
    <2> QED BY <2>1, <2>2, <2>3 DEF PlaceInv
  <1> QED BY <1>1, <1>2, <1>3, <1>4, <1>5, EntrySteps

(* Every entry keeps its type.                                             *)
LEMMA EntriesStep ==
  ASSUME EntriesInv, PointInv, BookInv, [Next]_vars
  PROVE  EntriesInv'
  <1>1. CASE UNCHANGED entries
        BY <1>1 DEF EntriesInv
  <1>2. ASSUME NEW c \in Codes, InitNew(c) PROVE EntriesInv'
    <2>1. CASE c \in Configured
      <3>1. UNCHANGED entries
            BY <1>2, <2>1 DEF InitNew
      <3> QED BY <1>1, <3>1
    <2> QED BY <1>2, <2>1, NewEffect
  <1> QED BY <1>1, <1>2, EntrySteps, RecordEffect, SortEffect, MergeEffect

(* Who writes the index map, or is about to.                               *)
LEMMA MapSteps ==
  [Next]_vars => \/ LoadMap \/ CodeMap \/ LoadIndex \/ CodeIndex \/ LoadCache
                 \/ /\ UNCHANGED index
                    /\ core' \notin {"map", "cache", "crashed"} \/ UNCHANGED <<core, row>>
                    /\ lv1' # "map" \/ UNCHANGED <<lv1, msg>>
  BY DEF Next, LoadMaping, HandleLv1, vars, map, save, index, hist, Connect, LoadTest, LoadEmplace, LoadAppend,
     LoadDone, InitNew, SortAll, Record, Arrive, SaveTest, SaveAppend, SaveEmplace, SaveUpdate, Unsubscribed,
     StaticCache, QuoteMissed, QuoteFind, Merge, MergeForever, MergeMoved, Idle, Core, Lv1, Goes

\* emplace of a configured instrument.
LEMMA EmplacedCode ==
  ASSUME MapInv, NEW i \in m_lv1_code_index_set, NEW c \in Configured,
         m_lv1_code_map' = Emplaced(m_lv1_code_map, i, c), UNCHANGED m_lv1_code_index_set
  PROVE  /\ m_lv1_code_map' \in [DOMAIN m_lv1_code_map' -> Configured]
         /\ DOMAIN m_lv1_code_map' \subseteq m_lv1_code_index_set'
  BY DEF MapInv, Emplaced

(* Only configured instruments get into the index map, and LoadMaping      *)
(* finds their entries.                                                    *)
LEMMA MapStep ==
  ASSUME ControlInv, EntriesInv, OrderInv, PlaceInv, MapInv, [Next]_vars
  PROVE  MapInv'
  <1>1. CASE LoadMap
    <2>1. /\ core = "map" /\ core' = "cache" /\ row' = row /\ lv1' = lv1 /\ msg' = msg
          /\ m_lv1_code_map' = Emplaced(m_lv1_code_map, Row.idx, Row.code)
          /\ UNCHANGED m_lv1_code_index_set
          BY <1>1 DEF LoadMap, Core, Goes
    <2>2. Row.code \in Configured /\ Row.idx \in m_lv1_code_index_set /\ Row' = Row
          BY <2>1 DEF MapInv, Row
    <2> QED BY <2>1, <2>2, EmplacedCode DEF MapInv
  <1>2. CASE CodeMap
    <2>1. /\ lv1 = "map" /\ lv1' = "idle" /\ UNCHANGED <<core, row, m_lv1_code_index_set>>
          /\ m_lv1_code_map' = Emplaced(m_lv1_code_map, msg.idx, msg.code)
          BY <1>2 DEF CodeMap, Lv1, Goes
    <2>2. msg.code \in Configured /\ msg.idx \in m_lv1_code_index_set /\ Row' = Row
          BY <2>1 DEF MapInv, Row
    <2> QED BY <2>1, <2>2, EmplacedCode DEF MapInv
  <1>3. CASE LoadIndex
    <2>1. UNCHANGED <<lv1, msg, m_lv1_code_map>>
          BY <1>3 DEF LoadIndex, Core, Goes, index
    <2>2. CASE Row.code \notin Configured
      <3>1. core' = "row" /\ UNCHANGED index
            BY <1>3, <2>2 DEF LoadIndex, Core, Goes
      <3> QED BY <2>1, <3>1 DEF MapInv, index
    <2>3. CASE Row.code \in Configured /\ Row.idx \in m_lv1_code_index_set
      <3>1. core' = "cache" /\ row' = row /\ UNCHANGED index
            BY <1>3, <2>3 DEF LoadIndex, Core, Goes
      <3> QED BY <2>1, <2>3, <3>1 DEF MapInv, index, Row
    <2>4. CASE Row.code \in Configured /\ Row.idx \notin m_lv1_code_index_set
      <3>1. core' = "map" /\ row' = row /\ m_lv1_code_index_set' = m_lv1_code_index_set \cup {Row.idx}
            BY <1>3, <2>4 DEF LoadIndex, Core, Goes
      <3>2. Row' = Row
            BY <3>1 DEF Row
      <3> QED BY <2>1, <2>4, <3>1, <3>2 DEF MapInv
    <2> QED BY <2>2, <2>3, <2>4
  <1>4. CASE CodeIndex
    <2>1. UNCHANGED <<core, row, m_lv1_code_map>> /\ msg.code \in Configured
          BY <1>4 DEF CodeIndex, Lv1, Goes
    <2>2. Row' = Row
          BY <2>1 DEF Row
    <2>3. CASE msg.idx \in m_lv1_code_index_set
      <3>1. lv1' = "idle" /\ UNCHANGED m_lv1_code_index_set
            BY <1>4, <2>3 DEF CodeIndex, Lv1, Goes
      <3> QED BY <2>1, <2>2, <3>1 DEF MapInv
    <2>4. CASE msg.idx \notin m_lv1_code_index_set
      <3>1. msg' = msg /\ m_lv1_code_index_set' = m_lv1_code_index_set \cup {msg.idx}
            BY <1>4, <2>4 DEF CodeIndex, Lv1, Goes
      <3> QED BY <2>1, <2>2, <3>1 DEF MapInv
    <2> QED BY <2>3, <2>4
  <1>5. CASE LoadCache
    <2>1. core = "cache" /\ UNCHANGED <<lv1, msg, m_lv1_code_map, m_lv1_code_index_set>>
          BY <1>5 DEF LoadCache, Core, Goes, index
    <2>2. Row.code \in Configured /\ Row.code \in Codes /\ sorted
          BY <2>1, CodesAssumption DEF CodesAssumption, MapInv, OrderInv
    <2>3. Find(entries, Row.code) # 0
          BY <2>2, Found DEF OrderInv, PlaceInv
    <2>4. core' = "row"
          BY <1>5, <2>3 DEF LoadCache, Core, Goes
    <2> QED BY <2>1, <2>4 DEF MapInv
  <1>6. CASE /\ UNCHANGED index
             /\ core' \notin {"map", "cache", "crashed"} \/ UNCHANGED <<core, row>>
             /\ lv1' # "map" \/ UNCHANGED <<lv1, msg>>
        BY <1>6 DEF MapInv, index, Row
  <1> QED BY <1>1, <1>2, <1>3, <1>4, <1>5, <1>6, MapSteps

(* A pair of the index map is one of the exchange's or of the file's.      *)
LEMMA SourceStep ==
  ASSUME ControlInv, SourceInv, [Next]_vars
  PROVE  SourceInv'
  <1>1. ASSUME NEW i, NEW c, m_lv1_code_map' = Emplaced(m_lv1_code_map, i, c),
               c = Exchange[i] \/ \E r \in DOMAIN File : File[r] = [code |-> c, idx |-> i]
        PROVE  SourceInv'
    <2>1. /\ DOMAIN m_lv1_code_map' = DOMAIN m_lv1_code_map \cup {i}
          /\ \A k \in DOMAIN m_lv1_code_map : m_lv1_code_map'[k] = m_lv1_code_map[k]
          /\ i \notin DOMAIN m_lv1_code_map => m_lv1_code_map'[i] = c
          BY <1>1 DEF Emplaced
    <2>2. ASSUME NEW k \in DOMAIN m_lv1_code_map'
          PROVE  \/ m_lv1_code_map'[k] = Exchange[k]
                 \/ \E r \in DOMAIN File : File[r] = [code |-> m_lv1_code_map'[k], idx |-> k]
      <3>1. CASE k \in DOMAIN m_lv1_code_map
            BY <2>1, <3>1 DEF SourceInv
      <3>2. CASE k \notin DOMAIN m_lv1_code_map
            BY <1>1, <2>1, <2>2, <3>2
      <3> QED BY <3>1, <3>2
    <2> QED BY <2>2 DEF SourceInv
  <1>2. CASE LoadMap
    <2>1. m_lv1_code_map' = Emplaced(m_lv1_code_map, Row.idx, Row.code)
          BY <1>2 DEF LoadMap
    <2>2. row \in DOMAIN File /\ File[row] = [code |-> Row.code, idx |-> Row.idx]
      <3>1. core = "map"
            BY <1>2 DEF LoadMap
      <3> QED BY <3>1, RowType DEF ControlInv
    <2> QED BY <1>1, <2>1, <2>2
  <1>3. CASE CodeMap
    <2>1. m_lv1_code_map' = Emplaced(m_lv1_code_map, msg.idx, msg.code)
          BY <1>3 DEF CodeMap
    <2>2. msg.code = Exchange[msg.idx]
          BY <1>3, MessageTypes DEF CodeMap, ControlInv
    <2> QED BY <1>1, <2>1, <2>2
  <1>4. CASE UNCHANGED m_lv1_code_map
        BY <1>4 DEF SourceInv
  <1>5. LoadIndex \/ CodeIndex \/ LoadCache \/ UNCHANGED index => UNCHANGED m_lv1_code_map
        BY DEF LoadIndex, CodeIndex, LoadCache, index
  <1> QED BY <1>2, <1>3, <1>4, <1>5, MapSteps

\* emplace leaves what is in the index map.
LEMMA MapGrows ==
  ASSUME [Next]_vars
  PROVE  \A i \in DOMAIN m_lv1_code_map : i \in DOMAIN m_lv1_code_map' /\ m_lv1_code_map'[i] = m_lv1_code_map[i]
  <1>1. CASE LoadMap
    <2>1. m_lv1_code_map' = Emplaced(m_lv1_code_map, Row.idx, Row.code)
          BY <1>1 DEF LoadMap
    <2> QED BY <2>1 DEF Emplaced
  <1>2. CASE CodeMap
    <2>1. m_lv1_code_map' = Emplaced(m_lv1_code_map, msg.idx, msg.code)
          BY <1>2 DEF CodeMap
    <2> QED BY <2>1 DEF Emplaced
  <1>3. LoadIndex \/ CodeIndex \/ LoadCache \/ UNCHANGED index => UNCHANGED m_lv1_code_map
        BY DEF LoadIndex, CodeIndex, LoadCache, index
  <1> QED BY <1>1, <1>2, <1>3, MapSteps

(* Where the level 1 thread gets a quote and a pointer.                    *)
LEMMA QuoteSteps ==
  [Next]_vars => /\ \/ UNCHANGED <<lv1, msg>> \/ lv1' \notin {"find", "merge"} \/ QuoteFind
                    \/ \E m \in Quotes : Arrive(m)
                 /\ quota' = 0 \/ UNCHANGED <<quota, entries>> \/ QuoteFind \/ \E c \in Codes : Record(c)
  <1> SUFFICES ASSUME [Next]_vars
               PROVE  /\ \/ UNCHANGED <<lv1, msg>> \/ lv1' \notin {"find", "merge"} \/ QuoteFind
                         \/ \E m \in Quotes : Arrive(m)
                      /\ quota' = 0 \/ UNCHANGED <<quota, entries>> \/ QuoteFind \/ \E c \in Codes : Record(c)
      OBVIOUS
  <1>1. ASSUME NEW m \in Mappings \cup Statics, Arrive(m)
        PROVE  lv1' \notin {"find", "merge"} /\ UNCHANGED <<quota, entries>>
    <2>1. m.kind # "quote"
          BY <1>1, MessageKinds
    <2> QED BY <1>1, <2>1 DEF Arrive, Goes, map
  <1>2. ASSUME NEW m \in Quotes, Arrive(m) PROVE UNCHANGED <<quota, entries>>
        BY <1>2 DEF Arrive, map
  <1>3. CASE Connect \/ LoadMaping \/ HandleLv1 \/ SortAll \/ Idle \/ UNCHANGED vars \/ \E c \in Codes : InitNew(c)
        BY <1>3 DEF LoadMaping, HandleLv1, vars, map, save, index, hist, Connect, LoadTest, LoadEmplace, LoadAppend,
           LoadIndex, LoadMap, LoadCache, LoadDone, InitNew, SortAll, SaveTest, SaveAppend, SaveEmplace, SaveUpdate,
           Unsubscribed, StaticCache, CodeIndex, CodeMap, QuoteMissed, Merge, MergeForever, MergeMoved, Idle,
           Core, Lv1, Goes
  <1>4. ASSUME NEW c \in Codes, Record(c) PROVE UNCHANGED <<lv1, msg>>
        BY <1>4 DEF Record
  <1> QED BY <1>1, <1>2, <1>3, <1>4, Zenon DEF Next

(* The level 1 thread's pointer is dropped when the entries move.          *)
LEMMA PointStep ==
  ASSUME EntriesInv, EntriesInv', MapInv, PointInv, [Next]_vars
  PROVE  PointInv'
  <1>1. CASE QuoteFind
    <2> DEFINE c == m_lv1_code_map[msg.idx]
    <2>1. /\ lv1 = "find" /\ msg.idx \in DOMAIN m_lv1_code_map /\ quota' = Find(entries, c)
          /\ UNCHANGED <<msg, entries, m_lv1_code_map>>
          BY <1>1 DEF QuoteFind, Lv1, Goes, map, index
    <2>2. c \in Codes
          BY <2>1, CodesAssumption DEF CodesAssumption, MapInv
    <2> HIDE DEF c
    <2>3. quota' \in 0 .. Len(entries) /\ (quota' # 0 => entries[quota'].key = c)
          BY <2>1, <2>2, Found
    <2> QED BY <2>1, <2>3 DEF PointInv, c
  <1>2. CASE ~QuoteFind
    <2>1. quota' = 0 \/ (Places' = Places /\ quota' = quota /\ \A i \in Places : entries'[i].key = entries[i].key)
      <3>1. ASSUME NEW c \in Codes, Record(c)
            PROVE  Places' = Places /\ quota' = quota /\ \A i \in Places : entries'[i].key = entries[i].key
        <4>1. quota' = quota
              BY <3>1 DEF Record
        <4> QED BY <3>1, <4>1, RecordEffect
      <3> QED BY <1>2, <3>1, QuoteSteps DEF Places
    <2>2. quota' \in 0 .. Len(entries')
      <3>1. Len(entries') \in Nat
            BY LenProperties DEF EntriesInv
      <3>2. CASE Places' = Places /\ quota' = quota
        <4>1. Len(entries') = Len(entries)
              BY <3>1, <3>2, EntriesMap DEF Places
        <4> QED BY <3>2, <4>1 DEF PointInv
      <3> QED BY <2>1, <3>1, <3>2
    <2>3. lv1' \in {"find", "merge"} => msg' \in Quotes /\ (lv1' = "merge" => UNCHANGED <<lv1, msg>>)
      <3>1. ASSUME NEW m \in Quotes, Arrive(m) PROVE lv1' = "find" /\ msg' = m
            BY <3>1, MessageKinds DEF Arrive, Goes
      <3> QED BY <1>2, <3>1, QuoteSteps DEF PointInv
    <2>4. ASSUME lv1' = "merge"
          PROVE  /\ msg'.idx \in DOMAIN m_lv1_code_map'
                 /\ quota' # 0 => entries'[quota'].key = m_lv1_code_map'[msg'.idx]
      <3>1. lv1 = "merge" /\ msg' = msg
            BY <2>3, <2>4
      <3>2. /\ msg.idx \in DOMAIN m_lv1_code_map
            /\ quota # 0 => quota \in Places /\ entries[quota].key = m_lv1_code_map[msg.idx]
            BY <3>1, EntriesMap DEF PointInv, Places
      <3>3. msg.idx \in DOMAIN m_lv1_code_map' /\ m_lv1_code_map'[msg.idx] = m_lv1_code_map[msg.idx]
            BY <3>2, MapGrows
      <3> QED BY <2>1, <3>1, <3>2, <3>3
    <2> QED BY <2>2, <2>3, <2>4 DEF PointInv
  <1> QED BY <1>1, <1>2

(* The book and the missed fields keep their types.                        *)
LEMMA BookStep ==
  ASSUME PointInv, BookInv, [Next]_vars
  PROVE  BookInv'
  <1>1. ASSUME NEW m \in Mappings \cup Statics \cup Quotes, Arrive(m) PROVE BookInv'
    <2>1. missed' = missed
          BY <1>1 DEF Arrive
    <2>2. CASE m.kind # "quote"
      <3>1. book' = book
            BY <1>1, <2>2 DEF Arrive
      <3> QED BY <2>1, <3>1 DEF BookInv
    <2>3. CASE m.kind = "quote"
      <3> DEFINE c == Exchange[m.idx]
                 new == [f \in Fields |-> IF f \in m.fields THEN 1 - book[c][f] ELSE book[c][f]]
      <3>1. book' = [book EXCEPT ![c] = new]
            BY <1>1, <2>3 DEF Arrive
      <3>2. c \in Codes
        <4>1. m \in Quotes
              BY <2>3, MessageKinds
        <4> QED BY <4>1, QuoteType
      <3> HIDE DEF c
      <3>3. book[c] \in [Fields -> {0, 1}]
            BY <3>2 DEF BookInv
      <3>4. new \in [Fields -> {0, 1}]
            BY <3>3
      <3> HIDE DEF new
      <3> QED BY <2>1, <3>1, <3>4 DEF BookInv
    <2> QED BY <2>2, <2>3
  <1>2. CASE QuoteMissed
    <2>1. msg \in Quotes /\ book' = book /\ missed' = [missed EXCEPT ![Exchange[msg.idx]] = @ \cup msg.fields]
          BY <1>2 DEF QuoteMissed, PointInv
    <2> QED BY <2>1, QuoteType DEF BookInv
  <1>3. CASE Merge
    <2>1. msg \in Quotes /\ book' = book /\ missed' = [missed EXCEPT ![Exchange[msg.idx]] = @ \ msg.fields]
          BY <1>3 DEF Merge, PointInv
    <2> QED BY <2>1, QuoteType DEF BookInv
  <1>4. CASE UNCHANGED <<book, missed>>
        BY <1>4 DEF BookInv
  <1>5. \/ UNCHANGED <<book, missed>> \/ QuoteMissed \/ Merge
        \/ \E m \in Mappings \cup Statics \cup Quotes : Arrive(m)
    BY Zenon DEF Next, LoadMaping, HandleLv1, vars, hist, Connect, LoadTest, LoadEmplace, LoadAppend,
       LoadIndex, LoadMap, LoadCache, LoadDone, InitNew, SortAll, SaveTest, SaveAppend, SaveEmplace, SaveUpdate,
       Unsubscribed, StaticCache, CodeIndex, CodeMap, QuoteFind, MergeForever, MergeMoved, Idle, Record
  <1> QED BY <1>1, <1>2, <1>3, <1>4, <1>5

\* Nobody writes a quote, the book or what was missed in between.
QuoteKept ==
    /\ UNCHANGED <<book, missed>>
    /\ lv1' = "undefined" \/ (lv1' = lv1 /\ msg' = msg) \/ lv1 \notin {"find", "merge"} \/ QuoteFind

(* The other steps are a quote's arrival and its end.                      *)
LEMMA QuoteKeptOr ==
  [Next]_vars => /\ \/ QuoteKept \/ QuoteMissed \/ Merge
                    \/ \E m \in Mappings \cup Statics \cup Quotes : Arrive(m)
                 /\ lv1 = "undefined" => lv1' = "undefined"
  BY DEF Next, LoadMaping, HandleLv1, vars, hist, Connect, LoadTest, LoadEmplace, LoadAppend,
     LoadIndex, LoadMap, LoadCache, LoadDone, InitNew, SortAll, SaveTest, SaveAppend, SaveEmplace, SaveUpdate,
     Unsubscribed, StaticCache, CodeIndex, CodeMap, MergeForever, MergeMoved, Idle, Record,
     Core, Lv1, Goes, QuoteKept, QuoteFind, QuoteMissed, Merge, Arrive

\* But for Merge, every configured instrument's quote is one it had before.
LEMMA QuoteCopied ==
  ASSUME EntriesInv, [Next]_vars, ~Merge
  PROVE  \A i \in Places' : entries'[i].key \in Configured =>
            \E j \in Places : entries'[i].key = entries[j].key /\ entries'[i].quota = entries[j].quota
  <1> DEFINE Copied == \A i \in Places' : entries'[i].key \in Configured =>
                \E j \in Places : entries'[i].key = entries[j].key /\ entries'[i].quota = entries[j].quota
  <1>1. CASE UNCHANGED entries
        BY <1>1 DEF Places
  <1>2. ASSUME NEW c \in Codes, InitNew(c) PROVE Copied
    <2>1. CASE c \in Configured
      <3>1. UNCHANGED entries
            BY <1>2, <2>1 DEF InitNew
      <3> QED BY <1>1, <3>1
    <2>2. CASE c \notin Configured
      <3>1. Entry(c).key = c
            BY DEF Entry
      <3> QED BY <1>2, <2>2, <3>1, NewEffect
    <2> QED BY <2>1, <2>2
  <1>3. ASSUME NEW c \in Codes, Record(c) PROVE Copied
        BY <1>3, RecordEffect
  <1>4. CASE SortAll
    <2>1. Places' = Places /\ Rearranged(entries', entries)
          BY <1>4, SortEffect
    <2>2. \A i \in Places : \E j \in Places : entries'[i] = entries[j]
          BY <2>1 DEF Rearranged, Places
    <2> QED BY <2>1, <2>2
  <1> QED BY <1>1, <1>2, <1>3, <1>4, EntrySteps

\* A quote that is not there yet holds nothing back.
LEMMA MergeKept ==
  ASSUME EntriesInv, PointInv, MergeInv, [Next]_vars, QuoteKept, ~Merge
  PROVE  MergeInv'
  <1> SUFFICES ASSUME lv1' # "undefined", NEW i \in Places', Clear(entries'[i].key),
                      NEW f \in Fields \ (missed'[entries'[i].key] \cup Pending(entries[i].key)')
               PROVE  entries'[i].quota[f] = book'[entries'[i].key][f]
      BY DEF MergeInv, Clear
  <1>1. lv1 # "undefined" /\ UNCHANGED <<book, missed>>
        BY QuoteKeptOr DEF QuoteKept
  <1>2. PICK j \in Places : entries'[i].key = entries[j].key /\ entries'[i].quota = entries[j].quota
        BY QuoteCopied DEF Clear
  <1>3. f \notin Pending(entries[j].key)
    <2>1. CASE lv1' = lv1 /\ msg' = msg
          BY <1>2, <2>1 DEF Pending
    <2>2. CASE lv1 \notin {"find", "merge"}
          BY <2>2 DEF Pending
    <2>3. CASE QuoteFind
      <3>1. lv1 = "find" /\ lv1' = "merge" /\ msg' = msg
            BY <2>3 DEF QuoteFind, Lv1, Goes
      <3> QED BY <1>2, <3>1 DEF Pending
    <2> QED BY <2>1, <2>2, <2>3 DEF QuoteKept
  <1> QED BY <1>1, <1>2, <1>3 DEF MergeInv

\* A quote that arrives is pending until it is merged or missed.
LEMMA MergeArrive ==
  ASSUME EntriesInv, PointInv, BookInv, MergeInv, NEW m \in Mappings \cup Statics \cup Quotes, Arrive(m)
  PROVE  MergeInv'
  <1> SUFFICES ASSUME NEW i \in Places, Clear(entries[i].key),
                      NEW f \in Fields \ missed[entries[i].key],
                      lv1' \in {"find", "merge"} /\ Exchange[m.idx] = entries[i].key => f \notin m.fields
               PROVE  entries[i].quota[f] = book'[entries[i].key][f]
    <2>1. entries' = entries /\ missed' = missed /\ msg' = m
          BY DEF Arrive, map
    <2> QED BY <2>1 DEF MergeInv, Clear, Places, Pending
  <1>1. lv1 = "idle"
        BY DEF Arrive
  <1>2. entries[i].quota[f] = book[entries[i].key][f]
        BY <1>1 DEF MergeInv, Pending
  <1>3. CASE m.kind # "quote"
    <2>1. book' = book
          BY <1>3 DEF Arrive
    <2> QED BY <1>2, <2>1
  <1>4. CASE m.kind = "quote"
    <2> DEFINE c == Exchange[m.idx]
               new == [g \in Fields |-> IF g \in m.fields THEN 1 - book[c][g] ELSE book[c][g]]
    <2>1. book' = [book EXCEPT ![c] = new] /\ lv1' = "find"
          BY <1>4 DEF Arrive, Goes
    <2>2. c = entries[i].key => f \notin m.fields
          BY <2>1
    <2>3. f \notin m.fields => new[f] = book[c][f]
          OBVIOUS
    <2>4. entries[i].key \in Codes
          BY EntriesMap
    <2> HIDE DEF c, new
    <2> QED BY <1>2, <2>1, <2>2, <2>3, <2>4 DEF BookInv
  <1> QED BY <1>3, <1>4

\* A quote whose instrument is not known is missed.
LEMMA MergeMissed ==
  ASSUME EntriesInv, PointInv, BookInv, MergeInv, QuoteMissed
  PROVE  MergeInv'
  <1> DEFINE c == Exchange[msg.idx]
  <1>1. /\ lv1 = "find" /\ entries' = entries /\ book' = book
        /\ missed' = [missed EXCEPT ![c] = @ \cup msg.fields]
        BY DEF QuoteMissed, map
  <1>2. c \in Codes
        BY <1>1, QuoteType DEF PointInv
  <1> SUFFICES ASSUME NEW i \in Places, Clear(entries[i].key), NEW f \in Fields \ missed'[entries[i].key]
               PROVE  entries[i].quota[f] = book[entries[i].key][f]
      BY <1>1 DEF MergeInv, Clear, Places
  <1>3. entries[i].key \in Codes
        BY EntriesMap
  <1>4. f \notin missed[entries[i].key] /\ f \notin Pending(entries[i].key)
    <2>1. CASE entries[i].key = c
      <3>1. missed'[c] = missed[c] \cup msg.fields
            BY <1>1, <1>2 DEF BookInv
      <3> QED BY <2>1, <3>1 DEF Pending
    <2>2. CASE entries[i].key # c
      <3>1. missed'[entries[i].key] = missed[entries[i].key]
            BY <1>1, <1>3, <2>2 DEF BookInv
      <3> QED BY <2>2, <3>1 DEF Pending
    <2> QED BY <2>1, <2>2
  <1> QED BY <1>1, <1>4 DEF MergeInv

(* A quote is merged into the entry of the instrument it is about, unless  *)
(* its index is disputed, and then into one that is not clear.             *)
LEMMA MergeMerged ==
  ASSUME EntriesInv, MapInv, SourceInv, QuoteOfItsCode, PlaceInv, PointInv, BookInv, MergeInv, Merge
  PROVE  MergeInv'
  <1> DEFINE c == Exchange[msg.idx]
             k == entries[quota].key
  <1>1. /\ lv1 = "merge" /\ quota # 0 /\ book' = book /\ lv1' = "idle"
        /\ missed' = [missed EXCEPT ![c] = @ \ msg.fields]
        BY Zenon DEF Merge, Lv1, Goes
  <1>2. /\ c \in Codes /\ msg.idx \in Idxs /\ msg.idx \in DOMAIN m_lv1_code_map /\ k = m_lv1_code_map[msg.idx]
        BY <1>1, QuoteType DEF PointInv
  <1>3. /\ Places' = Places /\ quota \in Places
        /\ \A j \in Places : /\ entries'[j].key = entries[j].key
                             /\ j # quota => entries'[j].quota = entries[j].quota
        /\ \A f \in Fields : entries'[quota].quota[f] = IF f \in msg.fields THEN book[c][f]
                                                                            ELSE entries[quota].quota[f]
        BY MergeEffect
  <1>4. Clear(k) => k = c
    <2>1. CASE msg.idx \in Disputed
      <3>1. k = c \/ \E r \in DOMAIN File : File[r] = [code |-> k, idx |-> msg.idx]
            BY <1>2 DEF SourceInv
      <3> QED BY <2>1, <3>1 DEF Clear
    <2>2. CASE msg.idx \notin Disputed
          BY <1>2, <2>2 DEF QuoteOfItsCode
    <2> QED BY <2>1, <2>2
  <1> SUFFICES ASSUME NEW i \in Places, Clear(entries[i].key), NEW f \in Fields \ missed'[entries[i].key]
               PROVE  entries'[i].quota[f] = book[entries[i].key][f]
      BY <1>1, <1>3 DEF MergeInv, Clear
  <1>5. entries[i].key \in Codes
        BY EntriesMap
  <1>6. CASE entries[i].key # c
    <2>1. missed'[entries[i].key] = missed[entries[i].key]
          BY <1>1, <1>5, <1>6 DEF BookInv
    <2>2. f \notin Pending(entries[i].key)
          BY <1>6 DEF Pending
    <2>3. i # quota
          BY <1>4, <1>6
    <2> QED BY <1>1, <1>3, <2>1, <2>2, <2>3 DEF MergeInv
  <1>7. CASE entries[i].key = c
    <2>1. missed'[c] = missed[c] \ msg.fields
          BY <1>1, <1>2 DEF BookInv
    <2>2. i = quota
      <3>1. msg.idx \notin Disputed
            BY <1>7 DEF Clear
      <3>2. k = c
            BY <1>2, <3>1 DEF QuoteOfItsCode
      <3> QED BY <1>3, <1>7, <3>2 DEF PlaceInv, Clear
    <2>3. CASE f \in msg.fields
          BY <1>3, <1>7, <2>2, <2>3
    <2>4. CASE f \notin msg.fields
      <3>1. f \notin missed[c] /\ f \notin Pending(c)
            BY <1>7, <2>1, <2>4 DEF Pending
      <3>2. entries[i].quota[f] = book[c][f]
            BY <1>1, <1>7, <3>1 DEF MergeInv
      <3> QED BY <1>3, <1>7, <2>2, <2>4, <3>2
    <2> QED BY <2>3, <2>4
  <1> QED BY <1>6, <1>7

(* Whatever the step, an entry lacks what is pending or missed at most.    *)
LEMMA MergeStep ==
  ASSUME EntriesInv, MapInv, SourceInv, QuoteOfItsCode, PlaceInv, PointInv, BookInv, MergeInv, [Next]_vars
  PROVE  MergeInv'
  BY QuoteKeptOr, MergeKept, MergeArrive, MergeMissed, MergeMerged

---------------------------------------------------------------------------
(* What the containers promise.                                            *)

\* What is known of the map's entries and of the way from an index to one of them.
EntryInv == EntriesInv /\ OrderInv /\ PlaceInv /\ MapInv /\ SourceInv /\ PointInv /\ BookInv

\* Every configured instrument starts with one entry, without a quote.
LEMMA EntryInit == Init => EntryInv /\ MergeInv
  <1> SUFFICES ASSUME Init PROVE EntryInv /\ MergeInv
      OBVIOUS
  <1>1. /\ m_lv1_code_index_set = {} /\ m_lv1_code_map = <<>> /\ core = "inited" /\ lv1 = "idle" /\ quota = 0
        /\ book = [c \in Codes |-> [f \in Fields |-> 0]]
        /\ missed = [c \in Codes |-> {}] /\ recorded = {} /\ subscribes = [c \in Codes |-> 0]
        BY DEF Init
  <1>2. LoadJsonCfg
        BY DEF Init
  <1>3. EntriesInv
        BY <1>2, LoadedOnce
  <1>4. OrderInv
        BY <1>1, <1>2, LoadedOnce DEF OrderInv
  <1>5. PlaceInv
        BY <1>1, <1>2, LoadedOnce DEF PlaceInv
  <1>6. MapInv /\ SourceInv
        BY <1>1 DEF MapInv, SourceInv
  <1>7. PointInv
        BY <1>1, <1>3, EntriesMap DEF PointInv
  <1>8. BookInv
        BY <1>1 DEF BookInv
  <1>9. MergeInv
    <2> SUFFICES ASSUME NEW i \in Places, NEW f \in Fields PROVE entries[i].quota[f] = book[entries[i].key][f]
        BY DEF MergeInv
    <2>1. entries[i].key \in Codes /\ entries[i].quota[f] = 0
          BY <1>2, <1>3, EntriesMap, LoadedOnce
    <2> QED BY <1>1, <2>1
  <1> QED BY <1>3, <1>4, <1>5, <1>6, <1>7, <1>8, <1>9 DEF EntryInv

(* Each part needs the others before the step only.                        *)
LEMMA EntryStep == ControlInv /\ EntryInv /\ [Next]_vars => EntryInv'
  <1> SUFFICES ASSUME ControlInv, EntriesInv, OrderInv, PlaceInv, MapInv, SourceInv, PointInv, BookInv, [Next]_vars
               PROVE  EntryInv'
      BY DEF EntryInv
  <1>1. EntriesInv'
        BY EntriesStep
  <1>2. OrderInv' /\ PlaceInv'
        BY OrderStep, PlaceStep
  <1>3. MapInv' /\ SourceInv'
        BY MapStep, SourceStep
  <1>4. PointInv' /\ BookInv'
        BY <1>1, PointStep, BookStep
  <1> QED BY <1>1, <1>2, <1>3, <1>4 DEF EntryInv

\* The entries are as the plugin expects them in every state.
THEOREM Entries == Spec => []EntryInv
  BY EntryInit, EntryStep, Control, PTL DEF Spec

(* The halving search gives every instrument its first entry.              *)
LEMMA FirstFound == EntryInv => FindIsFirst
  <1> SUFFICES ASSUME EntryInv, NEW c \in Codes
               PROVE  LET found == Find(entries, c)
                          holds == {i \in DOMAIN entries : entries[i].key = c}
                      IN  /\ found # 0 => found \in holds
                          /\ sorted => IF holds = {} THEN found = 0
                                       ELSE found \in holds /\ \A i \in holds : found <= i
      BY DEF FindIsFirst
  <1> DEFINE found == Find(entries, c)
             holds == {i \in Places : entries[i].key = c}
  <1>1. DOMAIN entries = Places
        BY LenProperties DEF EntryInv, EntriesInv, Places
  <1>2. found # 0 => found \in holds
        BY Found DEF EntryInv
  <1>3. sorted => \A i \in holds : found # 0 /\ found <= i
        BY Found DEF EntryInv, OrderInv
  <1> HIDE DEF found, holds
  <1>4. sorted => IF holds = {} THEN found = 0 ELSE found \in holds /\ \A i \in holds : found <= i
        BY <1>2, <1>3
  <1> QED BY <1>1, <1>2, <1>4 DEF found, holds

(* A recorded instrument with one entry has its record there.              *)
LEMMA RecordFound == EntryInv => RecordSurvives
  <1> SUFFICES ASSUME EntryInv, sorted, NEW c \in recorded, c \in Configured \/ ~(subscribes[c] > 1)
               PROVE  Find(entries, c) # 0 /\ entries[Find(entries, c)].rec
      BY DEF RecordSurvives
  <1>1. EntriesInv /\ OrderInv /\ PlaceInv
        BY DEF EntryInv
  <1>2. c \in Codes /\ subscribes[c] \in Nat
        BY <1>1 DEF PlaceInv
  <1>3. PICK i \in Places : entries[i].key = c /\ entries[i].rec
        BY <1>1 DEF PlaceInv
  <1>4. Find(entries, c) # 0 /\ Find(entries, c) \in Places /\ entries[Find(entries, c)].key = c
        BY <1>1, <1>2, <1>3, Found DEF OrderInv
  <1>5. Find(entries, c) = i
        BY <1>1, <1>2, <1>3, <1>4 DEF PlaceInv
  <1> QED BY <1>3, <1>4, <1>5

(* The containers are what the handlers take them for: typed, with every   *)
(* saved code at its position, every configured instrument found in its    *)
(* first entry, and no record lost by subscribing and sorting.             *)
THEOREM CodesHold == Spec => []CodesInv
  <1>1. ControlInv /\ SaveType /\ EntryInv => TypeOK
    <2> SUFFICES ASSUME ControlInv, SaveType, EntryInv PROVE TypeOK
        OBVIOUS
    <2>1. EntriesInv /\ MapInv
          BY DEF EntryInv
    <2> QED BY <2>1 DEF TypeOK, ControlInv, SaveType, StoredInfo, EntriesInv, EntryType, MapInv
  <1>2. Spec => [](ControlInv /\ SaveType /\ EntryInv)
        BY Control, Saved, Entries, PTL
  <1> QED BY <1>1, <1>2, SavedAgrees, FirstFound, RecordFound, PTL DEF CodesInv

(* The quotes merged from changed fields are the exchange's book, but for  *)
(* the fields of quotes that were dropped.                                 *)
THEOREM MergedQuotes == Spec => []MergedIsCurrent
  <1>1. ControlInv /\ QuoteOfItsCode /\ EntryInv /\ MergeInv /\ [Next]_vars => MergeInv'
        BY MergeStep DEF EntryInv
  <1>2. Spec => []MergeInv
        BY <1>1, EntryInit, Entries, Control, QuotesOfTheirCode, PTL DEF Spec
  <1>3. EntryInv /\ MergeInv => MergedIsCurrent
    <2> SUFFICES ASSUME EntriesInv, MergeInv, lv1 \notin {"find", "merge", "undefined"}, NEW i \in DOMAIN entries,
                        Clear(entries[i].key), NEW f \in Fields \ missed[entries[i].key]
                 PROVE  entries[i].quota[f] = book[entries[i].key][f]
        BY DEF MergedIsCurrent, Clear, EntryInv
    <2>1. i \in Places
          BY LenProperties DEF EntriesInv, Places
    <2>2. f \notin Pending(entries[i].key)
          BY DEF Pending
    <2> QED BY <2>1, <2>2 DEF MergeInv
  <1> QED BY <1>2, <1>3, Entries, PTL
=============================================================================

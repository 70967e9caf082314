------------------------------ MODULE InstMap ------------------------------
(***************************************************************************)
(* InstMap<T> of src/qx_commom/inst_map.h: a vector of entries that a      *)
(* plugin fills with InitOnce, sorts by key and searches with              *)
(* std::lower_bound.  An instrument's 16 byte key is a number; the vector  *)
(* is a sequence of records with a field key, its iterators count from 0.  *)
(***************************************************************************)
EXTENDS Integers, Sequences

InitOnce(data, entry) == Append(data, entry)

(* std::sort is not stable: the results are the sorted arrangements.       *)
Arrangements(n) == {p \in [1 .. n -> 1 .. n] : \A i, j \in 1 .. n : p[i] = p[j] => i = j}

IsSorted(data) == \A i, j \in 1 .. Len(data) : i < j => data[i].key <= data[j].key

Sort(data) ==
    {s \in {[i \in 1 .. Len(data) |-> data[p[i]]] : p \in Arrangements(Len(data))} : IsSorted(s)}

(* std::lower_bound halves the range that starts at first and has len      *)
(* entries, whether the vector is sorted or not.                           *)
Ranges(data) == {r \in (0 .. Len(data)) \X (0 .. Len(data)) : r[1] + r[2] <= Len(data)}

lower_bound(data, key) ==
    LET Search[r \in Ranges(data)] ==
            LET half == r[2] \div 2
                mid  == r[1] + half
            IN  IF r[2] = 0 THEN r[1]
                ELSE IF data[mid + 1].key < key THEN Search[<<mid + 1, r[2] - half - 1>>]
                                                ELSE Search[<<r[1], half>>]
    IN  Search[<<0, Len(data)>>]

(* Mutant: the search leaves out the last entry.                           *)
Find_WithoutLast(data, key) ==
    LET it == lower_bound(data, key)
    IN  IF it + 1 < Len(data) /\ data[it + 1].key = key THEN it + 1 ELSE 0

(* Find: the place of the entry, 0 for nullptr.                            *)
Find(data, key) ==
    LET it == lower_bound(data, key)
    IN  IF it # Len(data) /\ data[it + 1].key = key THEN it + 1 ELSE 0
=============================================================================

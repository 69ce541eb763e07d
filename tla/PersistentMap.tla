----------------------------- MODULE PersistentMap -----------------------------
(***************************************************************************)
(* The map of dictionaries, guessers and taggers                           *)
(* (persistent_unordered_map.h, persistent_unordered_map_encoder.h): a     *)
(* hash table for every length of keys, made in two passes over the        *)
(* entries.  Keys and values are sequences of bytes; an encoded value      *)
(* begins with its length, as its decoders expect.                         *)
(***************************************************************************)
EXTENDS Integers, SequencesExt

CONSTANTS
  Letters,       \* the bytes of keys: 1..n
  MapKeys,       \* the keys in the order of std::map
  MapValue,      \* key -> what is stored with it
  Buckets        \* of the table for every length above 2

VARIABLES
  entries,       \* the keys of the map that is encoded
  fnv,           \* the hash of long keys, any function
  hashes,        \* by length + 1: hash and data
  step,          \* "add", "fill", "done"
  done           \* the entries of this pass that were processed

vars == <<entries, fnv, hashes, step, done>>

LongKeys == {k \in ToSet(MapKeys) : Len(k) > 2}
Elements == SelectSeq(MapKeys, LAMBDA k : k \in entries)
Encoded(key) == <<Len(MapValue[key])>> \o MapValue[key]

(* Keys of up to two bytes have a bucket each.                             *)
Size(len) == CASE len = 0 -> 1 [] len = 1 -> Letters [] len = 2 -> Letters * Letters [] OTHER -> Buckets

index(key) ==
  CASE Len(key) = 0 -> 1
    [] Len(key) = 1 -> key[1]
    [] Len(key) = 2 -> key[1] + Letters * (key[2] - 1)
    [] OTHER -> fnv[key]

(* A table for every length up to the longest; one more bucket for its end.*)
Resized(keys) ==
  LET longest == CHOOSE n \in {Len(k) : k \in keys} : \A k \in keys : Len(k) <= n
  IN IF keys = {} THEN <<>>
     ELSE [l \in 1..longest + 1 |-> [hash |-> [b \in 1..Size(l - 1) + 1 |-> 0], data |-> <<>>]]

Init ==
  /\ entries \in SUBSET ToSet(MapKeys)
  /\ fnv \in [LongKeys -> 1..Buckets]
  /\ hashes = Resized(entries)
  /\ step = "add" /\ done = 0

add ==
  /\ step = "add" /\ done < Len(Elements)
  /\ LET key == Elements[done + 1]
     IN hashes' = [hashes EXCEPT ![Len(key) + 1].hash[index(key)] = @ + Len(key) + Len(Encoded(key))]
  /\ done' = done + 1
  /\ UNCHANGED <<entries, fnv, step>>

SlipInclusive(hash, b) == FoldLeft(+, 0, SubSeq(hash, 1, b))

(* The sizes become the offsets of what comes before.                      *)
Offset(hash, b) == FoldLeft(+, 0, SubSeq(hash, 1, b - 1))

done_adding ==
  /\ step = "add" /\ done = Len(Elements)
  /\ hashes' = [l \in DOMAIN hashes |->
       LET h == hashes[l].hash
       IN [hash |-> [b \in DOMAIN h |-> Offset(h, b)], data |-> [i \in 1..FoldLeft(+, 0, h) |-> 0]]]
  /\ step' = "fill" /\ done' = 0
  /\ UNCHANGED <<entries, fnv>>

(* The entry is stored at the offset of its bucket, which moves behind it. *)
fill ==
  /\ step = "fill" /\ done < Len(Elements)
  /\ LET key == Elements[done + 1]
         bytes == key \o Encoded(key)
         from == hashes[Len(key) + 1].hash[index(key)]
     IN hashes' = [hashes EXCEPT
          ![Len(key) + 1].hash[index(key)] = @ + Len(bytes),
          ![Len(key) + 1].data =
            [i \in DOMAIN @ |-> IF i \in from + 1..from + Len(bytes) THEN bytes[i - from] ELSE @[i]]]
  /\ done' = done + 1
  /\ UNCHANGED <<entries, fnv, step>>

SlipNotShifted(hash) == hash

(* Every offset is now that of the next bucket.                            *)
Shifted(hash) == [b \in DOMAIN hash |-> IF b > 1 THEN hash[b - 1] ELSE 0]

done_filling ==
  /\ step = "fill" /\ done = Len(Elements)
  /\ hashes' = [l \in DOMAIN hashes |-> [hashes[l] EXCEPT !.hash = Shifted(@)]]
  /\ step' = "done"
  /\ UNCHANGED <<entries, fnv, done>>

Next == add \/ done_adding \/ fill \/ done_filling

(* at: {} is a null pointer, else what is found behind the key.  The only  *)
(* key of a short bucket is not compared; in a longer one the search skips *)
(* from entry to entry.                                                    *)
at(key) ==
  LET len == Len(key)
      table == hashes[len + 1]
      end == table.hash[index(key) + 1]
      Value(i) == SubSeq(table.data, i + len + 2, i + len + 1 + table.data[i + len + 1])
      search[i \in 0..Len(table.data)] ==
        IF i >= end THEN {}
        ELSE IF len <= 2 \/ SubSeq(table.data, i + 1, i + len) = key THEN {Value(i)}
        ELSE search[i + len + 1 + table.data[i + len + 1]]
  IN IF len >= Len(hashes) THEN {} ELSE search[table.hash[index(key)]]

-----------------------------------------------------------------------------
(* The map finds every key that was put in with its value, and no other,   *)
(* whichever keys share a bucket.                                          *)
FindsAll ==
  step = "done" =>
    \A key \in ToSet(MapKeys) : at(key) = IF key \in entries THEN {MapValue[key]} ELSE {}
=============================================================================

------------------------------ MODULE Int32Map ------------------------------
(***************************************************************************)
(* The open-addressing hash map of src/csrc/suffix_decoding/int32_map.h,   *)
(* in which the nodes of the suffix tree keep children and endpoints:      *)
(* triangular probing over a power of two slots, erased slots left as      *)
(* tombstones, growth above 75% and shrinking below 25% load.  The hash is *)
(* any function.                                                           *)
(***************************************************************************)
EXTENDS Integers, FiniteSets, FiniteSetsExt, Functions, Folds

CONSTANTS Keys, Values,
          Hash,           \* mix_hash_: [Keys -> Nat]
          Empty, Tomb     \* KEY_EMPTY, KEY_TOMBSTONE

VARIABLES slot,        \* slots_: 0 .. cap_ - 1 -> [key, val]; no slots: not allocated
          size,        \* size_
          tombstones   \* tombstones_

mapVars == <<slot, size, tombstones>>

MaxLoad == 75
MinLoad == 25
MinCapacity == 2

Cap == Cardinality(DOMAIN slot)

\* What the map asks of its keys: a hash, and not to be one of the two marks.
HashedKeys == /\ Hash \in [Keys -> Nat]
              /\ {Empty, Tomb} \intersect Keys = {} /\ Empty # Tomb

Blank(cap) == [i \in 0 .. cap - 1 |-> [key |-> Empty, val |-> Empty]]

MapInit ==
  /\ slot = Blank(0)
  /\ size = 0
  /\ tombstones = 0

\* The i-th slot probed for k: idx, idx + 1, idx + 3, idx + 6, ...
Probe(k, cap, i) == (Hash[k] + (i * (i + 1)) \div 2) % cap

\* probe_insert_or_find_(): where k is, or the slot to put it in: the first
\* tombstone before the first empty slot.  -1: "Int32Map is full".
Find(sl, k) ==
  LET cap    == Cardinality(DOMAIN sl)
      at(i)  == sl[Probe(k, cap, i)].key
      stop   == {i \in 0 .. cap - 1 : at(i) \in {k, Empty}}
      end    == IF stop = {} THEN cap ELSE Min(stop)
      tombs  == {i \in 0 .. end - 1 : at(i) = Tomb}
  IN IF end < cap /\ at(end) = k THEN [found |-> TRUE, idx |-> Probe(k, cap, end)]
     ELSE [found |-> FALSE,
           idx |-> IF tombs # {} THEN Probe(k, cap, Min(tombs))
                   ELSE IF end < cap THEN Probe(k, cap, end) ELSE -1]

Filled(sl) == {i \in DOMAIN sl : sl[i].key \notin {Empty, Tomb}}

\* Mutant of Rehash: keys are not probed on.
RehashHome(sl, cap) ==
  [j \in 0 .. cap - 1 |->
     LET home == {i \in Filled(sl) : Probe(sl[i].key, cap, 0) = j}
     IN IF home = {} THEN [key |-> Empty, val |-> Empty] ELSE sl[Max(home)]]

\* rehash_(): every filled slot, in order, is placed into fresh slots.
Rehash(sl, cap) ==
  LET place[i \in -1 .. Cardinality(DOMAIN sl) - 1] ==
        IF i = -1 THEN Blank(cap)
        ELSE IF i \notin Filled(sl) THEN place[i - 1]
        ELSE LET done == place[i - 1]
                 free == {j \in 0 .. cap - 1 :
                            done[Probe(sl[i].key, cap, j)].key \in {Empty, Tomb}}
             IN [done EXCEPT ![Probe(sl[i].key, cap, Min(free))] = sl[i]]
  IN place[Cardinality(DOMAIN sl) - 1]

\* The slots in which emplace() puts a key that takes an empty slot.
Reserved(sl) ==
  LET cap == Cardinality(DOMAIN sl)
  IN IF cap * MaxLoad >= (size + tombstones + 1) * 100 THEN sl
     ELSE IF (size + 1) * 100 <= cap * MaxLoad THEN Rehash(sl, cap)
     ELSE Rehash(sl, cap * 2)

Emplace(k, v) ==
  LET sl == IF Cap = 0 THEN Blank(MinCapacity) ELSE slot
      f  == Find(sl, k)
      r  == Reserved(sl)
  IN \/ /\ f.found                          \* already present: left alone
        /\ UNCHANGED mapVars
     \/ /\ ~f.found /\ f.idx # -1 /\ sl[f.idx].key = Tomb
        /\ slot' = [sl EXCEPT ![f.idx] = [key |-> k, val |-> v]]
        /\ tombstones' = tombstones - 1
        /\ size' = size + 1
     \/ /\ ~f.found /\ f.idx # -1 /\ sl[f.idx].key = Empty
        /\ slot' = [r EXCEPT ![Find(r, k).idx] = [key |-> k, val |-> v]]
        /\ tombstones' = IF r = sl THEN tombstones ELSE 0
        /\ size' = size + 1

\* erase(), with maybe_rehash_after_erase_().
Erase(k) ==
  LET f    == Find(slot, k)
      left == [slot EXCEPT ![f.idx] = [key |-> Tomb, val |-> Empty]]
      sparse == (size - 1) * 100 < Cap * MinLoad /\ Cap \div 2 >= MinCapacity
  IN /\ Cap > 0 /\ f.found
     /\ size' = size - 1
     /\ slot' = IF size = 1 THEN Blank(0)
                ELSE IF sparse THEN Rehash(left, Cap \div 2) ELSE left
     /\ tombstones' = IF size = 1 \/ sparse THEN 0 ELSE tombstones + 1

MapNext == \E k \in Keys : Erase(k) \/ \E v \in Values : Emplace(k, v)

MapSpec == MapInit /\ [][MapNext]_mapVars

(***************************************************************************)
(* Properties.                                                             *)
(***************************************************************************)

\* What the iterators see.
Stored == {slot[i].key : i \in Filled(slot)}

Contents == [k \in Stored |-> slot[CHOOSE i \in DOMAIN slot : slot[i].key = k].val]

\* The counters are the slots they count, find() finds what the iterators meet,
\* each key once, and an empty slot or a tombstone is left for the next key: so
\* that emplace() cannot throw "Int32Map is full" (int32_map.h:344-347).
MapCountsExact ==
  /\ size = Cardinality(Filled(slot)) /\ size = Cardinality(Stored)
  /\ tombstones = Cardinality({i \in DOMAIN slot : slot[i].key = Tomb})
  /\ Cap > 0 => \A k \in Keys :
       LET f == Find(slot, k)
       IN /\ f.idx # -1
          /\ f.found <=> k \in Stored
          /\ f.found => slot[f.idx].key = k
  /\ (size + tombstones) * 100 <= Cap * MaxLoad

Store == INSTANCE MapOfKeys WITH store <- Contents

\* The map is a map: whatever was erased, moved or rehashed before, a lookup
\* finds the value the key was first given since it was last absent.
ImplementsMap == Store!Spec

=============================================================================

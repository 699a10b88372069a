-------------------------------- MODULE HashMap --------------------------------
(***************************************************************************)
(* hashmap.c: chains of nodes in slots, and one iterator.                  *)
(***************************************************************************)
EXTENDS Integers, Sequences, SequencesExt

CONSTANTS
  HashKeys, Data,  \* strings used as keys and as data
  NoKey, NoData,   \* NULL for a key of an iterator and for data
  Hash,            \* _crc16 of the keys, from 0 to 65535
  Slots            \* the argument of hashmap_create

ASSUME HashAssumption ==
  /\ Slots \in Int /\ Hash \in [HashKeys -> Nat]
  /\ NoKey \notin HashKeys /\ NoData \notin Data

VARIABLES
  slot,    \* slot: the chain of each slot
  length,  \* length
  cursor,  \* the node idx_list: its key, or NoKey; and idx_slot
  left     \* HISTORY: keys the iteration has still to show

hashVars == <<slot, length, cursor, left>>

\* hashmap_create takes the largest power of two up to the one asked for.
MaxSlot ==
  IF Slots <= 0 THEN 1
  ELSE IF Slots > 65536 THEN 65536
  ELSE CHOOSE n \in {2 ^ e : e \in 0 .. 16} : n <= Slots /\ Slots < 2 * n

SlotOf(k) == Hash[k] % MaxSlot

Indices == 0 .. MaxSlot - 1

\* Where k is in a chain, as a set.
In(chain, k) == {i \in DOMAIN chain : chain[i].key = k}

Here(k) == In(slot[SlotOf(k)], k)

HashKeysIn == {k \in HashKeys : Here(k) # {}}

NoCursor == [at |-> 0, key |-> NoKey]

HashInit ==
  /\ slot = [s \in Indices |-> <<>>] /\ length = 0
  /\ cursor = NoCursor /\ left = {}

\* The key is there: its data is replaced.
Replace(k, v) ==
  /\ \E i \in Here(k) : slot' = [slot EXCEPT ![SlotOf(k)][i].data = v]
  /\ UNCHANGED <<length, cursor, left>>

\* A new node at the end of the chain.
Add(k, v) ==
  /\ Here(k) = {}
  /\ slot' = [slot EXCEPT ![SlotOf(k)] = Append(@, [key |-> k, data |-> v])]
  /\ length' = length + 1
  /\ UNCHANGED <<cursor, left>>

HashSet(k, v) == Replace(k, v) \/ Add(k, v)

\* MUTANT: the chain is cut at the node that is taken out.
DelCuts(k) ==
  /\ \E i \in Here(k) :
       slot' = [slot EXCEPT ![SlotOf(k)] = SubSeq(@, 1, i - 1)]
  /\ length' = length - 1
  /\ cursor.key # k
  /\ left' = left \ {k}
  /\ UNCHANGED cursor

\* The node the iterator is at may not be deleted: hashmap_next reads it.
Del(k) ==
  /\ \E i \in Here(k) : slot' = [slot EXCEPT ![SlotOf(k)] = RemoveAt(@, i)]
  /\ length' = length - 1
  /\ cursor.key # k
  /\ left' = left \ {k}
  /\ UNCHANGED cursor

\* The first node at or behind a slot.
Used(from) == {s \in Indices : s >= from /\ slot[s] # <<>>}
Least(ss)  == CHOOSE s \in ss : \A t \in ss : s <= t

Show(s, i) ==
  /\ cursor' = [at |-> s, key |-> slot[s][i].key]
  /\ UNCHANGED <<slot, length>>

HashBegin ==
  IF length = 0
  THEN cursor' = NoCursor /\ left' = {} /\ UNCHANGED <<slot, length>>
  ELSE /\ Show(Least(Used(0)), 1)
       /\ left' = HashKeysIn \ {slot[Least(Used(0))][1].key}

\* hashmap_next: the next node of the chain, ...
StepInChain ==
  \E i \in In(slot[cursor.at], cursor.key) :
    /\ i < Len(slot[cursor.at])
    /\ Show(cursor.at, i + 1)
    /\ left' = left \ {slot[cursor.at][i + 1].key}

\* MUTANT: the search for the next slot passes over one.
StepOverSlot ==
  /\ cursor.key # NoKey
  /\ Len(slot[cursor.at]) \in In(slot[cursor.at], cursor.key)
  /\ Used(cursor.at + 2) # {}
  /\ Show(Least(Used(cursor.at + 2)), 1)
  /\ left' = left \ {slot[Least(Used(cursor.at + 2))][1].key}

\* ... the first of the next slot that has one, ...
StepToSlot ==
  /\ cursor.key # NoKey
  /\ Len(slot[cursor.at]) \in In(slot[cursor.at], cursor.key)
  /\ Used(cursor.at + 1) # {}
  /\ Show(Least(Used(cursor.at + 1)), 1)
  /\ left' = left \ {slot[Least(Used(cursor.at + 1))][1].key}

\* ... or none.
HashEnd ==
  /\ cursor.key # NoKey
  /\ Len(slot[cursor.at]) \in In(slot[cursor.at], cursor.key)
  /\ Used(cursor.at + 1) = {}
  /\ cursor' = [cursor EXCEPT !.key = NoKey]
  /\ UNCHANGED <<slot, length, left>>

HashNext ==
  \/ \E k \in HashKeys : Del(k) \/ \E v \in Data : HashSet(k, v)
  \/ HashBegin \/ StepInChain \/ StepToSlot \/ HashEnd

HashSpec == HashInit /\ [][HashNext]_hashVars

-----------------------------------------------------------------------------
HashTypeOK ==
  /\ slot \in [Indices -> Seq([key : HashKeys, data : Data])]
  /\ length \in Nat
  /\ cursor \in [at : Indices, key : HashKeys \cup {NoKey}]
  /\ left \subseteq HashKeys

\* hashmap_begin and hashmap_next: an iteration shows every key that was there
\* when it began and still is.
HashShowsAll == cursor.key = NoKey => left = {}

hashBar ==
  [k \in HashKeys |-> IF Here(k) = {} THEN NoData
                  ELSE slot[SlotOf(k)][CHOOSE i \in Here(k) : TRUE].data]

HashAbstract == INSTANCE Dictionary WITH
  Keys <- HashKeys, Values <- Data, Null <- NoKey, Absent <- NoData, dict <- hashBar

\* A map of hashmap.c is a dictionary, whatever slots its keys share.
HashIsDictionary == HashAbstract!Spec
=============================================================================

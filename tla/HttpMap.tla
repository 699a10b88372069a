-------------------------------- MODULE HttpMap --------------------------------
(***************************************************************************)
(* http_map.c: a table of pairs of pointers to strings, and one iterator.  *)
(*                                                                         *)
(* heap is the memory for strings.  A block that was freed may be given    *)
(* out again, so that a pointer kept too long reads some other string.     *)
(***************************************************************************)
EXTENDS Integers

CONSTANTS
  Keys, Values,  \* the strings callers use
  Blocks,        \* BOUND: addresses for copies of strings
  Free,          \* what an address that is not in use contains
  Null,          \* the pointer NULL
  Absent,        \* see Dictionary
  FirstSize      \* the argument of http_map_new

ASSUME MapAssumption ==
  /\ FirstSize \in Nat \ {0}
  /\ Null \notin Blocks /\ Null \notin Values /\ Null \notin Keys
  /\ Free \notin Keys \cup Values
  /\ Absent \notin Values \cup {Null}

VARIABLES
  maxCount,  \* max_count
  count,     \* count
  values,    \* values: pairs of pointers a, b
  heap,      \* what each block contains
  index,     \* index of an http_map_iter_t; its k and v are read at once
  visited,   \* HISTORY: keys the iterator has shown
  must,      \* HISTORY: keys that have been there since it began
  moved,     \* HISTORY: an entry it had passed was erased
  again      \* HISTORY: it has shown a key twice

tableVars == <<maxCount, count, values, heap>>
iterVars  == <<index, visited, must, moved, again>>
vars      == <<tableVars, iterVars>>

Empty    == [a |-> Null, b |-> Null]
Pointers == Blocks \cup {Null}

KeyAt(i)   == heap[values[i].a]
ValueAt(i) == IF values[i].b = Null THEN Null ELSE heap[values[i].b]

Entries  == 0 .. count - 1
Holds(k) == {i \in Entries : KeyAt(i) = k}
KeysIn   == {KeyAt(i) : i \in Entries}

\* http_map_new
Init ==
  /\ maxCount = FirstSize /\ count = 0
  /\ values = [i \in 0 .. FirstSize - 1 |-> Empty]
  /\ heap = [p \in Blocks |-> Free]
  /\ index = -1 /\ visited = {} /\ must = {}
  /\ moved = FALSE /\ again = FALSE

-----------------------------------------------------------------------------
(* Memory for strings *)

\* http_free, which ignores NULL.
Release(h, p) == [x \in Blocks |-> IF x = p THEN Free ELSE h[x]]

\* p may be what http_strdup(v) returns, where NULL is not copied.
IsCopy(h, v, p) == IF v = Null THEN p = Null ELSE p \in Blocks /\ h[p] = Free

Store(h, p, v) == [x \in Blocks |-> IF x = p THEN v ELSE h[x]]

-----------------------------------------------------------------------------
(* http_map_set, http_map_erase *)

\* The table is doubled one entry early, and also when k is there already.
Grown == IF count + 1 >= maxCount THEN 2 * maxCount ELSE maxCount

Table == [i \in 0 .. Grown - 1 |-> IF i < maxCount THEN values[i] ELSE Empty]

\* MUTANT: the value that was there is not freed.
OverwriteKeeps(k, v) ==
  \E i \in Holds(k), p \in Pointers :
    /\ IsCopy(heap, v, p)
    /\ heap' = Store(heap, p, v)
    /\ values' = [Table EXCEPT ![i].b = p]
    /\ maxCount' = Grown
    /\ UNCHANGED <<count, iterVars>>

\* The key is there: its value is freed before the new one is copied.
Overwrite(k, v) ==
  \E i \in Holds(k), p \in Pointers :
    LET h == Release(heap, values[i].b)
    IN  /\ IsCopy(h, v, p)
        /\ heap' = Store(h, p, v)
        /\ values' = [Table EXCEPT ![i].b = p]
        /\ maxCount' = Grown
        /\ UNCHANGED <<count, iterVars>>

\* A new entry at the end.
Insert(k, v) ==
  /\ Holds(k) = {}
  /\ \E p \in Blocks, q \in Pointers :
       LET h == Store(heap, p, k)
       IN  /\ IsCopy(heap, k, p) /\ IsCopy(h, v, q)
           /\ heap' = Store(h, q, v)
           /\ values' = [Table EXCEPT ![count] = [a |-> p, b |-> q]]
  /\ maxCount' = Grown
  /\ count' = count + 1
  /\ UNCHANGED iterVars

Set(k, v) == Overwrite(k, v) \/ Insert(k, v)

\* MUTANT: the last entry is not moved.
WithoutLast(i) ==
  [j \in DOMAIN values |->
     IF j = count - 1 THEN Empty
     ELSE IF j >= i /\ j < count - 2 THEN values[j + 1] ELSE values[j]]

\* The table when the entries behind i have moved up.
Without(i) ==
  [j \in DOMAIN values |->
     IF j < i \/ j >= count THEN values[j]
     ELSE IF j < count - 1 THEN values[j + 1] ELSE Empty]

Erase(k) ==
  \E i \in Holds(k) :
    /\ heap' = Release(Release(heap, values[i].b), values[i].a)
    /\ values' = Without(i)
    /\ count' = count - 1
    /\ moved' = (moved \/ i <= index)
    /\ visited' = visited \ {k}
    /\ must' = must \ {k}
    /\ UNCHANGED <<maxCount, index, again>>

-----------------------------------------------------------------------------
(* Iteration: for (http_map_begin; http_map_valid; http_map_next) *)

Begin ==
  /\ index' = IF count > 0 THEN 0 ELSE -1
  /\ visited' = IF count > 0 THEN {KeyAt(0)} ELSE {}
  /\ must' = KeysIn
  /\ moved' = FALSE /\ again' = FALSE
  /\ UNCHANGED tableVars

\* MUTANT: http_map_next leaves out the entry after the one it is at.
StepSkips ==
  /\ index >= 0 /\ index < count - 2
  /\ index' = index + 2
  /\ again' = (again \/ KeyAt(index + 2) \in visited)
  /\ visited' = visited \cup {KeyAt(index + 2)}
  /\ UNCHANGED <<tableVars, must, moved>>

\* http_map_next finds another entry.
Step ==
  /\ index >= 0 /\ index < count - 1
  /\ index' = index + 1
  /\ again' = (again \/ KeyAt(index + 1) \in visited)
  /\ visited' = visited \cup {KeyAt(index + 1)}
  /\ UNCHANGED <<tableVars, must, moved>>

\* http_map_next finds none.
End ==
  /\ index >= 0 /\ index >= count - 1
  /\ index' = -1
  /\ UNCHANGED <<tableVars, visited, must, moved, again>>

Next ==
  \/ \E k \in Keys : Erase(k) \/ \E v \in Values \cup {Null} : Set(k, v)
  \/ Begin \/ Step \/ End

Spec == Init /\ [][Next]_vars

-----------------------------------------------------------------------------
\* The types; the entries are what lies before count, and all of it.
TypeOK ==
  /\ maxCount \in Nat \ {0} /\ count \in 0 .. maxCount
  /\ values \in [0 .. maxCount - 1 -> [a : Pointers, b : Pointers]]
  /\ heap \in [Blocks -> Keys \cup Values \cup {Free}]
  /\ index \in Nat \cup {-1}
  /\ visited \subseteq Keys /\ must \subseteq Keys
  /\ moved \in BOOLEAN /\ again \in BOOLEAN

\* Every block in use is pointed to by one pointer of one entry, keys by a and
\* values by b, and the table is empty behind the entries: http_map_delete, which
\* frees what the entries point to, frees all of it and nothing twice.
Owned ==
  /\ \A p \in Blocks :
       heap[p] # Free => \E i \in Entries : values[i].a = p \/ values[i].b = p
  /\ \A i \in Entries :
       /\ values[i].a \in Blocks /\ KeyAt(i) \in Keys
       /\ values[i].b # Null => ValueAt(i) \in Values
       /\ \A j \in Entries :
            /\ values[i].a # values[j].b
            /\ i # j => values[i].a # values[j].a
            /\ i # j /\ values[i].b # Null => values[i].b # values[j].b
  /\ \A i \in count .. maxCount - 1 : values[i] = Empty

\* An iteration shows every key that is there from its beginning to its end,
\* unless an entry it has passed is erased, and shows no key twice, whatever is
\* set or erased in between.
ShowsAll ==
  /\ index = -1 /\ ~moved => must \subseteq visited
  /\ ~again

\* Why: a key is in one entry; there is room for one more; the entries up to the
\* index have been shown, the ones behind it have not.
Distinct == \A i, j \in Entries : KeyAt(i) = KeyAt(j) => i = j

Shown ==
  /\ visited \subseteq KeysIn /\ must \subseteq KeysIn
  /\ index >= 0 /\ ~moved =>
       index < count /\ \A i \in 0 .. index : KeyAt(i) \in visited
  /\ index >= 0 => \A i \in Entries : i > index => KeyAt(i) \notin visited

IInv == TypeOK /\ Owned /\ Distinct /\ count < maxCount /\ Shown /\ ShowsAll

\* http_map is a dictionary.
dictBar ==
  [k \in Keys |-> IF Holds(k) = {} THEN Absent
                  ELSE ValueAt(CHOOSE i \in Holds(k) : TRUE)]

Abstract == INSTANCE Dictionary WITH dict <- dictBar

\* http_map_set and http_map_erase do what Put and Remove of a dictionary do,
\* and nothing else changes what http_map_get returns.
IsDictionary == Abstract!Spec
=============================================================================

------------------------------- MODULE MapProofs -------------------------------
(***************************************************************************)
(* A table of http_map.c and a map of hashmap.c are dictionaries whose     *)
(* iterators miss nothing, and a table frees each string once, for any     *)
(* keys, values, addresses and slots.                                      *)
(***************************************************************************)
EXTENDS HttpMap, HashMap, WellFoundedInduction, FiniteSetTheorems,
        SequenceTheorems, TLAPS

USE MapAssumption DEF tableVars, iterVars, Entries, Pointers, KeyAt, ValueAt

\* What Overwrite and Insert do to the table before they change it.
LEMMA TableGrows ==
  ASSUME TypeOK, count < maxCount, Owned
  PROVE  /\ Grown \in Nat /\ Grown >= maxCount /\ count + 1 < Grown
         /\ Table \in [0 .. Grown - 1 -> [a : Pointers, b : Pointers]]
         /\ \A i \in 0 .. maxCount - 1 : Table[i] = values[i]
         /\ \A i \in count .. Grown - 1 : Table[i] = Empty
<1>1. maxCount \in Nat /\ maxCount >= 1 /\ count \in Nat BY DEF TypeOK
<1>2. Grown \in Nat /\ Grown >= maxCount /\ count + 1 < Grown
  BY <1>1 DEF Grown
<1>3. Empty \in [a : Pointers, b : Pointers] BY DEF Empty
<1>4. Table = [i \in 0 .. Grown - 1 |-> IF i < maxCount THEN values[i] ELSE Empty]
  BY DEF Table
<1>5. Table \in [0 .. Grown - 1 -> [a : Pointers, b : Pointers]]
  BY <1>1, <1>2, <1>3, <1>4 DEF TypeOK
<1>6. \A i \in count .. Grown - 1 : Table[i] = Empty
  BY <1>1, <1>2, <1>4 DEF Owned
<1>7. \A i \in 0 .. maxCount - 1 : Table[i] = values[i] BY <1>1, <1>2, <1>4
<1>8. QED BY <1>2, <1>5, <1>6, <1>7

Overwritten(i, p, k, v) ==
  /\ KeyAt(i) = k
  /\ IF v = Null THEN p = Null ELSE p \in Blocks
  /\ p # Null => heap[p] = Free \/ p = values[i].b
  /\ heap' = [x \in Blocks |->
                IF x = p THEN v
                ELSE IF x = values[i].b THEN Free ELSE heap[x]]
  /\ values'[i] = [a |-> values[i].a, b |-> p]
  /\ \A j \in 0 .. maxCount - 1 : j # i => values'[j] = values[j]
  /\ \A j \in count .. maxCount' - 1 : values'[j] = Empty
  /\ values' \in [0 .. maxCount' - 1 -> [a : Pointers, b : Pointers]]
  /\ maxCount' \in Nat /\ maxCount' >= maxCount /\ count < maxCount'
  /\ UNCHANGED <<count, iterVars>>

\* What a key's entry is after http_map_set, and that nothing else changes.
LEMMA OverwriteFacts ==
  ASSUME IInv, NEW k \in Keys, NEW v \in Values \cup {Null}, Overwrite(k, v)
  PROVE  \E i \in Entries, p \in Pointers : Overwritten(i, p, k, v)
<1> USE DEF IInv
<1>1. PICK i \in Holds(k), p \in Pointers :
        /\ IsCopy(Release(heap, values[i].b), v, p)
        /\ heap' = Store(Release(heap, values[i].b), p, v)
        /\ values' = [Table EXCEPT ![i].b = p]
        /\ maxCount' = Grown
        /\ UNCHANGED <<count, iterVars>>
  BY DEF Overwrite
<1>2. i \in Entries /\ KeyAt(i) = k BY DEF Holds
<1>3. count \in Nat /\ maxCount \in Nat /\ i \in Nat /\ i < count BY <1>2 DEF TypeOK
<1>4. IF v = Null THEN p = Null ELSE p \in Blocks BY <1>1 DEF IsCopy
<1>5. p # Null => heap[p] = Free \/ p = values[i].b
  BY <1>1, <1>4 DEF IsCopy, Release
<1>6. heap' = [x \in Blocks |->
                 IF x = p THEN v ELSE IF x = values[i].b THEN Free ELSE heap[x]]
  BY <1>1 DEF Store, Release
<1>7. Table \in [0 .. Grown - 1 -> [a : Pointers, b : Pointers]]
      /\ Grown \in Nat /\ Grown >= maxCount /\ count + 1 < Grown
  BY TableGrows
<1>8. Table[i] = values[i] BY <1>3, TableGrows
<1>9. values'[i] = [a |-> values[i].a, b |-> p]
  <2>1. i \in 0 .. Grown - 1 BY <1>3, <1>7
  <2>2. values'[i] = [Table[i] EXCEPT !.b = p] BY <1>1, <1>7, <2>1
  <2>3. values[i] \in [a : Pointers, b : Pointers] BY <1>3 DEF TypeOK
  <2>4. QED BY <1>8, <2>2, <2>3
<1>10. \A j \in 0 .. Grown - 1 : j # i => values'[j] = Table[j] BY <1>1, <1>7
<1>11. \A j \in 0 .. maxCount - 1 : j # i => values'[j] = values[j]
  BY <1>3, <1>7, <1>10, TableGrows
<1>12. \A j \in count .. maxCount' - 1 : values'[j] = Empty
  BY <1>1, <1>3, <1>7, <1>10, TableGrows
<1>13. values' \in [0 .. maxCount' - 1 -> [a : Pointers, b : Pointers]]
  BY <1>1, <1>3, <1>7
<1>14. Overwritten(i, p, k, v)
  BY <1>1, <1>2, <1>3, <1>4, <1>5, <1>6, <1>7, <1>9, <1>11, <1>12, <1>13
     DEF Overwritten
<1>15. QED BY <1>2, <1>14

Inserted(p, q, k, v) ==
  /\ \A i \in Entries : KeyAt(i) # k
  /\ IF v = Null THEN q = Null ELSE q \in Blocks
  /\ p # q /\ heap[p] = Free /\ (q # Null => heap[q] = Free)
  /\ heap' = [x \in Blocks |->
                IF x = q THEN v ELSE IF x = p THEN k ELSE heap[x]]
  /\ values'[count] = [a |-> p, b |-> q]
  /\ \A j \in Entries : values'[j] = values[j]
  /\ \A j \in count + 1 .. maxCount' - 1 : values'[j] = Empty
  /\ values' \in [0 .. maxCount' - 1 -> [a : Pointers, b : Pointers]]
  /\ maxCount' \in Nat /\ count' = count + 1 /\ count' < maxCount'
  /\ UNCHANGED iterVars

LEMMA InsertFacts ==
  ASSUME IInv, NEW k \in Keys, NEW v \in Values \cup {Null}, Insert(k, v)
  PROVE  \E p \in Blocks, q \in Pointers : Inserted(p, q, k, v)
<1> USE DEF IInv
<1>1. PICK p \in Blocks, q \in Pointers :
        /\ IsCopy(heap, k, p) /\ IsCopy(Store(heap, p, k), v, q)
        /\ heap' = Store(Store(heap, p, k), q, v)
        /\ values' = [Table EXCEPT ![count] = [a |-> p, b |-> q]]
  BY DEF Insert
<1>2. Holds(k) = {} /\ maxCount' = Grown /\ count' = count + 1 /\ UNCHANGED iterVars
  BY DEF Insert
<1>3. count \in Nat /\ maxCount \in Nat BY DEF TypeOK
<1>4. IF v = Null THEN q = Null ELSE q \in Blocks BY <1>1 DEF IsCopy
<1>5. p # q /\ heap[p] = Free /\ (q # Null => heap[q] = Free)
  BY <1>1, <1>4 DEF IsCopy, Store
<1>6. heap' = [x \in Blocks |-> IF x = q THEN v ELSE IF x = p THEN k ELSE heap[x]]
  BY <1>1 DEF Store
<1>7. /\ Table \in [0 .. Grown - 1 -> [a : Pointers, b : Pointers]]
      /\ Grown \in Nat /\ Grown >= maxCount /\ count + 1 < Grown
  BY TableGrows
<1>8. values'[count] = [a |-> p, b |-> q]
      /\ \A j \in 0 .. Grown - 1 : j # count => values'[j] = Table[j]
  BY <1>1, <1>3, <1>7
<1>9. \A j \in Entries : values'[j] = values[j]
  BY <1>3, <1>7, <1>8, TableGrows
<1>10. \A j \in count + 1 .. maxCount' - 1 : values'[j] = Empty
  BY <1>2, <1>3, <1>7, <1>8, TableGrows
<1>11. values' \in [0 .. maxCount' - 1 -> [a : Pointers, b : Pointers]]
  BY <1>1, <1>2, <1>3, <1>7
<1>12. \A i \in Entries : KeyAt(i) # k BY <1>2 DEF Holds
<1>13. Inserted(p, q, k, v)
  BY <1>2, <1>3, <1>4, <1>5, <1>6, <1>7, <1>8, <1>9, <1>10, <1>11, <1>12
     DEF Inserted
<1>14. QED BY <1>13

Erased(i, k) ==
  /\ KeyAt(i) = k
  /\ heap' = [x \in Blocks |-> IF x \in {values[i].a, values[i].b}
                               THEN Free ELSE heap[x]]
  /\ \A j \in Entries : j < i => values'[j] = values[j]
  /\ \A j \in 0 .. count - 2 : j >= i => values'[j] = values[j + 1]
  /\ \A j \in count - 1 .. maxCount - 1 : values'[j] = Empty
  /\ values' \in [0 .. maxCount - 1 -> [a : Pointers, b : Pointers]]
  /\ count' = count - 1 /\ count' \in Nat
  /\ moved' = (moved \/ i <= index)
  /\ visited' = visited \ {k} /\ must' = must \ {k}
  /\ UNCHANGED <<maxCount, index, again>>

LEMMA EraseFacts ==
  ASSUME IInv, NEW k \in Keys, Erase(k)
  PROVE  \E i \in Entries : Erased(i, k)
<1> USE DEF IInv
<1>1. PICK i \in Holds(k) :
        /\ heap' = Release(Release(heap, values[i].b), values[i].a)
        /\ values' = Without(i)
        /\ count' = count - 1
        /\ moved' = (moved \/ i <= index)
        /\ visited' = visited \ {k}
        /\ must' = must \ {k}
        /\ UNCHANGED <<maxCount, index, again>>
  BY DEF Erase
<1>2. i \in Entries /\ KeyAt(i) = k BY DEF Holds
<1>3. count \in Nat /\ maxCount \in Nat /\ i \in Nat /\ i < count BY <1>2 DEF TypeOK
<1>4. heap' = [x \in Blocks |-> IF x \in {values[i].a, values[i].b}
                                THEN Free ELSE heap[x]]
  BY <1>1 DEF Release
<1>5. values' = [j \in 0 .. maxCount - 1 |->
                   IF j < i \/ j >= count THEN values[j]
                   ELSE IF j < count - 1 THEN values[j + 1] ELSE Empty]
  BY <1>1 DEF Without, TypeOK
<1>6. \A j \in Entries : j < i => values'[j] = values[j] BY <1>3, <1>5
<1>7. \A j \in 0 .. count - 2 : j >= i => values'[j] = values[j + 1] BY <1>3, <1>5
<1>8. \A j \in count - 1 .. maxCount - 1 : values'[j] = Empty
  <2>1. \A j \in count .. maxCount - 1 : values[j] = Empty BY DEF Owned
  <2>2. QED BY <1>3, <1>5, <2>1
<1>9. values' \in [0 .. maxCount - 1 -> [a : Pointers, b : Pointers]]
  <2>1. Empty \in [a : Pointers, b : Pointers] BY DEF Empty
  <2>2. values \in [0 .. maxCount - 1 -> [a : Pointers, b : Pointers]] BY DEF TypeOK
  <2>3. QED BY <1>3, <1>5, <2>1, <2>2
<1>10. Erased(i, k)
  BY <1>1, <1>2, <1>3, <1>4, <1>6, <1>7, <1>8, <1>9 DEF Erased
<1>11. QED BY <1>2, <1>10

-----------------------------------------------------------------------------
(* What the steps do to keys and values *)

LEMMA OverwriteReads ==
  ASSUME IInv, NEW k \in Keys, NEW v \in Values \cup {Null},
         NEW i \in Entries, NEW p \in Pointers, Overwritten(i, p, k, v)
  PROVE  /\ \A j \in Entries : values'[j].a = values[j].a /\ KeyAt(j)' = KeyAt(j)
         /\ \A j \in Entries : j # i => values'[j].b = values[j].b
                                        /\ ValueAt(j)' = ValueAt(j)
         /\ values'[i].b = p /\ ValueAt(i)' = v
         /\ \A j \in Entries : values[j].a # p
         /\ \A j \in Entries : j # i /\ p # Null => values[j].b # p
<1> USE DEF IInv
<1>0. count \in Nat /\ maxCount \in Nat /\ count < maxCount BY DEF TypeOK
<1>1. \A j \in Entries : j \in 0 .. maxCount - 1 BY <1>0
<1>2. \A j \in Entries : j # i => values'[j] = values[j] BY <1>1 DEF Overwritten
<1>3. values'[i] = [a |-> values[i].a, b |-> p] BY DEF Overwritten
<1>4. \A j \in Entries : values'[j].a = values[j].a BY <1>2, <1>3
<1>5. \A j \in Entries : values[j].a # p BY DEF Owned, Overwritten
<1>6. \A j \in Entries : j # i /\ p # Null => values[j].b # p
  BY <1>1 DEF Owned, Overwritten, TypeOK
<1>7. \A j \in Entries : KeyAt(j)' = KeyAt(j)
  <2>1. \A j \in Entries : values[j].a \in Blocks /\ values[j].a # values[i].b
    BY DEF Owned
  <2>2. \A j \in Entries : heap'[values[j].a] = heap[values[j].a]
    BY <1>5, <2>1 DEF Overwritten
  <2>3. QED BY <1>4, <2>2
<1>8. \A j \in Entries : j # i => ValueAt(j)' = ValueAt(j)
  <2>1. TAKE j \in Entries
  <2>2. HAVE j # i
  <2>3. CASE values[j].b = Null BY <1>2, <2>2, <2>3
  <2>4. CASE values[j].b # Null
    <3>1. values[j].b \in Blocks BY <1>1, <2>4 DEF TypeOK
    <3>2. values[j].b # p /\ values[j].b # values[i].b
      BY <1>6, <2>2, <2>4, <3>1 DEF Owned
    <3>3. heap'[values[j].b] = heap[values[j].b] BY <3>1, <3>2 DEF Overwritten
    <3>4. QED BY <1>2, <2>2, <2>4, <3>3
  <2>5. QED BY <2>3, <2>4
<1>9. ValueAt(i)' = v BY <1>3 DEF Overwritten
<1>10. QED BY <1>2, <1>3, <1>4, <1>5, <1>6, <1>7, <1>8, <1>9

LEMMA InsertReads ==
  ASSUME IInv, NEW k \in Keys, NEW v \in Values \cup {Null},
         NEW p \in Blocks, NEW q \in Pointers, Inserted(p, q, k, v)
  PROVE  /\ \A j \in Entries : values'[j] = values[j] /\ KeyAt(j)' = KeyAt(j)
                               /\ ValueAt(j)' = ValueAt(j)
         /\ \A n \in Nat : n = count => KeyAt(n)' = k /\ ValueAt(n)' = v
         /\ \A j \in Entries : values[j].a \notin {p, q} /\ values[j].b # p
         /\ \A j \in Entries : q # Null => values[j].b # q
<1> USE DEF IInv
<1>0. count \in Nat /\ maxCount \in Nat /\ count < maxCount BY DEF TypeOK
<1>1. \A j \in Entries : values[j].b \in Pointers BY <1>0 DEF TypeOK
<1>2. \A j \in Entries : values[j].a \notin {p, q} /\ values[j].b # p
  BY <1>1 DEF Owned, Inserted
<1>3. \A j \in Entries : q # Null => values[j].b # q
  BY <1>1 DEF Owned, Inserted
<1>4. \A j \in Entries : values'[j] = values[j] BY DEF Inserted
<1>5. \A j \in Entries : KeyAt(j)' = KeyAt(j)
  <2>1. \A j \in Entries : values[j].a \in Blocks BY DEF Owned
  <2>2. \A j \in Entries : heap'[values[j].a] = heap[values[j].a]
    BY <1>2, <2>1 DEF Inserted
  <2>3. QED BY <1>4, <2>2
<1>6. \A j \in Entries : ValueAt(j)' = ValueAt(j)
  <2>1. \A j \in Entries : values[j].b # Null =>
          heap'[values[j].b] = heap[values[j].b]
    BY <1>1, <1>2, <1>3 DEF Inserted
  <2>2. QED BY <1>4, <2>1
<1>7. values'[count] = [a |-> p, b |-> q] BY DEF Inserted
<1>8. \A n \in Nat : n = count => KeyAt(n)' = k
  <2>1. heap'[p] = k BY DEF Inserted
  <2>2. QED BY <1>7, <2>1
<1>9. \A n \in Nat : n = count => ValueAt(n)' = v
  <2>1. q # Null => heap'[q] = v BY DEF Inserted
  <2>2. v = Null <=> q = Null BY DEF Inserted
  <2>3. QED BY <1>7, <2>1, <2>2
<1>10. QED BY <1>2, <1>3, <1>4, <1>5, <1>6, <1>8, <1>9

\* Entry j after the erasure of entry i is the old entry From(i, j).
From(i, j) == IF j < i THEN j ELSE j + 1

LEMMA EraseReads ==
  ASSUME IInv, NEW k \in Keys, NEW i \in Entries, Erased(i, k)
  PROVE  /\ \A j \in Entries' :
              /\ From(i, j) \in Entries /\ From(i, j) # i
              /\ values'[j] = values[From(i, j)]
              /\ KeyAt(j)' = KeyAt(From(i, j))
              /\ ValueAt(j)' = ValueAt(From(i, j))
         /\ \A m \in Entries : m # i => \E j \in Entries' : From(i, j) = m
         /\ \A j, m \in Entries' : From(i, j) = From(i, m) => j = m
<1> USE DEF IInv
<1>0. count \in Nat /\ maxCount \in Nat /\ count < maxCount /\ i \in Nat /\ i < count
  BY DEF TypeOK
<1>1. count' = count - 1 BY DEF Erased
<1>2. \A j \in Entries' : From(i, j) \in Entries /\ From(i, j) # i
  BY <1>0, <1>1 DEF From
<1>3. \A j \in Entries' : values'[j] = values[From(i, j)]
  BY <1>0, <1>1 DEF From, Erased
<1>4. \A m \in Entries : m # i =>
        values[m].a \in Blocks /\ values[m].a # values[i].a /\ values[m].a # values[i].b
  BY DEF Owned
<1>5. \A m \in Entries : m # i /\ values[m].b # Null =>
        values[m].b \in Blocks /\ values[m].b # values[i].a /\ values[m].b # values[i].b
  BY <1>0 DEF Owned, TypeOK
<1>6. \A m \in Entries : m # i => heap'[values[m].a] = heap[values[m].a]
  BY <1>4 DEF Erased
<1>7. \A m \in Entries : m # i /\ values[m].b # Null =>
        heap'[values[m].b] = heap[values[m].b]
  BY <1>5 DEF Erased
<1>8. \A j \in Entries' : KeyAt(j)' = KeyAt(From(i, j)) BY <1>2, <1>3, <1>6
<1>9. \A j \in Entries' : ValueAt(j)' = ValueAt(From(i, j)) BY <1>2, <1>3, <1>7
<1>10. \A m \in Entries : m # i => \E j \in Entries' : From(i, j) = m
  <2>1. TAKE m \in Entries
  <2>2. HAVE m # i
  <2>3. CASE m < i
    <3>1. m \in Entries' /\ From(i, m) = m BY <1>0, <1>1, <2>3 DEF From
    <3>2. QED BY <3>1
  <2>4. CASE m > i
    <3>1. m - 1 \in Entries' /\ From(i, m - 1) = m BY <1>0, <1>1, <2>4 DEF From
    <3>2. QED BY <3>1
  <2>5. QED BY <1>0, <2>2, <2>3, <2>4
<1>11. \A j, m \in Entries' : From(i, j) = From(i, m) => j = m
  BY <1>0, <1>1 DEF From
<1>12. QED BY <1>2, <1>3, <1>8, <1>9, <1>10, <1>11

-----------------------------------------------------------------------------
(* The invariant *)

LEMMA InitInv == Init => IInv
<1> SUFFICES ASSUME Init PROVE IInv OBVIOUS
<1> USE DEF Init
<1>1. Empty \in [a : Pointers, b : Pointers] BY DEF Empty
<1>2. maxCount \in Nat \ {0} /\ count \in 0 .. maxCount /\ index \in Nat \cup {-1}
  OBVIOUS
<1>3. values \in [0 .. maxCount - 1 -> [a : Pointers, b : Pointers]] BY <1>1
<1>4. TypeOK BY <1>2, <1>3, Zenon DEF TypeOK
<1>5. Entries = {} OBVIOUS
<1>6. Owned /\ Distinct /\ Shown /\ ShowsAll
  BY <1>5 DEF Owned, Distinct, Shown, ShowsAll
<1>7. QED BY <1>2, <1>4, <1>6 DEF IInv

LEMMA OverwriteInv ==
  ASSUME IInv, NEW k \in Keys, NEW v \in Values \cup {Null}, Overwrite(k, v)
  PROVE  IInv'
<1> USE DEF IInv
<1>1. PICK i \in Entries, p \in Pointers : Overwritten(i, p, k, v)
  BY OverwriteFacts
<1>2. /\ \A j \in Entries : values'[j].a = values[j].a /\ KeyAt(j)' = KeyAt(j)
      /\ \A j \in Entries : j # i => values'[j].b = values[j].b
                                     /\ ValueAt(j)' = ValueAt(j)
      /\ values'[i].b = p /\ ValueAt(i)' = v
      /\ \A j \in Entries : values[j].a # p
      /\ \A j \in Entries : j # i /\ p # Null => values[j].b # p
  BY <1>1, OverwriteReads
<1>3. count' = count /\ UNCHANGED iterVars /\ count < maxCount' /\ maxCount' \in Nat
  BY <1>1 DEF Overwritten
<1>4. TypeOK'
  <2>1. heap' \in [Blocks -> Keys \cup Values \cup {Free}]
    <3>1. \A x \in Blocks : x = p => v \in Values BY <1>1 DEF Overwritten
    <3>2. QED BY <1>1, <3>1 DEF Overwritten, TypeOK
  <2>2. values' \in [0 .. maxCount' - 1 -> [a : Pointers, b : Pointers]]
    BY <1>1 DEF Overwritten
  <2>3. maxCount' \in Nat \ {0} /\ count' \in 0 .. maxCount' BY <1>3 DEF TypeOK
  <2>4. QED BY <1>3, <2>1, <2>2, <2>3, Zenon DEF TypeOK
<1>5. Owned'
  <2>1. ASSUME NEW x \in Blocks, heap'[x] # Free
        PROVE  \E j \in Entries' : values'[j].a = x \/ values'[j].b = x
    <3>1. CASE x = p BY <1>2, <1>3, <3>1
    <3>2. CASE x # p
      <4>1. x # values[i].b /\ heap[x] # Free
        BY <1>1, <2>1, <3>2 DEF Overwritten
      <4>2. PICK j \in Entries : values[j].a = x \/ values[j].b = x
        BY <4>1 DEF Owned
      <4>3. values'[j].a = x \/ values'[j].b = x BY <1>2, <4>1, <4>2
      <4>4. QED BY <1>3, <4>3
    <3>3. QED BY <3>1, <3>2
  <2>2. ASSUME NEW j \in Entries
        PROVE  /\ values'[j].a \in Blocks /\ KeyAt(j)' \in Keys
               /\ values'[j].b # Null => ValueAt(j)' \in Values
    <3>1. values'[j].a \in Blocks /\ KeyAt(j)' \in Keys BY <1>2 DEF Owned
    <3>2. CASE j = i BY <1>1, <1>2, <3>1, <3>2 DEF Overwritten
    <3>3. CASE j # i BY <1>2, <3>1, <3>3 DEF Owned
    <3>4. QED BY <3>2, <3>3
  <2>3. ASSUME NEW j \in Entries, NEW m \in Entries
        PROVE  /\ values'[j].a # values'[m].b
               /\ j # m => values'[j].a # values'[m].a
               /\ j # m /\ values'[j].b # Null => values'[j].b # values'[m].b
    BY <1>2 DEF Owned
  <2>4. \A j \in count' .. maxCount' - 1 : values'[j] = Empty
    BY <1>1, <1>3 DEF Overwritten
  <2>5. QED BY <1>3, <2>1, <2>2, <2>3, <2>4 DEF Owned
<1>6. Distinct' BY <1>2, <1>3 DEF Distinct
<1>7. KeysIn' = KeysIn BY <1>2, <1>3 DEF KeysIn
<1>8. Shown' /\ ShowsAll'
  <2>1. count \in Nat /\ index \in Nat \cup {-1} BY DEF TypeOK
  <2>2. \A j \in 0 .. index : index < count => j \in Entries BY <2>1
  <2>3. QED BY <1>2, <1>3, <1>7, <2>1, <2>2 DEF Shown, ShowsAll
<1>9. QED BY <1>3, <1>4, <1>5, <1>6, <1>8

LEMMA InsertInv ==
  ASSUME IInv, NEW k \in Keys, NEW v \in Values \cup {Null}, Insert(k, v)
  PROVE  IInv'
<1> USE DEF IInv
<1>1. PICK p \in Blocks, q \in Pointers : Inserted(p, q, k, v)
  BY InsertFacts
<1>2. /\ \A j \in Entries : values'[j] = values[j] /\ KeyAt(j)' = KeyAt(j)
                            /\ ValueAt(j)' = ValueAt(j)
      /\ \A n \in Nat : n = count => KeyAt(n)' = k /\ ValueAt(n)' = v
      /\ \A j \in Entries : values[j].a \notin {p, q} /\ values[j].b # p
      /\ \A j \in Entries : q # Null => values[j].b # q
  BY <1>1, InsertReads
<1>3. /\ count' = count + 1 /\ UNCHANGED iterVars /\ count' < maxCount'
      /\ maxCount' \in Nat /\ count \in Nat /\ index \in Nat \cup {-1}
  BY <1>1 DEF Inserted, TypeOK
<1>4. Entries' = Entries \cup {count} BY <1>3
<1>5. TypeOK'
  <2>1. heap' \in [Blocks -> Keys \cup Values \cup {Free}]
    <3>1. \A x \in Blocks : x = q => v \in Values BY <1>1 DEF Inserted
    <3>2. QED BY <1>1, <3>1 DEF Inserted, TypeOK
  <2>2. values' \in [0 .. maxCount' - 1 -> [a : Pointers, b : Pointers]]
    BY <1>1 DEF Inserted
  <2>3. maxCount' \in Nat \ {0} /\ count' \in 0 .. maxCount' BY <1>3 DEF TypeOK
  <2>4. QED BY <1>3, <2>1, <2>2, <2>3, Zenon DEF TypeOK
<1>6. values'[count].a = p /\ values'[count].b = q BY <1>1 DEF Inserted
<1>7. Owned'
  <2>1. ASSUME NEW x \in Blocks, heap'[x] # Free
        PROVE  \E j \in Entries' : values'[j].a = x \/ values'[j].b = x
    <3>1. CASE x \in {p, q} BY <1>4, <1>6, <3>1
    <3>2. CASE x \notin {p, q}
      <4>1. heap[x] # Free BY <1>1, <2>1, <3>2 DEF Inserted
      <4>2. PICK j \in Entries : values[j].a = x \/ values[j].b = x
        BY <4>1 DEF Owned
      <4>3. QED BY <1>2, <1>4, <4>2
    <3>3. QED BY <3>1, <3>2
  <2>2. ASSUME NEW j \in Entries'
        PROVE  /\ values'[j].a \in Blocks /\ KeyAt(j)' \in Keys
               /\ values'[j].b # Null => ValueAt(j)' \in Values
    <3>1. CASE j = count
      <4>1. KeyAt(j)' = k /\ ValueAt(j)' = v BY <1>2, <1>3, <3>1
      <4>2. q # Null => v \in Values BY <1>1 DEF Inserted
      <4>3. QED BY <1>6, <3>1, <4>1, <4>2
    <3>2. CASE j \in Entries BY <1>2, <3>2 DEF Owned
    <3>3. QED BY <1>4, <3>1, <3>2
  <2>3. ASSUME NEW j \in Entries', NEW m \in Entries'
        PROVE  /\ values'[j].a # values'[m].b
               /\ j # m => values'[j].a # values'[m].a
               /\ j # m /\ values'[j].b # Null => values'[j].b # values'[m].b
    <3>1. p # q BY <1>1 DEF Inserted
    <3>2. CASE j \in Entries /\ m \in Entries BY <1>2, <3>2 DEF Owned
    <3>3. CASE j = count /\ m = count BY <1>6, <3>1, <3>3
    <3>4. CASE j = count /\ m \in Entries
      <4>1. values'[m] = values[m] /\ values[m].a \notin {p, q}
            /\ values[m].b # p /\ (q # Null => values[m].b # q)
        BY <1>2, <3>4
      <4>2. QED BY <1>6, <3>4, <4>1
    <3>5. CASE j \in Entries /\ m = count
      <4>1. values'[j] = values[j] /\ values[j].a \notin {p, q}
            /\ values[j].b # p /\ (q # Null => values[j].b # q)
        BY <1>2, <3>5
      <4>2. QED BY <1>6, <3>5, <4>1
    <3>6. QED BY <1>4, <3>2, <3>3, <3>4, <3>5
  <2>4. \A j \in count' .. maxCount' - 1 : values'[j] = Empty
    BY <1>1, <1>3 DEF Inserted
  <2>5. QED BY <2>1, <2>2, <2>3, <2>4 DEF Owned
<1>8. \A j \in Entries : KeyAt(j) # k BY <1>1 DEF Inserted
<1>9. \A j \in Entries' : j = count => KeyAt(j)' = k BY <1>2, <1>3
<1>10. Distinct'
  <2>1. ASSUME NEW j \in Entries', NEW m \in Entries', KeyAt(j)' = KeyAt(m)'
        PROVE  j = m
    <3>1. CASE j \in Entries /\ m \in Entries BY <1>2, <2>1, <3>1 DEF Distinct
    <3>2. CASE j = count /\ m \in Entries BY <1>2, <1>8, <1>9, <2>1, <3>2
    <3>3. CASE m = count /\ j \in Entries BY <1>2, <1>8, <1>9, <2>1, <3>3
    <3>4. QED BY <1>4, <3>1, <3>2, <3>3
  <2>2. QED BY <2>1 DEF Distinct
<1>11. Shown'
  <2>1. KeysIn \subseteq KeysIn' BY <1>2, <1>4 DEF KeysIn
  <2>2. visited' \subseteq KeysIn' /\ must' \subseteq KeysIn'
    BY <1>3, <2>1 DEF Shown
  <2>3. index' >= 0 /\ ~moved' =>
          index' < count' /\ \A i \in 0 .. index' : KeyAt(i)' \in visited'
    BY <1>2, <1>3 DEF Shown
  <2>4. ASSUME index' >= 0, NEW j \in Entries', j > index'
        PROVE  KeyAt(j)' \notin visited'
    <3>1. CASE j = count
      <4>1. k \notin visited BY <1>8 DEF Shown, KeysIn
      <4>2. QED BY <1>3, <1>9, <3>1, <4>1
    <3>2. CASE j \in Entries BY <1>2, <1>3, <2>4, <3>2 DEF Shown
    <3>3. QED BY <1>4, <3>1, <3>2
  <2>5. QED BY <2>2, <2>3, <2>4 DEF Shown
<1>12. ShowsAll' BY <1>3 DEF ShowsAll
<1>13. QED BY <1>3, <1>5, <1>7, <1>10, <1>11, <1>12

LEMMA EraseInv == ASSUME IInv, NEW k \in Keys, Erase(k) PROVE IInv'
<1> USE DEF IInv
<1>1. PICK i \in Entries : Erased(i, k) BY EraseFacts
<1>2. /\ \A j \in Entries' :
           /\ From(i, j) \in Entries /\ From(i, j) # i
           /\ values'[j] = values[From(i, j)]
           /\ KeyAt(j)' = KeyAt(From(i, j))
           /\ ValueAt(j)' = ValueAt(From(i, j))
      /\ \A m \in Entries : m # i => \E j \in Entries' : From(i, j) = m
      /\ \A j, m \in Entries' : From(i, j) = From(i, m) => j = m
  BY <1>1, EraseReads
<1>3. /\ count' = count - 1 /\ count' \in Nat /\ count \in Nat
      /\ maxCount' = maxCount /\ maxCount \in Nat \ {0} /\ count < maxCount
      /\ index' = index /\ index \in Nat \cup {-1} /\ i \in Nat
      /\ again' = again /\ moved' = (moved \/ i <= index)
      /\ visited' = visited \ {k} /\ must' = must \ {k}
  BY <1>1 DEF Erased, TypeOK
<1>4. KeyAt(i) = k BY <1>1 DEF Erased
<1>5. TypeOK'
  <2>1. heap' \in [Blocks -> Keys \cup Values \cup {Free}]
    BY <1>1 DEF Erased, TypeOK
  <2>2. values' \in [0 .. maxCount' - 1 -> [a : Pointers, b : Pointers]]
    BY <1>1, <1>3 DEF Erased
  <2>3. maxCount' \in Nat \ {0} /\ count' \in 0 .. maxCount' BY <1>3
  <2>4. visited' \subseteq Keys /\ must' \subseteq Keys BY <1>3 DEF TypeOK
  <2>5. moved' \in BOOLEAN BY <1>3, Zenon DEF TypeOK
  <2>6. QED BY <1>3, <2>1, <2>2, <2>3, <2>4, <2>5, Zenon DEF TypeOK
<1>6. Owned'
  <2>1. ASSUME NEW x \in Blocks, heap'[x] # Free
        PROVE  \E j \in Entries' : values'[j].a = x \/ values'[j].b = x
    <3>1. x \notin {values[i].a, values[i].b} /\ heap[x] # Free
      BY <1>1, <2>1 DEF Erased
    <3>2. PICK m \in Entries : values[m].a = x \/ values[m].b = x
      BY <3>1 DEF Owned
    <3>3. PICK j \in Entries' : From(i, j) = m BY <1>2, <3>1, <3>2
    <3>4. values'[j] = values[m] BY <1>2, <3>3
    <3>5. QED BY <3>2, <3>4
  <2>2. ASSUME NEW j \in Entries'
        PROVE  /\ values'[j].a \in Blocks /\ KeyAt(j)' \in Keys
               /\ values'[j].b # Null => ValueAt(j)' \in Values
    BY <1>2 DEF Owned
  <2>3. ASSUME NEW j \in Entries', NEW m \in Entries'
        PROVE  /\ values'[j].a # values'[m].b
               /\ j # m => values'[j].a # values'[m].a
               /\ j # m /\ values'[j].b # Null => values'[j].b # values'[m].b
    <3>1. values'[j] = values[From(i, j)] /\ values'[m] = values[From(i, m)]
          /\ From(i, j) \in Entries /\ From(i, m) \in Entries
      BY <1>2
    <3>2. j # m => From(i, j) # From(i, m) BY <1>2
    <3>3. QED BY <3>1, <3>2 DEF Owned
  <2>4. \A j \in count' .. maxCount' - 1 : values'[j] = Empty
    BY <1>1, <1>3 DEF Erased
  <2>5. QED BY <2>1, <2>2, <2>3, <2>4 DEF Owned
<1>7. Distinct'
  <2>1. ASSUME NEW j \in Entries', NEW m \in Entries', KeyAt(j)' = KeyAt(m)'
        PROVE  j = m
    <3>1. From(i, j) = From(i, m) BY <1>2, <2>1 DEF Distinct
    <3>2. QED BY <1>2, <3>1
  <2>2. QED BY <2>1 DEF Distinct
<1>8. Shown'
  <2>1. ASSUME NEW x \in KeysIn, x # k PROVE x \in KeysIn'
    <3>1. PICK m \in Entries : KeyAt(m) = x BY <2>1 DEF KeysIn
    <3>2. m # i BY <1>4, <2>1, <3>1
    <3>3. PICK j \in Entries' : From(i, j) = m BY <1>2, <3>2
    <3>4. KeyAt(j)' = x BY <1>2, <3>1, <3>3
    <3>5. QED BY <3>4 DEF KeysIn
  <2>2. visited' \subseteq KeysIn' /\ must' \subseteq KeysIn'
    BY <1>3, <2>1 DEF Shown
  <2>3. ASSUME index' >= 0, ~moved'
        PROVE  index' < count' /\ \A j \in 0 .. index' : KeyAt(j)' \in visited'
    <3>0. ~moved /\ ~(i <= index) BY <1>3, <2>3, Zenon
    <3>1. index < i /\ index < count - 1 /\ ~moved BY <1>3, <2>3, <3>0
    <3>2. ASSUME NEW j \in 0 .. index PROVE KeyAt(j)' \in visited'
      <4>1. j \in Entries' /\ From(i, j) = j /\ j # i /\ j \in Entries
        BY <1>3, <3>1 DEF From
      <4>2. KeyAt(j)' = KeyAt(j) BY <1>2, <4>1
      <4>3. KeyAt(j) # k BY <1>4, <4>1 DEF Distinct
      <4>4. KeyAt(j) \in visited BY <1>3, <2>3, <3>1 DEF Shown
      <4>5. QED BY <1>3, <4>2, <4>3, <4>4
    <3>3. QED BY <1>3, <3>1, <3>2
  <2>4. ASSUME index' >= 0, NEW j \in Entries', j > index'
        PROVE  KeyAt(j)' \notin visited'
    <3>1. From(i, j) > index BY <1>3, <2>4 DEF From
    <3>2. QED BY <1>2, <1>3, <2>4, <3>1 DEF Shown
  <2>5. QED BY <2>2, <2>3, <2>4 DEF Shown
<1>9. ShowsAll' BY <1>3 DEF ShowsAll
<1>10. QED BY <1>3, <1>5, <1>6, <1>7, <1>8, <1>9

\* What holds of the table holds when the iterator alone moves.
LEMMA IteratorMoves ==
  ASSUME IInv, UNCHANGED tableVars, index' \in Nat \cup {-1},
         visited' \subseteq KeysIn, must' \subseteq KeysIn,
         moved' \in BOOLEAN, again' \in BOOLEAN
  PROVE  /\ TypeOK' /\ Owned' /\ Distinct' /\ (count < maxCount)'
         /\ KeysIn' = KeysIn
<1> USE DEF IInv
<1>1. KeysIn \subseteq Keys BY DEF KeysIn, Owned
<1>2. visited' \subseteq Keys /\ must' \subseteq Keys BY <1>1
<1>3. TypeOK' BY <1>2 DEF TypeOK
<1>4. QED BY <1>3 DEF Owned, Distinct, KeysIn

LEMMA BeginInv == ASSUME IInv, Begin PROVE IInv'
<1> USE DEF IInv, Begin
<1>1. count \in Nat BY DEF TypeOK
<1>2. count > 0 => 0 \in Entries BY <1>1
<1>3. visited' \subseteq KeysIn /\ must' = KeysIn BY <1>2 DEF KeysIn
<1>4. /\ TypeOK' /\ Owned' /\ Distinct' /\ (count < maxCount)'
      /\ KeysIn' = KeysIn
  BY <1>3, IteratorMoves
<1>5. CASE count > 0
  <2>1. index' = 0 /\ visited' = {KeyAt(0)} BY <1>5
  <2>2. \A j \in Entries : j > 0 => KeyAt(j) # KeyAt(0)
    BY <1>2, <1>5 DEF Distinct
  <2>3. Shown' BY <1>1, <1>3, <1>4, <1>5, <2>1, <2>2 DEF Shown
  <2>4. ShowsAll' BY <2>1 DEF ShowsAll
  <2>5. QED BY <1>4, <2>3, <2>4
<1>6. CASE count = 0
  <2>1. KeysIn = {} /\ index' = -1 BY <1>6 DEF KeysIn
  <2>2. Shown' /\ ShowsAll' BY <1>3, <1>4, <2>1 DEF Shown, ShowsAll
  <2>3. QED BY <1>4, <2>2
<1>7. QED BY <1>1, <1>5, <1>6

LEMMA StepInv == ASSUME IInv, Step PROVE IInv'
<1> USE DEF IInv, Step
<1>1. count \in Nat /\ index \in Nat /\ index + 1 \in Entries BY DEF TypeOK
<1>2. visited' \subseteq KeysIn /\ must' \subseteq KeysIn
  BY <1>1 DEF KeysIn, Shown
<1>3. KeyAt(index + 1) \notin visited BY <1>1 DEF Shown
<1>4. again' = FALSE BY <1>3 DEF ShowsAll
<1>5. /\ TypeOK' /\ Owned' /\ Distinct' /\ (count < maxCount)'
      /\ KeysIn' = KeysIn
  BY <1>1, <1>2, <1>4, IteratorMoves DEF TypeOK
<1>6. ASSUME ~moved', NEW j \in 0 .. index' PROVE KeyAt(j) \in visited'
  <2>1. CASE j = index + 1 BY <2>1
  <2>2. CASE j \in 0 .. index BY <1>1, <1>6, <2>2 DEF Shown
  <2>3. QED BY <1>1, <2>1, <2>2
<1>7. ASSUME NEW j \in Entries, j > index + 1 PROVE KeyAt(j) \notin visited'
  <2>1. KeyAt(j) \notin visited BY <1>1, <1>7 DEF Shown
  <2>2. KeyAt(j) # KeyAt(index + 1) BY <1>1, <1>7 DEF Distinct
  <2>3. QED BY <2>1, <2>2
<1>8. Shown' BY <1>1, <1>2, <1>5, <1>6, <1>7 DEF Shown
<1>9. ShowsAll' BY <1>1, <1>4 DEF ShowsAll
<1>10. QED BY <1>5, <1>8, <1>9

LEMMA EndInv == ASSUME IInv, End PROVE IInv'
<1> USE DEF IInv, End
<1>1. /\ TypeOK' /\ Owned' /\ Distinct' /\ (count < maxCount)'
      /\ KeysIn' = KeysIn
  BY IteratorMoves DEF TypeOK, Shown
<1>2. ~moved => KeysIn \subseteq visited
  <2>1. count \in Nat /\ index \in Nat BY DEF TypeOK
  <2>2. ~moved => \A j \in Entries : KeyAt(j) \in visited BY <2>1 DEF Shown
  <2>3. QED BY <2>2 DEF KeysIn
<1>3. Shown' /\ ShowsAll' BY <1>1, <1>2 DEF Shown, ShowsAll
<1>4. QED BY <1>1, <1>3

\* The table, its memory and its iterator keep IInv.
THEOREM MapInvariance == Spec => []IInv
<1>1. ASSUME IInv, [Next]_vars PROVE IInv'
  <2>1. CASE UNCHANGED vars
    BY <1>1, <2>1 DEF IInv, vars, TypeOK, Owned, Distinct, Shown, ShowsAll, KeysIn
  <2>2. ASSUME NEW k \in Keys, Erase(k) PROVE IInv' BY <1>1, <2>2, EraseInv
  <2>3. ASSUME NEW k \in Keys, NEW v \in Values \cup {Null}, Set(k, v) PROVE IInv'
    BY <1>1, <2>3, OverwriteInv, InsertInv DEF Set
  <2>4. CASE Begin \/ Step \/ End BY <1>1, <2>4, BeginInv, StepInv, EndInv
  <2>5. QED BY <1>1, <2>1, <2>2, <2>3, <2>4 DEF Next
<1>2. QED BY InitInv, <1>1, PTL DEF Spec

\* The variables of a table keep their types.
THEOREM MapTypes == Spec => []TypeOK
<1>1. IInv => TypeOK BY DEF IInv
<1>2. QED BY MapInvariance, <1>1, PTL

\* http_map_delete frees every string of the table, and none twice.
THEOREM OwnedHolds == Spec => []Owned
<1>1. IInv => Owned BY DEF IInv
<1>2. QED BY MapInvariance, <1>1, PTL

\* An iteration shows every key once, unless an entry it has passed is erased.
THEOREM ShowsAllHolds == Spec => []ShowsAll
<1>1. IInv => ShowsAll BY DEF IInv
<1>2. QED BY MapInvariance, <1>1, PTL

-----------------------------------------------------------------------------
(* Refinement *)

LEMMA DictReads ==
  Distinct => \A x \in Keys :
    /\ \A i \in Entries : KeyAt(i) = x => dictBar[x] = ValueAt(i)
    /\ (\A i \in Entries : KeyAt(i) # x) => dictBar[x] = Absent
<1> SUFFICES ASSUME Distinct, NEW x \in Keys
             PROVE  /\ \A i \in Entries : KeyAt(i) = x => dictBar[x] = ValueAt(i)
                    /\ (\A i \in Entries : KeyAt(i) # x) => dictBar[x] = Absent
    OBVIOUS
<1>1. ASSUME NEW i \in Entries, KeyAt(i) = x PROVE dictBar[x] = ValueAt(i)
  <2>1. Holds(x) = {i} BY <1>1 DEF Holds, Distinct
  <2>2. (CHOOSE j \in Holds(x) : TRUE) = i BY <2>1
  <2>3. dictBar[x] = ValueAt(CHOOSE j \in Holds(x) : TRUE) BY <2>1 DEF dictBar
  <2>4. QED BY <2>2, <2>3
<1>2. ASSUME \A i \in Entries : KeyAt(i) # x PROVE dictBar[x] = Absent
  <2>1. Holds(x) = {} BY <1>2 DEF Holds
  <2>2. QED BY <2>1 DEF dictBar
<1>3. QED BY <1>1, <1>2

\* A function whose values differ from those of f at most at k is f but for k.
LEMMA FunctionExcept ==
  ASSUME NEW S, NEW f, NEW g, NEW k \in S, NEW v,
         f = [x \in S |-> f[x]], g = [x \in S |-> g[x]],
         \A x \in S : g[x] = IF x = k THEN v ELSE f[x]
  PROVE  g = [f EXCEPT ![k] = v]
<1>1. DOMAIN f = S  OBVIOUS
<1>2. [f EXCEPT ![k] = v] = [x \in S |-> IF x = k THEN v ELSE f[x]]  BY <1>1
<1>3. QED  BY <1>2

LEMMA DictIsFunction == dictBar = [x \in Keys |-> dictBar[x]]
BY DEF dictBar

\* http_map_set is Put.
LEMMA SetIsPut ==
  ASSUME IInv, IInv', NEW k \in Keys, NEW v \in Values \cup {Null}, Set(k, v)
  PROVE  Abstract!Put(k, v)
<1> USE DEF IInv
<1>1. \A x \in Keys : 
        /\ \A i \in Entries : KeyAt(i) = x => dictBar[x] = ValueAt(i)
        /\ (\A i \in Entries : KeyAt(i) # x) => dictBar[x] = Absent
  BY DictReads
<1>2. \A x \in Keys :
        /\ \A i \in Entries' : KeyAt(i)' = x => dictBar'[x] = ValueAt(i)'
        /\ (\A i \in Entries' : KeyAt(i)' # x) => dictBar'[x] = Absent
  <2>1. (Distinct => \A x \in Keys :
           /\ \A i \in Entries : KeyAt(i) = x => dictBar[x] = ValueAt(i)
           /\ (\A i \in Entries : KeyAt(i) # x) => dictBar[x] = Absent)'
    BY DictReads, PTL
  <2>2. QED BY <2>1
<1>3. \A x \in Keys : dictBar'[x] = IF x = k THEN v ELSE dictBar[x]
  <2>1. CASE Overwrite(k, v)
    <3>1. PICK i \in Entries, p \in Pointers : Overwritten(i, p, k, v)
      BY <2>1, OverwriteFacts
    <3>2. /\ \A j \in Entries : KeyAt(j)' = KeyAt(j)
          /\ \A j \in Entries : j # i => ValueAt(j)' = ValueAt(j)
          /\ ValueAt(i)' = v
      BY <3>1, OverwriteReads
    <3>3. Entries' = Entries /\ KeyAt(i) = k BY <3>1 DEF Overwritten
    <3>4. TAKE x \in Keys
    <3>5. CASE x = k BY <1>2, <3>2, <3>3, <3>5
    <3>6. CASE x # k /\ \E j \in Entries : KeyAt(j) = x
      <4>1. PICK j \in Entries : KeyAt(j) = x BY <3>6
      <4>2. j # i BY <3>3, <3>6, <4>1
      <4>3. KeyAt(j)' = x /\ ValueAt(j)' = ValueAt(j) BY <3>2, <4>1, <4>2
      <4>4. dictBar'[x] = ValueAt(j)' BY <1>2, <3>3, <4>3
      <4>5. QED BY <1>1, <3>6, <4>1, <4>3, <4>4
    <3>7. CASE x # k /\ \A j \in Entries : KeyAt(j) # x
      <4>1. \A j \in Entries' : KeyAt(j)' # x BY <3>2, <3>3, <3>7
      <4>2. QED BY <1>1, <1>2, <3>7, <4>1
    <3>8. QED BY <3>5, <3>6, <3>7
  <2>2. CASE Insert(k, v)
    <3>1. PICK p \in Blocks, q \in Pointers : Inserted(p, q, k, v)
      BY <2>2, InsertFacts
    <3>2. /\ \A j \in Entries : KeyAt(j)' = KeyAt(j) /\ ValueAt(j)' = ValueAt(j)
          /\ \A n \in Nat : n = count => KeyAt(n)' = k /\ ValueAt(n)' = v
      BY <3>1, InsertReads
    <3>3. count \in Nat /\ Entries' = Entries \cup {count}
      BY <3>1 DEF Inserted, TypeOK
    <3>4. PICK n \in Entries' : n = count /\ KeyAt(n)' = k /\ ValueAt(n)' = v
      BY <3>2, <3>3
    <3>5. TAKE x \in Keys
    <3>6. CASE x = k BY <1>2, <3>4, <3>6
    <3>7. CASE x # k /\ \E j \in Entries : KeyAt(j) = x
      <4>1. PICK j \in Entries : KeyAt(j) = x BY <3>7
      <4>2. j \in Entries' /\ KeyAt(j)' = x /\ ValueAt(j)' = ValueAt(j)
        BY <3>2, <3>3, <4>1
      <4>3. dictBar'[x] = ValueAt(j)' BY <1>2, <4>2
      <4>4. QED BY <1>1, <3>7, <4>1, <4>2, <4>3
    <3>8. CASE x # k /\ \A j \in Entries : KeyAt(j) # x
      <4>1. \A j \in Entries' : KeyAt(j)' # x
        <5>1. TAKE j \in Entries'
        <5>2. CASE j \in Entries BY <3>2, <3>8, <5>2
        <5>3. CASE j = n BY <3>4, <3>8, <5>3
        <5>4. QED BY <3>3, <3>4, <5>2, <5>3
      <4>2. dictBar'[x] = Absent BY <1>2, <4>1
      <4>3. QED BY <1>1, <3>8, <4>2
    <3>9. QED BY <3>6, <3>7, <3>8
  <2>3. QED BY <2>1, <2>2 DEF Set
<1>4. dictBar' = [dictBar EXCEPT ![k] = v]
  <2>1. dictBar = [x \in Keys |-> dictBar[x]] BY DictIsFunction
  <2>2. (dictBar = [x \in Keys |-> dictBar[x]])' BY DictIsFunction, PTL
  <2>3. QED BY <1>3, <2>1, <2>2, FunctionExcept
<1>5. QED BY <1>4 DEF Abstract!Put

\* http_map_erase is Remove.
LEMMA EraseIsRemove ==
  ASSUME IInv, IInv', NEW k \in Keys, Erase(k)
  PROVE  Abstract!Remove(k)
<1> USE DEF IInv
<1>1. \A x \in Keys : 
        /\ \A i \in Entries : KeyAt(i) = x => dictBar[x] = ValueAt(i)
        /\ (\A i \in Entries : KeyAt(i) # x) => dictBar[x] = Absent
  BY DictReads
<1>2. \A x \in Keys :
        /\ \A i \in Entries' : KeyAt(i)' = x => dictBar'[x] = ValueAt(i)'
        /\ (\A i \in Entries' : KeyAt(i)' # x) => dictBar'[x] = Absent
  <2>1. (Distinct => \A x \in Keys :
           /\ \A i \in Entries : KeyAt(i) = x => dictBar[x] = ValueAt(i)
           /\ (\A i \in Entries : KeyAt(i) # x) => dictBar[x] = Absent)'
    BY DictReads, PTL
  <2>2. QED BY <2>1
<1>3. PICK i \in Entries : Erased(i, k) BY EraseFacts
<1>4. KeyAt(i) = k BY <1>3 DEF Erased
<1>5. /\ \A j \in Entries' :
           /\ From(i, j) \in Entries /\ From(i, j) # i
           /\ KeyAt(j)' = KeyAt(From(i, j))
           /\ ValueAt(j)' = ValueAt(From(i, j))
      /\ \A m \in Entries : m # i => \E j \in Entries' : From(i, j) = m
  BY <1>3, EraseReads
<1>6. \A x \in Keys : dictBar'[x] = IF x = k THEN Absent ELSE dictBar[x]
  <2>1. TAKE x \in Keys
  <2>2. CASE x = k
    <3>1. \A j \in Entries' : KeyAt(j)' # x BY <1>4, <1>5, <2>2 DEF Distinct
    <3>2. QED BY <1>2, <2>2, <3>1
  <2>3. CASE x # k /\ \E m \in Entries : KeyAt(m) = x
    <3>1. PICK m \in Entries : KeyAt(m) = x BY <2>3
    <3>2. PICK j \in Entries' : From(i, j) = m BY <1>4, <1>5, <2>3, <3>1
    <3>3. KeyAt(j)' = x /\ ValueAt(j)' = ValueAt(m) BY <1>5, <3>1, <3>2
    <3>4. dictBar'[x] = ValueAt(j)' BY <1>2, <3>3
    <3>5. QED BY <1>1, <2>3, <3>1, <3>3, <3>4
  <2>4. CASE x # k /\ \A m \in Entries : KeyAt(m) # x
    <3>1. \A j \in Entries' : KeyAt(j)' # x BY <1>5, <2>4
    <3>2. QED BY <1>1, <1>2, <2>4, <3>1
  <2>5. QED BY <2>2, <2>3, <2>4
<1>7. dictBar' = [dictBar EXCEPT ![k] = Absent]
  <2>1. dictBar = [x \in Keys |-> dictBar[x]] BY DictIsFunction
  <2>2. (dictBar = [x \in Keys |-> dictBar[x]])' BY DictIsFunction, PTL
  <2>3. QED BY <1>6, <2>1, <2>2, FunctionExcept
<1>8. dictBar[k] # Absent
  <2>1. dictBar[k] = ValueAt(i) BY <1>1, <1>4
  <2>2. ValueAt(i) \in Values \cup {Null} BY DEF Owned
  <2>3. QED BY <2>1, <2>2
<1>9. QED BY <1>7, <1>8 DEF Abstract!Remove

\* A table of http_map.c implements a dictionary.
THEOREM MapRefinement == Spec => IsDictionary
<1>1. Init => Abstract!Init
  <2>1. SUFFICES ASSUME Init PROVE dictBar = [x \in Keys |-> Absent]
    BY DEF Abstract!Init
  <2>2. \A x \in Keys : Holds(x) = {} BY <2>1 DEF Init, Holds
  <2>3. QED BY <2>2 DEF dictBar
<1>2. ASSUME IInv, IInv', [Next]_vars PROVE [Abstract!Next]_dictBar
  <2>1. CASE UNCHANGED tableVars
    BY <2>1 DEF dictBar, Holds
  <2>2. ASSUME NEW k \in Keys, Erase(k) PROVE Abstract!Next
    BY <1>2, <2>2, EraseIsRemove DEF Abstract!Next
  <2>3. ASSUME NEW k \in Keys, NEW v \in Values \cup {Null}, Set(k, v)
        PROVE  Abstract!Next
    BY <1>2, <2>3, SetIsPut DEF Abstract!Next
  <2>4. CASE Begin \/ Step \/ End BY <2>1, <2>4 DEF Begin, Step, End
  <2>5. CASE UNCHANGED vars BY <2>1, <2>5 DEF vars
  <2>6. QED BY <1>2, <2>2, <2>3, <2>4, <2>5 DEF Next
<1>3. QED BY <1>1, <1>2, MapInvariance, PTL DEF Spec, IsDictionary, Abstract!Spec

-----------------------------------------------------------------------------
(* hashmap.c *)

HIDE MapAssumption DEF tableVars, iterVars, Entries, Pointers, KeyAt, ValueAt

Node == [key : HashKeys, data : Data]

\* A node is in the chain its key belongs to, and no key is in two nodes.
Chained ==
  \A s \in Indices : \A i \in DOMAIN slot[s] :
    /\ SlotOf(slot[s][i].key) = s
    /\ \A j \in DOMAIN slot[s] : slot[s][i].key = slot[s][j].key => i = j

Counted == IsFiniteSet(HashKeysIn) /\ length = Cardinality(HashKeysIn)

\* k is in a later slot than the iterator, or further down in its chain.
Behind(k) ==
  \/ SlotOf(k) > cursor.at
  \/ /\ SlotOf(k) = cursor.at
     /\ \E i \in In(slot[cursor.at], cursor.key), j \in Here(k) : i < j

\* The node the iterator is at is there; what it has still to show is behind it.
LeftBehind ==
  /\ cursor.key # NoKey => In(slot[cursor.at], cursor.key) # {}
  /\ \A k \in left : Here(k) # {} /\ Behind(k)

HInv == HashTypeOK /\ Chained /\ Counted /\ LeftBehind /\ HashShowsAll

\* hashmap_create makes at least one slot.
LEMMA SlotsThere == MaxSlot \in Nat \ {0}
<1>1. CASE Slots <= 0 \/ Slots > 65536  BY <1>1 DEF MaxSlot
<1>2. CASE Slots > 0 /\ Slots <= 65536
  <2>1. Slots \in Nat  BY <1>2, HashAssumption
  <2>2. \E n \in {2 ^ e : e \in 0 .. 16} : n <= Slots /\ Slots < 2 * n
    BY <1>2, <2>1
  <2> QED  BY <1>2, <2>2 DEF MaxSlot
<1> QED  BY <1>1, <1>2, HashAssumption

\* The slots are the same ones in every state.
LEMMA SlotsStay == MaxSlot' = MaxSlot /\ Indices' = Indices
BY DEF Indices, MaxSlot

LEMMA SlotType == \A k \in HashKeys : SlotOf(k) \in Indices
<1>1. \A k \in HashKeys : Hash[k] \in Nat  BY HashAssumption
<1> QED  BY <1>1, SlotsThere DEF SlotOf, Indices

\* Where a key is, it is once.
LEMMA KeyOnce ==
  ASSUME HashTypeOK, Chained, NEW s \in Indices, NEW i \in DOMAIN slot[s]
  PROVE  /\ slot[s][i] \in Node /\ slot[s][i].key \in HashKeys
         /\ SlotOf(slot[s][i].key) = s /\ Here(slot[s][i].key) = {i}
         /\ slot[s][i].key \in HashKeysIn
<1>1. slot[s] \in Seq(Node)  BY DEF HashTypeOK, Node
<1>2. slot[s][i] \in Node  BY <1>1
<1>3. slot[s][i].key \in HashKeys  BY <1>2 DEF Node
<1>4. SlotOf(slot[s][i].key) = s  BY DEF Chained
<1>5. Here(slot[s][i].key) = {i}  BY <1>4 DEF Chained, Here, In
<1> QED  BY <1>2, <1>3, <1>4, <1>5 DEF HashKeysIn

LEMMA RemoveFacts ==
  ASSUME NEW S, NEW c \in Seq(S), NEW i \in 1 .. Len(c)
  PROVE  /\ RemoveAt(c, i) \in Seq(S) /\ Len(RemoveAt(c, i)) = Len(c) - 1
         /\ \A j \in 1 .. Len(c) - 1 :
              RemoveAt(c, i)[j] = IF j < i THEN c[j] ELSE c[j + 1]
<1> DEFINE a == SubSeq(c, 1, i - 1)
           b == SubSeq(c, i + 1, Len(c))
<1>1. /\ a \in Seq(S) /\ Len(a) = i - 1
      /\ \A j \in 1 .. i - 1 : a[j] = c[j]
  OBVIOUS
<1>2. /\ b \in Seq(S) /\ Len(b) = Len(c) - i
      /\ \A j \in 1 .. Len(c) - i : b[j] = c[i + j]
  OBVIOUS
<1>3. RemoveAt(c, i) = a \o b  BY DEF RemoveAt
<1> HIDE DEF a, b
<1>4. a \o b \in Seq(S) /\ Len(a \o b) = Len(c) - 1
  <2>1. a \in Seq(S) /\ b \in Seq(S)  BY <1>1, <1>2
  <2>2. a \o b \in Seq(S) /\ Len(a \o b) = Len(a) + Len(b)
    BY <2>1, ConcatProperties
  <2> QED  BY <1>1, <1>2, <2>2
<1>5. ASSUME NEW j \in 1 .. Len(c) - 1
      PROVE  (a \o b)[j] = IF j < i THEN c[j] ELSE c[j + 1]
  <2>1. CASE j < i
    <3>1. (a \o b)[j] = a[j]  BY <1>1, <1>2, <2>1
    <3> QED  BY <1>1, <2>1, <3>1
  <2>2. CASE ~ (j < i)
    <3>1. j - Len(a) \in 1 .. Len(b) /\ i + (j - Len(a)) = j + 1
      BY <1>1, <1>2, <2>2
    <3>2. (a \o b)[j] = b[j - Len(a)]  BY <1>1, <1>2, <2>2, <3>1
    <3>3. b[j - Len(a)] = c[i + (j - Len(a))]  BY <1>1, <1>2, <3>1
    <3> QED  BY <2>2, <3>1, <3>2, <3>3
  <2> QED  BY <2>1, <2>2
<1> QED  BY <1>3, <1>4, <1>5

\* The first slot of some.
LEMMA LeastIn ==
  ASSUME NEW ss, ss \subseteq Indices, ss # {}
  PROVE  Least(ss) \in ss /\ \A t \in ss : Least(ss) <= t
<1>1. ss \subseteq Nat  BY DEF Indices
<1> DEFINE R == OpToRel(<, Nat)
<1>2. IsWellFoundedOn(R, Nat)  BY NatLessThanWellFounded
<1>3. \A x \in Nat, y \in Nat : y < x => <<y, x>> \in R  BY DEF OpToRel
<1> HIDE DEF R
<1>4. PICK x \in ss : \A y \in ss : ~ (<<y, x>> \in R)  BY <1>1, <1>2, WFMin
<1>5. \A y \in ss : x <= y
  <2>1. TAKE y \in ss
  <2>2. x \in Nat /\ y \in Nat /\ ~ (y < x)  BY <1>1, <1>3, <1>4
  <2> QED  BY <2>2
<1> QED  BY <1>5 DEF Least

\* Only data changes: all keys stay where they are.
LEMMA SameKeys ==
  ASSUME HInv, slot' \in [Indices -> Seq(Node)],
         \A s \in Indices : /\ DOMAIN slot'[s] = DOMAIN slot[s]
                            /\ \A i \in DOMAIN slot[s] : slot'[s][i].key = slot[s][i].key,
         UNCHANGED <<length, cursor, left>>
  PROVE  HInv'
<1> USE DEF HInv
<1>1. \A s \in Indices : \A x : In(slot'[s], x) = In(slot[s], x)  BY DEF In
<1>2. \A x \in HashKeys : Here(x)' = Here(x)  BY <1>1, SlotType DEF Here, SlotOf
<1>3. HashKeysIn' = HashKeysIn  BY <1>2 DEF HashKeysIn
<1>4. HashTypeOK'  BY DEF HashTypeOK, Node
<1>5. Chained'
  <2>1. \A s \in Indices : \A i \in DOMAIN slot'[s] :
          /\ SlotOf(slot'[s][i].key) = s
          /\ \A j \in DOMAIN slot'[s] : slot'[s][i].key = slot'[s][j].key => i = j
    BY DEF Chained
  <2> QED  BY <2>1, SlotsStay DEF Chained, SlotOf
<1>6. Counted'  BY <1>3 DEF Counted
<1>7. LeftBehind'
  <2>1. cursor.at \in Indices /\ left \subseteq HashKeys  BY DEF HashTypeOK
  <2>2. In(slot'[cursor.at], cursor.key) = In(slot[cursor.at], cursor.key)
    BY <1>1, <2>1
  <2> QED  BY <1>2, <2>1, <2>2, SlotsStay DEF LeftBehind, Behind, SlotOf
<1>8. HashShowsAll'  BY DEF HashShowsAll
<1> QED  BY <1>4, <1>5, <1>6, <1>7, <1>8

LEMMA ReplaceFacts ==
  ASSUME HInv, NEW k \in HashKeys, NEW v \in Data, Replace(k, v)
  PROVE  \E i \in Here(k) :
           /\ slot' \in [Indices -> Seq(Node)]
           /\ \A s \in Indices : DOMAIN slot'[s] = DOMAIN slot[s]
           /\ \A s \in Indices : \A j \in DOMAIN slot[s] :
                /\ slot'[s][j].key = slot[s][j].key
                /\ slot'[s][j].data = IF s = SlotOf(k) /\ j = i THEN v
                                      ELSE slot[s][j].data
<1> DEFINE t == SlotOf(k)
<1>1. slot \in [Indices -> Seq(Node)]  BY DEF HInv, HashTypeOK, Node
<1>2. t \in Indices  BY SlotType
<1>3. PICK i \in Here(k) : slot' = [slot EXCEPT ![t][i].data = v]  BY DEF Replace
<1> HIDE DEF t
<1>4. slot[t] \in Seq(Node) /\ i \in DOMAIN slot[t]
  BY <1>1, <1>2, <1>3 DEF Here, In, t
<1> DEFINE c == [slot[t] EXCEPT ![i].data = v]
<1>5. slot' = [slot EXCEPT ![t] = c]  BY <1>3
<1>6. /\ c \in Seq(Node) /\ DOMAIN c = DOMAIN slot[t]
      /\ \A j \in DOMAIN slot[t] : /\ c[j].key = slot[t][j].key
                                   /\ c[j].data = IF j = i THEN v ELSE slot[t][j].data
  <2>1. slot[t][i] \in Node  BY <1>4
  <2>2. [slot[t][i] EXCEPT !.data = v] \in Node
        /\ [slot[t][i] EXCEPT !.data = v].key = slot[t][i].key
        /\ [slot[t][i] EXCEPT !.data = v].data = v
    BY <2>1 DEF Node
  <2>3. c = [slot[t] EXCEPT ![i] = [slot[t][i] EXCEPT !.data = v]]  OBVIOUS
  <2> DEFINE n == [slot[t][i] EXCEPT !.data = v]
  <2> HIDE DEF n, c
  <2>4. n \in Node /\ n.key = slot[t][i].key /\ n.data = v  BY <2>2 DEF n
  <2>5. c = [slot[t] EXCEPT ![i] = n]  BY <2>3 DEF n
  <2>6. c \in Seq(Node) /\ DOMAIN c = DOMAIN slot[t]  BY <1>4, <2>4, <2>5
  <2>7. \A j \in DOMAIN slot[t] : c[j] = IF j = i THEN n ELSE slot[t][j]
    BY <1>4, <2>5
  <2> QED  BY <2>4, <2>6, <2>7
<1> HIDE DEF c
<1>7. \A s \in Indices : slot'[s] = IF s = t THEN c ELSE slot[s]
  BY <1>1, <1>2, <1>5
<1>8. slot' \in [Indices -> Seq(Node)]  BY <1>1, <1>2, <1>5, <1>6
<1> QED  BY <1>3, <1>6, <1>7, <1>8 DEF t

LEMMA ReplaceStep ==
  ASSUME HInv, NEW k \in HashKeys, NEW v \in Data, Replace(k, v)
  PROVE  HInv'
<1>1. UNCHANGED <<length, cursor, left>>  BY DEF Replace
<1> QED  BY <1>1, ReplaceFacts, SameKeys

LEMMA AddFacts ==
  ASSUME HInv, NEW k \in HashKeys, NEW v \in Data, Add(k, v)
  PROVE  /\ slot' \in [Indices -> Seq(Node)]
         /\ \A s \in Indices :
              /\ DOMAIN slot[s] \subseteq DOMAIN slot'[s]
              /\ \A j \in DOMAIN slot[s] : slot'[s][j] = slot[s][j]
              /\ \A j \in DOMAIN slot'[s] \ DOMAIN slot[s] :
                   s = SlotOf(k) /\ slot'[s][j] = [key |-> k, data |-> v]
         /\ \E j \in DOMAIN slot'[SlotOf(k)] :
              /\ DOMAIN slot'[SlotOf(k)] = DOMAIN slot[SlotOf(k)] \cup {j}
              /\ slot'[SlotOf(k)][j] = [key |-> k, data |-> v]
<1> DEFINE t == SlotOf(k)
           n == [key |-> k, data |-> v]
           c == Append(slot[t], n)
<1>1. slot \in [Indices -> Seq(Node)]  BY DEF HInv, HashTypeOK, Node
<1>2. t \in Indices  BY SlotType
<1>3. slot' = [slot EXCEPT ![t] = c]  BY DEF Add
<1>4. n \in Node  BY DEF Node
<1> HIDE DEF t, n
<1>5. slot[t] \in Seq(Node)  BY <1>1, <1>2
<1>6. /\ c \in Seq(Node) /\ Len(c) = Len(slot[t]) + 1
      /\ \A j \in 1 .. Len(slot[t]) : c[j] = slot[t][j]
      /\ c[Len(slot[t]) + 1] = n
  BY <1>4, <1>5
<1> HIDE DEF c
<1>7. \A s \in Indices : slot'[s] = IF s = t THEN c ELSE slot[s]
  BY <1>1, <1>2, <1>3
<1>8. slot' \in [Indices -> Seq(Node)]  BY <1>1, <1>2, <1>3, <1>6
<1>9. /\ DOMAIN slot[t] = 1 .. Len(slot[t]) /\ Len(slot[t]) \in Nat
      /\ DOMAIN c = 1 .. Len(slot[t]) + 1
  BY <1>5, <1>6
<1>10. DOMAIN c = DOMAIN slot[t] \cup {Len(slot[t]) + 1}  BY <1>9
<1>11. /\ DOMAIN slot'[t] = DOMAIN slot[t] \cup {Len(slot[t]) + 1}
       /\ slot'[t][Len(slot[t]) + 1] = n
       /\ \A j \in DOMAIN slot[t] : slot'[t][j] = slot[t][j]
  BY <1>2, <1>6, <1>7, <1>9, <1>10
<1>12. \A s \in Indices : s # t => slot'[s] = slot[s]  BY <1>7
<1> QED  BY <1>2, <1>8, <1>11, <1>12 DEF t, n

LEMMA AddStep ==
  ASSUME HInv, NEW k \in HashKeys, NEW v \in Data, Add(k, v)
  PROVE  HInv'
<1> USE DEF HInv
<1>1. /\ Here(k) = {} /\ length' = length + 1 /\ UNCHANGED <<cursor, left>>
  BY DEF Add
<1>2. /\ slot' \in [Indices -> Seq(Node)]
      /\ \A s \in Indices :
           /\ DOMAIN slot[s] \subseteq DOMAIN slot'[s]
           /\ \A j \in DOMAIN slot[s] : slot'[s][j] = slot[s][j]
           /\ \A j \in DOMAIN slot'[s] \ DOMAIN slot[s] :
                s = SlotOf(k) /\ slot'[s][j] = [key |-> k, data |-> v]
  BY AddFacts
<1>3. PICK n \in DOMAIN slot'[SlotOf(k)] :
        /\ DOMAIN slot'[SlotOf(k)] = DOMAIN slot[SlotOf(k)] \cup {n}
        /\ slot'[SlotOf(k)][n] = [key |-> k, data |-> v]
  BY AddFacts
<1>4. HashTypeOK'
  <2>1. length' \in Nat /\ cursor' = cursor /\ left' = left
    BY <1>1 DEF HashTypeOK
  <2>2. slot' \in [Indices -> Seq([key : HashKeys, data : Data])]
    BY <1>2 DEF Node
  <2> QED  BY <2>1, <2>2, SlotsStay DEF HashTypeOK
<1>5. \A s \in Indices : \A x : In(slot[s], x) \subseteq In(slot'[s], x)
  BY <1>2 DEF In
<1>6. \A s \in Indices : \A i \in DOMAIN slot[s] : slot[s][i].key # k
  BY <1>1, KeyOnce
<1>7. Chained'
  <2>1. ASSUME NEW s \in Indices, NEW i \in DOMAIN slot'[s]
        PROVE  SlotOf(slot'[s][i].key) = s
    BY <1>2, <2>1 DEF Chained
  <2>2. ASSUME NEW s \in Indices, NEW i \in DOMAIN slot'[s],
               NEW j \in DOMAIN slot'[s], slot'[s][i].key = slot'[s][j].key
        PROVE  i = j
    <3>1. CASE i \in DOMAIN slot[s] /\ j \in DOMAIN slot[s]
      BY <1>2, <2>2, <3>1 DEF Chained
    <3>2. CASE i \in DOMAIN slot[s] /\ j \notin DOMAIN slot[s]
      BY <1>2, <1>6, <2>2, <3>2
    <3>3. CASE i \notin DOMAIN slot[s] /\ j \in DOMAIN slot[s]
      BY <1>2, <1>6, <2>2, <3>3
    <3>4. CASE i \notin DOMAIN slot[s] /\ j \notin DOMAIN slot[s]
      BY <1>2, <1>3, <2>2, <3>4
    <3> QED  BY <3>1, <3>2, <3>3, <3>4
  <2> QED  BY <2>1, <2>2, SlotsStay DEF Chained, SlotOf
<1>8. \A x \in HashKeys : Here(x) \subseteq Here(x)'
  BY <1>5, SlotType DEF Here, SlotOf, MaxSlot
<1>9. Counted'
  <2>1. \A x \in HashKeys : x # k /\ Here(x)' # {} => Here(x) # {}
    BY <1>2, SlotType, SlotsStay DEF Here, In, SlotOf
  <2>2. n \in Here(k)'  BY <1>3 DEF Here, In, SlotOf, MaxSlot
  <2>3. HashKeysIn' = HashKeysIn \cup {k}  BY <1>8, <2>1, <2>2 DEF HashKeysIn
  <2>4. k \notin HashKeysIn  BY <1>1 DEF HashKeysIn
  <2> QED  BY <1>1, <2>3, <2>4, FS_AddElement DEF Counted
<1>10. LeftBehind'
  <2>1. cursor.at \in Indices /\ left \subseteq HashKeys  BY DEF HashTypeOK
  <2>2. In(slot[cursor.at], cursor.key) \subseteq In(slot'[cursor.at], cursor.key)
    BY <1>5, <2>1
  <2>3. \A x \in left : Here(x) # {} /\ Behind(x) /\ Here(x) \subseteq Here(x)'
    BY <1>8, <2>1 DEF LeftBehind
  <2>4. \A x \in left : Here(x)' # {}  BY <2>3
  <2>5. \A x \in left : Behind(x)'
    BY <1>1, <2>2, <2>3, SlotsStay DEF Behind, SlotOf
  <2> QED  BY <1>1, <2>2, <2>4, <2>5 DEF LeftBehind
<1>11. HashShowsAll'  BY <1>1 DEF HashShowsAll
<1> QED  BY <1>4, <1>7, <1>9, <1>10, <1>11

\* Node j of a chain from which node i was taken was node Was(i, j).
Was(i, j) == IF j < i THEN j ELSE j + 1

LEMMA DelFacts ==
  ASSUME HInv, NEW k \in HashKeys, Del(k)
  PROVE  \E i \in Here(k) :
           /\ slot' \in [Indices -> Seq(Node)]
           /\ \A s \in Indices : s # SlotOf(k) => slot'[s] = slot[s]
           /\ \A j \in DOMAIN slot'[SlotOf(k)] :
                /\ Was(i, j) \in DOMAIN slot[SlotOf(k)]
                /\ slot'[SlotOf(k)][j] = slot[SlotOf(k)][Was(i, j)]
           /\ \A m \in DOMAIN slot[SlotOf(k)] : m # i =>
                \E j \in DOMAIN slot'[SlotOf(k)] : Was(i, j) = m
           /\ i \in Nat /\ DOMAIN slot'[SlotOf(k)] \subseteq Nat
<1> DEFINE t == SlotOf(k)
<1>1. slot \in [Indices -> Seq(Node)]  BY DEF HInv, HashTypeOK, Node
<1>2. t \in Indices  BY SlotType
<1>3. PICK i \in Here(k) : slot' = [slot EXCEPT ![t] = RemoveAt(slot[t], i)]
  BY DEF Del
<1>4. slot[t] \in Seq(Node) /\ i \in DOMAIN slot[t]
  BY <1>1, <1>2, <1>3 DEF Here, In
<1> HIDE DEF t
<1> DEFINE c == RemoveAt(slot[t], i)
<1>5. i \in 1 .. Len(slot[t]) /\ Len(slot[t]) \in Nat /\ DOMAIN slot[t] = 1 .. Len(slot[t])
  BY <1>4
<1>6. /\ c \in Seq(Node) /\ Len(c) = Len(slot[t]) - 1
      /\ \A j \in 1 .. Len(slot[t]) - 1 :
           c[j] = IF j < i THEN slot[t][j] ELSE slot[t][j + 1]
  BY <1>4, <1>5, RemoveFacts
<1>7. slot' = [slot EXCEPT ![t] = c]  BY <1>3
<1> HIDE DEF c
<1>8. \A s \in Indices : slot'[s] = IF s = t THEN c ELSE slot[s]
  BY <1>1, <1>2, <1>7
<1>9. slot' \in [Indices -> Seq(Node)]  BY <1>1, <1>2, <1>6, <1>7
<1>10. DOMAIN c = 1 .. Len(slot[t]) - 1  BY <1>6
<1>11. \A j \in DOMAIN c : Was(i, j) \in DOMAIN slot[t] /\ c[j] = slot[t][Was(i, j)]
  BY <1>5, <1>6, <1>10 DEF Was
<1>12. ASSUME NEW m \in DOMAIN slot[t], m # i PROVE \E j \in DOMAIN c : Was(i, j) = m
  <2>1. CASE m < i
    <3>1. m \in DOMAIN c /\ Was(i, m) = m  BY <1>5, <1>10, <2>1 DEF Was
    <3> QED  BY <3>1
  <2>2. CASE m > i
    <3>1. m - 1 \in DOMAIN c /\ Was(i, m - 1) = m  BY <1>5, <1>10, <2>2 DEF Was
    <3> QED  BY <3>1
  <2> QED  BY <1>5, <1>12, <2>1, <2>2
<1>13. i \in Nat /\ DOMAIN c \subseteq Nat  BY <1>5, <1>10
<1> QED  BY <1>2, <1>3, <1>8, <1>9, <1>11, <1>12, <1>13 DEF t

LEMMA DelStep ==
  ASSUME HInv, NEW k \in HashKeys, Del(k)
  PROVE  HInv'
<1> USE DEF HInv
<1> DEFINE t == SlotOf(k)
<1>1. /\ length' = length - 1 /\ cursor.key # k /\ left' = left \ {k}
      /\ UNCHANGED cursor
  BY DEF Del
<1>2. t \in Indices  BY SlotType
<1>3. PICK i \in Here(k) :
        /\ slot' \in [Indices -> Seq(Node)]
        /\ \A s \in Indices : s # t => slot'[s] = slot[s]
        /\ \A j \in DOMAIN slot'[t] : /\ Was(i, j) \in DOMAIN slot[t]
                                      /\ slot'[t][j] = slot[t][Was(i, j)]
        /\ \A m \in DOMAIN slot[t] : m # i => \E j \in DOMAIN slot'[t] : Was(i, j) = m
        /\ i \in Nat /\ DOMAIN slot'[t] \subseteq Nat
  BY DelFacts
<1>4. i \in DOMAIN slot[t] /\ slot[t][i].key = k /\ Here(k) = {i}
  <2>1. i \in DOMAIN slot[t] /\ slot[t][i].key = k  BY <1>3 DEF Here, In
  <2> QED  BY <1>2, <2>1, KeyOnce
<1> HIDE DEF t
<1>5. \A j, m \in DOMAIN slot'[t] : /\ Was(i, j) # i
                                    /\ Was(i, j) = Was(i, m) => j = m
                                    /\ Was(i, j) < Was(i, m) => j < m
  BY <1>3 DEF Was
<1>6. \A s \in Indices : s # t => \A j \in DOMAIN slot[s] : slot[s][j].key # k
  BY KeyOnce DEF t
<1>7. \A x : x # k =>
        \A m \in In(slot[t], x) : \E j \in In(slot'[t], x) : Was(i, j) = m
  BY <1>3, <1>4 DEF In
<1>8. \A x \in HashKeys : x # k => (Here(x) # {} => Here(x)' # {})
  BY <1>3, <1>7, SlotType, SlotsStay DEF Here, SlotOf
<1>9. \A x \in HashKeys : Here(x)' # {} => Here(x) # {}
  BY <1>3, SlotType, SlotsStay DEF Here, In, SlotOf
<1>10. Here(k)' = {}
  <2>1. \A j \in DOMAIN slot'[t] : slot'[t][j].key # k
    BY <1>2, <1>3, <1>4, <1>5 DEF Chained
  <2> QED  BY <2>1, SlotsStay DEF Here, In, SlotOf, t
<1>11. HashKeysIn' = HashKeysIn \ {k} /\ k \in HashKeysIn
  BY <1>4, <1>8, <1>9, <1>10 DEF HashKeysIn
<1>12. Counted' /\ length' \in Nat
  <2>1. IsFiniteSet(HashKeysIn) /\ length = Cardinality(HashKeysIn)  BY DEF Counted
  <2>2. /\ IsFiniteSet(HashKeysIn \ {k})
        /\ Cardinality(HashKeysIn \ {k}) = Cardinality(HashKeysIn) - 1
    BY <1>11, <2>1, FS_RemoveElement
  <2>3. length' = Cardinality(HashKeysIn \ {k})  BY <1>1, <2>1, <2>2
  <2>4. length' \in Nat  BY <2>2, <2>3, FS_CardinalityType
  <2> QED  BY <1>11, <2>2, <2>3, <2>4 DEF Counted
<1>13. HashTypeOK'
  <2>1. cursor' = cursor /\ left' \subseteq HashKeys  BY <1>1 DEF HashTypeOK
  <2>2. slot' \in [Indices -> Seq([key : HashKeys, data : Data])]
    BY <1>3 DEF Node
  <2> QED  BY <1>12, <2>1, <2>2, SlotsStay DEF HashTypeOK
<1>14. Chained'
  <2>1. \A j \in DOMAIN slot'[t] :
          /\ SlotOf(slot'[t][j].key) = t
          /\ \A m \in DOMAIN slot'[t] : slot'[t][j].key = slot'[t][m].key => j = m
    BY <1>2, <1>3, <1>5 DEF Chained
  <2>2. \A s \in Indices : \A j \in DOMAIN slot'[s] :
          /\ SlotOf(slot'[s][j].key) = s
          /\ \A m \in DOMAIN slot'[s] : slot'[s][j].key = slot'[s][m].key => j = m
    BY <1>3, <2>1 DEF Chained
  <2> QED  BY <2>2, SlotsStay DEF Chained, SlotOf
<1>15. LeftBehind'
  <2>1. cursor.at \in Indices /\ left \subseteq HashKeys  BY DEF HashTypeOK
  <2>2. ASSUME cursor.key # NoKey
        PROVE  In(slot'[cursor.at], cursor.key) # {}
    <3>1. In(slot[cursor.at], cursor.key) # {}  BY <2>2 DEF LeftBehind
    <3>2. CASE cursor.at = t  BY <1>1, <1>7, <3>1, <3>2
    <3>3. CASE cursor.at # t  BY <1>3, <2>1, <3>1, <3>3
    <3> QED  BY <3>2, <3>3
  <2>3. ASSUME NEW x \in left, x # k
        PROVE  Here(x)' # {} /\ Behind(x)'
    <3>1. x \in HashKeys /\ Here(x) # {} /\ Behind(x)  BY <2>1 DEF LeftBehind
    <3>2. Here(x)' # {}  BY <1>8, <2>3, <3>1
    <3>3. CASE SlotOf(x) > cursor.at
      BY <1>1, <3>2, <3>3, SlotsStay DEF Behind, SlotOf
    <3>4. CASE ~ (SlotOf(x) > cursor.at)
      <4>1. SlotOf(x) = cursor.at  BY <3>1, <3>4 DEF Behind
      <4>2. PICK a \in In(slot[cursor.at], cursor.key), b \in In(slot[cursor.at], x) :
              a < b
        BY <3>1, <3>4, <4>1 DEF Behind, Here
      <4>3. \E c \in In(slot'[cursor.at], cursor.key), d \in In(slot'[cursor.at], x) :
              c < d
        <5>1. CASE cursor.at = t
          <6>1. PICK c \in In(slot'[t], cursor.key) : Was(i, c) = a
            BY <1>1, <1>7, <4>2, <5>1
          <6>2. PICK d \in In(slot'[t], x) : Was(i, d) = b
            BY <1>7, <2>3, <4>2, <5>1
          <6>3. c < d  BY <1>5, <4>2, <6>1, <6>2 DEF In
          <6> QED  BY <5>1, <6>3
        <5>2. CASE cursor.at # t  BY <1>3, <2>1, <4>2, <5>2
        <5> QED  BY <5>1, <5>2
      <4> QED  BY <1>1, <3>2, <4>1, <4>3, SlotsStay DEF Behind, Here, SlotOf
    <3> QED  BY <3>2, <3>3, <3>4
  <2> QED  BY <1>1, <2>2, <2>3 DEF LeftBehind
<1>16. HashShowsAll'  BY <1>1 DEF HashShowsAll
<1> QED  BY <1>12, <1>13, <1>14, <1>15, <1>16

\* The iterator comes to node i of slot s, with what is left behind it.
LEMMA Arrives ==
  ASSUME HInv, NEW s \in Indices, NEW i \in DOMAIN slot[s], Show(s, i),
         left' \subseteq HashKeysIn,
         \A x \in left' : SlotOf(x) > s \/ (SlotOf(x) = s /\ \E j \in Here(x) : i < j)
  PROVE  HInv'
<1> USE DEF HInv
<1>1. /\ cursor' = [at |-> s, key |-> slot[s][i].key] /\ UNCHANGED <<slot, length>>
  BY DEF Show
<1>2. /\ slot[s][i].key \in HashKeys /\ SlotOf(slot[s][i].key) = s
      /\ Here(slot[s][i].key) = {i}
  BY KeyOnce
<1>3. cursor'.at = s /\ cursor'.key = slot[s][i].key  BY <1>1
<1>4. HashTypeOK'
  <2>1. cursor' \in [at : Indices, key : HashKeys \cup {NoKey}]  BY <1>1, <1>2
  <2>2. left' \subseteq HashKeys  BY DEF HashKeysIn
  <2> QED  BY <1>1, <2>1, <2>2, SlotsStay DEF HashTypeOK
<1>5. \A x : Here(x)' = Here(x)  BY <1>1, SlotsStay DEF Here, In, SlotOf
<1>6. HashKeysIn' = HashKeysIn  BY <1>5 DEF HashKeysIn
<1>7. Chained' /\ Counted'
  BY <1>1, <1>6, SlotsStay DEF Chained, Counted, SlotOf
<1>8. HashShowsAll'  BY <1>2, <1>3, HashAssumption DEF HashShowsAll
<1>9. i \in In(slot[s], slot[s][i].key)  BY DEF In
<1>10. LeftBehind'
  <2>1. In(slot[s], slot[s][i].key) # {}  BY <1>9
  <2>2. \A x \in left' : Here(x) # {}  BY DEF HashKeysIn
  <2>3. \A x \in left' : SlotOf(x) > s
          \/ (SlotOf(x) = s /\ \E a \in In(slot[s], slot[s][i].key), j \in Here(x) : a < j)
    BY <1>9
  <2>4. \A x \in left' : Behind(x)'
    BY <1>1, <1>3, <1>5, <2>3, SlotsStay DEF Behind, SlotOf
  <2> QED  BY <1>1, <1>3, <1>5, <2>1, <2>2, <2>4 DEF LeftBehind
<1> QED  BY <1>4, <1>7, <1>8, <1>10

\* Where the keys are: none is in a slot before the first used one.
LEMMA FirstUsed ==
  ASSUME HInv, NEW from \in Nat, NEW x \in HashKeysIn, SlotOf(x) >= from
  PROVE  /\ Used(from) # {} /\ Least(Used(from)) \in Indices
         /\ 1 \in DOMAIN slot[Least(Used(from))]
         /\ \/ SlotOf(x) > Least(Used(from))
            \/ /\ SlotOf(x) = Least(Used(from))
               /\ \/ x = slot[Least(Used(from))][1].key
                  \/ \E j \in Here(x) : 1 < j
<1> USE DEF HInv
<1>1. x \in HashKeys /\ Here(x) # {} /\ SlotOf(x) \in Indices
  BY SlotType DEF HashKeysIn
<1>2. SlotOf(x) \in Used(from)  BY <1>1 DEF Used, Here, In
<1>3. Used(from) \subseteq Indices  BY DEF Used
<1> DEFINE s == Least(Used(from))
<1>4. s \in Used(from) /\ s <= SlotOf(x)  BY <1>2, <1>3, LeastIn
<1>5. s \in Indices /\ slot[s] # <<>>  BY <1>4 DEF Used
<1> HIDE DEF s
<1>6. slot[s] \in Seq(Node)  BY <1>5 DEF HashTypeOK, Node
<1>7. 1 \in DOMAIN slot[s]  BY <1>5, <1>6
<1>8. s \in Nat /\ SlotOf(x) \in Nat  BY <1>1, <1>5 DEF Indices
<1>9. CASE SlotOf(x) = s
  <2>1. PICK j \in DOMAIN slot[s] : slot[s][j].key = x /\ j \in Here(x)
    BY <1>1, <1>9 DEF Here, In
  <2>2. j \in Nat /\ j >= 1  BY <1>6, <2>1
  <2>3. j = 1 \/ 1 < j  BY <2>2
  <2> QED  BY <1>2, <1>5, <1>7, <1>9, <2>1, <2>3 DEF s
<1> QED  BY <1>2, <1>4, <1>5, <1>7, <1>8, <1>9 DEF s

LEMMA BeginStep == ASSUME HInv, HashBegin PROVE HInv'
<1> USE DEF HInv
<1>1. CASE length = 0
  <2>1. cursor' = NoCursor /\ left' = {} /\ UNCHANGED <<slot, length>>
    BY <1>1 DEF HashBegin
  <2>2. 0 \in Indices  BY SlotsThere DEF Indices
  <2>3. cursor' \in [at : Indices, key : HashKeys \cup {NoKey}]
    BY <2>1, <2>2 DEF NoCursor
  <2>4. HashTypeOK'  BY <2>1, <2>3, SlotsStay DEF HashTypeOK
  <2>5. \A x : Here(x)' = Here(x)  BY <2>1, SlotsStay DEF Here, In, SlotOf
  <2>6. HashKeysIn' = HashKeysIn  BY <2>5 DEF HashKeysIn
  <2>7. Chained' /\ Counted'
    BY <2>1, <2>6, SlotsStay DEF Chained, Counted, SlotOf
  <2>8. LeftBehind' /\ HashShowsAll'
    BY <2>1 DEF LeftBehind, HashShowsAll, NoCursor
  <2> QED  BY <2>4, <2>7, <2>8
<1>2. CASE length # 0
  <2> DEFINE s == Least(Used(0))
  <2>1. Show(s, 1) /\ left' = HashKeysIn \ {slot[s][1].key}
    BY <1>2 DEF HashBegin
  <2>2. \A x \in HashKeysIn : SlotOf(x) \in Nat
    BY SlotType DEF HashKeysIn, Indices
  <2>3. HashKeysIn # {}  BY <1>2, FS_EmptySet DEF Counted
  <2>4. \A x \in HashKeysIn :
          /\ s \in Indices /\ 1 \in DOMAIN slot[s]
          /\ \/ SlotOf(x) > s
             \/ SlotOf(x) = s /\ (x = slot[s][1].key \/ \E j \in Here(x) : 1 < j)
    BY <2>2, FirstUsed
  <2> HIDE DEF s
  <2>5. s \in Indices /\ 1 \in DOMAIN slot[s]  BY <2>3, <2>4
  <2>6. left' \subseteq HashKeysIn  BY <2>1
  <2>7. \A x \in left' : SlotOf(x) > s \/ (SlotOf(x) = s /\ \E j \in Here(x) : 1 < j)
    BY <2>1, <2>4
  <2> QED  BY <2>1, <2>5, <2>6, <2>7, Arrives
<1> QED  BY <1>1, <1>2

\* What is left to show, seen from the node the iterator is at.
LEMMA LeftFacts ==
  ASSUME HInv, NEW i \in In(slot[cursor.at], cursor.key)
  PROVE  /\ cursor.at \in Indices /\ i \in DOMAIN slot[cursor.at]
         /\ left \subseteq HashKeysIn
         /\ \A x \in left : \/ SlotOf(x) > cursor.at
                            \/ /\ SlotOf(x) = cursor.at
                               /\ \E j \in Here(x) : i < j
<1> USE DEF HInv
<1>1. cursor.at \in Indices /\ left \subseteq HashKeys  BY DEF HashTypeOK
<1>2. i \in DOMAIN slot[cursor.at] /\ slot[cursor.at][i].key = cursor.key
  BY DEF In
<1>3. \A a \in In(slot[cursor.at], cursor.key) : a = i
  BY <1>1, <1>2 DEF Chained, In
<1>4. \A x \in left : Here(x) # {} /\ Behind(x)  BY DEF LeftBehind
<1>5. left \subseteq HashKeysIn  BY <1>1, <1>4 DEF HashKeysIn
<1> QED  BY <1>1, <1>2, <1>3, <1>4, <1>5 DEF Behind

LEMMA ChainStep == ASSUME HInv, StepInChain PROVE HInv'
<1> USE DEF HInv
<1> DEFINE s == cursor.at
<1>1. PICK i \in In(slot[s], cursor.key) :
        /\ i < Len(slot[s]) /\ Show(s, i + 1) /\ left' = left \ {slot[s][i + 1].key}
  BY DEF StepInChain
<1>2. /\ s \in Indices /\ i \in DOMAIN slot[s] /\ left \subseteq HashKeysIn
      /\ \A x \in left : SlotOf(x) > s \/ (SlotOf(x) = s /\ \E j \in Here(x) : i < j)
  BY LeftFacts
<1> HIDE DEF s
<1>3. slot[s] \in Seq(Node)  BY <1>2 DEF HashTypeOK, Node
<1>4. i + 1 \in DOMAIN slot[s] /\ i \in Nat /\ DOMAIN slot[s] \subseteq Nat
  BY <1>1, <1>2, <1>3
<1>5. ASSUME NEW x \in left', ~ (SlotOf(x) > s)
      PROVE  SlotOf(x) = s /\ \E j \in Here(x) : i + 1 < j
  <2>1. x \in left /\ x # slot[s][i + 1].key  BY <1>1, <1>5
  <2>2. PICK j \in Here(x) : i < j /\ SlotOf(x) = s  BY <1>2, <1>5, <2>1
  <2>3. j \in DOMAIN slot[s] /\ slot[s][j].key = x  BY <2>2 DEF Here, In
  <2>4. j # i + 1  BY <2>1, <2>3
  <2>5. i + 1 < j  BY <1>4, <2>2, <2>3, <2>4
  <2> QED  BY <2>2, <2>5
<1>6. left' \subseteq HashKeysIn  BY <1>1, <1>2
<1> QED  BY <1>1, <1>2, <1>4, <1>5, <1>6, Arrives

\* Behind the last node of a chain only later slots are left.
LEMMA LeftLater ==
  ASSUME HInv, Len(slot[cursor.at]) \in In(slot[cursor.at], cursor.key)
  PROVE  /\ cursor.at \in Indices /\ left \subseteq HashKeysIn
         /\ \A x \in left : SlotOf(x) >= cursor.at + 1
<1> USE DEF HInv
<1>1. /\ cursor.at \in Indices /\ left \subseteq HashKeysIn
      /\ \A x \in left : \/ SlotOf(x) > cursor.at
                         \/ /\ SlotOf(x) = cursor.at
                            /\ \E j \in Here(x) : Len(slot[cursor.at]) < j
  BY LeftFacts
<1>2. slot[cursor.at] \in Seq(Node)  BY <1>1 DEF HashTypeOK, Node
<1>3. \A j \in DOMAIN slot[cursor.at] : ~ (Len(slot[cursor.at]) < j)  BY <1>2
<1>4. \A x \in left : SlotOf(x) > cursor.at  BY <1>1, <1>3 DEF Here, In
<1>5. \A x \in left : SlotOf(x) \in Nat
  BY <1>1, SlotType DEF HashKeysIn, Indices
<1>6. cursor.at \in Nat  BY <1>1 DEF Indices
<1> QED  BY <1>1, <1>4, <1>5, <1>6

LEMMA SlotStep == ASSUME HInv, StepToSlot PROVE HInv'
<1> USE DEF HInv
<1> DEFINE n == cursor.at + 1
           s == Least(Used(n))
<1>1. /\ Len(slot[cursor.at]) \in In(slot[cursor.at], cursor.key)
      /\ Used(n) # {} /\ Show(s, 1) /\ left' = left \ {slot[s][1].key}
  BY DEF StepToSlot
<1>2. /\ cursor.at \in Indices /\ left \subseteq HashKeysIn
      /\ \A x \in left : SlotOf(x) >= n
  BY <1>1, LeftLater
<1>3. n \in Nat  BY <1>2 DEF Indices
<1>4. \A x \in left : \/ SlotOf(x) > s
                      \/ SlotOf(x) = s /\ (x = slot[s][1].key \/ \E j \in Here(x) : 1 < j)
  BY <1>2, <1>3, FirstUsed
<1>5. s \in Used(n)
  <2>1. Used(n) \subseteq Indices  BY DEF Used
  <2> QED  BY <1>1, <2>1, LeastIn
<1> HIDE DEF n, s
<1>6. s \in Indices /\ slot[s] # <<>>  BY <1>5 DEF Used
<1>7. slot[s] \in Seq(Node)  BY <1>6 DEF HashTypeOK, Node
<1>8. 1 \in DOMAIN slot[s]  BY <1>6, <1>7
<1>9. left' \subseteq HashKeysIn  BY <1>1, <1>2
<1>10. \A x \in left' : SlotOf(x) > s \/ (SlotOf(x) = s /\ \E j \in Here(x) : 1 < j)
  BY <1>1, <1>4
<1> QED  BY <1>1, <1>6, <1>8, <1>9, <1>10, Arrives

LEMMA EndStep == ASSUME HInv, HashEnd PROVE HInv'
<1> USE DEF HInv
<1>1. /\ Len(slot[cursor.at]) \in In(slot[cursor.at], cursor.key)
      /\ Used(cursor.at + 1) = {} /\ cursor' = [cursor EXCEPT !.key = NoKey]
      /\ UNCHANGED <<slot, length, left>>
  BY DEF HashEnd
<1>2. left = {}
  <2>1. /\ cursor.at \in Indices /\ left \subseteq HashKeysIn
        /\ \A x \in left : SlotOf(x) >= cursor.at + 1
    BY <1>1, LeftLater
  <2>2. cursor.at + 1 \in Nat  BY <2>1 DEF Indices
  <2> QED  BY <1>1, <2>1, <2>2, FirstUsed
<1>3. cursor' \in [at : Indices, key : HashKeys \cup {NoKey}] /\ cursor'.key = NoKey
  BY <1>1 DEF HashTypeOK
<1>4. HashTypeOK'  BY <1>1, <1>3, SlotsStay DEF HashTypeOK
<1>5. \A x : Here(x)' = Here(x)  BY <1>1, SlotsStay DEF Here, In, SlotOf
<1>6. HashKeysIn' = HashKeysIn  BY <1>5 DEF HashKeysIn
<1>7. Chained' /\ Counted'
  BY <1>1, <1>6, SlotsStay DEF Chained, Counted, SlotOf
<1>8. LeftBehind' /\ HashShowsAll'
  BY <1>1, <1>2, <1>3 DEF LeftBehind, HashShowsAll
<1> QED  BY <1>4, <1>7, <1>8

LEMMA HashInitInv == HashInit => HInv
<1> SUFFICES ASSUME HashInit PROVE HInv  OBVIOUS
<1> USE DEF HashInit
<1>1. \A s \in Indices : slot[s] = <<>>  OBVIOUS
<1>2. \A s \in Indices : \A x : In(slot[s], x) = {}  BY <1>1 DEF In
<1>3. HashKeysIn = {}  BY <1>2, SlotType DEF HashKeysIn, Here
<1>4. 0 \in Indices  BY SlotsThere DEF Indices
<1>5. HashTypeOK
  <2>1. <<>> \in Seq([key : HashKeys, data : Data])  OBVIOUS
  <2>2. slot \in [Indices -> Seq([key : HashKeys, data : Data])]  BY <2>1
  <2>3. cursor \in [at : Indices, key : HashKeys \cup {NoKey}]
    BY <1>4 DEF NoCursor
  <2>4. length \in Nat /\ left \subseteq HashKeys  OBVIOUS
  <2> QED  BY <2>2, <2>3, <2>4 DEF HashTypeOK
<1>6. Chained  BY <1>1 DEF Chained
<1>7. Counted  BY <1>3, FS_EmptySet DEF Counted
<1>8. LeftBehind /\ HashShowsAll  BY DEF LeftBehind, HashShowsAll, NoCursor
<1> QED  BY <1>5, <1>6, <1>7, <1>8 DEF HInv

LEMMA HashIdle == ASSUME HInv, UNCHANGED hashVars PROVE HInv'
<1>1. \A x : Here(x)' = Here(x)
  BY SlotsStay DEF hashVars, Here, In, SlotOf
<1>2. HashKeysIn' = HashKeysIn  BY <1>1 DEF HashKeysIn
<1>3. HashTypeOK'  BY SlotsStay DEF HInv, HashTypeOK, hashVars
<1>4. Chained' /\ Counted'
  BY <1>2, SlotsStay DEF HInv, Chained, Counted, SlotOf, hashVars
<1>5. LeftBehind'
  BY <1>1, SlotsStay DEF HInv, LeftBehind, Behind, In, SlotOf, hashVars
<1>6. HashShowsAll'  BY DEF HInv, HashShowsAll, hashVars
<1> QED  BY <1>3, <1>4, <1>5, <1>6 DEF HInv

\* The chains of hashmap.c stay well formed, its length is the number of its
\* keys, and what an iteration has still to show is behind its iterator.
THEOREM HashInvariance == HashSpec => []HInv
<1>1. HInv /\ [HashNext]_hashVars => HInv'
  <2> SUFFICES ASSUME HInv, [HashNext]_hashVars PROVE HInv'  OBVIOUS
  <2>1. ASSUME NEW k \in HashKeys, Del(k) PROVE HInv'  BY <2>1, DelStep
  <2>2. ASSUME NEW k \in HashKeys, NEW v \in Data, HashSet(k, v) PROVE HInv'
    BY <2>2, ReplaceStep, AddStep DEF HashSet
  <2>3. CASE HashBegin  BY <2>3, BeginStep
  <2>4. CASE StepInChain  BY <2>4, ChainStep
  <2>5. CASE StepToSlot  BY <2>5, SlotStep
  <2>6. CASE HashEnd  BY <2>6, EndStep
  <2>7. CASE UNCHANGED hashVars  BY <2>7, HashIdle
  <2> QED  BY <2>1, <2>2, <2>3, <2>4, <2>5, <2>6, <2>7 DEF HashNext
<1> QED  BY HashInitInv, <1>1, PTL DEF HashSpec

\* Slots, chains, length and iterator of a hash map have the types hashmap.h
\* gives them.
THEOREM HashTypes == HashSpec => []HashTypeOK
<1>1. HInv => HashTypeOK  BY DEF HInv
<1> QED  BY HashInvariance, <1>1, PTL

\* hashmap_begin and hashmap_next show every key that is in the map all along,
\* whatever is set, replaced or deleted between two calls.
THEOREM HashShowsAllHolds == HashSpec => []HashShowsAll
<1>1. HInv => HashShowsAll  BY DEF HInv
<1> QED  BY HashInvariance, <1>1, PTL

-----------------------------------------------------------------------------
(* Refinement of hashmap.c *)

LEMMA BarReads ==
  HInv => \A x \in HashKeys :
    /\ Here(x) = {} => hashBar[x] = NoData
    /\ \A i \in Here(x) : hashBar[x] = slot[SlotOf(x)][i].data
<1> SUFFICES ASSUME HInv, NEW x \in HashKeys, NEW i \in Here(x)
             PROVE  hashBar[x] = slot[SlotOf(x)][i].data
  BY DEF hashBar
<1>1. SlotOf(x) \in Indices  BY SlotType
<1>2. i \in DOMAIN slot[SlotOf(x)] /\ slot[SlotOf(x)][i].key = x
  BY DEF Here, In
<1>3. Here(x) = {i}  BY <1>1, <1>2, KeyOnce DEF HInv
<1>4. (CHOOSE j \in Here(x) : TRUE) = i  BY <1>3
<1> QED  BY <1>3, <1>4 DEF hashBar

LEMMA BarReadsNext ==
  ASSUME HInv'
  PROVE  \A x \in HashKeys :
           /\ Here(x)' = {} => hashBar'[x] = NoData
           /\ \A i \in Here(x)' : hashBar'[x] = slot'[SlotOf(x)][i].data
<1>1. (HInv => \A x \in HashKeys :
         /\ Here(x) = {} => hashBar[x] = NoData
         /\ \A i \in Here(x) : hashBar[x] = slot[SlotOf(x)][i].data)'
  BY BarReads, PTL
<1> QED  BY <1>1, SlotsStay DEF SlotOf

LEMMA BarIsFunction == hashBar = [x \in HashKeys |-> hashBar[x]]
BY DEF hashBar

\* A change of hashBar at one key is one EXCEPT.
LEMMA BarExcept ==
  ASSUME NEW k \in HashKeys, NEW v,
         \A x \in HashKeys : hashBar'[x] = IF x = k THEN v ELSE hashBar[x]
  PROVE  hashBar' = [hashBar EXCEPT ![k] = v]
<1>1. hashBar = [x \in HashKeys |-> hashBar[x]]  BY BarIsFunction
<1>2. (hashBar = [x \in HashKeys |-> hashBar[x]])'  BY BarIsFunction, PTL
<1> QED  BY <1>1, <1>2, FunctionExcept

\* hashmap_set of a key that is there is Put.
LEMMA ReplaceIsPut ==
  ASSUME HInv, HInv', NEW k \in HashKeys, NEW v \in Data, Replace(k, v)
  PROVE  HashAbstract!Put(k, v)
<1>1. PICK i \in Here(k) :
        /\ \A s \in Indices : DOMAIN slot'[s] = DOMAIN slot[s]
        /\ \A s \in Indices : \A j \in DOMAIN slot[s] :
             /\ slot'[s][j].key = slot[s][j].key
             /\ slot'[s][j].data = IF s = SlotOf(k) /\ j = i THEN v
                                   ELSE slot[s][j].data
  BY ReplaceFacts
<1>2. \A x \in HashKeys : Here(x)' = Here(x)
  BY <1>1, SlotType, SlotsStay DEF Here, In, SlotOf
<1>3. ASSUME NEW x \in HashKeys
      PROVE  hashBar'[x] = IF x = k THEN v ELSE hashBar[x]
  <2>1. SlotOf(x) \in Indices /\ SlotOf(k) \in Indices  BY SlotType
  <2>2. CASE x = k
    <3>1. i \in Here(k)' /\ i \in DOMAIN slot[SlotOf(k)]  BY <1>2 DEF Here, In
    <3>2. hashBar'[k] = slot'[SlotOf(k)][i].data  BY <3>1, BarReadsNext
    <3> QED  BY <1>1, <2>1, <2>2, <3>1, <3>2
  <2>3. CASE x # k /\ Here(x) = {}
    BY <1>2, <2>3, BarReads, BarReadsNext
  <2>4. CASE x # k /\ Here(x) # {}
    <3>1. PICK j \in Here(x) : TRUE  BY <2>4
    <3>2. hashBar[x] = slot[SlotOf(x)][j].data  BY <3>1, BarReads
    <3>3. hashBar'[x] = slot'[SlotOf(x)][j].data
      BY <1>2, <3>1, BarReadsNext
    <3>4. j \in DOMAIN slot[SlotOf(x)] /\ slot[SlotOf(x)][j].key = x
      BY <3>1 DEF Here, In
    <3>5. SlotOf(x) = SlotOf(k) => j # i  BY <2>4, <3>4 DEF Here, In
    <3> QED  BY <1>1, <2>1, <2>4, <3>2, <3>3, <3>4, <3>5
  <2> QED  BY <2>2, <2>3, <2>4
<1>4. hashBar' = [hashBar EXCEPT ![k] = v]  BY <1>3, BarExcept
<1> QED  BY <1>4 DEF HashAbstract!Put

\* hashmap_set of a new key is Put.
LEMMA AddIsPut ==
  ASSUME HInv, HInv', NEW k \in HashKeys, NEW v \in Data, Add(k, v)
  PROVE  HashAbstract!Put(k, v)
<1>1. \A s \in Indices :
        /\ DOMAIN slot[s] \subseteq DOMAIN slot'[s]
        /\ \A j \in DOMAIN slot[s] : slot'[s][j] = slot[s][j]
        /\ \A j \in DOMAIN slot'[s] \ DOMAIN slot[s] :
             s = SlotOf(k) /\ slot'[s][j] = [key |-> k, data |-> v]
  BY AddFacts
<1>2. PICK n \in DOMAIN slot'[SlotOf(k)] :
        slot'[SlotOf(k)][n] = [key |-> k, data |-> v]
  BY AddFacts
<1>3. ASSUME NEW x \in HashKeys
      PROVE  hashBar'[x] = IF x = k THEN v ELSE hashBar[x]
  <2>1. SlotOf(x) \in Indices  BY SlotType
  <2>2. CASE x = k
    <3>1. n \in Here(k)'  BY <1>2, SlotsStay DEF Here, In, SlotOf
    <3>2. hashBar'[k] = slot'[SlotOf(k)][n].data  BY <3>1, BarReadsNext
    <3> QED  BY <1>2, <2>2, <3>2
  <2>3. CASE x # k /\ Here(x) = {}
    <3>1. Here(x)' = {}
      BY <1>1, <2>1, <2>3, SlotsStay DEF Here, In, SlotOf
    <3> QED  BY <2>3, <3>1, BarReads, BarReadsNext
  <2>4. CASE x # k /\ Here(x) # {}
    <3>1. PICK j \in Here(x) : TRUE  BY <2>4
    <3>2. j \in DOMAIN slot[SlotOf(x)] /\ slot[SlotOf(x)][j].key = x
      BY <3>1 DEF Here, In
    <3>3. j \in DOMAIN slot'[SlotOf(x)] /\ slot'[SlotOf(x)][j] = slot[SlotOf(x)][j]
      BY <1>1, <2>1, <3>2
    <3>4. j \in Here(x)'  BY <3>2, <3>3, SlotsStay DEF Here, In, SlotOf
    <3>5. hashBar[x] = slot[SlotOf(x)][j].data  BY <3>1, BarReads
    <3>6. hashBar'[x] = slot'[SlotOf(x)][j].data  BY <3>4, BarReadsNext
    <3> QED  BY <2>4, <3>3, <3>5, <3>6
  <2> QED  BY <2>2, <2>3, <2>4
<1>4. hashBar' = [hashBar EXCEPT ![k] = v]  BY <1>3, BarExcept
<1> QED  BY <1>4 DEF HashAbstract!Put

\* hashmap_del is Remove.
LEMMA DelIsRemove ==
  ASSUME HInv, HInv', NEW k \in HashKeys, Del(k)
  PROVE  HashAbstract!Remove(k)
<1> DEFINE t == SlotOf(k)
<1>1. PICK i \in Here(k) :
        /\ \A s \in Indices : s # t => slot'[s] = slot[s]
        /\ \A j \in DOMAIN slot'[t] : /\ Was(i, j) \in DOMAIN slot[t]
                                      /\ slot'[t][j] = slot[t][Was(i, j)]
        /\ \A m \in DOMAIN slot[t] : m # i =>
             \E j \in DOMAIN slot'[t] : Was(i, j) = m
        /\ i \in Nat /\ DOMAIN slot'[t] \subseteq Nat
  BY DelFacts
<1>2. t \in Indices /\ i \in DOMAIN slot[t] /\ slot[t][i].key = k
  BY <1>1, SlotType DEF Here, In
<1>3. \A j \in DOMAIN slot'[t] : Was(i, j) # i  BY <1>1 DEF Was
<1>4. \A m \in DOMAIN slot[t] : slot[t][m].key = k => m = i
  BY <1>2 DEF HInv, Chained
<1> HIDE DEF t
<1>5. ASSUME NEW x \in HashKeys
      PROVE  hashBar'[x] = IF x = k THEN NoData ELSE hashBar[x]
  <2>1. SlotOf(x) \in Indices /\ SlotOf(x)' = SlotOf(x)
    BY SlotType, SlotsStay DEF SlotOf
  <2>2. Here(x)' = {j \in DOMAIN slot'[SlotOf(x)] : slot'[SlotOf(x)][j].key = x}
    BY SlotsStay DEF Here, In, SlotOf
  <2>3. CASE x = k
    <3>1. SlotOf(x) = t  BY <2>3 DEF t
    <3>2. \A j \in DOMAIN slot'[t] : slot'[t][j].key # k  BY <1>1, <1>3, <1>4
    <3>3. Here(x)' = {}  BY <2>2, <2>3, <3>1, <3>2
    <3> QED  BY <2>3, <3>3, BarReadsNext
  <2>4. CASE x # k /\ Here(x) = {}
    <3>1. \A m \in DOMAIN slot[SlotOf(x)] : slot[SlotOf(x)][m].key # x
      BY <2>4 DEF Here, In
    <3>2. \A j \in DOMAIN slot'[SlotOf(x)] : slot'[SlotOf(x)][j].key # x
      BY <1>1, <2>1, <3>1
    <3>3. Here(x)' = {}  BY <2>2, <3>2
    <3> QED  BY <2>4, <3>3, BarReads, BarReadsNext
  <2>5. CASE x # k /\ Here(x) # {}
    <3>1. PICK m \in Here(x) : TRUE  BY <2>5
    <3>2. m \in DOMAIN slot[SlotOf(x)] /\ slot[SlotOf(x)][m].key = x
      BY <3>1 DEF Here, In
    <3>3. SlotOf(x) = t => m # i  BY <1>2, <2>5, <3>2
    <3>4. \E j \in DOMAIN slot'[SlotOf(x)] :
            slot'[SlotOf(x)][j] = slot[SlotOf(x)][m]
      BY <1>1, <2>1, <3>2, <3>3
    <3>5. PICK j \in Here(x)' : slot'[SlotOf(x)][j] = slot[SlotOf(x)][m]
      BY <2>2, <3>2, <3>4
    <3>6. hashBar[x] = slot[SlotOf(x)][m].data  BY <3>1, BarReads
    <3>7. hashBar'[x] = slot'[SlotOf(x)][j].data  BY <3>5, BarReadsNext
    <3> QED  BY <2>5, <3>5, <3>6, <3>7
  <2> QED  BY <2>3, <2>4, <2>5
<1>6. hashBar' = [hashBar EXCEPT ![k] = NoData]  BY <1>5, BarExcept
<1>7. hashBar[k] # NoData
  <2>1. hashBar[k] = slot[t][i].data  BY <1>1, BarReads DEF t
  <2>2. slot[t][i] \in Node  BY <1>2, KeyOnce DEF HInv
  <2> QED  BY <2>1, <2>2, HashAssumption DEF Node
<1> QED  BY <1>6, <1>7 DEF HashAbstract!Remove

\* The iterator of hashmap.c leaves the map alone.
LEMMA BarStays == ASSUME UNCHANGED slot PROVE hashBar' = hashBar
BY SlotsStay DEF hashBar, Here, In, SlotOf

\* hashmap.c implements a dictionary, however its keys share slots: set is an
\* assignment, delete takes out the key it is given and no other.
THEOREM HashRefinement == HashSpec => HashIsDictionary
<1>1. HashInit => HashAbstract!Init
  <2> SUFFICES ASSUME HashInit PROVE hashBar = [k \in HashKeys |-> NoData]
    BY DEF HashAbstract!Init
  <2>1. \A x \in HashKeys : Here(x) = {}
    BY SlotType DEF HashInit, Here, In
  <2> QED  BY <2>1 DEF hashBar
<1>2. ASSUME HInv, HInv', [HashNext]_hashVars
      PROVE  [HashAbstract!Next]_hashBar
  <2>1. ASSUME NEW k \in HashKeys, Del(k) PROVE HashAbstract!Next
    BY <1>2, <2>1, DelIsRemove DEF HashAbstract!Next
  <2>2. ASSUME NEW k \in HashKeys, NEW v \in Data, HashSet(k, v)
        PROVE  HashAbstract!Next
    BY <1>2, <2>2, ReplaceIsPut, AddIsPut DEF HashAbstract!Next, HashSet
  <2>3. CASE HashBegin \/ StepInChain \/ StepToSlot \/ HashEnd
    <3>1. UNCHANGED slot
      BY <2>3 DEF HashBegin, StepInChain, StepToSlot, HashEnd, Show
    <3> QED  BY <3>1, BarStays
  <2>4. CASE UNCHANGED hashVars  BY <2>4, BarStays DEF hashVars
  <2> QED  BY <1>2, <2>1, <2>2, <2>3, <2>4 DEF HashNext
<1> QED
  BY <1>1, <1>2, HashInvariance, PTL DEF HashSpec, HashIsDictionary, HashAbstract!Spec
=============================================================================

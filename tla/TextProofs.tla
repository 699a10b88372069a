------------------------------ MODULE TextProofs ------------------------------
(***************************************************************************)
(* Texts of every length.  Forms: the one doubling of http_urlencode is    *)
(* enough for every buffer size and every form whose quoted keys and       *)
(* values are shorter than the buffer, a form of ASCII is read as it was   *)
(* written, the pairs of any text are read, and the buffers of the decoder *)
(* are freed.  Heads: what a head that is accepted has put into the        *)
(* dictionary, what no header can put there, and that the headers that are *)
(* sent are the ones that are read.  Paths: what join returns.             *)
(***************************************************************************)
EXTENDS FormCodec, HttpParse, PathNames, FiniteSetTheorems,
        WellFoundedInduction, SequenceTheorems, TLAPS

-----------------------------------------------------------------------------
(* Numbers and texts *)

LEMMA LeastOfNat ==
  ASSUME NEW T, T \subseteq Nat, T # {}
  PROVE  Min(T) \in T /\ \A y \in T : Min(T) <= y
<1> DEFINE R == OpToRel(<, Nat)
<1>1. IsWellFoundedOn(R, Nat)  BY NatLessThanWellFounded
<1>2. \A x \in Nat, y \in Nat : y < x => <<y, x>> \in R  BY DEF OpToRel
<1> HIDE DEF R
<1>3. PICK x \in T : \A y \in T : ~ (<<y, x>> \in R)  BY <1>1, WFMin
<1>4. ASSUME NEW y \in T PROVE x =< y
  <2>1. x \in Nat /\ y \in Nat /\ ~ (y < x)  BY <1>2, <1>3
  <2> QED  BY <2>1
<1>5. \E z \in T : \A y \in T : z =< y  BY <1>4
<1> QED  BY <1>5 DEF Min

LEMMA LeastIs ==
  ASSUME NEW T, T \subseteq Nat, NEW x \in T, \A y \in T : x <= y
  PROVE  Min(T) = x
<1>1. Min(T) \in T /\ Min(T) <= x  BY LeastOfNat
<1>2. Min(T) \in Nat /\ x \in Nat /\ x <= Min(T)  BY <1>1
<1> QED  BY <1>1, <1>2

LEMMA GreatestIs ==
  ASSUME NEW T, T \subseteq Nat, NEW x \in T, \A y \in T : y <= x
  PROVE  Max(T) = x
<1>1. \A y \in T : x >= y  OBVIOUS
<1>2. Max(T) \in T /\ Max(T) >= x  BY <1>1 DEF Max
<1>3. Max(T) \in Nat /\ x \in Nat /\ Max(T) <= x  BY <1>2
<1> QED  BY <1>2, <1>3

\* Induction over the natural numbers, for a set of them.
LEMMA AllOfNat ==
  ASSUME NEW T, 0 \in T, \A n \in Nat : n \in T => n + 1 \in T
  PROVE  \A n \in Nat : n \in T
<1> SUFFICES ASSUME Nat \ T # {} PROVE FALSE  OBVIOUS
<1>1. PICK x \in Nat \ T : \A y \in Nat \ T : x <= y
  BY LeastOfNat, Nat \ T \subseteq Nat
<1>2. x - 1 \in Nat  BY <1>1
<1>3. x - 1 \in T  BY <1>1, <1>2
<1>4. (x - 1) + 1 \in T  BY <1>2, <1>3
<1> QED  BY <1>1, <1>4

\* Where the cells of a concatenation stand.
Joins(w, u, v) ==
  /\ Len(u) \in Nat /\ Len(v) \in Nat /\ Len(w) = Len(u) + Len(v)
  /\ \A j \in 1 .. Len(u) : w[j] = u[j]
  /\ \A m \in 1 .. Len(v) : w[Len(u) + m] = v[m]

LEMMA Joint ==
  ASSUME NEW S, NEW u \in Seq(S), NEW v \in Seq(S), NEW w, w = u \o v
  PROVE  w \in Seq(S) /\ Joins(w, u, v)
<1>1. /\ w \in Seq(S) /\ Len(w) = Len(u) + Len(v)
      /\ \A j \in 1 .. Len(u) + Len(v) :
           w[j] = IF j <= Len(u) THEN u[j] ELSE v[j - Len(u)]
  BY ConcatProperties
<1>2. Len(u) \in Nat /\ Len(v) \in Nat  BY LenProperties
<1>3. \A j \in 1 .. Len(u) : j \in 1 .. Len(u) + Len(v) /\ j <= Len(u)  BY <1>2
<1>4. \A m \in 1 .. Len(v) : /\ Len(u) + m \in 1 .. Len(u) + Len(v) /\ ~ (Len(u) + m <= Len(u))
                             /\ Len(u) + m - Len(u) = m
  BY <1>2
<1>5. Joins(w, u, v)  BY <1>1, <1>2, <1>3, <1>4 DEF Joins
<1> QED  BY <1>1, <1>5

-----------------------------------------------------------------------------
\* e holds the beginnings of a text, each made of the first of its pieces.
Grows(e, seqs, S) ==
  /\ seqs \in Seq(Seq(S)) /\ e \in [0 .. Len(seqs) -> Seq(S)]
  /\ e[0] = <<>>
  /\ \A n \in 1 .. Len(seqs) : e[n] = e[n - 1] \o seqs[n]

\* What that says of the places of the cells.
Sizes(e, seqs) ==
  /\ \A n \in 0 .. Len(seqs) : Len(e[n]) \in Nat
  /\ \A n \in 1 .. Len(seqs) : /\ Len(seqs[n]) \in Nat
                              /\ Len(e[n]) = Len(e[n - 1]) + Len(seqs[n])

Nested(e, seqs) ==
  \A n \in 0 .. Len(seqs), k \in 0 .. Len(seqs) :
    n <= k => /\ Len(e[n]) <= Len(e[k])
              /\ \A j \in 1 .. Len(e[n]) : e[k][j] = e[n][j]

Places(e, seqs) ==
  \A n \in 1 .. Len(seqs), k \in 1 .. Len(seqs) :
    n <= k => \A m \in 1 .. Len(seqs[n]) :
                /\ Len(e[n - 1]) + m \in 1 .. Len(e[k])
                /\ e[k][Len(e[n - 1]) + m] = seqs[n][m]

Covered(e, seqs, j) ==
  \E n \in 1 .. Len(seqs) : \E m \in 1 .. Len(seqs[n]) :
    j = Len(e[n - 1]) + m /\ e[Len(seqs)][j] = seqs[n][m]

Flattens(f, seqs, k) ==
  f = [n \in 1 .. k |-> IF n = 1 THEN seqs[n] ELSE f[n - 1] \o seqs[n]]

\* The recursion of FlattenSeq has a solution on each beginning of its sequence.
LEMMA FlattensSome ==
  ASSUME NEW seqs
  PROVE  \A k \in Nat : \E f : Flattens(f, seqs, k)
<1> DEFINE T == {k \in Nat : \E f : Flattens(f, seqs, k)}
<1>1. 0 \in T
  <2>1. Flattens([n \in 1 .. 0 |-> 0], seqs, 0)  BY DEF Flattens
  <2> QED  BY <2>1
<1>2. ASSUME NEW k \in Nat, k \in T PROVE k + 1 \in T
  <2>1. PICK f : Flattens(f, seqs, k)  BY <1>2
  <2> DEFINE e(g, n) == IF n = 1 THEN seqs[n] ELSE g[n - 1] \o seqs[n]
             g == [n \in 1 .. k + 1 |-> IF n = k + 1 THEN e(f, n) ELSE f[n]]
  <2>2. ASSUME NEW n \in 1 .. k + 1 PROVE g[n] = e(g, n)
    <3>1. CASE n = k + 1
      <4>1. n # 1 => n - 1 \in 1 .. k + 1 /\ n - 1 # k + 1  OBVIOUS
      <4> QED BY <3>1, <4>1
    <3>2. CASE n # k + 1
      <4>1. n \in 1 .. k /\ n - 1 # k + 1  BY <3>2
      <4>2. f[n] = e(f, n)  BY <2>1, <4>1 DEF Flattens
      <4>3. n # 1 => n - 1 \in 1 .. k + 1  BY <4>1
      <4> QED  BY <3>2, <4>1, <4>2, <4>3
    <3> QED BY <3>1, <3>2
  <2>3. g = [n \in 1 .. k + 1 |-> e(g, n)]  BY <2>2
  <2>4. Flattens(g, seqs, k + 1)  BY <2>3 DEF Flattens
  <2> QED  BY <2>4
<1> HIDE DEF T
<1>3. \A k \in Nat : k \in T  BY <1>1, <1>2, AllOfNat
<1> QED BY <1>3 DEF T

\* A flattened sequence of sequences grows piece by piece.
LEMMA FlattenGrows ==
  ASSUME NEW S, NEW seqs \in Seq(Seq(S))
  PROVE  \E e : Grows(e, seqs, S) /\ e[Len(seqs)] = FlattenSeq(seqs)
<1> DEFINE N == Len(seqs)
           f == CHOOSE f : Flattens(f, seqs, N)
           e == [n \in 0 .. N |-> IF n = 0 THEN <<>> ELSE f[n]]
<1>0. N \in Nat /\ \A n \in 1 .. N : seqs[n] \in Seq(S)  OBVIOUS
<1>1. Flattens(f, seqs, N)  BY <1>0, FlattensSome
<1>2. FlattenSeq(seqs) = IF N = 0 THEN seqs ELSE f[N]  BY DEF FlattenSeq, Flattens
<1> HIDE DEF f
<1>3. \A n \in 1 .. N : f[n] = IF n = 1 THEN seqs[n] ELSE f[n - 1] \o seqs[n]
  BY <1>1 DEF Flattens
<1>4. /\ DOMAIN e = 0 .. N /\ e[0] = <<>> /\ \A n \in 1 .. N : e[n] = f[n]
      /\ e = [n \in 0 .. N |-> e[n]]
  BY <1>0
<1>5. e[N] = FlattenSeq(seqs)  BY <1>0, <1>2
<1> HIDE DEF e, N
<1>10. \A n \in 1 .. N : e[n] = e[n - 1] \o seqs[n]
  <2>1. ASSUME NEW n \in 1 .. N PROVE e[n] = e[n - 1] \o seqs[n]
    <3>1. CASE n = 1
      <4>1. <<>> \o seqs[n] = seqs[n]  BY <1>0, ConcatEmptySeq
      <4>2. e[n] = seqs[n]  BY <1>3, <1>4, <3>1
      <4>3. e[n - 1] = <<>>  BY <1>4, <3>1
      <4> QED  BY <4>1, <4>2, <4>3, Zenon
    <3>2. CASE n # 1
      <4>1. n - 1 \in 1 .. N  BY <1>0, <3>2
      <4>2. e[n - 1] = f[n - 1]  BY <1>4, <4>1, Zenon
      <4>3. e[n] = f[n - 1] \o seqs[n]  BY <1>3, <1>4, <3>2
      <4> QED  BY <4>2, <4>3, Zenon
    <3> QED  BY <3>1, <3>2
  <2> QED  BY <2>1
<1> DEFINE T == {n \in Nat : n <= N => e[n] \in Seq(S)}
<1>6. 0 \in T
  <2>1. e[0] \in Seq(S)  BY <1>4
  <2> QED  BY <2>1
<1>7. ASSUME NEW n \in Nat, n \in T PROVE n + 1 \in T
  <2>1. CASE n + 1 <= N
    <3>1. n + 1 \in 1 .. N /\ n <= N /\ (n + 1) - 1 = n  BY <1>0, <2>1
    <3>2. e[n + 1] = e[n] \o seqs[n + 1]  BY <1>10, <3>1
    <3>3. e[n] \in Seq(S) /\ seqs[n + 1] \in Seq(S)  BY <1>0, <1>7, <3>1
    <3>4. e[n + 1] \in Seq(S)  BY <3>2, <3>3
    <3> QED  BY <3>4
  <2> QED  BY <2>1
<1>8. \A n \in Nat : n \in T
  <2> HIDE DEF T
  <2> QED  BY <1>6, <1>7, AllOfNat
<1>9. e \in [0 .. N -> Seq(S)]
  <2>1. \A n \in 0 .. N : n \in Nat /\ n <= N  BY <1>0
  <2>2. \A n \in 0 .. N : e[n] \in Seq(S)  BY <1>8, <2>1
  <2> HIDE DEF T
  <2> QED  BY <1>4, <2>2
<1>11. Grows(e, seqs, S)  BY <1>4, <1>9, <1>10 DEF Grows, N
<1> QED BY <1>5, <1>11 DEF N

\* Where the pieces of a text stand in it.
LEMMA GrowsPlaces ==
  ASSUME NEW S, NEW seqs, NEW e, Grows(e, seqs, S)
  PROVE  Sizes(e, seqs) /\ Nested(e, seqs) /\ Places(e, seqs)
<1> DEFINE N == Len(seqs)
<1>0. N \in Nat /\ \A n \in 1 .. N : seqs[n] \in Seq(S) /\ Len(seqs[n]) \in Nat
  BY DEF Grows
<1>1. \A n \in 0 .. N : e[n] \in Seq(S) /\ Len(e[n]) \in Nat  BY DEF Grows
<1>2. ASSUME NEW n \in 1 .. N
      PROVE  /\ Len(e[n]) = Len(e[n - 1]) + Len(seqs[n])
             /\ \A j \in 1 .. Len(e[n - 1]) : e[n][j] = e[n - 1][j]
             /\ \A m \in 1 .. Len(seqs[n]) : e[n][Len(e[n - 1]) + m] = seqs[n][m]
  <2>1. e[n] = e[n - 1] \o seqs[n]  BY DEF Grows
  <2>2. n - 1 \in 0 .. N /\ e[n - 1] \in Seq(S) /\ seqs[n] \in Seq(S)  BY <1>0, <1>1
  <2>3. Joins(e[n], e[n - 1], seqs[n])  BY <2>1, <2>2, Joint
  <2> QED  BY <2>3 DEF Joins
<1>20. ASSUME NEW n \in 0 .. N, n + 1 <= N
       PROVE  /\ Len(e[n]) \in Nat /\ Len(e[n]) <= Len(e[n + 1])
              /\ \A j \in 1 .. Len(e[n]) : e[n + 1][j] = e[n][j]
  <2> DEFINE k == n + 1
  <2>1. k \in 1 .. N /\ k - 1 = n /\ Len(seqs[k]) \in Nat /\ Len(e[n]) \in Nat
    BY <1>0, <1>1, <1>20
  <2> HIDE DEF k
  <2>2. Len(e[k]) = Len(e[n]) + Len(seqs[k]) /\ \A j \in 1 .. Len(e[n]) : e[k][j] = e[n][j]
    BY <1>2, <2>1
  <2>3. Len(e[n]) <= Len(e[k])
    <3>1. PICK x \in Nat : x = Len(e[n])  BY <2>1
    <3>2. PICK y \in Nat : y = Len(seqs[k])  BY <2>1
    <3>3. x <= x + y  OBVIOUS
    <3> QED  BY <2>2, <3>1, <3>2, <3>3, Zenon
  <2> QED  BY <2>1, <2>2, <2>3 DEF k
<1>3. ASSUME NEW n \in 0 .. N, NEW k \in 0 .. N, n <= k
      PROVE  Len(e[n]) <= Len(e[k]) /\ \A j \in 1 .. Len(e[n]) : e[k][j] = e[n][j]
  <2> DEFINE T == {d \in Nat : n + d <= N =>
                     Len(e[n]) <= Len(e[n + d]) /\ \A j \in 1 .. Len(e[n]) : e[n + d][j] = e[n][j]}
  <2>1. 0 \in T  BY <1>1
  <2>2. ASSUME NEW d \in Nat, d \in T PROVE d + 1 \in T
    <3>1. CASE n + (d + 1) <= N
      <4>1. n + d \in 0 .. N /\ n + d + 1 \in 1 .. N /\ n + d + 1 - 1 = n + d  BY <1>0, <3>1
      <4>2. Len(e[n]) <= Len(e[n + d]) /\ \A j \in 1 .. Len(e[n]) : e[n + d][j] = e[n][j]
        BY <2>2, <4>1
      <4>3. /\ Len(e[n + d]) \in Nat /\ Len(e[n + d]) <= Len(e[n + d + 1])
            /\ \A j \in 1 .. Len(e[n + d]) : e[n + d + 1][j] = e[n + d][j]
        BY <1>20, <3>1, <4>1
      <4>4. Len(e[n]) \in Nat /\ Len(e[n + d + 1]) \in Nat
        BY <1>1, <4>1
      <4>5. n + (d + 1) = n + d + 1  OBVIOUS
      <4>6. Len(e[n]) <= Len(e[n + d + 1]) /\ \A j \in 1 .. Len(e[n]) : e[n + d + 1][j] = e[n][j]
        <5> HIDE DEF T
        <5>1. Len(e[n]) <= Len(e[n + d + 1])
          <6>1. Len(e[n]) <= Len(e[n + d]) /\ Len(e[n + d]) <= Len(e[n + d + 1])  BY <4>2, <4>3
          <6> QED  BY <4>3, <4>4, <6>1
        <5>2. ASSUME NEW j \in 1 .. Len(e[n]) PROVE e[n + d + 1][j] = e[n][j]
          <6>1. j \in 1 .. Len(e[n + d])
            <7>1. Len(e[n]) <= Len(e[n + d])  BY <4>2
            <7> QED  BY <4>3, <4>4, <5>2, <7>1
          <6>2. e[n + d][j] = e[n][j]  BY <4>2, <5>2, Zenon
          <6>3. e[n + d + 1][j] = e[n + d][j]  BY <4>3, <6>1, Zenon
          <6> QED  BY <6>2, <6>3, Zenon
        <5> QED  BY <5>1, <5>2, Zenon
      <4> QED  BY <4>5, <4>6
    <3> QED  BY <3>1
  <2>3. k - n \in T
    <3> HIDE DEF T
    <3>1. k - n \in Nat  BY <1>0, <1>3
    <3> QED  BY <2>1, <2>2, <3>1, AllOfNat
  <2>4. n + (k - n) = k  BY <1>0
  <2> QED  BY <2>3, <2>4
<1>5. \A u \in Nat, v \in Nat : \A m \in 1 .. v : u + m \in 1 .. u + v  OBVIOUS
<1>4. ASSUME NEW n \in 1 .. N, NEW k \in 1 .. N, n <= k, NEW m \in 1 .. Len(seqs[n])
      PROVE  Len(e[n - 1]) + m \in 1 .. Len(e[k]) /\ e[k][Len(e[n - 1]) + m] = seqs[n][m]
  <2>1. n - 1 \in 0 .. N /\ n \in 0 .. N /\ k \in 0 .. N  BY <1>0
  <2>2. /\ Len(e[n]) <= Len(e[k]) /\ \A j \in 1 .. Len(e[n]) : e[k][j] = e[n][j]
    BY <1>3, <1>4, <2>1
  <2>3. Len(e[n - 1]) \in Nat /\ Len(e[n]) \in Nat /\ Len(e[k]) \in Nat /\ Len(seqs[n]) \in Nat
    BY <1>0, <1>1, <2>1
  <2>6. Len(e[n]) = Len(e[n - 1]) + Len(seqs[n])  BY <1>2
  <2>4. Len(e[n - 1]) + m \in 1 .. Len(e[n])  BY <1>5, <2>3, <2>6, Zenon
  <2>5. e[n][Len(e[n - 1]) + m] = seqs[n][m]  BY <1>2
  <2>7. Len(e[n - 1]) + m <= Len(e[k])
    <3>1. \A x \in Int, y \in Int, z \in Int : x <= y /\ y <= z => x <= z  OBVIOUS
    <3>2. Len(e[n - 1]) + m \in Int /\ Len(e[n - 1]) + m <= Len(e[n])
          /\ Len(e[n]) \in Int /\ Len(e[k]) \in Int
      BY <2>3, <2>4
    <3> QED  BY <2>2, <3>1, <3>2, Zenon
  <2>8. Len(e[n - 1]) + m \in 1 .. Len(e[k])
    <3>1. Len(e[n - 1]) + m \in Int /\ 1 <= Len(e[n - 1]) + m  BY <2>3, <2>4
    <3>2. \A x \in Int, z \in Int : 1 <= x /\ x <= z => x \in 1 .. z  OBVIOUS
    <3>3. Len(e[k]) \in Int  BY <2>3
    <3> QED  BY <2>7, <3>1, <3>2, <3>3, Zenon
  <2> QED  BY <2>2, <2>4, <2>5, <2>8
<1>6. Sizes(e, seqs)  BY <1>0, <1>1, <1>2 DEF Sizes
<1>7. Nested(e, seqs)  BY <1>3 DEF Nested
<1>8. Places(e, seqs)  BY <1>4 DEF Places
<1> QED  BY <1>6, <1>7, <1>8

\* Every place in a text belongs to one of its pieces.
LEMMA GrowsCovers ==
  ASSUME NEW S, NEW seqs, NEW e, Grows(e, seqs, S), NEW j \in 1 .. Len(e[Len(seqs)])
  PROVE  Covered(e, seqs, j)
<1> DEFINE N == Len(seqs)
           T == {n \in Nat : n <= N /\ j <= Len(e[n])}
<1>0. N \in Nat /\ \A n \in 0 .. N : Len(e[n]) \in Nat  BY DEF Grows
<1>1. N \in T  BY <1>0
<1>2. PICK n \in T : \A y \in T : n <= y
  <2> HIDE DEF T
  <2>1. T \subseteq Nat  BY DEF T
  <2> QED  BY <1>1, <2>1, LeastOfNat
<1>3. n # 0  BY <1>0 DEF Grows
<1>4. n \in 1 .. N /\ n - 1 \in 0 .. N  BY <1>0, <1>3
<1>5. ~ (n - 1 \in T)  BY <1>2, <1>4
<1>6. Len(e[n - 1]) < j  BY <1>0, <1>4, <1>5
<1>7. /\ \A c \in 1 .. N : Len(e[c]) = Len(e[c - 1]) + Len(seqs[c])
      /\ \A c \in 1 .. N, k \in 1 .. N :
           c <= k => \A m \in 1 .. Len(seqs[c]) : e[k][Len(e[c - 1]) + m] = seqs[c][m]
  <2>1. Sizes(e, seqs) /\ Places(e, seqs)  BY GrowsPlaces
  <2> QED  BY <2>1 DEF Sizes, Places
<1>8. N \in 1 .. N /\ n <= N  BY <1>0, <1>4
<1>9. Len(e[n]) = Len(e[n - 1]) + Len(seqs[n])  BY <1>4, <1>7, Zenon
<1>10. \A m \in 1 .. Len(seqs[n]) : e[N][Len(e[n - 1]) + m] = seqs[n][m]
  BY <1>4, <1>7, <1>8, Zenon
<1>11. Len(e[n - 1]) \in Nat /\ Len(seqs[n]) \in Nat /\ j \in Int /\ j <= Len(e[n])
  BY <1>0, <1>2, <1>4
<1>12. PICK x \in Nat : x = Len(e[n - 1])  BY <1>11
<1>14. PICK y \in Nat : y = Len(seqs[n])  BY <1>11
<1>15. x < j /\ j <= x + y /\ j \in Int
  BY <1>6, <1>9, <1>11, <1>12, <1>14
<1>13. j - x \in 1 .. Len(seqs[n]) /\ j = x + (j - x)
  <2>1. j - x \in 1 .. y /\ j = x + (j - x)  BY <1>15
  <2> QED  BY <2>1, <1>14
<1> QED  BY <1>4, <1>10, <1>12, <1>13, Zenon DEF Covered

-----------------------------------------------------------------------------
(* Forms *)

Pairs == (Texts \cup {Null}) \X (Texts \cup {Null})

\* What the walk over the pairs keeps: it is at a pair of the form.
Walk ==
  /\ form \in Seq(Pairs)
  /\ i \in Nat \ {0}
  /\ pc = "value" => i <= Len(form)

\* The strengthening: the buffer never shrinks below its first size, and what
\* is in it is shorter than it.
Fits ==
  Short(form) =>
    /\ size \in Nat /\ maxsize \in Nat
    /\ InitialSize <= maxsize
    /\ size < maxsize
    /\ over = FALSE

FInv == Walk /\ Fits

\* http_quote returns a number of bytes, at least its terminator.
LEMMA QuotedSizeNat ==
  ASSUME NEW b \in Texts PROVE QuotedSize(b) \in Nat \ {0}
<1> DEFINE S == {n \in DOMAIN b : b[n] \notin Safe}
<1>1. Len(b) \in Nat /\ DOMAIN b = 1 .. Len(b)  BY DEF Texts
<1>2. IsFiniteSet(1 .. Len(b))  BY <1>1, FS_Interval
<1>3. IsFiniteSet(S)  BY <1>1, <1>2, FS_Subset
<1>4. Cardinality(S) \in Nat  BY <1>3, FS_CardinalityType
<1> QED  BY <1>1, <1>4 DEF QuotedSize

\* A key or value of a short form, as it is quoted, is at most the first buffer.
LEMMA ShortPart ==
  ASSUME Walk, Short(form), i <= Len(form), NEW m \in 1 .. 2,
         form[i][m] # Null
  PROVE  /\ form[i][m] \in Texts
         /\ QuotedSize(form[i][m]) \in Nat
         /\ QuotedSize(form[i][m]) <= InitialSize
<1>1. i \in DOMAIN form /\ form[i] \in Pairs  BY DEF Walk
<1>2. form[i][m] \in Texts  BY <1>1 DEF Pairs
<1>3. QuotedSize(form[i][m]) \in Nat  BY <1>2, QuotedSizeNat
<1>4. QuotedSize(form[i][m]) <= InitialSize  BY <1>1 DEF Short
<1> QED  BY <1>2, <1>3, <1>4

\* A write of at most the first buffer's size keeps the buffer large enough.
LEMMA WriteFits ==
  ASSUME Fits, Short(form), NEW b, NEW sign, Write(b, sign),
         QuotedSize(b) \in Nat, QuotedSize(b) <= InitialSize
  PROVE  /\ size' \in Nat /\ maxsize' \in Nat
         /\ InitialSize <= maxsize'
         /\ size' < maxsize'
         /\ over' = FALSE
<1> DEFINE len == QuotedSize(b)
<1>1. /\ size \in Nat /\ maxsize \in Nat /\ InitialSize \in Nat
      /\ InitialSize <= maxsize /\ size < maxsize /\ over = FALSE
  BY SizeAssumption DEF Fits
<1>2. /\ maxsize' = Grown(len) /\ size' = size + len
      /\ over' = (over \/ size + len + 1 > maxsize')
  BY DEF Write
<1>3. CASE size + len >= maxsize
  <2>1. maxsize' = 2 * maxsize  BY <1>2, <1>3 DEF Grown
  <2>2. size + len + 1 <= maxsize'  BY <1>1, <2>1
  <2>3. ~(size + len + 1 > maxsize')  BY <1>1, <2>1, <2>2
  <2>4. over' = FALSE  BY <1>1, <1>2, <2>3, Zenon
  <2> QED  BY <1>1, <1>2, <2>1, <2>2, <2>4
<1>4. CASE ~(size + len >= maxsize)
  <2>1. maxsize' = maxsize  BY <1>2, <1>4 DEF Grown
  <2>2. ~(size + len + 1 > maxsize')  BY <1>1, <1>4, <2>1
  <2>3. over' = FALSE  BY <1>1, <1>2, <2>2, Zenon
  <2> QED  BY <1>1, <1>2, <1>4, <2>1, <2>3
<1> QED  BY <1>3, <1>4

LEMMA FormInit == Init => FInv
<1> SUFFICES ASSUME Init PROVE FInv  OBVIOUS
<1>1. form \in Seq(Pairs)
  <2>1. CASE form \in Forms
    <3>1. Forms \subseteq Seq(Pairs)  BY FormsAssumption DEF Pairs
    <3> QED  BY <2>1, <3>1
  <2>2. CASE form = <<>>
    <3> HIDE DEF Pairs
    <3> QED  BY <2>2
  <2> QED  BY <2>1, <2>2 DEF Init
<1>2. Walk  BY <1>1 DEF Init, Walk
<1>3. Fits  BY SizeAssumption DEF Init, Fits
<1> QED  BY <1>2, <1>3 DEF FInv

LEMMA FormStep == FInv /\ [Next]_vars => FInv'
<1> SUFFICES ASSUME FInv, [Next]_vars PROVE FInv'  OBVIOUS
<1> USE DEF FInv
<1>1. CASE SkipPair
  <2>1. Walk'  BY <1>1 DEF SkipPair, Walk
  <2>2. Fits'  BY <1>1 DEF SkipPair, Fits, Short, QuotedSize
  <2> QED  BY <2>1, <2>2
<1>2. CASE WriteKey
  <2>1. Walk'  BY <1>2 DEF WriteKey, Walk
  <2>2. ASSUME Short(form) PROVE QuotedSize(form[i][1]) \in Nat /\ QuotedSize(form[i][1]) <= InitialSize
    BY <1>2, <2>2, ShortPart DEF WriteKey, Empty
  <2>3. Write(form[i][1], Eq) /\ form' = form  BY <1>2 DEF WriteKey
  <2>4. ASSUME Short(form) PROVE Fits'
    BY <2>2, <2>3, <2>4, WriteFits DEF Fits
  <2>5. ASSUME ~Short(form) PROVE Fits'  BY <2>3, <2>5 DEF Fits, Short, QuotedSize
  <2> QED  BY <2>1, <2>4, <2>5
<1>3. CASE SkipValue
  <2>1. Walk'  BY <1>3 DEF SkipValue, Walk
  <2>2. Fits'  BY <1>3 DEF SkipValue, Fits, Short, QuotedSize
  <2> QED  BY <2>1, <2>2
<1>4. CASE WriteValue
  <2>1. Walk'  BY <1>4 DEF WriteValue, Walk
  <2>2. ASSUME Short(form) PROVE QuotedSize(form[i][2]) \in Nat /\ QuotedSize(form[i][2]) <= InitialSize
    BY <1>4, <2>2, ShortPart DEF WriteValue, Empty, Walk
  <2>3. Write(form[i][2], Amp) /\ form' = form  BY <1>4 DEF WriteValue
  <2>4. ASSUME Short(form) PROVE Fits'
    BY <2>2, <2>3, <2>4, WriteFits DEF Fits
  <2>5. ASSUME ~Short(form) PROVE Fits'  BY <2>3, <2>5 DEF Fits, Short, QuotedSize
  <2> QED  BY <2>1, <2>4, <2>5
<1>5. CASE Transmit \/ AtEquals \/ AtAmp \/ AtOther \/ AtEnd \/ UNCHANGED vars
  <2>1. form' = form /\ encoder' = encoder /\ (pc' = pc \/ pc' \in {"decode", "done"})
    BY <1>5 DEF Transmit, AtEquals, AtAmp, AtOther, AtEnd, vars, encoder
  <2>2. i' = i /\ size' = size /\ maxsize' = maxsize /\ over' = over
    BY <2>1 DEF encoder
  <2>3. Walk'  BY <2>1, <2>2 DEF Walk
  <2>4. Fits'  BY <2>1, <2>2 DEF Fits, Short, QuotedSize
  <2> QED  BY <2>3, <2>4
<1> QED  BY <1>1, <1>2, <1>3, <1>4, <1>5 DEF Next

\* For every first size and every form, http_urlencode writes inside its buffer
\* when no quoted key or value is longer than the first size.
THEOREM FormWritesFit == Spec => []WritesFit
<1>1. FInv => WritesFit  BY DEF FInv, Fits, WritesFit
<1> QED  BY <1>1, FormInit, FormStep, PTL DEF Spec

LEMMA DigitOfHex == \A d \in 0 .. 15 : Digit(ToHex(d)) = d
BY DEF Digit, ToHex

\* The escape _to_hex and http_quote write for a byte, as http_unquote reads it:
\* ASCII comes back.  From 128 on the shift of a signed char makes the first
\* digit seven too low, or a slash, which _parse_hex makes a zero.
THEOREM EscapesRead ==
  \A c \in 0 .. 255 :
    ParseHex(ToHex(High(c)), ToHex(Low(c))) =
      IF c < 128 THEN c ELSE IF c < 144 THEN 0 ELSE c - 144
<1> SUFFICES ASSUME NEW c \in 0 .. 255
             PROVE  ParseHex(ToHex(High(c)), ToHex(Low(c))) =
                      IF c < 128 THEN c ELSE IF c < 144 THEN 0 ELSE c - 144
  OBVIOUS
<1>1. Low(c) \in 0 .. 15 /\ Digit(ToHex(Low(c))) = Low(c)
  <2>1. Low(c) \in 0 .. 15  BY DEF Low
  <2> QED  BY <2>1, DigitOfHex
<1>2. CASE c < 128
  <2>1. High(c) \in 0 .. 7 /\ c = High(c) * 16 + Low(c)  BY <1>2 DEF High, Low
  <2>2. Digit(ToHex(High(c))) = High(c)  BY <2>1, DigitOfHex
  <2> QED  BY <1>1, <1>2, <2>1, <2>2 DEF ParseHex
<1>3. CASE c >= 128
  <2>1. High(c) \in -8 .. -1 /\ c - 256 = High(c) * 16 + Low(c)
    BY <1>3 DEF High, Low
  <2>2. ToHex(High(c)) = High(c) + 55  BY <2>1 DEF ToHex
  <2>3. CASE c < 144
    <3>1. ToHex(High(c)) = 47  BY <1>1, <1>3, <2>1, <2>2, <2>3
    <3>2. Digit(47) = -1  BY DEF Digit
    <3> QED  BY <1>3, <2>3, <3>1, <3>2 DEF ParseHex
  <2>4. CASE c >= 144
    <3>1. High(c) \in -7 .. -1  BY <1>1, <2>1, <2>4
    <3>2. High(c) + 7 \in 0 .. 9 /\ ToHex(High(c)) = ToHex(High(c) + 7)
      BY <2>2, <3>1 DEF ToHex
    <3>3. Digit(ToHex(High(c))) = High(c) + 7  BY <3>2, DigitOfHex
    <3> QED  BY <1>1, <2>1, <2>4, <3>1, <3>3 DEF ParseHex
  <2> QED  BY <2>3, <2>4
<1> QED  BY <1>2, <1>3

\* What http_urldecode holds: the buffer of a key that waits for its value, and
\* those that were lost.
BuffersInv ==
  /\ failed \in Nat /\ buffers = failed + Held(key)
  /\ pc = "done" => key = Null

\* Every buffer http_urldecode has got from http_unquote is freed on every path,
\* for every text, but for one lost by each call that gives up.
THEOREM BuffersFreed == Spec => [](pc = "done" => buffers = failed)
<1>1. Init => BuffersInv  BY DEF Init, BuffersInv, Held
<1>2. BuffersInv /\ [Next]_vars => BuffersInv'
  <2> SUFFICES ASSUME BuffersInv, [Next]_vars PROVE BuffersInv'  OBVIOUS
  <2>0. Held(Null) = 0 /\ \A x : Held(x) + Lost(x) = 1 /\ Held(x) \in Nat /\ Lost(x) \in Nat
    BY DEF Held, Lost
  <2>1. CASE AtEquals
    <3>1. buffers' = buffers - Held(key) + 1 /\ failed' = failed + Lost(key') /\ pc' # "done"
      BY <2>1 DEF AtEquals
    <3>2. Held(key') + Lost(key') = 1 /\ Held(key') \in Nat /\ Lost(key') \in Nat
          /\ Held(key) \in Nat
      BY <2>0
    <3>3. buffers' = failed' + Held(key')  BY <3>1, <3>2 DEF BuffersInv
    <3>4. failed' \in Nat  BY <3>1, <3>2 DEF BuffersInv
    <3>5. Held(key)' = Held(key')  BY DEF Held
    <3> QED  BY <3>1, <3>3, <3>4, <3>5 DEF BuffersInv
  <2>2. ASSUME EndPair PROVE BuffersInv'
    <3> DEFINE n == IF s < p THEN Lost(Unquote(Piece)) ELSE 0
    <3>1. n \in Nat  BY <2>0
    <3> HIDE DEF n
    <3>2. failed' = failed + n /\ buffers' = buffers - Held(key) + n /\ key' = Null
      BY <2>2 DEF EndPair, n
    <3>3. buffers' = failed'  BY <2>0, <3>1, <3>2 DEF BuffersInv
    <3>4. Held(key)' = 0  BY <3>2 DEF Held
    <3> QED  BY <3>1, <3>2, <3>3, <3>4 DEF BuffersInv
  <2>3. CASE AtAmp \/ AtEnd  BY <2>2, <2>3 DEF AtAmp, AtEnd
  <2>4. CASE SkipPair \/ WriteKey \/ SkipValue \/ WriteValue \/ Transmit \/ AtOther \/ UNCHANGED vars
    <3>1. UNCHANGED <<key, buffers, failed>> /\ (pc' = pc \/ pc' # "done")
      BY <2>4 DEF SkipPair, WriteKey, SkipValue, WriteValue, Transmit, AtOther, vars, decoder
    <3> QED  BY <3>1 DEF BuffersInv, Held
  <2> QED  BY <2>1, <2>3, <2>4 DEF Next
<1>3. BuffersInv => (pc = "done" => buffers = failed)
  <2> SUFFICES ASSUME BuffersInv, pc = "done" PROVE buffers = failed  OBVIOUS
  <2>1. Held(key) = 0  BY DEF BuffersInv, Held
  <2> QED  BY <2>1 DEF BuffersInv
<1> QED  BY <1>1, <1>2, <1>3, PTL DEF Spec

-----------------------------------------------------------------------------
(* What is written of a form is read again *)

\* What is written of a byte: the byte, or three bytes that are no sign of a form.
LEMMA QuotedByte ==
  ASSUME NEW c \in 0 .. 255
  PROVE  /\ c \in Safe => Quoted(c) = <<c>> /\ c \notin {Percent, Plus, Eq, Amp}
         /\ c \notin Safe => /\ Quoted(c) = <<Percent, ToHex(High(c)), ToHex(Low(c))>>
                             /\ {Percent, ToHex(High(c)), ToHex(Low(c))} \cap {Eq, Amp} = {}
         /\ Quoted(c) \in Seq(Int)
         /\ Len(Quoted(c)) = IF c \in Safe THEN 1 ELSE 3
         /\ \A m \in 1 .. Len(Quoted(c)) : Quoted(c)[m] \notin {Eq, Amp}
<1>1. High(c) \in -8 .. 7 /\ Low(c) \in 0 .. 15  BY DEF High, Low
<1>2. \A d \in -8 .. 15 : ToHex(d) \in Int /\ ToHex(d) \notin {Eq, Amp}
  BY DEF ToHex, Eq, Amp
<1>3. ToHex(High(c)) \in Int /\ ToHex(Low(c)) \in Int
      /\ ToHex(High(c)) \notin {Eq, Amp} /\ ToHex(Low(c)) \notin {Eq, Amp}
  BY <1>1, <1>2
<1>4. Percent \in Int /\ Percent \notin {Eq, Amp}  BY DEF Percent, Eq, Amp
<1>5. CASE c \in Safe
  <2>1. c \notin {Percent, Plus, Eq, Amp} /\ c \in Int
    BY <1>5 DEF Safe, Percent, Plus, Eq, Amp
  <2>2. Quoted(c) = <<c>>  BY <1>5 DEF Quoted
  <2> HIDE DEF Safe
  <2>3. \A m \in 1 .. Len(<<c>>) : <<c>>[m] = c  OBVIOUS
  <2>4. <<c>> \in Seq(Int) /\ Len(<<c>>) = 1  BY <2>1
  <2> QED  BY <1>5, <2>1, <2>2, <2>3, <2>4, Zenon
<1>6. CASE c \notin Safe
  <2> DEFINE x == ToHex(High(c))
             y == ToHex(Low(c))
  <2>1. Quoted(c) = <<Percent, x, y>>  BY <1>6 DEF Quoted
  <2>2. x \in Int /\ y \in Int /\ x \notin {Eq, Amp} /\ y \notin {Eq, Amp}  BY <1>3
  <2> HIDE DEF x, y
  <2>3. \A m \in 1 .. Len(<<Percent, x, y>>) : <<Percent, x, y>>[m] \in {Percent, x, y}
    OBVIOUS
  <2>4. <<Percent, x, y>> \in Seq(Int) /\ Len(<<Percent, x, y>>) = 3  BY <1>4, <2>2
  <2>5. {Percent, x, y} \cap {Eq, Amp} = {}  BY <1>4, <2>2
  <2>6. \A m \in 1 .. Len(Quoted(c)) : Quoted(c)[m] \notin {Eq, Amp}
    BY <2>1, <2>3, <2>5
  <2> QED  BY <1>6, <2>1, <2>4, <2>5, <2>6 DEF x, y
<1> QED  BY <1>5, <1>6

\* The bytes of a text, each as it is quoted.
Escapes(b) == [n \in DOMAIN b |-> Quoted(b[n])]

LEMMA EscapesType ==
  ASSUME NEW b \in Texts
  PROVE  /\ Len(b) \in Nat /\ DOMAIN b = 1 .. Len(b) /\ \A n \in 1 .. Len(b) : b[n] \in 0 .. 255
         /\ Escapes(b) \in Seq(Seq(Int)) /\ Len(Escapes(b)) = Len(b)
         /\ \A n \in 1 .. Len(b) : Escapes(b)[n] = Quoted(b[n])
         /\ \E e : Grows(e, Escapes(b), Int) /\ e[Len(b)] = Quote(b)
<1>1. Len(b) \in Nat /\ DOMAIN b = 1 .. Len(b) /\ \A n \in 1 .. Len(b) : b[n] \in 0 .. 255
  <2>1. b \in Seq(0 .. 255)  BY DEF Texts
  <2> QED  BY <2>1, LenProperties, ElementOfSeq
<1>2. \A n \in 1 .. Len(b) : Quoted(b[n]) \in Seq(Int)  BY <1>1, QuotedByte
<1>3. /\ Escapes(b) \in Seq(Seq(Int)) /\ Len(Escapes(b)) = Len(b)
      /\ \A n \in 1 .. Len(b) : Escapes(b)[n] = Quoted(b[n])
  BY <1>1, <1>2 DEF Escapes
<1>4. Quote(b) = FlattenSeq(Escapes(b))  BY DEF Quote, Escapes
<1>5. \E e : Grows(e, Escapes(b), Int) /\ e[Len(Escapes(b))] = FlattenSeq(Escapes(b))
  BY <1>3, FlattenGrows, Zenon
<1> QED  BY <1>1, <1>3, <1>4, <1>5

\* http_quote writes as many bytes as it returns, but for the terminator, and none
\* of them is a sign of a form.
LEMMA QuoteWrites ==
  ASSUME NEW b \in Texts
  PROVE  /\ Quote(b) \in Seq(Int)
         /\ Len(Quote(b)) + 1 = QuotedSize(b)
         /\ \A j \in 1 .. Len(Quote(b)) : Quote(b)[j] \notin {Eq, Amp}
<1> DEFINE L == Len(b)
           W(n) == {m \in 1 .. n : b[m] \notin Safe}
<1>1. /\ L \in Nat /\ DOMAIN b = 1 .. L /\ \A n \in 1 .. L : b[n] \in 0 .. 255
      /\ Escapes(b) \in Seq(Seq(Int)) /\ Len(Escapes(b)) = L
      /\ \A n \in 1 .. L : Escapes(b)[n] = Quoted(b[n])
  BY EscapesType
<1>2. PICK e : Grows(e, Escapes(b), Int) /\ e[L] = Quote(b)
  BY EscapesType
<1> HIDE DEF L
<1>3. Sizes(e, Escapes(b))  BY <1>2, GrowsPlaces
<1>4. ASSUME NEW n \in 1 .. L PROVE Len(Escapes(b)[n]) = IF b[n] \in Safe THEN 1 ELSE 3
  <2>1. b[n] \in 0 .. 255 /\ Escapes(b)[n] = Quoted(b[n])  BY <1>1
  <2>2. Len(Quoted(b[n])) = IF b[n] \in Safe THEN 1 ELSE 3  BY <2>1, QuotedByte
  <2> QED  BY <2>1, <2>2, Zenon
<1> DEFINE T == {n \in Nat : n <= L => /\ IsFiniteSet(W(n)) /\ Cardinality(W(n)) \in Nat
                                       /\ Len(e[n]) = n + 2 * Cardinality(W(n))}
<1>5. 0 \in T
  <2>1. W(0) = {}  OBVIOUS
  <2>2. IsFiniteSet(W(0)) /\ Cardinality(W(0)) = 0  BY <2>1, FS_EmptySet
  <2>3. Len(e[0]) = 0  BY <1>2 DEF Grows
  <2> HIDE DEF W
  <2>4. Cardinality(W(0)) \in Nat /\ Len(e[0]) = 0 + 2 * Cardinality(W(0))
    BY <2>2, <2>3
  <2> QED  BY <2>2, <2>4
<1>6. ASSUME NEW n \in Nat, n \in T PROVE n + 1 \in T
  <2>1. CASE n + 1 <= L
    <3> DEFINE k == n + 1
    <3>1. k \in 1 .. L /\ k - 1 = n  BY <1>1, <2>1
    <3>2. /\ IsFiniteSet(W(n)) /\ Cardinality(W(n)) \in Nat
          /\ Len(e[n]) = n + 2 * Cardinality(W(n))
      BY <1>1, <1>6, <3>1
    <3> HIDE DEF T
    <3>3. Len(e[k]) = Len(e[n]) + IF b[k] \in Safe THEN 1 ELSE 3
      BY <1>1, <1>3, <1>4, <3>1 DEF Sizes
    <3>4. CASE b[k] \in Safe
      <4>1. W(k) = W(n)  BY <3>1, <3>4
      <4> HIDE DEF W
      <4>3. Len(e[k]) = Len(e[n]) + 1  BY <3>3, <3>4, Zenon
      <4>4. Len(e[k]) = k + 2 * Cardinality(W(n))  BY <3>2, <4>3
      <4>2. Len(e[k]) = k + 2 * Cardinality(W(k))  BY <4>1, <4>4
      <4> QED  BY <3>2, <4>1, <4>2 DEF T
    <3>5. CASE b[k] \notin Safe
      <4>1. W(k) = W(n) \cup {k} /\ k \notin W(n)  BY <3>1, <3>5
      <4> HIDE DEF W
      <4>5. IsFiniteSet(W(n) \cup {k})
            /\ Cardinality(W(n) \cup {k}) = Cardinality(W(n)) + 1
        BY <3>2, <4>1, FS_AddElement, Zenon
      <4>2. IsFiniteSet(W(k)) /\ Cardinality(W(k)) = Cardinality(W(n)) + 1
        BY <4>1, <4>5, Zenon
      <4>3. Len(e[k]) = k + 2 * Cardinality(W(k))  BY <3>2, <3>3, <3>5, <4>2
      <4>4. Cardinality(W(k)) \in Nat  BY <3>2, <4>2
      <4> QED  BY <4>2, <4>3, <4>4 DEF T
    <3> QED  BY <3>4, <3>5
  <2> QED  BY <2>1
<1>7. L \in T
  <2> HIDE DEF T
  <2> QED  BY <1>1, <1>5, <1>6, AllOfNat
<1>8. Len(Quote(b)) + 1 = QuotedSize(b)
  <2>1. Len(Quote(b)) = L + 2 * Cardinality(W(L)) /\ Cardinality(W(L)) \in Nat
    BY <1>1, <1>2, <1>7
  <2>2. W(L) = {n \in DOMAIN b : b[n] \notin Safe}  BY <1>1
  <2>3. QuotedSize(b) = L + 2 * Cardinality(W(L)) + 1  BY <2>2, Zenon DEF QuotedSize, L
  <2> HIDE DEF W
  <2> QED  BY <1>1, <2>1, <2>3
<1>9. Quote(b) \in Seq(Int)  BY <1>1, <1>2 DEF Grows
<1>10. ASSUME NEW j \in 1 .. Len(Quote(b)) PROVE Quote(b)[j] \notin {Eq, Amp}
  <2>1. j \in 1 .. Len(e[L])  BY <1>2
  <2>2. PICK n \in 1 .. L : \E m \in 1 .. Len(Escapes(b)[n]) : e[L][j] = Escapes(b)[n][m]
    <3>1. Covered(e, Escapes(b), j)
      <4>1. j \in 1 .. Len(e[Len(Escapes(b))])  BY <1>1, <2>1
      <4> QED  BY <1>2, <4>1, GrowsCovers
    <3> QED  BY <1>1, <3>1 DEF Covered
  <2>3. \A m \in 1 .. Len(Escapes(b)[n]) : Escapes(b)[n][m] \notin {Eq, Amp}
    BY <1>1, QuotedByte
  <2> QED  BY <1>2, <2>2, <2>3
<1> QED  BY <1>8, <1>9, <1>10

\* The recursion of http_unquote, from byte k of the text on.
Unquotes(rest, b, k) ==
  rest = [n \in k .. Len(b) + 1 |->
            IF n > Len(b) THEN <<>>
            ELSE IF b[n] = Percent /\ n + 2 > Len(b) THEN Null
            ELSE LET tail == rest[IF b[n] = Percent THEN n + 3 ELSE n + 1]
                 IN IF tail = Null THEN Null
                    ELSE <<IF b[n] = Percent THEN ParseHex(b[n + 1], b[n + 2])
                           ELSE IF b[n] = Plus THEN Space ELSE b[n]>> \o tail]

LEMMA UnquotesSome ==
  ASSUME NEW b, Len(b) \in Nat
  PROVE  \E rest : Unquotes(rest, b, 1)
<1> DEFINE L == Len(b)
           step(rest, n) ==
            IF n > Len(b) THEN <<>>
            ELSE IF b[n] = Percent /\ n + 2 > Len(b) THEN Null
            ELSE LET tail == rest[IF b[n] = Percent THEN n + 3 ELSE n + 1]
                 IN IF tail = Null THEN Null
                    ELSE <<IF b[n] = Percent THEN ParseHex(b[n + 1], b[n + 2])
                           ELSE IF b[n] = Plus THEN Space ELSE b[n]>> \o tail
           T == {d \in Nat : d <= L => \E rest : Unquotes(rest, b, L + 1 - d)}
<1>1. 0 \in T
  <2> DEFINE r == [n \in L + 1 .. L + 1 |-> <<>>]
  <2>1. \A n \in L + 1 .. L + 1 : r[n] = step(r, n)  OBVIOUS
  <2>2. r = [n \in L + 1 .. L + 1 |-> step(r, n)]  BY <2>1
  <2>3. Unquotes(r, b, L + 1)  BY <2>2 DEF Unquotes
  <2>4. L + 1 - 0 = L + 1  OBVIOUS
  <2> QED  BY <2>3, <2>4
<1>2. ASSUME NEW d \in Nat, d \in T PROVE d + 1 \in T
  <2>1. CASE d + 1 <= L
    <3> DEFINE k == L + 1 - (d + 1)
    <3>1. k \in Nat /\ k >= 1 /\ k <= L /\ k + 1 = L + 1 - d /\ d <= L  BY <2>1
    <3>2. PICK f : Unquotes(f, b, k + 1)  BY <1>2, <3>1
    <3> HIDE DEF T
    <3> DEFINE g == [n \in k .. L + 1 |-> IF n = k THEN step(f, k) ELSE f[n]]
    <3> HIDE DEF k
    <3>3. \A n \in k + 1 .. L + 1 : g[n] = f[n]  BY <3>1
    <3>4. \A n \in k + 1 .. L + 1 : f[n] = step(f, n)  BY <3>2 DEF Unquotes
    <3>5. g[k] = step(f, k)  BY <3>1
    <3>6. DOMAIN g = k .. L + 1 /\ g = [n \in k .. L + 1 |-> g[n]]  OBVIOUS
    <3> HIDE DEF g
    <3>7. ASSUME NEW n \in k .. L + 1 PROVE g[n] = step(g, n)
      <4> DEFINE m == IF b[n] = Percent THEN n + 3 ELSE n + 1
      <4>1. g[n] = step(f, n)
        <5>1. CASE n = k  BY <3>5, <5>1
        <5>2. CASE n # k
          <6>1. n \in k + 1 .. L + 1  BY <3>1, <5>2
          <6> QED  BY <3>3, <3>4, <6>1
        <5> QED  BY <5>1, <5>2
      <4>2. CASE n > Len(b) \/ (b[n] = Percent /\ n + 2 > Len(b))
        BY <4>1, <4>2
      <4>3. CASE ~ (n > Len(b) \/ (b[n] = Percent /\ n + 2 > Len(b)))
        <5>1. m \in k + 1 .. L + 1  BY <3>1, <4>3
        <5>2. g[m] = f[m]  BY <3>3, <5>1
        <5>3. step(f, n) = step(g, n)  BY <4>3, <5>2
        <5> QED  BY <4>1, <5>3
      <4> QED  BY <4>2, <4>3
    <3>8. g = [n \in k .. L + 1 |-> step(g, n)]  BY <3>6, <3>7
    <3>9. Unquotes(g, b, k)  BY <3>8 DEF Unquotes
    <3>10. \E rest : Unquotes(rest, b, L + 1 - (d + 1))  BY <3>9 DEF k
    <3> QED  BY <3>10 DEF T
  <2> QED  BY <2>1
<1>3. L \in T
  <2> HIDE DEF T
  <2> QED  BY <1>1, <1>2, AllOfNat
<1>4. L + 1 - L = 1  OBVIOUS
<1> QED  BY <1>3, <1>4

LEMMA UnquoteIs ==
  ASSUME NEW b, Len(b) \in Nat
  PROVE  \E rest : Unquotes(rest, b, 1) /\ Unquote(b) = rest[1]
<1> DEFINE r == CHOOSE rest : Unquotes(rest, b, 1)
<1>1. Unquotes(r, b, 1)  BY UnquotesSome
<1>2. Unquote(b) = r[1]  BY DEF Unquote, Unquotes
<1> QED  BY <1>1, <1>2

\* What http_quote writes of a text of ASCII bytes, http_unquote reads again.
LEMMA UnquoteQuote ==
  ASSUME NEW b \in Texts, \A n \in 1 .. Len(b) : b[n] < 128
  PROVE  Unquote(Quote(b)) = b
<1> DEFINE L == Len(b)
           t == Quote(b)
<1>1. /\ L \in Nat /\ DOMAIN b = 1 .. L /\ \A n \in 1 .. L : b[n] \in 0 .. 255
      /\ Escapes(b) \in Seq(Seq(Int)) /\ Len(Escapes(b)) = L
      /\ \A n \in 1 .. L : Escapes(b)[n] = Quoted(b[n])
  BY EscapesType
<1>2. PICK e : Grows(e, Escapes(b), Int) /\ e[L] = t  BY EscapesType
<1>3. Sizes(e, Escapes(b)) /\ Places(e, Escapes(b))  BY <1>2, GrowsPlaces
<1>4. t \in Seq(Int) /\ Len(t) \in Nat  BY QuoteWrites
<1>5. PICK rest : Unquotes(rest, t, 1) /\ Unquote(t) = rest[1]  BY <1>4, UnquoteIs
<1>6. b \in Seq(0 .. 255) /\ Null \notin Seq(0 .. 255)  BY FormsAssumption DEF Texts
<1> HIDE DEF L, t
<1>7. \A n \in 1 .. Len(t) + 1 :
        rest[n] = IF n > Len(t) THEN <<>>
            ELSE IF t[n] = Percent /\ n + 2 > Len(t) THEN Null
            ELSE LET tail == rest[IF t[n] = Percent THEN n + 3 ELSE n + 1]
                 IN IF tail = Null THEN Null
                    ELSE <<IF t[n] = Percent THEN ParseHex(t[n + 1], t[n + 2])
                           ELSE IF t[n] = Plus THEN Space ELSE t[n]>> \o tail
  BY <1>5 DEF Unquotes
<1> DEFINE T == {d \in Nat : d <= L => rest[Len(e[L - d]) + 1] = SubSeq(b, L - d + 1, L)}
<1>8. 0 \in T
  <2>1. L - 0 = L /\ Len(t) + 1 \in 1 .. Len(t) + 1 /\ Len(t) + 1 > Len(t)  BY <1>1, <1>4
  <2>2. rest[Len(t) + 1] = <<>>  BY <1>7, <2>1
  <2>3. SubSeq(b, L + 1, L) = <<>>  BY <1>1, SubSeqEmpty
  <2> QED  BY <1>2, <2>1, <2>2, <2>3
<1>9. ASSUME NEW d \in Nat, d \in T PROVE d + 1 \in T
  <2>1. CASE d + 1 <= L
    <3> DEFINE k == L - d
               x == Len(e[k - 1])
               c == b[k]
    <3>1. /\ k \in 1 .. L /\ L \in 1 .. L /\ k <= L /\ d <= L
          /\ L - (d + 1) = k - 1 /\ L - (d + 1) + 1 = k
      BY <1>1, <2>1
    <3>2. rest[Len(e[k]) + 1] = SubSeq(b, k + 1, L)  BY <1>9, <3>1
    <3> HIDE DEF T, k
    <3>3. c \in 0 .. 255 /\ c < 128 /\ Escapes(b)[k] = Quoted(c)  BY <1>1, <3>1 DEF L
    <3>4. x \in Nat /\ Len(e[k]) = x + Len(Quoted(c))  BY <1>1, <1>3, <3>1, <3>3 DEF Sizes
    <3>5. \A m \in 1 .. Len(Quoted(c)) : x + m \in 1 .. Len(t) /\ t[x + m] = Quoted(c)[m]
      BY <1>1, <1>2, <1>3, <3>1, <3>3 DEF Places
    <3>6. SubSeq(b, k, L) = <<c>> \o SubSeq(b, k + 1, L)
      <4>1. L \in k .. Len(b) /\ k \in 1 .. Len(b)  BY <3>1 DEF L
      <4> QED  BY <1>6, <4>1, SubSeqRecursiveFirst
    <3>7. SubSeq(b, k + 1, L) # Null
      <4>1. SubSeq(b, k + 1, L) \in Seq(0 .. 255)
        <5>1. \A j \in k + 1 .. L : b[j] \in 0 .. 255  BY <1>1, <3>1
        <5> QED  BY <1>1, <3>1, <5>1, SubSeqProperties
      <4> QED  BY <1>6, <4>1
    <3> DEFINE tail == SubSeq(b, k + 1, L)
    <3> HIDE DEF c, x, tail
    <3>8. rest[x + 1] = <<c>> \o tail
      <4>1. CASE c \in Safe
        <5>1. Quoted(c) = <<c>> /\ Len(Quoted(c)) = 1 /\ c \notin {Percent, Plus}
          BY <3>3, <4>1, QuotedByte
        <5>2. x + 1 \in 1 .. Len(t) /\ t[x + 1] = c  BY <3>5, <5>1
        <5>3. rest[x + 1 + 1] = tail /\ tail # Null  BY <3>2, <3>4, <3>7, <5>1 DEF tail
        <5>4. x + 1 \in 1 .. Len(t) + 1 /\ ~ (x + 1 > Len(t))  BY <1>4, <5>2
        <5> QED  BY <1>7, <5>1, <5>2, <5>3, <5>4
      <4>2. CASE c \notin Safe
        <5>1. Quoted(c) = <<Percent, ToHex(High(c)), ToHex(Low(c))>> /\ Len(Quoted(c)) = 3
          BY <3>3, <4>2, QuotedByte
        <5>2. /\ x + 1 \in 1 .. Len(t) /\ t[x + 1] = Percent
              /\ t[x + 2] = ToHex(High(c))
              /\ x + 3 \in 1 .. Len(t) /\ t[x + 3] = ToHex(Low(c))
          <6>1. 1 \in 1 .. 3 /\ 2 \in 1 .. 3 /\ 3 \in 1 .. 3  OBVIOUS
          <6> QED  BY <3>5, <5>1, <6>1
        <5>3. ParseHex(ToHex(High(c)), ToHex(Low(c))) = c  BY <3>3, EscapesRead
        <5>4. rest[x + 4] = tail /\ tail # Null
          <6>1. x + 3 + 1 = x + 4  BY <3>4
          <6> QED  BY <3>2, <3>4, <3>7, <5>1, <6>1 DEF tail
        <5>5. /\ x + 1 \in 1 .. Len(t) + 1 /\ ~ (x + 1 > Len(t)) /\ ~ (x + 1 + 2 > Len(t))
              /\ x + 1 + 1 = x + 2 /\ x + 1 + 2 = x + 3 /\ x + 1 + 3 = x + 4
          BY <1>4, <3>4, <5>2
        <5> DEFINE n == x + 1
        <5>6. /\ n \in 1 .. Len(t) + 1 /\ ~ (n > Len(t)) /\ ~ (n + 2 > Len(t))
              /\ t[n] = Percent /\ t[n + 1] = ToHex(High(c)) /\ t[n + 2] = ToHex(Low(c))
              /\ rest[n + 3] = tail
          BY <5>2, <5>4, <5>5
        <5> HIDE DEF n
        <5>7. rest[n] = <<ParseHex(t[n + 1], t[n + 2])>> \o tail  BY <1>7, <5>4, <5>6
        <5> QED  BY <5>3, <5>6, <5>7 DEF n
      <4> QED  BY <4>1, <4>2
    <3>9. rest[Len(e[L - (d + 1)]) + 1] = SubSeq(b, L - (d + 1) + 1, L)
      BY <3>1, <3>6, <3>8 DEF x, c, tail
    <3> QED  BY <3>9 DEF T
  <2> QED  BY <2>1
<1>10. L \in T
  <2> HIDE DEF T
  <2> QED  BY <1>1, <1>8, <1>9, AllOfNat
<1>11. rest[1] = SubSeq(b, 1, L)
  <2>1. L - L = 0 /\ Len(e[0]) = 0  BY <1>1, <1>2 DEF Grows
  <2>2. L - L + 1 = 1 /\ Len(e[0]) + 1 = 1  BY <2>1
  <2> QED  BY <1>1, <1>10, <2>1, <2>2
<1>12. SubSeq(b, 1, L) = b  BY <1>6, SubSeqFull DEF L
<1> QED  BY <1>5, <1>11, <1>12 DEF t

-----------------------------------------------------------------------------
\* The text of a pair, and those of a form.
PairText(pair) ==
  IF Empty(pair[1]) THEN <<>>
  ELSE (Quote(pair[1]) \o <<Eq>>)
         \o (IF Empty(pair[2]) THEN <<>> ELSE Quote(pair[2]) \o <<Amp>>)

PairTexts(f) == [n \in DOMAIN f |-> PairText(f[n])]

\* What is written of the first pairs of a form.
Enc(f) == CHOOSE e : Grows(e, PairTexts(f), Int)

LEMMA FormParts ==
  ASSUME NEW f \in Seq(Pairs), NEW n \in 1 .. Len(f)
  PROVE  /\ ~ Empty(f[n][1]) => f[n][1] \in Texts
         /\ ~ Empty(f[n][2]) => f[n][2] \in Texts
<1>1. f[n] \in Pairs  BY ElementOfSeq
<1>2. f[n][1] \in Texts \cup {Null} /\ f[n][2] \in Texts \cup {Null}  BY <1>1 DEF Pairs
<1> QED  BY <1>2 DEF Empty

LEMMA SignSeq == <<Eq>> \in Seq(Int) /\ <<Amp>> \in Seq(Int) /\ Len(<<Eq>>) = 1 /\ Len(<<Amp>>) = 1
                 /\ <<Eq>>[1] = Eq /\ <<Amp>>[1] = Amp
BY DEF Eq, Amp

LEMMA EncGrows ==
  ASSUME NEW f \in Seq(Pairs)
  PROVE  /\ Len(f) \in Nat /\ DOMAIN f = 1 .. Len(f)
         /\ Len(PairTexts(f)) = Len(f)
         /\ \A n \in 1 .. Len(f) : PairTexts(f)[n] = PairText(f[n])
         /\ Grows(Enc(f), PairTexts(f), Int)
<1>1. Len(f) \in Nat /\ DOMAIN f = 1 .. Len(f)  BY LenProperties
<1>2. ASSUME NEW n \in 1 .. Len(f) PROVE PairText(f[n]) \in Seq(Int)
  <2>1. CASE Empty(f[n][1])  BY <2>1, EmptySeq DEF PairText
  <2>2. CASE ~ Empty(f[n][1])
    <3> DEFINE q == Quote(f[n][1])
               r == Quote(f[n][2])
    <3>1. q \in Seq(Int)  BY <2>2, FormParts, QuoteWrites
    <3>2. CASE Empty(f[n][2])
      <4>1. PairText(f[n]) = (q \o <<Eq>>) \o <<>>  BY <2>2, <3>2 DEF PairText
      <4> QED  BY <3>1, <4>1, SignSeq, ConcatProperties, EmptySeq
    <3>3. CASE ~ Empty(f[n][2])
      <4>1. PairText(f[n]) = (q \o <<Eq>>) \o (r \o <<Amp>>)  BY <2>2, <3>3 DEF PairText
      <4>2. r \in Seq(Int)  BY <3>3, FormParts, QuoteWrites
      <4> HIDE DEF q, r
      <4>3. q \o <<Eq>> \in Seq(Int) /\ r \o <<Amp>> \in Seq(Int)
        BY <3>1, <4>2, SignSeq, ConcatProperties
      <4> QED  BY <4>1, <4>3, ConcatProperties
    <3> QED  BY <3>2, <3>3
  <2> QED  BY <2>1, <2>2
<1>3. /\ PairTexts(f) \in Seq(Seq(Int)) /\ Len(PairTexts(f)) = Len(f)
      /\ \A n \in 1 .. Len(f) : PairTexts(f)[n] = PairText(f[n])
  BY <1>1, <1>2 DEF PairTexts
<1>4. \E e : Grows(e, PairTexts(f), Int)  BY <1>3, FlattenGrows
<1>5. Grows(Enc(f), PairTexts(f), Int)  BY <1>4 DEF Enc
<1> QED  BY <1>1, <1>3, <1>5

-----------------------------------------------------------------------------
\* A piece stands behind the first x bytes of a text, and a sign behind it.
Stands(t, x, q, sign) ==
  /\ x \in Nat /\ Len(q) \in Nat /\ q \in Seq(Int)
  /\ \A m \in 1 .. Len(q) : x + m \in 1 .. Len(t) /\ t[x + m] = q[m]
  /\ x + Len(q) + 1 \in 1 .. Len(t) /\ t[x + Len(q) + 1] = sign

\* The loop of http_urldecode in a piece: it is at a byte of it, or at its sign.
LEMMA InPiece ==
  ASSUME NEW t, NEW x, NEW q, NEW sign \in {Eq, Amp}, Stands(t, x, q, sign),
         \A m \in 1 .. Len(q) : q[m] \notin {Eq, Amp},
         NEW j \in x + 1 .. x + 1 + Len(q)
  PROVE  /\ j \in 1 .. Len(t)
         /\ t[j] \in {Eq, Amp} =>
              j = x + 1 + Len(q) /\ t[j] = sign /\ SubSeq(t, x + 1, j - 1) = q
         /\ t[j] \notin {Eq, Amp} => j + 1 \in x + 1 .. x + 1 + Len(q)
<1>1. /\ x \in Nat /\ Len(q) \in Nat /\ q \in Seq(Int)
      /\ \A m \in 1 .. Len(q) : x + m \in 1 .. Len(t) /\ t[x + m] = q[m]
      /\ x + Len(q) + 1 \in 1 .. Len(t) /\ t[x + Len(q) + 1] = sign
  BY DEF Stands
<1>2. CASE j = x + Len(q) + 1
  <2>1. SubSeq(t, x + 1, j - 1) = q
    <3> DEFINE a == x + 1
               z == j - 1
    <3>1. a \in Int /\ z \in Int /\ z = x + Len(q) /\ z - a + 1 = Len(q)  BY <1>1, <1>2
    <3>2. \A g \in a .. z : t[g] \in Int
      <4> SUFFICES ASSUME NEW g \in a .. z PROVE t[g] \in Int  OBVIOUS
      <4>1. g - x \in 1 .. Len(q) /\ x + (g - x) = g  BY <1>1, <3>1
      <4>2. t[x + (g - x)] = q[g - x]  BY <1>1, <4>1
      <4>3. q[g - x] \in Int  BY <1>1, <4>1, ElementOfSeq
      <4> QED  BY <4>1, <4>2, <4>3
    <3> DEFINE u == SubSeq(t, a, z)
    <3>3. /\ u \in Seq(Int) /\ Len(u) = IF a <= z THEN z - a + 1 ELSE 0
          /\ \A m \in 1 .. z - a + 1 : u[m] = t[a + m - 1]
      <4> HIDE DEF a, z
      <4> QED  BY <3>1, <3>2, SubSeqProperties
    <3>4. Len(u) = Len(q)
      <4>1. ~ (a <= z) => z - a + 1 <= 0  BY <3>1, <1>1
      <4> HIDE DEF u, a, z
      <4> QED  BY <1>1, <3>1, <3>3, <4>1
    <3>5. ASSUME NEW m \in 1 .. Len(q) PROVE u[m] = q[m]
      <4>1. a + m - 1 = x + m  BY <1>1
      <4> HIDE DEF u
      <4>2. u[m] = t[a + m - 1]  BY <3>1, <3>3
      <4> QED  BY <1>1, <4>1, <4>2
    <3> HIDE DEF u
    <3>6. u = q  BY <1>1, <3>3, <3>4, <3>5, SeqEqual
    <3> QED  BY <3>6 DEF u
  <2>2. j = x + 1 + Len(q) /\ t[j] = sign /\ j \in 1 .. Len(t)  BY <1>1, <1>2
  <2> QED  BY <2>1, <2>2
<1>3. CASE j # x + Len(q) + 1
  <2>1. j - x \in 1 .. Len(q) /\ x + (j - x) = j /\ j + 1 \in x + 1 .. x + 1 + Len(q)
    BY <1>1, <1>3
  <2>2. j \in 1 .. Len(t) /\ t[j] = q[j - x]  BY <1>1, <2>1
  <2> QED  BY <2>1, <2>2
<1> QED  BY <1>2, <1>3

\* The key of a pair, and its value, stand in the text of the form.
LEMMA PairStands ==
  ASSUME NEW f \in Seq(Pairs), NEW n \in 1 .. Len(f), ~ Empty(f[n][1])
  PROVE  LET t == Enc(f)[Len(f)]
             x == Len(Enc(f)[n - 1])
             y == x + Len(Quote(f[n][1])) + 1
         IN /\ Stands(t, x, Quote(f[n][1]), Eq)
            /\ Empty(f[n][2]) => Len(Enc(f)[n]) = y
            /\ ~ Empty(f[n][2]) => /\ Stands(t, y, Quote(f[n][2]), Amp)
                                   /\ Len(Enc(f)[n]) = y + Len(Quote(f[n][2])) + 1
<1> DEFINE N == Len(f)
           e == Enc(f)
           t == e[N]
           x == Len(e[n - 1])
           q == Quote(f[n][1])
           r == Quote(f[n][2])
           w == PairText(f[n])
           y == x + Len(q) + 1
           k == q \o <<Eq>>
           v == r \o <<Amp>>
<1>1. /\ N \in Nat /\ Len(PairTexts(f)) = N /\ PairTexts(f)[n] = w
      /\ Grows(e, PairTexts(f), Int)
  BY EncGrows
<1>2. Sizes(e, PairTexts(f)) /\ Places(e, PairTexts(f))  BY <1>1, GrowsPlaces
<1>3. n \in 1 .. N /\ N \in 1 .. N /\ n <= N  BY <1>1
<1>4. x \in Nat /\ Len(w) \in Nat /\ Len(e[n]) = x + Len(w)
  <2> HIDE DEF N, e, w
  <2>1. n - 1 \in 0 .. N  BY <1>3
  <2> QED  BY <1>1, <1>2, <1>3, <2>1 DEF Sizes
<1>5. \A m \in 1 .. Len(w) : x + m \in 1 .. Len(t) /\ t[x + m] = w[m]
  <2> HIDE DEF N, e, w
  <2> QED  BY <1>1, <1>2, <1>3 DEF Places
<1>6. q \in Seq(Int)  BY FormParts, QuoteWrites
<1>7. ~ Empty(f[n][2]) => r \in Seq(Int)  BY FormParts, QuoteWrites
<1>8. w = k \o (IF Empty(f[n][2]) THEN <<>> ELSE v)  BY DEF PairText
<1> HIDE DEF N, e, t, x, q, r, w
<1>9. k \in Seq(Int) /\ Joins(k, q, <<Eq>>)  BY <1>6, SignSeq, Joint
<1>10. /\ Len(q) \in Nat /\ Len(k) = Len(q) + 1
       /\ \A j \in 1 .. Len(q) : k[j] = q[j]
       /\ k[Len(q) + 1] = Eq
  BY <1>9, SignSeq DEF Joins
<1>11. ASSUME Empty(f[n][2]) PROVE w = k
  <2>1. w = k \o <<>>  BY <1>8, <1>11
  <2> QED  BY <1>9, <2>1, ConcatEmptySeq
<1>12. ASSUME ~ Empty(f[n][2])
       PROVE  /\ Len(w) = Len(q) + 1 + (Len(r) + 1) /\ Len(r) \in Nat
              /\ \A j \in 1 .. Len(q) + 1 : w[j] = k[j]
              /\ \A j \in 1 .. Len(r) : w[Len(q) + 1 + j] = r[j]
              /\ w[Len(q) + 1 + (Len(r) + 1)] = Amp
  <2>1. v \in Seq(Int) /\ Joins(v, r, <<Amp>>)  BY <1>7, <1>12, SignSeq, Joint
  <2>2. /\ Len(r) \in Nat /\ Len(v) = Len(r) + 1
        /\ \A j \in 1 .. Len(r) : v[j] = r[j]
        /\ v[Len(r) + 1] = Amp
    BY <2>1, SignSeq DEF Joins
  <2>3. w = k \o v  BY <1>8, <1>12
  <2> HIDE DEF k, v
  <2>4. Joins(w, k, v)  BY <1>9, <2>1, <2>3, Joint
  <2>5. /\ Len(w) = Len(k) + Len(v)
        /\ \A j \in 1 .. Len(k) : w[j] = k[j]
        /\ \A m \in 1 .. Len(v) : w[Len(k) + m] = v[m]
    BY <2>4 DEF Joins
  <2>6. \A j \in 1 .. Len(r) : j \in 1 .. Len(v)  BY <2>2
  <2>7. Len(r) + 1 \in 1 .. Len(v)  BY <2>2
  <2> QED  BY <1>10, <2>2, <2>5, <2>6, <2>7
<1>13. /\ Len(q) + 1 <= Len(w) /\ \A j \in 1 .. Len(q) + 1 : w[j] = k[j]
  <2> HIDE DEF k, v, y
  <2>1. CASE Empty(f[n][2])  BY <1>10, <1>11, <2>1
  <2>2. CASE ~ Empty(f[n][2])  BY <1>10, <1>12, <2>2
  <2> QED  BY <2>1, <2>2
<1>14. Stands(t, x, q, Eq)
  <2>1. \A m \in 1 .. Len(q) : m \in 1 .. Len(w) /\ m \in 1 .. Len(q) + 1
    BY <1>4, <1>10, <1>13
  <2>2. \A m \in 1 .. Len(q) : x + m \in 1 .. Len(t) /\ t[x + m] = q[m]
    BY <1>5, <1>10, <1>13, <2>1
  <2>3. Len(q) + 1 \in 1 .. Len(w) /\ Len(q) + 1 \in 1 .. Len(q) + 1
    BY <1>4, <1>10, <1>13
  <2>4. x + (Len(q) + 1) \in 1 .. Len(t) /\ t[x + (Len(q) + 1)] = Eq
    BY <1>5, <1>10, <1>13, <2>3
  <2>5. x + (Len(q) + 1) = x + Len(q) + 1  BY <1>4, <1>10
  <2> QED  BY <1>4, <1>6, <1>10, <2>2, <2>4, <2>5 DEF Stands
<1>15. ASSUME Empty(f[n][2]) PROVE Len(e[n]) = y
  <2> HIDE DEF k, v
  <2>1. Len(w) = Len(q) + 1  BY <1>10, <1>11, <1>15
  <2> QED  BY <1>4, <1>10, <2>1
<1>16. ASSUME ~ Empty(f[n][2])
       PROVE  Stands(t, y, r, Amp) /\ Len(e[n]) = y + Len(r) + 1
  <2>1. /\ Len(w) = Len(q) + 1 + (Len(r) + 1) /\ Len(r) \in Nat
        /\ \A j \in 1 .. Len(r) : w[Len(q) + 1 + j] = r[j]
        /\ w[Len(q) + 1 + (Len(r) + 1)] = Amp
    BY <1>12, <1>16
  <2>2. ASSUME NEW m \in 1 .. Len(r) PROVE y + m \in 1 .. Len(t) /\ t[y + m] = r[m]
    <3>1. Len(q) + 1 + m \in 1 .. Len(w) /\ x + (Len(q) + 1 + m) = y + m
      BY <1>4, <1>10, <2>1
    <3>2. x + (Len(q) + 1 + m) \in 1 .. Len(t) /\ t[x + (Len(q) + 1 + m)] = w[Len(q) + 1 + m]
      BY <1>5, <3>1
    <3> QED  BY <2>1, <3>1, <3>2
  <2>3. y + Len(r) + 1 \in 1 .. Len(t) /\ t[y + Len(r) + 1] = Amp
    <3>1. Len(q) + 1 + (Len(r) + 1) \in 1 .. Len(w)
          /\ x + (Len(q) + 1 + (Len(r) + 1)) = y + Len(r) + 1
      BY <1>4, <1>10, <2>1
    <3>2. x + (Len(q) + 1 + (Len(r) + 1)) \in 1 .. Len(t)
          /\ t[x + (Len(q) + 1 + (Len(r) + 1))] = w[Len(q) + 1 + (Len(r) + 1)]
      BY <1>5, <3>1
    <3> QED  BY <2>1, <3>1, <3>2
  <2>4. y \in Nat  BY <1>4, <1>10
  <2>5. Stands(t, y, r, Amp)  BY <1>7, <1>16, <2>1, <2>2, <2>3, <2>4 DEF Stands
  <2>6. Len(e[n]) = y + Len(r) + 1  BY <1>4, <1>10, <2>1
  <2> QED  BY <2>5, <2>6
<1> QED  BY <1>14, <1>15, <1>16 DEF N, e, t, x, q, r

\* The pairs of a map.
Graph(d) == {<<k, d[k]>> : k \in DOMAIN d}

Valued(pair) == <<pair[1], IF pair[2] = Null THEN <<>> ELSE pair[2]>>

\* What is sent of the first n pairs.
SentTo(f, n) == {Valued(f[m]) : m \in {j \in 1 .. n : ~ Empty(f[j][1])}}

Readable(f) == \A n \in DOMAIN f : \A m \in 1 .. 2 : Empty(f[n][m]) \/ Plain(f[n][m])

Distinct(f) == \A m, n \in DOMAIN f : f[m][1] = f[n][1] => m = n

\* The decoder is in the key of pair n, or behind the last pair; a key that
\* waits for its value has none so far.
KeyAt(f, n, from, at, k, d) ==
  /\ from = Len(Enc(f)[n - 1]) + 1
  /\ n <= Len(f) => ~ Empty(f[n][1]) /\ at \in from .. from + Len(Quote(f[n][1]))
  /\ n > Len(f) => at = from
  /\ Graph(Put(d, k, <<>>)) = SentTo(f, n - 1)

\* The decoder is in the value of pair n.
ValueAt(f, n, from, at, k, d) ==
  /\ n <= Len(f) /\ ~ Empty(f[n][1]) /\ ~ Empty(f[n][2])
  /\ from = Len(Enc(f)[n - 1]) + Len(Quote(f[n][1])) + 2
  /\ at \in from .. from + Len(Quote(f[n][2]))
  /\ k = f[n][1] /\ Graph(d) = SentTo(f, n - 1)

At(f, from, at, k, d) ==
  \E n \in 1 .. Len(f) + 1 : KeyAt(f, n, from, at, k, d) \/ ValueAt(f, n, from, at, k, d)

LEMMA PlainText ==
  ASSUME NEW b \in Texts, Plain(b)
  PROVE  CString(b) = b /\ b # Null /\ Unquote(Quote(b)) = b
         /\ (b # <<>> => Len(Quote(b)) > 0)
<1>1. Len(b) \in Nat /\ DOMAIN b = 1 .. Len(b)  BY EscapesType
<1>2. {n \in DOMAIN b : b[n] = 0} = {}  BY DEF Plain
<1>3. CString(b) = b  BY <1>2 DEF CString
<1>4. \A n \in 1 .. Len(b) : b[n] < 128
  <2>1. \A n \in 1 .. Len(b) : b[n] \in 1 .. 127  BY <1>1 DEF Plain
  <2>2. \A x \in 1 .. 127 : x < 128  OBVIOUS
  <2> QED  BY <2>1, <2>2, Zenon
<1>5. ASSUME b # <<>>, ~ (Len(Quote(b)) > 0) PROVE FALSE
  <2>1. Quote(b) \in Seq(Int) /\ Len(Quote(b)) \in Nat  BY QuoteWrites
  <2>2. Len(b) > 0
    <3>1. b \in Seq(0 .. 255)  BY DEF Texts
    <3> QED  BY <1>5, <3>1, EmptySeq
  <2>3. Len(Quote(b)) = 0  BY <1>5, <2>1
  <2>4. Quote(b) = <<>>  BY <2>1, <2>3
  <2>5. Quote(<<>>) = <<>>
    <3>1. <<>> \in Texts  BY DEF Texts
    <3>2. Quote(<<>>) \in Seq(Int) /\ Len(Quote(<<>>)) + 1 = QuotedSize(<<>>)
      BY <3>1, QuoteWrites
    <3>3. {n \in DOMAIN <<>> : <<>>[n] \notin Safe} = {}  OBVIOUS
    <3>4. Cardinality({}) = 0  BY FS_EmptySet
    <3>5. QuotedSize(<<>>) = 0 + 2 * Cardinality({}) + 1  BY <3>3 DEF QuotedSize
    <3>6. Len(Quote(<<>>)) = 0
      <4>1. Len(Quote(<<>>)) \in Nat  BY <3>2
      <4> QED  BY <3>2, <3>4, <3>5, <4>1
    <3> QED  BY <3>2, <3>6
  <2>6. Unquote(Quote(b)) = b /\ Unquote(Quote(<<>>)) = <<>>
    <3>1. <<>> \in Texts /\ \A n \in 1 .. Len(<<>>) : <<>>[n] < 128  BY DEF Texts
    <3> QED  BY <1>4, <3>1, UnquoteQuote
  <2> QED  BY <1>5, <2>4, <2>5, <2>6
<1> QED  BY <1>3, <1>4, <1>5, UnquoteQuote DEF Plain

LEMMA GraphAdds ==
  ASSUME NEW d, NEW k, NEW v, k \notin DOMAIN d
  PROVE  Graph(With(d, k, v)) = Graph(d) \cup {<<k, v>>}
<1> DEFINE e == With(d, k, v)
<1>1. DOMAIN e = DOMAIN d \cup {k} /\ e[k] = v /\ \A x \in DOMAIN d : e[x] = d[x]
  BY DEF With
<1> HIDE DEF e
<1> QED  BY <1>1 DEF Graph, e

\* No pair of a form has been sent before it.
LEMMA KeyIsNew ==
  ASSUME NEW f \in Seq(Pairs), Distinct(f), NEW n \in 1 .. Len(f), NEW d,
         Graph(d) = SentTo(f, n - 1)
  PROVE  f[n][1] \notin DOMAIN d
<1> SUFFICES ASSUME f[n][1] \in DOMAIN d PROVE FALSE  OBVIOUS
<1>1. <<f[n][1], d[f[n][1]]>> \in SentTo(f, n - 1)  BY DEF Graph
<1>2. PICK m \in 1 .. n - 1 : <<f[n][1], d[f[n][1]]>> = Valued(f[m])
  BY <1>1 DEF SentTo
<1>3. f[m][1] = f[n][1]  BY <1>2 DEF Valued
<1>4. Len(f) \in Nat /\ DOMAIN f = 1 .. Len(f)  BY LenProperties
<1>5. m \in DOMAIN f /\ n \in DOMAIN f /\ m # n  BY <1>4
<1> QED  BY <1>3, <1>5 DEF Distinct

LEMMA SentGrows ==
  ASSUME NEW f, NEW n \in Nat \ {0}
  PROVE  SentTo(f, n) = IF Empty(f[n][1]) THEN SentTo(f, n - 1)
                        ELSE SentTo(f, n - 1) \cup {Valued(f[n])}
<1>1. \A m : m \in 1 .. n <=> m \in 1 .. n - 1 \/ m = n  OBVIOUS
<1> QED  BY <1>1 DEF SentTo

\* From a pair on there is the next pair with a key, or the end.
LEMMA NextKey ==
  ASSUME NEW f \in Seq(Pairs), NEW n \in 1 .. Len(f) + 1
  PROVE  \E m \in 1 .. Len(f) + 1 :
           /\ m <= Len(f) => ~ Empty(f[m][1])
           /\ Enc(f)[m - 1] = Enc(f)[n - 1]
           /\ SentTo(f, m - 1) = SentTo(f, n - 1)
<1> DEFINE N == Len(f)
           next(c, m) == /\ m <= N => ~ Empty(f[m][1])
                         /\ Enc(f)[m - 1] = Enc(f)[c]
                         /\ SentTo(f, m - 1) = SentTo(f, c)
           ok(c) == \E m \in 1 .. N + 1 : next(c, m)
           T == {d \in Nat : d <= N => ok(N - d)}
<1>1. /\ N \in Nat /\ Len(PairTexts(f)) = N
      /\ \A k \in 1 .. N : PairTexts(f)[k] = PairText(f[k])
      /\ Grows(Enc(f), PairTexts(f), Int)
  BY EncGrows
<1>2. 0 \in T
  <2>1. N + 1 \in 1 .. N + 1 /\ ~ (N + 1 <= N) /\ N + 1 - 1 = N  BY <1>1
  <2>2. next(N, N + 1)  BY <2>1
  <2>3. N - 0 = N  BY <1>1
  <2> QED  BY <2>1, <2>2, <2>3
<1>3. ASSUME NEW d \in Nat, d \in T PROVE d + 1 \in T
  <2>1. CASE d + 1 <= N
    <3> DEFINE k == N - d
    <3>1. k \in 1 .. N /\ N - (d + 1) = k - 1 /\ d <= N /\ k \in 1 .. N + 1  BY <1>1, <2>1
    <3>2. ok(k)  BY <1>3, <3>1
    <3> HIDE DEF T, k
    <3>3. ASSUME ~ Empty(f[k][1]) PROVE ok(k - 1)
      <4>1. next(k - 1, k)  BY <3>3
      <4> QED  BY <3>1, <4>1
    <3>4. ASSUME Empty(f[k][1]) PROVE ok(k - 1)
      <4>1. Enc(f)[k] = Enc(f)[k - 1] \o <<>>
        <5>1. Enc(f)[k] = Enc(f)[k - 1] \o PairTexts(f)[k]  BY <1>1, <3>1 DEF Grows
        <5>2. PairTexts(f)[k] = <<>>  BY <1>1, <3>1, <3>4 DEF PairText
        <5> QED  BY <5>1, <5>2
      <4>2. Enc(f)[k - 1] \in Seq(Int)
        <5>1. k - 1 \in 0 .. N  BY <1>1, <3>1
        <5> QED  BY <1>1, <5>1 DEF Grows
      <4>3. Enc(f)[k] = Enc(f)[k - 1]  BY <4>1, <4>2, ConcatEmptySeq
      <4>4. SentTo(f, k) = SentTo(f, k - 1)  BY <3>1, <3>4, SentGrows
      <4>5. PICK m \in 1 .. N + 1 : next(k, m)  BY <3>2
      <4>6. next(k - 1, m)  BY <4>3, <4>4, <4>5
      <4> QED  BY <4>6
    <3>5. ok(N - (d + 1))
      <4>1. ok(k - 1)  BY <3>3, <3>4
      <4> HIDE DEF ok
      <4> QED  BY <3>1, <4>1
    <3> HIDE DEF ok
    <3> QED  BY <3>5 DEF T
  <2>2. CASE ~ (d + 1 <= N)
    <3> HIDE DEF ok
    <3> QED  BY <2>2
  <2> QED  BY <2>1, <2>2
<1> DEFINE c == n - 1
<1>5. N - c \in Nat /\ N - c <= N /\ N - (N - c) = c  BY <1>1
<1>6. N - c \in T
  <2> HIDE DEF T, c
  <2> QED  BY <1>2, <1>3, <1>5, AllOfNat
<1>7. ok(c)
  <2> HIDE DEF c, ok
  <2> QED  BY <1>5, <1>6
<1> QED  BY <1>7

Ready(f) == f \in Seq(Pairs) /\ Distinct(f) /\ Readable(f)

\* A key or a value of a form that is readable.
LEMMA ReadyPart ==
  ASSUME NEW f, Ready(f), NEW n \in 1 .. Len(f), NEW m \in 1 .. 2, ~ Empty(f[n][m])
  PROVE  /\ f[n][m] \in Texts /\ f[n][m] # Null
         /\ CString(f[n][m]) = f[n][m] /\ Unquote(Quote(f[n][m])) = f[n][m]
         /\ Len(Quote(f[n][m])) \in Nat /\ Len(Quote(f[n][m])) > 0
         /\ \A j \in 1 .. Len(Quote(f[n][m])) : Quote(f[n][m])[j] \notin {Eq, Amp}
<1>1. f \in Seq(Pairs) /\ n \in DOMAIN f  BY LenProperties DEF Ready
<1>2. f[n][m] \in Texts  BY <1>1, FormParts
<1>3. Plain(f[n][m])  BY <1>1 DEF Ready, Readable
<1>4. f[n][m] # <<>>  BY DEF Empty
<1>5. Quote(f[n][m]) \in Seq(Int)  BY <1>2, QuoteWrites
<1> QED  BY <1>2, <1>3, <1>4, <1>5, PlainText, QuoteWrites

\* Behind a pair the decoder is at the next key.
LEMMA BehindPair ==
  ASSUME NEW f, Ready(f), NEW n \in 0 .. Len(f), NEW from, NEW k, NEW d,
         from = Len(Enc(f)[n]) + 1,
         Graph(Put(d, k, <<>>)) = SentTo(f, n)
  PROVE  At(f, from, from, k, d)
<1>1. /\ f \in Seq(Pairs) /\ Len(f) \in Nat /\ Len(PairTexts(f)) = Len(f)
      /\ Grows(Enc(f), PairTexts(f), Int)
  BY EncGrows DEF Ready
<1>2. n + 1 \in 1 .. Len(f) + 1 /\ n + 1 - 1 = n  BY <1>1
<1>3. PICK m \in 1 .. Len(f) + 1 :
        /\ m <= Len(f) => ~ Empty(f[m][1])
        /\ Enc(f)[m - 1] = Enc(f)[n]
        /\ SentTo(f, m - 1) = SentTo(f, n)
  <2> DEFINE h == n + 1
  <2>1. h \in 1 .. Len(f) + 1 /\ h - 1 = n  BY <1>2
  <2> HIDE DEF h
  <2> QED  BY <1>1, <2>1, NextKey
<1>4. Len(Enc(f)[n]) \in Nat  BY <1>1 DEF Grows
<1>5. ASSUME m <= Len(f) PROVE from \in from .. from + Len(Quote(f[m][1]))
  <2>1. m \in 1 .. Len(f) /\ 1 \in 1 .. 2  BY <1>1, <1>5
  <2>2. Len(Quote(f[m][1])) \in Nat  BY <1>3, <1>5, <2>1, ReadyPart
  <2>3. \A a \in Int, b \in Nat : a \in a .. a + b  OBVIOUS
  <2>4. from \in Int  BY <1>4
  <2> QED  BY <2>2, <2>3, <2>4
<1>6. KeyAt(f, m, from, from, k, d)  BY <1>3, <1>5 DEF KeyAt
<1> QED  BY <1>6 DEF At

LEMMA AtBegins ==
  ASSUME NEW f, Ready(f) PROVE At(f, 1, 1, Null, <<>>)
<1>1. Len(f) \in Nat /\ Grows(Enc(f), PairTexts(f), Int)  BY EncGrows DEF Ready
<1>2. 0 \in 0 .. Len(f) /\ Len(Enc(f)[0]) + 1 = 1  BY <1>1 DEF Grows
<1>3. SentTo(f, 0) = {}  BY DEF SentTo
<1>4. Put(<<>>, Null, <<>>) = <<>>  BY DEF Put
<1>5. Graph(<<>>) = {}  BY DEF Graph
<1> QED  BY <1>2, <1>3, <1>4, <1>5, BehindPair

\* The sign behind the key of pair n, and that behind its value.
KeyStops(f, n, from, at) ==
  /\ Enc(f)[Len(f)][at] = Eq /\ SubSeq(Enc(f)[Len(f)], from, at - 1) = Quote(f[n][1])
  /\ at = Len(Enc(f)[n - 1]) + Len(Quote(f[n][1])) + 1

ValueStops(f, n, from, at) ==
  /\ Enc(f)[Len(f)][at] = Amp /\ SubSeq(Enc(f)[Len(f)], from, at - 1) = Quote(f[n][2])
  /\ from # at /\ at = Len(Enc(f)[n])

LEMMA KeyPiece ==
  ASSUME NEW f, Ready(f), NEW n \in 1 .. Len(f), NEW from, NEW at, NEW k, NEW d,
         KeyAt(f, n, from, at, k, d)
  PROVE  LET t == Enc(f)[Len(f)]
         IN /\ at \in Nat /\ at <= Len(t)
            /\ t[at] \notin {Eq, Amp} => KeyAt(f, n, from, at + 1, k, d)
            /\ t[at] \in {Eq, Amp} => KeyStops(f, n, from, at)
<1> DEFINE t == Enc(f)[Len(f)]
           x == Len(Enc(f)[n - 1])
           q == Quote(f[n][1])
<1>1. f \in Seq(Pairs) /\ Len(f) \in Nat /\ n <= Len(f) /\ 1 \in 1 .. 2
  BY LenProperties DEF Ready
<1>2. ~ Empty(f[n][1]) /\ from = x + 1 /\ at \in from .. from + Len(q)
  BY <1>1 DEF KeyAt
<1>3. Stands(t, x, q, Eq)  BY <1>1, <1>2, PairStands
<1>4. x \in Nat /\ Len(q) \in Nat  BY <1>3 DEF Stands
<1>5. \A j \in 1 .. Len(q) : q[j] \notin {Eq, Amp}  BY <1>1, <1>2, ReadyPart
<1> HIDE DEF t, x, q
<1>6. at \in x + 1 .. x + 1 + Len(q)  BY <1>2
<1>7. /\ at \in 1 .. Len(t)
      /\ t[at] \in {Eq, Amp} =>
           at = x + 1 + Len(q) /\ t[at] = Eq /\ SubSeq(t, x + 1, at - 1) = q
      /\ t[at] \notin {Eq, Amp} => at + 1 \in x + 1 .. x + 1 + Len(q)
  BY <1>3, <1>5, <1>6, InPiece
<1>8. ASSUME t[at] \notin {Eq, Amp} PROVE KeyAt(f, n, from, at + 1, k, d)
  <2>1. at + 1 \in from .. from + Len(q)  BY <1>2, <1>7, <1>8
  <2>2. at + 1 \in from .. from + Len(Quote(f[n][1]))  BY <2>1 DEF q
  <2>3. ~ (n > Len(f))  BY <1>1
  <2> QED  BY <2>2, <2>3, Zenon DEF KeyAt
<1>9. x + 1 + Len(q) = x + Len(q) + 1  BY <1>4
<1>10. at \in Nat /\ at <= Len(t)  BY <1>7
<1>11. t[at] \in {Eq, Amp} => KeyStops(f, n, from, at)
  BY <1>2, <1>7, <1>9 DEF KeyStops, t, x, q
<1> QED  BY <1>8, <1>10, <1>11 DEF t

LEMMA ValuePiece ==
  ASSUME NEW f, Ready(f), NEW n \in 1 .. Len(f), NEW from, NEW at, NEW k, NEW d,
         ValueAt(f, n, from, at, k, d)
  PROVE  LET t == Enc(f)[Len(f)]
         IN /\ at \in Nat /\ at <= Len(t)
            /\ t[at] \notin {Eq, Amp} => ValueAt(f, n, from, at + 1, k, d)
            /\ t[at] \in {Eq, Amp} => ValueStops(f, n, from, at)
<1> DEFINE t == Enc(f)[Len(f)]
           y == Len(Enc(f)[n - 1]) + Len(Quote(f[n][1])) + 1
           q == Quote(f[n][2])
<1>1. f \in Seq(Pairs) /\ Len(f) \in Nat /\ n <= Len(f) /\ 1 \in 1 .. 2 /\ 2 \in 1 .. 2
  BY LenProperties DEF Ready
<1>2. ~ Empty(f[n][1]) /\ ~ Empty(f[n][2]) /\ at \in from .. from + Len(q)
      /\ from = Len(Enc(f)[n - 1]) + Len(Quote(f[n][1])) + 2
  BY <1>1 DEF ValueAt
<1>3. Stands(t, y, q, Amp) /\ Len(Enc(f)[n]) = y + Len(q) + 1  BY <1>1, <1>2, PairStands
<1>4. y \in Nat /\ Len(q) \in Nat  BY <1>3 DEF Stands
<1>5. Len(q) > 0 /\ \A j \in 1 .. Len(q) : q[j] \notin {Eq, Amp}  BY <1>1, <1>2, ReadyPart
<1>11. from = y + 1
  <2>1. Stands(t, Len(Enc(f)[n - 1]), Quote(f[n][1]), Eq)  BY <1>1, <1>2, PairStands
  <2>2. Len(Enc(f)[n - 1]) \in Nat /\ Len(Quote(f[n][1])) \in Nat  BY <2>1 DEF Stands
  <2> QED  BY <1>2, <2>2
<1> HIDE DEF t, y, q
<1>6. at \in y + 1 .. y + 1 + Len(q)  BY <1>2, <1>11
<1>7. /\ at \in 1 .. Len(t)
      /\ t[at] \in {Eq, Amp} =>
           at = y + 1 + Len(q) /\ t[at] = Amp /\ SubSeq(t, y + 1, at - 1) = q
      /\ t[at] \notin {Eq, Amp} => at + 1 \in y + 1 .. y + 1 + Len(q)
  BY <1>3, <1>5, <1>6, InPiece
<1>8. ASSUME t[at] \notin {Eq, Amp} PROVE ValueAt(f, n, from, at + 1, k, d)
  <2>1. at + 1 \in from .. from + Len(q)  BY <1>7, <1>8, <1>11
  <2> QED  BY <2>1 DEF ValueAt, q
<1>9. y + 1 + Len(q) = y + Len(q) + 1 /\ y + 1 # y + 1 + Len(q)  BY <1>4, <1>5
<1>10. at \in Nat /\ at <= Len(t)  BY <1>7
<1>12. t[at] \in {Eq, Amp} => ValueStops(f, n, from, at)
  BY <1>3, <1>7, <1>9, <1>11 DEF ValueStops, t, q
<1> QED  BY <1>8, <1>10, <1>12 DEF t

\* The end of the text is behind the last pair.
LEMMA KeyEnd ==
  ASSUME NEW f, Ready(f), NEW from, NEW at, NEW k, NEW d,
         KeyAt(f, Len(f) + 1, from, at, k, d)
  PROVE  /\ at = from /\ at = Len(Enc(f)[Len(f)]) + 1 /\ Len(Enc(f)[Len(f)]) \in Nat
         /\ Graph(Put(d, k, <<>>)) = Sent(f)
<1>1. /\ f \in Seq(Pairs) /\ Len(f) \in Nat /\ DOMAIN f = 1 .. Len(f)
      /\ Len(PairTexts(f)) = Len(f)
      /\ Grows(Enc(f), PairTexts(f), Int)
  BY EncGrows DEF Ready
<1>2. Len(f) + 1 - 1 = Len(f) /\ Len(f) + 1 > Len(f) /\ Len(f) \in 0 .. Len(f)  BY <1>1
<1>3. at = from /\ from = Len(Enc(f)[Len(f)]) + 1 /\ Graph(Put(d, k, <<>>)) = SentTo(f, Len(f))
  BY <1>2 DEF KeyAt
<1>4. Len(Enc(f)[Len(f)]) \in Nat  BY <1>1, <1>2 DEF Grows
<1>5. Sent(f) = SentTo(f, Len(f))
  <2> DEFINE valued == [n \in DOMAIN f |-> <<f[n][1], IF f[n][2] = Null THEN <<>> ELSE f[n][2]>>]
  <2>1. \A n \in DOMAIN f : valued[n] = Valued(f[n])  BY DEF Valued
  <2>2. Sent(f) = {valued[n] : n \in {m \in DOMAIN f : ~ Empty(f[m][1])}}  BY DEF Sent
  <2> HIDE DEF valued
  <2> QED  BY <1>1, <2>1, <2>2 DEF SentTo
<1> QED  BY <1>3, <1>4, <1>5

LEMMA ThreeTexts ==
  ASSUME NEW u \in Seq(Int), NEW v \in Seq(Int), NEW w \in Seq(Int)
  PROVE  (u \o v) \o w = u \o (v \o w)
BY ConcatAssociative

LEMMA TwoTexts ==
  ASSUME NEW u \in Seq(Int), NEW v \in Seq(Int)
  PROVE  u \o v \in Seq(Int) /\ Len(u \o v) = Len(u) + Len(v)
BY ConcatProperties

\* A sign behind a text behind another.
LEMMA SignBehind ==
  ASSUME NEW u \in Seq(Int), NEW v \in Seq(Int), NEW c \in {Eq, Amp}
  PROVE  /\ (u \o v) \o <<c>> \in Seq(Int) /\ (u \o v) \o <<c>> = u \o (v \o <<c>>)
         /\ v \o <<c>> \in Seq(Int) /\ Len(u) \in Nat /\ Len(v) \in Nat
         /\ Len((u \o v) \o <<c>>) = Len(u) + (Len(v) + 1)
<1>1. <<c>> \in Seq(Int) /\ Len(<<c>>) = 1  BY DEF Eq, Amp
<1> DEFINE w == <<c>>
<1> HIDE DEF w
<1>2. w \in Seq(Int) /\ Len(w) = 1  BY <1>1 DEF w
<1>3. (u \o v) \o w = u \o (v \o w)  BY <1>2, ThreeTexts
<1>4. u \o v \in Seq(Int) /\ Len(u \o v) = Len(u) + Len(v)  BY ConcatProperties
<1>9. v \o w \in Seq(Int)  BY <1>2, ConcatProperties
<1>5. (u \o v) \o w \in Seq(Int) /\ Len((u \o v) \o w) = Len(u \o v) + 1
  <2> DEFINE x == u \o v
  <2>1. x \in Seq(Int)  BY <1>4
  <2> HIDE DEF x
  <2>2. x \o w \in Seq(Int) /\ Len(x \o w) = Len(x) + Len(w)  BY <1>2, <2>1, TwoTexts
  <2> QED  BY <1>2, <2>2 DEF x
<1>6. PICK a \in Nat, b \in Nat : a = Len(u) /\ b = Len(v)  BY LenProperties
<1>7. Len((u \o v) \o w) = a + b + 1  BY <1>4, <1>5, <1>6
<1>8. a + b + 1 = a + (b + 1)  BY <1>6
<1> QED  BY <1>3, <1>5, <1>6, <1>7, <1>8, <1>9 DEF w

\* The three turns of the loop of http_urldecode over the text of a form, and
\* its end.
LEMMA ReadsByte ==
  ASSUME NEW f, Ready(f), NEW from, NEW at, NEW k, NEW d, At(f, from, at, k, d),
         at <= Len(Enc(f)[Len(f)]), Enc(f)[Len(f)][at] \notin {Eq, Amp}
  PROVE  At(f, from, at + 1, k, d)
<1>0. Len(f) \in Nat  BY EncGrows DEF Ready
<1>1. PICK n \in 1 .. Len(f) + 1 : KeyAt(f, n, from, at, k, d) \/ ValueAt(f, n, from, at, k, d)
  BY DEF At
<1>2. CASE n = Len(f) + 1 /\ KeyAt(f, n, from, at, k, d)
  <2>1. /\ at = Len(Enc(f)[Len(f)]) + 1 /\ Len(Enc(f)[Len(f)]) \in Nat
    BY <1>2, KeyEnd
  <2> QED  BY <2>1
<1>3. CASE n # Len(f) + 1 /\ KeyAt(f, n, from, at, k, d)
  <2>1. n \in 1 .. Len(f)  BY <1>0, <1>3
  <2> QED  BY <1>3, <2>1, KeyPiece DEF At
<1>4. CASE ValueAt(f, n, from, at, k, d)
  <2>1. n \in 1 .. Len(f)  BY <1>0, <1>4 DEF ValueAt
  <2> QED  BY <1>4, <2>1, ValuePiece DEF At
<1> QED  BY <1>1, <1>2, <1>3, <1>4

LEMMA ReadsKey ==
  ASSUME NEW f, Ready(f), NEW from, NEW at, NEW k, NEW d, At(f, from, at, k, d),
         at <= Len(Enc(f)[Len(f)]), Enc(f)[Len(f)][at] = Eq
  PROVE  At(f, at + 1, at + 1, Unquote(SubSeq(Enc(f)[Len(f)], from, at - 1)), Put(d, k, <<>>))
<1>0. Len(f) \in Nat /\ f \in Seq(Pairs) /\ Eq # Amp  BY EncGrows DEF Ready, Eq, Amp
<1>1. PICK n \in 1 .. Len(f) + 1 : KeyAt(f, n, from, at, k, d) \/ ValueAt(f, n, from, at, k, d)
  BY DEF At
<1>2. CASE n = Len(f) + 1 /\ KeyAt(f, n, from, at, k, d)
  <2>1. /\ at = Len(Enc(f)[Len(f)]) + 1 /\ Len(Enc(f)[Len(f)]) \in Nat
    BY <1>2, KeyEnd
  <2> QED  BY <2>1
<1>3. CASE n # Len(f) + 1 /\ KeyAt(f, n, from, at, k, d)
  <2> DEFINE name == f[n][1]
             e == Put(d, k, <<>>)
             x == Len(Enc(f)[n - 1])
             q == Quote(f[n][1])
  <2>1. n \in 1 .. Len(f) /\ n <= Len(f) /\ 1 \in 1 .. 2 /\ 2 \in 1 .. 2 /\ n \in 0 .. Len(f)
    BY <1>0, <1>3
  <2>2. SubSeq(Enc(f)[Len(f)], from, at - 1) = q /\ at = x + Len(q) + 1
    <3>1. Enc(f)[Len(f)][at] \in {Eq, Amp}  OBVIOUS
    <3>2. /\ SubSeq(Enc(f)[Len(f)], from, at - 1) = Quote(f[n][1])
          /\ at = Len(Enc(f)[n - 1]) + Len(Quote(f[n][1])) + 1
      <4> HIDE DEF name, e, x, q
      <4>1. KeyAt(f, n, from, at, k, d) /\ n \in 1 .. Len(f)  BY <1>3, <2>1
      <4> DEFINE t == Enc(f)[Len(f)]
      <4>2. t[at] \in {Eq, Amp} => KeyStops(f, n, from, at)  BY <4>1, KeyPiece
      <4> QED  BY <3>1, <4>2 DEF KeyStops
    <3> QED  BY <3>2
  <2>3. ~ Empty(name) /\ Graph(e) = SentTo(f, n - 1)  BY <1>3, <2>1 DEF KeyAt
  <2>4. Unquote(q) = name /\ CString(name) = name /\ name # Null
    BY <2>1, <2>3, ReadyPart
  <2>5. Stands(Enc(f)[Len(f)], x, q, Eq)  BY <1>0, <2>1, <2>3, PairStands
  <2>6. x \in Nat /\ Len(q) \in Nat  BY <2>5 DEF Stands
  <2>7. CASE ~ Empty(f[n][2])
    <3>1. Stands(Enc(f)[Len(f)], x + Len(q) + 1, Quote(f[n][2]), Amp)
      BY <1>0, <2>1, <2>3, <2>7, PairStands
    <3>2. Len(Quote(f[n][2])) \in Nat  BY <3>1 DEF Stands
    <3>3. at + 1 = x + Len(q) + 2 /\ at + 1 \in Int  BY <2>2, <2>6
    <3>4. \A a \in Int, b \in Nat : a \in a .. a + b  OBVIOUS
    <3>5. at + 1 \in at + 1 .. at + 1 + Len(Quote(f[n][2]))  BY <3>2, <3>3, <3>4
    <3>6. ValueAt(f, n, at + 1, at + 1, name, e)
      BY <2>1, <2>3, <2>7, <3>3, <3>5, Zenon DEF ValueAt
    <3>7. n \in 1 .. Len(f) + 1  OBVIOUS
    <3> QED  BY <2>2, <2>4, <3>6, <3>7 DEF At
  <2>8. CASE Empty(f[n][2])
    <3>1. Len(Enc(f)[n]) = x + Len(q) + 1  BY <1>0, <2>1, <2>3, <2>8, PairStands
    <3>2. at + 1 = Len(Enc(f)[n]) + 1  BY <2>2, <3>1
    <3>3. name \notin DOMAIN e  BY <1>0, <2>1, <2>3, KeyIsNew DEF Ready
    <3>4. Put(e, name, <<>>) = With(e, name, <<>>)
      <4>1. CString(<<>>) = <<>>
        <5>1. {j \in DOMAIN <<>> : <<>>[j] = 0} = {}  OBVIOUS
        <5> QED  BY <5>1 DEF CString
      <4>2. <<>> # Null
        <5>1. <<>> \in Texts  BY DEF Texts
        <5> QED  BY <5>1, FormsAssumption
      <4> QED  BY <2>4, <4>1, <4>2 DEF Put
    <3>5. Graph(Put(e, name, <<>>)) = SentTo(f, n - 1) \cup {<<name, <<>>>>}
      BY <2>3, <3>3, <3>4, GraphAdds
    <3>6. Valued(f[n]) = <<name, <<>>>>  BY <2>8 DEF Valued, Empty
    <3>7. SentTo(f, n) = SentTo(f, n - 1) \cup {<<name, <<>>>>}
      <4>1. n \in Nat \ {0}  BY <2>1
      <4> QED  BY <2>3, <3>6, <4>1, SentGrows
    <3>8. At(f, at + 1, at + 1, name, e)
      BY <2>1, <3>2, <3>5, <3>7, BehindPair
    <3> QED  BY <2>2, <2>4, <3>8
  <2> QED  BY <2>7, <2>8
<1>4. CASE ValueAt(f, n, from, at, k, d)
  <2>1. n \in 1 .. Len(f)  BY <1>0, <1>4 DEF ValueAt
  <2> QED  BY <1>0, <1>4, <2>1, ValuePiece DEF ValueStops
<1> QED  BY <1>1, <1>2, <1>3, <1>4

LEMMA ReadsValue ==
  ASSUME NEW f, Ready(f), NEW from, NEW at, NEW k, NEW d, At(f, from, at, k, d),
         at <= Len(Enc(f)[Len(f)]), Enc(f)[Len(f)][at] = Amp
  PROVE  /\ from # at /\ k # Null
         /\ At(f, at + 1, at + 1, Null, Put(d, k, Unquote(SubSeq(Enc(f)[Len(f)], from, at - 1))))
<1>0. Len(f) \in Nat /\ f \in Seq(Pairs) /\ Eq # Amp  BY EncGrows DEF Ready, Eq, Amp
<1>1. PICK n \in 1 .. Len(f) + 1 : KeyAt(f, n, from, at, k, d) \/ ValueAt(f, n, from, at, k, d)
  BY DEF At
<1>2. CASE n = Len(f) + 1 /\ KeyAt(f, n, from, at, k, d)
  <2>1. /\ at = Len(Enc(f)[Len(f)]) + 1 /\ Len(Enc(f)[Len(f)]) \in Nat
    BY <1>2, KeyEnd
  <2> QED  BY <2>1
<1>3. CASE n # Len(f) + 1 /\ KeyAt(f, n, from, at, k, d)
  <2>1. n \in 1 .. Len(f)  BY <1>0, <1>3
  <2> QED  BY <1>0, <1>3, <2>1, KeyPiece DEF KeyStops
<1>4. CASE ValueAt(f, n, from, at, k, d)
  <2> DEFINE name == f[n][1]
             v == f[n][2]
             e == Put(d, k, v)
  <2>1. n \in 1 .. Len(f) /\ 1 \in 1 .. 2 /\ 2 \in 1 .. 2 /\ n \in 0 .. Len(f) /\ n \in Nat \ {0}
    BY <1>0, <1>4 DEF ValueAt
  <2>2. /\ SubSeq(Enc(f)[Len(f)], from, at - 1) = Quote(v)
        /\ from # at /\ at = Len(Enc(f)[n])
    <3>1. Enc(f)[Len(f)][at] \in {Eq, Amp}  OBVIOUS
    <3>2. /\ SubSeq(Enc(f)[Len(f)], from, at - 1) = Quote(f[n][2])
          /\ from # at /\ at = Len(Enc(f)[n])
      <4> HIDE DEF name, v, e
      <4> DEFINE t == Enc(f)[Len(f)]
      <4>2. t[at] \in {Eq, Amp} => ValueStops(f, n, from, at)  BY <1>4, <2>1, ValuePiece
      <4> QED  BY <3>1, <4>2 DEF ValueStops
    <3> QED  BY <3>2
  <2>3. ~ Empty(name) /\ ~ Empty(v) /\ k = name /\ Graph(d) = SentTo(f, n - 1)
    BY <1>4 DEF ValueAt
  <2>4. CString(name) = name /\ name # Null  BY <2>1, <2>3, ReadyPart
  <2>5. Unquote(Quote(v)) = v /\ CString(v) = v /\ v # Null  BY <2>1, <2>3, ReadyPart
  <2>6. name \notin DOMAIN d  BY <1>0, <2>1, <2>3, KeyIsNew DEF Ready
  <2>7. e = With(d, name, v)  BY <2>3, <2>4, <2>5 DEF Put
  <2>8. Graph(e) = SentTo(f, n - 1) \cup {<<name, v>>}  BY <2>3, <2>6, <2>7, GraphAdds
  <2>9. SentTo(f, n) = SentTo(f, n - 1) \cup {<<name, v>>}
    <3>1. Valued(f[n]) = <<name, v>>  BY <2>5 DEF Valued
    <3> QED  BY <2>1, <2>3, <3>1, SentGrows
  <2>10. Put(e, Null, <<>>) = e  BY DEF Put
  <2>11. At(f, at + 1, at + 1, Null, e)
    <3>1. at + 1 = Len(Enc(f)[n]) + 1  BY <2>2
    <3> HIDE DEF e
    <3> QED  BY <2>1, <2>8, <2>9, <2>10, <3>1, BehindPair
  <2> QED  BY <2>2, <2>3, <2>4, <2>5, <2>11
<1> QED  BY <1>1, <1>2, <1>3, <1>4

LEMMA ReadsEnd ==
  ASSUME NEW f, Ready(f), NEW from, NEW at, NEW k, NEW d, At(f, from, at, k, d),
         at > Len(Enc(f)[Len(f)])
  PROVE  from = at /\ Graph(Put(d, k, <<>>)) = Sent(f)
<1>0. Len(f) \in Nat /\ f \in Seq(Pairs) /\ Len(Enc(f)[Len(f)]) \in Nat
  <2>1. /\ Len(f) \in Nat /\ f \in Seq(Pairs) /\ Len(PairTexts(f)) = Len(f)
        /\ Grows(Enc(f), PairTexts(f), Int)
    BY EncGrows DEF Ready
  <2> QED  BY <2>1 DEF Grows
<1>1. PICK n \in 1 .. Len(f) + 1 : KeyAt(f, n, from, at, k, d) \/ ValueAt(f, n, from, at, k, d)
  BY DEF At
<1>2. CASE n = Len(f) + 1 /\ KeyAt(f, n, from, at, k, d)  BY <1>2, KeyEnd
<1>3. CASE n # Len(f) + 1 /\ KeyAt(f, n, from, at, k, d)
  <2>1. n \in 1 .. Len(f)  BY <1>0, <1>3
  <2>2. at \in Nat /\ at <= Len(Enc(f)[Len(f)])  BY <1>3, <2>1, KeyPiece
  <2> QED  BY <1>0, <2>2
<1>4. CASE ValueAt(f, n, from, at, k, d)
  <2>1. n \in 1 .. Len(f)  BY <1>0, <1>4 DEF ValueAt
  <2>2. at \in Nat /\ at <= Len(Enc(f)[Len(f)])  BY <1>4, <2>1, ValuePiece
  <2> QED  BY <1>0, <2>2
<1> QED  BY <1>1, <1>2, <1>3, <1>4

-----------------------------------------------------------------------------
\* What http_urlencode has written of the form.
Written ==
  /\ form \in Forms /\ i \in 1 .. Len(form) + 1
  /\ text \in Seq(Int) /\ size = Len(text)
  /\ pc \in {"key", "value", "decode", "done"}
  /\ pc = "key" => text = Enc(form)[i - 1]
  /\ pc = "value" => /\ i <= Len(form) /\ ~ Empty(form[i][1])
                     /\ text = (Enc(form)[i - 1] \o Quote(form[i][1])) \o <<Eq>>
  /\ pc \in {"key", "value"} => s = 1 /\ p = 1 /\ key = Null /\ dict = <<>>
  /\ pc \in {"decode", "done"} => text = Enc(form)[Len(form)]

\* What http_urldecode has read of it.
Read ==
  Readable(form) =>
    /\ pc = "decode" => At(form, s, p, key, dict)
    /\ pc = "done" => Graph(dict) = Sent(form)

TripInv == form # <<>> => Written /\ Read

LEMMA FormReady ==
  ASSUME NEW f \in Forms
  PROVE  /\ f \in Seq(Pairs) /\ Distinct(f) /\ (Readable(f) => Ready(f))
         /\ Len(f) \in Nat /\ Len(PairTexts(f)) = Len(f)
         /\ \A n \in 1 .. Len(f) : PairTexts(f)[n] = PairText(f[n])
         /\ Grows(Enc(f), PairTexts(f), Int)
<1>1. f \in Seq(Pairs) /\ Distinct(f)  BY FormsAssumption DEF Pairs, Distinct
<1> QED  BY <1>1, EncGrows DEF Ready

LEMMA TripInit == Init => TripInv
<1> SUFFICES ASSUME Init, form # <<>> PROVE Written /\ Read  BY DEF TripInv
<1>1. /\ form \in Forms /\ text = <<>> /\ pc = "key"
      /\ i = 1 /\ size = 0 /\ s = 1 /\ p = 1 /\ key = Null /\ dict = <<>>
  BY DEF Init
<1>2. Enc(form)[0] = <<>> /\ Len(form) \in Nat  BY <1>1, FormReady DEF Grows
<1>3. text \in Seq(Int) /\ size = Len(text) /\ i \in 1 .. Len(form) + 1 /\ i - 1 = 0
  BY <1>1, <1>2
<1>4. Written  BY <1>1, <1>2, <1>3 DEF Written
<1>5. Read  BY <1>1 DEF Read
<1> QED  BY <1>4, <1>5

LEMMA TripKeySkipped == ASSUME TripInv, SkipPair PROVE TripInv'
<1> SUFFICES ASSUME form' # <<>> PROVE Written' /\ Read'  BY DEF TripInv
<1>1. /\ pc = "key" /\ pc' = "key" /\ i' = i + 1 /\ i <= Len(form) /\ Empty(form[i][1])
      /\ UNCHANGED <<form, text, size, decoder>>
  BY DEF SkipPair
<1>2. Written  BY <1>1 DEF TripInv
<1>3. /\ Len(form) \in Nat /\ i \in 1 .. Len(form) /\ i + 1 \in 1 .. Len(form) + 1 /\ i + 1 - 1 = i
      /\ i - 1 \in 0 .. Len(form)
  BY <1>1, <1>2, FormReady DEF Written
<1>4. Enc(form)[i] = Enc(form)[i - 1]
  <2>1. /\ Len(PairTexts(form)) = Len(form) /\ Grows(Enc(form), PairTexts(form), Int)
        /\ PairTexts(form)[i] = PairText(form[i])
    BY <1>2, <1>3, FormReady DEF Written
  <2>2. PairText(form[i]) = <<>>  BY <1>1 DEF PairText
  <2>3. Enc(form)[i] = Enc(form)[i - 1] \o <<>> /\ Enc(form)[i - 1] \in Seq(Int)
    BY <1>3, <2>1, <2>2 DEF Grows
  <2> QED  BY <2>3, ConcatEmptySeq
<1>5. Written'  BY <1>1, <1>2, <1>3, <1>4 DEF Written, decoder
<1>6. Read'  BY <1>1 DEF Read
<1> QED  BY <1>5, <1>6

LEMMA WrittenKey == ASSUME TripInv, WriteKey PROVE TripInv'
<1> SUFFICES ASSUME form' # <<>> PROVE Written' /\ Read'  BY DEF TripInv
<1> DEFINE q == Quote(form[i][1])
<1>1. /\ pc = "key" /\ pc' = "value" /\ i <= Len(form) /\ ~ Empty(form[i][1])
      /\ Write(form[i][1], Eq) /\ UNCHANGED <<form, i, decoder>>
  BY DEF WriteKey
<1>2. Written  BY <1>1 DEF TripInv
<1>3. Len(form) \in Nat /\ i \in 1 .. Len(form) /\ form \in Seq(Pairs)
  BY <1>1, <1>2, FormReady DEF Written
<1>4. form[i][1] \in Texts  BY <1>1, <1>3, FormParts
<1>5. q \in Seq(Int) /\ Len(q) + 1 = QuotedSize(form[i][1])  BY <1>4, QuoteWrites
<1>6. text' = (text \o q) \o <<Eq>> /\ size' = size + QuotedSize(form[i][1])
  BY <1>1 DEF Write
<1>7. text \in Seq(Int) /\ size = Len(text) /\ text = Enc(form)[i - 1]
  BY <1>1, <1>2 DEF Written
<1>8. text' \in Seq(Int) /\ size' = Len(text')
  <2> HIDE DEF q
  <2>1. text' \in Seq(Int) /\ Len(text') = Len(text) + (Len(q) + 1)
    BY <1>5, <1>6, <1>7, SignBehind
  <2> QED  BY <1>5, <1>6, <1>7, <2>1, Zenon
<1>9. Written'
  BY <1>1, <1>2, <1>6, <1>7, <1>8 DEF Written, decoder
<1>10. Read'  BY <1>1 DEF Read
<1> QED  BY <1>9, <1>10

LEMMA TripValueSkipped == ASSUME TripInv, SkipValue PROVE TripInv'
<1> SUFFICES ASSUME form' # <<>> PROVE Written' /\ Read'  BY DEF TripInv
<1> DEFINE q == Quote(form[i][1])
<1>1. /\ pc = "value" /\ pc' = "key" /\ i' = i + 1 /\ Empty(form[i][2])
      /\ UNCHANGED <<form, text, size, decoder>>
  BY DEF SkipValue
<1>2. Written  BY <1>1 DEF TripInv
<1>3. /\ Len(form) \in Nat /\ i \in 1 .. Len(form) /\ i + 1 \in 1 .. Len(form) + 1 /\ i + 1 - 1 = i
      /\ i - 1 \in 0 .. Len(form) /\ form \in Seq(Pairs)
      /\ ~ Empty(form[i][1]) /\ text = (Enc(form)[i - 1] \o q) \o <<Eq>>
  <2>1. form \in Forms /\ i \in 1 .. Len(form) + 1 /\ i <= Len(form)  BY <1>1, <1>2 DEF Written
  <2>2. Len(form) \in Nat /\ form \in Seq(Pairs)  BY <2>1, FormReady
  <2>3. ~ Empty(form[i][1]) /\ text = (Enc(form)[i - 1] \o q) \o <<Eq>>  BY <1>1, <1>2 DEF Written
  <2> QED  BY <2>1, <2>2, <2>3
<1>4. Enc(form)[i] = text
  <2>1. /\ Len(PairTexts(form)) = Len(form) /\ Grows(Enc(form), PairTexts(form), Int)
        /\ PairTexts(form)[i] = PairText(form[i])
    BY <1>2, <1>3, FormReady DEF Written
  <2>2. PairText(form[i]) = (q \o <<Eq>>) \o <<>>  BY <1>1, <1>3 DEF PairText
  <2>3. q \in Seq(Int)  BY <1>3, FormParts, QuoteWrites
  <2>4. Enc(form)[i] = Enc(form)[i - 1] \o PairText(form[i]) /\ Enc(form)[i - 1] \in Seq(Int)
    BY <1>3, <2>1 DEF Grows
  <2> HIDE DEF q
  <2>5. PairText(form[i]) = q \o <<Eq>>
    <3>1. q \o <<Eq>> \in Seq(Int)  BY <2>3, SignSeq, ConcatProperties
    <3> QED  BY <2>2, <3>1, ConcatEmptySeq
  <2>6. (Enc(form)[i - 1] \o q) \o <<Eq>> = Enc(form)[i - 1] \o (q \o <<Eq>>)
    BY <2>3, <2>4, SignBehind
  <2> QED  BY <1>3, <2>4, <2>5, <2>6
<1>5. Written'
  <2> HIDE DEF q
  <2>1. i' \in 1 .. Len(form) + 1 /\ i' - 1 = i  BY <1>1, <1>3
  <2> QED  BY <1>1, <1>2, <1>4, <2>1 DEF Written, decoder
<1>6. Read'  BY <1>1 DEF Read
<1> QED  BY <1>5, <1>6

LEMMA WrittenValue == ASSUME TripInv, WriteValue PROVE TripInv'
<1> SUFFICES ASSUME form' # <<>> PROVE Written' /\ Read'  BY DEF TripInv
<1> DEFINE q == Quote(form[i][1])
           r == Quote(form[i][2])
           e == Enc(form)[i - 1]
<1>1. /\ pc = "value" /\ pc' = "key" /\ i' = i + 1 /\ ~ Empty(form[i][2])
      /\ Write(form[i][2], Amp) /\ UNCHANGED <<form, decoder>>
  BY DEF WriteValue
<1>2. Written  BY <1>1 DEF TripInv
<1>3. /\ Len(form) \in Nat /\ i \in 1 .. Len(form) /\ i + 1 \in 1 .. Len(form) + 1 /\ i + 1 - 1 = i
      /\ i - 1 \in 0 .. Len(form) /\ form \in Seq(Pairs)
      /\ ~ Empty(form[i][1]) /\ text = (e \o q) \o <<Eq>>
  <2>1. form \in Forms /\ i \in 1 .. Len(form) + 1 /\ i <= Len(form)  BY <1>1, <1>2 DEF Written
  <2>2. Len(form) \in Nat /\ form \in Seq(Pairs)  BY <2>1, FormReady
  <2>3. ~ Empty(form[i][1]) /\ text = (e \o q) \o <<Eq>>  BY <1>1, <1>2 DEF Written
  <2> QED  BY <2>1, <2>2, <2>3
<1>4. q \in Seq(Int) /\ r \in Seq(Int) /\ Len(r) + 1 = QuotedSize(form[i][2])
  BY <1>1, <1>3, FormParts, QuoteWrites
<1>6. text' = (text \o r) \o <<Amp>> /\ size' = size + QuotedSize(form[i][2])
  BY <1>1 DEF Write
<1>7. text \in Seq(Int) /\ size = Len(text)  BY <1>2 DEF Written
<1>8. text' \in Seq(Int) /\ size' = Len(text')
  <2> HIDE DEF q, r
  <2>1. text' \in Seq(Int) /\ Len(text') = Len(text) + (Len(r) + 1)
    BY <1>4, <1>6, <1>7, SignBehind
  <2> QED  BY <1>4, <1>6, <1>7, <2>1, Zenon
<1>9. Enc(form)[i] = text'
  <2>1. /\ Len(PairTexts(form)) = Len(form) /\ Grows(Enc(form), PairTexts(form), Int)
        /\ PairTexts(form)[i] = PairText(form[i])
    BY <1>2, <1>3, FormReady DEF Written
  <2>2. PairText(form[i]) = (q \o <<Eq>>) \o (r \o <<Amp>>)  BY <1>1, <1>3 DEF PairText
  <2>4. Enc(form)[i] = e \o PairText(form[i]) /\ e \in Seq(Int)
    BY <1>3, <2>1 DEF Grows
  <2> HIDE DEF q, r, e
  <2> DEFINE k == q \o <<Eq>>
             v == r \o <<Amp>>
  <2>6. k \in Seq(Int) /\ (e \o q) \o <<Eq>> = e \o k  BY <1>4, <2>4, SignBehind
  <2>7. v \in Seq(Int) /\ (text \o r) \o <<Amp>> = text \o v  BY <1>4, <1>7, SignBehind
  <2> HIDE DEF k, v
  <2>8. (e \o k) \o v = e \o (k \o v)  BY <2>4, <2>6, <2>7, ThreeTexts
  <2>9. text = e \o k  BY <1>3, <2>6
  <2>10. PairText(form[i]) = k \o v  BY <2>2 DEF k, v
  <2> QED  BY <1>6, <2>4, <2>7, <2>8, <2>9, <2>10
<1>10. Written'  BY <1>1, <1>2, <1>3, <1>8, <1>9 DEF Written, decoder
<1>11. Read'  BY <1>1 DEF Read
<1> QED  BY <1>10, <1>11

LEMMA TripSent == ASSUME TripInv, Transmit PROVE TripInv'
<1> SUFFICES ASSUME form' # <<>> PROVE Written' /\ Read'  BY DEF TripInv
<1>1. /\ pc = "key" /\ pc' = "decode" /\ i > Len(form)
      /\ UNCHANGED <<form, text, encoder, decoder>>
  BY DEF Transmit
<1>2. Written  BY <1>1 DEF TripInv
<1>3. Len(form) \in Nat /\ i = Len(form) + 1 /\ i - 1 = Len(form)
  BY <1>1, <1>2, FormReady DEF Written
<1>4. /\ i' = i /\ size' = size /\ s' = s /\ p' = p /\ key' = key /\ dict' = dict
      /\ s = 1 /\ p = 1 /\ key = Null /\ dict = <<>> /\ text = Enc(form)[Len(form)]
  BY <1>1, <1>2, <1>3 DEF encoder, decoder, Written
<1>5. Written'  BY <1>1, <1>2, <1>4 DEF Written
<1>6. ASSUME Readable(form) PROVE At(form, 1, 1, Null, <<>>)
  BY <1>2, <1>6, FormReady, AtBegins DEF Written
<1>7. Read'  BY <1>1, <1>4, <1>6 DEF Read
<1> QED  BY <1>5, <1>7

\* The decoder leaves the form and its text alone.
LEMMA TripDecodes ==
  ASSUME TripInv, pc = "decode", pc' \in {"decode", "done"}, form # <<>>,
         UNCHANGED <<form, text, encoder>>
  PROVE  /\ Written' /\ text = Enc(form)[Len(form)]
         /\ Readable(form) => Ready(form) /\ At(form, s, p, key, dict)
<1>1. Written /\ Read  BY DEF TripInv
<1>2. i' = i /\ size' = size  BY DEF encoder
<1>3. Written'  BY <1>1, <1>2 DEF Written
<1>4. text = Enc(form)[Len(form)] /\ form \in Forms  BY <1>1 DEF Written
<1> QED  BY <1>1, <1>3, <1>4, FormReady DEF Read

LEMMA TripAtOther == ASSUME TripInv, AtOther PROVE TripInv'
<1> SUFFICES ASSUME form' # <<>> PROVE Written' /\ Read'  BY DEF TripInv
<1>1. /\ pc = "decode" /\ pc' = "decode" /\ p <= Len(text) /\ text[p] \notin {Eq, Amp}
      /\ p' = p + 1 /\ UNCHANGED <<form, text, encoder, s, key, dict>>
  BY DEF AtOther
<1>2. /\ Written' /\ text = Enc(form)[Len(form)]
      /\ Readable(form) => Ready(form) /\ At(form, s, p, key, dict)
  BY <1>1, TripDecodes
<1>3. ASSUME Readable(form) PROVE At(form, s, p + 1, key, dict)
  BY <1>1, <1>2, <1>3, ReadsByte
<1>4. Read'  BY <1>1, <1>3 DEF Read
<1> QED  BY <1>2, <1>4

LEMMA TripAtEquals == ASSUME TripInv, AtEquals PROVE TripInv'
<1> SUFFICES ASSUME form' # <<>> PROVE Written' /\ Read'  BY DEF TripInv
<1>1. /\ pc = "decode" /\ pc' = "decode" /\ p <= Len(text) /\ text[p] = Eq
      /\ p' = p + 1 /\ s' = p + 1 /\ dict' = Put(dict, key, <<>>)
      /\ key' = Unquote(SubSeq(text, s, p - 1)) /\ UNCHANGED <<form, text, encoder>>
  BY DEF AtEquals, Piece
<1>2. /\ Written' /\ text = Enc(form)[Len(form)]
      /\ Readable(form) => Ready(form) /\ At(form, s, p, key, dict)
  BY <1>1, TripDecodes
<1>3. ASSUME Readable(form)
      PROVE  At(form, p + 1, p + 1, Unquote(SubSeq(text, s, p - 1)), Put(dict, key, <<>>))
  BY <1>1, <1>2, <1>3, ReadsKey
<1>4. Read'  BY <1>1, <1>3 DEF Read
<1> QED  BY <1>2, <1>4

LEMMA TripAtAmp == ASSUME TripInv, AtAmp PROVE TripInv'
<1> SUFFICES ASSUME form' # <<>> PROVE Written' /\ Read'  BY DEF TripInv
<1>1. /\ pc = "decode" /\ pc' = "decode" /\ p <= Len(text) /\ text[p] = Amp
      /\ p' = p + 1 /\ s' = p + 1 /\ EndPair /\ UNCHANGED <<form, text, encoder>>
  BY DEF AtAmp
<1>2. /\ Written' /\ text = Enc(form)[Len(form)]
      /\ Readable(form) => Ready(form) /\ At(form, s, p, key, dict)
  BY <1>1, TripDecodes
<1>3. ASSUME Readable(form)
      PROVE  At(form, p + 1, p + 1, Null, dict') /\ key' = Null
  <2> DEFINE last == Unquote(SubSeq(text, s, p - 1))
  <2>1. s # p /\ key # Null /\ At(form, p + 1, p + 1, Null, Put(dict, key, last))
    BY <1>1, <1>2, <1>3, ReadsValue
  <2>3. dict' = Put(dict, key, last) /\ key' = Null
    BY <1>1, <2>1 DEF EndPair, Piece
  <2> QED  BY <2>1, <2>3
<1>4. Read'  BY <1>1, <1>3 DEF Read
<1> QED  BY <1>2, <1>4

LEMMA TripAtEnd == ASSUME TripInv, AtEnd PROVE TripInv'
<1> SUFFICES ASSUME form' # <<>> PROVE Written' /\ Read'  BY DEF TripInv
<1>1. /\ pc = "decode" /\ pc' = "done" /\ p > Len(text)
      /\ EndPair /\ UNCHANGED <<form, text, encoder>>
  BY DEF AtEnd
<1>2. /\ Written' /\ text = Enc(form)[Len(form)]
      /\ Readable(form) => Ready(form) /\ At(form, s, p, key, dict)
  BY <1>1, TripDecodes
<1>3. ASSUME Readable(form) PROVE Graph(dict') = Sent(form)
  <2>1. s = p /\ Graph(Put(dict, key, <<>>)) = Sent(form)
    BY <1>1, <1>2, <1>3, ReadsEnd
  <2>2. dict' = Put(dict, key, <<>>)  BY <1>1, <2>1 DEF EndPair
  <2> QED  BY <2>1, <2>2
<1>4. Read'  BY <1>1, <1>3 DEF Read
<1> QED  BY <1>2, <1>4

LEMMA TripStep == TripInv /\ [Next]_vars => TripInv'
<1>1. ASSUME TripInv, UNCHANGED vars PROVE TripInv'
  <2>1. /\ form' = form /\ text' = text /\ pc' = pc /\ i' = i /\ size' = size
        /\ s' = s /\ p' = p /\ key' = key /\ dict' = dict
    BY <1>1 DEF vars, encoder, decoder
  <2> QED  BY <1>1, <2>1 DEF TripInv, Written, Read
<1> QED  BY <1>1, TripKeySkipped, WrittenKey, TripValueSkipped, WrittenValue, TripSent,
            TripAtOther, TripAtEquals, TripAtAmp, TripAtEnd DEF Next

\* For every form of ASCII text, whatever its keys and values hold and however
\* long they are, http_urldecode reads from what http_urlencode writes the pairs
\* of the form, each key with its value; the count of http_urlencode is the
\* length of the text.
THEOREM RoundTripHolds == Spec => []RoundTrip
<1>1. TripInv => RoundTrip
  <2> SUFFICES ASSUME TripInv, pc = "done", form # <<>>, Readable(form)
               PROVE  Graph(dict) = Sent(form) /\ size = Len(text)
    BY DEF RoundTrip, Readable, Graph
  <2> QED  BY DEF TripInv, Written, Read
<1> QED  BY <1>1, TripInit, TripStep, PTL DEF Spec

-----------------------------------------------------------------------------
(* What is read of any text *)

\* e is the first end of a part behind z, which is one or the beginning.
NextEnd(b, z, e) ==
  /\ z \in {0} \cup PartEnds(b) /\ e \in PartEnds(b) /\ z < e
  /\ \A n \in z + 1 .. e - 1 : n \notin PartEnds(b)

\* The keys whose values are known when the part behind z is read: one before
\* an equals sign at z is not.
Settled(b, z, k) == {x \in KeyEnds(b) : x < z \/ (x = z /\ k = Null)}

Paired(b, z, k, d) ==
  /\ k # Null <=> SignAt(b, z, Eq)
  /\ k # Null => k = Unquote(SubSeq(b, PartStart(b, z), z - 1))
  /\ d = Pairing(b, Settled(b, z, k))

LEMMA PartEndsNat ==
  ASSUME NEW b, Len(b) \in Nat
  PROVE  PartEnds(b) \subseteq Nat \ {0} /\ \A n \in PartEnds(b) : n <= Len(b) + 1
BY DEF PartEnds

LEMMA NextEndIs ==
  ASSUME NEW b, Len(b) \in Nat, NEW z, NEW e, NextEnd(b, z, e)
  PROVE  /\ z \in Nat /\ e \in Nat \ {0} /\ z < e
         /\ PartStart(b, e) = z + 1
         /\ Min({n \in PartEnds(b) : n > z}) = e
         /\ \A x \in PartEnds(b) : x < e => x <= z
<1>1. /\ PartEnds(b) \subseteq Nat \ {0} /\ z \in {0} \cup PartEnds(b) /\ e \in PartEnds(b) /\ z < e
      /\ \A n \in z + 1 .. e - 1 : n \notin PartEnds(b)
  BY PartEndsNat DEF NextEnd
<1>2. z \in Nat /\ e \in Nat \ {0}  BY <1>1
<1>3. \A x \in PartEnds(b) : x < e => x <= z
  <2> SUFFICES ASSUME NEW x \in PartEnds(b), x < e, ~ (x <= z) PROVE FALSE  OBVIOUS
  <2>1. x \in z + 1 .. e - 1  BY <1>1, <1>2
  <2> QED  BY <1>1, <2>1
<1>4. PartStart(b, e) = z + 1
  <2> DEFINE T == {0} \cup {n \in PartEnds(b) : n < e}
  <2>1. T \subseteq Nat /\ z \in T /\ \A y \in T : y <= z  BY <1>1, <1>2, <1>3
  <2> HIDE DEF T
  <2>2. Max(T) = z  BY <2>1, GreatestIs
  <2>3. PartStart(b, e) = 1 + Max(T)  BY DEF PartStart, T
  <2> QED  BY <1>2, <2>2, <2>3
<1>5. Min({n \in PartEnds(b) : n > z}) = e
  <2> DEFINE T == {n \in PartEnds(b) : n > z}
  <2>1. T \subseteq Nat /\ e \in T  BY <1>1, <1>2
  <2>2. \A y \in T : e <= y  BY <1>1, <1>2, <1>3
  <2> HIDE DEF T
  <2>3. Min(T) = e  BY <2>1, <2>2, LeastIs
  <2> QED  BY <2>3 DEF T
<1> QED  BY <1>1, <1>2, <1>3, <1>4, <1>5

\* The pairs grow by the one of a key behind those that are in it.
LEMMA PairingGrows ==
  ASSUME NEW b, NEW es, es \subseteq Nat, NEW e \in Nat, \A x \in es : x < e
  PROVE  Pairing(b, es \cup {e}) = With(Pairing(b, es), WordAt(b, e), ValueBehind(b, e))
<1> DEFINE fs == es \cup {e}
           q == WordAt(b, e)
           Of(T, w) == {x \in T : WordAt(b, x) = w}
           g == [w \in {WordAt(b, x) : x \in fs} |-> ValueBehind(b, Max(Of(fs, w)))]
           d == [w \in {WordAt(b, x) : x \in es} |-> ValueBehind(b, Max(Of(es, w)))]
<1>1. Pairing(b, fs) = g /\ Pairing(b, es) = d  BY DEF Pairing
<1>2. Max(Of(fs, q)) = e
  <2> DEFINE T == Of(fs, q)
  <2>1. T \subseteq Nat /\ e \in T  OBVIOUS
  <2>3. \A y \in T : y <= e
    <3>1. \A y \in T : y \in Nat /\ (y < e \/ y = e)  OBVIOUS
    <3> HIDE DEF T
    <3> QED  BY <3>1
  <2> HIDE DEF T
  <2>2. Max(T) = e  BY <2>1, <2>3, GreatestIs
  <2> QED  BY <2>2 DEF T
<1>3. \A w : w # q => Of(fs, w) = Of(es, w)  OBVIOUS
<1>4. DOMAIN g = DOMAIN d \cup {q}  OBVIOUS
<1>5. \A w \in DOMAIN g : g[w] = IF w = q THEN ValueBehind(b, e) ELSE d[w]
  <2> SUFFICES ASSUME NEW w \in DOMAIN g PROVE g[w] = IF w = q THEN ValueBehind(b, e) ELSE d[w]
    OBVIOUS
  <2>1. g[w] = ValueBehind(b, Max(Of(fs, w)))  OBVIOUS
  <2>2. CASE w = q  BY <1>2, <2>1, <2>2
  <2>3. CASE w # q
    <3>1. w \in DOMAIN d  BY <1>4, <2>3
    <3>2. d[w] = ValueBehind(b, Max(Of(es, w)))  BY <3>1
    <3> QED  BY <1>3, <2>1, <2>3, <3>2
  <2> QED  BY <2>2, <2>3
<1>6. g = [w \in DOMAIN g |-> g[w]]  OBVIOUS
<1> HIDE DEF g, d
<1>7. g = [w \in DOMAIN d \cup {q} |-> IF w = q THEN ValueBehind(b, e) ELSE d[w]]
  BY <1>4, <1>5, <1>6
<1> QED  BY <1>1, <1>7 DEF With

LEMMA EmptyWord ==
  ASSUME NEW b \in Seq(Int), NEW e \in Nat \ {0}
  PROVE  CString(<<>>) = <<>> /\ <<>> # Null /\ CString(Unquote(SubSeq(b, e, e - 1))) = <<>>
<1> DEFINE none == << >>
<1>1. SubSeq(b, e, e - 1) = none
  <2> DEFINE u == SubSeq(b, e, e - 1)
  <2>1. e \in Int /\ e - 1 \in Int /\ ~ (e <= e - 1) /\ e .. e - 1 = {}  OBVIOUS
  <2>2. u \in Seq(Int) /\ Len(u) = 0
    <3> HIDE DEF u
    <3>1. \A j \in e .. e - 1 : b[j] \in Int  BY <2>1
    <3>2. u \in Seq(Int) /\ Len(u) = IF e <= e - 1 THEN e - 1 - e + 1 ELSE 0
      BY <2>1, <3>1, SubSeqProperties DEF u
    <3> QED  BY <2>1, <3>2
  <2> HIDE DEF u
  <2>3. u = none  BY <2>2, EmptySeq
  <2> QED  BY <2>3 DEF u
<1>2. Unquote(none) = none
  <2>1. Len(none) = 0  OBVIOUS
  <2>2. PICK rest : Unquotes(rest, none, 1) /\ Unquote(none) = rest[1]  BY <2>1, UnquoteIs
  <2>3. 1 \in 1 .. Len(none) + 1 /\ 1 > Len(none)  BY <2>1
  <2>4. rest[1] = none  BY <2>2, <2>3 DEF Unquotes
  <2> QED  BY <2>2, <2>4
<1>3. CString(none) = none
  <2>1. {n \in DOMAIN none : none[n] = 0} = {}  OBVIOUS
  <2> QED  BY <2>1 DEF CString
<1>4. none # Null
  <2>1. none \in Texts  BY DEF Texts
  <2> QED  BY <2>1, FormsAssumption
<1> QED  BY <1>1, <1>2, <1>3, <1>4

LEMMA PutPairs ==
  ASSUME NEW d, NEW k, k # Null, NEW v, v # Null
  PROVE  Put(d, k, v) = With(d, CString(k), CString(v))
BY DEF Put

\* A key whose value is still to come gets it.
LEMMA SettlesKey ==
  ASSUME NEW b, Len(b) \in Nat, NEW z, NEW e, NextEnd(b, z, e), NEW k, NEW d,
         Paired(b, z, k, d), k # Null, NEW v, v # Null, CString(v) = ValueBehind(b, z),
         NEW es, es = {x \in KeyEnds(b) : x < e}
  PROVE  Put(d, k, v) = Pairing(b, es)
<1> DEFINE old == Settled(b, z, k)
<1>1. /\ z \in Nat /\ e \in Nat \ {0} /\ z < e /\ \A x \in PartEnds(b) : x < e => x <= z
      /\ PartEnds(b) \subseteq Nat
  BY NextEndIs, PartEndsNat
<1>2. SignAt(b, z, Eq) /\ k = Unquote(SubSeq(b, PartStart(b, z), z - 1)) /\ d = Pairing(b, old)
  BY DEF Paired
<1>3. z \in PartEnds(b) /\ z \in KeyEnds(b)  BY <1>2 DEF SignAt, KeyEnds, PartEnds
<1>4. CString(k) = WordAt(b, z)  BY <1>2 DEF WordAt
<1>5. old = {x \in KeyEnds(b) : x < z}  BY DEF Settled
<1>6. KeyEnds(b) \subseteq PartEnds(b)  BY DEF KeyEnds
<1>7. es = old \cup {z}
  <2>1. \A x \in KeyEnds(b) : x \in Nat /\ (x < e => x <= z)  BY <1>1, <1>6
  <2>2. \A x \in KeyEnds(b) : x < e <=> (x < z \/ x = z)  BY <1>1, <2>1
  <2> QED  BY <1>3, <1>5, <2>2
<1>8. old \subseteq Nat /\ \A x \in old : x < z  BY <1>1, <1>5, <1>6
<1> HIDE DEF old
<1>9. Pairing(b, old \cup {z}) = With(Pairing(b, old), WordAt(b, z), ValueBehind(b, z))
  BY <1>1, <1>8, PairingGrows
<1>10. Put(d, k, v) = With(d, CString(k), CString(v))  BY PutPairs
<1> QED  BY <1>2, <1>4, <1>7, <1>9, <1>10

\* At an equals sign.
LEMMA PairsEqual ==
  ASSUME NEW b \in Seq(Int), NEW z, NEW e, NextEnd(b, z, e), NEW k, NEW d, Paired(b, z, k, d),
         SignAt(b, e, Eq), NEW q, q = Unquote(SubSeq(b, z + 1, e - 1)), q # Null
  PROVE  Paired(b, e, q, Put(d, k, <<>>))
<1>0. Len(b) \in Nat  BY LenProperties
<1>1. /\ z \in Nat /\ e \in Nat \ {0} /\ z < e /\ PartStart(b, e) = z + 1
      /\ Min({n \in PartEnds(b) : n > z}) = e
      /\ \A x \in PartEnds(b) : x < e => x <= z
      /\ PartEnds(b) \subseteq Nat
  BY <1>0, NextEndIs, PartEndsNat
<1>2. Settled(b, e, q) = {x \in KeyEnds(b) : x < e}  BY DEF Settled
<1>3. CString(<<>>) = <<>> /\ <<>> # Null  BY <1>1, EmptyWord
<1>4. Put(d, k, <<>>) = Pairing(b, Settled(b, e, q))
  <2>1. CASE k # Null
    <3>1. ValueBehind(b, z) = <<>>  BY <1>1 DEF ValueBehind
    <3> QED  BY <1>0, <1>2, <1>3, <2>1, <3>1, SettlesKey
  <2>2. CASE k = Null
    <3>1. Put(d, k, <<>>) = d /\ d = Pairing(b, Settled(b, z, k))  BY <2>2 DEF Put, Paired
    <3>2. \A x \in KeyEnds(b) : x < e <=> (x < z \/ x = z)
      <4>1. KeyEnds(b) \subseteq PartEnds(b)  BY DEF KeyEnds
      <4>2. \A x \in KeyEnds(b) : x \in Nat /\ (x < e => x <= z)  BY <1>1, <4>1
      <4> QED  BY <1>1, <4>2
    <3>3. Settled(b, e, q) = Settled(b, z, k)  BY <1>2, <2>2, <3>2 DEF Settled
    <3> QED  BY <3>1, <3>3
  <2> QED  BY <2>1, <2>2
<1> QED  BY <1>1, <1>4 DEF Paired

\* What the end of a pair puts into d.
Ended(d, k, z, e, last) ==
  IF z + 1 = e THEN Put(d, k, <<>>)
  ELSE IF k = Null THEN Put(d, last, <<>>) ELSE Put(d, k, last)

\* At an ampersand and at the end.
LEMMA PairsEnd ==
  ASSUME NEW b \in Seq(Int), NEW z, NEW e, NextEnd(b, z, e), NEW k, NEW d, Paired(b, z, k, d),
         ~ SignAt(b, e, Eq), NEW last, last = Unquote(SubSeq(b, z + 1, e - 1)),
         z + 1 < e => last # Null
  PROVE  Paired(b, e, Null, Ended(d, k, z, e, last))
<1>0. Len(b) \in Nat  BY LenProperties
<1>1. /\ z \in Nat /\ e \in Nat \ {0} /\ z < e /\ PartStart(b, e) = z + 1
      /\ Min({n \in PartEnds(b) : n > z}) = e
      /\ \A x \in PartEnds(b) : x < e => x <= z
      /\ PartEnds(b) \subseteq Nat /\ e \in PartEnds(b)
  BY <1>0, NextEndIs, PartEndsNat DEF NextEnd
<1> DEFINE es == {x \in KeyEnds(b) : x < e}
<1>2. CString(<<>>) = <<>> /\ <<>> # Null /\ CString(Unquote(SubSeq(b, e, e - 1))) = <<>>
  BY <1>1, EmptyWord
<1>3. WordAt(b, e) = CString(last)  BY <1>1 DEF WordAt
<1>4. k # Null <=> SignAt(b, z, Eq)  BY DEF Paired
<1>5. e \in KeyEnds(b) <=> z + 1 < e /\ k = Null
  <2>1. PartStart(b, e) - 1 = z  BY <1>1
  <2> QED  BY <1>1, <1>4, <2>1 DEF KeyEnds
<1>6. \A x \in KeyEnds(b) : x \in Nat /\ (x < e <=> (x < z \/ x = z))
  <2>1. KeyEnds(b) \subseteq PartEnds(b)  BY DEF KeyEnds
  <2>2. \A x \in KeyEnds(b) : x \in Nat /\ (x < e => x <= z)  BY <1>1, <2>1
  <2> QED  BY <1>1, <2>2
<1>7. Ended(d, k, z, e, last) = Pairing(b, Settled(b, e, Null))
  <2>1. CASE k # Null
    <3>1. Settled(b, e, Null) = es  BY <1>5, <2>1 DEF Settled
    <3>2. ValueBehind(b, z) = WordAt(b, e)  BY <1>1, <1>4, <2>1 DEF ValueBehind
    <3>3. CASE z + 1 = e
      <4>1. CString(<<>>) = ValueBehind(b, z)  BY <1>2, <1>3, <3>2, <3>3
      <4>2. Put(d, k, <<>>) = Pairing(b, es)  BY <1>0, <1>2, <2>1, <4>1, SettlesKey
      <4> QED  BY <3>1, <3>3, <4>2 DEF Ended
    <3>4. CASE z + 1 # e
      <4>1. last # Null  BY <1>1, <3>4
      <4>2. Put(d, k, last) = Pairing(b, es)  BY <1>0, <1>3, <2>1, <3>2, <4>1, SettlesKey
      <4> QED  BY <2>1, <3>1, <3>4, <4>2 DEF Ended
    <3> QED  BY <3>3, <3>4
  <2>2. CASE k = Null
    <3>1. d = Pairing(b, Settled(b, z, k)) /\ Settled(b, z, k) = es
      BY <1>6, <2>2 DEF Settled, Paired
    <3>2. CASE z + 1 = e
      <4>1. Settled(b, e, Null) = es  BY <1>5, <3>2 DEF Settled
      <4>2. Ended(d, k, z, e, last) = d  BY <2>2, <3>2 DEF Ended, Put
      <4> QED  BY <3>1, <4>1, <4>2
    <3>3. CASE z + 1 # e
      <4>1. last # Null /\ e \in KeyEnds(b)  BY <1>1, <1>5, <2>2, <3>3
      <4>2. Settled(b, e, Null) = es \cup {e}  BY <4>1 DEF Settled
      <4>3. Ended(d, k, z, e, last) = With(d, CString(last), CString(<<>>))
        BY <1>2, <2>2, <3>3, <4>1, PutPairs DEF Ended
      <4>4. ValueBehind(b, e) = CString(<<>>)  BY <1>2 DEF ValueBehind
      <4>5. es \subseteq Nat /\ \A x \in es : x < e  BY <1>6
      <4> HIDE DEF es
      <4>6. Pairing(b, es \cup {e}) = With(Pairing(b, es), WordAt(b, e), ValueBehind(b, e))
        BY <1>1, <4>5, PairingGrows
      <4> QED  BY <1>3, <3>1, <4>2, <4>3, <4>4, <4>6
    <3> QED  BY <3>2, <3>3
  <2> QED  BY <2>1, <2>2
<1>8. ~ SignAt(b, e, Eq)  OBVIOUS
<1> QED  BY <1>7, <1>8 DEF Paired

-----------------------------------------------------------------------------
\* Where http_urldecode is in its text: the part it reads begins behind an end,
\* or at the beginning, and no end is behind that.
InPart ==
  /\ s \in Nat \ {0} /\ p \in Nat /\ s <= p /\ p <= Len(text) + 1
  /\ s - 1 \in {0} \cup PartEnds(text)
  /\ \A n \in s .. p - 1 : n \notin PartEnds(text)

DecodeInv ==
  /\ text \in Seq(Int) /\ failed \in Nat
  /\ pc \in {"key", "value"} =>
       /\ s = 1 /\ p = 1 /\ key = Null /\ dict = <<>>
       /\ form = <<>> => text = <<>>
  /\ pc = "decode" => InPart /\ (failed = 0 => Paired(text, s - 1, key, dict))
  /\ pc = "done" /\ failed = 0 => dict = Pairing(text, KeyEnds(text))

LEMMA NothingPaired ==
  ASSUME NEW b, Len(b) \in Nat
  PROVE  Paired(b, 0, Null, <<>>)
<1>1. ~ SignAt(b, 0, Eq)  BY DEF SignAt
<1>2. Settled(b, 0, Null) = {}
  <2>1. \A x \in KeyEnds(b) : x \in Nat \ {0}  BY PartEndsNat DEF KeyEnds
  <2> QED  BY <2>1 DEF Settled
<1>3. Pairing(b, {}) = <<>>
  <2> DEFINE f == Pairing(b, {})
  <2>1. f = [w \in {} |-> 0]  BY DEF Pairing
  <2> QED  BY <2>1
<1> QED  BY <1>1, <1>2, <1>3 DEF Paired

LEMMA AtBeginning ==
  ASSUME text \in Seq(Int), s = 1, p = 1, key = Null, dict = <<>>
  PROVE  InPart /\ Paired(text, s - 1, key, dict)
<1>1. Len(text) \in Nat /\ s - 1 = 0  BY LenProperties
<1>2. InPart  BY <1>1 DEF InPart
<1>3. Paired(text, 0, Null, <<>>)  BY <1>1, NothingPaired
<1> QED  BY <1>1, <1>2, <1>3

LEMMA DecodeInit == Init => DecodeInv
<1> SUFFICES ASSUME Init PROVE DecodeInv  OBVIOUS
<1>1. s = 1 /\ p = 1 /\ key = Null /\ dict = <<>> /\ failed = 0  BY DEF Init
<1>2. CASE text = <<>> /\ pc = "key"
  <2>1. text \in Seq(Int)  BY <1>2
  <2> QED  BY <1>1, <1>2, <2>1 DEF DecodeInv
<1>3. CASE text \in Received /\ pc = "decode"
  <2>1. text \in Seq(Int)
    <3>1. text \in Texts  BY <1>3, FormsAssumption
    <3>2. 0 .. 255 \subseteq Int  OBVIOUS
    <3> QED  BY <3>1, <3>2, SeqMonotonic DEF Texts
  <2> QED  BY <1>1, <1>3, <2>1, AtBeginning DEF DecodeInv
<1> QED  BY <1>2, <1>3 DEF Init

\* The encoder leaves the decoder alone.
LEMMA DecodeWaits ==
  ASSUME FInv, TripInv', DecodeInv, SkipPair \/ WriteKey \/ SkipValue \/ WriteValue \/ Transmit
  PROVE  DecodeInv'
<1>1. UNCHANGED <<form, s, p, key, dict, failed>> /\ pc \in {"key", "value"}
      /\ pc' \in {"key", "value", "decode"}
      /\ (WriteKey \/ WriteValue \/ text' = text)
  BY DEF SkipPair, WriteKey, SkipValue, WriteValue, Transmit, decoder
<1>2. s = 1 /\ p = 1 /\ key = Null /\ dict = <<>> /\ (form = <<>> => text = <<>>)
      /\ failed \in Nat /\ text \in Seq(Int)
  BY <1>1 DEF DecodeInv
<1>3. WriteKey \/ WriteValue => form # <<>>
  <2>1. WriteKey \/ WriteValue => i <= Len(form) /\ i \in Nat \ {0}
    BY DEF WriteKey, WriteValue, FInv, Walk
  <2>2. form = <<>> => Len(form) = 0  OBVIOUS
  <2> QED  BY <2>1, <2>2
<1>4. text' \in Seq(Int) /\ (form' = <<>> => text' = <<>>)
  <2>1. CASE form = <<>>  BY <1>1, <1>2, <1>3, <2>1
  <2>2. CASE form # <<>>
    <3>1. Written'  BY <1>1, <2>2 DEF TripInv
    <3> QED  BY <1>1, <2>2, <3>1 DEF Written
  <2> QED  BY <2>1, <2>2
<1>5. s' = 1 /\ p' = 1 /\ key' = Null /\ dict' = <<>> /\ failed' \in Nat  BY <1>1, <1>2
<1>6. InPart' /\ Paired(text', s' - 1, key', dict')
  <2>1. Len(text') \in Nat /\ s' - 1 = 0  BY <1>4, <1>5, LenProperties
  <2>2. InPart'  BY <1>5, <2>1 DEF InPart
  <2>3. Paired(text', 0, Null, <<>>)  BY <2>1, NothingPaired
  <2> QED  BY <1>5, <2>1, <2>2, <2>3
<1> QED  BY <1>1, <1>4, <1>5, <1>6 DEF DecodeInv

\* Where the next part begins.
LEMMA NextPart ==
  ASSUME text \in Seq(Int), InPart, p \in PartEnds(text)
  PROVE  /\ NextEnd(text, s - 1, p) /\ (s - 1) + 1 = s /\ (p + 1) - 1 = p
         /\ p + 1 \in Nat \ {0} /\ p <= Len(text) + 1
         /\ \A n \in p + 1 .. p + 1 - 1 : n \notin PartEnds(text)
<1>1. s \in Nat \ {0} /\ p \in Nat /\ s <= p /\ p <= Len(text) + 1  BY DEF InPart
<1>2. (s - 1) + 1 = s /\ s - 1 < p  BY <1>1
<1>3. NextEnd(text, s - 1, p)  BY <1>1, <1>2 DEF NextEnd, InPart
<1> QED  BY <1>1, <1>2, <1>3

LEMMA DecodeAtOther == ASSUME DecodeInv, AtOther PROVE DecodeInv'
<1>1. /\ pc = "decode" /\ pc' = "decode" /\ p <= Len(text) /\ text[p] \notin {Eq, Amp}
      /\ p' = p + 1 /\ UNCHANGED <<form, text, s, key, dict, failed>>
  BY DEF AtOther
<1>2. InPart /\ text \in Seq(Int) /\ failed \in Nat
      /\ (failed = 0 => Paired(text, s - 1, key, dict))
  BY <1>1 DEF DecodeInv
<1>3. p \notin PartEnds(text)
  <2>1. Len(text) \in Nat  BY <1>2, LenProperties
  <2> QED  BY <1>1, <2>1 DEF PartEnds
<1>4. s \in Nat \ {0} /\ p \in Nat /\ s <= p /\ Len(text) \in Nat  BY <1>2, LenProperties DEF InPart
<1>5. \A n \in s .. (p + 1) - 1 : n \in s .. p - 1 \/ n = p  BY <1>4
<1>6. InPart'  BY <1>1, <1>2, <1>3, <1>4, <1>5 DEF InPart
<1> QED  BY <1>1, <1>2, <1>6 DEF DecodeInv

LEMMA DecodeAtEquals == ASSUME DecodeInv, AtEquals PROVE DecodeInv'
<1> DEFINE q == Unquote(SubSeq(text, s, p - 1))
<1>1. /\ pc = "decode" /\ pc' = "decode" /\ p <= Len(text) /\ text[p] = Eq
      /\ dict' = Put(dict, key, <<>>) /\ key' = q /\ failed' = failed + Lost(q)
      /\ p' = p + 1 /\ s' = p + 1 /\ UNCHANGED <<form, text>>
  BY DEF AtEquals, Piece
<1> HIDE DEF q
<1>2. InPart /\ text \in Seq(Int) /\ failed \in Nat
      /\ (failed = 0 => Paired(text, s - 1, key, dict))
  BY <1>1 DEF DecodeInv
<1>3. SignAt(text, p, Eq) /\ p \in PartEnds(text)
  <2>1. p \in 1 .. Len(text)  BY <1>1, <1>2, LenProperties DEF InPart
  <2> QED  BY <1>1, <2>1 DEF SignAt, PartEnds
<1>4. /\ NextEnd(text, s - 1, p) /\ (s - 1) + 1 = s /\ (p + 1) - 1 = p
      /\ p + 1 \in Nat \ {0} /\ Len(text) \in Nat /\ p \in Nat
      /\ \A n \in p + 1 .. p + 1 - 1 : n \notin PartEnds(text)
  BY <1>2, <1>3, NextPart, LenProperties DEF InPart
<1>5. InPart'  BY <1>1, <1>3, <1>4 DEF InPart
<1>6. failed' \in Nat /\ (failed' = 0 => failed = 0 /\ q # Null)  BY <1>1, <1>2 DEF Lost
<1>7. ASSUME failed' = 0 PROVE Paired(text, p, q, Put(dict, key, <<>>))
  BY <1>2, <1>3, <1>4, <1>6, <1>7, PairsEqual DEF q
<1>8. failed' = 0 => Paired(text', s' - 1, key', dict')  BY <1>1, <1>4, <1>7
<1> QED  BY <1>1, <1>2, <1>5, <1>6, <1>8 DEF DecodeInv

\* The end of a pair at p.
LEMMA DecodeEndPair ==
  ASSUME text \in Seq(Int), failed \in Nat, InPart, failed = 0 => Paired(text, s - 1, key, dict),
         p \in PartEnds(text), ~ SignAt(text, p, Eq), EndPair
  PROVE  /\ failed' \in Nat /\ key' = Null
         /\ failed' = 0 => Paired(text, p, Null, dict')
<1> DEFINE q == Unquote(SubSeq(text, s, p - 1))
<1>1. /\ key' = Null /\ failed' = failed + (IF s < p THEN Lost(q) ELSE 0)
      /\ dict' = IF s = p THEN Put(dict, key, <<>>)
                  ELSE IF key = Null THEN Put(dict, q, <<>>) ELSE Put(dict, key, q)
  BY DEF EndPair, Piece
<1> HIDE DEF q
<1>2. NextEnd(text, s - 1, p) /\ (s - 1) + 1 = s  BY NextPart
<1>3. failed' \in Nat /\ (failed' = 0 => failed = 0 /\ (s < p => q # Null))  BY <1>1 DEF Lost
<1>4. dict' = Ended(dict, key, s - 1, p, q)  BY <1>1, <1>2 DEF Ended
<1>5. ASSUME failed' = 0 PROVE Paired(text, p, Null, Ended(dict, key, s - 1, p, q))
  BY <1>2, <1>3, <1>5, PairsEnd DEF q
<1> QED  BY <1>1, <1>3, <1>4, <1>5

LEMMA DecodeAtAmp == ASSUME DecodeInv, AtAmp PROVE DecodeInv'
<1>1. /\ pc = "decode" /\ pc' = "decode" /\ p <= Len(text) /\ text[p] = Amp
      /\ EndPair /\ p' = p + 1 /\ s' = p + 1 /\ UNCHANGED <<form, text>>
  BY DEF AtAmp
<1>2. InPart /\ text \in Seq(Int) /\ failed \in Nat
      /\ (failed = 0 => Paired(text, s - 1, key, dict))
  BY <1>1 DEF DecodeInv
<1>3. ~ SignAt(text, p, Eq) /\ p \in PartEnds(text)
  <2>1. p \in 1 .. Len(text) /\ Eq # Amp  BY <1>1, <1>2, LenProperties DEF InPart, Eq, Amp
  <2> QED  BY <1>1, <2>1 DEF SignAt, PartEnds
<1>4. /\ (p + 1) - 1 = p /\ p + 1 \in Nat \ {0} /\ Len(text) \in Nat /\ p \in Nat
      /\ \A n \in p + 1 .. p + 1 - 1 : n \notin PartEnds(text)
  BY <1>2, <1>3, NextPart, LenProperties DEF InPart
<1>5. InPart'  BY <1>1, <1>3, <1>4 DEF InPart
<1>6. /\ failed' \in Nat /\ key' = Null
      /\ failed' = 0 => Paired(text, p, Null, dict')
  BY <1>1, <1>2, <1>3, DecodeEndPair
<1> QED  BY <1>1, <1>2, <1>4, <1>5, <1>6 DEF DecodeInv

LEMMA DecodeAtEnd == ASSUME DecodeInv, AtEnd PROVE DecodeInv'
<1>1. /\ pc = "decode" /\ pc' = "done" /\ p > Len(text) /\ EndPair /\ UNCHANGED <<form, text>>
  BY DEF AtEnd
<1>2. InPart /\ text \in Seq(Int) /\ failed \in Nat
      /\ (failed = 0 => Paired(text, s - 1, key, dict))
  BY <1>1 DEF DecodeInv
<1>3. p = Len(text) + 1 /\ Len(text) \in Nat  BY <1>1, <1>2, LenProperties DEF InPart
<1>4. ~ SignAt(text, p, Eq) /\ p \in PartEnds(text)  BY <1>3 DEF SignAt, PartEnds
<1>5. failed' \in Nat /\ (failed' = 0 => Paired(text, p, Null, dict'))
  BY <1>1, <1>2, <1>4, DecodeEndPair
<1>6. Settled(text, p, Null) = KeyEnds(text)
  <2>1. \A x \in KeyEnds(text) : x \in Nat /\ x <= p  BY <1>3, PartEndsNat DEF KeyEnds
  <2> QED  BY <1>3, <2>1 DEF Settled
<1>7. failed' = 0 => dict' = Pairing(text, KeyEnds(text))  BY <1>5, <1>6 DEF Paired
<1> QED  BY <1>1, <1>2, <1>5, <1>7 DEF DecodeInv

LEMMA DecodeStep == FInv /\ TripInv' /\ DecodeInv /\ [Next]_vars => DecodeInv'
<1> SUFFICES ASSUME FInv, TripInv', DecodeInv, [Next]_vars PROVE DecodeInv'  OBVIOUS
<1>1. CASE UNCHANGED vars
  <2>1. UNCHANGED <<form, pc, text, s, p, key, dict, failed>>  BY <1>1 DEF vars, decoder
  <2> QED  BY <2>1 DEF DecodeInv, InPart
<1> QED  BY <1>1, DecodeWaits, DecodeAtOther, DecodeAtEquals, DecodeAtAmp, DecodeAtEnd DEF Next

\* For every text, whatever its length and wherever its signs stand,
\* http_urldecode fills its map with the pairs of the text, as long as no call
\* of http_unquote gives up, and frees the buffers of all calls that did not.
THEOREM DecodesPiecesHolds == Spec => []DecodesPieces
<1>1. DecodeInv /\ (pc = "done" => buffers = failed) => DecodesPieces
  BY DEF DecodeInv, DecodesPieces
<1>2. FInv /\ TripInv /\ TripInv' /\ DecodeInv /\ [Next]_vars => DecodeInv'  BY DecodeStep
<1> QED  BY <1>1, <1>2, FormInit, FormStep, TripInit, TripStep, DecodeInit, BuffersFreed, PTL DEF Spec

-----------------------------------------------------------------------------
(* Heads *)

\* Where the loop of _http_parse_lines stands.
LoopInv ==
  /\ cell \in Nat \ {0} /\ linebuf \in Nat \ {0} /\ lineno \in Nat /\ linebuf <= cell
  /\ HasEnd(head, headsize)
  /\ \A n \in linebuf .. cell - 1 : head[n] # CRLF
  /\ lineno = 0 => linebuf = 1
  /\ type \in {"request", "response"}

\* What the first line has given stays in the dictionary.
FirstLine(d) ==
  /\ FirstKeys \subseteq DOMAIN d
  /\ type = "request" => d[URL][1] = Slash

PInv ==
  /\ LoopInv
  /\ lineno > 0 => FirstLine(hdr)
  /\ ret = TRUE => lineno > 0 \/ head[1] = CRLF

-----------------------------------------------------------------------------

LEMMA GreatestBelow ==
  ASSUME NEW T, NEW b \in Nat, T \subseteq 0 .. b, T # {}
  PROVE  Max(T) \in T /\ \A y \in T : Max(T) >= y
<1> DEFINE U == {b - y : y \in T}
<1>1. U \subseteq Nat /\ U # {}
  <2>1. \A y \in T : b - y \in Nat  OBVIOUS
  <2> QED  BY <2>1
<1>2. Min(U) \in U /\ \A y \in U : Min(U) <= y  BY <1>1, LeastOfNat
<1>3. PICK x \in T : Min(U) = b - x  BY <1>2
<1>4. ASSUME NEW y \in T PROVE x >= y
  <2>1. b - y \in U  OBVIOUS
  <2>2. b - x <= b - y  BY <1>2, <1>3, <2>1
  <2>3. x \in Int /\ y \in Int  OBVIOUS
  <2> QED  BY <2>2, <2>3
<1>5. \E z \in T : \A y \in T : z >= y  BY <1>4
<1> QED  BY <1>5 DEF Max

\* http_find_char, http_find_alpha and http_find_digit
LEMMA FindFinds ==
  ASSUME NEW cells, NEW f \in Nat, NEW to \in Nat
  PROVE  /\ Find(cells, f, to) \in Nat
         /\ Find(cells, f, to) # 0 =>
              /\ f # 0 /\ f <= Find(cells, f, to) /\ Find(cells, f, to) < to
              /\ head[Find(cells, f, to)] \in cells
<1> DEFINE hits == {n \in f .. to - 1 : head[n] \in cells}
<1>1. CASE f = 0 \/ hits = {}  BY <1>1 DEF Find
<1>2. CASE ~ (f = 0 \/ hits = {})
  <2>1. Find(cells, f, to) = Min(hits)  BY <1>2 DEF Find
  <2>2. hits \subseteq Nat /\ hits # {}  BY <1>2
  <2> HIDE DEF hits
  <2>3. Min(hits) \in hits  BY <2>2, LeastOfNat
  <2> QED  BY <1>2, <2>1, <2>3 DEF hits
<1> QED  BY <1>1, <1>2

\* A piece of the text begins with the cell it begins at.
LEMMA PieceBegins ==
  ASSUME NEW m \in Nat, NEW n \in Nat, m <= n
  PROVE  SubSeq(head, m, n) # <<>> /\ SubSeq(head, m, n)[1] = head[m]
<1> DEFINE S == {head[j] : j \in m .. n}
<1>1. \A j \in m .. n : head[j] \in S  OBVIOUS
<1> HIDE DEF S
<1>2. /\ Len(SubSeq(head, m, n)) = n - m + 1
      /\ \A j \in 1 .. n - m + 1 : SubSeq(head, m, n)[j] = head[m + j - 1]
  BY <1>1, SubSeqProperties
<1>3. 1 \in 1 .. n - m + 1 /\ m + 1 - 1 = m  OBVIOUS
<1>4. SubSeq(head, m, n)[1] = head[m]  BY <1>2, <1>3
<1>5. Len(SubSeq(head, m, n)) # 0  BY <1>2
<1>6. ASSUME NEW v, Len(v) # 0 PROVE v # <<>>  BY <1>6
<1> QED  BY <1>4, <1>5, <1>6

\* The key of a header begins with the letter its search has found.
LEMMA KeyBegins ==
  ASSUME HeadAssumption, NEW k \in Nat, NEW c \in Nat, k < c, head[k] \in Letters
  PROVE  ~ Internal(Trimmed(k, c))
<1> DEFINE solid == {n \in k .. c - 1 : head[n] # Blank}
<1>1. k \in solid  BY DEF HeadAssumption
<1>2. Trimmed(k, c) = SubSeq(head, Min(solid), Max(solid))  BY <1>1 DEF Trimmed
<1>3. solid \subseteq Nat /\ solid \subseteq 0 .. c /\ \A n \in solid : n >= k  OBVIOUS
<1> HIDE DEF solid
<1>4. Min(solid) \in solid /\ Min(solid) <= k  BY <1>1, <1>3, LeastOfNat
<1>5. Min(solid) = k
  <2>1. Min(solid) \in Nat /\ Min(solid) >= k  BY <1>3, <1>4
  <2> QED  BY <2>1, <1>4
<1>6. Max(solid) \in solid /\ Max(solid) >= k  BY <1>1, <1>3, GreatestBelow
<1>7. Trimmed(k, c)[1] = head[k]  BY <1>2, <1>3, <1>5, <1>6, PieceBegins
<1> QED  BY <1>7 DEF Internal, HeadAssumption

\* _http_parse_header adds an entry under a key of its own, or none.
LEMMA HeaderAdds ==
  ASSUME HeadAssumption, LoopInv, NEW d
  PROVE  /\ DOMAIN d \subseteq DOMAIN Header(d).dict
         /\ \A name \in DOMAIN Header(d).dict :
              Internal(name) => name \in DOMAIN d /\ Header(d).dict[name] = d[name]
<1> DEFINE k == Find(Letters, linebuf, cell)
           c == Find({Colon}, k, cell)
           new == Trimmed(k, c)
<1>0. Header(d).dict = Set(d, c # 0, new, Trimmed(c + 1, cell))  BY DEF Header
<1>1. linebuf \in Nat /\ cell \in Nat  BY DEF LoopInv
<1>2. /\ k \in Nat
      /\ k # 0 => head[k] \in Letters
  BY <1>1, FindFinds
<1> HIDE DEF k
<1>3. /\ c \in Nat
      /\ c # 0 => k # 0 /\ k <= c /\ head[c] \in {Colon}
  BY <1>1, <1>2, FindFinds
<1> HIDE DEF c
<1>4. CASE c = 0
  <2>1. Header(d).dict = d  BY <1>0, <1>4 DEF Set
  <2> QED  BY <2>1
<1>5. CASE c # 0
  <2>1. k < c  BY <1>2, <1>3, <1>5 DEF HeadAssumption
  <2>2. ~ Internal(new)  BY <1>2, <1>3, <1>5, <2>1, KeyBegins
  <2> HIDE DEF new
  <2>3. Header(d).dict = [x \in DOMAIN d \cup {new} |->
                           IF x = new THEN Trimmed(c + 1, cell) ELSE d[x]]
    BY <1>0, <1>5 DEF Set
  <2>4. DOMAIN Header(d).dict = DOMAIN d \cup {new}  BY <2>3
  <2>5. \A x \in DOMAIN d \cup {new} : x # new => Header(d).dict[x] = d[x]  BY <2>3
  <2> QED  BY <2>2, <2>4, <2>5
<1> QED  BY <1>4, <1>5

-----------------------------------------------------------------------------
(* The first line *)

LEMMA FindVersionFrom == ASSUME NEW f, FindVersion(f) # 0 PROVE f # 0
BY DEF FindVersion

LEMMA AfterPlace == ASSUME NEW n, NEW to, After(n, to) # 0 PROVE n # 0
BY DEF After

\* _http_parse_request_line, when it succeeds.
LEMMA RequestGives ==
  ASSUME HeadAssumption, LoopInv, NEW d, RequestLine(d).ok
  PROVE  /\ {METHOD, URL, VERSION} \subseteq DOMAIN RequestLine(d).dict
         /\ RequestLine(d).dict[URL][1] = Slash
<1> DEFINE m  == Find(Letters, linebuf, cell)
           m1 == Find({Blank}, m, cell)
           u  == Find({Slash}, After(m1, cell), cell)
           u1 == Find({Blank}, u, cell)
           v  == FindVersion(After(u1, cell))
           d1 == Set(d, m1 # 0, METHOD, SubSeq(head, m, m1 - 1))
           d2 == Set(d1, u1 # 0, URL, SubSeq(head, u, u1 - 1))
           version == <<HTTP, Slash, head[v + 2]>>
<1>1. /\ RequestLine(d).dict = Set(d2, Known(v), VERSION, version)
      /\ Known(v)
  BY DEF RequestLine
<1>2. linebuf \in Nat /\ cell \in Nat  BY DEF LoopInv
<1>3. m \in Nat  BY <1>2, FindFinds
<1> HIDE DEF m
<1>4. m1 \in Nat  BY <1>2, <1>3, FindFinds
<1> HIDE DEF m1
<1>5. After(m1, cell) \in Nat  BY <1>4 DEF After
<1>6. u \in Nat /\ (u # 0 => head[u] \in {Slash} /\ After(m1, cell) # 0)
  BY <1>2, <1>5, FindFinds
<1> HIDE DEF u
<1>7. u1 \in Nat /\ (u1 # 0 => u # 0 /\ u <= u1 /\ head[u1] \in {Blank})
  BY <1>2, <1>6, FindFinds
<1> HIDE DEF u1
<1>8. v # 0  BY <1>1 DEF Known
<1>9. u1 # 0  BY <1>8, FindVersionFrom, AfterPlace
<1>10. m1 # 0  BY <1>6, <1>7, <1>9, AfterPlace
<1> HIDE DEF v, version
<1>11. u <= u1 - 1 /\ u1 - 1 \in Nat
  BY <1>6, <1>7, <1>9 DEF HeadAssumption
<1>12. SubSeq(head, u, u1 - 1)[1] = Slash
  BY <1>6, <1>7, <1>9, <1>11, PieceBegins
<1>13. METHOD \in DOMAIN d1  BY <1>10 DEF Set
<1> HIDE DEF d1
<1>14. /\ DOMAIN d2 = DOMAIN d1 \cup {URL}
       /\ d2[URL] = SubSeq(head, u, u1 - 1)
  BY <1>9 DEF Set
<1> HIDE DEF d2
<1>15. /\ DOMAIN RequestLine(d).dict = DOMAIN d2 \cup {VERSION}
       /\ \A x \in DOMAIN d2 : x # VERSION => RequestLine(d).dict[x] = d2[x]
  BY <1>1 DEF Set
<1>16. URL # VERSION  BY DEF URL, VERSION
<1> QED  BY <1>12, <1>13, <1>14, <1>15, <1>16

\* _http_parse_response_line, when it succeeds.
LEMMA ResponseGives ==
  ASSUME LoopInv, NEW d, ResponseLine(d).ok
  PROVE  {VERSION, STATUS, MESSAGE} \subseteq DOMAIN ResponseLine(d).dict
<1> DEFINE v  == FindVersion(Find(Letters, linebuf, cell))
           st  == IF Known(v) THEN Find(Digits, v + 3, cell) ELSE 0
           s1 == Find({Blank}, st, cell)
           d1 == Set(d, Known(v), VERSION, <<head[v + 2]>>)
           d2 == Set(d1, s1 # 0, STATUS, SubSeq(head, st, s1 - 1))
           w  == After(s1, cell)
<1>1. /\ ResponseLine(d).dict = Set(d2, w # 0, MESSAGE, SubSeq(head, w, cell - 1))
      /\ w # 0
  BY DEF ResponseLine
<1>2. s1 # 0  BY <1>1, AfterPlace
<1>3. Known(v)
  <2>1. st # 0  BY <1>2 DEF Find
  <2> QED  BY <2>1
<1>4. VERSION \in DOMAIN d1  BY <1>3 DEF Set
<1> HIDE DEF d1
<1>5. DOMAIN d2 = DOMAIN d1 \cup {STATUS}  BY <1>2 DEF Set
<1> HIDE DEF d2
<1>6. DOMAIN ResponseLine(d).dict = DOMAIN d2 \cup {MESSAGE}  BY <1>1 DEF Set
<1> QED  BY <1>4, <1>5, <1>6

-----------------------------------------------------------------------------
(* The loop *)

LEMMA ParseInitInv == HeadAssumption /\ ParseInit => PInv
<1> SUFFICES ASSUME HeadAssumption, ParseInit PROVE PInv  OBVIOUS
<1>1. HasEnd(head, headsize)
  <2>1. CASE \E first \in (IF type = "request" THEN Requests ELSE Responses) :
               \E headers \in Dictionaries :
                 head = Built(first, headers) /\ headsize = Len(head)
    BY <2>1 DEF HeadAssumption
  <2>2. CASE \E given \in Heads, behind \in Behind : head = given \o behind /\ headsize = Len(given)
    BY <2>2 DEF HeadAssumption
  <2> QED  BY <2>1, <2>2 DEF ParseInit
<1>2. /\ cell = 1 /\ linebuf = 1 /\ lineno = 0 /\ ret = NULL
      /\ type \in {"request", "response"}
  BY DEF ParseInit
<1>3. ret # TRUE  BY <1>2 DEF HeadAssumption
<1>4. LoopInv
  <2>1. \A n \in linebuf .. cell - 1 : head[n] # CRLF  BY <1>2
  <2> QED  BY <1>1, <1>2, <2>1 DEF LoopInv
<1>5. ~ (lineno > 0)  BY <1>2
<1> QED  BY <1>3, <1>4, <1>5 DEF PInv

LEMMA LineKeeps == ASSUME HeadAssumption, PInv, Line PROVE PInv'
<1>1. /\ ret = NULL /\ NULL # TRUE
      /\ UNCHANGED <<type, head, headsize>>
      /\ hdr' = Parsed.dict
      /\ LoopInv
  BY DEF Line, HeadAssumption, PInv
<1>2. FirstKeys' = FirstKeys  BY <1>1 DEF FirstKeys
<1>3. \A name \in FirstKeys \cup {URL} : Internal(name)
  BY DEF FirstKeys, Internal, METHOD, URL, VERSION, STATUS, MESSAGE
<1>4. CASE Parsed.ok
  <2>1. cell' = cell + 1 /\ linebuf' = cell + 1 /\ lineno' = lineno + 1 /\ ret' = ret
    BY <1>4 DEF Line
  <2>2. LoopInv'  BY <1>1, <2>1 DEF LoopInv, HasEnd
  <2>3. FirstLine(hdr')
    <3>1. CASE lineno = 0
      <4>1. CASE type = "request"
        <5>1. Parsed = RequestLine(hdr)  BY <3>1, <4>1 DEF Parsed
        <5>2. RequestLine(hdr).ok  BY <1>4, <5>1
        <5> QED  BY <1>1, <4>1, <5>1, <5>2, RequestGives DEF FirstLine, FirstKeys
      <4>2. CASE type # "request"
        <5>1. Parsed = ResponseLine(hdr)  BY <3>1, <4>2 DEF Parsed
        <5>2. ResponseLine(hdr).ok  BY <1>4, <5>1
        <5> QED  BY <1>1, <4>2, <5>1, <5>2, ResponseGives DEF FirstLine, FirstKeys
      <4> QED  BY <4>1, <4>2
    <3>2. CASE lineno # 0
      <4>1. lineno > 0  BY <1>1, <3>2 DEF LoopInv
      <4>2. FirstLine(hdr)  BY <4>1 DEF PInv
      <4>3. Parsed = Header(hdr)  BY <4>1 DEF Parsed
      <4>4. /\ DOMAIN hdr \subseteq DOMAIN hdr'
            /\ \A name \in DOMAIN hdr' :
                 Internal(name) => name \in DOMAIN hdr /\ hdr'[name] = hdr[name]
        BY <1>1, <4>3, HeaderAdds
      <4>5. FirstKeys \subseteq DOMAIN hdr'  BY <4>2, <4>4 DEF FirstLine
      <4>6. ASSUME type = "request" PROVE hdr'[URL][1] = Slash
        <5>1. URL \in DOMAIN hdr'  BY <4>5, <4>6 DEF FirstKeys
        <5> QED  BY <1>3, <4>2, <4>4, <4>6, <5>1 DEF FirstLine
      <4> QED  BY <4>5, <4>6 DEF FirstLine
    <3> QED  BY <3>1, <3>2
  <2>4. lineno' > 0  BY <1>1, <2>1 DEF LoopInv
  <2>5. ret' # TRUE  BY <1>1, <2>1
  <2>6. (lineno > 0 => FirstLine(hdr))'  BY <1>1, <1>2, <2>3 DEF FirstLine
  <2> QED  BY <2>2, <2>5, <2>6 DEF PInv
<1>5. CASE ~ Parsed.ok
  <2>1. ret' = FALSE /\ UNCHANGED <<cell, linebuf, lineno>>  BY <1>5 DEF Line
  <2>2. LoopInv'  BY <1>1, <2>1 DEF LoopInv, HasEnd
  <2>3. ASSUME lineno > 0 PROVE FirstLine(hdr)'
    <3>1. Parsed = Header(hdr)  BY <2>3 DEF Parsed
    <3>2. /\ DOMAIN hdr \subseteq DOMAIN hdr'
          /\ \A name \in DOMAIN hdr' :
               Internal(name) => name \in DOMAIN hdr /\ hdr'[name] = hdr[name]
      BY <1>1, <3>1, HeaderAdds
    <3>3. FirstLine(hdr)  BY <2>3 DEF PInv
    <3>4. ASSUME type = "request" PROVE hdr'[URL][1] = Slash
      <4>1. URL \in DOMAIN hdr'  BY <3>2, <3>3, <3>4 DEF FirstLine, FirstKeys
      <4> QED  BY <1>3, <3>2, <3>3, <3>4, <4>1 DEF FirstLine
    <3> QED  BY <1>1, <1>2, <3>2, <3>3, <3>4 DEF FirstLine
  <2> QED  BY <2>1, <2>2, <2>3 DEF PInv
<1> QED  BY <1>4, <1>5

LEMMA EndKeeps == ASSUME HeadAssumption, PInv, End PROVE PInv'
<1>1. /\ ret' = TRUE
      /\ UNCHANGED <<type, head, headsize, linebuf, cell, lineno, hdr>>
  BY DEF End
<1>2. LoopInv' /\ (lineno > 0 => FirstLine(hdr))'
  BY <1>1 DEF PInv, LoopInv, HasEnd, FirstLine, FirstKeys
<1>3. ASSUME lineno = 0 PROVE head[1] = CRLF
  <2>1. linebuf = 1 /\ cell \in Nat /\ headsize \in Nat  BY <1>3 DEF PInv, LoopInv, HasEnd
  <2>2. CASE cell > headsize
    <3>1. PICK n \in 1 .. headsize : head[n] = CRLF  BY DEF PInv, LoopInv, HasEnd
    <3>2. n \in linebuf .. cell - 1  BY <2>1, <2>2
    <3> QED  BY <3>1, <3>2 DEF PInv, LoopInv
  <2>3. CASE head[cell] = CRLF /\ linebuf = cell  BY <2>1, <2>3
  <2> QED  BY <2>2, <2>3 DEF End
<1>4. lineno \in Nat  BY DEF PInv, LoopInv
<1> QED  BY <1>1, <1>2, <1>3, <1>4 DEF PInv

LEMMA CellKeeps == ASSUME PInv, Cell PROVE PInv'
<1>1. /\ cell' = cell + 1 /\ head[cell] # CRLF
      /\ UNCHANGED <<type, head, headsize, linebuf, lineno, hdr, ret>>
  BY DEF Cell
<1>2. LoopInv'
  <2>1. \A n \in linebuf .. cell : head[n] # CRLF
    BY <1>1 DEF PInv, LoopInv
  <2> QED  BY <1>1, <2>1 DEF PInv, LoopInv, HasEnd
<1>3. (lineno > 0 => FirstLine(hdr))'  BY <1>1 DEF PInv, FirstLine, FirstKeys
<1> QED  BY <1>1, <1>2, <1>3 DEF PInv

LEMMA ParseStep == ASSUME HeadAssumption, PInv, [ParseNext]_headVars PROVE PInv'
<1>1. CASE UNCHANGED headVars
  BY <1>1 DEF headVars, PInv, LoopInv, HasEnd, FirstLine, FirstKeys
<1> QED  BY <1>1, LineKeeps, EndKeeps, CellKeeps DEF ParseNext

THEOREM ParseInvariance == ParseSpec => []PInv
<1>1. ParseInit => PInv  BY HeadsHaveEnds, ParseInitInv
<1>2. PInv /\ [ParseNext]_headVars => PInv'  BY HeadsHaveEnds, ParseStep
<1> QED  BY <1>1, <1>2, PTL DEF ParseSpec

\* A head that is accepted has given all that its first line must
\* (_http_parse_lines).
THEOREM CompleteHolds == ParseSpec => []Complete
<1>1. PInv => Complete  BY DEF PInv, Complete, FirstLine
<1> QED  BY <1>1, ParseInvariance, PTL

\* No header replaces what the first line has given (_http_parse_header).
THEOREM HeadersApartHolds == ParseSpec => HeadersApart
<1> DEFINE Apart == lineno > 0 => \A name \in DOMAIN hdr' :
                      Internal(name) => name \in DOMAIN hdr /\ hdr'[name] = hdr[name]
<1>1. ASSUME PInv, ParseNext PROVE Apart
  <2>1. CASE Line
    <3> SUFFICES ASSUME lineno > 0 PROVE Apart  OBVIOUS
    <3>1. Parsed = Header(hdr) /\ hdr' = Parsed.dict /\ LoopInv
      BY <1>1, <2>1 DEF Parsed, Line, PInv
    <3> QED  BY <3>1, HeadsHaveEnds, HeaderAdds
  <2>2. CASE Cell \/ End  BY <2>2 DEF Cell, End
  <2> QED  BY <1>1, <2>1, <2>2 DEF ParseNext
<1>2. PInv /\ [ParseNext]_headVars => [Apart]_headVars  BY <1>1
<1> QED  BY <1>2, ParseInvariance, PTL DEF ParseSpec, HeadersApart

-----------------------------------------------------------------------------
(* The headers that are sent are read *)

\* A search that finds what stands at y, and nothing before.
LEMMA FindAt ==
  ASSUME NEW cells, NEW f \in Nat \ {0}, NEW to \in Nat, NEW y \in Nat, f <= y, y < to,
         head[y] \in cells, \A z \in f .. y - 1 : head[z] \notin cells
  PROVE  Find(cells, f, to) = y
<1> DEFINE hits == {n \in f .. to - 1 : head[n] \in cells}
<1>1. y \in hits /\ hits \subseteq Nat  OBVIOUS
<1>2. ASSUME NEW n \in hits PROVE y <= n
  <2>1. n \in Nat /\ f <= n /\ head[n] \in cells  OBVIOUS
  <2>2. ~ (n \in f .. y - 1)  BY <2>1
  <2> QED  BY <2>1, <2>2
<1>3. Find(cells, f, to) = Min(hits)  BY <1>1 DEF Find
<1> HIDE DEF hits
<1> QED  BY <1>1, <1>2, <1>3, LeastIs

LEMMA FindSign ==
  ASSUME NEW sign, NEW f \in Nat \ {0}, NEW to \in Nat, NEW y \in Nat, f <= y, y < to,
         head[y] = sign, \A z \in f .. y - 1 : head[z] # sign
  PROVE  Find({sign}, f, to) = y
<1> DEFINE cells == {sign}
<1>1. head[y] \in cells /\ \A z \in f .. y - 1 : head[z] \notin cells  OBVIOUS
<1> HIDE DEF cells
<1>2. Find(cells, f, to) = y  BY <1>1, FindAt
<1> QED  BY <1>2 DEF cells

\* A text stands behind place x of another.
Lies(t, x, q) == \A m \in 1 .. Len(q) : t[x + m] = q[m]

LEMMA PieceIs ==
  ASSUME NEW S, NEW t, NEW q \in Seq(S), NEW x \in Nat, Lies(t, x, q)
  PROVE  SubSeq(t, x + 1, x + Len(q)) = q
<1>1. PICK n \in Nat : n = Len(q)  BY LenProperties
<1> DEFINE a == x + 1
           z == x + n
           u == SubSeq(t, a, z)
<1>2. a \in Int /\ z \in Int /\ z - a + 1 = n  OBVIOUS
<1>3. \A m \in 1 .. n : t[x + m] = q[m] /\ q[m] \in S  BY <1>1, ElementOfSeq DEF Lies
<1>4. \A j \in a .. z : t[j] \in S
  <2> SUFFICES ASSUME NEW j \in a .. z PROVE t[j] \in S  OBVIOUS
  <2>1. j - x \in 1 .. n /\ x + (j - x) = j  OBVIOUS
  <2> QED  BY <1>3, <2>1
<1>5. \A m \in 1 .. n : a + m - 1 = x + m  OBVIOUS
<1> HIDE DEF a, z
<1>6. /\ u \in Seq(S) /\ Len(u) = IF a <= z THEN z - a + 1 ELSE 0
      /\ \A m \in 1 .. z - a + 1 : u[m] = t[a + m - 1]
  BY <1>2, <1>4, SubSeqProperties
<1> HIDE DEF u
<1>7. Len(u) = n
  <2>1. ~ (a <= z) => n = 0  BY <1>2
  <2> QED  BY <1>2, <1>6, <2>1
<1>8. \A m \in 1 .. n : u[m] = q[m]
  <2> SUFFICES ASSUME NEW m \in 1 .. n PROVE u[m] = q[m]  OBVIOUS
  <2>1. u[m] = t[a + m - 1]  BY <1>2, <1>6
  <2> QED  BY <1>3, <1>5, <2>1
<1>9. u = q  BY <1>1, <1>6, <1>7, <1>8, SeqEqual
<1> QED  BY <1>1, <1>9 DEF u, a, z

\* http_find_nwhite and http_rfind_nwhite over a text with or without a blank
\* before it.
LEMMA TrimmedIs ==
  ASSUME NEW v \in Seq(Cells), NEW y \in Nat, Lies(head, y, v),
         NEW f \in {y, y + 1}, f = y => head[y] = Blank,
         NEW to, to = y + Len(v) + 1
  PROVE  Trimmed(f, to) = Bare(v)
<1>1. PICK n \in Nat : n = Len(v) /\ DOMAIN v = 1 .. n  BY LenProperties
<1> DEFINE solid == {j \in f .. to - 1 : head[j] # Blank}
           full == {m \in DOMAIN v : v[m] # Blank}
<1>2. to - 1 = y + n  BY <1>1
<1>3. \A m \in 1 .. n : head[y + m] = v[m]  BY <1>1 DEF Lies
<1>4. \A j \in solid : j - y \in full /\ y + (j - y) = j
  <2> SUFFICES ASSUME NEW j \in solid PROVE j - y \in full /\ y + (j - y) = j  OBVIOUS
  <2>1. j \in f .. y + n /\ head[j] # Blank  BY <1>2
  <2>2. j # y
    <3>1. CASE f = y  BY <2>1, <3>1
    <3>2. CASE f = y + 1  BY <2>1, <3>2
    <3> QED  BY <3>1, <3>2
  <2>3. j \in Int /\ y <= j /\ j <= y + n
    <3>1. CASE f = y  BY <2>1, <3>1
    <3>2. CASE f = y + 1  BY <2>1, <3>2
    <3> QED  BY <3>1, <3>2
  <2>4. j - y \in 1 .. n /\ y + (j - y) = j  BY <2>2, <2>3
  <2>5. head[j] = v[j - y]  BY <1>3, <2>4
  <2> QED  BY <1>1, <2>1, <2>4, <2>5
<1>5. \A m \in full : y + m \in solid /\ m \in Nat /\ m > 0 /\ m <= n
  <2> SUFFICES ASSUME NEW m \in full PROVE y + m \in solid /\ m \in Nat /\ m > 0 /\ m <= n  OBVIOUS
  <2>1. m \in 1 .. n /\ v[m] # Blank  BY <1>1
  <2>2. head[y + m] # Blank  BY <1>3, <2>1
  <2>3. y + m \in f .. y + n
    <3>1. CASE f = y  BY <2>1, <3>1
    <3>2. CASE f = y + 1  BY <2>1, <3>2
    <3> QED  BY <3>1, <3>2
  <2> QED  BY <1>2, <2>1, <2>2, <2>3
<1>6. CASE full = {}
  <2>1. solid = {}  BY <1>4, <1>6
  <2> QED  BY <1>6, <2>1 DEF Trimmed, Bare
<1>7. CASE full # {}
  <2> HIDE DEF solid, full
  <2>1. full \subseteq Nat /\ full \subseteq 0 .. n  BY <1>5
  <2>2. PICK lo \in full : lo = Min(full) /\ \A m \in full : lo <= m  BY <1>7, <2>1, LeastOfNat
  <2>3. PICK hi \in full : hi = Max(full) /\ \A m \in full : m <= hi
    <3>1. Max(full) \in full /\ \A m \in full : Max(full) >= m  BY <1>7, <2>1, GreatestBelow
    <3>2. \A m \in full : m <= Max(full)
      <4>1. \A j \in Nat, m \in Nat : j >= m => m <= j  OBVIOUS
      <4> QED  BY <2>1, <3>1, <4>1
    <3> QED  BY <3>1, <3>2
  <2>4. lo \in Nat /\ hi \in Nat /\ lo > 0 /\ hi <= n /\ lo <= hi  BY <1>5, <2>2
  <2>5. solid \subseteq Nat /\ y + lo \in solid /\ y + hi \in solid
    <3>1. ASSUME NEW j \in solid PROVE j \in Nat
      <4>1. j - y \in Nat /\ y + (j - y) = j  BY <1>4, <2>1
      <4>2. \A m \in Nat : y + m \in Nat  OBVIOUS
      <4> QED  BY <4>1, <4>2, Zenon
    <3> QED  BY <1>5, <3>1
  <2>6. Min(solid) = y + lo
    <3>1. \A j \in solid : y + lo <= j  BY <1>4, <2>2, <2>4, <2>5
    <3> QED  BY <2>5, <3>1, LeastIs
  <2>7. Max(solid) = y + hi
    <3>1. \A j \in solid : j <= y + hi  BY <1>4, <2>3, <2>4, <2>5
    <3> QED  BY <2>5, <3>1, GreatestIs
  <2> DEFINE q == SubSeq(v, lo, hi)
             x == y + lo - 1
  <2>8. /\ q \in Seq(Cells) /\ Len(q) = hi - lo + 1
        /\ \A m \in 1 .. hi - lo + 1 : q[m] = v[lo + m - 1]
    <3>1. \A j \in lo .. hi : v[j] \in Cells
      <4>1. \A j \in lo .. hi : j \in 1 .. Len(v)  BY <1>1, <2>4
      <4> QED  BY <4>1, ElementOfSeq
    <3> QED  BY <2>4, <3>1, SubSeqProperties
  <2> HIDE DEF q
  <2>9. Lies(head, x, q)
    <3> SUFFICES ASSUME NEW m \in 1 .. hi - lo + 1 PROVE head[x + m] = q[m]
      BY <2>8 DEF Lies
    <3>1. lo + m - 1 \in 1 .. n /\ y + (lo + m - 1) = x + m  BY <2>4
    <3>2. head[y + (lo + m - 1)] = v[lo + m - 1]  BY <1>3, <3>1
    <3> QED  BY <2>8, <3>1, <3>2
  <2>10. x \in Nat /\ x + 1 = y + lo /\ x + (hi - lo + 1) = y + hi  BY <2>4
  <2> HIDE DEF x
  <2>11. SubSeq(head, x + 1, x + Len(q)) = q  BY <2>8, <2>9, <2>10, PieceIs
  <2>12. SubSeq(head, y + lo, y + hi) = SubSeq(v, lo, hi)  BY <2>8, <2>10, <2>11 DEF q
  <2>13. Trimmed(f, to) = SubSeq(head, Min(solid), Max(solid))
    <3>1. solid # {}  BY <2>5
    <3> QED  BY <3>1 DEF Trimmed, solid
  <2>14. Bare(v) = SubSeq(v, Min(full), Max(full))  BY <1>7 DEF Bare, full
  <2> QED  BY <2>2, <2>3, <2>6, <2>7, <2>12, <2>13, <2>14
<1> QED  BY <1>6, <1>7

LEMMA NameIsBare ==
  ASSUME NEW q, Name(q), q[1] # Blank
  PROVE  Bare(q) = q
<1>1. q \in Seq(Cells) /\ q # <<>> /\ q[Len(q)] # Blank  BY DEF Name, OneLine
<1>2. PICK n \in Nat : n = Len(q) /\ DOMAIN q = 1 .. n  BY <1>1, LenProperties
<1>3. n > 0  BY <1>1, <1>2, EmptySeq
<1> DEFINE full == {m \in DOMAIN q : q[m] # Blank}
<1>4. 1 \in full /\ n \in full /\ full \subseteq Nat /\ \A m \in full : 1 <= m /\ m <= n
  BY <1>1, <1>2, <1>3
<1>5. full # {}  BY <1>4
<1>6. Bare(q) = SubSeq(q, Min(full), Max(full))  BY <1>5 DEF Bare
<1> HIDE DEF full
<1>7. Min(full) = 1 /\ Max(full) = n  BY <1>4, LeastIs, GreatestIs
<1>8. SubSeq(q, 1, n) = q
  <2>1. \A m \in 1 .. Len(q) : q[0 + m] = q[m]  BY <1>2
  <2>2. SubSeq(q, 0 + 1, 0 + Len(q)) = q  BY <1>1, <2>1, PieceIs DEF Lies
  <2> QED  BY <1>2, <2>2
<1> QED  BY <1>6, <1>7, <1>8

\* What is sent of a dictionary.
Shown(h) == h[2] # NULL /\ ~ Internal(h[1])

\* The line of a header: it begins behind place x, its colon is at c, its end at z.
LineAt(t, x, c, z, h) ==
  /\ x \in Nat /\ c = x + Len(h[1]) + 1 /\ z = c + 1 + Len(h[2]) + 1 /\ c \in Nat /\ z \in Nat
  /\ Lies(t, x, h[1]) /\ t[c] = Colon /\ t[c + 1] = Blank /\ Lies(t, c + 1, h[2])
  /\ t[z] = CRLF

LineLies(t, x, z, h) == z < Len(t) /\ \E c \in Nat : LineAt(t, x, c, z, h)

\* A header of a dictionary that is sent.
Header1(h) ==
  /\ h[1] \in Seq(Cells) /\ h[2] \in Seq(Cells)
  /\ Name(h[1]) /\ h[1][1] \in Letters /\ OneLine(h[2])

Separate == {Blank, Colon} \cap Letters = {} /\ CRLF \notin {Blank, Colon} /\ Blank \notin Digits

LEMMA AreSeparate == Separate /\ Blank # Slash /\ NULL \notin BOOLEAN
BY HeadsHaveEnds, SentAssumption DEF Separate, HeadAssumption

LEMMA SentHeader ==
  ASSUME NEW headers \in Dictionaries, NEW n \in 1 .. Len(headers), Shown(headers[n])
  PROVE  Header1(headers[n]) /\ DOMAIN headers = 1 .. Len(headers)
<1> DEFINE h == headers[n]
<1>1. /\ headers \in Seq(Seq(Cells) \X (Seq(Cells) \cup {NULL}))
      /\ \A m \in DOMAIN headers :
           Name(headers[m][1]) /\ (headers[m][2] # NULL => OneLine(headers[m][2]))
  BY SentAssumption
<1>2. DOMAIN headers = 1 .. Len(headers)  BY <1>1, LenProperties
<1>3. h \in Seq(Cells) \X (Seq(Cells) \cup {NULL})  BY <1>1, ElementOfSeq
<1>4. h[2] # NULL /\ ~ Internal(h[1])  BY DEF Shown
<1>5. Name(h[1]) /\ OneLine(h[2])  BY <1>1, <1>2, <1>4
<1>6. h[1][1] \in Letters  BY <1>4, <1>5 DEF Name, Internal
<1> HIDE DEF h
<1>7. h[1] \in Seq(Cells) /\ h[2] \in Seq(Cells)  BY <1>3, <1>4
<1> QED  BY <1>2, <1>5, <1>6, <1>7 DEF Header1, h

\* _http_parse_header, over the line of a header.
LEMMA HeaderReads ==
  ASSUME NEW h, Header1(h), NEW x, NEW z, LineLies(head, x, z, h),
         linebuf = x + 1, cell = z, NEW d
  PROVE  Header(d) = [dict |-> Set(d, TRUE, h[1], Bare(h[2])), ok |-> TRUE]
<1> DEFINE q == h[1]
           v == h[2]
<1>1. q \in Seq(Cells) /\ v \in Seq(Cells) /\ Name(q) /\ q[1] \in Letters  BY DEF Header1
<1>2. PICK c \in Nat : LineAt(head, x, c, z, h)  BY DEF LineLies
<1>3. /\ x \in Nat /\ c = x + Len(q) + 1 /\ z = c + 1 + Len(v) + 1 /\ z \in Nat
      /\ Lies(head, x, q) /\ head[c] = Colon /\ head[c + 1] = Blank /\ Lies(head, c + 1, v)
  BY <1>2 DEF LineAt
<1>4. PICK n \in Nat : n = Len(q) /\ DOMAIN q = 1 .. n  BY <1>1, LenProperties
<1>5. PICK m \in Nat : m = Len(v)  BY <1>1, LenProperties
<1>6. n > 0  BY <1>1, <1>4, EmptySeq DEF Name
<1>0. x \in Nat /\ c \in Nat /\ z \in Nat /\ c = x + n + 1 /\ z = c + 1 + m + 1
  BY <1>3, <1>4, <1>5
<1>7. \A j \in 1 .. n : head[x + j] = q[j]  BY <1>3, <1>4 DEF Lies
<1>8. Find(Letters, linebuf, cell) = x + 1
  <2>1. head[x + 1] \in Letters  BY <1>1, <1>6, <1>7
  <2>2. x + 1 \in Nat \ {0} /\ x + 1 \in Nat /\ x + 1 < z /\ x + 1 <= x + 1  BY <1>0
  <2>3. \A j \in x + 1 .. x + 1 - 1 : head[j] \notin Letters  BY <1>0
  <2>4. Find(Letters, x + 1, z) = x + 1  BY <1>0, <2>1, <2>2, <2>3, FindAt
  <2> QED  BY <2>4
<1>9. Find({Colon}, x + 1, cell) = c
  <2>1. x + 1 \in Nat \ {0} /\ x + 1 <= c /\ c < z  BY <1>0
  <2>2. \A j \in x + 1 .. c - 1 : head[j] # Colon
    <3> SUFFICES ASSUME NEW j \in x + 1 .. c - 1 PROVE head[j] # Colon  OBVIOUS
    <3>1. j - x \in 1 .. n /\ x + (j - x) = j  BY <1>0
    <3>2. head[j] = q[j - x]  BY <1>7, <3>1
    <3> QED  BY <1>1, <1>4, <3>1, <3>2 DEF Name
  <2> QED  BY <1>3, <2>1, <2>2, FindSign
<1>10. q[1] # Blank  BY <1>1, AreSeparate DEF Separate
<1>11. Trimmed(x + 1, c) = q
  <2> HIDE DEF q
  <2>1. c = x + Len(q) + 1 /\ x + 1 \in {x, x + 1} /\ (x + 1 = x => head[x] = Blank)
    BY <1>3
  <2>2. Trimmed(x + 1, c) = Bare(q)  BY <1>1, <1>3, <2>1, TrimmedIs
  <2> QED  BY <1>1, <1>10, <2>2, NameIsBare
<1>12. Trimmed(c + 1, cell) = Bare(v)
  <2> HIDE DEF v
  <2>1. cell = c + 1 + Len(v) + 1 /\ c + 1 \in {c + 1, c + 1 + 1} /\ c + 1 \in Nat  BY <1>3
  <2> QED  BY <1>1, <1>3, <2>1, TrimmedIs
<1>13. c # 0  BY <1>3, <1>4
<1> QED  BY <1>8, <1>9, <1>11, <1>12, <1>13 DEF Header

\* No end of a line lies inside it.
LEMMA InsideLine ==
  ASSUME NEW t, NEW h, Header1(h), NEW x, NEW z, LineLies(t, x, z, h)
  PROVE  /\ x \in Nat /\ z \in Nat /\ x + 1 < z /\ z < Len(t) /\ t[z] = CRLF
         /\ \A j \in x + 1 .. z - 1 : t[j] # CRLF
<1> DEFINE q == h[1]
           v == h[2]
<1>1. q \in Seq(Cells) /\ v \in Seq(Cells) /\ OneLine(q) /\ q # <<>> /\ OneLine(v)
  BY DEF Header1, Name
<1>2. PICK c \in Nat : LineAt(t, x, c, z, h)  BY DEF LineLies
<1>3. /\ x \in Nat /\ c = x + Len(q) + 1 /\ z = c + 1 + Len(v) + 1 /\ z \in Nat
      /\ Lies(t, x, q) /\ t[c] = Colon /\ t[c + 1] = Blank /\ Lies(t, c + 1, v) /\ t[z] = CRLF
  BY <1>2 DEF LineAt
<1>4. PICK n \in Nat : n = Len(q) /\ DOMAIN q = 1 .. n  BY <1>1, LenProperties
<1>5. PICK m \in Nat : m = Len(v) /\ DOMAIN v = 1 .. m  BY <1>1, LenProperties
<1>6. n > 0  BY <1>1, <1>4, EmptySeq
<1>7. \A j \in 1 .. n : t[x + j] = q[j]  BY <1>3, <1>4 DEF Lies
<1>8. \A j \in 1 .. m : t[c + 1 + j] = v[j]  BY <1>3, <1>5 DEF Lies
<1>9. x \in Nat /\ c \in Nat /\ z \in Nat /\ c = x + n + 1 /\ z = c + 1 + m + 1
  BY <1>3, <1>4, <1>5
<1>10. ASSUME NEW j \in x + 1 .. z - 1 PROVE t[j] # CRLF
  <2>1. CASE j <= x + n
    <3>1. j - x \in 1 .. n /\ x + (j - x) = j  BY <1>3, <2>1
    <3>2. t[j] = q[j - x]  BY <1>7, <3>1
    <3> QED  BY <1>1, <1>4, <3>1, <3>2 DEF OneLine
  <2>2. CASE j = c \/ j = c + 1  BY <1>3, <2>2, AreSeparate DEF Separate
  <2>3. CASE j > c + 1
    <3>1. j - (c + 1) \in 1 .. m /\ c + 1 + (j - (c + 1)) = j  BY <1>9, <2>3
    <3>2. t[j] = v[j - (c + 1)]  BY <1>8, <3>1
    <3> QED  BY <1>1, <1>5, <3>1, <3>2 DEF OneLine
  <2> QED  BY <1>9, <2>1, <2>2, <2>3
<1>11. x + 1 < z  BY <1>6, <1>9
<1>12. z < Len(t)  BY DEF LineLies
<1> QED  BY <1>3, <1>10, <1>11, <1>12

\* _http_parse_request_line, over a request line this library has built.
LEMMA RequestReads ==
  ASSUME NEW f, RequestText(f), Lies(head, 0, f), linebuf = 1, cell = Len(f) + 1,
         Len(head) \in Nat, cell <= Len(head)
  PROVE  RequestLine(<<>>).ok /\ DOMAIN RequestLine(<<>>).dict = {METHOD, URL, VERSION}
<1>1. PICK n \in Nat : n = Len(f) /\ DOMAIN f = 1 .. n
  <2>1. f \in Seq(Cells)  BY DEF RequestText, OneLine
  <2> QED  BY <2>1, LenProperties
<1> DEFINE e == n - 3
<1>2. /\ e > 3 /\ f[1] \in Letters /\ f[2] = Blank /\ f[3] = Slash /\ f[e] = Blank
      /\ \A j \in 3 .. e - 1 : f[j] # Blank
      /\ f[e + 1] = HTTP /\ f[e + 2] = Slash /\ f[e + 3] \in {V10, V11}
  BY <1>1 DEF RequestText
<1>3. \A j \in 1 .. n : head[j] = f[j]
  <2>1. \A j \in 1 .. n : 0 + j = j  OBVIOUS
  <2>2. \A j \in 1 .. n : head[0 + j] = f[j]  BY <1>1 DEF Lies
  <2> QED  BY <2>1, <2>2
<1>4. e \in Nat /\ e + 3 = n /\ cell = e + 4 /\ cell \in Nat  BY <1>1, <1>2
<1> HIDE DEF e
<1>5. /\ 1 \in 1 .. n /\ 2 \in 1 .. n /\ 3 \in 1 .. n /\ e \in 1 .. n
      /\ e + 1 \in 1 .. n /\ e + 2 \in 1 .. n /\ e + 3 \in 1 .. n
  BY <1>2, <1>4
<1>6. /\ head[1] \in Letters /\ head[2] = Blank /\ head[3] = Slash /\ head[e] = Blank
      /\ head[e + 1] = HTTP /\ head[e + 2] = Slash /\ head[e + 3] \in {V10, V11}
  BY <1>2, <1>3, <1>5
<1>0. 1 \in Nat \ {0} /\ 2 \in Nat \ {0} /\ 3 \in Nat \ {0} /\ 1 < cell /\ 2 < cell /\ 3 < cell
      /\ 1 <= 1 /\ 1 <= 2 /\ 3 <= 3 /\ 3 <= e /\ e < cell
  BY <1>2, <1>4
<1>7. Find(Letters, linebuf, cell) = 1
  <2>1. \A j \in 1 .. 1 - 1 : head[j] \notin Letters  OBVIOUS
  <2> QED  BY <1>0, <1>4, <1>6, <2>1, FindAt
<1>8. Find({Blank}, 1, cell) = 2
  <2>1. \A j \in 1 .. 2 - 1 : head[j] # Blank
    <3>1. \A j \in 1 .. 2 - 1 : j = 1  OBVIOUS
    <3>2. head[1] # Blank  BY <1>6, AreSeparate DEF Separate
    <3> QED  BY <3>1, <3>2
  <2> QED  BY <1>0, <1>4, <1>6, <2>1, FindSign
<1>9. After(2, cell) = 3  BY <1>2, <1>4 DEF After
<1>10. Find({Slash}, 3, cell) = 3
  <2>1. \A j \in 3 .. 3 - 1 : head[j] # Slash  OBVIOUS
  <2> QED  BY <1>0, <1>4, <1>6, <2>1, FindSign
<1>11. Find({Blank}, 3, cell) = e
  <2>1. \A j \in 3 .. e - 1 : head[j] # Blank
    <3>1. \A j \in 3 .. e - 1 : j \in 1 .. n  BY <1>4
    <3> QED  BY <1>2, <1>3, <3>1
  <2> QED  BY <1>0, <1>4, <1>6, <2>1, FindSign
<1>12. After(e, cell) = e + 1  BY <1>2, <1>4 DEF After
<1>13. FindVersion(e + 1) = e + 1
  <2> DEFINE hits == {j \in e + 1 .. Len(head) - 1 : head[j] = HTTP /\ head[j + 1] = Slash}
  <2>1. e + 1 \in e + 1 .. Len(head) - 1 /\ e + 1 + 1 = e + 2 /\ e + 1 # 0  BY <1>4
  <2>2. e + 1 \in hits /\ hits \subseteq Nat /\ \A j \in hits : e + 1 <= j  BY <1>4, <1>6, <2>1
  <2>3. FindVersion(e + 1) = Min(hits)  BY <2>1, <2>2 DEF FindVersion
  <2> HIDE DEF hits
  <2> QED  BY <2>2, <2>3, LeastIs
<1>14. Known(e + 1)
  <2>1. e + 1 + 2 = e + 3 /\ e + 1 # 0 /\ e + 1 + 2 <= Len(head)  BY <1>4
  <2> QED  BY <1>6, <2>1 DEF Known
<1>15. e # 0 /\ 2 # 0  BY <1>2
<1> DEFINE d1 == Set(<<>>, TRUE, METHOD, SubSeq(head, 1, 2 - 1))
           d2 == Set(d1, TRUE, URL, SubSeq(head, 3, e - 1))
           d3 == Set(d2, TRUE, VERSION, <<HTTP, Slash, head[e + 1 + 2]>>)
<1>16. RequestLine(<<>>) = [dict |-> d3, ok |-> TRUE]
  BY <1>7, <1>8, <1>9, <1>10, <1>11, <1>12, <1>13, <1>14, <1>15 DEF RequestLine
<1>17. DOMAIN d1 = {METHOD}  BY DEF Set
<1> HIDE DEF d1
<1>18. DOMAIN d2 = {METHOD, URL}  BY <1>17 DEF Set
<1> HIDE DEF d2
<1>19. DOMAIN d3 = {METHOD, URL, VERSION}  BY <1>18 DEF Set
<1> HIDE DEF d3
<1> QED  BY <1>16, <1>19

\* _http_parse_response_line, over a response line this library has built.
LEMMA ResponseReads ==
  ASSUME NEW f, ResponseText(f), Lies(head, 0, f), linebuf = 1, cell = Len(f) + 1,
         Len(head) \in Nat, cell <= Len(head)
  PROVE  ResponseLine(<<>>).ok /\ DOMAIN ResponseLine(<<>>).dict = {VERSION, STATUS, MESSAGE}
<1>1. PICK n \in Nat : n = Len(f) /\ DOMAIN f = 1 .. n
  <2>1. f \in Seq(Cells)  BY DEF ResponseText, OneLine
  <2> QED  BY <2>1, LenProperties
<1>2. /\ n > 6 /\ f[1] = HTTP /\ f[2] = Slash /\ f[3] \in {V10, V11} /\ f[4] = Blank
      /\ f[5] = Status /\ f[6] = Blank
  BY <1>1 DEF ResponseText
<1>3. \A j \in 1 .. n : head[j] = f[j]
  <2>1. \A j \in 1 .. n : 0 + j = j  OBVIOUS
  <2>2. \A j \in 1 .. n : head[0 + j] = f[j]  BY <1>1 DEF Lies
  <2> QED  BY <2>1, <2>2
<1>4. /\ 1 \in 1 .. n /\ 2 \in 1 .. n /\ 3 \in 1 .. n /\ 4 \in 1 .. n /\ 5 \in 1 .. n /\ 6 \in 1 .. n
      /\ cell = n + 1 /\ cell \in Nat
  BY <1>1, <1>2
<1>5. /\ head[1] = HTTP /\ head[2] = Slash /\ head[3] \in {V10, V11} /\ head[4] = Blank
      /\ head[5] = Status /\ head[6] = Blank
  BY <1>2, <1>3, <1>4
<1>0. 1 \in Nat \ {0} /\ 4 \in Nat \ {0} /\ 5 \in Nat \ {0} /\ 6 \in Nat
      /\ 1 < cell /\ 5 < cell /\ 6 < cell /\ 1 <= 1 /\ 4 <= 5 /\ 5 <= 6
  BY <1>2, <1>4
<1>6. Find(Letters, linebuf, cell) = 1
  <2>1. \A j \in 1 .. 1 - 1 : head[j] \notin Letters  OBVIOUS
  <2>2. head[1] \in Letters  BY <1>5 DEF Letters
  <2> QED  BY <1>0, <1>4, <2>1, <2>2, FindAt
<1>7. FindVersion(1) = 1
  <2> DEFINE hits == {j \in 1 .. Len(head) - 1 : head[j] = HTTP /\ head[j + 1] = Slash}
  <2>1. 1 \in hits /\ hits \subseteq Nat /\ \A j \in hits : 1 <= j  BY <1>2, <1>4, <1>5
  <2>2. FindVersion(1) = Min(hits)
    <3> HIDE DEF hits
    <3>1. hits # {}  BY <2>1
    <3>2. FindVersion(1) = IF 1 = 0 \/ hits = {} THEN 0 ELSE Min(hits)  BY DEF FindVersion, hits
    <3> QED  BY <3>1, <3>2
  <2> HIDE DEF hits
  <2> QED  BY <2>1, <2>2, LeastIs
<1>8. Known(1)  BY <1>2, <1>4, <1>5 DEF Known
<1>9. Find(Digits, 4, cell) = 5
  <2>1. \A j \in 4 .. 5 - 1 : head[j] \notin Digits
    <3>1. \A j \in 4 .. 5 - 1 : j = 4  OBVIOUS
    <3>2. head[4] \notin Digits  BY <1>5, AreSeparate DEF Separate
    <3> QED  BY <3>1, <3>2
  <2>2. head[5] \in Digits  BY <1>5 DEF Digits
  <2> QED  BY <1>0, <1>4, <2>1, <2>2, FindAt
<1>10. Find({Blank}, 5, cell) = 6
  <2>1. \A j \in 5 .. 6 - 1 : head[j] # Blank
    <3>1. \A j \in 5 .. 6 - 1 : j = 5  OBVIOUS
    <3>2. head[5] # Blank  BY <1>5, AreSeparate DEF Separate, Digits
    <3> QED  BY <3>1, <3>2
  <2> QED  BY <1>0, <1>4, <1>5, <2>1, FindSign
<1>11. After(6, cell) = 7  BY <1>2, <1>4 DEF After
<1> DEFINE d1 == Set(<<>>, TRUE, VERSION, <<head[1 + 2]>>)
           d2 == Set(d1, TRUE, STATUS, SubSeq(head, 5, 6 - 1))
           d3 == Set(d2, TRUE, MESSAGE, SubSeq(head, 7, cell - 1))
<1>12. 1 + 3 = 4 /\ 6 # 0 /\ 7 # 0  OBVIOUS
<1>13. ResponseLine(<<>>) = [dict |-> d3, ok |-> TRUE]
  BY <1>6, <1>7, <1>8, <1>9, <1>10, <1>11, <1>12 DEF ResponseLine
<1>14. DOMAIN d1 = {VERSION}  BY DEF Set
<1> HIDE DEF d1
<1>15. DOMAIN d2 = {VERSION, STATUS}  BY <1>14 DEF Set
<1> HIDE DEF d2
<1>16. DOMAIN d3 = {VERSION, STATUS, MESSAGE}  BY <1>15 DEF Set
<1> HIDE DEF d3
<1> QED  BY <1>13, <1>16

\* Outside K nothing changes.
Skips(N, K, g) == \A k \in 1 .. N : k \notin K => g[k] = g[k - 1]

NextIn(N, K, g, n) == \E m \in 1 .. N + 1 : (m <= N => m \in K) /\ g[m - 1] = g[n - 1]

\* Past the pieces that change nothing there is the next one that does, or the end.
LEMMA NextOf ==
  ASSUME NEW N \in Nat, NEW K, NEW g, Skips(N, K, g), NEW n \in 1 .. N + 1
  PROVE  NextIn(N, K, g, n)
<1> DEFINE ok(c) == \E m \in 1 .. N + 1 : (m <= N => m \in K) /\ g[m - 1] = g[c]
           T == {d \in Nat : d <= N => ok(N - d)}
<1>1. 0 \in T
  <2>1. N + 1 \in 1 .. N + 1 /\ ~ (N + 1 <= N) /\ N + 1 - 1 = N /\ N - 0 = N  OBVIOUS
  <2> QED  BY <2>1
<1>2. ASSUME NEW d \in Nat, d \in T PROVE d + 1 \in T
  <2>1. CASE d + 1 <= N
    <3> DEFINE k == N - d
    <3>1. k \in 1 .. N /\ N - (d + 1) = k - 1 /\ d <= N /\ k \in 1 .. N + 1  BY <2>1
    <3>2. ok(k)  BY <1>2, <3>1
    <3> HIDE DEF T, k
    <3>3. ok(k - 1)
      <4>1. CASE k \in K  BY <3>1, <4>1
      <4>2. CASE k \notin K
        <5>1. g[k] = g[k - 1]  BY <3>1, <4>2 DEF Skips
        <5> QED  BY <3>2, <5>1
      <4> QED  BY <4>1, <4>2
    <3> HIDE DEF ok
    <3>4. ok(N - (d + 1))  BY <3>1, <3>3
    <3> QED  BY <3>4 DEF T
  <2>2. CASE ~ (d + 1 <= N)
    <3> HIDE DEF ok
    <3> QED  BY <2>2
  <2> QED  BY <2>1, <2>2
<1> DEFINE c == n - 1
<1>3. N - c \in Nat /\ N - c <= N /\ N - (N - c) = c  OBVIOUS
<1>4. ok(c)
  <2> HIDE DEF T, c, ok
  <2>1. N - c \in T  BY <1>1, <1>2, <1>3, AllOfNat
  <2> QED  BY <1>3, <2>1 DEF T
<1> QED  BY <1>4 DEF NextIn

Lines(headers) == [n \in DOMAIN headers |-> HeaderLine(headers[n])]

\* The text of the headers, line by line.
Begins(headers) ==
  CHOOSE e : Grows(e, Lines(headers), Cells) /\ e[Len(headers)] = FlattenSeq(Lines(headers))

\* The end of line n; line 0 is the first one.
Stop(first, headers, n) == Len(first) + 1 + Len(Begins(headers)[n])

\* What has arrived of the first n headers.
Arrived(headers, n) ==
  {<<headers[m][1], Bare(headers[m][2])>> : m \in {j \in 1 .. n : Shown(headers[j])}}

\* Where the lines of a head stand.
HeadStands(t, first, headers) ==
  /\ \A n \in 0 .. Len(headers) : Stop(first, headers, n) \in Nat
  /\ Lies(t, 0, first) /\ Stop(first, headers, 0) = Len(first) + 1
  /\ Len(first) \in Nat /\ Len(t) \in Nat /\ Len(first) + 1 < Len(t) /\ t[Len(first) + 1] = CRLF
  /\ Len(t) = Stop(first, headers, Len(headers)) + 1 /\ t[Len(t)] = CRLF
  /\ \A n \in 1 .. Len(headers) : Shown(headers[n]) =>
       LineLies(t, Stop(first, headers, n - 1), Stop(first, headers, n), headers[n])

LEMMA CellTexts ==
  /\ <<CRLF>> \in Seq(Cells) /\ Len(<<CRLF>>) = 1 /\ <<CRLF>>[1] = CRLF
  /\ <<Colon, Blank>> \in Seq(Cells) /\ Len(<<Colon, Blank>>) = 2
  /\ <<Colon, Blank>>[1] = Colon /\ <<Colon, Blank>>[2] = Blank
<1>1. CRLF \in Cells /\ Colon \in Cells /\ Blank \in Cells  BY DEF Cells
<1> QED  BY <1>1

LEMMA HeaderLineSeq ==
  ASSUME NEW h, Header1(h), Shown(h)
  PROVE  HeaderLine(h) \in Seq(Cells)
<1> DEFINE q == h[1]
           v == h[2]
           w == ((q \o <<Colon, Blank>>) \o v) \o <<CRLF>>
<1>1. HeaderLine(h) = w  BY DEF HeaderLine, Shown
<1>2. q \in Seq(Cells) /\ v \in Seq(Cells)  BY DEF Header1
<1> HIDE DEF q, v
<1>3. q \o <<Colon, Blank>> \in Seq(Cells)  BY <1>2, CellTexts, Joint
<1>4. (q \o <<Colon, Blank>>) \o v \in Seq(Cells)  BY <1>2, <1>3, Joint
<1>5. w \in Seq(Cells)  BY <1>4, CellTexts, Joint
<1> QED  BY <1>1, <1>5

LEMMA HeaderLineLies ==
  ASSUME NEW h, Header1(h), Shown(h), NEW x \in Nat, NEW t, Lies(t, x, HeaderLine(h)),
         NEW z, z = x + Len(HeaderLine(h)), z < Len(t)
  PROVE  LineLies(t, x, z, h)
<1> DEFINE q == h[1]
           v == h[2]
           k == q \o <<Colon, Blank>>
           u == k \o v
           w == u \o <<CRLF>>
<1>1. HeaderLine(h) = w  BY DEF HeaderLine, Shown
<1>2. q \in Seq(Cells) /\ v \in Seq(Cells)  BY DEF Header1
<1>3. \A m \in 1 .. Len(w) : t[x + m] = w[m]  BY <1>1 DEF Lies
<1>4. z = x + Len(w)  BY <1>1
<1> HIDE DEF q, v
<1>5. k \in Seq(Cells) /\ Joins(k, q, <<Colon, Blank>>)  BY <1>2, CellTexts, Joint
<1> HIDE DEF k
<1>6. u \in Seq(Cells) /\ Joins(u, k, v)  BY <1>2, <1>5, Joint
<1> HIDE DEF u
<1>7. w \in Seq(Cells) /\ Joins(w, u, <<CRLF>>)  BY <1>6, CellTexts, Joint
<1> HIDE DEF w
<1>8. PICK a \in Nat : a = Len(q)  BY <1>2, LenProperties
<1>9. PICK b \in Nat : b = Len(v)  BY <1>2, LenProperties
<1>10. /\ Len(k) = a + 2 /\ \A j \in 1 .. a : k[j] = q[j]
       /\ k[a + 1] = Colon /\ k[a + 2] = Blank
  BY <1>5, <1>8, CellTexts DEF Joins
<1>11. /\ Len(u) = a + 2 + b /\ \A j \in 1 .. a + 2 : u[j] = k[j]
       /\ \A m \in 1 .. b : u[a + 2 + m] = v[m]
  BY <1>6, <1>9, <1>10 DEF Joins
<1>12. /\ Len(w) = a + 2 + b + 1 /\ \A j \in 1 .. a + 2 + b : w[j] = u[j]
       /\ w[a + 2 + b + 1] = CRLF
  BY <1>7, <1>11, CellTexts DEF Joins
<1> DEFINE c == x + a + 1
<1>13. c \in Nat /\ z = c + 1 + b + 1 /\ z \in Nat  BY <1>4, <1>12
<1>14. Lies(t, x, q)
  <2> SUFFICES ASSUME NEW m \in 1 .. a PROVE t[x + m] = q[m]  BY <1>8 DEF Lies
  <2>1. m \in 1 .. a + 2 + b + 1 /\ m \in 1 .. a + 2 + b /\ m \in 1 .. a + 2  OBVIOUS
  <2>2. t[x + m] = w[m] /\ w[m] = u[m] /\ u[m] = k[m] /\ k[m] = q[m]
    BY <1>3, <1>10, <1>11, <1>12, <2>1
  <2> QED  BY <2>2
<1>15. t[c] = Colon /\ t[c + 1] = Blank
  <2>1. /\ a + 1 \in 1 .. a + 2 + b + 1 /\ a + 1 \in 1 .. a + 2 + b /\ a + 1 \in 1 .. a + 2
        /\ a + 2 \in 1 .. a + 2 + b + 1 /\ a + 2 \in 1 .. a + 2 + b /\ a + 2 \in 1 .. a + 2
        /\ x + (a + 1) = c /\ x + (a + 2) = c + 1
    OBVIOUS
  <2>2. t[x + (a + 1)] = w[a + 1] /\ w[a + 1] = u[a + 1] /\ u[a + 1] = k[a + 1]
    BY <1>3, <1>11, <1>12, <2>1
  <2>3. t[x + (a + 2)] = w[a + 2] /\ w[a + 2] = u[a + 2] /\ u[a + 2] = k[a + 2]
    BY <1>3, <1>11, <1>12, <2>1
  <2> QED  BY <1>10, <2>1, <2>2, <2>3
<1>16. Lies(t, c + 1, v)
  <2> SUFFICES ASSUME NEW m \in 1 .. b PROVE t[c + 1 + m] = v[m]  BY <1>9 DEF Lies
  <2>1. /\ a + 2 + m \in 1 .. a + 2 + b + 1 /\ a + 2 + m \in 1 .. a + 2 + b
        /\ x + (a + 2 + m) = c + 1 + m
    OBVIOUS
  <2>2. t[x + (a + 2 + m)] = w[a + 2 + m] /\ w[a + 2 + m] = u[a + 2 + m] /\ u[a + 2 + m] = v[m]
    BY <1>3, <1>11, <1>12, <2>1
  <2> QED  BY <2>1, <2>2
<1>17. t[z] = CRLF
  <2>1. a + 2 + b + 1 \in 1 .. a + 2 + b + 1 /\ x + (a + 2 + b + 1) = z  BY <1>13
  <2>2. t[x + (a + 2 + b + 1)] = w[a + 2 + b + 1]  BY <1>3, <1>12, <2>1
  <2> QED  BY <1>12, <2>1, <2>2
<1> HIDE DEF c
<1>18. c = x + Len(q) + 1 /\ z = c + 1 + Len(v) + 1  BY <1>8, <1>9, <1>13 DEF c
<1>19. LineAt(t, x, c, z, h)
  BY <1>13, <1>14, <1>15, <1>16, <1>17, <1>18 DEF LineAt, q, v
<1> QED  BY <1>13, <1>19 DEF LineLies

\* The lines of a dictionary grow into the text of its headers.
LEMMA LinesGrow ==
  ASSUME NEW headers \in Dictionaries
  PROVE  /\ Len(headers) \in Nat /\ DOMAIN headers = 1 .. Len(headers)
         /\ Len(Lines(headers)) = Len(headers)
         /\ \A n \in 1 .. Len(headers) : Lines(headers)[n] = HeaderLine(headers[n])
         /\ Grows(Begins(headers), Lines(headers), Cells)
         /\ Begins(headers)[Len(headers)] = FlattenSeq(Lines(headers))
<1>1. headers \in Seq(Seq(Cells) \X (Seq(Cells) \cup {NULL}))  BY SentAssumption
<1>2. Len(headers) \in Nat /\ DOMAIN headers = 1 .. Len(headers)  BY <1>1, LenProperties
<1>3. ASSUME NEW n \in 1 .. Len(headers) PROVE HeaderLine(headers[n]) \in Seq(Cells)
  <2>1. CASE Shown(headers[n])  BY <2>1, SentHeader, HeaderLineSeq
  <2>2. CASE ~ Shown(headers[n])
    <3>1. HeaderLine(headers[n]) = <<>>  BY <2>2 DEF Shown, HeaderLine
    <3> QED  BY <3>1, EmptySeq
  <2> QED  BY <2>1, <2>2
<1>4. /\ Lines(headers) \in Seq(Seq(Cells)) /\ Len(Lines(headers)) = Len(headers)
      /\ \A n \in 1 .. Len(headers) : Lines(headers)[n] = HeaderLine(headers[n])
  BY <1>2, <1>3 DEF Lines
<1>5. \E e : Grows(e, Lines(headers), Cells) /\ e[Len(Lines(headers))] = FlattenSeq(Lines(headers))
  BY <1>4, FlattenGrows
<1>6. Grows(Begins(headers), Lines(headers), Cells) /\ Begins(headers)[Len(headers)] = FlattenSeq(Lines(headers))
  BY <1>4, <1>5 DEF Begins
<1> QED  BY <1>2, <1>4, <1>6

LEMMA BuiltStands ==
  ASSUME NEW first \in Seq(Cells), NEW headers \in Dictionaries
  PROVE  HeadStands(Built(first, headers), first, headers)
<1> DEFINE N == Len(headers)
           e == Begins(headers)
           seqs == Lines(headers)
           g == e[N]
           u == first \o <<CRLF>>
           w == u \o g
           t == w \o <<CRLF>>
<1>1. /\ N \in Nat /\ Len(seqs) = N /\ Grows(e, seqs, Cells) /\ g = FlattenSeq(seqs)
      /\ \A n \in 1 .. N : seqs[n] = HeaderLine(headers[n])
  BY LinesGrow
<1>2. Built(first, headers) = t  BY <1>1 DEF Built, Lines
<1>3. Sizes(e, seqs) /\ Places(e, seqs)  BY <1>1, GrowsPlaces
<1> HIDE DEF e, seqs
<1>4. g \in Seq(Cells)  BY <1>1 DEF Grows
<1>5. e[0] = <<>>  BY <1>1 DEF Grows
<1>6. \A n \in 0 .. N : Len(e[n]) \in Nat  BY <1>1, <1>3 DEF Sizes
<1> HIDE DEF g
<1>7. u \in Seq(Cells) /\ Joins(u, first, <<CRLF>>)  BY CellTexts, Joint
<1> HIDE DEF u
<1>8. w \in Seq(Cells) /\ Joins(w, u, g)  BY <1>4, <1>7, Joint
<1> HIDE DEF w
<1>9. t \in Seq(Cells) /\ Joins(t, w, <<CRLF>>)  BY <1>8, CellTexts, Joint
<1> HIDE DEF t
<1>10. PICK a \in Nat : a = Len(first)  BY LenProperties
<1>11. PICK b \in Nat : b = Len(g)  BY <1>4, LenProperties
<1>12. Len(u) = a + 1 /\ (\A j \in 1 .. a : u[j] = first[j]) /\ u[a + 1] = CRLF
  BY <1>7, <1>10, CellTexts DEF Joins
<1>13. /\ Len(w) = a + 1 + b /\ \A j \in 1 .. a + 1 : w[j] = u[j]
       /\ \A m \in 1 .. b : w[a + 1 + m] = g[m]
  BY <1>8, <1>11, <1>12 DEF Joins
<1>14. /\ Len(t) = a + 1 + b + 1 /\ \A j \in 1 .. a + 1 + b : t[j] = w[j]
       /\ t[a + 1 + b + 1] = CRLF
  BY <1>9, <1>13, CellTexts DEF Joins
<1>15. Lies(t, 0, first)
  <2> SUFFICES ASSUME NEW m \in 1 .. a PROVE t[0 + m] = first[m]  BY <1>10 DEF Lies
  <2>1. 0 + m = m /\ m \in 1 .. a + 1 + b /\ m \in 1 .. a + 1  OBVIOUS
  <2> QED  BY <1>12, <1>13, <1>14, <2>1
<1>16. t[a + 1] = CRLF
  <2>1. a + 1 \in 1 .. a + 1 + b /\ a + 1 \in 1 .. a + 1  OBVIOUS
  <2> QED  BY <1>12, <1>13, <1>14, <2>1
<1>17. Stop(first, headers, 0) = a + 1
  <2>1. Len(e[0]) = 0  BY <1>5
  <2> QED  BY <1>10, <2>1 DEF Stop, e
<1>18. \A n \in 0 .. N : Stop(first, headers, n) \in Nat /\ Stop(first, headers, n) = a + 1 + Len(e[n])
  <2> SUFFICES ASSUME NEW n \in 0 .. N
      PROVE Stop(first, headers, n) \in Nat /\ Stop(first, headers, n) = a + 1 + Len(e[n])
    OBVIOUS
  <2>1. PICK y \in Nat : y = Len(e[n])  BY <1>6
  <2>2. Stop(first, headers, n) = Len(first) + 1 + Len(e[n])  BY DEF Stop, e
  <2>3. Stop(first, headers, n) = a + 1 + Len(e[n])  BY <1>10, <2>2, Zenon
  <2>4. Stop(first, headers, n) = a + 1 + y  BY <2>1, <2>3, Zenon
  <2>5. Stop(first, headers, n) \in Nat  BY <2>4
  <2> QED  BY <2>3, <2>5
<1>19. Stop(first, headers, N) = a + 1 + b
  <2>1. Stop(first, headers, N) = Len(first) + 1 + Len(g)  BY DEF Stop, e, g
  <2> QED  BY <1>10, <1>11, <2>1
<1>20. ASSUME NEW n \in 1 .. N, Shown(headers[n])
       PROVE  LineLies(t, Stop(first, headers, n - 1), Stop(first, headers, n), headers[n])
  <2> DEFINE line == HeaderLine(headers[n])
             x == Stop(first, headers, n - 1)
             z == Stop(first, headers, n)
  <2>1. n - 1 \in 0 .. N /\ n \in 0 .. N /\ N \in 1 .. N /\ n <= N  BY <1>1
  <2>2. seqs[n] = line  BY <1>1
  <2>3. Len(line) \in Nat /\ Len(e[n]) = Len(e[n - 1]) + Len(line)
    BY <1>1, <1>3, <2>2 DEF Sizes
  <2>4. \A m \in 1 .. Len(line) : Len(e[n - 1]) + m \in 1 .. Len(g) /\ g[Len(e[n - 1]) + m] = line[m]
    <3>1. Len(seqs) = N /\ N \in 1 .. Len(seqs) /\ n \in 1 .. Len(seqs) /\ n <= N  BY <1>1, <2>1
    <3>2. \A m \in 1 .. Len(seqs[n]) :
             Len(e[n - 1]) + m \in 1 .. Len(e[N]) /\ e[N][Len(e[n - 1]) + m] = seqs[n][m]
      BY <1>3, <3>1 DEF Places
    <3> QED  BY <2>2, <3>2 DEF g
  <2> HIDE DEF line
  <2>5. PICK y \in Nat : y = Len(e[n - 1])  BY <1>6, <2>1
  <2>6. PICK l \in Nat : l = Len(line)  BY <2>3
  <2>7. x = a + 1 + y /\ z = a + 1 + (y + l)
    <3>1. Len(e[n]) = y + l  BY <2>3, <2>5, <2>6
    <3>2. x = a + 1 + Len(e[n - 1]) /\ z = a + 1 + Len(e[n])  BY <1>18, <2>1
    <3> QED  BY <2>5, <3>1, <3>2
  <2>8. \A m \in 1 .. l : y + m \in 1 .. b /\ g[y + m] = line[m]
    BY <1>11, <2>4, <2>5, <2>6
  <2> HIDE DEF x, z
  <2>9. Lies(t, x, line)
    <3> SUFFICES ASSUME NEW m \in 1 .. l PROVE t[x + m] = line[m]  BY <2>6 DEF Lies
    <3>1. y + m \in 1 .. b /\ g[y + m] = line[m]  BY <2>8
    <3>2. a + 1 + (y + m) \in 1 .. a + 1 + b /\ a + 1 + (y + m) = x + m  BY <2>7, <3>1
    <3>3. t[a + 1 + (y + m)] = w[a + 1 + (y + m)] /\ w[a + 1 + (y + m)] = g[y + m]
      BY <1>13, <1>14, <3>1, <3>2
    <3> QED  BY <3>1, <3>2, <3>3
  <2>10. x \in Nat /\ z = x + l  BY <2>7
  <2>11. z = x + Len(line)  BY <2>6, <2>10
  <2>12. z < Len(t)
    <3>1. CASE l = 0
      <4>1. Len(e[n - 1]) <= b
        <5>1. Nested(e, seqs)  BY <1>1, GrowsPlaces
        <5>2. Len(e[n - 1]) <= Len(e[N])
          <6>1. N \in 0 .. N /\ n - 1 <= N  BY <1>1
          <6> QED  BY <1>1, <2>1, <5>1, <6>1 DEF Nested
        <5> QED  BY <1>11, <5>2 DEF g
      <4>2. y <= b  BY <2>5, <4>1
      <4> QED  BY <1>14, <2>7, <3>1, <4>2
    <3>2. CASE l # 0
      <4>1. y + l \in 1 .. b  BY <2>8, <3>2
      <4> QED  BY <1>14, <2>7, <4>1
    <3> QED  BY <3>1, <3>2
  <2>13. Header1(headers[n])  BY <1>20, SentHeader
  <2> QED  BY <1>20, <2>9, <2>10, <2>11, <2>12, <2>13, HeaderLineLies DEF line, x, z
<1>21. Len(t) \in Nat /\ Len(first) + 1 < Len(t) /\ Len(first) \in Nat /\ t[Len(t)] = CRLF
       /\ t[Len(first) + 1] = CRLF /\ Stop(first, headers, 0) = Len(first) + 1
       /\ Len(t) = Stop(first, headers, N) + 1
  BY <1>10, <1>14, <1>16, <1>17, <1>19
<1>22. HeadStands(t, first, headers)  BY <1>15, <1>18, <1>20, <1>21 DEF HeadStands
<1> QED  BY <1>2, <1>22

\* What a dictionary holds besides what the first line gives.
Entries(d, keys) == {<<k, d[k]>> : k \in DOMAIN d \ keys}

HaveArrived(d, keys, h, n) == keys \subseteq DOMAIN d /\ Entries(d, keys) = Arrived(h, n)

Blanks(keys) == \A k \in keys : k[1] = Blank

\* A line begins where the one before it ends, and all before it has arrived.
Standing(f, h, from, d, keys) ==
  \E n \in 1 .. Len(h) + 1 :
    /\ from = Stop(f, h, n - 1) + 1
    /\ n <= Len(h) => Shown(h[n])
    /\ HaveArrived(d, keys, h, n - 1)

FirstOf(ty, f) == IF ty = "request" THEN f \in Requests ELSE f \in Responses

SentHead(f, h, ty, t, length) ==
  FirstOf(ty, f) /\ h \in Dictionaries /\ t = Built(f, h) /\ length = Len(t)

Reading(f, h, from, no, d, keys, r) ==
  /\ no = 0 => d = <<>> /\ r = NULL
  /\ no # 0 => Standing(f, h, from, d, keys)
  /\ r # NULL => r = TRUE /\ Entries(d, keys) = Arrived(h, Len(h))

ArriveInv ==
  built # NULL =>
    \E f : SentHead(f, built, type, head, headsize) /\ Reading(f, built, linebuf, lineno, hdr, FirstKeys, ret)

\* The first end of a line is one place.
LEMMA FirstEnd ==
  ASSUME NEW t, NEW from \in Nat, NEW y \in Nat, NEW z \in Nat, from <= y, from <= z,
         t[y] = CRLF, t[z] = CRLF,
         \A n \in from .. y - 1 : t[n] # CRLF, \A n \in from .. z - 1 : t[n] # CRLF
  PROVE  y = z
<1>1. CASE y < z
  <2>1. y \in from .. z - 1  BY <1>1
  <2> QED  BY <2>1
<1>2. CASE z < y
  <2>1. z \in from .. y - 1  BY <1>2
  <2> QED  BY <2>1
<1> QED  BY <1>1, <1>2

\* The next line that is sent, with none in between.
ToNext(f, h, n) ==
  \E m \in 1 .. Len(h) + 1 :
    /\ m <= Len(h) => Shown(h[m])
    /\ Stop(f, h, m - 1) = Stop(f, h, n - 1) /\ Arrived(h, m - 1) = Arrived(h, n - 1)

LEMMA NextShown ==
  ASSUME NEW f, NEW h \in Dictionaries, NEW n \in 1 .. Len(h) + 1
  PROVE  ToNext(f, h, n)
<1> DEFINE N == Len(h)
           e == Begins(h)
           K == {k \in 1 .. N : Shown(h[k])}
           g == [k \in 0 .. N |-> <<e[k], Arrived(h, k)>>]
<1>1. /\ N \in Nat /\ Len(Lines(h)) = N /\ Grows(e, Lines(h), Cells)
      /\ \A k \in 1 .. N : Lines(h)[k] = HeaderLine(h[k])
  BY LinesGrow
<1>2. ASSUME NEW k \in 1 .. N, k \notin K PROVE g[k] = g[k - 1]
  <2>0. k \in 0 .. N /\ k - 1 \in 0 .. N  BY <1>1
  <2>1. ~ Shown(h[k])  BY <1>2
  <2>2. Lines(h)[k] = <<>>  BY <1>1, <2>1 DEF Shown, HeaderLine
  <2>3. e[k - 1] \in Seq(Cells) /\ e[k] = e[k - 1] \o <<>>
    <3> HIDE DEF e
    <3> QED  BY <1>1, <2>0, <2>2 DEF Grows
  <2>4. e[k] = e[k - 1]
    <3> HIDE DEF e
    <3> QED  BY <2>3
  <2>5. Arrived(h, k) = Arrived(h, k - 1)
    <3>1. {j \in 1 .. k : Shown(h[j])} = {j \in 1 .. k - 1 : Shown(h[j])}
      <4>1. \A j \in 1 .. k : j \in 1 .. k - 1 \/ j = k  OBVIOUS
      <4>2. \A j \in 1 .. k - 1 : j \in 1 .. k  OBVIOUS
      <4> QED  BY <2>1, <4>1, <4>2
    <3> QED  BY <3>1 DEF Arrived
  <2> HIDE DEF e
  <2> QED  BY <2>0, <2>4, <2>5
<1> HIDE DEF g, e
<1>3. PICK m \in 1 .. N + 1 : (m <= N => m \in K) /\ g[m - 1] = g[n - 1]
  <2>1. N \in Nat /\ n \in 1 .. N + 1  BY <1>1
  <2>2. Skips(N, K, g)  BY <1>2 DEF Skips
  <2> HIDE DEF K, N
  <2>3. NextIn(N, K, g, n)  BY <2>1, <2>2, NextOf
  <2> QED  BY <2>3 DEF NextIn
<1>4. m - 1 \in 0 .. N /\ n - 1 \in 0 .. N  BY <1>1
<1>5. <<e[m - 1], Arrived(h, m - 1)>> = <<e[n - 1], Arrived(h, n - 1)>>  BY <1>3, <1>4 DEF g
<1>6. Stop(f, h, m - 1) = Stop(f, h, n - 1)  BY <1>5 DEF Stop, e
<1>7. m <= Len(h) => Shown(h[m])  BY <1>3
<1> QED  BY <1>5, <1>6, <1>7 DEF ToNext

\* One more header has arrived.
LEMMA OneMore ==
  ASSUME NEW h \in Dictionaries, NEW n \in 1 .. Len(h), Shown(h[n]), NEW d, NEW keys,
         Blanks(keys), HaveArrived(d, keys, h, n - 1),
         NEW c, c = Set(d, TRUE, h[n][1], Bare(h[n][2]))
  PROVE  HaveArrived(c, keys, h, n)
<1> DEFINE q == h[n][1]
           v == Bare(h[n][2])
           Before == {j \in 1 .. n - 1 : Shown(h[j])}
           Upto == {j \in 1 .. n : Shown(h[j])}
<1>1. Header1(h[n]) /\ DOMAIN h = 1 .. Len(h)  BY SentHeader
<1>2. q \notin keys
  <2>1. q[1] \in Letters /\ Blank \notin Letters  BY <1>1, AreSeparate DEF Header1, Separate
  <2> QED  BY <2>1 DEF Blanks
<1>3. Upto = Before \cup {n} /\ n \notin Before
  <2>1. \A j \in 1 .. n : j \in 1 .. n - 1 \/ j = n  OBVIOUS
  <2>2. (\A j \in 1 .. n - 1 : j \in 1 .. n) /\ n \in 1 .. n /\ n \notin 1 .. n - 1  OBVIOUS
  <2> QED  BY <2>1, <2>2
<1>4. Before \subseteq 1 .. Len(h)  BY <1>1
<1>5. Arrived(h, n) = Arrived(h, n - 1) \cup {<<q, v>>}
  <2> HIDE DEF q, v
  <2>1. Arrived(h, n) = {<<h[j][1], Bare(h[j][2])>> : j \in Upto}  BY DEF Arrived
  <2>2. Arrived(h, n - 1) = {<<h[j][1], Bare(h[j][2])>> : j \in Before}  BY DEF Arrived
  <2> HIDE DEF Upto, Before
  <2>3. Arrived(h, n) = {<<h[j][1], Bare(h[j][2])>> : j \in Before} \cup {<<h[n][1], Bare(h[n][2])>>}
    BY <1>3, <2>1
  <2> QED  BY <2>2, <2>3 DEF q, v
<1>6. q \notin DOMAIN d
  <2> SUFFICES ASSUME q \in DOMAIN d PROVE FALSE  OBVIOUS
  <2>1. <<q, d[q]>> \in Arrived(h, n - 1)  BY <1>2 DEF Entries, HaveArrived
  <2>2. PICK j \in Before : <<q, d[q]>> = <<h[j][1], Bare(h[j][2])>>  BY <2>1 DEF Arrived
  <2>3. j \in DOMAIN h /\ n \in DOMAIN h /\ h[j][1] = h[n][1]  BY <1>1, <1>4, <2>2
  <2>4. j = n  BY <2>3, SentAssumption
  <2> QED  BY <1>3, <2>4
<1> HIDE DEF q, v
<1>7. c = [k \in DOMAIN d \cup {q} |-> IF k = q THEN v ELSE d[k]]  BY DEF Set, q, v
<1>8. DOMAIN c = DOMAIN d \cup {q} /\ c[q] = v /\ \A k \in DOMAIN d : c[k] = d[k]
  BY <1>6, <1>7
<1>9. DOMAIN c \ keys = (DOMAIN d \ keys) \cup {q}  BY <1>2, <1>8
<1>10. Entries(c, keys) = Entries(d, keys) \cup {<<q, v>>}
  <2>1. ASSUME NEW o, o \in Entries(c, keys) PROVE o \in Entries(d, keys) \cup {<<q, v>>}
    BY <1>8, <1>9, <2>1 DEF Entries
  <2>2. ASSUME NEW o, o \in Entries(d, keys) \cup {<<q, v>>} PROVE o \in Entries(c, keys)
    <3>1. CASE o = <<q, v>>
      <4>1. q \in DOMAIN c \ keys /\ o = <<q, c[q]>>  BY <1>8, <1>9, <3>1
      <4> QED  BY <4>1 DEF Entries
    <3>2. CASE o \in Entries(d, keys)
      <4>1. PICK k \in DOMAIN d \ keys : o = <<k, d[k]>>  BY <3>2 DEF Entries
      <4>2. k \in DOMAIN c \ keys /\ o = <<k, c[k]>>  BY <1>8, <1>9, <4>1
      <4> QED  BY <4>2 DEF Entries
    <3> QED  BY <2>2, <3>1, <3>2
  <2> QED  BY <2>1, <2>2
<1> QED  BY <1>5, <1>8, <1>10 DEF HaveArrived

LEMMA FirstText ==
  ASSUME NEW ty, NEW f, FirstOf(ty, f)
  PROVE  /\ OneLine(f) /\ f \in Seq(Cells) /\ Len(f) \in Nat /\ Len(f) > 0
         /\ ty = "request" => RequestText(f)
         /\ ty # "request" => ResponseText(f)
<1>1. /\ ty = "request" => RequestText(f)
      /\ ty # "request" => ResponseText(f)
  BY SentAssumption DEF FirstOf
<1>2. OneLine(f)  BY <1>1 DEF RequestText, ResponseText
<1>3. f \in Seq(Cells) /\ Len(f) \in Nat  BY <1>2, LenProperties DEF OneLine
<1>4. Len(f) > 0
  <2>1. CASE RequestText(f)
    <3>1. Len(f) - 3 > 3  BY <2>1 DEF RequestText
    <3> QED  BY <1>3, <3>1
  <2>2. CASE ResponseText(f)
    <3>1. Len(f) > 6  BY <2>2 DEF ResponseText
    <3> QED  BY <1>3, <3>1
  <2> QED  BY <1>1, <2>1, <2>2
<1> QED  BY <1>1, <1>2, <1>3, <1>4

LEMMA FirstKeysBlank == \A k \in FirstKeys : k[1] = Blank
BY DEF FirstKeys, METHOD, URL, VERSION, STATUS, MESSAGE

LEMMA SentStands ==
  ASSUME NEW f, NEW h, NEW ty, NEW t, NEW length, SentHead(f, h, ty, t, length)
  PROVE  HeadStands(t, f, h) /\ length = Len(t) /\ h \in Dictionaries /\ FirstOf(ty, f)
BY FirstText, BuiltStands DEF SentHead

\* The first line ends before the headers.
LEMMA FirstStop ==
  ASSUME NEW f, NEW h, NEW ty, NEW t, NEW length, SentHead(f, h, ty, t, length)
  PROVE  /\ Len(f) + 1 \in Nat /\ 1 <= Len(f) + 1 /\ t[Len(f) + 1] = CRLF
         /\ \A n \in 1 .. Len(f) + 1 - 1 : t[n] # CRLF
         /\ t[1] # CRLF
<1>1. HeadStands(t, f, h) /\ FirstOf(ty, f)  BY SentStands
<1>2. OneLine(f) /\ f \in Seq(Cells)  BY <1>1, FirstText
<1>3. PICK a \in Nat : a = Len(f) /\ DOMAIN f = 1 .. a  BY <1>2, LenProperties
<1>4. a > 0  BY <1>1, <1>3, FirstText
<1>5. t[a + 1] = CRLF  BY <1>1, <1>3 DEF HeadStands
<1>6. \A n \in 1 .. a : t[0 + n] = f[n]  BY <1>1, <1>3 DEF HeadStands, Lies
<1>7. \A n \in 1 .. a : t[n] # CRLF
  <2> SUFFICES ASSUME NEW n \in 1 .. a PROVE t[n] # CRLF  OBVIOUS
  <2>1. 0 + n = n  OBVIOUS
  <2>2. t[n] = f[n]  BY <1>6, <2>1
  <2> QED  BY <1>2, <1>3, <2>2 DEF OneLine
<1>8. a + 1 - 1 = a /\ 1 \in 1 .. a  BY <1>4
<1> QED  BY <1>3, <1>5, <1>7, <1>8

LEMMA ArriveInit == ParseInit => ArriveInv
<1> SUFFICES ASSUME ParseInit, built # NULL PROVE ArriveInv  BY DEF ArriveInv
<1>1. PICK f \in (IF type = "request" THEN Requests ELSE Responses) :
        \E headers \in Dictionaries :
          built = headers /\ head = Built(f, headers) /\ headsize = Len(head)
  BY DEF ParseInit
<1>2. SentHead(f, built, type, head, headsize)  BY <1>1 DEF SentHead, FirstOf
<1>3. Reading(f, built, linebuf, lineno, hdr, FirstKeys, ret)  BY DEF ParseInit, Reading
<1> QED  BY <1>2, <1>3 DEF ArriveInv

LEMMA FirstLineArrives ==
  ASSUME PInv, Line, lineno = 0, NEW f, NEW h, SentHead(f, h, type, head, headsize), hdr = <<>>
  PROVE  /\ Parsed.ok /\ cell = Stop(f, h, 0) /\ DOMAIN hdr' = FirstKeys
<1>1. HeadStands(head, f, h) /\ FirstOf(type, f) /\ headsize = Len(head)  BY SentStands
<1>2. /\ linebuf = 1 /\ cell \in Nat /\ 1 <= cell /\ head[cell] = CRLF /\ cell <= headsize
      /\ \A n \in 1 .. cell - 1 : head[n] # CRLF
  BY DEF PInv, LoopInv, Line
<1>3. cell = Len(f) + 1
  <2>1. 1 \in Nat  OBVIOUS
  <2>2. Len(f) + 1 \in Nat /\ 1 <= Len(f) + 1 /\ head[Len(f) + 1] = CRLF
        /\ \A n \in 1 .. Len(f) + 1 - 1 : head[n] # CRLF
    BY FirstStop
  <2>3. PICK y \in Nat : y = Len(f) + 1  BY <2>2
  <2>4. 1 <= y /\ head[y] = CRLF /\ \A n \in 1 .. y - 1 : head[n] # CRLF  BY <2>2, <2>3
  <2>5. cell = y  BY <1>2, <2>1, <2>4, FirstEnd
  <2> QED  BY <2>3, <2>5
<1>4. Lies(head, 0, f) /\ Stop(f, h, 0) = Len(f) + 1 /\ Len(head) \in Nat /\ cell <= Len(head)
  BY <1>1, <1>2 DEF HeadStands
<1>5. CASE type = "request"
  <2>1. RequestText(f)  BY <1>1, <1>5, FirstText
  <2>2. RequestLine(<<>>).ok /\ DOMAIN RequestLine(<<>>).dict = {METHOD, URL, VERSION}
    BY <1>2, <1>3, <1>4, <2>1, RequestReads
  <2>3. Parsed = RequestLine(<<>>)  BY <1>5 DEF Parsed
  <2> QED  BY <1>3, <1>4, <1>5, <2>2, <2>3 DEF FirstKeys, Line
<1>6. CASE type # "request"
  <2>1. ResponseText(f)  BY <1>1, <1>6, FirstText
  <2>2. ResponseLine(<<>>).ok /\ DOMAIN ResponseLine(<<>>).dict = {VERSION, STATUS, MESSAGE}
    BY <1>2, <1>3, <1>4, <2>1, ResponseReads
  <2>3. Parsed = ResponseLine(<<>>)  BY <1>6 DEF Parsed
  <2> QED  BY <1>3, <1>4, <1>6, <2>2, <2>3 DEF FirstKeys, Line
<1> QED  BY <1>5, <1>6

LEMMA HeaderArrives ==
  ASSUME PInv, Line, lineno # 0, NEW f, NEW h, SentHead(f, h, type, head, headsize),
         NEW n \in 1 .. Len(h) + 1, linebuf = Stop(f, h, n - 1) + 1, n <= Len(h) => Shown(h[n]),
         FirstKeys \subseteq DOMAIN hdr, Entries(hdr, FirstKeys) = Arrived(h, n - 1)
  PROVE  /\ Parsed.ok /\ n \in 1 .. Len(h) /\ cell = Stop(f, h, n)
         /\ FirstKeys \subseteq DOMAIN hdr' /\ Entries(hdr', FirstKeys) = Arrived(h, n)
<1>1. HeadStands(head, f, h) /\ h \in Dictionaries /\ headsize = Len(head)  BY SentStands
<1>2. /\ linebuf \in Nat /\ cell \in Nat /\ linebuf < cell /\ head[cell] = CRLF /\ cell <= headsize
      /\ \A j \in linebuf .. cell - 1 : head[j] # CRLF
  BY DEF PInv, LoopInv, Line
<1>3. n \in 1 .. Len(h)
  <2> SUFFICES ASSUME n \notin 1 .. Len(h) PROVE FALSE  OBVIOUS
  <2>0. Len(h) \in Nat  BY <1>1, LinesGrow
  <2>1. n - 1 = Len(h)  BY <2>0
  <2>2. Len(head) = linebuf  BY <1>1, <2>1 DEF HeadStands
  <2> QED  BY <1>1, <1>2, <2>2
<1> DEFINE x == Stop(f, h, n - 1)
           z == Stop(f, h, n)
<1>4. Shown(h[n])  BY <1>3
<1>5. LineLies(head, x, z, h[n])  BY <1>1, <1>3, <1>4 DEF HeadStands
<1>6. Header1(h[n])  BY <1>1, <1>3, <1>4, SentHeader
<1> HIDE DEF x, z
<1>7. x \in Nat /\ z \in Nat /\ x + 1 < z /\ head[z] = CRLF /\ \A j \in x + 1 .. z - 1 : head[j] # CRLF
  BY <1>5, <1>6, InsideLine
<1>8. linebuf = x + 1  BY DEF x
<1>9. cell = z
  <2>1. linebuf <= cell /\ linebuf <= z  BY <1>2, <1>7, <1>8
  <2>2. \A j \in linebuf .. z - 1 : head[j] # CRLF  BY <1>7, <1>8
  <2> QED  BY <1>2, <1>7, <2>1, <2>2, FirstEnd
<1>10. Header(hdr) = [dict |-> Set(hdr, TRUE, h[n][1], Bare(h[n][2])), ok |-> TRUE]
  BY <1>5, <1>6, <1>8, <1>9, HeaderReads
<1>11. Parsed = Header(hdr)
  <2>1. lineno > 0  BY DEF PInv, LoopInv
  <2> QED  BY <2>1 DEF Parsed
<1>12. hdr' = Set(hdr, TRUE, h[n][1], Bare(h[n][2])) /\ Parsed.ok  BY <1>10, <1>11 DEF Line
<1>13. FirstKeys \subseteq DOMAIN hdr' /\ Entries(hdr', FirstKeys) = Arrived(h, n)
  <2> DEFINE keys == FirstKeys
             c == hdr'
  <2>1. Blanks(keys)  BY FirstKeysBlank DEF Blanks
  <2>2. HaveArrived(hdr, keys, h, n - 1)  BY DEF HaveArrived
  <2>3. c = Set(hdr, TRUE, h[n][1], Bare(h[n][2]))  BY <1>12
  <2> HIDE DEF keys, c
  <2>4. HaveArrived(c, keys, h, n)  BY <1>1, <1>3, <1>4, <2>1, <2>2, <2>3, OneMore
  <2> QED  BY <2>4 DEF HaveArrived, keys, c
<1> QED  BY <1>3, <1>9, <1>12, <1>13 DEF z

LEMMA ArriveLine == ASSUME PInv, ArriveInv, Line PROVE ArriveInv'
<1> SUFFICES ASSUME built # NULL PROVE ArriveInv'
  BY DEF ArriveInv, Line
<1>1. PICK f : SentHead(f, built, type, head, headsize) /\ Reading(f, built, linebuf, lineno, hdr, FirstKeys, ret)
  BY DEF ArriveInv
<1>2. UNCHANGED <<type, head, headsize, built>> /\ FirstKeys' = FirstKeys /\ ret = NULL
  BY DEF Line, FirstKeys
<1>3. built \in Dictionaries /\ HeadStands(head, f, built) /\ headsize = Len(head)  BY <1>1, SentStands
<1>4. Len(built) \in Nat  BY <1>3, LinesGrow
<1>5. \E n \in 0 .. Len(built) : /\ Parsed.ok /\ cell = Stop(f, built, n)
                                 /\ FirstKeys \subseteq DOMAIN hdr'
                                 /\ Entries(hdr', FirstKeys) = Arrived(built, n)
  <2>1. CASE lineno = 0
    <3>1. hdr = <<>>  BY <1>1, <2>1 DEF Reading
    <3>2. Parsed.ok /\ cell = Stop(f, built, 0) /\ DOMAIN hdr' = FirstKeys
      BY <1>1, <2>1, <3>1, FirstLineArrives
    <3>3. Entries(hdr', FirstKeys) = {}  BY <3>2 DEF Entries
    <3>4. Arrived(built, 0) = {}
      <4>1. 1 .. 0 = {}  OBVIOUS
      <4> QED  BY <4>1 DEF Arrived
    <3>5. 0 \in 0 .. Len(built)  BY <1>4
    <3> QED  BY <3>2, <3>3, <3>4, <3>5
  <2>2. CASE lineno # 0
    <3>1. PICK n \in 1 .. Len(built) + 1 :
            /\ linebuf = Stop(f, built, n - 1) + 1
            /\ n <= Len(built) => Shown(built[n])
            /\ FirstKeys \subseteq DOMAIN hdr /\ Entries(hdr, FirstKeys) = Arrived(built, n - 1)
      BY <1>1, <2>2 DEF Reading, Standing, HaveArrived
    <3>2. /\ Parsed.ok /\ n \in 1 .. Len(built) /\ cell = Stop(f, built, n)
          /\ FirstKeys \subseteq DOMAIN hdr' /\ Entries(hdr', FirstKeys) = Arrived(built, n)
      BY <1>1, <2>2, <3>1, HeaderArrives
    <3>3. n \in 0 .. Len(built)  BY <1>4, <3>2
    <3> QED  BY <3>2, <3>3
  <2> QED  BY <2>1, <2>2
<1>6. PICK n \in 0 .. Len(built) :
        /\ Parsed.ok /\ cell = Stop(f, built, n)
        /\ FirstKeys \subseteq DOMAIN hdr' /\ Entries(hdr', FirstKeys) = Arrived(built, n)
  BY <1>5
<1>7. n + 1 \in 1 .. Len(built) + 1 /\ n + 1 - 1 = n  BY <1>4
<1>8. PICK m \in 1 .. Len(built) + 1 :
        /\ m <= Len(built) => Shown(built[m])
        /\ Stop(f, built, m - 1) = Stop(f, built, n) /\ Arrived(built, m - 1) = Arrived(built, n)
  <2>1. \E m \in 1 .. Len(built) + 1 :
          /\ m <= Len(built) => Shown(built[m])
          /\ Stop(f, built, m - 1) = Stop(f, built, (n + 1) - 1)
          /\ Arrived(built, m - 1) = Arrived(built, (n + 1) - 1)
    <3> DEFINE o == n + 1
    <3>1. o \in 1 .. Len(built) + 1  BY <1>7
    <3> HIDE DEF o
    <3>2. ToNext(f, built, o)  BY <1>3, <3>1, NextShown
    <3> QED  BY <3>2 DEF ToNext, o
  <2> QED  BY <1>7, <2>1
<1>9. linebuf' = cell + 1 /\ lineno' = lineno + 1 /\ ret' = NULL  BY <1>2, <1>6 DEF Line
<1>10. lineno' # 0
  <2>1. lineno \in Nat  BY DEF PInv, LoopInv
  <2> QED  BY <1>9, <2>1
<1>11. linebuf' = Stop(f, built, m - 1) + 1  BY <1>6, <1>8, <1>9
<1>12. Standing(f, built, linebuf', hdr', FirstKeys)
  BY <1>6, <1>8, <1>11 DEF Standing, HaveArrived
<1>13. Reading(f, built', linebuf', lineno', hdr', FirstKeys', ret')
  BY <1>2, <1>9, <1>10, <1>12 DEF Reading
<1>14. SentHead(f, built', type', head', headsize')  BY <1>1, <1>2
<1> QED  BY <1>13, <1>14 DEF ArriveInv

LEMMA ArriveEnd == ASSUME PInv, ArriveInv, End PROVE ArriveInv'
<1> SUFFICES ASSUME built # NULL PROVE ArriveInv'
  BY DEF ArriveInv, End
<1>1. PICK f : SentHead(f, built, type, head, headsize) /\ Reading(f, built, linebuf, lineno, hdr, FirstKeys, ret)
  BY DEF ArriveInv
<1>2. /\ UNCHANGED <<type, head, headsize, linebuf, cell, lineno, hdr, built>>
      /\ FirstKeys' = FirstKeys /\ ret' = TRUE
  BY DEF End, FirstKeys
<1>3. built \in Dictionaries /\ HeadStands(head, f, built) /\ headsize = Len(head)  BY <1>1, SentStands
<1>4. Len(built) \in Nat  BY <1>3, LinesGrow
<1>5. Len(head) \in Nat /\ head[Len(head)] = CRLF /\ Len(f) \in Nat /\ Len(f) + 1 < Len(head)
      /\ Len(head) = Stop(f, built, Len(built)) + 1
  BY <1>3 DEF HeadStands
<1>6. /\ linebuf \in Nat /\ cell \in Nat /\ linebuf <= cell /\ linebuf > 0 /\ lineno \in Nat
      /\ (lineno = 0 => linebuf = 1) /\ \A n \in linebuf .. cell - 1 : head[n] # CRLF
  BY DEF PInv, LoopInv
<1>7. lineno # 0
  <2> SUFFICES ASSUME lineno = 0 PROVE FALSE  OBVIOUS
  <2>1. linebuf = 1  BY <1>6
  <2>2. CASE cell > headsize
    <3>1. Len(head) \in linebuf .. cell - 1  BY <1>3, <1>5, <1>6, <2>1, <2>2
    <3> QED  BY <1>5, <1>6, <3>1
  <2>3. CASE head[cell] = CRLF /\ linebuf = cell
    <3>1. head[1] # CRLF  BY <1>1, FirstStop
    <3> QED  BY <2>1, <2>3, <3>1
  <2> QED  BY <2>2, <2>3 DEF End
<1>8. PICK n \in 1 .. Len(built) + 1 :
        /\ linebuf = Stop(f, built, n - 1) + 1
        /\ n <= Len(built) => Shown(built[n])
        /\ FirstKeys \subseteq DOMAIN hdr /\ Entries(hdr, FirstKeys) = Arrived(built, n - 1)
  BY <1>1, <1>7 DEF Reading, Standing, HaveArrived
<1>9. n = Len(built) + 1
  <2> SUFFICES ASSUME n # Len(built) + 1 PROVE FALSE  OBVIOUS
  <2>1. n \in 1 .. Len(built)  BY <1>4
  <2>2. Shown(built[n])  BY <1>8, <2>1
  <2> DEFINE x == Stop(f, built, n - 1)
             z == Stop(f, built, n)
  <2>3. LineLies(head, x, z, built[n])  BY <1>3, <2>1, <2>2 DEF HeadStands
  <2>4. Header1(built[n])  BY <1>3, <2>1, <2>2, SentHeader
  <2>5. linebuf = x + 1  BY <1>8
  <2> HIDE DEF x, z
  <2>6. x \in Nat /\ z \in Nat /\ x + 1 < z /\ z < Len(head) /\ head[z] = CRLF
        /\ \A j \in x + 1 .. z - 1 : head[j] # CRLF
    BY <2>3, <2>4, InsideLine
  <2>7. CASE cell > headsize
    <3>1. z \in linebuf .. cell - 1  BY <1>3, <1>5, <1>6, <2>5, <2>6, <2>7
    <3> QED  BY <1>6, <2>6, <3>1
  <2>8. CASE head[cell] = CRLF /\ linebuf = cell
    <3>1. linebuf \in x + 1 .. z - 1  BY <2>5, <2>6
    <3> QED  BY <2>6, <2>8, <3>1
  <2> QED  BY <2>7, <2>8 DEF End
<1>10. n - 1 = Len(built)  BY <1>4, <1>9
<1>11. Entries(hdr, FirstKeys) = Arrived(built, Len(built))  BY <1>8, <1>10
<1>12. Standing(f, built, linebuf, hdr, FirstKeys)  BY <1>1, <1>7 DEF Reading
<1>13. Reading(f, built', linebuf', lineno', hdr', FirstKeys', ret')
  BY <1>2, <1>7, <1>11, <1>12 DEF Reading
<1>14. SentHead(f, built', type', head', headsize')  BY <1>1, <1>2
<1> QED  BY <1>13, <1>14 DEF ArriveInv

LEMMA ArriveStep == PInv /\ ArriveInv /\ [ParseNext]_headVars => ArriveInv'
<1> SUFFICES ASSUME PInv, ArriveInv, [ParseNext]_headVars PROVE ArriveInv'  OBVIOUS
<1>1. CASE Cell
  <2>1. UNCHANGED <<type, head, headsize, linebuf, lineno, hdr, ret, built>>  BY <1>1 DEF Cell
  <2> QED  BY <2>1 DEF ArriveInv, FirstKeys
<1>2. CASE Line  BY <1>2, ArriveLine
<1>3. CASE End  BY <1>3, ArriveEnd
<1>4. CASE UNCHANGED headVars  BY <1>4 DEF ArriveInv, FirstKeys, headVars
<1> QED  BY <1>1, <1>2, <1>3, <1>4 DEF ParseNext

\* The headers this library sends are the ones it reads (http_send_request,
\* http_send_response, _http_parse_lines).
THEOREM HeadersArriveHolds == ParseSpec => []HeadersArrive
<1>1. PInv /\ ArriveInv => HeadersArrive
  <2> SUFFICES ASSUME ArriveInv, ret # NULL, built # NULL PROVE HeadersArrive!2
    BY DEF HeadersArrive
  <2>1. PICK f : SentHead(f, built, type, head, headsize) /\ Reading(f, built, linebuf, lineno, hdr, FirstKeys, ret)
    BY DEF ArriveInv
  <2>2. ret = TRUE /\ Entries(hdr, FirstKeys) = Arrived(built, Len(built))  BY <2>1 DEF Reading
  <2>3. DOMAIN built = 1 .. Len(built)  BY <2>1, LinesGrow DEF SentHead
  <2>4. Arrived(built, Len(built)) =
          {<<built[n][1], Bare(built[n][2])>> :
             n \in {m \in DOMAIN built : built[m][2] # NULL /\ ~Internal(built[m][1])}}
    BY <2>3 DEF Arrived, Shown
  <2> QED  BY <2>2, <2>4 DEF Entries
<1>2. PInv /\ ArriveInv /\ [ParseNext]_headVars => ArriveInv'  BY ArriveStep
<1>3. ParseInit => ArriveInv  BY ArriveInit
<1> QED  BY <1>1, <1>2, <1>3, ParseInvariance, PTL DEF ParseSpec

-----------------------------------------------------------------------------
(* Paths *)

PathCells == Separators \cup Components
ArgLists  == Seq(Seq(PathCells))

\* The arguments one behind the other.
ArgsUpTo(as) == CHOOSE e : Grows(e, as, PathCells) /\ e[Len(as)] = FlattenSeq(as)

\* What join appends for each argument, and its result as it grows.
PartsOf(as) == [n \in DOMAIN as |-> Between(as, n) \o as[n]]

JoinUpTo(as) ==
  CHOOSE e : Grows(e, PartsOf(as), PathCells) /\ e[Len(as)] = FlattenSeq(PartsOf(as))

LEMMA FunctionSeq ==
  ASSUME NEW S, NEW N \in Nat, NEW w \in [1 .. N -> S]
  PROVE  w \in Seq(S) /\ Len(w) = N
OBVIOUS

LEMMA JoinGrows ==
  ASSUME NEW as \in ArgLists
  PROVE  /\ Len(as) \in Nat /\ DOMAIN as = 1 .. Len(as)
         /\ \A n \in 1 .. Len(as) : as[n] \in Seq(PathCells)
         /\ Grows(ArgsUpTo(as), as, PathCells) /\ ArgsUpTo(as)[Len(as)] = FlattenSeq(as)
         /\ Len(PartsOf(as)) = Len(as)
         /\ \A n \in 1 .. Len(as) : PartsOf(as)[n] = Between(as, n) \o as[n]
         /\ Grows(JoinUpTo(as), PartsOf(as), PathCells)
         /\ JoinUpTo(as)[Len(as)] = JoinReference(as)
<1>1. as \in Seq(Seq(PathCells))  BY DEF ArgLists
<1>2. Len(as) \in Nat /\ DOMAIN as = 1 .. Len(as)  BY <1>1, LenProperties
<1>3. \A n \in 1 .. Len(as) : as[n] \in Seq(PathCells)  BY <1>1, <1>2, ElementOfSeq
<1>4. \E e : Grows(e, as, PathCells) /\ e[Len(as)] = FlattenSeq(as)  BY <1>1, FlattenGrows
<1>5. Grows(ArgsUpTo(as), as, PathCells) /\ ArgsUpTo(as)[Len(as)] = FlattenSeq(as)
  BY <1>4 DEF ArgsUpTo
<1>6. ASSUME NEW n \in 1 .. Len(as) PROVE Between(as, n) \o as[n] \in Seq(PathCells)
  <2>1. Between(as, n) \in {<<>>, <<Sep>>}  BY DEF Between
  <2>2. <<>> \in Seq(PathCells) /\ <<Sep>> \in Seq(PathCells)  BY DEF PathCells, Separators
  <2>3. Between(as, n) \in Seq(PathCells)  BY <2>1, <2>2
  <2>4. as[n] \in Seq(PathCells)  BY <1>3
  <2> QED  BY <2>3, <2>4, Joint
<1>7. /\ PartsOf(as) \in Seq(Seq(PathCells)) /\ Len(PartsOf(as)) = Len(as)
      /\ \A n \in 1 .. Len(as) : PartsOf(as)[n] = Between(as, n) \o as[n]
  <2> DEFINE part(n) == Between(as, n) \o as[n]
  <2>1. PartsOf(as) = [n \in 1 .. Len(as) |-> part(n)]  BY <1>2 DEF PartsOf
  <2>2. \A n \in 1 .. Len(as) : part(n) \in Seq(PathCells)  BY <1>6
  <2>3. \A n \in 1 .. Len(as) : PartsOf(as)[n] = part(n)  BY <2>1
  <2> HIDE DEF part
  <2>4. PartsOf(as) \in [1 .. Len(as) -> Seq(PathCells)]  BY <2>1, <2>2
  <2>5. PartsOf(as) \in Seq(Seq(PathCells)) /\ Len(PartsOf(as)) = Len(as)
    BY <1>2, <2>4, FunctionSeq
  <2> QED  BY <2>3, <2>5 DEF part
<1>8. \E e : Grows(e, PartsOf(as), PathCells) /\ e[Len(PartsOf(as))] = FlattenSeq(PartsOf(as))
  BY <1>7, FlattenGrows
<1>9. Grows(JoinUpTo(as), PartsOf(as), PathCells) /\ JoinUpTo(as)[Len(as)] = FlattenSeq(PartsOf(as))
  BY <1>7, <1>8 DEF JoinUpTo
<1>10. JoinReference(as) = FlattenSeq(PartsOf(as))  BY DEF JoinReference, PartsOf
<1> QED  BY <1>2, <1>3, <1>5, <1>7, <1>9, <1>10

\* The room for the arguments, the separators before them and a terminator.
RoomLeft(as, n, u) == u \in Nat /\ u <= Len(ArgsUpTo(as)[n]) + n

\* How the arguments before the next one make room.
LEMMA RoomGrows ==
  ASSUME NEW as \in ArgLists, NEW n \in 0 .. Len(as) - 1, NEW u, RoomLeft(as, n, u),
         NEW w \in Nat, w <= u + Len(as[n + 1]) + 1
  PROVE  RoomLeft(as, n + 1, w)
<1> DEFINE e == ArgsUpTo(as)
<1>1. Len(as) \in Nat /\ Grows(e, as, PathCells)  BY JoinGrows
<1> HIDE DEF e
<1>2. Sizes(e, as)  BY <1>1, GrowsPlaces
<1>0. PICK N \in Nat : N = Len(as)  BY <1>1
<1>3. n + 1 \in 1 .. Len(as) /\ n \in 0 .. Len(as) /\ n + 1 \in 0 .. Len(as) /\ (n + 1) - 1 = n
  <2>1. n \in 0 .. N - 1  BY <1>0
  <2>2. n + 1 \in 1 .. N /\ n \in 0 .. N /\ n + 1 \in 0 .. N /\ (n + 1) - 1 = n  BY <2>1
  <2> QED  BY <1>0, <2>2
<1>4. Len(e[n]) \in Nat /\ Len(as[n + 1]) \in Nat  BY <1>2, <1>3 DEF Sizes
<1>5. Len(e[n + 1]) = Len(e[(n + 1) - 1]) + Len(as[n + 1])  BY <1>2, <1>3 DEF Sizes
<1>6. PICK x \in Nat : x = Len(e[n])  BY <1>4
<1>7. PICK y \in Nat : y = Len(as[n + 1])  BY <1>4
<1>8. Len(e[n + 1]) = x + y  BY <1>3, <1>5, <1>6, <1>7
<1>9. u \in Nat /\ u <= x + n /\ w <= u + y + 1  BY <1>6, <1>7 DEF RoomLeft, e
<1>10. w <= x + y + (n + 1)  BY <1>3, <1>9
<1> QED  BY <1>8, <1>10 DEF RoomLeft, e

LEMMA RoomEnough ==
  ASSUME NEW as \in ArgLists, NEW n \in 0 .. Len(as), NEW u, RoomLeft(as, n, u)
  PROVE  Total(as) \in Nat /\ u < Total(as)
<1> DEFINE e == ArgsUpTo(as)
<1>0. PICK N \in Nat : N = Len(as)  BY JoinGrows
<1>1. N \in Nat /\ Grows(e, as, PathCells) /\ e[N] = FlattenSeq(as)  BY <1>0, JoinGrows
<1> HIDE DEF e
<1>2. Sizes(e, as) /\ Nested(e, as)  BY <1>1, GrowsPlaces
<1>3. N \in 0 .. N /\ n \in 0 .. N /\ n <= N
  <2>1. n \in 0 .. N  BY <1>0, Zenon
  <2> QED  BY <2>1
<1>4. Len(e[n]) <= Len(e[N])  BY <1>0, <1>2, <1>3 DEF Nested
<1>5. PICK x \in Nat : x = Len(e[n])  BY <1>0, <1>2, <1>3 DEF Sizes
<1>6. PICK y \in Nat : y = Len(e[N])  BY <1>0, <1>2, <1>3 DEF Sizes
<1>7. Total(as) = y + N + N + 1  BY <1>0, <1>1, <1>6 DEF Total
<1>8. x <= y  BY <1>4, <1>5, <1>6
<1>9. u \in Nat /\ u <= x + n  BY <1>5 DEF RoomLeft, e
<1> QED  BY <1>1, <1>3, <1>7, <1>8, <1>9

\* The arguments that overwrite what is before them.
Overs(as, n) == {m \in 2 .. n : FromRoot(as[m])}

\* Behind its first u cells a buffer of t cells is zero.
Clean(b, u, t) ==
  /\ b \in [1 .. t -> PathCells \cup {Nul}]
  /\ \A j \in u + 1 .. t : b[j] = Nul

Holds(b, q) == \A j \in 1 .. Len(q) : b[j] = q[j]

\* The last argument that is not empty ends with c.
LastArg(as, n, c) ==
  \E m \in 1 .. n : as[m] # <<>> /\ (\A j \in m + 1 .. n : as[j] = <<>>) /\ c = Last(as[m])

\* After n arguments.
JoinState(as, n, b, u) ==
  /\ Clean(b, u, Total(as)) /\ RoomLeft(as, n, u)
  /\ u = 0 => \A m \in 1 .. n : as[m] = <<>>
  /\ Overs(as, n) = {} =>
       /\ u = Len(JoinUpTo(as)[n]) /\ Holds(b, JoinUpTo(as)[n])
       /\ u # 0 => LastArg(as, n, b[u])
  /\ Overs(as, n) # {} =>
       \E m \in Overs(as, n) :
         (\A j \in Overs(as, n) : j <= m) /\ Len(as[m]) <= u /\ Holds(b, as[m])

\* What c is after a has been copied to place x of b.
CopyMade(b, x, a, c, w, t) ==
  /\ Clean(c, w, t)
  /\ \A j \in 1 .. x : c[j] = b[j]
  /\ \A j \in 1 .. Len(a) : c[x + j] = a[j]

LEMMA CopyKeeps ==
  ASSUME NEW t \in Nat, NEW u \in Nat, NEW x \in Nat, x <= u, NEW b, Clean(b, u, t),
         NEW a \in Seq(PathCells), NEW w \in Nat, w = u + Len(a), w < t
  PROVE  CopyMade(b, x, a, Copied(b, x, a), w, t)
<1> DEFINE c == Copied(b, x, a)
<1>1. PICK l \in Nat : l = Len(a) /\ DOMAIN a = 1 .. l  BY LenProperties
<1>2. w = u + l  BY <1>1
<1>3. b \in [1 .. t -> PathCells \cup {Nul}] /\ \A j \in u + 1 .. t : b[j] = Nul  BY DEF Clean
<1>4. c = [j \in 1 .. t |-> IF j - x \in 1 .. l THEN a[j - x] ELSE b[j]]
  <2>1. DOMAIN b = 1 .. t  BY <1>3
  <2> QED  BY <1>1, <2>1 DEF Copied
<1> HIDE DEF c
<1>5. c \in [1 .. t -> PathCells \cup {Nul}]
  <2>1. \A m \in 1 .. l : a[m] \in PathCells  BY <1>1, ElementOfSeq
  <2>2. ASSUME NEW j \in 1 .. t
        PROVE (IF j - x \in 1 .. l THEN a[j - x] ELSE b[j]) \in PathCells \cup {Nul}
    BY <1>3, <2>1
  <2> QED  BY <1>4, <2>2
<1>6. \A j \in w + 1 .. t : c[j] = Nul
  <2> SUFFICES ASSUME NEW j \in w + 1 .. t PROVE c[j] = Nul  OBVIOUS
  <2>1. j \in 1 .. t /\ ~ (j - x \in 1 .. l) /\ j \in u + 1 .. t  BY <1>2
  <2> QED  BY <1>3, <1>4, <2>1
<1>7. \A j \in 1 .. x : c[j] = b[j]
  <2> SUFFICES ASSUME NEW j \in 1 .. x PROVE c[j] = b[j]  OBVIOUS
  <2>1. j \in 1 .. t /\ ~ (j - x \in 1 .. l)  BY <1>2
  <2> QED  BY <1>4, <2>1
<1>8. \A j \in 1 .. l : c[x + j] = a[j]
  <2> SUFFICES ASSUME NEW j \in 1 .. l PROVE c[x + j] = a[j]  OBVIOUS
  <2>1. x + j \in 1 .. t /\ (x + j) - x = j  BY <1>2
  <2> QED  BY <1>4, <2>1
<1>9. Clean(c, w, t)  BY <1>5, <1>6 DEF Clean
<1> QED  BY <1>1, <1>7, <1>8, <1>9 DEF CopyMade, c

LEMMA OversSame ==
  ASSUME NEW as, NEW n \in Nat, ~ FromRoot(as[n + 1]) \/ n = 0
  PROVE  Overs(as, n + 1) = Overs(as, n)
<1>1. \A m \in 2 .. n + 1 : m \in 2 .. n \/ (m = n + 1 /\ n # 0)  OBVIOUS
<1>2. \A m \in 2 .. n : m \in 2 .. n + 1  OBVIOUS
<1> QED  BY <1>1, <1>2 DEF Overs

\* An argument from the root covers what is before it.
LEMMA OverHolds ==
  ASSUME NEW as, NEW n \in Nat, FromRoot(as[n + 1]), n # 0
  PROVE  n + 1 \in Overs(as, n + 1) /\ \A j \in Overs(as, n + 1) : j <= n + 1
<1>1. n + 1 \in 2 .. n + 1 /\ \A j \in 2 .. n + 1 : j <= n + 1  OBVIOUS
<1> DEFINE o == n + 1
<1>2. o \in Overs(as, o)
  <2>1. FromRoot(as[o]) /\ o \in 2 .. o  BY <1>1
  <2> HIDE DEF o
  <2> QED  BY <2>1 DEF Overs
<1>3. \A j \in Overs(as, o) : j <= o
  <2>1. \A j \in 2 .. o : j <= o  BY <1>1
  <2> HIDE DEF o
  <2> QED  BY <2>1 DEF Overs
<1> QED  BY <1>2, <1>3

\* The next argument, as join sees it.
LEMMA NextArg ==
  ASSUME NEW as \in ArgLists, NEW n \in 0 .. Len(as) - 1
  PROVE  /\ n \in Nat /\ n \in 0 .. Len(as) /\ n + 1 \in 0 .. Len(as) /\ n + 1 \in 1 .. Len(as)
         /\ as[n + 1] \in Seq(PathCells) /\ Len(as[n + 1]) \in Nat
         /\ JoinUpTo(as)[n] \in Seq(PathCells) /\ Len(JoinUpTo(as)[n]) \in Nat
         /\ JoinUpTo(as)[n + 1] = JoinUpTo(as)[n] \o (Between(as, n + 1) \o as[n + 1])
<1> DEFINE r == JoinUpTo(as)
<1>0. PICK N \in Nat : N = Len(as)  BY JoinGrows
<1>1. n \in Nat /\ n \in 0 .. Len(as) /\ n + 1 \in 0 .. Len(as) /\ n + 1 \in 1 .. Len(as) /\ (n + 1) - 1 = n
  <2>1. n \in 0 .. N - 1  BY <1>0
  <2>2. n \in Nat /\ n \in 0 .. N /\ n + 1 \in 0 .. N /\ n + 1 \in 1 .. N /\ (n + 1) - 1 = n  BY <2>1
  <2> QED  BY <1>0, <2>2
<1>2. as[n + 1] \in Seq(PathCells)  BY <1>1, JoinGrows
<1>3. Len(as[n + 1]) \in Nat  BY <1>2, LenProperties
<1>4. /\ Grows(r, PartsOf(as), PathCells) /\ Len(PartsOf(as)) = Len(as)
      /\ PartsOf(as)[n + 1] = Between(as, n + 1) \o as[n + 1]
  BY <1>1, JoinGrows
<1> HIDE DEF r
<1>5. r[n] \in Seq(PathCells) /\ r[n + 1] = r[(n + 1) - 1] \o PartsOf(as)[n + 1]
  BY <1>1, <1>4 DEF Grows
<1>6. Len(r[n]) \in Nat  BY <1>5, LenProperties
<1> QED  BY <1>1, <1>2, <1>3, <1>4, <1>5, <1>6 DEF r

LEMMA NoneBetween ==
  ASSUME NEW as, NEW n \in Nat, \A m \in 1 .. n : as[m] = <<>>
  PROVE  Between(as, n + 1) = <<>>
<1>1. {m \in 1 .. (n + 1) - 1 : as[m] # <<>>} = {}
  <2> SUFFICES ASSUME NEW m \in 1 .. (n + 1) - 1 PROVE as[m] = <<>>  OBVIOUS
  <2>1. m \in 1 .. n  OBVIOUS
  <2> QED  BY <2>1
<1> QED  BY <1>1 DEF Between

LEMMA GapBetween ==
  ASSUME NEW as, NEW n \in Nat, NEW c, LastArg(as, n, c), as[n + 1] # <<>>
  PROVE  Between(as, n + 1) = IF c \in Separators THEN <<>> ELSE <<Sep>>
<1> DEFINE before == {m \in 1 .. (n + 1) - 1 : as[m] # <<>>}
<1>1. PICK m \in 1 .. n : as[m] # <<>> /\ (\A j \in m + 1 .. n : as[j] = <<>>) /\ c = Last(as[m])
  BY DEF LastArg
<1>2. m \in before /\ before \subseteq Nat
  <2>1. (n + 1) - 1 = n /\ 1 .. n \subseteq Nat  OBVIOUS
  <2>2. m \in 1 .. (n + 1) - 1  BY <2>1
  <2>3. before \subseteq Nat  BY <2>1
  <2> QED  BY <1>1, <2>2, <2>3
<1>3. \A j \in before : j <= m
  <2> SUFFICES ASSUME NEW j \in before, ~ (j <= m) PROVE FALSE  OBVIOUS
  <2>1. j \in m + 1 .. n  OBVIOUS
  <2> QED  BY <1>1, <2>1
<1>4. before # {}  BY <1>2
<1>5. Between(as, n + 1) =
        IF as[n + 1] = <<>> \/ before = {} \/ Last(as[Max(before)]) \in Separators
        THEN <<>> ELSE <<Sep>>
  BY DEF Between
<1> HIDE DEF before
<1>6. Max(before) = m  BY <1>2, <1>3, GreatestIs
<1>7. Last(as[Max(before)]) = c  BY <1>1, <1>6, Zenon
<1> QED  BY <1>4, <1>5, <1>7

LEMMA LastNew ==
  ASSUME NEW as, NEW n \in Nat, as[n + 1] # <<>>
  PROVE  LastArg(as, n + 1, Last(as[n + 1]))
<1> DEFINE o == n + 1
<1>1. o \in 1 .. o /\ \A j \in o + 1 .. o : as[j] = <<>>
  <2>1. o \in 1 .. o /\ o + 1 .. o = {}  OBVIOUS
  <2> HIDE DEF o
  <2> QED  BY <2>1
<1>2. as[o] # <<>>  OBVIOUS
<1> HIDE DEF o
<1>3. LastArg(as, o, Last(as[o]))  BY <1>1, <1>2 DEF LastArg
<1> QED  BY <1>3 DEF o

LEMMA LastStays ==
  ASSUME NEW as, NEW n \in Nat, NEW c, LastArg(as, n, c), as[n + 1] = <<>>
  PROVE  LastArg(as, n + 1, c)
<1>1. PICK m \in 1 .. n : as[m] # <<>> /\ (\A j \in m + 1 .. n : as[j] = <<>>) /\ c = Last(as[m])
  BY DEF LastArg
<1>2. m \in 1 .. n + 1  OBVIOUS
<1>3. \A j \in m + 1 .. n + 1 : as[j] = <<>>
  <2> SUFFICES ASSUME NEW j \in m + 1 .. n + 1 PROVE as[j] = <<>>  OBVIOUS
  <2>1. j \in m + 1 .. n \/ j = n + 1  OBVIOUS
  <2> QED  BY <1>1, <2>1
<1> QED  BY <1>1, <1>2, <1>3 DEF LastArg

LEMMA StateParts ==
  ASSUME NEW as \in ArgLists, NEW n \in 0 .. Len(as), NEW b, NEW u, JoinState(as, n, b, u)
  PROVE  /\ u \in Nat /\ Total(as) \in Nat /\ u < Total(as) /\ Clean(b, u, Total(as))
BY RoomEnough DEF JoinState, RoomLeft

LEMMA SkipKeeps ==
  ASSUME NEW as \in ArgLists, NEW n \in 0 .. Len(as) - 1, NEW b, NEW u, JoinState(as, n, b, u),
         as[n + 1] = <<>>
  PROVE  JoinState(as, n + 1, b, u)
<1> DEFINE r == JoinUpTo(as)
<1>1. /\ n \in Nat /\ n \in 0 .. Len(as) /\ r[n] \in Seq(PathCells)
      /\ r[n + 1] = r[n] \o (Between(as, n + 1) \o as[n + 1])
  BY NextArg
<1>2. Between(as, n + 1) = <<>>  BY DEF Between
<1>3. r[n + 1] = r[n]
  <2>1. <<>> \o <<>> = <<>>  OBVIOUS
  <2>2. r[n + 1] = r[n] \o <<>>  BY <1>1, <1>2, <2>1
  <2> HIDE DEF r
  <2> QED  BY <1>1, <2>2, ConcatEmptySeq
<1>4. Overs(as, n + 1) = Overs(as, n)
  <2>1. ~ FromRoot(as[n + 1])  BY DEF FromRoot
  <2> QED  BY <1>1, <2>1, OversSame
<1>5. u \in Nat /\ Clean(b, u, Total(as))  BY <1>1, StateParts
<1>6. RoomLeft(as, n + 1, u)
  <2>1. RoomLeft(as, n, u)  BY DEF JoinState
  <2>2. Len(as[n + 1]) = 0  OBVIOUS
  <2>3. u <= u + Len(as[n + 1]) + 1  BY <1>5, <2>2
  <2> QED  BY <1>5, <2>1, <2>3, RoomGrows
<1>7. ASSUME u = 0 PROVE \A m \in 1 .. n + 1 : as[m] = <<>>
  <2>1. \A m \in 1 .. n : as[m] = <<>>  BY <1>7 DEF JoinState
  <2>2. \A m \in 1 .. n + 1 : m \in 1 .. n \/ m = n + 1  BY <1>1
  <2> QED  BY <2>1, <2>2
<1>8. ASSUME Overs(as, n + 1) = {}
      PROVE /\ u = Len(r[n + 1]) /\ Holds(b, r[n + 1])
            /\ u # 0 => LastArg(as, n + 1, b[u])
  <2>1. /\ u = Len(r[n]) /\ Holds(b, r[n])
        /\ u # 0 => LastArg(as, n, b[u])
    BY <1>4, <1>8 DEF JoinState
  <2>2. u # 0 => LastArg(as, n + 1, b[u])  BY <1>1, <2>1, LastStays
  <2> QED  BY <1>3, <2>1, <2>2
<1>9. ASSUME Overs(as, n + 1) # {}
      PROVE \E m \in Overs(as, n + 1) :
              (\A j \in Overs(as, n + 1) : j <= m) /\ Len(as[m]) <= u /\ Holds(b, as[m])
  BY <1>4, <1>9 DEF JoinState
<1> QED  BY <1>5, <1>6, <1>7, <1>8, <1>9 DEF JoinState

\* The first argument that is not empty.
LEMMA FirstKeeps ==
  ASSUME NEW as \in ArgLists, NEW n \in 0 .. Len(as) - 1, NEW b, NEW u, JoinState(as, n, b, u),
         as[n + 1] # <<>>, u = 0
  PROVE  JoinState(as, n + 1, Copied(b, 0, as[n + 1]), Len(as[n + 1]))
<1> DEFINE r == JoinUpTo(as)
           a == as[n + 1]
           c == Copied(b, 0, a)
           w == Len(a)
<1>1. /\ n \in Nat /\ n \in 0 .. Len(as) /\ n + 1 \in 0 .. Len(as) /\ r[n] \in Seq(PathCells)
      /\ r[n + 1] = r[n] \o (Between(as, n + 1) \o a)
      /\ a \in Seq(PathCells) /\ w \in Nat
  BY NextArg
<1>2. \A m \in 1 .. n : as[m] = <<>>  BY DEF JoinState
<1>3. Between(as, n + 1) = <<>>  BY <1>1, <1>2, NoneBetween
<1>4. Overs(as, n) = {}
  <2>1. ASSUME NEW m \in 2 .. n PROVE as[m] = <<>>
    <3>1. m \in 1 .. n  BY <1>1
    <3> QED  BY <1>2, <3>1
  <2> QED  BY <2>1 DEF Overs, FromRoot
<1>5. r[n + 1] = a
  <2>1. u = Len(r[n])  BY <1>4 DEF JoinState
  <2> HIDE DEF r, a
  <2>2. r[n] = <<>>  BY <1>1, <2>1, EmptySeq
  <2>3. r[n + 1] = <<>> \o (<<>> \o a)  BY <1>1, <1>3, <2>2
  <2>4. <<>> \o a = a  BY <1>1, ConcatEmptySeq
  <2> QED  BY <2>3, <2>4
<1>6. u \in Nat /\ Clean(b, u, Total(as)) /\ Total(as) \in Nat  BY <1>1, StateParts
<1> HIDE DEF r, c
<1>7. RoomLeft(as, n + 1, w)
  <2>1. RoomLeft(as, n, u)  BY DEF JoinState
  <2>2. w <= u + Len(as[n + 1]) + 1
    <3>1. PICK l \in Nat : l = Len(as[n + 1])  BY <1>1
    <3>2. l <= u + l + 1  BY <1>6
    <3> QED  BY <3>1, <3>2
  <2> HIDE DEF w
  <2> QED  BY <1>1, <2>1, <2>2, RoomGrows
<1>8. w < Total(as)  BY <1>1, <1>7, RoomEnough
<1>9. Clean(c, w, Total(as)) /\ \A j \in 1 .. Len(a) : c[0 + j] = a[j]
  <2> HIDE DEF a
  <2>1. w = u + Len(a) /\ 0 <= u /\ 0 \in Nat
    <3>1. PICK l \in Nat : l = Len(a)  BY <1>1
    <3> QED  BY <3>1
  <2> HIDE DEF w
  <2>2. CopyMade(b, 0, a, c, w, Total(as))  BY <1>1, <1>6, <1>8, <2>1, CopyKeeps DEF c
  <2> QED  BY <2>2 DEF CopyMade
<1>10. Holds(c, a)
  <2> HIDE DEF a
  <2>1. \A j \in 1 .. Len(a) : 0 + j = j  BY <1>1
  <2> QED  BY <1>9, <2>1 DEF Holds
<1>11. w # 0  BY <1>1, EmptySeq
<1>12. ASSUME Overs(as, n + 1) = {}
       PROVE /\ w = Len(r[n + 1]) /\ Holds(c, r[n + 1])
             /\ w # 0 => LastArg(as, n + 1, c[w])
  <2>1. c[w] = Last(a)
    <3> HIDE DEF a
    <3>0. PICK l \in Nat : l = Len(a)  BY <1>1
    <3>1. w \in 1 .. Len(a)  BY <1>11, <3>0
    <3> QED  BY <1>10, <3>1 DEF Holds, Last
  <2> QED  BY <1>1, <1>5, <1>10, <2>1, LastNew
<1>13. ASSUME Overs(as, n + 1) # {}
       PROVE \E m \in Overs(as, n + 1) :
               (\A j \in Overs(as, n + 1) : j <= m) /\ Len(as[m]) <= w /\ Holds(c, as[m])
  <2>1. FromRoot(as[n + 1]) /\ n # 0  BY <1>1, <1>4, <1>13, OversSame
  <2>2. n + 1 \in Overs(as, n + 1) /\ \A j \in Overs(as, n + 1) : j <= n + 1
    BY <1>1, <2>1, OverHolds
  <2>3. Len(a) <= w  BY <1>1
  <2> QED  BY <1>10, <2>2, <2>3
<1> HIDE DEF w, a
<1>14. JoinState(as, n + 1, c, w)  BY <1>7, <1>9, <1>11, <1>12, <1>13 DEF JoinState, r
<1> QED  BY <1>14 DEF w, a, c

\* An argument from the root is copied over the others.
LEMMA OverKeeps ==
  ASSUME NEW as \in ArgLists, NEW n \in 0 .. Len(as) - 1, NEW b, NEW u, JoinState(as, n, b, u),
         as[n + 1] # <<>>, u > 0, as[n + 1][1] \in Separators
  PROVE  JoinState(as, n + 1, Copied(b, 0, as[n + 1]), u + Len(as[n + 1]))
<1> DEFINE a == as[n + 1]
           c == Copied(b, 0, a)
           w == u + Len(a)
<1>1. /\ n \in Nat /\ n \in 0 .. Len(as) /\ n + 1 \in 0 .. Len(as)
      /\ a \in Seq(PathCells) /\ Len(a) \in Nat
  BY NextArg
<1>2. u \in Nat /\ Clean(b, u, Total(as)) /\ Total(as) \in Nat  BY <1>1, StateParts
<1>0. PICK l \in Nat : l = Len(a)  BY <1>1
<1>3. w \in Nat /\ w # 0 /\ Len(a) <= w
  <2> HIDE DEF a
  <2>0. u > 0 /\ u \in Nat /\ l \in Nat  BY <1>0, <1>2
  <2>1. u + l \in Nat /\ u + l # 0 /\ l <= u + l  BY <2>0
  <2> QED  BY <1>0, <2>1
<1> HIDE DEF c
<1>4. RoomLeft(as, n + 1, w)
  <2>1. RoomLeft(as, n, u)  BY DEF JoinState
  <2>2. w <= u + Len(a) + 1
    <3> HIDE DEF a
    <3>0. u \in Nat /\ l \in Nat  BY <1>0, <1>2
    <3>1. u + l <= u + l + 1  BY <3>0
    <3> QED  BY <1>0, <3>1
  <2> HIDE DEF w
  <2> QED  BY <1>3, <2>1, <2>2, RoomGrows
<1>5. w < Total(as)
  <2> HIDE DEF w
  <2> QED  BY <1>1, <1>4, RoomEnough
<1>6. Clean(c, w, Total(as)) /\ \A j \in 1 .. Len(a) : c[0 + j] = a[j]
  <2>1. w = u + Len(a) /\ 0 <= u /\ 0 \in Nat  BY <1>1, <1>2
  <2> HIDE DEF a, w
  <2>2. CopyMade(b, 0, a, c, w, Total(as))  BY <1>1, <1>2, <1>3, <1>5, <2>1, CopyKeeps DEF c
  <2> QED  BY <2>2 DEF CopyMade
<1>7. Holds(c, a)
  <2> HIDE DEF a
  <2>1. \A j \in 1 .. Len(a) : 0 + j = j  BY <1>1
  <2> QED  BY <1>6, <2>1 DEF Holds
<1>8. n # 0
  <2> SUFFICES ASSUME n = 0 PROVE FALSE  OBVIOUS
  <2>1. 1 .. 0 = {} /\ 2 .. 0 = {}  OBVIOUS
  <2>2. Overs(as, n) = {}  BY <2>1 DEF Overs
  <2>0. u # 0  BY <1>2
  <2>3. LastArg(as, n, b[u])  BY <2>0, <2>2 DEF JoinState
  <2> QED  BY <2>1, <2>3 DEF LastArg
<1>9. n + 1 \in Overs(as, n + 1) /\ \A j \in Overs(as, n + 1) : j <= n + 1
  <2>1. FromRoot(as[n + 1])  BY DEF FromRoot
  <2> QED  BY <1>1, <1>8, <2>1, OverHolds
<1>10. \E m \in Overs(as, n + 1) :
         (\A j \in Overs(as, n + 1) : j <= m) /\ Len(as[m]) <= w /\ Holds(c, as[m])
  BY <1>3, <1>7, <1>9
<1> HIDE DEF w
<1>11. JoinState(as, n + 1, c, w)  BY <1>3, <1>4, <1>6, <1>9, <1>10 DEF JoinState
<1> QED  BY <1>11 DEF w, c

LEMMA AppendKeeps ==
  ASSUME NEW as \in ArgLists, NEW n \in 0 .. Len(as) - 1, NEW b, NEW u, JoinState(as, n, b, u),
         as[n + 1] # <<>>, u > 0, as[n + 1][1] \notin Separators,
         NEW g, g = IF b[u] \in Separators THEN <<>> ELSE <<Sep>>
  PROVE  JoinState(as, n + 1, Copied(b, u, g \o as[n + 1]), u + Len(g \o as[n + 1]))
<1> DEFINE r == JoinUpTo(as)
           a == as[n + 1]
           q == g \o a
           c == Copied(b, u, q)
           w == u + Len(q)
<1>1. /\ n \in Nat /\ n \in 0 .. Len(as) /\ n + 1 \in 0 .. Len(as) /\ r[n] \in Seq(PathCells)
      /\ r[n + 1] = r[n] \o (Between(as, n + 1) \o a)
      /\ a \in Seq(PathCells) /\ Len(a) \in Nat /\ a # <<>>
  BY NextArg
<1>2. u \in Nat /\ Clean(b, u, Total(as)) /\ Total(as) \in Nat  BY <1>1, StateParts
<1>3. g \in Seq(PathCells) /\ (Len(g) = 0 \/ Len(g) = 1)
  <2>1. <<>> \in Seq(PathCells) /\ Len(<<>>) = 0  BY EmptySeq
  <2>2. Sep \in PathCells  BY DEF PathCells, Separators
  <2>3. <<Sep>> \in Seq(PathCells) /\ Len(<<Sep>>) = 1  BY <2>2
  <2> QED  BY <2>1, <2>3
<1> HIDE DEF r, a
<1>4. q \in Seq(PathCells) /\ Joins(q, g, a)  BY <1>1, <1>3, Joint
<1> HIDE DEF q
<1>5. PICK l \in Nat : l = Len(a)  BY <1>1
<1>6. PICK h \in Nat : h = Len(g) /\ h <= 1  BY <1>3
<1>7. Len(q) = h + l /\ \A j \in 1 .. l : q[h + j] = a[j]  BY <1>4, <1>5, <1>6 DEF Joins
<1>8. l > 0  BY <1>1, <1>5, EmptySeq
<1>9. w = u + (h + l) /\ w \in Nat /\ w # 0
  <2>1. u + (h + l) \in Nat /\ u + (h + l) # 0  BY <1>2, <1>8
  <2> QED  BY <1>7, <2>1
<1> HIDE DEF w, c
<1>10. RoomLeft(as, n + 1, w)
  <2>1. RoomLeft(as, n, u)  BY DEF JoinState
  <2>2. w <= u + Len(as[n + 1]) + 1
    <3>1. w <= u + l + 1  BY <1>2, <1>6, <1>9
    <3> QED  BY <1>5, <3>1 DEF a
  <2> QED  BY <1>9, <2>1, <2>2, RoomGrows
<1>11. w < Total(as)  BY <1>1, <1>10, RoomEnough
<1>12. CopyMade(b, u, q, c, w, Total(as))
  <2>1. w = u + Len(q) /\ u <= u  BY <1>2, <1>7, <1>9
  <2> QED  BY <1>2, <1>4, <1>9, <1>11, <2>1, CopyKeeps DEF c
<1>13. Clean(c, w, Total(as)) /\ (\A j \in 1 .. u : c[j] = b[j]) /\ \A j \in 1 .. h + l : c[u + j] = q[j]
  BY <1>7, <1>12 DEF CopyMade
<1>14. Overs(as, n + 1) = Overs(as, n)
  <2>1. ~ FromRoot(as[n + 1])  BY DEF FromRoot
  <2> QED  BY <1>1, <2>1, OversSame
<1>15. ASSUME Overs(as, n + 1) = {}
       PROVE /\ w = Len(r[n + 1]) /\ Holds(c, r[n + 1])
             /\ w # 0 => LastArg(as, n + 1, c[w])
  <2>0. u # 0  BY <1>2
  <2>1. u = Len(r[n]) /\ Holds(b, r[n]) /\ LastArg(as, n, b[u])
    BY <1>14, <1>15, <2>0 DEF JoinState, r
  <2>2. as[n + 1] # <<>>  BY <1>1 DEF a
  <2>3. Between(as, n + 1) = g
    <3> DEFINE z == b[u]
    <3>1. LastArg(as, n, z)  BY <2>1
    <3>2. g = IF z \in Separators THEN <<>> ELSE <<Sep>>  OBVIOUS
    <3> HIDE DEF z
    <3> QED  BY <1>1, <2>2, <3>1, <3>2, GapBetween
  <2>4. r[n + 1] = r[n] \o q  BY <1>1, <2>3 DEF q
  <2>5. Joins(r[n + 1], r[n], q)  BY <1>1, <1>4, <2>4, Joint
  <2>6. /\ Len(r[n + 1]) = u + (h + l) /\ \A j \in 1 .. u : r[n + 1][j] = r[n][j]
        /\ \A j \in 1 .. h + l : r[n + 1][u + j] = q[j]
    BY <1>7, <2>1, <2>5 DEF Joins
  <2>7. \A j \in 1 .. u : b[j] = r[n][j]  BY <2>1 DEF Holds
  <2>8. ASSUME NEW j \in 1 .. u + (h + l) PROVE c[j] = r[n + 1][j]
    <3>1. CASE j <= u
      <4>1. j \in 1 .. u  BY <1>2, <3>1
      <4> QED  BY <1>13, <2>6, <2>7, <4>1
    <3>2. CASE ~ (j <= u)
      <4>1. j - u \in 1 .. h + l /\ u + (j - u) = j  BY <1>2, <3>2
      <4>2. c[u + (j - u)] = q[j - u] /\ r[n + 1][u + (j - u)] = q[j - u]  BY <1>13, <2>6, <4>1
      <4> QED  BY <4>1, <4>2
    <3> QED  BY <3>1, <3>2
  <2>9. Holds(c, r[n + 1])  BY <2>6, <2>8 DEF Holds
  <2>10. c[w] = Last(a)
    <3>1. h + l \in 1 .. h + l /\ l \in 1 .. l  BY <1>6, <1>8
    <3>2. c[u + (h + l)] = q[h + l] /\ q[h + l] = a[l]  BY <1>7, <1>13, <3>1
    <3> QED  BY <1>5, <1>9, <3>2 DEF Last
  <2>11. LastArg(as, n + 1, c[w])
    <3>1. LastArg(as, n + 1, Last(as[n + 1]))  BY <1>1, <2>2, LastNew
    <3> QED  BY <2>10, <3>1 DEF a
  <2> QED  BY <1>9, <2>6, <2>9, <2>11
<1>16. ASSUME Overs(as, n + 1) # {}
       PROVE \E m \in Overs(as, n + 1) :
               (\A j \in Overs(as, n + 1) : j <= m) /\ Len(as[m]) <= w /\ Holds(c, as[m])
  <2>1. PICK m \in Overs(as, n) :
          (\A j \in Overs(as, n) : j <= m) /\ Len(as[m]) <= u /\ Holds(b, as[m])
    BY <1>14, <1>16 DEF JoinState
  <2>2. PICK z \in Nat : z = Len(as[m]) /\ z <= u
    <3>1. m \in 2 .. n /\ DOMAIN as = 1 .. Len(as)  BY JoinGrows DEF Overs
    <3>2. m \in 1 .. Len(as)
      <4>1. PICK N \in Nat : N = Len(as)  BY JoinGrows
      <4>2. n \in 0 .. N  BY <1>1, <4>1
      <4>3. m \in 1 .. N  BY <3>1, <4>2
      <4> QED  BY <4>1, <4>3
    <3>3. as[m] \in Seq(PathCells)  BY <3>2, JoinGrows
    <3>4. Len(as[m]) \in Nat  BY <3>3, LenProperties
    <3> QED  BY <2>1, <3>4
  <2>3. \A j \in 1 .. z : b[j] = as[m][j]  BY <2>1, <2>2 DEF Holds
  <2>0. z \in Nat /\ u \in Nat /\ z <= u /\ w = u + (h + l)  BY <1>2, <1>9, <2>2
  <2>4. \A j \in 1 .. z : j \in 1 .. u  BY <2>0
  <2>5. \A j \in 1 .. z : c[j] = as[m][j]  BY <1>13, <2>3, <2>4
  <2>6. Holds(c, as[m])  BY <2>2, <2>5 DEF Holds
  <2>7. z <= w  BY <2>0
  <2> QED  BY <1>14, <2>1, <2>2, <2>6, <2>7
<1>17. JoinState(as, n + 1, c, w)  BY <1>9, <1>10, <1>13, <1>15, <1>16 DEF JoinState, r
<1> QED  BY <1>17 DEF w, a, c, q

\* What is returned.
LEMMA JoinEnds ==
  ASSUME NEW as \in ArgLists, NEW b, NEW u, JoinState(as, Len(as), b, u)
  PROVE  IF Overs(as, Len(as)) = {} THEN UpToNul(b) = JoinReference(as)
         ELSE IsPrefix(as[Max(Overs(as, Len(as)))], UpToNul(b))
<1> DEFINE N == Len(as)
           t == Total(as)
           ends == {j \in DOMAIN b : b[j] = Nul}
           q == JoinReference(as)
<1>0. N \in Nat  BY JoinGrows
<1>1. N \in 0 .. Len(as)
  <2> HIDE DEF N
  <2>1. N \in 0 .. N  BY <1>0
  <2> QED  BY <2>1 DEF N
<1>2. u \in Nat /\ Clean(b, u, t) /\ t \in Nat /\ u < t  BY <1>1, StateParts
<1>3. DOMAIN b = 1 .. t /\ b[u + 1] = Nul /\ u + 1 \in ends /\ ends \subseteq Nat
  <2>1. b \in [1 .. t -> PathCells \cup {Nul}] /\ \A j \in u + 1 .. t : b[j] = Nul
    BY <1>2 DEF Clean
  <2> HIDE DEF t
  <2>2. u + 1 \in u + 1 .. t /\ u + 1 \in 1 .. t  BY <1>2
  <2>3. DOMAIN b = 1 .. t /\ b[u + 1] = Nul  BY <2>1, <2>2
  <2>4. 1 .. t \subseteq Nat  BY <1>2
  <2>5. ends \subseteq Nat  BY <2>3, <2>4
  <2> QED  BY <2>2, <2>3, <2>5
<1>4. Nul \notin PathCells  BY PathAssumption DEF PathCells
<1>5. UpToNul(b) = SubSeq(b, 1, Min(ends) - 1)  BY <1>3 DEF UpToNul
<1>6. CASE Overs(as, N) = {}
  <2>1. u = Len(q) /\ Holds(b, q) /\ q \in Seq(PathCells)
    <3>1. JoinUpTo(as)[N] = q /\ Grows(JoinUpTo(as), PartsOf(as), PathCells) /\ Len(PartsOf(as)) = N
      BY JoinGrows
    <3>2. JoinUpTo(as)[N] \in Seq(PathCells)  BY <1>1, <3>1 DEF Grows
    <3> QED  BY <1>6, <3>1, <3>2 DEF JoinState
  <2> HIDE DEF q
  <2>2. \A j \in 1 .. u : b[j] \in PathCells
    <3>1. \A j \in 1 .. u : b[j] = q[j]  BY <2>1 DEF Holds
    <3>2. \A j \in 1 .. u : q[j] \in PathCells  BY <2>1, ElementOfSeq
    <3> QED  BY <3>1, <3>2
  <2>3. \A j \in ends : u + 1 <= j
    <3> SUFFICES ASSUME NEW j \in ends, ~ (u + 1 <= j) PROVE FALSE  OBVIOUS
    <3>1. j \in 1 .. u  BY <1>2, <1>3
    <3> QED  BY <1>4, <2>2, <3>1
  <2> HIDE DEF ends
  <2>4. Min(ends) = u + 1  BY <1>2, <1>3, <2>3, LeastIs
  <2>5. Min(ends) - 1 = u  BY <1>2, <2>4
  <2>6. Lies(b, 0, q)
    <3>1. \A j \in 1 .. u : 0 + j = j  BY <1>2
    <3> QED  BY <2>1, <3>1 DEF Lies, Holds
  <2>7. SubSeq(b, 0 + 1, 0 + Len(q)) = q  BY <2>1, <2>6, PieceIs
  <2>8. 0 + 1 = 1 /\ 0 + Len(q) = u  BY <1>2, <2>1
  <2>9. SubSeq(b, 1, u) = q  BY <2>7, <2>8, Zenon
  <2> QED  BY <1>5, <1>6, <2>5, <2>9 DEF q
<1>7. CASE Overs(as, N) # {}
  <2>1. PICK m \in Overs(as, N) :
          (\A j \in Overs(as, N) : j <= m) /\ Len(as[m]) <= u /\ Holds(b, as[m])
    BY <1>7 DEF JoinState
  <2>2. m \in 2 .. N /\ Overs(as, N) \subseteq Nat
    <3> HIDE DEF N
    <3>1. 2 .. N \subseteq Nat  BY <1>0
    <3> QED  BY <3>1 DEF Overs
  <2>3. Max(Overs(as, N)) = m  BY <2>1, <2>2, GreatestIs
  <2> DEFINE a == as[m]
  <2>4. a \in Seq(PathCells)
    <3>1. m \in 1 .. Len(as)
      <4> HIDE DEF N
      <4>1. m \in 1 .. N  BY <1>0, <2>2
      <4> QED  BY <4>1 DEF N
    <3> QED  BY <3>1, JoinGrows
  <2>5. PICK l \in Nat : l = Len(a) /\ l <= u  BY <2>1, <2>4, LenProperties
  <2>6. \A j \in 1 .. l : b[j] = a[j] /\ a[j] \in PathCells
    BY <2>1, <2>4, <2>5, ElementOfSeq DEF Holds
  <2> HIDE DEF a
  <2>7. Min(ends) \in ends
    <3> HIDE DEF ends
    <3> QED  BY <1>3, LeastOfNat
  <2>8. Min(ends) \in 1 .. t /\ ~ (Min(ends) \in 1 .. l)
    <3>1. Min(ends) \in 1 .. t /\ b[Min(ends)] = Nul  BY <1>3, <2>7
    <3> HIDE DEF ends
    <3> QED  BY <1>4, <2>6, <3>1
  <2> HIDE DEF ends
  <2>9. PICK z \in Nat : z = Min(ends) - 1 /\ l <= z /\ z <= t
    <3> HIDE DEF t
    <3> DEFINE o == Min(ends)
    <3>1. o \in 1 .. t /\ ~ (o \in 1 .. l)  BY <2>8
    <3> HIDE DEF o
    <3>2. o - 1 \in Nat /\ l <= o - 1 /\ o - 1 <= t  BY <1>2, <3>1
    <3> QED  BY <3>2 DEF o
  <2> DEFINE x == SubSeq(b, 1, z)
  <2>10. /\ Len(x) = z /\ \A j \in 1 .. z : x[j] = b[j]
         /\ x \in Seq(PathCells \cup {Nul})
    <3>1. b \in Seq(PathCells \cup {Nul}) /\ Len(b) = t
      <4>1. b \in [1 .. t -> PathCells \cup {Nul}]  BY <1>2 DEF Clean
      <4> HIDE DEF t
      <4> QED  BY <1>2, <4>1, FunctionSeq
    <3> HIDE DEF t
    <3>2. \A j \in 1 .. z : j \in 1 .. t  BY <1>2, <2>9
    <3> QED  BY <1>2, <2>9, <3>1, <3>2
  <2> HIDE DEF x
  <2>11. SubSeq(x, 1, l) = a
    <3>1. Lies(x, 0, a)
      <4>1. \A j \in 1 .. l : 0 + j = j /\ j \in 1 .. z  BY <2>9
      <4> QED  BY <2>5, <2>6, <2>10, <4>1 DEF Lies
    <3>2. SubSeq(x, 0 + 1, 0 + Len(a)) = a  BY <2>4, <3>1, PieceIs
    <3>3. 0 + 1 = 1 /\ 0 + Len(a) = l  BY <2>5
    <3> QED  BY <3>2, <3>3, Zenon
  <2>12. SubSeq(a, 1, l) = a
    <3>1. Lies(a, 0, a)
      <4>1. \A j \in 1 .. l : 0 + j = j  OBVIOUS
      <4> QED  BY <2>5, <4>1 DEF Lies
    <3>2. SubSeq(a, 0 + 1, 0 + Len(a)) = a  BY <2>4, <3>1, PieceIs
    <3>3. 0 + 1 = 1 /\ 0 + Len(a) = l  BY <2>5
    <3> QED  BY <3>2, <3>3, Zenon
  <2>13. l <= Len(x)  BY <2>9, <2>10
  <2>14. IsPrefix(a, x)  BY <2>5, <2>11, <2>12, <2>13 DEF IsPrefix
  <2>15. UpToNul(b) = x  BY <1>5, <2>9 DEF x
  <2> QED  BY <1>7, <2>3, <2>14, <2>15 DEF a
<1> QED  BY <1>6, <1>7

JoinInv ==
  /\ buf = <<>> => stage # "join" /\ op # "join"
  /\ buf # <<>> =>
       /\ args \in ArgLists /\ nth \in 1 .. Len(args) + 1
       /\ JoinState(args, nth - 1, buf, used)
       /\ stage # "join" => nth = Len(args) + 1
  /\ op = "join" => stage \in {"join", "done"} /\ (stage = "done" => result = UpToNul(buf))

LEMMA JoinStarts ==
  ASSUME NEW as \in ArgLists
  PROVE  JoinState(as, 0, [n \in 1 .. Total(as) |-> Nul], 0)
<1> DEFINE t == Total(as)
           b == [n \in 1 .. t |-> Nul]
<1>1. Clean(b, 0, t)
  <2> HIDE DEF t
  <2>1. \A j \in 0 + 1 .. t : j \in 1 .. t  OBVIOUS
  <2>2. b \in [1 .. t -> PathCells \cup {Nul}]  OBVIOUS
  <2> QED  BY <2>1, <2>2 DEF Clean
<1>2. /\ Len(as) \in Nat /\ Grows(ArgsUpTo(as), as, PathCells)
      /\ Grows(JoinUpTo(as), PartsOf(as), PathCells)
  BY JoinGrows
<1>3. ArgsUpTo(as)[0] = <<>> /\ JoinUpTo(as)[0] = <<>>  BY <1>2 DEF Grows
<1>4. RoomLeft(as, 0, 0)
  <2>1. Len(<<>>) = 0 /\ 0 <= 0 + 0  OBVIOUS
  <2> QED  BY <1>3, <2>1 DEF RoomLeft
<1>5. 1 .. 0 = {} /\ 2 .. 0 = {}  OBVIOUS
<1>6. Overs(as, 0) = {}  BY <1>5 DEF Overs
<1>7. 0 = Len(JoinUpTo(as)[0]) /\ Holds(b, JoinUpTo(as)[0])
  <2>1. Len(<<>>) = 0  OBVIOUS
  <2> HIDE DEF b
  <2>2. Holds(b, <<>>)  BY <1>5, <2>1 DEF Holds
  <2> QED  BY <1>3, <2>1, <2>2
<1> HIDE DEF b
<1> QED  BY <1>1, <1>4, <1>5, <1>6, <1>7 DEF JoinState, b

LEMMA HasBuffer ==
  ASSUME NEW as \in ArgLists, NEW n \in 0 .. Len(as), NEW b, NEW u, JoinState(as, n, b, u)
  PROVE  b # <<>>
<1> DEFINE t == Total(as)
<1>1. u \in Nat /\ t \in Nat /\ u < t /\ Clean(b, u, t)  BY StateParts
<1> HIDE DEF t
<1>2. b \in [1 .. t -> PathCells \cup {Nul}] /\ 1 \in 1 .. t  BY <1>1 DEF Clean
<1>3. 1 \in DOMAIN b  BY <1>2
<1>4. DOMAIN <<>> = {}  OBVIOUS
<1> QED  BY <1>3, <1>4

\* The arguments of a call of join, and of one of abspath.
LEMMA Called ==
  ASSUME NEW as, CallJoin(as), PathInit, as \in JoinArgs \/ as \in ArgLists
  PROVE  /\ args = as /\ stage = "join" /\ buf # <<>> /\ args \in ArgLists
         /\ nth \in 1 .. Len(args) + 1 /\ JoinState(args, nth - 1, buf, used)
<1>1. args = as /\ stage = "join" /\ buf = [n \in 1 .. Total(as) |-> Nul] /\ nth = 1 /\ used = 0
  BY DEF CallJoin, PathInit
<1>2. as \in ArgLists  BY PathAssumption DEF ArgLists, PathCells
<1>3. JoinState(args, 0, buf, used)  BY <1>1, <1>2, JoinStarts
<1>4. nth \in 1 .. Len(args) + 1 /\ nth - 1 = 0 /\ 0 \in 0 .. Len(args)
  <2>1. PICK N \in Nat : N = Len(args)  BY <1>1, <1>2, JoinGrows
  <2>2. nth \in 1 .. N + 1 /\ nth - 1 = 0 /\ 0 \in 0 .. N  BY <1>1
  <2> QED  BY <2>1, <2>2
<1>5. buf # <<>>  BY <1>1, <1>2, <1>3, <1>4, HasBuffer
<1> QED  BY <1>1, <1>2, <1>3, <1>4, <1>5

\* The path abspath makes of one that needs a directory before it.
LEMMA CwdSeq == Cwd \in Seq(PathCells) /\ Len(Cwd) = 2 /\ Cwd[1] = Sep /\ Cwd[2] \in Names
<1>1. (CHOOSE n \in Names : TRUE) \in Names  BY WordsAssumption
<1>2. Sep \in PathCells /\ Names \subseteq PathCells  BY DEF PathCells, Separators, Components
<1> QED  BY <1>1, <1>2 DEF Cwd

LEMMA NormArgSeq == NormArgs \subseteq Seq(PathCells)
BY WordsAssumption DEF PathCells

LEMMA AbsArgs == \A path \in NormArgs : <<Cwd, path>> \in ArgLists
<1> TAKE path \in NormArgs
<1>1. Cwd \in Seq(PathCells) /\ path \in Seq(PathCells)  BY CwdSeq, NormArgSeq
<1> QED  BY <1>1 DEF ArgLists

LEMMA JoinInit == PathInit => JoinInv
<1> SUFFICES ASSUME PathInit PROVE JoinInv  OBVIOUS
<1>1. ASSUME NEW as, CallJoin(as), as \in JoinArgs \/ as \in ArgLists PROVE JoinInv
  BY <1>1, Called DEF JoinInv
<1>2. ASSUME NEW path, CallNorm(path), op # "join" PROVE JoinInv
  BY <1>2 DEF JoinInv, CallNorm
<1>3. CASE op = "join"
  <2>1. \E as \in JoinArgs : CallJoin(as)
    <3>1. op # "normpath" /\ op # "abspath"  BY <1>3
    <3> QED  BY <1>3, <3>1 DEF PathInit
  <2> QED  BY <1>1, <2>1
<1>4. CASE op = "normpath"
  <2>1. \E path \in NormArgs : CallNorm(path)  BY <1>4 DEF PathInit
  <2> QED  BY <1>2, <1>4, <2>1
<1>5. CASE op = "abspath"
  <2>1. \E path \in NormArgs : IF Rooted(path) THEN CallNorm(path) ELSE CallJoin(<<Cwd, path>>)
    BY <1>5 DEF PathInit
  <2> QED  BY <1>1, <1>2, <1>5, <2>1, AbsArgs
<1> QED  BY <1>3, <1>4, <1>5 DEF PathInit

LEMMA JoinAction ==
  ASSUME JoinInv, JoinSkip \/ JoinFirst \/ JoinOver \/ JoinAppend
  PROVE  JoinInv' /\ buf # <<>> /\ buf' # <<>>
<1>0. UNCHANGED <<op, args, stage, result>> /\ nth' = nth + 1 /\ stage = "join" /\ nth <= Len(args)
  BY DEF JoinSkip, JoinFirst, JoinOver, JoinAppend
<1> DEFINE n == nth - 1
<1>1. args \in ArgLists /\ JoinState(args, n, buf, used) /\ nth \in 1 .. Len(args) + 1 /\ buf # <<>>
  BY <1>0 DEF JoinInv
<1>2. n \in 0 .. Len(args) - 1 /\ n + 1 = nth /\ n \in 0 .. Len(args) /\ nth + 1 \in 1 .. Len(args) + 1
      /\ (nth + 1) - 1 = nth
  <2>1. PICK N \in Nat : N = Len(args)  BY <1>1, JoinGrows
  <2>2. nth \in 1 .. N + 1 /\ nth <= N  BY <1>0, <1>1, <2>1
  <2>3. n \in 0 .. N - 1 /\ n + 1 = nth /\ n \in 0 .. N /\ nth + 1 \in 1 .. N + 1
        /\ (nth + 1) - 1 = nth
    BY <2>2
  <2> QED  BY <2>1, <2>3
<1> HIDE DEF n
<1>3. Arg = args[n + 1]  BY <1>2 DEF Arg
<1>4. used \in Nat  BY <1>1, <1>2, StateParts
<1>5. JoinState(args, n + 1, buf', used')
  <2>1. CASE JoinSkip
    <3>1. buf' = buf /\ used' = used /\ args[n + 1] = <<>>  BY <1>3, <2>1 DEF JoinSkip
    <3> QED  BY <1>1, <1>2, <3>1, SkipKeeps
  <2>2. CASE JoinFirst
    <3>1. /\ buf' = Copied(buf, 0, args[n + 1]) /\ used' = Len(args[n + 1]) /\ args[n + 1] # <<>>
          /\ used = 0
      BY <1>3, <2>2 DEF JoinFirst
    <3> QED  BY <1>1, <1>2, <3>1, FirstKeeps
  <2>3. CASE JoinOver
    <3>1. /\ buf' = Copied(buf, 0, args[n + 1]) /\ used' = used + Len(args[n + 1])
          /\ args[n + 1] # <<>> /\ used > 0 /\ args[n + 1][1] \in Separators
      BY <1>3, <2>3 DEF JoinOver
    <3> QED  BY <1>1, <1>2, <3>1, OverKeeps
  <2>4. CASE JoinAppend
    <3>1. /\ buf' = Copied(buf, used, Gap \o args[n + 1]) /\ used' = used + Len(Gap \o args[n + 1])
          /\ args[n + 1] # <<>> /\ used > 0 /\ args[n + 1][1] \notin Separators
          /\ Gap = IF buf[used] \in Separators THEN <<>> ELSE <<Sep>>
      BY <1>3, <2>4 DEF JoinAppend, Gap
    <3> QED  BY <1>1, <1>2, <3>1, AppendKeeps
  <2> QED  BY <2>1, <2>2, <2>3, <2>4
<1>6. JoinState(args, nth' - 1, buf', used')  BY <1>0, <1>2, <1>5
<1>7. buf' # <<>>
  <2>1. n + 1 \in 0 .. Len(args)
    <3>1. PICK N \in Nat : N = Len(args)  BY <1>1, JoinGrows
    <3>2. n \in 0 .. N - 1  BY <1>2, <3>1
    <3>3. n + 1 \in 0 .. N  BY <3>2
    <3> QED  BY <3>1, <3>3
  <2> QED  BY <1>1, <1>5, <2>1, HasBuffer
<1> QED  BY <1>0, <1>1, <1>2, <1>6, <1>7 DEF JoinInv

LEMMA JoinStep == JoinInv /\ [PathNext]_pathVars => JoinInv'
<1> SUFFICES ASSUME JoinInv, [PathNext]_pathVars PROVE JoinInv'  OBVIOUS
<1>1. CASE JoinSkip \/ JoinFirst \/ JoinOver \/ JoinAppend  BY <1>1, JoinAction
<1>2. CASE Joined
  <2>1. /\ UNCHANGED <<op, args, nth, buf, used>> /\ nth > Len(args) /\ stage = "join"
        /\ op = "join" => stage' = "done" /\ result' = UpToNul(buf)
    BY <1>2 DEF Joined, joining
  <2>2. args \in ArgLists /\ JoinState(args, nth - 1, buf, used) /\ nth \in 1 .. Len(args) + 1
        /\ buf # <<>>
    BY <2>1 DEF JoinInv
  <2>3. nth = Len(args) + 1
    <3>1. PICK N \in Nat : N = Len(args)  BY <2>2, JoinGrows
    <3>2. nth \in 1 .. N + 1 /\ nth > N  BY <2>1, <2>2, <3>1
    <3>3. nth = N + 1  BY <3>2
    <3> QED  BY <3>1, <3>3
  <2> QED  BY <2>1, <2>2, <2>3 DEF JoinInv
<1>3. CASE Scan \/ Scanned \/ Resolve \/ Emit
  <2>1. UNCHANGED <<op, args, nth, buf, used>> /\ op # "join" /\ stage # "join" /\ stage' # "join"
    BY <1>3 DEF Scan, Scanned, Resolve, Emit, JoinInv, joining
  <2> QED  BY <2>1 DEF JoinInv
<1>4. CASE UNCHANGED pathVars  BY <1>4 DEF JoinInv, pathVars, joining
<1> QED  BY <1>1, <1>2, <1>3, <1>4, JoinAction DEF PathNext

\* join stays inside its buffer; it returns its arguments with a separator
\* between two of them, or a name that begins with the last one from the root
\* (_ospath_join).
THEOREM JoinRightHolds == PathSpec => []JoinRight
<1>1. JoinInv => JoinRight
  <2> SUFFICES ASSUME JoinInv, op = "join" PROVE JoinRight  BY DEF JoinRight
  <2>1. args \in ArgLists /\ JoinState(args, nth - 1, buf, used) /\ nth \in 1 .. Len(args) + 1
        /\ buf # <<>>
    BY DEF JoinInv
  <2>2. nth - 1 \in 0 .. Len(args)
    <3>1. PICK N \in Nat : N = Len(args)  BY <2>1, JoinGrows
    <3>2. nth \in 1 .. N + 1  BY <2>1, <3>1
    <3>3. nth - 1 \in 0 .. N  BY <3>2
    <3> QED  BY <3>1, <3>3
  <2>3. used < Len(buf)
    <3>1. Total(args) \in Nat /\ used < Total(args) /\ Clean(buf, used, Total(args))
      BY <2>1, <2>2, StateParts
    <3>2. buf \in [1 .. Total(args) -> PathCells \cup {Nul}]  BY <3>1 DEF Clean
    <3>3. Len(buf) = Total(args)
      <4> DEFINE t == Total(args)
      <4>1. t \in Nat /\ buf \in [1 .. t -> PathCells \cup {Nul}]  BY <3>1, <3>2
      <4> HIDE DEF t
      <4>2. Len(buf) = t  BY <4>1, FunctionSeq
      <4> QED  BY <4>2 DEF t
    <3> QED  BY <3>1, <3>3
  <2>4. ASSUME stage = "done"
        PROVE IF Overs(args, Len(args)) = {} THEN result = JoinReference(args)
              ELSE IsPrefix(args[Max(Overs(args, Len(args)))], result)
    <3>1. nth = Len(args) + 1 /\ result = UpToNul(buf)  BY <2>1, <2>4 DEF JoinInv
    <3>2. nth - 1 = Len(args)
      <4>1. PICK N \in Nat : N = Len(args)  BY <2>1, JoinGrows
      <4>2. nth - 1 = N  BY <3>1, <4>1
      <4> QED  BY <4>1, <4>2
    <3>3. JoinState(args, Len(args), buf, used)  BY <2>1, <3>2
    <3>4. IF Overs(args, Len(args)) = {} THEN UpToNul(buf) = JoinReference(args)
          ELSE IsPrefix(args[Max(Overs(args, Len(args)))], UpToNul(buf))
      BY <2>1, <3>3, JoinEnds
    <3> QED  BY <3>1, <3>4
  <2> QED  BY <2>3, <2>4 DEF JoinRight, Overs
<1>2. PathInit => JoinInv  BY JoinInit
<1>3. JoinInv /\ [PathNext]_pathVars => JoinInv'  BY JoinStep
<1> QED  BY <1>1, <1>2, <1>3, PTL DEF PathSpec

-----------------------------------------------------------------------------
(* What normpath makes of a path *)

\* Words and separators take turns.
Alternates(g) ==
  /\ g \in Seq(PathCells)
  /\ \A n \in 1 .. Len(g) - 1 : g[n] \in Separators <=> g[n + 1] \in Components

\* A path from the root has one token that normpath takes for no "..".
Fixed(g) == IF FromRoot(g) THEN 1 ELSE 0

\* The nth token of a path ends with its nth word; the first begins with the path.
TokenEnd(g, n) ==
  IF n = 0 THEN 0 ELSE IF n = 1 /\ FromRoot(g) THEN Start(g) ELSE 2 * n - 1 + Fixed(g)

Tok(g, n) == IF n = 1 THEN SubSeq(g, 1, TokenEnd(g, 1)) ELSE <<g[TokenEnd(g, n)]>>

LEMMA CellIs ==
  ASSUME NEW g \in Seq(PathCells), NEW n \in 1 .. Len(g)
  PROVE  g[n] \in Separators <=> ~ (g[n] \in Components)
<1>1. g[n] \in PathCells  BY ElementOfSeq
<1> QED  BY <1>1, WordsAssumption DEF PathCells

LEMMA PathStart ==
  ASSUME NEW g \in Seq(PathCells)
  PROVE  /\ FromRoot(g) <=> Len(g) >= 1 /\ g[1] \in Separators
         /\ FromRoot(g) => Start(g) = IF Len(g) = 1 THEN 1 ELSE 2
         /\ ~FromRoot(g) => Start(g) = 0
         /\ Start(g) \in 0 .. 2 /\ Start(g) <= Len(g)
         /\ Fixed(g) \in 0 .. 1 /\ (Fixed(g) = 1 <=> FromRoot(g))
<1>1. Len(g) \in Nat /\ (g = <<>> <=> Len(g) = 0)  BY EmptySeq, LenProperties
<1>2. FromRoot(g) <=> Len(g) >= 1 /\ g[1] \in Separators  BY <1>1 DEF FromRoot
<1>3. PICK l \in Nat : l = Len(g)  BY <1>1
<1>4. /\ FromRoot(g) => Start(g) = IF l = 1 THEN 1 ELSE 2
      /\ ~FromRoot(g) => Start(g) = 0
      /\ FromRoot(g) => l >= 1
  BY <1>2, <1>3 DEF Start
<1>5. Start(g) \in 0 .. 2 /\ Start(g) <= l  BY <1>3, <1>4
<1>6. Fixed(g) \in 0 .. 1 /\ (Fixed(g) = 1 <=> FromRoot(g))  BY DEF Fixed
<1> QED  BY <1>2, <1>3, <1>4, <1>5, <1>6

\* Behind the first cell of a path from the root, and from the first cell of
\* another, every other cell is a word.
LEMMA EveryOther ==
  ASSUME NEW g, Alternates(g), NEW n \in Nat \ {0}
  PROVE  /\ 2 * n - 1 + Fixed(g) <= Len(g) => g[2 * n - 1 + Fixed(g)] \in Components
         /\ 2 * n + Fixed(g) <= Len(g) => g[2 * n + Fixed(g)] \in Separators
<1> DEFINE f == Fixed(g)
           w(m) == 2 * m - 1 + f
           T == {m \in Nat : m >= 1 => /\ w(m) <= Len(g) => g[w(m)] \in Components
                                       /\ w(m) + 1 <= Len(g) => g[w(m) + 1] \in Separators}
<1>1. g \in Seq(PathCells) /\ \A m \in 1 .. Len(g) - 1 : g[m] \in Separators <=> g[m + 1] \in Components
  BY DEF Alternates
<1>2. PICK l \in Nat : l = Len(g)  BY <1>1, LenProperties
<1>3. f \in 0 .. 1 /\ (f = 1 <=> FromRoot(g)) /\ (FromRoot(g) <=> l >= 1 /\ g[1] \in Separators)
  BY <1>1, <1>2, PathStart
<1>4. \A j \in 1 .. l : g[j] \in Separators <=> ~ (g[j] \in Components)
  BY <1>1, <1>2, CellIs
<1>5. \A j \in 1 .. l - 1 : g[j] \in Separators <=> g[j + 1] \in Components  BY <1>1, <1>2
<1> HIDE DEF f
<1>6. 0 \in T  OBVIOUS
<1>7. ASSUME NEW m \in Nat, m \in T PROVE m + 1 \in T
  <2> DEFINE j == w(m + 1)
  <2>1. j = w(m) + 2 /\ j \in Nat /\ j >= 1 /\ w(m) \in Int  BY <1>3
  <2>2. ASSUME j <= l PROVE g[j] \in Components
    <3>1. CASE m = 0
      <4>1. CASE f = 0
        <5>1. j = 1 /\ 1 \in 1 .. l  BY <2>2, <3>1, <4>1
        <5>2. ~ (g[1] \in Separators)  BY <1>3, <4>1, <5>1
        <5> QED  BY <1>4, <5>1, <5>2
      <4>2. CASE f = 1
        <5>1. j = 2 /\ 1 \in 1 .. l - 1  BY <2>2, <3>1, <4>2
        <5>2. g[1] \in Separators  BY <1>3, <4>2
        <5>3. g[1 + 1] \in Components  BY <1>5, <5>1, <5>2
        <5> QED  BY <5>1, <5>3
      <4> QED  BY <1>3, <4>1, <4>2
    <3>2. CASE m >= 1
      <4>1. w(m) + 1 <= l /\ w(m) + 1 \in 1 .. l - 1 /\ w(m) + 1 + 1 = j  BY <1>3, <2>1, <2>2, <3>2
      <4>2. g[w(m) + 1] \in Separators  BY <1>2, <1>7, <3>2, <4>1
      <4> HIDE DEF j, w
      <4>3. g[w(m) + 1 + 1] \in Components  BY <1>5, <4>1, <4>2
      <4> QED  BY <4>1, <4>3
    <3> QED  BY <3>1, <3>2
  <2>3. ASSUME j + 1 <= l PROVE g[j + 1] \in Separators
    <3> HIDE DEF j
    <3>1. j <= l /\ j \in 1 .. l /\ j + 1 \in 1 .. l /\ j \in 1 .. l - 1  BY <2>1, <2>3
    <3>2. ~ (g[j] \in Separators)  BY <1>4, <2>2, <3>1
    <3>3. ~ (g[j + 1] \in Components)  BY <1>5, <3>1, <3>2
    <3> QED  BY <1>4, <3>1, <3>3
  <2> QED  BY <1>2, <2>2, <2>3
<1>8. n \in T
  <2> HIDE DEF T
  <2> QED  BY <1>6, <1>7, AllOfNat
<1>9. n >= 1 /\ w(n) + 1 = 2 * n + f  BY <1>3
<1>10. /\ w(n) <= Len(g) => g[w(n)] \in Components
       /\ w(n) + 1 <= Len(g) => g[w(n) + 1] \in Separators
  BY <1>8, <1>9
<1> QED  BY <1>9, <1>10 DEF f

\* The tokens of a path.
LEMMA TokenIs ==
  ASSUME NEW g, Alternates(g), NEW n \in Nat \ {0}
  PROVE  /\ TokenEnd(g, n) \in Nat \ {0}
         /\ TokenEnd(g, n + 1) <= Len(g) => TokenEnd(g, n + 1) = TokenEnd(g, n) + 2
         /\ TokenEnd(g, n) + 1 <= Len(g) =>
              TokenEnd(g, n + 1) = TokenEnd(g, n) + 2 /\ g[TokenEnd(g, n) + 1] \in Separators
         /\ TokenEnd(g, n) <= Len(g) /\ n > Fixed(g) =>
              g[TokenEnd(g, n)] \in Components /\ Tok(g, n) = <<g[TokenEnd(g, n)]>>
<1>1. g \in Seq(PathCells)  BY DEF Alternates
<1>2. PICK l \in Nat : l = Len(g)  BY <1>1, LenProperties
<1> DEFINE f == Fixed(g)
           e == TokenEnd(g, n)
<1>3. /\ f \in 0 .. 1 /\ (f = 1 <=> FromRoot(g)) /\ (FromRoot(g) => l >= 1)
      /\ (FromRoot(g) => Start(g) = IF l = 1 THEN 1 ELSE 2)
  BY <1>1, <1>2, PathStart
<1>4. e = IF n = 1 /\ FromRoot(g) THEN Start(g) ELSE 2 * n - 1 + f  BY DEF TokenEnd
<1>5. TokenEnd(g, n + 1) = 2 * n + 1 + f  BY <1>3 DEF TokenEnd
<1>6. /\ 2 * n - 1 + f <= l => g[2 * n - 1 + f] \in Components
      /\ 2 * n + f <= l => g[2 * n + f] \in Separators
  BY <1>2, EveryOther
<1>8. n = 1 => Tok(g, n) = SubSeq(g, 1, e)  BY DEF Tok
<1>9. n # 1 => Tok(g, n) = <<g[e]>>  BY DEF Tok
<1> HIDE DEF f, e
<1>10. e \in Nat \ {0}  BY <1>3, <1>4
<1>11. 2 * n + 1 + f <= l => 2 * n + 1 + f = e + 2  BY <1>3, <1>4
<1>12. e + 1 <= l => 2 * n + 1 + f = e + 2 /\ e + 1 = 2 * n + f  BY <1>3, <1>4
<1>13. n > f => e = 2 * n - 1 + f  BY <1>3, <1>4
<1>14. ASSUME e <= l, n > f PROVE g[e] \in Components /\ Tok(g, n) = <<g[e]>>
  <2>1. g[e] \in Components  BY <1>6, <1>13, <1>14
  <2>2. CASE n = 1
    <3>1. e = 1  BY <1>3, <1>13, <1>14, <2>2
    <3>2. <<g[1]>> \in Seq(PathCells) /\ Len(<<g[1]>>) = 1 /\ <<g[1]>>[1] = g[1]
      <4>1. g[1] \in PathCells  BY <2>1, <3>1 DEF PathCells
      <4> QED  BY <4>1
    <3>3. Lies(g, 0, <<g[1]>>)  BY <3>2 DEF Lies
    <3>4. SubSeq(g, 0 + 1, 0 + 1) = <<g[1]>>  BY <3>2, <3>3, PieceIs
    <3> QED  BY <1>8, <2>1, <2>2, <3>1, <3>4
  <2> QED  BY <1>9, <2>1, <2>2
<1>15. e + 1 <= l => g[e + 1] \in Separators  BY <1>6, <1>12
<1> QED  BY <1>2, <1>5, <1>10, <1>11, <1>12, <1>14, <1>15 DEF e, f

\* The part of the path that the scan is in begins at pr, behind k tokens.
PartFrom(g, k, pr) ==
  IF k = 0 THEN pr = 1 ELSE pr = TokenEnd(g, k) + 2 /\ TokenEnd(g, k) + 1 <= Len(g)

NoneIn(g, from, to) == \A j \in from .. to : g[j] \notin Separators

Scanning(g, st, k) ==
  st \in Seq(Seq(PathCells)) /\ Len(st) = k /\ \A n \in 1 .. k : st[n] = Tok(g, n)

\* What is before pr is in st, and what is from pr up to ah is a part of one token.
ScanState(g, st, pr, ah) ==
  \E k \in Nat : /\ Scanning(g, st, k) /\ PartFrom(g, k, pr)
                 /\ ah \in pr .. Len(g) + 1 /\ NoneIn(g, pr + 1, ah - 1)

\* The path has k tokens.
AllTokens(g, k) ==
  /\ k \in Nat /\ k >= Fixed(g) /\ TokenEnd(g, k) <= Len(g)
  /\ \A j \in TokenEnd(g, k) + 1 .. Len(g) : g[j] \in Separators

\* What begins at pr and goes on up to a separator or the end is a token.
LEMMA TokenCut ==
  ASSUME NEW g, Alternates(g), NEW k \in Nat, NEW pr, PartFrom(g, k, pr),
         NEW e \in pr .. Len(g), NoneIn(g, pr + 1, e), e < Len(g) => g[e + 1] \in Separators
  PROVE  e = TokenEnd(g, k + 1) /\ SubSeq(g, pr, e) = Tok(g, k + 1)
         /\ SubSeq(g, pr, e) \in Seq(PathCells) /\ pr \in Nat \ {0}
<1>1. g \in Seq(PathCells)  BY DEF Alternates
<1>2. PICK l \in Nat : l = Len(g)  BY <1>1, LenProperties
<1>3. /\ (FromRoot(g) => g[1] \in Separators) /\ (FromRoot(g) => Start(g) = IF l = 1 THEN 1 ELSE 2)
      /\ Fixed(g) \in 0 .. 1 /\ (Fixed(g) = 1 <=> FromRoot(g))
  BY <1>1, <1>2, PathStart
<1>4. \A j \in 1 .. l : g[j] \in Separators <=> ~ (g[j] \in Components)  BY <1>1, <1>2, CellIs
<1> DEFINE t == TokenEnd(g, k + 1)
<1>5. k + 1 \in Nat \ {0}  OBVIOUS
<1>6. /\ t \in Nat \ {0} /\ (t + 1 <= l => g[t + 1] \in Separators)
      /\ t <= l /\ k + 1 > Fixed(g) => g[t] \in Components /\ Tok(g, k + 1) = <<g[t]>>
  BY <1>2, <1>5, TokenIs
<1>7. pr \in Nat \ {0} /\ (k # 0 => t = pr)
  <2>1. CASE k = 0  BY <2>1 DEF PartFrom
  <2>2. CASE k # 0
    <3>1. pr = TokenEnd(g, k) + 2 /\ TokenEnd(g, k) + 1 <= Len(g)  BY <2>2 DEF PartFrom
    <3>2. TokenEnd(g, k) \in Nat \ {0} /\ t = TokenEnd(g, k) + 2  BY <2>2, <3>1, TokenIs
    <3> QED  BY <2>2, <3>1, <3>2
  <2> QED  BY <2>1, <2>2
<1>8. k = 0 => pr = 1 /\ t = IF FromRoot(g) THEN Start(g) ELSE 1
  <2>1. ASSUME k = 0 PROVE pr = 1 /\ t = IF FromRoot(g) THEN Start(g) ELSE 1
    <3>1. k + 1 = 1 /\ 1 # 0 /\ 2 * 1 - 1 + 0 = 1  BY <2>1
    <3>2. pr = 1  BY <2>1 DEF PartFrom
    <3>3. ~FromRoot(g) => Fixed(g) = 0  BY DEF Fixed
    <3>4. t = IF FromRoot(g) THEN Start(g) ELSE 2 * 1 - 1 + Fixed(g)  BY <3>1 DEF TokenEnd
    <3> QED  BY <3>1, <3>2, <3>3, <3>4
  <2> QED  BY <2>1
<1> HIDE DEF t
<1>9. e \in pr .. l /\ (e < l => g[e + 1] \in Separators)  BY <1>2
<1>10. \A j \in pr + 1 .. e : ~ (g[j] \in Separators)  BY DEF NoneIn
<1>11. t >= pr /\ (t > pr => t = pr + 1 /\ k = 0 /\ FromRoot(g))
  BY <1>3, <1>7, <1>8
<1>12. e <= t
  <2> SUFFICES ASSUME e > t PROVE FALSE  BY <1>6, <1>7, <1>9
  <2>1. t + 1 \in pr + 1 .. e /\ t + 1 <= l  BY <1>6, <1>7, <1>9, <1>11
  <2> QED  BY <1>6, <1>10, <2>1
<1>13. e >= t
  <2> SUFFICES ASSUME e < t PROVE FALSE  BY <1>6, <1>7, <1>9
  <2>1. pr = 1 /\ e = 1 /\ t = 2 /\ FromRoot(g) /\ l # 1  BY <1>3, <1>6, <1>7, <1>8, <1>9, <1>11
  <2>2. e < l /\ 1 \in 1 .. l - 1 /\ 1 + 1 \in 1 .. l  BY <1>9, <2>1
  <2>3. g[1] \in Separators /\ g[1 + 1] \in Separators  BY <1>3, <1>9, <2>1, <2>2
  <2>4. g[1 + 1] \in Components  BY <1>2, <2>2, <2>3 DEF Alternates
  <2> QED  BY <1>4, <2>2, <2>3, <2>4
<1>14. e = t  BY <1>6, <1>7, <1>9, <1>12, <1>13
<1>15. SubSeq(g, pr, e) = Tok(g, k + 1)
  <2>1. CASE k = 0
    <3>1. k + 1 = 1  BY <2>1
    <3> QED  BY <1>8, <1>14, <2>1, <3>1 DEF Tok, t
  <2>2. CASE k # 0
    <3>1. t = pr /\ t <= l /\ k + 1 > Fixed(g)  BY <1>3, <1>7, <1>9, <1>14, <2>2
    <3>2. g[t] \in Components /\ Tok(g, k + 1) = <<g[t]>>  BY <1>6, <3>1
    <3>3. <<g[t]>> \in Seq(PathCells) /\ Len(<<g[t]>>) = 1 /\ <<g[t]>>[1] = g[t]
      <4>1. g[t] \in PathCells  BY <3>2 DEF PathCells
      <4> QED  BY <4>1
    <3>4. t - 1 \in Nat /\ (t - 1) + 1 = t  BY <1>6
    <3>5. Lies(g, t - 1, <<g[t]>>)  BY <3>3, <3>4 DEF Lies
    <3>6. SubSeq(g, (t - 1) + 1, (t - 1) + 1) = <<g[t]>>  BY <3>3, <3>4, <3>5, PieceIs
    <3> QED  BY <1>14, <3>1, <3>2, <3>4, <3>6
  <2> QED  BY <2>1, <2>2
<1>16. SubSeq(g, pr, e) \in Seq(PathCells)
  <2>1. \A j \in pr .. e : g[j] \in PathCells
    <3>1. \A j \in pr .. e : j \in 1 .. Len(g)  BY <1>2, <1>7, <1>9
    <3> QED  BY <1>1, <3>1, ElementOfSeq
  <2>2. pr \in Int /\ e \in Int  BY <1>7, <1>9
  <2> QED  BY <2>1, <2>2, SubSeqProperties
<1> QED  BY <1>7, <1>14, <1>15, <1>16 DEF t

\* One token more.
LEMMA TokenAdds ==
  ASSUME NEW g, NEW st, NEW k \in Nat, Scanning(g, st, k),
         NEW a \in Seq(PathCells), a = Tok(g, k + 1)
  PROVE  Scanning(g, Append(st, a), k + 1)
<1> DEFINE z == Append(st, a)
<1>1. st \in Seq(Seq(PathCells)) /\ Len(st) = k /\ \A n \in 1 .. k : st[n] = Tok(g, n)
  BY DEF Scanning
<1>2. /\ z \in Seq(Seq(PathCells)) /\ Len(z) = Len(st) + 1
      /\ \A n \in 1 .. Len(st) : z[n] = st[n] /\ z[Len(st) + 1] = a
  BY <1>1, AppendProperties
<1>3. z[k + 1] = a  BY <1>1, AppendProperties
<1> HIDE DEF z
<1>4. \A n \in 1 .. k + 1 : n \in 1 .. k \/ n = k + 1  OBVIOUS
<1>5. \A n \in 1 .. k + 1 : z[n] = Tok(g, n)  BY <1>1, <1>2, <1>3, <1>4
<1> QED  BY <1>1, <1>2, <1>5 DEF Scanning, z

LEMMA ScanBegins ==
  ASSUME NEW g, Alternates(g) PROVE ScanState(g, <<>>, 1, 1)
<1>1. Len(g) \in Nat  BY LenProperties DEF Alternates
<1>2. 1 \in 1 .. Len(g) + 1  BY <1>1
<1>3. Scanning(g, <<>>, 0)
  <2>1. <<>> \in Seq(Seq(PathCells)) /\ Len(<<>>) = 0 /\ 1 .. 0 = {}  OBVIOUS
  <2> QED  BY <2>1 DEF Scanning
<1>4. PartFrom(g, 0, 1)  BY DEF PartFrom
<1>5. NoneIn(g, 1 + 1, 1 - 1)
  <2>1. 1 + 1 .. 1 - 1 = {}  OBVIOUS
  <2> QED  BY <2>1 DEF NoneIn
<1> QED  BY <1>2, <1>3, <1>4, <1>5 DEF ScanState

LEMMA ScanMore ==
  ASSUME NEW g, Alternates(g), NEW st, NEW pr, NEW ah, ScanState(g, st, pr, ah), ah <= Len(g),
         ~ (g[ah] \in Separators /\ pr < ah)
  PROVE  ScanState(g, st, pr, ah + 1)
<1>1. PICK k \in Nat : /\ Scanning(g, st, k) /\ PartFrom(g, k, pr)
                      /\ ah \in pr .. Len(g) + 1 /\ NoneIn(g, pr + 1, ah - 1)
  BY DEF ScanState
<1>2. pr \in Nat \ {0}
  <2>1. k # 0 => TokenEnd(g, k) \in Nat \ {0}  BY TokenIs
  <2> QED  BY <1>1, <2>1 DEF PartFrom
<1>3. PICK l \in Nat : l = Len(g)  BY LenProperties DEF Alternates
<1>4. ah \in pr .. l + 1 /\ ah <= l  BY <1>1, <1>3
<1>5. ah + 1 \in pr .. l + 1  BY <1>2, <1>4
<1>6. NoneIn(g, pr + 1, (ah + 1) - 1)
  <2>1. \A j \in pr + 1 .. (ah + 1) - 1 : j \in pr + 1 .. ah - 1 \/ (j = ah /\ pr < ah)
    BY <1>2, <1>4
  <2> QED  BY <1>1, <2>1 DEF NoneIn
<1> QED  BY <1>1, <1>3, <1>5, <1>6 DEF ScanState

LEMMA ScanCut ==
  ASSUME NEW g, Alternates(g), NEW st, NEW pr, NEW ah, ScanState(g, st, pr, ah), ah <= Len(g),
         g[ah] \in Separators, pr < ah
  PROVE  ScanState(g, Append(st, SubSeq(g, pr, ah - 1)), ah + 1, ah + 1)
<1>1. PICK k \in Nat : /\ Scanning(g, st, k) /\ PartFrom(g, k, pr)
                      /\ ah \in pr .. Len(g) + 1 /\ NoneIn(g, pr + 1, ah - 1)
  BY DEF ScanState
<1>2. pr \in Nat \ {0}
  <2>1. k # 0 => TokenEnd(g, k) \in Nat \ {0}  BY TokenIs
  <2> QED  BY <1>1, <2>1 DEF PartFrom
<1>3. PICK l \in Nat : l = Len(g)  BY LenProperties DEF Alternates
<1> DEFINE e == ah - 1
           a == SubSeq(g, pr, e)
<1>4. e \in pr .. l /\ e + 1 = ah /\ ah \in Nat /\ ah + 1 \in ah + 1 .. l + 1 /\ k + 1 \in Nat
  BY <1>1, <1>2, <1>3
<1> HIDE DEF e
<1>5. e \in pr .. Len(g) /\ NoneIn(g, pr + 1, e) /\ (e < Len(g) => g[e + 1] \in Separators)
  BY <1>1, <1>3, <1>4 DEF e
<1>6. e = TokenEnd(g, k + 1) /\ a = Tok(g, k + 1) /\ a \in Seq(PathCells)
  BY <1>1, <1>5, TokenCut
<1> HIDE DEF a
<1>7. Scanning(g, Append(st, a), k + 1)  BY <1>1, <1>6, TokenAdds
<1>8. PartFrom(g, k + 1, ah + 1)
  <2>1. k + 1 # 0 /\ ah + 1 = TokenEnd(g, k + 1) + 2 /\ TokenEnd(g, k + 1) + 1 <= Len(g)
    BY <1>3, <1>4, <1>6
  <2> QED  BY <2>1 DEF PartFrom
<1>9. NoneIn(g, (ah + 1) + 1, (ah + 1) - 1)
  <2>1. (ah + 1) + 1 .. (ah + 1) - 1 = {}  BY <1>4
  <2> QED  BY <2>1 DEF NoneIn
<1>10. ScanState(g, Append(st, a), ah + 1, ah + 1)  BY <1>3, <1>4, <1>7, <1>8, <1>9 DEF ScanState
<1> QED  BY <1>10 DEF a, e

LEMMA ScanEnds ==
  ASSUME NEW g, Alternates(g), NEW st, NEW pr, NEW ah, ScanState(g, st, pr, ah), ah > Len(g),
         NEW z, z = IF pr < ah THEN Append(st, SubSeq(g, pr, ah - 1)) ELSE st
  PROVE  \E k \in Nat : Scanning(g, z, k) /\ AllTokens(g, k)
<1>1. PICK k \in Nat : /\ Scanning(g, st, k) /\ PartFrom(g, k, pr)
                      /\ ah \in pr .. Len(g) + 1 /\ NoneIn(g, pr + 1, ah - 1)
  BY DEF ScanState
<1>2. k # 0 => TokenEnd(g, k) \in Nat \ {0}  BY TokenIs
<1>3. pr \in Nat \ {0}  BY <1>1, <1>2 DEF PartFrom
<1>4. PICK l \in Nat : l = Len(g)  BY LenProperties DEF Alternates
<1>8. Fixed(g) \in 0 .. 1 /\ (Fixed(g) = 1 => l >= 1)
  <2>1. g \in Seq(PathCells)  BY DEF Alternates
  <2> QED  BY <1>4, <2>1, PathStart
<1>5. ah = l + 1 /\ ah - 1 = l /\ pr <= ah  BY <1>1, <1>3, <1>4
<1>6. CASE pr < ah
  <2> DEFINE a == SubSeq(g, pr, l)
  <2>1. l \in pr .. Len(g) /\ NoneIn(g, pr + 1, l) /\ ~ (l < Len(g))  BY <1>1, <1>3, <1>4, <1>5, <1>6
  <2>2. l = TokenEnd(g, k + 1) /\ a = Tok(g, k + 1) /\ a \in Seq(PathCells)
    BY <1>1, <2>1, TokenCut
  <2>3. z = Append(st, a)  BY <1>5, <1>6
  <2> HIDE DEF a
  <2>4. Scanning(g, z, k + 1)  BY <1>1, <2>2, <2>3, TokenAdds
  <2>5. AllTokens(g, k + 1)
    <3>1. l + 1 .. l = {} /\ l <= l /\ k + 1 \in Nat /\ k + 1 >= Fixed(g)  BY <1>8
    <3> QED  BY <1>4, <2>2, <3>1 DEF AllTokens
  <2> QED  BY <2>4, <2>5
<1>7. CASE ~ (pr < ah)
  <2>1. z = st /\ pr = l + 1  BY <1>3, <1>5, <1>7
  <2>2. AllTokens(g, k)
    <3>1. CASE k = 0
      <4>1. l = 0 /\ TokenEnd(g, k) = 0 /\ 0 + 1 .. 0 = {}  BY <1>1, <2>1, <3>1 DEF PartFrom, TokenEnd
      <4>2. k >= Fixed(g)  BY <1>4, <1>8, <3>1, <4>1
      <4> QED  BY <1>4, <4>1, <4>2 DEF AllTokens
    <3>2. CASE k # 0
      <4> DEFINE t == TokenEnd(g, k)
      <4>1. t + 2 = l + 1 /\ t \in Nat /\ t + 1 <= Len(g)  BY <1>1, <1>2, <2>1, <3>2 DEF PartFrom
      <4>2. g[t + 1] \in Separators  BY <3>2, <4>1, TokenIs
      <4> HIDE DEF t
      <4>3. t <= l /\ \A j \in t + 1 .. l : j = t + 1  BY <4>1
      <4>4. k >= Fixed(g)  BY <1>8, <3>2
      <4> QED  BY <1>4, <4>2, <4>3, <4>4 DEF AllTokens, t
    <3> QED  BY <3>1, <3>2
  <2> QED  BY <1>1, <2>1, <2>2
<1> QED  BY <1>6, <1>7

\* Words that are neither ".." nor ".".
Ordinary == Components \ {Up, Here}

\* Where one cell leads.
Went(at, w) ==
  IF w \in Separators \cup {Here} THEN at ELSE IF w = Up THEN Front(at) ELSE Append(at, w)

Tracks(at, g, m, k) == at = [n \in m .. k |-> IF n = m THEN <<>> ELSE Went(at[n - 1], g[n])]

LEMMA TracksSome ==
  ASSUME NEW g, NEW m \in Nat
  PROVE  \A k \in Nat : \E at : Tracks(at, g, m, m + k)
<1> DEFINE T == {k \in Nat : \E at : Tracks(at, g, m, m + k)}
<1>1. 0 \in T
  <2> DEFINE r == [n \in m .. m + 0 |-> <<>>]
  <2>1. \A n \in m .. m + 0 : n = m  OBVIOUS
  <2>2. r = [n \in m .. m + 0 |-> IF n = m THEN <<>> ELSE Went(r[n - 1], g[n])]  BY <2>1
  <2>3. Tracks(r, g, m, m + 0)  BY <2>2 DEF Tracks
  <2> QED  BY <2>3
<1>2. ASSUME NEW k \in Nat, k \in T PROVE k + 1 \in T
  <2>1. PICK f : Tracks(f, g, m, m + k)  BY <1>2
  <2> DEFINE z == m + k
             e(h, n) == IF n = m THEN <<>> ELSE Went(h[n - 1], g[n])
             r == [n \in m .. z + 1 |-> IF n = z + 1 THEN e(f, n) ELSE f[n]]
  <2>2. z \in Nat /\ m <= z  OBVIOUS
  <2>3. \A n \in m .. z : f[n] = e(f, n)  BY <2>1 DEF Tracks
  <2> HIDE DEF z
  <2>4. ASSUME NEW n \in m .. z + 1 PROVE r[n] = e(r, n)
    <3>1. n # m => n - 1 \in m .. z + 1 /\ n - 1 # z + 1 /\ n - 1 \in m .. z  BY <2>2
    <3>2. n # m => r[n - 1] = f[n - 1]  BY <3>1
    <3>3. e(r, n) = e(f, n)  BY <3>2
    <3>4. CASE n = z + 1  BY <3>3, <3>4
    <3>5. CASE n # z + 1
      <4>1. n \in m .. z  BY <2>2, <3>5
      <4> QED  BY <2>3, <3>3, <3>5, <4>1
    <3> QED  BY <3>4, <3>5
  <2>5. r = [n \in m .. z + 1 |-> e(r, n)]  BY <2>4
  <2>6. z + 1 = m + (k + 1)  BY DEF z
  <2>7. Tracks(r, g, m, m + (k + 1))  BY <2>5, <2>6 DEF Tracks
  <2> HIDE DEF r
  <2> QED  BY <2>7
<1> HIDE DEF T
<1>3. \A k \in Nat : k \in T  BY <1>1, <1>2, AllOfNat
<1> QED  BY <1>3 DEF T

LEMMA TrackIs ==
  ASSUME NEW g, Len(g) \in Nat, NEW m \in 0 .. Len(g)
  PROVE  /\ Track(g, m)[m] = <<>>
         /\ \A n \in m + 1 .. Len(g) : Track(g, m)[n] = Went(Track(g, m)[n - 1], g[n])
<1> DEFINE t == CHOOSE at : Tracks(at, g, m, Len(g))
<1>1. Len(g) - m \in Nat /\ m + (Len(g) - m) = Len(g) /\ m \in Nat  OBVIOUS
<1>2. \E at : Tracks(at, g, m, m + (Len(g) - m))  BY <1>1, TracksSome
<1>3. Tracks(t, g, m, Len(g))  BY <1>1, <1>2
<1>4. Track(g, m) = t  BY DEF Track, Tracks, Went
<1> HIDE DEF t
<1>5. \A n \in m .. Len(g) : t[n] = IF n = m THEN <<>> ELSE Went(t[n - 1], g[n])  BY <1>3 DEF Tracks
<1>6. m \in m .. Len(g) /\ \A n \in m + 1 .. Len(g) : n \in m .. Len(g) /\ n # m  BY <1>1
<1> QED  BY <1>4, <1>5, <1>6

LEMMA FrontIs ==
  ASSUME NEW S, NEW x \in Seq(S)
  PROVE  /\ Front(x) \in Seq(S)
         /\ x = <<>> => Front(x) = <<>>
         /\ x # <<>> => Len(x) >= 1 /\ Len(Front(x)) = Len(x) - 1
         /\ \A j \in 1 .. Len(x) - 1 : Front(x)[j] = x[j]
<1> DEFINE q == SubSeq(x, 1, Len(x) - 1)
<1>1. PICK l \in Nat : l = Len(x)  BY LenProperties
<1>2. \A j \in 1 .. l - 1 : x[j] \in S
  <2>1. \A j \in 1 .. l - 1 : j \in 1 .. Len(x)  BY <1>1
  <2> QED  BY <2>1, ElementOfSeq
<1>3. 1 \in Int /\ l - 1 \in Int  OBVIOUS
<1> DEFINE y == l - 1
<1>4. /\ SubSeq(x, 1, y) \in Seq(S)
      /\ Len(SubSeq(x, 1, y)) = IF 1 <= y THEN y - 1 + 1 ELSE 0
      /\ \A j \in 1 .. y - 1 + 1 : SubSeq(x, 1, y)[j] = x[1 + j - 1]
  <2> HIDE DEF y
  <2>1. \A j \in 1 .. y : x[j] \in S  BY <1>2 DEF y
  <2>2. y \in Int  BY DEF y
  <2> QED  BY <2>1, <2>2, SubSeqProperties
<1>5. Front(x) = SubSeq(x, 1, y)  BY <1>1 DEF Front
<1>6. Len(Front(x)) = IF l = 0 THEN 0 ELSE l - 1
  <2>1. (IF 1 <= y THEN y - 1 + 1 ELSE 0) = IF l = 0 THEN 0 ELSE l - 1  OBVIOUS
  <2> QED  BY <1>4, <1>5, <2>1
<1>7. \A j \in 1 .. l - 1 : Front(x)[j] = x[j]
  <2>1. \A j \in 1 .. l - 1 : j \in 1 .. y - 1 + 1 /\ 1 + j - 1 = j  OBVIOUS
  <2> QED  BY <1>4, <1>5, <2>1
<1>8. x = <<>> <=> l = 0  BY <1>1, EmptySeq
<1>9. l = 0 => Front(x) = <<>>
  <2>1. l = 0 => Len(Front(x)) = 0 /\ Front(x) \in Seq(S)  BY <1>4, <1>5, <1>6
  <2> HIDE DEF y
  <2> QED  BY <2>1, EmptySeq
<1>10. Front(x) \in Seq(S)  BY <1>4, <1>5
<1>11. x # <<>> => l >= 1 /\ Len(Front(x)) = l - 1  BY <1>6, <1>8
<1> QED  BY <1>1, <1>7, <1>8, <1>9, <1>10, <1>11

LEMMA WentSeq ==
  ASSUME NEW at \in Seq(Ordinary), NEW w \in PathCells
  PROVE  Went(at, w) \in Seq(Ordinary)
<1>1. w \notin Separators \cup {Here} /\ w # Up => w \in Ordinary  BY DEF Ordinary, PathCells
<1> QED  BY <1>1, FrontIs, AppendProperties DEF Went

LEMMA TrackSeq ==
  ASSUME NEW g \in Seq(PathCells), NEW m \in 0 .. Len(g), NEW n \in m .. Len(g)
  PROVE  Track(g, m)[n] \in Seq(Ordinary)
<1> DEFINE T == {k \in Nat : m + k <= Len(g) => Track(g, m)[m + k] \in Seq(Ordinary)}
<1>0. PICK l \in Nat : l = Len(g)  BY LenProperties
<1>1. Track(g, m)[m] = <<>> /\ \A j \in m + 1 .. l : Track(g, m)[j] = Went(Track(g, m)[j - 1], g[j])
  BY <1>0, TrackIs
<1>2. 0 \in T
  <2>1. m + 0 = m  BY <1>0
  <2>2. <<>> \in Seq(Ordinary)  OBVIOUS
  <2> QED  BY <1>1, <2>1, <2>2
<1>3. ASSUME NEW k \in Nat, k \in T PROVE k + 1 \in T
  <2> SUFFICES ASSUME m + (k + 1) <= l PROVE Track(g, m)[m + (k + 1)] \in Seq(Ordinary)  BY <1>0
  <2> DEFINE j == m + (k + 1)
  <2>1. j \in m + 1 .. l /\ j - 1 = m + k /\ m + k <= l /\ j \in 1 .. l  BY <1>0
  <2>2. Track(g, m)[j - 1] \in Seq(Ordinary)  BY <1>0, <1>3, <2>1
  <2>3. g[j] \in PathCells  BY <1>0, <2>1, ElementOfSeq
  <2> HIDE DEF j
  <2>4. Track(g, m)[j] \in Seq(Ordinary)  BY <1>1, <2>1, <2>2, <2>3, WentSeq
  <2> QED  BY <2>4 DEF j
<1>4. n - m \in T
  <2>1. n - m \in Nat  BY <1>0
  <2> HIDE DEF T
  <2> QED  BY <1>2, <1>3, <2>1, AllOfNat
<1>5. m + (n - m) = n /\ n <= l  BY <1>0
<1> QED  BY <1>0, <1>4, <1>5

\* From its first word on a path has not led above at it starts, up to cell e.
NeverAbove(g, e) ==
  \A n \in Start(g) + 1 .. e : g[n] = Up => Track(g, Start(g))[n - 1] # <<>>

\* From token tk on the stack holds the tokens behind the first c of k.
Rest(g, st, tk, c, k) ==
  /\ Len(st) = (tk - 1) + (k - c)
  /\ \A m \in 1 .. k - c : st[(tk - 1) + m] = Tok(g, c + m)

\* Before it stand the first token of a path from the root and the names where
\* c tokens lead.
Kept(g, st, tk, c) ==
  LET x == Track(g, Start(g))[TokenEnd(g, c)]
  IN IF c < Fixed(g) THEN tk = 1
     ELSE /\ tk = Fixed(g) + Len(x) + 1
          /\ Fixed(g) = 1 => st[1] = Tok(g, 1)
          /\ \A m \in 1 .. Len(x) : st[Fixed(g) + m] = <<x[m]>>
          /\ Fixed(g) = 1 => NeverAbove(g, TokenEnd(g, c))

\* The root is lost when a path leads above at it starts: every token is a word.
WordTokens(st) == \A m \in 1 .. Len(st) : \E w \in Components : st[m] = <<w>>

Resolving(g, st, tk) ==
  /\ st \in Seq(Seq(PathCells)) /\ tk \in Nat \ {0}
  /\ \/ \E k \in Nat : AllTokens(g, k) /\ \E c \in 0 .. k : Rest(g, st, tk, c, k) /\ Kept(g, st, tk, c)
     \/ FromRoot(g) /\ ~Below(g) /\ WordTokens(st)

LEMMA TokenEndGrows ==
  ASSUME NEW g, Alternates(g), NEW k \in Nat \ {0}, NEW n \in 1 .. k
  PROVE  TokenEnd(g, n) <= TokenEnd(g, k) /\ (n >= Fixed(g) => Start(g) <= TokenEnd(g, n))
<1>1. g \in Seq(PathCells)  BY DEF Alternates
<1>2. /\ Fixed(g) \in 0 .. 1 /\ (Fixed(g) = 1 <=> FromRoot(g)) /\ Start(g) \in 0 .. 2
      /\ ~FromRoot(g) => Start(g) = 0
  BY <1>1, PathStart
<1>3. \A m \in 1 .. k : TokenEnd(g, m) = IF m = 1 /\ FromRoot(g) THEN Start(g) ELSE 2 * m - 1 + Fixed(g)
  BY DEF TokenEnd
<1>4. k \in 1 .. k /\ k \in Nat /\ n \in Nat /\ n >= 1 /\ n <= k  OBVIOUS
<1> DEFINE s0 == Start(g)
           f == Fixed(g)
           tn == TokenEnd(g, n)
           tz == TokenEnd(g, k)
           r == FromRoot(g)
<1>5. /\ tn = IF n = 1 /\ r THEN s0 ELSE 2 * n - 1 + f
      /\ tz = IF k = 1 /\ r THEN s0 ELSE 2 * k - 1 + f
  BY <1>3, <1>4
<1>6. f \in 0 .. 1 /\ (f = 1 <=> r) /\ s0 \in 0 .. 2 /\ (~r => s0 = 0)  BY <1>2
<1> HIDE DEF s0, f, tn, tz, r
<1>7. tn <= tz  BY <1>4, <1>5, <1>6
<1>8. s0 <= tn  BY <1>4, <1>5, <1>6
<1> QED  BY <1>7, <1>8 DEF s0, tn, tz

\* The next token, behind c of k, and where it leads.
LEMMA NextToken ==
  ASSUME NEW g, Alternates(g), NEW k \in Nat, AllTokens(g, k), NEW c \in 0 .. k - 1, c >= Fixed(g),
         NEW x, x = Track(g, Start(g))[TokenEnd(g, c)],
         NEW e, e = TokenEnd(g, c + 1)
  PROVE  /\ e \in Start(g) + 1 .. Len(g) /\ g[e] \in Components /\ Tok(g, c + 1) = <<g[e]>>
         /\ x \in Seq(Ordinary)
         /\ Track(g, Start(g))[e - 1] = x /\ Track(g, Start(g))[e] = Went(x, g[e])
         /\ \A n \in TokenEnd(g, c) + 1 .. e : n = e \/ g[n] \in Separators
         /\ TokenEnd(g, c) \in Nat /\ Start(g) <= TokenEnd(g, c) /\ TokenEnd(g, c) < e
<1>1. g \in Seq(PathCells)  BY DEF Alternates
<1>2. PICK l \in Nat : l = Len(g)  BY <1>1, LenProperties
<1> DEFINE s0 == Start(g)
           d == TokenEnd(g, c)
           t == Track(g, s0)
<1>3. /\ Fixed(g) \in 0 .. 1 /\ (Fixed(g) = 1 <=> FromRoot(g)) /\ s0 \in 0 .. 2 /\ s0 <= l
      /\ ~FromRoot(g) => s0 = 0
  BY <1>1, <1>2, PathStart
<1>4. k \in Nat \ {0} /\ c + 1 \in 1 .. k /\ c + 1 \in Nat \ {0} /\ c + 1 > Fixed(g) /\ c \in Nat
  BY <1>3
<1>5. e <= l /\ e \in Nat \ {0}
  <2>1. e <= TokenEnd(g, k) /\ TokenEnd(g, k) <= l /\ TokenEnd(g, k) \in Nat
    BY <1>2, <1>4, TokenEndGrows, TokenIs DEF AllTokens
  <2>2. e \in Nat \ {0}  BY <1>4, TokenIs
  <2> QED  BY <2>1, <2>2
<1>6. g[e] \in Components /\ Tok(g, c + 1) = <<g[e]>>
  BY <1>2, <1>4, <1>5, TokenIs
<1>7. CASE c = 0
  <2>1. d = 0 /\ ~FromRoot(g) /\ s0 = 0  BY <1>3, <1>7 DEF TokenEnd
  <2>2. e = 1
    <3>1. c + 1 = 1 /\ 1 # 0 /\ 2 * 1 - 1 + 0 = 1  BY <1>7
    <3>2. Fixed(g) = 0  BY <1>3, <2>1
    <3> QED  BY <2>1, <3>1, <3>2 DEF TokenEnd
  <2> QED  BY <1>1, <1>2, <1>5, <1>6, <2>1, <2>2, TrackIs, TrackSeq
<1>8. CASE c # 0
  <2>1. c \in Nat \ {0} /\ c \in 1 .. k  BY <1>4, <1>8
  <2>2. d \in Nat \ {0} /\ e = d + 2 /\ s0 <= d
    BY <1>2, <1>4, <1>5, <2>1, TokenIs, TokenEndGrows
  <2>3. g[d + 1] \in Separators  BY <1>2, <1>5, <2>1, <2>2, TokenIs
  <2> HIDE DEF s0, d
  <2>4. d + 1 \in s0 + 1 .. l /\ e \in s0 + 1 .. l /\ e - 1 = d + 1 /\ (d + 1) - 1 = d /\ d \in s0 .. l
        /\ s0 \in 0 .. l
    BY <1>3, <1>5, <2>2
  <2>5. t[d + 1] = Went(t[d], g[d + 1]) /\ t[e] = Went(t[d + 1], g[e])
    BY <1>1, <1>2, <2>4, TrackIs
  <2>6. t[d + 1] = t[d]  BY <2>3, <2>5 DEF Went
  <2>7. t[d] \in Seq(Ordinary)  BY <1>1, <1>2, <2>4, TrackSeq
  <2>8. \A n \in d + 1 .. e : n = e \/ n = d + 1  BY <2>2
  <2>9. x = t[d]  BY DEF s0, d
  <2>10. t[e - 1] = x /\ t[e] = Went(x, g[e])  BY <2>4, <2>5, <2>6, <2>9
  <2>11. d < e  BY <2>2
  <2> QED  BY <1>2, <1>6, <2>2, <2>3, <2>4, <2>7, <2>8, <2>9, <2>10, <2>11 DEF s0, d
<1> QED  BY <1>7, <1>8

\* The first token of a path from the root begins with a separator.
LEMMA RootToken ==
  ASSUME NEW g, Alternates(g), FromRoot(g)
  PROVE  /\ Tok(g, 1) = SubSeq(g, 1, Start(g)) /\ Tok(g, 1) \in Seq(PathCells)
         /\ Len(Tok(g, 1)) = Start(g) /\ Start(g) >= 1
         /\ \A j \in 1 .. Start(g) : Tok(g, 1)[j] = g[j]
         /\ g[1] \in Separators /\ \A w \in Components : Tok(g, 1) # <<w>>
<1>1. g \in Seq(PathCells)  BY DEF Alternates
<1>2. PICK l \in Nat : l = Len(g)  BY <1>1, LenProperties
<1>3. Start(g) \in 1 .. 2 /\ Start(g) <= l /\ g[1] \in Separators  BY <1>1, <1>2, PathStart
<1>4. Tok(g, 1) = SubSeq(g, 1, Start(g))
  <2>1. 1 # 0 /\ TokenEnd(g, 1) = Start(g)  BY DEF TokenEnd
  <2> QED  BY <2>1 DEF Tok
<1> DEFINE z == Start(g)
           q == SubSeq(g, 1, z)
<1>5. /\ q \in Seq(PathCells) /\ Len(q) = IF 1 <= z THEN z - 1 + 1 ELSE 0
      /\ \A j \in 1 .. z - 1 + 1 : q[j] = g[1 + j - 1]
  <2>1. 1 \in Int /\ z \in Int  BY <1>3
  <2>2. \A j \in 1 .. z : j \in 1 .. Len(g)  BY <1>2, <1>3
  <2>3. \A j \in 1 .. z : g[j] \in PathCells  BY <1>1, <2>2, ElementOfSeq
  <2> HIDE DEF z
  <2> QED  BY <2>1, <2>3, SubSeqProperties
<1>6. z \in 1 .. 2  BY <1>3
<1> HIDE DEF z, q
<1>7. Len(q) = z /\ \A j \in 1 .. z : q[j] = g[j]
  <2>1. \A j \in 1 .. z : j \in 1 .. z - 1 + 1 /\ 1 + j - 1 = j  BY <1>6
  <2> QED  BY <1>5, <1>6, <2>1
<1>8. \A w \in Components : q # <<w>>
  <2> SUFFICES ASSUME NEW w \in Components, q = <<w>> PROVE FALSE  OBVIOUS
  <2>1. q[1] = w  BY Zenon
  <2>2. q[1] = g[1]  BY <1>6, <1>7
  <2> QED  BY <1>3, <2>1, <2>2, WordsAssumption
<1>9. z >= 1  BY <1>6
<1> QED  BY <1>3, <1>4, <1>5, <1>7, <1>8, <1>9 DEF z, q

LEMMA RemoveAtIs ==
  ASSUME NEW S, NEW st \in Seq(S), NEW tk \in 1 .. Len(st)
  PROVE  /\ RemoveAt(st, tk) \in Seq(S) /\ Len(RemoveAt(st, tk)) = Len(st) - 1
         /\ \A m \in 1 .. Len(st) - 1 :
              RemoveAt(st, tk)[m] = IF m < tk THEN st[m] ELSE st[m + 1]
<1>1. PICK l \in Nat : l = Len(st)  BY LenProperties
<1> DEFINE u == SubSeq(st, 1, tk - 1)
           v == SubSeq(st, tk + 1, l)
           x == tk - 1
           y == tk + 1
<1>2. tk \in 1 .. l /\ x \in Int /\ y \in Int /\ 1 \in Int /\ l \in Int  BY <1>1
<1>3. \A j \in 1 .. l : st[j] \in S  BY <1>1, ElementOfSeq
<1>4. (\A j \in 1 .. x : st[j] \in S) /\ (\A j \in y .. l : st[j] \in S)
  <2>1. (\A j \in 1 .. x : j \in 1 .. l) /\ (\A j \in y .. l : j \in 1 .. l)  BY <1>2
  <2> QED  BY <1>3, <2>1
<1>5. /\ u \in Seq(S) /\ Len(u) = (IF 1 <= x THEN x - 1 + 1 ELSE 0)
      /\ \A j \in 1 .. x - 1 + 1 : u[j] = st[1 + j - 1]
  <2> HIDE DEF x
  <2>1. SubSeq(st, 1, x) \in Seq(S) /\ Len(SubSeq(st, 1, x)) = (IF 1 <= x THEN x - 1 + 1 ELSE 0)
        /\ \A j \in 1 .. x - 1 + 1 : SubSeq(st, 1, x)[j] = st[1 + j - 1]
    BY <1>2, <1>4, SubSeqProperties
  <2> QED  BY <2>1 DEF x
<1>6. /\ v \in Seq(S) /\ Len(v) = (IF y <= l THEN l - y + 1 ELSE 0)
      /\ \A j \in 1 .. l - y + 1 : v[j] = st[y + j - 1]
  <2> HIDE DEF y
  <2>1. SubSeq(st, y, l) \in Seq(S) /\ Len(SubSeq(st, y, l)) = (IF y <= l THEN l - y + 1 ELSE 0)
        /\ \A j \in 1 .. l - y + 1 : SubSeq(st, y, l)[j] = st[y + j - 1]
    BY <1>2, <1>4, SubSeqProperties
  <2> QED  BY <2>1 DEF y
<1>7. RemoveAt(st, tk) = u \o v  BY <1>1 DEF RemoveAt
<1>8. Len(u) = tk - 1 /\ \A j \in 1 .. tk - 1 : u[j] = st[j]
  <2>1. (IF 1 <= x THEN x - 1 + 1 ELSE 0) = tk - 1 /\ \A j \in 1 .. tk - 1 : j \in 1 .. x - 1 + 1 /\ 1 + j - 1 = j
    BY <1>2
  <2> HIDE DEF u
  <2> QED  BY <1>5, <2>1
<1>9. Len(v) = l - tk /\ \A j \in 1 .. l - tk : v[j] = st[tk + j]
  <2>1. (IF y <= l THEN l - y + 1 ELSE 0) = l - tk
        /\ \A j \in 1 .. l - tk : j \in 1 .. l - y + 1 /\ y + j - 1 = tk + j
    BY <1>2
  <2> HIDE DEF v
  <2> QED  BY <1>6, <2>1
<1> DEFINE w == u \o v
<1>10. w \in Seq(S) /\ Joins(w, u, v)
  <2>1. u \in Seq(S) /\ v \in Seq(S)  BY <1>5, <1>6
  <2> HIDE DEF u, v
  <2> QED  BY <2>1, Joint
<1> HIDE DEF u, v, w
<1>11. Len(w) = l - 1  BY <1>2, <1>8, <1>9, <1>10 DEF Joins
<1>12. ASSUME NEW m \in 1 .. l - 1 PROVE w[m] = IF m < tk THEN st[m] ELSE st[m + 1]
  <2>1. CASE m < tk
    <3>1. m \in 1 .. tk - 1  BY <1>2, <2>1
    <3> QED  BY <1>8, <1>10, <2>1, <3>1 DEF Joins
  <2>2. CASE ~ (m < tk)
    <3>1. m - (tk - 1) \in 1 .. l - tk /\ (tk - 1) + (m - (tk - 1)) = m /\ tk + (m - (tk - 1)) = m + 1
      BY <1>2, <2>2
    <3>2. w[(tk - 1) + (m - (tk - 1))] = v[m - (tk - 1)]  BY <1>8, <1>9, <1>10, <3>1 DEF Joins
    <3>3. v[m - (tk - 1)] = st[tk + (m - (tk - 1))]  BY <1>9, <3>1
    <3> QED  BY <2>2, <3>1, <3>2, <3>3
  <2> QED  BY <2>1, <2>2
<1> QED  BY <1>1, <1>7, <1>10, <1>11, <1>12 DEF w

\* What takes a token away, or two.
Gone(st, tk) == IF tk > 1 THEN RemoveAt(RemoveAt(st, tk), tk - 1) ELSE RemoveAt(st, tk)

LEMMA GoneIs ==
  ASSUME NEW S, NEW st \in Seq(S), NEW tk \in 1 .. Len(st)
  PROVE  /\ Gone(st, tk) \in Seq(S)
         /\ tk > 1 => /\ Len(Gone(st, tk)) = Len(st) - 2
                      /\ \A m \in 1 .. Len(st) - 2 :
                           Gone(st, tk)[m] = IF m < tk - 1 THEN st[m] ELSE st[m + 2]
         /\ tk = 1 => /\ Len(Gone(st, tk)) = Len(st) - 1
                      /\ \A m \in 1 .. Len(st) - 1 : Gone(st, tk)[m] = st[m + 1]
<1>1. PICK l \in Nat : l = Len(st)  BY LenProperties
<1> DEFINE a == RemoveAt(st, tk)
           b == RemoveAt(a, tk - 1)
<1>2. /\ a \in Seq(S) /\ Len(a) = l - 1
      /\ \A m \in 1 .. l - 1 : a[m] = IF m < tk THEN st[m] ELSE st[m + 1]
  BY <1>1, RemoveAtIs
<1>3. tk \in 1 .. l  BY <1>1
<1> HIDE DEF a
<1>4. CASE tk > 1
  <2>1. tk - 1 \in 1 .. Len(a)  BY <1>2, <1>3, <1>4
  <2>2. /\ b \in Seq(S) /\ Len(b) = (l - 1) - 1
        /\ \A m \in 1 .. (l - 1) - 1 : b[m] = IF m < tk - 1 THEN a[m] ELSE a[m + 1]
    BY <1>2, <2>1, RemoveAtIs
  <2>3. Gone(st, tk) = b  BY <1>4 DEF Gone, a
  <2> HIDE DEF b
  <2>4. ASSUME NEW m \in 1 .. l - 2 PROVE b[m] = IF m < tk - 1 THEN st[m] ELSE st[m + 2]
    <3>1. m \in 1 .. (l - 1) - 1 /\ m \in 1 .. l - 1 /\ m + 1 \in 1 .. l - 1 /\ m + 1 + 1 = m + 2
          /\ (m < tk - 1 => m < tk) /\ (~ (m < tk - 1) => ~ (m + 1 < tk))
      BY <1>3
    <3>2. b[m] = IF m < tk - 1 THEN a[m] ELSE a[m + 1]  BY <2>2, <3>1
    <3>3. a[m] = (IF m < tk THEN st[m] ELSE st[m + 1])
          /\ a[m + 1] = IF m + 1 < tk THEN st[m + 1] ELSE st[m + 1 + 1]
      BY <1>2, <3>1
    <3> QED  BY <3>1, <3>2, <3>3
  <2>5. Len(b) = l - 2 /\ tk # 1  BY <1>3, <1>4, <2>2
  <2> QED  BY <1>1, <2>2, <2>3, <2>4, <2>5
<1>5. CASE ~ (tk > 1)
  <2>1. tk = 1 /\ Gone(st, tk) = a  BY <1>3, <1>5 DEF Gone, a
  <2>2. \A m \in 1 .. l - 1 : ~ (m < tk)  BY <2>1
  <2> QED  BY <1>1, <1>2, <1>5, <2>1, <2>2
<1> QED  BY <1>4, <1>5

LEMMA ResolveBegins ==
  ASSUME NEW g, Alternates(g), NEW k \in Nat, NEW st, Scanning(g, st, k), AllTokens(g, k)
  PROVE  Resolving(g, st, 1)
<1>1. g \in Seq(PathCells)  BY DEF Alternates
<1>2. st \in Seq(Seq(PathCells)) /\ Len(st) = k /\ \A n \in 1 .. k : st[n] = Tok(g, n)  BY DEF Scanning
<1>3. Rest(g, st, 1, 0, k)
  <2>1. k = (1 - 1) + (k - 0) /\ \A m \in 1 .. k - 0 : (1 - 1) + m = m /\ 0 + m = m /\ m \in 1 .. k
    OBVIOUS
  <2> QED  BY <1>2, <2>1 DEF Rest
<1>4. Kept(g, st, 1, 0)
  <2>1. /\ Fixed(g) \in 0 .. 1 /\ (Fixed(g) = 1 <=> FromRoot(g)) /\ (~FromRoot(g) => Start(g) = 0)
        /\ Start(g) \in 0 .. Len(g)
    <3>1. PICK l \in Nat : l = Len(g)  BY <1>1, LenProperties
    <3> QED  BY <1>1, <3>1, PathStart
  <2>2. CASE 0 < Fixed(g)  BY <2>2 DEF Kept
  <2>3. CASE ~ (0 < Fixed(g))
    <3>1. Fixed(g) = 0 /\ Start(g) = 0 /\ TokenEnd(g, 0) = 0  BY <2>1, <2>3 DEF TokenEnd
    <3>2. Len(g) \in Nat  BY <1>1, LenProperties
    <3>3. Track(g, 0)[0] = <<>>  BY <2>1, <3>1, <3>2, TrackIs
    <3>4. Len(<<>>) = 0 /\ 1 .. 0 = {} /\ 1 = 0 + 0 + 1 /\ 0 # 1  OBVIOUS
    <3> DEFINE x == Track(g, Start(g))[TokenEnd(g, 0)]
    <3>5. x = <<>>  BY <3>1, <3>3
    <3> HIDE DEF x
    <3>6. 1 = Fixed(g) + Len(x) + 1 /\ \A m \in 1 .. Len(x) : st[Fixed(g) + m] = <<x[m]>>
      BY <3>1, <3>4, <3>5
    <3> QED  BY <2>3, <3>1, <3>4, <3>6 DEF Kept, x
  <2> QED  BY <2>2, <2>3
<1>5. 0 \in 0 .. k /\ 1 \in Nat \ {0}  OBVIOUS
<1> QED  BY <1>2, <1>3, <1>4, <1>5 DEF Resolving

\* Without a root to lose, or when it is lost, a token that goes leaves words.
LEMMA LostKeeps ==
  ASSUME NEW g, NEW st \in Seq(Seq(PathCells)), NEW tk \in 1 .. Len(st),
         FromRoot(g), ~Below(g), WordTokens(st)
  PROVE  /\ Resolving(g, Gone(st, tk), IF tk > 1 THEN tk - 1 ELSE tk)
         /\ Resolving(g, RemoveAt(st, tk), tk) /\ Resolving(g, st, tk + 1)
<1>1. PICK l \in Nat : l = Len(st)  BY LenProperties
<1>2. \A m \in 1 .. l : \E w \in Components : st[m] = <<w>>  BY <1>1 DEF WordTokens
<1>3. tk \in 1 .. l  BY <1>1
<1>4. tk \in Nat \ {0} /\ tk + 1 \in Nat \ {0} /\ (IF tk > 1 THEN tk - 1 ELSE tk) \in Nat \ {0}
  BY <1>3
<1>5. Gone(st, tk) \in Seq(Seq(PathCells)) /\ WordTokens(Gone(st, tk))
  <2> DEFINE z == Gone(st, tk)
  <2>1. /\ z \in Seq(Seq(PathCells))
        /\ tk > 1 => Len(z) = l - 2 /\ \A m \in 1 .. l - 2 : z[m] = IF m < tk - 1 THEN st[m] ELSE st[m + 2]
        /\ tk = 1 => Len(z) = l - 1 /\ \A m \in 1 .. l - 1 : z[m] = st[m + 1]
    BY <1>1, GoneIs
  <2> HIDE DEF z
  <2>2. CASE tk > 1
    <3>1. \A m \in 1 .. l - 2 : m \in 1 .. l /\ m + 2 \in 1 .. l  OBVIOUS
    <3>2. \A m \in 1 .. l - 2 : \E j \in 1 .. l : z[m] = st[j]  BY <2>1, <2>2, <3>1
    <3> QED  BY <1>2, <2>1, <2>2, <3>2 DEF WordTokens, z
  <2>3. CASE tk = 1
    <3>1. \A m \in 1 .. l - 1 : m + 1 \in 1 .. l  OBVIOUS
    <3> QED  BY <1>2, <2>1, <2>3, <3>1 DEF WordTokens, z
  <2> QED  BY <1>3, <2>2, <2>3
<1>6. RemoveAt(st, tk) \in Seq(Seq(PathCells)) /\ WordTokens(RemoveAt(st, tk))
  <2> DEFINE z == RemoveAt(st, tk)
  <2>1. /\ z \in Seq(Seq(PathCells)) /\ Len(z) = l - 1
        /\ \A m \in 1 .. l - 1 : z[m] = IF m < tk THEN st[m] ELSE st[m + 1]
    BY <1>1, RemoveAtIs
  <2> HIDE DEF z
  <2>2. \A m \in 1 .. l - 1 : m \in 1 .. l /\ m + 1 \in 1 .. l  OBVIOUS
  <2>3. \A m \in 1 .. l - 1 : \E j \in 1 .. l : z[m] = st[j]  BY <2>1, <2>2
  <2> QED  BY <1>2, <2>1, <2>3 DEF WordTokens, z
<1> QED  BY <1>4, <1>5, <1>6 DEF Resolving

\* The token looked at is the next one of the path.
LEMMA TokenAt ==
  ASSUME NEW g, Alternates(g), NEW st \in Seq(Seq(PathCells)), NEW tk \in 1 .. Len(st),
         NEW k \in Nat, AllTokens(g, k), NEW c \in 0 .. k, Rest(g, st, tk, c, k), Kept(g, st, tk, c)
  PROVE  /\ c \in 0 .. k - 1 /\ st[tk] = Tok(g, c + 1)
         /\ (\E w \in Components : st[tk] = <<w>>) => c >= Fixed(g)
<1>1. g \in Seq(PathCells)  BY DEF Alternates
<1>2. PICK l \in Nat : l = Len(st)  BY LenProperties
<1>3. tk \in 1 .. l /\ l = (tk - 1) + (k - c)  BY <1>2 DEF Rest
<1>4. c \in 0 .. k - 1 /\ 1 \in 1 .. k - c /\ (tk - 1) + 1 = tk  BY <1>3
<1>5. st[tk] = Tok(g, c + 1)  BY <1>4 DEF Rest
<1>6. ASSUME c < Fixed(g) PROVE \A w \in Components : st[tk] # <<w>>
  <2>1. Fixed(g) \in 0 .. 1 /\ (Fixed(g) = 1 <=> FromRoot(g))  BY <1>1, PathStart
  <2>2. c = 0 /\ FromRoot(g) /\ c + 1 = 1  BY <1>6, <2>1
  <2> QED  BY <1>5, <2>2, RootToken
<1>7. c >= Fixed(g) \/ c < Fixed(g)
  <2>1. Fixed(g) \in 0 .. 1  BY <1>1, PathStart
  <2> QED  BY <2>1
<1> QED  BY <1>4, <1>5, <1>6, <1>7

\* What stands before a token at tk, and what it leaves, where c tokens lead to x.
StandsAt(g, st, tk, c, x) ==
  /\ tk = Fixed(g) + Len(x) + 1
  /\ Fixed(g) = 1 => st[1] = Tok(g, 1)
  /\ \A m \in 1 .. Len(x) : st[Fixed(g) + m] = <<x[m]>>
  /\ Fixed(g) = 1 => NeverAbove(g, TokenEnd(g, c))

LEMMA KeptAt ==
  ASSUME NEW g, NEW st, NEW tk, NEW c, Fixed(g) \in Int, c \in Int, c >= Fixed(g)
  PROVE  Kept(g, st, tk, c) <=> StandsAt(g, st, tk, c, Track(g, Start(g))[TokenEnd(g, c)])
<1>1. ~ (c < Fixed(g))  OBVIOUS
<1> QED  BY <1>1 DEF Kept, StandsAt

\* A path leads above at it starts when a token does.
LEMMA AboveMore ==
  ASSUME NEW g, Alternates(g), NEW k \in Nat, AllTokens(g, k), NEW c \in 0 .. k - 1, c >= Fixed(g),
         NEW x, x = Track(g, Start(g))[TokenEnd(g, c)],
         NEW e, e = TokenEnd(g, c + 1), g[e] = Up => x # <<>>,
         NeverAbove(g, TokenEnd(g, c))
  PROVE  NeverAbove(g, TokenEnd(g, c + 1))
<1>1. /\ e \in Start(g) + 1 .. Len(g) /\ Track(g, Start(g))[e - 1] = x
      /\ \A n \in TokenEnd(g, c) + 1 .. e : n = e \/ g[n] \in Separators
      /\ TokenEnd(g, c) \in Nat /\ Start(g) <= TokenEnd(g, c) /\ TokenEnd(g, c) < e
  BY NextToken
<1> DEFINE d == TokenEnd(g, c)
           s0 == Start(g)
<1>2. d \in Nat /\ e \in Int /\ s0 \in Int
  <2>1. g \in Seq(PathCells)  BY DEF Alternates
  <2> QED  BY <1>1, <2>1, PathStart
<1>3. \A n \in s0 + 1 .. e : n \in s0 + 1 .. d \/ n \in d + 1 .. e
  <2> HIDE DEF d, s0
  <2> QED  BY <1>2
<1>4. ASSUME NEW n \in s0 + 1 .. e, g[n] = Up PROVE Track(g, s0)[n - 1] # <<>>
  <2>1. CASE n \in s0 + 1 .. d  BY <1>4, <2>1 DEF NeverAbove
  <2>2. CASE n \in d + 1 .. e
    <3>1. Up \notin Separators  BY WordsAssumption DEF Components
    <3>2. n = e  BY <1>1, <1>4, <2>2, <3>1
    <3> QED  BY <1>1, <1>4, <3>2
  <2> QED  BY <1>3, <2>1, <2>2
<1> QED  BY <1>4 DEF NeverAbove

\* The state behind one token more.
LEMMA ResolvingOn ==
  ASSUME NEW g, Alternates(g), NEW k \in Nat, AllTokens(g, k), NEW c \in 0 .. k - 1, c + 1 >= Fixed(g),
         NEW y, y = Track(g, Start(g))[TokenEnd(g, c + 1)],
         NEW z \in Seq(Seq(PathCells)), NEW tk \in Nat \ {0},
         Rest(g, z, tk, c + 1, k), StandsAt(g, z, tk, c + 1, y)
  PROVE  Resolving(g, z, tk)
<1>1. g \in Seq(PathCells)  BY DEF Alternates
<1>2. Fixed(g) \in Int /\ c + 1 \in Int /\ c + 1 \in 0 .. k  BY <1>1, PathStart
<1>3. Kept(g, z, tk, c + 1)  BY <1>2, KeptAt
<1> QED  BY <1>2, <1>3 DEF Resolving

\* The root's token stays.
LEMMA RootStays ==
  ASSUME NEW g, Alternates(g), NEW st \in Seq(Seq(PathCells)), NEW tk \in 1 .. Len(st),
         NEW k \in Nat, AllTokens(g, k), NEW c \in 0 .. k - 1, Rest(g, st, tk, c, k), Kept(g, st, tk, c),
         c < Fixed(g)
  PROVE  Resolving(g, st, tk + 1)
<1>1. g \in Seq(PathCells)  BY DEF Alternates
<1>2. PICK l \in Nat : l = Len(g)  BY <1>1, LenProperties
<1>3. /\ Fixed(g) \in 0 .. 1 /\ (Fixed(g) = 1 <=> FromRoot(g)) /\ Start(g) \in 0 .. Len(g)
  BY <1>1, <1>2, PathStart
<1>4. c = 0 /\ Fixed(g) = 1 /\ FromRoot(g) /\ c + 1 = 1 /\ c + 1 >= Fixed(g)  BY <1>3
<1>5. tk = 1  BY <1>4 DEF Kept
<1>6. TokenEnd(g, 1) = Start(g)  BY <1>4 DEF TokenEnd
<1> DEFINE y == Track(g, Start(g))[TokenEnd(g, c + 1)]
<1>7. y = <<>>  BY <1>1, <1>2, <1>3, <1>4, <1>6, TrackIs
<1>8. Len(st) = (tk - 1) + (k - c) /\ \A m \in 1 .. k - c : st[(tk - 1) + m] = Tok(g, c + m)
  BY DEF Rest
<1> HIDE DEF y
<1>9. Rest(g, st, tk + 1, c + 1, k)
  <2>1. Len(st) = ((tk + 1) - 1) + (k - (c + 1))  BY <1>4, <1>5, <1>8
  <2>2. ASSUME NEW m \in 1 .. k - (c + 1) PROVE st[((tk + 1) - 1) + m] = Tok(g, (c + 1) + m)
    <3>1. m + 1 \in 1 .. k - c /\ (tk - 1) + (m + 1) = ((tk + 1) - 1) + m /\ c + (m + 1) = (c + 1) + m
      BY <1>5
    <3> QED  BY <1>8, <3>1
  <2> QED  BY <2>1, <2>2 DEF Rest
<1>10. StandsAt(g, st, tk + 1, c + 1, y)
  <2>1. 1 \in 1 .. k - c /\ (tk - 1) + 1 = 1 /\ c + 1 = 1 /\ tk + 1 = 1 + 0 + 1  BY <1>4, <1>5
  <2>2. st[1] = Tok(g, 1)  BY <1>8, <2>1
  <2>3. Len(y) = 0 /\ 1 .. 0 = {}  BY <1>7
  <2>4. NeverAbove(g, TokenEnd(g, c + 1))
    <3>1. TokenEnd(g, c + 1) = Start(g) /\ Start(g) + 1 .. Start(g) = {}  BY <1>3, <1>4, <1>6
    <3> QED  BY <3>1 DEF NeverAbove
  <2>5. \A m \in 1 .. Len(y) : st[Fixed(g) + m] = <<y[m]>>  BY <2>3
  <2>6. tk + 1 = Fixed(g) + Len(y) + 1  BY <1>4, <2>1, <2>3
  <2> QED  BY <2>2, <2>4, <2>5, <2>6 DEF StandsAt
<1>11. tk + 1 \in Nat \ {0}  BY <1>5
<1> QED  BY <1>4, <1>9, <1>10, <1>11, ResolvingOn DEF y

LEMMA WordStays ==
  ASSUME NEW g, Alternates(g), NEW st \in Seq(Seq(PathCells)), NEW tk \in 1 .. Len(st),
         NEW k \in Nat, AllTokens(g, k), NEW c \in 0 .. k - 1, Rest(g, st, tk, c, k), Kept(g, st, tk, c),
         c >= Fixed(g), st[tk] \notin {<<Up>>, <<Here>>}
  PROVE  Resolving(g, st, tk + 1)
<1> DEFINE x == Track(g, Start(g))[TokenEnd(g, c)]
           y == Track(g, Start(g))[TokenEnd(g, c + 1)]
           e == TokenEnd(g, c + 1)
           f == Fixed(g)
<1>1. /\ e \in Start(g) + 1 .. Len(g) /\ g[e] \in Components /\ Tok(g, c + 1) = <<g[e]>>
      /\ x \in Seq(Ordinary) /\ y = Went(x, g[e])
  BY NextToken
<1>2. f \in 0 .. 1 /\ c \in Int
  <2>1. g \in Seq(PathCells)  BY DEF Alternates
  <2> QED  BY <2>1, PathStart
<1>3. StandsAt(g, st, tk, c, x)  BY <1>2, KeptAt
<1>4. Len(st) = (tk - 1) + (k - c) /\ \A m \in 1 .. k - c : st[(tk - 1) + m] = Tok(g, c + m)
  BY DEF Rest
<1>5. st[tk] = <<g[e]>>
  <2>1. 1 \in 1 .. k - c /\ (tk - 1) + 1 = tk  OBVIOUS
  <2>2. st[tk] = Tok(g, c + 1)  BY <1>4, <2>1
  <2> QED  BY <1>1, <2>2
<1> DEFINE w == g[e]
<1>6. w \in Ordinary /\ w \notin Separators \cup {Here} /\ w # Up
  <2>1. <<w>> # <<Up>> /\ <<w>> # <<Here>>  BY <1>5
  <2>2. w # Up /\ w # Here  BY <2>1
  <2> QED  BY <1>1, <2>2, WordsAssumption DEF Ordinary
<1>7. y = Append(x, w)  BY <1>1, <1>6 DEF Went
<1>8. PICK a \in Nat : a = Len(x)  BY <1>1, LenProperties
<1>9. Len(y) = a + 1 /\ (\A m \in 1 .. a : y[m] = x[m]) /\ y[a + 1] = w
  BY <1>1, <1>6, <1>7, <1>8, AppendProperties
<1>10. /\ tk = f + a + 1
       /\ f = 1 => st[1] = Tok(g, 1)
       /\ \A m \in 1 .. a : st[f + m] = <<x[m]>>
       /\ f = 1 => NeverAbove(g, TokenEnd(g, c))
  BY <1>3, <1>8 DEF StandsAt
<1>11. f = 1 => NeverAbove(g, TokenEnd(g, c + 1))  BY <1>6, <1>10, AboveMore
<1>12. Rest(g, st, tk + 1, c + 1, k)
  <2>1. Len(st) = ((tk + 1) - 1) + (k - (c + 1))  BY <1>4
  <2>2. ASSUME NEW m \in 1 .. k - (c + 1) PROVE st[((tk + 1) - 1) + m] = Tok(g, (c + 1) + m)
    <3>0. tk \in Int /\ c \in Int /\ m \in Int  OBVIOUS
    <3>1. m + 1 \in 1 .. k - c /\ (tk - 1) + (m + 1) = ((tk + 1) - 1) + m /\ c + (m + 1) = (c + 1) + m
      BY <3>0
    <3> QED  BY <1>4, <3>1
  <2> QED  BY <2>1, <2>2 DEF Rest
<1>13. \A m \in 1 .. Len(y) : st[f + m] = <<y[m]>>
  <2> SUFFICES ASSUME NEW m \in 1 .. Len(y) PROVE st[f + m] = <<y[m]>>  OBVIOUS
  <2> HIDE DEF y, x, w, f
  <2>1. m \in 1 .. a \/ m = a + 1  BY <1>9
  <2>2. CASE m \in 1 .. a  BY <1>9, <1>10, <2>2
  <2>3. CASE m = a + 1
    <3>1. f + m = tk  BY <1>2, <1>10, <2>3
    <3>2. st[tk] = <<w>> /\ y[m] = w  BY <1>5, <1>9, <2>3 DEF w
    <3> QED  BY <3>1, <3>2
  <2> QED  BY <2>1, <2>2, <2>3
<1>14. tk + 1 = f + Len(y) + 1 /\ tk + 1 \in Nat \ {0} /\ c + 1 >= Fixed(g)
  <2>1. tk \in Nat  OBVIOUS
  <2> HIDE DEF y
  <2>2. tk + 1 = f + Len(y) + 1  BY <1>2, <1>9, <1>10
  <2> QED  BY <1>2, <2>1, <2>2
<1> HIDE DEF y
<1>15. StandsAt(g, st, tk + 1, c + 1, y)  BY <1>10, <1>11, <1>13, <1>14 DEF StandsAt
<1> QED  BY <1>12, <1>14, <1>15, ResolvingOn DEF y

LEMMA HereLeaves ==
  ASSUME NEW g, Alternates(g), NEW st \in Seq(Seq(PathCells)), NEW tk \in 1 .. Len(st),
         NEW k \in Nat, AllTokens(g, k), NEW c \in 0 .. k - 1, Rest(g, st, tk, c, k), Kept(g, st, tk, c),
         c >= Fixed(g), st[tk] = <<Here>>
  PROVE  Resolving(g, RemoveAt(st, tk), tk)
<1> DEFINE x == Track(g, Start(g))[TokenEnd(g, c)]
           y == Track(g, Start(g))[TokenEnd(g, c + 1)]
           e == TokenEnd(g, c + 1)
           f == Fixed(g)
           z == RemoveAt(st, tk)
<1>1. /\ g[e] \in Components /\ Tok(g, c + 1) = <<g[e]>>
      /\ x \in Seq(Ordinary) /\ y = Went(x, g[e])
  BY NextToken
<1>2. f \in 0 .. 1 /\ c \in Int /\ tk \in Int
  <2>1. g \in Seq(PathCells)  BY DEF Alternates
  <2> QED  BY <2>1, PathStart
<1>3. StandsAt(g, st, tk, c, x)  BY <1>2, KeptAt
<1>4. Len(st) = (tk - 1) + (k - c) /\ \A m \in 1 .. k - c : st[(tk - 1) + m] = Tok(g, c + m)
  BY DEF Rest
<1>5. g[e] = Here
  <2>1. 1 \in 1 .. k - c /\ (tk - 1) + 1 = tk  BY <1>2
  <2>2. st[tk] = Tok(g, c + 1)  BY <1>4, <2>1
  <2>3. <<g[e]>> = <<Here>>  BY <1>1, <2>2
  <2> QED  BY <2>3
<1>6. y = x  BY <1>1, <1>5 DEF Went
<1>7. PICK l \in Nat : l = Len(st)  BY LenProperties
<1>8. /\ z \in Seq(Seq(PathCells)) /\ Len(z) = l - 1
      /\ \A m \in 1 .. l - 1 : z[m] = IF m < tk THEN st[m] ELSE st[m + 1]
  BY <1>7, RemoveAtIs
<1>9. PICK a \in Nat : a = Len(x)  BY <1>1, LenProperties
<1>10. /\ tk = f + a + 1
       /\ f = 1 => st[1] = Tok(g, 1)
       /\ \A m \in 1 .. a : st[f + m] = <<x[m]>>
       /\ f = 1 => NeverAbove(g, TokenEnd(g, c))
  BY <1>3, <1>9 DEF StandsAt
<1>11. f = 1 => NeverAbove(g, TokenEnd(g, c + 1))
  <2>1. g[e] # Up  BY <1>5, WordsAssumption
  <2> QED  BY <1>10, <2>1, AboveMore
<1> HIDE DEF x, y, z
<1>12. l = (tk - 1) + (k - c) /\ tk \in 1 .. l  BY <1>4, <1>7
<1>13. Rest(g, z, tk, c + 1, k)
  <2>1. Len(z) = (tk - 1) + (k - (c + 1))  BY <1>2, <1>8, <1>12
  <2>2. ASSUME NEW m \in 1 .. k - (c + 1) PROVE z[(tk - 1) + m] = Tok(g, (c + 1) + m)
    <3>0. m \in Int /\ m >= 1 /\ m <= k - c - 1 /\ tk >= 1 /\ l = tk - 1 + k - c  BY <1>2, <1>12
    <3>1. /\ m + 1 \in 1 .. k - c /\ (tk - 1) + (m + 1) = (tk - 1) + m + 1 /\ c + (m + 1) = (c + 1) + m
          /\ (tk - 1) + m \in 1 .. l - 1 /\ ~ ((tk - 1) + m < tk)
      BY <1>2, <3>0
    <3>2. z[(tk - 1) + m] = st[(tk - 1) + m + 1]  BY <1>8, <3>1
    <3> QED  BY <1>4, <3>1, <3>2
  <2> QED  BY <2>1, <2>2 DEF Rest
<1>14. StandsAt(g, z, tk, c + 1, y)
  <2>1. f = 1 => z[1] = Tok(g, 1)
    <3>1. f = 1 => 1 \in 1 .. l - 1 \/ l = 1  BY <1>12
    <3>2. f = 1 => tk >= 2 /\ 1 < tk /\ l >= 2  BY <1>10, <1>12
    <3>3. f = 1 => 1 \in 1 .. l - 1 /\ 1 < tk  BY <3>1, <3>2
    <3> QED  BY <1>8, <1>10, <3>3
  <2>2. \A m \in 1 .. Len(y) : z[f + m] = <<y[m]>>
    <3>0. Len(y) = a /\ y = x  BY <1>6, <1>9
    <3>1. PICK q \in Int : q = f /\ q \in 0 .. 1  BY <1>2
    <3>2. tk = q + a + 1 /\ tk <= l /\ tk \in Int  BY <1>2, <1>10, <1>12, <3>1
    <3> HIDE DEF f
    <3>3. ASSUME NEW m \in 1 .. a PROVE z[f + m] = <<x[m]>>
      <4>1. q + m < tk /\ q + m \in 1 .. l - 1  BY <3>1, <3>2
      <4>2. z[q + m] = st[q + m]  BY <1>8, <4>1
      <4>3. st[f + m] = <<x[m]>>  BY <1>10, <3>3
      <4> QED  BY <3>1, <4>2, <4>3
    <3> QED  BY <3>0, <3>3
  <2>3. tk = Fixed(g) + Len(y) + 1  BY <1>6, <1>9, <1>10
  <2> QED  BY <1>11, <2>1, <2>2, <2>3 DEF StandsAt
<1>15. tk \in Nat \ {0} /\ c + 1 >= Fixed(g)  BY <1>2, <1>12
<1> QED  BY <1>8, <1>13, <1>14, <1>15, ResolvingOn DEF y, z

\* What is behind a token that goes, when it was the first or the path is above
\* at it starts.
LEMMA UpLeavesNone ==
  ASSUME NEW g, Alternates(g), NEW st \in Seq(Seq(PathCells)), NEW tk \in 1 .. Len(st),
         NEW k \in Nat, AllTokens(g, k), NEW c \in 0 .. k - 1, Rest(g, st, tk, c, k), Kept(g, st, tk, c),
         c >= Fixed(g), st[tk] = <<Up>>, Track(g, Start(g))[TokenEnd(g, c)] = <<>>
  PROVE  Resolving(g, Gone(st, tk), IF tk > 1 THEN tk - 1 ELSE tk)
<1> DEFINE x == Track(g, Start(g))[TokenEnd(g, c)]
           y == Track(g, Start(g))[TokenEnd(g, c + 1)]
           e == TokenEnd(g, c + 1)
           f == Fixed(g)
           z == Gone(st, tk)
<1>0. g \in Seq(PathCells)  BY DEF Alternates
<1>1. /\ e \in Start(g) + 1 .. Len(g) /\ g[e] \in Components /\ Tok(g, c + 1) = <<g[e]>>
      /\ Track(g, Start(g))[e - 1] = x /\ y = Went(x, g[e])
  BY NextToken
<1>2. f \in 0 .. 1 /\ c \in Int /\ tk \in Int /\ (f = 1 <=> FromRoot(g))  BY <1>0, PathStart
<1>3. StandsAt(g, st, tk, c, x)
  <2>1. Fixed(g) \in Int  BY <1>2
  <2>2. Kept(g, st, tk, c) <=> StandsAt(g, st, tk, c, x)  BY <1>2, <2>1, KeptAt
  <2> QED  BY <2>2
<1>4. Len(st) = (tk - 1) + (k - c) /\ \A m \in 1 .. k - c : st[(tk - 1) + m] = Tok(g, c + m)
  BY DEF Rest
<1>5. g[e] = Up
  <2>1. 1 \in 1 .. k - c /\ (tk - 1) + 1 = tk  BY <1>2
  <2>2. st[tk] = Tok(g, c + 1)  BY <1>4, <2>1
  <2>3. <<g[e]>> = <<Up>>  BY <1>1, <2>2
  <2> QED  BY <2>3
<1>6. x = <<>> /\ Len(x) = 0  OBVIOUS
<1>7. tk = f + 1  BY <1>2, <1>3, <1>6 DEF StandsAt
<1>8. PICK l \in Nat : l = Len(st)  BY LenProperties
<1>9. /\ z \in Seq(Seq(PathCells))
      /\ tk > 1 => Len(z) = l - 2 /\ \A m \in 1 .. l - 2 : z[m] = IF m < tk - 1 THEN st[m] ELSE st[m + 2]
      /\ tk = 1 => Len(z) = l - 1 /\ \A m \in 1 .. l - 1 : z[m] = st[m + 1]
  BY <1>8, GoneIs
<1>10. l = (tk - 1) + (k - c) /\ tk \in 1 .. l  BY <1>4, <1>8
<1>11. CASE f = 0
  <2>1. y = <<>>
    <3>1. Up \notin Separators \cup {Here}  BY WordsAssumption DEF Components
    <3>2. <<>> \in Seq(Ordinary)  OBVIOUS
    <3>3. Front(<<>>) = <<>>  BY <3>2, FrontIs
    <3> QED  BY <1>1, <1>5, <1>6, <3>1, <3>3 DEF Went
  <2> HIDE DEF x, y, z
  <2>2. tk = 1 /\ Len(z) = l - 1 /\ \A m \in 1 .. l - 1 : z[m] = st[m + 1]  BY <1>7, <1>9, <1>11
  <2>3. Rest(g, z, 1, c + 1, k)
    <3>1. Len(z) = (1 - 1) + (k - (c + 1))  BY <1>2, <1>10, <2>2
    <3>2. ASSUME NEW m \in 1 .. k - (c + 1) PROVE z[(1 - 1) + m] = Tok(g, (c + 1) + m)
      <4>1. /\ m + 1 \in 1 .. k - c /\ (tk - 1) + (m + 1) = m + 1 /\ c + (m + 1) = (c + 1) + m
            /\ (1 - 1) + m = m /\ m \in 1 .. l - 1
        BY <1>2, <1>10, <2>2
      <4>2. z[m] = st[m + 1]  BY <2>2, <4>1
      <4> QED  BY <1>4, <4>1, <4>2
    <3> QED  BY <3>1, <3>2 DEF Rest
  <2>4. StandsAt(g, z, 1, c + 1, y)
    <3>1. Len(y) = 0 /\ 1 .. 0 = {} /\ 1 = 0 + 0 + 1 /\ 0 # 1  BY <2>1
    <3>2. 1 = Fixed(g) + Len(y) + 1  BY <1>11, <3>1
    <3>3. \A m \in 1 .. Len(y) : z[Fixed(g) + m] = <<y[m]>>  BY <3>1
    <3>4. Fixed(g) # 1  BY <1>11, <3>1
    <3> QED  BY <3>2, <3>3, <3>4 DEF StandsAt
  <2>5. 1 \in Nat \ {0} /\ c + 1 >= Fixed(g)  BY <1>2
  <2>6. (IF tk > 1 THEN tk - 1 ELSE tk) = 1  BY <2>2
  <2> QED  BY <1>9, <2>3, <2>4, <2>5, <2>6, ResolvingOn DEF y, z
<1>12. CASE f = 1
  <2>1. FromRoot(g)  BY <1>2, <1>12
  <2>2. ~Below(g)  BY <1>1, <1>5, <1>6 DEF Below
  <2>3. tk = 2  BY <1>7, <1>12
  <2> HIDE DEF z
  <2>4. Len(z) = l - 2 /\ \A m \in 1 .. l - 2 : z[m] = st[m + 2]
    <3>1. tk > 1 /\ \A m \in 1 .. l - 2 : ~ (m < tk - 1)  BY <2>3
    <3> QED  BY <1>9, <3>1
  <2>5. WordTokens(z)
    <3>1. ASSUME NEW m \in 1 .. l - 2 PROVE \E w \in Components : z[m] = <<w>>
      <4>1. m + 1 \in 1 .. k - c /\ (tk - 1) + (m + 1) = m + 2  BY <1>2, <1>10, <2>3
      <4>2. z[m] = Tok(g, c + (m + 1))  BY <1>4, <2>4, <4>1
      <4> DEFINE n == c + (m + 1)
      <4>3. n \in 1 .. k /\ n \in Nat \ {0} /\ n > Fixed(g) /\ k \in Nat \ {0}
        <5>1. c \in Nat /\ k \in Nat /\ m \in Nat /\ f \in Nat /\ c >= f  BY <1>2
        <5> HIDE DEF x, y, e, f
        <5>2. m + 1 >= 1 /\ m + 1 <= k - c  BY <4>1, <5>1
        <5>3. n \in Nat /\ n > c /\ n <= k  BY <5>1, <5>2
        <5>4. n \in 1 .. k /\ n # 0 /\ n > f /\ k # 0  BY <5>1, <5>3
        <5> QED  BY <5>1, <5>3, <5>4 DEF f
      <4> HIDE DEF n
      <4>4. TokenEnd(g, n) <= Len(g)
        <5>1. TokenEnd(g, n) <= TokenEnd(g, k) /\ TokenEnd(g, k) <= Len(g)
          BY <4>3, TokenEndGrows DEF AllTokens
        <5>2. TokenEnd(g, n) \in Nat \ {0} /\ TokenEnd(g, k) \in Nat \ {0}  BY <4>3, TokenIs
        <5>3. Len(g) \in Nat  BY <1>0, LenProperties
        <5> QED  BY <5>1, <5>2, <5>3
      <4>5. g[TokenEnd(g, n)] \in Components /\ Tok(g, n) = <<g[TokenEnd(g, n)]>>
        BY <4>3, <4>4, TokenIs
      <4> QED  BY <4>2, <4>5 DEF n
    <3> QED  BY <2>4, <3>1 DEF WordTokens
  <2>6. (IF tk > 1 THEN tk - 1 ELSE tk) \in Nat \ {0}  BY <2>3
  <2>7. Resolving(g, z, IF tk > 1 THEN tk - 1 ELSE tk)  BY <1>9, <2>1, <2>2, <2>5, <2>6 DEF Resolving
  <2> QED  BY <2>7 DEF z
<1> QED  BY <1>2, <1>11, <1>12

LEMMA UpLeaves ==
  ASSUME NEW g, Alternates(g), NEW st \in Seq(Seq(PathCells)), NEW tk \in 1 .. Len(st),
         NEW k \in Nat, AllTokens(g, k), NEW c \in 0 .. k - 1, Rest(g, st, tk, c, k), Kept(g, st, tk, c),
         c >= Fixed(g), st[tk] = <<Up>>, Track(g, Start(g))[TokenEnd(g, c)] # <<>>
  PROVE  Resolving(g, Gone(st, tk), IF tk > 1 THEN tk - 1 ELSE tk)
<1> DEFINE x == Track(g, Start(g))[TokenEnd(g, c)]
           y == Track(g, Start(g))[TokenEnd(g, c + 1)]
           e == TokenEnd(g, c + 1)
           f == Fixed(g)
           z == Gone(st, tk)
<1>1. /\ g[e] \in Components /\ Tok(g, c + 1) = <<g[e]>>
      /\ x \in Seq(Ordinary) /\ y = Went(x, g[e])
  BY NextToken
<1>2. f \in 0 .. 1 /\ c \in Int /\ tk \in Int
  <2>1. g \in Seq(PathCells)  BY DEF Alternates
  <2> QED  BY <2>1, PathStart
<1>3. StandsAt(g, st, tk, c, x)
  <2>1. Fixed(g) \in Int  BY <1>2
  <2>2. Kept(g, st, tk, c) <=> StandsAt(g, st, tk, c, x)  BY <1>2, <2>1, KeptAt
  <2> QED  BY <2>2
<1>4. Len(st) = (tk - 1) + (k - c) /\ \A m \in 1 .. k - c : st[(tk - 1) + m] = Tok(g, c + m)
  BY DEF Rest
<1>5. g[e] = Up
  <2>1. 1 \in 1 .. k - c /\ (tk - 1) + 1 = tk  BY <1>2
  <2>2. st[tk] = Tok(g, c + 1)  BY <1>4, <2>1
  <2>3. <<g[e]>> = <<Up>>  BY <1>1, <2>2
  <2> QED  BY <2>3
<1>6. x # <<>>  OBVIOUS
<1>7. y = Front(x)
  <2>1. Up \notin Separators \cup {Here}  BY WordsAssumption DEF Components
  <2> QED  BY <1>1, <1>5, <2>1 DEF Went
<1>8. PICK l \in Nat : l = Len(st)  BY LenProperties
<1>9. PICK a \in Nat : a = Len(x)  BY <1>1, LenProperties
<1>10. a >= 1 /\ Len(y) = a - 1 /\ \A m \in 1 .. a - 1 : y[m] = x[m]
  <2>1. /\ x # <<>> => Len(x) >= 1 /\ Len(Front(x)) = Len(x) - 1
        /\ \A j \in 1 .. Len(x) - 1 : Front(x)[j] = x[j]
    BY <1>1, FrontIs
  <2> QED  BY <1>6, <1>7, <1>9, <2>1
<1>11. /\ tk = f + a + 1
       /\ f = 1 => st[1] = Tok(g, 1)
       /\ \A m \in 1 .. a : st[f + m] = <<x[m]>>
       /\ f = 1 => NeverAbove(g, TokenEnd(g, c))
  BY <1>3, <1>9 DEF StandsAt
<1>12. f = 1 => NeverAbove(g, TokenEnd(g, c + 1))  BY <1>6, <1>11, AboveMore
<1>13. PICK q \in 0 .. 1 : q = f  BY <1>2
<1>14. tk = q + a + 1 /\ l = (tk - 1) + (k - c) /\ tk \in 1 .. l /\ tk > 1 /\ tk - 1 \in Nat \ {0}
  <2>1. tk = q + a + 1 /\ tk \in Int  BY <1>2, <1>11, <1>13
  <2>2. l = (tk - 1) + (k - c) /\ tk \in 1 .. l  BY <1>4, <1>8
  <2>3. q >= 0 /\ a >= 1 /\ q \in Int  BY <1>10
  <2> QED  BY <2>1, <2>2, <2>3
<1>15. /\ z \in Seq(Seq(PathCells)) /\ Len(z) = l - 2
       /\ \A m \in 1 .. l - 2 : z[m] = IF m < tk - 1 THEN st[m] ELSE st[m + 2]
  BY <1>8, <1>14, GoneIs
<1> HIDE DEF x, y, z, f
<1>16. Rest(g, z, tk - 1, c + 1, k)
  <2>1. Len(z) = ((tk - 1) - 1) + (k - (c + 1))  BY <1>2, <1>14, <1>15
  <2>2. ASSUME NEW m \in 1 .. k - (c + 1) PROVE z[((tk - 1) - 1) + m] = Tok(g, (c + 1) + m)
    <3>0. m \in Int /\ m >= 1 /\ m <= k - c - 1 /\ tk >= 1 /\ l = tk - 1 + k - c  BY <1>2, <1>14
    <3> DEFINE j == ((tk - 1) - 1) + m
    <3>1. /\ m + 1 \in 1 .. k - c /\ (tk - 1) + (m + 1) = j + 2 /\ c + (m + 1) = (c + 1) + m
          /\ j \in 1 .. l - 2 /\ ~ (j < tk - 1)
      BY <1>2, <1>14, <3>0
    <3> HIDE DEF j
    <3>2. z[j] = st[j + 2]  BY <1>15, <3>1
    <3>3. z[j] = Tok(g, (c + 1) + m)  BY <1>4, <3>1, <3>2
    <3> QED  BY <3>3 DEF j
  <2> QED  BY <2>1, <2>2 DEF Rest
<1>17. StandsAt(g, z, tk - 1, c + 1, y)
  <2>1. f = 1 => z[1] = Tok(g, 1)
    <3>1. f = 1 => 1 \in 1 .. l - 2 \/ l - 2 < 1  BY <1>14
    <3>2. CASE f # 1  BY <3>2
    <3>3. CASE f = 1
      <4>1. q = 1 /\ tk >= 3 /\ 1 < tk - 1  BY <1>10, <1>13, <1>14, <3>3
      <4>2. CASE l - 2 >= 1
        <5>1. 1 \in 1 .. l - 2  BY <4>2
        <5> QED  BY <1>11, <1>15, <3>3, <4>1, <5>1
      <4>3. CASE ~ (l - 2 >= 1)  BY <1>14, <4>1, <4>3
      <4> QED  BY <4>2, <4>3
    <3> QED  BY <3>2, <3>3
  <2>2. \A m \in 1 .. Len(y) : z[f + m] = <<y[m]>>
    <3>1. ASSUME NEW m \in 1 .. a - 1 PROVE z[f + m] = <<y[m]>>
      <4>1. q + m < tk - 1 /\ q + m \in 1 .. l - 2 /\ m \in 1 .. a  BY <1>14
      <4>2. z[q + m] = st[q + m]  BY <1>15, <4>1
      <4>3. st[f + m] = <<x[m]>> /\ y[m] = x[m]  BY <1>10, <1>11, <4>1
      <4> QED  BY <1>13, <4>2, <4>3
    <3> QED  BY <1>10, <3>1
  <2>3. tk - 1 = Fixed(g) + Len(y) + 1
    <3>1. tk - 1 = q + (a - 1) + 1  BY <1>2, <1>14
    <3>2. q = Fixed(g) /\ Len(y) = a - 1  BY <1>10, <1>13 DEF f
    <3> QED  BY <3>1, <3>2
  <2> QED  BY <1>12, <2>1, <2>2, <2>3 DEF StandsAt, f
<1>18. c + 1 >= Fixed(g) /\ (IF tk > 1 THEN tk - 1 ELSE tk) = tk - 1  BY <1>2, <1>14 DEF f
<1>19. Resolving(g, z, tk - 1)  BY <1>14, <1>15, <1>16, <1>17, <1>18, ResolvingOn DEF y
<1> QED  BY <1>18, <1>19 DEF z

\* One step of the second pass.
LEMMA ResolveStep ==
  ASSUME NEW g, Alternates(g), NEW st, NEW tk, Resolving(g, st, tk), tk <= Len(st)
  PROVE  /\ st[tk] = <<Up>> => Resolving(g, Gone(st, tk), IF tk > 1 THEN tk - 1 ELSE tk)
         /\ st[tk] = <<Here>> => Resolving(g, RemoveAt(st, tk), tk)
         /\ st[tk] \notin {<<Up>>, <<Here>>} => Resolving(g, st, tk + 1)
<1>1. st \in Seq(Seq(PathCells)) /\ tk \in Nat \ {0}  BY DEF Resolving
<1>2. tk \in 1 .. Len(st)
  <2>1. Len(st) \in Nat  BY <1>1, LenProperties
  <2> QED  BY <1>1, <2>1
<1>3. CASE FromRoot(g) /\ ~Below(g) /\ WordTokens(st)
  BY <1>1, <1>2, <1>3, LostKeeps
<1>4. ASSUME NEW k \in Nat, AllTokens(g, k), NEW c \in 0 .. k, Rest(g, st, tk, c, k), Kept(g, st, tk, c)
      PROVE /\ st[tk] = <<Up>> => Resolving(g, Gone(st, tk), IF tk > 1 THEN tk - 1 ELSE tk)
            /\ st[tk] = <<Here>> => Resolving(g, RemoveAt(st, tk), tk)
            /\ st[tk] \notin {<<Up>>, <<Here>>} => Resolving(g, st, tk + 1)
  <2>1. c \in 0 .. k - 1 /\ ((\E w \in Components : st[tk] = <<w>>) => c >= Fixed(g))
    BY <1>1, <1>2, <1>4, TokenAt
  <2>2. Up \in Components /\ Here \in Components  BY DEF Components
  <2>3. st[tk] = <<Up>> \/ st[tk] = <<Here>> => c >= Fixed(g)  BY <2>1, <2>2
  <2>4. c >= Fixed(g) \/ c < Fixed(g)
    <3>1. g \in Seq(PathCells)  BY DEF Alternates
    <3>2. Fixed(g) \in 0 .. 1  BY <3>1, PathStart
    <3> QED  BY <3>2
  <2>5. CASE st[tk] = <<Up>>
    <3>1. <<Up>> # <<Here>>
      <4>1. Up # Here  BY WordsAssumption
      <4> QED  BY <4>1
    <3>2. Resolving(g, Gone(st, tk), IF tk > 1 THEN tk - 1 ELSE tk)
      <4>1. CASE Track(g, Start(g))[TokenEnd(g, c)] = <<>>
        BY <1>1, <1>2, <1>4, <2>1, <2>3, <2>5, <4>1, UpLeavesNone
      <4>2. CASE Track(g, Start(g))[TokenEnd(g, c)] # <<>>
        BY <1>1, <1>2, <1>4, <2>1, <2>3, <2>5, <4>2, UpLeaves
      <4> QED  BY <4>1, <4>2
    <3>3. st[tk] # <<Here>>  BY <2>5, <3>1
    <3>4. st[tk] \in {<<Up>>, <<Here>>}  BY <2>5
    <3> QED  BY <3>2, <3>3, <3>4, Zenon
  <2>6. CASE st[tk] = <<Here>>
    <3>1. <<Up>> # <<Here>>
      <4>1. Up # Here  BY WordsAssumption
      <4> QED  BY <4>1
    <3>2. Resolving(g, RemoveAt(st, tk), tk)  BY <1>1, <1>2, <1>4, <2>1, <2>3, <2>6, HereLeaves
    <3>3. st[tk] # <<Up>>  BY <2>6, <3>1
    <3>4. st[tk] \in {<<Up>>, <<Here>>}  BY <2>6
    <3> QED  BY <3>2, <3>3, <3>4, Zenon
  <2>7. CASE st[tk] \notin {<<Up>>, <<Here>>}
    <3>1. Resolving(g, st, tk + 1)
      <4>1. CASE c >= Fixed(g)  BY <1>1, <1>2, <1>4, <2>1, <2>7, <4>1, WordStays
      <4>2. CASE c < Fixed(g)  BY <1>1, <1>2, <1>4, <2>1, <2>7, <4>2, RootStays
      <4> QED  BY <2>4, <4>1, <4>2
    <3> QED  BY <2>7, <3>1
  <2> QED  BY <2>5, <2>6, <2>7
<1> QED  BY <1>3, <1>4 DEF Resolving

\* A beginning of a path leads to where the path leads behind it.
LEMMA TrackPrefix ==
  ASSUME NEW u, NEW v, Len(u) \in Nat, Len(v) \in Nat, Len(u) <= Len(v),
         \A j \in 1 .. Len(u) : v[j] = u[j]
  PROVE  Track(v, 0)[Len(u)] = Place(u)
<1> DEFINE T == {n \in Nat : n <= Len(u) => Track(v, 0)[n] = Track(u, 0)[n]}
<1>1. Track(u, 0)[0] = <<>> /\ \A n \in 0 + 1 .. Len(u) : Track(u, 0)[n] = Went(Track(u, 0)[n - 1], u[n])
  <2>1. 0 \in 0 .. Len(u)  OBVIOUS
  <2> QED  BY <2>1, TrackIs
<1>2. Track(v, 0)[0] = <<>> /\ \A n \in 0 + 1 .. Len(v) : Track(v, 0)[n] = Went(Track(v, 0)[n - 1], v[n])
  <2>1. 0 \in 0 .. Len(v)  OBVIOUS
  <2> QED  BY <2>1, TrackIs
<1>3. 0 \in T  BY <1>1, <1>2
<1>4. ASSUME NEW n \in Nat, n \in T PROVE n + 1 \in T
  <2> SUFFICES ASSUME n + 1 <= Len(u) PROVE Track(v, 0)[n + 1] = Track(u, 0)[n + 1]  OBVIOUS
  <2>1. n + 1 \in 0 + 1 .. Len(u) /\ n + 1 \in 0 + 1 .. Len(v) /\ (n + 1) - 1 = n /\ n <= Len(u)
        /\ n + 1 \in 1 .. Len(u)
    OBVIOUS
  <2>2. Track(v, 0)[n] = Track(u, 0)[n]  BY <1>4, <2>1
  <2>3. v[n + 1] = u[n + 1]  BY <2>1
  <2>4. Track(v, 0)[n + 1] = Went(Track(v, 0)[n], v[n + 1])  BY <1>2, <2>1
  <2>5. Track(u, 0)[n + 1] = Went(Track(u, 0)[n], u[n + 1])  BY <1>1, <2>1
  <2> QED  BY <2>2, <2>3, <2>4, <2>5
<1> HIDE DEF T
<1>5. \A n \in Nat : n \in T  BY <1>3, <1>4, AllOfNat
<1>6. Len(u) \in T  BY <1>5
<1> QED  BY <1>6 DEF T, Place

LEMMA PlaceAdds ==
  ASSUME NEW u \in Seq(PathCells), NEW w \in PathCells
  PROVE  Append(u, w) \in Seq(PathCells) /\ Place(Append(u, w)) = Went(Place(u), w)
<1> DEFINE v == Append(u, w)
<1>1. PICK l \in Nat : l = Len(u)  BY LenProperties
<1>2. v \in Seq(PathCells) /\ Len(v) = l + 1 /\ (\A j \in 1 .. l : v[j] = u[j]) /\ v[l + 1] = w
  BY <1>1, AppendProperties
<1> HIDE DEF v
<1>3. Track(v, 0)[l] = Place(u)
  <2>1. Len(u) \in Nat /\ Len(v) \in Nat /\ Len(u) <= Len(v)  BY <1>1, <1>2
  <2>2. \A j \in 1 .. Len(u) : v[j] = u[j]  BY <1>1, <1>2
  <2> QED  BY <1>1, <2>1, <2>2, TrackPrefix
<1>4. Track(v, 0)[l + 1] = Went(Track(v, 0)[l], v[l + 1])
  <2>1. Len(v) \in Nat /\ 0 \in 0 .. Len(v) /\ l + 1 \in 0 + 1 .. Len(v) /\ (l + 1) - 1 = l  BY <1>2
  <2>2. \A n \in 0 + 1 .. Len(v) : Track(v, 0)[n] = Went(Track(v, 0)[n - 1], v[n])  BY <2>1, TrackIs
  <2>3. Track(v, 0)[l + 1] = Went(Track(v, 0)[(l + 1) - 1], v[l + 1])  BY <2>1, <2>2
  <2> QED  BY <2>1, <2>3
<1>5. Place(v) = Track(v, 0)[l + 1]  BY <1>2 DEF Place
<1> QED  BY <1>2, <1>3, <1>4, <1>5 DEF v

LEMMA PlaceOfNone == Place(<<>>) = <<>>
<1>1. Len(<<>>) = 0 /\ Len(<<>>) \in Nat /\ 0 \in 0 .. Len(<<>>)  OBVIOUS
<1>2. Track(<<>>, 0)[0] = <<>>  BY <1>1, TrackIs
<1> QED  BY <1>1, <1>2 DEF Place

\* Separators at the end lead nowhere.
LEMMA TailKeeps ==
  ASSUME NEW g, Len(g) \in Nat, NEW m \in 0 .. Len(g), NEW d \in m .. Len(g),
         \A j \in d + 1 .. Len(g) : g[j] \in Separators
  PROVE  Track(g, m)[Len(g)] = Track(g, m)[d]
<1> DEFINE l == Len(g)
           t == Track(g, m)
           T == {k \in Nat : d + k <= l => t[d + k] = t[d]}
<1>1. \A n \in m + 1 .. l : t[n] = Went(t[n - 1], g[n])  BY TrackIs
<1>2. l \in Nat /\ m \in 0 .. l /\ d \in m .. l /\ \A j \in d + 1 .. l : g[j] \in Separators  OBVIOUS
<1> HIDE DEF l, t
<1>3. 0 \in T
  <2>1. d + 0 = d  BY <1>2
  <2> QED  BY <2>1
<1>4. ASSUME NEW k \in Nat, k \in T PROVE k + 1 \in T
  <2> SUFFICES ASSUME d + (k + 1) <= l PROVE t[d + (k + 1)] = t[d]  OBVIOUS
  <2> DEFINE j == d + (k + 1)
  <2>1. j \in m + 1 .. l /\ j - 1 = d + k /\ d + k <= l /\ j \in d + 1 .. l  BY <1>2
  <2>2. t[j - 1] = t[d]  BY <1>4, <2>1
  <2> HIDE DEF j
  <2>3. t[j] = t[d]  BY <1>1, <1>2, <2>1, <2>2 DEF Went
  <2> QED  BY <2>3 DEF j
<1>5. l - d \in T
  <2>1. l - d \in Nat  BY <1>2
  <2> HIDE DEF T
  <2> QED  BY <1>3, <1>4, <2>1, AllOfNat
<1>6. d + (l - d) = l /\ l <= l  BY <1>2
<1>7. t[l] = t[d]  BY <1>5, <1>6
<1> QED  BY <1>7 DEF l, t

\* A step below some place.
LEMMA WentOn ==
  ASSUME NEW b \in Seq(Ordinary), NEW x \in Seq(Ordinary), NEW w \in PathCells, w = Up => x # <<>>
  PROVE  Went(b \o x, w) = b \o Went(x, w)
<1> DEFINE y == b \o x
<1>1. y \in Seq(Ordinary) /\ Joins(y, b, x)  BY Joint
<1> HIDE DEF y
<1>2. PICK p0 \in Nat, q0 \in Nat : p0 = Len(b) /\ q0 = Len(x)  BY LenProperties
<1>3. /\ Len(y) = p0 + q0
      /\ \A j \in 1 .. p0 : y[j] = b[j]
      /\ \A j \in 1 .. q0 : y[p0 + j] = x[j]
  BY <1>1, <1>2 DEF Joins
<1>4. CASE w \in Separators \cup {Here}  BY <1>4 DEF Went, y
<1>5. CASE w \notin Separators \cup {Here} /\ w = Up
  <2>1. q0 >= 1 /\ Front(x) \in Seq(Ordinary) /\ Len(Front(x)) = q0 - 1
        /\ \A j \in 1 .. q0 - 1 : Front(x)[j] = x[j]
    BY <1>2, <1>5, FrontIs
  <2>2. y # <<>>
    <3>1. Len(y) # 0  BY <1>3, <2>1
    <3> QED  BY <1>1, <3>1, EmptySeq
  <2>3. Front(y) \in Seq(Ordinary) /\ Len(Front(y)) = p0 + q0 - 1
        /\ \A j \in 1 .. p0 + q0 - 1 : Front(y)[j] = y[j]
    <3>1. Len(Front(y)) = Len(y) - 1 /\ Front(y) \in Seq(Ordinary)
          /\ \A j \in 1 .. Len(y) - 1 : Front(y)[j] = y[j]
      BY <1>1, <2>2, FrontIs
    <3> QED  BY <1>3, <3>1
  <2> DEFINE u == Front(x)
             v == Front(y)
             z == b \o u
  <2>4. z \in Seq(Ordinary) /\ Joins(z, b, u)
    <3>1. u \in Seq(Ordinary)  BY <2>1
    <3> HIDE DEF u
    <3> QED  BY <3>1, Joint
  <2> HIDE DEF u, v, z
  <2>5. Len(z) = p0 + q0 - 1 /\ (\A j \in 1 .. p0 : z[j] = b[j]) /\ \A j \in 1 .. q0 - 1 : z[p0 + j] = x[j]
    BY <1>2, <2>1, <2>4 DEF Joins, u
  <2>6. \A j \in 1 .. p0 + q0 - 1 : v[j] = z[j]
    <3> SUFFICES ASSUME NEW j \in 1 .. p0 + q0 - 1 PROVE v[j] = z[j]  OBVIOUS
    <3>1. v[j] = y[j]  BY <2>3 DEF v
    <3>2. CASE j <= p0
      <4>1. j \in 1 .. p0  BY <3>2
      <4> QED  BY <1>3, <2>5, <3>1, <4>1
    <3>3. CASE ~ (j <= p0)
      <4>1. j - p0 \in 1 .. q0 - 1 /\ j - p0 \in 1 .. q0 /\ p0 + (j - p0) = j  BY <3>3
      <4>2. y[p0 + (j - p0)] = x[j - p0] /\ z[p0 + (j - p0)] = x[j - p0]  BY <1>3, <2>5, <4>1
      <4> QED  BY <3>1, <4>1, <4>2
    <3> QED  BY <3>2, <3>3
  <2>7. v \in Seq(Ordinary) /\ Len(v) = Len(z) /\ Len(v) = p0 + q0 - 1  BY <2>3, <2>5 DEF v
  <2>8. v = z  BY <2>4, <2>6, <2>7, SeqEqual
  <2> QED  BY <1>5, <2>8 DEF Went, u, v, z, y
<1>6. CASE w \notin Separators \cup {Here} /\ w # Up
  <2>1. w \in Ordinary  BY <1>6 DEF Ordinary, PathCells
  <2> DEFINE u == Append(x, w)
             v == Append(y, w)
             z == b \o u
  <2>2. u \in Seq(Ordinary) /\ Len(u) = q0 + 1 /\ (\A j \in 1 .. q0 : u[j] = x[j]) /\ u[q0 + 1] = w
    BY <1>2, <2>1, AppendProperties
  <2>3. v \in Seq(Ordinary) /\ Len(v) = p0 + q0 + 1 /\ (\A j \in 1 .. p0 + q0 : v[j] = y[j])
        /\ v[p0 + q0 + 1] = w
    BY <1>1, <1>3, <2>1, AppendProperties
  <2> HIDE DEF u, v
  <2>4. z \in Seq(Ordinary) /\ Joins(z, b, u)  BY <2>2, Joint
  <2> HIDE DEF z
  <2>5. Len(z) = p0 + q0 + 1 /\ (\A j \in 1 .. p0 : z[j] = b[j]) /\ \A j \in 1 .. q0 + 1 : z[p0 + j] = u[j]
    BY <1>2, <2>2, <2>4 DEF Joins
  <2>6. \A j \in 1 .. p0 + q0 + 1 : v[j] = z[j]
    <3> SUFFICES ASSUME NEW j \in 1 .. p0 + q0 + 1 PROVE v[j] = z[j]  OBVIOUS
    <3>1. CASE j <= p0
      <4>1. j \in 1 .. p0 /\ j \in 1 .. p0 + q0  BY <3>1
      <4> QED  BY <1>3, <2>3, <2>5, <4>1
    <3>2. CASE j > p0 /\ j <= p0 + q0
      <4>1. j - p0 \in 1 .. q0 /\ j - p0 \in 1 .. q0 + 1 /\ p0 + (j - p0) = j /\ j \in 1 .. p0 + q0  BY <3>2
      <4>2. y[p0 + (j - p0)] = x[j - p0] /\ z[p0 + (j - p0)] = u[j - p0] /\ u[j - p0] = x[j - p0]
        BY <1>3, <2>2, <2>5, <4>1
      <4> QED  BY <2>3, <4>1, <4>2
    <3>3. CASE j = p0 + q0 + 1
      <4>1. q0 + 1 \in 1 .. q0 + 1 /\ p0 + (q0 + 1) = j /\ p0 + q0 + 1 = j  BY <3>3
      <4>2. z[p0 + (q0 + 1)] = u[q0 + 1]  BY <2>5, <4>1
      <4> QED  BY <2>2, <2>3, <4>1, <4>2
    <3> QED  BY <3>1, <3>2, <3>3
  <2>7. v = z  BY <2>3, <2>4, <2>5, <2>6, SeqEqual
  <2> QED  BY <1>6, <2>7 DEF Went, u, v, z, y
<1> QED  BY <1>4, <1>5, <1>6

\* From its directory a path leads to where it leads below its first word.
LEMMA FromStart ==
  ASSUME NEW g \in Seq(PathCells), Below(g)
  PROVE  /\ Track(g, 0)[Start(g)] \in Seq(Ordinary) /\ Track(g, Start(g))[Len(g)] \in Seq(Ordinary)
         /\ Place(g) = Track(g, 0)[Start(g)] \o Track(g, Start(g))[Len(g)]
<1> DEFINE s0 == Start(g)
           l == Len(g)
           b == Track(g, 0)[s0]
           t == Track(g, 0)
           r == Track(g, s0)
           T == {k \in Nat : s0 + k <= l => t[s0 + k] = b \o r[s0 + k]}
<1>1. l \in Nat  BY LenProperties
<1>2. s0 \in 0 .. 2 /\ s0 <= l /\ s0 \in 0 .. l  BY <1>1, PathStart
<1>3. b \in Seq(Ordinary) /\ \A n \in s0 .. l : r[n] \in Seq(Ordinary)
  <2>1. 0 \in 0 .. Len(g) /\ s0 \in 0 .. Len(g)  BY <1>1, <1>2
  <2>2. b \in Seq(Ordinary)  BY <2>1, TrackSeq
  <2>3. \A n \in s0 .. Len(g) : r[n] \in Seq(Ordinary)  BY <2>1, TrackSeq
  <2> QED  BY <2>2, <2>3
<1>4. \A n \in 0 + 1 .. l : t[n] = Went(t[n - 1], g[n])
  <2>1. 0 \in 0 .. Len(g)  BY <1>1
  <2> QED  BY <1>1, <2>1, TrackIs
<1>5. r[s0] = <<>> /\ \A n \in s0 + 1 .. l : r[n] = Went(r[n - 1], g[n])  BY <1>1, <1>2, TrackIs
<1>6. \A n \in s0 + 1 .. l : g[n] = Up => r[n - 1] # <<>>  BY DEF Below
<1>7. \A n \in 1 .. l : g[n] \in PathCells  BY ElementOfSeq
<1> HIDE DEF s0, l, b, t, r
<1>8. 0 \in T
  <2>1. b \o <<>> = b  BY <1>3, ConcatEmptySeq
  <2>2. s0 + 0 = s0  BY <1>2
  <2> QED  BY <1>5, <2>1, <2>2 DEF b, t
<1>9. ASSUME NEW k \in Nat, k \in T PROVE k + 1 \in T
  <2> SUFFICES ASSUME s0 + (k + 1) <= l PROVE t[s0 + (k + 1)] = b \o r[s0 + (k + 1)]  OBVIOUS
  <2> DEFINE j == s0 + (k + 1)
  <2>1. /\ j \in 0 + 1 .. l /\ j \in s0 + 1 .. l /\ j - 1 = s0 + k /\ s0 + k <= l /\ j \in 1 .. l
        /\ j - 1 \in s0 .. l
    BY <1>1, <1>2
  <2>2. t[j - 1] = b \o r[j - 1]  BY <1>9, <2>1
  <2> HIDE DEF j
  <2>3. r[j - 1] \in Seq(Ordinary) /\ g[j] \in PathCells /\ (g[j] = Up => r[j - 1] # <<>>)
    BY <1>3, <1>6, <1>7, <2>1
  <2>4. Went(b \o r[j - 1], g[j]) = b \o Went(r[j - 1], g[j])  BY <1>3, <2>3, WentOn
  <2>5. t[j] = b \o r[j]  BY <1>4, <1>5, <2>1, <2>2, <2>4
  <2> QED  BY <2>5 DEF j
<1>10. l - s0 \in T
  <2>1. l - s0 \in Nat  BY <1>1, <1>2
  <2> HIDE DEF T
  <2> QED  BY <1>8, <1>9, <2>1, AllOfNat
<1>11. s0 + (l - s0) = l /\ l <= l /\ l \in s0 .. l  BY <1>1, <1>2
<1>12. t[l] = b \o r[l] /\ r[l] \in Seq(Ordinary)  BY <1>3, <1>10, <1>11
<1> QED  BY <1>3, <1>12 DEF Place, s0, l, b, t, r

\* What normpath writes for each of the tokens.
Rendered(st) == [n \in DOMAIN st |-> IF n < Len(st) THEN Append(st[n], Sep) ELSE st[n]]

LEMMA WrittenIs ==
  ASSUME NEW st \in Seq(Seq(PathCells))
  PROVE  /\ Rendered(st) \in Seq(Seq(PathCells)) /\ Len(Rendered(st)) = Len(st)
         /\ \A n \in 1 .. Len(st) :
              Rendered(st)[n] = IF n < Len(st) THEN Append(st[n], Sep) ELSE st[n]
<1>1. PICK l \in Nat : l = Len(st)  BY LenProperties
<1>2. DOMAIN st = 1 .. l  BY <1>1, LenProperties
<1>3. \A n \in 1 .. l : st[n] \in Seq(PathCells)
  <2>1. \A n \in 1 .. l : n \in 1 .. Len(st)  BY <1>1
  <2> QED  BY <2>1, ElementOfSeq
<1>4. Sep \in PathCells  BY DEF PathCells, Separators
<1>5. \A n \in 1 .. l : Append(st[n], Sep) \in Seq(PathCells)  BY <1>3, <1>4, AppendProperties
<1> DEFINE W == Rendered(st)
<1>6. W = [n \in 1 .. l |-> IF n < l THEN Append(st[n], Sep) ELSE st[n]]  BY <1>1, <1>2 DEF Rendered
<1> HIDE DEF W
<1>7. W \in [1 .. l -> Seq(PathCells)]  BY <1>3, <1>5, <1>6
<1>8. W \in Seq(Seq(PathCells)) /\ Len(W) = l  BY <1>7, FunctionSeq
<1>9. \A n \in 1 .. l : W[n] = IF n < l THEN Append(st[n], Sep) ELSE st[n]  BY <1>6
<1> QED  BY <1>1, <1>8, <1>9 DEF W

\* A token that is a word leads where the word leads.
LEMMA WordWritten ==
  ASSUME NEW u \in Seq(PathCells), NEW w \in PathCells, NEW q, q = <<w>> \/ q = Append(<<w>>, Sep)
  PROVE  u \o q \in Seq(PathCells) /\ Place(u \o q) = Went(Place(u), w)
<1>1. Append(u, w) \in Seq(PathCells) /\ Place(Append(u, w)) = Went(Place(u), w)  BY PlaceAdds
<1>2. u \o <<w>> = Append(u, w)  BY AppendIsConcat
<1>3. CASE q = <<w>>  BY <1>1, <1>2, <1>3
<1>4. CASE q = Append(<<w>>, Sep)
  <2>1. Sep \in PathCells /\ Sep \in Separators  BY DEF PathCells, Separators
  <2>2. <<w>> \in Seq(PathCells) /\ <<Sep>> \in Seq(PathCells)  BY <2>1
  <2>3. Append(<<w>>, Sep) = <<w>> \o <<Sep>>  BY <2>1, <2>2, AppendIsConcat
  <2>4. u \o (<<w>> \o <<Sep>>) = (u \o <<w>>) \o <<Sep>>  BY <2>2, ConcatAssociative
  <2>5. Append(Append(u, w), Sep) = Append(u, w) \o <<Sep>>  BY <1>1, <2>1, AppendIsConcat
  <2>6. u \o q = Append(Append(u, w), Sep)  BY <1>2, <1>4, <2>3, <2>4, <2>5
  <2>7. Append(Append(u, w), Sep) \in Seq(PathCells)
        /\ Place(Append(Append(u, w), Sep)) = Went(Place(Append(u, w)), Sep)
    BY <1>1, <2>1, PlaceAdds
  <2>8. Went(Place(Append(u, w)), Sep) = Place(Append(u, w))  BY <2>1 DEF Went
  <2> QED  BY <1>1, <2>6, <2>7, <2>8
<1> QED  BY <1>3, <1>4

\* What is written begins with the first token.
LEMMA FirstWritten ==
  ASSUME NEW st \in Seq(Seq(PathCells)), NEW R, R = FlattenSeq(Rendered(st))
  PROVE  /\ Len(st) = 0 => R = <<>>
         /\ Len(st) > 0 /\ Len(st[1]) > 0 => R # <<>> /\ R[1] = st[1][1]
         /\ R \in Seq(PathCells)
<1>1. PICK l \in Nat : l = Len(st)  BY LenProperties
<1> DEFINE W == Rendered(st)
<1>2. /\ W \in Seq(Seq(PathCells)) /\ Len(W) = l
      /\ \A n \in 1 .. l : W[n] = IF n < l THEN Append(st[n], Sep) ELSE st[n]
  BY <1>1, WrittenIs
<1> HIDE DEF W
<1>3. PICK e : Grows(e, W, PathCells) /\ e[Len(W)] = FlattenSeq(W)  BY <1>2, FlattenGrows
<1>4. R = e[l]  BY <1>2, <1>3 DEF W
<1>5. e \in [0 .. l -> Seq(PathCells)] /\ e[0] = <<>> /\ \A n \in 1 .. l : e[n] = e[n - 1] \o W[n]
  BY <1>2, <1>3 DEF Grows
<1>6. R \in Seq(PathCells)
  <2>1. l \in 0 .. l  OBVIOUS
  <2> QED  BY <1>4, <1>5, <2>1
<1>7. ASSUME l > 0, Len(st[1]) > 0 PROVE R # <<>> /\ R[1] = st[1][1]
  <2>1. 1 \in 1 .. l /\ 1 - 1 = 0 /\ 1 \in 0 .. l /\ l \in 0 .. l /\ 1 <= l  BY <1>7
  <2>2. st[1] \in Seq(PathCells)  BY <1>1, <2>1, ElementOfSeq
  <2>3. PICK a \in Nat : a = Len(st[1])  BY <2>2, LenProperties
  <2>4. Len(W[1]) \in Nat /\ Len(W[1]) >= 1 /\ W[1][1] = st[1][1] /\ W[1] \in Seq(PathCells)
    <3>1. Sep \in PathCells  BY DEF PathCells, Separators
    <3>2. /\ Append(st[1], Sep) \in Seq(PathCells) /\ Len(Append(st[1], Sep)) = a + 1
          /\ \A j \in 1 .. a : Append(st[1], Sep)[j] = st[1][j]
      BY <2>2, <2>3, <3>1, AppendProperties
    <3>3. 1 \in 1 .. a /\ a >= 1  BY <1>7, <2>3
    <3>4. CASE 1 < l
      <4>1. W[1] = Append(st[1], Sep)  BY <1>2, <2>1, <3>4
      <4> QED  BY <3>2, <3>3, <4>1
    <3>5. CASE ~ (1 < l)
      <4>1. W[1] = st[1]  BY <1>2, <2>1, <3>5
      <4> QED  BY <2>2, <2>3, <3>3, <4>1
    <3> QED  BY <3>4, <3>5
  <2>5. e[1] = W[1]
    <3>1. e[1] = <<>> \o W[1]  BY <1>5, <2>1
    <3> QED  BY <2>4, <3>1, ConcatEmptySeq
  <2>6. Len(e[1]) <= Len(e[l]) /\ \A j \in 1 .. Len(e[1]) : e[l][j] = e[1][j]
    <3>1. Nested(e, W)  BY <1>3, GrowsPlaces
    <3> QED  BY <1>2, <2>1, <3>1 DEF Nested
  <2>7. 1 \in 1 .. Len(e[1])  BY <2>4, <2>5
  <2>8. R[1] = st[1][1]  BY <1>4, <2>4, <2>5, <2>6, <2>7
  <2>9. Len(R) # 0
    <3>1. Len(R) \in Nat  BY <1>6, LenProperties
    <3> QED  BY <1>4, <2>4, <2>5, <2>6, <3>1
  <2> QED  BY <1>6, <2>8, <2>9, EmptySeq
<1> QED  BY <1>1, <1>4, <1>5, <1>6, <1>7

\* Behind the first f tokens the names of a place stand.
NamesIn(st, f, x) == Len(st) = f + Len(x) /\ \A m \in 1 .. Len(x) : st[f + m] = <<x[m]>>

\* Words behind a first token lead from where that one leads to where they lead.
LEMMA WordsWritten ==
  ASSUME NEW st \in Seq(Seq(PathCells)), NEW f \in 0 .. 1, NEW x \in Seq(Ordinary), NamesIn(st, f, x),
         NEW b \in Seq(Ordinary), f = 0 => b = <<>>, f = 1 => Place(st[1]) = b,
         NEW R, R = FlattenSeq(Rendered(st))
  PROVE  Place(R) = b \o x
<1>0. PICK a \in Nat : a = Len(x)  BY LenProperties
<1>14. Len(st) = f + a /\ \A m \in 1 .. a : st[f + m] = <<x[m]>>  BY <1>0 DEF NamesIn
<1> DEFINE W == Rendered(st)
           beg == [n \in 0 .. a |-> SubSeq(x, 1, n)]
<1>1. /\ W \in Seq(Seq(PathCells)) /\ Len(W) = f + a
      /\ \A n \in 1 .. f + a : W[n] = IF n < f + a THEN Append(st[n], Sep) ELSE st[n]
  BY <1>14, WrittenIs
<1> HIDE DEF W
<1>2. PICK e : Grows(e, W, PathCells) /\ e[Len(W)] = FlattenSeq(W)  BY <1>1, FlattenGrows
<1>3. R = e[f + a]  BY <1>1, <1>2 DEF W
<1>4. /\ e \in [0 .. f + a -> Seq(PathCells)] /\ e[0] = <<>>
      /\ \A n \in 1 .. f + a : e[n] = e[n - 1] \o W[n]
  BY <1>1, <1>2 DEF Grows
<1>5. Sep \in PathCells /\ Sep \in Separators /\ Ordinary \subseteq PathCells
  BY DEF PathCells, Separators, Ordinary
<1>6. beg[0] = <<>>
  <2>1. 1 \in Int /\ 0 \in Int /\ 0 < 1 /\ 0 \in 0 .. a  OBVIOUS
  <2>2. SubSeq(x, 1, 0) = <<>>  BY <2>1, SubSeqEmpty
  <2> QED  BY <2>1, <2>2
<1>7. beg[a] = x
  <2>1. SubSeq(x, 1, Len(x)) = x /\ a \in 0 .. a  BY SubSeqFull
  <2> QED  BY <1>0, <2>1
<1>8. ASSUME NEW n \in 1 .. a PROVE beg[n] = beg[n - 1] \o <<x[n]>> /\ x[n] \in Ordinary
  <2>1. 1 \in 1 .. Len(x) /\ n \in 1 .. Len(x)  BY <1>0
  <2>2. SubSeq(x, 1, n) = SubSeq(x, 1, n - 1) \o <<x[n]>>  BY <2>1, SubSeqRecursiveSecond
  <2>3. n \in 0 .. a /\ n - 1 \in 0 .. a  OBVIOUS
  <2> QED  BY <2>1, <2>2, <2>3, ElementOfSeq
<1>9. ASSUME NEW n \in 0 .. a PROVE beg[n] \in Seq(Ordinary)
  <2>1. 1 \in Int /\ n \in Int /\ \A j \in 1 .. n : j \in 1 .. Len(x)  BY <1>0
  <2>2. \A j \in 1 .. n : x[j] \in Ordinary  BY <2>1, ElementOfSeq
  <2>3. SubSeq(x, 1, n) \in Seq(Ordinary)  BY <2>1, <2>2, SubSeqProperties
  <2> QED  BY <2>3
<1> DEFINE T == {n \in Nat : n <= a => Place(e[f + n]) = b \o beg[n]}
<1> HIDE DEF beg
<1>10. 0 \in T
  <2>1. b \o beg[0] = b  BY <1>6, ConcatEmptySeq
  <2>2. CASE f = 0
    <3>1. f + 0 = 0  BY <2>2
    <3> QED  BY <1>4, <2>1, <2>2, <3>1, PlaceOfNone
  <2>3. CASE f = 1
    <3>1. f + 0 = 1 /\ 1 \in 1 .. f + a /\ 1 - 1 = 0 /\ 1 \in 1 .. Len(st)  BY <1>14, <2>3
    <3>2. st[1] \in Seq(PathCells)  BY <3>1, ElementOfSeq
    <3>3. Append(st[1], Sep) \in Seq(PathCells) /\ Place(Append(st[1], Sep)) = Went(Place(st[1]), Sep)
      BY <1>5, <3>2, PlaceAdds
    <3>4. Went(Place(st[1]), Sep) = Place(st[1])  BY <1>5 DEF Went
    <3>5. W[1] \in Seq(PathCells) /\ Place(W[1]) = b  BY <1>1, <2>3, <3>1, <3>2, <3>3, <3>4
    <3>6. e[1] = <<>> \o W[1]  BY <1>4, <3>1
    <3>7. e[1] = W[1]  BY <3>5, <3>6, ConcatEmptySeq
    <3> QED  BY <2>1, <3>1, <3>5, <3>7
  <2> QED  BY <2>2, <2>3
<1>11. ASSUME NEW n \in Nat, n \in T PROVE n + 1 \in T
  <2> SUFFICES ASSUME n + 1 <= a PROVE Place(e[f + (n + 1)]) = b \o beg[n + 1]  OBVIOUS
  <2> DEFINE i1 == f + (n + 1)
             w == x[n + 1]
             u == e[f + n]
  <2>1. /\ i1 \in 1 .. f + a /\ i1 - 1 = f + n /\ f + n \in 0 .. f + a /\ n + 1 \in 1 .. a /\ n \in 0 .. a
        /\ (n + 1) - 1 = n
    OBVIOUS
  <2>2. Place(u) = b \o beg[n] /\ u \in Seq(PathCells)
    <3>1. n <= a  BY <2>1
    <3>2. Place(e[f + n]) = b \o beg[n]  BY <1>11, <3>1
    <3>3. e[f + n] \in Seq(PathCells)  BY <1>4, <2>1
    <3> QED  BY <3>2, <3>3
  <2>3. beg[n + 1] = beg[n] \o <<w>> /\ w \in Ordinary /\ beg[n] \in Seq(Ordinary)  BY <1>8, <1>9, <2>1
  <2>4. st[i1] = <<w>>  BY <1>14, <2>1
  <2> HIDE DEF i1, w
  <2>5. W[i1] = <<w>> \/ W[i1] = Append(<<w>>, Sep)  BY <1>1, <2>1, <2>4
  <2>6. e[i1] = u \o W[i1]  BY <1>4, <2>1
  <2> HIDE DEF u
  <2>7. w \in PathCells /\ w \notin Separators \cup {Here} /\ w # Up
    BY <1>5, <2>3, WordsAssumption DEF Ordinary
  <2>8. Place(e[i1]) = Went(b \o beg[n], w)  BY <2>2, <2>5, <2>6, <2>7, WordWritten
  <2>9. Went(b \o beg[n], w) = b \o Went(beg[n], w)  BY <2>3, <2>7, WentOn
  <2>10. Went(beg[n], w) = Append(beg[n], w)  BY <2>7 DEF Went
  <2>11. Append(beg[n], w) = beg[n] \o <<w>>  BY <2>3, AppendIsConcat
  <2> QED  BY <2>3, <2>8, <2>9, <2>10, <2>11 DEF i1
<1> HIDE DEF T
<1>12. a \in T  BY <1>10, <1>11, AllOfNat
<1>13. Place(e[f + a]) = b \o beg[a]  BY <1>12 DEF T
<1> QED  BY <1>3, <1>7, <1>13

\* What the second pass leaves leads where the path does.
LEMMA EmitRight ==
  ASSUME NEW g, Alternates(g), NEW st, NEW tk, Resolving(g, st, tk), tk > Len(st),
         NEW R, R = FlattenSeq(Rendered(st))
  PROVE  /\ Below(g) => Place(R) = Place(g)
         /\ FromRoot(g) => (FromRoot(R) <=> Below(g))
         /\ ~FromRoot(g) => ~FromRoot(R)
<1>1. g \in Seq(PathCells)  BY DEF Alternates
<1>2. st \in Seq(Seq(PathCells)) /\ tk \in Nat \ {0}  BY DEF Resolving
<1>3. PICK l \in Nat, h \in Nat : l = Len(g) /\ h = Len(st)  BY <1>1, <1>2, LenProperties
<1>4. /\ h = 0 => R = <<>>
      /\ h > 0 /\ Len(st[1]) > 0 => R # <<>> /\ R[1] = st[1][1]
      /\ R \in Seq(PathCells)
  BY <1>2, <1>3, FirstWritten
<1>5. \A w \in Components : w \notin Separators  BY WordsAssumption
<1>6. \A w \in Components : h > 0 /\ st[1] = <<w>> => ~FromRoot(R)
  <2> SUFFICES ASSUME NEW w \in Components, h > 0, st[1] = <<w>> PROVE ~FromRoot(R)  OBVIOUS
  <2>1. Len(<<w>>) = 1 /\ <<w>>[1] = w /\ 1 > 0  OBVIOUS
  <2>2. R[1] = w  BY <1>4, <2>1
  <2> QED  BY <1>5, <2>2 DEF FromRoot
<1>7. h = 0 => ~FromRoot(R)  BY <1>4 DEF FromRoot
<1>8. CASE FromRoot(g) /\ ~Below(g) /\ WordTokens(st)
  <2>1. ~FromRoot(R)
    <3>1. CASE h = 0  BY <1>7, <3>1
    <3>2. CASE h # 0
      <4>1. 1 \in 1 .. Len(st) /\ h > 0  BY <1>3, <3>2
      <4> QED  BY <1>6, <1>8, <4>1 DEF WordTokens
    <3> QED  BY <3>1, <3>2
  <2> QED  BY <1>8, <2>1
<1>9. ASSUME NEW k \in Nat, AllTokens(g, k), NEW c \in 0 .. k, Rest(g, st, tk, c, k), Kept(g, st, tk, c)
      PROVE /\ Below(g) => Place(R) = Place(g)
            /\ FromRoot(g) => (FromRoot(R) <=> Below(g))
            /\ ~FromRoot(g) => ~FromRoot(R)
  <2> DEFINE d == TokenEnd(g, k)
             s0 == Start(g)
             f == Fixed(g)
             x == Track(g, s0)[d]
             b == Track(g, 0)[s0]
  <2>1. c = k /\ h = tk - 1
    <3>1. h = (tk - 1) + (k - c)  BY <1>3, <1>9 DEF Rest
    <3>2. tk > h  BY <1>3
    <3> QED  BY <1>2, <3>1, <3>2
  <2>2. /\ f \in 0 .. 1 /\ (f = 1 <=> FromRoot(g)) /\ s0 \in 0 .. 2 /\ s0 <= l /\ (~FromRoot(g) => s0 = 0)
        /\ (FromRoot(g) => g[1] \in Separators)
    BY <1>1, <1>3, PathStart
  <2>3. d <= l /\ k >= f /\ \A j \in d + 1 .. l : g[j] \in Separators  BY <1>3, <1>9 DEF AllTokens
  <2>4. d \in Nat /\ s0 <= d
    <3>1. CASE k = 0
      <4>1. d = 0 /\ f = 0  BY <2>2, <2>3, <3>1 DEF TokenEnd
      <4> QED  BY <2>2, <4>1
    <3>2. CASE k # 0
      <4>1. k \in Nat \ {0} /\ k \in 1 .. k  BY <3>2
      <4> QED  BY <2>3, <4>1, TokenIs, TokenEndGrows
    <3> QED  BY <3>1, <3>2
  <2>5. StandsAt(g, st, tk, k, x)
    <3>1. Fixed(g) \in Int /\ k \in Int /\ k >= Fixed(g)  BY <2>2, <2>3
    <3>2. Kept(g, st, tk, k)  BY <1>9, <2>1
    <3> QED  BY <3>1, <3>2, KeptAt
  <2>6. s0 \in 0 .. Len(g) /\ d \in s0 .. Len(g) /\ 0 \in 0 .. Len(g) /\ s0 \in 0 .. Len(g)
    BY <1>3, <2>2, <2>3, <2>4
  <2>7. x \in Seq(Ordinary) /\ b \in Seq(Ordinary)
    <3> HIDE DEF d, s0
    <3> QED  BY <1>1, <2>6, TrackSeq
  <2>8. PICK a \in Nat : a = Len(x)  BY <2>7, LenProperties
  <2>9. Track(g, s0)[Len(g)] = x
    <3>1. Len(g) \in Nat /\ \A j \in d + 1 .. Len(g) : g[j] \in Separators  BY <1>3, <2>3
    <3> HIDE DEF d, s0
    <3> QED  BY <2>6, <3>1, TailKeeps DEF d, s0
  <2>10. /\ h = f + a
         /\ f = 1 => st[1] = Tok(g, 1)
         /\ \A m \in 1 .. a : st[f + m] = <<x[m]>>
         /\ f = 1 => NeverAbove(g, d)
    <3>1. /\ tk = f + Len(x) + 1
          /\ f = 1 => st[1] = Tok(g, 1)
          /\ \A m \in 1 .. Len(x) : st[f + m] = <<x[m]>>
          /\ f = 1 => NeverAbove(g, d)
      BY <2>5 DEF StandsAt
    <3>2. tk = f + a + 1  BY <2>8, <3>1
    <3> HIDE DEF f, x, d
    <3>3. h = f + a  BY <1>2, <2>1, <2>2, <3>2
    <3> QED  BY <2>8, <3>1, <3>3
  <2> HIDE DEF d, s0, f, x, b
  <2>11. CASE f = 0
    <3>1. ~FromRoot(g) /\ s0 = 0  BY <2>2, <2>11
    <3>2. ~FromRoot(R)
      <4>1. CASE a = 0  BY <1>7, <2>10, <2>11, <4>1
      <4>2. CASE a # 0
        <5>1. 1 \in 1 .. a /\ f + 1 = 1 /\ h > 0  BY <2>10, <2>11, <4>2
        <5>2. st[1] = <<x[1]>>  BY <2>10, <5>1
        <5>3. x[1] \in Ordinary  BY <2>7, <2>8, <5>1, ElementOfSeq
        <5> QED  BY <1>6, <5>1, <5>2, <5>3 DEF Ordinary
      <4> QED  BY <4>1, <4>2
    <3>3. b = <<>>
      <4>1. Len(g) \in Nat  BY <1>3
      <4>2. Track(g, 0)[0] = <<>>  BY <2>6, <4>1, TrackIs
      <4> QED  BY <3>1, <4>2 DEF b
    <3>4. Place(R) = b \o x
      <4>1. f # 1  BY <2>11
      <4>2. NamesIn(st, f, x)  BY <1>3, <2>8, <2>10 DEF NamesIn
      <4>3. (f = 0 => b = <<>>) /\ (f = 1 => Place(st[1]) = b)  BY <3>3, <4>1
      <4> QED  BY <1>2, <2>2, <2>7, <4>2, <4>3, WordsWritten
    <3>5. Below(g) => Place(g) = b \o x
      <4>1. Below(g) => Place(g) = Track(g, 0)[Start(g)] \o Track(g, Start(g))[Len(g)]  BY <1>1, FromStart
      <4> QED  BY <2>9, <4>1 DEF b, s0
    <3> QED  BY <3>1, <3>2, <3>4, <3>5
  <2>12. CASE f = 1
    <3>1. FromRoot(g) /\ g[1] \in Separators  BY <2>2, <2>12
    <3>2. /\ Tok(g, 1) \in Seq(PathCells) /\ Len(Tok(g, 1)) = s0 /\ s0 >= 1
          /\ \A j \in 1 .. s0 : Tok(g, 1)[j] = g[j]
      BY <3>1, RootToken DEF s0
    <3>3. st[1] = Tok(g, 1) /\ h > 0  BY <2>10, <2>12
    <3>4. FromRoot(R)
      <4>1. Len(st[1]) > 0 /\ 1 \in 1 .. s0  BY <2>2, <3>2, <3>3
      <4>2. R # <<>> /\ R[1] = g[1]  BY <1>4, <3>2, <3>3, <4>1
      <4> QED  BY <3>1, <4>2 DEF FromRoot
    <3>5. Below(g)
      <4>1. \A n \in s0 + 1 .. l : n \in s0 + 1 .. d \/ n \in d + 1 .. l  BY <2>2, <2>4
      <4>2. Up \notin Separators  BY WordsAssumption DEF Components
      <4>3. \A n \in s0 + 1 .. d : g[n] = Up => Track(g, s0)[n - 1] # <<>>
        BY <2>10, <2>12 DEF NeverAbove, s0
      <4>4. \A n \in s0 + 1 .. l : g[n] = Up => Track(g, s0)[n - 1] # <<>>  BY <2>3, <4>1, <4>2, <4>3
      <4> QED  BY <1>3, <4>4 DEF Below, s0
    <3>6. Place(st[1]) = b
      <4> DEFINE u == Tok(g, 1)
      <4>1. Len(u) \in Nat /\ Len(g) \in Nat /\ Len(u) <= Len(g) /\ \A j \in 1 .. Len(u) : g[j] = u[j]
        BY <1>3, <2>2, <3>2
      <4> HIDE DEF u
      <4>2. Track(g, 0)[Len(u)] = Place(u)  BY <4>1, TrackPrefix
      <4>3. Len(u) = s0  BY <3>2 DEF u
      <4> QED  BY <3>3, <4>2, <4>3 DEF u, b
    <3>7. Place(R) = b \o x
      <4>1. f # 0  BY <2>12
      <4>2. NamesIn(st, f, x)  BY <1>3, <2>8, <2>10 DEF NamesIn
      <4>3. (f = 0 => b = <<>>) /\ (f = 1 => Place(st[1]) = b)  BY <3>6, <4>1
      <4> QED  BY <1>2, <2>2, <2>7, <4>2, <4>3, WordsWritten
    <3>8. Place(g) = b \o x
      <4>1. Place(g) = Track(g, 0)[Start(g)] \o Track(g, Start(g))[Len(g)]  BY <1>1, <3>5, FromStart
      <4> QED  BY <2>9, <4>1 DEF b, s0
    <3> QED  BY <3>1, <3>4, <3>5, <3>7, <3>8
  <2> QED  BY <2>2, <2>11, <2>12
<1> QED  BY <1>8, <1>9 DEF Resolving

\* A word ends at a separator.
WordsApart(g) ==
  /\ g \in Seq(PathCells)
  /\ \A n \in 1 .. Len(g) - 1 : g[n] \in Separators \/ g[n + 1] \in Separators

LEMMA ApartAlternates ==
  ASSUME NEW g, WordsApart(g), Single(g)
  PROVE  Alternates(g)
<1>1. g \in Seq(PathCells) /\ \A n \in 1 .. Len(g) - 1 : g[n] \in Separators \/ g[n + 1] \in Separators
  BY DEF WordsApart
<1>2. PICK l \in Nat : l = Len(g)  BY <1>1, LenProperties
<1>3. ASSUME NEW n \in 1 .. l - 1 PROVE g[n] \in Separators <=> g[n + 1] \in Components
  <2>1. n \in 1 .. Len(g) /\ n + 1 \in 1 .. Len(g)  BY <1>2
  <2>2. g[n] \in Separators \/ g[n + 1] \in Separators  BY <1>1, <1>2
  <2>3. g[n] \notin Separators \/ g[n + 1] \notin Separators  BY <1>2 DEF Single
  <2>4. g[n + 1] \in Separators <=> ~ (g[n + 1] \in Components)  BY <1>1, <2>1, CellIs
  <2> QED  BY <2>2, <2>3, <2>4
<1> QED  BY <1>1, <1>2, <1>3 DEF Alternates

\* What abspath makes of a path that needs a directory before it.
LEMMA AbsReference ==
  ASSUME NEW path \in NormArgs
  PROVE  JoinReference(<<Cwd, path>>) =
           IF path = <<>> THEN Cwd ELSE Cwd \o (<<Sep>> \o path)
<1> DEFINE as == <<Cwd, path>>
           r == JoinUpTo(as)
<1>1. as \in ArgLists /\ Len(as) = 2 /\ as[1] = Cwd /\ as[2] = path  BY AbsArgs
<1>2. Cwd \in Seq(PathCells) /\ path \in Seq(PathCells) /\ Cwd # <<>>
  <2>1. Len(Cwd) = 2 /\ Len(<<>>) = 0  BY CwdSeq
  <2>2. Cwd # <<>>  BY <2>1
  <2> QED  BY <2>2, CwdSeq, NormArgSeq
<1> HIDE DEF as
<1>3. r[2] = JoinReference(as) /\ Grows(r, PartsOf(as), PathCells)  BY <1>1, JoinGrows
<1>4. r[0] = <<>>  BY <1>3 DEF Grows
<1>5. 0 \in 0 .. Len(as) - 1 /\ 1 \in 0 .. Len(as) - 1 /\ 0 + 1 = 1 /\ 1 + 1 = 2  BY <1>1
<1>6. r[0 + 1] = r[0] \o (Between(as, 0 + 1) \o as[0 + 1])  BY <1>1, <1>5, NextArg
<1>7. r[1 + 1] = r[1] \o (Between(as, 1 + 1) \o as[1 + 1])  BY <1>1, <1>5, NextArg
<1> HIDE DEF r
<1>8. Between(as, 0 + 1) = <<>>
  <2>1. 0 \in Nat /\ 1 .. 0 = {}  OBVIOUS
  <2>2. \A m \in 1 .. 0 : as[m] = <<>>  BY <2>1
  <2> QED  BY <2>1, <2>2, NoneBetween
<1>9. r[1] = Cwd
  <2>1. <<>> \o Cwd = Cwd  BY <1>2, ConcatEmptySeq
  <2> QED  BY <1>1, <1>4, <1>5, <1>6, <1>8, <2>1
<1>10. r[2] = Cwd \o (Between(as, 2) \o path)  BY <1>1, <1>5, <1>7, <1>9
<1>11. CASE path = <<>>
  <2>1. Between(as, 2) = <<>>  BY <1>1, <1>11 DEF Between
  <2>2. <<>> \o <<>> = <<>>  OBVIOUS
  <2>3. Cwd \o <<>> = Cwd  BY <1>2, ConcatEmptySeq
  <2>4. r[2] = Cwd  BY <1>10, <1>11, <2>1, <2>2, <2>3
  <2> QED  BY <1>3, <1>11, <2>4 DEF as
<1>12. CASE path # <<>>
  <2>1. LastArg(as, 0 + 1, Last(as[0 + 1]))
    <3>0. as[1] # <<>>  BY <1>1, <1>2, Zenon
    <3>1. 0 \in Nat /\ as[0 + 1] # <<>>  BY <1>5, <3>0
    <3> QED  BY <3>1, LastNew
  <2>2. Last(as[0 + 1]) \in Names
    <3>1. Last(Cwd) = Cwd[2]  BY CwdSeq DEF Last
    <3> QED  BY <1>1, <1>5, <3>1, CwdSeq
  <2>3. Last(as[0 + 1]) \notin Separators  BY <2>2, WordsAssumption DEF Components
  <2>4. LastArg(as, 1, Last(as[0 + 1])) /\ as[1 + 1] # <<>> /\ 1 \in Nat  BY <1>1, <1>5, <1>12, <2>1
  <2> DEFINE c == Last(as[0 + 1])
  <2>5. c \notin Separators /\ LastArg(as, 1, c)  BY <2>3, <2>4
  <2> HIDE DEF c
  <2>6. Between(as, 1 + 1) = <<Sep>>  BY <2>4, <2>5, GapBetween
  <2>7. r[2] = Cwd \o (<<Sep>> \o path)  BY <1>5, <1>10, <2>6
  <2> QED  BY <1>3, <1>12, <2>7 DEF as
<1> QED  BY <1>11, <1>12

LEMMA AbsApart ==
  ASSUME NEW path \in NormArgs
  PROVE  WordsApart(JoinReference(<<Cwd, path>>))
<1>1. Cwd \in Seq(PathCells) /\ Len(Cwd) = 2 /\ Cwd[1] \in Separators
  BY CwdSeq DEF Separators
<1>2. path \in Seq(PathCells)  BY NormArgSeq
<1>3. \A n \in 1 .. Len(path) - 1 : path[n] \in Separators \/ path[n + 1] \in Separators
  BY WordsAssumption
<1>4. WordsApart(Cwd)
  <2>1. \A n \in 1 .. 2 - 1 : n = 1  OBVIOUS
  <2> QED  BY <1>1, <2>1 DEF WordsApart
<1>5. WordsApart(Cwd \o (<<Sep>> \o path))
  <2> DEFINE d == Cwd
             q == <<Sep>>
             v == q \o path
             w == d \o v
  <2>1. q \in Seq(PathCells) /\ Len(q) = 1 /\ q[1] = Sep /\ Sep \in Separators
    <3>1. Sep \in PathCells /\ Sep \in Separators  BY DEF PathCells, Separators
    <3> QED  BY <3>1
  <2>2. PICK l \in Nat : l = Len(path)  BY <1>2, LenProperties
  <2> HIDE DEF q
  <2>3. v \in Seq(PathCells) /\ Joins(v, q, path)  BY <1>2, <2>1, Joint
  <2> HIDE DEF v
  <2>4. Len(v) = 1 + l /\ (\A j \in 1 .. 1 : v[j] = q[j]) /\ (\A j \in 1 .. l : v[1 + j] = path[j])
    BY <2>1, <2>2, <2>3 DEF Joins
  <2>5. w \in Seq(PathCells) /\ Joins(w, d, v)  BY <1>1, <2>3, Joint
  <2> HIDE DEF w, d
  <2>6. Len(w) = 2 + (1 + l) /\ (\A j \in 1 .. 2 : w[j] = d[j]) /\ \A j \in 1 .. 1 + l : w[2 + j] = v[j]
    BY <1>1, <2>4, <2>5 DEF Joins, d
  <2>7. w[1] \in Separators  BY <1>1, <2>6 DEF d
  <2>8. w[3] \in Separators
    <3>1. 1 \in 1 .. 1 + l /\ 1 \in 1 .. 1 /\ 2 + 1 = 3  OBVIOUS
    <3>2. w[2 + 1] = v[1] /\ v[1] = q[1]  BY <2>4, <2>6, <3>1
    <3> QED  BY <2>1, <3>1, <3>2
  <2>9. \A j \in 1 .. l : w[3 + j] = path[j]
    <3> SUFFICES ASSUME NEW j \in 1 .. l PROVE w[3 + j] = path[j]  OBVIOUS
    <3>1. 1 + j \in 1 .. 1 + l /\ 2 + (1 + j) = 3 + j  OBVIOUS
    <3>2. w[2 + (1 + j)] = v[1 + j] /\ v[1 + j] = path[j]  BY <2>4, <2>6, <3>1
    <3> QED  BY <3>1, <3>2
  <2>10. ASSUME NEW n \in 1 .. Len(w) - 1 PROVE w[n] \in Separators \/ w[n + 1] \in Separators
    <3>1. n \in 1 .. 2 + l  BY <2>6
    <3>2. CASE n = 1  BY <2>7, <3>2
    <3>3. CASE n = 2
      <4>1. n + 1 = 3  BY <3>3
      <4> QED  BY <2>8, <4>1
    <3>4. CASE n = 3  BY <2>8, <3>4
    <3>5. CASE n > 3
      <4> DEFINE j == n - 3
      <4>1. j \in 1 .. l - 1 /\ j \in 1 .. l /\ j + 1 \in 1 .. l /\ 3 + j = n /\ 3 + (j + 1) = n + 1
        BY <3>1, <3>5
      <4> HIDE DEF j
      <4>2. w[3 + j] = path[j] /\ w[3 + (j + 1)] = path[j + 1]  BY <2>9, <4>1
      <4>3. path[j] \in Separators \/ path[j + 1] \in Separators  BY <1>3, <2>2, <4>1
      <4> QED  BY <4>1, <4>2, <4>3
    <3> QED  BY <3>1, <3>2, <3>3, <3>4, <3>5
  <2>11. WordsApart(w)  BY <2>5, <2>10 DEF WordsApart
  <2> QED  BY <2>11 DEF w, v, q, d
<1> QED  BY <1>4, <1>5, AbsReference

\* What normpath is given, and what it may say of it.
Given == IF buf = <<>> THEN args[1] ELSE UpToNul(buf)

SameFor(g, r) ==
  /\ Below(g) => Place(r) = Place(g)
  /\ FromRoot(g) => (FromRoot(r) <=> Below(g))
  /\ ~FromRoot(g) => ~FromRoot(r)

NormCall ==
  \/ buf = <<>> /\ args[1] \in NormArgs
  \/ buf # <<>> /\ \E path \in NormArgs : ~Rooted(path) /\ args = <<Cwd, path>>

NormInv ==
  op # "join" =>
    /\ NormCall
    /\ stage = "join" => stack = <<>> /\ prev = 1 /\ ahead = 1
    /\ stage # "join" => norm = Given /\ WordsApart(norm)
    /\ stage # "join" /\ Single(norm) =>
         /\ stage = "scan" => ScanState(norm, stack, prev, ahead)
         /\ stage = "resolve" => Resolving(norm, stack, token)
         /\ stage = "done" => SameFor(norm, result)

LEMMA ArgApart ==
  ASSUME NEW path \in NormArgs
  PROVE  WordsApart(path)
BY WordsAssumption, NormArgSeq DEF WordsApart

\* A call of normpath, or of abspath with a path that has a directory.
LEMMA NormStarts ==
  ASSUME NEW path \in NormArgs, CallNorm(path), PathInit
  PROVE  NormInv
<1>1. args = <<path>> /\ stage = "scan" /\ norm = path /\ buf = <<>>  BY DEF CallNorm
<1>2. prev = 1 /\ ahead = 1 /\ stack = <<>>  BY DEF PathInit
<1>3. args[1] = path  BY <1>1
<1>4. NormCall /\ norm = Given /\ WordsApart(norm)  BY <1>1, <1>3, ArgApart DEF NormCall, Given
<1>5. Single(norm) => ScanState(norm, stack, prev, ahead)
  BY <1>2, <1>4, ApartAlternates, ScanBegins
<1>6. "scan" # "join" /\ "scan" # "resolve" /\ "scan" # "done"  OBVIOUS
<1> QED  BY <1>1, <1>4, <1>5, <1>6 DEF NormInv

LEMMA NormInit == PathInit => NormInv
<1> SUFFICES ASSUME PathInit, op # "join" PROVE NormInv  BY DEF NormInv
<1>1. CASE op = "normpath"
  <2>1. \E path \in NormArgs : CallNorm(path)  BY <1>1 DEF PathInit
  <2> QED  BY <2>1, NormStarts
<1>2. CASE op = "abspath"
  <2>1. PICK path \in NormArgs : IF Rooted(path) THEN CallNorm(path) ELSE CallJoin(<<Cwd, path>>)
    BY <1>2 DEF PathInit
  <2>2. CASE Rooted(path)  BY <2>1, <2>2, NormStarts
  <2>3. CASE ~Rooted(path)
    <3>1. args = <<Cwd, path>> /\ stage = "join" /\ buf # <<>>
      <4>1. CallJoin(<<Cwd, path>>) /\ <<Cwd, path>> \in ArgLists  BY <2>1, <2>3, AbsArgs
      <4> DEFINE as == <<Cwd, path>>
      <4> HIDE DEF as
      <4>2. args = as /\ stage = "join" /\ buf # <<>>  BY <4>1, Called DEF as
      <4> QED  BY <4>2 DEF as
    <3>2. prev = 1 /\ ahead = 1 /\ stack = <<>>  BY DEF PathInit
    <3>3. NormCall  BY <2>3, <3>1 DEF NormCall
    <3> QED  BY <3>1, <3>2, <3>3 DEF NormInv
  <2> QED  BY <2>2, <2>3
<1> QED  BY <1>1, <1>2 DEF PathInit

\* What join hands on to normpath.
LEMMA JoinedGives ==
  ASSUME JoinInv, NormInv, Joined, op # "join"
  PROVE  WordsApart(UpToNul(buf))
<1>1. stage = "join" /\ nth > Len(args)  BY DEF Joined
<1>2. buf # <<>> /\ args \in ArgLists /\ nth \in 1 .. Len(args) + 1 /\ JoinState(args, nth - 1, buf, used)
  BY <1>1 DEF JoinInv
<1>3. PICK path \in NormArgs : ~Rooted(path) /\ args = <<Cwd, path>>  BY <1>2 DEF NormInv, NormCall
<1>4. Len(args) = 2 /\ args[2] = path  BY <1>3
<1>5. nth - 1 = Len(args)  BY <1>1, <1>2, <1>4
<1>6. JoinState(args, Len(args), buf, used)  BY <1>2, <1>5
<1>7. Overs(args, Len(args)) = {}
  <2>1. ~FromRoot(args[2])  BY <1>3, <1>4 DEF FromRoot, Rooted
  <2>2. \A m \in 2 .. 2 : m = 2  OBVIOUS
  <2> QED  BY <1>4, <2>1, <2>2 DEF Overs
<1>8. UpToNul(buf) = JoinReference(args)  BY <1>2, <1>6, <1>7, JoinEnds
<1> QED  BY <1>3, <1>8, AbsApart

LEMMA ScanKeeps == ASSUME NormInv, Scan PROVE NormInv'
<1> SUFFICES ASSUME op # "join" PROVE NormInv'  BY DEF NormInv, Scan
<1>1. /\ stage = "scan" /\ ahead <= Len(norm) /\ UNCHANGED <<op, args, stage, buf, norm, token, result>>
      /\ ahead' = ahead + 1
      /\ IF norm[ahead] \in Separators /\ prev < ahead
         THEN stack' = Append(stack, SubSeq(norm, prev, ahead - 1)) /\ prev' = ahead + 1
         ELSE UNCHANGED <<stack, prev>>
  BY DEF Scan, joining
<1>2. NormCall /\ norm = Given /\ WordsApart(norm)  BY <1>1 DEF NormInv
<1>3. ASSUME Single(norm) PROVE ScanState(norm, stack', prev', ahead')
  <2>1. Alternates(norm) /\ ScanState(norm, stack, prev, ahead)
    BY <1>1, <1>2, <1>3, ApartAlternates DEF NormInv
  <2>2. CASE norm[ahead] \in Separators /\ prev < ahead  BY <1>1, <2>1, <2>2, ScanCut
  <2>3. CASE ~ (norm[ahead] \in Separators /\ prev < ahead)
    <3>1. ScanState(norm, stack, prev, ahead + 1)  BY <1>1, <2>1, <2>3, ScanMore
    <3> QED  BY <1>1, <2>3, <3>1
  <2> QED  BY <2>2, <2>3
<1>4. NormCall' /\ Given' = Given  BY <1>1, <1>2 DEF NormCall, Given
<1>5. "scan" # "join" /\ "scan" # "resolve" /\ "scan" # "done"  OBVIOUS
<1> QED  BY <1>1, <1>2, <1>3, <1>4, <1>5 DEF NormInv

LEMMA ScannedKeeps == ASSUME NormInv, Scanned PROVE NormInv'
<1> SUFFICES ASSUME op # "join" PROVE NormInv'  BY DEF NormInv, Scanned
<1>1. /\ stage = "scan" /\ ahead > Len(norm) /\ UNCHANGED <<op, args, buf, norm, prev, ahead, result>>
      /\ stage' = "resolve" /\ token' = 1
      /\ stack' = IF prev < ahead THEN Append(stack, SubSeq(norm, prev, ahead - 1)) ELSE stack
  BY DEF Scanned, LastToken, joining
<1>2. NormCall /\ norm = Given /\ WordsApart(norm)  BY <1>1 DEF NormInv
<1>3. ASSUME Single(norm) PROVE Resolving(norm, stack', 1)
  <2>1. Alternates(norm) /\ ScanState(norm, stack, prev, ahead)
    BY <1>1, <1>2, <1>3, ApartAlternates DEF NormInv
  <2>2. \E k \in Nat : Scanning(norm, stack', k) /\ AllTokens(norm, k)
    BY <1>1, <2>1, ScanEnds
  <2> QED  BY <2>1, <2>2, ResolveBegins
<1>4. NormCall' /\ Given' = Given  BY <1>1, <1>2 DEF NormCall, Given
<1>5. "resolve" # "join" /\ "resolve" # "scan" /\ "resolve" # "done"  OBVIOUS
<1> QED  BY <1>1, <1>2, <1>3, <1>4, <1>5 DEF NormInv

LEMMA ResolveKeeps == ASSUME NormInv, Resolve PROVE NormInv'
<1> SUFFICES ASSUME op # "join" PROVE NormInv'  BY DEF NormInv, Resolve
<1>1. /\ stage = "resolve" /\ token <= Len(stack)
      /\ UNCHANGED <<op, args, stage, buf, norm, prev, ahead, result>>
      /\ UpGoes \/ HereGoes \/ TokenStays
  BY DEF Resolve, joining
<1>2. NormCall /\ norm = Given /\ WordsApart(norm)  BY <1>1 DEF NormInv
<1>3. ASSUME Single(norm) PROVE Resolving(norm, stack', token')
  <2>1. Alternates(norm) /\ Resolving(norm, stack, token)
    BY <1>1, <1>2, <1>3, ApartAlternates DEF NormInv
  <2>2. /\ stack[token] = <<Up>> =>
             Resolving(norm, Gone(stack, token), IF token > 1 THEN token - 1 ELSE token)
        /\ stack[token] = <<Here>> => Resolving(norm, RemoveAt(stack, token), token)
        /\ stack[token] \notin {<<Up>>, <<Here>>} => Resolving(norm, stack, token + 1)
    BY <1>1, <2>1, ResolveStep
  <2>3. CASE UpGoes
    <3>1. stack[token] = <<Up>> /\ stack' = Gone(stack, token)
          /\ token' = IF token > 1 THEN token - 1 ELSE token
      BY <2>3 DEF UpGoes, Gone
    <3> QED  BY <2>2, <3>1
  <2>4. CASE HereGoes  BY <2>2, <2>4 DEF HereGoes
  <2>5. CASE TokenStays  BY <2>2, <2>5 DEF TokenStays
  <2> QED  BY <1>1, <2>3, <2>4, <2>5
<1>4. NormCall' /\ Given' = Given  BY <1>1, <1>2 DEF NormCall, Given
<1>5. "resolve" # "join" /\ "resolve" # "scan" /\ "resolve" # "done"  OBVIOUS
<1> QED  BY <1>1, <1>2, <1>3, <1>4, <1>5 DEF NormInv

LEMMA EmitKeeps == ASSUME NormInv, Emit PROVE NormInv'
<1> SUFFICES ASSUME op # "join" PROVE NormInv'  BY DEF NormInv, Emit
<1>1. /\ stage = "resolve" /\ token > Len(stack) /\ UNCHANGED <<op, args, buf, norm>>
      /\ stage' = "done" /\ result' = FlattenSeq(Rendered(stack))
  BY DEF Emit, Emitted, Rendered, joining, normalising
<1>2. NormCall /\ norm = Given /\ WordsApart(norm)  BY <1>1 DEF NormInv
<1>3. ASSUME Single(norm) PROVE SameFor(norm, result')
  <2>1. Alternates(norm) /\ Resolving(norm, stack, token)
    BY <1>1, <1>2, <1>3, ApartAlternates DEF NormInv
  <2> QED  BY <1>1, <2>1, EmitRight DEF SameFor
<1>4. NormCall' /\ Given' = Given  BY <1>1, <1>2 DEF NormCall, Given
<1>5. "done" # "join" /\ "done" # "scan" /\ "done" # "resolve"  OBVIOUS
<1> QED  BY <1>1, <1>2, <1>3, <1>4, <1>5 DEF NormInv

LEMMA NormStep == JoinInv /\ JoinInv' /\ NormInv /\ [PathNext]_pathVars => NormInv'
<1> SUFFICES ASSUME JoinInv, NormInv, [PathNext]_pathVars PROVE NormInv'  OBVIOUS
<1>1. CASE JoinSkip \/ JoinFirst \/ JoinOver \/ JoinAppend
  <2>1. UNCHANGED <<op, args, stage, normalising>> /\ stage = "join"
    BY <1>1 DEF JoinSkip, JoinFirst, JoinOver, JoinAppend
  <2>2. buf # <<>> /\ buf' # <<>>  BY <1>1, JoinAction
  <2> QED  BY <2>1, <2>2 DEF NormInv, NormCall, normalising
<1>2. CASE Joined
  <2> SUFFICES ASSUME op # "join" PROVE NormInv'  BY <1>2 DEF NormInv, Joined
  <2>1. /\ stage = "join" /\ stage' = "scan" /\ norm' = UpToNul(buf)
        /\ UNCHANGED <<op, args, buf, prev, ahead, stack, token>>
    BY <1>2 DEF Joined, joining
  <2>2. buf # <<>> /\ NormCall /\ stack = <<>> /\ prev = 1 /\ ahead = 1
    BY <2>1 DEF NormInv, JoinInv
  <2>3. WordsApart(norm')  BY <1>2, <2>1, JoinedGives
  <2>4. Single(norm') => ScanState(norm', stack', prev', ahead')
    BY <2>1, <2>2, <2>3, ApartAlternates, ScanBegins
  <2>5. NormCall' /\ norm' = Given'  BY <2>1, <2>2 DEF NormCall, Given
  <2>6. "scan" # "join" /\ "scan" # "resolve" /\ "scan" # "done"  OBVIOUS
  <2> QED  BY <2>1, <2>3, <2>4, <2>5, <2>6 DEF NormInv
<1>3. CASE UNCHANGED pathVars
  BY <1>3 DEF NormInv, NormCall, Given, pathVars, joining, normalising
<1> QED
  BY <1>1, <1>2, <1>3, ScanKeeps, ScannedKeeps, ResolveKeeps, EmitKeeps DEF PathNext

\* What normpath and abspath return leads to the place the path does, and starts
\* at the root when it does, unless the path leads above at it starts: then the
\* root is lost (_helper_path_normpath, _ospath_abspath).
THEOREM SamePlaceHolds == PathSpec => []SamePlace
<1>1. NormInv => SamePlace
  <2> SUFFICES ASSUME NormInv, stage = "done", op # "join", Single(Given)
               PROVE  SameFor(Given, result)
    BY DEF SamePlace, SameFor, Given
  <2>1. stage # "join"  OBVIOUS
  <2> QED  BY <2>1 DEF NormInv
<1>2. PathInit => NormInv  BY NormInit
<1>3. PathInit => JoinInv  BY JoinInit
<1>4. JoinInv /\ [PathNext]_pathVars => JoinInv'  BY JoinStep
<1>5. JoinInv /\ JoinInv' /\ NormInv /\ [PathNext]_pathVars => NormInv'  BY NormStep
<1> QED  BY <1>1, <1>2, <1>3, <1>4, <1>5, PTL DEF PathSpec
===============================================================================

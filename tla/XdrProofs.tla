------------------------------ MODULE XdrProofs -----------------------------
(***************************************************************************)
(* What XdrEncoder puts, XdrDecoder gets back: for opaques and strings of  *)
(* every length, runs of words, bitmaps and attribute lists of every size, *)
(* in front of whatever else is in the buffer.  Size and get_words are     *)
(* folds; what they compute is told by their values on the prefixes of a   *)
(* sequence, and facts about these are proved by looking at a smallest     *)
(* prefix for which they would be wrong.                                   *)
(***************************************************************************)
EXTENDS Nfs4Wire, SequenceTheorems, FiniteSetTheorems, WellFoundedInduction, TLAPS

\* Buffers of fields in T with values in V; the encoder appends no empty chunk.
ChunksOf(T, V) == [t : T, n : Nat \ {0}, v : V]
Buffers(T, V)  == Seq(ChunksOf(T, V))

-----------------------------------------------------------------------------
(* Folds.                                                                  *)

\* Function g folds step st over the subsets of S with up to n elements.
FoldsUpTo(g, st, b, S, V, n) ==
    /\ g \in [SUBSET S -> V]
    /\ \A s \in SUBSET S : Cardinality(s) <= n =>
          g[s] = IF s = {} THEN b ELSE st[<<g[s \ {Max(s)}], Max(s)>>]

\* Steps that fold the positions 1 .. m, and the solution of the recursion for one.
Steps(V, m) == [V \X (1 .. m) -> V]
Folds(g, st, b, V, m) ==
    /\ g \in [SUBSET (1 .. m) -> V]
    /\ \A s \in SUBSET (1 .. m) : g[s] = IF s = {} THEN b ELSE st[<<g[s \ {Max(s)}], Max(s)>>]

\* A set of numbers that is not empty has an element whose predecessor is not in it.
LEMMA SmallestOf ==
    ASSUME NEW Z \in SUBSET Nat, Z # {}
    PROVE  \E n \in Z : n = 0 \/ (n - 1 \in Nat /\ n - 1 \notin Z)
<1>1. PICK n \in Z : \A m \in Z : ~ (<<m, n>> \in OpToRel(<, Nat))
  BY NatLessThanWellFounded, WFMin
<1>2. ASSUME NEW m \in Z PROVE ~ (m < n)
  BY <1>1 DEF OpToRel
<1> QED BY <1>2

\* The greatest element of a bounded set of numbers.
LEMMA MaxIn ==
    ASSUME NEW n \in Nat, NEW s \in SUBSET (0 .. n), s # {}
    PROVE  Max(s) \in s /\ \A y \in s : Max(s) >= y
<1> DEFINE Z == {k \in Nat : \E x \in s : x >= n - k}
<1>1. Z \in SUBSET Nat /\ Z # {}
  <2>1. PICK x : x \in s
    OBVIOUS
  <2>2. n \in Z
    BY <2>1
  <2> QED BY <2>2
<1>2. PICK k \in Z : k = 0 \/ (k - 1 \in Nat /\ k - 1 \notin Z)
  <2> HIDE DEF Z
  <2> QED BY <1>1, SmallestOf
<1>3. PICK x \in s : x >= n - k
  OBVIOUS
<1>4. \A y \in s : x >= y
  <2>1. CASE k = 0
    BY <1>3, <2>1
  <2>2. CASE k - 1 \in Nat /\ k - 1 \notin Z
    <3>1. \A y \in s : ~(y >= n - (k - 1))
      BY <2>2
    <3> QED BY <1>3, <3>1
  <2> QED BY <1>2, <2>1, <2>2
<1>5. \E z \in s : \A y \in s : z >= y
  BY <1>4
<1> QED BY <1>5 DEF Max

\* One element less.
LEMMA MaxFacts ==
    ASSUME NEW n \in Nat, NEW s \in SUBSET (1 .. n), s # {}
    PROVE  /\ Max(s) \in s /\ Max(s) \in 1 .. n
           /\ s \ {Max(s)} \in SUBSET (1 .. n)
           /\ Cardinality(s) \in Nat
           /\ Cardinality(s \ {Max(s)}) = Cardinality(s) - 1
<1>1. Max(s) \in s
  <2>1. s \in SUBSET (0 .. n)
    OBVIOUS
  <2> QED BY <2>1, MaxIn
<1>2. IsFiniteSet(s)
  <2>1. IsFiniteSet(1 .. n)
    BY FS_Interval
  <2> QED BY <2>1, FS_Subset
<1> QED BY <1>1, <1>2, FS_CardinalityType, FS_RemoveElement

\* The recursion that defines a fold has a solution.
LEMMA FoldExists ==
    ASSUME NEW m \in Nat, NEW V, NEW b \in V, NEW st \in Steps(V, m)
    PROVE  \E g : Folds(g, st, b, V, m)
<1> USE DEF Steps
<1> DEFINE S == 1 .. m
           Z == {n \in Nat : ~ \E g : FoldsUpTo(g, st, b, S, V, n)}
<1>1. SUFFICES Z = {}
  <2>1. IsFiniteSet(S) /\ Cardinality(S) \in Nat
    BY FS_Interval, FS_CardinalityType
  <2>2. \A s \in SUBSET S : Cardinality(s) <= Cardinality(S)
    BY <2>1, FS_Subset
  <2>3. PICK g : FoldsUpTo(g, st, b, S, V, Cardinality(S))
    BY <1>1, <2>1
  <2> HIDE DEF S
  <2>4. g \in [SUBSET S -> V] /\ \A s \in SUBSET S :
               g[s] = IF s = {} THEN b ELSE st[<<g[s \ {Max(s)}], Max(s)>>]
    BY <2>2, <2>3 DEF FoldsUpTo
  <2> QED BY <2>4 DEF S, Folds
<1>2. SUFFICES ASSUME Z # {} PROVE FALSE
  OBVIOUS
<1>3. PICK n \in Z : n = 0 \/ (n - 1 \in Nat /\ n - 1 \notin Z)
  <2> HIDE DEF Z
  <2>1. Z \in SUBSET Nat
    BY DEF Z
  <2> QED BY <1>2, <2>1, SmallestOf
<1>4. CASE n = 0
  <2> DEFINE g == [s \in SUBSET S |-> b]
  <2>1. g \in [SUBSET S -> V]
    OBVIOUS
  <2>2. ASSUME NEW s \in SUBSET S, Cardinality(s) <= 0, s # {} PROVE FALSE
    <3>1. Cardinality(s) \in Nat /\ Cardinality(s \ {Max(s)}) = Cardinality(s) - 1
      BY <2>2, MaxFacts
    <3>2. Cardinality(s \ {Max(s)}) \in Nat
      <4>1. IsFiniteSet(1 .. m)
        BY FS_Interval
      <4>2. IsFiniteSet(s \ {Max(s)})
        BY <4>1, FS_Subset
      <4> QED BY <4>2, FS_CardinalityType
    <3> QED BY <2>2, <3>1, <3>2
  <2>3. FoldsUpTo(g, st, b, S, V, 0)
    BY <2>1, <2>2 DEF FoldsUpTo
  <2> QED BY <1>4, <2>3
<1>5. CASE n - 1 \in Nat /\ n - 1 \notin Z
  <2>1. PICK h : FoldsUpTo(h, st, b, S, V, n - 1)
    BY <1>5
  <2> DEFINE g == [s \in SUBSET S |-> IF s = {} THEN b
                                      ELSE st[<<h[s \ {Max(s)}], Max(s)>>]]
  <2>2. g \in [SUBSET S -> V]
    <3>1. ASSUME NEW s \in SUBSET S, s # {} PROVE st[<<h[s \ {Max(s)}], Max(s)>>] \in V
      <4>1. Max(s) \in S /\ s \ {Max(s)} \in SUBSET S /\ h \in [SUBSET S -> V]
        BY <2>1, <3>1, MaxFacts DEF FoldsUpTo
      <4>2. h[s \ {Max(s)}] \in V
        BY <4>1
      <4> QED BY <4>1, <4>2
    <3> QED BY <3>1
  <2>3. ASSUME NEW s \in SUBSET S, Cardinality(s) <= n - 1 PROVE g[s] = h[s]
    BY <2>1, <2>3 DEF FoldsUpTo
  <2>4. ASSUME NEW s \in SUBSET S, Cardinality(s) <= n
        PROVE  g[s] = IF s = {} THEN b ELSE st[<<g[s \ {Max(s)}], Max(s)>>]
    <3>1. CASE s = {}
      BY <3>1
    <3>2. CASE s # {}
      <4>1. s \ {Max(s)} \in SUBSET S /\ Cardinality(s \ {Max(s)}) <= n - 1
        <5>1. /\ Cardinality(s) \in Nat /\ Cardinality(s \ {Max(s)}) = Cardinality(s) - 1
              /\ s \ {Max(s)} \in SUBSET S
          BY <3>2, MaxFacts
        <5> HIDE DEF S
        <5> QED BY <2>4, <5>1
      <4>2. g[s \ {Max(s)}] = h[s \ {Max(s)}]
        BY <2>3, <4>1
      <4> HIDE DEF g
      <4>3. g[s] = st[<<h[s \ {Max(s)}], Max(s)>>]
        BY <3>2 DEF g
      <4> QED BY <3>2, <4>2, <4>3
    <3> QED BY <3>1, <3>2
  <2> HIDE DEF g
  <2>5. FoldsUpTo(g, st, b, S, V, n)
    BY <2>2, <2>4 DEF FoldsUpTo
  <2> QED BY <2>5
<1> QED BY <1>3, <1>4, <1>5

\* A fold over 1 .. k takes k last.
LEMMA LastTaken ==
    ASSUME NEW k \in Nat \ {0}
    PROVE  Max(1 .. k) = k /\ (1 .. k) \ {k} = 1 .. (k - 1) /\ 1 .. k # {}
<1>1. Max(1 .. k) \in 1 .. k /\ \A y \in 1 .. k : Max(1 .. k) >= y
  <2>1. k \in 1 .. k
    OBVIOUS
  <2>2. 1 .. k # {} /\ 1 .. k \in SUBSET (1 .. k)
    BY <2>1
  <2>3. PICK s : s = 1 .. k
    OBVIOUS
  <2>4. k \in Nat /\ s \in SUBSET (0 .. k) /\ s # {}
    BY <2>2, <2>3
  <2>5. Max(s) \in s /\ \A y \in s : Max(s) >= y
    BY <2>4, MaxIn
  <2> QED BY <2>3, <2>5
<1>2. k \in 1 .. k
  OBVIOUS
<1>3. PICK x : x = Max(1 .. k)
  OBVIOUS
<1> QED BY <1>1, <1>2, <1>3

-----------------------------------------------------------------------------
(* Sizes.                                                                  *)

\* The chunks of a buffer.
LEMMA ChunkFacts ==
    ASSUME NEW T, NEW V, NEW s \in Buffers(T, V)
    PROVE  /\ Len(s) \in Nat /\ DOMAIN s = 1 .. Len(s)
           /\ \A i \in 1 .. Len(s) : s[i] \in ChunksOf(T, V) /\ s[i].n \in Nat /\ s[i].n > 0
<1>1. Len(s) \in Nat /\ DOMAIN s = 1 .. Len(s)
  BY DEF Buffers
<1>2. \A i \in 1 .. Len(s) : s[i] \in ChunksOf(T, V)
  BY DEF Buffers
<1>3. \A c \in ChunksOf(T, V) : c.n \in Nat /\ c.n > 0
  BY DEF ChunksOf
<1> QED BY <1>1, <1>2, <1>3

\* The sizes of the prefixes of a buffer.
Sizes(p, s) ==
    /\ p \in [0 .. Len(s) -> Nat]
    /\ p[0] = 0
    /\ \A i \in 1 .. Len(s) : p[i] = p[i - 1] + s[i].n

\* The size of a buffer is that of its prefixes, one chunk after the other.
LEMMA SizeIs ==
    ASSUME NEW T, NEW V, NEW s \in Buffers(T, V)
    PROVE  \E p : Sizes(p, s) /\ Size(s) = p[Len(s)]
<1> DEFINE m  == Len(s)
           Sub == SUBSET (1 .. m)
           st == [x \in Nat \X (1 .. m) |-> x[1] + s[x[2]].n]
           Def(g, u) == IF u = {} THEN 0 ELSE g[u \ {Max(u)}] + s[Max(u)].n
           it == CHOOSE g : g = [u \in Sub |-> Def(g, u)]
<1>1. m \in Nat /\ DOMAIN s = 1 .. m /\ \A i \in 1 .. m : s[i].n \in Nat
  BY ChunkFacts
<1>2. st \in Steps(Nat, m)
  BY <1>1 DEF Steps
<1>3. PICK h : Folds(h, st, 0, Nat, m)
  <2> HIDE DEF st, m
  <2> QED BY <1>1, <1>2, FoldExists
<1>4. h = [u \in Sub |-> Def(h, u)]
  <2>1. ASSUME NEW u \in Sub PROVE h[u] = Def(h, u)
    <3>1. CASE u = {}
      BY <1>3, <3>1 DEF Folds
    <3>2. CASE u # {}
      <4>1. Max(u) \in 1 .. m /\ u \ {Max(u)} \in Sub
        <5> HIDE DEF m
        <5> QED BY <1>1, <3>2, MaxFacts
      <4>2. h[u \ {Max(u)}] \in Nat
        BY <1>3, <4>1 DEF Folds
      <4>3. h[u] = st[<<h[u \ {Max(u)}], Max(u)>>]
        <5> HIDE DEF st
        <5> QED BY <1>3, <3>2 DEF Folds
      <4>4. PICK y, z : y = h[u \ {Max(u)}] /\ z = Max(u)
        OBVIOUS
      <4>5. st[<<y, z>>] = y + s[z].n
        BY <4>1, <4>2, <4>4
      <4> HIDE DEF st
      <4> QED BY <3>2, <4>3, <4>4, <4>5
    <3> QED BY <3>1, <3>2
  <2>2. h \in [Sub -> Nat]
    BY <1>3 DEF Folds
  <2> HIDE DEF Def, Sub
  <2> QED BY <2>1, <2>2
<1>5. it = [u \in Sub |-> Def(it, u)]
  <2> HIDE DEF Def, Sub
  <2> QED BY <1>4
<1>6. Size(s) = it[1 .. m]
  BY <1>1 DEF Size, FoldLeft, MapThenFoldSet
<1> HIDE DEF it
<1>7. ASSUME NEW u \in Sub PROVE it[u] = Def(it, u)
  <2> HIDE DEF Def, Sub
  <2> QED BY <1>5
<1> DEFINE p == [i \in 0 .. m |-> it[1 .. i]]
<1>8. p[0] = 0
  <2>1. 1 .. 0 = {} /\ {} \in Sub
    OBVIOUS
  <2>2. it[{}] = 0
    BY <1>7, <2>1
  <2> QED BY <1>1, <2>1, <2>2
<1>9. ASSUME NEW i \in 1 .. m PROVE p[i] = p[i - 1] + s[i].n
  <2>1. /\ i \in Nat \ {0} /\ 1 .. i \in Sub /\ i - 1 \in 0 .. m /\ i \in 0 .. m
    BY <1>1
  <2>2. Max(1 .. i) = i /\ (1 .. i) \ {i} = 1 .. (i - 1) /\ 1 .. i # {}
    BY <2>1, LastTaken
  <2>3. PICK u : u = 1 .. i
    OBVIOUS
  <2>4. it[u] = Def(it, u)
    BY <1>7, <2>1, <2>3
  <2>5. it[u] = it[1 .. (i - 1)] + s[i].n
    BY <2>2, <2>3, <2>4
  <2> HIDE DEF m
  <2> QED BY <2>1, <2>3, <2>5
<1>10. \A i \in 0 .. m : p[i] \in Nat
  <2> DEFINE Z == {i \in Nat : i <= m /\ p[i] \notin Nat}
  <2> HIDE DEF p
  <2>1. SUFFICES ASSUME Z # {} PROVE FALSE
    OBVIOUS
  <2>2. PICK i \in Z : i = 0 \/ (i - 1 \in Nat /\ i - 1 \notin Z)
    <3>1. Z \in SUBSET Nat
      OBVIOUS
    <3> HIDE DEF Z
    <3> QED BY <2>1, <3>1, SmallestOf
  <2>3. i - 1 \in Nat /\ i - 1 \notin Z
    BY <1>8, <2>2
  <2>4. p[i - 1] \in Nat /\ i \in 1 .. m
    BY <1>1, <2>3
  <2> QED BY <1>1, <1>9, <2>4
<1>11. p[m] = Size(s)
  BY <1>1, <1>6
<1> HIDE DEF m
<1>12. p \in [0 .. m -> Nat]
  BY <1>10
<1> HIDE DEF p
<1> QED BY <1>8, <1>9, <1>11, <1>12 DEF m, Sizes

\* Sizes add up.
LEMMA SizeConcat ==
    ASSUME NEW T, NEW V, NEW a \in Buffers(T, V), NEW b \in Buffers(T, V)
    PROVE  a \o b \in Buffers(T, V) /\ Size(a) \in Nat /\ Size(b) \in Nat
             /\ Size(a \o b) = Size(a) + Size(b)
<1> DEFINE c == a \o b
           k == Len(a)
           m == Len(b)
<1>1. c \in Buffers(T, V) /\ k \in Nat /\ m \in Nat /\ Len(c) = k + m
  BY DEF Buffers
<1>2. /\ \A i \in 1 .. k : c[i] = a[i]
      /\ \A i \in 1 .. m : c[k + i] = b[i]
  BY DEF Buffers
<1>3. PICK p \in [0 .. k -> Nat] :
          p[0] = 0 /\ (\A i \in 1 .. k : p[i] = p[i - 1] + a[i].n) /\ Size(a) = p[k]
  <2>1. PICK p : Sizes(p, a) /\ Size(a) = p[Len(a)]
    BY SizeIs
  <2> QED BY <2>1 DEF Sizes
<1>4. PICK q \in [0 .. m -> Nat] :
          q[0] = 0 /\ (\A i \in 1 .. m : q[i] = q[i - 1] + b[i].n) /\ Size(b) = q[m]
  <2>1. PICK q : Sizes(q, b) /\ Size(b) = q[Len(b)]
    BY SizeIs
  <2> QED BY <2>1 DEF Sizes
<1>5. PICK r \in [0 .. Len(c) -> Nat] :
          /\ r[0] = 0 /\ Size(c) = r[Len(c)]
          /\ \A i \in 1 .. Len(c) : r[i] = r[i - 1] + c[i].n
  <2> HIDE DEF c
  <2>1. PICK r : Sizes(r, c) /\ Size(c) = r[Len(c)]
    BY <1>1, SizeIs
  <2> QED BY <2>1 DEF Sizes
<1> HIDE DEF c, k, m
<1>6. \A i \in 0 .. k : r[i] = p[i]
  <2> DEFINE Z == {i \in Nat : i <= k /\ r[i] # p[i]}
  <2>1. SUFFICES ASSUME Z # {} PROVE FALSE
    OBVIOUS
  <2>2. PICK i \in Z : i = 0 \/ (i - 1 \in Nat /\ i - 1 \notin Z)
    <3>1. Z \in SUBSET Nat
      OBVIOUS
    <3> HIDE DEF Z
    <3> QED BY <2>1, <3>1, SmallestOf
  <2>3. i - 1 \in Nat /\ i - 1 \notin Z
    BY <1>3, <1>5, <2>2
  <2>4. r[i - 1] = p[i - 1] /\ i \in 1 .. k /\ i \in 1 .. Len(c)
    BY <1>1, <2>3
  <2>5. r[i] = r[i - 1] + c[i].n /\ p[i] = p[i - 1] + a[i].n /\ c[i] = a[i]
    BY <1>2, <1>3, <1>5, <2>4
  <2> QED BY <2>4, <2>5
<1>7. \A i \in 0 .. m : r[k + i] = p[k] + q[i]
  <2> DEFINE Z == {i \in Nat : i <= m /\ r[k + i] # p[k] + q[i]}
  <2>1. SUFFICES ASSUME Z # {} PROVE FALSE
    OBVIOUS
  <2>2. PICK i \in Z : i = 0 \/ (i - 1 \in Nat /\ i - 1 \notin Z)
    <3>1. Z \in SUBSET Nat
      OBVIOUS
    <3> HIDE DEF Z
    <3> QED BY <2>1, <3>1, SmallestOf
  <2>3. i - 1 \in Nat /\ i - 1 \notin Z
    <3>1. r[k + 0] = p[k] + q[0]
      <4>1. k + 0 = k /\ k \in 0 .. k /\ p[k] \in Nat
        BY <1>1
      <4> QED BY <1>4, <1>6, <4>1
    <3> QED BY <2>2, <3>1
  <2>4. /\ r[k + (i - 1)] = p[k] + q[i - 1] /\ i \in 1 .. m /\ k + i \in 1 .. Len(c)
        /\ i - 1 \in 0 .. m /\ (k + i) - 1 = k + (i - 1) /\ k \in 0 .. k
    BY <1>1, <2>3
  <2>5. r[k + i] = r[k + (i - 1)] + c[k + i].n /\ q[i] = q[i - 1] + b[i].n /\ c[k + i] = b[i]
    BY <1>2, <1>4, <1>5, <2>4
  <2>6. b[i].n \in Nat
    BY <2>4, ChunkFacts DEF m
  <2>7. q[i - 1] \in Nat /\ p[k] \in Nat
    BY <2>4
  <2>8. r[k + i] = p[k] + q[i]
    <3>1. PICK w : w = b[i].n
      OBVIOUS
    <3>2. w \in Nat /\ r[k + i] = r[k + (i - 1)] + w /\ q[i] = q[i - 1] + w
      BY <2>5, <2>6, <3>1
    <3> QED BY <2>4, <2>7, <3>2
  <2> QED BY <2>8
<1>8. k \in 0 .. k /\ m \in 0 .. m
  BY <1>1
<1> QED BY <1>1, <1>3, <1>4, <1>5, <1>7, <1>8 DEF c

\* One chunk.
LEMMA OneChunk ==
    ASSUME NEW T, NEW V, NEW c \in ChunksOf(T, V)
    PROVE  <<c>> \in Buffers(T, V) /\ Size(<<c>>) = c.n
<1>1. <<c>> \in Buffers(T, V) /\ Len(<<c>>) = 1 /\ <<c>>[1] = c
  BY DEF Buffers
<1>2. PICK s : s = <<c>>
  OBVIOUS
<1>3. PICK p : Sizes(p, s) /\ Size(s) = p[Len(s)]
  BY <1>1, <1>2, SizeIs
<1>4. p[0] = 0 /\ p[1] = p[0] + c.n /\ Size(s) = p[1]
  BY <1>1, <1>2, <1>3 DEF Sizes
<1>5. c.n \in Nat
  BY DEF ChunksOf
<1> QED BY <1>1, <1>2, <1>4, <1>5

\* The first chunk of a buffer.
LEMMA FirstChunk ==
    ASSUME NEW T, NEW V, NEW c \in ChunksOf(T, V), NEW rest \in Buffers(T, V)
    PROVE  /\ <<c>> \o rest \in Buffers(T, V)
           /\ <<c>> \o rest # <<>>
           /\ Head(<<c>> \o rest) = c /\ Tail(<<c>> \o rest) = rest
           /\ Size(rest) \in Nat /\ Size(<<c>> \o rest) = c.n + Size(rest)
<1>1. <<c>> \in Buffers(T, V) /\ Size(<<c>>) = c.n
  BY OneChunk
<1>2. /\ <<c>> \o rest \in Buffers(T, V) /\ Size(rest) \in Nat
      /\ Size(<<c>> \o rest) = c.n + Size(rest)
  BY <1>1, SizeConcat
<1>3. /\ <<c>> \o rest # <<>>
      /\ Head(<<c>> \o rest) = c /\ Tail(<<c>> \o rest) = rest
  BY DEF Buffers
<1> QED BY <1>2, <1>3

\* A buffer that is not empty has bytes.
LEMMA HasBytes ==
    ASSUME NEW T, NEW V, NEW buf \in Buffers(T, V), buf # <<>>
    PROVE  Size(buf) \in Nat \ {0}
<1>1. /\ buf = <<Head(buf)>> \o Tail(buf) /\ Head(buf) \in ChunksOf(T, V)
      /\ Tail(buf) \in Buffers(T, V)
  BY DEF Buffers
<1>2. PICK first \in ChunksOf(T, V), others \in Buffers(T, V) : buf = <<first>> \o others
  BY <1>1
<1>3. Size(buf) = first.n + Size(others) /\ Size(others) \in Nat
  BY <1>2, FirstChunk
<1>4. first.n \in Nat \ {0}
  BY DEF ChunksOf
<1> QED BY <1>3, <1>4

\* The empty buffer.
LEMMA NoChunk ==
    ASSUME NEW T, NEW V
    PROVE  <<>> \in Buffers(T, V) /\ Size(<<>>) = 0
<1>1. <<>> \in Buffers(T, V) /\ Len(<<>>) = 0
  BY DEF Buffers
<1>2. PICK s : s = <<>>
  OBVIOUS
<1>3. PICK p : Sizes(p, s) /\ Size(s) = p[Len(s)]
  BY <1>1, <1>2, SizeIs
<1> QED BY <1>1, <1>2, <1>3 DEF Sizes

-----------------------------------------------------------------------------
(* Reads.                                                                  *)

\* What a get_ returns when it succeeds.
Read(v, rest) == [out |-> "ok", v |-> v, rest |-> rest]

\* A read of the field and the size that come first succeeds.
LEMMA TakeFirst ==
    ASSUME NEW T, NEW V, NEW c \in ChunksOf(T, V), NEW rest \in Buffers(T, V)
    PROVE  Take(<<c>> \o rest, c.t, c.n) = Read(c.v, rest)
<1> DEFINE buf == <<c>> \o rest
<1>1. /\ Head(buf) = c /\ Tail(buf) = rest
      /\ Size(rest) \in Nat /\ Size(buf) = c.n + Size(rest)
  BY FirstChunk
<1>2. c.n \in Nat \ {0}
  BY DEF ChunksOf
<1> HIDE DEF buf
<1>3. PICK n, k : n = c.n /\ k = Size(rest)
  OBVIOUS
<1>4. ~(Size(buf) < n) /\ n # 0
  BY <1>1, <1>2, <1>3
<1>5. Take(buf, c.t, n) = Read(c.v, rest)
  BY <1>1, <1>3, <1>4 DEF Take, Read
<1> QED BY <1>3, <1>5 DEF buf

\* A read of nothing succeeds.
LEMMA TakeNothing ==
    ASSUME NEW T, NEW V, NEW buf \in Buffers(T, V), NEW t
    PROVE  Take(buf, t, 0) = Read(0, buf)
<1>1. ~(Size(buf) < 0)
  <2>1. Size(<<>> \o buf) \in Nat /\ Size(buf) \in Nat
    BY NoChunk, SizeConcat
  <2> QED BY <2>1
<1> QED BY <1>1 DEF Take, Read

\* A read of more than there is fails.
LEMMA TakeShort ==
    ASSUME NEW buf, NEW t, NEW n, Size(buf) < n
    PROVE  Take(buf, t, n).out = "underflow"
  BY DEF Take

\* Padding fills up the last word.
LEMMA PadFacts ==
    ASSUME NEW n \in Nat
    PROVE  Pad(n) \in 0 .. 3 /\ (n + Pad(n)) % 4 = 0
<1>1. n % 4 \in 0 .. 3
  OBVIOUS
<1>2. CASE n % 4 = 0
  <2>1. Pad(n) = 0
    BY <1>2 DEF Pad
  <2> QED BY <1>2, <2>1
<1>3. CASE n % 4 = 1
  <2>1. Pad(n) = 3 /\ (n + 3) % 4 = 0
    BY <1>3 DEF Pad
  <2> QED BY <2>1
<1>4. CASE n % 4 = 2
  <2>1. Pad(n) = 2 /\ (n + 2) % 4 = 0
    BY <1>4 DEF Pad
  <2> QED BY <2>1
<1>5. CASE n % 4 = 3
  <2>1. Pad(n) = 1 /\ (n + 1) % 4 = 0
    BY <1>5 DEF Pad
  <2> QED BY <2>1
<1> QED BY <1>1, <1>2, <1>3, <1>4, <1>5

\* A number of bytes of one field is a buffer of that size, and is read back.
LEMMA BytesFacts ==
    ASSUME NEW T, NEW V, 0 \in V, NEW t \in T, NEW n \in Nat, NEW rest \in Buffers(T, V)
    PROVE  /\ Bytes(t, n) \in Buffers(T, V) /\ Size(Bytes(t, n)) = n
           /\ Take(Bytes(t, n) \o rest, t, n) = Read(0, rest)
<1>1. CASE n = 0
  <2>1. Bytes(t, n) = <<>> /\ <<>> \o rest = rest
    BY <1>1 DEF Bytes, Buffers
  <2> QED BY <1>1, <2>1, NoChunk, TakeNothing
<1>2. CASE n # 0
  <2> DEFINE c == [t |-> t, n |-> n, v |-> 0]
  <2>1. c \in ChunksOf(T, V) /\ Bytes(t, n) = <<c>> /\ c.t = t /\ c.n = n /\ c.v = 0
    BY <1>2 DEF Bytes, ChunksOf
  <2> HIDE DEF c
  <2>3. <<c>> \in Buffers(T, V) /\ Size(<<c>>) = n
    BY <2>1, OneChunk
  <2>4. Take(<<c>> \o rest, t, n) = Read(0, rest)
    BY <2>1, TakeFirst
  <2> QED BY <2>1, <2>3, <2>4
<1> QED BY <1>1, <1>2

\* put_uint32 and get_uint32.
LEMMA WordFacts ==
    ASSUME NEW T, NEW V, NEW v \in V, NEW t \in T, NEW rest \in Buffers(T, V)
    PROVE  /\ put_uint32(t, v) \in Buffers(T, V) /\ Size(put_uint32(t, v)) = 4
           /\ put_uint32(t, v) \o rest \in Buffers(T, V)
           /\ get_uint32(put_uint32(t, v) \o rest, t) = Read(v, rest)
<1> DEFINE c == [t |-> t, n |-> 4, v |-> v]
<1>1. c \in ChunksOf(T, V) /\ put_uint32(t, v) = <<c>> /\ c.t = t /\ c.n = 4 /\ c.v = v
  BY DEF put_uint32, ChunksOf
<1> HIDE DEF c
<1>2. <<c>> \in Buffers(T, V) /\ Size(<<c>>) = 4 /\ <<c>> \o rest \in Buffers(T, V)
  BY <1>1, OneChunk, FirstChunk
<1>3. Take(<<c>> \o rest, c.t, c.n) = Read(c.v, rest)
  BY <1>1, TakeFirst
<1> QED BY <1>1, <1>2, <1>3 DEF get_uint32

\* A buffer is one of more fields and more values.
LEMMA MoreValues ==
    ASSUME NEW T, NEW V, NEW U, NEW W, T \subseteq U, V \subseteq W
    PROVE  Buffers(T, V) \subseteq Buffers(U, W)
<1>1. ChunksOf(T, V) \subseteq ChunksOf(U, W)
  BY DEF ChunksOf
<1> QED BY <1>1 DEF Buffers

\* The two parts of a fixed opaque.
LEMMA FixedFacts ==
    ASSUME NEW T, NEW V, "pad" \in T, 0 \in V, NEW t \in T, NEW n \in Nat,
           NEW rest \in Buffers(T, V)
    PROVE  /\ put_fixed_opaque(t, n) \in Buffers(T, V)
           /\ Size(put_fixed_opaque(t, n)) = n + Pad(n)
           /\ get_fixed_opaque(put_fixed_opaque(t, n) \o rest, t, n) = Read(0, rest)
<1> DEFINE a == Bytes(t, n)
           b == Bytes("pad", Pad(n))
<1>1. Pad(n) \in Nat
  <2>1. Pad(n) \in 0 .. 3
    BY PadFacts
  <2> QED BY <2>1
<1>2. b \in Buffers(T, V) /\ Size(b) = Pad(n) /\ Take(b \o rest, "pad", Pad(n)) = Read(0, rest)
  BY <1>1, BytesFacts
<1>3. a \in Buffers(T, V) /\ Size(a) = n /\ b \o rest \in Buffers(T, V)
  BY <1>2, BytesFacts, SizeConcat
<1>4. Take(a \o (b \o rest), t, n) = Read(0, b \o rest)
  BY <1>3, BytesFacts
<1> HIDE DEF a, b
<1>5. (a \o b) \o rest = a \o (b \o rest)
  BY <1>2, <1>3 DEF Buffers
<1>6. get_fixed_opaque(a \o (b \o rest), t, n) = [Read(0, rest) EXCEPT !.v = 0]
  BY <1>2, <1>4 DEF get_fixed_opaque, Read
<1>7. a \o b \in Buffers(T, V) /\ Size(a \o b) = n + Pad(n)
  BY <1>2, <1>3, SizeConcat
<1>8. [Read(0, rest) EXCEPT !.v = 0] = Read(0, rest)
  BY DEF Read
<1> QED BY <1>5, <1>6, <1>7, <1>8 DEF put_fixed_opaque, a, b

\* A length and a fixed opaque.
LEMMA OpaqueFacts ==
    ASSUME NEW T, NEW V, "len" \in T, "pad" \in T, 0 \in V,
           NEW t \in T, NEW n \in Nat, n \in V, NEW rest \in Buffers(T, V)
    PROVE  /\ put_opaque(t, n) \in Buffers(T, V)
           /\ Size(put_opaque(t, n)) = 4 + n + Pad(n)
           /\ get_opaque(put_opaque(t, n) \o rest, t) = Read(0, rest)
<1> DEFINE a == put_uint32("len", n)
           b == put_fixed_opaque(t, n)
<1>1. /\ b \in Buffers(T, V) /\ Size(b) = n + Pad(n)
      /\ get_fixed_opaque(b \o rest, t, n) = Read(0, rest)
  BY FixedFacts
<1>2. b \o rest \in Buffers(T, V)
  BY <1>1, SizeConcat
<1>3. a \in Buffers(T, V) /\ Size(a) = 4 /\ get_uint32(a \o (b \o rest), "len") = Read(n, b \o rest)
  BY <1>2, WordFacts
<1> HIDE DEF a, b
<1>4. (a \o b) \o rest = a \o (b \o rest)
  BY <1>1, <1>3 DEF Buffers
<1>5. get_opaque(a \o (b \o rest), t) = Read(0, rest)
  <2>1. PICK buf, tail : buf = a \o (b \o rest) /\ tail = b \o rest
    OBVIOUS
  <2>2. get_uint32(buf, "len") = Read(n, tail) /\ get_fixed_opaque(tail, t, n) = Read(0, rest)
    BY <1>1, <1>3, <2>1
  <2>3. get_opaque(buf, t) = get_fixed_opaque(tail, t, n)
    BY <2>2 DEF get_opaque, Read
  <2> QED BY <2>1, <2>2, <2>3
<1>6. a \o b \in Buffers(T, V) /\ Size(a \o b) = 4 + (n + Pad(n))
  BY <1>1, <1>3, SizeConcat
<1>7. Pad(n) \in 0 .. 3
  BY PadFacts
<1>8. put_opaque(t, n) = a \o b
  BY DEF put_opaque, a, b
<1>9. 4 + (n + Pad(n)) = 4 + n + Pad(n)
  BY <1>7
<1> QED BY <1>4, <1>5, <1>6, <1>8, <1>9

\* get_opaque and get_string give back what put_opaque put, whatever its length, and leave
\* the decoder at the first byte behind its padding.
THEOREM OpaqueRoundTrip ==
    ASSUME NEW T, NEW V, NEW t, NEW n \in Nat, NEW rest \in Buffers(T, V)
    PROVE  get_opaque(put_opaque(t, n) \o rest, t) = Read(0, rest)
<1> DEFINE U == T \cup {"len", "pad", t}
           W == V \cup {0, n}
<1>1. /\ "len" \in U /\ "pad" \in U /\ t \in U /\ 0 \in W /\ n \in W
      /\ T \subseteq U /\ V \subseteq W
  OBVIOUS
<1> HIDE DEF U, W
<1>2. rest \in Buffers(U, W)
  BY <1>1, MoreValues
<1> QED BY <1>1, <1>2, OpaqueFacts

\* put_opaque always puts a whole number of words.
THEOREM OpaqueAligned ==
    ASSUME NEW t, NEW n \in Nat
    PROVE  Size(put_opaque(t, n)) = 4 + n + Pad(n) /\ Size(put_opaque(t, n)) % 4 = 0
<1> DEFINE U == {"len", "pad", t}
           W == {0, n}
<1>1. "len" \in U /\ "pad" \in U /\ t \in U /\ 0 \in W /\ n \in W
  OBVIOUS
<1> HIDE DEF U, W
<1>2. <<>> \in Buffers(U, W)
  BY NoChunk
<1>3. Size(put_opaque(t, n)) = 4 + n + Pad(n)
  BY <1>1, <1>2, OpaqueFacts
<1>4. Pad(n) \in 0 .. 3 /\ (n + Pad(n)) % 4 = 0
  BY PadFacts
<1>5. (4 + n + Pad(n)) % 4 = 0
  <2>1. PICK p : p = Pad(n)
    OBVIOUS
  <2>2. p \in 0 .. 3 /\ (n + p) % 4 = 0
    BY <1>4, <2>1
  <2>3. (4 + n + p) % 4 = 0
    BY <2>2
  <2> QED BY <2>1, <2>3
<1> QED BY <1>3, <1>5

\* The first k bytes behind the length of an opaque of n bytes.
CutBody(t, n, k) == IF k < n THEN Bytes(t, k) ELSE Bytes(t, n) \o Bytes("pad", k - n)

\* An opaque that lost any number of its bytes, even of its padding only, is noticed.
THEOREM OpaqueCut ==
    ASSUME NEW t, NEW n \in Nat, NEW k \in Nat, k < n + Pad(n)
    PROVE  get_opaque(put_uint32("len", n) \o CutBody(t, n, k), t).out = "underflow"
<1> DEFINE U == {"len", "pad", t}
           W == {0, n}
           body == CutBody(t, n, k)
<1>1. "len" \in U /\ "pad" \in U /\ t \in U /\ 0 \in W /\ n \in W
  OBVIOUS
<1> HIDE DEF U, W
<1>2. <<>> \in Buffers(U, W)
  BY NoChunk
<1>3. Pad(n) \in 0 .. 3
  BY PadFacts
<1>4. body \in Buffers(U, W) /\ get_fixed_opaque(body, t, n).out = "underflow"
  <2>1. CASE k < n
    <3>1. body = Bytes(t, k) /\ body \in Buffers(U, W) /\ Size(body) = k
      BY <1>1, <1>2, <2>1, BytesFacts DEF CutBody
    <3> HIDE DEF body
    <3>2. Take(body, t, n).out = "underflow"
      BY <2>1, <3>1, TakeShort
    <3>3. get_fixed_opaque(body, t, n).out = "underflow"
      BY <3>2 DEF get_fixed_opaque
    <3> QED BY <3>1, <3>3
  <2>2. CASE k >= n
    <3> DEFINE a == Bytes(t, n)
               b == Bytes("pad", k - n)
    <3>1. body = a \o b /\ k - n \in Nat /\ k - n < Pad(n)
      BY <1>3, <2>2 DEF CutBody
    <3>2. b \in Buffers(U, W) /\ Size(b) = k - n
      BY <1>1, <1>2, <3>1, BytesFacts
    <3>3. a \in Buffers(U, W) /\ Take(a \o b, t, n) = Read(0, b)
      BY <1>1, <3>2, BytesFacts
    <3>4. a \o b \in Buffers(U, W)
      BY <3>2, <3>3, SizeConcat
    <3> HIDE DEF a, b, body
    <3>5. Size(b) < Pad(n)
      BY <3>1, <3>2
    <3>6. Take(b, "pad", Pad(n)) = [out |-> "underflow", v |-> 0, rest |-> b]
      BY <3>5 DEF Take
    <3>7. get_fixed_opaque(a \o b, t, n) = [out |-> "underflow", v |-> 0, rest |-> b]
      BY <3>3, <3>6 DEF get_fixed_opaque, Read
    <3> QED BY <3>1, <3>4, <3>7
  <2> QED BY <2>1, <2>2
<1> HIDE DEF body
<1>5. get_uint32(put_uint32("len", n) \o body, "len") = Read(n, body)
  BY <1>1, <1>4, WordFacts
<1>6. get_opaque(put_uint32("len", n) \o body, t) = get_fixed_opaque(body, t, n)
  BY <1>5 DEF get_opaque, Read
<1> QED BY <1>4, <1>6 DEF body

\* The attributes of a fattr4, put by an encoder of their own, come back as they were put.
THEOREM NestedRoundTrip ==
    ASSUME NEW T, NEW V, NEW t, NEW body \in Buffers(T, V), Size(body) % 4 = 0,
           NEW rest \in Buffers(T, V)
    PROVE  get_opaque(put_nested(t, body) \o rest, t) =
               Read(IF body = <<>> THEN 0 ELSE body, rest)
<1> DEFINE n == Size(body)
           U == T \cup {"len", "pad", t}
           W == V \cup {0, n, body}
           word == put_uint32("len", n)
<1>1. /\ "len" \in U /\ "pad" \in U /\ t \in U /\ 0 \in W /\ n \in W /\ body \in W
      /\ T \subseteq U /\ V \subseteq W
  OBVIOUS
<1>2. n \in Nat
  BY SizeConcat
<1>3. Pad(n) = 0
  <2> HIDE DEF n
  <2>1. n % 4 = 0
    BY DEF n
  <2> QED BY <1>2, <2>1 DEF Pad
<1> HIDE DEF U, W, n
<1>4. rest \in Buffers(U, W)
  BY <1>1, MoreValues
<1>5. CASE body = <<>>
  <2>1. n = 0
    BY <1>5, NoChunk DEF n
  <2>2. put_nested(t, body) = word
    <3>1. put_nested(t, body) = word \o <<>>
      BY <1>5 DEF put_nested, n
    <3> QED BY <3>1 DEF put_uint32
  <2>3. get_uint32(word \o rest, "len") = Read(0, rest)
    BY <1>1, <1>4, <2>1, WordFacts
  <2>4. Take(rest, t, 0) = Read(0, rest) /\ Take(rest, "pad", 0) = Read(0, rest)
    BY <1>4, TakeNothing
  <2>5. get_fixed_opaque(rest, t, 0) = Read(0, rest)
    BY <1>3, <2>1, <2>4 DEF get_fixed_opaque, Read
  <2>6. get_opaque(word \o rest, t) = Read(0, rest)
    <3> HIDE DEF word
    <3> QED BY <2>3, <2>5 DEF get_opaque, Read
  <2> QED BY <1>5, <2>2, <2>6
<1>6. CASE body # <<>>
  <2> DEFINE c == [t |-> t, n |-> n, v |-> body]
             tail == <<c>> \o rest
  <2>1. n > 0
    <3>1. n \in Nat \ {0}
      BY <1>6, HasBytes DEF n
    <3> QED BY <3>1
  <2>2. c \in ChunksOf(U, W) /\ c.t = t /\ c.n = n /\ c.v = body
    BY <1>1, <1>2, <2>1 DEF ChunksOf
  <2> HIDE DEF c
  <2>3. tail \in Buffers(U, W) /\ Take(tail, t, n) = Read(body, rest)
    BY <1>4, <2>2, FirstChunk, TakeFirst
  <2>4. get_uint32(word \o tail, "len") = Read(n, tail)
    BY <1>1, <2>3, WordFacts
  <2>5. put_nested(t, body) \o rest = word \o tail
    <3>1. put_nested(t, body) = word \o <<c>>
      BY <1>6 DEF put_nested, n, c
    <3>2. word \in Buffers(U, W) /\ <<c>> \in Buffers(U, W)
      BY <1>1, <1>4, <2>2, WordFacts, OneChunk
    <3> HIDE DEF word
    <3>3. (word \o <<c>>) \o rest = word \o (<<c>> \o rest)
      BY <1>4, <3>2 DEF Buffers
    <3> QED BY <3>1, <3>3
  <2> HIDE DEF tail, word
  <2>6. Take(rest, "pad", 0) = Read(0, rest)
    BY <1>4, TakeNothing
  <2>7. get_fixed_opaque(tail, t, n) = Read(body, rest)
    BY <1>3, <2>3, <2>6 DEF get_fixed_opaque, Read
  <2>8. get_opaque(word \o tail, t) = Read(body, rest)
    BY <2>4, <2>7 DEF get_opaque, Read
  <2> QED BY <1>6, <2>5, <2>8
<1> QED BY <1>5, <1>6

-----------------------------------------------------------------------------
(* Runs of words.                                                          *)

\* One read of get_words, and what it goes through.
WordStep(r, t) ==
    IF r.out # "ok" THEN r
    ELSE LET w == get_uint32(r.rest, t) IN [w EXCEPT !.v = Append(r.v, w.v)]
Results(T, V) ==
    [out : {"ok", "underflow", "misread"}, v : Seq(V), rest : Buffers(T, V)]

\* What get_words has read after each of the fields ts.
Run(p, T, V, buf, ts) ==
    /\ p \in [0 .. Len(ts) -> Results(T, V)]
    /\ p[0] = Read(<<>>, buf)
    /\ \A i \in 1 .. Len(ts) : p[i] = WordStep(p[i - 1], ts[i])

\* What get_uint32 returns.
LEMMA WordType ==
    ASSUME NEW T, NEW V, 0 \in V, NEW buf \in Buffers(T, V), NEW t
    PROVE  get_uint32(buf, t) \in
               [out : {"ok", "underflow", "misread"}, v : V, rest : Buffers(T, V)]
<1>1. CASE Size(buf) < 4
  <2>1. get_uint32(buf, t) = [out |-> "underflow", v |-> 0, rest |-> buf]
    BY <1>1 DEF get_uint32, Take
  <2> QED BY <2>1
<1>2. CASE ~(Size(buf) < 4)
  <2>1. buf # <<>>
    BY <1>2, NoChunk
  <2>2. Head(buf) \in ChunksOf(T, V) /\ Tail(buf) \in Buffers(T, V)
    BY <2>1 DEF Buffers
  <2>3. Head(buf).v \in V
    BY <2>2 DEF ChunksOf
  <2>4. \/ get_uint32(buf, t) = [out |-> "misread", v |-> 0, rest |-> buf]
        \/ get_uint32(buf, t) = [out |-> "ok", v |-> Head(buf).v, rest |-> Tail(buf)]
    BY <1>2 DEF get_uint32, Take
  <2>5. CASE get_uint32(buf, t) = [out |-> "misread", v |-> 0, rest |-> buf]
    BY <2>5
  <2>6. CASE get_uint32(buf, t) = [out |-> "ok", v |-> Head(buf).v, rest |-> Tail(buf)]
    <3>1. PICK x \in V, y \in Buffers(T, V) : x = Head(buf).v /\ y = Tail(buf)
      BY <2>2, <2>3
    <3>2. get_uint32(buf, t) = [out |-> "ok", v |-> x, rest |-> y]
      BY <2>6, <3>1
    <3> QED BY <3>2
  <2> QED BY <2>4, <2>5, <2>6
<1> QED BY <1>1, <1>2

LEMMA StepType ==
    ASSUME NEW T, NEW V, 0 \in V, NEW r \in Results(T, V), NEW t
    PROVE  WordStep(r, t) \in Results(T, V)
<1>1. CASE r.out # "ok"
  BY <1>1 DEF WordStep
<1>2. CASE r.out = "ok"
  <2> DEFINE w == get_uint32(r.rest, t)
  <2>1. r.rest \in Buffers(T, V) /\ r.v \in Seq(V)
    BY DEF Results
  <2>2. w \in [out : {"ok", "underflow", "misread"}, v : V, rest : Buffers(T, V)]
    BY <2>1, WordType
  <2> HIDE DEF w
  <2>3. Append(r.v, w.v) \in Seq(V)
    <3>1. w.v \in V
      BY <2>2
    <3> QED BY <2>1, <3>1
  <2>4. [w EXCEPT !.v = Append(r.v, w.v)] \in Results(T, V)
    BY <2>2, <2>3 DEF Results
  <2> QED BY <1>2, <2>4 DEF WordStep, w
<1> QED BY <1>1, <1>2

\* get_words is one step for each field.
LEMMA WordsAre ==
    ASSUME NEW T, NEW V, 0 \in V, NEW buf \in Buffers(T, V), NEW N, NEW ts \in Seq(N)
    PROVE  \E p : Run(p, T, V, buf, ts) /\ get_words(buf, ts) = p[Len(ts)]
<1> DEFINE m   == Len(ts)
           Res == Results(T, V)
           b   == Read(<<>>, buf)
           Sub == SUBSET (1 .. m)
           st  == [x \in Res \X (1 .. m) |-> WordStep(x[1], ts[x[2]])]
           Def(g, u) == IF u = {} THEN b ELSE WordStep(g[u \ {Max(u)}], ts[Max(u)])
           it  == CHOOSE g : g = [u \in Sub |-> Def(g, u)]
<1>1. m \in Nat /\ DOMAIN ts = 1 .. m
  OBVIOUS
<1>2. b \in Res
  BY DEF Results, Read
<1>3. \A r \in Res, i \in 1 .. m : WordStep(r, ts[i]) \in Res
  BY StepType
<1>4. st \in Steps(Res, m)
  <2> HIDE DEF Res, m
  <2> QED BY <1>3 DEF Steps
<1>5. PICK h : Folds(h, st, b, Res, m)
  <2> HIDE DEF st, m, b, Res
  <2> QED BY <1>1, <1>2, <1>4, FoldExists
<1> HIDE DEF Res
<1>6. h = [u \in Sub |-> Def(h, u)]
  <2>1. ASSUME NEW u \in Sub PROVE h[u] = Def(h, u)
    <3>1. CASE u = {}
      BY <1>5, <3>1 DEF Folds
    <3>2. CASE u # {}
      <4>1. Max(u) \in 1 .. m /\ u \ {Max(u)} \in Sub
        <5> HIDE DEF m
        <5> QED BY <1>1, <3>2, MaxFacts
      <4>2. h[u \ {Max(u)}] \in Res
        BY <1>5, <4>1 DEF Folds
      <4>3. h[u] = st[<<h[u \ {Max(u)}], Max(u)>>]
        <5> HIDE DEF st, b
        <5> QED BY <1>5, <3>2 DEF Folds
      <4>4. PICK y, z : y = h[u \ {Max(u)}] /\ z = Max(u)
        OBVIOUS
      <4>5. st[<<y, z>>] = WordStep(y, ts[z])
        <5> HIDE DEF m
        <5> QED BY <4>1, <4>2, <4>4
      <4> HIDE DEF st, b
      <4> QED BY <3>2, <4>3, <4>4, <4>5
    <3> QED BY <3>1, <3>2
  <2>2. h \in [Sub -> Res]
    BY <1>5 DEF Folds
  <2> HIDE DEF Def, Sub
  <2> QED BY <2>1, <2>2
<1>7. it = [u \in Sub |-> Def(it, u)]
  <2> HIDE DEF Def, Sub
  <2> QED BY <1>6
<1>8. get_words(buf, ts) = it[1 .. m]
  BY <1>1 DEF get_words, FoldLeft, MapThenFoldSet, WordStep, Read
<1> HIDE DEF it
<1>9. ASSUME NEW u \in Sub PROVE it[u] = Def(it, u)
  <2> HIDE DEF Def, Sub
  <2> QED BY <1>7
<1> DEFINE p == [i \in 0 .. m |-> it[1 .. i]]
<1> HIDE DEF b
<1>10. p[0] = b
  <2>1. 1 .. 0 = {} /\ {} \in Sub
    OBVIOUS
  <2>2. it[{}] = b
    BY <1>9, <2>1
  <2> QED BY <1>1, <2>1, <2>2
<1>11. ASSUME NEW i \in 1 .. m PROVE p[i] = WordStep(p[i - 1], ts[i])
  <2>1. /\ i \in Nat \ {0} /\ 1 .. i \in Sub /\ i - 1 \in 0 .. m /\ i \in 0 .. m
    BY <1>1
  <2>2. Max(1 .. i) = i /\ (1 .. i) \ {i} = 1 .. (i - 1) /\ 1 .. i # {}
    BY <2>1, LastTaken
  <2>3. PICK u : u = 1 .. i
    OBVIOUS
  <2>4. it[u] = Def(it, u)
    BY <1>9, <2>1, <2>3
  <2>5. it[u] = WordStep(it[1 .. (i - 1)], ts[i])
    BY <2>2, <2>3, <2>4
  <2> HIDE DEF m
  <2> QED BY <2>1, <2>3, <2>5
<1>12. \A i \in 0 .. m : p[i] \in Res
  <2> DEFINE Z == {i \in Nat : i <= m /\ p[i] \notin Res}
  <2> HIDE DEF p
  <2>1. SUFFICES ASSUME Z # {} PROVE FALSE
    OBVIOUS
  <2>2. PICK i \in Z : i = 0 \/ (i - 1 \in Nat /\ i - 1 \notin Z)
    <3>1. Z \in SUBSET Nat
      OBVIOUS
    <3> HIDE DEF Z
    <3> QED BY <2>1, <3>1, SmallestOf
  <2>3. i - 1 \in Nat /\ i - 1 \notin Z
    BY <1>2, <1>10, <2>2
  <2>4. p[i - 1] \in Res /\ i \in 1 .. m
    BY <1>1, <2>3
  <2> QED BY <1>3, <1>11, <2>4
<1>13. p[m] = get_words(buf, ts)
  BY <1>1, <1>8
<1> HIDE DEF m
<1>14. p \in [0 .. m -> Res]
  BY <1>12
<1> HIDE DEF p
<1> QED BY <1>10, <1>11, <1>13, <1>14 DEF m, Res, b, Run

\* The words vs as the fields ts, one chunk each.
WordChunks(ts, vs) == [j \in 1 .. Len(vs) |-> [t |-> ts[j], n |-> 4, v |-> vs[j]]]

\* They are what put_uint32 puts, one after the other.
LEMMA ChunksPut ==
    ASSUME NEW T, NEW V, NEW ts \in Seq(T), NEW vs \in Seq(V), Len(vs) <= Len(ts)
    PROVE  /\ WordChunks(ts, vs) \in Buffers(T, V)
           /\ Len(WordChunks(ts, vs)) = Len(vs)
           /\ \A j \in 1 .. Len(vs) : put_uint32(ts[j], vs[j]) = <<WordChunks(ts, vs)[j]>>
<1>1. \A j \in 1 .. Len(vs) : [t |-> ts[j], n |-> 4, v |-> vs[j]] \in ChunksOf(T, V)
  <2>1. ASSUME NEW j \in 1 .. Len(vs) PROVE ts[j] \in T /\ vs[j] \in V
    OBVIOUS
  <2> QED BY <2>1 DEF ChunksOf
<1>2. Len(vs) \in Nat
  OBVIOUS
<1>3. WordChunks(ts, vs) \in Seq(ChunksOf(T, V)) /\ Len(WordChunks(ts, vs)) = Len(vs)
  BY <1>1, <1>2 DEF WordChunks
<1> QED BY <1>3 DEF Buffers, WordChunks, put_uint32

\* Reading a run of words that starts with these goes through them one by one.
LEMMA WordsPrefix ==
    ASSUME NEW T, NEW V, 0 \in V, NEW ts \in Seq(T), NEW vs \in Seq(V), Len(vs) <= Len(ts),
           NEW rest \in Buffers(T, V),
           NEW p, Run(p, T, V, WordChunks(ts, vs) \o rest, ts)
    PROVE  p[Len(vs)] = Read(vs, rest)
<1> DEFINE msg == WordChunks(ts, vs)
           buf == msg \o rest
           k   == Len(vs)
           m   == Len(ts)
           L   == Len(buf)
           At(i) == Read(SubSeq(vs, 1, i), SubSeq(buf, i + 1, L))
           Z   == {i \in Nat : i <= k /\ p[i] # At(i)}
<1>0. /\ p[0] = Read(<<>>, buf)
      /\ \A i \in 1 .. Len(ts) : p[i] = WordStep(p[i - 1], ts[i])
  BY DEF Run
<1>1. k \in Nat /\ m \in Nat /\ k <= m
  OBVIOUS
<1>2. msg \in Buffers(T, V) /\ Len(msg) = k
  BY ChunksPut
<1>3. \A j \in 1 .. k : msg[j] = [t |-> ts[j], n |-> 4, v |-> vs[j]]
  BY DEF WordChunks
<1> HIDE DEF msg
<1>4. /\ buf \in Buffers(T, V) /\ L = k + Len(rest) /\ Len(rest) \in Nat /\ L \in Nat
      /\ \A j \in 1 .. k : buf[j] = msg[j]
  <2>1. buf \in Buffers(T, V) /\ L = k + Len(rest) /\ Len(rest) \in Nat
    <3>1. buf \in Buffers(T, V)
      BY <1>2, SizeConcat
    <3>2. L = Len(msg) + Len(rest) /\ Len(rest) \in Nat
      <4>1. msg \in Seq(ChunksOf(T, V)) /\ rest \in Seq(ChunksOf(T, V))
        BY <1>2 DEF Buffers
      <4>2. Len(msg \o rest) = Len(msg) + Len(rest)
        BY <4>1, ConcatProperties
      <4> QED BY <4>1, <4>2
    <3> QED BY <1>2, <3>1, <3>2
  <2>2. \A j \in 1 .. k : buf[j] = msg[j]
    BY <1>2 DEF Buffers
  <2> QED BY <1>1, <2>1, <2>2
<1> HIDE DEF buf
<1>5. At(0) = p[0]
  <2>1. SubSeq(vs, 1, 0) = <<>> /\ SubSeq(buf, 1, L) = buf
    BY <1>4 DEF Buffers
  <2>2. 0 + 1 = 1
    OBVIOUS
  <2> QED BY <1>0, <2>1, <2>2
<1>6. ASSUME NEW i \in 1 .. k, p[i - 1] = At(i - 1) PROVE p[i] = At(i)
  <2> DEFINE c == buf[i]
             after == SubSeq(buf, i + 1, L)
             a == SubSeq(vs, 1, i - 1)
  <2>1. c = [t |-> ts[i], n |-> 4, v |-> vs[i]] /\ vs[i] \in V
    BY <1>1, <1>3, <1>4
  <2>2. c \in ChunksOf(T, V)
    BY <1>1, <1>4 DEF Buffers
  <2>3. after \in Buffers(T, V)
    BY <1>1, <1>4 DEF Buffers
  <2>4. SubSeq(buf, i, L) = <<c>> \o after
    BY <1>1, <1>4 DEF Buffers
  <2>5. Append(a, vs[i]) = SubSeq(vs, 1, i)
    BY <1>1
  <2>6. p[i - 1] = Read(a, <<c>> \o after)
    <3>1. (i - 1) + 1 = i
      BY <1>1
    <3> QED BY <1>6, <2>4, <3>1
  <2> HIDE DEF c, after, a
  <2>7. Take(<<c>> \o after, c.t, c.n) = Read(c.v, after)
    BY <2>2, <2>3, TakeFirst
  <2>8. get_uint32(<<c>> \o after, ts[i]) = Read(vs[i], after)
    BY <2>1, <2>7 DEF get_uint32
  <2>9. WordStep(p[i - 1], ts[i]) = Read(Append(a, vs[i]), after)
    <3>1. PICK x : x = <<c>> \o after
      OBVIOUS
    <3>2. p[i - 1] = Read(a, x) /\ get_uint32(x, ts[i]) = Read(vs[i], after)
      BY <2>6, <2>8, <3>1
    <3>3. WordStep(Read(a, x), ts[i]) =
              [Read(vs[i], after) EXCEPT !.v = Append(a, Read(vs[i], after).v)]
      BY <3>2 DEF WordStep, Read
    <3>4. [Read(vs[i], after) EXCEPT !.v = Append(a, Read(vs[i], after).v)] =
              Read(Append(a, vs[i]), after)
      <4>1. PICK y, z : y = vs[i] /\ z = Append(a, vs[i])
        OBVIOUS
      <4>2. Read(y, after).v = y /\ [Read(y, after) EXCEPT !.v = z] = Read(z, after)
        BY DEF Read
      <4> QED BY <4>1, <4>2
    <3> QED BY <3>2, <3>3, <3>4
  <2>10. p[i] = WordStep(p[i - 1], ts[i])
    BY <1>0, <1>1
  <2> QED BY <2>5, <2>9, <2>10 DEF after
<1> HIDE DEF At, k
<1>7. Z = {}
  <2>1. SUFFICES ASSUME Z # {} PROVE FALSE
    OBVIOUS
  <2>2. PICK i \in Z : i = 0 \/ (i - 1 \in Nat /\ i - 1 \notin Z)
    <3>1. Z \in SUBSET Nat
      OBVIOUS
    <3> HIDE DEF Z
    <3> QED BY <2>1, <3>1, SmallestOf
  <2>3. i - 1 \in Nat /\ i - 1 \notin Z
    BY <1>5, <2>2
  <2>4. p[i - 1] = At(i - 1) /\ i \in 1 .. k
    BY <1>1, <2>3
  <2> QED BY <1>6, <2>4
<1>8. p[k] = At(k)
  BY <1>1, <1>7
<1>9. SubSeq(vs, 1, k) = vs
  BY DEF k
<1>10. SubSeq(buf, k + 1, L) = rest
  BY <1>1, <1>2, <1>4 DEF buf, Buffers
<1> QED BY <1>8, <1>9, <1>10 DEF At, k

\* get_uint32 and get_uint64 in a row give back the words that were put, however many.
THEOREM WordsRoundTrip ==
    ASSUME NEW T, NEW V, NEW ts \in Seq(T), NEW vs \in Seq(V), Len(vs) = Len(ts),
           NEW rest \in Buffers(T, V)
    PROVE  get_words(WordChunks(ts, vs) \o rest, ts) = Read(vs, rest)
<1> DEFINE W == V \cup {0}
           buf == WordChunks(ts, vs) \o rest
<1>1. 0 \in W /\ V \subseteq W
  OBVIOUS
<1> HIDE DEF W
<1>2. rest \in Buffers(T, W) /\ vs \in Seq(W)
  BY <1>1, MoreValues
<1>3. Len(vs) <= Len(ts)
  OBVIOUS
<1>4. buf \in Buffers(T, W)
  BY <1>2, <1>3, ChunksPut, SizeConcat
<1>5. PICK p : Run(p, T, W, buf, ts) /\ get_words(buf, ts) = p[Len(ts)]
  <2> HIDE DEF buf
  <2> QED BY <1>1, <1>4, WordsAre
<1>6. p[Len(vs)] = Read(vs, rest)
  BY <1>1, <1>2, <1>3, <1>5, WordsPrefix
<1> QED BY <1>5, <1>6

\* A run of words that ends too soon, within a word or between two, is noticed.
THEOREM WordsCut ==
    ASSUME NEW T, NEW V, NEW ts \in Seq(T), NEW vs \in Seq(V), Len(vs) < Len(ts),
           NEW rest \in Buffers(T, V), Size(rest) < 4
    PROVE  get_words(WordChunks(ts, vs) \o rest, ts).out = "underflow"
<1> DEFINE W == V \cup {0}
           buf == WordChunks(ts, vs) \o rest
           k == Len(vs)
           m == Len(ts)
<1>1. 0 \in W /\ V \subseteq W
  OBVIOUS
<1> HIDE DEF W
<1>2. rest \in Buffers(T, W) /\ vs \in Seq(W)
  BY <1>1, MoreValues
<1>3. k \in Nat /\ m \in Nat /\ k < m /\ k <= m
  OBVIOUS
<1>4. buf \in Buffers(T, W)
  BY <1>2, <1>3, ChunksPut, SizeConcat
<1>5. PICK p : Run(p, T, W, buf, ts) /\ get_words(buf, ts) = p[m]
  <2> HIDE DEF buf
  <2> QED BY <1>1, <1>4, WordsAre
<1>6. p[k] = Read(vs, rest)
  BY <1>1, <1>2, <1>3, <1>5, WordsPrefix
<1> HIDE DEF k, m, buf
<1>7. p[k + 1].out = "underflow"
  <2>1. k + 1 \in 1 .. m /\ (k + 1) - 1 = k
    BY <1>3
  <2>2. p[k + 1] = WordStep(Read(vs, rest), ts[k + 1])
    BY <1>5, <1>6, <2>1 DEF Run, m
  <2>3. get_uint32(rest, ts[k + 1]) = [out |-> "underflow", v |-> 0, rest |-> rest]
    BY DEF get_uint32, Take
  <2> QED BY <2>2, <2>3 DEF WordStep, Read
<1> DEFINE Z == {i \in Nat : k + 1 + i <= m /\ p[k + 1 + i].out # "underflow"}
<1>8. Z = {}
  <2>1. SUFFICES ASSUME Z # {} PROVE FALSE
    OBVIOUS
  <2>2. PICK i \in Z : i = 0 \/ (i - 1 \in Nat /\ i - 1 \notin Z)
    <3>1. Z \in SUBSET Nat
      OBVIOUS
    <3> HIDE DEF Z
    <3> QED BY <2>1, <3>1, SmallestOf
  <2>3. i - 1 \in Nat /\ i - 1 \notin Z
    <3>1. k + 1 + 0 = k + 1
      BY <1>3
    <3> QED BY <1>7, <2>2, <3>1
  <2>4. /\ p[k + 1 + (i - 1)].out = "underflow"
        /\ k + 1 + i \in 1 .. m /\ (k + 1 + i) - 1 = k + 1 + (i - 1)
    BY <1>3, <2>3
  <2>5. p[k + 1 + i] = WordStep(p[k + 1 + (i - 1)], ts[k + 1 + i])
    BY <1>5, <2>4 DEF Run, m
  <2>6. p[k + 1 + i].out = "underflow"
    BY <2>4, <2>5 DEF WordStep
  <2> QED BY <2>6
<1>9. m - (k + 1) \in Nat /\ k + 1 + (m - (k + 1)) = m
  BY <1>3
<1>10. p[m].out = "underflow"
  <2>1. PICK i \in Nat : i = m - (k + 1) /\ k + 1 + i = m
    BY <1>9
  <2>2. i \notin Z
    BY <1>8
  <2> QED BY <1>3, <2>1, <2>2
<1> QED BY <1>5, <1>10 DEF buf

-----------------------------------------------------------------------------
(* Attributes.                                                             *)

\* A bitmap has a word for every attribute in it.
LEMMA BitmapWords ==
    ASSUME NEW b \in Nat, NEW ids \in SUBSET (0 .. b)
    PROVE  /\ make_bitmap4(ids) \in Seq(SUBSET (0 .. 31))
           /\ \A id \in ids : id \div 32 < Len(make_bitmap4(ids))
           /\ \A w \in 1 .. Len(make_bitmap4(ids)) :
                 make_bitmap4(ids)[w] = {id % 32 : id \in {i \in ids : i \div 32 = w - 1}}
<1> DEFINE words == {id \div 32 : id \in ids}
           L == IF ids = {} THEN 0 ELSE 1 + Max(words)
           Bits(w) == {id % 32 : id \in {i \in ids : i \div 32 = w - 1}}
<1>1. \A id \in ids : id \in Nat /\ id \div 32 \in 0 .. b /\ id % 32 \in 0 .. 31
  <2>1. \A id \in Nat : id % 32 \in 0 .. 31
    OBVIOUS
  <2>2. \A id \in Nat : id \div 32 \in Nat /\ id \div 32 <= id
    OBVIOUS
  <2>3. \A id \in ids : id \in Nat /\ id <= b
    OBVIOUS
  <2> QED BY <2>1, <2>2, <2>3
<1>2. L \in Nat /\ \A id \in ids : id \div 32 < L
  <2>1. CASE ids = {}
    BY <2>1
  <2>2. CASE ids # {}
    <3>1. words \in SUBSET (0 .. b) /\ words # {}
      BY <1>1, <2>2
    <3>2. \A id \in ids : id \div 32 \in words
      OBVIOUS
    <3> HIDE DEF words
    <3>3. Max(words) \in words /\ \A y \in words : Max(words) >= y
      BY <3>1, MaxIn
    <3>4. PICK x : x = Max(words)
      OBVIOUS
    <3>5. x \in 0 .. b /\ \A y \in words : x >= y
      BY <3>1, <3>3, <3>4
    <3>6. \A id \in ids : id \div 32 \in 0 .. b /\ x >= id \div 32
      BY <1>1, <3>2, <3>5
    <3>7. L = 1 + x
      BY <2>2, <3>4
    <3> HIDE DEF L
    <3> QED BY <3>5, <3>6, <3>7
  <2> QED BY <2>1, <2>2
<1>3. make_bitmap4(ids) = [w \in 1 .. L |-> Bits(w)]
  BY DEF make_bitmap4
<1>4. \A w \in 1 .. L : Bits(w) \in SUBSET (0 .. 31)
  BY <1>1
<1> HIDE DEF L, Bits
<1>5. [w \in 1 .. L |-> Bits(w)] \in Seq(SUBSET (0 .. 31)) /\ Len([w \in 1 .. L |-> Bits(w)]) = L
  BY <1>2, <1>4
<1>6. \A w \in 1 .. L : [j \in 1 .. L |-> Bits(j)][w] = Bits(w)
  OBVIOUS
<1> QED BY <1>2, <1>3, <1>5, <1>6 DEF Bits

\* bitmap4_test finds in the bitmap that make_bitmap4 made exactly the attributes it was
\* made of, in whatever words they are.
THEOREM BitmapMeans ==
    ASSUME NEW b \in Nat, NEW ids \in SUBSET (0 .. b), NEW id \in Nat
    PROVE  bitmap4_test(make_bitmap4(ids), id) <=> id \in ids
<1> DEFINE bm == make_bitmap4(ids)
           w  == (id \div 32) + 1
<1>1. /\ \A i \in ids : i \div 32 < Len(bm)
      /\ \A k \in 1 .. Len(bm) : bm[k] = {i % 32 : i \in {j \in ids : j \div 32 = k - 1}}
      /\ Len(bm) \in Nat
  <2>1. bm \in Seq(SUBSET (0 .. 31))
    BY BitmapWords
  <2>2. Len(bm) \in Nat
    <3> HIDE DEF bm
    <3> QED BY <2>1
  <2> QED BY <2>2, BitmapWords
<1> HIDE DEF bm
<1>2. id \div 32 \in Nat /\ w - 1 = id \div 32
  OBVIOUS
<1>3. ASSUME id \in ids PROVE bitmap4_test(bm, id)
  <2>1. id \div 32 < Len(bm) /\ w \in 1 .. Len(bm)
    BY <1>1, <1>2, <1>3
  <2>2. id \in {j \in ids : j \div 32 = w - 1}
    BY <1>2, <1>3
  <2>3. id % 32 \in bm[w]
    <3> HIDE DEF w
    <3> QED BY <1>1, <2>1, <2>2
  <2> QED BY <2>1, <2>3 DEF bitmap4_test
<1>4. ASSUME bitmap4_test(bm, id) PROVE id \in ids
  <2>1. id \div 32 < Len(bm) /\ id % 32 \in bm[w]
    BY <1>4 DEF bitmap4_test
  <2>2. w \in 1 .. Len(bm)
    BY <1>1, <1>2, <2>1
  <2>3. PICK i \in ids : i \div 32 = w - 1 /\ i % 32 = id % 32
    <3> HIDE DEF w
    <3> QED BY <1>1, <2>1, <2>2
  <2>4. i \in Nat /\ i \div 32 = id \div 32
    BY <1>2, <2>3
  <2>5. \A x \in Nat : x = 32 * (x \div 32) + (x % 32)
    OBVIOUS
  <2>6. i = id
    BY <2>3, <2>4, <2>5
  <2> QED BY <2>6
<1> QED BY <1>3, <1>4 DEF bm

\* decode_bitmap4 gives back what encode_bitmap4 put, whatever the number of words.
THEOREM BitmapRoundTrip ==
    ASSUME NEW T, NEW V, NEW B, NEW bm \in Seq(B), NEW rest \in Buffers(T, V)
    PROVE  decode_bitmap4(encode_bitmap4(bm) \o rest) = Read(bm, rest)
<1> DEFINE L == Len(bm)
           U == T \cup {"bitmap", "bits"}
           W == V \cup B \cup {L}
           ts == [w \in 1 .. L |-> "bits"]
           word == put_uint32("bitmap", L)
           bits == WordChunks(ts, bm)
<1>1. L \in Nat /\ DOMAIN bm = 1 .. L
  OBVIOUS
<1>2. /\ "bitmap" \in U /\ "bits" \in U /\ L \in W
      /\ T \subseteq U /\ V \subseteq W /\ B \subseteq W
  OBVIOUS
<1> HIDE DEF U, W
<1>3. ts \in Seq(U) /\ Len(ts) = L
  <2> HIDE DEF L
  <2> QED BY <1>1, <1>2
<1>4. bm \in Seq(W) /\ rest \in Buffers(U, W)
  <2>1. bm \in Seq(W)
    BY <1>2
  <2> QED BY <1>2, <2>1, MoreValues
<1>5. bits = [w \in DOMAIN bm |-> put_uint32("bits", bm[w])[1]]
  BY <1>1 DEF WordChunks, put_uint32
<1>6. encode_bitmap4(bm) = word \o bits
  BY <1>5 DEF encode_bitmap4
<1> HIDE DEF ts, L
<1>7. bits \in Buffers(U, W) /\ Len(bm) = Len(ts) /\ Len(bm) <= Len(ts)
  <2>1. Len(bm) = Len(ts) /\ Len(bm) <= Len(ts)
    BY <1>1, <1>3 DEF L
  <2> QED BY <1>3, <1>4, <2>1, ChunksPut
<1>8. get_words(bits \o rest, ts) = Read(bm, rest)
  BY <1>3, <1>4, <1>7, WordsRoundTrip
<1>9. bits \o rest \in Buffers(U, W)
  BY <1>4, <1>7, SizeConcat
<1>10. /\ word \in Buffers(U, W)
       /\ get_uint32(word \o (bits \o rest), "bitmap") = Read(L, bits \o rest)
  BY <1>2, <1>9, WordFacts
<1> HIDE DEF word, bits
<1>11. (word \o bits) \o rest = word \o (bits \o rest)
  BY <1>4, <1>7, <1>10 DEF Buffers
<1>12. decode_bitmap4(word \o (bits \o rest)) = Read(bm, rest)
  <2>1. PICK x, y : x = word \o (bits \o rest) /\ y = bits \o rest
    OBVIOUS
  <2>2. get_uint32(x, "bitmap") = Read(L, y) /\ get_words(y, ts) = Read(bm, rest)
    BY <1>8, <1>10, <2>1
  <2>3. decode_bitmap4(x) = get_words(y, ts)
    <3>1. PICK c : c = get_uint32(x, "bitmap")
      OBVIOUS
    <3>2. c.out = "ok" /\ c.rest = y /\ c.v = L
      BY <2>2, <3>1 DEF Read
    <3>3. decode_bitmap4(x) = get_words(c.rest, [w \in 1 .. c.v |-> "bits"])
      BY <3>1, <3>2 DEF decode_bitmap4
    <3> QED BY <3>2, <3>3 DEF ts
  <2> QED BY <2>1, <2>2, <2>3
<1> QED BY <1>6, <1>11, <1>12

\* A fattr4: the reader finds the attributes that were put, takes their list for what it
\* is, and goes on behind it, whichever attributes and whatever else there are.
THEOREM FattrRoundTrip ==
    ASSUME NEW T, NEW V, NEW b \in Nat, NEW ids \in SUBSET (0 .. b),
           NEW body \in Buffers(T, V), Size(body) % 4 = 0, NEW rest \in Buffers(T, V),
           NEW buf,
           buf = encode_bitmap4(make_bitmap4(ids)) \o (put_nested("attrlist", body) \o rest)
    PROVE  /\ decode_bitmap4(buf).out = "ok"
           /\ \A id \in Nat : bitmap4_test(decode_bitmap4(buf).v, id) <=> id \in ids
           /\ get_opaque(decode_bitmap4(buf).rest, "attrlist") =
                  Read(IF body = <<>> THEN 0 ELSE body, rest)
<1> DEFINE bm == make_bitmap4(ids)
           list == put_nested("attrlist", body)
           n == Size(body)
           U == T \cup {"len", "attrlist"}
           W == V \cup {n, body}
<1>1. /\ "len" \in U /\ "attrlist" \in U /\ n \in W /\ body \in W /\ T \subseteq U /\ V \subseteq W
  OBVIOUS
<1>2. n \in Nat
  BY SizeConcat
<1> HIDE DEF U, W, n
<1>3. rest \in Buffers(U, W) /\ body \in Buffers(U, W)
  BY <1>1, MoreValues
<1>4. list \o rest \in Buffers(U, W)
  <2>1. list \in Buffers(U, W)
    <3>1. put_uint32("len", n) \in Buffers(U, W)
      BY <1>1, <1>3, WordFacts
    <3>2. CASE body = <<>>
      <4>1. list = put_uint32("len", n) \o <<>> /\ <<>> \in Buffers(U, W)
        BY <3>2, NoChunk DEF put_nested, n
      <4> QED BY <3>1, <4>1, SizeConcat
    <3>3. CASE body # <<>>
      <4> DEFINE c == [t |-> "attrlist", n |-> n, v |-> body]
      <4>1. n # 0
        BY <3>3, HasBytes DEF n
      <4>2. c \in ChunksOf(U, W)
        BY <1>1, <1>2, <4>1 DEF ChunksOf
      <4>3. list = put_uint32("len", n) \o <<c>>
        BY <3>3 DEF put_nested, n
      <4> HIDE DEF c, list
      <4>4. <<c>> \in Buffers(U, W)
        BY <4>2, OneChunk
      <4> QED BY <3>1, <4>3, <4>4, SizeConcat
    <3> QED BY <3>2, <3>3
  <2> HIDE DEF list
  <2> QED BY <1>3, <2>1, SizeConcat
<1>5. bm \in Seq(SUBSET (0 .. 31))
  BY BitmapWords
<1> HIDE DEF bm
<1>6. decode_bitmap4(encode_bitmap4(bm) \o (list \o rest)) = Read(bm, list \o rest)
  <2> HIDE DEF list
  <2>1. PICK y, S : y = list \o rest /\ S = SUBSET (0 .. 31)
    OBVIOUS
  <2>2. y \in Buffers(U, W) /\ bm \in Seq(S)
    BY <1>4, <1>5, <2>1
  <2>3. decode_bitmap4(encode_bitmap4(bm) \o y) = Read(bm, y)
    BY <2>2, BitmapRoundTrip
  <2> QED BY <2>1, <2>3
<1>7. get_opaque(list \o rest, "attrlist") = Read(IF body = <<>> THEN 0 ELSE body, rest)
  BY NestedRoundTrip
<1> HIDE DEF list
<1>8. decode_bitmap4(buf) = Read(bm, list \o rest)
  BY <1>6 DEF bm, list
<1>9. /\ decode_bitmap4(buf).out = "ok" /\ decode_bitmap4(buf).v = bm
      /\ decode_bitmap4(buf).rest = list \o rest
  BY <1>8 DEF Read
<1>10. \A id \in Nat : bitmap4_test(bm, id) <=> id \in ids
  BY BitmapMeans DEF bm
<1> QED BY <1>7, <1>9, <1>10

=============================================================================

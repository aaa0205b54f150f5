----------------------------- MODULE BenchProofs ----------------------------
(***************************************************************************)
(* Theorems about Bench, for any number of threads, any size of the file   *)
(* and of a block, and any number of operations.  The sums over the        *)
(* threads are taken with SumFunction, a recursive function on sets; what  *)
(* is needed of it is proved first, by looking at a smallest set for which *)
(* it would be wrong.                                                      *)
(***************************************************************************)
EXTENDS Bench, FiniteSetTheorems, SequenceTheorems, WellFoundedInduction, TLAPS

\* What SumFunction takes from a set next.
Pick(s) == CHOOSE x \in s : TRUE

\* Function g is the sum of F over each of the subsets of S with up to n elements.
SumsUpTo(g, F, S, n) ==
    /\ g \in [SUBSET S -> Int]
    /\ \A s \in SUBSET S : Cardinality(s) <= n =>
          g[s] = IF s = {} THEN 0 ELSE F[Pick(s)] + g[s \ {Pick(s)}]

\* The places of main and of a worker, and what a worker may call.
Phases == {"mkdir", "setup", "fill", "spawn", "join", "teardown", "print", "cleanup", "clear",
           "exited", "terminated"}
Stages == {"none", "connect", "prepare", "loop", "body", "finish", "ended"}
Calls  == {"lookup", "io", "create", "remove", "setattr"}
Fields == {"samples", "ops", "bytes"}

MainTypes ==
    /\ wl \in Registry /\ pc \in Phases
    /\ written \in 0 .. FileSize /\ spawned \in 0 .. N
    /\ stop \in BOOLEAN /\ rc \in {0, 1} /\ online \in BOOLEAN
    /\ listing \subseteq Workers \cup {bench_data}

WorkerTypes ==
    /\ stage \in [Workers -> Stages]
    /\ todo \in [Workers -> Seq(Calls)]
    /\ call \in [Workers -> {"none", "request", "ok", "error"}]
    /\ count \in [Workers -> 0 .. BlockSize]
    /\ offset \in [Workers -> 0 .. FileSize - 1]
    /\ tally \in [Workers -> [samples : Nat, ops : Nat, bytes : Nat]]

ServerTypes ==
    /\ entries \subseteq Workers \cup {bench_data}
    /\ late \subseteq Workers \X Calls
    /\ served \in [Workers -> [ops : Nat, bytes : Nat]]
    /\ failed \subseteq Workers

\* Which workers can be at work while main is where it is.
PhaseInv ==
    /\ pc \in {"mkdir", "setup", "fill"} => spawned = 0
    /\ \A w \in Workers : w > spawned => stage[w] = "none"
    /\ pc \in {"teardown", "print"} => \A w \in Workers : stage[w] = "ended"
    /\ pc \in {"cleanup", "clear"} => \A w \in Workers : stage[w] \in {"none", "ended"}

\* While main clears the directory its list is what is there, and when it has left the
\* directory is gone.
CleanInv ==
    /\ pc = "clear" /\ ~stray => listing = entries
    /\ CleanedUp

\* What main prints is what the workers counted.
TotalInv == pc \in {"teardown", "print"} => total = [f \in Fields |-> Sum(tally, f)]

\* The server has executed the operation of the loop that worker w has not counted yet.
Uncounted(w) ==
    stage[w] = "body" /\ (todo[w] = <<>> \/ (Len(todo[w]) = 1 /\ call[w] = "ok"))

\* A worker has calls to make only inside a stage, and has counted what it did.
IdleInv(w) ==
    /\ stage[w] \in {"none", "connect", "loop", "ended"} => todo[w] = <<>>
    /\ call[w] # "none" => todo[w] # <<>>
CountInv(w) ==
    /\ tally[w].samples = tally[w].ops
    /\ tally[w].ops <= MaxOps
    /\ stage[w] = "body" => tally[w].ops < MaxOps
    /\ tally[w].bytes <= tally[w].ops * BlockSize
ServedInv(w) ==
    /\ w \in failed => stage[w] = "ended"
    /\ IF Uncounted(w)
         THEN /\ served[w].ops = tally[w].ops + 1
              /\ served[w].bytes = tally[w].bytes + count[w]
         ELSE IF w \in failed
         THEN /\ served[w].ops \in tally[w].ops .. tally[w].ops + 1
              /\ served[w].bytes \in tally[w].bytes .. tally[w].bytes + BlockSize
         ELSE served[w].ops = tally[w].ops /\ served[w].bytes = tally[w].bytes
WorkerInv(w) == IdleInv(w) /\ CountInv(w) /\ ServedInv(w)

\* The inductive invariant.
BenchInv ==
    /\ MainTypes /\ WorkerTypes /\ ServerTypes
    /\ PhaseInv /\ CleanInv /\ TotalInv
    /\ \A w \in Workers : WorkerInv(w)

-----------------------------------------------------------------------------
(* Sums.                                                                   *)

\* A set of numbers that is not empty has an element whose predecessor is not in it.
LEMMA Smallest ==
    ASSUME NEW T \in SUBSET Nat, T # {}
    PROVE  \E n \in T : n = 0 \/ (n - 1 \in Nat /\ n - 1 \notin T)
<1>1. PICK n \in T : \A m \in T : ~ (<<m, n>> \in OpToRel(<, Nat))
  BY NatLessThanWellFounded, WFMin
<1>2. ASSUME NEW m \in T PROVE ~ (m < n)
  BY <1>1 DEF OpToRel
<1> QED BY <1>2

\* One element less.
LEMMA PickFacts ==
    ASSUME NEW S, IsFiniteSet(S), NEW s \in SUBSET S, s # {}
    PROVE  /\ Pick(s) \in s /\ Pick(s) \in S
           /\ s \ {Pick(s)} \in SUBSET S
           /\ Cardinality(s) \in Nat
           /\ Cardinality(s \ {Pick(s)}) = Cardinality(s) - 1
<1>1. Pick(s) \in s
  BY DEF Pick
<1>2. IsFiniteSet(s)
  BY FS_Subset
<1> QED BY <1>1, <1>2, FS_CardinalityType, FS_RemoveElement

\* The recursion that defines the sum has a solution.
LEMMA SumExists ==
    ASSUME NEW S, IsFiniteSet(S), NEW F \in [S -> Int]
    PROVE  \E g : SumsUpTo(g, F, S, Cardinality(S))
<1> DEFINE T == {n \in Nat : ~ \E g : SumsUpTo(g, F, S, n)}
<1>1. SUFFICES T = {}
  BY FS_CardinalityType
<1>2. SUFFICES ASSUME T # {} PROVE FALSE
  OBVIOUS
<1>3. PICK n \in T : n = 0 \/ (n - 1 \in Nat /\ n - 1 \notin T)
  <2> HIDE DEF T
  <2>1. T \in SUBSET Nat
    BY DEF T
  <2> QED BY <1>2, <2>1, Smallest
<1>4. CASE n = 0
  <2> DEFINE g == [s \in SUBSET S |-> 0]
  <2>1. g \in [SUBSET S -> Int]
    OBVIOUS
  <2>2. ASSUME NEW s \in SUBSET S, Cardinality(s) <= 0 PROVE s = {}
    BY <2>2, PickFacts, FS_Subset, FS_CardinalityType, FS_EmptySet
  <2>3. SumsUpTo(g, F, S, 0)
    BY <2>1, <2>2 DEF SumsUpTo
  <2> QED BY <1>4, <2>3
<1>5. CASE n - 1 \in Nat /\ n - 1 \notin T
  <2>1. PICK h : SumsUpTo(h, F, S, n - 1)
    BY <1>5
  <2> DEFINE g == [s \in SUBSET S |-> IF s = {} THEN 0
                                      ELSE F[Pick(s)] + h[s \ {Pick(s)}]]
  <2>2. g \in [SUBSET S -> Int]
    <3>1. ASSUME NEW s \in SUBSET S, s # {} PROVE F[Pick(s)] + h[s \ {Pick(s)}] \in Int
      <4>1. F[Pick(s)] \in Int /\ h[s \ {Pick(s)}] \in Int
        <5>1. Pick(s) \in S /\ s \ {Pick(s)} \in SUBSET S /\ h \in [SUBSET S -> Int]
          BY <2>1, <3>1, PickFacts DEF SumsUpTo
        <5> QED BY <5>1
      <4> QED BY <4>1
    <3> QED BY <3>1
  <2>3. ASSUME NEW s \in SUBSET S, Cardinality(s) <= n - 1 PROVE g[s] = h[s]
    BY <2>1, <2>3 DEF SumsUpTo
  <2>4. ASSUME NEW s \in SUBSET S, Cardinality(s) <= n
        PROVE  g[s] = IF s = {} THEN 0 ELSE F[Pick(s)] + g[s \ {Pick(s)}]
    <3>1. CASE s = {}
      BY <3>1
    <3>2. CASE s # {}
      <4>1. s \ {Pick(s)} \in SUBSET S /\ Cardinality(s \ {Pick(s)}) <= n - 1
        BY <1>5, <2>4, <3>2, PickFacts
      <4>2. g[s \ {Pick(s)}] = h[s \ {Pick(s)}]
        BY <2>3, <4>1
      <4> HIDE DEF g
      <4>3. g[s] = F[Pick(s)] + h[s \ {Pick(s)}]
        BY <3>2 DEF g
      <4> QED BY <3>2, <4>2, <4>3
    <3> QED BY <3>1, <3>2
  <2> HIDE DEF g
  <2>5. SumsUpTo(g, F, S, n)
    BY <2>2, <2>4 DEF SumsUpTo
  <2> QED BY <2>5
<1> QED BY <1>3, <1>4, <1>5

\* SumFunction is such a sum.
LEMMA SumIs ==
    ASSUME NEW S, IsFiniteSet(S), NEW F \in [S -> Int]
    PROVE  \E g : SumsUpTo(g, F, S, Cardinality(S)) /\ SumFunction(F) = g[S]
<1> DEFINE Def(g, s) == IF s = {} THEN 0 ELSE F[Pick(s)] + g[s \ {Pick(s)}]
           it == CHOOSE g : g = [s \in SUBSET S |-> Def(g, s)]
<1>1. PICK h : SumsUpTo(h, F, S, Cardinality(S))
  BY SumExists
<1>2. \A s \in SUBSET S : Cardinality(s) <= Cardinality(S)
  BY FS_Subset
<1>3. h = [s \in SUBSET S |-> Def(h, s)]
  BY <1>1, <1>2 DEF SumsUpTo
<1>4. it = [s \in SUBSET S |-> Def(it, s)]
  BY <1>3
<1>5. SumFunction(F) = it[S]
  BY DEF SumFunction, SumFunctionOnSet, FoldFunctionOnSet, MapThenFoldSet, Pick
<1> HIDE DEF it
<1>6. \A s \in SUBSET S : it[s] = h[s]
  <2> DEFINE T == {n \in Nat : \E s \in SUBSET S : Cardinality(s) = n /\ it[s] # h[s]}
  <2>1. SUFFICES T = {}
    BY FS_Subset, FS_CardinalityType
  <2>2. SUFFICES ASSUME T # {} PROVE FALSE
    OBVIOUS
  <2>3. PICK n \in T : n = 0 \/ (n - 1 \in Nat /\ n - 1 \notin T)
    <3> HIDE DEF T
    <3>1. T \in SUBSET Nat
      BY DEF T
    <3> QED BY <2>2, <3>1, Smallest
  <2>4. PICK s \in SUBSET S : Cardinality(s) = n /\ it[s] # h[s]
    OBVIOUS
  <2>5. it[s] = Def(it, s) /\ h[s] = Def(h, s)
    BY <1>3, <1>4
  <2>6. s # {}
    BY <2>4, <2>5
  <2>7. s \ {Pick(s)} \in SUBSET S /\ Cardinality(s \ {Pick(s)}) = n - 1 /\ n - 1 \in Nat
    <3>1. s \ {Pick(s)} \in SUBSET S /\ Cardinality(s \ {Pick(s)}) = n - 1
      BY <2>4, <2>6, PickFacts
    <3>2. IsFiniteSet(s \ {Pick(s)})
      BY <3>1, FS_Subset
    <3> QED BY <3>1, <3>2, FS_CardinalityType
  <2>8. it[s \ {Pick(s)}] # h[s \ {Pick(s)}]
    BY <2>4, <2>5, <2>6
  <2>9. n - 1 \in T
    BY <2>7, <2>8
  <2> HIDE DEF T
  <2> QED BY <2>3, <2>7, <2>9
<1>7. SumFunction(F) = h[S]
  BY <1>5, <1>6
<1> QED BY <1>1, <1>7

\* What is known term by term is known of the sums: if F is below G, by at most k and only
\* where D is, its sum is below that of G by at most k for every element of D.
LEMMA SumsClose ==
    ASSUME NEW S, IsFiniteSet(S), NEW F \in [S -> Int], NEW G \in [S -> Int],
           NEW D \in SUBSET S, NEW k \in Nat,
           \A x \in S : F[x] <= G[x] /\ G[x] <= F[x] + (IF x \in D THEN k ELSE 0)
    PROVE  /\ SumFunction(F) \in Int /\ SumFunction(G) \in Int
           /\ SumFunction(F) <= SumFunction(G)
           /\ SumFunction(G) - Cardinality(D) * k <= SumFunction(F)
<1>1. PICK f : SumsUpTo(f, F, S, Cardinality(S)) /\ SumFunction(F) = f[S]
  BY SumIs
<1>2. PICK g : SumsUpTo(g, G, S, Cardinality(S)) /\ SumFunction(G) = g[S]
  BY SumIs
<1> DEFINE Lost(s) == Cardinality(s \cap D)
           Close(s) == f[s] <= g[s] /\ g[s] <= f[s] + Lost(s) * k
           T == {n \in Nat : \E s \in SUBSET S : Cardinality(s) = n /\ ~Close(s)}
<1>3. T = {}
  <2>1. SUFFICES ASSUME T # {} PROVE FALSE
    OBVIOUS
  <2>2. PICK n \in T : n = 0 \/ (n - 1 \in Nat /\ n - 1 \notin T)
    <3> HIDE DEF T
    <3>1. T \in SUBSET Nat
      BY DEF T
    <3> QED BY <2>1, <3>1, Smallest
  <2>3. PICK s \in SUBSET S : Cardinality(s) = n /\ ~Close(s)
    <3> HIDE DEF Close
    <3> QED OBVIOUS
  <2>4. Cardinality(s) <= Cardinality(S) /\ f \in [SUBSET S -> Int] /\ g \in [SUBSET S -> Int]
    BY <1>1, <1>2, FS_Subset DEF SumsUpTo
  <2>5. /\ f[s] = IF s = {} THEN 0 ELSE F[Pick(s)] + f[s \ {Pick(s)}]
        /\ g[s] = IF s = {} THEN 0 ELSE G[Pick(s)] + g[s \ {Pick(s)}]
    BY <1>1, <1>2, <2>4 DEF SumsUpTo
  <2>6. CASE s = {}
    <3>1. f[s] = 0 /\ g[s] = 0 /\ Lost(s) = 0
      BY <2>5, <2>6, FS_EmptySet
    <3> QED BY <2>3, <3>1
  <2>7. CASE s # {}
    <3> DEFINE x == Pick(s)
               t == s \ {x}
    <3>1. x \in s /\ x \in S /\ t \in SUBSET S /\ Cardinality(t) = n - 1
      BY <2>3, <2>7, PickFacts
    <3>2. IsFiniteSet(t) /\ IsFiniteSet(s)
      BY <3>1, FS_Subset
    <3>3. n - 1 \in Nat
      BY <3>1, <3>2, FS_CardinalityType
    <3>4. Close(t)
      <4> HIDE DEF Close
      <4>1. n - 1 \notin T
        <5> HIDE DEF T
        <5> QED BY <2>2, <3>3
      <4> QED BY <3>1, <3>3, <4>1
    <3>5. Lost(t) \in Nat /\ Lost(s) = Lost(t) + (IF x \in D THEN 1 ELSE 0)
      <4>1. t \cap D = (s \cap D) \ {x}
        OBVIOUS
      <4>2. IsFiniteSet(s \cap D) /\ IsFiniteSet(t \cap D)
        BY <3>2, FS_Intersection
      <4>3. Cardinality((s \cap D) \ {x}) =
                IF x \in s \cap D THEN Cardinality(s \cap D) - 1 ELSE Cardinality(s \cap D)
        BY <4>2, FS_RemoveElement
      <4>4. Cardinality(s \cap D) \in Nat /\ Cardinality(t \cap D) \in Nat
        BY <4>2, FS_CardinalityType
      <4> HIDE DEF x, t
      <4>5. PICK i, j : i = Cardinality(s \cap D) /\ j = Cardinality(t \cap D)
        OBVIOUS
      <4>6. j = IF x \in D THEN i - 1 ELSE i
        BY <3>1, <4>1, <4>3, <4>5
      <4> QED BY <4>4, <4>5, <4>6
    <3>6. PICK a, b, c, d, u, v, l : /\ a = F[x] /\ b = G[x] /\ c = f[t] /\ d = g[t]
                                     /\ l = Lost(t) /\ u = f[s] /\ v = g[s]
      OBVIOUS
    <3>7. /\ a \in Int /\ b \in Int /\ c \in Int /\ d \in Int /\ l \in Nat
          /\ u = a + c /\ v = b + d
      BY <2>4, <2>5, <2>7, <3>1, <3>5, <3>6
    <3>8. a <= b /\ b <= a + (IF x \in D THEN k ELSE 0)
      BY <3>1, <3>6
    <3>9. c <= d /\ d <= c + l * k
      BY <3>4, <3>6
    <3>10. CASE x \in D
      <4>1. Lost(s) = l + 1
        BY <3>5, <3>6, <3>10
      <4>2. (l + 1) * k = l * k + k /\ l * k \in Int
        BY <3>7
      <4>3. u <= v /\ v <= u + (l + 1) * k
        BY <3>7, <3>8, <3>9, <3>10, <4>2
      <4> QED BY <2>3, <3>6, <4>1, <4>3
    <3>11. CASE x \notin D
      <4>1. Lost(s) = l
        BY <3>5, <3>6, <3>11
      <4>2. l * k \in Int
        BY <3>7
      <4>3. u <= v /\ v <= u + l * k
        BY <3>7, <3>8, <3>9, <3>11, <4>2
      <4> QED BY <2>3, <3>6, <4>1, <4>3
    <3> QED BY <3>10, <3>11
  <2> QED BY <2>6, <2>7
<1>4. Close(S)
  <2>1. Cardinality(S) \in Nat /\ S \in SUBSET S
    BY FS_CardinalityType
  <2> HIDE DEF Close
  <2> QED BY <1>3, <2>1
<1>5. S \cap D = D /\ Cardinality(D) \in Nat
  BY FS_Subset, FS_CardinalityType
<1>6. f[S] \in Int /\ g[S] \in Int /\ f[S] <= g[S] /\ g[S] <= f[S] + Cardinality(D) * k
  BY <1>1, <1>2, <1>4, <1>5 DEF SumsUpTo
<1>7. Cardinality(D) * k \in Int
  BY <1>5
<1> QED BY <1>1, <1>2, <1>6, <1>7

-----------------------------------------------------------------------------
(* The operators of the model.                                             *)

\* The calls of a workload.
LEMMA WorkloadFacts ==
    ASSUME wl \in Registry
    PROVE  /\ wl.prepare \in Seq(Calls) /\ wl.body \in Seq(Calls) /\ wl.finish \in Seq(Calls)
           /\ wl.body # <<>>
<1>1. CASE wl \in {Seqread, Randread, Mixed}
  <2>1. wl.prepare = <<"lookup">> /\ wl.body = <<"io">> /\ wl.finish = <<>>
    BY <1>1 DEF Seqread, Randread, Mixed
  <2> QED BY <2>1 DEF Calls
<1>2. CASE wl = Seqwrite
  <2>1. wl.prepare = <<"create">> /\ wl.body = <<"io">> /\ wl.finish = <<"remove">>
    BY <1>2 DEF Seqwrite
  <2> QED BY <2>1 DEF Calls
<1>3. CASE wl = Randwrite
  <2>1. wl.prepare = <<"create", "setattr">> /\ wl.body = <<"io">> /\ wl.finish = <<"remove">>
    BY <1>3 DEF Randwrite
  <2> QED BY <2>1 DEF Calls
<1>4. CASE wl = Meta
  <2>1. wl.prepare = <<>> /\ wl.body = <<"create", "remove">> /\ wl.finish = <<>>
    BY <1>4 DEF Meta
  <2> QED BY <2>1 DEF Calls
<1> QED BY <1>1, <1>2, <1>3, <1>4 DEF Registry

\* The chunk of a WRITE of setup does not go past the end of the file.
LEMMA ChunkFits ==
    ASSUME NEW n \in 0 .. FileSize, n < FileSize
    PROVE  n + Min({BlockSize, FileSize - n}) \in 0 .. FileSize
<1>1. PICK a, b : a = BlockSize /\ b = FileSize - n
  OBVIOUS
<1>2. a \in Nat /\ b \in Nat
  BY <1>1, BenchAssumption
<1>3. \E x \in {a, b} : \A y \in {a, b} : x =< y
  BY <1>2
<1>4. Min({a, b}) \in {a, b} /\ \A y \in {a, b} : Min({a, b}) =< y
  BY <1>3 DEF Min
<1>5. Min({a, b}) \in Nat /\ Min({a, b}) <= b
  BY <1>2, <1>4
<1> QED BY <1>1, <1>2, <1>5, BenchAssumption

\* A read or write starts inside the file.
LEMMA StartsInside ==
    ASSUME NEW o \in 0 .. FileSize - 1, NEW x \in StartOffset(o)
    PROVE  x \in 0 .. FileSize - 1
<1>1. PICK B : B = FileSize \div BlockSize
  OBVIOUS
<1>2. FileSize \in Nat /\ FileSize > 0 /\ BlockSize \in Nat /\ BlockSize > 0
  BY BenchAssumption
<1>3. B \in Nat /\ B * BlockSize <= FileSize
  BY <1>1, <1>2
<1>4. CASE x = o
  BY <1>4
<1>5. ASSUME NEW b \in 0 .. (IF B > 0 THEN B - 1 ELSE 0), x = b * BlockSize
      PROVE  x \in 0 .. FileSize - 1
  <2>1. CASE B > 0
    <3>1. b \in Nat /\ b + 1 <= B
      BY <1>3, <1>5, <2>1
    <3>2. (b + 1) * BlockSize <= B * BlockSize /\ (b + 1) * BlockSize = b * BlockSize + BlockSize
      BY <1>2, <1>3, <3>1
    <3>3. b * BlockSize \in Nat /\ B * BlockSize \in Nat
      BY <1>2, <1>3, <3>1
    <3> QED BY <1>2, <1>3, <1>5, <3>2, <3>3
  <2>2. CASE ~(B > 0)
    <3>1. b = 0
      BY <1>5, <2>2
    <3> QED BY <1>2, <1>5, <3>1
  <2> QED BY <2>1, <2>2
<1> QED BY <1>1, <1>4, <1>5 DEF StartOffset

\* And so does the next sequential one.
LEMMA NextInside ==
    ASSUME NEW o \in 0 .. FileSize - 1, NEW n \in 0 .. BlockSize
    PROVE  NextOffset(o, n) \in 0 .. FileSize - 1
BY BenchAssumption DEF NextOffset

-----------------------------------------------------------------------------
(* Steps of main.                                                          *)

\* A worker that is not touched keeps its part of the invariant.
LEMMA WorkerSame ==
    ASSUME NEW v \in Workers, WorkerInv(v),
           stage'[v] = stage[v], todo'[v] = todo[v], call'[v] = call[v], count'[v] = count[v],
           tally'[v] = tally[v], served'[v] = served[v], v \in failed' <=> v \in failed
    PROVE  WorkerInv(v)'
BY DEF WorkerInv, IdleInv, CountInv, ServedInv, Uncounted

\* What no step of main changes.
LEMMA MainFrame ==
    ASSUME BenchInv, Main
    PROVE  /\ UNCHANGED <<wl, todo, call, count, offset, tally, late, served, failed>>
           /\ WorkerTypes' /\ late' \subseteq Workers \X Calls
           /\ \A v \in Workers : WorkerInv(v)'
<1>1. /\ UNCHANGED <<wl, todo, call, count, offset, tally, late, served, failed>>
      /\ UNCHANGED stage \/ Spawn
  BY DEF Main, Mkdir, MkdirFails, SetupCreate, SetupWrite, MainFails, Spawn, SpawnFails, Stop,
         Merge, Teardown, PrintResult, ListWorkdir, RemoveEntry, RemoveWorkdir, CleanupFails,
         workerVars, serverVars, ghostVars
<1>2. CASE UNCHANGED stage
  <2>1. ASSUME NEW v \in Workers PROVE WorkerInv(v)'
    BY <1>1, <1>2, WorkerSame DEF BenchInv
  <2>2. WorkerTypes'
    BY <1>1, <1>2 DEF BenchInv, WorkerTypes
  <2> QED BY <1>1, <2>1, <2>2 DEF BenchInv, ServerTypes
<1>3. CASE Spawn
  <2>1. spawned < N /\ stage' = [stage EXCEPT ![spawned + 1] = "connect"]
    BY <1>3 DEF Spawn
  <2>2. PICK w \in Workers : w = spawned + 1
    BY <2>1, BenchAssumption DEF BenchInv, MainTypes, Workers
  <2>3. /\ stage \in [Workers -> Stages] /\ stage'[w] = "connect" /\ stage[w] = "none"
        /\ \A v \in Workers : v # w => stage'[v] = stage[v]
    <3>1. w > spawned
      BY <2>2 DEF BenchInv, MainTypes
    <3>2. stage \in [Workers -> Stages] /\ stage[w] = "none"
      BY <3>1 DEF BenchInv, WorkerTypes, PhaseInv
    <3> QED BY <2>1, <2>2, <3>2
  <2>4. WorkerTypes'
    BY <1>1, <2>1, <2>2 DEF BenchInv, WorkerTypes, Stages
  <2>5. ASSUME NEW v \in Workers PROVE WorkerInv(v)'
    <3>1. CASE v = w
      <4>1. IdleInv(w) /\ CountInv(w) /\ ServedInv(w)
        BY DEF BenchInv, WorkerInv
      <4>2. w \notin failed
        BY <2>3, <4>1 DEF ServedInv
      <4>3. IdleInv(w)' /\ CountInv(w)'
        BY <1>1, <2>3, <4>1 DEF IdleInv, CountInv
      <4>4. ServedInv(w)'
        BY <1>1, <2>3, <4>1, <4>2 DEF ServedInv, Uncounted
      <4> QED BY <3>1, <4>3, <4>4 DEF WorkerInv
    <3>2. CASE v # w
      BY <1>1, <2>3, <3>2, WorkerSame DEF BenchInv
    <3> QED BY <3>1, <3>2
  <2> QED BY <1>1, <2>4, <2>5 DEF BenchInv, ServerTypes
<1> QED BY <1>1, <1>2, <1>3

\* The rest of the invariant, which is about main and the server.
Rest == MainTypes /\ ServerTypes /\ PhaseInv /\ CleanInv /\ TotalInv

\* Before the workers: the work directory and the data file.
LEMMA PreparationKeeps ==
    ASSUME BenchInv, Mkdir \/ MkdirFails \/ SetupCreate \/ SetupWrite
    PROVE  Rest'
<1>1. /\ pc \in {"mkdir", "setup", "fill"} /\ spawned = 0
      /\ pc' \in {"setup", "spawn", "terminated", "fill"}
      /\ pc' = "setup" => pc = "mkdir"
      /\ UNCHANGED <<wl, spawned, stop, rc, listing, online, late, served, failed, stage>>
      /\ entries' \in {entries, entries \cup {bench_data}}
  BY DEF Mkdir, MkdirFails, SetupCreate, SetupWrite, BenchInv, PhaseInv, workerVars, serverVars,
         ghostVars
<1>2. written' \in 0 .. FileSize
  BY ChunkFits DEF Mkdir, MkdirFails, SetupCreate, SetupWrite, BenchInv, MainTypes
<1>3. MainTypes'
  BY <1>1, <1>2 DEF BenchInv, MainTypes, Phases
<1>4. ServerTypes'
  BY <1>1 DEF BenchInv, ServerTypes
<1>5. PhaseInv'
  BY <1>1 DEF BenchInv, PhaseInv
<1>6. CleanInv' /\ TotalInv'
  BY <1>1 DEF CleanInv, TotalInv, CleanedUp
<1> QED BY <1>3, <1>4, <1>5, <1>6 DEF Rest

\* main starts and stops the workers, and gives up when it cannot start the first.
LEMMA ThreadsKeep ==
    ASSUME BenchInv, Spawn \/ SpawnFails \/ Stop
    PROVE  Rest'
<1>1. /\ pc = "spawn" /\ pc' \in {"spawn", "terminated", "cleanup", "join"}
      /\ UNCHANGED <<wl, written, listing, online, entries, late, served, failed>>
      /\ stop' \in {stop, TRUE} /\ rc' \in {rc, 1}
  BY DEF Spawn, SpawnFails, Stop, AfterError, serverVars, ghostVars
<1>2. ServerTypes'
  BY <1>1 DEF BenchInv, ServerTypes
<1>3. CleanInv' /\ TotalInv'
  BY <1>1 DEF CleanInv, TotalInv, CleanedUp
<1>4. CASE Spawn
  <2>1. /\ pc' = "spawn" /\ spawned < N /\ spawned' = spawned + 1 /\ UNCHANGED <<stop, rc>>
        /\ stage' = [stage EXCEPT ![spawned + 1] = "connect"]
    BY <1>4 DEF Spawn
  <2>2. spawned \in 0 .. N /\ N \in Nat /\ stage \in [Workers -> Stages]
    BY BenchAssumption DEF BenchInv, MainTypes, WorkerTypes
  <2>3. MainTypes'
    BY <1>1, <2>1, <2>2 DEF BenchInv, MainTypes
  <2>4. ASSUME NEW w \in Workers, w > spawned' PROVE stage'[w] = "none"
    <3>1. w > spawned /\ w # spawned + 1
      BY <2>1, <2>2, <2>4 DEF Workers
    <3>2. stage[w] = "none"
      BY <3>1 DEF BenchInv, PhaseInv
    <3> QED BY <2>1, <2>2, <3>1, <3>2
  <2>5. PhaseInv'
    BY <2>1, <2>4 DEF PhaseInv
  <2> QED BY <1>2, <1>3, <2>3, <2>5 DEF Rest
<1>5. CASE SpawnFails
  <2>1. /\ UNCHANGED <<spawned, stop, stage>>
        /\ (pc' = "terminated" \/ (pc' = "cleanup" /\ ~(spawned > 0)))
    BY <1>5 DEF SpawnFails, AfterError, workerVars
  <2>2. MainTypes'
    BY <1>1, <2>1 DEF BenchInv, MainTypes, Phases
  <2>3. \A w \in Workers : w > spawned => stage[w] = "none"
    BY DEF BenchInv, PhaseInv
  <2>4. ~(spawned > 0) => \A w \in Workers : stage[w] = "none"
    BY <2>3, BenchAssumption DEF BenchInv, MainTypes, Workers
  <2>5. PhaseInv'
    BY <2>1, <2>3, <2>4 DEF PhaseInv
  <2> QED BY <1>2, <1>3, <2>2, <2>5 DEF Rest
<1>6. CASE Stop
  <2>1. UNCHANGED <<spawned, rc, stage>> /\ pc' = "join"
    BY <1>6 DEF Stop, workerVars
  <2>2. MainTypes'
    BY <1>1, <2>1 DEF BenchInv, MainTypes, Phases
  <2>3. PhaseInv'
    BY <2>1 DEF BenchInv, PhaseInv
  <2> QED BY <1>2, <1>3, <2>2, <2>3 DEF Rest
<1> QED BY <1>4, <1>5, <1>6

\* After the workers, and after a failure: the totals, teardown and printing.
LEMMA ResultKeeps ==
    ASSUME BenchInv, Merge \/ Teardown \/ PrintResult \/ MainFails
    PROVE  Rest'
<1>1. /\ UNCHANGED <<wl, written, spawned, stop, listing, late, served, failed, stage, tally>>
      /\ rc' \in {rc, 1} /\ online' \in {online} \cup BOOLEAN
      /\ pc' \in {"teardown", "print", "cleanup"}
      /\ entries' \in {entries, entries \cup {bench_data}, entries \ {bench_data}}
  BY DEF Merge, Teardown, PrintResult, MainFails, AfterError, workerVars, serverVars, ghostVars
<1>2. MainTypes'
  BY <1>1 DEF BenchInv, MainTypes, Phases
<1>3. ServerTypes'
  BY <1>1 DEF BenchInv, ServerTypes
<1>4. CleanInv'
  BY <1>1 DEF CleanInv, CleanedUp
<1>5. TotalInv'
  <2>1. CASE Merge
    BY <1>1, <2>1 DEF Merge, TotalInv, Sum, Fields
  <2>2. CASE Teardown
    BY <1>1, <2>2 DEF Teardown, BenchInv, TotalInv, Sum
  <2>3. CASE PrintResult \/ MainFails
    <3>1. pc' = "cleanup"
      BY <2>3 DEF PrintResult, MainFails, AfterError
    <3> QED BY <3>1 DEF TotalInv
  <2> QED BY <2>1, <2>2, <2>3
<1>6. PhaseInv'
  <2>1. CASE Merge
    <3>1. \A w \in Workers : stage[w] = "ended"
      BY <2>1 DEF Merge, Joined
    <3> QED BY <1>1, <3>1 DEF BenchInv, PhaseInv
  <2>2. CASE Teardown \/ PrintResult
    BY <1>1, <2>2 DEF Teardown, PrintResult, BenchInv, PhaseInv
  <2>3. CASE MainFails
    <3>1. pc' = "cleanup" /\ pc \in {"setup", "fill", "teardown"}
      BY <2>3 DEF MainFails, AfterError
    <3>2. \A w \in Workers : stage[w] \in {"none", "ended"}
      <4>1. CASE pc = "teardown"
        BY <4>1 DEF BenchInv, PhaseInv
      <4>2. CASE pc \in {"setup", "fill"}
        BY <4>2 DEF BenchInv, PhaseInv, Workers
      <4> QED BY <3>1, <4>1, <4>2
    <3> QED BY <1>1, <3>1, <3>2 DEF BenchInv, PhaseInv
  <2> QED BY <2>1, <2>2, <2>3
<1> QED BY <1>2, <1>3, <1>4, <1>5, <1>6 DEF Rest

\* The clean-up: main removes what it has listed, and then the directory.
LEMMA CleanupKeeps ==
    ASSUME BenchInv, ListWorkdir \/ RemoveEntry \/ RemoveWorkdir \/ CleanupFails
    PROVE  Rest'
<1>1. /\ UNCHANGED <<wl, written, spawned, stop, rc, online, late, served, failed, stage, stray>>
      /\ pc \in {"cleanup", "clear"} /\ pc' \in {"clear", "exited"}
      /\ entries' \subseteq entries /\ (listing' \subseteq listing \/ listing' \subseteq entries)
  BY DEF ListWorkdir, RemoveEntry, RemoveWorkdir, CleanupFails, workerVars, serverVars, ghostVars
<1>2. MainTypes'
  BY <1>1 DEF BenchInv, MainTypes, ServerTypes, Phases
<1>3. ServerTypes'
  BY <1>1 DEF BenchInv, ServerTypes
<1>4. PhaseInv' /\ TotalInv'
  BY <1>1 DEF BenchInv, PhaseInv, TotalInv
<1>5. CleanInv'
  <2>1. CASE ListWorkdir
    BY <2>1 DEF ListWorkdir, serverVars, CleanInv, CleanedUp
  <2>2. CASE RemoveEntry
    <3>1. CASE stray
      BY <1>1, <3>1 DEF CleanInv, CleanedUp
    <3>2. CASE ~stray
      <4>1. listing = entries
        BY <2>2, <3>2 DEF RemoveEntry, BenchInv, CleanInv
      <4>2. pc' = "clear" /\ listing' = entries'
        BY <2>2, <4>1 DEF RemoveEntry
      <4> QED BY <4>2 DEF CleanInv, CleanedUp
    <3> QED BY <3>1, <3>2
  <2>3. CASE RemoveWorkdir
    <3>1. CASE stray
      BY <1>1, <3>1 DEF CleanInv, CleanedUp
    <3>2. CASE ~stray
      <4>1. entries = {}
        BY <2>3, <3>2 DEF RemoveWorkdir, BenchInv, CleanInv
      <4>2. pc' = "exited" /\ ~workdir'
        BY <2>3, <4>1 DEF RemoveWorkdir
      <4> QED BY <4>2 DEF CleanInv, CleanedUp
    <3> QED BY <3>1, <3>2
  <2>4. CASE CleanupFails
    BY <2>4 DEF CleanupFails, CleanInv, CleanedUp
  <2> QED BY <2>1, <2>2, <2>3, <2>4
<1> QED BY <1>2, <1>3, <1>4, <1>5 DEF Rest

\* Every step of main.
LEMMA MainKeeps ==
    ASSUME BenchInv, Main
    PROVE  BenchInv'
<1>1. Rest'
  BY PreparationKeeps, ThreadsKeep, ResultKeeps, CleanupKeeps DEF Main
<1> QED BY <1>1, MainFrame DEF BenchInv, Rest

\* A request of a broken connection is executed or dropped.
LEMMA LateKeeps ==
    ASSUME BenchInv, ServeLate \/ DropLate
    PROVE  BenchInv'
<1>1. /\ UNCHANGED <<wl, pc, written, spawned, stop, rc, total, listing, online, stage, todo,
                     call, count, offset, tally, workdir, served, failed, fault>>
      /\ late' \subseteq late
      /\ \/ entries' = entries
         \/ \E w \in Workers : entries' \in {entries \cup {w}, entries \ {w}}
  BY DEF ServeLate, DropLate, BenchInv, ServerTypes, mainVars, workerVars, ghostVars
<1>2. MainTypes' /\ WorkerTypes' /\ ServerTypes'
  <2>1. MainTypes' /\ WorkerTypes'
    BY <1>1 DEF BenchInv, MainTypes, WorkerTypes
  <2>2. ServerTypes'
    BY <1>1 DEF BenchInv, ServerTypes
  <2> QED BY <2>1, <2>2
<1>3. PhaseInv' /\ TotalInv'
  BY <1>1 DEF BenchInv, PhaseInv, TotalInv, Sum
<1>4. \A w \in Workers : WorkerInv(w)'
  BY <1>1, WorkerSame DEF BenchInv
<1>5. CleanInv'
  <2>1. (stray => stray') /\ (pc = "clear" /\ ~stray' => entries' = entries)
    <3>1. CASE ServeLate
      <4>1. stray' = (stray \/ (pc = "clear" /\ entries' # entries))
        BY <3>1, Zenon DEF ServeLate
      <4> QED BY <4>1, Zenon
    <3>2. CASE DropLate
      BY <3>2 DEF DropLate, ghostVars
    <3> QED BY <3>1, <3>2
  <2> QED BY <1>1, <2>1 DEF BenchInv, CleanInv, CleanedUp
<1> QED BY <1>2, <1>3, <1>4, <1>5 DEF BenchInv

-----------------------------------------------------------------------------
(* Steps of a worker and of the server for it.                             *)

\* A step of worker w is one of a worker that is at work, and concerns no other.
LEMMA WorkerFrame ==
    ASSUME BenchInv, NEW w \in Workers, Worker(w) \/ Server(w)
    PROVE  /\ UNCHANGED <<wl, pc, written, spawned, stop, rc, total, listing, online, workdir,
                          fault, stray>>
           /\ stage[w] \notin {"none", "ended"}
<1>1. UNCHANGED <<wl, pc, written, spawned, stop, rc, total, listing, online, workdir, fault,
                  stray>>
  BY DEF Worker, Server, Connect, ConnectFails, Send, Receive, ReceiveError, Account, BeginLoop,
         Loop, LeaveLoop, EndWorker, Serve, Refuse, Break, mainVars, serverVars, ghostVars
<1>2. \/ stage[w] \in {"connect", "body", "prepare", "loop", "finish"}
      \/ todo[w] # <<>> \/ call[w] # "none"
  BY DEF Worker, Server, Connect, ConnectFails, Send, Receive, ReceiveError, Account, BeginLoop,
         Loop, LeaveLoop, EndWorker, Serve, Refuse, Break
<1>3. IdleInv(w)
  BY DEF BenchInv, WorkerInv
<1> QED BY <1>1, <1>2, <1>3 DEF IdleInv

\* What such a step leaves alone.
Others(w) ==
    \A v \in Workers \ {w} :
        /\ stage'[v] = stage[v] /\ todo'[v] = todo[v] /\ call'[v] = call[v]
        /\ count'[v] = count[v] /\ tally'[v] = tally[v] /\ served'[v] = served[v]
        /\ v \in failed' <=> v \in failed

\* It keeps the invariant if it keeps w's part of it.
LEMMA WorkerKeeps ==
    ASSUME BenchInv, NEW w \in Workers, Worker(w) \/ Server(w), Others(w),
           WorkerTypes', ServerTypes', WorkerInv(w)'
    PROVE  BenchInv'
<1>1. /\ UNCHANGED <<wl, pc, written, spawned, stop, rc, total, listing, online, workdir,
                     fault, stray>>
      /\ stage[w] \notin {"none", "ended"}
  BY WorkerFrame
<1>2. pc \notin {"teardown", "print", "cleanup", "clear"} /\ ~(w > spawned)
  BY <1>1 DEF BenchInv, PhaseInv
<1>3. MainTypes'
  BY <1>1 DEF BenchInv, MainTypes
<1>4. PhaseInv'
  BY <1>1, <1>2 DEF BenchInv, PhaseInv, Others
<1>5. CleanInv' /\ TotalInv'
  BY <1>1, <1>2 DEF BenchInv, CleanInv, CleanedUp, TotalInv
<1>6. \A v \in Workers : WorkerInv(v)'
  <2>1. ASSUME NEW v \in Workers \ {w} PROVE WorkerInv(v)'
    BY <2>1, WorkerSame DEF BenchInv, Others
  <2> QED BY <2>1
<1> QED BY <1>3, <1>4, <1>5, <1>6 DEF BenchInv

\* The steps of a worker that count nothing and leave no operation uncounted.
LEMMA PlainKeeps ==
    ASSUME BenchInv, NEW w \in Workers,
           Connect(w) \/ BeginLoop(w) \/ LeaveLoop(w) \/ EndWorker(w)
    PROVE  BenchInv'
<1>1. /\ stage[w] \in {"connect", "prepare", "loop", "finish"} /\ call[w] = "none"
      /\ UNCHANGED <<call, count, offset, tally, entries, late, served, failed>>
      /\ \E st \in {"prepare", "loop", "finish", "ended"}, cs \in Seq(Calls) :
            /\ Enter(w, st, cs)
            /\ st \in {"loop", "ended"} => cs = <<>>
  <2>1. wl.prepare \in Seq(Calls) /\ wl.finish \in Seq(Calls) /\ <<>> \in Seq(Calls)
    BY WorkloadFacts DEF BenchInv, MainTypes
  <2>2. IdleInv(w)
    BY DEF BenchInv, WorkerInv
  <2> QED BY <2>1, <2>2 DEF Connect, BeginLoop, LeaveLoop, EndWorker, IdleInv, serverVars, ghostVars
<1>2. PICK st \in {"prepare", "loop", "finish", "ended"}, cs \in Seq(Calls) :
         Enter(w, st, cs) /\ (st \in {"loop", "ended"} => cs = <<>>)
  BY <1>1
<1>3. /\ stage'[w] = st /\ todo'[w] = cs /\ Others(w) /\ WorkerTypes'
  BY <1>1, <1>2 DEF BenchInv, WorkerTypes, Enter, Others, Stages
<1>4. ServerTypes'
  BY <1>1 DEF BenchInv, ServerTypes
<1>5. IdleInv(w) /\ CountInv(w) /\ ServedInv(w)
  BY DEF BenchInv, WorkerInv
<1>6. IdleInv(w)' /\ CountInv(w)'
  BY <1>1, <1>2, <1>3, <1>5 DEF IdleInv, CountInv
<1>7. ServedInv(w)'
  BY <1>1, <1>2, <1>3, <1>5 DEF ServedInv, Uncounted
<1> QED BY <1>3, <1>4, <1>6, <1>7, WorkerKeeps DEF WorkerInv, Worker

\* An operation of the loop begins.
LEMMA LoopKeeps ==
    ASSUME BenchInv, NEW w \in Workers, Loop(w)
    PROVE  BenchInv'
<1>1. /\ stage[w] = "loop" /\ tally[w].ops < MaxOps /\ Enter(w, "body", wl.body)
      /\ UNCHANGED <<call, count, tally, entries, late, served, failed>>
  BY DEF Loop, serverVars, ghostVars
<1>2. PICK o \in StartOffset(offset[w]) : offset' = [offset EXCEPT ![w] = o]
  BY DEF Loop
<1>3. o \in 0 .. FileSize - 1
  BY <1>2, StartsInside DEF BenchInv, WorkerTypes
<1>4. wl.body \in Seq(Calls) /\ wl.body # <<>>
  BY WorkloadFacts DEF BenchInv, MainTypes
<1>5. /\ stage'[w] = "body" /\ todo'[w] = wl.body /\ Others(w) /\ WorkerTypes'
  BY <1>1, <1>2, <1>3, <1>4 DEF BenchInv, WorkerTypes, Enter, Others, Stages
<1>6. ServerTypes'
  BY <1>1 DEF BenchInv, ServerTypes
<1>7. IdleInv(w) /\ CountInv(w) /\ ServedInv(w)
  BY DEF BenchInv, WorkerInv
<1>8. IdleInv(w)' /\ CountInv(w)' /\ call[w] = "none" /\ w \notin failed
  BY <1>1, <1>4, <1>5, <1>7 DEF IdleInv, CountInv, ServedInv
<1>9. ServedInv(w)'
  BY <1>1, <1>4, <1>5, <1>7, <1>8 DEF ServedInv, Uncounted
<1> QED BY <1>5, <1>6, <1>8, <1>9, WorkerKeeps DEF WorkerInv, Worker

\* A request is sent, or refused: nothing has been executed.
LEMMA RequestKeeps ==
    ASSUME BenchInv, NEW w \in Workers, Send(w) \/ Refuse(w)
    PROVE  BenchInv'
<1>1. /\ call[w] \in {"none", "request"} /\ todo[w] # <<>>
      /\ UNCHANGED <<stage, todo, count, offset, tally, entries, late, served, failed>>
      /\ \E c \in {"request", "error"} : call' = [call EXCEPT ![w] = c]
  BY DEF Send, Refuse, serverVars, ghostVars, BenchInv, WorkerInv, IdleInv
<1>2. PICK c \in {"request", "error"} : call' = [call EXCEPT ![w] = c]
  BY <1>1
<1>3. call'[w] = c /\ Others(w) /\ WorkerTypes'
  BY <1>1, <1>2 DEF BenchInv, WorkerTypes, Others
<1>4. ServerTypes'
  BY <1>1 DEF BenchInv, ServerTypes
<1>5. IdleInv(w) /\ CountInv(w) /\ ServedInv(w)
  BY DEF BenchInv, WorkerInv
<1>6. IdleInv(w)' /\ CountInv(w)'
  BY <1>1, <1>3, <1>5 DEF IdleInv, CountInv
<1>7. ServedInv(w)'
  BY <1>1, <1>3, <1>5 DEF ServedInv, Uncounted
<1> QED BY <1>3, <1>4, <1>6, <1>7, WorkerKeeps DEF WorkerInv, Worker, Server

\* A reply arrives: the call was executed before.
LEMMA ReceiveKeeps ==
    ASSUME BenchInv, NEW w \in Workers, Receive(w)
    PROVE  BenchInv'
<1>1. /\ call[w] = "ok" /\ todo' = [todo EXCEPT ![w] = Tail(@)]
      /\ call' = [call EXCEPT ![w] = "none"]
      /\ UNCHANGED <<stage, count, offset, tally, entries, late, served, failed>>
  BY DEF Receive, serverVars, ghostVars
<1>2. IdleInv(w) /\ CountInv(w) /\ ServedInv(w) /\ todo[w] \in Seq(Calls)
  BY DEF BenchInv, WorkerInv, WorkerTypes
<1>3. PICK t : t = todo[w]
  OBVIOUS
<1>4. /\ t \in Seq(Calls) /\ t # <<>> /\ Tail(t) \in Seq(Calls)
      /\ Len(t) = 1 <=> Tail(t) = <<>>
  <2>1. t \in Seq(Calls) /\ t # <<>>
    BY <1>1, <1>2, <1>3 DEF IdleInv
  <2>2. Tail(t) \in Seq(Calls) /\ Len(t) \in Nat /\ Len(Tail(t)) = Len(t) - 1
    BY <2>1
  <2>3. Tail(t) = <<>> <=> Len(Tail(t)) = 0
    BY <2>2, EmptySeq
  <2> QED BY <2>1, <2>2, <2>3
<1>5. call'[w] = "none" /\ todo'[w] = Tail(t) /\ Others(w) /\ WorkerTypes'
  BY <1>1, <1>3, <1>4 DEF BenchInv, WorkerTypes, Others
<1>6. ServerTypes'
  BY <1>1 DEF BenchInv, ServerTypes
<1>7. IdleInv(w)' /\ CountInv(w)'
  <2>1. stage[w] \notin {"none", "connect", "loop", "ended"}
    BY <1>2, <1>3, <1>4 DEF IdleInv
  <2> QED BY <1>1, <1>2, <1>5, <2>1 DEF IdleInv, CountInv
<1>8. Uncounted(w)' <=> Uncounted(w)
  BY <1>1, <1>3, <1>4, <1>5 DEF Uncounted
<1>9. ServedInv(w)'
  BY <1>1, <1>2, <1>8 DEF ServedInv
<1> QED BY <1>5, <1>6, <1>7, <1>9, WorkerKeeps DEF WorkerInv, Worker

\* The thread ends with an exception, which loses at most the operation it was in.
LEMMA ExceptionKeeps ==
    ASSUME BenchInv, NEW w \in Workers, ConnectFails(w) \/ ReceiveError(w) \/ Break(w)
    PROVE  BenchInv'
<1>1. /\ Enter(w, "ended", <<>>) /\ failed' = failed \cup {w}
      /\ UNCHANGED <<count, offset, tally, entries, served>>
      /\ call' = [call EXCEPT ![w] = "none"] \/ (call' = call /\ call[w] = "none")
  <2>1. stage[w] = "connect" => call[w] = "none"
    BY DEF BenchInv, WorkerInv, IdleInv
  <2> QED BY <2>1 DEF ConnectFails, ReceiveError, Break, serverVars
<1>2. IdleInv(w) /\ CountInv(w) /\ ServedInv(w) /\ todo[w] \in Seq(Calls)
  BY DEF BenchInv, WorkerInv, WorkerTypes
<1>3. late' \subseteq Workers \X Calls
  <2>1. CASE Break(w)
    <3>1. todo[w] # <<>>
      BY <1>2, <2>1 DEF Break, IdleInv
    <3>2. Head(todo[w]) \in Calls
      BY <1>2, <3>1
    <3> QED BY <2>1, <3>2 DEF Break, BenchInv, ServerTypes
  <2>2. CASE ConnectFails(w) \/ ReceiveError(w)
    BY <2>2 DEF ConnectFails, ReceiveError, serverVars, BenchInv, ServerTypes
  <2> QED BY <2>1, <2>2
<1>4. stage'[w] = "ended" /\ todo'[w] = <<>> /\ call'[w] = "none" /\ Others(w) /\ WorkerTypes'
  <2>1. <<>> \in Seq(Calls)
    OBVIOUS
  <2> QED BY <1>1, <2>1 DEF BenchInv, WorkerTypes, Enter, Others, Stages
<1>5. ServerTypes'
  BY <1>1, <1>3 DEF BenchInv, ServerTypes
<1>6. IdleInv(w)' /\ CountInv(w)'
  BY <1>1, <1>2, <1>4 DEF IdleInv, CountInv
<1>7. ServedInv(w)'
  <2>1. PICK a, b, c, d, n : /\ a = tally[w].ops /\ b = tally[w].bytes
                             /\ c = served[w].ops /\ d = served[w].bytes /\ n = count[w]
    OBVIOUS
  <2>2. /\ a \in Nat /\ b \in Nat /\ c \in Nat /\ d \in Nat /\ n \in 0 .. BlockSize
        /\ BlockSize \in Nat
    BY <2>1, BenchAssumption DEF BenchInv, WorkerTypes, ServerTypes
  <2>3. w \notin failed
    <3>1. stage[w] # "ended"
      BY WorkerFrame DEF Worker, Server
    <3> QED BY <1>2, <3>1 DEF ServedInv
  <2>4. \/ c = a + 1 /\ d = b + n
        \/ c = a /\ d = b
    BY <1>2, <2>1, <2>3 DEF ServedInv
  <2>5. c \in a .. a + 1 /\ d \in b .. b + BlockSize
    BY <2>2, <2>4
  <2>6. ~Uncounted(w)' /\ w \in failed' /\ tally' = tally /\ served' = served
    BY <1>1, <1>4 DEF Uncounted
  <2> QED BY <1>4, <2>1, <2>5, <2>6 DEF ServedInv
<1> QED BY <1>4, <1>5, <1>6, <1>7, WorkerKeeps DEF WorkerInv, Worker, Server

\* The server executes a call; the last one of an operation of the loop is counted for it.
LEMMA ServeKeeps ==
    ASSUME BenchInv, NEW w \in Workers, Serve(w)
    PROVE  BenchInv'
<1>1. PICK n \in Moved(Head(todo[w])) : /\ Execute(w, Head(todo[w]), n)
                                        /\ count' = [count EXCEPT ![w] = n]
  BY DEF Serve
<1>2. /\ call[w] = "request" /\ call' = [call EXCEPT ![w] = "ok"]
      /\ UNCHANGED <<stage, todo, offset, tally, late, failed>>
  BY DEF Serve
<1>3. n \in 0 .. BlockSize /\ n \in Nat
  BY BenchAssumption DEF Moved
<1>4. IdleInv(w) /\ CountInv(w) /\ ServedInv(w)
  BY DEF BenchInv, WorkerInv
<1>5. call'[w] = "ok" /\ count'[w] = n /\ WorkerTypes'
  BY <1>1, <1>2, <1>3 DEF BenchInv, WorkerTypes
<1>6. \A v \in Workers \ {w} : call'[v] = call[v] /\ count'[v] = count[v]
  BY <1>1, <1>2 DEF BenchInv, WorkerTypes
<1>7. entries' \subseteq Workers \cup {bench_data}
  BY <1>1 DEF Execute, BenchInv, ServerTypes
<1>8. IdleInv(w)' /\ CountInv(w)' /\ ~Uncounted(w) /\ w \notin failed
  <2>1. todo[w] # <<>>
    BY <1>2, <1>4 DEF IdleInv
  <2>2. w \notin failed
    <3>1. stage[w] # "ended"
      BY <1>4, <2>1 DEF IdleInv
    <3> QED BY <1>4, <3>1 DEF ServedInv
  <2> QED BY <1>2, <1>4, <1>5, <2>1, <2>2 DEF IdleInv, CountInv, Uncounted
<1>9. CASE stage[w] = "body" /\ Len(todo[w]) = 1
  <2>1. served' = [served EXCEPT ![w].ops = @ + 1, ![w].bytes = @ + n]
    BY <1>1, <1>9 DEF Execute
  <2>2. served \in [Workers -> [ops : Nat, bytes : Nat]]
    BY DEF BenchInv, ServerTypes
  <2>3. /\ served'[w].ops = served[w].ops + 1 /\ served'[w].bytes = served[w].bytes + n
        /\ \A v \in Workers \ {w} : served'[v] = served[v]
    BY <2>1, <2>2
  <2>4. served' \in [Workers -> [ops : Nat, bytes : Nat]]
    <3>1. PICK x, y : x = served[w].ops + 1 /\ y = served[w].bytes + n
      OBVIOUS
    <3>2. x \in Nat /\ y \in Nat
      BY <1>3, <2>2, <3>1
    <3>3. served' = [served EXCEPT ![w] = [served[w] EXCEPT !.ops = x, !.bytes = y]]
      BY <2>1, <2>2, <3>1, Zenon
    <3>4. [served[w] EXCEPT !.ops = x, !.bytes = y] \in [ops : Nat, bytes : Nat]
      BY <2>2, <3>2
    <3> QED BY <2>2, <3>3, <3>4
  <2>5. ServerTypes' /\ Others(w)
    BY <1>2, <1>6, <1>7, <2>3, <2>4 DEF BenchInv, ServerTypes, Others
  <2>6. ServedInv(w)'
    BY <1>2, <1>4, <1>5, <1>8, <1>9, <2>3 DEF ServedInv, Uncounted
  <2> QED BY <1>5, <1>8, <2>5, <2>6, WorkerKeeps DEF WorkerInv, Server
<1>10. CASE ~(stage[w] = "body" /\ Len(todo[w]) = 1)
  <2>1. served' = served
    BY <1>1, <1>10 DEF Execute
  <2>2. ServerTypes' /\ Others(w)
    BY <1>2, <1>6, <1>7, <2>1 DEF BenchInv, ServerTypes, Others
  <2>3. ~Uncounted(w)'
    BY <1>2, <1>4, <1>10 DEF Uncounted, IdleInv
  <2>4. ServedInv(w)'
    BY <1>2, <1>4, <1>8, <2>1, <2>3 DEF ServedInv
  <2> QED BY <1>5, <1>8, <2>2, <2>4, WorkerKeeps DEF WorkerInv, Server
<1> QED BY <1>9, <1>10

\* The worker counts the operation.
LEMMA AccountKeeps ==
    ASSUME BenchInv, NEW w \in Workers, Account(w)
    PROVE  BenchInv'
<1>1. /\ stage[w] = "body" /\ todo[w] = <<>> /\ Enter(w, "loop", <<>>)
      /\ tally' = [tally EXCEPT ![w].samples = @ + 1, ![w].ops = @ + 1,
                                ![w].bytes = @ + count[w]]
      /\ offset' = [offset EXCEPT ![w] = NextOffset(@, count[w])]
      /\ count' = [count EXCEPT ![w] = 0]
      /\ UNCHANGED <<call, entries, late, served, failed>>
  BY DEF Account, serverVars, ghostVars
<1>2. IdleInv(w) /\ CountInv(w) /\ ServedInv(w) /\ WorkerTypes
  BY DEF BenchInv, WorkerInv
<1>3. PICK n : n = count[w]
  OBVIOUS
<1>4. n \in 0 .. BlockSize /\ n \in Nat /\ BlockSize \in Nat /\ 0 \in 0 .. BlockSize
  BY <1>2, <1>3, BenchAssumption DEF WorkerTypes
<1>5. /\ tally'[w].samples = tally[w].samples + 1 /\ tally'[w].ops = tally[w].ops + 1
      /\ tally'[w].bytes = tally[w].bytes + n
      /\ \A v \in Workers \ {w} : tally'[v] = tally[v]
  BY <1>1, <1>2, <1>3 DEF WorkerTypes
<1>6. tally' \in [Workers -> [samples : Nat, ops : Nat, bytes : Nat]]
  <2>1. PICK x, y, z : x = tally[w].samples + 1 /\ y = tally[w].ops + 1 /\ z = tally[w].bytes + n
    OBVIOUS
  <2>2. x \in Nat /\ y \in Nat /\ z \in Nat
    <3>1. tally[w].samples \in Nat /\ tally[w].ops \in Nat /\ tally[w].bytes \in Nat
      BY <1>2 DEF WorkerTypes
    <3> QED BY <1>4, <2>1, <3>1
  <2>3. tally' = [tally EXCEPT ![w] = [tally[w] EXCEPT !.samples = x, !.ops = y, !.bytes = z]]
    BY <1>1, <1>2, <1>3, <2>1, Zenon DEF WorkerTypes
  <2>4. tally[w] \in [samples : Nat, ops : Nat, bytes : Nat]
    BY <1>2 DEF WorkerTypes
  <2>5. [tally[w] EXCEPT !.samples = x, !.ops = y, !.bytes = z]
            \in [samples : Nat, ops : Nat, bytes : Nat]
    BY <2>2, <2>4
  <2> QED BY <1>2, <2>3, <2>5 DEF WorkerTypes
<1>7. offset' \in [Workers -> 0 .. FileSize - 1]
  <2>1. offset[w] \in 0 .. FileSize - 1
    BY <1>2 DEF WorkerTypes
  <2>2. NextOffset(offset[w], n) \in 0 .. FileSize - 1
    BY <1>4, <2>1, NextInside
  <2> QED BY <1>1, <1>2, <1>3, <2>2 DEF WorkerTypes
<1>8. /\ stage'[w] = "loop" /\ todo'[w] = <<>> /\ Others(w)
      /\ stage' \in [Workers -> Stages] /\ todo' \in [Workers -> Seq(Calls)]
      /\ count' \in [Workers -> 0 .. BlockSize]
  <2>1. <<>> \in Seq(Calls)
    OBVIOUS
  <2> QED BY <1>1, <1>2, <1>4, <1>5, <2>1 DEF WorkerTypes, Enter, Others, Stages
<1>9. WorkerTypes'
  BY <1>1, <1>2, <1>6, <1>7, <1>8 DEF WorkerTypes
<1>10. ServerTypes'
  BY <1>1 DEF BenchInv, ServerTypes
<1>11. IdleInv(w)'
  BY <1>1, <1>2, <1>8 DEF IdleInv
<1>12. CountInv(w)'
  <2>1. PICK a, b : a = tally[w].ops /\ b = tally[w].bytes
    OBVIOUS
  <2>2. a \in Nat /\ b \in Nat /\ a < MaxOps /\ b <= a * BlockSize /\ MaxOps \in Nat
    BY <1>1, <1>2, <2>1, BenchAssumption DEF WorkerTypes, CountInv
  <2>3. (a + 1) * BlockSize = a * BlockSize + BlockSize /\ a * BlockSize \in Nat
    BY <1>4, <2>2
  <2>4. b + n <= (a + 1) * BlockSize /\ a + 1 <= MaxOps
    BY <1>4, <2>2, <2>3
  <2>5. tally'[w].ops = a + 1 /\ tally'[w].bytes = b + n /\ tally'[w].samples = a + 1
    BY <1>2, <1>5, <2>1 DEF CountInv
  <2> QED BY <1>8, <2>4, <2>5 DEF CountInv
<1>13. ServedInv(w)'
  <2>1. served[w].ops = tally[w].ops + 1 /\ served[w].bytes = tally[w].bytes + n
    BY <1>1, <1>2, <1>3 DEF ServedInv, Uncounted
  <2>2. w \notin failed
    BY <1>1, <1>2 DEF ServedInv
  <2>3. ~Uncounted(w)'
    BY <1>8 DEF Uncounted
  <2> QED BY <1>1, <1>5, <2>1, <2>2, <2>3 DEF ServedInv
<1> QED BY <1>8, <1>9, <1>10, <1>11, <1>12, <1>13, WorkerKeeps DEF WorkerInv, Worker

-----------------------------------------------------------------------------
(* The theorems.                                                           *)

\* BenchInv holds in every state.
LEMMA BenchInvariance == Spec => []BenchInv
<1>1. Init => BenchInv
  <2> SUFFICES ASSUME Init PROVE BenchInv
    OBVIOUS
  <2> USE BenchAssumption DEF Init
  <2>1. MainTypes
    <3>1. stop \in BOOLEAN /\ online \in BOOLEAN
      BY Zenon
    <3>2. wl \in Registry /\ pc \in Phases
      BY Zenon DEF Phases
    <3>3. written \in 0 .. FileSize /\ spawned \in 0 .. N /\ rc \in {0, 1} /\ listing = {}
      OBVIOUS
    <3> QED BY <3>1, <3>2, <3>3, Zenon DEF MainTypes
  <2>2. WorkerTypes
    <3>1. <<>> \in Seq(Calls) /\ 0 \in 0 .. BlockSize /\ 0 \in 0 .. FileSize - 1
      OBVIOUS
    <3> QED BY <3>1 DEF WorkerTypes, Stages
  <2>3. ServerTypes
    BY DEF ServerTypes, Zero
  <2>4. PhaseInv /\ CleanInv /\ TotalInv
    BY DEF PhaseInv, CleanInv, CleanedUp, TotalInv
  <2>5. ASSUME NEW w \in Workers PROVE WorkerInv(w)
    <3>1. /\ stage[w] = "none" /\ todo[w] = <<>> /\ call[w] = "none" /\ w \notin failed
          /\ tally[w].samples = 0 /\ tally[w].ops = 0 /\ tally[w].bytes = 0
          /\ served[w].ops = 0 /\ served[w].bytes = 0
      BY DEF Zero
    <3>2. 0 * BlockSize = 0
      OBVIOUS
    <3> QED BY <3>1, <3>2 DEF WorkerInv, IdleInv, CountInv, ServedInv, Uncounted
  <2> QED BY <2>1, <2>2, <2>3, <2>4, <2>5 DEF BenchInv
<1>2. BenchInv /\ [Next]_vars => BenchInv'
  <2> SUFFICES ASSUME BenchInv, [Next]_vars PROVE BenchInv'
    OBVIOUS
  <2>1. CASE Main
    BY <2>1, MainKeeps
  <2>2. ASSUME NEW w \in Workers, Worker(w) \/ Server(w) PROVE BenchInv'
    BY <2>2, PlainKeeps, LoopKeeps, RequestKeeps, ReceiveKeeps, ExceptionKeeps, ServeKeeps,
       AccountKeeps DEF Worker, Server
  <2>3. CASE ServeLate \/ DropLate
    BY <2>3, LateKeeps
  <2>4. CASE UNCHANGED vars
    <3>1. UNCHANGED <<wl, pc, written, spawned, stop, rc, total, listing, online, stage, todo, call,
                      count, offset, tally, workdir, entries, late, served, failed, fault, stray>>
      BY <2>4 DEF vars, mainVars, workerVars, serverVars, ghostVars
    <3>2. MainTypes' /\ WorkerTypes' /\ ServerTypes' /\ PhaseInv'
      BY <3>1 DEF BenchInv, MainTypes, WorkerTypes, ServerTypes, PhaseInv
    <3>3. CleanInv' /\ TotalInv'
      BY <3>1 DEF BenchInv, CleanInv, CleanedUp, TotalInv, Sum
    <3>4. \A w \in Workers : WorkerInv(w)'
      BY <3>1, WorkerSame DEF BenchInv
    <3> QED BY <3>2, <3>3, <3>4 DEF BenchInv
  <2> QED BY <2>1, <2>2, <2>3, <2>4 DEF Next
<1> QED BY <1>1, <1>2, PTL DEF Spec

\* Every variable keeps its type; in particular no worker ever reads or writes outside of
\* the file, whatever counts the server returned, and no counter exceeds its bound.
THEOREM TypeCorrect == Spec => []TypeOK
<1>1. BenchInv => TypeOK
  <2> SUFFICES ASSUME BenchInv PROVE TypeOK
    OBVIOUS
  <2>1. tally \in [Workers -> Counts]
    <3>1. ASSUME NEW w \in Workers PROVE tally[w] \in Counts
      <4>1. PICK a, b : a = tally[w].ops /\ b = tally[w].bytes
        OBVIOUS
      <4>2. /\ tally[w] \in [samples : Nat, ops : Nat, bytes : Nat] /\ tally[w].samples = a
            /\ a <= MaxOps /\ b <= a * BlockSize
        BY <4>1 DEF BenchInv, WorkerTypes, WorkerInv, CountInv
      <4>3. a \in Nat /\ b \in Nat /\ MaxOps \in Nat /\ BlockSize \in Nat
        BY <4>1, <4>2, BenchAssumption
      <4>4. a * BlockSize <= MaxOps * BlockSize /\ a * BlockSize \in Nat
            /\ MaxOps * BlockSize \in Nat
        BY <4>2, <4>3
      <4>5. a \in 0 .. MaxOps /\ b \in 0 .. MaxOps * BlockSize
        BY <4>2, <4>3, <4>4
      <4> QED BY <4>1, <4>2, <4>5 DEF Counts
    <3> QED BY <3>1 DEF BenchInv, WorkerTypes
  <2> QED BY <2>1 DEF TypeOK, BenchInv, MainTypes, WorkerTypes, ServerTypes
<1> QED BY <1>1, BenchInvariance, PTL

\* However setup, the workers and teardown ended, and whatever requests of broken connections
\* arrived before, main's clean-up leaves no directory behind.
THEOREM DirectoryGone == Spec => []CleanedUp
<1>1. BenchInv => CleanedUp
  BY DEF BenchInv, CleanInv
<1> QED BY <1>1, BenchInvariance, PTL

\* The totals printed are what the server executed for all workers, less at most one
\* operation of each worker that ended with an exception: for any number of threads.
THEOREM TotalsCorrect == Spec => []TotalsExact
<1>1. BenchInv => TotalsExact
  <2> SUFFICES ASSUME BenchInv, pc \in {"teardown", "print"}
               PROVE  /\ total.samples = total.ops
                      /\ total.ops \in Sum(served, "ops") - Cardinality(failed)
                                           .. Sum(served, "ops")
                      /\ total.bytes \in Sum(served, "bytes") - Cardinality(failed) * BlockSize
                                             .. Sum(served, "bytes")
    BY DEF TotalsExact
  <2> DEFINE F(f) == [w \in Workers |-> tally[w][f]]
             G(f) == [w \in Workers |-> served[w][f]]
  <2>1. /\ total.samples = SumFunction(F("samples")) /\ total.ops = SumFunction(F("ops"))
        /\ total.bytes = SumFunction(F("bytes"))
    BY DEF BenchInv, TotalInv, Fields, Sum
  <2>2. IsFiniteSet(Workers) /\ failed \in SUBSET Workers /\ BlockSize \in Nat /\ 1 \in Nat
    BY BenchAssumption, FS_Interval DEF Workers, BenchInv, ServerTypes
  <2>3. \A w \in Workers : /\ tally[w].samples = tally[w].ops
                            /\ tally[w].ops \in Nat /\ tally[w].bytes \in Nat
                            /\ served[w].ops \in Nat /\ served[w].bytes \in Nat
    BY DEF BenchInv, WorkerInv, CountInv, WorkerTypes, ServerTypes
  <2>4. F("samples") = F("ops")
    BY <2>3
  <2>5. /\ F("ops") \in [Workers -> Int] /\ G("ops") \in [Workers -> Int]
        /\ F("bytes") \in [Workers -> Int] /\ G("bytes") \in [Workers -> Int]
    BY <2>3
  <2>6. ASSUME NEW w \in Workers
        PROVE  /\ F("ops")[w] <= G("ops")[w]
               /\ G("ops")[w] <= F("ops")[w] + (IF w \in failed THEN 1 ELSE 0)
               /\ F("bytes")[w] <= G("bytes")[w]
               /\ G("bytes")[w] <= F("bytes")[w] + (IF w \in failed THEN BlockSize ELSE 0)
    <3>1. PICK a, b, c, d : /\ a = tally[w].ops /\ b = tally[w].bytes
                            /\ c = served[w].ops /\ d = served[w].bytes
      OBVIOUS
    <3>2. ServedInv(w) /\ ~Uncounted(w)
      BY DEF BenchInv, WorkerInv, PhaseInv, Uncounted
    <3>3. a \in Nat /\ b \in Nat /\ c \in Nat /\ d \in Nat
      BY <2>3, <3>1
    <3>4. IF w \in failed THEN c \in a .. a + 1 /\ d \in b .. b + BlockSize ELSE c = a /\ d = b
      BY <3>1, <3>2 DEF ServedInv
    <3>5. /\ a <= c /\ c <= a + (IF w \in failed THEN 1 ELSE 0)
          /\ b <= d /\ d <= b + (IF w \in failed THEN BlockSize ELSE 0)
      BY <2>2, <3>3, <3>4
    <3>6. F("ops")[w] = a /\ F("bytes")[w] = b /\ G("ops")[w] = c /\ G("bytes")[w] = d
      BY <3>1
    <3> HIDE DEF F, G
    <3> QED BY <3>5, <3>6
  <2> HIDE DEF F, G
  <2>7. /\ SumFunction(F("ops")) \in Int /\ SumFunction(G("ops")) \in Int
        /\ SumFunction(F("ops")) <= SumFunction(G("ops"))
        /\ SumFunction(G("ops")) - Cardinality(failed) * 1 <= SumFunction(F("ops"))
    BY <2>2, <2>5, <2>6, SumsClose
  <2>8. /\ SumFunction(F("bytes")) \in Int /\ SumFunction(G("bytes")) \in Int
        /\ SumFunction(F("bytes")) <= SumFunction(G("bytes"))
        /\ SumFunction(G("bytes")) - Cardinality(failed) * BlockSize <= SumFunction(F("bytes"))
    BY <2>2, <2>5, <2>6, SumsClose
  <2>9. Sum(served, "ops") = SumFunction(G("ops")) /\ Sum(served, "bytes") = SumFunction(G("bytes"))
    BY DEF Sum, G
  <2>10. Cardinality(failed) \in Nat
    BY <2>2, FS_Subset, FS_CardinalityType
  <2>11. /\ Cardinality(failed) * 1 = Cardinality(failed)
         /\ Cardinality(failed) * BlockSize \in Int
    BY <2>2, <2>10
  <2>12. total.samples = total.ops
    BY <2>1, <2>4
  <2>13. total.ops \in Sum(served, "ops") - Cardinality(failed) .. Sum(served, "ops")
    BY <2>1, <2>7, <2>9, <2>10, <2>11
  <2>14. total.bytes \in Sum(served, "bytes") - Cardinality(failed) * BlockSize
                            .. Sum(served, "bytes")
    BY <2>1, <2>8, <2>9, <2>11
  <2> QED BY <2>12, <2>13, <2>14
<1> QED BY <1>1, BenchInvariance, PTL
=============================================================================

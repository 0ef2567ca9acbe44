----------------------- MODULE ModelProcessor_proofs -----------------------
(***************************************************************************)
(* Theorems about what the ranks create without talking to each other, for *)
(* any mesh, partition and list of analyses, and any number of ranks; and, *)
(* for the theorems about hooks and loads, what the mesh's tables of edges *)
(* and faces and the numbering of the nodes give: an id stands for one     *)
(* point of the mesh, whichever rank computes it.                          *)
(***************************************************************************)
EXTENDS ModelProcessor, Reductions, Integers, FiniteSetTheorems, SequenceTheorems,
        TLAPS

(***************************************************************************)
(* A nonempty set of natural numbers has a least element.                  *)
(***************************************************************************)
LEMMA LeastElement ==
  ASSUME NEW T \in SUBSET Nat, T # {}
  PROVE  \E x \in T : \A y \in T : x <= y
<1> DEFINE Below == {0..(n-1) : n \in T}
<1>1. IsWellFoundedOn(StrictSubsetOrdering(Nat), FiniteSubsetsOf(Nat))
  BY FS_StrictSubsetOrderingWellFounded
<1>2. Below \subseteq FiniteSubsetsOf(Nat)
  <2>1. \A n \in Nat : IsFiniteSet(0..(n-1))
    BY FS_Interval
  <2> QED BY <2>1 DEF FiniteSubsetsOf
<1>3. Below # {}
  OBVIOUS
<1>4. PICK b \in Below : \A c \in Below : <<c, b>> \notin StrictSubsetOrdering(Nat)
  <2> HIDE DEF Below
  <2> QED BY <1>1, <1>2, <1>3, WFMin
<1>5. PICK x \in T : b = 0..(x-1)
  OBVIOUS
<1>6. ASSUME NEW y \in T, y < x
      PROVE  FALSE
  <2>1. 0..(y-1) \subseteq 0..(x-1) /\ 0..(y-1) # 0..(x-1)
    <3>1. y \in 0..(x-1) /\ y \notin 0..(y-1)
      BY <1>6
    <3>2. 0..(y-1) \subseteq 0..(x-1)
      BY <1>6
    <3> QED BY <3>1, <3>2
  <2>2. 0..(y-1) \in SUBSET Nat /\ 0..(x-1) \in SUBSET Nat
    OBVIOUS
  <2>3. <<0..(y-1), b>> \in StrictSubsetOrdering(Nat)
    BY <2>1, <2>2, <1>5 DEF StrictSubsetOrdering
  <2> QED BY <2>3, <1>4
<1> QED BY <1>6

(***************************************************************************)
(* The recursive function exists: its domain grows one index at a time.    *)
(***************************************************************************)
LEMMA RunningSumExists ==
  ASSUME NEW w, NEW n \in Nat
  PROVE  \E f : f = [i \in 0..n |-> IF i = 0 THEN 0 ELSE f[i-1] + w[i-1]]
<1> DEFINE IsSum(f, m) == f = [i \in 0..m |-> IF i = 0 THEN 0 ELSE f[i-1] + w[i-1]]
<1> DEFINE Bad == {m \in Nat : ~ \E f : IsSum(f, m)}
<1> SUFFICES Bad = {}
  OBVIOUS
<1> SUFFICES ASSUME Bad # {} PROVE FALSE
  OBVIOUS
<1>1. PICK m \in Bad : \A k \in Bad : m <= k
  <2>1. Bad \in SUBSET Nat
    OBVIOUS
  <2> HIDE DEF Bad
  <2> QED BY <2>1, LeastElement
<1>2. IsSum([i \in 0..0 |-> 0], 0)
  OBVIOUS
<1>3. m # 0
  BY <1>2
<1>4. PICK f : IsSum(f, m-1)
  BY <1>1, <1>3
<1> DEFINE g == [i \in 0..m |-> IF i = m THEN f[m-1] + w[m-1] ELSE f[i]]
<1>5. IsSum(g, m)
  <2>1. ASSUME NEW i \in 0..m
        PROVE  g[i] = IF i = 0 THEN 0 ELSE g[i-1] + w[i-1]
    <3>1. CASE i = m
      BY <3>1, <1>3
    <3>2. CASE i # m
      <4>1. i \in 0..(m-1)
        BY <3>2
      <4>2. f[i] = IF i = 0 THEN 0 ELSE f[i-1] + w[i-1]
        BY <4>1, <1>4
      <4>3. i # 0 => i-1 \in 0..m /\ i-1 # m
        BY <4>1
      <4> QED BY <4>1, <4>2, <4>3, <3>2
    <3> QED BY <3>1, <3>2
  <2> QED BY <2>1
<1> QED BY <1>5

(***************************************************************************)
(* The equations of the loop.                                              *)
(***************************************************************************)
LEMMA RunningSumFcn ==
  ASSUME NEW w, NEW n \in Nat
  PROVE  \E f : /\ f = [i \in 0..n |-> IF i = 0 THEN 0 ELSE f[i-1] + w[i-1]]
                /\ RunningSum(w, n) = f[n]
<1> DEFINE F == CHOOSE f : f = [i \in 0..n |-> IF i = 0 THEN 0 ELSE f[i-1] + w[i-1]]
<1>1. F = [i \in 0..n |-> IF i = 0 THEN 0 ELSE F[i-1] + w[i-1]]
  BY RunningSumExists
<1>2. RunningSum(w, n) = F[n]
  BY DEF RunningSum
<1> QED BY <1>1, <1>2

(***************************************************************************)
(* Two such tables agree wherever both are defined.                        *)
(***************************************************************************)
TabulatesSum(f, w, n) ==
  \A i \in 0..n : f[i] = IF i = 0 THEN 0 ELSE f[i-1] + w[i-1]

LEMMA RunningSumUnique ==
  ASSUME NEW w, NEW m \in Nat, NEW n \in Nat, m <= n, NEW f, NEW g,
         TabulatesSum(f, w, m), TabulatesSum(g, w, n)
  PROVE  \A i \in 0..m : f[i] = g[i]
<1> USE DEF TabulatesSum
<1> DEFINE Bad == {i \in 0..m : f[i] # g[i]}
<1> SUFFICES ASSUME Bad # {} PROVE FALSE
  OBVIOUS
<1>1. PICK i \in Bad : \A j \in Bad : i <= j
  <2>1. Bad \in SUBSET Nat
    OBVIOUS
  <2> HIDE DEF Bad
  <2> QED BY <2>1, LeastElement
<1>2. i \in 0..m /\ i \in 0..n
  OBVIOUS
<1>3. CASE i = 0
  BY <1>2, <1>3
<1>4. CASE i # 0
  <2>1. i-1 \in 0..m /\ i-1 < i /\ i \in Nat
    BY <1>2, <1>4
  <2>2. i-1 \notin Bad
    <3> HIDE DEF Bad
    <3> QED BY <1>1, <2>1
  <2>3. f[i-1] = g[i-1]
    BY <2>1, <2>2
  <2>4. f[i] = f[i-1] + w[i-1] /\ g[i] = g[i-1] + w[i-1]
    BY <1>2, <1>4
  <2> QED BY <2>3, <2>4
<1> QED BY <1>3, <1>4

(***************************************************************************)
(* The equations of the loop: it starts at 0, and each turn adds one       *)
(* count.                                                                  *)
(***************************************************************************)
LEMMA RunningSumZero ==
  ASSUME NEW w
  PROVE  RunningSum(w, 0) = 0
BY RunningSumFcn

LEMMA RunningSumStep ==
  ASSUME NEW w, NEW n \in Nat
  PROVE  RunningSum(w, n+1) = RunningSum(w, n) + w[n]
<1>1. PICK f : /\ f = [i \in 0..n |-> IF i = 0 THEN 0 ELSE f[i-1] + w[i-1]]
               /\ RunningSum(w, n) = f[n]
  BY RunningSumFcn
<1>2. PICK g : /\ g = [i \in 0..(n+1) |-> IF i = 0 THEN 0 ELSE g[i-1] + w[i-1]]
               /\ RunningSum(w, n+1) = g[n+1]
  BY RunningSumFcn, n+1 \in Nat
<1>3. f[n] = g[n]
  <2>1. n+1 \in Nat /\ n <= n+1 /\ n \in 0..n
    OBVIOUS
  <2>2. TabulatesSum(f, w, n)
    BY <1>1 DEF TabulatesSum
  <2>3. TabulatesSum(g, w, n+1)
    BY <1>2 DEF TabulatesSum
  <2>4. \A i \in 0..n : f[i] = g[i]
    BY <2>1, <2>2, <2>3, RunningSumUnique
  <2> QED BY <2>1, <2>4
<1>4. g[n+1] = g[n] + w[n]
  <2>1. n+1 \in 0..(n+1) /\ n+1 # 0 /\ (n+1)-1 = n
    OBVIOUS
  <2> QED BY <1>2, <2>1
<1> QED BY <1>1, <1>2, <1>3, <1>4

(***************************************************************************)
(* Sums of natural numbers are natural numbers, whatever prefix is taken.  *)
(***************************************************************************)
LEMMA RunningSumNat ==
  ASSUME NEW N \in Nat, NEW w \in [0..(N-1) -> Nat]
  PROVE  \A n \in 0..N : RunningSum(w, n) \in Nat
<1> DEFINE Bad == {n \in 0..N : RunningSum(w, n) \notin Nat}
<1> SUFFICES ASSUME Bad # {} PROVE FALSE
  OBVIOUS
<1>1. PICK n \in Bad : \A k \in Bad : n <= k
  <2>1. Bad \in SUBSET Nat
    OBVIOUS
  <2> HIDE DEF Bad
  <2> QED BY <2>1, LeastElement
<1>2. n # 0
  BY RunningSumZero
<1>3. n-1 \in Nat /\ n-1 \in 0..(N-1) /\ n-1 \in 0..N /\ (n-1)+1 = n
  BY <1>2
<1>4. n-1 \notin Bad
  BY <1>1, <1>3
<1>5. RunningSum(w, n-1) \in Nat
  BY <1>3, <1>4
<1>6. RunningSum(w, n) = RunningSum(w, n-1) + w[n-1]
  BY <1>3, RunningSumStep
<1>7. w[n-1] \in Nat
  BY <1>3
<1>8. RunningSum(w, n) \in Nat
  BY <1>5, <1>6, <1>7
<1> QED BY <1>8

(***************************************************************************)
(* The blocks [RunningSum(i), RunningSum(i) + w[i]) follow one another.    *)
(***************************************************************************)
LEMMA RunningSumOrdered ==
  ASSUME NEW N \in Nat, NEW w \in [0..(N-1) -> Nat]
  PROVE  \A n \in 0..N, i \in 0..(N-1) :
            i < n => RunningSum(w, i) + w[i] <= RunningSum(w, n)
<1> DEFINE Bad == {n \in 0..N : \E i \in 0..(N-1) :
                     i < n /\ ~ (RunningSum(w, i) + w[i] <= RunningSum(w, n))}
<1> SUFFICES ASSUME Bad # {} PROVE FALSE
  OBVIOUS
<1>1. PICK n \in Bad : \A k \in Bad : n <= k
  <2>1. Bad \in SUBSET Nat
    OBVIOUS
  <2> HIDE DEF Bad
  <2> QED BY <2>1, LeastElement
<1>2. PICK i \in 0..(N-1) : i < n /\ ~ (RunningSum(w, i) + w[i] <= RunningSum(w, n))
  OBVIOUS
<1>3. n-1 \in Nat /\ n-1 \in 0..(N-1) /\ n-1 \in 0..N /\ (n-1)+1 = n
  BY <1>2
<1>4. n-1 \notin Bad
  BY <1>1, <1>3
<1>5. RunningSum(w, n) = RunningSum(w, n-1) + w[n-1]
  BY <1>3, RunningSumStep
<1>6. w[n-1] \in Nat /\ w[i] \in Nat /\ RunningSum(w, i) \in Nat /\ RunningSum(w, n-1) \in Nat
  <2>1. \A k \in 0..N : RunningSum(w, k) \in Nat
    BY RunningSumNat
  <2>2. i \in 0..N
    OBVIOUS
  <2> QED BY <1>3, <2>1, <2>2
<1>7. CASE i = n-1
  BY <1>2, <1>5, <1>6, <1>7
<1>8. CASE i < n-1
  <2>1. RunningSum(w, i) + w[i] <= RunningSum(w, n-1)
    BY <1>3, <1>4, <1>8
  <2> QED BY <1>2, <1>5, <1>6, <2>1
<1> QED BY <1>2, <1>3, <1>7, <1>8

(***************************************************************************)
(* A nonempty finite set of integers has a largest element: MaxOf finds it. *)
(***************************************************************************)
LEMMA MaxOfFinite ==
  ASSUME NEW S \in SUBSET Int, IsFiniteSet(S), S # {}
  PROVE  MaxOf(S) \in S /\ \A x \in S : x <= MaxOf(S)
<1> DEFINE Above(x) == {y \in S : x < y}
<1> DEFINE T == {Above(x) : x \in S}
<1>1. IsWellFoundedOn(StrictSubsetOrdering(Int), FiniteSubsetsOf(Int))
  BY FS_StrictSubsetOrderingWellFounded
<1>2. T \subseteq FiniteSubsetsOf(Int)
  <2>1. ASSUME NEW x \in S
        PROVE  IsFiniteSet(Above(x)) /\ Above(x) \subseteq Int
    BY FS_Subset, Above(x) \subseteq S
  <2> QED BY <2>1 DEF FiniteSubsetsOf
<1>3. T # {}
  OBVIOUS
<1>4. PICK b \in T : \A c \in T : <<c, b>> \notin StrictSubsetOrdering(Int)
  <2> HIDE DEF T
  <2> QED BY <1>1, <1>2, <1>3, WFMin
<1>5. PICK m \in S : b = Above(m)
  OBVIOUS
<1>6. ASSUME NEW y \in S, m < y
      PROVE  FALSE
  <2>1. Above(y) \subseteq Above(m) /\ Above(y) # Above(m)
    <3>1. \A z \in Above(y) : z \in Int /\ y < z /\ z \in S
      OBVIOUS
    <3>2. \A z \in Above(y) : m < z
      BY <3>1, <1>6
    <3>3. y \in Above(m) /\ y \notin Above(y)
      BY <1>6
    <3> QED BY <3>1, <3>2, <3>3
  <2>2. <<Above(y), Above(m)>> \in StrictSubsetOrdering(Int)
    BY <2>1 DEF StrictSubsetOrdering
  <2> QED BY <2>2, <1>4, <1>5
<1>7. m \in S /\ \A x \in S : x <= m
  BY <1>6
<1> QED BY <1>7 DEF MaxOf

(***************************************************************************)
(* The image of a finite set is finite.                                    *)
(***************************************************************************)
LEMMA FiniteImage ==
  ASSUME NEW S, IsFiniteSet(S), NEW f
  PROVE  IsFiniteSet({f[x] : x \in S})
<1> DEFINE T == {f[x] : x \in S}
<1> DEFINE g == [x \in S |-> f[x]]
<1>1. g \in Surjection(S, T)
  BY DEF Surjection
<1> HIDE DEF g, T
<1>2. IsFiniteSet(T)
  BY <1>1, FS_Surjection
<1> QED BY <1>2 DEF T

-----------------------------------------------------------------------------
(***************************************************************************)
(* Loops.  What FlattenSeq returns are the entries of the given sequences; *)
(* its recursive function exists, and a least counterexample replaces the  *)
(* induction.                                                              *)
(***************************************************************************)
Flattens(f, ss, n) == f = [i \in 1..n |-> IF i = 1 THEN ss[i] ELSE f[i-1] \o ss[i]]

LEMMA FlattenExists ==
  ASSUME NEW ss, NEW n \in Nat
  PROVE  \E f : Flattens(f, ss, n)
<1> DEFINE Bad == {m \in Nat : ~ \E f : Flattens(f, ss, m)}
<1> SUFFICES ASSUME Bad # {} PROVE FALSE
  OBVIOUS
<1>1. PICK m \in Bad : \A k \in Bad : m <= k
  <2>1. Bad \in SUBSET Nat
    OBVIOUS
  <2> HIDE DEF Bad
  <2> QED BY <2>1, LeastElement
<1>2. CASE m = 0
  <2> DEFINE g == [i \in 1..0 |-> {}]
  <2>1. Flattens(g, ss, 0)
    BY DEF Flattens
  <2> QED BY <1>1, <1>2, <2>1
<1>3. CASE m # 0
  <2>1. PICK j \in Nat : m = j + 1 /\ ~(m <= j)
    <3>1. m - 1 \in Nat /\ m = (m - 1) + 1 /\ ~(m <= m - 1)
      BY <1>1, <1>3
    <3> QED BY <3>1
  <2>2. PICK f : Flattens(f, ss, j)
    BY <1>1, <2>1
  <2> DEFINE g == [i \in 1..m |-> IF i < m THEN f[i]
                                  ELSE IF m = 1 THEN ss[m] ELSE f[m-1] \o ss[m]]
  <2>3. ASSUME NEW i \in 1..m
        PROVE  g[i] = IF i = 1 THEN ss[i] ELSE g[i-1] \o ss[i]
    <3>1. CASE i = m
      <4>1. m # 1 => m - 1 \in 1..m /\ m - 1 < m
        BY <2>1
      <4> QED BY <3>1, <4>1
    <3>2. CASE i # m
      <4>1. i \in 1..j /\ i < m /\ (i # 1 => i - 1 \in 1..m /\ i - 1 < m)
        BY <2>1, <3>2
      <4>2. f[i] = IF i = 1 THEN ss[i] ELSE f[i-1] \o ss[i]
        BY <2>2, <4>1 DEF Flattens
      <4> QED BY <4>1, <4>2
    <3> QED BY <3>1, <3>2
  <2>4. g = [i \in 1..m |-> IF i = 1 THEN ss[i] ELSE g[i-1] \o ss[i]]
    BY <2>3
  <2>5. Flattens(g, ss, m)
    <3> HIDE DEF g
    <3> QED BY <2>4 DEF Flattens
  <2> QED BY <1>1, <2>5
<1> QED BY <1>2, <1>3

LEMMA RangeOfConcat ==
  ASSUME NEW N, NEW s \in Seq(N), NEW t \in Seq(N)
  PROVE  s \o t \in Seq(N) /\ Range(s \o t) = Range(s) \cup Range(t)
<1>1. /\ s \o t \in Seq(N) /\ Len(s \o t) = Len(s) + Len(t)
      /\ \A i \in 1..Len(s) + Len(t) : (s \o t)[i] = IF i <= Len(s) THEN s[i] ELSE t[i - Len(s)]
  BY ConcatProperties
<1>2. Len(s) \in Nat /\ Len(t) \in Nat /\ DOMAIN s = 1..Len(s) /\ DOMAIN t = 1..Len(t)
      /\ DOMAIN (s \o t) = 1..(Len(s) + Len(t))
  BY <1>1, LenProperties
<1>3. ASSUME NEW x \in Range(s \o t)
      PROVE  x \in Range(s) \cup Range(t)
  <2>1. PICK i \in 1..Len(s) + Len(t) : x = (s \o t)[i]
    BY <1>2 DEF Range
  <2>2. CASE i <= Len(s)
    <3>1. i \in 1..Len(s) /\ x = s[i]
      BY <1>1, <1>2, <2>1, <2>2
    <3> QED BY <1>2, <3>1 DEF Range
  <2>3. CASE ~(i <= Len(s))
    <3>1. i - Len(s) \in 1..Len(t) /\ x = t[i - Len(s)]
      BY <1>1, <1>2, <2>1, <2>3
    <3> QED BY <1>2, <3>1 DEF Range
  <2> QED BY <2>2, <2>3
<1>4. ASSUME NEW x \in Range(s) PROVE x \in Range(s \o t)
  <2>1. PICK i \in 1..Len(s) : x = s[i]
    BY <1>2 DEF Range
  <2>2. i \in 1..Len(s) + Len(t) /\ (s \o t)[i] = x
    BY <1>1, <1>2, <2>1
  <2> QED BY <1>2, <2>2 DEF Range
<1>5. ASSUME NEW x \in Range(t) PROVE x \in Range(s \o t)
  <2>1. PICK i \in 1..Len(t) : x = t[i]
    BY <1>2 DEF Range
  <2>2. i + Len(s) \in 1..Len(s) + Len(t) /\ ~(i + Len(s) <= Len(s)) /\ (i + Len(s)) - Len(s) = i
    BY <1>2, <2>1
  <2>3. (s \o t)[i + Len(s)] = x
    BY <1>1, <2>1, <2>2
  <2> QED BY <1>2, <2>2, <2>3 DEF Range
<1> QED BY <1>1, <1>3, <1>4, <1>5

LEMMA RangeOfFlattened ==
  ASSUME NEW N, NEW n \in Nat, NEW ss \in [1..n -> Seq(N)]
  PROVE  /\ FlattenSeq(ss) \in Seq(N)
         /\ \A x : x \in Range(FlattenSeq(ss)) <=> \E i \in 1..n : x \in Range(ss[i])
<1>1. ss \in Seq(Seq(N)) /\ Len(ss) = n /\ DOMAIN ss = 1..n
  <2>1. ss \in Seq(Seq(N))
    BY SeqDef
  <2>2. DOMAIN ss = 1..n /\ DOMAIN ss = 1..Len(ss) /\ Len(ss) \in Nat
    BY <2>1, LenProperties
  <2>3. Len(ss) = n
    BY <2>2
  <2> QED BY <2>1, <2>2, <2>3
<1>2. CASE n = 0
  <2>1. FlattenSeq(ss) = ss
    BY <1>1, <1>2 DEF FlattenSeq
  <2>2. ss = << >>
    BY <1>1, <1>2, EmptySeq
  <2>3. << >> \in Seq(N) /\ Range(<< >>) = {}
    BY EmptySeq DEF Range
  <2> QED BY <1>2, <2>1, <2>2, <2>3
<1>3. CASE n # 0
  <2> DEFINE F == CHOOSE f : Flattens(f, ss, n)
  <2>1. Flattens(F, ss, n)
    BY FlattenExists
  <2>2. FlattenSeq(ss) = F[n]
    BY <1>1, <1>3 DEF FlattenSeq, Flattens
  <2>3. \A i \in 1..n : F[i] = IF i = 1 THEN ss[i] ELSE F[i-1] \o ss[i]
    BY <2>1 DEF Flattens
  <2> HIDE DEF F
  <2> DEFINE Right(k) == F[k] \in Seq(N) /\ \A x : x \in Range(F[k]) <=> \E i \in 1..k : x \in Range(ss[i])
  <2> DEFINE Bad == {k \in 1..n : ~Right(k)}
  <2> SUFFICES ASSUME Bad # {} PROVE FALSE
    <3>1. n \in 1..n
      BY <1>3
    <3> QED BY <2>2, <3>1
  <2>4. PICK k \in Bad : \A j \in Bad : k <= j
    <3>1. Bad \in SUBSET Nat
      OBVIOUS
    <3> HIDE DEF Bad
    <3> QED BY <3>1, LeastElement
  <2>5. k \in 1..n /\ ss[k] \in Seq(N)
    OBVIOUS
  <2>6. CASE k = 1
    <3>1. F[k] = ss[k] /\ 1..k = {k}
      BY <2>3, <2>5, <2>6
    <3> QED BY <2>5, <3>1
  <2>7. CASE k # 1
    <3>1. k - 1 \in 1..n /\ ~(k <= k - 1) /\ 1..k = (1..(k - 1)) \cup {k}
      BY <2>5, <2>7
    <3>2. Right(k - 1)
      <4>1. k - 1 \notin Bad
        <5> HIDE DEF Bad
        <5> QED BY <2>4, <3>1
      <4> QED BY <3>1, <4>1
    <3>3. F[k] = F[k - 1] \o ss[k]
      BY <2>3, <2>5, <2>7
    <3>4. F[k] \in Seq(N) /\ Range(F[k]) = Range(F[k - 1]) \cup Range(ss[k])
      BY <2>5, <3>2, <3>3, RangeOfConcat
    <3> QED BY <3>1, <3>2, <3>4
  <2> QED BY <2>6, <2>7
<1> QED BY <1>2, <1>3

-----------------------------------------------------------------------------
(***************************************************************************)
(* Blocks of nodes.  L[r] is what rank r makes in a loop.  The lists of    *)
(* the ranks agree if two nodes with one id, or with one serial id, are    *)
(* the same, whichever ranks have them; the block has ids and serial ids   *)
(* of its own.                                                             *)
(***************************************************************************)
AnalysesNow    == {setting.analyses[current[r]] : r \in Ranks}
NamesNow       == {a.name : a \in AnalysesNow}
Approximations == {"none", "SIA", "SSA", "L1L2", "HO", "FS", "FSvelocity", "FSpressure"}

NodeRecords == [id : Int, sid : Int, vertex : Nat, analysis : NamesNow, approximation : Approximations,
                frozen : BOOLEAN]

Ids(s) == {n.id : n \in Range(s)}

InBounds(n, lo, hi, slo, shi) == lo < n.id /\ n.id <= hi /\ slo < n.sid /\ n.sid <= shi

Agree(L, lo, hi, slo, shi) ==
  /\ \A r \in Ranks : L[r] \in Seq(NodeRecords) /\ \A n \in Range(L[r]) : InBounds(n, lo, hi, slo, shi)
  /\ \A r, q \in Ranks : \A m \in Range(L[r]), n \in Range(L[q]) : m.id = n.id \/ m.sid = n.sid => m = n

IsTable(T, n, k, N) == T \in [1..n -> [1..k -> N]]

\* A loop over n things, with the copies of those that are mine, from the table T of all.
Entry(x, n, k, mine, copies, T) ==
  \E i \in 1..n, c \in 1..k : i \in mine /\ c <= copies[i] /\ x = T[i][c]

LEMMA LoopRange ==
  ASSUME NEW N, NEW n \in Nat, NEW mine, NEW k \in Nat, NEW copies \in [1..n -> 0..k],
         NEW T \in [1..n -> [1..k -> N]], NEW ss, ss = [i \in 1..n |-> ss[i]],
         \A i \in 1..n : ss[i] = IF i \in mine THEN [c \in 1..copies[i] |-> T[i][c]] ELSE << >>
  PROVE  /\ FlattenSeq(ss) \in Seq(N)
         /\ \A x : x \in Range(FlattenSeq(ss)) <=> Entry(x, n, k, mine, copies, T)
<1>1. ASSUME NEW i \in 1..n
      PROVE  /\ ss[i] \in Seq(N)
             /\ \A x : x \in Range(ss[i]) <=> i \in mine /\ \E c \in 1..k : c <= copies[i] /\ x = T[i][c]
  <2>1. CASE i \in mine
    <3> DEFINE t == ss[i]
    <3> DEFINE n1 == copies[i]
    <3> DEFINE T1 == T[i]
    <3>1. n1 \in 0..k /\ T1 \in [1..k -> N] /\ t = [c \in 1..n1 |-> T1[c]]
      BY <2>1
    <3> HIDE DEF t, n1, T1
    <3>2. n1 \in Nat /\ \A c \in 1..n1 : c \in 1..k /\ T1[c] \in N
      BY <3>1
    <3>3. t \in [1..n1 -> N]
      BY <3>1, <3>2
    <3>4. t \in Seq(N)
      BY <3>2, <3>3, SeqDef
    <3>5. \A x : x \in Range(t) <=> \E c \in 1..n1 : x = T1[c]
      BY <3>1 DEF Range
    <3>6. \A c \in 1..k : c \in 1..n1 <=> c <= n1
      BY <3>1
    <3>7. \A x : x \in Range(t) <=> \E c \in 1..k : c <= n1 /\ x = T1[c]
      BY <3>2, <3>5, <3>6
    <3> QED BY <2>1, <3>4, <3>7 DEF t, n1, T1
  <2>2. CASE i \notin mine
    <3>1. ss[i] = << >>
      BY <2>2
    <3>2. << >> \in Seq(N) /\ Range(<< >>) = {}
      BY EmptySeq DEF Range
    <3> QED BY <2>2, <3>1, <3>2
  <2> QED BY <2>1, <2>2
<1>2. ss \in [1..n -> Seq(N)]
  BY <1>1
<1>3. /\ FlattenSeq(ss) \in Seq(N)
      /\ \A x : x \in Range(FlattenSeq(ss)) <=> \E i \in 1..n : x \in Range(ss[i])
  BY <1>2, RangeOfFlattened
<1>4. ASSUME NEW x, NEW i \in 1..n, x \in Range(ss[i])
      PROVE  Entry(x, n, k, mine, copies, T)
  <2>1. i \in mine /\ \E c \in 1..k : c <= copies[i] /\ x = T[i][c]
    BY <1>1, <1>4
  <2> QED BY <2>1 DEF Entry
<1>5. ASSUME NEW x, Entry(x, n, k, mine, copies, T)
      PROVE  \E i \in 1..n : x \in Range(ss[i])
  <2>1. PICK i \in 1..n, c \in 1..k : i \in mine /\ c <= copies[i] /\ x = T[i][c]
    BY <1>5 DEF Entry
  <2>2. x \in Range(ss[i])
    BY <1>1, <2>1
  <2> QED BY <2>2
<1> QED BY <1>3, <1>4, <1>5

Looped(L, SS, M, n, copies, T) ==
  \A r \in Ranks :
    /\ L[r] = FlattenSeq(SS[r]) /\ SS[r] = [i \in 1..n |-> SS[r][i]]
    /\ \A i \in 1..n : SS[r][i] = IF i \in M[r] THEN [c \in 1..copies[i] |-> T[i][c]] ELSE << >>

Bounded(T, n, k, copies, lo, hi, slo, shi) ==
  \A i \in 1..n, c \in 1..k : c <= copies[i] => InBounds(T[i][c], lo, hi, slo, shi)

IsLoop(n, k, copies) == n \in Nat /\ k \in Nat /\ copies \in [1..n -> 0..k]

Distinct(T, n, k, copies) ==
  \A i, j \in 1..n, c, d \in 1..k :
    /\ c <= copies[i] /\ d <= copies[j]
    /\ T[i][c].id = T[j][d].id \/ T[i][c].sid = T[j][d].sid
    => i = j /\ c = d

Names(L, M, n, k, copies, T) ==
  \A r \in Ranks : \A x : x \in Ids(L[r]) <=>
    \E i \in 1..n, c \in 1..k : i \in M[r] /\ c <= copies[i] /\ x = T[i][c].id

IsEntry(x, n, k, copies, T) == \E i \in 1..n, c \in 1..k : c <= copies[i] /\ x = T[i][c]

LEMMA TableAgrees ==
  ASSUME NEW n, NEW k, NEW copies, NEW T, NEW L, NEW lo, NEW hi, NEW slo, NEW shi,
         Bounded(T, n, k, copies, lo, hi, slo, shi), Distinct(T, n, k, copies),
         \A r \in Ranks : L[r] \in Seq(NodeRecords) /\ \A x \in Range(L[r]) : IsEntry(x, n, k, copies, T)
  PROVE  Agree(L, lo, hi, slo, shi)
<1>2. ASSUME NEW r \in Ranks, NEW q \in Ranks, NEW a \in Range(L[r]), NEW b \in Range(L[q]),
             a.id = b.id \/ a.sid = b.sid
      PROVE  a = b
  <2>1. IsEntry(a, n, k, copies, T) /\ IsEntry(b, n, k, copies, T)
    OBVIOUS
  <2>2. PICK i \in 1..n, c \in 1..k : c <= copies[i] /\ a = T[i][c]
    BY <2>1 DEF IsEntry
  <2>3. PICK j \in 1..n, d \in 1..k : d <= copies[j] /\ b = T[j][d]
    BY <2>1 DEF IsEntry
  <2>4. i = j /\ c = d
    BY <1>2, <2>2, <2>3 DEF Distinct
  <2> QED BY <2>2, <2>3, <2>4
<1>3. ASSUME NEW r \in Ranks, NEW a \in Range(L[r])
      PROVE  InBounds(a, lo, hi, slo, shi)
  <2>1. IsEntry(a, n, k, copies, T)
    OBVIOUS
  <2>2. PICK i \in 1..n, c \in 1..k : c <= copies[i] /\ a = T[i][c]
    BY <2>1 DEF IsEntry
  <2> QED BY <2>2 DEF Bounded
<1> QED BY <1>2, <1>3 DEF Agree

LEMMA LoopAgrees ==
  ASSUME NEW n, NEW M, NEW k, NEW copies, IsLoop(n, k, copies),
         NEW T, IsTable(T, n, k, NodeRecords), NEW L, NEW SS, NEW lo, NEW hi, NEW slo, NEW shi,
         Looped(L, SS, M, n, copies, T), Bounded(T, n, k, copies, lo, hi, slo, shi), Distinct(T, n, k, copies)
  PROVE  Agree(L, lo, hi, slo, shi) /\ Names(L, M, n, k, copies, T)
<1>0. T \in [1..n -> [1..k -> NodeRecords]] /\ n \in Nat /\ k \in Nat /\ copies \in [1..n -> 0..k]
  BY DEF IsTable, IsLoop
<1>1. ASSUME NEW r \in Ranks
      PROVE  L[r] \in Seq(NodeRecords) /\ \A x : x \in Range(L[r]) <=> Entry(x, n, k, M[r], copies, T)
  <2> DEFINE mine == M[r]
  <2> DEFINE ss == SS[r]
  <2>1. /\ L[r] = FlattenSeq(ss) /\ ss = [i \in 1..n |-> ss[i]]
        /\ \A i \in 1..n : ss[i] = IF i \in mine THEN [c \in 1..copies[i] |-> T[i][c]] ELSE << >>
    BY DEF Looped
  <2>2. SUFFICES /\ FlattenSeq(ss) \in Seq(NodeRecords)
                 /\ \A x : x \in Range(FlattenSeq(ss)) <=> Entry(x, n, k, mine, copies, T)
    BY <2>1
  <2> HIDE DEF mine, ss
  <2> QED BY <1>0, <2>1, LoopRange
<1>2. \A r \in Ranks : L[r] \in Seq(NodeRecords) /\ \A x \in Range(L[r]) : IsEntry(x, n, k, copies, T)
  <2>1. \A x, mine : Entry(x, n, k, mine, copies, T) => IsEntry(x, n, k, copies, T)
    BY DEF Entry, IsEntry
  <2> QED BY <1>1, <2>1
<1>3. Agree(L, lo, hi, slo, shi)
  BY <1>2, TableAgrees
<1>4. ASSUME NEW r \in Ranks
      PROVE  \A x : x \in Ids(L[r]) <=>
               \E i \in 1..n, c \in 1..k : i \in M[r] /\ c <= copies[i] /\ x = T[i][c].id
  <2>1. \A x : x \in Ids(L[r]) <=> \E a : a \in Range(L[r]) /\ x = a.id
    BY DEF Ids
  <2>2. \A x : x \in Ids(L[r]) <=> \E a : Entry(a, n, k, M[r], copies, T) /\ x = a.id
    BY <1>1, <2>1
  <2> QED BY <2>2 DEF Entry
<1> QED BY <1>3, <1>4 DEF Names

Joined(L1, L2) == [r \in Ranks |-> L1[r] \o L2[r]]

InOrder(lo, mid, hi) == lo \in Int /\ mid \in Int /\ hi \in Int /\ lo <= mid /\ mid <= hi

\* Two blocks, one after the other, are a block.
LEMMA BlocksJoin ==
  ASSUME NEW L1, NEW L2, NEW lo, NEW mid, NEW hi, NEW slo, NEW smid, NEW shi,
         InOrder(lo, mid, hi), InOrder(slo, smid, shi), Agree(L1, lo, mid, slo, smid), Agree(L2, mid, hi, smid, shi)
  PROVE  /\ Agree(Joined(L1, L2), lo, hi, slo, shi)
         /\ \A r \in Ranks : Ids(Joined(L1, L2)[r]) = Ids(L1[r]) \cup Ids(L2[r])
<1> USE DEF InOrder
<1> DEFINE L == Joined(L1, L2)
<1>0. \A r \in Ranks : L[r] = L1[r] \o L2[r]
  BY DEF Joined
<1> HIDE DEF L
<1>1. ASSUME NEW r \in Ranks
      PROVE  L[r] \in Seq(NodeRecords) /\ Range(L[r]) = Range(L1[r]) \cup Range(L2[r])
  <2> DEFINE s == L1[r]
  <2> DEFINE t == L2[r]
  <2>1. s \in Seq(NodeRecords) /\ t \in Seq(NodeRecords) /\ L[r] = s \o t
    BY <1>0 DEF Agree
  <2> HIDE DEF s, t
  <2>2. L[r] \in Seq(NodeRecords) /\ Range(L[r]) = Range(s) \cup Range(t)
    BY <2>1, RangeOfConcat
  <2> QED BY <2>2 DEF s, t
<1>2. \A r \in Ranks : \A n \in Range(L1[r]) : InBounds(n, lo, mid, slo, smid) /\ n.id \in Int /\ n.sid \in Int
  <2>1. \A r \in Ranks : Range(L1[r]) \subseteq NodeRecords
    BY RangeOfSeq DEF Agree
  <2> QED BY <2>1 DEF Agree, NodeRecords
<1>3. \A r \in Ranks : \A n \in Range(L2[r]) : InBounds(n, mid, hi, smid, shi) /\ n.id \in Int /\ n.sid \in Int
  <2>1. \A r \in Ranks : Range(L2[r]) \subseteq NodeRecords
    BY RangeOfSeq DEF Agree
  <2> QED BY <2>1 DEF Agree, NodeRecords
<1>4. ASSUME NEW r \in Ranks, NEW n \in Range(L[r])
      PROVE  InBounds(n, lo, hi, slo, shi)
  <2>1. CASE n \in Range(L1[r])
    BY <1>2, <2>1 DEF InBounds
  <2>2. CASE n \in Range(L2[r])
    BY <1>3, <2>2 DEF InBounds
  <2> QED BY <1>1, <2>1, <2>2
<1>5. \A r, q \in Ranks : \A m \in Range(L1[r]), n \in Range(L2[q]) : m.id # n.id /\ m.sid # n.sid
  BY <1>2, <1>3 DEF InBounds
<1>6. ASSUME NEW r \in Ranks, NEW q \in Ranks, NEW m \in Range(L[r]), NEW n \in Range(L[q]),
             m.id = n.id \/ m.sid = n.sid
      PROVE  m = n
  <2>1. CASE m \in Range(L1[r]) /\ n \in Range(L1[q])
    BY <1>6, <2>1 DEF Agree
  <2>2. CASE m \in Range(L2[r]) /\ n \in Range(L2[q])
    BY <1>6, <2>2 DEF Agree
  <2>3. CASE m \in Range(L1[r]) /\ n \in Range(L2[q])
    BY <1>5, <1>6, <2>3
  <2>4. CASE m \in Range(L2[r]) /\ n \in Range(L1[q])
    BY <1>5, <1>6, <2>4
  <2> QED BY <1>1, <2>1, <2>2, <2>3, <2>4
<1>7. \A r \in Ranks : Ids(L[r]) = Ids(L1[r]) \cup Ids(L2[r])
  BY <1>1 DEF Ids
<1>8. Agree(L, lo, hi, slo, shi)
  BY <1>1, <1>4, <1>6 DEF Agree
<1> QED BY <1>7, <1>8 DEF L

LEMMA BlockInWider ==
  ASSUME NEW L, NEW lo \in Int, NEW hi \in Int, NEW slo \in Int, NEW shi \in Int,
         NEW lo2 \in Int, NEW hi2 \in Int, NEW slo2 \in Int, NEW shi2 \in Int,
         Agree(L, lo, hi, slo, shi), lo2 <= lo, hi <= hi2, slo2 <= slo, shi <= shi2
  PROVE  Agree(L, lo2, hi2, slo2, shi2)
<1>1. \A r \in Ranks : \A n \in Range(L[r]) : InBounds(n, lo, hi, slo, shi) /\ n.id \in Int /\ n.sid \in Int
  <2>1. \A r \in Ranks : Range(L[r]) \subseteq NodeRecords
    BY RangeOfSeq DEF Agree
  <2> QED BY <2>1 DEF Agree, NodeRecords
<1>2. \A r \in Ranks : \A n \in Range(L[r]) : InBounds(n, lo2, hi2, slo2, shi2)
  BY <1>1 DEF InBounds
<1> QED BY <1>2 DEF Agree

-----------------------------------------------------------------------------
(***************************************************************************)
(* The folds of the mesh and of the partition, one step after the other.   *)
(***************************************************************************)
LEMMA UpTo ==
  ASSUME NEW n \in Nat, NEW Good, 0 \in Good,
         \A i \in 1..n : i - 1 \in Good => i \in Good
  PROVE  \A i \in 0..n : i \in Good
<1> DEFINE Bad == {i \in 0..n : i \notin Good}
<1> SUFFICES ASSUME Bad # {} PROVE FALSE
  OBVIOUS
<1>1. PICK i \in Bad : \A j \in Bad : i <= j
  <2>1. Bad \in SUBSET Nat
    OBVIOUS
  <2> HIDE DEF Bad
  <2> QED BY <2>1, LeastElement
<1>2. i \in 0..n /\ i \notin Good
  OBVIOUS
<1>3. i \in 1..n /\ i - 1 \in 0..n /\ ~(i <= i - 1)
  BY <1>2
<1>4. i - 1 \notin Bad
  <2> HIDE DEF Bad
  <2> QED BY <1>1, <1>3
<1> QED BY <1>2, <1>3, <1>4

AddEdgeTo(edges, edge) ==
  IF \E i \in DOMAIN edges : edges[i].ends = edge.ends THEN edges ELSE Append(edges, edge)

AddFaceTo(faces, face) ==
  LET Same(f) == ThreeSmallest(face.vertices) = ThreeSmallest(f.vertices)
  IN  IF \E i \in DOMAIN faces : Same(faces[i])
        THEN [i \in DOMAIN faces |->
                IF Same(faces[i]) THEN [faces[i] EXCEPT !.e2 = face.e1] ELSE faces[i]]
        ELSE Append(faces, face)

AddSideTo(faces, side) ==
  LET Same(f) == {side.v[1], side.v[2]} = {f.v[1], f.v[2]}
  IN  IF \E i \in DOMAIN faces : Same(faces[i])
        THEN [i \in DOMAIN faces |->
                IF Same(faces[i]) THEN [faces[i] EXCEPT !.e2 = side.e1] ELSE faces[i]]
        ELSE Append(faces, side)

ClonePair(got, pair) ==
  IF got[pair[1]] # 0 /\ got[pair[2]] = 0 THEN [got EXCEPT ![pair[2]] = 2] ELSE got

JoinTo(part, rift) == [part EXCEPT ![rift.el2] = part[rift.el1]]

Step(kind, x, y) ==
  IF kind = "edge" THEN AddEdgeTo(x, y)
  ELSE IF kind = "face" THEN AddFaceTo(x, y)
  ELSE IF kind = "side" THEN AddSideTo(x, y)
  ELSE IF kind = "rift" THEN JoinTo(x, y) ELSE ClonePair(x, y)

\* The table that FoldLeft looks its result up in: over the sets of the first n places.
Table(g, kind, base, s, n) ==
  g = [S \in SUBSET (1..n) |-> IF S = {} THEN base ELSE Step(kind, g[S \ {Max(S)}], s[Max(S)])]

LEMMA LastOf ==
  ASSUME NEW n \in Nat, NEW S \in SUBSET (1..(n + 1)), n + 1 \in S
  PROVE  Max(S) = n + 1
<1>1. \A y \in S : n + 1 >= y
  OBVIOUS
<1>2. \A x \in S : (\A y \in S : x >= y) => x = n + 1
  <2> SUFFICES ASSUME NEW x \in S, x >= n + 1 PROVE x = n + 1
    OBVIOUS
  <2> QED BY <1>1
<1> QED BY <1>1, <1>2 DEF Max

LEMMA TableExists ==
  ASSUME NEW kind, NEW base, NEW s, NEW n \in Nat
  PROVE  \E g : Table(g, kind, base, s, n)
<1> DEFINE Good == {k \in Nat : \E g : Table(g, kind, base, s, k)}
<1>1. 0 \in Good
  <2> DEFINE g == [S \in SUBSET (1..0) |-> base]
  <2>1. \A S \in SUBSET (1..0) : S = {}
    OBVIOUS
  <2>2. Table(g, kind, base, s, 0)
    BY <2>1 DEF Table
  <2> QED BY <2>2
<1>2. ASSUME NEW k \in 1..n, k - 1 \in Good
      PROVE  k \in Good
  <2>1. PICK j \in Nat : k = j + 1 /\ j = k - 1 /\ k \in Nat
    <3>1. k - 1 \in Nat /\ k = (k - 1) + 1
      OBVIOUS
    <3> QED BY <3>1
  <2>2. PICK f : Table(f, kind, base, s, j)
    BY <1>2, <2>1
  <2> DEFINE g == [S \in SUBSET (1..k) |-> IF k \in S THEN Step(kind, f[S \ {k}], s[k]) ELSE f[S]]
  <2>3. ASSUME NEW S \in SUBSET (1..k)
        PROVE  g[S] = IF S = {} THEN base ELSE Step(kind, g[S \ {Max(S)}], s[Max(S)])
    <3>1. CASE k \in S
      <4>1. Max(S) = k
        BY <2>1, <3>1, LastOf
      <4>2. S \ {k} \in SUBSET (1..k) /\ k \notin S \ {k}
        OBVIOUS
      <4> QED BY <3>1, <4>1, <4>2
    <3>2. CASE k \notin S
      <4>1. S \in SUBSET (1..j)
        BY <2>1, <3>2
      <4>2. f[S] = IF S = {} THEN base ELSE Step(kind, f[S \ {Max(S)}], s[Max(S)])
        BY <2>2, <4>1 DEF Table
      <4>3. S \ {Max(S)} \in SUBSET (1..k) /\ k \notin S \ {Max(S)}
        BY <3>2
      <4> QED BY <3>2, <4>2, <4>3
    <3> QED BY <3>1, <3>2
  <2>4. g = [S \in SUBSET (1..k) |-> IF S = {} THEN base ELSE Step(kind, g[S \ {Max(S)}], s[Max(S)])]
    BY <2>3
  <2>5. Table(g, kind, base, s, k)
    <3> HIDE DEF g
    <3> QED BY <2>4 DEF Table
  <2> QED BY <2>1, <2>5
<1> HIDE DEF Good
<1>3. \A i \in 0..n : i \in Good
  BY <1>1, <1>2, UpTo
<1>4. n \in Good
  BY <1>3
<1> QED BY <1>4 DEF Good

Steps(h, kind, base, s, n, v) ==
  h[0] = base /\ h[n] = v /\ \A i \in 1..n : h[i] = Step(kind, h[i - 1], s[i])

LEMMA StepsOf ==
  ASSUME NEW kind, NEW base, NEW s, NEW n \in Nat,
         NEW v, v = (CHOOSE g : Table(g, kind, base, s, n))[1..n]
  PROVE  \E h : Steps(h, kind, base, s, n, v)
<1> DEFINE g == CHOOSE x : Table(x, kind, base, s, n)
<1>1. Table(g, kind, base, s, n)
  BY TableExists
<1>2. v = g[1..n]
  OBVIOUS
<1> HIDE DEF g
<1> DEFINE h == [i \in 0..n |-> g[1..i]]
<1>3. h[0] = base
  <2>1. 1..0 = {} /\ {} \in SUBSET (1..n)
    OBVIOUS
  <2>2. g[{}] = base
    BY <1>1, <2>1 DEF Table
  <2> QED BY <2>1, <2>2
<1>4. h[n] = v
  BY <1>2
<1>5. ASSUME NEW i \in 1..n
      PROVE  h[i] = Step(kind, h[i - 1], s[i])
  <2>1. PICK j \in Nat : i = j + 1 /\ j = i - 1 /\ j \in 0..n /\ i \in 0..n
    <3>1. i - 1 \in Nat /\ i = (i - 1) + 1 /\ i - 1 \in 0..n /\ i \in 0..n
      OBVIOUS
    <3> QED BY <3>1
  <2>2. 1..i \in SUBSET (1..(j + 1)) /\ j + 1 \in 1..i /\ 1..i \in SUBSET (1..n) /\ 1..i # {}
    BY <2>1
  <2>3. Max(1..i) = i
    BY <2>1, <2>2, LastOf
  <2>4. g[1..i] = Step(kind, g[(1..i) \ {i}], s[i])
    BY <1>1, <2>2, <2>3 DEF Table
  <2>5. (1..i) \ {i} = 1..j
    BY <2>1
  <2> QED BY <2>1, <2>4, <2>5
<1> HIDE DEF h
<1> QED BY <1>3, <1>4, <1>5 DEF Steps

-----------------------------------------------------------------------------
(***************************************************************************)
(* The mesh: each element finds its edges and, in prisms, its faces in the *)
(* lists.                                                                  *)
(***************************************************************************)
IsMesh(mesh) ==
  /\ mesh.kind \in {"tria", "tetra", "penta"} /\ mesh.nv \in Nat
  /\ mesh.elements \in Seq(Seq(1..mesh.nv))
  /\ \A e \in DOMAIN mesh.elements : Len(mesh.elements[e]) = CornersOf(mesh.kind)

LEMMA MeshFacts ==
  ASSUME NEW mesh, IsMesh(mesh)
  PROVE  /\ Len(mesh.elements) \in Nat /\ DOMAIN mesh.elements = 1..Len(mesh.elements)
         /\ \A e \in DOMAIN mesh.elements :
              /\ DOMAIN mesh.elements[e] = 1..CornersOf(mesh.kind)
              /\ \A k \in 1..CornersOf(mesh.kind) : mesh.elements[e][k] \in 1..mesh.nv
         /\ CornersOf(mesh.kind) \in {3, 4, 6}
         /\ mesh.kind = "tria" => CornersOf(mesh.kind) = 3
<1>1. Len(mesh.elements) \in Nat /\ DOMAIN mesh.elements = 1..Len(mesh.elements)
      /\ \A e \in DOMAIN mesh.elements : mesh.elements[e] \in Seq(1..mesh.nv)
  <2> DEFINE els == mesh.elements
  <2> DEFINE S == Seq(1..mesh.nv)
  <2>1. els \in Seq(S)
    BY DEF IsMesh
  <2> HIDE DEF els, S
  <2>2. Len(els) \in Nat /\ DOMAIN els = 1..Len(els) /\ \A e \in 1..Len(els) : els[e] \in S
    BY <2>1, LenProperties
  <2> QED BY <2>2 DEF els, S
<1>2. ASSUME NEW e \in DOMAIN mesh.elements
      PROVE  /\ DOMAIN mesh.elements[e] = 1..CornersOf(mesh.kind)
             /\ \A k \in 1..CornersOf(mesh.kind) : mesh.elements[e][k] \in 1..mesh.nv
  <2> DEFINE el == mesh.elements[e]
  <2>1. el \in Seq(1..mesh.nv) /\ Len(el) = CornersOf(mesh.kind)
    BY <1>1 DEF IsMesh
  <2> HIDE DEF el
  <2>2. DOMAIN el = 1..Len(el) /\ \A k \in 1..Len(el) : el[k] \in 1..mesh.nv
    BY <2>1, LenProperties
  <2> QED BY <2>1, <2>2 DEF el
<1>3. CornersOf(mesh.kind) \in {3, 4, 6} /\ (mesh.kind = "tria" => CornersOf(mesh.kind) = 3)
  BY DEF IsMesh, CornersOf
<1> QED BY <1>1, <1>2, <1>3

EdgeOf(mesh, e, k) == [ends |-> EdgeEnds(mesh, e, k), marker |-> LocalEdges(mesh.kind)[k][3]]

EdgeRecords(mesh) ==
  {EdgeOf(mesh, p[1], p[2]) : p \in (DOMAIN mesh.elements) \X (DOMAIN LocalEdges(mesh.kind))}

AllEdges(mesh) ==
  FlattenSeq([e \in DOMAIN mesh.elements |->
                [k \in DOMAIN LocalEdges(mesh.kind) |-> EdgeOf(mesh, e, k)]])

LEMMA EdgesAreFold ==
  ASSUME NEW mesh, NEW n, DOMAIN AllEdges(mesh) = 1..n
  PROVE  Edges(mesh) = (CHOOSE g : Table(g, "edge", << >>, AllEdges(mesh), n))[1..n]
<1>1. Edges(mesh) = FoldLeft(AddEdgeTo, << >>, AllEdges(mesh))
  BY DEF Edges, AllEdges, EdgeOf, AddEdgeTo, FoldLeft, MapThenFoldSet
<1>2. FoldLeft(AddEdgeTo, << >>, AllEdges(mesh)) = (CHOOSE g : Table(g, "edge", << >>, AllEdges(mesh), n))[1..n]
  BY DEF FoldLeft, MapThenFoldSet, Table, Step
<1> QED BY <1>1, <1>2

LEMMA LocalEdgesAre ==
  ASSUME NEW kind \in {"tria", "tetra", "penta"}
  PROVE  \E n \in Nat : DOMAIN LocalEdges(kind) = 1..n
<1>1. CASE kind = "tria"
  <2>1. DOMAIN LocalEdges(kind) = 1..3
    BY <1>1 DEF LocalEdges
  <2> QED BY <2>1
<1>2. CASE kind = "tetra"
  <2>1. DOMAIN LocalEdges(kind) = 1..6
    BY <1>2 DEF LocalEdges
  <2> QED BY <2>1
<1>3. CASE kind = "penta"
  <2>1. DOMAIN LocalEdges(kind) = 1..9
    BY <1>3 DEF LocalEdges
  <2> QED BY <2>1
<1> QED BY <1>1, <1>2, <1>3

\* A list of n lists of k entries T[i][c], one after the other.
InTable(x, T, n, k) == \E i \in 1..n, c \in 1..k : x = T[i][c]

LEMMA FlatTable ==
  ASSUME NEW N, NEW n \in Nat, NEW k \in Nat, NEW T, IsTable(T, n, k, N)
  PROVE  /\ FlattenSeq(T) \in Seq(N)
         /\ \A x : x \in Range(FlattenSeq(T)) <=> InTable(x, T, n, k)
<1>1. ASSUME NEW i \in 1..n
      PROVE  T[i] \in Seq(N) /\ \A x : x \in Range(T[i]) <=> \E c \in 1..k : x = T[i][c]
  <2> DEFINE t == T[i]
  <2>1. t \in [1..k -> N]
    BY DEF IsTable
  <2> HIDE DEF t
  <2>2. t \in Seq(N)
    BY <2>1, SeqDef
  <2>3. \A x : x \in Range(t) <=> \E c \in 1..k : x = t[c]
    BY <2>1 DEF Range
  <2> QED BY <2>2, <2>3 DEF t
<1>2. T \in [1..n -> Seq(N)]
  BY <1>1 DEF IsTable
<1>3. /\ FlattenSeq(T) \in Seq(N)
      /\ \A x : x \in Range(FlattenSeq(T)) <=> \E i \in 1..n : x \in Range(T[i])
  BY <1>2, RangeOfFlattened
<1>4. ASSUME NEW x, \E i \in 1..n : x \in Range(T[i])
      PROVE  InTable(x, T, n, k)
  <2>1. PICK i \in 1..n : x \in Range(T[i])
    BY <1>4
  <2>2. PICK c \in 1..k : x = T[i][c]
    BY <1>1, <2>1
  <2> QED BY <2>2 DEF InTable
<1>5. ASSUME NEW x, InTable(x, T, n, k)
      PROVE  \E i \in 1..n : x \in Range(T[i])
  <2>1. PICK i \in 1..n, c \in 1..k : x = T[i][c]
    BY <1>5 DEF InTable
  <2>2. x \in Range(T[i])
    BY <1>1, <2>1
  <2> QED BY <2>2
<1> QED BY <1>3, <1>4, <1>5

LEMMA EdgesOfElements ==
  ASSUME NEW mesh, IsMesh(mesh)
  PROVE  /\ AllEdges(mesh) \in Seq(EdgeRecords(mesh))
         /\ \A e \in DOMAIN mesh.elements, k \in DOMAIN LocalEdges(mesh.kind) :
              EdgeOf(mesh, e, k) \in Range(AllEdges(mesh))
<1>1. PICK k \in Nat : DOMAIN LocalEdges(mesh.kind) = 1..k
  BY LocalEdgesAre DEF IsMesh
<1>2. PICK n \in Nat : DOMAIN mesh.elements = 1..n
  BY MeshFacts
<1> DEFINE T == [e \in 1..n |-> [c \in 1..k |-> EdgeOf(mesh, e, c)]]
<1>3. \A e \in 1..n, c \in 1..k : T[e][c] = EdgeOf(mesh, e, c)
  OBVIOUS
<1>4. \A e \in 1..n, c \in 1..k : T[e][c] \in EdgeRecords(mesh)
  <2> SUFFICES ASSUME NEW e \in 1..n, NEW c \in 1..k PROVE EdgeOf(mesh, e, c) \in EdgeRecords(mesh)
    BY <1>3
  <2> DEFINE p == <<e, c>>
  <2>1. p \in (DOMAIN mesh.elements) \X (DOMAIN LocalEdges(mesh.kind)) /\ p[1] = e /\ p[2] = c
    BY <1>1, <1>2
  <2> HIDE DEF p
  <2> QED BY <2>1 DEF EdgeRecords
<1>5. AllEdges(mesh) = FlattenSeq(T)
  BY <1>1, <1>2 DEF AllEdges
<1>6. IsTable(T, n, k, EdgeRecords(mesh))
  BY <1>3, <1>4 DEF IsTable
<1> HIDE DEF T
<1>7. /\ FlattenSeq(T) \in Seq(EdgeRecords(mesh))
      /\ \A x : x \in Range(FlattenSeq(T)) <=> InTable(x, T, n, k)
  BY <1>6, FlatTable
<1> QED BY <1>1, <1>2, <1>3, <1>5, <1>7 DEF InTable

\* Every edge of an element is in the list.
LEMMA EdgesFound ==
  ASSUME NEW mesh, IsMesh(mesh)
  PROVE  /\ Edges(mesh) \in Seq(EdgeRecords(mesh))
         /\ \A e \in DOMAIN mesh.elements, k \in DOMAIN LocalEdges(mesh.kind) :
              \E i \in DOMAIN Edges(mesh) : Edges(mesh)[i].ends = EdgeEnds(mesh, e, k)
<1> DEFINE s == AllEdges(mesh)
<1> DEFINE N == EdgeRecords(mesh)
<1>1. PICK n \in Nat : n = Len(s) /\ DOMAIN s = 1..n /\ \A i \in 1..n : s[i] \in N
  BY EdgesOfElements, LenProperties
<1>2. PICK h : Steps(h, "edge", << >>, s, n, Edges(mesh))
  BY <1>1, EdgesAreFold, StepsOf
<1>3. \A e \in DOMAIN mesh.elements, k \in DOMAIN LocalEdges(mesh.kind) :
        \E j \in 1..n : s[j].ends = EdgeEnds(mesh, e, k)
  <2> SUFFICES ASSUME NEW e \in DOMAIN mesh.elements, NEW k \in DOMAIN LocalEdges(mesh.kind)
               PROVE  \E j \in 1..n : s[j].ends = EdgeEnds(mesh, e, k)
    OBVIOUS
  <2>1. EdgeOf(mesh, e, k) \in Range(s)
    BY EdgesOfElements
  <2>2. PICK j \in 1..n : s[j] = EdgeOf(mesh, e, k)
    BY <1>1, <2>1 DEF Range
  <2> QED BY <2>2 DEF EdgeOf
<1> HIDE DEF s, N
<1> DEFINE Good == {k \in 0..n : /\ h[k] \in Seq(N)
                                 /\ \A j \in 1..k : \E i \in DOMAIN h[k] : h[k][i].ends = s[j].ends}
<1>4. 0 \in Good
  <2>1. h[0] = << >> /\ << >> \in Seq(N)
    BY <1>2, EmptySeq DEF Steps
  <2>2. 0 \in 0..n /\ 1..0 = {}
    OBVIOUS
  <2> QED BY <2>1, <2>2
<1>5. ASSUME NEW k \in 1..n, k - 1 \in Good
      PROVE  k \in Good
  <2> DEFINE old == h[k - 1]
  <2> DEFINE new == h[k]
  <2>1. old \in Seq(N) /\ \A j \in 1..(k - 1) : \E i \in DOMAIN old : old[i].ends = s[j].ends
    BY <1>5
  <2>2. new = AddEdgeTo(old, s[k]) /\ s[k] \in N
    BY <1>1, <1>2 DEF Steps, Step
  <2>3. SUFFICES new \in Seq(N) /\ \A j \in 1..k : \E i \in DOMAIN new : new[i].ends = s[j].ends
    <3>1. k \in 0..n
      OBVIOUS
    <3> HIDE DEF N
    <3> QED BY <3>1, Zenon
  <2> HIDE DEF old, new, Good
  <2>4. \A j \in 1..k : j = k \/ j \in 1..(k - 1)
    OBVIOUS
  <2>5. CASE \E i \in DOMAIN old : old[i].ends = s[k].ends
    <3>1. new = old
      BY <2>2, <2>5 DEF AddEdgeTo
    <3> QED BY <2>1, <2>4, <2>5, <3>1
  <2>6. CASE ~ \E i \in DOMAIN old : old[i].ends = s[k].ends
    <3>1. new = Append(old, s[k])
      BY <2>2, <2>6 DEF AddEdgeTo
    <3>2. /\ new \in Seq(N) /\ Len(new) = Len(old) + 1 /\ new[Len(old) + 1] = s[k]
          /\ \A i \in 1..Len(old) : new[i] = old[i]
      BY <2>1, <2>2, <3>1, AppendProperties
    <3>3. DOMAIN old = 1..Len(old) /\ DOMAIN new = 1..(Len(old) + 1) /\ Len(old) \in Nat
      BY <2>1, <3>2, LenProperties
    <3>4. \A i \in DOMAIN old : i \in DOMAIN new /\ new[i] = old[i]
      BY <3>2, <3>3
    <3>5. Len(old) + 1 \in DOMAIN new
      BY <3>3
    <3> QED BY <2>1, <2>4, <3>2, <3>4, <3>5
  <2> QED BY <2>5, <2>6
<1>6. n \in Good
  <2> HIDE DEF Good
  <2>1. \A i \in 0..n : i \in Good
    BY <1>4, <1>5, UpTo
  <2> QED BY <2>1
<1>7. h[n] = Edges(mesh)
  BY <1>2 DEF Steps
<1>8. Edges(mesh) \in Seq(N) /\ \A j \in 1..n : \E i \in DOMAIN Edges(mesh) : Edges(mesh)[i].ends = s[j].ends
  BY <1>6, <1>7
<1>9. ASSUME NEW e \in DOMAIN mesh.elements, NEW k \in DOMAIN LocalEdges(mesh.kind)
      PROVE  \E i \in DOMAIN Edges(mesh) : Edges(mesh)[i].ends = EdgeEnds(mesh, e, k)
  <2>1. PICK j \in 1..n : s[j].ends = EdgeEnds(mesh, e, k)
    BY <1>3
  <2> QED BY <1>8, <2>1
<1> QED BY <1>8, <1>9 DEF N

FaceOf(mesh, e, k) ==
  [vertices |-> FaceVertices(mesh, e, k), e1 |-> e, e2 |-> 0,
   marker |-> IF Cardinality(LocalFaces(mesh.kind)[k]) = 4 THEN 2 ELSE 1]

FaceSets(mesh) == {FaceVertices(mesh, p[1], p[2]) : p \in (DOMAIN mesh.elements) \X (1..5)}

FaceFields(mesh) ==
  [vertices : FaceSets(mesh), e1 : DOMAIN mesh.elements, e2 : {0} \cup DOMAIN mesh.elements, marker : {1, 2}]

\* A face has the vertices and the marker of one of the sides of its first element.
FaceRecords(mesh) ==
  {f \in FaceFields(mesh) : \E k \in 1..5 : /\ f.vertices = FaceVertices(mesh, f.e1, k)
                                            /\ f.marker = FaceOf(mesh, f.e1, k).marker}

AllFaces(mesh) ==
  FlattenSeq([e \in DOMAIN mesh.elements |-> [k \in DOMAIN LocalFaces(mesh.kind) |-> FaceOf(mesh, e, k)]])

LEMMA FacesAreFold ==
  ASSUME NEW mesh, NEW n, DOMAIN AllFaces(mesh) = 1..n
  PROVE  Faces3d(mesh) = (CHOOSE g : Table(g, "face", << >>, AllFaces(mesh), n))[1..n]
<1>1. Faces3d(mesh) = FoldLeft(AddFaceTo, << >>, AllFaces(mesh))
  BY DEF Faces3d, AllFaces, FaceOf, AddFaceTo, FoldLeft, MapThenFoldSet
<1>2. FoldLeft(AddFaceTo, << >>, AllFaces(mesh)) = (CHOOSE g : Table(g, "face", << >>, AllFaces(mesh), n))[1..n]
  BY DEF FoldLeft, MapThenFoldSet, Table, Step
<1> QED BY <1>1, <1>2

LEMMA FacesOfElements ==
  ASSUME NEW mesh, IsMesh(mesh), mesh.kind = "penta"
  PROVE  /\ AllFaces(mesh) \in Seq(FaceRecords(mesh))
         /\ \A e \in DOMAIN mesh.elements, k \in 1..5 : FaceOf(mesh, e, k) \in Range(AllFaces(mesh))
<1>1. DOMAIN LocalFaces(mesh.kind) = 1..5
  BY DEF LocalFaces
<1>2. PICK n \in Nat : DOMAIN mesh.elements = 1..n
  BY MeshFacts
<1> DEFINE T == [e \in 1..n |-> [c \in 1..5 |-> FaceOf(mesh, e, c)]]
<1>3. \A e \in 1..n, c \in 1..5 : T[e][c] = FaceOf(mesh, e, c)
  OBVIOUS
<1>4. ASSUME NEW e \in 1..n, NEW c \in 1..5
      PROVE  T[e][c] \in FaceRecords(mesh)
  <2> DEFINE p == <<e, c>>
  <2>1. p \in (DOMAIN mesh.elements) \X (1..5) /\ p[1] = e /\ p[2] = c
    BY <1>2
  <2> HIDE DEF p
  <2>2. FaceVertices(mesh, e, c) \in FaceSets(mesh)
    BY <2>1 DEF FaceSets
  <2>3. FaceOf(mesh, e, c) \in FaceFields(mesh)
    BY <1>2, <2>2 DEF FaceOf, FaceFields
  <2>4. FaceOf(mesh, e, c).vertices = FaceVertices(mesh, e, c) /\ FaceOf(mesh, e, c).e1 = e
    BY DEF FaceOf
  <2>5. FaceOf(mesh, e, c) \in FaceRecords(mesh)
    BY <2>3, <2>4 DEF FaceRecords
  <2> QED BY <1>3, <2>5
<1>5. AllFaces(mesh) = FlattenSeq(T)
  BY <1>1, <1>2 DEF AllFaces
<1>6. IsTable(T, n, 5, FaceRecords(mesh))
  BY <1>3, <1>4 DEF IsTable
<1> HIDE DEF T
<1>7. /\ FlattenSeq(T) \in Seq(FaceRecords(mesh))
      /\ \A x : x \in Range(FlattenSeq(T)) <=> InTable(x, T, n, 5)
  BY <1>6, FlatTable
<1> QED BY <1>1, <1>2, <1>3, <1>5, <1>7 DEF InTable

\* Every face of a prism is in the list, as one with the same three smallest vertices.
LEMMA FacesFound ==
  ASSUME NEW mesh, IsMesh(mesh), mesh.kind = "penta"
  PROVE  /\ Faces3d(mesh) \in Seq(FaceRecords(mesh))
         /\ \A e \in DOMAIN mesh.elements, k \in 1..5 : \E i \in DOMAIN Faces3d(mesh) :
              ThreeSmallest(Faces3d(mesh)[i].vertices) = ThreeSmallest(FaceVertices(mesh, e, k))
<1> DEFINE s == AllFaces(mesh)
<1> DEFINE N == FaceRecords(mesh)
<1>1. PICK n \in Nat : n = Len(s) /\ DOMAIN s = 1..n /\ \A i \in 1..n : s[i] \in N
  BY FacesOfElements, LenProperties
<1>2. PICK h : Steps(h, "face", << >>, s, n, Faces3d(mesh))
  BY <1>1, FacesAreFold, StepsOf
<1>3. ASSUME NEW e \in DOMAIN mesh.elements, NEW k \in 1..5
      PROVE  \E j \in 1..n : s[j].vertices = FaceVertices(mesh, e, k)
  <2>1. FaceOf(mesh, e, k) \in Range(s)
    BY FacesOfElements
  <2>2. PICK j \in 1..n : s[j] = FaceOf(mesh, e, k)
    BY <1>1, <2>1 DEF Range
  <2> QED BY <2>2 DEF FaceOf
<1> HIDE DEF s, N
<1> DEFINE Has(faces, j) == \E i \in DOMAIN faces : ThreeSmallest(faces[i].vertices) = ThreeSmallest(s[j].vertices)
<1> DEFINE Good == {k \in 0..n : h[k] \in Seq(N) /\ \A j \in 1..k : Has(h[k], j)}
<1>4. 0 \in Good
  <2>1. h[0] = << >> /\ << >> \in Seq(N)
    BY <1>2, EmptySeq DEF Steps
  <2>2. 0 \in 0..n /\ 1..0 = {}
    OBVIOUS
  <2> QED BY <2>1, <2>2
<1>5. ASSUME NEW k \in 1..n, k - 1 \in Good
      PROVE  k \in Good
  <2> DEFINE old == h[k - 1]
  <2> DEFINE new == h[k]
  <2> DEFINE face == s[k]
  <2> DEFINE Same(f) == ThreeSmallest(face.vertices) = ThreeSmallest(f.vertices)
  <2> DEFINE Closed(f) == [f EXCEPT !.e2 = face.e1]
  <2>1. old \in Seq(N) /\ (\A j \in 1..(k - 1) : Has(old, j)) /\ k - 1 \in 0..n
    BY <1>5
  <2>2. new = AddFaceTo(old, face) /\ face \in N
    BY <1>1, <1>2 DEF Steps, Step
  <2>3. SUFFICES new \in Seq(N) /\ \A j \in 1..k : Has(new, j)
    <3>1. k \in 0..n
      OBVIOUS
    <3> HIDE DEF N, Has
    <3> QED BY <3>1, Zenon
  <2>4. \A f \in N : Closed(f) \in N /\ Closed(f).vertices = f.vertices
    <3>1. face.e1 \in DOMAIN mesh.elements
      BY <2>2 DEF N, FaceRecords, FaceFields
    <3> HIDE DEF face
    <3>2. ASSUME NEW f \in FaceFields(mesh)
          PROVE  /\ Closed(f) \in FaceFields(mesh) /\ Closed(f).vertices = f.vertices
                 /\ Closed(f).marker = f.marker /\ Closed(f).e1 = f.e1
      BY <3>1 DEF FaceFields
    <3> HIDE DEF Closed
    <3> QED BY <3>2 DEF N, FaceRecords
  <2>5. \A j \in 1..k : j = k \/ j \in 1..(k - 1)
    OBVIOUS
  <2>6. DOMAIN old = 1..Len(old) /\ Len(old) \in Nat /\ \A i \in 1..Len(old) : old[i] \in N
    BY <2>1, LenProperties
  <2> HIDE DEF Good, Closed
  <2>7. CASE \E i \in DOMAIN old : Same(old[i])
    <3>1. new = [i \in DOMAIN old |-> IF Same(old[i]) THEN Closed(old[i]) ELSE old[i]]
      BY <2>2, <2>7 DEF AddFaceTo, Closed
    <3>2. Has(old, k)
      BY <2>7
    <3> HIDE DEF Same, old, new
    <3>3. new \in [1..Len(old) -> N] /\ DOMAIN new = DOMAIN old
          /\ \A i \in DOMAIN old : new[i].vertices = old[i].vertices
      BY <2>4, <2>6, <3>1
    <3>4. new \in Seq(N)
      BY <2>6, <3>3, SeqDef
    <3>5. ASSUME NEW j, Has(old, j) PROVE Has(new, j)
      BY <3>3, <3>5
    <3> QED BY <2>1, <2>5, <3>2, <3>4, <3>5
  <2>8. CASE ~ \E i \in DOMAIN old : Same(old[i])
    <3>1. new = Append(old, face)
      BY <2>2, <2>8 DEF AddFaceTo
    <3> HIDE DEF old, new, face
    <3>2. /\ new \in Seq(N) /\ Len(new) = Len(old) + 1 /\ new[Len(old) + 1] = face
          /\ \A i \in 1..Len(old) : new[i] = old[i]
      BY <2>1, <2>2, <3>1, AppendProperties
    <3>3. DOMAIN new = 1..(Len(old) + 1)
      BY <3>2, LenProperties
    <3>4. \A i \in DOMAIN old : i \in DOMAIN new /\ new[i] = old[i]
      BY <2>6, <3>2, <3>3
    <3>5. Len(old) + 1 \in DOMAIN new
      BY <2>6, <3>3
    <3>6. ASSUME NEW j, Has(old, j) PROVE Has(new, j)
      BY <3>4, <3>6
    <3>7. Has(new, k)
      BY <3>2, <3>5 DEF face
    <3> QED BY <2>1, <2>5, <3>2, <3>6, <3>7
  <2> QED BY <2>7, <2>8
<1>6. n \in Good
  <2> HIDE DEF Good
  <2>1. \A i \in 0..n : i \in Good
    BY <1>4, <1>5, UpTo
  <2> QED BY <2>1
<1>7. Faces3d(mesh) \in Seq(N) /\ \A j \in 1..n : Has(Faces3d(mesh), j)
  BY <1>2, <1>6 DEF Steps
<1>8. ASSUME NEW e \in DOMAIN mesh.elements, NEW k \in 1..5
      PROVE  \E i \in DOMAIN Faces3d(mesh) :
               ThreeSmallest(Faces3d(mesh)[i].vertices) = ThreeSmallest(FaceVertices(mesh, e, k))
  <2>1. PICK j \in 1..n : s[j].vertices = FaceVertices(mesh, e, k)
    BY <1>3
  <2> QED BY <1>7, <2>1
<1> QED BY <1>7, <1>8 DEF N

\* The sides of triangles: a side goes round its first element, and is one of its second.
SidePairs(mesh) == {SidesOf(mesh, p[1])[p[2]] : p \in (DOMAIN mesh.elements) \X (1..3)}
SideFields(mesh) == [v : SidePairs(mesh), e1 : DOMAIN mesh.elements, e2 : {0} \cup DOMAIN mesh.elements]
Between2(v) == {v[1], v[2]}
SideRecords(mesh) ==
  {f \in SideFields(mesh) :
     /\ \E k \in 1..3 : f.v = SidesOf(mesh, f.e1)[k]
     /\ f.e2 # 0 => \E k \in 1..3 : Between2(f.v) = Between2(SidesOf(mesh, f.e2)[k])}

SideOf(mesh, e, k) == [v |-> SidesOf(mesh, e)[k], e1 |-> e, e2 |-> 0]

AllSides(mesh) == FlattenSeq([e \in DOMAIN mesh.elements |-> [k \in 1..3 |-> SideOf(mesh, e, k)]])

LEMMA SidesAreFold ==
  ASSUME NEW mesh, NEW n, DOMAIN AllSides(mesh) = 1..n
  PROVE  Faces2d(mesh) = (CHOOSE g : Table(g, "side", << >>, AllSides(mesh), n))[1..n]
<1>1. Faces2d(mesh) = FoldLeft(AddSideTo, << >>, AllSides(mesh))
  BY DEF Faces2d, AllSides, SideOf, AddSideTo, FoldLeft, MapThenFoldSet
<1>2. FoldLeft(AddSideTo, << >>, AllSides(mesh)) = (CHOOSE g : Table(g, "side", << >>, AllSides(mesh), n))[1..n]
  BY DEF FoldLeft, MapThenFoldSet, Table, Step
<1> QED BY <1>1, <1>2

LEMMA SidesOfElements ==
  ASSUME NEW mesh, IsMesh(mesh)
  PROVE  AllSides(mesh) \in Seq(SideRecords(mesh))
<1>1. PICK n \in Nat : DOMAIN mesh.elements = 1..n
  BY MeshFacts
<1> DEFINE T == [e \in 1..n |-> [c \in 1..3 |-> SideOf(mesh, e, c)]]
<1>2. \A e \in 1..n, c \in 1..3 : T[e][c] = SideOf(mesh, e, c)
  OBVIOUS
<1>3. ASSUME NEW e \in 1..n, NEW c \in 1..3
      PROVE  T[e][c] \in SideRecords(mesh)
  <2> DEFINE p == <<e, c>>
  <2>1. p \in (DOMAIN mesh.elements) \X (1..3) /\ p[1] = e /\ p[2] = c
    BY <1>1
  <2> HIDE DEF p
  <2>2. SidesOf(mesh, e)[c] \in SidePairs(mesh)
    BY <2>1 DEF SidePairs
  <2>3. SideOf(mesh, e, c) \in SideFields(mesh)
    BY <1>1, <2>2 DEF SideOf, SideFields
  <2>4. /\ SideOf(mesh, e, c).v = SidesOf(mesh, e)[c] /\ SideOf(mesh, e, c).e1 = e
        /\ SideOf(mesh, e, c).e2 = 0
    BY DEF SideOf
  <2>5. SideOf(mesh, e, c) \in SideRecords(mesh)
    BY <2>3, <2>4 DEF SideRecords
  <2> QED BY <1>2, <2>5
<1>4. AllSides(mesh) = FlattenSeq(T)
  BY <1>1 DEF AllSides
<1>5. IsTable(T, n, 3, SideRecords(mesh))
  BY <1>2, <1>3 DEF IsTable
<1> HIDE DEF T
<1>6. FlattenSeq(T) \in Seq(SideRecords(mesh))
  BY <1>5, FlatTable
<1> QED BY <1>4, <1>6

\* A side more: it closes the one with its ends, or comes after all.
LEMMA SideIsAdded ==
  ASSUME NEW mesh, IsMesh(mesh), NEW old \in Seq(SideRecords(mesh)), NEW side \in SideRecords(mesh)
  PROVE  AddSideTo(old, side) \in Seq(SideRecords(mesh))
<1> DEFINE N == SideRecords(mesh)
<1> DEFINE new == AddSideTo(old, side)
<1> DEFINE Same(f) == {side.v[1], side.v[2]} = {f.v[1], f.v[2]}
<1> DEFINE Closed(f) == [f EXCEPT !.e2 = side.e1]
<1>1. \A f \in N : Same(f) => Closed(f) \in N
  <2>1. /\ side.e1 \in DOMAIN mesh.elements
        /\ \E c \in 1..3 : side.v = SidesOf(mesh, side.e1)[c]
    BY DEF SideRecords, SideFields
  <2>2. ASSUME NEW f \in SideFields(mesh)
        PROVE  /\ Closed(f) \in SideFields(mesh) /\ Closed(f).v = f.v
               /\ Closed(f).e1 = f.e1 /\ Closed(f).e2 = side.e1
    BY <2>1 DEF SideFields
  <2>3. \A f : Same(f) => Between2(f.v) = Between2(side.v)
    BY DEF Between2
  <2> HIDE DEF Closed, Same
  <2>4. ASSUME NEW f \in N, Same(f)
        PROVE  Closed(f) \in N
    <3>1. f \in SideFields(mesh) /\ \E c \in 1..3 : f.v = SidesOf(mesh, f.e1)[c]
      BY DEF SideRecords
    <3>2. \E c \in 1..3 : Between2(f.v) = Between2(SidesOf(mesh, side.e1)[c])
      BY <2>1, <2>3, <2>4
    <3> QED BY <2>2, <3>1, <3>2 DEF SideRecords
  <2> QED BY <2>4
<1> HIDE DEF N
<1>2. old \in Seq(N) /\ side \in N
  BY DEF N
<1>3. DOMAIN old = 1..Len(old) /\ Len(old) \in Nat /\ \A i \in 1..Len(old) : old[i] \in N
  BY <1>2, LenProperties
<1> HIDE DEF Closed
<1>4. CASE \E i \in DOMAIN old : Same(old[i])
  <2>1. new = [i \in DOMAIN old |-> IF Same(old[i]) THEN Closed(old[i]) ELSE old[i]]
    BY <1>4 DEF AddSideTo, Closed
  <2> HIDE DEF Same, new
  <2>2. new \in [1..Len(old) -> N]
    BY <1>1, <1>3, <2>1
  <2>3. new \in Seq(N)
    BY <1>3, <2>2, SeqDef
  <2> QED BY <2>3 DEF new, N
<1>5. CASE ~ \E i \in DOMAIN old : Same(old[i])
  <2>1. new = Append(old, side)
    BY <1>5 DEF AddSideTo
  <2> HIDE DEF new
  <2>2. new \in Seq(N)
    BY <1>2, <2>1, AppendProperties
  <2> QED BY <2>2 DEF new, N
<1> QED BY <1>4, <1>5

\* The list of faces of a mesh of triangles.
LEMMA SidesFound ==
  ASSUME NEW mesh, IsMesh(mesh)
  PROVE  Faces2d(mesh) \in Seq(SideRecords(mesh))
<1> DEFINE s == AllSides(mesh)
<1> DEFINE N == SideRecords(mesh)
<1>1. PICK n \in Nat : n = Len(s) /\ DOMAIN s = 1..n /\ \A i \in 1..n : s[i] \in N
  BY SidesOfElements, LenProperties
<1>2. PICK h : Steps(h, "side", << >>, s, n, Faces2d(mesh))
  BY <1>1, SidesAreFold, StepsOf
<1> HIDE DEF s
<1> DEFINE Good == {k \in 0..n : h[k] \in Seq(N)}
<1>4. 0 \in Good
  <2>1. h[0] = << >> /\ << >> \in Seq(N)
    BY <1>2, EmptySeq DEF Steps
  <2>2. 0 \in 0..n
    OBVIOUS
  <2> QED BY <2>1, <2>2
<1>5. ASSUME NEW k \in 1..n, k - 1 \in Good
      PROVE  k \in Good
  <2>1. h[k - 1] \in Seq(N) /\ s[k] \in N /\ k \in 0..n
    BY <1>1, <1>5
  <2>2. h[k] = AddSideTo(h[k - 1], s[k])
    BY <1>2 DEF Steps, Step
  <2>3. AddSideTo(h[k - 1], s[k]) \in Seq(N)
    BY <2>1, SideIsAdded
  <2> QED BY <2>1, <2>2, <2>3
<1>6. n \in Good
  <2> HIDE DEF Good
  <2>1. \A i \in 0..n : i \in Good
    BY <1>4, <1>5, UpTo
  <2> QED BY <2>1
<1> QED BY <1>2, <1>6 DEF Steps

-----------------------------------------------------------------------------
(***************************************************************************)
(* What a rank knows of the mesh.                                          *)
(***************************************************************************)
Nv  == NumberOfVertices(iomodel)
Nel == NumberOfElements(iomodel)
Ne  == NumberOfEdges(iomodel)
Nf  == NumberOfFaces(iomodel)

Partitioned ==
  /\ setting \in Settings /\ iomodel = IoModel(setting.mesh)
  /\ \A r \in Ranks : my_elements[r] \subseteq Elements

Kind == iomodel.mesh.kind
Place(e, p) == iomodel.mesh.elements[e][p]

LEMMA MeshIsKnown ==
  ASSUME Partitioned
  PROVE  /\ IsMesh(iomodel.mesh) /\ iomodel.mesh = setting.mesh
         /\ iomodel.edges = Edges(iomodel.mesh)
         /\ iomodel.elementEdges = ElementToEdge(iomodel.mesh, iomodel.edges)
         /\ Kind = "penta" => /\ iomodel.faces = Faces3d(iomodel.mesh)
                              /\ iomodel.elementFaces = ElementToFace(iomodel.mesh, iomodel.faces)
         /\ Kind = "tria" => iomodel.faces = Faces2d(iomodel.mesh)
<1>1. IsMesh(setting.mesh)
  BY SettingsAssumption DEF Partitioned, IsMesh
<1> DEFINE mesh == setting.mesh
<1>2. IoModel(mesh).mesh = mesh /\ IoModel(mesh).edges = Edges(mesh)
      /\ IoModel(mesh).elementEdges = ElementToEdge(mesh, Edges(mesh))
  BY DEF IoModel
<1>3. mesh.kind = "penta" =>
        /\ IoModel(mesh).faces = Faces3d(mesh)
        /\ IoModel(mesh).elementFaces = ElementToFace(mesh, Faces3d(mesh))
  BY DEF IoModel
<1>4. mesh.kind = "tria" => IoModel(mesh).faces = Faces2d(mesh)
  BY DEF IoModel
<1> QED BY <1>1, <1>2, <1>3, <1>4 DEF Partitioned, Kind

LEMMA IoFacts ==
  ASSUME Partitioned
  PROVE  /\ Nv \in Nat /\ Nel \in Nat /\ Ne \in Nat /\ (Kind = "penta" => Nf \in Nat)
         /\ Elements = 1..Nel /\ Vertices = 1..Nv /\ DOMAIN iomodel.edges = 1..Ne
         /\ Kind = "penta" => DOMAIN iomodel.faces = 1..Nf
         /\ CornersOf(Kind) \in {3, 4, 6} /\ (Kind = "tria" => CornersOf(Kind) = 3)
         /\ \A e \in 1..Nel : /\ Len(iomodel.mesh.elements[e]) = CornersOf(Kind)
                              /\ \A p \in 1..CornersOf(Kind) : Place(e, p) \in 1..Nv
<1> DEFINE mesh == iomodel.mesh
<1>1. IsMesh(mesh) /\ Nv = mesh.nv
  BY MeshIsKnown DEF Nv, NumberOfVertices
<1>2. Nv \in Nat /\ \A e \in DOMAIN mesh.elements : Len(mesh.elements[e]) = CornersOf(Kind)
  BY <1>1 DEF IsMesh, Kind
<1>3. Nel = Len(mesh.elements)
  BY DEF Nel, NumberOfElements
<1>4. /\ Nel \in Nat /\ DOMAIN mesh.elements = 1..Nel
      /\ CornersOf(Kind) \in {3, 4, 6} /\ (Kind = "tria" => CornersOf(Kind) = 3)
      /\ \A e \in 1..Nel : \A p \in 1..CornersOf(Kind) : Place(e, p) \in 1..Nv
  <2> HIDE DEF mesh
  <2> QED BY <1>1, <1>3, MeshFacts DEF Place, Kind, mesh
<1>5. Ne \in Nat /\ DOMAIN iomodel.edges = 1..Ne
  <2>1. iomodel.edges \in Seq(EdgeRecords(mesh))
    BY <1>1, MeshIsKnown, EdgesFound
  <2> QED BY <2>1, LenProperties DEF Ne, NumberOfEdges
<1>6. ASSUME Kind = "penta"
      PROVE  Nf \in Nat /\ DOMAIN iomodel.faces = 1..Nf
  <2>1. iomodel.faces \in Seq(FaceRecords(mesh))
    BY <1>1, <1>6, MeshIsKnown, FacesFound DEF Kind
  <2> QED BY <2>1, LenProperties DEF Nf, NumberOfFaces
<1>7. Elements = 1..Nel /\ Vertices = 1..Nv
  BY DEF Elements, Vertices, Nel, Nv
<1> QED BY <1>2, <1>4, <1>5, <1>6, <1>7

\* The things at which a rank may have nodes are in the lists.
LEMMA MineAreThere ==
  ASSUME Partitioned, NEW r \in Ranks
  PROVE  /\ MyVertexSet(r) \subseteq 1..Nv /\ my_elements[r] \subseteq 1..Nel
         /\ MyEdges(r) \subseteq 1..Ne
         /\ Kind = "penta" => MyFaces(r) \subseteq 1..Nf
<1> DEFINE mesh == iomodel.mesh
<1>1. IsMesh(mesh) /\ iomodel.edges = Edges(mesh)
      /\ iomodel.elementEdges = ElementToEdge(mesh, iomodel.edges)
  BY MeshIsKnown
<1>2. my_elements[r] \subseteq DOMAIN mesh.elements /\ my_elements[r] \subseteq 1..Nel
  <2>1. Elements = 1..Nel /\ Nel = Len(mesh.elements)
    BY IoFacts DEF Nel, NumberOfElements
  <2>2. DOMAIN mesh.elements = 1..Len(mesh.elements)
    BY <1>1, MeshFacts
  <2> QED BY <2>1, <2>2 DEF Partitioned
<1>3. MyVertexSet(r) \subseteq 1..Nv
  BY IoFacts DEF MyVertexSet
<1>4. ASSUME NEW e \in my_elements[r], NEW i \in Range(iomodel.elementEdges[e])
      PROVE  i \in 1..Ne
  <2>1. PICK k \in DOMAIN LocalEdges(mesh.kind) :
          i = CHOOSE j \in DOMAIN iomodel.edges : iomodel.edges[j].ends = EdgeEnds(mesh, e, k)
    BY <1>1, <1>2, <1>4 DEF ElementToEdge, Range
  <2>2. \E j \in DOMAIN iomodel.edges : iomodel.edges[j].ends = EdgeEnds(mesh, e, k)
    BY <1>1, <1>2, EdgesFound
  <2>3. i \in DOMAIN iomodel.edges
    BY <2>1, <2>2
  <2> QED BY <2>3, IoFacts
<1>5. MyEdges(r) \subseteq 1..Ne
  BY <1>4 DEF MyEdges
<1>6. ASSUME Kind = "penta", NEW e \in my_elements[r], NEW i \in Range(iomodel.elementFaces[e])
      PROVE  i \in 1..Nf
  <2>1. DOMAIN LocalFaces(mesh.kind) = 1..5
    BY <1>6 DEF LocalFaces, Kind
  <2>2. iomodel.faces = Faces3d(mesh) /\ iomodel.elementFaces = ElementToFace(mesh, iomodel.faces)
    BY <1>6, MeshIsKnown
  <2>3. PICK k \in 1..5 :
          i = CHOOSE j \in DOMAIN iomodel.faces :
                ThreeSmallest(iomodel.faces[j].vertices) = ThreeSmallest(FaceVertices(mesh, e, k))
    BY <1>2, <1>6, <2>1, <2>2 DEF ElementToFace, Range
  <2>4. \E j \in DOMAIN iomodel.faces :
          ThreeSmallest(iomodel.faces[j].vertices) = ThreeSmallest(FaceVertices(mesh, e, k))
    BY <1>1, <1>2, <1>6, <2>2, FacesFound DEF Kind
  <2>5. i \in DOMAIN iomodel.faces
    BY <2>3, <2>4
  <2> QED BY <1>6, <2>5, IoFacts
<1>7. Kind = "penta" => MyFaces(r) \subseteq 1..Nf
  BY <1>6 DEF MyFaces
<1> QED BY <1>2, <1>3, <1>5, <1>7
-----------------------------------------------------------------------------
(***************************************************************************)
(* The loops that create nodes.  All ranks are at the counter N.           *)
(***************************************************************************)
CounterIs(N) == N \in Nat /\ \A r \in Ranks : nodecounter[r] = N

NodeAt(N, a, id, sid, v, approximation) ==
  [id            |-> N + id,
   sid           |-> sid,
   vertex        |-> v,
   analysis      |-> a.name,
   approximation |-> IF a.name = "Stressbalance" THEN approximation ELSE "none",
   frozen        |-> Frozen(a, approximation, v)]

LEMMA NodeIs ==
  ASSUME NEW N, CounterIs(N), NEW r \in Ranks, NEW a, NEW id, NEW sid, NEW v, NEW approximation
  PROVE  Node(r, a, id, sid, v, approximation) = NodeAt(N, a, id, sid, v, approximation)
<1>1. nodecounter[r] = N
  BY DEF CounterIs
<1> QED BY <1>1 DEF Node, NodeAt

NodeInput(N, a, id, sid, v, app) ==
  N \in Nat /\ a \in AnalysesNow /\ id \in Int /\ sid \in Int /\ v \in Nat /\ app \in Approximations

LEMMA NodeAtHas ==
  ASSUME NEW N, NEW a, NEW id, NEW sid, NEW v, NEW approximation, NodeInput(N, a, id, sid, v, approximation)
  PROVE  /\ NodeAt(N, a, id, sid, v, approximation) \in NodeRecords
         /\ NodeAt(N, a, id, sid, v, approximation).id = N + id
         /\ NodeAt(N, a, id, sid, v, approximation).sid = sid
<1> USE DEF NodeInput
<1> DEFINE frozen == Frozen(a, approximation, v)
<1>1. frozen \in BOOLEAN
  BY DEF Frozen
<1>2. a.name \in NamesNow
  BY DEF NamesNow
<1> DEFINE field == IF a.name = "Stressbalance" THEN approximation ELSE "none"
<1>3. field \in Approximations
  BY DEF Approximations
<1>4. N + id \in Int
  OBVIOUS
<1>5. NodeAt(N, a, id, sid, v, approximation) =
        [id |-> N + id, sid |-> sid, vertex |-> v, analysis |-> a.name, approximation |-> field, frozen |-> frozen]
  BY DEF NodeAt
<1> HIDE DEF frozen, field
<1> QED BY <1>1, <1>2, <1>3, <1>4, <1>5 DEF NodeRecords

\* k ids for each of 1, 2, ...
LEMMA StrideFacts ==
  ASSUME NEW k \in Nat, NEW i \in Nat, NEW j \in Nat, i < j
  PROVE  k * (i - 1) + k <= k * (j - 1)
<1>1. PICK d \in Nat : j = i + 1 + d
  <2>1. j - i - 1 \in Nat /\ j = i + 1 + (j - i - 1)
    OBVIOUS
  <2> QED BY <2>1
<1>2. k * (j - 1) = k * (i - 1) + k + k * d
  <2>1. j - 1 = (i - 1) + 1 + d /\ i - 1 \in Int
    BY <1>1
  <2>2. \A x \in Int : k * (x + 1 + d) = k * x + k + k * d
    OBVIOUS
  <2> QED BY <2>1, <2>2
<1>3. k * d \in Nat
  OBVIOUS
<1>4. k * (i - 1) \in Int
  OBVIOUS
<1> QED BY <1>2, <1>3, <1>4

LEMMA StrideBounds ==
  ASSUME NEW k \in Nat, NEW n \in Nat, NEW i \in 1..n, NEW c \in 1..k
  PROVE  k * (i - 1) \in Nat /\ 0 < k * (i - 1) + c /\ k * (i - 1) + c <= k * n
<1>1. i - 1 \in Nat /\ i \in Nat
  OBVIOUS
<1>2. k * (i - 1) \in Nat
  BY <1>1
<1>3. k * (i - 1) + k <= k * n
  <2>1. i < n + 1 /\ n + 1 \in Nat /\ (n + 1) - 1 = n
    OBVIOUS
  <2>2. k * (i - 1) + k <= k * ((n + 1) - 1)
    BY <1>1, <2>1, StrideFacts
  <2> QED BY <2>1, <2>2
<1>4. k * n \in Nat
  OBVIOUS
<1> QED BY <1>2, <1>3, <1>4

LEMMA StrideInjective ==
  ASSUME NEW k \in Nat, NEW n \in Nat, NEW i \in 1..n, NEW j \in 1..n, NEW c \in 1..k, NEW d \in 1..k,
         k * (i - 1) + c = k * (j - 1) + d
  PROVE  i = j /\ c = d
<1>1. k * (i - 1) \in Nat /\ k * (j - 1) \in Nat
  BY StrideBounds
<1>2. ~(i < j)
  <2>1. i < j => k * (i - 1) + k <= k * (j - 1)
    BY StrideFacts
  <2> QED BY <1>1, <2>1
<1>3. ~(j < i)
  <2>1. j < i => k * (j - 1) + k <= k * (i - 1)
    BY StrideFacts
  <2> QED BY <1>1, <2>1
<1>4. i = j
  BY <1>2, <1>3
<1> QED BY <1>1, <1>4

\* The id of node c of thing i, if there is room for k nodes on each thing after the first off ids.
IdIn(off, k, i, c) == off + k * (i - 1) + c
Room(k, n) == k * n

LEMMA IdFacts ==
  ASSUME NEW off \in Nat, NEW k \in Nat, NEW n \in Nat, NEW i \in 1..n, NEW c \in 1..k
  PROVE  /\ IdIn(off, k, i, c) \in Int /\ Room(k, n) \in Nat
         /\ off < IdIn(off, k, i, c) /\ IdIn(off, k, i, c) <= off + Room(k, n)
<1> DEFINE K == k * (i - 1)
<1> DEFINE kn == k * n
<1>1. K \in Nat /\ 0 < K + c /\ K + c <= kn /\ c \in Int
  BY StrideBounds
<1>2. kn \in Nat
  OBVIOUS
<1>3. /\ off + K + c \in Int /\ off < off + K + c /\ off + K + c <= off + kn
  <2> HIDE DEF K, kn
  <2> QED BY <1>1, <1>2
<1> QED BY <1>2, <1>3 DEF IdIn, Room

OnePlace(off, k, n, i, c, j, d) ==
  /\ off \in Nat /\ k \in Nat /\ n \in Nat /\ i \in 1..n /\ c \in 1..k /\ j \in 1..n /\ d \in 1..k
  /\ IdIn(off, k, i, c) = IdIn(off, k, j, d)

LEMMA IdsDiffer ==
  ASSUME NEW off, NEW k, NEW n, NEW i, NEW c, NEW j, NEW d, OnePlace(off, k, n, i, c, j, d)
  PROVE  i = j /\ c = d
<1> USE DEF OnePlace
<1> DEFINE K == k * (i - 1)
<1> DEFINE J == k * (j - 1)
<1>1. K \in Nat /\ J \in Nat
  BY StrideBounds
<1>2. off + K + c = off + J + d /\ off \in Nat /\ c \in Int /\ d \in Int
  BY DEF IdIn
<1>3. K + c = J + d
  <2> HIDE DEF K, J, OnePlace
  <2> QED BY <1>1, <1>2
<1> QED BY <1>3, StrideInjective

\* Serial ids of thing i follow S[i], as many as it has nodes.
Spaced(S, copies, n, slo, shi) ==
  /\ S \in [1..n -> Int] /\ slo \in Int /\ shi \in Int
  /\ \A i, j \in 1..n : i < j => S[i] + copies[i] <= S[j]
  /\ \A i \in 1..n : slo <= S[i] /\ S[i] + copies[i] <= shi

LEMMA SpacedFacts ==
  ASSUME NEW k \in Nat, NEW n \in Nat, NEW copies \in [1..n -> 0..k], NEW S, NEW slo, NEW shi,
         Spaced(S, copies, n, slo, shi), NEW i \in 1..n, NEW c \in 1..k, c <= copies[i]
  PROVE  /\ S[i] + c \in Int /\ slo < S[i] + c /\ S[i] + c <= shi
<1>1. /\ S \in [1..n -> Int] /\ slo \in Int /\ shi \in Int
      /\ \A x, y \in 1..n : x < y => S[x] + copies[x] <= S[y]
      /\ \A x \in 1..n : slo <= S[x] /\ S[x] + copies[x] <= shi
  BY DEF Spaced
<1>2. S[i] \in Int /\ c \in Int /\ copies[i] \in Int /\ 0 < c
  BY <1>1
<1> QED BY <1>1, <1>2

OneSid(S, copies, n, k, slo, shi, i, c, j, d) ==
  /\ IsLoop(n, k, copies) /\ Spaced(S, copies, n, slo, shi)
  /\ i \in 1..n /\ c \in 1..k /\ c <= copies[i] /\ j \in 1..n /\ d \in 1..k /\ d <= copies[j]
  /\ S[i] + c = S[j] + d

LEMMA SidsDiffer ==
  ASSUME NEW S, NEW copies, NEW n, NEW k, NEW slo, NEW shi, NEW i, NEW c, NEW j, NEW d,
         OneSid(S, copies, n, k, slo, shi, i, c, j, d)
  PROVE  i = j /\ c = d
<1> USE DEF OneSid, IsLoop
<1>1. /\ S \in [1..n -> Int]
      /\ \A x, y \in 1..n : x < y => S[x] + copies[x] <= S[y]
  BY DEF Spaced
<1>2. S[i] \in Int /\ c \in Int /\ copies[i] \in Int /\ 0 < c /\ c <= copies[i] /\ i \in Int
  BY <1>1
<1>3. S[j] \in Int /\ d \in Int /\ copies[j] \in Int /\ 0 < d /\ d <= copies[j] /\ j \in Int
  BY <1>1
<1>4. ~(i < j)
  <2>1. i < j => S[i] + copies[i] <= S[j]
    BY <1>1
  <2> QED BY <1>2, <1>3, <2>1
<1>5. ~(j < i)
  <2>1. j < i => S[j] + copies[j] <= S[i]
    BY <1>1
  <2> QED BY <1>2, <1>3, <2>1
<1>6. i = j
  BY <1>2, <1>3, <1>4, <1>5
<1> QED BY <1>2, <1>3, <1>6

\* L[r] is made by a loop over n things that makes a node for each copy of those in M[r].
Made(L, SS, M, n, a, app, k, off, copies, S, V) ==
  \A r \in Ranks :
    /\ L[r] = FlattenSeq(SS[r]) /\ SS[r] = [i \in 1..n |-> SS[r][i]]
    /\ \A i \in 1..n : SS[r][i] =
         IF i \in M[r]
           THEN [c \in 1..copies[i] |-> Node(r, a, IdIn(off, k, i, c), S[i] + c, V[i][c], app)]
           ELSE << >>

Holds(L, M, n, N, off, k, copies) ==
  \A r \in Ranks : \A x : x \in Ids(L[r]) <=>
    \E i \in 1..n, c \in 1..k : i \in M[r] /\ c <= copies[i] /\ x = N + IdIn(off, k, i, c)

IdsAre(T, n, k, N, off) == \A i \in 1..n, c \in 1..k : T[i][c].id = N + IdIn(off, k, i, c)

LEMMA NamesHold ==
  ASSUME NEW L, NEW M, NEW n, NEW N, NEW off, NEW k, NEW copies, NEW T,
         Names(L, M, n, k, copies, T), IdsAre(T, n, k, N, off)
  PROVE  Holds(L, M, n, N, off, k, copies)
BY DEF Names, IdsAre, Holds

NodeTable(N, a, app, n, k, off, S, V) ==
  [i \in 1..n |-> [c \in 1..k |-> NodeAt(N, a, IdIn(off, k, i, c), S[i] + c, V[i][c], app)]]

TableInput(N, a, app, n, k, off, copies, S, slo, shi, V) ==
  /\ CounterIs(N) /\ a \in AnalysesNow /\ app \in Approximations
  /\ n \in Nat /\ k \in Nat /\ off \in Nat /\ copies \in [1..n -> 0..k]
  /\ Spaced(S, copies, n, slo, shi) /\ V \in [1..n -> [1..k -> Nat]]

TableFacts(T, N, a, app, n, k, off, copies, S, slo, shi, V) ==
  /\ IsTable(T, n, k, NodeRecords) /\ IdsAre(T, n, k, N, off)
  /\ Bounded(T, n, k, copies, N + off, N + off + Room(k, n), slo, shi)
  /\ Distinct(T, n, k, copies)
  /\ \A i \in 1..n, c \in 1..k : T[i][c] = NodeAt(N, a, IdIn(off, k, i, c), S[i] + c, V[i][c], app)

LEMMA NodesOfTable ==
  ASSUME NEW N, NEW a, NEW app, NEW n, NEW k, NEW off, NEW copies, NEW S, NEW slo, NEW shi, NEW V,
         TableInput(N, a, app, n, k, off, copies, S, slo, shi, V)
  PROVE  TableFacts(NodeTable(N, a, app, n, k, off, S, V), N, a, app, n, k, off, copies, S, slo, shi, V)
<1> USE DEF TableInput
<1> DEFINE T == NodeTable(N, a, app, n, k, off, S, V)
<1>0. N \in Nat
  BY DEF CounterIs
<1>1. ASSUME NEW i \in 1..n, NEW c \in 1..k
      PROVE  /\ T[i][c] = NodeAt(N, a, IdIn(off, k, i, c), S[i] + c, V[i][c], app)
             /\ T[i][c] \in NodeRecords
             /\ T[i][c].id = N + IdIn(off, k, i, c)
             /\ T[i][c].sid = S[i] + c
  <2> DEFINE id == IdIn(off, k, i, c)
  <2> DEFINE sid == S[i] + c
  <2> DEFINE v == V[i][c]
  <2>1. T[i][c] = NodeAt(N, a, id, sid, v, app)
    BY DEF NodeTable
  <2>2. id \in Int
    BY IdFacts
  <2>3. S[i] \in Int /\ c \in Int /\ v \in Nat
    BY DEF Spaced
  <2>4. sid \in Int
    BY <2>3
  <2> HIDE DEF id, sid, v
  <2>5. /\ NodeAt(N, a, id, sid, v, app) \in NodeRecords
        /\ NodeAt(N, a, id, sid, v, app).id = N + id
        /\ NodeAt(N, a, id, sid, v, app).sid = sid
    <3>1. NodeInput(N, a, id, sid, v, app)
      BY <1>0, <2>2, <2>3, <2>4 DEF NodeInput
    <3> QED BY <3>1, NodeAtHas
  <2> QED BY <2>1, <2>2, <2>5 DEF id, sid, v
<1>2. T \in [1..n -> [1..k -> NodeRecords]]
  BY <1>1 DEF NodeTable
<1> HIDE DEF T
<1> DEFINE lo == N + off
<1> DEFINE hi == N + off + Room(k, n)
<1> HIDE DEF T
<1>4. Bounded(T, n, k, copies, lo, hi, slo, shi)
  <2> SUFFICES ASSUME NEW i \in 1..n, NEW c \in 1..k, c <= copies[i]
               PROVE  InBounds(T[i][c], lo, hi, slo, shi)
    BY DEF Bounded
  <2>1. /\ IdIn(off, k, i, c) \in Int /\ Room(k, n) \in Nat
        /\ off < IdIn(off, k, i, c) /\ IdIn(off, k, i, c) <= off + Room(k, n)
    BY IdFacts
  <2>2. lo < T[i][c].id /\ T[i][c].id <= hi
    <3> DEFINE id == IdIn(off, k, i, c)
    <3> DEFINE room == Room(k, n)
    <3>1. T[i][c].id = N + id
      BY <1>1
    <3>2. id \in Int /\ room \in Nat /\ off < id /\ id <= off + room
      BY <2>1
    <3> HIDE DEF id, room
    <3>3. N + off < N + id /\ N + id <= N + off + room
      BY <1>0, <3>2
    <3> QED BY <3>1, <3>3 DEF room
  <2>3. slo < S[i] + c /\ S[i] + c <= shi
    BY SpacedFacts
  <2>4. slo < T[i][c].sid /\ T[i][c].sid <= shi
    BY <1>1, <2>3
  <2> QED BY <2>2, <2>4 DEF InBounds
<1>5. Distinct(T, n, k, copies)
  <2> SUFFICES ASSUME NEW i \in 1..n, NEW j \in 1..n, NEW c \in 1..k, NEW d \in 1..k,
                      c <= copies[i], d <= copies[j], T[i][c].id = T[j][d].id \/ T[i][c].sid = T[j][d].sid
               PROVE  i = j /\ c = d
    BY DEF Distinct
  <2>1. CASE T[i][c].id = T[j][d].id
    <3>1. IdIn(off, k, i, c) \in Int /\ IdIn(off, k, j, d) \in Int
      BY IdFacts
    <3>2. IdIn(off, k, i, c) = IdIn(off, k, j, d)
      BY <1>0, <1>1, <2>1, <3>1
    <3>3. OnePlace(off, k, n, i, c, j, d)
      BY <3>2 DEF OnePlace
    <3> QED BY <3>3, IdsDiffer
  <2>2. CASE T[i][c].sid = T[j][d].sid
    <3>1. S[i] + c = S[j] + d
      BY <1>1, <2>2
    <3>2. OneSid(S, copies, n, k, slo, shi, i, c, j, d)
      BY <3>1 DEF OneSid, IsLoop
    <3> QED BY <3>2, SidsDiffer
  <2> QED BY <2>1, <2>2
<1>6. IsTable(T, n, k, NodeRecords)
  BY <1>2 DEF IsTable
<1>7. IdsAre(T, n, k, N, off)
  BY <1>1 DEF IdsAre
<1>8. TableFacts(T, N, a, app, n, k, off, copies, S, slo, shi, V)
  BY <1>1, <1>4, <1>5, <1>6, <1>7 DEF TableFacts
<1> QED BY <1>8 DEF T

LEMMA LoopOfNodes ==
  ASSUME NEW N, CounterIs(N), NEW a \in AnalysesNow, NEW app \in Approximations,
         NEW n \in Nat, NEW k \in Nat, NEW off \in Nat, NEW copies \in [1..n -> 0..k],
         NEW S, NEW slo, NEW shi, Spaced(S, copies, n, slo, shi),
         NEW V \in [1..n -> [1..k -> Nat]],
         NEW M, NEW L, NEW SS, Made(L, SS, M, n, a, app, k, off, copies, S, V)
  PROVE  Agree(L, N + off, N + off + Room(k, n), slo, shi) /\ Holds(L, M, n, N, off, k, copies)
<1> DEFINE T == NodeTable(N, a, app, n, k, off, S, V)
<1> HIDE DEF T
<1>1. /\ IsTable(T, n, k, NodeRecords) /\ IdsAre(T, n, k, N, off)
      /\ Bounded(T, n, k, copies, N + off, N + off + Room(k, n), slo, shi)
      /\ Distinct(T, n, k, copies)
      /\ \A i \in 1..n, c \in 1..k : T[i][c] = NodeAt(N, a, IdIn(off, k, i, c), S[i] + c, V[i][c], app)
  <2>1. TableInput(N, a, app, n, k, off, copies, S, slo, shi, V)
    BY DEF TableInput
  <2>2. TableFacts(NodeTable(N, a, app, n, k, off, S, V), N, a, app, n, k, off, copies, S, slo, shi, V)
    BY <2>1, NodesOfTable
  <2>3. TableFacts(T, N, a, app, n, k, off, copies, S, slo, shi, V)
    BY <2>2 DEF T
  <2> QED BY <2>3 DEF TableFacts
<1>3. Looped(L, SS, M, n, copies, T)
  <2> SUFFICES ASSUME NEW r \in Ranks, NEW i \in 1..n, i \in M[r]
               PROVE  SS[r][i] = [c \in 1..copies[i] |-> T[i][c]]
    BY DEF Made, Looped
  <2>1. \A c \in 1..copies[i] : c \in 1..k
    <3>1. copies[i] \in 0..k
      OBVIOUS
    <3> QED BY <3>1
  <2>2. ASSUME NEW c \in 1..copies[i]
        PROVE  Node(r, a, IdIn(off, k, i, c), S[i] + c, V[i][c], app) = T[i][c]
    <3>1. T[i][c] = NodeAt(N, a, IdIn(off, k, i, c), S[i] + c, V[i][c], app)
      BY <1>1, <2>1
    <3> DEFINE id == IdIn(off, k, i, c)
    <3> DEFINE sid == S[i] + c
    <3> DEFINE v == V[i][c]
    <3> HIDE DEF id, sid, v
    <3>2. Node(r, a, id, sid, v, app) = NodeAt(N, a, id, sid, v, app)
      BY NodeIs
    <3> QED BY <3>1, <3>2 DEF id, sid, v
  <2>3. SS[r][i] = [c \in 1..copies[i] |-> Node(r, a, IdIn(off, k, i, c), S[i] + c, V[i][c], app)]
    BY DEF Made
  <2> QED BY <2>2, <2>3
<1>6. IsLoop(n, k, copies)
  BY DEF IsLoop
<1> DEFINE lo == N + off
<1> DEFINE hi == N + off + Room(k, n)
<1>7. Agree(L, lo, hi, slo, shi) /\ Names(L, M, n, k, copies, T)
  <2>1. Bounded(T, n, k, copies, lo, hi, slo, shi)
    BY <1>1
  <2> HIDE DEF lo, hi
  <2> QED BY <1>1, <1>3, <1>6, <2>1, LoopAgrees
<1> QED BY <1>1, <1>7, NamesHold

\* One node on each of the things that are mine.
MadeOnce(L, M, n, a, app, off, soff, V) ==
  \A r \in Ranks :
    L[r] = FlattenSeq([i \in 1..n |-> IF i \in M[r] THEN [c \in 1..1 |-> Node(r, a, off + i, soff + i, V[i], app)]
                                                    ELSE << >>])

HoldsOnce(L, M, n, N, off) ==
  \A r \in Ranks : \A x : x \in Ids(L[r]) <=> \E i \in 1..n : i \in M[r] /\ x = N + off + i

OnceInput(N, a, app, n, off, soff, V) ==
  /\ CounterIs(N) /\ a \in AnalysesNow /\ app \in Approximations
  /\ n \in Nat /\ off \in Nat /\ soff \in Int /\ V \in [1..n -> Nat]

LEMMA OnceOfNodes ==
  ASSUME NEW N, NEW a, NEW app, NEW n, NEW off, NEW soff, NEW V, OnceInput(N, a, app, n, off, soff, V),
         NEW M, NEW L, MadeOnce(L, M, n, a, app, off, soff, V)
  PROVE  Agree(L, N + off, N + off + n, soff, soff + n) /\ HoldsOnce(L, M, n, N, off)
<1>1. /\ CounterIs(N) /\ N \in Nat /\ a \in AnalysesNow /\ app \in Approximations
      /\ n \in Nat /\ off \in Nat /\ soff \in Int /\ V \in [1..n -> Nat]
  BY DEF OnceInput, CounterIs
<1> DEFINE one == [i \in 1..n |-> 1]
<1> DEFINE S == [i \in 1..n |-> soff + i - 1]
<1> DEFINE V1 == [i \in 1..n |-> [c \in 1..1 |-> V[i]]]
<1> DEFINE SS == [r \in Ranks |-> [i \in 1..n |->
                    IF i \in M[r] THEN [c \in 1..1 |-> Node(r, a, off + i, soff + i, V[i], app)] ELSE << >>]]
<1>2. one \in [1..n -> 0..1] /\ 1 \in Nat
  OBVIOUS
<1>3. Spaced(S, one, n, soff, soff + n)
  BY <1>1 DEF Spaced
<1>4. V1 \in [1..n -> [1..1 -> Nat]]
  BY <1>1
<1>5. Made(L, SS, M, n, a, app, 1, off, one, S, V1)
  <2> SUFFICES ASSUME NEW r \in Ranks
               PROVE  /\ L[r] = FlattenSeq(SS[r]) /\ SS[r] = [i \in 1..n |-> SS[r][i]]
                      /\ \A i \in 1..n : SS[r][i] =
                           IF i \in M[r]
                             THEN [c \in 1..one[i] |-> Node(r, a, IdIn(off, 1, i, c), S[i] + c, V1[i][c], app)]
                             ELSE << >>
    BY DEF Made
  <2>1. L[r] = FlattenSeq(SS[r]) /\ SS[r] = [i \in 1..n |-> SS[r][i]]
    BY DEF MadeOnce
  <2>2. ASSUME NEW i \in 1..n, NEW c \in 1..1
        PROVE  IdIn(off, 1, i, c) = off + i /\ S[i] + c = soff + i /\ V1[i][c] = V[i]
    BY <1>1, <2>2 DEF IdIn
  <2>3. ASSUME NEW i \in 1..n, i \in M[r]
        PROVE  SS[r][i] = [c \in 1..one[i] |-> Node(r, a, IdIn(off, 1, i, c), S[i] + c, V1[i][c], app)]
    <3>1. one[i] = 1 /\ SS[r][i] = [c \in 1..1 |-> Node(r, a, off + i, soff + i, V[i], app)]
      BY <2>3
    <3> HIDE DEF one, S, V1, SS
    <3> QED BY <2>2, <3>1
  <2>4. \A i \in 1..n : i \notin M[r] => SS[r][i] = << >>
    OBVIOUS
  <2> HIDE DEF one, S, V1, SS
  <2> QED BY <2>1, <2>3, <2>4
<1> HIDE DEF one, S, V1, SS
<1>6. Agree(L, N + off, N + off + Room(1, n), soff, soff + n) /\ Holds(L, M, n, N, off, 1, one)
  <2>1. soff + n \in Int
    BY <1>1
  <2> QED BY <1>1, <1>2, <1>3, <1>4, <1>5, <2>1, LoopOfNodes
<1>7. Room(1, n) = n
  BY <1>1 DEF Room
<1>8. ASSUME NEW r \in Ranks, NEW x
      PROVE  x \in Ids(L[r]) <=> \E i \in 1..n : i \in M[r] /\ x = N + off + i
  <2>1. x \in Ids(L[r]) <=> \E i \in 1..n, c \in 1..1 : i \in M[r] /\ c <= one[i] /\ x = N + IdIn(off, 1, i, c)
    BY <1>6 DEF Holds
  <2>2. \A i \in 1..n, c \in 1..1 : N + IdIn(off, 1, i, c) = N + off + i /\ c <= one[i]
    BY <1>1 DEF IdIn, one
  <2>3. 1 \in 1..1
    OBVIOUS
  <2> QED BY <2>1, <2>2, <2>3
<1> QED BY <1>6, <1>7, <1>8 DEF HoldsOnce

World(N, a, app) == Partitioned /\ CounterIs(N) /\ a \in AnalysesNow /\ app \in Approximations

VertexNodes(a, off, app)  == [r \in Ranks |-> AtVertices(r, a, off, app)]
ElementNodes(a, off, app) == [r \in Ranks |-> AtElements(r, a, off, app)]
EdgeNodes(a, app)         == [r \in Ranks |-> AtEdges(r, a, app)]
QuadNodes(a, app)         == [r \in Ranks |-> AtQuads(r, a, app)]

MyVs     == [r \in Ranks |-> MyVertexSet(r)]
MyEs     == [r \in Ranks |-> MyEdges(r)]
MyQuads  == [r \in Ranks |-> MyFaces(r) \cap Quads]

LEMMA VerticesAgree ==
  ASSUME NEW N, NEW a, NEW app, World(N, a, app), NEW off \in Nat
  PROVE  /\ Agree(VertexNodes(a, off, app), N + off, N + off + Nv, off - 1, off + Nv - 1)
         /\ HoldsOnce(VertexNodes(a, off, app), MyVs, Nv, N, off)
<1> DEFINE V == [i \in 1..Nv |-> i]
<1> DEFINE L == VertexNodes(a, off, app)
<1>1. Nv \in Nat
  BY IoFacts DEF World
<1>2. OnceInput(N, a, app, Nv, off, off - 1, V)
  BY <1>1 DEF OnceInput, World
<1>3. MadeOnce(L, MyVs, Nv, a, app, off, off - 1, V)
  <2> SUFFICES ASSUME NEW r \in Ranks
               PROVE  L[r] = FlattenSeq([i \in 1..Nv |->
                               IF i \in MyVs[r] THEN [c \in 1..1 |-> Node(r, a, off + i, off - 1 + i, V[i], app)]
                                                ELSE << >>])
    BY DEF MadeOnce
  <2>1. \A i \in 1..Nv : off + i - 1 = off - 1 + i /\ V[i] = i
    BY <1>1
  <2>2. L[r] = FlattenSeq([i \in 1..Nv |->
                 IF i \in MyVs[r] THEN [c \in 1..1 |-> Node(r, a, off + i, off + i - 1, i, app)] ELSE << >>])
    BY DEF VertexNodes, AtVertices, NodesOn, Once, MyVs, Nv
  <2> HIDE DEF L, V
  <2> QED BY <2>1, <2>2
<1>4. Agree(L, N + off, N + off + Nv, off - 1, off - 1 + Nv) /\ HoldsOnce(L, MyVs, Nv, N, off)
  <2> HIDE DEF L, V
  <2> QED BY <1>2, <1>3, OnceOfNodes
<1>5. off - 1 + Nv = off + Nv - 1
  BY <1>1
<1> QED BY <1>4, <1>5

LEMMA ElementsAgree ==
  ASSUME NEW N, NEW a, NEW app, World(N, a, app), NEW off \in Nat
  PROVE  /\ Agree(ElementNodes(a, off, app), N + off, N + off + Nel, off - 1, off + Nel - 1)
         /\ HoldsOnce(ElementNodes(a, off, app), my_elements, Nel, N, off)
<1> DEFINE V == [i \in 1..Nel |-> 1]
<1> DEFINE L == ElementNodes(a, off, app)
<1>1. Nel \in Nat
  BY IoFacts DEF World
<1>2. OnceInput(N, a, app, Nel, off, off - 1, V)
  BY <1>1 DEF OnceInput, World
<1>3. MadeOnce(L, my_elements, Nel, a, app, off, off - 1, V)
  <2> SUFFICES ASSUME NEW r \in Ranks
               PROVE  L[r] = FlattenSeq([i \in 1..Nel |->
                               IF i \in my_elements[r]
                                 THEN [c \in 1..1 |-> Node(r, a, off + i, off - 1 + i, V[i], app)] ELSE << >>])
    BY DEF MadeOnce
  <2>1. \A i \in 1..Nel : off + i - 1 = off - 1 + i /\ V[i] = 1
    BY <1>1
  <2>2. L[r] = FlattenSeq([i \in 1..Nel |->
                 IF i \in my_elements[r] THEN [c \in 1..1 |-> Node(r, a, off + i, off + i - 1, 1, app)] ELSE << >>])
    BY DEF ElementNodes, AtElements, NodesOn, Once, Nel
  <2> HIDE DEF L, V
  <2> QED BY <2>1, <2>2
<1>4. Agree(L, N + off, N + off + Nel, off - 1, off - 1 + Nel) /\ HoldsOnce(L, my_elements, Nel, N, off)
  <2> HIDE DEF L, V
  <2> QED BY <1>2, <1>3, OnceOfNodes
<1>5. off - 1 + Nel = off + Nel - 1
  BY <1>1
<1> QED BY <1>4, <1>5

LEMMA EdgesAgree ==
  ASSUME NEW N, NEW a, NEW app, World(N, a, app)
  PROVE  /\ Agree(EdgeNodes(a, app), N + Nv, N + Nv + Ne, Nv - 1, Nv + Ne - 1)
         /\ HoldsOnce(EdgeNodes(a, app), MyEs, Ne, N, Nv)
<1> DEFINE V == [i \in 1..Ne |-> 1]
<1> DEFINE L == EdgeNodes(a, app)
<1>1. Nv \in Nat /\ Ne \in Nat
  BY IoFacts DEF World
<1>2. OnceInput(N, a, app, Ne, Nv, Nv - 1, V)
  BY <1>1 DEF OnceInput, World
<1>3. MadeOnce(L, MyEs, Ne, a, app, Nv, Nv - 1, V)
  <2> SUFFICES ASSUME NEW r \in Ranks
               PROVE  L[r] = FlattenSeq([i \in 1..Ne |->
                               IF i \in MyEs[r] THEN [c \in 1..1 |-> Node(r, a, Nv + i, Nv - 1 + i, V[i], app)]
                                                ELSE << >>])
    BY DEF MadeOnce
  <2>1. \A i \in 1..Ne : Nv + i - 1 = Nv - 1 + i /\ V[i] = 1
    BY <1>1
  <2>2. L[r] = FlattenSeq([i \in 1..Ne |->
                 IF i \in MyEs[r] THEN [c \in 1..1 |-> Node(r, a, Nv + i, Nv + i - 1, 1, app)] ELSE << >>])
    BY DEF EdgeNodes, AtEdges, NodesOn, Once, MyEs, Nv, Ne
  <2> HIDE DEF L, V
  <2> QED BY <2>1, <2>2
<1>4. Agree(L, N + Nv, N + Nv + Ne, Nv - 1, Nv - 1 + Ne) /\ HoldsOnce(L, MyEs, Ne, N, Nv)
  <2> HIDE DEF L, V
  <2> QED BY <1>2, <1>3, OnceOfNodes
<1>5. Nv - 1 + Ne = Nv + Ne - 1
  BY <1>1
<1> QED BY <1>4, <1>5

LEMMA QuadsAgree ==
  ASSUME NEW N, NEW a, NEW app, World(N, a, app), Kind = "penta"
  PROVE  /\ Agree(QuadNodes(a, app), N + (Nv + Ne), N + (Nv + Ne) + Nf, (Nv + Ne) - 1, (Nv + Ne) + Nf - 1)
         /\ HoldsOnce(QuadNodes(a, app), MyQuads, Nf, N, Nv + Ne)
<1> DEFINE off == Nv + Ne
<1> DEFINE V == [i \in 1..Nf |-> 1]
<1> DEFINE L == QuadNodes(a, app)
<1>1. off \in Nat /\ Nf \in Nat
  BY IoFacts DEF World
<1>3. MadeOnce(L, MyQuads, Nf, a, app, off, off - 1, V)
  <2> SUFFICES ASSUME NEW r \in Ranks
               PROVE  L[r] = FlattenSeq([i \in 1..Nf |->
                               IF i \in MyQuads[r] THEN [c \in 1..1 |-> Node(r, a, off + i, off - 1 + i, V[i], app)]
                                                   ELSE << >>])
    BY DEF MadeOnce
  <2>2. L[r] = FlattenSeq([i \in 1..Nf |->
                 IF i \in MyQuads[r] THEN [c \in 1..1 |-> Node(r, a, off + i, off + i - 1, 1, app)] ELSE << >>])
    BY DEF QuadNodes, AtQuads, NodesOn, Once, MyQuads, Nv, Ne, Nf, Kind
  <2> HIDE DEF L, off
  <2>1. \A i \in 1..Nf : off + i - 1 = off - 1 + i /\ V[i] = 1
    BY <1>1
  <2> HIDE DEF V
  <2> QED BY <2>1, <2>2
<1> HIDE DEF off
<1>2. OnceInput(N, a, app, Nf, off, off - 1, V)
  BY <1>1 DEF OnceInput, World
<1>4. Agree(L, N + off, N + off + Nf, off - 1, off - 1 + Nf) /\ HoldsOnce(L, MyQuads, Nf, N, off)
  <2> HIDE DEF L, V
  <2> QED BY <1>2, <1>3, OnceOfNodes
<1>5. off - 1 + Nf = off + Nf - 1
  BY <1>1
<1>6. Agree(L, N + off, N + off + Nf, off - 1, off + Nf - 1) /\ HoldsOnce(L, MyQuads, Nf, N, off)
  BY <1>4, <1>5
<1> QED BY <1>6 DEF off

-----------------------------------------------------------------------------
(***************************************************************************)
(* Where things have several nodes, the serial ids count those there are.  *)
(***************************************************************************)
LEMMA TotalFacts ==
  ASSUME NEW n, NEW k, NEW copies, IsLoop(n, k, copies)
  PROVE  /\ Total(copies, n) \in Nat /\ \A i \in 1..n : Total(copies, i - 1) \in Nat
         /\ \A i \in 1..n : Total(copies, i - 1) + copies[i] <= Total(copies, n)
         /\ \A i, j \in 1..n : i < j => Total(copies, i - 1) + copies[i] <= Total(copies, j - 1)
<1>1. n \in Nat /\ k \in Nat /\ copies \in [1..n -> 0..k]
  BY DEF IsLoop
<1>2. copies \in Seq(0..k)
  BY <1>1, SeqDef
<1>3. Len(copies) = n
  <2>1. DOMAIN copies = 1..Len(copies) /\ Len(copies) \in Nat /\ DOMAIN copies = 1..n
    BY <1>1, <1>2, LenProperties
  <2> QED BY <1>1, <2>1
<1> DEFINE w == [i \in 0..(n - 1) |-> copies[i + 1]]
<1>4. w \in [0..(n - 1) -> Nat]
  <2>1. ASSUME NEW i \in 0..(n - 1) PROVE copies[i + 1] \in Nat
    <3>1. i + 1 \in 1..n
      BY <1>1
    <3>2. copies[i + 1] \in 0..k
      BY <1>1, <3>1
    <3> QED BY <1>1, <3>2
  <2> QED BY <2>1
<1>5. \A m : Total(copies, m) = RunningSum(w, m)
  BY <1>3 DEF Total
<1>6. \A i \in 1..n : i - 1 \in 0..(n - 1) /\ i - 1 \in 0..n /\ w[i - 1] = copies[i]
  BY <1>1
<1> HIDE DEF w
<1>7. \A m \in 0..n : RunningSum(w, m) \in Nat
  BY <1>1, <1>4, RunningSumNat
<1>8. \A m \in 0..n, i \in 0..(n - 1) : i < m => RunningSum(w, i) + w[i] <= RunningSum(w, m)
  BY <1>1, <1>4, RunningSumOrdered
<1>9. n \in 0..n /\ \A i \in 1..n : i - 1 < n
  BY <1>1
<1>10. \A i, j \in 1..n : i < j => i - 1 < j - 1
  OBVIOUS
<1>11. \A i \in 1..n : Total(copies, i - 1) + copies[i] <= Total(copies, n)
  BY <1>5, <1>6, <1>8, <1>9
<1>12. \A i, j \in 1..n : i < j => Total(copies, i - 1) + copies[i] <= Total(copies, j - 1)
  BY <1>5, <1>6, <1>8, <1>10
<1> QED BY <1>5, <1>6, <1>7, <1>9, <1>11, <1>12

CountInput(N, a, app, n, k, off, first, copies) ==
  /\ CounterIs(N) /\ a \in AnalysesNow /\ app \in Approximations
  /\ IsLoop(n, k, copies) /\ off \in Nat /\ first \in Int

MadeCounted(L, M, n, a, app, k, off, first, copies) ==
  \A r \in Ranks :
    L[r] = FlattenSeq([i \in 1..n |->
             IF i \in M[r]
               THEN [c \in 1..copies[i] |->
                       Node(r, a, IdIn(off, k, i, c), first + Total(copies, i - 1) + c, 1, app)]
               ELSE << >>])

LEMMA CountedNodes ==
  ASSUME NEW N, NEW a, NEW app, NEW n, NEW k, NEW off, NEW first, NEW copies,
         CountInput(N, a, app, n, k, off, first, copies),
         NEW M, NEW L, MadeCounted(L, M, n, a, app, k, off, first, copies)
  PROVE  /\ Agree(L, N + off, N + off + Room(k, n), first, first + Total(copies, n))
         /\ Holds(L, M, n, N, off, k, copies)
<1>1. /\ CounterIs(N) /\ a \in AnalysesNow /\ app \in Approximations
      /\ n \in Nat /\ k \in Nat /\ copies \in [1..n -> 0..k] /\ off \in Nat /\ first \in Int
  BY DEF CountInput, IsLoop
<1>2. /\ Total(copies, n) \in Nat /\ \A i \in 1..n : Total(copies, i - 1) \in Nat
      /\ \A i \in 1..n : Total(copies, i - 1) + copies[i] <= Total(copies, n)
      /\ \A i, j \in 1..n : i < j => Total(copies, i - 1) + copies[i] <= Total(copies, j - 1)
  <2>1. IsLoop(n, k, copies)
    BY DEF CountInput
  <2> QED BY <2>1, TotalFacts
<1> DEFINE S == [i \in 1..n |-> first + Total(copies, i - 1)]
<1> DEFINE shi == first + Total(copies, n)
<1> DEFINE V == [i \in 1..n |-> [c \in 1..k |-> 1]]
<1> DEFINE SS == [r \in Ranks |-> [i \in 1..n |->
                    IF i \in M[r]
                      THEN [c \in 1..copies[i] |->
                              Node(r, a, IdIn(off, k, i, c), first + Total(copies, i - 1) + c, 1, app)]
                      ELSE << >>]]
<1>3. Spaced(S, copies, n, first, shi)
  <2>1. S \in [1..n -> Int] /\ shi \in Int
    BY <1>1, <1>2
  <2>2. ASSUME NEW i \in 1..n
        PROVE  first <= S[i] /\ S[i] + copies[i] <= shi
    <3> DEFINE t == Total(copies, i - 1)
    <3> DEFINE all == Total(copies, n)
    <3> DEFINE c == copies[i]
    <3>1. S[i] = first + t /\ shi = first + all
      OBVIOUS
    <3>2. t \in Nat /\ t + c <= all /\ all \in Nat /\ c \in Int
      BY <1>1, <1>2
    <3> HIDE DEF t, all, c, S, shi
    <3>3. first <= S[i] /\ S[i] + c <= shi
      BY <1>1, <3>1, <3>2
    <3> QED BY <3>3 DEF c
  <2>3. ASSUME NEW i \in 1..n, NEW j \in 1..n, i < j
        PROVE  S[i] + copies[i] <= S[j]
    <3> DEFINE t == Total(copies, i - 1)
    <3> DEFINE u == Total(copies, j - 1)
    <3> DEFINE c == copies[i]
    <3>1. S[i] = first + t /\ S[j] = first + u
      OBVIOUS
    <3>2. t \in Nat /\ u \in Nat /\ t + c <= u /\ c \in Int
      BY <1>1, <1>2, <2>3
    <3> HIDE DEF t, u, c, S
    <3>3. S[i] + c <= S[j]
      BY <1>1, <3>1, <3>2
    <3> QED BY <3>3 DEF c
  <2> HIDE DEF S, shi
  <2> QED BY <1>1, <2>1, <2>2, <2>3 DEF Spaced
<1>4. V \in [1..n -> [1..k -> Nat]]
  OBVIOUS
<1>5. Made(L, SS, M, n, a, app, k, off, copies, S, V)
  <2> SUFFICES ASSUME NEW r \in Ranks
               PROVE  /\ L[r] = FlattenSeq(SS[r]) /\ SS[r] = [i \in 1..n |-> SS[r][i]]
                      /\ \A i \in 1..n : SS[r][i] =
                           IF i \in M[r]
                             THEN [c \in 1..copies[i] |-> Node(r, a, IdIn(off, k, i, c), S[i] + c, V[i][c], app)]
                             ELSE << >>
    BY DEF Made
  <2>1. L[r] = FlattenSeq(SS[r]) /\ SS[r] = [i \in 1..n |-> SS[r][i]]
    BY DEF MadeCounted
  <2>2. \A i \in 1..n : S[i] = first + Total(copies, i - 1) /\ \A c \in 1..k : V[i][c] = 1
    OBVIOUS
  <2>3. ASSUME NEW i \in 1..n, i \in M[r]
        PROVE  SS[r][i] = [c \in 1..copies[i] |-> Node(r, a, IdIn(off, k, i, c), S[i] + c, V[i][c], app)]
    <3>1. SS[r][i] = [c \in 1..copies[i] |->
                        Node(r, a, IdIn(off, k, i, c), first + Total(copies, i - 1) + c, 1, app)]
      BY <2>3
    <3>2. \A c \in 1..copies[i] : c \in 1..k
      <4>1. copies[i] \in 0..k
        BY <1>1
      <4> QED BY <1>1, <4>1
    <3> HIDE DEF S, V, SS
    <3> QED BY <2>2, <3>1, <3>2
  <2>4. \A i \in 1..n : i \notin M[r] => SS[r][i] = << >>
    OBVIOUS
  <2> HIDE DEF S, V, SS
  <2> QED BY <2>1, <2>3, <2>4
<1>6. shi \in Int
  BY <1>1, <1>2
<1> HIDE DEF S, V, SS, shi
<1>7. Agree(L, N + off, N + off + Room(k, n), first, shi) /\ Holds(L, M, n, N, off, k, copies)
  BY <1>1, <1>3, <1>4, <1>5, <1>6, LoopOfNodes
<1> QED BY <1>7 DEF shi

-----------------------------------------------------------------------------
(***************************************************************************)
(* Blocks, by the ids and serial ids they may have: more than o, up to h,  *)
(* after the counter N; more than s, up to t.                              *)
(***************************************************************************)
Block(L, N, o, h, s, t) ==
  /\ N \in Nat /\ o \in Int /\ h \in Int /\ s \in Int /\ t \in Int /\ o <= h /\ s <= t
  /\ Agree(L, N + o, N + h, s, t)

\* What B has of the ids up to h is what L has of those.
Within(B, L, N, o, h) ==
  \A r \in Ranks : /\ Ids(B[r]) \subseteq Ids(L[r])
                   /\ \A x \in Ids(L[r]) : N + o < x /\ x <= N + h => x \in Ids(B[r])

LEMMA WholeWithin ==
  ASSUME NEW L, NEW N, NEW o, NEW h
  PROVE  Within(L, L, N, o, h)
BY DEF Within

LEMMA WithinJoined ==
  ASSUME NEW L1, NEW L2, NEW N, NEW o1, NEW h1, NEW s1, NEW t1, NEW o2, NEW h2, NEW s2, NEW t2,
         Block(L1, N, o1, h1, s1, t1), Block(L2, N, o2, h2, s2, t2), h1 <= o2, t1 <= s2
  PROVE  /\ Block(Joined(L1, L2), N, o1, h2, s1, t2)
         /\ Within(L1, Joined(L1, L2), N, o1, h1) /\ Within(L2, Joined(L1, L2), N, o2, h2)
<1>1. /\ N \in Nat /\ o1 \in Int /\ h1 \in Int /\ s1 \in Int /\ t1 \in Int /\ o1 <= h1 /\ s1 <= t1
      /\ o2 \in Int /\ h2 \in Int /\ s2 \in Int /\ t2 \in Int /\ o2 <= h2 /\ s2 <= t2
      /\ Agree(L1, N + o1, N + h1, s1, t1) /\ Agree(L2, N + o2, N + h2, s2, t2)
  BY DEF Block
<1> DEFINE L == Joined(L1, L2)
<1> DEFINE lo == N + o1
<1> DEFINE mid == N + h1
<1> DEFINE mid2 == N + o2
<1> DEFINE hi == N + h2
<1>2. /\ lo \in Int /\ mid \in Int /\ mid2 \in Int /\ hi \in Int /\ lo <= mid /\ mid <= mid2 /\ mid2 <= hi
      /\ s1 <= t1 /\ t1 <= t2 /\ mid <= hi /\ o1 <= h2 /\ s1 <= t2
  BY <1>1
<1> HIDE DEF L, lo, mid, mid2, hi
<1>4. Agree(L1, lo, mid, s1, t1) /\ Agree(L2, mid2, hi, s2, t2)
  BY <1>1 DEF lo, mid, mid2, hi
<1>5. Agree(L2, mid, hi, t1, t2)
  <2>1. t2 <= t2 /\ hi <= hi
    BY <1>1, <1>2
  <2> QED BY <1>1, <1>2, <1>4, <2>1, BlockInWider
<1>6. /\ Agree(L, lo, hi, s1, t2)
      /\ \A r \in Ranks : Ids(L[r]) = Ids(L1[r]) \cup Ids(L2[r])
  <2>1. InOrder(lo, mid, hi) /\ InOrder(s1, t1, t2)
    BY <1>1, <1>2 DEF InOrder
  <2> QED BY <1>4, <1>5, <2>1, BlocksJoin DEF L
<1>7. \A r \in Ranks : \A x \in Ids(L1[r]) : x \in Int /\ lo < x /\ x <= mid
  <2>1. \A r \in Ranks : Range(L1[r]) \subseteq NodeRecords
    BY <1>4, RangeOfSeq DEF Agree
  <2> QED BY <1>4, <2>1 DEF Agree, Ids, InBounds, NodeRecords
<1>8. \A r \in Ranks : \A x \in Ids(L2[r]) : x \in Int /\ mid2 < x /\ x <= hi
  <2>1. \A r \in Ranks : Range(L2[r]) \subseteq NodeRecords
    BY <1>4, RangeOfSeq DEF Agree
  <2> QED BY <1>4, <2>1 DEF Agree, Ids, InBounds, NodeRecords
<1>9. Block(L, N, o1, h2, s1, t2)
  BY <1>1, <1>2, <1>6 DEF Block, lo, hi
<1>10. Within(L1, L, N, o1, h1)
  <2>1. \A r \in Ranks : \A x \in Ids(L2[r]) : ~(x <= mid)
    BY <1>2, <1>8
  <2>2. Within(L1, L, N, o1, h1)
    BY <1>6, <2>1 DEF Within, mid
  <2> QED BY <2>2
<1>11. Within(L2, L, N, o2, h2)
  <2>1. \A r \in Ranks : \A x \in Ids(L1[r]) : ~(mid2 < x)
    BY <1>2, <1>7
  <2>2. Within(L2, L, N, o2, h2)
    BY <1>6, <2>1 DEF Within, mid2
  <2> QED BY <2>2
<1> QED BY <1>9, <1>10, <1>11 DEF L

LEMMA WithinWithin ==
  ASSUME NEW B, NEW L1, NEW L, NEW N \in Nat, NEW o \in Int, NEW h \in Int, NEW o1 \in Int, NEW h1 \in Int,
         Within(B, L1, N, o, h), Within(L1, L, N, o1, h1), o1 <= o, h <= h1,
         \A r \in Ranks : Ids(L[r]) \subseteq Int
  PROVE  Within(B, L, N, o, h)
<1> DEFINE a1 == N + o1
<1> DEFINE a == N + o
<1> DEFINE b == N + h
<1> DEFINE b1 == N + h1
<1>1. a1 \in Int /\ a \in Int /\ b \in Int /\ b1 \in Int /\ a1 <= a /\ b <= b1
  OBVIOUS
<1>2. /\ \A r \in Ranks : /\ Ids(B[r]) \subseteq Ids(L1[r])
                          /\ \A x \in Ids(L1[r]) : a < x /\ x <= b => x \in Ids(B[r])
      /\ \A r \in Ranks : /\ Ids(L1[r]) \subseteq Ids(L[r])
                          /\ \A x \in Ids(L[r]) : a1 < x /\ x <= b1 => x \in Ids(L1[r])
  BY DEF Within
<1> HIDE DEF a, a1, b, b1
<1>3. \A x \in Int : a < x /\ x <= b => a1 < x /\ x <= b1
  BY <1>1
<1>4. \A r \in Ranks : /\ Ids(B[r]) \subseteq Ids(L[r])
                       /\ \A x \in Ids(L[r]) : a < x /\ x <= b => x \in Ids(B[r])
  BY <1>2, <1>3
<1> QED BY <1>4 DEF Within, a, b

LEMMA IdsOfBlock ==
  ASSUME NEW L, NEW N, NEW o, NEW h, NEW s, NEW t, Block(L, N, o, h, s, t), NEW r \in Ranks
  PROVE  /\ Range(L[r]) \subseteq NodeRecords /\ Ids(L[r]) \subseteq Int
         /\ \A x \in Ids(L[r]) : N + o < x /\ x <= N + h
<1>1. Range(L[r]) \subseteq NodeRecords
  BY RangeOfSeq DEF Agree, Block
<1> QED BY <1>1 DEF Agree, Block, Ids, InBounds, NodeRecords

\* Blocks with one node on each of 1, ..., n that is mine, and with copies[i] of at most k.
OnceBlock(L, M, n, N, off, s, t) ==
  n \in Nat /\ Block(L, N, off, off + n, s, t) /\ HoldsOnce(L, M, n, N, off)

CopiesBlock(L, M, n, N, off, k, copies, s, t) ==
  /\ IsLoop(n, k, copies) /\ Block(L, N, off, off + Room(k, n), s, t)
  /\ Holds(L, M, n, N, off, k, copies)

LEMMA VertexBlock ==
  ASSUME NEW N, NEW a, NEW app, World(N, a, app), NEW off \in Nat
  PROVE  OnceBlock(VertexNodes(a, off, app), MyVs, Nv, N, off, off - 1, off + Nv - 1)
<1>1. Nv \in Nat /\ N \in Nat
  BY IoFacts DEF World, CounterIs
<1>2. off <= off + Nv /\ off - 1 <= off + Nv - 1 /\ N + (off + Nv) = N + off + Nv
      /\ off + Nv \in Int /\ off - 1 \in Int /\ off + Nv - 1 \in Int
  BY <1>1
<1>3. /\ Agree(VertexNodes(a, off, app), N + off, N + off + Nv, off - 1, off + Nv - 1)
      /\ HoldsOnce(VertexNodes(a, off, app), MyVs, Nv, N, off)
  BY VerticesAgree
<1> QED BY <1>1, <1>2, <1>3 DEF OnceBlock, Block

LEMMA ElementBlock ==
  ASSUME NEW N, NEW a, NEW app, World(N, a, app), NEW off \in Nat
  PROVE  OnceBlock(ElementNodes(a, off, app), my_elements, Nel, N, off, off - 1, off + Nel - 1)
<1>1. Nel \in Nat /\ N \in Nat
  BY IoFacts DEF World, CounterIs
<1>2. off <= off + Nel /\ off - 1 <= off + Nel - 1 /\ N + (off + Nel) = N + off + Nel
      /\ off + Nel \in Int /\ off - 1 \in Int /\ off + Nel - 1 \in Int
  BY <1>1
<1>3. /\ Agree(ElementNodes(a, off, app), N + off, N + off + Nel, off - 1, off + Nel - 1)
      /\ HoldsOnce(ElementNodes(a, off, app), my_elements, Nel, N, off)
  BY ElementsAgree
<1> QED BY <1>1, <1>2, <1>3 DEF OnceBlock, Block

LEMMA EdgeBlock ==
  ASSUME NEW N, NEW a, NEW app, World(N, a, app)
  PROVE  OnceBlock(EdgeNodes(a, app), MyEs, Ne, N, Nv, Nv - 1, Nv + Ne - 1)
<1>1. Nv \in Nat /\ Ne \in Nat /\ N \in Nat
  BY IoFacts DEF World, CounterIs
<1>2. Nv <= Nv + Ne /\ Nv - 1 <= Nv + Ne - 1 /\ N + (Nv + Ne) = N + Nv + Ne
      /\ Nv + Ne \in Int /\ Nv - 1 \in Int /\ Nv + Ne - 1 \in Int /\ Nv \in Int
  BY <1>1
<1>3. /\ Agree(EdgeNodes(a, app), N + Nv, N + Nv + Ne, Nv - 1, Nv + Ne - 1)
      /\ HoldsOnce(EdgeNodes(a, app), MyEs, Ne, N, Nv)
  BY EdgesAgree
<1> QED BY <1>1, <1>2, <1>3 DEF OnceBlock, Block

LEMMA QuadBlock ==
  ASSUME NEW N, NEW a, NEW app, World(N, a, app), Kind = "penta"
  PROVE  OnceBlock(QuadNodes(a, app), MyQuads, Nf, N, Nv + Ne, Nv + Ne - 1, Nv + Ne + Nf - 1)
<1> DEFINE off == Nv + Ne
<1>1. off \in Nat /\ Nf \in Nat /\ N \in Nat
  BY IoFacts DEF World, CounterIs
<1>2. off - 1 = Nv + Ne - 1 /\ off + Nf - 1 = Nv + Ne + Nf - 1
  BY IoFacts DEF World
<1>3. /\ Agree(QuadNodes(a, app), N + off, N + off + Nf, off - 1, off + Nf - 1)
      /\ HoldsOnce(QuadNodes(a, app), MyQuads, Nf, N, off)
  BY QuadsAgree
<1> HIDE DEF off
<1>4. off <= off + Nf /\ off - 1 <= off + Nf - 1 /\ N + (off + Nf) = N + off + Nf
      /\ off + Nf \in Int /\ off - 1 \in Int /\ off + Nf - 1 \in Int /\ off \in Int
  BY <1>1
<1>5. OnceBlock(QuadNodes(a, app), MyQuads, Nf, N, off, off - 1, off + Nf - 1)
  BY <1>1, <1>3, <1>4 DEF OnceBlock, Block
<1> QED BY <1>2, <1>5 DEF off

\* A mesh without quads has no nodes there.
LEMMA NoQuads ==
  ASSUME NEW a, NEW app, Kind # "penta", NEW r \in Ranks
  PROVE  AtQuads(r, a, app) = << >>
BY DEF AtQuads, Kind

\* The pressure of the one-layer element: its serial ids go on after those of the velocity.
LayerNodes(a, off, counter) ==
  [r \in Ranks |-> NodesOn(NumberOfVertices(iomodel), MyVertexSet(r), Once,
                           LAMBDA i, c : Node(r, a, off + i, counter + i, i, "FSpressure"))]

LEMMA LayerBlock ==
  ASSUME NEW N, NEW a, World(N, a, "FSpressure"), NEW off \in Nat, NEW counter \in Int
  PROVE  OnceBlock(LayerNodes(a, off, counter), MyVs, Nv, N, off, counter, counter + Nv)
<1> DEFINE V == [i \in 1..Nv |-> i]
<1> DEFINE L == LayerNodes(a, off, counter)
<1>1. Nv \in Nat /\ N \in Nat
  BY IoFacts DEF World, CounterIs
<1>2. OnceInput(N, a, "FSpressure", Nv, off, counter, V)
  BY <1>1 DEF OnceInput, World
<1>3. MadeOnce(L, MyVs, Nv, a, "FSpressure", off, counter, V)
  <2> SUFFICES ASSUME NEW r \in Ranks
               PROVE  L[r] = FlattenSeq([i \in 1..Nv |->
                               IF i \in MyVs[r]
                                 THEN [c \in 1..1 |-> Node(r, a, off + i, counter + i, V[i], "FSpressure")]
                                 ELSE << >>])
    BY DEF MadeOnce
  <2>1. \A i \in 1..Nv : V[i] = i
    OBVIOUS
  <2>2. L[r] = FlattenSeq([i \in 1..Nv |->
                 IF i \in MyVs[r] THEN [c \in 1..1 |-> Node(r, a, off + i, counter + i, i, "FSpressure")]
                                  ELSE << >>])
    BY DEF LayerNodes, NodesOn, Once, MyVs, Nv
  <2> HIDE DEF L, V
  <2> QED BY <2>1, <2>2
<1>4. Agree(L, N + off, N + off + Nv, counter, counter + Nv) /\ HoldsOnce(L, MyVs, Nv, N, off)
  <2> HIDE DEF L, V
  <2> QED BY <1>2, <1>3, OnceOfNodes
<1>5. off <= off + Nv /\ counter <= counter + Nv /\ N + (off + Nv) = N + off + Nv
      /\ off + Nv \in Int /\ counter + Nv \in Int
  BY <1>1
<1> HIDE DEF L, V
<1>6. OnceBlock(L, MyVs, Nv, N, off, counter, counter + Nv)
  BY <1>1, <1>4, <1>5 DEF OnceBlock, Block
<1> QED BY <1>6 DEF L

CountedEdgeNodes(a, k, copies, app) == [r \in Ranks |-> CountedEdges(r, a, k, copies, app)]
CountedQuadNodes(a, edgecopies, app) == [r \in Ranks |-> CountedQuads(r, a, edgecopies, app)]

MyFs == [r \in Ranks |-> MyFaces(r)]

LEMMA EdgeCopiesAre ==
  ASSUME Partitioned, NEW k \in Nat, NEW x \in 0..k, NEW y \in 0..k
  PROVE  IsLoop(Ne, k, EdgeCopies(x, y))
<1>1. Ne \in Nat /\ DOMAIN iomodel.edges = 1..Ne
  BY IoFacts
<1> QED BY <1>1 DEF EdgeCopies, IsLoop

LEMMA QuadCopiesAre ==
  ASSUME Partitioned, Kind = "penta"
  PROVE  IsLoop(Nf, 3, QuadCopies)
<1>1. Nf \in Nat /\ DOMAIN iomodel.faces = 1..Nf
  BY IoFacts
<1> QED BY <1>1 DEF QuadCopies, IsLoop

LEMMA CountedEdgeBlock ==
  ASSUME NEW N, NEW a, NEW app, World(N, a, app), NEW k, NEW copies, IsLoop(Ne, k, copies)
  PROVE  CopiesBlock(CountedEdgeNodes(a, k, copies, app), MyEs, Ne, N, Nv, k, copies, Nv, Nv + Total(copies, Ne))
<1> DEFINE L == CountedEdgeNodes(a, k, copies, app)
<1>1. Nv \in Nat /\ N \in Nat /\ Ne \in Nat /\ k \in Nat
  BY IoFacts DEF World, CounterIs, IsLoop
<1>2. CountInput(N, a, app, Ne, k, Nv, Nv, copies)
  BY <1>1 DEF CountInput, World
<1>3. MadeCounted(L, MyEs, Ne, a, app, k, Nv, Nv, copies)
  BY DEF MadeCounted, CountedEdgeNodes, CountedEdges, NodesOn, MyEs, Nv, Ne, IdIn
<1>4. /\ Agree(L, N + Nv, N + Nv + Room(k, Ne), Nv, Nv + Total(copies, Ne))
      /\ Holds(L, MyEs, Ne, N, Nv, k, copies)
  <2> HIDE DEF L
  <2> QED BY <1>2, <1>3, CountedNodes
<1>5. Total(copies, Ne) \in Nat
  BY TotalFacts
<1> DEFINE room == Room(k, Ne)
<1> DEFINE all == Total(copies, Ne)
<1>6. room \in Nat
  BY <1>1 DEF Room
<1> HIDE DEF L, room, all
<1>7. Nv <= Nv + room /\ Nv <= Nv + all /\ N + (Nv + room) = N + Nv + room
      /\ Nv + room \in Int /\ Nv + all \in Int /\ Nv \in Int
  BY <1>1, <1>5, <1>6 DEF all
<1>8. Block(L, N, Nv, Nv + room, Nv, Nv + all)
  BY <1>1, <1>4, <1>7 DEF Block, room, all
<1> QED BY <1>4, <1>8 DEF CopiesBlock, L, room, all

LEMMA CountedQuadBlock ==
  ASSUME NEW N, NEW a, NEW app, World(N, a, app), Kind = "penta", NEW edgecopies, NEW k, IsLoop(Ne, k, edgecopies),
         NEW first, first = Nv + Total(edgecopies, Ne)
  PROVE  CopiesBlock(CountedQuadNodes(a, edgecopies, app), MyFs, Nf, N, Nv + 3 * Ne, 3, QuadCopies,
                     first, first + Total(QuadCopies, Nf))
<1> DEFINE L == CountedQuadNodes(a, edgecopies, app)
<1> DEFINE off == Nv + 3 * Ne
<1>1. off \in Nat /\ Nf \in Nat /\ N \in Nat /\ Nv \in Nat
  BY IoFacts DEF World, CounterIs
<1>0. first \in Int
  BY <1>1, TotalFacts
<1>2. CountInput(N, a, app, Nf, 3, off, first, QuadCopies)
  <2>1. IsLoop(Nf, 3, QuadCopies)
    BY QuadCopiesAre DEF World
  <2> QED BY <1>0, <1>1, <2>1 DEF CountInput, World
<1>3. MadeCounted(L, MyFs, Nf, a, app, 3, off, first, QuadCopies)
  BY DEF MadeCounted, CountedQuadNodes, CountedQuads, NodesOn, MyFs, Nv, Ne, Nf, IdIn
<1>4. /\ Agree(L, N + off, N + off + Room(3, Nf), first, first + Total(QuadCopies, Nf))
      /\ Holds(L, MyFs, Nf, N, off, 3, QuadCopies)
  <2> HIDE DEF L, off
  <2> QED BY <1>2, <1>3, CountedNodes
<1>9. IsLoop(Nf, 3, QuadCopies)
  BY QuadCopiesAre DEF World
<1>5. Total(QuadCopies, Nf) \in Nat
  BY <1>9, TotalFacts
<1> DEFINE room == Room(3, Nf)
<1> DEFINE all == Total(QuadCopies, Nf)
<1>6. room \in Nat
  BY <1>1 DEF Room
<1> HIDE DEF L, off, room, all
<1>7. off <= off + room /\ first <= first + all /\ N + (off + room) = N + off + room
      /\ off + room \in Int /\ first + all \in Int /\ off \in Int
  BY <1>0, <1>1, <1>5, <1>6 DEF all
<1>8. Block(L, N, off, off + room, first, first + all)
  BY <1>0, <1>1, <1>4, <1>7 DEF Block, room, all
<1>10. CopiesBlock(L, MyFs, Nf, N, off, 3, QuadCopies, first, first + Total(QuadCopies, Nf))
  BY <1>4, <1>8, <1>9 DEF CopiesBlock, room, all
<1> QED BY <1>10 DEF L, off

\* A block stays one when its nodes are deactivated.
Deactivated(L) == [r \in Ranks |-> HardDeactivate(L[r])]

LEMMA DeactivatedAgree ==
  ASSUME NEW L, NEW lo, NEW hi, NEW slo, NEW shi, Agree(L, lo, hi, slo, shi)
  PROVE  /\ Agree(Deactivated(L), lo, hi, slo, shi)
         /\ \A r \in Ranks : Ids(Deactivated(L)[r]) = Ids(L[r])
<1>1. ASSUME NEW r \in Ranks
      PROVE  /\ Deactivated(L)[r] \in Seq(NodeRecords)
             /\ \A x : x \in Range(Deactivated(L)[r]) <=>
                         \E n \in Range(L[r]) : x = [n EXCEPT !.frozen = TRUE]
  <2> DEFINE s == L[r]
  <2> DEFINE t == Deactivated(L)[r]
  <2>1. s \in Seq(NodeRecords) /\ t = HardDeactivate(s)
    BY DEF Deactivated, Agree
  <2> HIDE DEF s, t
  <2>2. DOMAIN s = 1..Len(s) /\ Len(s) \in Nat /\ \A k \in 1..Len(s) : s[k] \in NodeRecords
    BY <2>1, LenProperties, ElementOfSeq
  <2>3. t = [k \in 1..Len(s) |-> [s[k] EXCEPT !.frozen = TRUE]]
    BY <2>1, <2>2 DEF HardDeactivate
  <2>4. \A k \in 1..Len(s) : [s[k] EXCEPT !.frozen = TRUE] \in NodeRecords
    BY <2>2 DEF NodeRecords
  <2>5. t \in [1..Len(s) -> NodeRecords]
    BY <2>3, <2>4
  <2>6. t \in Seq(NodeRecords)
    BY <2>2, <2>5, SeqDef
  <2>7. \A x : x \in Range(t) <=> \E n \in Range(s) : x = [n EXCEPT !.frozen = TRUE]
    BY <2>2, <2>3 DEF Range
  <2> QED BY <2>6, <2>7 DEF s, t
<1>2. \A r \in Ranks : Range(L[r]) \subseteq NodeRecords
  BY RangeOfSeq DEF Agree
<1>3. ASSUME NEW n \in NodeRecords
      PROVE  LET x == [n EXCEPT !.frozen = TRUE] IN x.id = n.id /\ x.sid = n.sid
  BY DEF NodeRecords
<1>7. ASSUME NEW r \in Ranks, NEW x \in Range(Deactivated(L)[r])
      PROVE  \E n \in Range(L[r]) : x.id = n.id /\ x.sid = n.sid
  <2>1. PICK n \in Range(L[r]) : x = [n EXCEPT !.frozen = TRUE]
    BY <1>1
  <2>2. n \in NodeRecords
    BY <1>2
  <2> QED BY <1>3, <2>1, <2>2
<1>4. \A r \in Ranks : \A x \in Range(Deactivated(L)[r]) : InBounds(x, lo, hi, slo, shi)
  BY <1>7 DEF Agree, InBounds
<1>5. ASSUME NEW r \in Ranks, NEW q \in Ranks, NEW x \in Range(Deactivated(L)[r]),
             NEW y \in Range(Deactivated(L)[q]), x.id = y.id \/ x.sid = y.sid
      PROVE  x = y
  <2>1. PICK m \in Range(L[r]) : x = [m EXCEPT !.frozen = TRUE]
    BY <1>1
  <2>2. PICK n \in Range(L[q]) : y = [n EXCEPT !.frozen = TRUE]
    BY <1>1
  <2>3. m \in NodeRecords /\ n \in NodeRecords
    BY <1>2
  <2>4. m.id = n.id \/ m.sid = n.sid
    BY <1>3, <1>5, <2>1, <2>2, <2>3
  <2>5. m = n
    BY <2>4 DEF Agree
  <2> QED BY <2>1, <2>2, <2>5
<1>6. ASSUME NEW r \in Ranks
      PROVE  Ids(Deactivated(L)[r]) = Ids(L[r])
  <2>1. \A x \in Range(Deactivated(L)[r]) : \E n \in Range(L[r]) : x.id = n.id
    BY <1>7
  <2>2. \A n \in Range(L[r]) : \E x \in Range(Deactivated(L)[r]) : x.id = n.id
    <3> SUFFICES ASSUME NEW n \in Range(L[r])
                 PROVE  \E x \in Range(Deactivated(L)[r]) : x.id = n.id
      OBVIOUS
    <3>1. [n EXCEPT !.frozen = TRUE] \in Range(Deactivated(L)[r])
      BY <1>1
    <3> QED BY <1>2, <1>3, <3>1
  <2> QED BY <2>1, <2>2 DEF Ids
<1> QED BY <1>1, <1>4, <1>5, <1>6 DEF Agree

LEMMA DeactivatedBlock ==
  ASSUME NEW L, NEW M, NEW n, NEW N, NEW off, NEW s, NEW t, OnceBlock(L, M, n, N, off, s, t)
  PROVE  OnceBlock(Deactivated(L), M, n, N, off, s, t)
<1>1. /\ n \in Nat /\ N \in Nat /\ off \in Int /\ off + n \in Int /\ s \in Int /\ t \in Int
      /\ off <= off + n /\ s <= t
      /\ Agree(L, N + off, N + (off + n), s, t) /\ HoldsOnce(L, M, n, N, off)
  BY DEF OnceBlock, Block
<1> DEFINE lo == N + off
<1> DEFINE hi == N + (off + n)
<1>2. Agree(L, lo, hi, s, t)
  BY <1>1
<1> HIDE DEF lo, hi
<1>3. Agree(Deactivated(L), lo, hi, s, t) /\ \A r \in Ranks : Ids(Deactivated(L)[r]) = Ids(L[r])
  BY <1>2, DeactivatedAgree
<1>4. HoldsOnce(Deactivated(L), M, n, N, off)
  BY <1>1, <1>3 DEF HoldsOnce
<1> QED BY <1>1, <1>3, <1>4 DEF OnceBlock, Block, lo, hi

\* k nodes on each of n things, with serial ids like the ids.
Full(n, k) == [i \in 1..n |-> k]
Strides(n, k, base) == [i \in 1..n |-> base + k * (i - 1)]

LEMMA StridesSpaced ==
  ASSUME NEW n \in Nat, NEW k \in Nat, NEW base \in Int
  PROVE  /\ IsLoop(n, k, Full(n, k)) /\ Room(k, n) \in Nat
         /\ Spaced(Strides(n, k, base), Full(n, k), n, base, base + Room(k, n))
<1>1. IsLoop(n, k, Full(n, k)) /\ Room(k, n) \in Nat
  BY DEF IsLoop, Full, Room
<1> DEFINE S == Strides(n, k, base)
<1> DEFINE copies == Full(n, k)
<1> DEFINE room == Room(k, n)
<1>2. ASSUME NEW i \in 1..n
      PROVE  /\ S[i] \in Int /\ copies[i] = k /\ base <= S[i] /\ S[i] + k <= base + room
  <2> DEFINE K == k * (i - 1)
  <2>1. S[i] = base + K /\ copies[i] = k
    BY DEF Strides, Full
  <2>2. K \in Nat /\ K + k <= room
    <3>1. i \in Nat /\ i < n + 1 /\ n + 1 \in Nat /\ (n + 1) - 1 = n /\ i - 1 \in Nat
      OBVIOUS
    <3>2. k * (i - 1) + k <= k * ((n + 1) - 1)
      BY <3>1, StrideFacts
    <3>3. k * (i - 1) \in Nat
      BY <3>1
    <3> QED BY <3>1, <3>2, <3>3 DEF Room
  <2> HIDE DEF K, S, copies, room
  <2>3. room \in Nat
    BY <1>1 DEF room
  <2> QED BY <2>1, <2>2, <2>3
<1>3. ASSUME NEW i \in 1..n, NEW j \in 1..n, i < j
      PROVE  S[i] + k <= S[j]
  <2> DEFINE K == k * (i - 1)
  <2> DEFINE J == k * (j - 1)
  <2>1. S[i] = base + K /\ S[j] = base + J
    BY DEF Strides
  <2>2. K \in Int /\ J \in Int /\ K + k <= J
    <3>1. k * (i - 1) + k <= k * (j - 1)
      BY <1>3, StrideFacts
    <3>2. k * (i - 1) \in Int /\ k * (j - 1) \in Int
      OBVIOUS
    <3> QED BY <3>1, <3>2
  <2> HIDE DEF K, J, S
  <2> QED BY <2>1, <2>2
<1>4. S \in [1..n -> Int] /\ base + room \in Int
  <2>1. S = [i \in 1..n |-> base + k * (i - 1)]
    BY DEF Strides
  <2>2. \A i \in 1..n : S[i] \in Int
    BY <1>2
  <2>3. room \in Int
    BY <1>1
  <2> HIDE DEF room, S
  <2> QED BY <2>1, <2>2, <2>3
<1>5. Spaced(S, copies, n, base, base + room)
  <2> HIDE DEF S, copies, room
  <2> QED BY <1>2, <1>3, <1>4 DEF Spaced
<1> QED BY <1>1, <1>5

\* The pressure at the corners of each element, which no other element has.
CornerNodes(a, off) ==
  [r \in Ranks |->
     NodesOn(NumberOfElements(iomodel), my_elements[r], LAMBDA e : Len(iomodel.mesh.elements[e]),
             LAMBDA e, p : Node(r, a, off + Len(iomodel.mesh.elements[e]) * (e - 1) + p,
                                (off + Len(iomodel.mesh.elements[e]) * (e - 1) + p) - 1,
                                iomodel.mesh.elements[e][p], "FSpressure"))]

LEMMA CornerBlock ==
  ASSUME NEW N, NEW a, World(N, a, "FSpressure"), NEW off \in Nat
  PROVE  LET k == CornersOf(Kind)
         IN  CopiesBlock(CornerNodes(a, off), my_elements, Nel, N, off, k, Full(Nel, k),
                         off - 1, off - 1 + Room(k, Nel))
<1> DEFINE L == CornerNodes(a, off)
<1> DEFINE k == CornersOf(Kind)
<1> DEFINE copies == Full(Nel, k)
<1> DEFINE S == Strides(Nel, k, off - 1)
<1> DEFINE V == [e \in 1..Nel |-> [p \in 1..k |-> Place(e, p)]]
<1> DEFINE SS == [r \in Ranks |-> [e \in 1..Nel |->
                    IF e \in my_elements[r]
                      THEN [p \in 1..Len(iomodel.mesh.elements[e]) |->
                              Node(r, a, off + Len(iomodel.mesh.elements[e]) * (e - 1) + p,
                                   (off + Len(iomodel.mesh.elements[e]) * (e - 1) + p) - 1,
                                   iomodel.mesh.elements[e][p], "FSpressure")]
                      ELSE << >>]]
<1>1. /\ Nel \in Nat /\ N \in Nat /\ k \in Nat /\ off - 1 \in Int /\ Nv \in Nat
      /\ \A e \in 1..Nel : Len(iomodel.mesh.elements[e]) = k /\ \A p \in 1..k : Place(e, p) \in 1..Nv
  <2>1. k \in {3, 4, 6}
    BY IoFacts DEF World
  <2> QED BY <2>1, IoFacts DEF World, CounterIs
<1> HIDE DEF k
<1>2. /\ IsLoop(Nel, k, copies) /\ Room(k, Nel) \in Nat
      /\ Spaced(S, copies, Nel, off - 1, off - 1 + Room(k, Nel))
  BY <1>1, StridesSpaced
<1>3. V \in [1..Nel -> [1..k -> Nat]]
  BY <1>1
<1>4. Made(L, SS, my_elements, Nel, a, "FSpressure", k, off, copies, S, V)
  <2> SUFFICES ASSUME NEW r \in Ranks
               PROVE  /\ L[r] = FlattenSeq(SS[r]) /\ SS[r] = [i \in 1..Nel |-> SS[r][i]]
                      /\ \A i \in 1..Nel : SS[r][i] =
                           IF i \in my_elements[r]
                             THEN [c \in 1..copies[i] |->
                                     Node(r, a, IdIn(off, k, i, c), S[i] + c, V[i][c], "FSpressure")]
                             ELSE << >>
    BY DEF Made
  <2>1. L[r] = FlattenSeq(SS[r]) /\ SS[r] = [i \in 1..Nel |-> SS[r][i]]
    BY DEF CornerNodes, NodesOn, Nel
  <2>2. ASSUME NEW e \in 1..Nel, NEW p \in 1..k
        PROVE  /\ IdIn(off, k, e, p) = off + k * (e - 1) + p
               /\ S[e] + p = (off + k * (e - 1) + p) - 1 /\ V[e][p] = iomodel.mesh.elements[e][p]
    <3> DEFINE K == k * (e - 1)
    <3>1. IdIn(off, k, e, p) = off + K + p
      BY DEF IdIn
    <3>2. S[e] = off - 1 + K
      BY DEF Strides
    <3>3. K \in Int /\ p \in Int
      BY <1>1
    <3>4. V[e][p] = iomodel.mesh.elements[e][p]
      BY DEF Place
    <3> DEFINE Se == S[e]
    <3>5. Se = off - 1 + K
      BY <3>2
    <3>6. Se + p = (off + K + p) - 1
      <4> HIDE DEF K, Se, S, V, SS, L
      <4> QED BY <3>3, <3>5
    <3> QED BY <3>1, <3>4, <3>6
  <2>3. ASSUME NEW e \in 1..Nel, e \in my_elements[r]
        PROVE  SS[r][e] = [c \in 1..copies[e] |-> Node(r, a, IdIn(off, k, e, c), S[e] + c, V[e][c], "FSpressure")]
    <3>1. SS[r][e] = [p \in 1..Len(iomodel.mesh.elements[e]) |->
                        Node(r, a, off + Len(iomodel.mesh.elements[e]) * (e - 1) + p,
                             (off + Len(iomodel.mesh.elements[e]) * (e - 1) + p) - 1,
                             iomodel.mesh.elements[e][p], "FSpressure")]
      BY <2>3
    <3>2. copies[e] = k /\ Len(iomodel.mesh.elements[e]) = k
      BY <1>1 DEF Full
    <3> HIDE DEF S, V, SS, L, copies
    <3>3. SS[r][e] = [p \in 1..k |-> Node(r, a, off + k * (e - 1) + p, (off + k * (e - 1) + p) - 1,
                                         iomodel.mesh.elements[e][p], "FSpressure")]
      BY <3>1, <3>2
    <3>4. \A p \in 1..k : Node(r, a, off + k * (e - 1) + p, (off + k * (e - 1) + p) - 1,
                               iomodel.mesh.elements[e][p], "FSpressure")
                          = Node(r, a, IdIn(off, k, e, p), S[e] + p, V[e][p], "FSpressure")
      BY <2>2
    <3> QED BY <3>2, <3>3, <3>4
  <2>4. \A i \in 1..Nel : i \notin my_elements[r] => SS[r][i] = << >>
    OBVIOUS
  <2> HIDE DEF S, V, SS, L, copies
  <2> QED BY <2>1, <2>3, <2>4
<1> DEFINE shi == off - 1 + Room(k, Nel)
<1> DEFINE slo == off - 1
<1>5. /\ copies \in [1..Nel -> 0..k] /\ shi \in Int /\ slo \in Int /\ slo <= shi
      /\ Spaced(S, copies, Nel, slo, shi)
  BY <1>1, <1>2 DEF IsLoop
<1> HIDE DEF L, S, V, SS, copies, shi, slo
<1>6. Agree(L, N + off, N + off + Room(k, Nel), slo, shi) /\ Holds(L, my_elements, Nel, N, off, k, copies)
  BY <1>1, <1>3, <1>4, <1>5, LoopOfNodes DEF World
<1> DEFINE room == Room(k, Nel)
<1>7. room \in Nat
  BY <1>2
<1> HIDE DEF room
<1>8. N + (off + room) = N + off + room /\ off + room \in Int /\ off <= off + room /\ off \in Int
  BY <1>1, <1>7
<1>9. Block(L, N, off, off + room, slo, shi)
  BY <1>1, <1>5, <1>6, <1>8 DEF Block, room
<1>10. CopiesBlock(L, my_elements, Nel, N, off, k, copies, slo, shi)
  BY <1>2, <1>6, <1>9 DEF CopiesBlock, room
<1> QED BY <1>10 DEF L, k, copies, slo, shi

\* The nodes of the discontinuous Galerkin method: one at each corner of a triangle.
DGCorner(r, a, e, p, app) ==
  Node(r, a, 3 * (e - 1) + p, nodecounter[r] + (3 * (e - 1) + p) - 1, iomodel.mesh.elements[e][p], app)

DGEntry(r, a, e, p, app) ==
  IF <<e, p>> \in DiscontinuousNodes(r) THEN <<DGCorner(r, a, e, p, app)>> ELSE << >>

DGNodes(a, app) ==
  [r \in Ranks |-> FlattenSeq([e \in Elements |-> DGEntry(r, a, e, 1, app) \o DGEntry(r, a, e, 2, app)
                                                    \o DGEntry(r, a, e, 3, app)])]

LEMMA ThreeEntries ==
  ASSUME NEW A, NEW x, NEW y, NEW z,
         x \in Seq(A) /\ Range(x) \subseteq A, y \in Seq(A) /\ Range(y) \subseteq A,
         z \in Seq(A) /\ Range(z) \subseteq A
  PROVE  x \o y \o z \in Seq(A) /\ Range(x \o y \o z) = Range(x) \cup Range(y) \cup Range(z)
<1>1. x \o y \in Seq(A) /\ Range(x \o y) = Range(x) \cup Range(y)
  BY RangeOfConcat
<1> DEFINE u == x \o y
<1>2. u \in Seq(A) /\ Range(u) = Range(x) \cup Range(y)
  BY <1>1
<1> HIDE DEF u
<1>3. u \o z \in Seq(A) /\ Range(u \o z) = Range(u) \cup Range(z)
  BY <1>2, RangeOfConcat
<1>4. u \o z \in Seq(A) /\ Range(u \o z) = Range(x) \cup Range(y) \cup Range(z)
  BY <1>2, <1>3
<1> QED BY <1>4 DEF u

LEMMA DGAgree ==
  ASSUME NEW N, NEW a, NEW app, World(N, a, app), Kind = "tria"
  PROVE  Block(DGNodes(a, app), N, 0, Room(3, Nel), N - 1, N - 1 + Room(3, Nel))
<1> DEFINE L == DGNodes(a, app)
<1> DEFINE copies == Full(Nel, 3)
<1> DEFINE S == Strides(Nel, 3, N - 1)
<1> DEFINE V == [e \in 1..Nel |-> [p \in 1..3 |-> Place(e, p)]]
<1> DEFINE T == NodeTable(N, a, app, Nel, 3, 0, S, V)
<1>1. /\ Nel \in Nat /\ N \in Nat /\ N - 1 \in Int /\ Nv \in Nat
      /\ \A e \in 1..Nel : \A p \in 1..3 : Place(e, p) \in 1..Nv
  <2>1. CornersOf(Kind) = 3
    BY IoFacts DEF World
  <2> QED BY <2>1, IoFacts DEF World, CounterIs
<1>2. /\ IsLoop(Nel, 3, copies) /\ Room(3, Nel) \in Nat
      /\ Spaced(S, copies, Nel, N - 1, N - 1 + Room(3, Nel))
  BY <1>1, StridesSpaced
<1> DEFINE slo == N - 1
<1> DEFINE room == Room(3, Nel)
<1> DEFINE shi == N - 1 + Room(3, Nel)
<1>3. TableFacts(T, N, a, app, Nel, 3, 0, copies, S, slo, shi, V)
  <2>1. V \in [1..Nel -> [1..3 -> Nat]]
    BY <1>1
  <2>2. TableInput(N, a, app, Nel, 3, 0, copies, S, slo, shi, V)
    BY <1>1, <1>2, <2>1 DEF TableInput, World, IsLoop
  <2> HIDE DEF S, V, copies, slo, shi
  <2> QED BY <2>2, NodesOfTable
<1>4. ASSUME NEW r \in Ranks, NEW e \in 1..Nel, NEW p \in 1..3
      PROVE  DGCorner(r, a, e, p, app) = NodeAt(N, a, IdIn(0, 3, e, p), S[e] + p, V[e][p], app)
  <2> DEFINE K == 3 * (e - 1)
  <2> DEFINE id == K + p
  <2> DEFINE sid == N + (K + p) - 1
  <2> DEFINE v == iomodel.mesh.elements[e][p]
  <2>1. K \in Int /\ nodecounter[r] = N /\ S[e] = N - 1 + K /\ V[e][p] = v
    BY <1>1 DEF World, CounterIs, Strides, Place
  <2>2. DGCorner(r, a, e, p, app) = Node(r, a, id, sid, v, app)
    BY <2>1 DEF DGCorner
  <2>3. IdIn(0, 3, e, p) = id
    BY <2>1 DEF IdIn
  <2> DEFINE Se == S[e]
  <2>4. Se = N - 1 + K
    BY <2>1
  <2>5. Se + p = sid
    <3> HIDE DEF K, Se, S
    <3> QED BY <1>1, <2>1, <2>4
  <2> HIDE DEF id, sid, v, S, V
  <2>6. Node(r, a, id, sid, v, app) = NodeAt(N, a, id, sid, v, app)
    BY NodeIs DEF World
  <2> QED BY <2>1, <2>2, <2>3, <2>5, <2>6
<1> HIDE DEF S, V
<1>5. ASSUME NEW r \in Ranks, NEW e \in 1..Nel, NEW p \in 1..3
      PROVE  /\ DGCorner(r, a, e, p, app) = T[e][p] /\ T[e][p] \in NodeRecords
  BY <1>3, <1>4 DEF TableFacts, IsTable
<1> HIDE DEF T
<1>6. ASSUME NEW r \in Ranks, NEW e \in 1..Nel, NEW p \in 1..3
      PROVE  LET s == DGEntry(r, a, e, p, app)
             IN  s \in Seq(NodeRecords) /\ Range(s) \subseteq {T[e][p]} /\ Range(s) \subseteq NodeRecords
  <2> DEFINE x == DGCorner(r, a, e, p, app)
  <2>1. x = T[e][p] /\ x \in NodeRecords
    BY <1>5
  <2> HIDE DEF x
  <2>2. <<x>> \in Seq(NodeRecords) /\ Range(<<x>>) = {x}
    BY <2>1 DEF Range
  <2>3. << >> \in Seq(NodeRecords) /\ Range(<< >>) = {}
    BY EmptySeq DEF Range
  <2>4. DGEntry(r, a, e, p, app) = <<x>> \/ DGEntry(r, a, e, p, app) = << >>
    BY DEF DGEntry, x
  <2> QED BY <2>1, <2>2, <2>3, <2>4
<1>7. ASSUME NEW r \in Ranks
      PROVE  L[r] \in Seq(NodeRecords) /\ \A x \in Range(L[r]) : IsEntry(x, Nel, 3, copies, T)
  <2> DEFINE ss == [e \in 1..Nel |-> DGEntry(r, a, e, 1, app) \o DGEntry(r, a, e, 2, app)
                                       \o DGEntry(r, a, e, 3, app)]
  <2>1. L[r] = FlattenSeq(ss)
    BY IoFacts DEF DGNodes, World
  <2>2. ASSUME NEW e \in 1..Nel
        PROVE  ss[e] \in Seq(NodeRecords) /\ \A x \in Range(ss[e]) : \E p \in 1..3 : x = T[e][p]
    <3> DEFINE x == DGEntry(r, a, e, 1, app)
    <3> DEFINE y == DGEntry(r, a, e, 2, app)
    <3> DEFINE z == DGEntry(r, a, e, 3, app)
    <3>1. /\ x \in Seq(NodeRecords) /\ Range(x) \subseteq NodeRecords /\ Range(x) \subseteq {T[e][1]}
          /\ y \in Seq(NodeRecords) /\ Range(y) \subseteq NodeRecords /\ Range(y) \subseteq {T[e][2]}
          /\ z \in Seq(NodeRecords) /\ Range(z) \subseteq NodeRecords /\ Range(z) \subseteq {T[e][3]}
      BY <1>6
    <3>2. ss[e] = x \o y \o z
      OBVIOUS
    <3> HIDE DEF x, y, z, ss
    <3>3. x \o y \o z \in Seq(NodeRecords) /\ Range(x \o y \o z) = Range(x) \cup Range(y) \cup Range(z)
      BY <3>1, ThreeEntries
    <3> QED BY <3>1, <3>2, <3>3
  <2>3. ss \in [1..Nel -> Seq(NodeRecords)]
    BY <2>2
  <2> HIDE DEF ss
  <2>4. /\ FlattenSeq(ss) \in Seq(NodeRecords)
        /\ \A x : x \in Range(FlattenSeq(ss)) <=> \E i \in 1..Nel : x \in Range(ss[i])
    BY <1>1, <2>3, RangeOfFlattened
  <2>5. \A i \in 1..Nel, c \in 1..3 : c <= copies[i]
    BY DEF Full
  <2> HIDE DEF L, copies
  <2> QED BY <2>1, <2>2, <2>4, <2>5 DEF IsEntry
<1> DEFINE lo == N + 0
<1> DEFINE hi == N + 0 + Room(3, Nel)
<1>8. /\ Bounded(T, Nel, 3, copies, lo, hi, slo, shi) /\ Distinct(T, Nel, 3, copies)
  BY <1>3 DEF TableFacts
<1>9. hi = N + room /\ shi \in Int /\ slo <= shi /\ slo \in Int /\ 0 <= room /\ room \in Int
  BY <1>1, <1>2
<1> HIDE DEF L, copies, lo, hi, slo, shi
<1>10. Agree(L, lo, hi, slo, shi)
  BY <1>7, <1>8, TableAgrees
<1> HIDE DEF room
<1>11. Block(L, N, 0, room, slo, shi)
  BY <1>1, <1>9, <1>10 DEF Block, lo
<1> QED BY <1>11 DEF L, room, slo, shi

-----------------------------------------------------------------------------
(***************************************************************************)
(* Which nodes of a thing a rank has, as the constraints need it: those of *)
(* its own things, and no others.                                          *)
(***************************************************************************)
PlacesOnce(L, N, M, n, off) ==
  \A r \in Ranks : \A i \in 1..n : N + off + i \in Ids(L[r]) <=> i \in M[r]

PlacesMany(L, N, M, n, off, k, copies) ==
  \A r \in Ranks : \A i \in 1..n, c \in 1..k :
    N + IdIn(off, k, i, c) \in Ids(L[r]) <=> i \in M[r] /\ c <= copies[i]

LEMMA OncePlaces ==
  ASSUME NEW L, NEW N, NEW M, NEW n, NEW off, NEW s, NEW t, OnceBlock(L, M, n, N, off, s, t)
  PROVE  PlacesOnce(L, N, M, n, off)
<1>1. n \in Nat /\ N \in Nat /\ off \in Int /\ HoldsOnce(L, M, n, N, off)
  BY DEF OnceBlock, Block
<1>2. \A i, j \in 1..n : N + off + i = N + off + j => i = j
  BY <1>1
<1> QED BY <1>1, <1>2 DEF HoldsOnce, PlacesOnce

LEMMA ManyPlaces ==
  ASSUME NEW L, NEW N, NEW M, NEW n, NEW off, NEW k, NEW copies, NEW s, NEW t, off \in Nat,
         CopiesBlock(L, M, n, N, off, k, copies, s, t)
  PROVE  PlacesMany(L, N, M, n, off, k, copies)
<1>1. n \in Nat /\ k \in Nat /\ N \in Nat /\ Holds(L, M, n, N, off, k, copies)
  BY DEF CopiesBlock, Block, IsLoop
<1>2. ASSUME NEW i \in 1..n, NEW j \in 1..n, NEW c \in 1..k, NEW d \in 1..k,
             N + IdIn(off, k, i, c) = N + IdIn(off, k, j, d)
      PROVE  i = j /\ c = d
  <2>1. IdIn(off, k, i, c) \in Int /\ IdIn(off, k, j, d) \in Int
    BY <1>1, IdFacts
  <2>2. IdIn(off, k, i, c) = IdIn(off, k, j, d)
    <3> DEFINE x == IdIn(off, k, i, c)
    <3> DEFINE y == IdIn(off, k, j, d)
    <3>1. x \in Int /\ y \in Int /\ N + x = N + y /\ N \in Nat
      BY <1>1, <1>2, <2>1
    <3> HIDE DEF x, y
    <3>2. x = y
      BY <3>1
    <3> QED BY <3>2 DEF x, y
  <2>3. OnePlace(off, k, n, i, c, j, d)
    BY <1>1, <2>2 DEF OnePlace
  <2> QED BY <2>3, IdsDiffer
<1> QED BY <1>1, <1>2 DEF Holds, PlacesMany

LEMMA OnceLifted ==
  ASSUME NEW L1, NEW L, NEW N, NEW o1, NEW h1, NEW M, NEW n, NEW off,
         PlacesOnce(L1, N, M, n, off), Within(L1, L, N, o1, h1),
         N \in Nat /\ o1 \in Int /\ h1 \in Int /\ n \in Nat /\ off \in Int, o1 <= off, off + n <= h1
  PROVE  PlacesOnce(L, N, M, n, off)
<1>1. \A i \in 1..n : N + o1 < N + off + i /\ N + off + i <= N + h1
  OBVIOUS
<1> QED BY <1>1 DEF PlacesOnce, Within

LEMMA ManyLifted ==
  ASSUME NEW L1, NEW L, NEW N, NEW o1, NEW h1, NEW M, NEW n, NEW off, NEW k, NEW copies,
         PlacesMany(L1, N, M, n, off, k, copies), Within(L1, L, N, o1, h1),
         N \in Nat /\ o1 \in Int /\ h1 \in Int /\ n \in Nat /\ k \in Nat /\ off \in Nat,
         o1 <= off, off + Room(k, n) <= h1
  PROVE  PlacesMany(L, N, M, n, off, k, copies)
<1>1. ASSUME NEW i \in 1..n, NEW c \in 1..k
      PROVE  N + o1 < N + IdIn(off, k, i, c) /\ N + IdIn(off, k, i, c) <= N + h1
  <2> DEFINE id == IdIn(off, k, i, c)
  <2> DEFINE room == Room(k, n)
  <2>1. id \in Int /\ room \in Nat /\ off < id /\ id <= off + room /\ off + room <= h1
    BY IdFacts
  <2> HIDE DEF id, room
  <2>2. N + o1 < N + id /\ N + id <= N + h1
    BY <2>1
  <2> QED BY <2>2 DEF id
<1> QED BY <1>1 DEF PlacesMany, Within

\* A block, and one more after it.
LEMMA OnceAfter ==
  ASSUME NEW L1, NEW N, NEW o1, NEW h1, NEW s1, NEW t1, Block(L1, N, o1, h1, s1, t1),
         NEW B, NEW M, NEW n, NEW off, NEW s, NEW t, OnceBlock(B, M, n, N, off, s, t), h1 <= off, t1 <= s
  PROVE  /\ Block(Joined(L1, B), N, o1, off + n, s1, t) /\ Within(L1, Joined(L1, B), N, o1, h1)
         /\ PlacesOnce(Joined(L1, B), N, M, n, off)
<1>1. Block(B, N, off, off + n, s, t) /\ PlacesOnce(B, N, M, n, off)
      /\ N \in Nat /\ off \in Int /\ off + n \in Int /\ n \in Nat
  BY OncePlaces DEF OnceBlock, Block
<1> DEFINE h == off + n
<1> DEFINE L == Joined(L1, B)
<1>2. Block(B, N, off, h, s, t) /\ h \in Int /\ off + n <= h /\ off <= off
  BY <1>1
<1> HIDE DEF h, L
<1>3. /\ Block(L, N, o1, h, s1, t) /\ Within(L1, L, N, o1, h1) /\ Within(B, L, N, off, h)
  BY <1>2, WithinJoined DEF L
<1>4. PlacesOnce(L, N, M, n, off)
  BY <1>1, <1>2, <1>3, OnceLifted
<1> QED BY <1>3, <1>4 DEF h, L

LEMMA CopiesAfter ==
  ASSUME NEW L1, NEW N, NEW o1, NEW h1, NEW s1, NEW t1, Block(L1, N, o1, h1, s1, t1),
         NEW B, NEW M, NEW n, NEW off, NEW k, NEW copies, NEW s, NEW t, off \in Nat,
         CopiesBlock(B, M, n, N, off, k, copies, s, t), h1 <= off, t1 <= s
  PROVE  /\ Block(Joined(L1, B), N, o1, off + Room(k, n), s1, t) /\ Within(L1, Joined(L1, B), N, o1, h1)
         /\ PlacesMany(Joined(L1, B), N, M, n, off, k, copies)
<1>1. Block(B, N, off, off + Room(k, n), s, t) /\ PlacesMany(B, N, M, n, off, k, copies)
      /\ N \in Nat /\ off \in Int /\ off + Room(k, n) \in Int /\ n \in Nat /\ k \in Nat
  BY ManyPlaces DEF CopiesBlock, Block, IsLoop
<1> DEFINE h == off + Room(k, n)
<1> DEFINE L == Joined(L1, B)
<1>2. Block(B, N, off, h, s, t) /\ h \in Int /\ off + Room(k, n) <= h /\ off <= off
  BY <1>1
<1> HIDE DEF h, L
<1>3. /\ Block(L, N, o1, h, s1, t) /\ Within(L1, L, N, o1, h1) /\ Within(B, L, N, off, h)
  BY <1>2, WithinJoined DEF L
<1>4. PlacesMany(L, N, M, n, off, k, copies)
  BY <1>1, <1>2, <1>3, ManyLifted
<1> QED BY <1>3, <1>4 DEF h, L

-----------------------------------------------------------------------------
(***************************************************************************)
(* The finite elements with one field, each a row of blocks.               *)
(***************************************************************************)
ScalarOf(a, fe, app) == [r \in Ranks |-> ScalarNodes(r, a, fe, app)]

P2Nodes(a, app) == Joined(Joined(VertexNodes(a, 0, app), EdgeNodes(a, app)), QuadNodes(a, app))

LEMMA ScalarIs ==
  ASSUME NEW a, NEW app
  PROVE  LET P1 == VertexNodes(a, 0, app)
         IN  /\ ScalarOf(a, "P1", app) = P1
             /\ ScalarOf(a, "P1DG", app) = DGNodes(a, app)
             /\ ScalarOf(a, "P1bubble", app) = Joined(P1, ElementNodes(a, Nv, app))
             /\ ScalarOf(a, "P1bubblecondensed", app) = Joined(P1, Deactivated(ElementNodes(a, Nv, app)))
             /\ ScalarOf(a, "P1xP2", app) = Joined(P1, CountedEdgeNodes(a, 1, EdgeCopies(1, 0), app))
             /\ ScalarOf(a, "P1xP3", app) = Joined(P1, CountedEdgeNodes(a, 2, EdgeCopies(2, 0), app))
             /\ ScalarOf(a, "P2xP1", app) = Joined(P1, CountedEdgeNodes(a, 1, EdgeCopies(0, 1), app))
             /\ ScalarOf(a, "P2", app) = P2Nodes(a, app)
             /\ ScalarOf(a, "P2bubble", app) = Joined(P2Nodes(a, app), ElementNodes(a, AfterP2, app))
             /\ ScalarOf(a, "P2xP4", app) =
                  Joined(Joined(P1, CountedEdgeNodes(a, 3, EdgeCopies(3, 1), app)),
                         CountedQuadNodes(a, EdgeCopies(3, 1), app))
<1> USE DEF ScalarOf, Joined, VertexNodes, ElementNodes
<1>1. ScalarOf(a, "P1", app) = VertexNodes(a, 0, app)
  BY DEF ScalarNodes
<1>2. ScalarOf(a, "P1DG", app) = DGNodes(a, app)
  <2>1. ASSUME NEW r \in Ranks
        PROVE  ScalarNodes(r, a, "P1DG", app) =
                 FlattenSeq([e \in Elements |-> DGEntry(r, a, e, 1, app) \o DGEntry(r, a, e, 2, app)
                                                  \o DGEntry(r, a, e, 3, app)])
    BY DEF ScalarNodes, DGEntry, DGCorner
  <2> QED BY <2>1 DEF DGNodes
<1>3. ScalarOf(a, "P1bubble", app) = Joined(VertexNodes(a, 0, app), ElementNodes(a, Nv, app))
  BY DEF ScalarNodes, Nv
<1>4. ScalarOf(a, "P1bubblecondensed", app) =
        Joined(VertexNodes(a, 0, app), Deactivated(ElementNodes(a, Nv, app)))
  BY DEF ScalarNodes, Nv, Deactivated
<1>5. ScalarOf(a, "P1xP2", app) = Joined(VertexNodes(a, 0, app), CountedEdgeNodes(a, 1, EdgeCopies(1, 0), app))
  BY DEF ScalarNodes, CountedEdgeNodes
<1>6. ScalarOf(a, "P1xP3", app) = Joined(VertexNodes(a, 0, app), CountedEdgeNodes(a, 2, EdgeCopies(2, 0), app))
  BY DEF ScalarNodes, CountedEdgeNodes
<1>7. ScalarOf(a, "P2xP1", app) = Joined(VertexNodes(a, 0, app), CountedEdgeNodes(a, 1, EdgeCopies(0, 1), app))
  BY DEF ScalarNodes, CountedEdgeNodes
<1>8. ScalarOf(a, "P2", app) = P2Nodes(a, app)
  BY DEF ScalarNodes, P2Nodes, AtP2, EdgeNodes, QuadNodes
<1>9. ScalarOf(a, "P2bubble", app) = Joined(P2Nodes(a, app), ElementNodes(a, AfterP2, app))
  BY DEF ScalarNodes, P2Nodes, AtP2, AtP2bubble, EdgeNodes, QuadNodes
<1>10. ScalarOf(a, "P2xP4", app) =
         Joined(Joined(VertexNodes(a, 0, app), CountedEdgeNodes(a, 3, EdgeCopies(3, 1), app)),
                CountedQuadNodes(a, EdgeCopies(3, 1), app))
  BY DEF ScalarNodes, AtP2xP4, CountedEdgeNodes, CountedQuadNodes
<1> QED BY <1>1, <1>2, <1>3, <1>4, <1>5, <1>6, <1>7, <1>8, <1>9, <1>10

\* Where the finite element has nodes on which a field of the mesh is imposed.
VelocityPlaces(L, N, fe) ==
  /\ PlacesOnce(L, N, MyVs, Nv, 0)
  /\ fe = "P1bubble" => PlacesOnce(L, N, my_elements, Nel, Nv)
  /\ fe = "P1xP2" => PlacesMany(L, N, MyEs, Ne, Nv, 1, EdgeCopies(1, 0))
  /\ fe = "P1xP3" => PlacesMany(L, N, MyEs, Ne, Nv, 2, EdgeCopies(2, 0))
  /\ fe = "P2xP1" => PlacesMany(L, N, MyEs, Ne, Nv, 1, EdgeCopies(0, 1))
  /\ fe \in {"P2", "P2bubble"} =>
       PlacesOnce(L, N, MyEs, Ne, Nv) /\ (Kind = "penta" => PlacesOnce(L, N, MyQuads, Nf, Nv + Ne))
  /\ fe = "P2bubble" => PlacesOnce(L, N, my_elements, Nel, AfterP2)
  /\ fe = "P2xP4" => /\ PlacesMany(L, N, MyEs, Ne, Nv, 3, EdgeCopies(3, 1))
                     /\ PlacesMany(L, N, MyFs, Nf, Nv + 3 * Ne, 3, QuadCopies)

LEMMA P1Block ==
  ASSUME NEW N, NEW a, NEW app, World(N, a, app)
  PROVE  /\ Block(VertexNodes(a, 0, app), N, 0, Nv, -1, Nv - 1)
         /\ PlacesOnce(VertexNodes(a, 0, app), N, MyVs, Nv, 0)
<1>1. OnceBlock(VertexNodes(a, 0, app), MyVs, Nv, N, 0, 0 - 1, 0 + Nv - 1)
  <2>1. 0 \in Nat
    OBVIOUS
  <2> QED BY <2>1, VertexBlock
<1>2. PlacesOnce(VertexNodes(a, 0, app), N, MyVs, Nv, 0)
  BY <1>1, OncePlaces
<1>3. 0 - 1 = -1 /\ 0 + Nv - 1 = Nv - 1 /\ 0 + Nv = Nv
  BY IoFacts DEF World
<1> QED BY <1>1, <1>2, <1>3 DEF OnceBlock

LEMMA BubbleBlock ==
  ASSUME NEW N, NEW a, NEW app, World(N, a, app), NEW fe \in {"P1bubble", "P1bubblecondensed"}
  PROVE  /\ Block(ScalarOf(a, fe, app), N, 0, Nv + Nel, -1, Nv + Nel - 1)
         /\ VelocityPlaces(ScalarOf(a, fe, app), N, "P1bubble")
<1> DEFINE P1 == VertexNodes(a, 0, app)
<1> DEFINE B == IF fe = "P1bubble" THEN ElementNodes(a, Nv, app) ELSE Deactivated(ElementNodes(a, Nv, app))
<1>1. Block(P1, N, 0, Nv, -1, Nv - 1) /\ PlacesOnce(P1, N, MyVs, Nv, 0)
  BY P1Block
<1>2. OnceBlock(ElementNodes(a, Nv, app), my_elements, Nel, N, Nv, Nv - 1, Nv + Nel - 1)
  <2>1. Nv \in Nat
    BY IoFacts DEF World
  <2> QED BY <2>1, ElementBlock
<1>3. OnceBlock(Deactivated(ElementNodes(a, Nv, app)), my_elements, Nel, N, Nv, Nv - 1, Nv + Nel - 1)
  BY <1>2, DeactivatedBlock
<1>4. OnceBlock(B, my_elements, Nel, N, Nv, Nv - 1, Nv + Nel - 1) /\ ScalarOf(a, fe, app) = Joined(P1, B)
  <2>1. CASE fe = "P1bubble"
    BY <1>2, <2>1, ScalarIs
  <2>2. CASE fe = "P1bubblecondensed"
    BY <1>3, <2>2, ScalarIs
  <2> QED BY <2>1, <2>2
<1>5. Nv <= Nv /\ Nv - 1 <= Nv - 1 /\ Nv \in Nat /\ N \in Nat /\ 0 + Nv <= Nv
  BY IoFacts DEF World, CounterIs
<1> HIDE DEF P1, B
<1>6. /\ Block(Joined(P1, B), N, 0, Nv + Nel, -1, Nv + Nel - 1) /\ Within(P1, Joined(P1, B), N, 0, Nv)
      /\ PlacesOnce(Joined(P1, B), N, my_elements, Nel, Nv)
  BY <1>1, <1>4, <1>5, OnceAfter
<1>7. PlacesOnce(Joined(P1, B), N, MyVs, Nv, 0)
  BY <1>1, <1>5, <1>6, OnceLifted
<1> QED BY <1>4, <1>6, <1>7 DEF VelocityPlaces

\* P1xP2, P1xP3, P2xP1.
LEMMA SomeEdgesBlock ==
  ASSUME NEW N, NEW a, NEW app, World(N, a, app), NEW k, NEW copies, IsLoop(Ne, k, copies)
  PROVE  LET L == Joined(VertexNodes(a, 0, app), CountedEdgeNodes(a, k, copies, app))
         IN  /\ Block(L, N, 0, Nv + Room(k, Ne), -1, Nv + Total(copies, Ne))
             /\ PlacesOnce(L, N, MyVs, Nv, 0) /\ PlacesMany(L, N, MyEs, Ne, Nv, k, copies)
             /\ Within(VertexNodes(a, 0, app), L, N, 0, Nv)
<1> DEFINE P1 == VertexNodes(a, 0, app)
<1> DEFINE B == CountedEdgeNodes(a, k, copies, app)
<1>1. Block(P1, N, 0, Nv, -1, Nv - 1) /\ PlacesOnce(P1, N, MyVs, Nv, 0)
  BY P1Block
<1>2. CopiesBlock(B, MyEs, Ne, N, Nv, k, copies, Nv, Nv + Total(copies, Ne))
  BY CountedEdgeBlock
<1>3. Nv <= Nv /\ Nv - 1 <= Nv /\ Nv \in Nat /\ N \in Nat /\ 0 + Nv <= Nv
  BY IoFacts DEF World, CounterIs
<1> HIDE DEF P1, B
<1>4. /\ Block(Joined(P1, B), N, 0, Nv + Room(k, Ne), -1, Nv + Total(copies, Ne))
      /\ Within(P1, Joined(P1, B), N, 0, Nv) /\ PlacesMany(Joined(P1, B), N, MyEs, Ne, Nv, k, copies)
  BY <1>1, <1>2, <1>3, CopiesAfter
<1>5. PlacesOnce(Joined(P1, B), N, MyVs, Nv, 0)
  BY <1>1, <1>3, <1>4, OnceLifted
<1> QED BY <1>4, <1>5 DEF P1, B

LEMMA EmptyBlock ==
  ASSUME NEW L, NEW N \in Nat, NEW o \in Int, NEW s \in Int, \A r \in Ranks : L[r] = << >>
  PROVE  Block(L, N, o, o, s, s)
<1>1. << >> \in Seq(NodeRecords) /\ Range(<< >>) = {}
  BY EmptySeq DEF Range
<1>2. \A r \in Ranks : L[r] \in Seq(NodeRecords) /\ Range(L[r]) = {}
  BY <1>1
<1>3. Agree(L, N + o, N + o, s, s)
  BY <1>2 DEF Agree
<1>4. o <= o /\ s <= s
  OBVIOUS
<1> QED BY <1>3, <1>4 DEF Block

LEMMA P2Block ==
  ASSUME NEW N, NEW a, NEW app, World(N, a, app)
  PROVE  LET L == P2Nodes(a, app)
         IN  /\ Block(L, N, 0, AfterP2, -1, AfterP2 - 1) /\ AfterP2 \in Nat /\ Nv + Ne <= AfterP2
             /\ PlacesOnce(L, N, MyVs, Nv, 0) /\ PlacesOnce(L, N, MyEs, Ne, Nv)
             /\ Kind = "penta" => PlacesOnce(L, N, MyQuads, Nf, Nv + Ne)
<1> DEFINE P1 == VertexNodes(a, 0, app)
<1> DEFINE E == EdgeNodes(a, app)
<1> DEFINE Q == QuadNodes(a, app)
<1> DEFINE L == P2Nodes(a, app)
<1> DEFINE v == Nv
<1> DEFINE ve == Nv + Ne
<1>1. Block(P1, N, 0, v, -1, v - 1) /\ PlacesOnce(P1, N, MyVs, Nv, 0)
  BY P1Block
<1>2. OnceBlock(E, MyEs, Ne, N, v, v - 1, Nv + Ne - 1)
  BY EdgeBlock
<1>3. /\ N \in Nat /\ v \in Nat /\ Nv \in Nat /\ Ne \in Nat /\ v = Nv /\ ve = v + Ne /\ ve \in Nat /\ 0 + Nv <= v
      /\ v <= v /\ v - 1 <= v - 1 /\ Nv + Ne - 1 = ve - 1 /\ v + Ne = ve /\ v <= ve /\ ve <= ve
      /\ Nv + Ne <= ve /\ 0 + Nv <= ve /\ ve - 1 \in Int /\ ve - 1 <= ve - 1
  BY IoFacts DEF World, CounterIs
<1>4. L = Joined(Joined(P1, E), Q)
  BY DEF P2Nodes
<1> DEFINE PE == Joined(P1, E)
<1> HIDE DEF P1, E, Q, L, ve, PE
<1>5. /\ Block(PE, N, 0, ve, -1, ve - 1) /\ Within(P1, PE, N, 0, v) /\ PlacesOnce(PE, N, MyEs, Ne, v)
  BY <1>1, <1>2, <1>3, OnceAfter DEF PE
<1>6. PlacesOnce(PE, N, MyVs, Nv, 0)
  BY <1>1, <1>3, <1>5, OnceLifted
<1> DEFINE all == AfterP2
<1>7. /\ all \in Nat /\ ve <= all /\ all - 1 \in Int /\ ve - 1 <= all - 1
      /\ Kind = "penta" => all = ve + Nf /\ all - 1 = ve + Nf - 1 /\ Nf \in Nat
      /\ Kind # "penta" => all = ve
  <2>1. CASE Kind = "penta"
    <3>1. all = ve + Nf /\ Nf \in Nat
      BY <2>1, IoFacts DEF AfterP2, Nv, Ne, Nf, Kind, ve, World
    <3> HIDE DEF all
    <3> QED BY <2>1, <1>3, <3>1
  <2>2. CASE Kind # "penta"
    <3>1. all = ve + 0
      BY <2>2 DEF AfterP2, Nv, Ne, Nf, Kind, ve, World
    <3> HIDE DEF all
    <3> QED BY <2>2, <1>3, <3>1
  <2> QED BY <2>1, <2>2
<1>8. Block(Q, N, ve, all, ve - 1, all - 1) /\ (Kind = "penta" => PlacesOnce(Q, N, MyQuads, Nf, ve))
  <2>1. CASE Kind = "penta"
    <3>1. OnceBlock(Q, MyQuads, Nf, N, ve, ve - 1, ve + Nf - 1)
      <4>1. OnceBlock(Q, MyQuads, Nf, N, Nv + Ne, Nv + Ne - 1, Nv + Ne + Nf - 1)
        BY <2>1, QuadBlock DEF Q
      <4>2. ve = Nv + Ne /\ ve - 1 = Nv + Ne - 1 /\ ve + Nf - 1 = Nv + Ne + Nf - 1
        BY <1>3, <1>7, <2>1 DEF ve
      <4> QED BY <4>1, <4>2
    <3>2. PlacesOnce(Q, N, MyQuads, Nf, ve)
      BY <3>1, OncePlaces
    <3>3. Block(Q, N, ve, ve + Nf, ve - 1, ve + Nf - 1)
      BY <3>1 DEF OnceBlock
    <3> HIDE DEF all
    <3> QED BY <1>7, <2>1, <3>2, <3>3
  <2>2. CASE Kind # "penta"
    <3>1. \A r \in Ranks : Q[r] = << >>
      BY <2>2, NoQuads DEF Q, QuadNodes
    <3> DEFINE o == ve - 1
    <3>2. Block(Q, N, ve, ve, o, o)
      <4>1. ve \in Int /\ o \in Int /\ N \in Nat
        BY <1>3
      <4> HIDE DEF o
      <4> QED BY <3>1, <4>1, EmptyBlock
    <3> HIDE DEF all
    <3> QED BY <1>7, <2>2, <3>2
  <2> QED BY <2>1, <2>2
<1> HIDE DEF all
<1>9. /\ Block(L, N, 0, all, -1, all - 1) /\ Within(PE, L, N, 0, ve) /\ Within(Q, L, N, ve, all)
  BY <1>3, <1>4, <1>5, <1>7, <1>8, WithinJoined DEF PE
<1>10. PlacesOnce(L, N, MyVs, Nv, 0)
  BY <1>3, <1>6, <1>9, OnceLifted
<1>11. PlacesOnce(L, N, MyEs, Ne, v)
  <2>1. 0 <= v
    BY <1>3
  <2> QED BY <1>3, <1>5, <1>9, <2>1, OnceLifted
<1>12. Kind = "penta" => PlacesOnce(L, N, MyQuads, Nf, ve)
  <2> SUFFICES ASSUME Kind = "penta" PROVE PlacesOnce(L, N, MyQuads, Nf, ve)
    OBVIOUS
  <2>1. ve + Nf <= all /\ Nf \in Nat /\ ve \in Int /\ all \in Int
    BY <1>3, <1>7
  <2> QED BY <1>3, <1>8, <1>9, <2>1, OnceLifted
<1>13. Nv + Ne <= all
  BY <1>7 DEF ve
<1> QED BY <1>7, <1>9, <1>10, <1>11, <1>12, <1>13 DEF L, all, ve

LEMMA P2bubbleBlock ==
  ASSUME NEW N, NEW a, NEW app, World(N, a, app)
  PROVE  LET L == ScalarOf(a, "P2bubble", app)
         IN  /\ Block(L, N, 0, AfterP2 + Nel, -1, AfterP2 + Nel - 1) /\ AfterP2 \in Nat
             /\ VelocityPlaces(L, N, "P2bubble")
<1> DEFINE P2 == P2Nodes(a, app)
<1> DEFINE B == ElementNodes(a, AfterP2, app)
<1> DEFINE L == Joined(P2, B)
<1> DEFINE all == AfterP2
<1>1. /\ Block(P2, N, 0, all, -1, all - 1) /\ all \in Nat /\ Nv + Ne <= all
      /\ PlacesOnce(P2, N, MyVs, Nv, 0) /\ PlacesOnce(P2, N, MyEs, Ne, Nv)
      /\ Kind = "penta" => PlacesOnce(P2, N, MyQuads, Nf, Nv + Ne)
  BY P2Block
<1>2. OnceBlock(B, my_elements, Nel, N, all, all - 1, all + Nel - 1)
  BY <1>1, ElementBlock
<1>3. N \in Nat /\ Nv \in Nat /\ Ne \in Nat
  BY IoFacts DEF World, CounterIs
<1>4. Kind = "penta" => Nv + Ne + Nf = all /\ Nf \in Nat
  BY IoFacts DEF AfterP2, Nv, Ne, Nf, Kind, World
<1> HIDE DEF P2, B, all
<1>5. all <= all /\ all - 1 <= all - 1 /\ 0 + Nv <= all /\ Nv + Ne \in Int /\ 0 <= Nv + Ne
  BY <1>1, <1>3
<1>6. /\ Block(L, N, 0, all + Nel, -1, all + Nel - 1) /\ Within(P2, L, N, 0, all)
      /\ PlacesOnce(L, N, my_elements, Nel, all)
  BY <1>1, <1>2, <1>5, OnceAfter
<1> HIDE DEF L
<1>7. PlacesOnce(L, N, MyVs, Nv, 0) /\ PlacesOnce(L, N, MyEs, Ne, Nv)
  BY <1>1, <1>3, <1>5, <1>6, OnceLifted
<1>8. Kind = "penta" => PlacesOnce(L, N, MyQuads, Nf, Nv + Ne)
  <2> DEFINE ve == Nv + Ne
  <2> SUFFICES ASSUME Kind = "penta" PROVE PlacesOnce(L, N, MyQuads, Nf, ve)
    OBVIOUS
  <2>1. ve + Nf <= all /\ Nf \in Nat /\ ve \in Int /\ 0 <= ve /\ all \in Int /\ PlacesOnce(P2, N, MyQuads, Nf, ve)
    BY <1>1, <1>4, <1>5
  <2> HIDE DEF ve
  <2> QED BY <1>3, <1>6, <2>1, OnceLifted
<1>9. ScalarOf(a, "P2bubble", app) = L
  BY ScalarIs DEF L, P2, B
<1> QED BY <1>1, <1>6, <1>7, <1>8, <1>9 DEF VelocityPlaces, all

LEMMA P2xP4Block ==
  ASSUME NEW N, NEW a, NEW app, World(N, a, app), Kind = "penta"
  PROVE  LET L == ScalarOf(a, "P2xP4", app)
             h == Nv + 3 * Ne + Room(3, Nf)
             t == Nv + Total(EdgeCopies(3, 1), Ne) + Total(QuadCopies, Nf)
         IN  /\ Block(L, N, 0, h, -1, t)
             /\ VelocityPlaces(L, N, "P2xP4")
<1> DEFINE copies == EdgeCopies(3, 1)
<1> DEFINE PE == Joined(VertexNodes(a, 0, app), CountedEdgeNodes(a, 3, copies, app))
<1> DEFINE Q == CountedQuadNodes(a, copies, app)
<1> DEFINE L == Joined(PE, Q)
<1> DEFINE first == Nv + Total(copies, Ne)
<1> DEFINE ve == Nv + 3 * Ne
<1>1. IsLoop(Ne, 3, copies) /\ IsLoop(Nf, 3, QuadCopies)
  BY EdgeCopiesAre, QuadCopiesAre DEF World
<1>2. N \in Nat /\ Nv \in Nat /\ Ne \in Nat /\ Nf \in Nat /\ Total(copies, Ne) \in Nat
  BY <1>1, IoFacts, TotalFacts DEF World, CounterIs
<1> HIDE DEF copies
<1>3. /\ Block(PE, N, 0, Nv + Room(3, Ne), -1, first)
      /\ PlacesOnce(PE, N, MyVs, Nv, 0) /\ PlacesMany(PE, N, MyEs, Ne, Nv, 3, copies)
  BY <1>1, SomeEdgesBlock
<1>4. CopiesBlock(Q, MyFs, Nf, N, ve, 3, QuadCopies, first, first + Total(QuadCopies, Nf))
  BY <1>1, CountedQuadBlock
<1>5. Room(3, Ne) = 3 * Ne /\ ve = Nv + Room(3, Ne)
  BY DEF Room
<1>6. ve \in Nat /\ first \in Nat /\ ve <= ve /\ first <= first /\ 0 + Nv <= ve /\ 0 <= Nv /\ Nv + Room(3, Ne) <= ve
      /\ 3 \in Nat
  BY <1>2, <1>5
<1>7. Block(PE, N, 0, ve, -1, first)
  BY <1>3, <1>5
<1> HIDE DEF PE, Q, first, ve
<1>8. /\ Block(L, N, 0, ve + Room(3, Nf), -1, first + Total(QuadCopies, Nf)) /\ Within(PE, L, N, 0, ve)
      /\ PlacesMany(L, N, MyFs, Nf, ve, 3, QuadCopies)
  BY <1>4, <1>6, <1>7, CopiesAfter
<1> HIDE DEF L
<1>9. PlacesOnce(L, N, MyVs, Nv, 0)
  BY <1>2, <1>3, <1>6, <1>8, OnceLifted
<1>10. PlacesMany(L, N, MyEs, Ne, Nv, 3, copies)
  BY <1>2, <1>3, <1>6, <1>8, ManyLifted
<1>11. ScalarOf(a, "P2xP4", app) = L
  BY ScalarIs DEF L, PE, Q, copies
<1>12. VelocityPlaces(L, N, "P2xP4")
  BY <1>8, <1>9, <1>10 DEF VelocityPlaces, ve, copies
<1> QED BY <1>8, <1>11, <1>12 DEF ve, first, copies

LEMMA ScalarMade ==
  ASSUME NEW N, NEW a, NEW app, World(N, a, app), NEW fe \in ScalarElements \cup {"P1DG"},
         fe \in OfPrisms => Kind = "penta", fe = "P1DG" => Kind = "tria"
  PROVE  /\ \E h, s, t : Block(ScalarOf(a, fe, app), N, 0, h, s, t)
         /\ fe # "P1DG" => VelocityPlaces(ScalarOf(a, fe, app), N, fe)
<1> DEFINE L == ScalarOf(a, fe, app)
<1>1. CASE fe = "P1"
  <2>1. L = VertexNodes(a, 0, app)
    BY <1>1, ScalarIs
  <2> HIDE DEF L
  <2>2. Block(L, N, 0, Nv, -1, Nv - 1) /\ PlacesOnce(L, N, MyVs, Nv, 0)
    BY <2>1, P1Block
  <2>3. VelocityPlaces(L, N, "P1")
    BY <2>2 DEF VelocityPlaces
  <2> QED BY <1>1, <2>2, <2>3 DEF L
<1>2. CASE fe = "P1DG"
  <2>1. L = DGNodes(a, app)
    BY <1>2, ScalarIs
  <2> HIDE DEF L
  <2>2. Block(L, N, 0, Room(3, Nel), N - 1, N - 1 + Room(3, Nel))
    BY <1>2, <2>1, DGAgree
  <2> QED BY <1>2, <2>2 DEF L
<1>3. CASE fe \in {"P1bubble", "P1bubblecondensed"}
  <2>1. Block(L, N, 0, Nv + Nel, -1, Nv + Nel - 1) /\ VelocityPlaces(L, N, "P1bubble")
    BY <1>3, BubbleBlock
  <2> HIDE DEF L
  <2>2. VelocityPlaces(L, N, fe)
    <3>1. CASE fe = "P1bubble"
      BY <2>1, <3>1
    <3>2. CASE fe = "P1bubblecondensed"
      BY <2>1, <3>2 DEF VelocityPlaces
    <3> QED BY <1>3, <3>1, <3>2
  <2> QED BY <2>1, <2>2 DEF L
<1>4. ASSUME NEW k \in Nat, NEW x \in 0..k, NEW y \in 0..k,
             L = Joined(VertexNodes(a, 0, app), CountedEdgeNodes(a, k, EdgeCopies(x, y), app))
      PROVE  /\ \E h, s, t : Block(L, N, 0, h, s, t)
             /\ PlacesOnce(L, N, MyVs, Nv, 0) /\ PlacesMany(L, N, MyEs, Ne, Nv, k, EdgeCopies(x, y))
  <2> DEFINE copies == EdgeCopies(x, y)
  <2>1. IsLoop(Ne, k, copies)
    BY EdgeCopiesAre DEF World
  <2> HIDE DEF copies, L
  <2>2. L = Joined(VertexNodes(a, 0, app), CountedEdgeNodes(a, k, copies, app))
    BY <1>4 DEF copies
  <2>3. /\ Block(L, N, 0, Nv + Room(k, Ne), -1, Nv + Total(copies, Ne))
        /\ PlacesOnce(L, N, MyVs, Nv, 0) /\ PlacesMany(L, N, MyEs, Ne, Nv, k, copies)
    BY <2>1, <2>2, SomeEdgesBlock
  <2> QED BY <2>3 DEF copies
<1>5. CASE fe = "P1xP2"
  <2>1. L = Joined(VertexNodes(a, 0, app), CountedEdgeNodes(a, 1, EdgeCopies(1, 0), app))
    BY <1>5, ScalarIs
  <2> HIDE DEF L
  <2>2. /\ \E h, s, t : Block(L, N, 0, h, s, t)
        /\ PlacesOnce(L, N, MyVs, Nv, 0) /\ PlacesMany(L, N, MyEs, Ne, Nv, 1, EdgeCopies(1, 0))
    BY <1>4, <2>1
  <2>3. VelocityPlaces(L, N, "P1xP2")
    BY <2>2 DEF VelocityPlaces
  <2> QED BY <1>5, <2>2, <2>3 DEF L
<1>6. CASE fe = "P1xP3"
  <2>1. L = Joined(VertexNodes(a, 0, app), CountedEdgeNodes(a, 2, EdgeCopies(2, 0), app))
    BY <1>6, ScalarIs
  <2> HIDE DEF L
  <2>2. /\ \E h, s, t : Block(L, N, 0, h, s, t)
        /\ PlacesOnce(L, N, MyVs, Nv, 0) /\ PlacesMany(L, N, MyEs, Ne, Nv, 2, EdgeCopies(2, 0))
    BY <1>4, <2>1
  <2>3. VelocityPlaces(L, N, "P1xP3")
    BY <2>2 DEF VelocityPlaces
  <2> QED BY <1>6, <2>2, <2>3 DEF L
<1>7. CASE fe = "P2xP1"
  <2>1. L = Joined(VertexNodes(a, 0, app), CountedEdgeNodes(a, 1, EdgeCopies(0, 1), app))
    BY <1>7, ScalarIs
  <2> HIDE DEF L
  <2>2. /\ \E h, s, t : Block(L, N, 0, h, s, t)
        /\ PlacesOnce(L, N, MyVs, Nv, 0) /\ PlacesMany(L, N, MyEs, Ne, Nv, 1, EdgeCopies(0, 1))
    BY <1>4, <2>1
  <2>3. VelocityPlaces(L, N, "P2xP1")
    BY <2>2 DEF VelocityPlaces
  <2> QED BY <1>7, <2>2, <2>3 DEF L
<1>8. CASE fe = "P2"
  <2>1. L = P2Nodes(a, app)
    BY <1>8, ScalarIs
  <2> HIDE DEF L
  <2>2. /\ Block(L, N, 0, AfterP2, -1, AfterP2 - 1)
        /\ PlacesOnce(L, N, MyVs, Nv, 0) /\ PlacesOnce(L, N, MyEs, Ne, Nv)
        /\ Kind = "penta" => PlacesOnce(L, N, MyQuads, Nf, Nv + Ne)
    BY <2>1, P2Block
  <2>3. VelocityPlaces(L, N, "P2")
    BY <2>2 DEF VelocityPlaces
  <2> QED BY <1>8, <2>2, <2>3 DEF L
<1>9. CASE fe = "P2bubble"
  <2>1. Block(L, N, 0, AfterP2 + Nel, -1, AfterP2 + Nel - 1) /\ VelocityPlaces(L, N, "P2bubble")
    BY <1>9, P2bubbleBlock
  <2> HIDE DEF L
  <2> QED BY <1>9, <2>1 DEF L
<1>10. CASE fe = "P2xP4"
  <2> DEFINE h == Nv + 3 * Ne + Room(3, Nf)
  <2> DEFINE t == Nv + Total(EdgeCopies(3, 1), Ne) + Total(QuadCopies, Nf)
  <2>1. Block(L, N, 0, h, -1, t) /\ VelocityPlaces(L, N, "P2xP4")
    BY <1>10, P2xP4Block DEF OfPrisms
  <2> HIDE DEF L, h, t
  <2> QED BY <1>10, <2>1 DEF L
<1> QED BY <1>1, <1>2, <1>3, <1>5, <1>6, <1>7, <1>8, <1>9, <1>10 DEF ScalarElements

-----------------------------------------------------------------------------
(***************************************************************************)
(* The full Stokes elements: the velocity, and the pressure after it.      *)
(***************************************************************************)
StokesOf(a, fe) == [r \in Ranks |-> StokesNodes(r, a, fe)]

LayerCounter == Nv + Total(EdgeCopies(3, 1), Ne) + Total(QuadCopies, Nf)

LEMMA StokesIs ==
  ASSUME NEW a
  PROVE  LET Velocity(v) == ScalarOf(a, v, "FSvelocity")
             Pressure(off) == VertexNodes(a, off, "FSpressure")
         IN  /\ \A fe \in {"P1P1", "P1P1GLS"} : StokesOf(a, fe) = Joined(Velocity("P1"), Pressure(Nv))
             /\ StokesOf(a, "MINI") = Joined(Velocity("P1bubble"), Pressure(Nv + Nel))
             /\ StokesOf(a, "MINIcondensed") = Joined(Velocity("P1bubblecondensed"), Pressure(Nv + Nel))
             /\ \A fe \in {"TaylorHood", "XTaylorHood"} :
                  StokesOf(a, fe) = Joined(Velocity("P2"), Pressure(AfterP2))
             /\ StokesOf(a, "LATaylorHood") = Velocity("P2")
             /\ StokesOf(a, "OneLayerP4z") =
                  Joined(Velocity("P2xP4"), LayerNodes(a, Nv + 3 * Ne + 3 * Nf, LayerCounter))
             /\ StokesOf(a, "CrouzeixRaviart") = Joined(Velocity("P2bubble"), CornerNodes(a, AfterP2 + Nel))
             /\ StokesOf(a, "LACrouzeixRaviart") = Velocity("P2bubble")
<1> USE DEF StokesOf, Joined, VertexNodes, ScalarOf
<1> DEFINE Velocity(v) == ScalarOf(a, v, "FSvelocity")
<1> DEFINE Pressure(off) == VertexNodes(a, off, "FSpressure")
<1>1. ASSUME NEW r, NEW fe \in {"P1P1", "P1P1GLS"}
      PROVE  StokesNodes(r, a, fe) = AtVertices(r, a, 0, "FSvelocity") \o AtVertices(r, a, Nv, "FSpressure")
  <2>1. PressureOffset(fe) = Nv
    BY DEF PressureOffset, Nv
  <2> QED BY <2>1 DEF StokesNodes
<1>2. ASSUME NEW r
      PROVE  StokesNodes(r, a, "MINI") =
               AtVertices(r, a, 0, "FSvelocity") \o AtElements(r, a, Nv, "FSvelocity")
                 \o AtVertices(r, a, Nv + Nel, "FSpressure")
  <2>1. PressureOffset("MINI") = Nv + Nel
    BY DEF PressureOffset, Nv, Nel
  <2> QED BY <2>1 DEF StokesNodes, Nv
<1>3. ASSUME NEW r
      PROVE  StokesNodes(r, a, "MINIcondensed") =
               AtVertices(r, a, 0, "FSvelocity") \o HardDeactivate(AtElements(r, a, Nv, "FSvelocity"))
                 \o AtVertices(r, a, Nv + Nel, "FSpressure")
  <2>1. PressureOffset("MINIcondensed") = Nv + Nel
    BY DEF PressureOffset, Nv, Nel
  <2> QED BY <2>1 DEF StokesNodes, Nv
<1>4. ASSUME NEW r, NEW fe \in {"TaylorHood", "XTaylorHood"}
      PROVE  StokesNodes(r, a, fe) = AtP2(r, a, "FSvelocity") \o AtVertices(r, a, AfterP2, "FSpressure")
  <2>1. PressureOffset(fe) = AfterP2
    BY DEF PressureOffset
  <2> QED BY <2>1 DEF StokesNodes
<1>5. ASSUME NEW r
      PROVE  StokesNodes(r, a, "OneLayerP4z") =
               AtP2xP4(r, a, "FSvelocity") \o
               FlattenSeq([i \in 1..Nv |->
                 IF i \in MyVertexSet(r)
                   THEN [c \in 1..1 |-> Node(r, a, Nv + 3 * Ne + 3 * Nf + i, LayerCounter + i, i, "FSpressure")]
                   ELSE << >>])
  <2>1. PressureOffset("OneLayerP4z") = Nv + 3 * Ne + 3 * Nf
    BY DEF PressureOffset, Nv, Ne, Nf
  <2> QED BY <2>1 DEF StokesNodes, NodesOn, Once, Nv, Ne, Nf, LayerCounter
<1>6. ASSUME NEW r \in Ranks
      PROVE  StokesNodes(r, a, "CrouzeixRaviart") =
               AtP2bubble(r, a, "FSvelocity") \o CornerNodes(a, AfterP2 + Nel)[r]
  <2>1. PressureOffset("CrouzeixRaviart") = AfterP2 + Nel
    BY DEF PressureOffset, Nel
  <2>2. StokesNodes(r, a, "CrouzeixRaviart") =
          AtP2bubble(r, a, "FSvelocity") \o CornerNodes(a, PressureOffset("CrouzeixRaviart"))[r]
    BY DEF StokesNodes, CornerNodes, NodesOn
  <2> QED BY <2>1, <2>2
<1>7. ASSUME NEW r
      PROVE  /\ ScalarNodes(r, a, "P1", "FSvelocity") = AtVertices(r, a, 0, "FSvelocity")
             /\ ScalarNodes(r, a, "P1bubble", "FSvelocity") =
                  AtVertices(r, a, 0, "FSvelocity") \o AtElements(r, a, Nv, "FSvelocity")
             /\ ScalarNodes(r, a, "P1bubblecondensed", "FSvelocity") =
                  AtVertices(r, a, 0, "FSvelocity") \o HardDeactivate(AtElements(r, a, Nv, "FSvelocity"))
             /\ ScalarNodes(r, a, "P2", "FSvelocity") = AtP2(r, a, "FSvelocity")
             /\ ScalarNodes(r, a, "P2bubble", "FSvelocity") = AtP2bubble(r, a, "FSvelocity")
             /\ ScalarNodes(r, a, "P2xP4", "FSvelocity") = AtP2xP4(r, a, "FSvelocity")
  <2>1. ScalarNodes(r, a, "P1", "FSvelocity") = AtVertices(r, a, 0, "FSvelocity")
    BY DEF ScalarNodes
  <2>2. ScalarNodes(r, a, "P1bubble", "FSvelocity") =
                  AtVertices(r, a, 0, "FSvelocity") \o AtElements(r, a, Nv, "FSvelocity")
    BY DEF ScalarNodes, Nv
  <2>3. ScalarNodes(r, a, "P1bubblecondensed", "FSvelocity") =
                  AtVertices(r, a, 0, "FSvelocity") \o HardDeactivate(AtElements(r, a, Nv, "FSvelocity"))
    BY DEF ScalarNodes, Nv
  <2>4. ScalarNodes(r, a, "P2", "FSvelocity") = AtP2(r, a, "FSvelocity")
    BY DEF ScalarNodes
  <2>5. ScalarNodes(r, a, "P2bubble", "FSvelocity") = AtP2bubble(r, a, "FSvelocity")
    BY DEF ScalarNodes
  <2>6. ScalarNodes(r, a, "P2xP4", "FSvelocity") = AtP2xP4(r, a, "FSvelocity")
    BY DEF ScalarNodes
  <2> QED BY <2>1, <2>2, <2>3, <2>4, <2>5, <2>6
<1>8. ASSUME NEW r
      PROVE  StokesNodes(r, a, "LATaylorHood") = AtP2(r, a, "FSvelocity")
  BY DEF StokesNodes
<1>9. ASSUME NEW r
      PROVE  StokesNodes(r, a, "LACrouzeixRaviart") = AtP2bubble(r, a, "FSvelocity")
  BY DEF StokesNodes
<1>11. \A fe \in {"P1P1", "P1P1GLS"} : StokesOf(a, fe) = Joined(Velocity("P1"), Pressure(Nv))
  BY <1>1, <1>7
<1>12. StokesOf(a, "MINI") = Joined(Velocity("P1bubble"), Pressure(Nv + Nel))
  BY <1>2, <1>7
<1>13. StokesOf(a, "MINIcondensed") = Joined(Velocity("P1bubblecondensed"), Pressure(Nv + Nel))
  BY <1>3, <1>7
<1>14. \A fe \in {"TaylorHood", "XTaylorHood"} : StokesOf(a, fe) = Joined(Velocity("P2"), Pressure(AfterP2))
  BY <1>4, <1>7
<1>15. StokesOf(a, "LATaylorHood") = Velocity("P2")
  BY <1>7, <1>8
<1>16. StokesOf(a, "OneLayerP4z") =
         Joined(Velocity("P2xP4"), LayerNodes(a, Nv + 3 * Ne + 3 * Nf, LayerCounter))
  BY <1>5, <1>7 DEF LayerNodes, NodesOn, Once, Nv
<1>17. StokesOf(a, "CrouzeixRaviart") = Joined(Velocity("P2bubble"), CornerNodes(a, AfterP2 + Nel))
  BY <1>6, <1>7
<1>18. StokesOf(a, "LACrouzeixRaviart") = Velocity("P2bubble")
  BY <1>7, <1>9
<1> QED BY <1>11, <1>12, <1>13, <1>14, <1>15, <1>16, <1>17, <1>18

\* Up to where the velocity goes.
Ends(fe, h) ==
  /\ h \in Int /\ Nv <= h /\ fe \in {"P1", "P1bubble", "P2", "P2bubble", "P2xP4"}
  /\ fe = "P1bubble" => Nv + Nel <= h
  /\ fe \in {"P2", "P2bubble"} => AfterP2 <= h
  /\ fe = "P2bubble" => AfterP2 + Nel <= h
  /\ fe = "P2xP4" => Kind = "penta" /\ Nv + 3 * Ne + Room(3, Nf) <= h

LEMMA VelocityLifted ==
  ASSUME Partitioned, NEW L1, NEW L, NEW N \in Nat, NEW fe, NEW h, VelocityPlaces(L1, N, fe),
         Within(L1, L, N, 0, h), Ends(fe, h)
  PROVE  VelocityPlaces(L, N, fe)
<1>1. /\ Nv \in Nat /\ Nel \in Nat /\ Ne \in Nat /\ h \in Int /\ Nv <= h
      /\ fe \in {"P1", "P1bubble", "P2", "P2bubble", "P2xP4"} /\ 0 \in Int
  BY IoFacts DEF Ends
<1>2. PlacesOnce(L, N, MyVs, Nv, 0)
  <2>1. PlacesOnce(L1, N, MyVs, Nv, 0) /\ 0 + Nv <= h /\ 0 <= 0
    BY <1>1 DEF VelocityPlaces
  <2> QED BY <1>1, <2>1, OnceLifted
<1>3. ASSUME fe = "P1bubble" PROVE PlacesOnce(L, N, my_elements, Nel, Nv)
  <2>1. PlacesOnce(L1, N, my_elements, Nel, Nv) /\ Nv + Nel <= h /\ 0 <= Nv
    BY <1>1, <1>3 DEF VelocityPlaces, Ends
  <2> QED BY <1>1, <2>1, OnceLifted
<1>4. ASSUME fe \in {"P2", "P2bubble"} PROVE Nv + Ne <= h /\ (Kind = "penta" => Nv + Ne + Nf <= h /\ Nf \in Nat)
  <2> DEFINE ve == Nv + Ne
  <2> DEFINE all == AfterP2
  <2>1. all <= h /\ ve \in Nat
    BY <1>1, <1>4 DEF Ends
  <2>2. CASE Kind = "penta"
    <3>1. all = ve + Nf /\ Nf \in Nat
      BY <2>2, IoFacts DEF AfterP2, Nv, Ne, Nf, Kind
    <3> HIDE DEF all, ve
    <3>2. ve <= h /\ ve + Nf <= h
      BY <1>1, <2>1, <3>1
    <3> QED BY <3>1, <3>2 DEF ve
  <2>3. CASE Kind # "penta"
    <3>1. all = ve + 0
      BY <2>3 DEF AfterP2, Nv, Ne, Nf, Kind
    <3> HIDE DEF all, ve
    <3>2. ve <= h
      BY <1>1, <2>1, <3>1
    <3> QED BY <2>3, <3>2 DEF ve
  <2> QED BY <2>2, <2>3
<1>5. ASSUME fe \in {"P2", "P2bubble"} PROVE PlacesOnce(L, N, MyEs, Ne, Nv)
  <2>1. PlacesOnce(L1, N, MyEs, Ne, Nv) /\ Nv + Ne <= h /\ 0 <= Nv
    BY <1>1, <1>4, <1>5 DEF VelocityPlaces
  <2> QED BY <1>1, <2>1, OnceLifted
<1>6. ASSUME fe \in {"P2", "P2bubble"}, Kind = "penta" PROVE PlacesOnce(L, N, MyQuads, Nf, Nv + Ne)
  <2> DEFINE ve == Nv + Ne
  <2>1. PlacesOnce(L1, N, MyQuads, Nf, ve) /\ ve + Nf <= h /\ 0 <= ve /\ ve \in Int /\ Nf \in Nat
    BY <1>1, <1>4, <1>6 DEF VelocityPlaces
  <2> HIDE DEF ve
  <2>2. PlacesOnce(L, N, MyQuads, Nf, ve)
    BY <1>1, <2>1, OnceLifted
  <2> QED BY <2>2 DEF ve
<1>7. ASSUME fe = "P2bubble" PROVE PlacesOnce(L, N, my_elements, Nel, AfterP2)
  <2> DEFINE all == AfterP2
  <2>1. all \in Nat
    BY IoFacts DEF AfterP2, Nv, Ne, Nf, Kind
  <2>2. PlacesOnce(L1, N, my_elements, Nel, all) /\ all + Nel <= h
    BY <1>7 DEF VelocityPlaces, Ends
  <2> HIDE DEF all
  <2>3. 0 <= all /\ all \in Int
    BY <2>1
  <2>4. PlacesOnce(L, N, my_elements, Nel, all)
    BY <1>1, <2>2, <2>3, OnceLifted
  <2> QED BY <2>4 DEF all
<1>8. ASSUME fe = "P2xP4"
      PROVE  /\ PlacesMany(L, N, MyEs, Ne, Nv, 3, EdgeCopies(3, 1))
             /\ PlacesMany(L, N, MyFs, Nf, Nv + 3 * Ne, 3, QuadCopies)
  <2> DEFINE ve == Nv + 3 * Ne
  <2> DEFINE copies == EdgeCopies(3, 1)
  <2>1. /\ PlacesMany(L1, N, MyEs, Ne, Nv, 3, copies) /\ PlacesMany(L1, N, MyFs, Nf, ve, 3, QuadCopies)
        /\ ve + Room(3, Nf) <= h /\ Kind = "penta"
    BY <1>8 DEF VelocityPlaces, Ends
  <2>2. Nf \in Nat /\ ve \in Nat /\ 3 \in Nat /\ 0 <= ve /\ 0 <= Nv
    BY <1>1, <2>1, IoFacts
  <2>3. Nv + Room(3, Ne) <= h
    <3>1. ve = Nv + Room(3, Ne)
      BY DEF Room
    <3> DEFINE room == Room(3, Nf)
    <3>2. room \in Nat /\ ve + room <= h
      BY <2>1, <2>2 DEF Room
    <3> HIDE DEF room, ve
    <3>3. ve <= h
      BY <1>1, <2>2, <3>2
    <3> QED BY <3>1, <3>3
  <2> HIDE DEF ve, copies
  <2>4. PlacesMany(L, N, MyFs, Nf, ve, 3, QuadCopies)
    BY <1>1, <2>1, <2>2, ManyLifted
  <2>5. PlacesMany(L, N, MyEs, Ne, Nv, 3, copies)
    BY <1>1, <2>1, <2>2, <2>3, ManyLifted
  <2> QED BY <2>4, <2>5 DEF ve, copies
<1> QED BY <1>1, <1>2, <1>3, <1>5, <1>6, <1>7, <1>8 DEF VelocityPlaces

\* Where the pressure of a vertex is one node, at the place its constraint is for.
PressurePlaces(L, N, fe) ==
  /\ fe \in {"MINI", "MINIcondensed"} => PlacesOnce(L, N, MyVs, Nv, Nv + Nel)
  /\ fe \in {"TaylorHood", "XTaylorHood"} => PlacesOnce(L, N, MyVs, Nv, AfterP2)

\* Velocity, pressure.
LEMMA VertexPressure ==
  ASSUME NEW N, NEW a, World(N, a, "FSvelocity"), NEW L1, NEW fe, NEW off, off \in Nat,
         Block(L1, N, 0, off, -1, off - 1), VelocityPlaces(L1, N, fe), Ends(fe, off)
  PROVE  LET L == Joined(L1, VertexNodes(a, off, "FSpressure"))
         IN  /\ \E h, s, t : Block(L, N, 0, h, s, t)
             /\ VelocityPlaces(L, N, fe) /\ PlacesOnce(L, N, MyVs, Nv, off)
<1> DEFINE B == VertexNodes(a, off, "FSpressure")
<1> DEFINE L == Joined(L1, B)
<1>1. World(N, a, "FSpressure") /\ N \in Nat
  BY DEF World, Approximations, CounterIs
<1>2. OnceBlock(B, MyVs, Nv, N, off, off - 1, off + Nv - 1)
  BY <1>1, VertexBlock
<1>3. off <= off /\ off - 1 <= off - 1
  OBVIOUS
<1> HIDE DEF B
<1>4. /\ Block(L, N, 0, off + Nv, -1, off + Nv - 1) /\ Within(L1, L, N, 0, off)
      /\ PlacesOnce(L, N, MyVs, Nv, off)
  BY <1>2, <1>3, OnceAfter
<1> HIDE DEF L
<1>5. VelocityPlaces(L, N, fe)
  BY <1>1, <1>4, VelocityLifted DEF World
<1> QED BY <1>4, <1>5 DEF L, B

StokesGoal(L, N, fe) ==
  /\ \E h, s, t : Block(L, N, 0, h, s, t)
  /\ VelocityPlaces(L, N, VelocityInterpolation(fe)) /\ PressurePlaces(L, N, fe)

LEMMA StokesMade ==
  ASSUME NEW N, NEW a, World(N, a, "FSvelocity"), NEW fe \in StokesElements,
         fe \in OfPrisms => Kind = "penta"
  PROVE  StokesGoal(StokesOf(a, fe), N, fe)
<1> DEFINE L == StokesOf(a, fe)
<1> DEFINE Velocity(v) == ScalarOf(a, v, "FSvelocity")
<1>1. /\ Nv \in Nat /\ Nel \in Nat /\ Ne \in Nat /\ N \in Nat
      /\ Nv <= Nv /\ Nv <= Nv + Nel /\ Nv + Nel \in Nat /\ Nv + Nel <= Nv + Nel
  BY IoFacts DEF World, CounterIs
<1>2. CASE fe \in {"P1P1", "P1P1GLS"}
  <2> DEFINE P1 == VertexNodes(a, 0, "FSvelocity")
  <2>1. L = Joined(P1, VertexNodes(a, Nv, "FSpressure"))
    BY <1>2, StokesIs, ScalarIs
  <2>2. Block(P1, N, 0, Nv, -1, Nv - 1) /\ PlacesOnce(P1, N, MyVs, Nv, 0)
    BY P1Block
  <2>3. Ends("P1", Nv) /\ VelocityPlaces(P1, N, "P1")
    BY <1>1, <2>2 DEF Ends, VelocityPlaces
  <2> HIDE DEF L, P1
  <2>4. (\E h, s, t : Block(L, N, 0, h, s, t)) /\ VelocityPlaces(L, N, "P1")
    BY <1>1, <2>1, <2>2, <2>3, VertexPressure
  <2>5. VelocityInterpolation(fe) = "P1"
    BY <1>2 DEF VelocityInterpolation
  <2>6. PressurePlaces(L, N, fe)
    BY <1>2 DEF PressurePlaces
  <2>7. StokesGoal(L, N, fe)
    BY <2>4, <2>5, <2>6 DEF StokesGoal
  <2> QED BY <2>7 DEF L
<1>3. CASE fe \in {"MINI", "MINIcondensed"}
  <2> DEFINE v == IF fe = "MINI" THEN "P1bubble" ELSE "P1bubblecondensed"
  <2> DEFINE L1 == Velocity(v)
  <2> DEFINE off == Nv + Nel
  <2>1. L = Joined(L1, VertexNodes(a, off, "FSpressure"))
    <3>1. CASE fe = "MINI"
      BY <3>1, StokesIs
    <3>2. CASE fe = "MINIcondensed"
      BY <3>2, StokesIs
    <3> QED BY <1>3, <3>1, <3>2
  <2>2. Block(L1, N, 0, off, -1, Nv + Nel - 1) /\ VelocityPlaces(L1, N, "P1bubble")
    <3>1. v \in {"P1bubble", "P1bubblecondensed"}
      OBVIOUS
    <3> HIDE DEF v
    <3> QED BY <3>1, BubbleBlock
  <2>3. Ends("P1bubble", off) /\ off \in Nat /\ Nv + Nel - 1 = off - 1
    BY <1>1 DEF Ends
  <2> HIDE DEF L, L1, off
  <2>4. (\E h, s, t : Block(L, N, 0, h, s, t)) /\ VelocityPlaces(L, N, "P1bubble") /\ PlacesOnce(L, N, MyVs, Nv, off)
    BY <1>1, <2>1, <2>2, <2>3, VertexPressure
  <2>5. VelocityInterpolation(fe) = "P1bubble"
    BY <1>3 DEF VelocityInterpolation
  <2>6. PressurePlaces(L, N, fe)
    BY <1>3, <2>4 DEF PressurePlaces, off
  <2>7. StokesGoal(L, N, fe)
    BY <2>4, <2>5, <2>6 DEF StokesGoal
  <2> QED BY <2>7 DEF L
<1>4. /\ Block(Velocity("P2"), N, 0, AfterP2, -1, AfterP2 - 1) /\ AfterP2 \in Nat /\ Nv + Ne <= AfterP2
      /\ VelocityPlaces(Velocity("P2"), N, "P2")
  <2>1. Velocity("P2") = P2Nodes(a, "FSvelocity")
    BY ScalarIs
  <2> DEFINE P2 == P2Nodes(a, "FSvelocity")
  <2>2. /\ Block(P2, N, 0, AfterP2, -1, AfterP2 - 1) /\ AfterP2 \in Nat /\ Nv + Ne <= AfterP2
        /\ PlacesOnce(P2, N, MyVs, Nv, 0) /\ PlacesOnce(P2, N, MyEs, Ne, Nv)
        /\ Kind = "penta" => PlacesOnce(P2, N, MyQuads, Nf, Nv + Ne)
    BY P2Block
  <2> HIDE DEF P2
  <2>3. VelocityPlaces(P2, N, "P2")
    BY <2>2 DEF VelocityPlaces
  <2> QED BY <2>1, <2>2, <2>3 DEF P2
<1>5. CASE fe \in {"TaylorHood", "XTaylorHood"}
  <2> DEFINE L1 == Velocity("P2")
  <2> DEFINE off == AfterP2
  <2>1. L = Joined(L1, VertexNodes(a, off, "FSpressure"))
    BY <1>5, StokesIs
  <2>2. Block(L1, N, 0, off, -1, off - 1) /\ off \in Nat /\ VelocityPlaces(L1, N, "P2")
    BY <1>4
  <2>3. Nv + Ne <= off
    BY <1>4
  <2> HIDE DEF L, L1, off
  <2>4. Ends("P2", off)
    <3>1. Nv <= off /\ off <= off /\ off \in Int
      BY <1>1, <2>2, <2>3
    <3> QED BY <3>1 DEF Ends, off
  <2>5. (\E h, s, t : Block(L, N, 0, h, s, t)) /\ VelocityPlaces(L, N, "P2") /\ PlacesOnce(L, N, MyVs, Nv, off)
    BY <2>1, <2>2, <2>4, VertexPressure
  <2>6. VelocityInterpolation(fe) = "P2"
    BY <1>5 DEF VelocityInterpolation
  <2>7. PressurePlaces(L, N, fe)
    BY <1>5, <2>5 DEF PressurePlaces, off
  <2>8. StokesGoal(L, N, fe)
    BY <2>5, <2>6, <2>7 DEF StokesGoal
  <2> QED BY <2>8 DEF L
<1>6. CASE fe = "LATaylorHood"
  <2>1. L = Velocity("P2")
    BY <1>6, StokesIs
  <2> DEFINE L1 == Velocity("P2")
  <2> HIDE DEF L, L1
  <2>2. L = L1 /\ Block(L1, N, 0, AfterP2, -1, AfterP2 - 1) /\ VelocityPlaces(L1, N, "P2")
    BY <1>4, <2>1 DEF L1
  <2>3. VelocityInterpolation(fe) = "P2" /\ PressurePlaces(L, N, fe)
    BY <1>6 DEF VelocityInterpolation, PressurePlaces
  <2>4. StokesGoal(L, N, fe)
    BY <2>2, <2>3 DEF StokesGoal
  <2> QED BY <2>4 DEF L
<1>7. /\ Block(Velocity("P2bubble"), N, 0, AfterP2 + Nel, -1, AfterP2 + Nel - 1) /\ AfterP2 \in Nat
      /\ VelocityPlaces(Velocity("P2bubble"), N, "P2bubble")
  BY P2bubbleBlock
<1>8. CASE fe = "CrouzeixRaviart"
  <2> DEFINE L1 == Velocity("P2bubble")
  <2> DEFINE off == AfterP2 + Nel
  <2> DEFINE k == CornersOf(Kind)
  <2> DEFINE B == CornerNodes(a, off)
  <2>1. L = Joined(L1, B)
    BY <1>8, StokesIs
  <2>2. off \in Nat /\ AfterP2 + Nel - 1 = off - 1 /\ off <= off /\ off - 1 <= off - 1 /\ Nv + Ne <= off /\ AfterP2 <= off
    <3> DEFINE all == AfterP2
    <3>1. all \in Nat /\ Nv + Ne <= all /\ Nel \in Nat /\ off = all + Nel /\ Nv \in Nat /\ Ne \in Nat
      BY <1>1, <1>4
    <3> HIDE DEF all, off
    <3>2. off \in Nat /\ off <= off /\ off - 1 <= off - 1 /\ all <= off /\ Nv + Ne <= off
      BY <3>1
    <3>3. all + Nel - 1 = off - 1
      BY <3>1
    <3> QED BY <3>2, <3>3 DEF all
  <2>3. Block(L1, N, 0, off, -1, off - 1) /\ VelocityPlaces(L1, N, "P2bubble")
    BY <1>7, <2>2
  <2>4. World(N, a, "FSpressure")
    BY DEF World, Approximations
  <2>5. Ends("P2bubble", off)
    <3>1. Nv <= off /\ off \in Int /\ off <= off
      <4> HIDE DEF off
      <4> QED BY <1>1, <2>2
    <3> QED BY <2>2, <3>1 DEF Ends
  <2> HIDE DEF L, L1, off
  <2>6. CopiesBlock(B, my_elements, Nel, N, off, k, Full(Nel, k), off - 1, off - 1 + Room(k, Nel))
    BY <2>2, <2>4, CornerBlock
  <2> DEFINE t == off - 1 + Room(k, Nel)
  <2> DEFINE copies == Full(Nel, k)
  <2> HIDE DEF B, k, t, copies
  <2>7. /\ Block(Joined(L1, B), N, 0, off + Room(k, Nel), -1, t) /\ Within(L1, Joined(L1, B), N, 0, off)
    <3>1. CopiesBlock(B, my_elements, Nel, N, off, k, copies, off - 1, t)
      BY <2>6 DEF t, copies, k
    <3> QED BY <2>2, <2>3, <3>1, CopiesAfter
  <2>8. VelocityPlaces(L, N, "P2bubble")
    BY <1>1, <2>1, <2>3, <2>5, <2>7, VelocityLifted DEF World
  <2>9. VelocityInterpolation(fe) = "P2bubble" /\ PressurePlaces(L, N, fe)
    BY <1>8 DEF VelocityInterpolation, PressurePlaces
  <2>10. StokesGoal(L, N, fe)
    BY <2>1, <2>7, <2>8, <2>9 DEF StokesGoal
  <2> QED BY <2>10 DEF L
<1>9. CASE fe = "LACrouzeixRaviart"
  <2>1. L = Velocity("P2bubble")
    BY <1>9, StokesIs
  <2> DEFINE L1 == Velocity("P2bubble")
  <2> HIDE DEF L, L1
  <2>2. L = L1 /\ Block(L1, N, 0, AfterP2 + Nel, -1, AfterP2 + Nel - 1) /\ VelocityPlaces(L1, N, "P2bubble")
    BY <1>7, <2>1 DEF L1
  <2>3. VelocityInterpolation(fe) = "P2bubble" /\ PressurePlaces(L, N, fe)
    BY <1>9 DEF VelocityInterpolation, PressurePlaces
  <2>4. StokesGoal(L, N, fe)
    BY <2>2, <2>3 DEF StokesGoal
  <2> QED BY <2>4 DEF L
<1>10. CASE fe = "OneLayerP4z"
  <2> DEFINE L1 == Velocity("P2xP4")
  <2> DEFINE off == Nv + 3 * Ne + 3 * Nf
  <2> DEFINE B == LayerNodes(a, off, LayerCounter)
  <2> DEFINE counter == LayerCounter
  <2>1. L = Joined(L1, B) /\ Kind = "penta"
    BY <1>10, StokesIs DEF OfPrisms
  <2>2. Nf \in Nat /\ off \in Nat /\ off <= off /\ Room(3, Nf) = 3 * Nf /\ Nv + 3 * Ne + Room(3, Nf) = off
    BY <1>1, <2>1, IoFacts DEF World, Room
  <2>3. counter \in Int /\ counter <= counter
    <3>1. IsLoop(Ne, 3, EdgeCopies(3, 1)) /\ IsLoop(Nf, 3, QuadCopies)
      BY <2>1, EdgeCopiesAre, QuadCopiesAre DEF World
    <3>2. Total(EdgeCopies(3, 1), Ne) \in Nat /\ Total(QuadCopies, Nf) \in Nat
      BY <3>1, TotalFacts
    <3> QED BY <1>1, <3>2 DEF LayerCounter
  <2>4. Block(L1, N, 0, off, -1, counter) /\ VelocityPlaces(L1, N, "P2xP4")
    BY <2>1, <2>2, P2xP4Block DEF LayerCounter
  <2>5. World(N, a, "FSpressure")
    BY DEF World, Approximations
  <2>6. Ends("P2xP4", off)
    BY <1>1, <2>1, <2>2 DEF Ends
  <2> HIDE DEF off, counter
  <2>7. OnceBlock(B, MyVs, Nv, N, off, counter, counter + Nv)
    BY <2>2, <2>3, <2>5, LayerBlock DEF counter
  <2> HIDE DEF L, L1, B
  <2>8. /\ Block(Joined(L1, B), N, 0, off + Nv, -1, counter + Nv) /\ Within(L1, Joined(L1, B), N, 0, off)
    BY <2>2, <2>3, <2>4, <2>7, OnceAfter
  <2>9. VelocityPlaces(L, N, "P2xP4")
    BY <1>1, <2>1, <2>4, <2>6, <2>8, VelocityLifted DEF World
  <2>10. VelocityInterpolation(fe) = "P2xP4" /\ PressurePlaces(L, N, fe)
    BY <1>10 DEF VelocityInterpolation, PressurePlaces
  <2>11. StokesGoal(L, N, fe)
    BY <2>1, <2>8, <2>9, <2>10 DEF StokesGoal
  <2> QED BY <2>11 DEF L
<1> QED BY <1>2, <1>3, <1>5, <1>6, <1>8, <1>9, <1>10 DEF StokesElements

-----------------------------------------------------------------------------
(***************************************************************************)
(* What CreateNodes makes for an analysis.                                 *)
(***************************************************************************)
AnalysisIs(a) ==
  /\ a.model \in {"none", "SIA", "SSA", "L1L2", "HO", "FS"}
  /\ a.fe \in ScalarElements \cup StokesElements
  /\ a.fe \in OfPrisms => Kind = "penta"
  /\ a.name = "Stressbalance" => (a.model = "FS" <=> a.fe \in StokesElements)
  /\ a.stabilization = 3 => Kind = "tria"

LEMMA AnalysisFacts ==
  ASSUME Partitioned, NEW i \in Analyses
  PROVE  AnalysisIs(setting.analyses[i])
<1>1. setting \in Settings /\ iomodel.mesh = setting.mesh
  BY MeshIsKnown DEF Partitioned
<1>2. setting.analyses \in Seq(AnalysisTypes)
  BY <1>1, SettingsAssumption
<1> DEFINE a == setting.analyses[i]
<1>3. a \in AnalysisTypes
  BY <1>2, ElementOfSeq, LenProperties DEF Analyses
<1>4. /\ a.fe \in OfPrisms => Kind = "penta"
      /\ a.name = "Stressbalance" => (a.model = "FS" <=> a.fe \in StokesElements)
      /\ a.stabilization = 3 => Kind = "tria"
  BY <1>1, SettingsAssumption DEF Analyses, Kind
<1> HIDE DEF a
<1>5. a.model \in {"none", "SIA", "SSA", "L1L2", "HO", "FS"} /\ a.fe \in ScalarElements \cup StokesElements
  BY <1>3 DEF AnalysisTypes
<1>6. AnalysisIs(a)
  BY <1>4, <1>5 DEF AnalysisIs
<1> QED BY <1>6 DEF a

AllNodes(a) == [r \in Ranks |-> CreateNodes(r, a)]

AnalysisWorld(N, a) == Partitioned /\ CounterIs(N) /\ a \in AnalysesNow /\ AnalysisIs(a)

IsStokes(a) == a.name = "Stressbalance" /\ a.model = "FS"

LEMMA NodesMade ==
  ASSUME NEW N, NEW a, AnalysisWorld(N, a)
  PROVE  /\ \E h, s, t : Block(AllNodes(a), N, 0, h, s, t)
         /\ IsSolved(a) /\ FiniteElement(a) # "P1DG" =>
              VelocityPlaces(AllNodes(a), N, VelocityInterpolation(FiniteElement(a)))
         /\ IsStokes(a) => PressurePlaces(AllNodes(a), N, FiniteElement(a))
<1> DEFINE L == AllNodes(a)
<1> DEFINE fe == FiniteElement(a)
<1>1. N \in Nat /\ Partitioned /\ AnalysisIs(a)
  BY DEF AnalysisWorld, CounterIs
<1>2. CASE ~ IsSolved(a)
  <2>1. \A r \in Ranks : L[r] = << >>
    BY <1>2 DEF AllNodes, CreateNodes
  <2>2. ~ IsStokes(a)
    BY <1>2 DEF IsSolved, IsStokes
  <2>3. 0 \in Int
    OBVIOUS
  <2> HIDE DEF L
  <2>4. Block(L, N, 0, 0, 0, 0)
    BY <1>1, <2>1, <2>3, EmptyBlock
  <2> QED BY <1>2, <2>2, <2>4 DEF L
<1>3. CASE IsSolved(a) /\ IsStokes(a)
  <2>1. fe = a.fe /\ a.fe \in StokesElements
    BY <1>1, <1>3 DEF FiniteElement, IsStokes, AnalysisIs
  <2>2. L = StokesOf(a, fe)
    BY <1>3 DEF AllNodes, CreateNodes, StokesOf, IsStokes
  <2>3. World(N, a, "FSvelocity")
    BY DEF World, AnalysisWorld, Approximations
  <2>4. fe \in OfPrisms => Kind = "penta"
    BY <1>1, <2>1 DEF AnalysisIs
  <2> HIDE DEF L, fe
  <2>5. StokesGoal(L, N, fe)
    BY <2>1, <2>2, <2>3, <2>4, StokesMade
  <2> QED BY <2>5 DEF StokesGoal, L, fe
<1>4. CASE IsSolved(a) /\ ~ IsStokes(a)
  <2>1. L = ScalarOf(a, fe, a.model)
    BY <1>4 DEF AllNodes, CreateNodes, ScalarOf, IsStokes
  <2>2. World(N, a, a.model)
    BY <1>1 DEF World, AnalysisWorld, Approximations, AnalysisIs
  <2>3. fe \in ScalarElements \cup {"P1DG"} /\ (fe \in OfPrisms => Kind = "penta") /\ (fe = "P1DG" => Kind = "tria")
    <3>1. CASE a.name = "Stressbalance"
      <4>1. fe = IF a.model = "L1L2" THEN "P1" ELSE a.fe
        BY <3>1 DEF FiniteElement
      <4>2. a.fe \in ScalarElements
        BY <1>1, <1>4, <3>1 DEF AnalysisIs, IsStokes
      <4> QED BY <1>1, <4>1, <4>2 DEF AnalysisIs, ScalarElements, OfPrisms
    <3>2. CASE a.name = "Masstransport"
      <4>1. fe = IF a.stabilization = 3 THEN "P1DG" ELSE "P1"
        BY <3>2 DEF FiniteElement
      <4> QED BY <1>1, <4>1 DEF AnalysisIs, ScalarElements, OfPrisms
    <3>3. CASE a.name # "Stressbalance" /\ a.name # "Masstransport"
      <4>1. fe = "P1"
        BY <3>3 DEF FiniteElement
      <4> QED BY <4>1 DEF ScalarElements, OfPrisms
    <3> QED BY <3>1, <3>2, <3>3
  <2> HIDE DEF L, fe
  <2>4. /\ \E h, s, t : Block(L, N, 0, h, s, t)
        /\ fe # "P1DG" => VelocityPlaces(L, N, fe)
    BY <2>1, <2>2, <2>3, ScalarMade
  <2>5. fe # "P1DG" => VelocityInterpolation(fe) = fe
    BY <2>3 DEF VelocityInterpolation, ScalarElements
  <2> QED BY <1>4, <2>4, <2>5 DEF L, fe
<1> QED BY <1>2, <1>3, <1>4

-----------------------------------------------------------------------------
(***************************************************************************)
(* Constraints.  Those of a rank are on nodes it has, and another rank that *)
(* has the node has the constraint.                                        *)
(***************************************************************************)
Fits(F, L) ==
  \A r \in Ranks : \A c \in F[r] : /\ c.node \in Ids(L[r])
                                   /\ \A q \in Ranks : c.node \in Ids(L[q]) => c \in F[q]

Both(F, G) == [r \in Ranks |-> F[r] \cup G[r]]

LEMMA NoneFits ==
  ASSUME NEW F, NEW L, \A r \in Ranks : F[r] = {}
  PROVE  Fits(F, L)
BY DEF Fits

LEMMA BothFit ==
  ASSUME NEW F, NEW G, NEW L, Fits(F, L), Fits(G, L)
  PROVE  Fits(Both(F, G), L)
BY DEF Fits, Both

\* W[i] is what may be imposed on the node of i, W[i][k] on its copy k; D has the things
\* where that is wanted, K the copies.
OnceSpcs(F, M, D, n, off, N, W) ==
  /\ \A i \in 1..n : \A c \in W[i] : c.node = N + off + i
  /\ \A r \in Ranks : \A c : c \in F[r] <=> \E i \in 1..n : i \in M[r] /\ i \in D /\ c \in W[i]

ManySpcs(F, M, D, K, n, off, k, N, W) ==
  /\ \A i \in 1..n, j \in 1..k : \A c \in W[i][j] : c.node = N + IdIn(off, k, i, j)
  /\ \A r \in Ranks : \A c : c \in F[r] <=>
       \E i \in 1..n, j \in 1..k : i \in M[r] /\ i \in D /\ j \in K /\ c \in W[i][j]

LEMMA OnceFits ==
  ASSUME NEW F, NEW L, NEW M, NEW D, NEW n, NEW off, NEW N, NEW W,
         OnceSpcs(F, M, D, n, off, N, W), PlacesOnce(L, N, M, n, off)
  PROVE  Fits(F, L)
<1>1. ASSUME NEW r \in Ranks, NEW c \in F[r]
      PROVE  /\ c.node \in Ids(L[r])
             /\ \A q \in Ranks : c.node \in Ids(L[q]) => c \in F[q]
  <2>1. PICK i \in 1..n : i \in M[r] /\ i \in D /\ c \in W[i]
    BY <1>1 DEF OnceSpcs
  <2>2. c.node = N + off + i
    BY <2>1 DEF OnceSpcs
  <2>3. \A q \in Ranks : c.node \in Ids(L[q]) <=> i \in M[q]
    BY <2>2 DEF PlacesOnce
  <2>4. \A q \in Ranks : i \in M[q] => c \in F[q]
    BY <2>1 DEF OnceSpcs
  <2> QED BY <2>1, <2>3, <2>4
<1> QED BY <1>1 DEF Fits

LEMMA ManyFits ==
  ASSUME NEW F, NEW L, NEW M, NEW D, NEW K, NEW n, NEW off, NEW k, NEW N, NEW W, NEW copies,
         ManySpcs(F, M, D, K, n, off, k, N, W), PlacesMany(L, N, M, n, off, k, copies),
         \A i \in 1..n, j \in 1..k : i \in D /\ j \in K => j <= copies[i]
  PROVE  Fits(F, L)
<1>1. ASSUME NEW r \in Ranks, NEW c \in F[r]
      PROVE  /\ c.node \in Ids(L[r])
             /\ \A q \in Ranks : c.node \in Ids(L[q]) => c \in F[q]
  <2>1. PICK i \in 1..n, j \in 1..k : i \in M[r] /\ i \in D /\ j \in K /\ c \in W[i][j]
    BY <1>1 DEF ManySpcs
  <2>2. c.node = N + IdIn(off, k, i, j) /\ j <= copies[i]
    BY <2>1 DEF ManySpcs
  <2>3. \A q \in Ranks : c.node \in Ids(L[q]) <=> i \in M[q]
    BY <2>2 DEF PlacesMany
  <2>4. \A q \in Ranks : i \in M[q] => c \in F[q]
    BY <2>1 DEF ManySpcs
  <2> QED BY <2>1, <2>3, <2>4
<1> QED BY <1>1 DEF Fits

\* The constraints at a point, where the counter is N.
SpcsAt(N, a, dof, id, point) ==
  LET times == {t \in setting.spc.at[(CHOOSE w \in point : TRUE)[1]] :
                  \A w \in point : t \in setting.spc.at[w[1]]}
  IN  IF times = {} THEN {}
      ELSE {[node |-> N + id, analysis |-> a.name, dof |-> dof, field |-> "spc",
             point |-> point, times |-> times]}

LEMMA SpcIs ==
  ASSUME NEW N, CounterIs(N), NEW r \in Ranks, NEW a, NEW dof, NEW id, NEW point
  PROVE  SpcAt(r, a, dof, id, "spc", point) = SpcsAt(N, a, dof, id, point)
<1>1. nodecounter[r] = N
  BY DEF CounterIs
<1> QED BY <1>1 DEF SpcAt, SpcsAt

LEMMA SpcIsOn ==
  ASSUME NEW N, NEW a, NEW dof, NEW id, NEW point, NEW c \in SpcsAt(N, a, dof, id, point)
  PROVE  c.node = N + id
<1> DEFINE times == {t \in setting.spc.at[(CHOOSE w \in point : TRUE)[1]] :
                       \A w \in point : t \in setting.spc.at[w[1]]}
<1> DEFINE rec == [node |-> N + id, analysis |-> a.name, dof |-> dof, field |-> "spc",
                   point |-> point, times |-> times]
<1>1. SpcsAt(N, a, dof, id, point) \subseteq {rec}
  BY DEF SpcsAt
<1>2. rec.node = N + id
  OBVIOUS
<1> HIDE DEF rec
<1> QED BY <1>1, <1>2

-----------------------------------------------------------------------------
(* The constraints at the vertices, edges, quads and elements.             *)
QuadsOf(r)   == IF Kind = "penta" THEN MyFaces(r) \cap Quads ELSE {}
Upright(r)   == {i \in MyEdges(r) : iomodel.edges[i].marker = 2}
Sides(r)     == IF setting.spc.layout = "static" THEN MyEdges(r) \cap iomodel.boundary ELSE MyEdges(r)
Middle(i)    == Evenly(iomodel.edges[i].ends)
Mean(i)      == Evenly(iomodel.faces[i].vertices)
Centre_(e)   == Evenly(Range(iomodel.mesh.elements[e]))

CornerSpcs(r, a, dof) == UNION {SpcAt(r, a, dof, v, "spc", {<<v, 24>>}) : v \in MyVertexSet(r)}
CentreSpcs(r, a, dof, off) == UNION {SpcAt(r, a, dof, off + e, "spc", Centre_(e)) : e \in my_elements[r]}
MiddleSpcs(r, a, dof, edges) == UNION {SpcAt(r, a, dof, Nv + i, "spc", Middle(i)) : i \in edges}
MeanSpcs(r, a, dof) == UNION {SpcAt(r, a, dof, Nv + Ne + i, "spc", Mean(i)) : i \in QuadsOf(r)}
StaticMeans(r, a, dof) == IF setting.spc.layout = "transient" THEN {} ELSE MeanSpcs(r, a, dof)
ThirdSpcs(r, a, dof) ==
  UNION {SpcAt(r, a, dof, Nv + 2 * (i - 1) + c, "spc", Third(iomodel.edges[i].ends, c)) : i \in Upright(r), c \in 1..2}
UprightSpcs(r, a, dof) ==
  UNION {SpcAt(r, a, dof, Nv + 3 * (i - 1) + c, "spc", Middle(i)) : i \in Upright(r), c \in 1..3}
LevelSpcs(r, a, dof) ==
  UNION {SpcAt(r, a, dof, Nv + 3 * (i - 1) + 1, "spc", Middle(i)) : i \in MyEdges(r) \ Upright(r)}
QuadSpcs(r, a, dof) ==
  UNION {SpcAt(r, a, dof, Nv + 3 * Ne + 3 * (i - 1) + c, "spc", Mean(i)) : i \in QuadsOf(r), c \in 1..3}

SpcWorld(N) == Partitioned /\ CounterIs(N)

LEMMA CornersFit ==
  ASSUME NEW N, SpcWorld(N), NEW L, NEW a, NEW dof, PlacesOnce(L, N, MyVs, Nv, 0)
  PROVE  Fits([r \in Ranks |-> CornerSpcs(r, a, dof)], L)
<1> DEFINE F == [r \in Ranks |-> CornerSpcs(r, a, dof)]
<1> DEFINE W == [v \in 1..Nv |-> SpcsAt(N, a, dof, v, {<<v, 24>>})]
<1>1. CounterIs(N) /\ N \in Nat /\ Nv \in Nat
  BY IoFacts DEF SpcWorld, CounterIs
<1>2. \A i \in 1..Nv : \A c \in W[i] : c.node = N + 0 + i
  <2>1. \A i \in 1..Nv : N + 0 + i = N + i
    BY <1>1
  <2> QED BY <1>1, <2>1, SpcIsOn
<1>3. ASSUME NEW r \in Ranks, NEW c
      PROVE  c \in F[r] <=> \E i \in 1..Nv : i \in MyVs[r] /\ i \in 1..Nv /\ c \in W[i]
  <2>1. MyVs[r] = MyVertexSet(r) /\ MyVertexSet(r) \subseteq 1..Nv
    BY MineAreThere DEF MyVs, SpcWorld
  <2>2. c \in F[r] <=> \E v \in MyVertexSet(r) : c \in SpcAt(r, a, dof, v, "spc", {<<v, 24>>})
    BY DEF CornerSpcs
  <2>3. \A v \in 1..Nv : SpcAt(r, a, dof, v, "spc", {<<v, 24>>}) = W[v]
    BY <1>1, SpcIs
  <2> HIDE DEF F, W
  <2> QED BY <2>1, <2>2, <2>3
<1>4. OnceSpcs(F, MyVs, 1..Nv, Nv, 0, N, W)
  <2> HIDE DEF F, W
  <2> QED BY <1>2, <1>3 DEF OnceSpcs
<1>5. Fits(F, L)
  <2> HIDE DEF F, W
  <2> QED BY <1>4, OnceFits
<1> QED BY <1>5

LEMMA CentresFit ==
  ASSUME NEW N, SpcWorld(N), NEW L, NEW a, NEW dof, NEW off \in Nat, PlacesOnce(L, N, my_elements, Nel, off)
  PROVE  Fits([r \in Ranks |-> CentreSpcs(r, a, dof, off)], L)
<1> DEFINE F == [r \in Ranks |-> CentreSpcs(r, a, dof, off)]
<1> DEFINE W == [e \in 1..Nel |-> SpcsAt(N, a, dof, off + e, Centre_(e))]
<1>1. CounterIs(N) /\ N \in Nat /\ Nel \in Nat
  BY IoFacts DEF SpcWorld, CounterIs
<1>2. \A i \in 1..Nel : \A c \in W[i] : c.node = N + off + i
  <2>1. \A i \in 1..Nel : N + off + i = N + (off + i)
    BY <1>1
  <2> QED BY <1>1, <2>1, SpcIsOn
<1>3. ASSUME NEW r \in Ranks, NEW c
      PROVE  c \in F[r] <=> \E i \in 1..Nel : i \in my_elements[r] /\ i \in 1..Nel /\ c \in W[i]
  <2>1. my_elements[r] \subseteq 1..Nel
    BY MineAreThere DEF SpcWorld
  <2>2. c \in F[r] <=> \E e \in my_elements[r] : c \in SpcAt(r, a, dof, off + e, "spc", Centre_(e))
    BY DEF CentreSpcs
  <2>3. \A e \in 1..Nel : SpcAt(r, a, dof, off + e, "spc", Centre_(e)) = W[e]
    BY <1>1, SpcIs
  <2> HIDE DEF F, W
  <2> QED BY <2>1, <2>2, <2>3
<1>4. OnceSpcs(F, my_elements, 1..Nel, Nel, off, N, W)
  <2> HIDE DEF F, W
  <2> QED BY <1>2, <1>3 DEF OnceSpcs
<1>5. Fits(F, L)
  <2> HIDE DEF F, W
  <2> QED BY <1>4, OnceFits
<1> QED BY <1>5

\* One node on each edge.
LEMMA MiddlesFit ==
  ASSUME NEW N, SpcWorld(N), NEW L, NEW a, NEW dof, PlacesOnce(L, N, MyEs, Ne, Nv)
  PROVE  Fits([r \in Ranks |-> MiddleSpcs(r, a, dof, Sides(r))], L)
<1> DEFINE F == [r \in Ranks |-> MiddleSpcs(r, a, dof, Sides(r))]
<1> DEFINE D == IF setting.spc.layout = "static" THEN iomodel.boundary ELSE 1..Ne
<1> DEFINE W == [i \in 1..Ne |-> SpcsAt(N, a, dof, Nv + i, Middle(i))]
<1>1. CounterIs(N) /\ N \in Nat /\ Nv \in Nat /\ Ne \in Nat
  BY IoFacts DEF SpcWorld, CounterIs
<1>2. \A i \in 1..Ne : \A c \in W[i] : c.node = N + Nv + i
  <2>1. \A i \in 1..Ne : N + Nv + i = N + (Nv + i)
    BY <1>1
  <2> QED BY <1>1, <2>1, SpcIsOn
<1>3. ASSUME NEW r \in Ranks, NEW c
      PROVE  c \in F[r] <=> \E i \in 1..Ne : i \in MyEs[r] /\ i \in D /\ c \in W[i]
  <2>1. MyEs[r] = MyEdges(r) /\ MyEdges(r) \subseteq 1..Ne
    BY MineAreThere DEF MyEs, SpcWorld
  <2>2. c \in F[r] <=> \E i \in Sides(r) : c \in SpcAt(r, a, dof, Nv + i, "spc", Middle(i))
    BY DEF MiddleSpcs
  <2>3. \A i \in 1..Ne : SpcAt(r, a, dof, Nv + i, "spc", Middle(i)) = W[i]
    BY <1>1, SpcIs
  <2>4. \A i : i \in Sides(r) <=> i \in MyEdges(r) /\ i \in D
    BY <2>1 DEF Sides
  <2> HIDE DEF F, W, D
  <2> QED BY <2>1, <2>2, <2>3, <2>4
<1>4. OnceSpcs(F, MyEs, D, Ne, Nv, N, W)
  <2> HIDE DEF F, W, D
  <2> QED BY <1>2, <1>3 DEF OnceSpcs
<1>5. Fits(F, L)
  <2> HIDE DEF F, W, D
  <2> QED BY <1>4, OnceFits
<1> QED BY <1>5

LEMMA MeansFit ==
  ASSUME NEW N, SpcWorld(N), NEW L, NEW a, NEW dof, Kind = "penta" => PlacesOnce(L, N, MyQuads, Nf, Nv + Ne)
  PROVE  Fits([r \in Ranks |-> MeanSpcs(r, a, dof)], L)
<1> DEFINE F == [r \in Ranks |-> MeanSpcs(r, a, dof)]
<1> DEFINE W == [i \in 1..Nf |-> SpcsAt(N, a, dof, Nv + Ne + i, Mean(i))]
<1>1. CASE Kind # "penta"
  <2>1. \A r \in Ranks : F[r] = {}
    BY <1>1 DEF MeanSpcs, QuadsOf
  <2> HIDE DEF F
  <2>2. Fits(F, L)
    BY <2>1, NoneFits
  <2> QED BY <2>2 DEF F
<1>2. CASE Kind = "penta"
  <2> DEFINE off == Nv + Ne
  <2>1. CounterIs(N) /\ N \in Nat /\ off \in Nat /\ Nf \in Nat
    BY <1>2, IoFacts DEF SpcWorld, CounterIs
  <2>2. \A i \in 1..Nf : \A c \in W[i] : c.node = N + off + i
    <3>1. \A i \in 1..Nf : \A c \in W[i] : c.node = N + (off + i)
      BY <2>1, SpcIsOn
    <3> HIDE DEF off, W
    <3>2. \A i \in 1..Nf : N + off + i = N + (off + i)
      BY <2>1
    <3> QED BY <3>1, <3>2
  <2>3. ASSUME NEW r \in Ranks, NEW c
        PROVE  c \in F[r] <=> \E i \in 1..Nf : i \in MyQuads[r] /\ i \in 1..Nf /\ c \in W[i]
    <3>1. MyQuads[r] = QuadsOf(r) /\ QuadsOf(r) \subseteq 1..Nf
      BY <1>2, MineAreThere DEF MyQuads, SpcWorld, QuadsOf
    <3>2. c \in F[r] <=> \E i \in QuadsOf(r) : c \in SpcAt(r, a, dof, Nv + Ne + i, "spc", Mean(i))
      BY DEF MeanSpcs
    <3>3. \A i \in 1..Nf : SpcAt(r, a, dof, Nv + Ne + i, "spc", Mean(i)) = W[i]
      BY <2>1, SpcIs
    <3> HIDE DEF F, W
    <3> QED BY <3>1, <3>2, <3>3
  <2>4. OnceSpcs(F, MyQuads, 1..Nf, Nf, off, N, W)
    <3> HIDE DEF F, W, off
    <3> QED BY <2>2, <2>3 DEF OnceSpcs
  <2>5. Fits(F, L)
    <3>1. PlacesOnce(L, N, MyQuads, Nf, off)
      BY <1>2
    <3> HIDE DEF F, W, off
    <3> QED BY <2>4, <3>1, OnceFits
  <2> QED BY <2>5
<1> QED BY <1>1, <1>2

-----------------------------------------------------------------------------
(* Where only some edges have nodes, or more than one.                     *)

\* P1xP2: one node on each vertical edge.
LEMMA UprightMiddlesFit ==
  ASSUME NEW N, SpcWorld(N), NEW L, NEW a, NEW dof, PlacesMany(L, N, MyEs, Ne, Nv, 1, EdgeCopies(1, 0))
  PROVE  Fits([r \in Ranks |-> MiddleSpcs(r, a, dof, Upright(r))], L)
<1> DEFINE F == [r \in Ranks |-> MiddleSpcs(r, a, dof, Upright(r))]
<1> DEFINE D == {i \in 1..Ne : iomodel.edges[i].marker = 2}
<1> DEFINE W == [i \in 1..Ne |-> [j \in 1..1 |-> SpcsAt(N, a, dof, Nv + i, Middle(i))]]
<1> DEFINE copies == EdgeCopies(1, 0)
<1>1. CounterIs(N) /\ N \in Nat /\ Nv \in Nat /\ Ne \in Nat /\ DOMAIN iomodel.edges = 1..Ne
  BY IoFacts DEF SpcWorld, CounterIs
<1>2. \A i \in 1..Ne, j \in 1..1 : \A c \in W[i][j] : c.node = N + IdIn(Nv, 1, i, j)
  <2>1. \A i \in 1..Ne, j \in 1..1 : IdIn(Nv, 1, i, j) = Nv + i
    BY <1>1 DEF IdIn
  <2>2. \A i \in 1..Ne, j \in 1..1 : \A c \in W[i][j] : c.node = N + (Nv + i)
    BY SpcIsOn
  <2> HIDE DEF W
  <2> QED BY <2>1, <2>2
<1>3. ASSUME NEW r \in Ranks, NEW c
      PROVE  c \in F[r] <=> \E i \in 1..Ne, j \in 1..1 : i \in MyEs[r] /\ i \in D /\ j \in {1} /\ c \in W[i][j]
  <2>1. MyEs[r] = MyEdges(r) /\ MyEdges(r) \subseteq 1..Ne
    BY MineAreThere DEF MyEs, SpcWorld
  <2>2. c \in F[r] <=> \E i \in Upright(r) : c \in SpcAt(r, a, dof, Nv + i, "spc", Middle(i))
    BY DEF MiddleSpcs
  <2>3. \A i \in 1..Ne : SpcAt(r, a, dof, Nv + i, "spc", Middle(i)) = W[i][1]
    BY <1>1, SpcIs
  <2>4. \A i : i \in Upright(r) <=> i \in MyEdges(r) /\ i \in D
    BY <2>1 DEF Upright
  <2>5. \A j : j \in 1..1 <=> j = 1
    OBVIOUS
  <2> HIDE DEF F, W, D
  <2> QED BY <2>1, <2>2, <2>3, <2>4, <2>5
<1>4. ManySpcs(F, MyEs, D, {1}, Ne, Nv, 1, N, W)
  <2> HIDE DEF F, W, D
  <2> QED BY <1>2, <1>3 DEF ManySpcs
<1>5. \A i \in 1..Ne, j \in 1..1 : i \in D /\ j \in {1} => j <= copies[i]
  BY <1>1 DEF EdgeCopies
<1>6. Fits(F, L)
  <2> HIDE DEF F, W, D, copies
  <2>1. PlacesMany(L, N, MyEs, Ne, Nv, 1, copies)
    BY DEF copies
  <2> QED BY <1>4, <1>5, <2>1, ManyFits
<1> QED BY <1>6

\* P2xP1: one node on each of the others.
LEMMA LevelMiddlesFit ==
  ASSUME NEW N, SpcWorld(N), NEW L, NEW a, NEW dof, PlacesMany(L, N, MyEs, Ne, Nv, 1, EdgeCopies(0, 1))
  PROVE  Fits([r \in Ranks |-> MiddleSpcs(r, a, dof, MyEdges(r) \ Upright(r))], L)
<1> DEFINE F == [r \in Ranks |-> MiddleSpcs(r, a, dof, MyEdges(r) \ Upright(r))]
<1> DEFINE D == {i \in 1..Ne : iomodel.edges[i].marker # 2}
<1> DEFINE W == [i \in 1..Ne |-> [j \in 1..1 |-> SpcsAt(N, a, dof, Nv + i, Middle(i))]]
<1> DEFINE copies == EdgeCopies(0, 1)
<1>1. CounterIs(N) /\ N \in Nat /\ Nv \in Nat /\ Ne \in Nat /\ DOMAIN iomodel.edges = 1..Ne
  BY IoFacts DEF SpcWorld, CounterIs
<1>2. \A i \in 1..Ne, j \in 1..1 : \A c \in W[i][j] : c.node = N + IdIn(Nv, 1, i, j)
  <2>1. \A i \in 1..Ne, j \in 1..1 : IdIn(Nv, 1, i, j) = Nv + i
    BY <1>1 DEF IdIn
  <2>2. \A i \in 1..Ne, j \in 1..1 : \A c \in W[i][j] : c.node = N + (Nv + i)
    BY SpcIsOn
  <2> HIDE DEF W
  <2> QED BY <2>1, <2>2
<1>3. ASSUME NEW r \in Ranks, NEW c
      PROVE  c \in F[r] <=> \E i \in 1..Ne, j \in 1..1 : i \in MyEs[r] /\ i \in D /\ j \in {1} /\ c \in W[i][j]
  <2>1. MyEs[r] = MyEdges(r) /\ MyEdges(r) \subseteq 1..Ne
    BY MineAreThere DEF MyEs, SpcWorld
  <2>2. c \in F[r] <=> \E i \in MyEdges(r) \ Upright(r) : c \in SpcAt(r, a, dof, Nv + i, "spc", Middle(i))
    BY DEF MiddleSpcs
  <2>3. \A i \in 1..Ne : SpcAt(r, a, dof, Nv + i, "spc", Middle(i)) = W[i][1]
    BY <1>1, SpcIs
  <2>4. \A i : i \in MyEdges(r) \ Upright(r) <=> i \in MyEdges(r) /\ i \in D
    BY <2>1 DEF Upright
  <2>5. \A j : j \in 1..1 <=> j = 1
    OBVIOUS
  <2> HIDE DEF F, W, D
  <2> QED BY <2>1, <2>2, <2>3, <2>4, <2>5
<1>4. ManySpcs(F, MyEs, D, {1}, Ne, Nv, 1, N, W)
  <2> HIDE DEF F, W, D
  <2> QED BY <1>2, <1>3 DEF ManySpcs
<1>5. \A i \in 1..Ne, j \in 1..1 : i \in D /\ j \in {1} => j <= copies[i]
  BY <1>1 DEF EdgeCopies
<1>6. Fits(F, L)
  <2> HIDE DEF F, W, D, copies
  <2>1. PlacesMany(L, N, MyEs, Ne, Nv, 1, copies)
    BY DEF copies
  <2> QED BY <1>4, <1>5, <2>1, ManyFits
<1> QED BY <1>6

\* P1xP3: two nodes on each vertical edge.
LEMMA ThirdsFit ==
  ASSUME NEW N, SpcWorld(N), NEW L, NEW a, NEW dof, 
         PlacesMany(L, N, MyEs, Ne, Nv, 2, EdgeCopies(2, 0))
  PROVE  Fits([r \in Ranks |-> ThirdSpcs(r, a, dof)], L)
<1> DEFINE F == [r \in Ranks |-> ThirdSpcs(r, a, dof)]
<1> DEFINE D == {i \in 1..Ne : iomodel.edges[i].marker = 2}
<1> DEFINE W == [i \in 1..Ne |-> [j \in 1..2 |-> SpcsAt(N, a, dof, IdIn(Nv, 2, i, j), Third(iomodel.edges[i].ends, j))]]
<1> DEFINE copies == EdgeCopies(2, 0)
<1> DEFINE off == Nv
<1>1. CounterIs(N) /\ N \in Nat /\ Nv \in Nat /\ Ne \in Nat /\ Ne \in Nat /\ DOMAIN iomodel.edges = 1..Ne
  BY IoFacts DEF SpcWorld, CounterIs
<1>2. \A i \in 1..Ne, j \in 1..2 : \A c \in W[i][j] : c.node = N + IdIn(off, 2, i, j)
  BY SpcIsOn
<1>3. ASSUME NEW r \in Ranks, NEW c
      PROVE  c \in F[r] <=> \E i \in 1..Ne, j \in 1..2 : i \in MyEs[r] /\ i \in D /\ j \in 1..2 /\ c \in W[i][j]
  <2>1. MyEs[r] = MyEdges(r) /\ MyEdges(r) \subseteq 1..Ne
    BY MineAreThere DEF MyEs, SpcWorld
  <2>2. c \in F[r] <=> \E i \in Upright(r), j \in 1..2 : c \in SpcAt(r, a, dof, Nv + 2 * (i - 1) + j, "spc", Third(iomodel.edges[i].ends, j))
    BY DEF ThirdSpcs
  <2>3. \A i \in 1..Ne, j \in 1..2 : SpcAt(r, a, dof, Nv + 2 * (i - 1) + j, "spc", Third(iomodel.edges[i].ends, j)) = W[i][j]
    BY <1>1, SpcIs DEF IdIn
  <2>4. \A i : i \in Upright(r) <=> i \in MyEdges(r) /\ i \in D
    BY <2>1 DEF Upright
  <2>5. \A j : j \in 1..2 <=> j \in 1..2 /\ j \in 1..2
    OBVIOUS
  <2> HIDE DEF F, W, D
  <2> QED BY <2>1, <2>2, <2>3, <2>4, <2>5
<1>4. ManySpcs(F, MyEs, D, 1..2, Ne, off, 2, N, W)
  <2> HIDE DEF F, W, D, off
  <2> QED BY <1>2, <1>3 DEF ManySpcs
<1>5. \A i \in 1..Ne, j \in 1..2 : i \in D /\ j \in 1..2 => j <= copies[i]
  BY <1>1 DEF EdgeCopies
<1>6. Fits(F, L)
  <2>1. PlacesMany(L, N, MyEs, Ne, off, 2, copies)
    OBVIOUS
  <2> HIDE DEF F, W, D, copies, off
  <2> QED BY <1>4, <1>5, <2>1, ManyFits
<1> QED BY <1>6

\* P2xP4: three nodes on each vertical edge, one on each of the others, three on each quad.
LEMMA UprightsFit ==
  ASSUME NEW N, SpcWorld(N), NEW L, NEW a, NEW dof, 
         PlacesMany(L, N, MyEs, Ne, Nv, 3, EdgeCopies(3, 1))
  PROVE  Fits([r \in Ranks |-> UprightSpcs(r, a, dof)], L)
<1> DEFINE F == [r \in Ranks |-> UprightSpcs(r, a, dof)]
<1> DEFINE D == {i \in 1..Ne : iomodel.edges[i].marker = 2}
<1> DEFINE W == [i \in 1..Ne |-> [j \in 1..3 |-> SpcsAt(N, a, dof, IdIn(Nv, 3, i, j), Middle(i))]]
<1> DEFINE copies == EdgeCopies(3, 1)
<1> DEFINE off == Nv
<1>1. CounterIs(N) /\ N \in Nat /\ Nv \in Nat /\ Ne \in Nat /\ Ne \in Nat /\ DOMAIN iomodel.edges = 1..Ne
  BY IoFacts DEF SpcWorld, CounterIs
<1>2. \A i \in 1..Ne, j \in 1..3 : \A c \in W[i][j] : c.node = N + IdIn(off, 3, i, j)
  BY SpcIsOn
<1>3. ASSUME NEW r \in Ranks, NEW c
      PROVE  c \in F[r] <=> \E i \in 1..Ne, j \in 1..3 : i \in MyEs[r] /\ i \in D /\ j \in 1..3 /\ c \in W[i][j]
  <2>1. MyEs[r] = MyEdges(r) /\ MyEdges(r) \subseteq 1..Ne
    BY MineAreThere DEF MyEs, SpcWorld
  <2>2. c \in F[r] <=> \E i \in Upright(r), j \in 1..3 : c \in SpcAt(r, a, dof, Nv + 3 * (i - 1) + j, "spc", Middle(i))
    BY DEF UprightSpcs
  <2>3. \A i \in 1..Ne, j \in 1..3 : SpcAt(r, a, dof, Nv + 3 * (i - 1) + j, "spc", Middle(i)) = W[i][j]
    BY <1>1, SpcIs DEF IdIn
  <2>4. \A i : i \in Upright(r) <=> i \in MyEdges(r) /\ i \in D
    BY <2>1 DEF Upright
  <2>5. \A j : j \in 1..3 <=> j \in 1..3 /\ j \in 1..3
    OBVIOUS
  <2> HIDE DEF F, W, D
  <2> QED BY <2>1, <2>2, <2>3, <2>4, <2>5
<1>4. ManySpcs(F, MyEs, D, 1..3, Ne, off, 3, N, W)
  <2> HIDE DEF F, W, D, off
  <2> QED BY <1>2, <1>3 DEF ManySpcs
<1>5. \A i \in 1..Ne, j \in 1..3 : i \in D /\ j \in 1..3 => j <= copies[i]
  BY <1>1 DEF EdgeCopies
<1>6. Fits(F, L)
  <2>1. PlacesMany(L, N, MyEs, Ne, off, 3, copies)
    OBVIOUS
  <2> HIDE DEF F, W, D, copies, off
  <2> QED BY <1>4, <1>5, <2>1, ManyFits
<1> QED BY <1>6

\* The others.
LEMMA LevelsFit ==
  ASSUME NEW N, SpcWorld(N), NEW L, NEW a, NEW dof, 
         PlacesMany(L, N, MyEs, Ne, Nv, 3, EdgeCopies(3, 1))
  PROVE  Fits([r \in Ranks |-> LevelSpcs(r, a, dof)], L)
<1> DEFINE F == [r \in Ranks |-> LevelSpcs(r, a, dof)]
<1> DEFINE D == {i \in 1..Ne : iomodel.edges[i].marker # 2}
<1> DEFINE W == [i \in 1..Ne |-> [j \in 1..3 |-> SpcsAt(N, a, dof, IdIn(Nv, 3, i, j), Middle(i))]]
<1> DEFINE copies == EdgeCopies(3, 1)
<1> DEFINE off == Nv
<1>1. CounterIs(N) /\ N \in Nat /\ Nv \in Nat /\ Ne \in Nat /\ Ne \in Nat /\ DOMAIN iomodel.edges = 1..Ne
  BY IoFacts DEF SpcWorld, CounterIs
<1>2. \A i \in 1..Ne, j \in 1..3 : \A c \in W[i][j] : c.node = N + IdIn(off, 3, i, j)
  BY SpcIsOn
<1>3. ASSUME NEW r \in Ranks, NEW c
      PROVE  c \in F[r] <=> \E i \in 1..Ne, j \in 1..3 : i \in MyEs[r] /\ i \in D /\ j \in {1} /\ c \in W[i][j]
  <2>1. MyEs[r] = MyEdges(r) /\ MyEdges(r) \subseteq 1..Ne
    BY MineAreThere DEF MyEs, SpcWorld
  <2>2. c \in F[r] <=> \E i \in MyEdges(r) \ Upright(r) : c \in SpcAt(r, a, dof, Nv + 3 * (i - 1) + 1, "spc", Middle(i))
    BY DEF LevelSpcs
  <2>3. \A i \in 1..Ne, j \in 1..3 : SpcAt(r, a, dof, Nv + 3 * (i - 1) + j, "spc", Middle(i)) = W[i][j]
    BY <1>1, SpcIs DEF IdIn
  <2>4. \A i : i \in MyEdges(r) \ Upright(r) <=> i \in MyEdges(r) /\ i \in D
    BY <2>1 DEF Upright
  <2>5. \A j : j \in {1} <=> j \in 1..3 /\ j = 1
    OBVIOUS
  <2> HIDE DEF F, W, D
  <2> QED BY <2>1, <2>2, <2>3, <2>4, <2>5
<1>4. ManySpcs(F, MyEs, D, {1}, Ne, off, 3, N, W)
  <2> HIDE DEF F, W, D, off
  <2> QED BY <1>2, <1>3 DEF ManySpcs
<1>5. \A i \in 1..Ne, j \in 1..3 : i \in D /\ j \in {1} => j <= copies[i]
  BY <1>1 DEF EdgeCopies
<1>6. Fits(F, L)
  <2>1. PlacesMany(L, N, MyEs, Ne, off, 3, copies)
    OBVIOUS
  <2> HIDE DEF F, W, D, copies, off
  <2> QED BY <1>4, <1>5, <2>1, ManyFits
<1> QED BY <1>6

\* The quads.
LEMMA QuadsFit ==
  ASSUME NEW N, SpcWorld(N), NEW L, NEW a, NEW dof, Kind = "penta",
         PlacesMany(L, N, MyFs, Nf, Nv + 3 * Ne, 3, QuadCopies)
  PROVE  Fits([r \in Ranks |-> QuadSpcs(r, a, dof)], L)
<1> DEFINE F == [r \in Ranks |-> QuadSpcs(r, a, dof)]
<1> DEFINE D == Quads
<1> DEFINE W == [i \in 1..Nf |-> [j \in 1..3 |-> SpcsAt(N, a, dof, IdIn(Nv + 3 * Ne, 3, i, j), Mean(i))]]
<1> DEFINE copies == QuadCopies
<1> DEFINE off == Nv + 3 * Ne
<1>1. CounterIs(N) /\ N \in Nat /\ Nv \in Nat /\ Ne \in Nat /\ Nf \in Nat /\ DOMAIN iomodel.faces = 1..Nf
  BY IoFacts DEF SpcWorld, CounterIs
<1>2. \A i \in 1..Nf, j \in 1..3 : \A c \in W[i][j] : c.node = N + IdIn(off, 3, i, j)
  BY SpcIsOn
<1>3. ASSUME NEW r \in Ranks, NEW c
      PROVE  c \in F[r] <=> \E i \in 1..Nf, j \in 1..3 : i \in MyFs[r] /\ i \in D /\ j \in 1..3 /\ c \in W[i][j]
  <2>1. MyFs[r] = MyFaces(r) /\ MyFaces(r) \subseteq 1..Nf
    BY MineAreThere DEF MyFs, SpcWorld
  <2>2. c \in F[r] <=> \E i \in QuadsOf(r), j \in 1..3 : c \in SpcAt(r, a, dof, Nv + 3 * Ne + 3 * (i - 1) + j, "spc", Mean(i))
    BY DEF QuadSpcs
  <2>3. \A i \in 1..Nf, j \in 1..3 : SpcAt(r, a, dof, Nv + 3 * Ne + 3 * (i - 1) + j, "spc", Mean(i)) = W[i][j]
    BY <1>1, SpcIs DEF IdIn
  <2>4. \A i : i \in QuadsOf(r) <=> i \in MyFaces(r) /\ i \in D
    BY <2>1 DEF QuadsOf
  <2>5. \A j : j \in 1..3 <=> j \in 1..3 /\ j \in 1..3
    OBVIOUS
  <2> HIDE DEF F, W, D
  <2> QED BY <2>1, <2>2, <2>3, <2>4, <2>5
<1>4. ManySpcs(F, MyFs, D, 1..3, Nf, off, 3, N, W)
  <2> HIDE DEF F, W, D, off
  <2> QED BY <1>2, <1>3 DEF ManySpcs
<1>5. \A i \in 1..Nf, j \in 1..3 : i \in D /\ j \in 1..3 => j <= copies[i]
  BY <1>1 DEF QuadCopies
<1>6. Fits(F, L)
  <2>1. PlacesMany(L, N, MyFs, Nf, off, 3, copies)
    OBVIOUS
  <2> HIDE DEF F, W, D, copies, off
  <2> QED BY <1>4, <1>5, <2>1, ManyFits
<1> QED BY <1>6

\* IoModelToConstraintsx, for each finite element.
LEMMA SpcsAre ==
  ASSUME NEW r, NEW a, NEW dof
  PROVE  /\ IoModelToConstraints(r, a, "P1", dof) =
              CornerSpcs(r, a, dof)
         /\ IoModelToConstraints(r, a, "P1bubblecondensed", dof) =
              CornerSpcs(r, a, dof)
         /\ IoModelToConstraints(r, a, "P1bubble", dof) =
              CornerSpcs(r, a, dof) \cup CentreSpcs(r, a, dof, Nv)
         /\ IoModelToConstraints(r, a, "P1xP2", dof) =
              CornerSpcs(r, a, dof) \cup MiddleSpcs(r, a, dof, Upright(r))
         /\ IoModelToConstraints(r, a, "P2xP1", dof) =
              CornerSpcs(r, a, dof) \cup MiddleSpcs(r, a, dof, MyEdges(r) \ Upright(r))
         /\ IoModelToConstraints(r, a, "P1xP3", dof) =
              CornerSpcs(r, a, dof) \cup ThirdSpcs(r, a, dof)
         /\ IoModelToConstraints(r, a, "P2", dof) =
              CornerSpcs(r, a, dof) \cup (MiddleSpcs(r, a, dof, Sides(r)) \cup StaticMeans(r, a, dof))
         /\ IoModelToConstraints(r, a, "P2bubble", dof) =
              CornerSpcs(r, a, dof) \cup ((MiddleSpcs(r, a, dof, Sides(r)) \cup StaticMeans(r, a, dof)) \cup CentreSpcs(r, a, dof, AfterP2))
         /\ IoModelToConstraints(r, a, "P2xP4", dof) =
              CornerSpcs(r, a, dof) \cup UNION {UprightSpcs(r, a, dof), LevelSpcs(r, a, dof), QuadSpcs(r, a, dof)}
<1>1. IoModelToConstraints(r, a, "P1", dof) =
        CornerSpcs(r, a, dof)
  BY DEF IoModelToConstraints, CornerSpcs, CentreSpcs, MiddleSpcs, MeanSpcs, StaticMeans, ThirdSpcs, UprightSpcs, LevelSpcs, QuadSpcs, QuadsOf, Upright, Sides, Middle, Mean, Centre_, Nv, Ne, Kind
<1>2. IoModelToConstraints(r, a, "P1bubblecondensed", dof) =
        CornerSpcs(r, a, dof)
  BY DEF IoModelToConstraints, CornerSpcs, CentreSpcs, MiddleSpcs, MeanSpcs, StaticMeans, ThirdSpcs, UprightSpcs, LevelSpcs, QuadSpcs, QuadsOf, Upright, Sides, Middle, Mean, Centre_, Nv, Ne, Kind
<1>3. IoModelToConstraints(r, a, "P1bubble", dof) =
        CornerSpcs(r, a, dof) \cup CentreSpcs(r, a, dof, Nv)
  BY DEF IoModelToConstraints, CornerSpcs, CentreSpcs, MiddleSpcs, MeanSpcs, StaticMeans, ThirdSpcs, UprightSpcs, LevelSpcs, QuadSpcs, QuadsOf, Upright, Sides, Middle, Mean, Centre_, Nv, Ne, Kind
<1>4. IoModelToConstraints(r, a, "P1xP2", dof) =
        CornerSpcs(r, a, dof) \cup MiddleSpcs(r, a, dof, Upright(r))
  BY DEF IoModelToConstraints, CornerSpcs, CentreSpcs, MiddleSpcs, MeanSpcs, StaticMeans, ThirdSpcs, UprightSpcs, LevelSpcs, QuadSpcs, QuadsOf, Upright, Sides, Middle, Mean, Centre_, Nv, Ne, Kind
<1>5. IoModelToConstraints(r, a, "P2xP1", dof) =
        CornerSpcs(r, a, dof) \cup MiddleSpcs(r, a, dof, MyEdges(r) \ Upright(r))
  BY DEF IoModelToConstraints, CornerSpcs, CentreSpcs, MiddleSpcs, MeanSpcs, StaticMeans, ThirdSpcs, UprightSpcs, LevelSpcs, QuadSpcs, QuadsOf, Upright, Sides, Middle, Mean, Centre_, Nv, Ne, Kind
<1>6. IoModelToConstraints(r, a, "P1xP3", dof) =
        CornerSpcs(r, a, dof) \cup ThirdSpcs(r, a, dof)
  BY DEF IoModelToConstraints, CornerSpcs, CentreSpcs, MiddleSpcs, MeanSpcs, StaticMeans, ThirdSpcs, UprightSpcs, LevelSpcs, QuadSpcs, QuadsOf, Upright, Sides, Middle, Mean, Centre_, Nv, Ne, Kind
<1>7. IoModelToConstraints(r, a, "P2", dof) =
        CornerSpcs(r, a, dof) \cup (MiddleSpcs(r, a, dof, Sides(r)) \cup StaticMeans(r, a, dof))
  BY DEF IoModelToConstraints, CornerSpcs, CentreSpcs, MiddleSpcs, MeanSpcs, StaticMeans, ThirdSpcs, UprightSpcs, LevelSpcs, QuadSpcs, QuadsOf, Upright, Sides, Middle, Mean, Centre_, Nv, Ne, Kind
<1>8. IoModelToConstraints(r, a, "P2bubble", dof) =
        CornerSpcs(r, a, dof) \cup ((MiddleSpcs(r, a, dof, Sides(r)) \cup StaticMeans(r, a, dof)) \cup CentreSpcs(r, a, dof, AfterP2))
  BY DEF IoModelToConstraints, CornerSpcs, CentreSpcs, MiddleSpcs, MeanSpcs, StaticMeans, ThirdSpcs, UprightSpcs, LevelSpcs, QuadSpcs, QuadsOf, Upright, Sides, Middle, Mean, Centre_, Nv, Ne, Kind
<1>9. IoModelToConstraints(r, a, "P2xP4", dof) =
        CornerSpcs(r, a, dof) \cup UNION {UprightSpcs(r, a, dof), LevelSpcs(r, a, dof), QuadSpcs(r, a, dof)}
  <2> DEFINE U == UNION {SpcAt(r, a, dof, Nv + 3 * (i - 1) + c, "spc", Evenly(iomodel.edges[i].ends)) :
                           i \in {i \in MyEdges(r) : iomodel.edges[i].marker = 2}, c \in 1..3}
  <2> DEFINE V == UNION {SpcAt(r, a, dof, Nv + 3 * (i - 1) + 1, "spc", Evenly(iomodel.edges[i].ends)) :
                           i \in MyEdges(r) \ {i \in MyEdges(r) : iomodel.edges[i].marker = 2}}
  <2> DEFINE Q == UNION {SpcAt(r, a, dof, Nv + 3 * Ne + 3 * (i - 1) + c, "spc", Evenly(iomodel.faces[i].vertices)) :
                           i \in IF Kind = "penta" THEN MyFaces(r) \cap Quads ELSE {}, c \in 1..3}
  <2>1. IoModelToConstraints(r, a, "P2xP4", dof) = CornerSpcs(r, a, dof) \cup UNION {U, V, Q}
    BY DEF IoModelToConstraints, CornerSpcs, Nv, Ne, Kind
  <2>2. UprightSpcs(r, a, dof) = U
    BY DEF UprightSpcs, Upright, Middle
  <2>3. LevelSpcs(r, a, dof) = V
    BY DEF LevelSpcs, Upright, Middle
  <2>4. QuadSpcs(r, a, dof) = Q
    BY DEF QuadSpcs, QuadsOf, Mean
  <2> HIDE DEF U, V, Q
  <2> QED BY <2>1, <2>2, <2>3, <2>4
<1> QED BY <1>1, <1>2, <1>3, <1>4, <1>5, <1>6, <1>7, <1>8, <1>9

SpcsOf(a, fe, dof) == [r \in Ranks |-> IoModelToConstraints(r, a, fe, dof)]

LEMMA SpcsFit ==
  ASSUME NEW N, SpcWorld(N), NEW L, NEW a, NEW dof, NEW fe \in ScalarElements, fe \in OfPrisms => Kind = "penta",
         VelocityPlaces(L, N, fe)
  PROVE  Fits(SpcsOf(a, fe, dof), L)
<1> DEFINE C == [r \in Ranks |-> CornerSpcs(r, a, dof)]
<1> DEFINE F == SpcsOf(a, fe, dof)
<1>1. Fits(C, L)
  <2>1. PlacesOnce(L, N, MyVs, Nv, 0)
    BY DEF VelocityPlaces
  <2> QED BY <2>1, CornersFit
<1>2. \A r \in Ranks : F[r] = IoModelToConstraints(r, a, fe, dof) /\ C[r] = CornerSpcs(r, a, dof)
  BY DEF SpcsOf
<1>3. \A G : Fits(G, L) /\ F = Both(C, G) => Fits(F, L)
  <2> HIDE DEF C, F
  <2> QED BY <1>1, BothFit
<1>4. \A G : (\A r \in Ranks : IoModelToConstraints(r, a, fe, dof) = CornerSpcs(r, a, dof) \cup G[r]) => F = Both(C, G)
  BY DEF SpcsOf, Both
<1> HIDE DEF C, F
<1>5. Nv \in Nat
  BY IoFacts DEF SpcWorld
<1>6. CASE fe \in {"P1", "P1bubblecondensed"}
  <2> DEFINE G == [r \in Ranks |-> {}]
  <2>1. ASSUME NEW r \in Ranks
        PROVE  IoModelToConstraints(r, a, fe, dof) = CornerSpcs(r, a, dof) \cup {}
    <3>1. IoModelToConstraints(r, a, "P1", dof) = CornerSpcs(r, a, dof)
      BY SpcsAre
    <3>2. IoModelToConstraints(r, a, "P1bubblecondensed", dof) = CornerSpcs(r, a, dof)
      BY SpcsAre
    <3>3. IoModelToConstraints(r, a, fe, dof) = CornerSpcs(r, a, dof)
      BY <1>6, <3>1, <3>2
    <3> QED BY <3>3
  <2>2. \A r \in Ranks : G[r] = {}
    OBVIOUS
  <2> HIDE DEF G
  <2>3. Fits(G, L) /\ F = Both(C, G)
    BY <1>4, <2>1, <2>2, NoneFits
  <2> QED BY <1>3, <2>3 DEF F
<1>7. CASE fe = "P1bubble"
  <2> DEFINE G == [r \in Ranks |-> CentreSpcs(r, a, dof, Nv)]
  <2>1. F = Both(C, G)
    BY <1>4, <1>7, SpcsAre
  <2>2. Fits(G, L)
    BY <1>5, <1>7, CentresFit DEF VelocityPlaces
  <2> HIDE DEF G
  <2> QED BY <1>3, <2>1, <2>2 DEF F
<1>8. CASE fe = "P1xP2"
  <2> DEFINE G == [r \in Ranks |-> MiddleSpcs(r, a, dof, Upright(r))]
  <2>1. F = Both(C, G)
    BY <1>4, <1>8, SpcsAre
  <2>2. Fits(G, L)
    BY <1>8, UprightMiddlesFit DEF VelocityPlaces
  <2> HIDE DEF G
  <2> QED BY <1>3, <2>1, <2>2 DEF F
<1>9. CASE fe = "P2xP1"
  <2> DEFINE G == [r \in Ranks |-> MiddleSpcs(r, a, dof, MyEdges(r) \ Upright(r))]
  <2>1. F = Both(C, G)
    BY <1>4, <1>9, SpcsAre
  <2>2. Fits(G, L)
    BY <1>9, LevelMiddlesFit DEF VelocityPlaces
  <2> HIDE DEF G
  <2> QED BY <1>3, <2>1, <2>2 DEF F
<1>10. CASE fe = "P1xP3"
  <2> DEFINE G == [r \in Ranks |-> ThirdSpcs(r, a, dof)]
  <2>1. F = Both(C, G)
    BY <1>4, <1>10, SpcsAre
  <2>2. Fits(G, L)
    BY <1>10, ThirdsFit DEF VelocityPlaces
  <2> HIDE DEF G
  <2> QED BY <1>3, <2>1, <2>2 DEF F
<1> DEFINE M == [r \in Ranks |-> MiddleSpcs(r, a, dof, Sides(r))]
<1> DEFINE Q == [r \in Ranks |-> StaticMeans(r, a, dof)]
<1>11. ASSUME fe \in {"P2", "P2bubble"}
       PROVE  Fits(M, L) /\ Fits(Q, L)
  <2>1. PlacesOnce(L, N, MyEs, Ne, Nv) /\ (Kind = "penta" => PlacesOnce(L, N, MyQuads, Nf, Nv + Ne))
    BY <1>11 DEF VelocityPlaces
  <2>2. Fits(M, L)
    BY <2>1, MiddlesFit
  <2> DEFINE Q1 == [r \in Ranks |-> MeanSpcs(r, a, dof)]
  <2>3. Fits(Q1, L)
    BY <2>1, MeansFit
  <2>4. CASE setting.spc.layout = "transient"
    <3>1. \A r \in Ranks : Q[r] = {}
      BY <2>4 DEF StaticMeans
    <3> HIDE DEF Q
    <3>2. Fits(Q, L)
      BY <3>1, NoneFits
    <3> QED BY <2>2, <3>2
  <2>5. CASE setting.spc.layout # "transient"
    <3>1. Q = Q1
      BY <2>5 DEF StaticMeans
    <3> QED BY <2>2, <2>3, <3>1
  <2> QED BY <2>4, <2>5
<1>12. CASE fe = "P2"
  <2> DEFINE G == Both(M, Q)
  <2>1. F = Both(C, G)
    <3>1. \A r \in Ranks : G[r] = MiddleSpcs(r, a, dof, Sides(r)) \cup
                                  StaticMeans(r, a, dof)
      BY DEF Both
    <3>2. \A r \in Ranks : IoModelToConstraints(r, a, fe, dof) =
            CornerSpcs(r, a, dof) \cup (MiddleSpcs(r, a, dof, Sides(r)) \cup StaticMeans(r, a, dof))
      <4>1. ASSUME NEW r \in Ranks
            PROVE  IoModelToConstraints(r, a, "P2", dof) =
                     CornerSpcs(r, a, dof) \cup (MiddleSpcs(r, a, dof, Sides(r)) \cup StaticMeans(r, a, dof))
        BY SpcsAre
      <4> QED BY <1>12, <4>1
    <3> HIDE DEF G
    <3>3. \A r \in Ranks : IoModelToConstraints(r, a, fe, dof) = CornerSpcs(r, a, dof) \cup G[r]
      BY <3>1, <3>2
    <3> QED BY <1>4, <3>3
  <2>2. Fits(G, L)
    <3> HIDE DEF M, Q
    <3> QED BY <1>11, <1>12, BothFit
  <2> HIDE DEF G
  <2> QED BY <1>3, <2>1, <2>2 DEF F
<1>13. CASE fe = "P2bubble"
  <2> DEFINE E == [r \in Ranks |-> CentreSpcs(r, a, dof, AfterP2)]
  <2> DEFINE H == Both(M, Q)
  <2> DEFINE G == Both(H, E)
  <2>1. F = Both(C, G)
    <3>1. \A r \in Ranks : G[r] = (MiddleSpcs(r, a, dof, Sides(r)) \cup
                                    StaticMeans(r, a, dof))
                                  \cup CentreSpcs(r, a, dof, AfterP2)
      BY DEF Both
    <3>2. \A r \in Ranks : IoModelToConstraints(r, a, fe, dof) =
            CornerSpcs(r, a, dof) \cup ((MiddleSpcs(r, a, dof, Sides(r)) \cup StaticMeans(r, a, dof))
                   \cup CentreSpcs(r, a, dof, AfterP2))
      BY <1>13, SpcsAre
    <3> HIDE DEF G
    <3>3. \A r \in Ranks : IoModelToConstraints(r, a, fe, dof) = CornerSpcs(r, a, dof) \cup G[r]
      BY <3>1, <3>2
    <3> QED BY <1>4, <3>3
  <2>2. Fits(E, L)
    <3>1. AfterP2 \in Nat
      BY IoFacts DEF AfterP2, Nv, Ne, Nf, Kind, SpcWorld
    <3> QED BY <1>13, <3>1, CentresFit DEF VelocityPlaces
  <2>3. Fits(H, L)
    <3> HIDE DEF M, Q
    <3> QED BY <1>11, <1>13, BothFit
  <2>4. Fits(G, L)
    <3> HIDE DEF H, E
    <3> QED BY <2>2, <2>3, BothFit
  <2> HIDE DEF G
  <2> QED BY <1>3, <2>1, <2>4 DEF F
<1>14. CASE fe = "P2xP4"
  <2> DEFINE U == [r \in Ranks |-> UprightSpcs(r, a, dof)]
  <2> DEFINE V == [r \in Ranks |-> LevelSpcs(r, a, dof)]
  <2> DEFINE W == [r \in Ranks |-> QuadSpcs(r, a, dof)]
  <2> DEFINE H == Both(U, V)
  <2> DEFINE G == Both(H, W)
  <2>1. F = Both(C, G)
    <3>1. \A r \in Ranks : G[r] = UNION {UprightSpcs(r, a, dof), LevelSpcs(r, a, dof), QuadSpcs(r, a, dof)}
      BY DEF Both
    <3>2. \A r \in Ranks : IoModelToConstraints(r, a, fe, dof) =
            CornerSpcs(r, a, dof) \cup UNION {UprightSpcs(r, a, dof), LevelSpcs(r, a, dof), QuadSpcs(r, a, dof)}
      BY <1>14, SpcsAre
    <3> HIDE DEF G
    <3>3. \A r \in Ranks : IoModelToConstraints(r, a, fe, dof) = CornerSpcs(r, a, dof) \cup G[r]
      BY <3>1, <3>2
    <3> QED BY <1>4, <3>3
  <2>2. /\ PlacesMany(L, N, MyEs, Ne, Nv, 3, EdgeCopies(3, 1))
        /\ PlacesMany(L, N, MyFs, Nf, Nv + 3 * Ne, 3, QuadCopies)
    BY <1>14 DEF VelocityPlaces
  <2>3. Fits(U, L) /\ Fits(V, L)
    BY <2>2, UprightsFit, LevelsFit
  <2>4. Fits(W, L)
    BY <1>14, <2>2, QuadsFit DEF OfPrisms
  <2>5. Fits(H, L)
    <3> HIDE DEF U, V
    <3> QED BY <2>3, BothFit
  <2>6. Fits(G, L)
    <3> HIDE DEF H, W
    <3> QED BY <2>4, <2>5, BothFit
  <2> HIDE DEF G
  <2> QED BY <1>3, <2>1, <2>6 DEF F
<1> QED BY <1>6, <1>7, <1>8, <1>9, <1>10, <1>12, <1>13, <1>14 DEF ScalarElements, F

\* The pressure of a vertex without an equation is imposed where this finite element has it.
PressureIsThere(a) ==
  IsStokes(a) /\ setting.none # {} =>
    \/ a.fe \in {"MINI", "MINIcondensed", "OneLayerP4z"}
    \/ a.fe \in {"TaylorHood", "XTaylorHood"} /\ Kind # "penta"

PressureSpc(N, a, id, v) ==
  [node |-> N + id, analysis |-> a.name, dof |-> 0, field |-> "FSpressure", point |-> {<<v, 24>>}, times |-> {0}]

LEMMA PressuresFit ==
  ASSUME NEW N, SpcWorld(N), NEW L, NEW a, NEW off \in Nat, PlacesOnce(L, N, MyVs, Nv, off), NEW F,
         \A r \in Ranks : F[r] = {PressureSpc(N, a, off + v, v) : v \in MyVertexSet(r) \cap setting.none}
  PROVE  Fits(F, L)
<1> DEFINE W == [v \in 1..Nv |-> {PressureSpc(N, a, off + v, v)}]
<1>1. N \in Nat /\ Nv \in Nat
  BY IoFacts DEF SpcWorld, CounterIs
<1>2. \A i \in 1..Nv : \A c \in W[i] : c.node = N + off + i
  <2>1. \A i \in 1..Nv : N + off + i = N + (off + i)
    BY <1>1
  <2>2. \A i \in 1..Nv : PressureSpc(N, a, off + i, i).node = N + (off + i)
    BY DEF PressureSpc
  <2>3. \A i \in 1..Nv : W[i] = {PressureSpc(N, a, off + i, i)}
    OBVIOUS
  <2> HIDE DEF W
  <2> QED BY <2>1, <2>2, <2>3
<1>3. ASSUME NEW r \in Ranks, NEW c
      PROVE  c \in F[r] <=> \E i \in 1..Nv : i \in MyVs[r] /\ i \in setting.none /\ c \in W[i]
  <2>1. MyVs[r] = MyVertexSet(r) /\ MyVertexSet(r) \subseteq 1..Nv
    BY MineAreThere DEF MyVs, SpcWorld
  <2>2. c \in F[r] <=> \E v \in MyVertexSet(r) \cap setting.none : c = PressureSpc(N, a, off + v, v)
    OBVIOUS
  <2>3. \A v \in 1..Nv : W[v] = {PressureSpc(N, a, off + v, v)}
    OBVIOUS
  <2> HIDE DEF W
  <2> QED BY <2>1, <2>2, <2>3
<1>4. OnceSpcs(F, MyVs, setting.none, Nv, off, N, W)
  <2> HIDE DEF W
  <2> QED BY <1>2, <1>3 DEF OnceSpcs
<1>5. Fits(F, L)
  <2> HIDE DEF W
  <2> QED BY <1>4, OnceFits
<1> QED BY <1>5

PressureOf(a, interpolation) == [r \in Ranks |-> PressureSpcs(r, a, interpolation)]

LEMMA PressureFit ==
  ASSUME NEW N, NEW a, AnalysisWorld(N, a), NEW L, IsStokes(a), PressureIsThere(a),
         PressurePlaces(L, N, FiniteElement(a))
  PROVE  Fits(PressureOf(a, VelocityInterpolation(FiniteElement(a))), L)
<1> DEFINE fe == VelocityInterpolation(FiniteElement(a))
<1> DEFINE F == PressureOf(a, fe)
<1>1. SpcWorld(N) /\ \A r \in Ranks : nodecounter[r] = N
  BY DEF SpcWorld, AnalysisWorld, CounterIs
<1>2. Nv \in Nat /\ Nel \in Nat /\ Ne \in Nat
  BY IoFacts DEF AnalysisWorld
<1>3. FiniteElement(a) = a.fe
  BY DEF FiniteElement, IsStokes
<1>4. CASE setting.none = {}
  <2>1. ASSUME NEW r \in Ranks
        PROVE  F[r] = {}
    <3>1. MyVertexSet(r) \cap setting.none = {}
      BY <1>4
    <3>2. F[r] = PressureSpcs(r, a, fe)
      BY DEF PressureOf
    <3> HIDE DEF F, fe
    <3>3. PressureSpcs(r, a, fe) = {}
      BY <3>1 DEF PressureSpcs
    <3> QED BY <3>2, <3>3
  <2> HIDE DEF F
  <2>2. Fits(F, L)
    BY <2>1, NoneFits
  <2> QED BY <2>2 DEF F
<1>5. CASE a.fe = "OneLayerP4z"
  <2>1. fe = "P2xP4"
    BY <1>3, <1>5 DEF VelocityInterpolation
  <2>2. \A r \in Ranks : F[r] = {}
    BY <2>1 DEF PressureOf, PressureSpcs
  <2> HIDE DEF F
  <2>3. Fits(F, L)
    BY <2>2, NoneFits
  <2> QED BY <2>3 DEF F
<1>6. CASE a.fe \in {"MINI", "MINIcondensed"}
  <2>1. fe = "P1bubble"
    BY <1>3, <1>6 DEF VelocityInterpolation
  <2>2. \A r \in Ranks : PressureSpcs(r, a, "P1bubble") =
          {PressureSpc(N, a, Nv + Nel + v, v) : v \in MyVertexSet(r) \cap setting.none}
    <3>1. \A r \in Ranks : \A v \in MyVertexSet(r) : nodecounter[r] + (Nv + Nel) + v = N + (Nv + Nel + v)
      <4>1. \A r \in Ranks : MyVertexSet(r) \subseteq 1..Nv
        BY MineAreThere DEF AnalysisWorld
      <4>2. N \in Nat
        BY DEF AnalysisWorld, CounterIs
      <4>3. \A v \in 1..Nv : N + (Nv + Nel) + v = N + (Nv + Nel + v)
        BY <1>2, <4>2
      <4> QED BY <1>1, <4>1, <4>3
    <3>2. \A r \in Ranks : PressureSpcs(r, a, "P1bubble") =
            {[node |-> nodecounter[r] + (Nv + Nel) + v, analysis |-> a.name, dof |-> 0, field |-> "FSpressure",
              point |-> {<<v, 24>>}, times |-> {0}] : v \in MyVertexSet(r) \cap setting.none}
      BY DEF PressureSpcs, Nv, Nel
    <3> QED BY <3>1, <3>2 DEF PressureSpc
  <2>3. \A r \in Ranks : F[r] = {PressureSpc(N, a, Nv + Nel + v, v) : v \in MyVertexSet(r) \cap setting.none}
    <3>1. \A r \in Ranks : F[r] = PressureSpcs(r, a, "P1bubble")
      BY <2>1 DEF PressureOf
    <3> HIDE DEF F
    <3> QED BY <2>2, <3>1
  <2>4. PlacesOnce(L, N, MyVs, Nv, Nv + Nel) /\ Nv + Nel \in Nat
    BY <1>2, <1>3, <1>6 DEF PressurePlaces
  <2> DEFINE off == Nv + Nel
  <2> HIDE DEF F
  <2>5. Fits(F, L)
    <3>1. \A r \in Ranks : F[r] = {PressureSpc(N, a, off + v, v) : v \in MyVertexSet(r) \cap setting.none}
      BY <2>3
    <3>2. PlacesOnce(L, N, MyVs, Nv, off) /\ off \in Nat
      BY <2>4
    <3> HIDE DEF off
    <3> QED BY <1>1, <3>1, <3>2, PressuresFit
  <2> QED BY <2>5 DEF F
<1>7. CASE a.fe \in {"TaylorHood", "XTaylorHood"} /\ Kind # "penta"
  <2>1. fe = "P2"
    BY <1>3, <1>7 DEF VelocityInterpolation
  <2>2. \A r \in Ranks : PressureSpcs(r, a, "P2") =
          {PressureSpc(N, a, Nv + Ne + v, v) : v \in MyVertexSet(r) \cap setting.none}
    <3>1. \A r \in Ranks : \A v \in MyVertexSet(r) : nodecounter[r] + (Nv + Ne) + v = N + (Nv + Ne + v)
      <4>1. \A r \in Ranks : MyVertexSet(r) \subseteq 1..Nv
        BY MineAreThere DEF AnalysisWorld
      <4>2. N \in Nat
        BY DEF AnalysisWorld, CounterIs
      <4>3. \A v \in 1..Nv : N + (Nv + Ne) + v = N + (Nv + Ne + v)
        BY <1>2, <4>2
      <4> QED BY <1>1, <4>1, <4>3
    <3>2. \A r \in Ranks : PressureSpcs(r, a, "P2") =
            {[node |-> nodecounter[r] + (Nv + Ne) + v, analysis |-> a.name, dof |-> 0, field |-> "FSpressure",
              point |-> {<<v, 24>>}, times |-> {0}] : v \in MyVertexSet(r) \cap setting.none}
      BY DEF PressureSpcs, Nv, Ne
    <3> QED BY <3>1, <3>2 DEF PressureSpc
  <2>3. \A r \in Ranks : F[r] = {PressureSpc(N, a, Nv + Ne + v, v) : v \in MyVertexSet(r) \cap setting.none}
    <3>1. \A r \in Ranks : F[r] = PressureSpcs(r, a, "P2")
      BY <2>1 DEF PressureOf
    <3> HIDE DEF F
    <3> QED BY <2>2, <3>1
  <2> DEFINE off == Nv + Ne
  <2>4. PlacesOnce(L, N, MyVs, Nv, off) /\ off \in Nat
    <3>1. AfterP2 = Nv + Ne
      <4>1. AfterP2 = Nv + Ne + 0
        BY <1>7 DEF AfterP2, Nv, Ne, Kind
      <4> QED BY <1>2, <4>1
    <3> QED BY <1>2, <1>3, <1>7, <3>1 DEF PressurePlaces
  <2> HIDE DEF F
  <2>5. Fits(F, L)
    <3>1. \A r \in Ranks : F[r] = {PressureSpc(N, a, off + v, v) : v \in MyVertexSet(r) \cap setting.none}
      BY <2>3
    <3> HIDE DEF off
    <3> QED BY <1>1, <2>4, <3>1, PressuresFit
  <2> QED BY <2>5 DEF F
<1> QED BY <1>4, <1>5, <1>6, <1>7 DEF PressureIsThere

AllFit(a, fe, D, L) == \A dof \in D : Fits(SpcsOf(a, fe, dof), L)

IsAllOf(F, a, fe, D) == \A r \in Ranks : F[r] = UNION {IoModelToConstraints(r, a, fe, dof) : dof \in D}

LEMMA EachFits ==
  ASSUME NEW a, NEW fe, NEW D, NEW L, AllFit(a, fe, D, L), NEW F, IsAllOf(F, a, fe, D)
  PROVE  Fits(F, L)
<1>1. \A r \in Ranks : \A c, dof : c \in SpcsOf(a, fe, dof)[r] <=> c \in IoModelToConstraints(r, a, fe, dof)
  BY DEF SpcsOf
<1>2. \A r \in Ranks : \A c : c \in F[r] <=> \E dof \in D : c \in SpcsOf(a, fe, dof)[r]
  BY <1>1 DEF IsAllOf
<1>3. ASSUME NEW r \in Ranks, NEW c \in F[r]
      PROVE  /\ c.node \in Ids(L[r])
             /\ \A q \in Ranks : c.node \in Ids(L[q]) => c \in F[q]
  <2>1. PICK dof \in D : c \in SpcsOf(a, fe, dof)[r]
    BY <1>2, <1>3
  <2>2. /\ c.node \in Ids(L[r])
        /\ \A q \in Ranks : c.node \in Ids(L[q]) => c \in SpcsOf(a, fe, dof)[q]
    BY <2>1 DEF Fits, AllFit
  <2> QED BY <1>2, <2>2
<1> QED BY <1>3 DEF Fits

AllSpcs(a) == [r \in Ranks |-> CreateConstraints(r, a)]

Dofs(a) == IF IsStokes(a) THEN IF iomodel.mesh.domain = "2Dvertical" THEN {0, 1} ELSE {0, 1, 2}
           ELSE IF iomodel.mesh.domain = "2Dvertical" THEN {0} ELSE {0, 1}

LEMMA StressSpcs ==
  ASSUME NEW r, NEW a, a.name = "Stressbalance"
  PROVE  LET fe == VelocityInterpolation(FiniteElement(a))
             On == UNION {IoModelToConstraints(r, a, fe, dof) : dof \in Dofs(a)}
         IN  StressbalanceConstraints(r, a) = IF IsStokes(a) THEN On \cup PressureSpcs(r, a, fe) ELSE On
<1>1. IsStokes(a) <=> a.model = "FS"
  BY DEF IsStokes
<1> QED BY <1>1 DEF StressbalanceConstraints, Dofs

\* The interpolation of the velocity is one of a scalar element, and one that has a pressure for
\* full Stokes.
LEMMA VelocityIsScalar ==
  ASSUME NEW a, AnalysisIs(a), a.name = "Stressbalance"
  PROVE  LET fe == VelocityInterpolation(FiniteElement(a))
         IN  /\ fe \in ScalarElements /\ (fe \in OfPrisms => Kind = "penta")
             /\ IsStokes(a) => fe \in {"P1", "P1bubble", "P2", "P2bubble", "P2xP4"}
<1> DEFINE fe == VelocityInterpolation(FiniteElement(a))
<1>1. FiniteElement(a) = IF a.model = "L1L2" THEN "P1" ELSE a.fe
  BY DEF FiniteElement
<1>2. CASE FiniteElement(a) \in StokesElements
  <2>1. FiniteElement(a) = a.fe
    BY <1>1, <1>2 DEF StokesElements
  <2>2. fe \in {"P1", "P1bubble", "P2", "P2bubble"} \/ (fe = "P2xP4" /\ a.fe = "OneLayerP4z")
    <3>1. a.fe \in StokesElements
      BY <1>2, <2>1
    <3> DEFINE x == a.fe
    <3> DEFINE y == VelocityInterpolation(x)
    <3>2. y \in {"P1", "P1bubble", "P2", "P2bubble"} \/ (y = "P2xP4" /\ x = "OneLayerP4z")
      <4>1. CASE x \in {"P1P1", "P1P1GLS"}
        BY <4>1 DEF VelocityInterpolation
      <4>2. CASE x \in {"MINI", "MINIcondensed"}
        BY <4>2 DEF VelocityInterpolation
      <4>3. CASE x \in {"TaylorHood", "XTaylorHood", "LATaylorHood"}
        BY <4>3 DEF VelocityInterpolation
      <4>4. CASE x = "OneLayerP4z"
        BY <4>4 DEF VelocityInterpolation
      <4>5. CASE x \in {"CrouzeixRaviart", "LACrouzeixRaviart"}
        BY <4>5 DEF VelocityInterpolation
      <4> QED BY <3>1, <4>1, <4>2, <4>3, <4>4, <4>5 DEF StokesElements
    <3> QED BY <2>1, <3>2
  <2> QED BY <2>2 DEF ScalarElements, OfPrisms, AnalysisIs
<1>3. CASE FiniteElement(a) \notin StokesElements
  <2>1. FiniteElement(a) \in ScalarElements
    BY <1>1, <1>3 DEF AnalysisIs, ScalarElements
  <2>2. fe = FiniteElement(a)
    BY <2>1 DEF VelocityInterpolation, ScalarElements
  <2>3. FiniteElement(a) \in OfPrisms => Kind = "penta"
    BY <1>1 DEF AnalysisIs, OfPrisms
  <2>4. ~ IsStokes(a)
    BY <1>1, <1>3 DEF AnalysisIs, IsStokes
  <2> QED BY <2>1, <2>2, <2>3, <2>4
<1> QED BY <1>2, <1>3

LEMMA ConstraintsFit ==
  ASSUME NEW N, NEW a, AnalysisWorld(N, a), PressureIsThere(a)
  PROVE  Fits(AllSpcs(a), AllNodes(a))
<1> DEFINE L == AllNodes(a)
<1> DEFINE F == AllSpcs(a)
<1> DEFINE fe == VelocityInterpolation(FiniteElement(a))
<1>1. SpcWorld(N) /\ AnalysisIs(a)
  BY DEF SpcWorld, AnalysisWorld
<1>2. \A r \in Ranks : F[r] = CreateConstraints(r, a)
  BY DEF AllSpcs
<1>3. /\ IsSolved(a) /\ FiniteElement(a) # "P1DG" => VelocityPlaces(L, N, fe)
      /\ IsStokes(a) => PressurePlaces(L, N, FiniteElement(a))
  BY NodesMade
<1> HIDE DEF L, F
<1>4. CASE ~ IsSolved(a) \/ a.name = "Melting" \/ (a.name = "Masstransport" /\ a.stabilization = 3)
  <2>1. \A r \in Ranks : CreateConstraints(r, a) = {}
    BY <1>4 DEF CreateConstraints
  <2>2. Fits(F, L)
    BY <1>2, <2>1, NoneFits
  <2> QED BY <2>2 DEF F, L
<1>5. CASE IsSolved(a) /\ a.name = "Stressbalance"
  <2>1. FiniteElement(a) = IF a.model = "L1L2" THEN "P1" ELSE a.fe
    BY <1>5 DEF FiniteElement
  <2>2. FiniteElement(a) # "P1DG"
    BY <1>1, <2>1 DEF AnalysisIs, ScalarElements, StokesElements
  <2>3. fe \in ScalarElements /\ (fe \in OfPrisms => Kind = "penta")
    BY <1>1, <1>5, VelocityIsScalar
  <2>4. VelocityPlaces(L, N, fe)
    BY <1>3, <1>5, <2>2
  <2> HIDE DEF fe
  <2>5. \A dof \in Dofs(a) : Fits(SpcsOf(a, fe, dof), L)
    BY <1>1, <2>3, <2>4, SpcsFit
  <2> DEFINE V == [r \in Ranks |-> UNION {IoModelToConstraints(r, a, fe, dof) : dof \in Dofs(a)}]
  <2>6. \A r \in Ranks : V[r] = UNION {IoModelToConstraints(r, a, fe, dof) : dof \in Dofs(a)}
    OBVIOUS
  <2>7. \A r \in Ranks : CreateConstraints(r, a) = StressbalanceConstraints(r, a)
    BY <1>5 DEF CreateConstraints
  <2>8. \A r \in Ranks : F[r] = IF IsStokes(a) THEN V[r] \cup PressureSpcs(r, a, fe) ELSE V[r]
    BY <1>2, <1>5, <2>6, <2>7, StressSpcs DEF fe
  <2> HIDE DEF V
  <2>9. Fits(V, L)
    <3>1. AllFit(a, fe, Dofs(a), L) /\ IsAllOf(V, a, fe, Dofs(a))
      BY <2>5, <2>6 DEF AllFit, IsAllOf
    <3> QED BY <3>1, EachFits
  <2>10. CASE IsStokes(a)
    <3> DEFINE P == PressureOf(a, fe)
    <3>1. Fits(P, L)
      BY <1>3, <2>10, PressureFit DEF fe
    <3>2. \A r \in Ranks : P[r] = PressureSpcs(r, a, fe)
      BY DEF PressureOf
    <3> HIDE DEF P
    <3> DEFINE G == Both(V, P)
    <3>3. Fits(G, L)
      BY <2>9, <3>1, BothFit
    <3>4. \A r \in Ranks : G[r] = F[r]
      BY <2>8, <2>10, <3>2 DEF Both
    <3> HIDE DEF G
    <3>5. Fits(F, L)
      BY <3>3, <3>4 DEF Fits
    <3> QED BY <3>5 DEF F, L
  <2>11. CASE ~ IsStokes(a)
    <3>1. \A r \in Ranks : F[r] = V[r]
      BY <2>8, <2>11
    <3>2. Fits(F, L)
      BY <2>9, <3>1 DEF Fits
    <3> QED BY <3>2 DEF F, L
  <2> QED BY <2>10, <2>11
<1>6. CASE /\ IsSolved(a) /\ a.name # "Melting" /\ a.name # "Stressbalance"
           /\ ~ (a.name = "Masstransport" /\ a.stabilization = 3)
  <2>1. FiniteElement(a) = "P1"
    <3>1. CASE a.name = "Masstransport"
      BY <1>6, <3>1 DEF FiniteElement
    <3>2. CASE a.name # "Masstransport"
      BY <1>6, <3>2 DEF FiniteElement
    <3> QED BY <3>1, <3>2
  <2>2. fe = "P1"
    BY <2>1 DEF VelocityInterpolation
  <2>3. VelocityPlaces(L, N, "P1")
    BY <1>3, <1>6, <2>1, <2>2
  <2>4. Fits(SpcsOf(a, "P1", 0), L)
    BY <1>1, <2>3, SpcsFit DEF ScalarElements, OfPrisms
  <2>5. \A r \in Ranks : CreateConstraints(r, a) = IoModelToConstraints(r, a, "P1", 0)
    BY <1>6 DEF CreateConstraints
  <2> DEFINE G == SpcsOf(a, "P1", 0)
  <2>6. \A r \in Ranks : F[r] = G[r]
    BY <1>2, <2>5 DEF SpcsOf
  <2> HIDE DEF G
  <2>7. Fits(F, L)
    BY <2>4, <2>6 DEF Fits, G
  <2> QED BY <2>7 DEF F, L
<1> QED BY <1>4, <1>5, <1>6

-----------------------------------------------------------------------------
(***************************************************************************)
(* What a rank creates depends on its own elements, vertices and counter,  *)
(* and on the mesh: a step that keeps these changes none of it.            *)
(***************************************************************************)
Kept(q) == /\ iomodel' = iomodel /\ setting' = setting /\ my_elements'[q] = my_elements[q]
           /\ my_vertices'[q] = my_vertices[q] /\ nodecounter'[q] = nodecounter[q]

LEMMA KeptMesh ==
  ASSUME NEW q, Kept(q)
  PROVE  /\ Nv' = Nv /\ Nel' = Nel /\ Ne' = Ne /\ Nf' = Nf /\ AfterP2' = AfterP2 /\ Kind' = Kind
         /\ MyVertexSet(q)' = MyVertexSet(q) /\ MyEdges(q)' = MyEdges(q) /\ MyFaces(q)' = MyFaces(q)
         /\ Quads' = Quads /\ QuadCopies' = QuadCopies
         /\ DiscontinuousNodes(q)' = DiscontinuousNodes(q)
<1> USE DEF Kept, Nv, Nel, Ne, Nf, NumberOfVertices, NumberOfElements, NumberOfEdges, NumberOfFaces
<1>1. Nv' = Nv /\ Nel' = Nel /\ Ne' = Ne /\ Nf' = Nf /\ Kind' = Kind
  BY DEF Kind
<1>2. AfterP2' = AfterP2
  BY DEF AfterP2
<1>3. MyVertexSet(q)' = MyVertexSet(q)
  BY DEF MyVertexSet, Vertices
<1>4. MyEdges(q)' = MyEdges(q)
  BY DEF MyEdges
<1>5. MyFaces(q)' = MyFaces(q)
  BY DEF MyFaces
<1>6. Quads' = Quads
  BY DEF Quads
<1>7. QuadCopies' = QuadCopies
  BY DEF QuadCopies, Quads
<1>8. DiscontinuousNodes(q)' = DiscontinuousNodes(q)
  <2> DEFINE foreign == {f \in Range(iomodel.faces) :
                          /\ iomodel.mesh.domain = "2Dhorizontal"
                          /\ f.e1 \in my_elements[q] /\ f.e2 # 0 /\ f.e2 \notin my_elements[q]}
  <2>1. foreign' = foreign
    OBVIOUS
  <2> QED BY <2>1 DEF DiscontinuousNodes, PlaceOf
<1> QED BY <1>1, <1>2, <1>3, <1>4, <1>5, <1>6, <1>7, <1>8

LEMMA KeptCopies ==
  ASSUME NEW q, Kept(q), NEW x, NEW y
  PROVE  EdgeCopies(x, y)' = EdgeCopies(x, y)
BY DEF Kept, EdgeCopies

\* The nodes, block by block.
LEMMA KeptBlocks ==
  ASSUME NEW q, Kept(q), NEW a, NEW p, NEW o
  PROVE  /\ AtVertices(q, a, o, p)' = AtVertices(q, a, o, p)
         /\ AtElements(q, a, o, p)' = AtElements(q, a, o, p)
         /\ AtEdges(q, a, p)' = AtEdges(q, a, p)
         /\ AtQuads(q, a, p)' = AtQuads(q, a, p)
<1> USE DEF Kept, NodesOn, Node, Frozen, Once, MyVertexSet, Vertices, MyEdges, MyFaces,
            NumberOfVertices, NumberOfElements, NumberOfEdges, NumberOfFaces
<1>1. AtVertices(q, a, o, p)' = AtVertices(q, a, o, p)
  BY DEF AtVertices
<1>2. AtElements(q, a, o, p)' = AtElements(q, a, o, p)
  BY DEF AtElements
<1>3. AtEdges(q, a, p)' = AtEdges(q, a, p)
  BY DEF AtEdges
<1>4. AtQuads(q, a, p)' = AtQuads(q, a, p)
  BY DEF AtQuads, Quads
<1> QED BY <1>1, <1>2, <1>3, <1>4

LEMMA KeptCounted ==
  ASSUME NEW q, Kept(q), NEW a, NEW p, NEW k, NEW x, NEW y
  PROVE  /\ CountedEdges(q, a, k, EdgeCopies(x, y), p)' = CountedEdges(q, a, k, EdgeCopies(x, y), p)
         /\ CountedQuads(q, a, EdgeCopies(x, y), p)' = CountedQuads(q, a, EdgeCopies(x, y), p)
<1>1. /\ EdgeCopies(x, y)' = EdgeCopies(x, y) /\ QuadCopies' = QuadCopies
      /\ MyEdges(q)' = MyEdges(q) /\ MyFaces(q)' = MyFaces(q)
  BY KeptMesh, KeptCopies
<1> USE DEF Kept, NodesOn, Node, Frozen, NumberOfVertices, NumberOfElements, NumberOfEdges, NumberOfFaces
<1>2. CountedEdges(q, a, k, EdgeCopies(x, y), p)' = CountedEdges(q, a, k, EdgeCopies(x, y), p)
  BY <1>1 DEF CountedEdges
<1>3. CountedQuads(q, a, EdgeCopies(x, y), p)' = CountedQuads(q, a, EdgeCopies(x, y), p)
  BY <1>1 DEF CountedQuads
<1> QED BY <1>2, <1>3

LEMMA KeptBubbles ==
  ASSUME NEW q, Kept(q), NEW a, NEW p
  PROVE  /\ AtElements(q, a, NumberOfVertices(iomodel), p)' = AtElements(q, a, NumberOfVertices(iomodel), p)
         /\ AtElements(q, a, AfterP2, p)' = AtElements(q, a, AfterP2, p)
         /\ HardDeactivate(AtElements(q, a, NumberOfVertices(iomodel), p))' =
              HardDeactivate(AtElements(q, a, NumberOfVertices(iomodel), p))
<1>1. AfterP2' = AfterP2
  BY KeptMesh
<1> USE DEF Kept, NodesOn, Node, Frozen, Once, AtElements, NumberOfVertices, NumberOfElements
<1>2. AtElements(q, a, NumberOfVertices(iomodel), p)' = AtElements(q, a, NumberOfVertices(iomodel), p)
  OBVIOUS
<1>3. AtElements(q, a, AfterP2, p)' = AtElements(q, a, AfterP2, p)
  BY <1>1
<1> HIDE DEF Kept, NodesOn, Node, Frozen, Once, AtElements, NumberOfVertices, NumberOfElements
<1>4. HardDeactivate(AtElements(q, a, NumberOfVertices(iomodel), p))' =
              HardDeactivate(AtElements(q, a, NumberOfVertices(iomodel), p))
  BY <1>2 DEF HardDeactivate
<1> QED BY <1>2, <1>3, <1>4

LEMMA KeptP2 ==
  ASSUME NEW q, Kept(q), NEW a, NEW p
  PROVE  /\ AtP2(q, a, p)' = AtP2(q, a, p) /\ AtP2bubble(q, a, p)' = AtP2bubble(q, a, p)
         /\ AtP2xP4(q, a, p)' = AtP2xP4(q, a, p)
<1>1. AtP2(q, a, p)' = AtP2(q, a, p)
  BY KeptBlocks DEF AtP2
<1>2. AtP2bubble(q, a, p)' = AtP2bubble(q, a, p)
  BY <1>1, KeptBubbles DEF AtP2bubble
<1>3. AtP2xP4(q, a, p)' = AtP2xP4(q, a, p)
  BY KeptBlocks, KeptCounted DEF AtP2xP4
<1> QED BY <1>1, <1>2, <1>3

LEMMA KeptCorners ==
  ASSUME NEW q, Kept(q), NEW a, NEW p
  PROVE  ScalarNodes(q, a, "P1DG", p)' = ScalarNodes(q, a, "P1DG", p)
<1> DEFINE DG == FlattenSeq([e \in Elements |-> DGEntry(q, a, e, 1, p) \o DGEntry(q, a, e, 2, p) \o DGEntry(q, a, e, 3, p)])
<1>1. ScalarNodes(q, a, "P1DG", p) = DG
  BY DEF ScalarNodes, DGEntry, DGCorner
<1>2. ScalarNodes(q, a, "P1DG", p)' = DG'
  BY DEF ScalarNodes, DGEntry, DGCorner
<1>3. \A e, c : DGEntry(q, a, e, c, p)' = DGEntry(q, a, e, c, p)
  <2> SUFFICES ASSUME NEW e, NEW c PROVE DGEntry(q, a, e, c, p)' = DGEntry(q, a, e, c, p)
    OBVIOUS
  <2>1. DiscontinuousNodes(q)' = DiscontinuousNodes(q)
    BY KeptMesh
  <2> QED BY <2>1 DEF DGEntry, DGCorner, Node, Frozen, Kept
<1>4. Elements' = Elements
  BY DEF Elements, Kept, NumberOfElements
<1>5. DG' = DG
  BY <1>3, <1>4
<1> QED BY <1>1, <1>2, <1>5

LEMMA KeptScalar ==
  ASSUME NEW q, Kept(q), NEW a, NEW p, NEW fe \in ScalarElements \cup {"P1DG"}
  PROVE  ScalarNodes(q, a, fe, p)' = ScalarNodes(q, a, fe, p)
<1> DEFINE P1 == AtVertices(q, a, 0, p)
<1>1. ScalarNodes(q, a, "P1", p)' = ScalarNodes(q, a, "P1", p)
  <2> DEFINE L == P1
  <2>1. ScalarNodes(q, a, "P1", p) = L
    BY DEF ScalarNodes
  <2>2. ScalarNodes(q, a, "P1", p)' = L'
    BY DEF ScalarNodes
  <2>3. L' = L
    BY KeptBlocks, KeptBubbles, KeptCounted, KeptP2
  <2> QED BY <2>1, <2>2, <2>3
<1>2. ScalarNodes(q, a, "P1bubble", p)' = ScalarNodes(q, a, "P1bubble", p)
  <2> DEFINE L == P1 \o AtElements(q, a, NumberOfVertices(iomodel), p)
  <2>1. ScalarNodes(q, a, "P1bubble", p) = L
    BY DEF ScalarNodes
  <2>2. ScalarNodes(q, a, "P1bubble", p)' = L'
    BY DEF ScalarNodes
  <2>3. L' = L
    BY KeptBlocks, KeptBubbles, KeptCounted, KeptP2
  <2> QED BY <2>1, <2>2, <2>3
<1>3. ScalarNodes(q, a, "P1bubblecondensed", p)' = ScalarNodes(q, a, "P1bubblecondensed", p)
  <2> DEFINE L == P1 \o HardDeactivate(AtElements(q, a, NumberOfVertices(iomodel), p))
  <2>1. ScalarNodes(q, a, "P1bubblecondensed", p) = L
    BY DEF ScalarNodes
  <2>2. ScalarNodes(q, a, "P1bubblecondensed", p)' = L'
    BY DEF ScalarNodes
  <2>3. L' = L
    BY KeptBlocks, KeptBubbles, KeptCounted, KeptP2
  <2> QED BY <2>1, <2>2, <2>3
<1>4. ScalarNodes(q, a, "P1xP2", p)' = ScalarNodes(q, a, "P1xP2", p)
  <2> DEFINE L == P1 \o CountedEdges(q, a, 1, EdgeCopies(1, 0), p)
  <2>1. ScalarNodes(q, a, "P1xP2", p) = L
    BY DEF ScalarNodes
  <2>2. ScalarNodes(q, a, "P1xP2", p)' = L'
    BY DEF ScalarNodes
  <2>3. L' = L
    BY KeptBlocks, KeptBubbles, KeptCounted, KeptP2
  <2> QED BY <2>1, <2>2, <2>3
<1>5. ScalarNodes(q, a, "P1xP3", p)' = ScalarNodes(q, a, "P1xP3", p)
  <2> DEFINE L == P1 \o CountedEdges(q, a, 2, EdgeCopies(2, 0), p)
  <2>1. ScalarNodes(q, a, "P1xP3", p) = L
    BY DEF ScalarNodes
  <2>2. ScalarNodes(q, a, "P1xP3", p)' = L'
    BY DEF ScalarNodes
  <2>3. L' = L
    BY KeptBlocks, KeptBubbles, KeptCounted, KeptP2
  <2> QED BY <2>1, <2>2, <2>3
<1>6. ScalarNodes(q, a, "P2xP1", p)' = ScalarNodes(q, a, "P2xP1", p)
  <2> DEFINE L == P1 \o CountedEdges(q, a, 1, EdgeCopies(0, 1), p)
  <2>1. ScalarNodes(q, a, "P2xP1", p) = L
    BY DEF ScalarNodes
  <2>2. ScalarNodes(q, a, "P2xP1", p)' = L'
    BY DEF ScalarNodes
  <2>3. L' = L
    BY KeptBlocks, KeptBubbles, KeptCounted, KeptP2
  <2> QED BY <2>1, <2>2, <2>3
<1>7. ScalarNodes(q, a, "P2", p)' = ScalarNodes(q, a, "P2", p)
  <2> DEFINE L == AtP2(q, a, p)
  <2>1. ScalarNodes(q, a, "P2", p) = L
    BY DEF ScalarNodes
  <2>2. ScalarNodes(q, a, "P2", p)' = L'
    BY DEF ScalarNodes
  <2>3. L' = L
    BY KeptBlocks, KeptBubbles, KeptCounted, KeptP2
  <2> QED BY <2>1, <2>2, <2>3
<1>8. ScalarNodes(q, a, "P2bubble", p)' = ScalarNodes(q, a, "P2bubble", p)
  <2> DEFINE L == AtP2bubble(q, a, p)
  <2>1. ScalarNodes(q, a, "P2bubble", p) = L
    BY DEF ScalarNodes
  <2>2. ScalarNodes(q, a, "P2bubble", p)' = L'
    BY DEF ScalarNodes
  <2>3. L' = L
    BY KeptBlocks, KeptBubbles, KeptCounted, KeptP2
  <2> QED BY <2>1, <2>2, <2>3
<1>9. ScalarNodes(q, a, "P2xP4", p)' = ScalarNodes(q, a, "P2xP4", p)
  <2> DEFINE L == AtP2xP4(q, a, p)
  <2>1. ScalarNodes(q, a, "P2xP4", p) = L
    BY DEF ScalarNodes
  <2>2. ScalarNodes(q, a, "P2xP4", p)' = L'
    BY DEF ScalarNodes
  <2>3. L' = L
    BY KeptBlocks, KeptBubbles, KeptCounted, KeptP2
  <2> QED BY <2>1, <2>2, <2>3
<1> QED BY <1>1, <1>2, <1>3, <1>4, <1>5, <1>6, <1>7, <1>8, <1>9, KeptCorners DEF ScalarElements

LayerPressure(q, a, counter) ==
  NodesOn(NumberOfVertices(iomodel), MyVertexSet(q), Once,
          LAMBDA i, c : Node(q, a, PressureOffset("OneLayerP4z") + i, counter + i, i, "FSpressure"))

CornerPressures(q, a) ==
  NodesOn(NumberOfElements(iomodel), my_elements[q], LAMBDA e : Len(iomodel.mesh.elements[e]),
          LAMBDA e, p : Node(q, a, PressureOffset("CrouzeixRaviart") + Len(iomodel.mesh.elements[e]) * (e - 1) + p,
                             (PressureOffset("CrouzeixRaviart") + Len(iomodel.mesh.elements[e]) * (e - 1) + p) - 1,
                             iomodel.mesh.elements[e][p], "FSpressure"))

LEMMA KeptOffsets ==
  ASSUME NEW q, Kept(q), NEW fe \in StokesElements \ {"LATaylorHood", "LACrouzeixRaviart"}
  PROVE  PressureOffset(fe)' = PressureOffset(fe)
<1> USE DEF NumberOfVertices, NumberOfElements, NumberOfEdges, NumberOfFaces
<1>1. AfterP2' = AfterP2
  BY KeptMesh
<1>2. CASE fe \in {"P1P1", "P1P1GLS"}
  <2> DEFINE off == NumberOfVertices(iomodel)
  <2>1. PressureOffset(fe) = off
    BY <1>2 DEF PressureOffset
  <2>2. PressureOffset(fe)' = off'
    BY <1>2 DEF PressureOffset
  <2>3. off' = off
    BY <1>1 DEF Kept
  <2> QED BY <2>1, <2>2, <2>3
<1>3. CASE fe \in {"MINI", "MINIcondensed"}
  <2> DEFINE off == NumberOfVertices(iomodel) + NumberOfElements(iomodel)
  <2>1. PressureOffset(fe) = off
    BY <1>3 DEF PressureOffset
  <2>2. PressureOffset(fe)' = off'
    BY <1>3 DEF PressureOffset
  <2>3. off' = off
    BY <1>1 DEF Kept
  <2> QED BY <2>1, <2>2, <2>3
<1>4. CASE fe \in {"TaylorHood", "XTaylorHood"}
  <2> DEFINE off == AfterP2
  <2>1. PressureOffset(fe) = off
    BY <1>4 DEF PressureOffset
  <2>2. PressureOffset(fe)' = off'
    BY <1>4 DEF PressureOffset
  <2>3. off' = off
    BY <1>1 DEF Kept
  <2> QED BY <2>1, <2>2, <2>3
<1>5. CASE fe \in {"OneLayerP4z"}
  <2> DEFINE off == NumberOfVertices(iomodel) + 3 * NumberOfEdges(iomodel) + 3 * NumberOfFaces(iomodel)
  <2>1. PressureOffset(fe) = off
    BY <1>5 DEF PressureOffset
  <2>2. PressureOffset(fe)' = off'
    BY <1>5 DEF PressureOffset
  <2>3. off' = off
    BY <1>1 DEF Kept
  <2> QED BY <2>1, <2>2, <2>3
<1>6. CASE fe \in {"CrouzeixRaviart"}
  <2> DEFINE off == AfterP2 + NumberOfElements(iomodel)
  <2>1. PressureOffset(fe) = off
    BY <1>6 DEF PressureOffset
  <2>2. PressureOffset(fe)' = off'
    BY <1>6 DEF PressureOffset
  <2>3. off' = off
    BY <1>1 DEF Kept
  <2> QED BY <2>1, <2>2, <2>3
<1> QED BY <1>2, <1>3, <1>4, <1>5, <1>6 DEF StokesElements

LEMMA KeptPressure ==
  ASSUME NEW q, Kept(q), NEW a, NEW fe \in StokesElements \ {"LATaylorHood", "LACrouzeixRaviart"}
  PROVE  AtVertices(q, a, PressureOffset(fe), "FSpressure")' = AtVertices(q, a, PressureOffset(fe), "FSpressure")
<1>1. PressureOffset(fe)' = PressureOffset(fe)
  BY KeptOffsets
<1> QED BY <1>1 DEF Kept, AtVertices, NodesOn, Node, Frozen, Once, MyVertexSet, Vertices, NumberOfVertices

LEMMA KeptLayer ==
  ASSUME NEW q, Kept(q), NEW a
  PROVE  LayerPressure(q, a, LayerCounter)' = LayerPressure(q, a, LayerCounter)
<1>1. PressureOffset("OneLayerP4z")' = PressureOffset("OneLayerP4z")
  BY KeptOffsets DEF StokesElements
<1>2. LayerCounter' = LayerCounter
  BY KeptMesh, KeptCopies DEF LayerCounter
<1> QED BY <1>1, <1>2 DEF Kept, LayerPressure, NodesOn, Node, Frozen, Once, MyVertexSet, Vertices, NumberOfVertices

LEMMA KeptCornerPressures ==
  ASSUME NEW q, Kept(q), NEW a
  PROVE  CornerPressures(q, a)' = CornerPressures(q, a)
<1>1. PressureOffset("CrouzeixRaviart")' = PressureOffset("CrouzeixRaviart")
  BY KeptOffsets DEF StokesElements
<1> QED BY <1>1 DEF Kept, CornerPressures, NodesOn, Node, Frozen, NumberOfElements

LEMMA KeptStokes ==
  ASSUME NEW q, Kept(q), NEW a, NEW fe \in StokesElements
  PROVE  StokesNodes(q, a, fe)' = StokesNodes(q, a, fe)
<1> DEFINE P1 == AtVertices(q, a, 0, "FSvelocity")
<1> DEFINE bubbles == AtElements(q, a, NumberOfVertices(iomodel), "FSvelocity")
<1> DEFINE pressure(x) == AtVertices(q, a, PressureOffset(x), "FSpressure")
<1>0. \A x \in StokesElements \ {"LATaylorHood", "LACrouzeixRaviart"} : pressure(x)' = pressure(x)
  BY KeptPressure
<1>1. StokesNodes(q, a, "P1P1")' = StokesNodes(q, a, "P1P1")
  <2> DEFINE L == P1 \o pressure("P1P1")
  <2>1. StokesNodes(q, a, "P1P1") = L
    BY DEF StokesNodes
  <2>2. StokesNodes(q, a, "P1P1")' = L'
    BY DEF StokesNodes
  <2>3. L' = L
    BY <1>0, KeptBlocks, KeptBubbles, KeptP2, KeptLayer, KeptCornerPressures DEF StokesElements
  <2> QED BY <2>1, <2>2, <2>3
<1>2. StokesNodes(q, a, "P1P1GLS")' = StokesNodes(q, a, "P1P1GLS")
  <2> DEFINE L == P1 \o pressure("P1P1GLS")
  <2>1. StokesNodes(q, a, "P1P1GLS") = L
    BY DEF StokesNodes
  <2>2. StokesNodes(q, a, "P1P1GLS")' = L'
    BY DEF StokesNodes
  <2>3. L' = L
    BY <1>0, KeptBlocks, KeptBubbles, KeptP2, KeptLayer, KeptCornerPressures DEF StokesElements
  <2> QED BY <2>1, <2>2, <2>3
<1>3. StokesNodes(q, a, "MINIcondensed")' = StokesNodes(q, a, "MINIcondensed")
  <2> DEFINE L == P1 \o HardDeactivate(bubbles) \o pressure("MINIcondensed")
  <2>1. StokesNodes(q, a, "MINIcondensed") = L
    BY DEF StokesNodes
  <2>2. StokesNodes(q, a, "MINIcondensed")' = L'
    BY DEF StokesNodes
  <2>3. L' = L
    BY <1>0, KeptBlocks, KeptBubbles, KeptP2, KeptLayer, KeptCornerPressures DEF StokesElements
  <2> QED BY <2>1, <2>2, <2>3
<1>4. StokesNodes(q, a, "MINI")' = StokesNodes(q, a, "MINI")
  <2> DEFINE L == P1 \o bubbles \o pressure("MINI")
  <2>1. StokesNodes(q, a, "MINI") = L
    BY DEF StokesNodes
  <2>2. StokesNodes(q, a, "MINI")' = L'
    BY DEF StokesNodes
  <2>3. L' = L
    BY <1>0, KeptBlocks, KeptBubbles, KeptP2, KeptLayer, KeptCornerPressures DEF StokesElements
  <2> QED BY <2>1, <2>2, <2>3
<1>5. StokesNodes(q, a, "TaylorHood")' = StokesNodes(q, a, "TaylorHood")
  <2> DEFINE L == AtP2(q, a, "FSvelocity") \o pressure("TaylorHood")
  <2>1. StokesNodes(q, a, "TaylorHood") = L
    BY DEF StokesNodes
  <2>2. StokesNodes(q, a, "TaylorHood")' = L'
    BY DEF StokesNodes
  <2>3. L' = L
    BY <1>0, KeptBlocks, KeptBubbles, KeptP2, KeptLayer, KeptCornerPressures DEF StokesElements
  <2> QED BY <2>1, <2>2, <2>3
<1>6. StokesNodes(q, a, "XTaylorHood")' = StokesNodes(q, a, "XTaylorHood")
  <2> DEFINE L == AtP2(q, a, "FSvelocity") \o pressure("XTaylorHood")
  <2>1. StokesNodes(q, a, "XTaylorHood") = L
    BY DEF StokesNodes
  <2>2. StokesNodes(q, a, "XTaylorHood")' = L'
    BY DEF StokesNodes
  <2>3. L' = L
    BY <1>0, KeptBlocks, KeptBubbles, KeptP2, KeptLayer, KeptCornerPressures DEF StokesElements
  <2> QED BY <2>1, <2>2, <2>3
<1>7. StokesNodes(q, a, "LATaylorHood")' = StokesNodes(q, a, "LATaylorHood")
  <2> DEFINE L == AtP2(q, a, "FSvelocity")
  <2>1. StokesNodes(q, a, "LATaylorHood") = L
    BY DEF StokesNodes
  <2>2. StokesNodes(q, a, "LATaylorHood")' = L'
    BY DEF StokesNodes
  <2>3. L' = L
    BY <1>0, KeptBlocks, KeptBubbles, KeptP2, KeptLayer, KeptCornerPressures DEF StokesElements
  <2> QED BY <2>1, <2>2, <2>3
<1>8. StokesNodes(q, a, "OneLayerP4z")' = StokesNodes(q, a, "OneLayerP4z")
  <2> DEFINE L == AtP2xP4(q, a, "FSvelocity") \o LayerPressure(q, a, LayerCounter)
  <2>1. StokesNodes(q, a, "OneLayerP4z") = L
    BY DEF StokesNodes, LayerPressure, LayerCounter, Nv, Ne, Nf
  <2>2. StokesNodes(q, a, "OneLayerP4z")' = L'
    BY DEF StokesNodes, LayerPressure, LayerCounter, Nv, Ne, Nf
  <2>3. L' = L
    BY <1>0, KeptBlocks, KeptBubbles, KeptP2, KeptLayer, KeptCornerPressures DEF StokesElements
  <2> QED BY <2>1, <2>2, <2>3
<1>9. StokesNodes(q, a, "CrouzeixRaviart")' = StokesNodes(q, a, "CrouzeixRaviart")
  <2> DEFINE L == AtP2bubble(q, a, "FSvelocity") \o CornerPressures(q, a)
  <2>1. StokesNodes(q, a, "CrouzeixRaviart") = L
    BY DEF StokesNodes, CornerPressures
  <2>2. StokesNodes(q, a, "CrouzeixRaviart")' = L'
    BY DEF StokesNodes, CornerPressures
  <2>3. L' = L
    BY <1>0, KeptBlocks, KeptBubbles, KeptP2, KeptLayer, KeptCornerPressures DEF StokesElements
  <2> QED BY <2>1, <2>2, <2>3
<1>10. StokesNodes(q, a, "LACrouzeixRaviart")' = StokesNodes(q, a, "LACrouzeixRaviart")
  <2> DEFINE L == AtP2bubble(q, a, "FSvelocity")
  <2>1. StokesNodes(q, a, "LACrouzeixRaviart") = L
    BY DEF StokesNodes
  <2>2. StokesNodes(q, a, "LACrouzeixRaviart")' = L'
    BY DEF StokesNodes
  <2>3. L' = L
    BY <1>0, KeptBlocks, KeptBubbles, KeptP2, KeptLayer, KeptCornerPressures DEF StokesElements
  <2> QED BY <2>1, <2>2, <2>3
<1> QED BY <1>1, <1>2, <1>3, <1>4, <1>5, <1>6, <1>7, <1>8, <1>9, <1>10 DEF StokesElements

LEMMA KeptNodes ==
  ASSUME NEW q, Kept(q), NEW a, AnalysisIs(a)
  PROVE  CreateNodes(q, a)' = CreateNodes(q, a)
<1>1. CASE ~ IsSolved(a)
  BY <1>1 DEF CreateNodes
<1>2. CASE IsSolved(a) /\ IsStokes(a)
  <2>1. FiniteElement(a) \in StokesElements
    BY <1>2 DEF FiniteElement, IsStokes, AnalysisIs
  <2>2. CreateNodes(q, a) = StokesNodes(q, a, FiniteElement(a))
    BY <1>2 DEF CreateNodes, IsStokes
  <2>3. CreateNodes(q, a)' = StokesNodes(q, a, FiniteElement(a))'
    BY <1>2 DEF CreateNodes, IsStokes
  <2> QED BY <2>1, <2>2, <2>3, KeptStokes
<1>3. CASE IsSolved(a) /\ ~ IsStokes(a)
  <2>1. FiniteElement(a) \in ScalarElements \cup {"P1DG"}
    <3>1. CASE a.name = "Stressbalance"
      BY <1>3, <3>1 DEF FiniteElement, IsStokes, AnalysisIs, ScalarElements
    <3>2. CASE a.name = "Masstransport"
      BY <3>2 DEF FiniteElement, ScalarElements
    <3>3. CASE a.name # "Stressbalance" /\ a.name # "Masstransport"
      BY <3>3 DEF FiniteElement, ScalarElements
    <3> QED BY <3>1, <3>2, <3>3
  <2>2. CreateNodes(q, a) = ScalarNodes(q, a, FiniteElement(a), a.model)
    BY <1>3 DEF CreateNodes, IsStokes
  <2>3. CreateNodes(q, a)' = ScalarNodes(q, a, FiniteElement(a), a.model)'
    BY <1>3 DEF CreateNodes, IsStokes
  <2> QED BY <2>1, <2>2, <2>3, KeptScalar
<1> QED BY <1>1, <1>2, <1>3

SpcsKept(q, a, dof) ==
  /\ CornerSpcs(q, a, dof)' = CornerSpcs(q, a, dof)
  /\ CentreSpcs(q, a, dof, Nv)' = CentreSpcs(q, a, dof, Nv)
  /\ CentreSpcs(q, a, dof, AfterP2)' = CentreSpcs(q, a, dof, AfterP2)
  /\ MiddleSpcs(q, a, dof, Upright(q))' = MiddleSpcs(q, a, dof, Upright(q))
  /\ MiddleSpcs(q, a, dof, MyEdges(q) \ Upright(q))' = MiddleSpcs(q, a, dof, MyEdges(q) \ Upright(q))
  /\ MiddleSpcs(q, a, dof, Sides(q))' = MiddleSpcs(q, a, dof, Sides(q))
  /\ ThirdSpcs(q, a, dof)' = ThirdSpcs(q, a, dof)
  /\ StaticMeans(q, a, dof)' = StaticMeans(q, a, dof)
  /\ UprightSpcs(q, a, dof)' = UprightSpcs(q, a, dof)
  /\ LevelSpcs(q, a, dof)' = LevelSpcs(q, a, dof)
  /\ QuadSpcs(q, a, dof)' = QuadSpcs(q, a, dof)

LEMMA KeptFamilies ==
  ASSUME NEW q, Kept(q), NEW a, NEW dof
  PROVE  SpcsKept(q, a, dof)
<1>1. /\ Nv' = Nv /\ Ne' = Ne /\ AfterP2' = AfterP2 /\ Kind' = Kind
      /\ MyVertexSet(q)' = MyVertexSet(q) /\ MyEdges(q)' = MyEdges(q) /\ MyFaces(q)' = MyFaces(q)
      /\ Quads' = Quads
  BY KeptMesh
<1>2. Upright(q)' = Upright(q) /\ Sides(q)' = Sides(q) /\ QuadsOf(q)' = QuadsOf(q)
  BY <1>1 DEF Kept, Upright, Sides, QuadsOf
<1>3. (CornerSpcs(q, a, dof))' = CornerSpcs(q, a, dof)
  BY <1>1, <1>2 DEF Kept, SpcAt, CornerSpcs
<1>4. (CentreSpcs(q, a, dof, Nv))' = CentreSpcs(q, a, dof, Nv)
  BY <1>1, <1>2 DEF Kept, SpcAt, CentreSpcs, Centre_
<1>5. (CentreSpcs(q, a, dof, AfterP2))' = CentreSpcs(q, a, dof, AfterP2)
  BY <1>1, <1>2 DEF Kept, SpcAt, CentreSpcs, Centre_
<1>6. (MiddleSpcs(q, a, dof, Upright(q)))' = MiddleSpcs(q, a, dof, Upright(q))
  BY <1>1, <1>2 DEF Kept, SpcAt, MiddleSpcs, Middle
<1>7. (MiddleSpcs(q, a, dof, MyEdges(q) \ Upright(q)))' = MiddleSpcs(q, a, dof, MyEdges(q) \ Upright(q))
  BY <1>1, <1>2 DEF Kept, SpcAt, MiddleSpcs, Middle
<1>8. (MiddleSpcs(q, a, dof, Sides(q)))' = MiddleSpcs(q, a, dof, Sides(q))
  BY <1>1, <1>2 DEF Kept, SpcAt, MiddleSpcs, Middle
<1>9. (ThirdSpcs(q, a, dof))' = ThirdSpcs(q, a, dof)
  BY <1>1, <1>2 DEF Kept, SpcAt, ThirdSpcs, Third
<1>10. (StaticMeans(q, a, dof))' = StaticMeans(q, a, dof)
  BY <1>1, <1>2 DEF Kept, SpcAt, StaticMeans, MeanSpcs, Mean
<1>11. (UprightSpcs(q, a, dof))' = UprightSpcs(q, a, dof)
  BY <1>1, <1>2 DEF Kept, SpcAt, UprightSpcs, Middle
<1>12. (LevelSpcs(q, a, dof))' = LevelSpcs(q, a, dof)
  BY <1>1, <1>2 DEF Kept, SpcAt, LevelSpcs, Middle
<1>13. (QuadSpcs(q, a, dof))' = QuadSpcs(q, a, dof)
  BY <1>1, <1>2 DEF Kept, SpcAt, QuadSpcs, Mean
<1> QED BY <1>3, <1>4, <1>5, <1>6, <1>7, <1>8, <1>9, <1>10, <1>11, <1>12, <1>13 DEF SpcsKept

LEMMA SpcsAreNext ==
  ASSUME NEW CONSTANT q, NEW CONSTANT a, NEW CONSTANT dof
  PROVE  (/\ IoModelToConstraints(q, a, "P1", dof) = CornerSpcs(q, a, dof)
          /\ IoModelToConstraints(q, a, "P1bubblecondensed", dof) = CornerSpcs(q, a, dof)
          /\ IoModelToConstraints(q, a, "P1bubble", dof) = CornerSpcs(q, a, dof) \cup CentreSpcs(q, a, dof, Nv)
          /\ IoModelToConstraints(q, a, "P1xP2", dof) = CornerSpcs(q, a, dof) \cup MiddleSpcs(q, a, dof, Upright(q))
          /\ IoModelToConstraints(q, a, "P2xP1", dof) = CornerSpcs(q, a, dof) \cup MiddleSpcs(q, a, dof, MyEdges(q) \ Upright(q))
          /\ IoModelToConstraints(q, a, "P1xP3", dof) = CornerSpcs(q, a, dof) \cup ThirdSpcs(q, a, dof)
          /\ IoModelToConstraints(q, a, "P2", dof) = CornerSpcs(q, a, dof) \cup (MiddleSpcs(q, a, dof, Sides(q)) \cup StaticMeans(q, a, dof))
          /\ IoModelToConstraints(q, a, "P2bubble", dof) = CornerSpcs(q, a, dof) \cup ((MiddleSpcs(q, a, dof, Sides(q)) \cup StaticMeans(q, a, dof)) \cup CentreSpcs(q, a, dof, AfterP2))
          /\ IoModelToConstraints(q, a, "P2xP4", dof) = CornerSpcs(q, a, dof) \cup UNION {UprightSpcs(q, a, dof), LevelSpcs(q, a, dof), QuadSpcs(q, a, dof)})'
<1>1. /\ IoModelToConstraints(q, a, "P1", dof) = CornerSpcs(q, a, dof)
      /\ IoModelToConstraints(q, a, "P1bubblecondensed", dof) = CornerSpcs(q, a, dof)
      /\ IoModelToConstraints(q, a, "P1bubble", dof) = CornerSpcs(q, a, dof) \cup CentreSpcs(q, a, dof, Nv)
      /\ IoModelToConstraints(q, a, "P1xP2", dof) = CornerSpcs(q, a, dof) \cup MiddleSpcs(q, a, dof, Upright(q))
      /\ IoModelToConstraints(q, a, "P2xP1", dof) = CornerSpcs(q, a, dof) \cup MiddleSpcs(q, a, dof, MyEdges(q) \ Upright(q))
      /\ IoModelToConstraints(q, a, "P1xP3", dof) = CornerSpcs(q, a, dof) \cup ThirdSpcs(q, a, dof)
      /\ IoModelToConstraints(q, a, "P2", dof) = CornerSpcs(q, a, dof) \cup (MiddleSpcs(q, a, dof, Sides(q)) \cup StaticMeans(q, a, dof))
      /\ IoModelToConstraints(q, a, "P2bubble", dof) = CornerSpcs(q, a, dof) \cup ((MiddleSpcs(q, a, dof, Sides(q)) \cup StaticMeans(q, a, dof)) \cup CentreSpcs(q, a, dof, AfterP2))
      /\ IoModelToConstraints(q, a, "P2xP4", dof) = CornerSpcs(q, a, dof) \cup UNION {UprightSpcs(q, a, dof), LevelSpcs(q, a, dof), QuadSpcs(q, a, dof)}
  BY SpcsAre
<1> QED BY <1>1, PTL

LEMMA KeptIoModel ==
  ASSUME NEW q, Kept(q), NEW a, NEW dof, NEW fe \in ScalarElements
  PROVE  IoModelToConstraints(q, a, fe, dof)' = IoModelToConstraints(q, a, fe, dof)
<1>0. SpcsKept(q, a, dof)
  BY KeptFamilies
<1>1. IoModelToConstraints(q, a, "P1", dof)' = IoModelToConstraints(q, a, "P1", dof)
  <2>1. IoModelToConstraints(q, a, "P1", dof) = CornerSpcs(q, a, dof)
    BY SpcsAre
  <2>2. IoModelToConstraints(q, a, "P1", dof)' = (CornerSpcs(q, a, dof))'
    BY SpcsAreNext
  <2> QED BY <1>0, <2>1, <2>2 DEF SpcsKept
<1>2. IoModelToConstraints(q, a, "P1bubblecondensed", dof)' = IoModelToConstraints(q, a, "P1bubblecondensed", dof)
  <2>1. IoModelToConstraints(q, a, "P1bubblecondensed", dof) = CornerSpcs(q, a, dof)
    BY SpcsAre
  <2>2. IoModelToConstraints(q, a, "P1bubblecondensed", dof)' = (CornerSpcs(q, a, dof))'
    BY SpcsAreNext
  <2> QED BY <1>0, <2>1, <2>2 DEF SpcsKept
<1>3. IoModelToConstraints(q, a, "P1bubble", dof)' = IoModelToConstraints(q, a, "P1bubble", dof)
  <2>1. IoModelToConstraints(q, a, "P1bubble", dof) = CornerSpcs(q, a, dof) \cup CentreSpcs(q, a, dof, Nv)
    BY SpcsAre
  <2>2. IoModelToConstraints(q, a, "P1bubble", dof)' = (CornerSpcs(q, a, dof) \cup CentreSpcs(q, a, dof, Nv))'
    BY SpcsAreNext
  <2> QED BY <1>0, <2>1, <2>2 DEF SpcsKept
<1>4. IoModelToConstraints(q, a, "P1xP2", dof)' = IoModelToConstraints(q, a, "P1xP2", dof)
  <2>1. IoModelToConstraints(q, a, "P1xP2", dof) = CornerSpcs(q, a, dof) \cup MiddleSpcs(q, a, dof, Upright(q))
    BY SpcsAre
  <2>2. IoModelToConstraints(q, a, "P1xP2", dof)' = (CornerSpcs(q, a, dof) \cup MiddleSpcs(q, a, dof, Upright(q)))'
    BY SpcsAreNext
  <2> QED BY <1>0, <2>1, <2>2 DEF SpcsKept
<1>5. IoModelToConstraints(q, a, "P2xP1", dof)' = IoModelToConstraints(q, a, "P2xP1", dof)
  <2>1. IoModelToConstraints(q, a, "P2xP1", dof) = CornerSpcs(q, a, dof) \cup MiddleSpcs(q, a, dof, MyEdges(q) \ Upright(q))
    BY SpcsAre
  <2>2. IoModelToConstraints(q, a, "P2xP1", dof)' = (CornerSpcs(q, a, dof) \cup MiddleSpcs(q, a, dof, MyEdges(q) \ Upright(q)))'
    BY SpcsAreNext
  <2> QED BY <1>0, <2>1, <2>2 DEF SpcsKept
<1>6. IoModelToConstraints(q, a, "P1xP3", dof)' = IoModelToConstraints(q, a, "P1xP3", dof)
  <2>1. IoModelToConstraints(q, a, "P1xP3", dof) = CornerSpcs(q, a, dof) \cup ThirdSpcs(q, a, dof)
    BY SpcsAre
  <2>2. IoModelToConstraints(q, a, "P1xP3", dof)' = (CornerSpcs(q, a, dof) \cup ThirdSpcs(q, a, dof))'
    BY SpcsAreNext
  <2> QED BY <1>0, <2>1, <2>2 DEF SpcsKept
<1>7. IoModelToConstraints(q, a, "P2", dof)' = IoModelToConstraints(q, a, "P2", dof)
  <2>1. IoModelToConstraints(q, a, "P2", dof) = CornerSpcs(q, a, dof) \cup (MiddleSpcs(q, a, dof, Sides(q)) \cup StaticMeans(q, a, dof))
    BY SpcsAre
  <2>2. IoModelToConstraints(q, a, "P2", dof)' = (CornerSpcs(q, a, dof) \cup (MiddleSpcs(q, a, dof, Sides(q)) \cup StaticMeans(q, a, dof)))'
    BY SpcsAreNext
  <2> QED BY <1>0, <2>1, <2>2 DEF SpcsKept
<1>8. IoModelToConstraints(q, a, "P2bubble", dof)' = IoModelToConstraints(q, a, "P2bubble", dof)
  <2>1. IoModelToConstraints(q, a, "P2bubble", dof) = CornerSpcs(q, a, dof) \cup ((MiddleSpcs(q, a, dof, Sides(q)) \cup StaticMeans(q, a, dof)) \cup CentreSpcs(q, a, dof, AfterP2))
    BY SpcsAre
  <2>2. IoModelToConstraints(q, a, "P2bubble", dof)' = (CornerSpcs(q, a, dof) \cup ((MiddleSpcs(q, a, dof, Sides(q)) \cup StaticMeans(q, a, dof)) \cup CentreSpcs(q, a, dof, AfterP2)))'
    BY SpcsAreNext
  <2> QED BY <1>0, <2>1, <2>2 DEF SpcsKept
<1>9. IoModelToConstraints(q, a, "P2xP4", dof)' = IoModelToConstraints(q, a, "P2xP4", dof)
  <2>1. IoModelToConstraints(q, a, "P2xP4", dof) = CornerSpcs(q, a, dof) \cup UNION {UprightSpcs(q, a, dof), LevelSpcs(q, a, dof), QuadSpcs(q, a, dof)}
    BY SpcsAre
  <2>2. IoModelToConstraints(q, a, "P2xP4", dof)' = (CornerSpcs(q, a, dof) \cup UNION {UprightSpcs(q, a, dof), LevelSpcs(q, a, dof), QuadSpcs(q, a, dof)})'
    BY SpcsAreNext
  <2> QED BY <1>0, <2>1, <2>2 DEF SpcsKept
<1> QED BY <1>1, <1>2, <1>3, <1>4, <1>5, <1>6, <1>7, <1>8, <1>9 DEF ScalarElements

PressureAt(q, a, offset) ==
  {[node |-> nodecounter[q] + offset + v, analysis |-> a.name, dof |-> 0,
    field |-> "FSpressure", point |-> {<<v, 24>>}, times |-> {0}] :
     v \in MyVertexSet(q) \cap setting.none}

\* PressureSpcs, for each interpolation of the velocity.
LEMMA PressureSpcsAre ==
  ASSUME NEW CONSTANT q, NEW CONSTANT a
  PROVE  /\ PressureSpcs(q, a, "P1") = PressureAt(q, a, Nv + Nel)
         /\ PressureSpcs(q, a, "P1bubble") = PressureAt(q, a, Nv + Nel)
         /\ PressureSpcs(q, a, "P2") = PressureAt(q, a, Nv + Ne)
         /\ PressureSpcs(q, a, "P2bubble") = PressureAt(q, a, Nv + Ne + Nel + Nf)
         /\ PressureSpcs(q, a, "P2xP4") = {}
<1>1. PressureSpcs(q, a, "P1") = PressureAt(q, a, Nv + Nel)
  BY DEF PressureSpcs, PressureAt, Nv, Nel
<1>2. PressureSpcs(q, a, "P1bubble") = PressureAt(q, a, Nv + Nel)
  BY DEF PressureSpcs, PressureAt, Nv, Nel
<1>3. PressureSpcs(q, a, "P2") = PressureAt(q, a, Nv + Ne)
  BY DEF PressureSpcs, PressureAt, Nv, Ne
<1>4. PressureSpcs(q, a, "P2bubble") = PressureAt(q, a, Nv + Ne + Nel + Nf)
  BY DEF PressureSpcs, PressureAt, Nv, Ne, Nel, Nf
<1>5. PressureSpcs(q, a, "P2xP4") = {}
  BY DEF PressureSpcs
<1> QED BY <1>1, <1>2, <1>3, <1>4, <1>5

LEMMA PressureSpcsAreNext ==
  ASSUME NEW CONSTANT q, NEW CONSTANT a
  PROVE  (/\ PressureSpcs(q, a, "P1") = PressureAt(q, a, Nv + Nel)
          /\ PressureSpcs(q, a, "P1bubble") = PressureAt(q, a, Nv + Nel)
          /\ PressureSpcs(q, a, "P2") = PressureAt(q, a, Nv + Ne)
          /\ PressureSpcs(q, a, "P2bubble") = PressureAt(q, a, Nv + Ne + Nel + Nf)
          /\ PressureSpcs(q, a, "P2xP4") = {})'
<1>1. /\ PressureSpcs(q, a, "P1") = PressureAt(q, a, Nv + Nel)
      /\ PressureSpcs(q, a, "P1bubble") = PressureAt(q, a, Nv + Nel)
      /\ PressureSpcs(q, a, "P2") = PressureAt(q, a, Nv + Ne)
      /\ PressureSpcs(q, a, "P2bubble") = PressureAt(q, a, Nv + Ne + Nel + Nf)
      /\ PressureSpcs(q, a, "P2xP4") = {}
  BY PressureSpcsAre
<1> QED BY <1>1, PTL

LEMMA KeptPressureSpcs ==
  ASSUME NEW q, Kept(q), NEW a, NEW fe \in {"P1", "P1bubble", "P2", "P2bubble", "P2xP4"}
  PROVE  PressureSpcs(q, a, fe)' = PressureSpcs(q, a, fe)
<1>1. Nv' = Nv /\ Nel' = Nel /\ Ne' = Ne /\ Nf' = Nf /\ MyVertexSet(q)' = MyVertexSet(q)
  BY KeptMesh
<1>2. /\ PressureAt(q, a, Nv + Nel)' = PressureAt(q, a, Nv + Nel)
      /\ PressureAt(q, a, Nv + Ne)' = PressureAt(q, a, Nv + Ne)
      /\ PressureAt(q, a, Nv + Ne + Nel + Nf)' = PressureAt(q, a, Nv + Ne + Nel + Nf)
  BY <1>1 DEF Kept, PressureAt
<1>3. CASE fe \in {"P1", "P1bubble"}
  BY <1>2, <1>3, PressureSpcsAre, PressureSpcsAreNext
<1>4. CASE fe = "P2"
  BY <1>2, <1>4, PressureSpcsAre, PressureSpcsAreNext
<1>5. CASE fe = "P2bubble"
  BY <1>2, <1>5, PressureSpcsAre, PressureSpcsAreNext
<1>6. CASE fe = "P2xP4"
  BY <1>6, PressureSpcsAre, PressureSpcsAreNext
<1> QED BY <1>3, <1>4, <1>5, <1>6

LEMMA KeptStress ==
  ASSUME NEW q, Kept(q), NEW a, AnalysisIs(a), a.name = "Stressbalance"
  PROVE  StressbalanceConstraints(q, a)' = StressbalanceConstraints(q, a)
<1> DEFINE fe == VelocityInterpolation(FiniteElement(a))
<1> DEFINE On(D) == UNION {IoModelToConstraints(q, a, fe, dof) : dof \in D}
<1>1. fe \in ScalarElements /\ (IsStokes(a) => fe \in {"P1", "P1bubble", "P2", "P2bubble", "P2xP4"})
  BY VelocityIsScalar
<1>2. StressbalanceConstraints(q, a) =
        IF a.model = "FS"
          THEN On(IF iomodel.mesh.domain = "2Dvertical" THEN {0, 1} ELSE {0, 1, 2}) \cup PressureSpcs(q, a, fe)
          ELSE On(IF iomodel.mesh.domain = "2Dvertical" THEN {0} ELSE {0, 1})
  BY DEF StressbalanceConstraints
<1>3. StressbalanceConstraints(q, a)' =
        (IF a.model = "FS"
           THEN On(IF iomodel.mesh.domain = "2Dvertical" THEN {0, 1} ELSE {0, 1, 2}) \cup PressureSpcs(q, a, fe)
           ELSE On(IF iomodel.mesh.domain = "2Dvertical" THEN {0} ELSE {0, 1}))'
  BY DEF StressbalanceConstraints
<1>4. \A dof : IoModelToConstraints(q, a, fe, dof)' = IoModelToConstraints(q, a, fe, dof)
  <2> HIDE DEF fe
  <2> QED BY <1>1, KeptIoModel
<1>5. IsStokes(a) => PressureSpcs(q, a, fe)' = PressureSpcs(q, a, fe)
  <2> HIDE DEF fe
  <2> QED BY <1>1, KeptPressureSpcs
<1>6. IsStokes(a) <=> a.model = "FS"
  BY DEF IsStokes
<1>7. iomodel' = iomodel
  BY DEF Kept
<1> HIDE DEF fe
<1> QED BY <1>2, <1>3, <1>4, <1>5, <1>6, <1>7

LEMMA KeptConstraints ==
  ASSUME NEW q, Kept(q), NEW a, AnalysisIs(a)
  PROVE  CreateConstraints(q, a)' = CreateConstraints(q, a)
<1>1. CASE ~ IsSolved(a) \/ a.name = "Melting" \/ (a.name = "Masstransport" /\ a.stabilization = 3)
  <2>1. CreateConstraints(q, a) = {}
    BY <1>1 DEF CreateConstraints
  <2>2. CreateConstraints(q, a)' = {}
    BY <1>1 DEF CreateConstraints
  <2> QED BY <2>1, <2>2
<1>2. CASE IsSolved(a) /\ a.name = "Stressbalance"
  <2>1. CreateConstraints(q, a) = StressbalanceConstraints(q, a)
    BY <1>2 DEF CreateConstraints
  <2>2. CreateConstraints(q, a)' = StressbalanceConstraints(q, a)'
    BY <1>2 DEF CreateConstraints
  <2> QED BY <1>2, <2>1, <2>2, KeptStress
<1>3. CASE /\ IsSolved(a) /\ a.name # "Melting" /\ a.name # "Stressbalance"
           /\ ~ (a.name = "Masstransport" /\ a.stabilization = 3)
  <2>1. CreateConstraints(q, a) = IoModelToConstraints(q, a, "P1", 0)
    BY <1>3 DEF CreateConstraints
  <2>2. CreateConstraints(q, a)' = IoModelToConstraints(q, a, "P1", 0)'
    BY <1>3 DEF CreateConstraints
  <2>3. IoModelToConstraints(q, a, "P1", 0)' = IoModelToConstraints(q, a, "P1", 0)
    BY KeptIoModel DEF ScalarElements
  <2> QED BY <2>1, <2>2, <2>3
<1> QED BY <1>1, <1>2, <1>3

-----------------------------------------------------------------------------
(***************************************************************************)
(* The inductive invariant.  The nodes of a rank are those it had when the *)
(* counters last moved, whose ids are at most the counter, and those it    *)
(* has made since; the former agree with the former of the other ranks,    *)
(* and the latter are a function of what the rank has of the mesh.         *)
(***************************************************************************)
\* What rank r is to have of the analysis it is at, and has made already.
At(r)       == setting.analyses[current[r]]
MadeNodes(r) == IF pc[r] = "counters" THEN Range(CreateNodes(r, At(r))) ELSE {}
MadeSpcs(r)  == IF pc[r] = "counters" THEN CreateConstraints(r, At(r)) ELSE {}

\* What it has of the analyses before.
OldNodes(r) == {n \in Range(nodes[r]) : n.id <= nodecounter[r]}
OldSpcs(r)  == {c \in constraints[r] : c.node <= nodecounter[r]}

AnyNode == [id : Nat, sid : Int, vertex : Nat, analysis : {setting.analyses[i].name : i \in Analyses},
            approximation : Approximations, frozen : BOOLEAN]

Ranked ==
  /\ pc \in [Ranks -> {"partition", "datasets", "counters", "done"}]
  /\ current \in [Ranks -> Analyses]
  /\ nodes \in [Ranks -> Seq(AnyNode)]
  /\ DOMAIN my_elements = Ranks /\ DOMAIN my_vertices = Ranks /\ DOMAIN constraints = Ranks

\* The ranks number alike: they are at one analysis, and count from one number.
InStep == (\E N \in Nat : CounterIs(N)) /\ \A r, q \in Ranks : current[r] = current[q]

\* A rank has the nodes of the analyses before, and those it has just made.
NodesAreMade == \A r \in Ranks : Range(nodes[r]) = OldNodes(r) \cup MadeNodes(r)

OldNodesAgree ==
  \A r, q \in Ranks : \A m \in OldNodes(r), n \in OldNodes(q) :
    /\ m.id = n.id => m = n
    /\ m.analysis = n.analysis /\ m.sid = n.sid => m.id = n.id

OldNames ==
  \A r \in Ranks : pc[r] # "done" =>
    \A n \in OldNodes(r) : \E i \in Analyses : i < current[r] /\ n.analysis = setting.analyses[i].name

NodesInv == Partitioned /\ Ranked /\ InStep /\ NodesAreMade /\ OldNodesAgree /\ OldNames

SpcsAreMade ==
  \A r \in Ranks : /\ constraints[r] = OldSpcs(r) \cup MadeSpcs(r)
                   /\ \A c \in constraints[r] : c.node \in Ids(nodes[r])

OldSpcsAgree ==
  \A r, q \in Ranks : \A c \in OldSpcs(r), n \in OldNodes(q) : n.id = c.node => c \in constraints[q]

SpcsInv == SpcsAreMade /\ OldSpcsAgree

LEMMA WorldOf ==
  ASSUME Partitioned, Ranked, InStep, NEW r \in Ranks
  PROVE  /\ At(r) \in AnalysesNow /\ AnalysisIs(At(r)) /\ current[r] \in Analyses
         /\ \A q \in Ranks : At(q) = At(r)
         /\ NamesNow = {At(r).name}
<1>1. current[r] \in Analyses /\ \A q \in Ranks : current[q] = current[r]
  BY DEF Ranked, InStep
<1>2. AnalysisIs(At(r))
  BY <1>1, AnalysisFacts DEF At
<1>3. AnalysesNow = {At(r)}
  BY <1>1 DEF AnalysesNow, At
<1> QED BY <1>1, <1>2, <1>3 DEF NamesNow, At

\* What a rank makes of the analysis it is at, whether it has done so or not.
LEMMA MadeNodesFacts ==
  ASSUME Partitioned, Ranked, InStep, NEW r \in Ranks
  PROVE  /\ CreateNodes(r, At(r)) \in Seq(AnyNode)
         /\ \A n \in Range(CreateNodes(r, At(r))) : nodecounter[r] < n.id /\ n.analysis = At(r).name
         /\ \A q \in Ranks : \A m \in Range(CreateNodes(r, At(r))), n \in Range(CreateNodes(q, At(q))) :
              m.id = n.id \/ m.sid = n.sid => m = n
<1> DEFINE a == At(r)
<1> DEFINE L == AllNodes(a)
<1>1. PICK N \in Nat : CounterIs(N)
  BY DEF InStep
<1>2. AnalysisWorld(N, a)
  BY <1>1, WorldOf DEF AnalysisWorld
<1>3. \A q \in Ranks : L[q] = CreateNodes(q, a) /\ a = At(q)
  BY WorldOf DEF AllNodes
<1>4. PICK h, s, t : Block(L, N, 0, h, s, t)
  BY <1>2, NodesMade
<1>5. NamesNow = {a.name} /\ nodecounter[r] = N
  BY <1>1, WorldOf DEF CounterIs
<1>5a. \E i \in Analyses : setting.analyses[i].name = a.name
  BY WorldOf DEF At
<1> HIDE DEF L, a
<1>6. h \in Int /\ Agree(L, N, N + h, s, t)
  <2>1. N + 0 = N
    OBVIOUS
  <2> QED BY <1>4, <2>1 DEF Block
<1>7. L[r] \in Seq(NodeRecords)
  BY <1>6 DEF Agree
<1>8. \A n \in Range(L[r]) : n \in NodeRecords /\ N < n.id
  <2>1. \A n \in Range(L[r]) : N < n.id
    BY <1>6 DEF Agree, InBounds
  <2>2. \A n \in Range(L[r]) : n \in NodeRecords
    BY <1>7, ElementOfSeq, LenProperties DEF Range
  <2> QED BY <2>1, <2>2
<1>9. \A n \in Range(L[r]) : n \in AnyNode /\ n.analysis = a.name
  <2>1. ASSUME NEW n \in Range(L[r])
        PROVE  n \in AnyNode /\ n.analysis = a.name
    <3>1. n \in NodeRecords /\ N < n.id
      BY <1>8
    <3>2. n.id \in Nat /\ n.analysis = a.name
      BY <1>5, <3>1 DEF NodeRecords
    <3>3. n.analysis \in {setting.analyses[i].name : i \in Analyses}
      BY <1>5a, <3>2
    <3> QED BY <3>1, <3>2, <3>3 DEF NodeRecords, AnyNode
  <2> QED BY <2>1
<1>10. L[r] \in Seq(AnyNode)
  <2>1. L[r] \in Seq(NodeRecords) /\ DOMAIN L[r] = 1..Len(L[r]) /\ Len(L[r]) \in Nat
    BY <1>7, LenProperties
  <2>2. \A i \in 1..Len(L[r]) : L[r][i] \in AnyNode
    BY <1>9, <2>1 DEF Range
  <2>3. L[r] \in [1..Len(L[r]) -> AnyNode]
    BY <1>7, <2>1, <2>2
  <2> QED BY <2>1, <2>3
<1>11. \A q \in Ranks : \A m \in Range(L[r]), n \in Range(L[q]) : m.id = n.id \/ m.sid = n.sid => m = n
  BY <1>6 DEF Agree
<1> QED BY <1>3, <1>5, <1>8, <1>9, <1>10, <1>11 DEF a

LEMMA InitNodes ==
  ASSUME Init
  PROVE  NodesInv
<1>1. setting \in Settings /\ setting.analyses \in Seq(AnalysisTypes) /\ setting.analyses # << >>
  BY SettingsAssumption DEF Init
<1>2. 1 \in Analyses
  <2>1. Len(setting.analyses) \in Nat /\ DOMAIN setting.analyses = 1..Len(setting.analyses)
        /\ Len(setting.analyses) # 0
    BY <1>1, LenProperties, EmptySeq
  <2> QED BY <2>1 DEF Analyses
<1>3. Partitioned
  BY <1>1 DEF Init, Partitioned
<1>4. Ranked
  <2>1. << >> \in Seq(AnyNode)
    OBVIOUS
  <2>2. nodes \in [Ranks -> Seq(AnyNode)]
    BY <2>1 DEF Init
  <2> QED BY <1>2, <2>2 DEF Init, Ranked
<1>5. InStep
  <2>1. CounterIs(0)
    BY DEF Init, CounterIs
  <2> QED BY <2>1 DEF Init, InStep
<1>6. \A r \in Ranks : Range(nodes[r]) = {} /\ OldNodes(r) = {} /\ MadeNodes(r) = {}
  <2>1. \A r \in Ranks : nodes[r] = << >> /\ pc[r] = "partition"
    BY DEF Init
  <2>2. Range(<< >>) = {}
    BY DEF Range
  <2>3. \A r \in Ranks : Range(nodes[r]) = {}
    BY <2>1, <2>2
  <2> QED BY <2>1, <2>3 DEF OldNodes, MadeNodes
<1> QED BY <1>3, <1>4, <1>5, <1>6 DEF NodesInv, NodesAreMade, OldNodesAgree, OldNames

LEMMA InitSpcs ==
  ASSUME Init
  PROVE  SpcsInv
<1>1. \A r \in Ranks : constraints[r] = {} /\ pc[r] = "partition"
  BY DEF Init
<1>2. \A r \in Ranks : OldSpcs(r) = {} /\ MadeSpcs(r) = {}
  BY <1>1 DEF OldSpcs, MadeSpcs
<1> QED BY <1>1, <1>2 DEF SpcsInv, SpcsAreMade, OldSpcsAgree

-----------------------------------------------------------------------------
(* A step of one rank.                                                     *)

\* Rank q makes what it makes before and after.
LEMMA SameCreated ==
  ASSUME NEW q, Kept(q), current'[q] = current[q], AnalysisIs(At(q))
  PROVE  /\ CreateNodes(q, At(q))' = CreateNodes(q, At(q))
         /\ CreateConstraints(q, At(q))' = CreateConstraints(q, At(q))
<1>1. PICK a : a = At(q)
  OBVIOUS
<1>2. At(q)' = a
  BY <1>1 DEF Kept, At
<1>3. AnalysisIs(a)
  BY <1>1
<1>4. CreateNodes(q, a)' = CreateNodes(q, a) /\ CreateConstraints(q, a)' = CreateConstraints(q, a)
  BY <1>3, KeptNodes, KeptConstraints
<1>5. CreateNodes(q, At(q))' = CreateNodes(q, a)'
  BY <1>2
<1>6. CreateConstraints(q, At(q))' = CreateConstraints(q, a)'
  BY <1>2
<1> QED BY <1>1, <1>4, <1>5, <1>6

\* The rank is not the one that moves.
Idle(q) == /\ Kept(q) /\ pc'[q] = pc[q] /\ current'[q] = current[q]
           /\ nodes'[q] = nodes[q] /\ constraints'[q] = constraints[q]

LEMMA IdleKeeps ==
  ASSUME NEW q, Idle(q), AnalysisIs(At(q))
  PROVE  /\ OldNodes(q)' = OldNodes(q) /\ MadeNodes(q)' = MadeNodes(q)
         /\ OldSpcs(q)' = OldSpcs(q) /\ MadeSpcs(q)' = MadeSpcs(q)
<1>1. OldNodes(q)' = OldNodes(q) /\ OldSpcs(q)' = OldSpcs(q)
  BY DEF Idle, Kept, OldNodes, OldSpcs
<1>2. /\ CreateNodes(q, At(q))' = CreateNodes(q, At(q))
      /\ CreateConstraints(q, At(q))' = CreateConstraints(q, At(q))
  BY SameCreated DEF Idle
<1>3. pc'[q] = pc[q]
  BY DEF Idle
<1>4. MadeNodes(q)' = MadeNodes(q)
  BY <1>2, <1>3 DEF MadeNodes
<1>5. MadeSpcs(q)' = MadeSpcs(q)
  BY <1>2, <1>3 DEF MadeSpcs
<1> QED BY <1>1, <1>4, <1>5

StepOf(r) == ElementsAndVerticesPartitioning(r) \/ CreateDatasets(r)

LEMMA Movers ==
  ASSUME Ranked, NEW r \in Ranks, StepOf(r)
  PROVE  /\ setting' = setting /\ iomodel' = iomodel /\ current' = current /\ nodecounter' = nodecounter
         /\ pc[r] # "counters" /\ pc'[r] \in {"datasets", "counters"}
         /\ pc' \in [Ranks -> {"partition", "datasets", "counters", "done"}]
         /\ DOMAIN my_elements' = Ranks /\ DOMAIN my_vertices' = Ranks /\ DOMAIN nodes' = Ranks
         /\ DOMAIN constraints' = Ranks
         /\ \A q \in Ranks : q # r => Idle(q)
<1> USE DEF Ranked, Idle, Kept
<1>1. CASE ElementsAndVerticesPartitioning(r)
  BY <1>1 DEF ElementsAndVerticesPartitioning
<1>2. CASE CreateDatasets(r)
  BY <1>2 DEF CreateDatasets
<1> QED BY <1>1, <1>2 DEF StepOf

\* The nodes of the rank that moves.
LEMMA MoverNodes ==
  ASSUME Partitioned, Ranked, InStep, NodesAreMade, NEW r \in Ranks, StepOf(r)
  PROVE  /\ nodes'[r] \in Seq(AnyNode) /\ my_elements'[r] \subseteq Elements
         /\ OldNodes(r)' = OldNodes(r)
         /\ Range(nodes[r])' = OldNodes(r)' \cup MadeNodes(r)'
<1>0. /\ nodes[r] \in Seq(AnyNode) /\ my_elements[r] \subseteq Elements
      /\ DOMAIN nodes = Ranks /\ DOMAIN pc = Ranks /\ DOMAIN my_elements = Ranks
  BY DEF Ranked, Partitioned
<1>1. pc[r] # "counters" /\ nodecounter'[r] = nodecounter[r]
  BY Movers
<1>2. MadeNodes(r) = {} /\ Range(nodes[r]) = OldNodes(r)
  BY <1>1 DEF MadeNodes, NodesAreMade
<1>3. CASE ElementsAndVerticesPartitioning(r)
  <2>1. nodes' = nodes /\ pc'[r] = "datasets" /\ my_elements'[r] \subseteq Elements
    BY <1>0, <1>3 DEF ElementsAndVerticesPartitioning
  <2>2. OldNodes(r)' = OldNodes(r) /\ Range(nodes[r])' = Range(nodes[r])
    BY <1>1, <2>1 DEF OldNodes
  <2>3. MadeNodes(r)' = {}
    BY <2>1 DEF MadeNodes
  <2> QED BY <1>0, <1>2, <2>1, <2>2, <2>3
<1>4. CASE CreateDatasets(r)
  <2> DEFINE new == CreateNodes(r, At(r))
  <2>1. nodes'[r] = nodes[r] \o new /\ pc'[r] = "counters" /\ my_elements' = my_elements
    BY <1>0, <1>4 DEF CreateDatasets, At
  <2>2. new \in Seq(AnyNode) /\ \A n \in Range(new) : nodecounter[r] < n.id
    BY MadeNodesFacts
  <2>3. nodecounter[r] \in Nat /\ \A n \in AnyNode : n.id \in Nat
    BY DEF InStep, CounterIs, AnyNode
  <2>4. new' = new
    <3>1. Kept(r) /\ current'[r] = current[r]
      BY <1>4 DEF CreateDatasets, Kept
    <3>2. AnalysisIs(At(r))
      BY WorldOf
    <3> QED BY <3>1, <3>2, SameCreated
  <2>5. MadeNodes(r)' = Range(new)
    <3>1. MadeNodes(r)' = Range(new)'
      BY <2>1 DEF MadeNodes
    <3> HIDE DEF new
    <3> QED BY <2>4, <3>1
  <2> HIDE DEF new
  <2>6. nodes'[r] \in Seq(AnyNode) /\ Range(nodes'[r]) = Range(nodes[r]) \cup Range(new)
    <3>1. nodes[r] \o new \in Seq(AnyNode) /\ Range(nodes[r] \o new) = Range(nodes[r]) \cup Range(new)
      BY <1>0, <2>2, RangeOfConcat
    <3> QED BY <2>1, <3>1
  <2>7. \A n \in Range(new) : n.id \in Nat
    <3>1. \A n \in Range(new) : n \in AnyNode
      BY <2>2, ElementOfSeq, LenProperties DEF Range
    <3> QED BY <2>3, <3>1
  <2>8. OldNodes(r)' = {n \in Range(nodes[r]) \cup Range(new) : n.id <= nodecounter[r]}
    BY <1>1, <2>6 DEF OldNodes
  <2>9. OldNodes(r)' = OldNodes(r)
    BY <2>2, <2>3, <2>7, <2>8 DEF OldNodes
  <2>10. Range(nodes[r])' = OldNodes(r)' \cup MadeNodes(r)'
    BY <1>2, <2>5, <2>6, <2>9
  <2> QED BY <1>0, <2>1, <2>6, <2>9, <2>10
<1> QED BY <1>3, <1>4 DEF StepOf

LEMMA StepNodes ==
  ASSUME NodesInv, NEW r \in Ranks, StepOf(r)
  PROVE  /\ NodesInv'
         /\ \A q \in Ranks : OldNodes(q)' = OldNodes(q)
<1> USE DEF NodesInv
<1>1. /\ setting' = setting /\ iomodel' = iomodel /\ current' = current /\ nodecounter' = nodecounter
      /\ pc' \in [Ranks -> {"partition", "datasets", "counters", "done"}] /\ pc'[r] # "done" /\ pc[r] # "counters"
      /\ DOMAIN my_elements' = Ranks /\ DOMAIN my_vertices' = Ranks /\ DOMAIN nodes' = Ranks
      /\ DOMAIN constraints' = Ranks
      /\ \A q \in Ranks : q # r => Idle(q)
  BY Movers
<1>2. /\ nodes'[r] \in Seq(AnyNode) /\ my_elements'[r] \subseteq Elements
      /\ OldNodes(r)' = OldNodes(r)
      /\ Range(nodes[r])' = OldNodes(r)' \cup MadeNodes(r)'
  BY MoverNodes
<1>3. ASSUME NEW q \in Ranks, q # r
      PROVE  /\ nodes'[q] = nodes[q] /\ my_elements'[q] = my_elements[q] /\ pc'[q] = pc[q]
             /\ OldNodes(q)' = OldNodes(q) /\ MadeNodes(q)' = MadeNodes(q)
  <2>1. Idle(q) /\ AnalysisIs(At(q))
    BY <1>1, <1>3, WorldOf
  <2> QED BY <2>1, IdleKeeps DEF Idle, Kept
<1>4. Elements' = Elements /\ Analyses' = Analyses /\ AnyNode' = AnyNode
  BY <1>1 DEF Elements, Analyses, AnyNode, NumberOfElements
<1>5. Partitioned'
  <2>1. \A q \in Ranks : my_elements'[q] \subseteq Elements
    BY <1>2, <1>3 DEF Partitioned
  <2> QED BY <1>1, <1>4, <2>1 DEF Partitioned
<1>6. Ranked'
  <2>1. \A q \in Ranks : nodes'[q] \in Seq(AnyNode)
    BY <1>2, <1>3 DEF Ranked
  <2>2. nodes' = [q \in Ranks |-> nodes'[q]]
    <3>1. nodes' = [nodes EXCEPT ![r] = nodes'[r]]
      <4>1. CASE ElementsAndVerticesPartitioning(r)
        BY <4>1 DEF ElementsAndVerticesPartitioning, Ranked
      <4>2. CASE CreateDatasets(r)
        BY <4>2 DEF CreateDatasets, Ranked
      <4> QED BY <4>1, <4>2 DEF StepOf
    <3> QED BY <3>1 DEF Ranked
  <2>3. nodes' \in [Ranks -> Seq(AnyNode)]
    BY <2>1, <2>2
  <2>4. current' \in [Ranks -> Analyses]
    BY <1>1 DEF Ranked
  <2> QED BY <1>1, <1>4, <2>3, <2>4 DEF Ranked
<1>7. InStep'
  <2>1. \A N : CounterIs(N) => CounterIs(N)'
    BY <1>1 DEF CounterIs
  <2> QED BY <1>1, <2>1 DEF InStep
<1>8. \A q \in Ranks : OldNodes(q)' = OldNodes(q)
  BY <1>2, <1>3
<1>9. NodesAreMade'
  <2>1. ASSUME NEW q \in Ranks
        PROVE  Range(nodes[q])' = OldNodes(q)' \cup MadeNodes(q)'
    BY <1>2, <1>3 DEF NodesAreMade
  <2> QED BY <2>1 DEF NodesAreMade
<1>10. OldNodesAgree'
  BY <1>8 DEF OldNodesAgree
<1>11. OldNames'
  <2>1. \A q \in Ranks : pc'[q] # "done" => pc[q] # "done" \/ q = r
    BY <1>3
  <2>2. pc[r] # "done"
    BY DEF StepOf, ElementsAndVerticesPartitioning, CreateDatasets
  <2>3. \A q \in Ranks : pc'[q] # "done" => pc[q] # "done"
    BY <2>1, <2>2
  <2> QED BY <1>1, <1>4, <1>8, <2>3 DEF OldNames
<1> QED BY <1>5, <1>6, <1>7, <1>8, <1>9, <1>10, <1>11

-----------------------------------------------------------------------------
(* The collective step: the counters move.                                 *)

AllIds == UNION {{nodes[r][k].id : k \in DOMAIN nodes[r]} : r \in Ranks}

LEMMA IdsAreFinite ==
  ASSUME Ranked
  PROVE  /\ IsFiniteSet(AllIds) /\ AllIds \in SUBSET Nat
         /\ \A r \in Ranks : \A n \in Range(nodes[r]) : n.id \in AllIds
         /\ AllIds = {} => \A r \in Ranks : Range(nodes[r]) = {}
<1>1. ASSUME NEW r \in Ranks
      PROVE  /\ IsFiniteSet(Ids(nodes[r])) /\ Ids(nodes[r]) \subseteq Nat
             /\ {nodes[r][k].id : k \in DOMAIN nodes[r]} = Ids(nodes[r])
  <2> DEFINE s == nodes[r]
  <2> DEFINE f == [k \in 1..Len(s) |-> s[k].id]
  <2>1. s \in Seq(AnyNode) /\ Len(s) \in Nat /\ DOMAIN s = 1..Len(s)
    BY LenProperties DEF Ranked
  <2>2. IsFiniteSet({f[k] : k \in 1..Len(s)})
    <3>1. IsFiniteSet(1..Len(s))
      BY <2>1, FS_Interval
    <3> HIDE DEF f, s
    <3> QED BY <3>1, FiniteImage
  <2>3. {f[k] : k \in 1..Len(s)} = Ids(s) /\ {s[k].id : k \in DOMAIN s} = Ids(s)
    BY <2>1 DEF Ids, Range
  <2>4. \A k \in 1..Len(s) : s[k].id \in Nat
    <3>1. \A k \in 1..Len(s) : s[k] \in AnyNode
      BY <2>1, ElementOfSeq
    <3> QED BY <3>1 DEF AnyNode
  <2> QED BY <2>1, <2>2, <2>3, <2>4
<1> DEFINE f == [r \in Ranks |-> Ids(nodes[r])]
<1>2. AllIds = UNION {f[r] : r \in Ranks}
  <2>1. \A r \in Ranks : {nodes[r][k].id : k \in DOMAIN nodes[r]} = f[r]
    BY <1>1
  <2> HIDE DEF f
  <2> QED BY <2>1 DEF AllIds
<1>3. IsFiniteSet({f[r] : r \in Ranks})
  <2>1. IsFiniteSet(Ranks)
    BY SettingsAssumption
  <2> HIDE DEF f
  <2> QED BY <2>1, FiniteImage
<1>4. \A r \in Ranks : f[r] = Ids(nodes[r])
  OBVIOUS
<1> HIDE DEF f
<1>5. \A T \in {f[r] : r \in Ranks} : IsFiniteSet(T)
  BY <1>1, <1>4
<1>6. IsFiniteSet(AllIds)
  BY <1>2, <1>3, <1>5, FS_UNION
<1>7. AllIds \in SUBSET Nat
  BY <1>1, <1>2, <1>4
<1>8. \A r \in Ranks : \A x : x \in Ids(nodes[r]) => x \in AllIds
  BY <1>2, <1>4
<1>9. \A r \in Ranks : \A n \in Range(nodes[r]) : n.id \in AllIds
  BY <1>8 DEF Ids
<1> QED BY <1>6, <1>7, <1>9

\* All ids are at most the new counter.
LEMMA CounterMoves ==
  ASSUME Ranked, InStep, UpdateCounters
  PROVE  /\ \E N \in Nat : CounterIs(N)'
         /\ \A r \in Ranks : \A n \in Range(nodes[r]) : n.id <= nodecounter'[r]
<1>1. /\ IsFiniteSet(AllIds) /\ AllIds \in SUBSET Nat
      /\ \A r \in Ranks : \A n \in Range(nodes[r]) : n.id \in AllIds
      /\ AllIds = {} => \A r \in Ranks : Range(nodes[r]) = {}
  BY IdsAreFinite
<1>2. nodecounter' = IF AllIds = {} THEN nodecounter
                     ELSE [r \in Ranks |-> CHOOSE i \in AllIds : \A j \in AllIds : j <= i]
  BY DEF UpdateCounters, AllIds
<1>3. CASE AllIds = {}
  <2>1. PICK N \in Nat : CounterIs(N)
    BY DEF InStep
  <2>2. CounterIs(N)'
    BY <1>2, <1>3, <2>1 DEF CounterIs
  <2> QED BY <1>1, <1>3, <2>2
<1>4. CASE AllIds # {}
  <2>1. MaxOf(AllIds) \in AllIds /\ \A x \in AllIds : x <= MaxOf(AllIds)
    <3>1. AllIds \in SUBSET Int
      BY <1>1
    <3> QED BY <1>1, <1>4, <3>1, MaxOfFinite
  <2>2. MaxOf(AllIds) = CHOOSE i \in AllIds : \A j \in AllIds : j <= i
    BY DEF MaxOf
  <2>3. PICK M : M = MaxOf(AllIds)
    OBVIOUS
  <2>4. M \in Nat /\ \A x \in AllIds : x <= M
    BY <1>1, <2>1, <2>3
  <2>5. \A r \in Ranks : nodecounter'[r] = M
    BY <1>2, <1>4, <2>2, <2>3
  <2>6. CounterIs(M)'
    BY <2>4, <2>5 DEF CounterIs
  <2>7. \A r \in Ranks : \A n \in Range(nodes[r]) : n.id <= nodecounter'[r]
    BY <1>1, <2>4, <2>5
  <2> QED BY <2>4, <2>6, <2>7
<1> QED BY <1>3, <1>4

\* All the nodes agree when every rank has made those of the analysis.
NodesAgree ==
  \A r, q \in Ranks : \A m \in Range(nodes[r]), n \in Range(nodes[q]) :
    /\ m.id = n.id => m = n
    /\ m.analysis = n.analysis /\ m.sid = n.sid => m.id = n.id

LEMMA AllMadeAgree ==
  ASSUME NodesInv, \A r \in Ranks : pc[r] = "counters"
  PROVE  NodesAgree
<1> USE DEF NodesInv
<1> SUFFICES ASSUME NEW r \in Ranks, NEW q \in Ranks,
                    NEW m \in Range(nodes[r]), NEW n \in Range(nodes[q])
             PROVE  /\ m.id = n.id => m = n
                    /\ m.analysis = n.analysis /\ m.sid = n.sid => m.id = n.id
  BY DEF NodesAgree
<1>1. MadeNodes(r) = Range(CreateNodes(r, At(r))) /\ MadeNodes(q) = Range(CreateNodes(q, At(q)))
  BY DEF MadeNodes
<1>2. m \in OldNodes(r) \cup MadeNodes(r) /\ n \in OldNodes(q) \cup MadeNodes(q)
  BY DEF NodesAreMade
<1>3. /\ \A x \in MadeNodes(r) : nodecounter[r] < x.id /\ x.analysis = At(r).name
      /\ \A x \in MadeNodes(r), y \in MadeNodes(q) : x.id = y.id \/ x.sid = y.sid => x = y
  BY <1>1, MadeNodesFacts
<1>4. \A x \in MadeNodes(q) : nodecounter[q] < x.id /\ x.analysis = At(q).name
  BY <1>1, MadeNodesFacts
<1>5. nodecounter[q] = nodecounter[r] /\ nodecounter[r] \in Nat
  BY DEF InStep, CounterIs
<1>6. m.id \in Nat /\ n.id \in Nat
  <2>1. \A p \in Ranks : \A x \in Range(nodes[p]) : x \in AnyNode
    BY ElementOfSeq, LenProperties DEF Ranked, Range
  <2> QED BY <2>1 DEF AnyNode
<1>7. /\ \A x \in OldNodes(r) : x.id <= nodecounter[r] /\ x.analysis # At(r).name
      /\ \A x \in OldNodes(q) : x.id <= nodecounter[q] /\ x.analysis # At(r).name
  <2>1. ASSUME NEW p \in Ranks, NEW x \in OldNodes(p)
        PROVE  x.id <= nodecounter[p] /\ x.analysis # At(r).name
    <3>1. pc[p] # "done" /\ current[p] = current[r] /\ current[r] \in Analyses
      BY DEF InStep, Ranked
    <3>2. PICK i \in Analyses : i < current[p] /\ x.analysis = setting.analyses[i].name
      BY <3>1 DEF OldNames
    <3>3. i # current[r]
      <4>1. i \in Nat /\ current[r] \in Nat
        <5>1. setting.analyses \in Seq(AnalysisTypes)
          BY SettingsAssumption DEF Partitioned
        <5>2. Analyses = 1..Len(setting.analyses) /\ Len(setting.analyses) \in Nat
          BY <5>1, LenProperties DEF Analyses
        <5> QED BY <3>1, <5>2
      <4> QED BY <3>1, <3>2, <4>1
    <3>4. setting.analyses[i].name # setting.analyses[current[r]].name
      BY <3>1, <3>3, SettingsAssumption DEF Partitioned, Analyses
    <3> QED BY <3>2, <3>4 DEF OldNodes, At
  <2> QED BY <2>1
<1>8. At(q) = At(r)
  BY WorldOf
<1>9. CASE m \in OldNodes(r) /\ n \in OldNodes(q)
  BY <1>9 DEF OldNodesAgree
<1>10. CASE m \in OldNodes(r) /\ n \in MadeNodes(q)
  BY <1>4, <1>5, <1>6, <1>7, <1>8, <1>10
<1>11. CASE m \in MadeNodes(r) /\ n \in OldNodes(q)
  BY <1>3, <1>5, <1>6, <1>7, <1>11
<1>12. CASE m \in MadeNodes(r) /\ n \in MadeNodes(q)
  BY <1>3, <1>12
<1> QED BY <1>2, <1>9, <1>10, <1>11, <1>12

LEMMA TurnNodes ==
  ASSUME NodesInv, UpdateCounters
  PROVE  /\ NodesInv'
         /\ \A r \in Ranks : OldNodes(r)' = Range(nodes[r])
<1> USE DEF NodesInv
<1>1. /\ setting' = setting /\ iomodel' = iomodel /\ my_elements' = my_elements
      /\ my_vertices' = my_vertices /\ nodes' = nodes /\ constraints' = constraints
      /\ \A r \in Ranks : pc[r] = "counters" /\ pc'[r] \in {"datasets", "done"}
      /\ pc' \in [Ranks -> {"datasets", "done"}]
  BY DEF UpdateCounters
<1>2. /\ \E N \in Nat : CounterIs(N)'
      /\ \A r \in Ranks : \A n \in Range(nodes[r]) : n.id <= nodecounter'[r]
  BY CounterMoves
<1>3. \A r \in Ranks : OldNodes(r)' = Range(nodes[r]) /\ Range(nodes[r])' = Range(nodes[r]) /\ MadeNodes(r)' = {}
  BY <1>1, <1>2 DEF OldNodes, MadeNodes
<1>4. Elements' = Elements /\ Analyses' = Analyses /\ AnyNode' = AnyNode
  BY <1>1 DEF Elements, Analyses, AnyNode, NumberOfElements
<1>5. Partitioned'
  BY <1>1, <1>4 DEF Partitioned
<1>6. /\ current' \in [Ranks -> Analyses] /\ \A r, q \in Ranks : current'[r] = current'[q]
      /\ \A r \in Ranks : pc'[r] # "done" => current'[r] = current[r] + 1
  <2>1. Analyses = 1..Len(setting.analyses) /\ Len(setting.analyses) \in Nat
    <3>1. setting.analyses \in Seq(AnalysisTypes)
      BY SettingsAssumption DEF Partitioned
    <3> QED BY <3>1, LenProperties DEF Analyses
  <2>2. current \in [Ranks -> 1..Len(setting.analyses)] /\ \A r, q \in Ranks : current[r] = current[q]
    BY <2>1 DEF Ranked, InStep
  <2>3. CASE \A r \in Ranks : current[r] < Len(setting.analyses)
    <3>1. current' = [r \in Ranks |-> current[r] + 1]
      BY <2>3 DEF UpdateCounters
    <3>2. \A r \in Ranks : current[r] + 1 \in 1..Len(setting.analyses)
      BY <2>1, <2>2, <2>3
    <3> QED BY <2>1, <2>2, <3>1, <3>2
  <2>4. CASE ~ \A r \in Ranks : current[r] < Len(setting.analyses)
    <3>1. current' = current /\ \A r \in Ranks : pc'[r] = "done"
      BY <2>4 DEF UpdateCounters
    <3> QED BY <2>1, <2>2, <3>1
  <2> QED BY <2>3, <2>4
<1>7. Ranked'
  BY <1>1, <1>4, <1>6 DEF Ranked
<1>8. InStep'
  BY <1>2, <1>6 DEF InStep
<1>9. NodesAreMade'
  BY <1>3 DEF NodesAreMade
<1>10. OldNodesAgree'
  <2>1. NodesAgree
    BY <1>1, AllMadeAgree
  <2> QED BY <1>3, <2>1 DEF OldNodesAgree, NodesAgree
<1>11. OldNames'
  <2>1. ASSUME NEW r \in Ranks, pc'[r] # "done", NEW n \in Range(nodes[r])
        PROVE  \E i \in Analyses : i < current'[r] /\ n.analysis = setting.analyses[i].name
    <3>1. current'[r] = current[r] + 1 /\ pc[r] = "counters" /\ current[r] \in Analyses /\ current[r] \in Nat
      <4>1. setting.analyses \in Seq(AnalysisTypes)
        BY SettingsAssumption DEF Partitioned
      <4>2. Analyses = 1..Len(setting.analyses) /\ Len(setting.analyses) \in Nat
        BY <4>1, LenProperties DEF Analyses
      <4> QED BY <1>1, <1>6, <2>1, <4>2 DEF Ranked
    <3>2. n \in OldNodes(r) \cup MadeNodes(r)
      BY <2>1 DEF NodesAreMade
    <3>3. CASE n \in OldNodes(r)
      <4>1. PICK i \in Analyses : i < current[r] /\ n.analysis = setting.analyses[i].name
        BY <3>1, <3>3 DEF OldNames
      <4>2. i \in Nat
        <5>1. setting.analyses \in Seq(AnalysisTypes)
          BY SettingsAssumption DEF Partitioned
        <5>2. Analyses = 1..Len(setting.analyses) /\ Len(setting.analyses) \in Nat
          BY <5>1, LenProperties DEF Analyses
        <5> QED BY <5>2
      <4> QED BY <3>1, <4>1, <4>2
    <3>4. CASE n \in MadeNodes(r)
      <4>1. n.analysis = At(r).name
        BY <3>1, <3>4, MadeNodesFacts DEF MadeNodes
      <4> QED BY <3>1, <4>1 DEF At
    <3> QED BY <3>2, <3>3, <3>4
  <2> QED BY <1>1, <1>3, <1>4, <2>1 DEF OldNames
<1> QED BY <1>3, <1>5, <1>7, <1>8, <1>9, <1>10, <1>11

LEMMA NextNodes ==
  ASSUME NodesInv, [Next]_vars
  PROVE  NodesInv'
<1>1. ASSUME NEW r \in Ranks, StepOf(r)
      PROVE  NodesInv'
  BY <1>1, StepNodes
<1>2. CASE UpdateCounters
  BY <1>2, TurnNodes
<1>3. CASE UNCHANGED vars
  <2> USE <1>3 DEF vars
  <2>1. Partitioned'
    BY DEF NodesInv, Partitioned, Elements, NumberOfElements
  <2>2. Ranked'
    BY DEF NodesInv, Ranked, Analyses, AnyNode
  <2>3. InStep'
    BY DEF NodesInv, InStep, CounterIs
  <2>4. \A q \in Ranks : OldNodes(q)' = OldNodes(q) /\ MadeNodes(q)' = MadeNodes(q)
    <3>1. ASSUME NEW q \in Ranks
          PROVE  OldNodes(q)' = OldNodes(q) /\ MadeNodes(q)' = MadeNodes(q)
      <4>1. Idle(q)
        BY DEF Idle, Kept
      <4>2. AnalysisIs(At(q))
        BY WorldOf DEF NodesInv
      <4> QED BY <4>1, <4>2, IdleKeeps
    <3> QED BY <3>1
  <2>5. NodesAreMade'
    BY <2>4 DEF NodesInv, NodesAreMade
  <2>6. OldNodesAgree'
    BY <2>4 DEF NodesInv, OldNodesAgree
  <2>7. OldNames'
    BY <2>4 DEF NodesInv, OldNames, Analyses
  <2> QED BY <2>1, <2>2, <2>3, <2>5, <2>6, <2>7 DEF NodesInv
<1>4. Next => (\E r \in Ranks : StepOf(r)) \/ UpdateCounters \/ UNCHANGED vars
  BY DEF Next, StepOf, Solve
<1> QED BY <1>1, <1>2, <1>3, <1>4

-----------------------------------------------------------------------------
(* The constraints.                                                        *)

\* What a rank is to impose for the analysis it is at, whether it has done so or not.
LEMMA MadeSpcsFacts ==
  ASSUME Partitioned, Ranked, InStep, PressureIsWherePut, NEW r \in Ranks,
         NEW c \in CreateConstraints(r, At(r))
  PROVE  /\ c.node \in Ids(CreateNodes(r, At(r)))
         /\ \A q \in Ranks : c.node \in Ids(CreateNodes(q, At(q))) => c \in CreateConstraints(q, At(q))
<1> DEFINE a == At(r)
<1>1. PICK N \in Nat : CounterIs(N)
  BY DEF InStep
<1>2. AnalysisWorld(N, a) /\ \A q \in Ranks : At(q) = a
  BY <1>1, WorldOf DEF AnalysisWorld
<1>3. PressureIsThere(a)
  <2>1. setting \in Settings /\ Kind = setting.mesh.kind /\ current[r] \in DOMAIN setting.analyses
    BY MeshIsKnown, WorldOf DEF Partitioned, Kind, Analyses
  <2> QED BY <2>1 DEF PressureIsWherePut, PressureIsThere, IsStokes, At
<1> HIDE DEF a
<1>4. Fits(AllSpcs(a), AllNodes(a))
  BY <1>2, <1>3, ConstraintsFit
<1>5. \A q \in Ranks : AllSpcs(a)[q] = CreateConstraints(q, At(q)) /\ AllNodes(a)[q] = CreateNodes(q, At(q))
  BY <1>2 DEF AllSpcs, AllNodes
<1> QED BY <1>4, <1>5 DEF Fits

LEMMA IdsGrow ==
  ASSUME NodesInv, NEW r \in Ranks, StepOf(r)
  PROVE  \A q \in Ranks : Ids(nodes[q]) \subseteq Ids(nodes[q])'
<1>1. \A q \in Ranks : q # r => nodes'[q] = nodes[q]
  BY Movers DEF Idle, NodesInv
<1>2. Range(nodes[r]) \subseteq Range(nodes'[r])
  <2>1. pc[r] # "counters"
    BY Movers DEF NodesInv
  <2>2. Range(nodes[r]) = OldNodes(r)
    BY <2>1 DEF NodesInv, NodesAreMade, MadeNodes
  <2>3. /\ OldNodes(r)' = OldNodes(r)
        /\ Range(nodes[r])' = OldNodes(r)' \cup MadeNodes(r)'
    BY MoverNodes DEF NodesInv
  <2> QED BY <2>2, <2>3
<1> QED BY <1>1, <1>2 DEF Ids

\* The constraints of the rank that moves.
LEMMA MoverSpcs ==
  ASSUME NodesInv, SpcsInv, PressureIsWherePut, NEW r \in Ranks, StepOf(r)
  PROVE  /\ OldSpcs(r)' = OldSpcs(r) /\ constraints[r] \subseteq constraints'[r]
         /\ constraints'[r] = OldSpcs(r)' \cup MadeSpcs(r)'
         /\ \A c \in constraints'[r] : c.node \in Ids(nodes[r])'
<1> USE DEF NodesInv
<1>0. DOMAIN constraints = Ranks /\ DOMAIN pc = Ranks /\ DOMAIN nodes = Ranks
  BY DEF Ranked
<1>1. pc[r] # "counters" /\ nodecounter'[r] = nodecounter[r]
  BY Movers
<1>2. MadeSpcs(r) = {} /\ constraints[r] = OldSpcs(r)
  BY <1>1 DEF MadeSpcs, SpcsInv, SpcsAreMade
<1>3. \A c \in constraints[r] : c.node \in Ids(nodes[r])'
  <2>1. \A c \in constraints[r] : c.node \in Ids(nodes[r])
    BY DEF SpcsInv, SpcsAreMade
  <2> QED BY <2>1, IdsGrow
<1>4. CASE ElementsAndVerticesPartitioning(r)
  <2>1. constraints' = constraints /\ pc'[r] = "datasets"
    BY <1>0, <1>4 DEF ElementsAndVerticesPartitioning
  <2>2. OldSpcs(r)' = OldSpcs(r)
    BY <1>1, <2>1 DEF OldSpcs
  <2>3. MadeSpcs(r)' = {}
    BY <2>1 DEF MadeSpcs
  <2> QED BY <1>2, <1>3, <2>1, <2>2, <2>3
<1>5. CASE CreateDatasets(r)
  <2> DEFINE new == CreateConstraints(r, At(r))
  <2>1. constraints'[r] = constraints[r] \cup new /\ pc'[r] = "counters"
    BY <1>0, <1>5 DEF CreateDatasets, At
  <2>2. \A c \in new : c.node \in Ids(CreateNodes(r, At(r)))
    BY MadeSpcsFacts
  <2>3. Kept(r) /\ current'[r] = current[r] /\ AnalysisIs(At(r))
    BY <1>5, WorldOf DEF CreateDatasets, Kept
  <2>4. CreateNodes(r, At(r))' = CreateNodes(r, At(r)) /\ new' = new
    BY <2>3, SameCreated
  <2>5. MadeSpcs(r)' = new
    <3>1. MadeSpcs(r)' = new'
      BY <2>1 DEF MadeSpcs
    <3> HIDE DEF new
    <3> QED BY <2>4, <3>1
  <2>6. Ids(CreateNodes(r, At(r))) \subseteq Ids(nodes[r])'
    <3>1. MadeNodes(r)' = Range(CreateNodes(r, At(r)))
      <4>1. MadeNodes(r)' = Range(CreateNodes(r, At(r)))'
        BY <2>1 DEF MadeNodes
      <4> QED BY <2>4, <4>1
    <3>2. Range(nodes[r])' = OldNodes(r)' \cup MadeNodes(r)'
      BY MoverNodes
    <3> QED BY <3>1, <3>2 DEF Ids
  <2>7. \A c \in new : ~ (c.node <= nodecounter[r])
    <3>1. nodecounter[r] \in Nat
      BY DEF InStep, CounterIs
    <3>2. \A n \in Range(CreateNodes(r, At(r))) : nodecounter[r] < n.id /\ n.id \in Nat
      <4>1. /\ CreateNodes(r, At(r)) \in Seq(AnyNode)
            /\ \A n \in Range(CreateNodes(r, At(r))) : nodecounter[r] < n.id
        BY MadeNodesFacts
      <4>2. \A n \in Range(CreateNodes(r, At(r))) : n \in AnyNode
        BY <4>1, ElementOfSeq, LenProperties DEF Range
      <4> QED BY <4>1, <4>2 DEF AnyNode
    <3> QED BY <2>2, <3>1, <3>2 DEF Ids
  <2> HIDE DEF new
  <2>8. OldSpcs(r)' = {c \in constraints[r] \cup new : c.node <= nodecounter[r]}
    BY <1>1, <2>1 DEF OldSpcs
  <2>9. OldSpcs(r)' = OldSpcs(r)
    BY <2>7, <2>8 DEF OldSpcs
  <2> QED BY <1>2, <1>3, <2>1, <2>2, <2>5, <2>6, <2>9
<1> QED BY <1>4, <1>5 DEF StepOf

LEMMA StepSpcs ==
  ASSUME NodesInv, SpcsInv, PressureIsWherePut, NEW r \in Ranks, StepOf(r)
  PROVE  SpcsInv'
<1>1. /\ OldSpcs(r)' = OldSpcs(r) /\ constraints[r] \subseteq constraints'[r]
      /\ constraints'[r] = OldSpcs(r)' \cup MadeSpcs(r)'
      /\ \A c \in constraints'[r] : c.node \in Ids(nodes[r])'
  BY MoverSpcs
<1>2. ASSUME NEW q \in Ranks, q # r
      PROVE  /\ constraints'[q] = constraints[q] /\ OldSpcs(q)' = OldSpcs(q)
             /\ MadeSpcs(q)' = MadeSpcs(q)
  <2>1. Idle(q) /\ AnalysisIs(At(q))
    BY <1>2, Movers, WorldOf DEF NodesInv
  <2> QED BY <2>1, IdleKeeps DEF Idle
<1>3. SpcsAreMade'
  <2>1. ASSUME NEW q \in Ranks
        PROVE  /\ constraints'[q] = OldSpcs(q)' \cup MadeSpcs(q)'
               /\ \A c \in constraints'[q] : c.node \in Ids(nodes[q])'
    BY <1>1, <1>2, IdsGrow DEF SpcsInv, SpcsAreMade
  <2> QED BY <2>1 DEF SpcsAreMade
<1>4. OldSpcsAgree'
  <2>1. \A q \in Ranks : OldSpcs(q)' = OldSpcs(q) /\ constraints[q] \subseteq constraints'[q]
    BY <1>1, <1>2
  <2>2. \A q \in Ranks : OldNodes(q)' = OldNodes(q)
    BY StepNodes
  <2> QED BY <2>1, <2>2 DEF SpcsInv, OldSpcsAgree
<1> QED BY <1>3, <1>4 DEF SpcsInv

\* When every rank has made what it is to make, a constraint is with all the copies of its node.
SpcsAgree ==
  \A r, q \in Ranks : \A c \in constraints[r] :
    (\E n \in Range(nodes[q]) : n.id = c.node) => c \in constraints[q]

LEMMA AllSpcsAgree ==
  ASSUME NodesInv, SpcsInv, PressureIsWherePut, \A r \in Ranks : pc[r] = "counters"
  PROVE  SpcsAgree
<1> USE DEF NodesInv, SpcsInv
<1> SUFFICES ASSUME NEW r \in Ranks, NEW q \in Ranks, NEW c \in constraints[r],
                    NEW n \in Range(nodes[q]), n.id = c.node
             PROVE  c \in constraints[q]
  BY DEF SpcsAgree
<1>1. /\ MadeNodes(q) = Range(CreateNodes(q, At(q))) /\ MadeNodes(r) = Range(CreateNodes(r, At(r)))
      /\ MadeSpcs(r) = CreateConstraints(r, At(r)) /\ MadeSpcs(q) = CreateConstraints(q, At(q))
  BY DEF MadeNodes, MadeSpcs
<1>2. c \in OldSpcs(r) \cup MadeSpcs(r) /\ n \in OldNodes(q) \cup MadeNodes(q)
  BY DEF SpcsAreMade, NodesAreMade
<1>3. nodecounter[q] = nodecounter[r] /\ nodecounter[r] \in Nat /\ n.id \in Nat
  <2>1. \A x \in Range(nodes[q]) : x \in AnyNode
    BY ElementOfSeq, LenProperties DEF Ranked, Range
  <2> QED BY <2>1 DEF AnyNode, InStep, CounterIs
<1>4. \A x \in MadeNodes(q) : nodecounter[q] < x.id
  BY <1>1, MadeNodesFacts
<1>5. \A x \in MadeNodes(r) : nodecounter[r] < x.id
  BY <1>1, MadeNodesFacts
<1>6. CASE c \in OldSpcs(r) /\ n \in OldNodes(q)
  BY <1>6 DEF OldSpcsAgree
<1>7. CASE c \in OldSpcs(r) /\ n \in MadeNodes(q)
  <2>1. c.node <= nodecounter[r]
    BY <1>7 DEF OldSpcs
  <2> QED BY <1>3, <1>4, <1>7, <2>1
<1>8. CASE c \in MadeSpcs(r)
  <2>1. /\ c.node \in Ids(CreateNodes(r, At(r)))
        /\ \A p \in Ranks : c.node \in Ids(CreateNodes(p, At(p))) => c \in CreateConstraints(p, At(p))
    BY <1>1, <1>8, MadeSpcsFacts
  <2>2. nodecounter[r] < n.id
    BY <1>1, <1>5, <2>1 DEF Ids
  <2>3. n \in MadeNodes(q)
    BY <1>2, <1>3, <2>2 DEF OldNodes
  <2>4. c \in MadeSpcs(q)
    BY <1>1, <2>1, <2>3 DEF Ids
  <2> QED BY <2>4 DEF SpcsAreMade
<1> QED BY <1>2, <1>6, <1>7, <1>8

LEMMA TurnSpcs ==
  ASSUME NodesInv, SpcsInv, PressureIsWherePut, UpdateCounters
  PROVE  SpcsInv'
<1>1. /\ nodes' = nodes /\ constraints' = constraints
      /\ \A r \in Ranks : pc[r] = "counters" /\ pc'[r] \in {"datasets", "done"}
  BY DEF UpdateCounters
<1>2. \A r \in Ranks : \A n \in Range(nodes[r]) : n.id <= nodecounter'[r]
  BY CounterMoves DEF NodesInv
<1>3. \A r \in Ranks : \A c \in constraints[r] : c.node \in Ids(nodes[r])
  BY DEF SpcsInv, SpcsAreMade
<1>4. \A r \in Ranks : \A c \in constraints[r] : c.node <= nodecounter'[r]
  BY <1>2, <1>3 DEF Ids
<1>5. \A r \in Ranks : OldSpcs(r)' = constraints[r] /\ MadeSpcs(r)' = {}
  BY <1>1, <1>4 DEF OldSpcs, MadeSpcs
<1>6. SpcsAreMade'
  BY <1>1, <1>3, <1>5 DEF SpcsAreMade, Ids
<1>7. SpcsAgree
  BY <1>1, AllSpcsAgree
<1>8. \A r \in Ranks : OldNodes(r)' = Range(nodes[r])
  BY TurnNodes
<1>9. OldSpcsAgree'
  BY <1>1, <1>5, <1>7, <1>8 DEF OldSpcsAgree, SpcsAgree
<1> QED BY <1>6, <1>9 DEF SpcsInv

LEMMA NextSpcs ==
  ASSUME NodesInv, SpcsInv, PressureIsWherePut, [Next]_vars
  PROVE  SpcsInv'
<1>1. ASSUME NEW r \in Ranks, StepOf(r)
      PROVE  SpcsInv'
  BY <1>1, StepSpcs
<1>2. CASE UpdateCounters
  BY <1>2, TurnSpcs
<1>3. CASE UNCHANGED vars
  <2> USE <1>3 DEF vars
  <2>1. ASSUME NEW q \in Ranks
        PROVE  /\ OldNodes(q)' = OldNodes(q) /\ OldSpcs(q)' = OldSpcs(q)
               /\ MadeSpcs(q)' = MadeSpcs(q)
    <3>1. Idle(q)
      BY DEF Idle, Kept
    <3>2. AnalysisIs(At(q))
      BY WorldOf DEF NodesInv
    <3> QED BY <3>1, <3>2, IdleKeeps
  <2>2. SpcsAreMade'
    BY <2>1 DEF SpcsInv, SpcsAreMade, Ids
  <2>3. OldSpcsAgree'
    BY <2>1 DEF SpcsInv, OldSpcsAgree
  <2> QED BY <2>2, <2>3 DEF SpcsInv
<1>4. Next => (\E r \in Ranks : StepOf(r)) \/ UpdateCounters \/ UNCHANGED vars
  BY DEF Next, StepOf, Solve
<1> QED BY <1>1, <1>2, <1>3, <1>4

-----------------------------------------------------------------------------
(* Theorems.                                                               *)

NodeCopiesAgree == Done => NodesAgree

\* The ranks number alike, with no message about it: at every moment the counters of the
\* nodes are equal on all ranks, and a rank has the nodes it had when they last moved and
\* those that CreateNodes makes of its elements; the inductive invariant.
THEOREM RanksNumberAlike == Spec => []NodesInv
<1>1. Init => NodesInv
  BY InitNodes
<1>2. NodesInv /\ [Next]_vars => NodesInv'
  BY NextNodes
<1> QED BY <1>1, <1>2, PTL DEF Spec

\* For every mesh, partition and list of analyses the copies of a node are equal in all
\* their fields, and different nodes of an analysis have different serial ids.
THEOREM NodeCopiesAreEqual == Spec => []NodeCopiesAgree
<1>1. NodesInv => NodeCopiesAgree
  <2> SUFFICES ASSUME NodesInv, Done PROVE NodesAgree
    BY DEF NodeCopiesAgree
  <2>1. \A r \in Ranks : Range(nodes[r]) = OldNodes(r)
    BY DEF NodesInv, NodesAreMade, MadeNodes, Done
  <2> QED BY <2>1 DEF NodesInv, OldNodesAgree, NodesAgree
<1> QED BY <1>1, RanksNumberAlike, PTL

\* And the copies have the same constraints, where the pressure is imposed on the nodes of
\* the pressure.
THEOREM CopiesAreEqual ==
  ASSUME PressureIsWherePut
  PROVE  Spec => []CopiesAgree
<1>1. Init => NodesInv /\ SpcsInv
  BY InitNodes, InitSpcs
<1>2. NodesInv /\ SpcsInv /\ [Next]_vars => (NodesInv /\ SpcsInv)'
  BY NextNodes, NextSpcs
<1>3. NodesInv /\ SpcsInv => CopiesAgree
  <2> SUFFICES ASSUME NodesInv, SpcsInv, Done PROVE CopiesAgree
    BY DEF CopiesAgree
  <2>1. \A r \in Ranks : Range(nodes[r]) = OldNodes(r) /\ constraints[r] = OldSpcs(r)
    BY DEF NodesInv, NodesAreMade, MadeNodes, Done, SpcsInv, SpcsAreMade, MadeSpcs
  <2>2. NodesAgree
    BY <2>1 DEF NodesInv, OldNodesAgree, NodesAgree
  <2>3. SpcsAgree
    BY <2>1 DEF SpcsInv, OldSpcsAgree, SpcsAgree
  <2> QED BY <2>2, <2>3 DEF CopiesAgree, NodesAgree, SpcsAgree
<1> QED BY <1>1, <1>2, <1>3, PTL DEF Spec

-----------------------------------------------------------------------------
(***************************************************************************)
(* The marks of the vertices.                                              *)
(***************************************************************************)
IsPairs(s, n, V) == n \in Nat /\ \A i \in 1..n : s[i] \in V \X V

Marking(V) == [V -> 0..2]

\* One step of the fold.
LEMMA ClonePairFacts ==
  ASSUME NEW V, NEW got \in Marking(V), NEW p \in V \X V
  PROVE  /\ ClonePair(got, p) \in Marking(V)
         /\ \A x \in V : got[x] # 0 => ClonePair(got, p)[x] = got[x]
         /\ \A x \in V : got[x] = 0 /\ ClonePair(got, p)[x] # 0 =>
              p[2] = x /\ got[p[1]] # 0 /\ ClonePair(got, p)[x] = 2
         /\ got[p[1]] # 0 => ClonePair(got, p)[p[2]] # 0
<1>1. p[1] \in V /\ p[2] \in V
  OBVIOUS
<1>2. CASE got[p[1]] # 0 /\ got[p[2]] = 0
  <2>1. ClonePair(got, p) = [got EXCEPT ![p[2]] = 2]
    BY <1>2 DEF ClonePair
  <2> QED BY <1>1, <1>2, <2>1 DEF Marking
<1>3. CASE ~ (got[p[1]] # 0 /\ got[p[2]] = 0)
  <2>1. ClonePair(got, p) = got
    BY <1>3 DEF ClonePair
  <2> QED BY <1>1, <1>3, <2>1 DEF Marking
<1> QED BY <1>2, <1>3

\* A mark stays, and a vertex that gets one gets it as the second of a pair.
LEMMA MarksGrow ==
  ASSUME NEW V, NEW s, NEW n, IsPairs(s, n, V), NEW own \in Marking(V), NEW h, NEW v,
         Steps(h, "pair", own, s, n, v)
  PROVE  \A i \in 0..n :
           /\ h[i] \in Marking(V)
           /\ \A j \in 0..i : \A x \in V : h[j][x] # 0 => h[i][x] = h[j][x]
           /\ \A x \in V : h[i][x] # 0 /\ own[x] = 0 =>
                /\ h[i][x] = 2
                /\ \E j \in 1..i : s[j][2] = x /\ h[j - 1][x] = 0 /\ h[j - 1][s[j][1]] # 0
<1> DEFINE Good == {i \in 0..n :
           /\ h[i] \in Marking(V)
           /\ \A j \in 0..i : \A x \in V : h[j][x] # 0 => h[i][x] = h[j][x]
           /\ \A x \in V : h[i][x] # 0 /\ own[x] = 0 =>
                /\ h[i][x] = 2
                /\ \E j \in 1..i : s[j][2] = x /\ h[j - 1][x] = 0 /\ h[j - 1][s[j][1]] # 0}
<1>1. n \in Nat /\ h[0] = own
  BY DEF IsPairs, Steps
<1>2. 0 \in Good
  <2>1. 0..0 = {0} /\ 0 \in 0..n
    BY <1>1
  <2> QED BY <1>1, <2>1
<1>3. ASSUME NEW i \in 1..n, i - 1 \in Good
      PROVE  i \in Good
  <2> DEFINE k == i - 1
  <2>1. k \in 0..n /\ i \in 0..n /\ i = k + 1 /\ k \in Nat /\ 0..i = (0..k) \cup {i} /\ 1..k \subseteq 1..i
    BY <1>1
  <2>2. /\ h[k] \in Marking(V)
        /\ \A j \in 0..k : \A x \in V : h[j][x] # 0 => h[k][x] = h[j][x]
        /\ \A x \in V : h[k][x] # 0 /\ own[x] = 0 =>
             /\ h[k][x] = 2
             /\ \E j \in 1..k : s[j][2] = x /\ h[j - 1][x] = 0 /\ h[j - 1][s[j][1]] # 0
    BY <1>3
  <2>3. h[i] = ClonePair(h[k], s[i])
    BY DEF Steps, Step
  <2>4. s[i] \in V \X V
    BY DEF IsPairs
  <2>5. /\ h[i] \in Marking(V)
        /\ \A x \in V : h[k][x] # 0 => h[i][x] = h[k][x]
        /\ \A x \in V : h[k][x] = 0 /\ h[i][x] # 0 => s[i][2] = x /\ h[k][s[i][1]] # 0 /\ h[i][x] = 2
    BY <2>2, <2>3, <2>4, ClonePairFacts
  <2> HIDE DEF k
  <2>6. ASSUME NEW j \in 0..i, NEW x \in V, h[j][x] # 0
        PROVE  h[i][x] = h[j][x]
    <3>1. CASE j = i
      BY <3>1
    <3>2. CASE j \in 0..k
      BY <2>2, <2>5, <2>6, <3>2
    <3> QED BY <2>1, <3>1, <3>2
  <2>7. ASSUME NEW x \in V, h[i][x] # 0, own[x] = 0
        PROVE  /\ h[i][x] = 2
               /\ \E j \in 1..i : s[j][2] = x /\ h[j - 1][x] = 0 /\ h[j - 1][s[j][1]] # 0
    <3>1. CASE h[k][x] # 0
      BY <2>1, <2>2, <2>5, <2>7, <3>1
    <3>2. CASE h[k][x] = 0
      BY <2>1, <2>5, <2>7, <3>2 DEF k
    <3> QED BY <3>1, <3>2
  <2> QED BY <2>1, <2>5, <2>6, <2>7
<1> HIDE DEF Good
<1>4. \A i \in 0..n : i \in Good
  BY <1>1, <1>2, <1>3, UpTo
<1> QED BY <1>4 DEF Good

\* With pairs in order, no pair is left half marked.
LEMMA PairsComplete ==
  ASSUME NEW V, NEW s, NEW n, IsPairs(s, n, V), PairsInTurn(s, n), NEW own \in Marking(V), NEW h, NEW v,
         Steps(h, "pair", own, s, n, v)
  PROVE  \A i \in 1..n : v[s[i][1]] # 0 => v[s[i][2]] # 0
<1>1. n \in Nat /\ h[0] = own /\ h[n] = v /\ \A i \in 1..n : h[i] = ClonePair(h[i - 1], s[i])
  BY DEF IsPairs, Steps, Step
<1>2. \A i \in 0..n :
           /\ h[i] \in Marking(V)
           /\ \A j \in 0..i : \A x \in V : h[j][x] # 0 => h[i][x] = h[j][x]
           /\ \A x \in V : h[i][x] # 0 /\ own[x] = 0 =>
                \E j \in 1..i : s[j][2] = x /\ h[j - 1][x] = 0 /\ h[j - 1][s[j][1]] # 0
  BY MarksGrow
<1>3. \A i \in 1..n : s[i] \in V \X V /\ s[i][1] \in V /\ s[i][2] \in V /\ i - 1 \in 0..n /\ i \in 0..n
  BY <1>1 DEF IsPairs
<1>4. ASSUME NEW i \in 1..n, h[i - 1][s[i][1]] # 0
      PROVE  \A j \in i..n : h[j][s[i][2]] # 0
  <2>1. h[i][s[i][2]] # 0
    BY <1>1, <1>2, <1>3, <1>4, ClonePairFacts
  <2>2. \A j \in i..n : j \in 0..n /\ i \in 0..j
    BY <1>1
  <2> QED BY <1>2, <1>3, <2>1, <2>2
<1> DEFINE Good == {d \in 0..n : \A i \in 1..n : i > n - d => (v[s[i][1]] # 0 => v[s[i][2]] # 0)}
<1>5. 0 \in Good
  BY <1>1
<1>6. ASSUME NEW d \in 1..n, d - 1 \in Good
      PROVE  d \in Good
  <2>1. \A i \in 1..n : i > n - d + 1 => (v[s[i][1]] # 0 => v[s[i][2]] # 0)
    BY <1>1, <1>6
  <2>2. ASSUME NEW i \in 1..n, i = n - d + 1, v[s[i][1]] # 0
        PROVE  v[s[i][2]] # 0
    <3> DEFINE a == s[i][1]
    <3> DEFINE b == s[i][2]
    <3>1. CASE h[i - 1][a] # 0
      <4>1. n \in i..n
        BY <1>1
      <4> QED BY <1>1, <1>4, <3>1, <4>1
    <3>2. CASE h[i - 1][a] = 0
      <4>1. own[a] = 0
        <5>1. 0 \in 0..(i - 1) /\ a \in V
          BY <1>3
        <5> QED BY <1>1, <1>2, <1>3, <3>2, <5>1
      <4>2. PICK j \in 1..n : s[j][2] = a /\ h[j - 1][a] = 0 /\ h[j - 1][s[j][1]] # 0
        <5>1. n \in 0..n /\ a \in V /\ h[n][a] # 0
          BY <1>1, <1>3, <2>2
        <5> HIDE DEF a
        <5> QED BY <1>2, <4>1, <5>1
      <4>3. ASSUME NEW k \in 1..(i - 1), s[k] = s[j], h[k - 1][s[k][1]] # 0
            PROVE  FALSE
        <5>1. k \in 1..n /\ i - 1 \in k..n
          BY <1>1
        <5> QED BY <1>4, <3>2, <4>2, <4>3, <5>1
      <4>4. i <= j
        BY <4>2, <4>3
      <4>5. CASE s[j][1] = b
        <5>1. j - 1 \in 0..n /\ n \in 0..n
          BY <1>1
        <5>2. j - 1 \in 0..n /\ h[n][b] = h[j - 1][b]
          BY <1>1, <1>2, <1>3, <4>2, <4>5, <5>1
        <5> QED BY <1>1, <4>2, <4>5, <5>2
      <4>6. CASE \E k \in (j + 1)..n : s[k] = s[i]
        <5>1. PICK k \in (j + 1)..n : s[k] = s[i]
          BY <4>6
        <5>2. k \in 1..n /\ k > n - d + 1
          BY <1>1, <2>2, <4>4
        <5> QED BY <2>1, <2>2, <5>1, <5>2
      <4>7. CASE (\A k \in 1..n : s[k][2] # s[j][1]) /\ \E k, l \in 1..n : k < j /\ k < l /\ s[k] = s[j] /\ s[l] = s[i]
        <5>1. PICK k \in 1..n, l \in 1..n : k < j /\ k < l /\ s[k] = s[j] /\ s[l] = s[i]
          BY <4>7
        <5> DEFINE c == s[j][1]
        <5>2. c \in V /\ j - 1 \in 0..n /\ \A x \in 1..(j - 1) : x \in 1..n
          BY <1>1, <1>3
        <5>3. own[c] # 0
          <6> SUFFICES ASSUME own[c] = 0 PROVE FALSE
            OBVIOUS
          <6>1. h[j - 1][c] # 0
            BY <4>2
          <6> HIDE DEF c
          <6>2. \E x \in 1..(j - 1) : s[x][2] = c
            BY <1>2, <5>2, <6>1
          <6> QED BY <4>7, <5>2, <6>2 DEF c
        <5>4. k - 1 \in 0..n /\ 0 \in 0..(k - 1) /\ l - 1 \in k..n /\ n \in l..n
          BY <1>1, <5>1
        <5>5. h[k - 1][c] # 0
          BY <1>1, <1>2, <5>2, <5>3, <5>4
        <5>6. h[l - 1][a] # 0
          BY <1>4, <4>2, <5>1, <5>4, <5>5
        <5>7. h[n][b] # 0
          BY <1>4, <5>1, <5>4, <5>6
        <5> QED BY <1>1, <5>7
      <4> QED BY <4>2, <4>4, <4>5, <4>6, <4>7 DEF PairsInTurn
    <3> QED BY <3>1, <3>2
  <2>3. \A i \in 1..n : i > n - d => i = n - d + 1 \/ i > n - d + 1
    BY <1>1
  <2>4. d \in 0..n
    BY <1>1
  <2> QED BY <2>1, <2>2, <2>3, <2>4
<1> HIDE DEF Good
<1>7. \A d \in 0..n : d \in Good
  BY <1>1, <1>5, <1>6, UpTo
<1>8. n \in Good /\ \A i \in 1..n : i > n - n
  BY <1>1, <1>7
<1> QED BY <1>8 DEF Good

LEMMA PairVerticesAreFold ==
  ASSUME NEW mine, NEW s, NEW n, DOMAIN s = 1..n
  PROVE  PairVertices(mine, s) = (CHOOSE g : Table(g, "pair", mine, s, n))[1..n]
<1>1. PairVertices(mine, s) = FoldLeft(ClonePair, mine, s)
  BY DEF PairVertices, ClonePair, FoldLeft, MapThenFoldSet
<1>2. FoldLeft(ClonePair, mine, s) = (CHOOSE g : Table(g, "pair", mine, s, n))[1..n]
  BY DEF FoldLeft, MapThenFoldSet, Table, Step
<1> QED BY <1>1, <1>2

Own(mine) ==
  [v \in Vertices |-> IF \E e \in mine : v \in Range(iomodel.mesh.elements[e]) THEN 1 ELSE 0]

\* The two lists of pairs are one list.
LEMMA PairsAreOneFold ==
  ASSUME Partitioned, NEW mine
  PROVE  LET s == AllPairs(setting)
         IN  /\ IsPairs(s, Len(s), Vertices)
             /\ \A p : (\E i \in 1..Len(s) : s[i] = p) <=>
                  p \in Range(setting.pairing.stressbalance) \cup Range(setting.pairing.masstransport)
             /\ \E h : Steps(h, "pair", Own(mine), s, Len(s), MyVertices(mine))
<1> DEFINE a == setting.pairing.stressbalance
<1> DEFINE b == setting.pairing.masstransport
<1> DEFINE s == a \o b
<1> DEFINE S == Vertices \X Vertices
<1>1. a \in Seq(S) /\ b \in Seq(S)
  <2>1. Vertices = 1..setting.mesh.nv
    BY MeshIsKnown DEF Vertices, NumberOfVertices
  <2> QED BY <2>1, SettingsAssumption DEF Partitioned
<1> DEFINE own == Own(mine)
<1> DEFINE v == MyVertices(mine)
<1>2. v = PairVertices(PairVertices(own, a), b)
  BY DEF MyVertices, Own
<1>0. s = AllPairs(setting)
  BY DEF AllPairs
<1> HIDE DEF a, b, S, own, v, s
<1> DEFINE m == Len(a)
<1> DEFINE n == Len(b)
<1>3. /\ m \in Nat /\ n \in Nat /\ DOMAIN a = 1..m /\ DOMAIN b = 1..n
      /\ s \in Seq(S) /\ Len(s) = m + n /\ DOMAIN s = 1..(m + n)
      /\ \A i \in 1..(m + n) : s[i] = IF i <= m THEN a[i] ELSE b[i - m]
  BY <1>1, ConcatProperties, LenProperties DEF s
<1> DEFINE u == PairVertices(own, a)
<1> HIDE DEF u, m, n
<1>4. PICK f : Steps(f, "pair", own, a, m, u)
  <2>1. u = (CHOOSE g : Table(g, "pair", own, a, m))[1..m]
    BY <1>3, PairVerticesAreFold DEF u
  <2> QED BY <1>3, <2>1, StepsOf
<1>5. PICK g : Steps(g, "pair", u, b, n, v)
  <2>1. v = (CHOOSE g : Table(g, "pair", u, b, n))[1..n]
    BY <1>2, <1>3, PairVerticesAreFold DEF u
  <2> QED BY <1>3, <2>1, StepsOf
<1> DEFINE h == [i \in 0..(m + n) |-> IF i <= m THEN f[i] ELSE g[i - m]]
<1>6. Steps(h, "pair", own, s, m + n, v)
  <2>1. f[m] = g[0]
    BY <1>4, <1>5 DEF Steps
  <2>2. h[0] = own
    BY <1>3, <1>4 DEF Steps
  <2>3. h[m + n] = v
    <3>1. CASE n = 0
      BY <1>3, <1>5, <2>1, <3>1 DEF Steps
    <3>2. CASE n # 0
      <4>1. m + n \in 0..(m + n) /\ ~ (m + n <= m) /\ (m + n) - m = n
        BY <1>3, <3>2
      <4> QED BY <1>5, <4>1 DEF Steps
    <3> QED BY <3>1, <3>2
  <2>4. ASSUME NEW i \in 1..(m + n)
        PROVE  h[i] = Step("pair", h[i - 1], s[i])
    <3>1. i \in 0..(m + n) /\ i - 1 \in 0..(m + n)
      BY <1>3
    <3>2. CASE i <= m
      <4>1. i \in 1..m /\ i - 1 <= m
        BY <1>3, <3>2
      <4> QED BY <1>3, <1>4, <3>1, <3>2, <4>1 DEF Steps
    <3>3. CASE ~ (i <= m)
      <4>1. i - m \in 1..n /\ (i - 1) - m = (i - m) - 1
        BY <1>3, <3>3
      <4>2. h[i] = g[i - m] /\ s[i] = b[i - m]
        BY <1>3, <3>1, <3>3
      <4>3. h[i - 1] = g[(i - m) - 1]
        <5>1. CASE i - 1 <= m
          <6>1. i - 1 = m /\ (i - m) - 1 = 0
            BY <1>3, <3>3, <5>1
          <6> QED BY <2>1, <3>1, <5>1, <6>1
        <5>2. CASE ~ (i - 1 <= m)
          BY <3>1, <4>1, <5>2
        <5> QED BY <5>1, <5>2
      <4>4. g[i - m] = Step("pair", g[(i - m) - 1], b[i - m])
        BY <1>5, <4>1 DEF Steps
      <4> QED BY <4>2, <4>3, <4>4
    <3> QED BY <3>2, <3>3
  <2> HIDE DEF h
  <2> QED BY <2>2, <2>3, <2>4 DEF Steps
<1>7. \A i \in 1..(m + n) : s[i] \in S
  BY <1>3, ElementOfSeq
<1>8. ASSUME NEW p
      PROVE  (\E i \in 1..(m + n) : s[i] = p) <=> p \in Range(a) \cup Range(b)
  <2>1. \A i \in 1..m : i \in 1..(m + n) /\ s[i] = a[i]
    BY <1>3
  <2>2. \A i \in 1..n : m + i \in 1..(m + n) /\ s[m + i] = b[i]
    <3> SUFFICES ASSUME NEW i \in 1..n PROVE m + i \in 1..(m + n) /\ s[m + i] = b[i]
      OBVIOUS
    <3>1. m + i \in 1..(m + n) /\ ~ (m + i <= m) /\ (m + i) - m = i
      BY <1>3
    <3> QED BY <1>3, <3>1
  <2>3. \A i \in 1..(m + n) : (i \in 1..m /\ s[i] = a[i]) \/ (i - m \in 1..n /\ s[i] = b[i - m])
    BY <1>3
  <2>4. Range(a) = {a[i] : i \in 1..m} /\ Range(b) = {b[i] : i \in 1..n}
    BY <1>3 DEF Range
  <2>5. ASSUME p \in Range(a) \cup Range(b)
        PROVE  \E i \in 1..(m + n) : s[i] = p
    BY <2>1, <2>2, <2>4, <2>5
  <2>6. ASSUME NEW i \in 1..(m + n), s[i] = p
        PROVE  p \in Range(a) \cup Range(b)
    BY <2>3, <2>4, <2>6
  <2> QED BY <2>5, <2>6
<1>9. IsPairs(s, Len(s), Vertices)
  BY <1>3, <1>7 DEF IsPairs, S
<1>10. \E h_ : Steps(h_, "pair", Own(mine), s, Len(s), MyVertices(mine))
  <2>1. Len(s) = m + n
    BY <1>3
  <2> HIDE DEF h
  <2> QED BY <1>6, <2>1 DEF own, v
<1>11. \A p : (\E i \in 1..Len(s) : s[i] = p) <=>
               p \in Range(setting.pairing.stressbalance) \cup Range(setting.pairing.masstransport)
  BY <1>3, <1>8 DEF a, b
<1> QED BY <1>0, <1>9, <1>10, <1>11

MarkOf(r, v) ==
  IF \E e \in my_elements[r] : v \in Range(iomodel.mesh.elements[e]) THEN 1
  ELSE IF v \in Paired(r) THEN 2 ELSE 0

LEMMA MarksAre ==
  ASSUME Partitioned, PairsComeInTurn, NEW r, my_vertices[r] = MyVertices(my_elements[r])
  PROVE  \A v \in Vertices : my_vertices[r][v] = MarkOf(r, v)
<1> DEFINE s == AllPairs(setting)
<1> DEFINE n == Len(s)
<1> DEFINE own == Own(my_elements[r])
<1> DEFINE m == my_vertices[r]
<1>1. /\ IsPairs(s, n, Vertices) /\ PairsInTurn(s, n)
      /\ \A p : (\E i \in 1..n : s[i] = p) <=>
           p \in Range(setting.pairing.stressbalance) \cup Range(setting.pairing.masstransport)
  BY PairsAreOneFold DEF Partitioned, PairsComeInTurn
<1>2. PICK h : Steps(h, "pair", own, s, n, m)
  BY PairsAreOneFold
<1>3. own \in Marking(Vertices)
      /\ \A v \in Vertices : own[v] = IF \E e \in my_elements[r] : v \in Range(iomodel.mesh.elements[e])
                                        THEN 1 ELSE 0
  BY DEF Own, Marking
<1>4. Paired(r) = {s[i][2] : i \in {j \in 1..n : m[s[j][1]] # 0}}
  <2> HIDE DEF s, n, m
  <2>1. \A i \in 1..n : s[i] \in Range(setting.pairing.stressbalance) \cup Range(setting.pairing.masstransport)
    BY <1>1
  <2> QED BY <1>1, <2>1 DEF Paired, m
<1> HIDE DEF s, n, own, m
<1>5. n \in Nat /\ h[n] = m /\ h[0] = own /\ n \in 0..n /\ 0 \in 0..n
  BY <1>1, <1>2 DEF IsPairs, Steps
<1>6. /\ m \in Marking(Vertices)
      /\ \A v \in Vertices : own[v] # 0 => m[v] = own[v]
      /\ \A v \in Vertices : m[v] # 0 /\ own[v] = 0 =>
           m[v] = 2 /\ \E j \in 1..n : s[j][2] = v /\ h[j - 1][s[j][1]] # 0
  BY <1>1, <1>2, <1>3, <1>5, MarksGrow
<1>7. \A j \in 1..n : h[j - 1][s[j][1]] # 0 => m[s[j][1]] # 0
  <2> SUFFICES ASSUME NEW j \in 1..n, h[j - 1][s[j][1]] # 0 PROVE m[s[j][1]] # 0
    OBVIOUS
  <2>1. j - 1 \in 0..n /\ s[j][1] \in Vertices
    BY <1>1, <1>5 DEF IsPairs
  <2>2. \A i \in 0..n : \A x \in Vertices : h[i][x] # 0 => h[n][x] = h[i][x]
    BY <1>1, <1>2, <1>3, <1>5, MarksGrow
  <2> QED BY <1>5, <2>1, <2>2
<1>8. \A i \in 1..n : m[s[i][1]] # 0 => m[s[i][2]] # 0
  BY <1>1, <1>2, <1>3, PairsComplete
<1>9. ASSUME NEW v \in Vertices
      PROVE  m[v] = MarkOf(r, v)
  <2>1. CASE own[v] # 0
    BY <1>3, <1>6, <2>1 DEF MarkOf
  <2>2. CASE own[v] = 0 /\ m[v] # 0
    <3>1. m[v] = 2 /\ v \in Paired(r)
      BY <1>4, <1>6, <1>7, <2>2
    <3> QED BY <1>3, <2>2, <3>1 DEF MarkOf
  <2>3. CASE own[v] = 0 /\ m[v] = 0
    <3>1. v \notin Paired(r)
      BY <1>4, <1>8, <2>3
    <3> QED BY <1>3, <2>3, <3>1 DEF MarkOf
  <2> QED BY <2>1, <2>2, <2>3
<1> QED BY <1>9 DEF m

MarksInv ==
  /\ my_elements \in [Ranks -> SUBSET Elements]
  /\ my_vertices \in [Ranks -> [Vertices -> 0..2]]
  /\ nodecounter \in [Ranks -> Nat]
  /\ \A r \in Ranks : pc[r] # "partition" => my_vertices[r] = MyVertices(my_elements[r])

LEMMA InitMarks ==
  ASSUME Init
  PROVE  MarksInv
BY DEF Init, MarksInv

LEMMA MyVerticesType ==
  ASSUME Partitioned, NEW mine
  PROVE  MyVertices(mine) \in [Vertices -> 0..2]
<1> DEFINE s == AllPairs(setting)
<1> DEFINE n == Len(s)
<1>1. IsPairs(s, n, Vertices)
  BY PairsAreOneFold
<1>2. PICK h : Steps(h, "pair", Own(mine), s, n, MyVertices(mine))
  BY PairsAreOneFold
<1>3. Own(mine) \in Marking(Vertices)
  BY DEF Own, Marking
<1> HIDE DEF s, n
<1>4. n \in 0..n /\ h[n] = MyVertices(mine)
  BY <1>1, <1>2 DEF IsPairs, Steps
<1> QED BY <1>1, <1>2, <1>3, <1>4, MarksGrow DEF Marking

LEMMA NextMarks ==
  ASSUME NodesInv, NodesInv', MarksInv, [Next]_vars
  PROVE  MarksInv'
<1> USE DEF MarksInv, NodesInv
<1>1. ASSUME NEW r \in Ranks, ElementsAndVerticesPartitioning(r)
      PROVE  MarksInv'
  <2> DEFINE mine == {e \in Elements : Epart(setting)[e] = r}
  <2>1. /\ my_elements' = [my_elements EXCEPT ![r] = mine]
        /\ my_vertices' = [my_vertices EXCEPT ![r] = MyVertices(mine)]
        /\ pc' = [pc EXCEPT ![r] = "datasets"]
        /\ setting' = setting /\ iomodel' = iomodel /\ nodecounter' = nodecounter
    BY <1>1 DEF ElementsAndVerticesPartitioning
  <2>2. Elements' = Elements /\ Vertices' = Vertices
    BY <2>1 DEF Elements, Vertices, NumberOfElements, NumberOfVertices
  <2>3. mine \in SUBSET Elements /\ MyVertices(mine) \in [Vertices -> 0..2]
    BY MyVerticesType
  <2> HIDE DEF mine
  <2>4. \A q \in Ranks : MyVertices(my_elements[q])' = MyVertices(my_elements'[q])
    BY <2>1, <2>2 DEF MyVertices
  <2> QED BY <2>1, <2>2, <2>3, <2>4 DEF Ranked
<1>2. ASSUME setting' = setting, iomodel' = iomodel, my_elements' = my_elements, my_vertices' = my_vertices,
             nodecounter' \in [Ranks -> Nat], \A q \in Ranks : pc'[q] # "partition" => pc[q] # "partition"
      PROVE  MarksInv'
  <2>1. Elements' = Elements /\ Vertices' = Vertices
    BY <1>2 DEF Elements, Vertices, NumberOfElements, NumberOfVertices
  <2>2. \A q \in Ranks : MyVertices(my_elements[q])' = MyVertices(my_elements[q])
    BY <1>2, <2>1 DEF MyVertices
  <2> QED BY <1>2, <2>1, <2>2
<1>3. ASSUME NEW r \in Ranks, CreateDatasets(r)
      PROVE  MarksInv'
  BY <1>2, <1>3 DEF CreateDatasets, Ranked
<1>4. CASE UpdateCounters
  <2>1. \A q \in Ranks : nodecounter'[q] \in Nat
    BY DEF InStep, CounterIs
  <2>2. nodecounter' = nodecounter \/ \E N : nodecounter' = [q \in Ranks |-> N]
    <3> DEFINE N == CHOOSE i \in AllIds : \A j \in AllIds : j <= i
    <3>1. nodecounter' = IF AllIds = {} THEN nodecounter ELSE [q \in Ranks |-> N]
      BY <1>4 DEF UpdateCounters, AllIds
    <3> HIDE DEF N
    <3> QED BY <3>1
  <2>3. nodecounter' \in [Ranks -> Nat]
    BY <2>1, <2>2
  <2>4. /\ setting' = setting /\ iomodel' = iomodel /\ my_elements' = my_elements /\ my_vertices' = my_vertices
        /\ \A q \in Ranks : pc[q] # "partition"
    BY <1>4 DEF UpdateCounters
  <2> QED BY <1>2, <2>3, <2>4
<1>5. CASE UNCHANGED vars
  BY <1>2, <1>5 DEF vars
<1> QED BY <1>1, <1>3, <1>4, <1>5 DEF Next, Solve

\* The variables keep their types, and a rank has the vertices of its elements, marked 1, and
\* those paired with one it has, marked 2, if one pass over the pairs is enough.
THEOREM ModelTypeCorrect ==
  ASSUME PairsComeInTurn
  PROVE  Spec => []TypeOK
<1>1. Init => NodesInv /\ MarksInv
  BY InitNodes, InitMarks
<1>2. NodesInv /\ MarksInv /\ [Next]_vars => (NodesInv /\ MarksInv)'
  BY NextNodes, NextMarks
<1>3. NodesInv /\ MarksInv => TypeOK
  <2> SUFFICES ASSUME NodesInv, MarksInv PROVE TypeOK
    OBVIOUS
  <2>1. ASSUME NEW r \in Ranks, pc[r] # "partition"
        PROVE  \A v \in Vertices : my_vertices[r][v] = MarkOf(r, v)
    BY <2>1, MarksAre DEF NodesInv, MarksInv
  <2> QED BY <2>1 DEF TypeOK, MarkOf, NodesInv, MarksInv, Partitioned, Ranked
<1> QED BY <1>1, <1>2, <1>3, PTL DEF Spec

-----------------------------------------------------------------------------
(***************************************************************************)
(* What the model processor takes for granted of a mesh.                   *)
(***************************************************************************)
Nc == CornersOf(Kind)
Local == LocalEdges(Kind)
EdgeNo(e, k) == iomodel.elementEdges[e][k]
FaceNo(e, k) == iomodel.elementFaces[e][k]
End(e, k, j) == Place(e, Local[k][j])
Layer == CHOOSE n : IsLayer(iomodel.mesh, n)

Sound ==
  /\ Partitioned /\ Conforming(iomodel.mesh)
  /\ Kind = "penta" => Extruded(iomodel.mesh)

LEMMA LocalFacts ==
  ASSUME Kind \in {"tria", "tetra", "penta"}
  PROVE  /\ \E n \in Nat : DOMAIN Local = 1..n
         /\ \A k \in DOMAIN Local : /\ Local[k][1] \in 1..Nc /\ Local[k][2] \in 1..Nc /\ Local[k][1] # Local[k][2]
                                    /\ Local[k][3] \in {1, 2}
                                    /\ Kind # "penta" => Local[k][3] = 1
         /\ Kind = "tria" => DOMAIN Local = 1..3
         /\ Kind = "tetra" => DOMAIN Local = 1..6
         /\ Kind = "penta" =>
              /\ DOMAIN Local = 1..9
              /\ \A k \in 1..3 : Local[k][1] = k /\ Local[k][2] = k + 3 /\ Local[k][3] = 2
              /\ \A k \in 4..6 : Local[k][1] \in 1..3 /\ Local[k][2] \in 1..3 /\ Local[k][3] = 1
              /\ \A k \in 7..9 : Local[k][1] \in 4..6 /\ Local[k][2] \in 4..6 /\ Local[k][3] = 1
<1>1. CASE Kind = "tria"
  <2>1. Local = << <<2, 3, 1>>, <<3, 1, 1>>, <<1, 2, 1>> >> /\ Nc = 3
    BY <1>1 DEF Local, LocalEdges, Nc, CornersOf
  <2> QED BY <1>1, <2>1
<1>2. CASE Kind = "tetra"
  <2>1. Local = << <<2, 3, 1>>, <<1, 3, 1>>, <<1, 2, 1>>, <<2, 4, 1>>, <<3, 4, 1>>, <<1, 4, 1>> >> /\ Nc = 4
    BY <1>2 DEF Local, LocalEdges, Nc, CornersOf
  <2> QED BY <1>2, <2>1
<1>3. CASE Kind = "penta"
  <2>1. /\ Local = << <<1, 4, 2>>, <<2, 5, 2>>, <<3, 6, 2>>, <<2, 3, 1>>, <<3, 1, 1>>, <<1, 2, 1>>,
                      <<5, 6, 1>>, <<6, 4, 1>>, <<4, 5, 1>> >>
        /\ Nc = 6
    BY <1>3 DEF Local, LocalEdges, Nc, CornersOf
  <2> QED BY <1>3, <2>1
<1> QED BY <1>1, <1>2, <1>3

EdgeWith(ends) == CHOOSE i \in DOMAIN iomodel.edges : iomodel.edges[i].ends = ends

\* The edges that elementtoedgeconnectivity gives have the ends of those of the element.
LEMMA EdgeNumbers ==
  ASSUME Partitioned, NEW e \in 1..Nel
  PROVE  /\ DOMAIN iomodel.elementEdges[e] = DOMAIN Local
         /\ \A k \in DOMAIN Local :
              /\ EdgeNo(e, k) \in 1..Ne
              /\ iomodel.edges[EdgeNo(e, k)].ends = {End(e, k, 1), End(e, k, 2)}
              /\ End(e, k, 1) \in 1..Nv /\ End(e, k, 2) \in 1..Nv
              /\ \A f \in 1..Nel, l \in DOMAIN Local :
                   {End(e, k, 1), End(e, k, 2)} = {End(f, l, 1), End(f, l, 2)} => EdgeNo(e, k) = EdgeNo(f, l)
<1> DEFINE mesh == iomodel.mesh
<1>1. /\ IsMesh(mesh) /\ iomodel.edges = Edges(mesh) /\ iomodel.elementEdges = ElementToEdge(mesh, iomodel.edges)
      /\ Kind \in {"tria", "tetra", "penta"} /\ mesh.kind = Kind
  BY MeshIsKnown DEF IsMesh, Kind
<1>2. Nel = Len(mesh.elements) /\ DOMAIN mesh.elements = 1..Nel
  BY <1>1, MeshFacts DEF Nel, NumberOfElements
<1>3. \A f \in 1..Nel, k \in DOMAIN Local : EdgeEnds(mesh, f, k) = {End(f, k, 1), End(f, k, 2)}
  BY DEF EdgeEnds, End, Place, Local, Kind
<1>4. \A f \in 1..Nel : iomodel.elementEdges[f] =
         [k \in DOMAIN Local |-> EdgeWith(EdgeEnds(mesh, f, k))]
  BY <1>1, <1>2 DEF ElementToEdge, Local, EdgeWith
<1>5. \A f \in 1..Nel, k \in DOMAIN Local :
         EdgeNo(f, k) = EdgeWith({End(f, k, 1), End(f, k, 2)})
  <2>1. ASSUME NEW f \in 1..Nel, NEW k \in DOMAIN Local
        PROVE  EdgeNo(f, k) = EdgeWith(EdgeEnds(mesh, f, k))
    BY <1>4 DEF EdgeNo
  <2>2. ASSUME NEW f \in 1..Nel, NEW k \in DOMAIN Local
        PROVE  EdgeNo(f, k) = EdgeWith({End(f, k, 1), End(f, k, 2)})
    <3>1. EdgeEnds(mesh, f, k) = {End(f, k, 1), End(f, k, 2)}
      BY <1>3
    <3> QED BY <2>1, <3>1
  <2> QED BY <2>2
<1>6. ASSUME NEW k \in DOMAIN Local
      PROVE  EdgeNo(e, k) \in 1..Ne /\ iomodel.edges[EdgeNo(e, k)].ends = {End(e, k, 1), End(e, k, 2)}
  <2> DEFINE ends == {End(e, k, 1), End(e, k, 2)}
  <2>1. \E i \in DOMAIN iomodel.edges : iomodel.edges[i].ends = EdgeEnds(mesh, e, k)
    <3>1. DOMAIN Local = DOMAIN LocalEdges(mesh.kind)
      BY <1>1 DEF Local
    <3> HIDE DEF mesh
    <3> QED BY <1>1, <1>2, <3>1, EdgesFound
  <2>2. EdgeEnds(mesh, e, k) = ends /\ EdgeNo(e, k) = EdgeWith(ends)
    BY <1>3, <1>5
  <2> HIDE DEF ends
  <2>3. EdgeWith(ends) \in DOMAIN iomodel.edges /\ iomodel.edges[EdgeWith(ends)].ends = ends
    BY <2>1, <2>2 DEF EdgeWith
  <2> QED BY <2>2, <2>3, IoFacts DEF ends
<1>7. ASSUME NEW k \in DOMAIN Local
      PROVE  End(e, k, 1) \in 1..Nv /\ End(e, k, 2) \in 1..Nv
  BY <1>1, LocalFacts, IoFacts DEF End, Nc
<1>8. ASSUME NEW k \in DOMAIN Local, NEW f \in 1..Nel, NEW l \in DOMAIN Local,
             {End(e, k, 1), End(e, k, 2)} = {End(f, l, 1), End(f, l, 2)}
      PROVE  EdgeNo(e, k) = EdgeNo(f, l)
  BY <1>5, <1>8
<1> QED BY <1>4, <1>6, <1>7, <1>8

LEMMA LayerFacts ==
  ASSUME Sound, Kind = "penta"
  PROVE  /\ Layer \in Nat /\ Layer > 0 /\ Nc = 6
         /\ \A e \in 1..Nel, p \in 1..3 : /\ Place(e, p + 3) = Place(e, p) + Layer
                                         /\ \A q \in 1..3 : Place(e, p) - Place(e, q) < Layer
<1>1. IsLayer(iomodel.mesh, Layer)
  <2>1. \E n : IsLayer(iomodel.mesh, n)
    BY DEF Sound, Extruded
  <2> QED BY <2>1 DEF Layer
<1>2. DOMAIN iomodel.mesh.elements = 1..Nel
  BY MeshIsKnown, MeshFacts DEF Sound, Nel, NumberOfElements
<1> QED BY <1>1, <1>2 DEF IsLayer, Place, Nc, CornersOf

LEMMA CornersDiffer ==
  ASSUME Sound, NEW e \in 1..Nel
  PROVE  /\ \A p, q \in 1..Nc : Place(e, p) = Place(e, q) => p = q
         /\ \A f \in 1..Nel : (\A v : (\E p \in 1..Nc : v = Place(e, p)) <=> (\E p \in 1..Nc : v = Place(f, p))) => e = f
<1> DEFINE mesh == iomodel.mesh
<1>1. IsMesh(mesh) /\ mesh.kind = Kind /\ Nel = Len(mesh.elements)
  BY MeshIsKnown DEF Sound, Nel, NumberOfElements, Kind
<1>2. DOMAIN mesh.elements = 1..Nel /\ \A f \in 1..Nel : DOMAIN mesh.elements[f] = 1..Nc
  <2> HIDE DEF mesh
  <2> QED BY <1>1, MeshFacts DEF Nc
<1>3. \A p, q \in 1..Nc : Place(e, p) = Place(e, q) => p = q
  BY <1>2 DEF Sound, Conforming, Place
<1>4. ASSUME NEW f \in 1..Nel, \A v : (\E p \in 1..Nc : v = Place(e, p)) <=> (\E p \in 1..Nc : v = Place(f, p))
      PROVE  e = f
  <2>1. \A g \in 1..Nel : \A v : v \in Range(mesh.elements[g]) <=> \E p \in 1..Nc : v = Place(g, p)
    BY <1>2 DEF Range, Place
  <2>2. Range(mesh.elements[e]) = Range(mesh.elements[f])
    BY <1>4, <2>1
  <2> QED BY <1>2, <2>2 DEF Sound, Conforming
<1> QED BY <1>3, <1>4

\* A vertical edge goes from a vertex to the one above, a horizontal one does not.
LEMMA EdgeLevels ==
  ASSUME Sound, NEW e \in 1..Nel, NEW k \in DOMAIN Local
  PROVE  /\ End(e, k, 1) # End(e, k, 2) /\ Local[k][3] \in {1, 2}
         /\ Local[k][3] = 2 => Kind = "penta" /\ k \in 1..3 /\ End(e, k, 2) = End(e, k, 1) + Layer
         /\ Local[k][3] = 1 /\ Kind = "penta" =>
              End(e, k, 2) - End(e, k, 1) < Layer /\ End(e, k, 1) - End(e, k, 2) < Layer
<1>1. Kind \in {"tria", "tetra", "penta"}
  BY MeshIsKnown DEF Sound, IsMesh, Kind
<1>2. End(e, k, 1) # End(e, k, 2)
  BY <1>1, LocalFacts, CornersDiffer DEF End
<1>3. Kind # "penta" => Local[k][3] = 1
  BY <1>1, LocalFacts
<1>4. CASE Kind = "penta"
  <2>1. k \in 1..9
    BY <1>1, <1>4, LocalFacts
  <2>2. Nv \in Nat /\ \A p \in 1..6 : Place(e, p) \in 1..Nv
    BY <1>4, IoFacts DEF Sound, CornersOf
  <2>3. CASE k \in 1..3
    <3>1. Local[k][1] = k /\ Local[k][2] = k + 3 /\ Local[k][3] = 2
      BY <1>1, <1>4, <2>3, LocalFacts
    <3> QED BY <1>2, <1>4, <2>3, <3>1, LayerFacts DEF End
  <2>4. CASE k \in 4..6
    <3>1. Local[k][1] \in 1..3 /\ Local[k][2] \in 1..3 /\ Local[k][3] = 1
      BY <1>1, <1>4, <2>4, LocalFacts
    <3>2. /\ Place(e, Local[k][1]) - Place(e, Local[k][2]) < Layer
          /\ Place(e, Local[k][2]) - Place(e, Local[k][1]) < Layer
      BY <1>4, <3>1, LayerFacts
    <3> QED BY <1>2, <3>1, <3>2 DEF End
  <2>5. CASE k \in 7..9
    <3> DEFINE p == Local[k][1]
    <3> DEFINE q == Local[k][2]
    <3>1. p \in 4..6 /\ q \in 4..6 /\ Local[k][3] = 1
      BY <1>1, <1>4, <2>5, LocalFacts
    <3> HIDE DEF p, q
    <3>2. PICK i \in 1..3, j \in 1..3 : p = i + 3 /\ q = j + 3
      <4>1. p - 3 \in 1..3 /\ q - 3 \in 1..3 /\ p = (p - 3) + 3 /\ q = (q - 3) + 3
        BY <3>1
      <4> QED BY <4>1
    <3>3. /\ Place(e, p) = Place(e, i) + Layer /\ Place(e, q) = Place(e, j) + Layer
          /\ Place(e, i) - Place(e, j) < Layer /\ Place(e, j) - Place(e, i) < Layer
      BY <1>4, <3>2, LayerFacts
    <3>4. Place(e, i) \in Nat /\ Place(e, j) \in Nat /\ Layer \in Nat
      BY <1>4, <2>2, LayerFacts
    <3>5. Place(e, p) - Place(e, q) < Layer /\ Place(e, q) - Place(e, p) < Layer
      BY <3>3, <3>4
    <3>6. End(e, k, 1) = Place(e, p) /\ End(e, k, 2) = Place(e, q)
      BY DEF End, p, q
    <3> QED BY <1>2, <3>1, <3>5, <3>6
  <2> QED BY <2>1, <2>3, <2>4, <2>5
<1> QED BY <1>2, <1>3, <1>4

LEMMA EdgeMarkers ==
  ASSUME Sound, NEW e \in 1..Nel, NEW k \in DOMAIN Local
  PROVE  iomodel.edges[EdgeNo(e, k)].marker = Local[k][3]
<1> DEFINE mesh == iomodel.mesh
<1>1. IsMesh(mesh) /\ iomodel.edges = Edges(mesh) /\ mesh.kind = Kind /\ Partitioned
  BY MeshIsKnown DEF Kind, Sound
<1>2. DOMAIN mesh.elements = 1..Nel
  BY <1>1, MeshFacts DEF Nel, NumberOfElements
<1>3. iomodel.edges[EdgeNo(e, k)] \in EdgeRecords(mesh)
  <2>1. iomodel.edges \in Seq(EdgeRecords(mesh))
    BY <1>1, EdgesFound
  <2>2. EdgeNo(e, k) \in 1..Ne /\ Ne = Len(iomodel.edges)
    BY <1>1, EdgeNumbers DEF Ne, NumberOfEdges
  <2> QED BY <2>1, <2>2, LenProperties
<1>4. PICK f \in 1..Nel, l \in DOMAIN Local : iomodel.edges[EdgeNo(e, k)] = EdgeOf(mesh, f, l)
  <2>1. PICK x \in (DOMAIN mesh.elements) \X (DOMAIN LocalEdges(mesh.kind)) :
          iomodel.edges[EdgeNo(e, k)] = EdgeOf(mesh, x[1], x[2])
    BY <1>3 DEF EdgeRecords
  <2>2. x[1] \in 1..Nel /\ x[2] \in DOMAIN Local
    BY <1>1, <1>2 DEF Local
  <2> QED BY <2>1, <2>2
<1>5. EdgeOf(mesh, f, l).marker = Local[l][3] /\ EdgeOf(mesh, f, l).ends = {End(f, l, 1), End(f, l, 2)}
  BY DEF EdgeOf, EdgeEnds, End, Place, Local, Kind
<1>6. {End(f, l, 1), End(f, l, 2)} = {End(e, k, 1), End(e, k, 2)}
  BY <1>1, <1>4, <1>5, EdgeNumbers
<1>7. /\ End(f, l, 1) \in Nat /\ End(f, l, 2) \in Nat /\ End(e, k, 1) \in Nat /\ End(e, k, 2) \in Nat
      /\ Nv \in Nat
  <2>1. Nv \in Nat /\ \A x \in 1..Nv : x \in Nat
    BY <1>1, IoFacts
  <2>2. End(f, l, 1) \in 1..Nv /\ End(f, l, 2) \in 1..Nv /\ End(e, k, 1) \in 1..Nv /\ End(e, k, 2) \in 1..Nv
    BY <1>1, EdgeNumbers
  <2> QED BY <2>1, <2>2
<1>8. Kind = "penta" => Layer \in Nat /\ Layer > 0
  BY LayerFacts
<1>9. Local[l][3] = Local[k][3]
  <2>1. /\ Local[k][3] \in {1, 2} /\ Local[l][3] \in {1, 2}
        /\ Local[k][3] = 2 => Kind = "penta" /\ End(e, k, 2) = End(e, k, 1) + Layer
        /\ Local[l][3] = 2 => Kind = "penta" /\ End(f, l, 2) = End(f, l, 1) + Layer
        /\ Local[k][3] = 1 /\ Kind = "penta" => End(e, k, 2) - End(e, k, 1) < Layer /\ End(e, k, 1) - End(e, k, 2) < Layer
        /\ Local[l][3] = 1 /\ Kind = "penta" => End(f, l, 2) - End(f, l, 1) < Layer /\ End(f, l, 1) - End(f, l, 2) < Layer
    BY EdgeLevels
  <2>2. \/ End(f, l, 1) = End(e, k, 1) /\ End(f, l, 2) = End(e, k, 2)
        \/ End(f, l, 1) = End(e, k, 2) /\ End(f, l, 2) = End(e, k, 1)
    BY <1>6, EdgeLevels
  <2> QED BY <1>7, <1>8, <2>1, <2>2
<1> QED BY <1>4, <1>5, <1>9

-----------------------------------------------------------------------------
(***************************************************************************)
(* The vertical faces of a prism.                                          *)
(***************************************************************************)
LEMMA CardinalityOfMore ==
  ASSUME NEW S, IsFiniteSet(S), NEW n \in Nat, Cardinality(S) = n, NEW x, x \notin S, NEW T, T = S \cup {x}
  PROVE  IsFiniteSet(T) /\ Cardinality(T) = n + 1
BY FS_AddElement

LEMMA TwoElements ==
  ASSUME NEW x, NEW y, x # y
  PROVE  /\ IsFiniteSet({x, y}) /\ Cardinality({x, y}) = 2
         /\ \A S \in SUBSET {x, y} : Cardinality(S) < 3
<1>1. IsFiniteSet({x}) /\ Cardinality({x}) = 1
  BY FS_Singleton
<1>2. IsFiniteSet({x, y}) /\ Cardinality({x, y}) = 1 + 1
  <2>1. {x, y} = {x} \cup {y} /\ y \notin {x}
    OBVIOUS
  <2> QED BY <1>1, <2>1, CardinalityOfMore
<1>3. ASSUME NEW S \in SUBSET {x, y} PROVE Cardinality(S) < 3
  <2>1. IsFiniteSet(S) /\ Cardinality(S) <= Cardinality({x, y})
    BY <1>2, FS_Subset
  <2>2. Cardinality(S) \in Nat
    BY <2>1, FS_CardinalityType
  <2> QED BY <1>2, <2>1, <2>2
<1> QED BY <1>2, <1>3

LEMMA ThreeElements ==
  ASSUME NEW x, NEW y, NEW z, x # y, x # z, y # z
  PROVE  IsFiniteSet({x, y, z}) /\ Cardinality({x, y, z}) = 3
<1>1. IsFiniteSet({x, y}) /\ Cardinality({x, y}) = 2
  BY TwoElements
<1>2. {x, y, z} = {x, y} \cup {z} /\ z \notin {x, y}
  OBVIOUS
<1> QED BY <1>1, <1>2, CardinalityOfMore

LEMMA FourElements ==
  ASSUME NEW x, NEW y, NEW z, NEW t, x # y, x # z, y # z, t # x, t # y, t # z
  PROVE  Cardinality({x, y, z, t}) = 4
<1>1. IsFiniteSet({x, y, z}) /\ Cardinality({x, y, z}) = 3
  BY ThreeElements
<1>2. {x, y, z, t} = {x, y, z} \cup {t} /\ t \notin {x, y, z}
  OBVIOUS
<1> QED BY <1>1, <1>2, CardinalityOfMore

IsQuad(V, a, b) == V = {a, b, a + Layer, b + Layer}

LEMMA QuadSmallest ==
  ASSUME NEW n \in Nat, NEW a \in Nat, NEW b \in Nat, a < b, b - a < n
  PROVE  /\ ThreeSmallest({a, b, a + n, b + n}) = {a, b, a + n}
         /\ Cardinality({a, b, a + n, b + n}) = 4
<1> DEFINE V == {a, b, a + n, b + n}
<1> DEFINE c == a + n
<1> DEFINE d == b + n
<1> DEFINE Below(v) == {w \in V : w < v}
<1>1. /\ Below(a) \in SUBSET {a, b} /\ Below(b) \in SUBSET {a, b}
      /\ Below(c) \in SUBSET {a, b} /\ Below(d) = {a, b, c}
  OBVIOUS
<1>2. a # b /\ a # c /\ b # c /\ d # a /\ d # b /\ d # c
  OBVIOUS
<1>3. V = {a, b, c, d}
  OBVIOUS
<1>4. ThreeSmallest(V) = {v \in V : Cardinality(Below(v)) < 3}
  BY DEF ThreeSmallest
<1> HIDE DEF V, c, d, Below
<1>5. Cardinality(Below(a)) < 3 /\ Cardinality(Below(b)) < 3 /\ Cardinality(Below(c)) < 3
  BY <1>1, <1>2, TwoElements
<1>6. Cardinality({a, b, c}) = 3 /\ Cardinality({a, b, c, d}) = 4
  <2>1. Cardinality({a, b, c}) = 3
    BY <1>2, ThreeElements
  <2>2. Cardinality({a, b, c, d}) = 4
    BY <1>2, FourElements
  <2> QED BY <2>1, <2>2
<1>7. Cardinality(Below(d)) = 3
  BY <1>1, <1>6
<1>8. ThreeSmallest(V) = {a, b, c}
  BY <1>3, <1>4, <1>5, <1>7
<1> QED BY <1>3, <1>6, <1>8 DEF V, c, d

\* The quad k = 3, 4, 5 of a prism, and its two triangles.
LEMMA QuadsAre ==
  ASSUME Sound, Kind = "penta", NEW e \in 1..Nel, NEW k \in 3..5
  PROVE  \E a, b \in 1..Nv : /\ a < b /\ b - a < Layer /\ a + Layer \in 1..Nv /\ b + Layer \in 1..Nv
                              /\ IsQuad(FaceVertices(iomodel.mesh, e, k), a, b)
<1>1. LocalFaces(iomodel.mesh.kind) = << {1, 2, 3}, {4, 5, 6}, {2, 3, 6, 5}, {3, 1, 4, 6}, {1, 2, 5, 4} >>
  BY DEF LocalFaces, Kind
<1>2. /\ Layer \in Nat /\ Layer > 0
      /\ \A p \in 1..3 : Place(e, p + 3) = Place(e, p) + Layer /\ \A q \in 1..3 : Place(e, p) - Place(e, q) < Layer
  BY LayerFacts
<1>3. Nv \in Nat /\ \A p \in 1..6 : Place(e, p) \in 1..Nv
  BY IoFacts DEF Sound, CornersOf
<1>4. Place(e, 4) = Place(e, 1) + Layer /\ Place(e, 5) = Place(e, 2) + Layer /\ Place(e, 6) = Place(e, 3) + Layer
  <2>1. 4 = 1 + 3 /\ 5 = 2 + 3 /\ 6 = 3 + 3
    OBVIOUS
  <2> QED BY <1>2, <2>1
<1>5. \E p, q \in 1..3 : p # q /\ FaceVertices(iomodel.mesh, e, k) = {Place(e, p), Place(e, q), Place(e, p + 3), Place(e, q + 3)}
  <2> DEFINE L == LocalFaces(iomodel.mesh.kind)
  <2>1. FaceVertices(iomodel.mesh, e, k) = {Place(e, p) : p \in L[k]}
    BY DEF FaceVertices, Place
  <2>2. CASE k = 3
    <3>1. L[k] = {2, 3, 6, 5}
      BY <1>1, <2>2
    <3> HIDE DEF L
    <3>2. FaceVertices(iomodel.mesh, e, k) = {Place(e, 2), Place(e, 3), Place(e, 2 + 3), Place(e, 3 + 3)}
      BY <2>1, <3>1
    <3> QED BY <3>2
  <2>3. CASE k = 4
    <3>1. L[k] = {3, 1, 4, 6}
      BY <1>1, <2>3
    <3> HIDE DEF L
    <3>2. FaceVertices(iomodel.mesh, e, k) = {Place(e, 3), Place(e, 1), Place(e, 3 + 3), Place(e, 1 + 3)}
      BY <2>1, <3>1
    <3> QED BY <3>2
  <2>4. CASE k = 5
    <3>1. L[k] = {1, 2, 5, 4}
      BY <1>1, <2>4
    <3> HIDE DEF L
    <3>2. FaceVertices(iomodel.mesh, e, k) = {Place(e, 1), Place(e, 2), Place(e, 1 + 3), Place(e, 2 + 3)}
      BY <2>1, <3>1
    <3> QED BY <3>2
  <2> QED BY <2>2, <2>3, <2>4
<1>6. PICK p \in 1..3, q \in 1..3 :
        p # q /\ FaceVertices(iomodel.mesh, e, k) = {Place(e, p), Place(e, q), Place(e, p + 3), Place(e, q + 3)}
  BY <1>5
<1>7. /\ Place(e, p) \in 1..Nv /\ Place(e, q) \in 1..Nv /\ Place(e, p + 3) \in 1..Nv /\ Place(e, q + 3) \in 1..Nv
      /\ Place(e, p + 3) = Place(e, p) + Layer /\ Place(e, q + 3) = Place(e, q) + Layer
      /\ Place(e, p) - Place(e, q) < Layer /\ Place(e, q) - Place(e, p) < Layer
  BY <1>2, <1>3
<1>8. Place(e, p) # Place(e, q)
  BY <1>6, CornersDiffer, LayerFacts
<1>9. CASE Place(e, p) < Place(e, q)
  BY <1>2, <1>3, <1>6, <1>7, <1>9 DEF IsQuad
<1>10. CASE Place(e, q) < Place(e, p)
  <2>1. FaceVertices(iomodel.mesh, e, k) = {Place(e, q), Place(e, p), Place(e, q) + Layer, Place(e, p) + Layer}
    BY <1>6, <1>7
  <2>2. Place(e, q) < Place(e, p) /\ Place(e, p) - Place(e, q) < Layer
        /\ Place(e, q) + Layer \in 1..Nv /\ Place(e, p) + Layer \in 1..Nv
    BY <1>7, <1>10, SMTT(30)
  <2> QED BY <1>7, <2>1, <2>2 DEF IsQuad
<1> QED BY <1>3, <1>7, <1>8, <1>9, <1>10

FaceWith(three) == CHOOSE i \in DOMAIN iomodel.faces : ThreeSmallest(iomodel.faces[i].vertices) = three
SidesThree(e, k) == ThreeSmallest(FaceVertices(iomodel.mesh, e, k))

LEMMA FaceNumbers ==
  ASSUME Sound, Kind = "penta", NEW e \in 1..Nel
  PROVE  /\ DOMAIN iomodel.elementFaces[e] = 1..5
         /\ \A k \in 1..5 :
              /\ FaceNo(e, k) \in 1..Nf /\ FaceNo(e, k) = FaceWith(SidesThree(e, k))
              /\ ThreeSmallest(iomodel.faces[FaceNo(e, k)].vertices) = SidesThree(e, k)
              /\ \E f \in 1..Nel, l \in 1..5 :
                   /\ iomodel.faces[FaceNo(e, k)].vertices = FaceVertices(iomodel.mesh, f, l)
                   /\ iomodel.faces[FaceNo(e, k)].marker = FaceOf(iomodel.mesh, f, l).marker
<1> DEFINE mesh == iomodel.mesh
<1>1. /\ IsMesh(mesh) /\ mesh.kind = "penta" /\ Partitioned /\ iomodel.faces = Faces3d(mesh)
      /\ iomodel.elementFaces = ElementToFace(mesh, iomodel.faces)
  BY MeshIsKnown DEF Kind, Sound
<1>2. DOMAIN mesh.elements = 1..Nel
  BY <1>1, MeshFacts DEF Nel, NumberOfElements
<1>3. DOMAIN LocalFaces(mesh.kind) = 1..5
  BY <1>1 DEF LocalFaces
<1>4. iomodel.elementFaces[e] = [k \in 1..5 |-> FaceWith(SidesThree(e, k))]
  BY <1>1, <1>2, <1>3 DEF ElementToFace, FaceWith, SidesThree
<1>5. ASSUME NEW k \in 1..5
      PROVE  /\ FaceNo(e, k) \in 1..Nf /\ FaceNo(e, k) = FaceWith(SidesThree(e, k))
             /\ ThreeSmallest(iomodel.faces[FaceNo(e, k)].vertices) = SidesThree(e, k)
             /\ \E f \in 1..Nel, l \in 1..5 :
                   /\ iomodel.faces[FaceNo(e, k)].vertices = FaceVertices(mesh, f, l)
                   /\ iomodel.faces[FaceNo(e, k)].marker = FaceOf(mesh, f, l).marker
  <2> DEFINE three == SidesThree(e, k)
  <2>1. FaceNo(e, k) = FaceWith(three)
    BY <1>4 DEF FaceNo
  <2>2. \E i \in DOMAIN iomodel.faces : ThreeSmallest(iomodel.faces[i].vertices) = three
    <3>1. \A d \in DOMAIN mesh.elements, l \in 1..5 : \E i \in DOMAIN Faces3d(mesh) :
            ThreeSmallest(Faces3d(mesh)[i].vertices) = ThreeSmallest(FaceVertices(mesh, d, l))
      <4> HIDE DEF mesh
      <4> QED BY <1>1, FacesFound
    <3>2. e \in DOMAIN mesh.elements
      BY <1>2
    <3>3. three = ThreeSmallest(FaceVertices(mesh, e, k))
      BY DEF SidesThree
    <3> HIDE DEF mesh, three
    <3> QED BY <1>1, <3>1, <3>2, <3>3
  <2> HIDE DEF three
  <2>3. FaceWith(three) \in DOMAIN iomodel.faces /\ ThreeSmallest(iomodel.faces[FaceWith(three)].vertices) = three
    BY <2>2 DEF FaceWith
  <2> DEFINE face == iomodel.faces[FaceNo(e, k)]
  <2>4. face \in FaceRecords(mesh)
    <3>1. iomodel.faces \in Seq(FaceRecords(mesh))
      BY <1>1, FacesFound
    <3> QED BY <2>1, <2>3, <3>1, LenProperties
  <2>5. PICK l \in 1..5 : /\ face.vertices = FaceVertices(mesh, face.e1, l) /\ face.marker = FaceOf(mesh, face.e1, l).marker
    BY <2>4 DEF FaceRecords
  <2>6. face.e1 \in 1..Nel
    <3> HIDE DEF face
    <3> QED BY <1>2, <2>4 DEF FaceRecords, FaceFields
  <2>7. FaceNo(e, k) \in 1..Nf
    BY <1>1, <2>1, <2>3, IoFacts DEF Kind
  <2> QED BY <2>1, <2>3, <2>5, <2>6, <2>7 DEF three
<1> QED BY <1>4, <1>5

LEMMA TrianglesAre ==
  ASSUME Sound, Kind = "penta", NEW e \in 1..Nel, NEW k \in 1..2
  PROVE  \A v, w \in FaceVertices(iomodel.mesh, e, k) : v \in Nat /\ w \in Nat /\ v - w < Layer
<1>1. LocalFaces(iomodel.mesh.kind) = << {1, 2, 3}, {4, 5, 6}, {2, 3, 6, 5}, {3, 1, 4, 6}, {1, 2, 5, 4} >>
  BY DEF LocalFaces, Kind
<1>2. /\ Layer \in Nat
      /\ \A p \in 1..3 : Place(e, p + 3) = Place(e, p) + Layer /\ \A q \in 1..3 : Place(e, p) - Place(e, q) < Layer
  BY LayerFacts
<1>3. Nv \in Nat /\ \A p \in 1..6 : Place(e, p) \in 1..Nv
  BY IoFacts DEF Sound, CornersOf
<1>4. \E h \in {0, 3} : \A v \in FaceVertices(iomodel.mesh, e, k) : \E p \in 1..3 : v = Place(e, p + h)
  <2> DEFINE L == LocalFaces(iomodel.mesh.kind)
  <2>1. FaceVertices(iomodel.mesh, e, k) = {Place(e, p) : p \in L[k]}
    BY DEF FaceVertices, Place
  <2>2. CASE k = 1
    <3>1. L[k] = {1, 2, 3}
      BY <1>1, <2>2
    <3>2. \A p \in L[k] : p \in 1..3 /\ p = p + 0
      BY <3>1
    <3> HIDE DEF L
    <3> QED BY <2>1, <3>2
  <2>3. CASE k = 2
    <3>1. L[k] = {4, 5, 6}
      BY <1>1, <2>3
    <3>2. \A p \in L[k] : p - 3 \in 1..3 /\ p = (p - 3) + 3
      BY <3>1
    <3> HIDE DEF L
    <3> QED BY <2>1, <3>2
  <2> QED BY <2>2, <2>3
<1>5. PICK h \in {0, 3} : \A v \in FaceVertices(iomodel.mesh, e, k) : \E p \in 1..3 : v = Place(e, p + h)
  BY <1>4
<1>6. ASSUME NEW v \in FaceVertices(iomodel.mesh, e, k), NEW w \in FaceVertices(iomodel.mesh, e, k)
      PROVE  v \in Nat /\ w \in Nat /\ v - w < Layer
  <2>1. PICK p \in 1..3, q \in 1..3 : v = Place(e, p + h) /\ w = Place(e, q + h)
    BY <1>5
  <2>2. Place(e, p) \in Nat /\ Place(e, q) \in Nat /\ Place(e, p + 3) \in Nat /\ Place(e, q + 3) \in Nat
    BY <1>3
  <2>3. CASE h = 0
    BY <1>2, <2>1, <2>2, <2>3
  <2>4. CASE h = 3
    BY <1>2, <2>1, <2>2, <2>4
  <2> QED BY <2>3, <2>4
<1> QED BY <1>6

\* Two faces with the same three smallest vertices are the same.
LEMMA FacesAre ==
  ASSUME Sound, Kind = "penta", NEW e \in 1..Nel, NEW k \in 1..5
  PROVE  /\ k \in 1..2 => iomodel.faces[FaceNo(e, k)].marker = 1
         /\ k \in 3..5 => /\ iomodel.faces[FaceNo(e, k)].marker = 2
                          /\ iomodel.faces[FaceNo(e, k)].vertices = FaceVertices(iomodel.mesh, e, k)
<1> DEFINE V(f, l) == FaceVertices(iomodel.mesh, f, l)
<1> DEFINE face == iomodel.faces[FaceNo(e, k)]
<1>1. PICK f \in 1..Nel, l \in 1..5 : face.vertices = V(f, l) /\ face.marker = FaceOf(iomodel.mesh, f, l).marker
  BY FaceNumbers
<1>2. ThreeSmallest(V(f, l)) = ThreeSmallest(V(e, k))
  BY <1>1, FaceNumbers, ZenonT(60) DEF SidesThree
<1>3. Layer \in Nat /\ Layer > 0 /\ Nv \in Nat
  BY LayerFacts, IoFacts DEF Sound
<1>4. ASSUME NEW g \in 1..Nel, NEW m \in 3..5
      PROVE  \E a, b \in Nat : a < b /\ b - a < Layer /\ V(g, m) = {a, b, a + Layer, b + Layer}
                                  /\ ThreeSmallest(V(g, m)) = {a, b, a + Layer}
  <2>1. PICK a \in 1..Nv, b \in 1..Nv : a < b /\ b - a < Layer /\ IsQuad(V(g, m), a, b)
    BY QuadsAre
  <2>2. a \in Nat /\ b \in Nat
    BY <1>3
  <2>3. ThreeSmallest({a, b, a + Layer, b + Layer}) = {a, b, a + Layer}
    BY <1>3, <2>1, <2>2, QuadSmallest
  <2> QED BY <2>1, <2>2, <2>3 DEF IsQuad
<1>5. ASSUME NEW g \in 1..Nel, NEW m \in 1..2
      PROVE  \A v, w \in ThreeSmallest(V(g, m)) : v \in Nat /\ w \in Nat /\ v - w < Layer
  BY TrianglesAre DEF ThreeSmallest
<1>6. FaceOf(iomodel.mesh, f, l).marker = IF l \in 3..5 THEN 2 ELSE 1
  <2>1. LocalFaces(iomodel.mesh.kind) = << {1, 2, 3}, {4, 5, 6}, {2, 3, 6, 5}, {3, 1, 4, 6}, {1, 2, 5, 4} >>
    BY DEF LocalFaces, Kind
  <2> DEFINE S == LocalFaces(iomodel.mesh.kind)[l]
  <2>2. FaceOf(iomodel.mesh, f, l).marker = IF Cardinality(S) = 4 THEN 2 ELSE 1
    BY DEF FaceOf
  <2>3. Cardinality({1, 2, 3}) = 3 /\ Cardinality({4, 5, 6}) = 3
    <3>1. 1 # 2 /\ 1 # 3 /\ 2 # 3 /\ 4 # 5 /\ 4 # 6 /\ 5 # 6
      OBVIOUS
    <3>2. Cardinality({1, 2, 3}) = 3
      BY <3>1, ThreeElements
    <3>3. Cardinality({4, 5, 6}) = 3
      BY <3>1, ThreeElements
    <3> QED BY <3>2, <3>3
  <2>4. Cardinality({2, 3, 6, 5}) = 4 /\ Cardinality({3, 1, 4, 6}) = 4 /\ Cardinality({1, 2, 5, 4}) = 4
    <3>1. Cardinality({2, 3, 6, 5}) = 4
      <4> DEFINE x == 2
      <4> DEFINE y == 3
      <4> DEFINE z == 6
      <4> DEFINE t == 5
      <4>1. x # y /\ x # z /\ y # z /\ t # x /\ t # y /\ t # z
        OBVIOUS
      <4> HIDE DEF x, y, z, t
      <4>2. Cardinality({x, y, z, t}) = 4
        BY <4>1, FourElements
      <4> QED BY <4>2 DEF x, y, z, t
    <3>2. Cardinality({3, 1, 4, 6}) = 4
      <4> DEFINE x == 3
      <4> DEFINE y == 1
      <4> DEFINE z == 4
      <4> DEFINE t == 6
      <4>1. x # y /\ x # z /\ y # z /\ t # x /\ t # y /\ t # z
        OBVIOUS
      <4> HIDE DEF x, y, z, t
      <4>2. Cardinality({x, y, z, t}) = 4
        BY <4>1, FourElements
      <4> QED BY <4>2 DEF x, y, z, t
    <3>3. Cardinality({1, 2, 5, 4}) = 4
      <4> DEFINE x == 1
      <4> DEFINE y == 2
      <4> DEFINE z == 5
      <4> DEFINE t == 4
      <4>1. x # y /\ x # z /\ y # z /\ t # x /\ t # y /\ t # z
        OBVIOUS
      <4> HIDE DEF x, y, z, t
      <4>2. Cardinality({x, y, z, t}) = 4
        BY <4>1, FourElements
      <4> QED BY <4>2 DEF x, y, z, t
    <3> QED BY <3>1, <3>2, <3>3
  <2>5. /\ l = 1 => S = {1, 2, 3}
        /\ l = 2 => S = {4, 5, 6}
        /\ l = 3 => S = {2, 3, 6, 5}
        /\ l = 4 => S = {3, 1, 4, 6}
        /\ l = 5 => S = {1, 2, 5, 4}
    BY <2>1
  <2> HIDE DEF S
  <2> QED BY <2>2, <2>3, <2>4, <2>5
<1> HIDE DEF V, face
<1>7. CASE k \in 1..2
  <2>1. l \notin 3..5
    <3>1. SUFFICES ASSUME l \in 3..5 PROVE FALSE
      OBVIOUS
    <3>2. PICK a \in Nat, b \in Nat : ThreeSmallest(V(f, l)) = {a, b, a + Layer}
      BY <1>4, <3>1
    <3>3. (a + Layer) - a < Layer
      BY <1>2, <1>5, <1>7, <3>2
    <3> QED BY <1>3, <3>3
  <2> QED BY <1>1, <1>6, <1>7, <2>1 DEF face
<1>8. CASE k \in 3..5
  <2>1. PICK a \in Nat, b \in Nat : /\ a < b /\ b - a < Layer /\ V(e, k) = {a, b, a + Layer, b + Layer}
                                    /\ ThreeSmallest(V(e, k)) = {a, b, a + Layer}
    BY <1>4, <1>8
  <2>2. l \in 3..5
    <3>1. SUFFICES ASSUME l \in 1..2 PROVE FALSE
      OBVIOUS
    <3>2. (a + Layer) - a < Layer
      BY <1>2, <1>5, <2>1, <3>1
    <3> QED BY <1>3, <3>2
  <2>3. PICK c \in Nat, d \in Nat : /\ c < d /\ d - c < Layer /\ V(f, l) = {c, d, c + Layer, d + Layer}
                                    /\ ThreeSmallest(V(f, l)) = {c, d, c + Layer}
    BY <1>4, <2>2
  <2>4. a = c /\ b = d
    <3>1. {a, b, a + Layer} = {c, d, c + Layer}
      BY <1>2, <2>1, <2>3
    <3> QED BY <1>3, <2>1, <2>3, <3>1
  <2>5. V(f, l) = V(e, k)
    BY <2>1, <2>3, <2>4
  <2> QED BY <1>1, <1>6, <1>8, <2>2, <2>5 DEF face, V
<1> QED BY <1>7, <1>8

-----------------------------------------------------------------------------
(***************************************************************************)
(* The nodes of an analysis get names <<block, i, c>>: the copy c at       *)
(* vertex (1), edge (2), quad (3) or element (4) i; and, in block 5, the   *)
(* pressure at vertex i, or at corner c of element i. A shape says how     *)
(* many copies a finite element has of each. Both the id of a node and the *)
(* point at which an element sees it are injective functions of its name.  *)
(***************************************************************************)
Shapes == [corner : {0, 1}, up : 0..3, level : {0, 1}, stride : 0..3, quad : {0, 1, 3}, bubble : {0, 1},
           press : {"none", "vertex", "own"}]

GoodShape(sh) ==
  /\ sh \in Shapes /\ sh.up <= sh.stride /\ sh.level <= sh.stride
  /\ sh.quad # 0 => Kind = "penta"

NQuads == IF Kind = "penta" THEN Nf ELSE 0

Count(sh, b) == CASE b = 1 -> Nv [] b = 2 -> Ne [] b = 3 -> NQuads [] b = 4 -> Nel
                  [] b = 5 -> IF sh.press = "own" THEN Nel ELSE Nv

StrideOf(sh, b) == CASE b = 1 -> sh.corner [] b = 2 -> sh.stride [] b = 3 -> sh.quad [] b = 4 -> sh.bubble
                     [] b = 5 -> IF sh.press = "own" THEN Nc ELSE IF sh.press = "vertex" THEN 1 ELSE 0

First2(sh) == Room(sh.corner, Nv)
First3(sh) == First2(sh) + Room(sh.stride, Ne)
First4(sh) == First3(sh) + Room(sh.quad, NQuads)
First5(sh) == First4(sh) + Room(sh.bubble, Nel)

First(sh, b) == CASE b = 1 -> 0 [] b = 2 -> First2(sh) [] b = 3 -> First3(sh) [] b = 4 -> First4(sh)
                  [] b = 5 -> First5(sh)

IdOf(sh, nm) == IdIn(First(sh, nm[1]), StrideOf(sh, nm[1]), nm[2], nm[3])

Blocks == 1..5
IsName(sh, nm) == /\ nm \in Nat \X Nat \X Nat /\ nm[1] \in Blocks
                  /\ nm[2] \in 1..Count(sh, nm[1]) /\ nm[3] \in 1..StrideOf(sh, nm[1])

LEMMA RoomType ==
  ASSUME NEW k \in Nat, NEW n \in Nat
  PROVE  Room(k, n) \in Nat
BY DEF Room

LEMMA FirstFacts ==
  ASSUME Partitioned, NEW sh, GoodShape(sh)
  PROVE  /\ \A b \in Blocks : First(sh, b) \in Nat /\ StrideOf(sh, b) \in Nat /\ Count(sh, b) \in Nat
         /\ \A b, d \in Blocks : b < d => First(sh, b) + Room(StrideOf(sh, b), Count(sh, b)) <= First(sh, d)
<1> DEFINE R(b) == Room(StrideOf(sh, b), Count(sh, b))
<1>1. /\ Nv \in Nat /\ Ne \in Nat /\ Nel \in Nat /\ NQuads \in Nat /\ Nc \in Nat
  BY IoFacts DEF NQuads, Nc
<1>2. /\ sh.corner \in Nat /\ sh.stride \in Nat /\ sh.quad \in Nat /\ sh.bubble \in Nat
  BY DEF GoodShape, Shapes
<1>3. \A b \in Blocks : StrideOf(sh, b) \in Nat /\ Count(sh, b) \in Nat
  BY <1>1, <1>2 DEF StrideOf, Count, Blocks
<1>4. /\ R(1) = Room(sh.corner, Nv) /\ R(2) = Room(sh.stride, Ne) /\ R(3) = Room(sh.quad, NQuads)
      /\ R(4) = Room(sh.bubble, Nel)
  BY DEF StrideOf, Count
<1>5. R(1) \in Nat /\ R(2) \in Nat /\ R(3) \in Nat /\ R(4) \in Nat
  <2>1. R(1) \in Nat
    BY <1>1, <1>2, <1>4, RoomType
  <2>2. R(2) \in Nat
    BY <1>1, <1>2, <1>4, RoomType
  <2>3. R(3) \in Nat
    BY <1>1, <1>2, <1>4, RoomType
  <2>4. R(4) \in Nat
    BY <1>1, <1>2, <1>4, RoomType
  <2> QED BY <2>1, <2>2, <2>3, <2>4
<1>6. First2(sh) = R(1) /\ First3(sh) = First2(sh) + R(2) /\ First4(sh) = First3(sh) + R(3)
      /\ First5(sh) = First4(sh) + R(4)
  BY <1>4 DEF First2, First3, First4, First5
<1>7. First(sh, 1) = 0 /\ First(sh, 2) = First2(sh) /\ First(sh, 3) = First3(sh) /\ First(sh, 4) = First4(sh)
      /\ First(sh, 5) = First5(sh)
  BY DEF First
<1> HIDE DEF R
<1>8. \A b \in Blocks : First(sh, b) \in Nat
  BY <1>5, <1>6, <1>7 DEF Blocks
<1>9. \A b, d \in Blocks : b < d => First(sh, b) + R(b) <= First(sh, d)
  BY <1>5, <1>6, <1>7 DEF Blocks
<1> QED BY <1>3, <1>8, <1>9 DEF R

LEMMA IdBounds ==
  ASSUME Partitioned, NEW sh, GoodShape(sh), NEW nm, IsName(sh, nm)
  PROVE  LET b == nm[1]
         IN  /\ IdOf(sh, nm) \in Int /\ First(sh, b) < IdOf(sh, nm)
             /\ IdOf(sh, nm) <= First(sh, b) + Room(StrideOf(sh, b), Count(sh, b))
             /\ Room(StrideOf(sh, b), Count(sh, b)) \in Nat
<1> DEFINE b == nm[1]
<1> DEFINE off == First(sh, b)
<1> DEFINE k == StrideOf(sh, b)
<1> DEFINE n == Count(sh, b)
<1> DEFINE i == nm[2]
<1> DEFINE c == nm[3]
<1>1. off \in Nat /\ k \in Nat /\ n \in Nat /\ i \in 1..n /\ c \in 1..k
  BY FirstFacts DEF IsName
<1>2. IdOf(sh, nm) = IdIn(off, k, i, c)
  BY DEF IdOf
<1> HIDE DEF off, k, n, i, c
<1>3. IdIn(off, k, i, c) \in Int /\ Room(k, n) \in Nat /\ off < IdIn(off, k, i, c) /\ IdIn(off, k, i, c) <= off + Room(k, n)
  BY <1>1, IdFacts
<1> QED BY <1>2, <1>3 DEF off, k, n

\* Different nodes of an analysis have different ids.
LEMMA IdsApart ==
  ASSUME Partitioned, NEW sh, GoodShape(sh), NEW nm, IsName(sh, nm), NEW mm, IsName(sh, mm),
         IdOf(sh, nm) = IdOf(sh, mm)
  PROVE  nm = mm
<1> DEFINE Off(b) == First(sh, b)
<1> DEFINE S(b) == StrideOf(sh, b)
<1> DEFINE C(b) == Count(sh, b)
<1>1. /\ \A b \in Blocks : Off(b) \in Nat /\ S(b) \in Nat /\ C(b) \in Nat
      /\ \A b, d \in Blocks : b < d => Off(b) + Room(S(b), C(b)) <= Off(d)
  BY FirstFacts
<1>2. /\ nm[1] \in Blocks /\ nm[2] \in 1..C(nm[1]) /\ nm[3] \in 1..S(nm[1])
      /\ mm[1] \in Blocks /\ mm[2] \in 1..C(mm[1]) /\ mm[3] \in 1..S(mm[1])
      /\ nm = <<nm[1], nm[2], nm[3]>> /\ mm = <<mm[1], mm[2], mm[3]>>
  BY DEF IsName
<1>3. IdOf(sh, nm) = IdIn(Off(nm[1]), S(nm[1]), nm[2], nm[3]) /\ IdOf(sh, mm) = IdIn(Off(mm[1]), S(mm[1]), mm[2], mm[3])
  BY DEF IdOf
<1> HIDE DEF Off, S, C
<1>4. /\ IdOf(sh, nm) \in Int /\ Off(nm[1]) < IdOf(sh, nm) /\ IdOf(sh, nm) <= Off(nm[1]) + Room(S(nm[1]), C(nm[1]))
      /\ IdOf(sh, mm) \in Int /\ Off(mm[1]) < IdOf(sh, mm) /\ IdOf(sh, mm) <= Off(mm[1]) + Room(S(mm[1]), C(mm[1]))
      /\ Room(S(nm[1]), C(nm[1])) \in Nat /\ Room(S(mm[1]), C(mm[1])) \in Nat
  BY IdBounds DEF Off, S, C
<1>5. nm[1] = mm[1]
  <2>1. Blocks \subseteq Nat
    BY DEF Blocks
  <2>2. nm[1] < mm[1] \/ mm[1] < nm[1] \/ nm[1] = mm[1]
    BY <1>2, <2>1
  <2> QED BY <1>1, <1>2, <1>4, <2>2
<1>6. nm[2] = mm[2] /\ nm[3] = mm[3]
  <2>1. OnePlace(Off(nm[1]), S(nm[1]), C(nm[1]), nm[2], nm[3], mm[2], mm[3])
    BY <1>1, <1>2, <1>3, <1>5 DEF OnePlace
  <2> QED BY <2>1, IdsDiffer
<1> QED BY <1>2, <1>5, <1>6

-----------------------------------------------------------------------------
(***************************************************************************)
(* The points at which the elements see their nodes.                       *)
(***************************************************************************)
\* The weight of the upper end of an edge, and of the upper vertices of a quad.
EdgeWeight(sh, i, c) ==
  IF iomodel.edges[i].marker = 1 \/ sh.up = 1 THEN 12
  ELSE IF sh.up = 2 THEN 8 * c
  ELSE IF c = 1 THEN 12 ELSE IF c = 2 THEN 6 ELSE 18

QuadWeight(sh, c) == IF sh.quad = 1 THEN 6 ELSE 3 * c

OnEdge(ends, w) == {<<v, IF v = Least(ends) THEN 24 - w ELSE w>> : v \in ends}
OnQuad(vs, w)   == {<<v, IF v + Layer \in vs THEN 12 - w ELSE w>> : v \in vs}
OnElement(e)    == {<<Place(e, p), 24 \div Nc>> : p \in 1..Nc}
AtCorner(v)     == {<<v, 24>>}

PointOf(sh, nm) ==
  CASE nm[1] = 1 -> AtCorner(nm[2])
    [] nm[1] = 2 -> OnEdge(iomodel.edges[nm[2]].ends, EdgeWeight(sh, nm[2], nm[3]))
    [] nm[1] = 3 -> OnQuad(iomodel.faces[nm[2]].vertices, QuadWeight(sh, nm[3]))
    [] nm[1] = 4 -> OnElement(nm[2])
    [] nm[1] = 5 -> AtCorner(IF sh.press = "own" THEN Place(nm[2], nm[3]) ELSE nm[2])

OwnOf(sh, nm) == IF nm[1] = 5 /\ sh.press = "own" THEN nm[2] ELSE 0

\* The names of the nodes of an element.
CopiesOn(sh, marker) == IF marker = 2 THEN sh.up ELSE sh.level

CornerName(sh, e, nm) == sh.corner = 1 /\ \E p \in 1..Nc : nm = <<1, Place(e, p), 1>>
EdgeName(sh, e, nm)   == \E k \in DOMAIN Local : \E c \in 1..CopiesOn(sh, Local[k][3]) : nm = <<2, EdgeNo(e, k), c>>
QuadName(sh, e, nm)   == Kind = "penta" /\ \E k \in 3..5 : \E c \in 1..sh.quad : nm = <<3, FaceNo(e, k), c>>
BubbleName(sh, e, nm) == sh.bubble = 1 /\ nm = <<4, e, 1>>
VelocityName(sh, e, nm) == CornerName(sh, e, nm) \/ EdgeName(sh, e, nm) \/ QuadName(sh, e, nm) \/ BubbleName(sh, e, nm)
PressureName(sh, e, nm) ==
  \/ sh.press = "vertex" /\ \E p \in 1..Nc : nm = <<5, Place(e, p), 1>>
  \/ sh.press = "own" /\ \E p \in 1..Nc : nm = <<5, e, p>>

Has(sh, e, nm) == VelocityName(sh, e, nm) \/ PressureName(sh, e, nm)

LEMMA SmallerIsLeast ==
  ASSUME NEW x \in Nat, NEW y \in Nat, x < y
  PROVE  Least({x, y}) = x
<1>1. x \in {x, y} /\ \A w \in {x, y} : x <= w
  OBVIOUS
<1>2. \A v \in {x, y} : (\A w \in {x, y} : v <= w) => v = x
  OBVIOUS
<1>3. Least({x, y}) = CHOOSE v \in {x, y} : \A w \in {x, y} : v <= w
  BY DEF Least
<1> QED BY <1>1, <1>2, <1>3

LEMMA OnEdgeIs ==
  ASSUME NEW x \in Nat, NEW y \in Nat, x < y, NEW w
  PROVE  OnEdge({x, y}, w) = {<<x, 24 - w>>, <<y, w>>}
<1>1. Least({x, y}) = x /\ x # y
  BY SmallerIsLeast
<1> QED BY <1>1 DEF OnEdge

Weights == {6, 8, 12, 16, 18}

\* The ends of an edge and the weights of its copies.
LEMMA EdgePoints ==
  ASSUME Sound, NEW sh, GoodShape(sh), NEW e \in 1..Nel, NEW k \in DOMAIN Local,
         NEW c \in 1..CopiesOn(sh, Local[k][3])
  PROVE  /\ \E x, y \in Nat : x < y /\ iomodel.edges[EdgeNo(e, k)].ends = {x, y}
         /\ EdgeWeight(sh, EdgeNo(e, k), c) \in Weights
         /\ c \in 1..sh.stride
         /\ \A d \in 1..CopiesOn(sh, Local[k][3]) :
              EdgeWeight(sh, EdgeNo(e, k), c) = EdgeWeight(sh, EdgeNo(e, k), d) => c = d
<1>1. /\ iomodel.edges[EdgeNo(e, k)].ends = {End(e, k, 1), End(e, k, 2)}
      /\ End(e, k, 1) \in 1..Nv /\ End(e, k, 2) \in 1..Nv /\ Nv \in Nat
  BY EdgeNumbers, IoFacts DEF Sound
<1>2. End(e, k, 1) # End(e, k, 2)
  BY EdgeLevels
<1>3. \E x, y \in Nat : x < y /\ iomodel.edges[EdgeNo(e, k)].ends = {x, y}
  <2>1. CASE End(e, k, 1) < End(e, k, 2)
    BY <1>1, <2>1
  <2>2. CASE End(e, k, 2) < End(e, k, 1)
    <3>1. {End(e, k, 1), End(e, k, 2)} = {End(e, k, 2), End(e, k, 1)}
      OBVIOUS
    <3> QED BY <1>1, <2>2, <3>1
  <2> QED BY <1>1, <1>2, <2>1, <2>2
<1>4. iomodel.edges[EdgeNo(e, k)].marker = Local[k][3] /\ Local[k][3] \in {1, 2}
  BY EdgeMarkers, EdgeLevels
<1>5. sh.up \in 0..3 /\ sh.level \in {0, 1} /\ sh.stride \in 0..3 /\ sh.up <= sh.stride /\ sh.level <= sh.stride
  BY DEF GoodShape, Shapes
<1>6. CASE Local[k][3] = 1
  BY <1>3, <1>4, <1>5, <1>6 DEF CopiesOn, EdgeWeight, Weights
<1>7. CASE Local[k][3] = 2
  <2>1. CopiesOn(sh, Local[k][3]) = sh.up
    BY <1>7 DEF CopiesOn
  <2>2. ASSUME NEW d \in 1..sh.up
        PROVE  EdgeWeight(sh, EdgeNo(e, k), d) = IF sh.up = 1 THEN 12 ELSE IF sh.up = 2 THEN 8 * d
                                                  ELSE IF d = 1 THEN 12 ELSE IF d = 2 THEN 6 ELSE 18
    BY <1>4, <1>7 DEF EdgeWeight
  <2>3. CASE sh.up = 1
    BY <1>3, <1>5, <2>1, <2>2, <2>3 DEF Weights
  <2>4. CASE sh.up = 2
    BY <1>3, <1>5, <2>1, <2>2, <2>4 DEF Weights
  <2>5. CASE sh.up = 3
    BY <1>3, <1>5, <2>1, <2>2, <2>5 DEF Weights
  <2> QED BY <1>5, <2>1, <2>3, <2>4, <2>5
<1> QED BY <1>4, <1>6, <1>7

QuadIs(sh, e, k, c, x, y) ==
  /\ x < y /\ y - x < Layer
  /\ iomodel.faces[FaceNo(e, k)].vertices = {x, y, x + Layer, y + Layer}
  /\ OnQuad(iomodel.faces[FaceNo(e, k)].vertices, QuadWeight(sh, c)) =
       {<<x, 12 - QuadWeight(sh, c)>>, <<y, 12 - QuadWeight(sh, c)>>,
        <<x + Layer, QuadWeight(sh, c)>>, <<y + Layer, QuadWeight(sh, c)>>}

LEMMA QuadPoints ==
  ASSUME Sound, Kind = "penta", NEW sh, GoodShape(sh), NEW e \in 1..Nel, NEW k \in 3..5, NEW c \in 1..sh.quad
  PROVE  /\ QuadWeight(sh, c) \in {3, 6, 9}
         /\ \A d \in 1..sh.quad : QuadWeight(sh, c) = QuadWeight(sh, d) => c = d
         /\ \E x, y \in 1..Nv : QuadIs(sh, e, k, c, x, y)
<1>1. sh.quad \in {0, 1, 3}
  BY DEF GoodShape, Shapes
<1>2. QuadWeight(sh, c) \in {3, 6, 9} /\ \A d \in 1..sh.quad : QuadWeight(sh, c) = QuadWeight(sh, d) => c = d
  BY <1>1 DEF QuadWeight
<1> DEFINE V == iomodel.faces[FaceNo(e, k)].vertices
<1> DEFINE w == QuadWeight(sh, c)
<1>3. PICK x \in 1..Nv, y \in 1..Nv : x < y /\ y - x < Layer /\ V = {x, y, x + Layer, y + Layer}
  <2>1. V = FaceVertices(iomodel.mesh, e, k)
    <3>1. k \in 1..5
      OBVIOUS
    <3> QED BY <3>1, FacesAre
  <2> QED BY <2>1, QuadsAre DEF IsQuad
<1>4. Layer \in Nat /\ Layer > 0 /\ Nv \in Nat
  BY LayerFacts, IoFacts DEF Sound
<1> HIDE DEF w, V
<1>5. OnQuad(V, w) = {<<x, 12 - w>>, <<y, 12 - w>>, <<x + Layer, w>>, <<y + Layer, w>>}
  <2>1. x + Layer \in V /\ y + Layer \in V /\ x + Layer + Layer \notin V /\ y + Layer + Layer \notin V
    BY <1>3, <1>4
  <2>2. OnQuad(V, w) = {<<v, IF v + Layer \in V THEN 12 - w ELSE w>> : v \in {x, y, x + Layer, y + Layer}}
    BY <1>3 DEF OnQuad
  <2> QED BY <2>1, <2>2
<1>6. QuadIs(sh, e, k, c, x, y)
  BY <1>3, <1>5 DEF w, V, QuadIs
<1> QED BY <1>2, <1>6

WeightsOf(point) == {w[2] : w \in point}

\* The weights of a point tell its block.
LEMMA PointKinds ==
  ASSUME Sound, NEW sh, GoodShape(sh), NEW e \in 1..Nel, NEW nm, VelocityName(sh, e, nm)
  PROVE  /\ nm[1] \in 1..4
         /\ nm[1] = 1 => WeightsOf(PointOf(sh, nm)) = {24}
         /\ nm[1] = 2 => /\ WeightsOf(PointOf(sh, nm)) \subseteq Weights
                         /\ \E w \in WeightsOf(PointOf(sh, nm)) : w \in {12, 16, 18}
         /\ nm[1] = 3 => /\ Kind = "penta" /\ WeightsOf(PointOf(sh, nm)) \subseteq {3, 6, 9}
                         /\ WeightsOf(PointOf(sh, nm)) # {}
         /\ nm[1] = 4 => WeightsOf(PointOf(sh, nm)) = {24 \div Nc}
<1>1. CASE CornerName(sh, e, nm)
  <2>1. PICK v : nm = <<1, v, 1>>
    BY <1>1 DEF CornerName
  <2>2. PointOf(sh, nm) = {<<v, 24>>} /\ nm[1] = 1
    BY <2>1 DEF PointOf, AtCorner
  <2> QED BY <2>2 DEF WeightsOf
<1>2. CASE EdgeName(sh, e, nm)
  <2>1. PICK k \in DOMAIN Local : \E c \in 1..CopiesOn(sh, Local[k][3]) : nm = <<2, EdgeNo(e, k), c>>
    BY <1>2 DEF EdgeName
  <2>2. PICK c \in 1..CopiesOn(sh, Local[k][3]) : nm = <<2, EdgeNo(e, k), c>>
    BY <2>1
  <2> DEFINE w == EdgeWeight(sh, EdgeNo(e, k), c)
  <2>3. PICK x \in Nat, y \in Nat : x < y /\ iomodel.edges[EdgeNo(e, k)].ends = {x, y}
    BY EdgePoints
  <2>4. w \in Weights
    BY EdgePoints
  <2>5. PointOf(sh, nm) = OnEdge({x, y}, w) /\ nm[1] = 2
    <3>1. nm[1] = 2 /\ nm[2] = EdgeNo(e, k) /\ nm[3] = c
      BY <2>2
    <3>2. PointOf(sh, nm) = OnEdge(iomodel.edges[nm[2]].ends, EdgeWeight(sh, nm[2], nm[3]))
      BY <3>1 DEF PointOf
    <3> QED BY <2>3, <3>1, <3>2
  <2> HIDE DEF w
  <2>6. PointOf(sh, nm) = {<<x, 24 - w>>, <<y, w>>}
    <3>1. OnEdge({x, y}, w) = {<<x, 24 - w>>, <<y, w>>}
      BY <2>3, OnEdgeIs
    <3> QED BY <2>5, <3>1
  <2>7. WeightsOf(PointOf(sh, nm)) = {24 - w, w}
    BY <2>6 DEF WeightsOf
  <2>8. {24 - w, w} \subseteq Weights /\ \E z \in {24 - w, w} : z \in {12, 16, 18}
    BY <2>4 DEF Weights
  <2> QED BY <2>5, <2>7, <2>8
<1>3. CASE QuadName(sh, e, nm)
  <2>1. PICK k \in 3..5 : \E c \in 1..sh.quad : nm = <<3, FaceNo(e, k), c>>
    BY <1>3 DEF QuadName
  <2>2. PICK c \in 1..sh.quad : nm = <<3, FaceNo(e, k), c>>
    BY <2>1
  <2> DEFINE w == QuadWeight(sh, c)
  <2>3. Kind = "penta"
    BY <1>3 DEF QuadName
  <2>8. w \in {3, 6, 9} /\ \E x, y \in 1..Nv : QuadIs(sh, e, k, c, x, y)
    BY <2>3, QuadPoints
  <2>4. w \in {3, 6, 9} /\ \E x, y \in 1..Nv : OnQuad(iomodel.faces[FaceNo(e, k)].vertices, w) =
                                     {<<x, 12 - w>>, <<y, 12 - w>>, <<x + Layer, w>>, <<y + Layer, w>>}
    BY <2>8 DEF QuadIs
  <2>5. PointOf(sh, nm) = OnQuad(iomodel.faces[FaceNo(e, k)].vertices, w) /\ nm[1] = 3
    BY <2>2 DEF PointOf
  <2> HIDE DEF w
  <2>6. PICK x, y : PointOf(sh, nm) = {<<x, 12 - w>>, <<y, 12 - w>>, <<x + Layer, w>>, <<y + Layer, w>>}
    BY <2>4, <2>5
  <2>7. WeightsOf(PointOf(sh, nm)) = {12 - w, w}
    BY <2>6 DEF WeightsOf
  <2> QED BY <2>3, <2>4, <2>5, <2>7
<1>4. CASE BubbleName(sh, e, nm)
  <2>1. nm = <<4, e, 1>>
    BY <1>4 DEF BubbleName
  <2>2. PointOf(sh, nm) = OnElement(e) /\ nm[1] = 4
    BY <2>1 DEF PointOf
  <2>3. Nc \in {3, 4, 6}
    BY IoFacts DEF Nc, Sound
  <2>4. WeightsOf(OnElement(e)) = {24 \div Nc}
    <3> DEFINE z == 24 \div Nc
    <3>1. 1 \in 1..Nc
      BY <2>3
    <3>2. OnElement(e) = {<<Place(e, p), z>> : p \in 1..Nc}
      BY DEF OnElement
    <3> HIDE DEF z
    <3>3. WeightsOf(OnElement(e)) = {w[2] : w \in {<<Place(e, p), z>> : p \in 1..Nc}}
      BY <3>2 DEF WeightsOf
    <3>4. <<Place(e, 1), z>> \in {<<Place(e, p), z>> : p \in 1..Nc}
      BY <3>1
    <3>5. WeightsOf(OnElement(e)) = {z}
      <4> DEFINE S == {<<Place(e, p), z>> : p \in 1..Nc}
      <4>1. \A x \in S : x[2] = z
        OBVIOUS
      <4>2. S # {}
        BY <3>4
      <4> HIDE DEF S
      <4>3. {w[2] : w \in S} = {z}
        BY <4>1, <4>2
      <4> QED BY <3>3, <4>3 DEF S
    <3> QED BY <3>5 DEF z
  <2> QED BY <2>2, <2>4
<1> QED BY <1>1, <1>2, <1>3, <1>4 DEF VelocityName

LEMMA SameBlock ==
  ASSUME Sound, NEW sh, GoodShape(sh), NEW e \in 1..Nel, NEW f \in 1..Nel,
         NEW nm, VelocityName(sh, e, nm), NEW mm, VelocityName(sh, f, mm), PointOf(sh, nm) = PointOf(sh, mm)
  PROVE  nm[1] = mm[1]
<1> DEFINE W == WeightsOf(PointOf(sh, nm))
<1> DEFINE z == 24 \div Nc
<1>1. /\ nm[1] \in 1..4
      /\ nm[1] = 1 => W = {24}
      /\ nm[1] = 2 => W \subseteq Weights /\ \E w \in W : w \in {12, 16, 18}
      /\ nm[1] = 3 => Kind = "penta" /\ W \subseteq {3, 6, 9} /\ W # {}
      /\ nm[1] = 4 => W = {z}
  BY PointKinds
<1>2. /\ mm[1] \in 1..4
      /\ mm[1] = 1 => W = {24}
      /\ mm[1] = 2 => W \subseteq Weights /\ \E w \in W : w \in {12, 16, 18}
      /\ mm[1] = 3 => Kind = "penta" /\ W \subseteq {3, 6, 9} /\ W # {}
      /\ mm[1] = 4 => W = {z}
  BY PointKinds
<1>3. z \in {8, 6, 4} /\ (Kind = "penta" => z = 4)
  <2>1. Nc \in {3, 4, 6} /\ (Kind = "penta" => Nc = 6)
    BY IoFacts, LayerFacts DEF Nc, Sound
  <2> QED BY <2>1
<1> HIDE DEF W, z
<1>4. CASE nm[1] = 1
  BY <1>1, <1>2, <1>3, <1>4 DEF Weights
<1>5. CASE nm[1] = 2
  BY <1>1, <1>2, <1>3, <1>5 DEF Weights
<1>6. CASE nm[1] = 3
  BY <1>1, <1>2, <1>3, <1>6 DEF Weights
<1>7. CASE nm[1] = 4
  BY <1>1, <1>2, <1>3, <1>7 DEF Weights
<1> QED BY <1>1, <1>4, <1>5, <1>6, <1>7

LEMMA OnePoint ==
  ASSUME NEW v, NEW w, NEW x, {<<v, x>>} = {<<w, x>>}
  PROVE  v = w
<1>1. <<v, x>> = <<w, x>>
  OBVIOUS
<1> QED BY <1>1

LEMMA FirstOfFour ==
  ASSUME NEW a, NEW b, NEW c, NEW d, NEW w, NEW z, NEW S,
         S = {<<a, w>>, <<b, w>>, <<c, z>>, <<d, z>>}
  PROVE  {r[1] : r \in S} = {a, b, c, d}
<1> DEFINE F == {r[1] : r \in S}
<1>1. \A x \in F : x \in {a, b, c, d}
  OBVIOUS
<1>2. a \in F /\ b \in F /\ c \in F /\ d \in F
  <2>1. <<a, w>> \in S /\ <<b, w>> \in S /\ <<c, z>> \in S /\ <<d, z>> \in S
    OBVIOUS
  <2>2. <<a, w>>[1] = a /\ <<b, w>>[1] = b /\ <<c, z>>[1] = c /\ <<d, z>>[1] = d
    OBVIOUS
  <2> QED BY <2>1, <2>2
<1> QED BY <1>1, <1>2

LEMMA EdgePointsDiffer ==
  ASSUME Sound, NEW sh, GoodShape(sh), NEW e \in 1..Nel, NEW f \in 1..Nel,
         NEW nm, EdgeName(sh, e, nm), NEW mm, EdgeName(sh, f, mm), PointOf(sh, nm) = PointOf(sh, mm)
  PROVE  nm = mm
<1>1. PICK k \in DOMAIN Local : \E c \in 1..CopiesOn(sh, Local[k][3]) : nm = <<2, EdgeNo(e, k), c>>
  BY DEF EdgeName
<1>2. PICK c \in 1..CopiesOn(sh, Local[k][3]) : nm = <<2, EdgeNo(e, k), c>>
  BY <1>1
<1>3. PICK l \in DOMAIN Local : \E d \in 1..CopiesOn(sh, Local[l][3]) : mm = <<2, EdgeNo(f, l), d>>
  BY DEF EdgeName
<1>4. PICK d \in 1..CopiesOn(sh, Local[l][3]) : mm = <<2, EdgeNo(f, l), d>>
  BY <1>3
<1> DEFINE w == EdgeWeight(sh, EdgeNo(e, k), c)
<1> DEFINE z == EdgeWeight(sh, EdgeNo(f, l), d)
<1>5. PICK x \in Nat, y \in Nat : x < y /\ iomodel.edges[EdgeNo(e, k)].ends = {x, y}
  BY EdgePoints
<1>6. PICK u \in Nat, v \in Nat : u < v /\ iomodel.edges[EdgeNo(f, l)].ends = {u, v}
  BY EdgePoints
<1>7. /\ nm[1] = 2 /\ nm[2] = EdgeNo(e, k) /\ nm[3] = c /\ mm[1] = 2 /\ mm[2] = EdgeNo(f, l) /\ mm[3] = d
  BY <1>2, <1>4
<1>8. PointOf(sh, nm) = OnEdge({x, y}, w)
  <2>1. PointOf(sh, nm) = OnEdge(iomodel.edges[nm[2]].ends, EdgeWeight(sh, nm[2], nm[3]))
    BY <1>7 DEF PointOf
  <2> QED BY <1>5, <1>7, <2>1
<1>9. PointOf(sh, mm) = OnEdge({u, v}, z)
  <2>1. PointOf(sh, mm) = OnEdge(iomodel.edges[mm[2]].ends, EdgeWeight(sh, mm[2], mm[3]))
    BY <1>7 DEF PointOf
  <2> QED BY <1>6, <1>7, <2>1
<1>10. x = u /\ y = v /\ w = z
  <2> HIDE DEF w, z
  <2>1. OnEdge({x, y}, w) = {<<x, 24 - w>>, <<y, w>>}
    BY <1>5, OnEdgeIs
  <2>2. OnEdge({u, v}, z) = {<<u, 24 - z>>, <<v, z>>}
    BY <1>6, OnEdgeIs
  <2>3. {<<x, 24 - w>>, <<y, w>>} = {<<u, 24 - z>>, <<v, z>>}
    BY <1>8, <1>9, <2>1, <2>2
  <2>4. x = u /\ y = v /\ w = z
    <3> DEFINE g == 24 - w
    <3> DEFINE h == 24 - z
    <3>1. {<<x, g>>, <<y, w>>} = {<<u, h>>, <<v, z>>}
      BY <2>3
    <3> HIDE DEF g, h
    <3>2. <<x, g>> = <<u, h>> \/ <<x, g>> = <<v, z>>
      BY <3>1
    <3>3. <<y, w>> = <<u, h>> \/ <<y, w>> = <<v, z>>
      BY <3>1
    <3>4. <<u, h>> = <<x, g>> \/ <<u, h>> = <<y, w>>
      BY <3>1
    <3>5. /\ x = u \/ x = v
          /\ y = u \/ (y = v /\ w = z)
          /\ u = x \/ u = y
      BY <3>2, <3>3, <3>4
    <3> QED BY <1>5, <1>6, <3>5
  <2> QED BY <2>4
<1>11. EdgeNo(e, k) = EdgeNo(f, l)
  <2>1. /\ iomodel.edges[EdgeNo(e, k)].ends = {End(e, k, 1), End(e, k, 2)}
        /\ iomodel.edges[EdgeNo(f, l)].ends = {End(f, l, 1), End(f, l, 2)}
    BY EdgeNumbers DEF Sound
  <2>2. {End(e, k, 1), End(e, k, 2)} = {End(f, l, 1), End(f, l, 2)}
    BY <1>5, <1>6, <1>10, <2>1
  <2>3. \A g \in 1..Nel, m \in DOMAIN Local :
           {End(e, k, 1), End(e, k, 2)} = {End(g, m, 1), End(g, m, 2)} => EdgeNo(e, k) = EdgeNo(g, m)
    BY EdgeNumbers DEF Sound
  <2> QED BY <2>2, <2>3
<1>12. c = d
  <2>1. Local[k][3] = Local[l][3]
    BY <1>11, EdgeMarkers
  <2>2. d \in 1..CopiesOn(sh, Local[k][3]) /\ EdgeWeight(sh, EdgeNo(e, k), c) = EdgeWeight(sh, EdgeNo(e, k), d)
    BY <1>10, <1>11, <2>1
  <2> QED BY <2>2, EdgePoints
<1> QED BY <1>2, <1>4, <1>11, <1>12

LEMMA QuadPointsDiffer ==
  ASSUME Sound, NEW sh, GoodShape(sh), NEW e \in 1..Nel, NEW f \in 1..Nel,
         NEW nm, QuadName(sh, e, nm), NEW mm, QuadName(sh, f, mm), PointOf(sh, nm) = PointOf(sh, mm)
  PROVE  nm = mm
<1>1. PICK k \in 3..5, c \in 1..sh.quad : nm = <<3, FaceNo(e, k), c>>
  BY DEF QuadName
<1>2. PICK l \in 3..5, d \in 1..sh.quad : mm = <<3, FaceNo(f, l), d>>
  BY DEF QuadName
<1>3. Kind = "penta"
  BY DEF QuadName
<1> DEFINE w == QuadWeight(sh, c)
<1> DEFINE z == QuadWeight(sh, d)
<1> DEFINE V == iomodel.faces[FaceNo(e, k)].vertices
<1> DEFINE U == iomodel.faces[FaceNo(f, l)].vertices
<1>4. /\ PointOf(sh, nm) = OnQuad(V, w) /\ PointOf(sh, mm) = OnQuad(U, z)
  <2>1. nm[1] = 3 /\ nm[2] = FaceNo(e, k) /\ nm[3] = c /\ mm[1] = 3 /\ mm[2] = FaceNo(f, l) /\ mm[3] = d
    BY <1>1, <1>2
  <2> QED BY <2>1 DEF PointOf
<1>13. PICK x \in 1..Nv, y \in 1..Nv : QuadIs(sh, e, k, c, x, y)
  BY <1>3, QuadPoints
<1>14. PICK t \in 1..Nv, s \in 1..Nv : QuadIs(sh, f, l, d, t, s)
  BY <1>3, QuadPoints
<1>5. /\ x < y /\ y - x < Layer /\ V = {x, y, x + Layer, y + Layer}
      /\ OnQuad(V, w) = {<<x, 12 - w>>, <<y, 12 - w>>, <<x + Layer, w>>, <<y + Layer, w>>}
  BY <1>13 DEF QuadIs
<1>6. /\ t < s /\ s - t < Layer /\ U = {t, s, t + Layer, s + Layer}
      /\ OnQuad(U, z) = {<<t, 12 - z>>, <<s, 12 - z>>, <<t + Layer, z>>, <<s + Layer, z>>}
  BY <1>14 DEF QuadIs
<1>7. /\ Layer \in Nat /\ Layer > 0 /\ Nv \in Nat /\ w \in {3, 6, 9} /\ z \in {3, 6, 9}
  BY <1>3, LayerFacts, IoFacts, QuadPoints DEF Sound
<1>8. V = U
  <2> DEFINE P == OnQuad(V, w)
  <2>1. {r[1] : r \in P} = V
    <3>1. P = {<<x, 12 - w>>, <<y, 12 - w>>, <<x + Layer, w>>, <<y + Layer, w>>}
      BY <1>5
    <3> HIDE DEF V, w, P
    <3> QED BY <1>5, <3>1, FirstOfFour
  <2>2. {r[1] : r \in P} = U
    <3>1. P = {<<t, 12 - z>>, <<s, 12 - z>>, <<t + Layer, z>>, <<s + Layer, z>>}
      BY <1>4, <1>6
    <3> HIDE DEF V, U, w, z, P
    <3> QED BY <1>6, <3>1, FirstOfFour
  <2> QED BY <2>1, <2>2
<1> HIDE DEF V, U, w, z
<1>9. x = t
  <2>1. x <= t /\ t <= x
    BY <1>5, <1>6, <1>7, <1>8
  <2> QED BY <1>7, <2>1
<1>10. w = z
  <2>1. <<x, 12 - w>> \in {<<t, 12 - z>>, <<s, 12 - z>>, <<t + Layer, z>>, <<s + Layer, z>>}
    BY <1>4, <1>5, <1>6
  <2>2. x # s /\ x # t + Layer /\ x # s + Layer
    BY <1>5, <1>6, <1>7, <1>9
  <2>3. 12 - w = 12 - z
    BY <2>1, <2>2
  <2> QED BY <1>7, <2>3
<1>11. FaceNo(e, k) = FaceNo(f, l)
  <2>1. k \in 1..5 /\ l \in 1..5
    OBVIOUS
  <2>2. V = FaceVertices(iomodel.mesh, e, k) /\ U = FaceVertices(iomodel.mesh, f, l)
    BY <1>3, <2>1, FacesAre DEF V, U
  <2>3. FaceNo(e, k) = FaceWith(SidesThree(e, k)) /\ FaceNo(f, l) = FaceWith(SidesThree(f, l))
    BY <1>3, <2>1, FaceNumbers
  <2> QED BY <1>8, <2>2, <2>3 DEF SidesThree
<1>12. c = d
  BY <1>3, <1>10, QuadPoints DEF w, z
<1> QED BY <1>1, <1>2, <1>11, <1>12

LEMMA BubblePointsDiffer ==
  ASSUME Sound, NEW e \in 1..Nel, NEW f \in 1..Nel, OnElement(e) = OnElement(f)
  PROVE  e = f
<1> DEFINE z == 24 \div Nc
<1>1. /\ OnElement(e) = {<<Place(e, p), z>> : p \in 1..Nc} /\ OnElement(f) = {<<Place(f, p), z>> : p \in 1..Nc}
  BY DEF OnElement
<1> HIDE DEF z
<1>2. \A v : (\E p \in 1..Nc : v = Place(e, p)) <=> (\E p \in 1..Nc : v = Place(f, p))
  <2>1. \A v : (\E p \in 1..Nc : v = Place(e, p)) <=> <<v, z>> \in OnElement(e)
    BY <1>1
  <2>2. \A v : (\E p \in 1..Nc : v = Place(f, p)) <=> <<v, z>> \in OnElement(f)
    BY <1>1
  <2> QED BY <2>1, <2>2
<1> QED BY <1>2, CornersDiffer

\* Two elements see different nodes at different points.
LEMMA PointsApart ==
  ASSUME Sound, NEW sh, GoodShape(sh), NEW e \in 1..Nel, NEW f \in 1..Nel,
         NEW nm, VelocityName(sh, e, nm), NEW mm, VelocityName(sh, f, mm), PointOf(sh, nm) = PointOf(sh, mm)
  PROVE  nm = mm
<1>1. nm[1] = mm[1]
  BY SameBlock
<1>2. /\ CornerName(sh, e, nm) => nm[1] = 1
      /\ EdgeName(sh, e, nm) => nm[1] = 2
      /\ QuadName(sh, e, nm) => nm[1] = 3
      /\ BubbleName(sh, e, nm) => nm[1] = 4
  BY DEF CornerName, EdgeName, QuadName, BubbleName
<1>3. /\ CornerName(sh, f, mm) => mm[1] = 1
      /\ EdgeName(sh, f, mm) => mm[1] = 2
      /\ QuadName(sh, f, mm) => mm[1] = 3
      /\ BubbleName(sh, f, mm) => mm[1] = 4
  BY DEF CornerName, EdgeName, QuadName, BubbleName
<1>4. CASE CornerName(sh, e, nm) /\ CornerName(sh, f, mm)
  <2>1. PICK v, u : nm = <<1, v, 1>> /\ mm = <<1, u, 1>>
    BY <1>4 DEF CornerName
  <2>2. PointOf(sh, nm) = {<<v, 24>>} /\ PointOf(sh, mm) = {<<u, 24>>}
    BY <2>1 DEF PointOf, AtCorner
  <2>3. v = u
    BY <2>2, OnePoint
  <2> QED BY <2>1, <2>3
<1>5. CASE EdgeName(sh, e, nm) /\ EdgeName(sh, f, mm)
  BY <1>5, EdgePointsDiffer
<1>6. CASE QuadName(sh, e, nm) /\ QuadName(sh, f, mm)
  BY <1>6, QuadPointsDiffer
<1>7. CASE BubbleName(sh, e, nm) /\ BubbleName(sh, f, mm)
  <2>1. nm = <<4, e, 1>> /\ mm = <<4, f, 1>>
    BY <1>7 DEF BubbleName
  <2>2. PointOf(sh, nm) = OnElement(e) /\ PointOf(sh, mm) = OnElement(f)
    BY <2>1 DEF PointOf
  <2>3. e = f
    BY <2>2, BubblePointsDiffer
  <2> QED BY <2>1, <2>3
<1> QED BY <1>1, <1>2, <1>3, <1>4, <1>5, <1>6, <1>7 DEF VelocityName

LEMMA PressuresApart ==
  ASSUME Sound, NEW sh, GoodShape(sh), NEW e \in 1..Nel, NEW f \in 1..Nel,
         NEW nm, PressureName(sh, e, nm), NEW mm, PressureName(sh, f, mm), PointOf(sh, nm) = PointOf(sh, mm),
         OwnOf(sh, nm) = OwnOf(sh, mm)
  PROVE  nm = mm
<1>1. CASE sh.press = "vertex"
  <2>1. PICK v, u : nm = <<5, v, 1>> /\ mm = <<5, u, 1>>
    BY <1>1 DEF PressureName
  <2>2. PointOf(sh, nm) = {<<v, 24>>} /\ PointOf(sh, mm) = {<<u, 24>>}
    BY <1>1, <2>1 DEF PointOf, AtCorner
  <2>3. v = u
    BY <2>2, OnePoint
  <2> QED BY <2>1, <2>3
<1>2. CASE sh.press = "own"
  <2>1. PICK p \in 1..Nc, q \in 1..Nc : nm = <<5, e, p>> /\ mm = <<5, f, q>>
    BY <1>2 DEF PressureName
  <2>2. e = f
    BY <1>2, <2>1 DEF OwnOf
  <2>3. PointOf(sh, nm) = {<<Place(e, p), 24>>} /\ PointOf(sh, mm) = {<<Place(f, q), 24>>}
    BY <1>2, <2>1 DEF PointOf, AtCorner
  <2>4. Place(e, p) = Place(e, q)
    <3>1. {<<Place(e, p), 24>>} = {<<Place(e, q), 24>>}
      BY <2>2, <2>3
    <3> QED BY <3>1, OnePoint
  <2>5. p = q
    BY <2>4, CornersDiffer
  <2> QED BY <2>1, <2>2, <2>5
<1> QED BY <1>1, <1>2 DEF PressureName

LEMMA HasIsName ==
  ASSUME Sound, NEW sh, GoodShape(sh), NEW e \in 1..Nel, NEW nm, Has(sh, e, nm)
  PROVE  IsName(sh, nm) /\ (VelocityName(sh, e, nm) <=> nm[1] # 5)
<1>1. /\ Nv \in Nat /\ Ne \in Nat /\ Nel \in Nat /\ Nc \in Nat /\ \A p \in 1..Nc : Place(e, p) \in 1..Nv
      /\ Partitioned /\ sh \in Shapes /\ (Kind = "penta" => Nf \in Nat)
  BY IoFacts DEF Nc, Sound, GoodShape
<1>2. CASE CornerName(sh, e, nm)
  BY <1>1, <1>2 DEF CornerName, IsName, Count, StrideOf, Blocks, VelocityName
<1>3. CASE EdgeName(sh, e, nm)
  <2>1. PICK k \in DOMAIN Local : \E c \in 1..CopiesOn(sh, Local[k][3]) : nm = <<2, EdgeNo(e, k), c>>
    BY <1>3 DEF EdgeName
  <2>2. PICK c \in 1..CopiesOn(sh, Local[k][3]) : nm = <<2, EdgeNo(e, k), c>>
    BY <2>1
  <2>3. EdgeNo(e, k) \in 1..Ne
    BY <1>1, EdgeNumbers
  <2>5. c \in 1..sh.stride
    BY EdgePoints
  <2>4. sh.stride \in Nat
    <3>1. sh.stride \in 0..3
      BY <1>1 DEF Shapes
    <3> QED BY <3>1
  <2> QED BY <1>1, <1>3, <2>2, <2>3, <2>4, <2>5 DEF IsName, Count, StrideOf, Blocks, VelocityName
<1>4. CASE QuadName(sh, e, nm)
  <2>1. PICK k \in 3..5, c \in 1..sh.quad : nm = <<3, FaceNo(e, k), c>>
    BY <1>4 DEF QuadName
  <2>2. FaceNo(e, k) \in 1..Nf /\ Kind = "penta"
    <3>1. k \in 1..5
      OBVIOUS
    <3> QED BY <1>4, <3>1, FaceNumbers DEF QuadName
  <2>3. sh.quad \in Nat
    <3>1. sh.quad \in {0, 1, 3}
      BY <1>1 DEF Shapes
    <3> QED BY <3>1
  <2> QED BY <1>1, <1>4, <2>1, <2>2, <2>3 DEF IsName, Count, StrideOf, Blocks, VelocityName, NQuads
<1>5. CASE BubbleName(sh, e, nm)
  BY <1>1, <1>5 DEF BubbleName, IsName, Count, StrideOf, Blocks, VelocityName
<1>6. CASE PressureName(sh, e, nm)
  <2>1. IsName(sh, nm) /\ nm[1] = 5
    BY <1>1, <1>6 DEF PressureName, IsName, Count, StrideOf, Blocks
  <2>2. ~ VelocityName(sh, e, nm)
    BY <2>1 DEF VelocityName, CornerName, EdgeName, QuadName, BubbleName
  <2> QED BY <2>1, <2>2
<1>7. VelocityName(sh, e, nm) => nm[1] # 5
  BY DEF VelocityName, CornerName, EdgeName, QuadName, BubbleName
<1> QED BY <1>2, <1>3, <1>4, <1>5, <1>6, <1>7 DEF Has, VelocityName
=============================================================================

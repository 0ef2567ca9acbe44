---------------------------- MODULE MpiVec_proofs ----------------------------
(***************************************************************************)
(* The rows of a distributed vector: how many each rank gets, and that     *)
(* every row has one owner.                                                *)
(***************************************************************************)
EXTENDS MpiVec, Reductions, Integers, FiniteSetTheorems, SequenceTheorems, TLAPS

(***************************************************************************)
(* A nonempty set of natural numbers has a least element.                  *)
(***************************************************************************)
LEMMA LeastElement ==
  ASSUME NEW T \in SUBSET Nat, T # {}
  PROVE  \E x \in T : \A y \in T : x <= y
<1> DEFINE Below == {0..(n-1) : n \in T}
<1>1. IsWellFoundedOn(StrictSubsetOrdering(Nat), FiniteSubsetsOf(Nat))
  BY FS_StrictSubsetOrderingWellFounded
<1>2. Below \subseteq FiniteSubsetsOf(Nat)
  <2>1. \A n \in Nat : IsFiniteSet(0..(n-1))
    BY FS_Interval
  <2> QED BY <2>1 DEF FiniteSubsetsOf
<1>3. Below # {}
  OBVIOUS
<1>4. PICK b \in Below : \A c \in Below : <<c, b>> \notin StrictSubsetOrdering(Nat)
  <2> HIDE DEF Below
  <2> QED BY <1>1, <1>2, <1>3, WFMin
<1>5. PICK x \in T : b = 0..(x-1)
  OBVIOUS
<1>6. ASSUME NEW y \in T, y < x
      PROVE  FALSE
  <2>1. 0..(y-1) \subseteq 0..(x-1) /\ 0..(y-1) # 0..(x-1)
    <3>1. y \in 0..(x-1) /\ y \notin 0..(y-1)
      BY <1>6
    <3>2. 0..(y-1) \subseteq 0..(x-1)
      BY <1>6
    <3> QED BY <3>1, <3>2
  <2>2. 0..(y-1) \in SUBSET Nat /\ 0..(x-1) \in SUBSET Nat
    OBVIOUS
  <2>3. <<0..(y-1), b>> \in StrictSubsetOrdering(Nat)
    BY <2>1, <2>2, <1>5 DEF StrictSubsetOrdering
  <2> QED BY <2>3, <1>4
<1> QED BY <1>6

(***************************************************************************)
(* The recursive function exists: its domain grows one index at a time.    *)
(***************************************************************************)
LEMMA RunningSumExists ==
  ASSUME NEW w, NEW n \in Nat
  PROVE  \E f : f = [i \in 0..n |-> IF i = 0 THEN 0 ELSE f[i-1] + w[i-1]]
<1> DEFINE IsSum(f, h) == f = [i \in 0..h |-> IF i = 0 THEN 0 ELSE f[i-1] + w[i-1]]
<1> DEFINE Bad == {h \in Nat : ~ \E f : IsSum(f, h)}
<1> SUFFICES Bad = {}
  OBVIOUS
<1> SUFFICES ASSUME Bad # {} PROVE FALSE
  OBVIOUS
<1>1. PICK h \in Bad : \A k \in Bad : h <= k
  <2>1. Bad \in SUBSET Nat
    OBVIOUS
  <2> HIDE DEF Bad
  <2> QED BY <2>1, LeastElement
<1>2. IsSum([i \in 0..0 |-> 0], 0)
  OBVIOUS
<1>3. h # 0
  BY <1>2
<1>4. PICK f : IsSum(f, h-1)
  BY <1>1, <1>3
<1> DEFINE g == [i \in 0..h |-> IF i = h THEN f[h-1] + w[h-1] ELSE f[i]]
<1>5. IsSum(g, h)
  <2>1. ASSUME NEW i \in 0..h
        PROVE  g[i] = IF i = 0 THEN 0 ELSE g[i-1] + w[i-1]
    <3>1. CASE i = h
      BY <3>1, <1>3
    <3>2. CASE i # h
      <4>1. i \in 0..(h-1)
        BY <3>2
      <4>2. f[i] = IF i = 0 THEN 0 ELSE f[i-1] + w[i-1]
        BY <4>1, <1>4
      <4>3. i # 0 => i-1 \in 0..h /\ i-1 # h
        BY <4>1
      <4> QED BY <4>1, <4>2, <4>3, <3>2
    <3> QED BY <3>1, <3>2
  <2> QED BY <2>1
<1> QED BY <1>5

(***************************************************************************)
(* The equations of the loop.                                              *)
(***************************************************************************)
LEMMA RunningSumFcn ==
  ASSUME NEW w, NEW n \in Nat
  PROVE  \E f : /\ f = [i \in 0..n |-> IF i = 0 THEN 0 ELSE f[i-1] + w[i-1]]
                /\ RunningSum(w, n) = f[n]
<1> DEFINE F == CHOOSE f : f = [i \in 0..n |-> IF i = 0 THEN 0 ELSE f[i-1] + w[i-1]]
<1>1. F = [i \in 0..n |-> IF i = 0 THEN 0 ELSE F[i-1] + w[i-1]]
  BY RunningSumExists
<1>2. RunningSum(w, n) = F[n]
  BY DEF RunningSum
<1> QED BY <1>1, <1>2

(***************************************************************************)
(* Two such tables agree wherever both are defined.                        *)
(***************************************************************************)
TabulatesSum(f, w, n) ==
  \A i \in 0..n : f[i] = IF i = 0 THEN 0 ELSE f[i-1] + w[i-1]

LEMMA RunningSumUnique ==
  ASSUME NEW w, NEW h \in Nat, NEW n \in Nat, h <= n, NEW f, NEW g,
         TabulatesSum(f, w, h), TabulatesSum(g, w, n)
  PROVE  \A i \in 0..h : f[i] = g[i]
<1> USE DEF TabulatesSum
<1> DEFINE Bad == {i \in 0..h : f[i] # g[i]}
<1> SUFFICES ASSUME Bad # {} PROVE FALSE
  OBVIOUS
<1>1. PICK i \in Bad : \A j \in Bad : i <= j
  <2>1. Bad \in SUBSET Nat
    OBVIOUS
  <2> HIDE DEF Bad
  <2> QED BY <2>1, LeastElement
<1>2. i \in 0..h /\ i \in 0..n
  OBVIOUS
<1>3. CASE i = 0
  BY <1>2, <1>3
<1>4. CASE i # 0
  <2>1. i-1 \in 0..h /\ i-1 < i /\ i \in Nat
    BY <1>2, <1>4
  <2>2. i-1 \notin Bad
    <3> HIDE DEF Bad
    <3> QED BY <1>1, <2>1
  <2>3. f[i-1] = g[i-1]
    BY <2>1, <2>2
  <2>4. f[i] = f[i-1] + w[i-1] /\ g[i] = g[i-1] + w[i-1]
    BY <1>2, <1>4
  <2> QED BY <2>3, <2>4
<1> QED BY <1>3, <1>4

(***************************************************************************)
(* The equations of the loop: it starts at 0, and each turn adds one       *)
(* count.                                                                  *)
(***************************************************************************)
LEMMA RunningSumZero ==
  ASSUME NEW w
  PROVE  RunningSum(w, 0) = 0
BY RunningSumFcn

LEMMA RunningSumStep ==
  ASSUME NEW w, NEW n \in Nat
  PROVE  RunningSum(w, n+1) = RunningSum(w, n) + w[n]
<1>1. PICK f : /\ f = [i \in 0..n |-> IF i = 0 THEN 0 ELSE f[i-1] + w[i-1]]
               /\ RunningSum(w, n) = f[n]
  BY RunningSumFcn
<1>2. PICK g : /\ g = [i \in 0..(n+1) |-> IF i = 0 THEN 0 ELSE g[i-1] + w[i-1]]
               /\ RunningSum(w, n+1) = g[n+1]
  BY RunningSumFcn, n+1 \in Nat
<1>3. f[n] = g[n]
  <2>1. n+1 \in Nat /\ n <= n+1 /\ n \in 0..n
    OBVIOUS
  <2>2. TabulatesSum(f, w, n)
    BY <1>1 DEF TabulatesSum
  <2>3. TabulatesSum(g, w, n+1)
    BY <1>2 DEF TabulatesSum
  <2>4. \A i \in 0..n : f[i] = g[i]
    BY <2>1, <2>2, <2>3, RunningSumUnique
  <2> QED BY <2>1, <2>4
<1>4. g[n+1] = g[n] + w[n]
  <2>1. n+1 \in 0..(n+1) /\ n+1 # 0 /\ (n+1)-1 = n
    OBVIOUS
  <2> QED BY <1>2, <2>1
<1> QED BY <1>1, <1>2, <1>3, <1>4

(***************************************************************************)
(* Sums of natural numbers are natural numbers, whatever prefix is taken.  *)
(***************************************************************************)
LEMMA RunningSumNat ==
  ASSUME NEW N \in Nat, NEW w \in [0..(N-1) -> Nat]
  PROVE  \A n \in 0..N : RunningSum(w, n) \in Nat
<1> DEFINE Bad == {n \in 0..N : RunningSum(w, n) \notin Nat}
<1> SUFFICES ASSUME Bad # {} PROVE FALSE
  OBVIOUS
<1>1. PICK n \in Bad : \A k \in Bad : n <= k
  <2>1. Bad \in SUBSET Nat
    OBVIOUS
  <2> HIDE DEF Bad
  <2> QED BY <2>1, LeastElement
<1>2. n # 0
  BY RunningSumZero
<1>3. n-1 \in Nat /\ n-1 \in 0..(N-1) /\ n-1 \in 0..N /\ (n-1)+1 = n
  BY <1>2
<1>4. n-1 \notin Bad
  BY <1>1, <1>3
<1>5. RunningSum(w, n-1) \in Nat
  BY <1>3, <1>4
<1>6. RunningSum(w, n) = RunningSum(w, n-1) + w[n-1]
  BY <1>3, RunningSumStep
<1>7. w[n-1] \in Nat
  BY <1>3
<1>8. RunningSum(w, n) \in Nat
  BY <1>5, <1>6, <1>7
<1> QED BY <1>8

(***************************************************************************)
(* The blocks [RunningSum(i), RunningSum(i) + w[i]) follow one another.    *)
(***************************************************************************)
LEMMA RunningSumOrdered ==
  ASSUME NEW N \in Nat, NEW w \in [0..(N-1) -> Nat]
  PROVE  \A n \in 0..N, i \in 0..(N-1) :
            i < n => RunningSum(w, i) + w[i] <= RunningSum(w, n)
<1> DEFINE Bad == {n \in 0..N : \E i \in 0..(N-1) :
                     i < n /\ ~ (RunningSum(w, i) + w[i] <= RunningSum(w, n))}
<1> SUFFICES ASSUME Bad # {} PROVE FALSE
  OBVIOUS
<1>1. PICK n \in Bad : \A k \in Bad : n <= k
  <2>1. Bad \in SUBSET Nat
    OBVIOUS
  <2> HIDE DEF Bad
  <2> QED BY <2>1, LeastElement
<1>2. PICK i \in 0..(N-1) : i < n /\ ~ (RunningSum(w, i) + w[i] <= RunningSum(w, n))
  OBVIOUS
<1>3. n-1 \in Nat /\ n-1 \in 0..(N-1) /\ n-1 \in 0..N /\ (n-1)+1 = n
  BY <1>2
<1>4. n-1 \notin Bad
  BY <1>1, <1>3
<1>5. RunningSum(w, n) = RunningSum(w, n-1) + w[n-1]
  BY <1>3, RunningSumStep
<1>6. w[n-1] \in Nat /\ w[i] \in Nat /\ RunningSum(w, i) \in Nat /\ RunningSum(w, n-1) \in Nat
  <2>1. \A k \in 0..N : RunningSum(w, k) \in Nat
    BY RunningSumNat
  <2>2. i \in 0..N
    OBVIOUS
  <2> QED BY <1>3, <2>1, <2>2
<1>7. CASE i = n-1
  BY <1>2, <1>5, <1>6, <1>7
<1>8. CASE i < n-1
  <2>1. RunningSum(w, i) + w[i] <= RunningSum(w, n-1)
    BY <1>3, <1>4, <1>8
  <2> QED BY <1>2, <1>5, <1>6, <2>1
<1> QED BY <1>2, <1>3, <1>7, <1>8

(***************************************************************************)
(* and they leave no number out.                                           *)
(***************************************************************************)
LEMMA RunningSumCovers ==
  ASSUME NEW N \in Nat, NEW w \in [0..(N-1) -> Nat]
  PROVE  \A n \in 0..N : \A x \in Nat : x < RunningSum(w, n) =>
            \E i \in 0..(N-1) : /\ i < n
                                /\ RunningSum(w, i) <= x
                                /\ x < RunningSum(w, i) + w[i]
<1> DEFINE Covered(n) == \A x \in Nat : x < RunningSum(w, n) =>
                            \E i \in 0..(N-1) : /\ i < n
                                                /\ RunningSum(w, i) <= x
                                                /\ x < RunningSum(w, i) + w[i]
<1> DEFINE Bad == {n \in 0..N : ~ Covered(n)}
<1> SUFFICES ASSUME Bad # {} PROVE FALSE
  OBVIOUS
<1>1. PICK n \in Bad : \A k \in Bad : n <= k
  <2>1. Bad \in SUBSET Nat
    OBVIOUS
  <2> HIDE DEF Bad
  <2> QED BY <2>1, LeastElement
<1>2. n # 0
  BY RunningSumZero
<1>3. n-1 \in Nat /\ n-1 \in 0..(N-1) /\ n-1 \in 0..N /\ (n-1)+1 = n
  BY <1>2
<1>4. Covered(n-1)
  BY <1>1, <1>3
<1>5. RunningSum(w, n) = RunningSum(w, n-1) + w[n-1]
  BY <1>3, RunningSumStep
<1>6. w[n-1] \in Nat /\ RunningSum(w, n-1) \in Nat
  BY <1>3, RunningSumNat
<1>7. Covered(n)
  <2> SUFFICES ASSUME NEW x \in Nat, x < RunningSum(w, n)
               PROVE  \E i \in 0..(N-1) : /\ i < n
                                          /\ RunningSum(w, i) <= x
                                          /\ x < RunningSum(w, i) + w[i]
    OBVIOUS
  <2>1. CASE x < RunningSum(w, n-1)
    <3>1. PICK i \in 0..(N-1) : /\ i < n-1
                               /\ RunningSum(w, i) <= x
                               /\ x < RunningSum(w, i) + w[i]
      BY <1>4, <2>1
    <3>2. i < n
      BY <3>1, <1>3
    <3> QED BY <3>1, <3>2
  <2>2. CASE ~ (x < RunningSum(w, n-1))
    <3>1. RunningSum(w, n-1) <= x /\ x < RunningSum(w, n-1) + w[n-1] /\ n-1 < n
      BY <2>2, <1>5, <1>6, <1>3
    <3> QED BY <3>1, <1>3
  <2> QED BY <2>1, <2>2
<1> QED BY <1>7

-----------------------------------------------------------------------------
\* The first n of several ranks have n times the quotient and one row more for each
\* that takes a part of the remainder.
LEMMA LocalSizesBefore ==
  ASSUME NEW q \in Nat, NEW rest \in Nat, NEW P \in Nat,
         NEW w \in [0..(P - 1) -> Nat],
         \A r \in 0..(P - 1) : w[r] = q + (IF r < rest THEN 1 ELSE 0)
  PROVE  \A n \in 0..P : RunningSum(w, n) = n * q + (IF n <= rest THEN n ELSE rest)
<1> DEFINE total(n) == n * q + (IF n <= rest THEN n ELSE rest)
<1> DEFINE Bad == {n \in 0..P : RunningSum(w, n) # total(n)}
<1> SUFFICES ASSUME Bad # {} PROVE FALSE
  OBVIOUS
<1>1. PICK n \in Bad : \A k \in Bad : n <= k
  <2>1. Bad \in SUBSET Nat
    OBVIOUS
  <2> QED BY <2>1, LeastElement
<1>2. n # 0
  BY RunningSumZero
<1>3. n \in Nat /\ n - 1 \in Nat /\ n - 1 \in 0..P /\ n - 1 \in 0..(P - 1)
  BY <1>1, <1>2
<1>4. RunningSum(w, n - 1) = total(n - 1)
  BY <1>1, <1>3
<1>5. RunningSum(w, n) = RunningSum(w, n - 1) + w[n - 1]
  <2>1. RunningSum(w, (n - 1) + 1) = RunningSum(w, n - 1) + w[n - 1]
    BY <1>3, RunningSumStep
  <2>2. (n - 1) + 1 = n
    BY <1>3
  <2> QED BY <2>1, <2>2
<1>6. w[n - 1] = q + (IF n <= rest THEN 1 ELSE 0)
  BY <1>3
<1>7. n * q = (n - 1) * q + q
  BY <1>3
<1>8. RunningSum(w, n) = total(n)
  <2> DEFINE extra(k) == IF k <= rest THEN k ELSE rest
  <2>1. PICK a \in Nat : a = (n - 1) * q
    BY <1>3
  <2>2. RunningSum(w, n - 1) = a + extra(n - 1)
    BY <1>4, <2>1
  <2>3. total(n) = (a + q) + extra(n)
    BY <1>7, <2>1
  <2>4. extra(n - 1) + (IF n <= rest THEN 1 ELSE 0) = extra(n)
    BY <1>3
  <2>5. extra(n - 1) \in Nat /\ extra(n) \in Nat
    BY <1>3
  <2> HIDE DEF extra, total
  <2>6. RunningSum(w, n) = (a + extra(n - 1)) + (q + (IF n <= rest THEN 1 ELSE 0))
    BY <1>5, <1>6, <2>2
  <2> QED BY <2>1, <2>3, <2>4, <2>5, <2>6
<1> QED BY <1>1, <1>8

\* DetermineLocalSize leaves no row out and gives none twice: the local sizes add up to
\* the size of the vector, for every size and every number of ranks, also when there
\* are fewer rows than ranks.
THEOREM DistributedSizesAddUp ==
  \A size \in Nat :
    RunningSum([r \in Rank |-> DetermineLocalSize(size, r)], NumProcs) = size
<1> SUFFICES ASSUME NEW size \in Nat
             PROVE  RunningSum([r \in Rank |-> DetermineLocalSize(size, r)], NumProcs) = size
  OBVIOUS
<1> DEFINE q == size \div NumProcs
<1> DEFINE rest == size % NumProcs
<1> DEFINE w == [r \in Rank |-> DetermineLocalSize(size, r)]
<1>1. NumProcs \in Nat /\ NumProcs > 0
  BY LayoutAssumption
<1>2. q \in Nat /\ rest \in Nat /\ rest < NumProcs
  BY <1>1
<1>3. size = NumProcs * q + rest
  BY <1>1
<1>4. /\ w \in [0..(NumProcs - 1) -> Nat]
      /\ \A r \in 0..(NumProcs - 1) : w[r] = q + (IF r < rest THEN 1 ELSE 0)
  BY <1>2 DEF DetermineLocalSize, Rank
<1>5. NumProcs \in 0..NumProcs
  BY <1>1
<1> HIDE DEF q, rest, w
<1>6. RunningSum(w, NumProcs) = NumProcs * q + (IF NumProcs <= rest THEN NumProcs ELSE rest)
  BY <1>1, <1>2, <1>4, <1>5, LocalSizesBefore
<1>7. RunningSum(w, NumProcs) = size
  BY <1>1, <1>2, <1>3, <1>6
<1> QED BY <1>7 DEF w

\* Every row of the vector has one owner, whatever the local sizes are and also when
\* some ranks own no row: what is sent to the owner of a row arrives in its block, and
\* no other rank takes the row for its own.
THEOREM EveryRowHasOneOwner ==
  \A x \in Row :
    /\ RowRank[x] \in Rank
    /\ \A r \in Rank : x \in RowsOf[r] <=> r = RowRank[x]
<1> SUFFICES ASSUME NEW x \in Row
             PROVE  /\ RowRank[x] \in Rank
                    /\ \A r \in Rank : x \in RowsOf[r] <=> r = RowRank[x]
  OBVIOUS
<1>1. NumProcs \in Nat /\ NumProcs > 0 /\ m \in [0..(NumProcs - 1) -> Nat]
  BY LayoutAssumption DEF Rank
<1>2. \A n \in 0..NumProcs : RunningSum(m, n) \in Nat
  BY <1>1, RunningSumNat
<1>3. \A r \in Rank : LowerRow[r] = RunningSum(m, r) /\ LowerRow[r] \in Nat /\ m[r] \in Nat
                      /\ UpperRow[r] = LowerRow[r] + m[r]
  BY <1>1, <1>2 DEF LowerRow, UpperRow, Rank
<1>4. x \in Nat /\ x < RunningSum(m, NumProcs)
  BY <1>1, <1>2 DEF Row, M
<1>5. PICK i \in Rank : LowerRow[i] <= x /\ x < UpperRow[i]
  <2>1. NumProcs \in 0..NumProcs
    BY <1>1
  <2>2. \E i \in 0..(NumProcs - 1) : /\ i < NumProcs
                                     /\ RunningSum(m, i) <= x
                                     /\ x < RunningSum(m, i) + m[i]
    BY <1>1, <1>4, <2>1, RunningSumCovers
  <2> QED BY <1>3, <2>2 DEF Rank
<1>6. RowRank[x] = CHOOSE r \in Rank : LowerRow[r] <= x /\ x < UpperRow[r]
  BY DEF RowRank
<1>7. RowRank[x] \in Rank /\ LowerRow[RowRank[x]] <= x /\ x < UpperRow[RowRank[x]]
  BY <1>5, <1>6
<1>8. ASSUME NEW r1 \in Rank, NEW r2 \in Rank, r1 < r2 PROVE UpperRow[r1] <= LowerRow[r2]
  <2>1. r2 \in 0..NumProcs /\ r1 \in 0..(NumProcs - 1)
    BY <1>1 DEF Rank
  <2>2. RunningSum(m, r1) + m[r1] <= RunningSum(m, r2)
    BY <1>1, <1>8, <2>1, RunningSumOrdered
  <2> QED BY <1>3, <2>2
<1>9. ASSUME NEW r \in Rank, LowerRow[r] <= x, x < UpperRow[r] PROVE r = RowRank[x]
  <2>1. r \in Nat /\ RowRank[x] \in Nat
    BY <1>7, <1>1 DEF Rank
  <2>2. ~ (r < RowRank[x])
    BY <1>3, <1>4, <1>7, <1>8, <1>9
  <2>3. ~ (RowRank[x] < r)
    BY <1>3, <1>4, <1>7, <1>8, <1>9
  <2> QED BY <2>1, <2>2, <2>3
<1>10. \A r \in Rank : x \in RowsOf[r] <=> LowerRow[r] <= x /\ x < UpperRow[r]
  BY <1>3, <1>4 DEF RowsOf
<1> QED BY <1>7, <1>9, <1>10
-----------------------------------------------------------------------------
(***************************************************************************)
(* The types of the control of a rank, of its buckets and of what it       *)
(* sends.                                                                  *)
(***************************************************************************)
LEMMA RankFacts ==
  /\ NumProcs \in Nat /\ NumProcs > 0
  /\ 0 \in Rank
  /\ \A r \in Rank : r \in Nat /\ r <= NumProcs - 1
  /\ \A r \in Rank : m[r] \in Nat
  /\ Program \in Seq({"Assemble", "ToMPISerial"})
  /\ Len(Program) \in Nat /\ Len(Program) > 0
  /\ \A c \in 1..Len(Program) : Program[c] \in {"Assemble", "ToMPISerial"}
<1>1. Program \in Seq({"Assemble", "ToMPISerial"}) /\ Program # <<>>
  BY LayoutAssumption
<1>2. Len(Program) \in Nat /\ Program \in [1..Len(Program) -> {"Assemble", "ToMPISerial"}]
  BY <1>1, LenProperties
<1>3. Len(Program) # 0
  BY <1>1, EmptySeq
<1>4. NumProcs \in Nat /\ NumProcs > 0
  BY LayoutAssumption
<1>5. 0 \in Rank /\ \A r \in Rank : r \in Nat /\ r <= NumProcs - 1
  BY <1>4 DEF Rank
<1>6. \A r \in Rank : m[r] \in Nat
  BY LayoutAssumption
<1> QED BY <1>1, <1>2, <1>3, <1>4, <1>5, <1>6

\* The counter of a loop that begins again when it has come to its end.
LEMMA Around ==
  ASSUME NEW n \in Nat, n > 0, NEW c \in 0..(n - 1)
  PROVE  (c + 1) % n = IF c = n - 1 THEN 0 ELSE c + 1
<1>1. CASE c = n - 1
  BY <1>1
<1>2. CASE c # n - 1
  <2>1. c + 1 \in Nat /\ 0 <= c + 1 /\ c + 1 < n
    BY <1>2
  <2> QED BY <1>2, <2>1
<1> QED BY <1>1, <1>2

LEMMA NextRank ==
  ASSUME NEW r \in Rank
  PROVE  (r + 1) % NumProcs \in Rank /\ (r + 1) % NumProcs = IF r = NumProcs - 1 THEN 0 ELSE r + 1
<1>1. (r + 1) % NumProcs = IF r = NumProcs - 1 THEN 0 ELSE r + 1
  BY RankFacts, Around DEF Rank
<1> QED BY <1>1, RankFacts DEF Rank

LEMMA NextCall ==
  ASSUME NEW c \in 0..(Len(Program) - 1)
  PROVE  /\ (c + 1) % Len(Program) \in 0..(Len(Program) - 1)
         /\ (c + 1) % Len(Program) = IF c = Len(Program) - 1 THEN 0 ELSE c + 1
<1>1. (c + 1) % Len(Program) = IF c = Len(Program) - 1 THEN 0 ELSE c + 1
  BY RankFacts, Around
<1> QED BY <1>1, RankFacts

\* The rows of a rank are rows of the vector.
LEMMA OwnRows ==
  ASSUME NEW r \in Rank
  PROVE  /\ LowerRow[r] \in Nat /\ UpperRow[r] = LowerRow[r] + m[r]
         /\ RowsOf[r] = LowerRow[r]..(LowerRow[r] + m[r] - 1)
         /\ RowsOf[r] \subseteq Row
<1>1. NumProcs \in Nat /\ m \in [0..(NumProcs - 1) -> Nat]
  BY LayoutAssumption DEF Rank
<1>2. \A n \in 0..NumProcs : RunningSum(m, n) \in Nat
  BY <1>1, RunningSumNat
<1>3. r \in 0..NumProcs /\ r \in 0..(NumProcs - 1) /\ r < NumProcs /\ NumProcs \in 0..NumProcs
  BY RankFacts DEF Rank
<1>4. LowerRow[r] = RunningSum(m, r) /\ LowerRow[r] \in Nat /\ m[r] \in Nat
  BY <1>2, <1>3, RankFacts DEF LowerRow
<1>5. UpperRow[r] = LowerRow[r] + m[r]
  BY DEF UpperRow
<1>6. LowerRow[r] + m[r] <= M /\ M \in Nat
  <2>1. RunningSum(m, r) + m[r] <= RunningSum(m, NumProcs)
    BY <1>1, <1>3, RunningSumOrdered
  <2> QED BY <1>2, <1>3, <1>4, <2>1 DEF M
<1>7. RowsOf[r] = LowerRow[r]..(UpperRow[r] - 1)
  BY DEF RowsOf
<1> QED BY <1>4, <1>5, <1>6, <1>7 DEF Row

ControlType ==
  /\ pc \in [Rank -> PC]
  /\ calls \in [Rank -> 0..(Len(Program) - 1)]
  /\ root \in [Rank -> Rank]

BucketsType == buckets \in [Rank -> [Row -> Seq(Contribution)]] /\ given \in 0..MaxContributions

\* No row has more values than were given in all.
BucketsBound == \A r \in Rank : \A x \in Row : Len(buckets[r][x]) <= given

\* The blocks of the ranks and what the scatters fill are tables.
TransferShape ==
  /\ DOMAIN vector = Rank
  /\ DOMAIN queue = Rank /\ \A r \in Rank : DOMAIN queue[r] = Rank
  /\ DOMAIN numvalues = Rank /\ \A r \in Rank : DOMAIN numvalues[r] = Rank
  /\ DOMAIN fromcpu = Rank /\ \A r \in Rank : DOMAIN fromcpu[r] = Rank

ControlInv == ControlType /\ BucketsType /\ BucketsBound /\ TransferShape

LEMMA GotoFacts ==
  ASSUME ControlType, NEW r \in Rank, NEW from, NEW to \in PC, Goto(r, from, to)
  PROVE  /\ pc[r] = from /\ pc'[r] = to /\ \A q \in Rank : q # r => pc'[q] = pc[q]
         /\ pc' \in [Rank -> PC]
BY DEF ControlType, Goto

LEMMA NextRootFacts ==
  ASSUME ControlType, NEW r \in Rank, NEW here \in PC, NEW next \in PC, NextRoot(r, here, next)
  PROVE  /\ pc[r] = here /\ pc'[r] = IF root[r] = NumProcs - 1 THEN next ELSE here
         /\ root'[r] = IF root[r] = NumProcs - 1 THEN 0 ELSE root[r] + 1
         /\ \A q \in Rank : q # r => pc'[q] = pc[q] /\ root'[q] = root[q]
         /\ pc' \in [Rank -> PC] /\ root' \in [Rank -> Rank]
<1>1. root[r] \in Rank
  BY DEF ControlType
<1>2. (root[r] + 1) % NumProcs \in Rank
      /\ (root[r] + 1) % NumProcs = IF root[r] = NumProcs - 1 THEN 0 ELSE root[r] + 1
  BY <1>1, NextRank
<1>3. /\ pc[r] = here
      /\ root' = [root EXCEPT ![r] = (root[r] + 1) % NumProcs]
      /\ pc' = [pc EXCEPT ![r] = IF root[r] = NumProcs - 1 THEN next ELSE here]
  BY DEF NextRoot
<1> QED BY <1>2, <1>3 DEF ControlType

\* What one rank appends to another one's queue.
LEMMA SentFacts ==
  ASSUME TransferShape, NEW r \in Rank, NEW call, queue' = Sent(call, r)
  PROVE  /\ DOMAIN queue' = Rank /\ \A q \in Rank : DOMAIN queue'[q] = Rank
         /\ \A q \in Rank : q # r => queue'[q][r] = Append(queue[q][r], Message(call, r, q))
         /\ \A q, i \in Rank : q = r \/ i # r => queue'[q][i] = queue[q][i]
BY DEF TransferShape, Sent

LEMMA ControlInit == Init => ControlInv
<1> SUFFICES ASSUME Init PROVE ControlInv
  OBVIOUS
<1> USE RankFacts
<1>1. ControlType
  BY DEF Init, ControlType, PC
<1>2. BucketsType /\ BucketsBound
  <2>1. \A r \in Rank : \A x \in Row : buckets[r][x] = <<>>
    BY DEF Init
  <2>2. buckets \in [Rank -> [Row -> Seq(Contribution)]]
    BY DEF Init
  <2>3. given = 0 /\ 0 \in 0..MaxContributions
    BY LayoutAssumption DEF Init
  <2> QED BY <2>1, <2>2, <2>3 DEF BucketsType, BucketsBound
<1>3. TransferShape
  BY DEF Init, TransferShape
<1> QED BY <1>1, <1>2, <1>3 DEF ControlInv

LEMMA ControlNext == ControlInv /\ [Next]_vars => ControlInv'
<1> SUFFICES ASSUME ControlInv, [Next]_vars PROVE ControlInv'
  OBVIOUS
<1> USE RankFacts DEF ControlInv
<1>1. ASSUME NEW r \in Rank, SetValue(r) PROVE ControlInv'
  <2>1. UNCHANGED <<calls, root, numvalues, fromcpu, queue, vector>> /\ given' = given + 1 /\ given < MaxContributions
    BY <1>1 DEF SetValue, transfer
  <2>2. ControlType'
    BY <1>1, <2>1, GotoFacts DEF SetValue, ControlType, PC
  <2>3. PICK x \in Row, c \in GivenBy(r) : buckets' = [buckets EXCEPT ![r][x] = Append(@, c)]
    BY <1>1 DEF SetValue
  <2>4. c \in Contribution
    BY DEF Contribution
  <2>5. buckets[r][x] \in Seq(Contribution)
    BY DEF BucketsType
  <2>6. Append(buckets[r][x], c) \in Seq(Contribution) /\ Len(Append(buckets[r][x], c)) = Len(buckets[r][x]) + 1
    BY <2>4, <2>5, AppendProperties
  <2>7. BucketsType'
    <3>1. given' \in 0..MaxContributions
      BY <2>1, LayoutAssumption DEF BucketsType
    <3> QED BY <2>3, <2>6, <3>1 DEF BucketsType
  <2>8. BucketsBound'
    <3> SUFFICES ASSUME NEW q \in Rank, NEW y \in Row PROVE Len(buckets'[q][y]) <= given + 1
      BY <2>1 DEF BucketsBound
    <3>1. Len(buckets[q][y]) \in Nat /\ Len(buckets[q][y]) <= given /\ given \in Nat
      BY LenProperties DEF BucketsType, BucketsBound
    <3>2. CASE q = r /\ y = x
      BY <2>3, <2>6, <3>1, <3>2 DEF BucketsType
    <3>3. CASE ~(q = r /\ y = x)
      <4>1. buckets'[q][y] = buckets[q][y]
        BY <2>3, <3>3 DEF BucketsType
      <4> QED BY <3>1, <4>1
    <3> QED BY <3>2, <3>3
  <2>9. TransferShape'
    BY <2>1 DEF TransferShape
  <2> QED BY <2>2, <2>7, <2>8, <2>9
<1>2. ASSUME UNCHANGED <<buckets, given>> PROVE BucketsType' /\ BucketsBound'
  BY <1>2 DEF BucketsType, BucketsBound
<1>3. ASSUME UNCHANGED <<queue, numvalues, fromcpu, vector>> PROVE TransferShape'
  BY <1>3 DEF TransferShape
<1>4. ASSUME NEW r \in Rank, Call(r) PROVE ControlInv'
  <2>1. UNCHANGED <<given, buckets, root, numvalues, fromcpu, queue, vector>>
    BY <1>4 DEF Call, transfer
  <2>2. calls[r] \in 0..(Len(Program) - 1)
    BY DEF ControlType
  <2>3. Called(r) \in PC
    BY <2>2 DEF Called, PC
  <2>4. pc' \in [Rank -> PC]
    BY <1>4, <2>3, GotoFacts DEF Call
  <2>5. calls' \in [Rank -> 0..(Len(Program) - 1)]
    BY <1>4, <2>2, NextCall DEF Call, ControlType
  <2> QED BY <1>2, <1>3, <2>1, <2>4, <2>5 DEF ControlType
<1>5. ASSUME NEW r \in Rank, ScatterCounts(r) PROVE ControlInv'
  <2>1. UNCHANGED <<calls, given, buckets, fromcpu, vector>>
    BY <1>5 DEF ScatterCounts
  <2>2. ControlType'
    BY <1>5, <2>1, NextRootFacts DEF ScatterCounts, ControlType, PC
  <2>3. TransferShape'
    <3>1. CASE queue' = Sent("Scatter", r)
              /\ numvalues' = [numvalues EXCEPT ![r][r] = Message("Scatter", r, r).size]
      BY <2>1, <3>1, SentFacts DEF TransferShape
    <3>2. CASE queue' = [queue EXCEPT ![r][root[r]] = Tail(@)]
              /\ numvalues' = [numvalues EXCEPT ![r][root[r]] = Head(queue[r][root[r]]).size]
      BY <2>1, <3>2 DEF TransferShape
    <3> QED BY <1>5, <3>1, <3>2 DEF ScatterCounts
  <2> QED BY <1>2, <2>1, <2>2, <2>3
<1>6. ASSUME NEW r \in Rank, ScatterValues(r) PROVE ControlInv'
  <2>1. UNCHANGED <<calls, given, buckets, numvalues, vector>>
    BY <1>6 DEF ScatterValues
  <2>2. ControlType'
    BY <1>6, <2>1, NextRootFacts DEF ScatterValues, ControlType, PC
  <2>3. TransferShape'
    <3>1. CASE queue' = Sent("Scatterv", r) /\ fromcpu' = [fromcpu EXCEPT ![r][r] = BucketsForCpu(r, r)]
      BY <2>1, <3>1, SentFacts DEF TransferShape
    <3>2. CASE queue' = [queue EXCEPT ![r][root[r]] = Tail(@)]
              /\ fromcpu' = [fromcpu EXCEPT ![r][root[r]] = Head(queue[r][root[r]]).buckets]
      BY <2>1, <3>2 DEF TransferShape
    <3> QED BY <1>6, <3>1, <3>2 DEF ScatterValues, Expects
  <2> QED BY <1>2, <2>1, <2>2, <2>3
<1>7. ASSUME NEW r \in Rank, Plug(r) PROVE ControlInv'
  <2>1. UNCHANGED <<calls, given, root, queue>>
    BY <1>7 DEF Plug
  <2>2. ControlType'
    BY <1>7, <2>1, GotoFacts DEF Plug, ControlType, PC
  <2>3. buckets' = [buckets EXCEPT ![r] = [x \in Row |-> <<>>]]
    BY <1>7 DEF Plug
  <2>4. BucketsType'
    BY <2>1, <2>3 DEF BucketsType
  <2>5. BucketsBound'
    <3> SUFFICES ASSUME NEW q \in Rank, NEW y \in Row PROVE Len(buckets'[q][y]) <= given
      BY <2>1 DEF BucketsBound
    <3>1. Len(buckets[q][y]) <= given /\ given \in Nat
      BY DEF BucketsType, BucketsBound
    <3>2. q = r => buckets'[q][y] = <<>>
      BY <2>3 DEF BucketsType
    <3>3. q # r => buckets'[q][y] = buckets[q][y]
      BY <2>3 DEF BucketsType
    <3> QED BY <3>1, <3>2, <3>3
  <2>6. TransferShape'
    BY <1>7, <2>1 DEF Plug, TransferShape
  <2> QED BY <2>2, <2>4, <2>5, <2>6
<1>8. ASSUME DetermineRowRank PROVE ControlInv'
  <2>1. UNCHANGED <<calls, given, buckets, numvalues, fromcpu, queue, vector>>
    BY <1>8 DEF DetermineRowRank
  <2>2. ControlType'
    BY <1>8, <2>1 DEF DetermineRowRank, Collective, ControlType, PC
  <2> QED BY <1>2, <1>3, <2>1, <2>2
<1>9. ASSUME GetOwnershipBoundaries PROVE ControlInv'
  <2>1. UNCHANGED <<calls, given, buckets, root, numvalues, fromcpu, queue, vector>>
    BY <1>9 DEF GetOwnershipBoundaries, transfer
  <2>2. ControlType'
    BY <1>9, <2>1 DEF GetOwnershipBoundaries, Collective, ControlType, PC
  <2> QED BY <1>2, <1>3, <2>1, <2>2
<1>10. ASSUME ToMPISerial PROVE ControlInv'
  <2>1. UNCHANGED <<calls, given, buckets, root, numvalues, fromcpu, queue, vector>>
    BY <1>10 DEF ToMPISerial, transfer
  <2>2. ControlType'
    BY <1>10, <2>1 DEF ToMPISerial, Collective, ControlType, PC
  <2> QED BY <1>2, <1>3, <2>1, <2>2
<1>11. ASSUME UNCHANGED vars PROVE ControlInv'
  BY <1>2, <1>3, <1>11 DEF vars, ControlType
<1> QED BY <1>1, <1>4, <1>5, <1>6, <1>7, <1>8, <1>9, <1>10, <1>11
        DEF Next, CollectiveStep, LocalStep

-----------------------------------------------------------------------------
(***************************************************************************)
(* The ranks are in the same call.  Between two collectives a rank has     *)
(* made the next call of the program or not yet; while one rank is in the  *)
(* scatters of an Assemble, all of them are.                               *)
(***************************************************************************)
Calling    == {"Assemble", "ToMPISerial"}
Scattering == {"counts", "values", "bounds"}

\* The call before the one that the program is at.
Before(c) == IF c = 0 THEN Len(Program) - 1 ELSE c - 1

\* The call that the rank has not come back from, or makes next.
Turn(r) == IF pc[r] \in Calling THEN Before(calls[r]) ELSE calls[r]

StagesInv ==
  \A r, q \in Rank :
    /\ pc[r] \in Scattering => pc[q] \in Scattering
    /\ Turn(r) = Turn(q)
    /\ pc[r] \in Calling => pc[r] = Program[Turn(r) + 1]

LEMMA StagesApart ==
  /\ \A p \in Scattering : p \notin Calling \cup {"fill", "plug"}
  /\ \A p \in Calling : p \notin Scattering \cup {"fill", "plug"}
  /\ {"counts", "values", "bounds"} \subseteq Scattering
  /\ {"Assemble", "ToMPISerial"} \subseteq Calling
  /\ "fill" \notin Calling \cup Scattering /\ "plug" \notin Calling \cup Scattering
BY DEF Scattering, Calling

LEMMA StagesInit == Init => StagesInv
<1> SUFFICES ASSUME Init PROVE StagesInv
  OBVIOUS
<1>1. \A r \in Rank : pc[r] = "fill" /\ calls[r] = 0
  BY DEF Init
<1> QED BY <1>1, StagesApart DEF StagesInv, Turn

\* A step that leaves every rank in its call, and in the scatters or out of them.
LEMMA StagesKept ==
  ASSUME StagesInv, calls' = calls,
         \A q \in Rank : /\ pc'[q] \in Scattering <=> pc[q] \in Scattering
                         /\ pc'[q] = pc[q] \/ (pc'[q] \notin Calling /\ pc[q] \notin Calling)
  PROVE  StagesInv'
<1>1. \A q \in Rank : Turn(q)' = Turn(q)
  BY DEF Turn
<1>2. \A q \in Rank : pc'[q] \in Calling => pc'[q] = pc[q]
  OBVIOUS
<1> QED BY <1>1, <1>2 DEF StagesInv

LEMMA StagesKeptByCall ==
  ASSUME ControlInv, StagesInv, NEW r \in Rank, Call(r)
  PROVE  StagesInv'
<1>1. calls[r] \in 0..(Len(Program) - 1)
  BY DEF ControlInv, ControlType
<1>2. Called(r) \in Calling /\ Called(r) \in PC
  BY <1>1, RankFacts DEF Called, Calling, PC
<1>3. pc[r] = "fill" /\ pc'[r] = Called(r) /\ \A q \in Rank : q # r => pc'[q] = pc[q]
  BY <1>2, GotoFacts DEF Call, ControlInv
<1>4. /\ calls'[r] = IF calls[r] = Len(Program) - 1 THEN 0 ELSE calls[r] + 1
      /\ \A q \in Rank : q # r => calls'[q] = calls[q]
  BY <1>1, NextCall DEF Call, ControlInv, ControlType
<1>5. Before(calls'[r]) = calls[r]
  BY <1>1, <1>4, RankFacts DEF Before
<1>6. \A q \in Rank : Turn(q)' = Turn(q)
  <2> SUFFICES ASSUME NEW q \in Rank PROVE Turn(q)' = Turn(q)
    OBVIOUS
  <2>1. CASE q = r
    BY <1>2, <1>3, <1>5, <2>1, StagesApart DEF Turn, Before
  <2>2. CASE q # r
    BY <1>3, <1>4, <2>2 DEF Turn, Before
  <2> QED BY <2>1, <2>2
<1>7. Turn(r) = calls[r]
  BY <1>3, StagesApart DEF Turn
<1>8. \A q \in Rank : pc[q] \notin Scattering /\ pc'[q] \notin Scattering
  BY <1>2, <1>3, StagesApart DEF StagesInv
<1>9. pc'[r] = Program[Turn(r) + 1]
  BY <1>3, <1>7 DEF Called
<1>10. \A q \in Rank : pc'[q] \in Calling => pc'[q] = Program[Turn(q) + 1]
  BY <1>3, <1>9 DEF StagesInv
<1> QED BY <1>6, <1>8, <1>10 DEF StagesInv

\* All the ranks leave a call together, one way or another.
LEMMA StagesKeptByCollective ==
  ASSUME ControlInv, StagesInv, NEW wait \in Calling \cup Scattering, NEW to, to \notin Calling, calls' = calls,
         Collective(wait, to)
  PROVE  StagesInv'
<1>1. \A q \in Rank : pc[q] = wait /\ pc'[q] = to
  BY DEF Collective
<1>2. \A q \in Rank : Turn(q)' = calls[q]
  BY <1>1 DEF Turn
<1>3. \A r, q \in Rank : calls[r] = calls[q]
  <2> SUFFICES ASSUME NEW r \in Rank, NEW q \in Rank, calls[r] # calls[q] PROVE FALSE
    OBVIOUS
  <2>1. Turn(r) = Turn(q)
    BY DEF StagesInv
  <2>2. calls[r] \in 0..(Len(Program) - 1) /\ calls[q] \in 0..(Len(Program) - 1)
    BY DEF ControlInv, ControlType
  <2>3. Before(calls[r]) = Before(calls[q])
    BY <1>1, <2>1 DEF Turn
  <2> QED BY <2>2, <2>3, RankFacts DEF Before
<1> QED BY <1>1, <1>2, <1>3 DEF StagesInv


LEMMA StagesNext == ControlInv /\ StagesInv /\ [Next]_vars => StagesInv'
<1> SUFFICES ASSUME ControlInv, StagesInv, [Next]_vars PROVE StagesInv'
  OBVIOUS
<1> USE StagesApart DEF ControlInv
<1>1. ASSUME NEW r \in Rank, SetValue(r) PROVE StagesInv'
  <2>1. pc[r] = "fill" /\ pc'[r] = "fill" /\ \A q \in Rank : q # r => pc'[q] = pc[q]
    BY <1>1, GotoFacts DEF SetValue, PC
  <2>2. \A q \in Rank : pc'[q] = pc[q]
    BY <2>1
  <2> QED BY <1>1, <2>2, StagesKept DEF SetValue
<1>2. ASSUME NEW r \in Rank, Plug(r) PROVE StagesInv'
  <2>1. pc[r] = "plug" /\ pc'[r] = "fill" /\ \A q \in Rank : q # r => pc'[q] = pc[q]
    BY <1>2, GotoFacts DEF Plug, PC
  <2>2. \A q \in Rank : pc'[q] = pc[q] \/ (pc[q] = "plug" /\ pc'[q] = "fill")
    BY <2>1
  <2> QED BY <1>2, <2>2, StagesKept DEF Plug
<1>3. ASSUME NEW r \in Rank, ScatterCounts(r) \/ ScatterValues(r) PROVE StagesInv'
  <2>1. pc[r] \in Scattering /\ pc'[r] \in Scattering /\ \A q \in Rank : q # r => pc'[q] = pc[q]
    <3>1. CASE ScatterCounts(r)
      BY <3>1, NextRootFacts DEF ScatterCounts, PC
    <3>2. CASE ScatterValues(r)
      BY <3>2, NextRootFacts DEF ScatterValues, PC
    <3> QED BY <1>3, <3>1, <3>2
  <2>2. \A q \in Rank : pc'[q] = pc[q] \/ (pc[q] \in Scattering /\ pc'[q] \in Scattering)
    BY <2>1
  <2> QED BY <1>3, <2>2, StagesKept DEF ScatterCounts, ScatterValues
<1>4. ASSUME DetermineRowRank PROVE StagesInv'
  BY <1>4, StagesKeptByCollective DEF DetermineRowRank
<1>5. ASSUME GetOwnershipBoundaries PROVE StagesInv'
  BY <1>5, StagesKeptByCollective DEF GetOwnershipBoundaries
<1>6. ASSUME ToMPISerial PROVE StagesInv'
  BY <1>6, StagesKeptByCollective DEF ToMPISerial
<1>7. ASSUME UNCHANGED vars PROVE StagesInv'
  BY <1>7, StagesKept DEF vars
<1> QED BY <1>1, <1>2, <1>3, <1>4, <1>5, <1>6, <1>7, StagesKeptByCall DEF Next, CollectiveStep, LocalStep

-----------------------------------------------------------------------------
(***************************************************************************)
(* The queues.  The two messages that a root has sent to a rank and that   *)
(* the rank has not taken are in its queue in this order, and hold the     *)
(* buckets of the root as they are now, since no rank changes them while   *)
(* it is in the scatters.                                                  *)
(***************************************************************************)
\* Rank r has passed the scatter of the sizes of rank i, and the one of its values.
HasCount(r, i)  == pc[r] \in {"values", "bounds"} \/ (pc[r] = "counts" /\ i < root[r])
HasValues(r, i) == pc[r] = "bounds" \/ (pc[r] = "values" /\ i < root[r])

InTurn(r, i) ==
  /\ HasCount(r, i) => HasCount(i, i) /\ numvalues[r][i] = MarshallSize(BucketsForCpu(i, r), r)
  /\ HasValues(r, i) => HasValues(i, i) /\ fromcpu[r][i] = BucketsForCpu(i, r)

Queued(r, i) ==
  /\ r = i \/ ~HasCount(i, i) \/ HasValues(r, i) \/ (HasCount(r, i) /\ ~HasValues(i, i)) =>
       queue[r][i] = <<>>
  /\ r # i /\ HasCount(i, i) /\ ~HasCount(r, i) /\ ~HasValues(i, i) =>
       queue[r][i] = <<Message("Scatter", i, r)>>
  /\ r # i /\ HasValues(i, i) /\ ~HasCount(r, i) =>
       queue[r][i] = <<Message("Scatter", i, r), Message("Scatterv", i, r)>>
  /\ r # i /\ HasValues(i, i) /\ HasCount(r, i) /\ ~HasValues(r, i) =>
       queue[r][i] = <<Message("Scatterv", i, r)>>

QueuesInv ==
  \A r, i \in Rank :
    IF pc[r] \in Scattering THEN InTurn(r, i) /\ Queued(r, i) ELSE queue[r][i] = <<>>

\* A rank that has the values of another one has had their number before.
LEMMA CountsFirst ==
  ASSUME NEW r \in Rank, NEW i \in Rank
  PROVE  HasValues(r, i) => HasCount(r, i)
BY DEF HasValues, HasCount

\* A rank that goes on to the next root has passed the scatter of this one.
LEMMA PassedByCounts ==
  ASSUME ControlType, NEW r \in Rank, NextRoot(r, "counts", "values")
  PROVE  /\ \A i \in Rank : HasCount(r, i)' <=> (HasCount(r, i) \/ i = root[r])
         /\ \A i \in Rank : ~HasValues(r, i) /\ ~HasValues(r, i)'
         /\ ~HasCount(r, root[r])
         /\ \A q \in Rank \ {r} : \A i \in Rank : /\ HasCount(q, i)' <=> HasCount(q, i)
                                                  /\ HasValues(q, i)' <=> HasValues(q, i)
<1>1. /\ pc[r] = "counts" /\ pc'[r] = IF root[r] = NumProcs - 1 THEN "values" ELSE "counts"
      /\ root'[r] = IF root[r] = NumProcs - 1 THEN 0 ELSE root[r] + 1
      /\ \A q \in Rank : q # r => pc'[q] = pc[q] /\ root'[q] = root[q]
  BY NextRootFacts DEF PC
<1>2. root[r] \in Nat /\ \A i \in Rank : i \in Nat /\ i <= NumProcs - 1 /\ NumProcs \in Nat
  BY RankFacts DEF ControlType
<1>3. \A i \in Rank : HasCount(r, i)' <=> (HasCount(r, i) \/ i = root[r])
  BY <1>1, <1>2 DEF HasCount
<1>4. \A i \in Rank : ~HasValues(r, i) /\ ~HasValues(r, i)'
  BY <1>1, <1>2 DEF HasValues
<1>5. ~HasCount(r, root[r])
  BY <1>1, <1>2 DEF HasCount
<1>6. \A q \in Rank \ {r} : \A i \in Rank : /\ HasCount(q, i)' <=> HasCount(q, i)
                                            /\ HasValues(q, i)' <=> HasValues(q, i)
  BY <1>1 DEF HasCount, HasValues
<1> QED BY <1>3, <1>4, <1>5, <1>6

LEMMA PassedByValues ==
  ASSUME ControlType, NEW r \in Rank, NextRoot(r, "values", "bounds")
  PROVE  /\ \A i \in Rank : HasValues(r, i)' <=> (HasValues(r, i) \/ i = root[r])
         /\ \A i \in Rank : HasCount(r, i) /\ HasCount(r, i)'
         /\ ~HasValues(r, root[r])
         /\ \A q \in Rank \ {r} : \A i \in Rank : /\ HasCount(q, i)' <=> HasCount(q, i)
                                                  /\ HasValues(q, i)' <=> HasValues(q, i)
<1>1. /\ pc[r] = "values" /\ pc'[r] = IF root[r] = NumProcs - 1 THEN "bounds" ELSE "values"
      /\ root'[r] = IF root[r] = NumProcs - 1 THEN 0 ELSE root[r] + 1
      /\ \A q \in Rank : q # r => pc'[q] = pc[q] /\ root'[q] = root[q]
  BY NextRootFacts DEF PC
<1>2. root[r] \in Nat /\ \A i \in Rank : i \in Nat /\ i <= NumProcs - 1 /\ NumProcs \in Nat
  BY RankFacts DEF ControlType
<1>3. \A i \in Rank : HasValues(r, i)' <=> (HasValues(r, i) \/ i = root[r])
  BY <1>1, <1>2 DEF HasValues
<1>4. \A i \in Rank : HasCount(r, i) /\ HasCount(r, i)'
  BY <1>1, <1>2 DEF HasCount
<1>5. ~HasValues(r, root[r])
  BY <1>1, <1>2 DEF HasValues
<1>6. \A q \in Rank \ {r} : \A i \in Rank : /\ HasCount(q, i)' <=> HasCount(q, i)
                                            /\ HasValues(q, i)' <=> HasValues(q, i)
  BY <1>1 DEF HasCount, HasValues
<1> QED BY <1>3, <1>4, <1>5, <1>6

\* What a rank sends does not depend on anything but its buckets.
LEMMA SameMessages ==
  ASSUME buckets' = buckets
  PROVE  \A i, q \in Rank : /\ BucketsForCpu(i, q)' = BucketsForCpu(i, q)
                            /\ MarshallSize(BucketsForCpu(i, q), q)' = MarshallSize(BucketsForCpu(i, q), q)
                            /\ Message("Scatter", i, q)' = Message("Scatter", i, q)
                            /\ Message("Scatterv", i, q)' = Message("Scatterv", i, q)
<1>1. \A i, q \in Rank : BucketsForCpu(i, q)' = BucketsForCpu(i, q)
  BY DEF BucketsForCpu
<1>2. \A i, q \in Rank : MarshallSize(BucketsForCpu(i, q), q)' = MarshallSize(BucketsForCpu(i, q), q)
  BY <1>1 DEF MarshallSize
<1> QED BY <1>1, <1>2 DEF Message

\* A pair of ranks that a step does not concern.
LEMMA PairKept ==
  ASSUME NEW q \in Rank, NEW i \in Rank, InTurn(q, i), Queued(q, i), buckets' = buckets,
         HasCount(q, i)' <=> HasCount(q, i), HasCount(i, i)' <=> HasCount(i, i),
         HasValues(q, i)' <=> HasValues(q, i), HasValues(i, i)' <=> HasValues(i, i),
         queue'[q][i] = queue[q][i], numvalues'[q][i] = numvalues[q][i], fromcpu'[q][i] = fromcpu[q][i]
  PROVE  InTurn(q, i)' /\ Queued(q, i)'
<1>1. InTurn(q, i)'
  BY SameMessages DEF InTurn
<1>2. Queued(q, i)'
  BY SameMessages DEF Queued
<1> QED BY <1>1, <1>2

\* All the ranks are in the scatters before and after a step of one of them.
LEMMA InScatters ==
  ASSUME StagesInv, NEW r \in Rank, pc[r] \in Scattering, pc'[r] \in Scattering,
         \A q \in Rank : q # r => pc'[q] = pc[q]
  PROVE  \A q \in Rank : pc[q] \in Scattering /\ pc'[q] \in Scattering
BY DEF StagesInv

LEMMA QueuesKeptByScatterCounts ==
  ASSUME ControlInv, StagesInv, QueuesInv, NEW r \in Rank, ScatterCounts(r)
  PROVE  QueuesInv'
<1>0. PICK p \in Rank : p = root[r]
  BY DEF ControlInv, ControlType
<1>1. NextRoot(r, "counts", "values") /\ buckets' = buckets /\ fromcpu' = fromcpu
  BY DEF ScatterCounts
<1>2. /\ \A i \in Rank : HasCount(r, i)' <=> (HasCount(r, i) \/ i = p)
      /\ \A i \in Rank : ~HasValues(r, i) /\ ~HasValues(r, i)'
      /\ ~HasCount(r, p)
      /\ \A q \in Rank \ {r} : \A i \in Rank : /\ HasCount(q, i)' <=> HasCount(q, i)
                                               /\ HasValues(q, i)' <=> HasValues(q, i)
  BY <1>0, <1>1, PassedByCounts DEF ControlInv
<1>3. \A q \in Rank : pc[q] \in Scattering /\ pc'[q] \in Scattering
  <2>1. pc[r] = "counts" /\ pc'[r] \in {"counts", "values"} /\ \A q \in Rank : q # r => pc'[q] = pc[q]
    BY <1>1, NextRootFacts DEF ControlInv, PC
  <2> QED BY <2>1, InScatters, StagesApart
<1>4. \A q, i \in Rank : InTurn(q, i) /\ Queued(q, i)
  BY <1>3 DEF QueuesInv
<1> SUFFICES ASSUME NEW q \in Rank, NEW i \in Rank PROVE InTurn(q, i)' /\ Queued(q, i)'
  BY <1>3 DEF QueuesInv
<1>5. CASE p = r
  <2>1. /\ queue' = Sent("Scatter", r)
        /\ numvalues' = [numvalues EXCEPT ![r][r] = Message("Scatter", r, r).size]
    BY <1>0, <1>5 DEF ScatterCounts
  <2>2. /\ \A a \in Rank : a # r => queue'[a][r] = Append(queue[a][r], Message("Scatter", r, a))
        /\ \A a, b \in Rank : a = r \/ b # r => queue'[a][b] = queue[a][b]
    BY <2>1, SentFacts DEF ControlInv
  <2>3. /\ numvalues'[r][r] = MarshallSize(BucketsForCpu(r, r), r)
        /\ \A a, b \in Rank : ~(a = r /\ b = r) => numvalues'[a][b] = numvalues[a][b]
    BY <2>1 DEF Message, ControlInv, TransferShape
  <2>4. CASE i # r
    BY <1>1, <1>2, <1>4, <1>5, <2>2, <2>3, <2>4, PairKept
  <2>5. CASE i = r /\ q = r
    <3>1. InTurn(r, r)'
      BY <1>1, <1>2, <1>5, <2>3, SameMessages DEF InTurn
    <3>2. queue'[r][r] = <<>>
      BY <1>4, <2>2 DEF Queued
    <3> QED BY <2>5, <3>1, <3>2 DEF Queued
  <2>6. CASE i = r /\ q # r
    <3>1. ~HasCount(q, r) /\ ~HasCount(q, r)' /\ ~HasValues(q, r) /\ ~HasValues(q, r)'
      BY <1>2, <1>4, <1>5, <2>6, CountsFirst DEF InTurn
    <3>2. queue[q][r] = <<>>
      BY <1>2, <1>4, <1>5 DEF Queued
    <3>3. queue'[q][r] = <<Message("Scatter", r, q)>>
      BY <2>2, <2>6, <3>2
    <3>4. HasCount(r, r)' /\ ~HasValues(r, r)'
      BY <1>2, <1>5
    <3>5. InTurn(q, r)'
      BY <3>1 DEF InTurn
    <3>6. Queued(q, r)'
      BY <1>1, <2>6, <3>1, <3>3, <3>4, SameMessages DEF Queued
    <3> QED BY <2>6, <3>5, <3>6
  <2> QED BY <2>4, <2>5, <2>6
<1>6. CASE p # r
  <2>1. /\ queue[r][p] # <<>>
        /\ queue' = [queue EXCEPT ![r][p] = Tail(queue[r][p])]
        /\ numvalues' = [numvalues EXCEPT ![r][p] = Head(queue[r][p]).size]
    BY <1>0, <1>6 DEF ScatterCounts
  <2>2. /\ queue'[r][p] = Tail(queue[r][p]) /\ numvalues'[r][p] = Head(queue[r][p]).size
        /\ \A a, b \in Rank : ~(a = r /\ b = p) =>
             queue'[a][b] = queue[a][b] /\ numvalues'[a][b] = numvalues[a][b]
    BY <1>0, <2>1 DEF ControlInv, TransferShape
  <2>3. CASE ~(q = r /\ i = p)
    <3>1. HasCount(q, i)' <=> HasCount(q, i)
      BY <1>2, <2>3
    <3>2. HasCount(i, i)' <=> HasCount(i, i)
      BY <1>2, <1>6
    <3>3. (HasValues(q, i)' <=> HasValues(q, i)) /\ (HasValues(i, i)' <=> HasValues(i, i))
      BY <1>2
    <3> QED BY <1>1, <1>4, <2>2, <2>3, <3>1, <3>2, <3>3, PairKept
  <2>4. CASE q = r /\ i = p
    <3>1. HasCount(p, p) /\ (HasCount(p, p)' <=> HasCount(p, p)) /\ (HasValues(p, p)' <=> HasValues(p, p))
      BY <1>0, <1>2, <1>4, <1>6, <2>1 DEF Queued
    <3>2. ~HasCount(r, p) /\ HasCount(r, p)' /\ ~HasValues(r, p)'
      BY <1>0, <1>2
    <3>3. CASE HasValues(p, p)
      <4>1. queue[r][p] = <<Message("Scatter", p, r), Message("Scatterv", p, r)>>
        BY <1>0, <1>4, <1>6, <3>1, <3>2, <3>3 DEF Queued
      <4>2. /\ queue'[r][p] = <<Message("Scatterv", p, r)>>
            /\ numvalues'[r][p] = Message("Scatter", p, r).size
        BY <2>2, <4>1
      <4>3. numvalues'[r][p] = MarshallSize(BucketsForCpu(p, r), r)
        BY <4>2 DEF Message
      <4>4. InTurn(r, p)'
        BY <1>0, <1>1, <3>1, <3>2, <4>3, SameMessages DEF InTurn
      <4>5. Queued(r, p)'
        BY <1>0, <1>1, <1>6, <3>1, <3>2, <3>3, <4>2, SameMessages DEF Queued
      <4> QED BY <2>4, <4>4, <4>5
    <3>4. CASE ~HasValues(p, p)
      <4>1. queue[r][p] = <<Message("Scatter", p, r)>>
        BY <1>0, <1>4, <1>6, <3>1, <3>2, <3>4 DEF Queued
      <4>2. queue'[r][p] = <<>> /\ numvalues'[r][p] = Message("Scatter", p, r).size
        BY <2>2, <4>1
      <4>3. numvalues'[r][p] = MarshallSize(BucketsForCpu(p, r), r)
        BY <4>2 DEF Message
      <4>4. InTurn(r, p)'
        BY <1>0, <1>1, <3>1, <3>2, <4>3, SameMessages DEF InTurn
      <4>5. Queued(r, p)'
        BY <1>0, <1>1, <1>6, <3>1, <3>2, <3>4, <4>2, SameMessages DEF Queued
      <4> QED BY <2>4, <4>4, <4>5
    <3> QED BY <3>3, <3>4
  <2> QED BY <2>3, <2>4
<1> QED BY <1>5, <1>6

LEMMA QueuesKeptByScatterValues ==
  ASSUME ControlInv, StagesInv, QueuesInv, NEW r \in Rank, ScatterValues(r)
  PROVE  QueuesInv'
<1>0. PICK p \in Rank : p = root[r]
  BY DEF ControlInv, ControlType
<1>1. NextRoot(r, "values", "bounds") /\ buckets' = buckets /\ numvalues' = numvalues
  BY DEF ScatterValues
<1>2. /\ \A i \in Rank : HasValues(r, i)' <=> (HasValues(r, i) \/ i = p)
      /\ \A i \in Rank : HasCount(r, i) /\ HasCount(r, i)'
      /\ ~HasValues(r, p)
      /\ \A q \in Rank \ {r} : \A i \in Rank : /\ HasCount(q, i)' <=> HasCount(q, i)
                                               /\ HasValues(q, i)' <=> HasValues(q, i)
  BY <1>0, <1>1, PassedByValues DEF ControlInv
<1>3. \A q \in Rank : pc[q] \in Scattering /\ pc'[q] \in Scattering
  <2>1. pc[r] = "values" /\ pc'[r] \in {"values", "bounds"} /\ \A q \in Rank : q # r => pc'[q] = pc[q]
    BY <1>1, NextRootFacts DEF ControlInv, PC
  <2> QED BY <2>1, InScatters, StagesApart
<1>4. \A q, i \in Rank : InTurn(q, i) /\ Queued(q, i)
  BY <1>3 DEF QueuesInv
<1> SUFFICES ASSUME NEW q \in Rank, NEW i \in Rank PROVE InTurn(q, i)' /\ Queued(q, i)'
  BY <1>3 DEF QueuesInv
<1>5. CASE p = r
  <2>1. queue' = Sent("Scatterv", r) /\ fromcpu' = [fromcpu EXCEPT ![r][r] = BucketsForCpu(r, r)]
    BY <1>0, <1>5 DEF ScatterValues
  <2>2. /\ \A a \in Rank : a # r => queue'[a][r] = Append(queue[a][r], Message("Scatterv", r, a))
        /\ \A a, b \in Rank : a = r \/ b # r => queue'[a][b] = queue[a][b]
    BY <2>1, SentFacts DEF ControlInv
  <2>3. /\ fromcpu'[r][r] = BucketsForCpu(r, r)
        /\ \A a, b \in Rank : ~(a = r /\ b = r) => fromcpu'[a][b] = fromcpu[a][b]
    BY <2>1 DEF ControlInv, TransferShape
  <2>4. CASE i # r
    BY <1>1, <1>2, <1>4, <1>5, <2>2, <2>3, <2>4, PairKept
  <2>5. CASE i = r /\ q = r
    <3>1. InTurn(r, r)'
      BY <1>1, <1>2, <1>4, <1>5, <2>3, SameMessages DEF InTurn
    <3>2. queue'[r][r] = <<>>
      BY <1>4, <2>2 DEF Queued
    <3> QED BY <2>5, <3>1, <3>2 DEF Queued
  <2>6. CASE i = r /\ q # r
    <3>1. ~HasValues(q, r) /\ ~HasValues(q, r)' /\ HasCount(r, r) /\ ~HasValues(r, r)
      BY <1>2, <1>4, <1>5, <2>6 DEF InTurn
    <3>2. HasCount(r, r)' /\ HasValues(r, r)' /\ (HasCount(q, r)' <=> HasCount(q, r))
      BY <1>2, <1>5, <2>6
    <3>3. InTurn(q, r)'
      BY <1>1, <1>4, <3>1, <3>2, SameMessages DEF InTurn
    <3>4. CASE HasCount(q, r)
      <4>1. queue[q][r] = <<>>
        BY <1>4, <3>1, <3>4 DEF Queued
      <4>2. queue'[q][r] = <<Message("Scatterv", r, q)>>
        BY <2>2, <2>6, <4>1
      <4>3. Queued(q, r)'
        BY <1>1, <2>6, <3>1, <3>2, <3>4, <4>2, SameMessages DEF Queued
      <4> QED BY <2>6, <3>3, <4>3
    <3>5. CASE ~HasCount(q, r)
      <4>1. queue[q][r] = <<Message("Scatter", r, q)>>
        BY <1>4, <2>6, <3>1, <3>5 DEF Queued
      <4>2. queue'[q][r] = <<Message("Scatter", r, q), Message("Scatterv", r, q)>>
        BY <2>2, <2>6, <4>1
      <4>3. Queued(q, r)'
        BY <1>1, <2>6, <3>1, <3>2, <3>5, <4>2, SameMessages DEF Queued
      <4> QED BY <2>6, <3>3, <4>3
    <3> QED BY <3>4, <3>5
  <2> QED BY <2>4, <2>5, <2>6
<1>6. CASE p # r
  <2>1. /\ queue[r][p] # <<>>
        /\ queue' = [queue EXCEPT ![r][p] = Tail(queue[r][p])]
        /\ fromcpu' = [fromcpu EXCEPT ![r][p] = Head(queue[r][p]).buckets]
    BY <1>0, <1>6 DEF ScatterValues, Expects
  <2>2. /\ queue'[r][p] = Tail(queue[r][p]) /\ fromcpu'[r][p] = Head(queue[r][p]).buckets
        /\ \A a, b \in Rank : ~(a = r /\ b = p) =>
             queue'[a][b] = queue[a][b] /\ fromcpu'[a][b] = fromcpu[a][b]
    BY <1>0, <2>1 DEF ControlInv, TransferShape
  <2>3. CASE ~(q = r /\ i = p)
    <3>1. HasValues(q, i)' <=> HasValues(q, i)
      BY <1>2, <2>3
    <3>2. HasValues(i, i)' <=> HasValues(i, i)
      BY <1>2, <1>6
    <3>3. (HasCount(q, i)' <=> HasCount(q, i)) /\ (HasCount(i, i)' <=> HasCount(i, i))
      BY <1>2
    <3> QED BY <1>1, <1>4, <2>2, <2>3, <3>1, <3>2, <3>3, PairKept
  <2>4. CASE q = r /\ i = p
    <3>1. HasCount(r, p) /\ HasCount(r, p)' /\ ~HasValues(r, p) /\ HasValues(r, p)'
      BY <1>0, <1>2
    <3>2. HasValues(p, p) /\ (HasCount(p, p)' <=> HasCount(p, p)) /\ (HasValues(p, p)' <=> HasValues(p, p))
      BY <1>0, <1>2, <1>4, <1>6, <2>1, <3>1 DEF Queued
    <3>3. queue[r][p] = <<Message("Scatterv", p, r)>>
      BY <1>0, <1>4, <1>6, <3>1, <3>2 DEF Queued
    <3>4. queue'[r][p] = <<>> /\ fromcpu'[r][p] = Message("Scatterv", p, r).buckets
      BY <2>2, <3>3
    <3>5. fromcpu'[r][p] = BucketsForCpu(p, r)
      BY <3>4 DEF Message
    <3>6. InTurn(r, p)'
      BY <1>0, <1>1, <1>4, <3>1, <3>2, <3>5, SameMessages DEF InTurn
    <3>7. Queued(r, p)'
      BY <1>0, <3>1, <3>4 DEF Queued
    <3> QED BY <2>4, <3>6, <3>7
  <2> QED BY <2>3, <2>4
<1> QED BY <1>5, <1>6

LEMMA QueuesInit == Init => QueuesInv
<1> SUFFICES ASSUME Init PROVE QueuesInv
  OBVIOUS
<1>1. \A r \in Rank : pc[r] = "fill" /\ \A i \in Rank : queue[r][i] = <<>>
  BY DEF Init
<1> QED BY <1>1, StagesApart DEF QueuesInv

\* Out of the scatters a step leaves the queues empty.
LEMMA QueuesKeptOutside ==
  ASSUME StagesInv, QueuesInv, queue' = queue, NEW r \in Rank, pc[r] \notin Scattering,
         \A q \in Rank : pc'[q] \notin Scattering
  PROVE  QueuesInv'
<1>1. \A q \in Rank : pc[q] \notin Scattering
  BY DEF StagesInv
<1> QED BY <1>1 DEF QueuesInv

LEMMA QueuesNext == ControlInv /\ StagesInv /\ QueuesInv /\ [Next]_vars => QueuesInv'
<1> SUFFICES ASSUME ControlInv, StagesInv, QueuesInv, [Next]_vars PROVE QueuesInv'
  OBVIOUS
<1> USE StagesApart, RankFacts
<1>1. ASSUME NEW r \in Rank, NEW from, NEW to \in PC \ Scattering, from \notin Scattering,
             Goto(r, from, to), queue' = queue
      PROVE  QueuesInv'
  <2>1. pc[r] = from /\ pc'[r] = to /\ \A q \in Rank : q # r => pc'[q] = pc[q]
    BY <1>1, GotoFacts DEF ControlInv
  <2>2. \A q \in Rank : pc[q] \notin Scattering
    BY <1>1, <2>1 DEF StagesInv
  <2> QED BY <1>1, <2>1, <2>2, QueuesKeptOutside
<1>2. ASSUME NEW r \in Rank, SetValue(r) PROVE QueuesInv'
  <2>1. "fill" \in PC \ Scattering /\ queue' = queue /\ Goto(r, "fill", "fill")
    BY <1>2 DEF SetValue, PC, transfer
  <2> QED BY <1>1, <2>1
<1>3. ASSUME NEW r \in Rank, Call(r) PROVE QueuesInv'
  <2>1. calls[r] \in 0..(Len(Program) - 1)
    BY DEF ControlInv, ControlType
  <2>2. Called(r) \in PC \ Scattering /\ queue' = queue /\ Goto(r, "fill", Called(r))
    BY <1>3, <2>1 DEF Call, Called, PC, transfer
  <2> QED BY <1>1, <2>2
<1>4. ASSUME NEW r \in Rank, Plug(r) PROVE QueuesInv'
  <2>1. "fill" \in PC \ Scattering /\ queue' = queue /\ Goto(r, "plug", "fill")
    BY <1>4 DEF Plug, PC
  <2> QED BY <1>1, <2>1
<1>5. ASSUME DetermineRowRank PROVE QueuesInv'
  <2>1. /\ \A q \in Rank : pc[q] = "Assemble" /\ pc'[q] = "counts" /\ root'[q] = 0
        /\ queue' = queue
    BY <1>5 DEF DetermineRowRank, Collective
  <2>2. \A q, i \in Rank : queue'[q][i] = <<>>
    BY <2>1 DEF QueuesInv
  <2>3. \A q, i \in Rank : ~HasCount(q, i)' /\ ~HasValues(q, i)'
    BY <2>1 DEF HasCount, HasValues
  <2> QED BY <2>1, <2>2, <2>3 DEF QueuesInv, InTurn, Queued
<1>6. ASSUME GetOwnershipBoundaries PROVE QueuesInv'
  <2>1. (\A q \in Rank : pc[q] = "bounds" /\ pc'[q] = "plug") /\ queue' = queue
    BY <1>6 DEF GetOwnershipBoundaries, Collective, transfer
  <2>2. \A q, i \in Rank : HasValues(q, i) /\ Queued(q, i)
    BY <2>1 DEF QueuesInv, HasValues
  <2>3. \A q, i \in Rank : queue'[q][i] = <<>>
    BY <2>1, <2>2 DEF Queued
  <2> QED BY <2>1, <2>3 DEF QueuesInv
<1>7. ASSUME ToMPISerial PROVE QueuesInv'
  <2>1. (\A q \in Rank : pc[q] = "ToMPISerial" /\ pc'[q] = "fill") /\ queue' = queue
    BY <1>7 DEF ToMPISerial, Collective, transfer
  <2> QED BY <2>1, QueuesKeptOutside
<1>8. ASSUME UNCHANGED vars PROVE QueuesInv'
  <2>1. UNCHANGED <<pc, root, buckets, queue, numvalues, fromcpu>>
    BY <1>8 DEF vars
  <2> SUFFICES ASSUME NEW q \in Rank, NEW i \in Rank
               PROVE  IF pc[q] \in Scattering THEN InTurn(q, i)' /\ Queued(q, i)' ELSE queue[q][i] = <<>>
    BY <2>1 DEF QueuesInv
  <2>2. /\ HasCount(q, i)' <=> HasCount(q, i)
        /\ HasValues(q, i)' <=> HasValues(q, i)
        /\ HasCount(i, i)' <=> HasCount(i, i)
        /\ HasValues(i, i)' <=> HasValues(i, i)
    BY <2>1 DEF HasCount, HasValues
  <2> QED BY <2>1, <2>2, PairKept DEF QueuesInv
<1> QED BY <1>2, <1>3, <1>4, <1>5, <1>6, <1>7, <1>8, QueuesKeptByScatterCounts, QueuesKeptByScatterValues
        DEF Next, CollectiveStep, LocalStep

-----------------------------------------------------------------------------
(***************************************************************************)
(* The sizes.  What a root announces to a rank is how many values the      *)
(* buckets hold that it then sends.                                        *)
(***************************************************************************)
\* MarshallSize runs over the rows a..a+k-1 of the owner.
LEMMA MarshallCounts ==
  ASSUME NEW a \in Nat, NEW k \in Nat, NEW f, DOMAIN f = a..(a + k - 1),
         \A x \in DOMAIN f : f[x] \in Seq(Contribution) /\ Len(f[x]) <= MaxContributions
  PROVE  Cardinality(ValuesIn(f)) = RunningSum([j \in 0..(k - 1) |-> Len(f[a + j])], k)
<1> DEFINE w == [j \in 0..(k - 1) |-> Len(f[a + j])]
<1> DEFINE Upto(n) == {p \in ValuesIn(f) : p[1] < a + n}
<1> DEFINE At(n) == {p \in ValuesIn(f) : p[1] = a + n}
<1> DEFINE Bad == {n \in 0..k : ~(IsFiniteSet(Upto(n)) /\ Cardinality(Upto(n)) = RunningSum(w, n))}
<1>1. \A p \in ValuesIn(f) : p[1] \in Nat /\ a <= p[1] /\ p[1] < a + k
  BY DEF ValuesIn
<1>2. ASSUME NEW n \in 0..(k - 1)
      PROVE  /\ w[n] \in Nat /\ IsFiniteSet(At(n)) /\ Cardinality(At(n)) = w[n]
             /\ Upto(n + 1) = Upto(n) \cup At(n) /\ Upto(n) \cap At(n) = {}
  <2>1. a + n \in DOMAIN f /\ w[n] = Len(f[a + n])
    OBVIOUS
  <2>2. /\ Len(f[a + n]) \in Nat /\ DOMAIN f[a + n] = 1..Len(f[a + n])
        /\ Len(f[a + n]) <= MaxContributions /\ MaxContributions \in Nat
    BY <2>1, LenProperties, LayoutAssumption
  <2>3. \A j \in 1..w[n] : <<a + n, j>> \in At(n)
    BY <2>1, <2>2 DEF ValuesIn
  <2>4. \A p \in At(n) : p[2] \in 1..w[n] /\ p = <<a + n, p[2]>>
    BY <2>1, <2>2 DEF ValuesIn
  <2> DEFINE row == [j \in 1..w[n] |-> <<a + n, j>>]
  <2>5. row \in Bijection(1..w[n], At(n))
    BY <2>3, <2>4 DEF Bijection, Injection, Surjection, IsInjective
  <2>6. ExistsBijection(1..w[n], At(n))
    BY <2>5 DEF ExistsBijection
  <2>7. IsFiniteSet(1..w[n]) /\ Cardinality(1..w[n]) = w[n]
    <3>1. PICK c \in Nat : c = w[n]
      BY <2>1, <2>2
    <3>2. IsFiniteSet(1..c) /\ Cardinality(1..c) = IF 1 > c THEN 0 ELSE c - 1 + 1
      BY FS_Interval
    <3> HIDE DEF w
    <3> QED BY <3>1, <3>2
  <2> HIDE DEF At, Upto, w
  <2>8. IsFiniteSet(At(n)) /\ Cardinality(At(n)) = w[n]
    BY <2>6, <2>7, FS_Bijection
  <2>9. n \in Nat
    OBVIOUS
  <2>10. Upto(n + 1) = Upto(n) \cup At(n) /\ Upto(n) \cap At(n) = {}
    BY <1>1, <2>9 DEF Upto, At
  <2> QED BY <2>1, <2>2, <2>8, <2>10
<1>3. Bad = {}
  <2> SUFFICES ASSUME Bad # {} PROVE FALSE
    OBVIOUS
  <2>1. PICK n \in Bad : \A j \in Bad : n <= j
    <3>1. Bad \in SUBSET Nat
      OBVIOUS
    <3> HIDE DEF Bad
    <3> QED BY <3>1, LeastElement
  <2>2. CASE n = 0
    <3>1. Upto(0) = {}
      BY <1>1
    <3>2. IsFiniteSet(Upto(0)) /\ Cardinality(Upto(0)) = 0
      BY <3>1, FS_EmptySet
    <3>3. RunningSum(w, 0) = 0
      BY RunningSumZero
    <3> QED BY <2>1, <2>2, <3>2, <3>3
  <2>3. CASE n # 0
    <3>1. n - 1 \in 0..(k - 1) /\ n - 1 \in 0..k /\ n - 1 \in Nat /\ n \in Nat /\ (n - 1) + 1 = n
      BY <2>1, <2>3
    <3>2. n - 1 \notin Bad
      <4>1. ~(n <= n - 1)
        BY <3>1
      <4> HIDE DEF Bad
      <4> QED BY <2>1, <4>1
    <3>3. IsFiniteSet(Upto(n - 1)) /\ Cardinality(Upto(n - 1)) = RunningSum(w, n - 1)
      BY <3>1, <3>2
    <3>4. /\ w[n - 1] \in Nat /\ IsFiniteSet(At(n - 1)) /\ Cardinality(At(n - 1)) = w[n - 1]
          /\ Upto(n) = Upto(n - 1) \cup At(n - 1) /\ Upto(n - 1) \cap At(n - 1) = {}
      <4> HIDE DEF Upto, At, w
      <4> QED BY <1>2, <3>1
    <3>5. RunningSum(w, n) = RunningSum(w, n - 1) + w[n - 1]
      <4> HIDE DEF w
      <4>1. RunningSum(w, (n - 1) + 1) = RunningSum(w, n - 1) + w[n - 1]
        BY <3>1, RunningSumStep
      <4> QED BY <3>1, <4>1
    <3>6. IsFiniteSet(Upto(n)) /\ Cardinality(Upto(n)) = RunningSum(w, n)
      <4> HIDE DEF Upto, At, w
      <4>1. Cardinality(Upto(n - 1)) \in Nat
        BY <3>3, FS_CardinalityType
      <4>2. /\ IsFiniteSet(Upto(n))
            /\ Cardinality(Upto(n)) =
                 Cardinality(Upto(n - 1)) + Cardinality(At(n - 1)) - Cardinality(Upto(n - 1) \cap At(n - 1))
        BY <3>3, <3>4, FS_Union
      <4>3. Cardinality(Upto(n - 1) \cap At(n - 1)) = 0
        BY <3>4, FS_EmptySet
      <4>4. Cardinality(Upto(n)) = Cardinality(Upto(n - 1)) + w[n - 1] - 0
        BY <3>4, <4>2, <4>3
      <4>5. w[n - 1] \in Nat
        BY <3>4
      <4>6. Cardinality(Upto(n)) = Cardinality(Upto(n - 1)) + w[n - 1]
        BY <4>1, <4>4, <4>5
      <4> QED BY <3>3, <3>5, <4>2, <4>6
    <3> QED BY <2>1, <3>6
  <2> QED BY <2>2, <2>3
<1>4. Upto(k) = ValuesIn(f)
  BY <1>1
<1>5. k \in 0..k
  OBVIOUS
<1>6. Cardinality(Upto(k)) = RunningSum(w, k)
  BY <1>3, <1>5
<1> QED BY <1>4, <1>6

LEMMA AnnouncedSize ==
  ASSUME ControlInv, NEW i \in Rank, NEW r \in Rank
  PROVE  Cardinality(ValuesIn(BucketsForCpu(i, r))) = MarshallSize(BucketsForCpu(i, r), r)
<1> DEFINE f == BucketsForCpu(i, r)
<1>1. LowerRow[r] \in Nat /\ m[r] \in Nat /\ RowsOf[r] \subseteq Row
  BY OwnRows, RankFacts
<1>2. DOMAIN f = LowerRow[r]..(LowerRow[r] + m[r] - 1)
  BY OwnRows DEF BucketsForCpu
<1>3. \A x \in DOMAIN f : f[x] = buckets[i][x] /\ x \in Row
  BY <1>1 DEF BucketsForCpu
<1>4. \A x \in Row : /\ buckets[i][x] \in Seq(Contribution)
                     /\ Len(buckets[i][x]) <= given /\ given <= MaxContributions
                     /\ given \in Nat /\ MaxContributions \in Nat
  BY LayoutAssumption DEF ControlInv, BucketsType, BucketsBound
<1>5. \A x \in DOMAIN f : f[x] \in Seq(Contribution) /\ Len(f[x]) <= MaxContributions
  BY <1>3, <1>4, LenProperties
<1>6. MarshallSize(f, r) = RunningSum([j \in 0..(m[r] - 1) |-> Len(f[LowerRow[r] + j])], m[r])
  BY DEF MarshallSize
<1> HIDE DEF f
<1>7. Cardinality(ValuesIn(f)) = RunningSum([j \in 0..(m[r] - 1) |-> Len(f[LowerRow[r] + j])], m[r])
  BY <1>1, <1>2, <1>5, MarshallCounts
<1> QED BY <1>6, <1>7 DEF f

-----------------------------------------------------------------------------
LEMMA QueuesAgree ==
  ASSUME ControlInv, StagesInv, QueuesInv
  PROVE  CallsAgree
<1> USE StagesApart
<1>1. SameCollective
  <2> SUFFICES ASSUME NEW r1 \in Rank, NEW r2 \in Rank, Waiting(r1)
               PROVE  /\ Waiting(r2) => pc[r1] = pc[r2]
                      /\ pc[r1] # "bounds" => pc[r2] \notin {"counts", "values"}
    BY DEF SameCollective
  <2>1. pc[r1] \in Scattering <=> pc[r2] \in Scattering
    BY DEF StagesInv
  <2>2. CASE pc[r1] = "bounds"
    BY <2>1, <2>2 DEF Waiting
  <2>3. CASE pc[r1] # "bounds"
    <3>1. pc[r1] \in Calling /\ pc[r2] \notin Scattering
      BY <2>1, <2>3 DEF Waiting
    <3>2. Waiting(r2) => pc[r2] \in Calling
      BY <3>1 DEF Waiting
    <3>3. Waiting(r2) => pc[r1] = Program[Turn(r1) + 1] /\ pc[r2] = Program[Turn(r1) + 1]
      BY <3>1, <3>2 DEF StagesInv
    <3> QED BY <2>3, <3>1, <3>3
  <2> QED BY <2>2, <2>3
<1>2. MessagesMatch
  <2> SUFFICES ASSUME NEW r \in Rank, NEW i \in Rank, root[r] = i, queue[r][i] # <<>>,
                      pc[r] \in {"counts", "values"}
               PROVE  /\ pc[r] = "counts" => Head(queue[r][i]).call = "Scatter"
                      /\ pc[r] = "values" =>
                           /\ Head(queue[r][i]).call = "Scatterv"
                           /\ Cardinality(ValuesIn(Head(queue[r][i]).buckets)) = numvalues[r][i]
    BY DEF MessagesMatch
  <2>1. InTurn(r, i) /\ Queued(r, i)
    BY DEF QueuesInv
  <2>2. i \in Nat
    BY RankFacts
  <2>3. CASE pc[r] = "counts"
    <3>1. ~HasCount(r, i) /\ ~HasValues(r, i)
      BY <2>2, <2>3 DEF HasCount, HasValues
    <3>2. \/ queue[r][i] = <<Message("Scatter", i, r)>>
          \/ queue[r][i] = <<Message("Scatter", i, r), Message("Scatterv", i, r)>>
      BY <2>1, <3>1 DEF Queued
    <3>3. Head(queue[r][i]) = Message("Scatter", i, r)
      BY <3>2
    <3> QED BY <2>3, <3>3 DEF Message
  <2>4. CASE pc[r] = "values"
    <3>1. HasCount(r, i) /\ ~HasValues(r, i)
      BY <2>2, <2>4 DEF HasCount, HasValues
    <3>2. queue[r][i] = <<Message("Scatterv", i, r)>>
      BY <2>1, <3>1 DEF Queued
    <3>3. Head(queue[r][i]) = Message("Scatterv", i, r)
      BY <3>2
    <3>4. numvalues[r][i] = MarshallSize(BucketsForCpu(i, r), r)
      BY <2>1, <3>1 DEF InTurn
    <3>5. Message("Scatterv", i, r).call = "Scatterv" /\ Message("Scatterv", i, r).buckets = BucketsForCpu(i, r)
      BY DEF Message
    <3> QED BY <2>4, <3>3, <3>4, <3>5, AnnouncedSize
  <2> QED BY <2>3, <2>4
<1>3. QueuesAreDrained
  <2> SUFFICES ASSUME NEW r \in Rank, pc[r] \in {"fill", "bounds", "plug", "ToMPISerial"}, NEW i \in Rank
               PROVE  queue[r][i] = <<>>
    BY DEF QueuesAreDrained
  <2>1. CASE pc[r] = "bounds"
    BY <2>1 DEF QueuesInv, Queued, HasValues
  <2>2. CASE pc[r] # "bounds"
    BY <2>2 DEF QueuesInv
  <2> QED BY <2>1, <2>2
<1> QED BY <1>1, <1>2, <1>3 DEF CallsAgree

LEMMA AssembleInvariant == Spec => [](ControlInv /\ StagesInv /\ QueuesInv)
BY ControlInit, ControlNext, StagesInit, StagesNext, QueuesInit, QueuesNext, PTL DEF Spec

\* The ranks call the same collectives in the same order, for every program of calls;
\* what a rank takes from the queue of a root is the message of the scatter that it is
\* in, with as many values as were announced to it, so that it fits what the rank has
\* allocated; and nothing is left in a queue when Assemble is over.
THEOREM RanksCallTheSame == Spec => []CallsAgree
BY AssembleInvariant, QueuesAgree, PTL

-----------------------------------------------------------------------------
(***************************************************************************)
(* The vector as a whole.  A row of a rank that is in the scatters holds   *)
(* what the buckets of all the ranks will make of it; nothing that is      *)
(* taken or on its way differs from them.                                  *)
(***************************************************************************)
\* The two modules apply the contributions in the same way.
LEMMA SameOrder ==
  ASSUME NEW v, NEW s
  PROVE  Whole!AppliedInRankOrder(v, s) = AppliedInRankOrder(v, s)
BY DEF Whole!AppliedInRankOrder, AppliedInRankOrder, Whole!Applied, Applied, Whole!FoldLeft, FoldLeft,
       Whole!MapThenFoldSet, MapThenFoldSet, Whole!Max, Max

LEMMA OwnerOfRow ==
  ASSUME NEW x \in Row
  PROVE  /\ RowRank[x] \in Rank
         /\ x - LowerRow[RowRank[x]] \in 0..(m[RowRank[x]] - 1)
         /\ x \in RowsOf[RowRank[x]]
<1>1. PICK q \in Rank : q = RowRank[x]
  BY EveryRowHasOneOwner
<1>2. x \in RowsOf[q]
  BY <1>1, EveryRowHasOneOwner
<1>3. LowerRow[q] \in Nat /\ m[q] \in Nat /\ x \in LowerRow[q]..(LowerRow[q] + m[q] - 1)
  BY <1>2, OwnRows, RankFacts
<1>4. x - LowerRow[q] \in 0..(m[q] - 1)
  BY <1>3
<1> QED BY <1>1, <1>2, <1>4

LEMMA IncomingInScatters ==
  ASSUME ControlInv, QueuesInv, NEW q \in Rank, NEW i \in Rank, pc[q] \in Scattering
  PROVE  Incoming(q, i) = BucketsForCpu(i, q)
<1>1. InTurn(q, i) /\ Queued(q, i) /\ root[q] \in Nat /\ i \in Nat
  BY RankFacts DEF QueuesInv, ControlInv, ControlType
<1>2. Taken(q, i) <=> HasValues(q, i)
  BY <1>1 DEF Taken, HasValues, Scattering
<1>3. CASE HasValues(q, i)
  BY <1>1, <1>2, <1>3 DEF Incoming, InTurn
<1>4. CASE ~HasValues(q, i) /\ queue[q][i] = <<>>
  <2>1. OnItsWay(q, i) = {}
    BY <1>4 DEF OnItsWay
  <2> QED BY <1>2, <1>4, <2>1 DEF Incoming
<1>5. CASE ~HasValues(q, i) /\ queue[q][i] = <<Message("Scatter", i, q)>>
  <2>1. OnItsWay(q, i) = {}
    BY <1>5 DEF OnItsWay, Message
  <2> QED BY <1>2, <1>5, <2>1 DEF Incoming
<1>6. CASE ~HasValues(q, i) /\ queue[q][i] = <<Message("Scatterv", i, q)>>
  <2>1. OnItsWay(q, i) = {1}
    BY <1>6 DEF OnItsWay, Message
  <2>2. MinOf({1}) = 1
    BY DEF MinOf
  <2>3. queue[q][i][1] = Message("Scatterv", i, q)
    BY <1>6
  <2> QED BY <1>2, <1>6, <2>1, <2>2, <2>3 DEF Incoming, Message
<1>7. CASE ~HasValues(q, i) /\ queue[q][i] = <<Message("Scatter", i, q), Message("Scatterv", i, q)>>
  <2>1. queue[q][i][1] = Message("Scatter", i, q) /\ queue[q][i][2] = Message("Scatterv", i, q)
        /\ DOMAIN queue[q][i] = {1, 2}
    BY <1>7
  <2>2. OnItsWay(q, i) = {2}
    BY <2>1 DEF OnItsWay, Message
  <2>3. MinOf({2}) = 2
    BY DEF MinOf
  <2> QED BY <1>2, <1>7, <2>1, <2>2, <2>3 DEF Incoming, Message
<1> QED BY <1>1, <1>3, <1>4, <1>5, <1>6, <1>7, CountsFirst DEF Queued

\* What the buckets of all the ranks will make of row x of rank q.
Assembled(q, x) == AppliedInRankOrder(vector[q][x - LowerRow[q]], [i \in Rank |-> buckets[i][x]])

\* What a row is, by what its owner does.
RowsInv ==
  \A x \in Row : \A q \in Rank : q = RowRank[x] =>
    /\ pc[q] \in Scattering => WholeRow(x) = Assembled(q, x)
    /\ pc[q] = "plug" => WholeRow(x) = Plugged(q, x)
    /\ pc[q] \notin Scattering \cup {"plug"} => WholeRow(x) = vector[q][x - LowerRow[q]]

LEMMA RowsAsTheyAre == ControlInv /\ QueuesInv => RowsInv
<1> SUFFICES ASSUME ControlInv, QueuesInv, NEW x \in Row, NEW q \in Rank, q = RowRank[x]
             PROVE  /\ pc[q] \in Scattering => WholeRow(x) = Assembled(q, x)
                    /\ pc[q] = "plug" => WholeRow(x) = Plugged(q, x)
                    /\ pc[q] \notin Scattering \cup {"plug"} => WholeRow(x) = vector[q][x - LowerRow[q]]
  BY DEF RowsInv
<1> DEFINE block == vector[q][x - LowerRow[q]]
<1> DEFINE s == [i \in Rank |-> Incoming(q, i)[x]]
<1>1. WholeRow(x) = IF Shipping(q) THEN AppliedInRankOrder(block, s) ELSE block
  BY DEF WholeRow
<1>2. CASE pc[q] \in Scattering
  <2>1. \A i \in Rank : Incoming(q, i) = BucketsForCpu(i, q)
    BY <1>2, IncomingInScatters
  <2>2. \A i \in Rank : Incoming(q, i)[x] = buckets[i][x]
    <3>1. x \in RowsOf[q]
      BY OwnerOfRow
    <3>2. \A i \in Rank : BucketsForCpu(i, q)[x] = buckets[i][x]
      BY <3>1 DEF BucketsForCpu
    <3> QED BY <2>1, <3>2
  <2>3. s = [i \in Rank |-> buckets[i][x]]
    BY <2>2
  <2>4. Shipping(q)
    BY <1>2 DEF Shipping, Scattering
  <2> QED BY <1>1, <1>2, <2>3, <2>4, StagesApart DEF Assembled
<1>3. CASE pc[q] = "plug"
  <2>1. \A i \in Rank : Incoming(q, i) = fromcpu[q][i]
    BY <1>3 DEF Incoming, Taken
  <2>2. s = [i \in Rank |-> fromcpu[q][i][x]]
    BY <2>1
  <2>3. Shipping(q)
    BY <1>3 DEF Shipping
  <2>4. WholeRow(x) = Plugged(q, x)
    BY <1>1, <2>2, <2>3 DEF Plugged
  <2> QED BY <1>3, <2>4, StagesApart
<1>4. CASE pc[q] \notin Scattering \cup {"plug"}
  BY <1>1, <1>4 DEF Shipping, Scattering
<1> QED BY <1>2, <1>3, <1>4

\* The variables of the whole vector.
Value   == [x \in Row |-> WholeRow(x)]
Pending == [r \in Rank |-> IF Shipping(r) THEN [x \in Row |-> <<>>] ELSE buckets[r]]
Status  == [r \in Rank |-> IF Shipping(r) THEN "assembled" ELSE pc[r]]

LEMMA ShippingIs ==
  \A r \in Rank : Shipping(r) <=> (pc[r] \in Scattering \/ pc[r] = "plug")
BY DEF Shipping, Scattering

LEMMA WholeInit == Init => Whole!Init
<1> SUFFICES ASSUME Init PROVE Whole!Init
  OBVIOUS
<1>1. \A r \in Rank : pc[r] = "fill" /\ ~Shipping(r) /\ buckets[r] = [x \in Row |-> <<>>]
  BY DEF Init, Shipping
<1>2. Value = [x \in Row |-> 0]
  <2> SUFFICES ASSUME NEW x \in Row PROVE WholeRow(x) = 0
    BY DEF Value
  <2>1. PICK q \in Rank : q = RowRank[x] /\ x - LowerRow[q] \in 0..(m[q] - 1)
    BY OwnerOfRow
  <2>2. WholeRow(x) = vector[q][x - LowerRow[q]]
    BY <1>1, <2>1 DEF WholeRow
  <2> QED BY <2>1, <2>2 DEF Init
<1>3. Pending = [r \in Rank |-> [x \in Row |-> <<>>]]
  BY <1>1 DEF Pending
<1>4. Status = [r \in Rank |-> "fill"]
  BY <1>1 DEF Status
<1>5. serial = [r \in Rank |-> [x \in Row |-> 0]]
  BY DEF Init
<1> QED BY <1>2, <1>3, <1>4, <1>5
        DEF Whole!Init, Value, Pending, Status, Whole!Nothing, Whole!Row, Row, Whole!Rank, Rank

\* What the contributions make of a row depends only on them and on the row.
LEMMA OrderPrimed ==
  ASSUME NEW x \in Row, NEW q \in Rank
  PROVE  /\ Assembled(q, x)' =
              AppliedInRankOrder(vector'[q][x - LowerRow[q]], [i \in Rank |-> buckets'[i][x]])
         /\ Plugged(q, x)' =
              AppliedInRankOrder(vector'[q][x - LowerRow[q]], [i \in Rank |-> fromcpu'[q][i][x]])
BY DEF Assembled, Plugged, AppliedInRankOrder, FoldLeft, MapThenFoldSet, Applied, Max

\* A step that changes neither the blocks nor the buckets of the ranks in the scatters,
\* and no rank's part in the call, changes nothing of the vector.
LEMMA RowsUnchanged ==
  ASSUME RowsInv, RowsInv', vector' = vector,
         \A q \in Rank : pc[q] \in Scattering => pc'[q] \in Scattering /\ buckets' = buckets,
         \A q \in Rank : pc[q] = "plug" => pc'[q] = "plug" /\ fromcpu'[q] = fromcpu[q],
         \A q \in Rank : pc[q] \notin Scattering \cup {"plug"} => pc'[q] \notin Scattering \cup {"plug"}
  PROVE  Value' = Value
<1> SUFFICES ASSUME NEW x \in Row PROVE WholeRow(x)' = WholeRow(x)
  BY DEF Value
<1>1. PICK q \in Rank : q = RowRank[x]
  BY OwnerOfRow
<1>2. CASE pc[q] \in Scattering
  <2>1. WholeRow(x) = Assembled(q, x) /\ WholeRow(x)' = Assembled(q, x)'
    BY <1>1, <1>2 DEF RowsInv
  <2>2. Assembled(q, x)' = Assembled(q, x)
    BY <1>2, OrderPrimed DEF Assembled
  <2> QED BY <2>1, <2>2
<1>3. CASE pc[q] = "plug"
  <2>1. WholeRow(x) = Plugged(q, x) /\ WholeRow(x)' = Plugged(q, x)'
    BY <1>1, <1>3 DEF RowsInv
  <2>2. Plugged(q, x)' = Plugged(q, x)
    BY <1>3, OrderPrimed DEF Plugged
  <2> QED BY <2>1, <2>2
<1>4. CASE pc[q] \notin Scattering \cup {"plug"}
  BY <1>1, <1>4 DEF RowsInv
<1> QED BY <1>2, <1>3, <1>4

\* A rank that fills the vector: no other rank is in the scatters.
LEMMA FillingApart ==
  ASSUME StagesInv, NEW r \in Rank, pc[r] \notin Scattering
  PROVE  \A q \in Rank : pc[q] \notin Scattering
BY DEF StagesInv

LEMMA WholeSetValue ==
  ASSUME ControlInv, StagesInv, RowsInv, RowsInv', NEW r \in Rank, SetValue(r)
  PROVE  Whole!SetValue(r)
<1>1. /\ pc[r] = "fill" /\ pc' = pc
      /\ UNCHANGED <<vector, serial, fromcpu>>
  <2>1. pc[r] = "fill" /\ pc' = [pc EXCEPT ![r] = "fill"] /\ pc \in [Rank -> PC]
    BY DEF SetValue, Goto, ControlInv, ControlType
  <2>2. pc' = pc
    BY <2>1
  <2> QED BY <2>1, <2>2 DEF SetValue, transfer
<1>2. PICK x \in Row, c \in GivenBy(r) : buckets' = [buckets EXCEPT ![r][x] = Append(@, c)]
  BY DEF SetValue
<1>3. \A q \in Rank : pc[q] \notin Scattering
  BY <1>1, FillingApart, StagesApart
<1>4. Value' = Value
  BY <1>1, <1>3, RowsUnchanged
<1>5. Status' = Status /\ Status[r] = "fill"
  BY <1>1, ShippingIs, StagesApart DEF Status, Shipping
<1>6. Pending' = [Pending EXCEPT ![r][x] = Append(@, c)]
  <2>1. ~Shipping(r) /\ \A q \in Rank : Shipping(q)' <=> Shipping(q)
    BY <1>1 DEF Shipping
  <2>2. buckets \in [Rank -> [Row -> Seq(Contribution)]]
    BY DEF ControlInv, BucketsType
  <2>3. \A q \in Rank : Pending'[q] = IF Shipping(q) THEN [y \in Row |-> <<>>] ELSE buckets'[q]
    BY <2>1 DEF Pending
  <2>4. \A q \in Rank : q # r => buckets'[q] = buckets[q]
    BY <1>2, <2>2
  <2>5. buckets'[r] = [buckets[r] EXCEPT ![x] = Append(@, c)]
    BY <1>2, <2>2
  <2>6. Pending[r] = buckets[r] /\ Pending'[r] = [Pending[r] EXCEPT ![x] = Append(@, c)]
    BY <2>1, <2>3, <2>5 DEF Pending
  <2>7. \A q \in Rank : q # r => Pending'[q] = Pending[q]
    BY <2>3, <2>4 DEF Pending
  <2>8. Pending' = [q \in Rank |-> Pending'[q]] /\ DOMAIN Pending = Rank
    BY DEF Pending
  <2> QED BY <2>6, <2>7, <2>8
<1>7. serial' = serial
  BY <1>1
<1> QED BY <1>2, <1>4, <1>5, <1>6, <1>7
        DEF Whole!SetValue, Value, Status, Pending, Whole!Row, Row, Whole!GivenBy, GivenBy, Whole!InsMode, InsMode

LEMMA WholeCall ==
  ASSUME ControlInv, StagesInv, RowsInv, RowsInv', NEW r \in Rank, Call(r)
  PROVE  Whole!Call(r)
<1>1. /\ pc[r] = "fill" /\ pc'[r] = Called(r) /\ \A q \in Rank : q # r => pc'[q] = pc[q]
      /\ UNCHANGED <<vector, serial, fromcpu, buckets>>
  <2>1. UNCHANGED <<vector, serial, fromcpu, buckets>>
    BY DEF Call, transfer
  <2>2. pc \in [Rank -> PC] /\ pc[r] = "fill" /\ pc' = [pc EXCEPT ![r] = Called(r)]
    BY DEF Call, Goto, ControlInv, ControlType
  <2> QED BY <2>1, <2>2
<1>2. Called(r) \in Calling
  <2>1. calls[r] \in 0..(Len(Program) - 1)
    BY DEF ControlInv, ControlType
  <2> QED BY <2>1, RankFacts DEF Called, Calling
<1>3. \A q \in Rank : pc[q] \notin Scattering
  BY <1>1, FillingApart, StagesApart
<1>4. Value' = Value
  <2>1. \A q \in Rank : pc[q] = "plug" => pc'[q] = "plug"
    BY <1>1
  <2>2. \A q \in Rank : pc[q] \notin Scattering \cup {"plug"} => pc'[q] \notin Scattering \cup {"plug"}
    BY <1>1, <1>2, StagesApart
  <2> QED BY <1>1, <1>3, <2>1, <2>2, RowsUnchanged
<1>5. \A q \in Rank : Shipping(q)' <=> Shipping(q)
  BY <1>1, <1>2 DEF Shipping, Calling
<1>6. Pending' = Pending
  BY <1>1, <1>5 DEF Pending
<1>7. Status[r] = "fill" /\ Status' = [Status EXCEPT ![r] = Called(r)]
  <2>1. ~Shipping(r) /\ Status[r] = "fill" /\ Status'[r] = Called(r)
    BY <1>1, <1>5 DEF Shipping, Status
  <2>2. \A q \in Rank : q # r => Status'[q] = Status[q]
    BY <1>1, <1>5 DEF Status
  <2>3. Status' = [q \in Rank |-> Status'[q]] /\ DOMAIN Status = Rank
    BY DEF Status
  <2> QED BY <2>1, <2>2, <2>3
<1>8. Status' \in {[Status EXCEPT ![r] = call] : call \in {"Assemble", "ToMPISerial"}}
  BY <1>2, <1>7 DEF Calling
<1>9. serial' = serial
  BY <1>1
<1> QED BY <1>4, <1>6, <1>7, <1>8, <1>9 DEF Whole!Call, Value, Status, Pending

\* The whole vector takes all the values when the last rank has entered Assemble.
LEMMA WholeAssemble ==
  ASSUME RowsInv, RowsInv', DetermineRowRank
  PROVE  Whole!Assemble
<1>1. /\ \A q \in Rank : pc[q] = "Assemble" /\ pc'[q] = "counts" /\ ~Shipping(q) /\ Shipping(q)'
      /\ UNCHANGED <<vector, buckets, serial>>
  BY DEF DetermineRowRank, Collective, Shipping
<1>2. /\ \A q \in Rank : Status[q] = "Assemble"
      /\ Status' = [q \in Rank |-> "assembled"]
      /\ Pending = [q \in Rank |-> buckets[q]]
      /\ Pending' = [q \in Rank |-> [x \in Row |-> <<>>]]
  BY <1>1 DEF Status, Pending
<1>3. ASSUME NEW x \in Row
      PROVE  Value'[x] = Whole!AppliedInRankOrder(Value[x], [r \in Rank |-> Pending[r][x]])
  <2>1. PICK q \in Rank : q = RowRank[x]
    BY OwnerOfRow
  <2>2. Value[x] = vector[q][x - LowerRow[q]]
    BY <1>1, <2>1, StagesApart DEF Value, RowsInv
  <2>3. WholeRow(x)' = Assembled(q, x)'
    BY <1>1, <2>1, StagesApart DEF RowsInv
  <2>4. Value'[x] = WholeRow(x)'
    BY DEF Value
  <2>5. Assembled(q, x)' = AppliedInRankOrder(vector[q][x - LowerRow[q]], [i \in Rank |-> buckets[i][x]])
    BY <1>1, OrderPrimed
  <2>6. [r \in Rank |-> Pending[r][x]] = [i \in Rank |-> buckets[i][x]]
    BY <1>2
  <2> QED BY <2>2, <2>3, <2>4, <2>5, <2>6, SameOrder
<1>4. Value' = [x \in Row |-> Whole!AppliedInRankOrder(Value[x], [r \in Rank |-> Pending[r][x]])]
  <2>1. Value' = [x \in Row |-> Value'[x]]
    BY DEF Value
  <2> QED BY <1>3, <2>1
<1>5. serial' = serial
  BY <1>1
<1> QED BY <1>2, <1>4, <1>5
        DEF Whole!Assemble, Value, Status, Pending, Whole!Row, Row, Whole!Rank, Rank, Whole!Nothing

LEMMA WholeCopy ==
  ASSUME RowsInv, RowsInv', ToMPISerial
  PROVE  Whole!ToMPISerial
<1>1. /\ \A q \in Rank : pc[q] = "ToMPISerial" /\ pc'[q] = "fill" /\ ~Shipping(q) /\ ~Shipping(q)'
      /\ UNCHANGED <<vector, buckets>>
  BY DEF ToMPISerial, Collective, Shipping
<1>2. /\ \A q \in Rank : Status[q] = "ToMPISerial"
      /\ Status' = [q \in Rank |-> "fill"]
      /\ Pending' = Pending
  BY <1>1 DEF Status, Pending
<1>3. \A x \in Row : /\ WholeRow(x) = vector[RowRank[x]][x - LowerRow[RowRank[x]]]
                     /\ WholeRow(x)' = WholeRow(x)
  <2> SUFFICES ASSUME NEW x \in Row
               PROVE  /\ WholeRow(x) = vector[RowRank[x]][x - LowerRow[RowRank[x]]]
                      /\ WholeRow(x)' = WholeRow(x)
    OBVIOUS
  <2>1. PICK q \in Rank : q = RowRank[x]
    BY OwnerOfRow
  <2> QED BY <1>1, <2>1, StagesApart DEF RowsInv
<1>4. Value' = Value /\ Value = [x \in Row |-> vector[RowRank[x]][x - LowerRow[RowRank[x]]]]
  BY <1>3 DEF Value
<1>5. serial' = [r \in Rank |-> Value]
  BY <1>4 DEF ToMPISerial
<1> QED BY <1>2, <1>4, <1>5 DEF Whole!ToMPISerial, Value, Status, Pending, Whole!Rank, Rank

\* A rank comes back from Assemble with the values in its block.
LEMMA WholeReturn ==
  ASSUME ControlInv, StagesInv, RowsInv, RowsInv', NEW r \in Rank, Plug(r)
  PROVE  Whole!Return(r)
<1>1. /\ pc[r] = "plug" /\ pc'[r] = "fill" /\ \A q \in Rank : q # r => pc'[q] = pc[q]
      /\ UNCHANGED serial
  <2>1. pc \in [Rank -> PC] /\ pc[r] = "plug" /\ pc' = [pc EXCEPT ![r] = "fill"]
    BY DEF Plug, Goto, ControlInv, ControlType
  <2> QED BY <2>1 DEF Plug
<1>2. /\ \A q \in Rank : q # r => /\ buckets'[q] = buckets[q] /\ fromcpu'[q] = fromcpu[q]
                                  /\ vector'[q] = vector[q]
      /\ buckets'[r] = [x \in Row |-> <<>>]
  BY DEF Plug, ControlInv, BucketsType
<1>3. \A q \in Rank : pc[q] \notin Scattering /\ pc'[q] \notin Scattering
  BY <1>1, FillingApart, StagesApart
<1>4. Shipping(r) /\ ~Shipping(r)' /\ \A q \in Rank : q # r => (Shipping(q)' <=> Shipping(q))
  BY <1>1 DEF Shipping
<1>5. Pending' = Pending
  BY <1>2, <1>4 DEF Pending
<1>6. Status[r] = "assembled" /\ Status' = [Status EXCEPT ![r] = "fill"]
  <2>1. Status[r] = "assembled" /\ Status'[r] = "fill"
    BY <1>1, <1>4 DEF Status
  <2>2. \A q \in Rank : q # r => Status'[q] = Status[q]
    BY <1>1, <1>4 DEF Status
  <2>3. Status' = [q \in Rank |-> Status'[q]] /\ DOMAIN Status = Rank
    BY DEF Status
  <2> QED BY <2>1, <2>2, <2>3
<1>7. ASSUME NEW x \in Row PROVE WholeRow(x)' = WholeRow(x)
  <2>1. PICK q \in Rank : q = RowRank[x] /\ x - LowerRow[q] \in 0..(m[q] - 1)
    BY OwnerOfRow
  <2>2. CASE q = r
    <3>1. WholeRow(x) = Plugged(r, x)
      BY <1>1, <2>1, <2>2 DEF RowsInv
    <3>2. WholeRow(x)' = vector'[r][x - LowerRow[r]]
      <4>1. pc'[q] \notin Scattering \cup {"plug"}
        BY <1>1, <2>2, StagesApart
      <4>2. WholeRow(x)' = vector'[q][x - LowerRow[q]]
        BY <2>1, <4>1 DEF RowsInv
      <4> QED BY <2>2, <4>2
    <3>3. vector'[r][x - LowerRow[r]] = Plugged(r, LowerRow[r] + (x - LowerRow[r]))
      <4>1. vector'[r] = [j \in 0..(m[r] - 1) |-> Plugged(r, LowerRow[r] + j)]
        BY DEF Plug, ControlInv, TransferShape
      <4> QED BY <2>1, <2>2, <4>1
    <3>4. LowerRow[r] + (x - LowerRow[r]) = x
      BY OwnRows, <1>1 DEF Row
    <3> QED BY <3>1, <3>2, <3>3, <3>4
  <2>3. CASE q # r /\ pc[q] = "plug"
    <3>1. WholeRow(x) = Plugged(q, x) /\ WholeRow(x)' = Plugged(q, x)'
      BY <1>1, <2>1, <2>3 DEF RowsInv
    <3>2. Plugged(q, x)' = Plugged(q, x)
      BY <1>2, <2>3, OrderPrimed DEF Plugged
    <3> QED BY <3>1, <3>2
  <2>4. CASE q # r /\ pc[q] # "plug"
    BY <1>1, <1>2, <1>3, <2>1, <2>4 DEF RowsInv
  <2> QED BY <2>2, <2>3, <2>4
<1>8. Value' = Value
  BY <1>7 DEF Value
<1> QED BY <1>1, <1>5, <1>6, <1>8 DEF Whole!Return, Value, Status, Pending

\* Inside Assemble nothing is seen of the ranks' steps.
LEMMA WholeStutters ==
  ASSUME ControlInv, StagesInv, RowsInv, RowsInv',
         \/ \E r \in Rank : ScatterCounts(r) \/ ScatterValues(r)
         \/ GetOwnershipBoundaries
         \/ UNCHANGED vars
  PROVE  UNCHANGED <<Value, Pending, Status, serial>>
<1>1. CASE \E r \in Rank : ScatterCounts(r) \/ ScatterValues(r)
  <2>1. PICK r \in Rank : ScatterCounts(r) \/ ScatterValues(r)
    BY <1>1
  <2>2. UNCHANGED <<vector, buckets, serial>>
    BY <2>1 DEF ScatterCounts, ScatterValues
  <2>3. pc[r] \in Scattering /\ pc'[r] \in Scattering /\ \A q \in Rank : q # r => pc'[q] = pc[q]
    <3>1. CASE ScatterCounts(r)
      BY <3>1, NextRootFacts, StagesApart DEF ScatterCounts, ControlInv, PC
    <3>2. CASE ScatterValues(r)
      BY <3>2, NextRootFacts, StagesApart DEF ScatterValues, ControlInv, PC
    <3> QED BY <2>1, <3>1, <3>2
  <2>4. \A q \in Rank : pc[q] \in Scattering /\ pc'[q] \in Scattering
    BY <2>3, InScatters
  <2>5. Value' = Value
    BY <2>2, <2>4, StagesApart, RowsUnchanged
  <2>6. \A q \in Rank : Shipping(q) /\ Shipping(q)'
    BY <2>4 DEF Shipping, Scattering
  <2>7. Pending' = Pending /\ Status' = Status
    BY <2>6 DEF Pending, Status
  <2> QED BY <2>2, <2>5, <2>7
<1>2. CASE GetOwnershipBoundaries
  <2>1. /\ \A q \in Rank : pc[q] = "bounds" /\ pc'[q] = "plug"
        /\ UNCHANGED <<vector, buckets, fromcpu, queue, root, serial>>
    BY <1>2 DEF GetOwnershipBoundaries, Collective, transfer
  <2>2. \A q \in Rank : Shipping(q) /\ Shipping(q)'
    BY <2>1 DEF Shipping
  <2>3. Pending' = Pending /\ Status' = Status
    BY <2>2 DEF Pending, Status
  <2>4. \A q, i \in Rank : Incoming(q, i) = fromcpu[q][i] /\ Incoming(q, i)' = fromcpu[q][i]
    BY <2>1 DEF Incoming, Taken
  <2>5. ASSUME NEW x \in Row PROVE WholeRow(x)' = WholeRow(x)
    <3>1. PICK q \in Rank : q = RowRank[x]
      BY OwnerOfRow
    <3>2. WholeRow(x)' = Plugged(q, x)'
      BY <2>1, <3>1 DEF RowsInv
    <3>3. [i \in Rank |-> Incoming(q, i)[x]] = [i \in Rank |-> fromcpu[q][i][x]]
      BY <2>4
    <3>4. WholeRow(x) = Plugged(q, x)
      BY <2>2, <3>1, <3>3 DEF WholeRow, Plugged
    <3>5. Plugged(q, x)' = Plugged(q, x)
      BY <2>1, OrderPrimed DEF Plugged
    <3> QED BY <3>2, <3>4, <3>5
  <2>6. Value' = Value
    BY <2>5 DEF Value
  <2> QED BY <2>1, <2>3, <2>6
<1>3. CASE UNCHANGED vars
  <2>1. UNCHANGED <<vector, pc, root, buckets, fromcpu, queue, serial>>
    BY <1>3 DEF vars
  <2> HIDE DEF vars
  <2>2. Pending' = Pending /\ Status' = Status
    BY <2>1 DEF Pending, Status, Shipping
  <2>3. Value' = Value
    BY <2>1, RowsUnchanged
  <2> QED BY <2>1, <2>2, <2>3
<1> QED BY <1>1, <1>2, <1>3

LEMMA WholeNext ==
  ControlInv /\ StagesInv /\ RowsInv /\ RowsInv' /\ [Next]_vars => [Whole!Next]_(Whole!vars)
<1> SUFFICES ASSUME ControlInv, StagesInv, RowsInv, RowsInv', [Next]_vars
             PROVE  Whole!Next \/ UNCHANGED <<Value, Pending, Status, serial>>
  BY DEF Whole!vars, Value, Pending, Status
<1>1. ASSUME NEW r \in Rank, SetValue(r) \/ Call(r) \/ Plug(r) PROVE Whole!Next
  <2>1. Whole!SetValue(r) \/ Whole!Call(r) \/ Whole!Return(r)
    BY <1>1, WholeSetValue, WholeCall, WholeReturn
  <2>2. r \in Whole!Rank
    BY DEF Rank, Whole!Rank
  <2> QED BY <2>1, <2>2 DEF Whole!Next
<1>2. CASE DetermineRowRank
  BY <1>2, WholeAssemble DEF Whole!Next
<1>3. CASE ToMPISerial
  BY <1>3, WholeCopy DEF Whole!Next
<1>4. CASE \/ \E r \in Rank : ScatterCounts(r) \/ ScatterValues(r)
           \/ GetOwnershipBoundaries
           \/ UNCHANGED vars
  BY <1>4, WholeStutters
<1> QED BY <1>1, <1>2, <1>3, <1>4 DEF Next, CollectiveStep, LocalStep

\* The buckets, the scatters and the blocks of the ranks are one vector, for all layouts,
\* values and programs of calls: a row takes the values of all the ranks at once, when
\* the last of them has entered Assemble, those of the lower ranks first and those of
\* one rank in the order in which it gave them; and what a rank gives while another one
\* has not come back from Assemble counts only in the next one.  That every Assemble
\* ends is the other half of IsOneVector, and needs fairness.
THEOREM BehavesAsOneVector == Spec => Whole!Spec
<1>1. Spec => [](ControlInv /\ StagesInv /\ QueuesInv)
  BY AssembleInvariant
<1>2. Spec => []RowsInv
  BY <1>1, RowsAsTheyAre, PTL
<1> QED BY <1>1, <1>2, WholeInit, WholeNext, PTL DEF Spec, Whole!Spec

-----------------------------------------------------------------------------
(***************************************************************************)
(* The types of the whole.  A row stays a number whatever is applied to    *)
(* it, which takes an argument about the folds that apply it.              *)
(***************************************************************************)
\* A table of FoldLeft(Applied, v, s) over the sets of the first n positions of s.
Folds(g, v, s, n) ==
  g = [S \in SUBSET (1..n) |-> IF S = {} THEN v ELSE Applied(g[S \ {Max(S)}], s[Max(S)])]

LEMMA FoldIs ==
  ASSUME NEW v, NEW s, NEW n \in Nat, DOMAIN s = 1..n
  PROVE  FoldLeft(Applied, v, s) = (CHOOSE g : Folds(g, v, s, n))[1..n]
BY DEF FoldLeft, MapThenFoldSet, Folds

LEMMA LastOf ==
  ASSUME NEW n \in Nat, NEW S \in SUBSET (1..(n + 1)), n + 1 \in S
  PROVE  Max(S) = n + 1
<1>1. \A y \in S : n + 1 >= y
  OBVIOUS
<1>2. \A x \in S : (\A y \in S : x >= y) => x = n + 1
  <2> SUFFICES ASSUME NEW x \in S, x >= n + 1 PROVE x = n + 1
    OBVIOUS
  <2> QED BY <1>1
<1> QED BY <1>1, <1>2 DEF Max

LEMMA FoldExists ==
  ASSUME NEW v, NEW s, NEW n \in Nat
  PROVE  \E g : Folds(g, v, s, n)
<1> DEFINE Bad == {k \in Nat : ~ \E g : Folds(g, v, s, k)}
<1> SUFFICES ASSUME Bad # {} PROVE FALSE
  OBVIOUS
<1>1. PICK k \in Bad : \A j \in Bad : k <= j
  <2>1. Bad \in SUBSET Nat
    OBVIOUS
  <2> HIDE DEF Bad
  <2> QED BY <2>1, LeastElement
<1>2. CASE k = 0
  <2> DEFINE g == [S \in SUBSET (1..0) |-> v]
  <2>1. \A S \in SUBSET (1..0) : S = {}
    OBVIOUS
  <2>2. Folds(g, v, s, 0)
    BY <2>1 DEF Folds
  <2> QED BY <1>1, <1>2, <2>2
<1>3. CASE k # 0
  <2>1. PICK j \in Nat : k = j + 1 /\ ~(k <= j)
    <3>1. k - 1 \in Nat /\ k = (k - 1) + 1 /\ ~(k <= k - 1)
      BY <1>1, <1>3
    <3> QED BY <3>1
  <2>2. PICK f : Folds(f, v, s, j)
    BY <1>1, <2>1
  <2> DEFINE g == [S \in SUBSET (1..k) |-> IF k \in S THEN Applied(f[S \ {k}], s[k]) ELSE f[S]]
  <2>3. ASSUME NEW S \in SUBSET (1..k)
        PROVE  g[S] = IF S = {} THEN v ELSE Applied(g[S \ {Max(S)}], s[Max(S)])
    <3>1. CASE k \in S
      <4>1. Max(S) = k
        BY <2>1, <3>1, LastOf
      <4>2. S \ {k} \in SUBSET (1..k) /\ k \notin S \ {k}
        OBVIOUS
      <4> QED BY <3>1, <4>1, <4>2
    <3>2. CASE k \notin S
      <4>1. S \in SUBSET (1..j)
        BY <2>1, <3>2
      <4>2. f[S] = IF S = {} THEN v ELSE Applied(f[S \ {Max(S)}], s[Max(S)])
        BY <2>2, <4>1 DEF Folds
      <4>3. S \ {Max(S)} \in SUBSET (1..k) /\ k \notin S \ {Max(S)}
        BY <3>2
      <4> QED BY <3>2, <4>2, <4>3
    <3> QED BY <3>1, <3>2
  <2>4. g = [S \in SUBSET (1..k) |-> IF S = {} THEN v ELSE Applied(g[S \ {Max(S)}], s[Max(S)])]
    BY <2>3
  <2>5. Folds(g, v, s, k)
    <3> HIDE DEF g
    <3> QED BY <2>4 DEF Folds
  <2> QED BY <1>1, <2>5
<1> QED BY <1>2, <1>3
LEMMA AppliedType ==
  ASSUME NEW v \in Int, NEW c \in Contribution
  PROVE  Applied(v, c) \in Int
<1>1. PICK r \in Rank : c \in GivenBy(r)
  BY DEF Contribution
<1>2. Values[r] \in SUBSET Int
  BY LayoutAssumption
<1>3. c.value \in Int
  BY <1>1, <1>2 DEF GivenBy
<1> QED BY <1>3 DEF Applied

\* What FoldLeft makes of the value of a row.
FoldOf(v, s) == FoldLeft(Applied, v, s)

LEMMA FoldType ==
  ASSUME NEW v \in Int, NEW s \in Seq(Contribution)
  PROVE  FoldOf(v, s) \in Int
<1>1. PICK n \in Nat : n = Len(s) /\ DOMAIN s = 1..n /\ \A i \in 1..n : s[i] \in Contribution
  BY LenProperties
<1>2. PICK g : Folds(g, v, s, n) /\ FoldOf(v, s) = g[1..n]
  <2> DEFINE G == CHOOSE g : Folds(g, v, s, n)
  <2>1. Folds(G, v, s, n)
    BY FoldExists
  <2>2. FoldOf(v, s) = G[1..n]
    <3>1. FoldOf(v, s) = FoldLeft(Applied, v, s)
      BY DEF FoldOf
    <3>2. FoldLeft(Applied, v, s) = (CHOOSE g : Folds(g, v, s, n))[1..n]
      BY <1>1, FoldIs
    <3> QED BY <3>1, <3>2
  <2> HIDE DEF G
  <2> QED BY <2>1, <2>2
<1> DEFINE Bad == {k \in 0..n : g[1..k] \notin Int}
<1> SUFFICES ASSUME Bad # {} PROVE FALSE
  BY <1>2
<1>3. PICK k \in Bad : \A j \in Bad : k <= j
  <2>1. Bad \in SUBSET Nat
    OBVIOUS
  <2> HIDE DEF Bad
  <2> QED BY <2>1, LeastElement
<1>4. 1..k \in SUBSET (1..n)
  BY <1>3
<1>5. g[1..k] = IF 1..k = {} THEN v ELSE Applied(g[(1..k) \ {Max(1..k)}], s[Max(1..k)])
  BY <1>2, <1>4 DEF Folds
<1>6. CASE k = 0
  BY <1>3, <1>5, <1>6
<1>7. CASE k # 0
  <2>1. PICK j \in Nat : k = j + 1 /\ ~(k <= j) /\ j \in 0..n
    <3>1. k - 1 \in Nat /\ k = (k - 1) + 1 /\ ~(k <= k - 1) /\ k - 1 \in 0..n
      BY <1>3, <1>7
    <3> QED BY <3>1
  <2>2. 1..k \in SUBSET (1..(j + 1)) /\ j + 1 \in 1..k
    BY <2>1
  <2>3. Max(1..k) = k
    BY <2>1, <2>2, LastOf
  <2>4. (1..k) \ {k} = 1..j
    BY <2>1
  <2>5. g[1..k] = Applied(g[1..j], s[k])
    BY <1>5, <2>2, <2>3, <2>4
  <2>6. g[1..j] \in Int
    BY <1>3, <2>1
  <2>7. s[k] \in Contribution
    BY <1>1, <1>3, <1>7
  <2> QED BY <1>3, <2>5, <2>6, <2>7, AppliedType
<1> QED BY <1>6, <1>7

\* A table of a row after the contributions of the first ranks.
Stages(f, v, s, n) == f = [i \in 0..n |-> IF i = 0 THEN v ELSE FoldOf(f[i-1], s[i-1])]

LEMMA StagesExist ==
  ASSUME NEW v, NEW s, NEW n \in Nat
  PROVE  \E f : Stages(f, v, s, n)
<1> DEFINE Bad == {k \in Nat : ~ \E f : Stages(f, v, s, k)}
<1> SUFFICES ASSUME Bad # {} PROVE FALSE
  OBVIOUS
<1>1. PICK k \in Bad : \A j \in Bad : k <= j
  <2>1. Bad \in SUBSET Nat
    OBVIOUS
  <2> HIDE DEF Bad
  <2> QED BY <2>1, LeastElement
<1>2. CASE k = 0
  <2>1. Stages([i \in 0..0 |-> v], v, s, 0)
    BY DEF Stages
  <2> QED BY <1>1, <1>2, <2>1
<1>3. CASE k # 0
  <2>1. PICK j \in Nat : k = j + 1 /\ ~(k <= j)
    <3>1. k - 1 \in Nat /\ k = (k - 1) + 1 /\ ~(k <= k - 1)
      BY <1>1, <1>3
    <3> QED BY <3>1
  <2>2. PICK f : Stages(f, v, s, j)
    BY <1>1, <2>1
  <2> DEFINE g == [i \in 0..k |-> IF i = k THEN FoldOf(f[j], s[j]) ELSE f[i]]
  <2>3. ASSUME NEW i \in 0..k
        PROVE  g[i] = IF i = 0 THEN v ELSE FoldOf(g[i-1], s[i-1])
    <3>1. CASE i = k
      <4>1. i # 0 /\ i - 1 = j /\ j \in 0..k /\ j # k
        BY <2>1, <3>1
      <4> QED BY <3>1, <4>1
    <3>2. CASE i # k
      <4>1. i \in 0..j
        BY <2>1, <3>2
      <4>2. f[i] = IF i = 0 THEN v ELSE FoldOf(f[i-1], s[i-1])
        BY <2>2, <4>1 DEF Stages
      <4>3. i # 0 => i - 1 \in 0..k /\ i - 1 # k
        BY <2>1, <4>1
      <4> QED BY <3>2, <4>2, <4>3
    <3> QED BY <3>1, <3>2
  <2>4. g = [i \in 0..k |-> IF i = 0 THEN v ELSE FoldOf(g[i-1], s[i-1])]
    BY <2>3
  <2>5. Stages(g, v, s, k)
    <3> HIDE DEF g
    <3> QED BY <2>4 DEF Stages
  <2> QED BY <1>1, <2>5
<1> QED BY <1>2, <1>3

LEMMA OrderIs ==
  ASSUME NEW v, NEW s
  PROVE  AppliedInRankOrder(v, s) = (CHOOSE f : Stages(f, v, s, NumProcs))[NumProcs]
BY DEF AppliedInRankOrder, Stages, FoldOf, FoldLeft, MapThenFoldSet

LEMMA OrderType ==
  ASSUME NEW v \in Int, NEW s, \A i \in Rank : s[i] \in Seq(Contribution)
  PROVE  AppliedInRankOrder(v, s) \in Int
<1>1. NumProcs \in Nat
  BY RankFacts
<1>2. PICK f : Stages(f, v, s, NumProcs) /\ AppliedInRankOrder(v, s) = f[NumProcs]
  <2> DEFINE F == CHOOSE f : Stages(f, v, s, NumProcs)
  <2>1. Stages(F, v, s, NumProcs)
    BY <1>1, StagesExist
  <2>2. AppliedInRankOrder(v, s) = F[NumProcs]
    BY OrderIs
  <2> HIDE DEF F
  <2> QED BY <2>1, <2>2
<1> DEFINE Bad == {k \in 0..NumProcs : f[k] \notin Int}
<1> SUFFICES ASSUME Bad # {} PROVE FALSE
  BY <1>1, <1>2
<1>3. PICK k \in Bad : \A j \in Bad : k <= j
  <2>1. Bad \in SUBSET Nat
    BY <1>1
  <2> HIDE DEF Bad
  <2> QED BY <2>1, LeastElement
<1>4. f[k] = IF k = 0 THEN v ELSE FoldOf(f[k-1], s[k-1])
  BY <1>2, <1>3 DEF Stages
<1>5. CASE k = 0
  BY <1>3, <1>4, <1>5
<1>6. CASE k # 0
  <2>1. k - 1 \in 0..NumProcs /\ k - 1 \in Rank /\ ~(k <= k - 1)
    BY <1>1, <1>3, <1>6 DEF Rank
  <2>2. f[k-1] \in Int
    BY <1>3, <2>1
  <2> QED BY <1>3, <1>4, <1>6, <2>1, <2>2, FoldType
<1> QED BY <1>5, <1>6


-----------------------------------------------------------------------------
\* What can be in the queues of rank q.
MessageTo(q) == [call : {"Scatter", "Scatterv"}, size : Nat, buckets : [RowsOf[q] -> Seq(Contribution)]]

BlocksType == \A r \in Rank : vector[r] \in [0..(m[r] - 1) -> Int]
CountsType == numvalues \in [Rank -> [Rank -> Nat]]
TakenType  == \A r \in Rank : fromcpu[r] \in [Rank -> [RowsOf[r] -> Seq(Contribution)]]
QueuesType == \A r \in Rank : queue[r] \in [Rank -> Seq(MessageTo(r))]
SerialType == serial \in [Rank -> [Row -> Int]]

TypeInv == BlocksType /\ CountsType /\ TakenType /\ QueuesType /\ SerialType

LEMMA TypeOKIs == ControlInv /\ TypeInv => TypeOK
BY DEF TypeOK, ControlInv, ControlType, BucketsType, TransferShape, TypeInv, BlocksType, CountsType, TakenType,
       QueuesType, SerialType, MessageTo

LEMMA BucketsForCpuType ==
  ASSUME ControlInv, NEW i \in Rank, NEW q \in Rank
  PROVE  /\ BucketsForCpu(i, q) \in [RowsOf[q] -> Seq(Contribution)]
         /\ MarshallSize(BucketsForCpu(i, q), q) \in Nat
<1>1. BucketsForCpu(i, q) \in [RowsOf[q] -> Seq(Contribution)]
  <2>1. RowsOf[q] \subseteq Row
    BY OwnRows
  <2>2. \A x \in RowsOf[q] : buckets[i][x] \in Seq(Contribution)
    BY <2>1 DEF ControlInv, BucketsType
  <2> QED BY <2>2 DEF BucketsForCpu
<1> DEFINE f == BucketsForCpu(i, q)
<1> DEFINE w == [j \in 0..(m[q] - 1) |-> Len(f[LowerRow[q] + j])]
<1>2. m[q] \in Nat /\ LowerRow[q] \in Nat /\ RowsOf[q] = LowerRow[q]..(LowerRow[q] + m[q] - 1)
  BY OwnRows, RankFacts
<1> HIDE DEF f
<1>3. \A j \in 0..(m[q] - 1) : Len(f[LowerRow[q] + j]) \in Nat
  <2> SUFFICES ASSUME NEW j \in 0..(m[q] - 1) PROVE Len(f[LowerRow[q] + j]) \in Nat
    OBVIOUS
  <2>1. LowerRow[q] + j \in RowsOf[q]
    BY <1>2
  <2>2. f[LowerRow[q] + j] \in Seq(Contribution)
    BY <1>1, <2>1 DEF f
  <2> QED BY <2>2, LenProperties
<1>4. w \in [0..(m[q] - 1) -> Nat]
  BY <1>3
<1>5. m[q] \in 0..m[q]
  BY <1>2
<1>6. MarshallSize(f, q) = RunningSum(w, m[q])
  BY DEF MarshallSize
<1> HIDE DEF w
<1>7. RunningSum(w, m[q]) \in Nat
  BY <1>2, <1>4, <1>5, RunningSumNat
<1> QED BY <1>1, <1>6, <1>7 DEF f

LEMMA MessageType ==
  ASSUME ControlInv, NEW call \in {"Scatter", "Scatterv"}, NEW i \in Rank, NEW q \in Rank
  PROVE  Message(call, i, q) \in MessageTo(q) /\ Message(call, i, q).size \in Nat
BY BucketsForCpuType DEF Message, MessageTo

\* The head and the tail of a queue.
LEMMA HeadType ==
  ASSUME NEW q \in Rank, NEW s \in Seq(MessageTo(q)), s # <<>>
  PROVE  /\ Tail(s) \in Seq(MessageTo(q))
         /\ Head(s).size \in Nat
         /\ Head(s).buckets \in [RowsOf[q] -> Seq(Contribution)]
<1>1. Head(s) \in MessageTo(q) /\ Tail(s) \in Seq(MessageTo(q))
  BY HeadTailProperties
<1> QED BY <1>1 DEF MessageTo

LEMMA TypeInit == Init => TypeInv
<1> SUFFICES ASSUME Init PROVE TypeInv
  OBVIOUS
<1>1. BlocksType /\ SerialType
  BY DEF Init, BlocksType, SerialType
<1>2. CountsType
  BY DEF Init, CountsType
<1>3. TakenType
  <2>1. <<>> \in Seq(Contribution)
    OBVIOUS
  <2> QED BY <2>1 DEF Init, TakenType
<1>4. QueuesType
  <2>1. \A r \in Rank : <<>> \in Seq(MessageTo(r))
    OBVIOUS
  <2> QED BY <2>1 DEF Init, QueuesType
<1> QED BY <1>1, <1>2, <1>3, <1>4 DEF TypeInv

\* What a root sends.
LEMMA SentType ==
  ASSUME ControlInv, QueuesType, NEW r \in Rank, NEW call \in {"Scatter", "Scatterv"}, queue' = Sent(call, r)
  PROVE  QueuesType'
<1> SUFFICES ASSUME NEW q \in Rank PROVE queue'[q] \in [Rank -> Seq(MessageTo(q))]
  BY DEF QueuesType
<1>1. queue[q] \in [Rank -> Seq(MessageTo(q))]
  BY DEF QueuesType
<1>2. CASE q = r
  BY <1>1, <1>2 DEF Sent
<1>3. CASE q # r
  <2>1. Message(call, r, q) \in MessageTo(q)
    BY MessageType
  <2>2. Append(queue[q][r], Message(call, r, q)) \in Seq(MessageTo(q))
    BY <1>1, <2>1, AppendProperties
  <2>3. queue'[q] = [queue[q] EXCEPT ![r] = Append(@, Message(call, r, q))]
    BY <1>3 DEF Sent
  <2> QED BY <1>1, <2>2, <2>3
<1> QED BY <1>2, <1>3

LEMMA TypeNext == ControlInv /\ TypeInv /\ [Next]_vars => TypeInv'
<1> SUFFICES ASSUME ControlInv, TypeInv, [Next]_vars PROVE TypeInv'
  OBVIOUS
<1> USE DEF TypeInv
<1>1. UNCHANGED vector => BlocksType'
  BY DEF BlocksType
<1>2. UNCHANGED numvalues => CountsType'
  BY DEF CountsType
<1>3. UNCHANGED fromcpu => TakenType'
  BY DEF TakenType
<1>4. UNCHANGED queue => QueuesType'
  BY DEF QueuesType
<1>5. UNCHANGED serial => SerialType'
  BY DEF SerialType
<1>6. ASSUME NEW r \in Rank, SetValue(r) \/ Call(r) PROVE TypeInv'
  BY <1>1, <1>2, <1>3, <1>4, <1>5, <1>6 DEF SetValue, Call, transfer
<1>7. ASSUME NEW r \in Rank, ScatterCounts(r) PROVE TypeInv'
  <2>1. UNCHANGED <<vector, fromcpu, serial>>
    BY <1>7 DEF ScatterCounts
  <2>2. CASE root[r] = r
    <3>1. queue' = Sent("Scatter", r) /\ numvalues' = [numvalues EXCEPT ![r][r] = Message("Scatter", r, r).size]
      BY <1>7, <2>2 DEF ScatterCounts
    <3>2. QueuesType'
      BY <3>1, SentType
    <3>3. CountsType'
      BY <3>1, MessageType DEF CountsType
    <3> QED BY <1>1, <1>3, <1>5, <2>1, <3>2, <3>3
  <2>3. CASE root[r] # r
    <3>1. PICK i \in Rank : i = root[r]
      BY DEF ControlInv, ControlType
    <3>2. /\ queue[r][i] # <<>>
          /\ queue' = [queue EXCEPT ![r][i] = Tail(@)]
          /\ numvalues' = [numvalues EXCEPT ![r][i] = Head(queue[r][i]).size]
      BY <1>7, <2>3, <3>1 DEF ScatterCounts
    <3>3. queue[r][i] \in Seq(MessageTo(r))
      BY DEF QueuesType
    <3>4. Tail(queue[r][i]) \in Seq(MessageTo(r)) /\ Head(queue[r][i]).size \in Nat
      BY <3>2, <3>3, HeadType
    <3>5. QueuesType'
      BY <3>2, <3>4 DEF QueuesType, ControlInv, TransferShape
    <3>6. CountsType'
      BY <3>2, <3>4 DEF CountsType
    <3> QED BY <1>1, <1>3, <1>5, <2>1, <3>5, <3>6
  <2> QED BY <2>2, <2>3
<1>8. ASSUME NEW r \in Rank, ScatterValues(r) PROVE TypeInv'
  <2>1. UNCHANGED <<vector, numvalues, serial>>
    BY <1>8 DEF ScatterValues
  <2>2. CASE root[r] = r
    <3>1. queue' = Sent("Scatterv", r) /\ fromcpu' = [fromcpu EXCEPT ![r][r] = BucketsForCpu(r, r)]
      BY <1>8, <2>2 DEF ScatterValues
    <3>2. QueuesType'
      BY <3>1, SentType
    <3>3. TakenType'
      BY <3>1, BucketsForCpuType DEF TakenType, ControlInv, TransferShape
    <3> QED BY <1>1, <1>2, <1>5, <2>1, <3>2, <3>3
  <2>3. CASE root[r] # r
    <3>1. PICK i \in Rank : i = root[r]
      BY DEF ControlInv, ControlType
    <3>2. /\ queue[r][i] # <<>>
          /\ queue' = [queue EXCEPT ![r][i] = Tail(@)]
          /\ fromcpu' = [fromcpu EXCEPT ![r][i] = Head(queue[r][i]).buckets]
      BY <1>8, <2>3, <3>1 DEF ScatterValues, Expects
    <3>3. queue[r][i] \in Seq(MessageTo(r))
      BY DEF QueuesType
    <3>4. Tail(queue[r][i]) \in Seq(MessageTo(r))
          /\ Head(queue[r][i]).buckets \in [RowsOf[r] -> Seq(Contribution)]
      BY <3>2, <3>3, HeadType
    <3>5. QueuesType'
      BY <3>2, <3>4 DEF QueuesType, ControlInv, TransferShape
    <3>6. TakenType'
      BY <3>2, <3>4 DEF TakenType, ControlInv, TransferShape
    <3> QED BY <1>1, <1>2, <1>5, <2>1, <3>5, <3>6
  <2> QED BY <2>2, <2>3
<1>9. ASSUME NEW r \in Rank, Plug(r) PROVE TypeInv'
  <2>1. UNCHANGED <<queue, serial>>
    BY <1>9 DEF Plug
  <2>2. BlocksType'
    <3>1. \A j \in 0..(m[r] - 1) : Plugged(r, LowerRow[r] + j) \in Int
      <4> SUFFICES ASSUME NEW j \in 0..(m[r] - 1) PROVE Plugged(r, LowerRow[r] + j) \in Int
        OBVIOUS
      <4> DEFINE x == LowerRow[r] + j
      <4> DEFINE s == [i \in Rank |-> fromcpu[r][i][x]]
      <4>1. m[r] \in Nat /\ LowerRow[r] \in Nat /\ RowsOf[r] = LowerRow[r]..(LowerRow[r] + m[r] - 1)
        BY OwnRows, RankFacts
      <4>2. x \in RowsOf[r] /\ x - LowerRow[r] = j
        BY <4>1
      <4>3. vector[r][x - LowerRow[r]] \in Int
        BY <4>2 DEF BlocksType
      <4> HIDE DEF x
      <4>4. \A i \in Rank : s[i] \in Seq(Contribution)
        BY <4>2 DEF TakenType
      <4> HIDE DEF s
      <4>5. AppliedInRankOrder(vector[r][x - LowerRow[r]], s) \in Int
        BY <4>3, <4>4, OrderType
      <4> QED BY <4>5 DEF s, x, Plugged
    <3>2. vector'[r] = [j \in 0..(m[r] - 1) |-> Plugged(r, LowerRow[r] + j)]
      BY <1>9 DEF Plug, ControlInv, TransferShape
    <3>3. \A q \in Rank : q # r => vector'[q] = vector[q]
      BY <1>9 DEF Plug, ControlInv, TransferShape
    <3> QED BY <3>1, <3>2, <3>3 DEF BlocksType
  <2>3. CountsType'
    BY <1>9 DEF Plug, CountsType
  <2>4. TakenType'
    <3>1. <<>> \in Seq(Contribution)
      OBVIOUS
    <3> QED BY <1>9, <3>1 DEF Plug, TakenType, ControlInv, TransferShape
  <2> QED BY <1>4, <1>5, <2>1, <2>2, <2>3, <2>4
<1>10. ASSUME DetermineRowRank PROVE TypeInv'
  BY <1>1, <1>2, <1>3, <1>4, <1>5, <1>10 DEF DetermineRowRank
<1>11. ASSUME GetOwnershipBoundaries PROVE TypeInv'
  BY <1>1, <1>2, <1>3, <1>4, <1>5, <1>11 DEF GetOwnershipBoundaries, transfer
<1>12. ASSUME ToMPISerial PROVE TypeInv'
  <2>1. \A x \in Row : vector[RowRank[x]][x - LowerRow[RowRank[x]]] \in Int
    <3> SUFFICES ASSUME NEW x \in Row PROVE vector[RowRank[x]][x - LowerRow[RowRank[x]]] \in Int
      OBVIOUS
    <3>1. PICK q \in Rank : q = RowRank[x] /\ x - LowerRow[q] \in 0..(m[q] - 1)
      BY OwnerOfRow
    <3> QED BY <3>1 DEF BlocksType
  <2>2. SerialType'
    BY <1>12, <2>1 DEF ToMPISerial, SerialType
  <2> QED BY <1>1, <1>2, <1>3, <1>4, <1>12, <2>2 DEF ToMPISerial, transfer
<1>13. ASSUME UNCHANGED vars PROVE TypeInv'
  BY <1>1, <1>2, <1>3, <1>4, <1>5, <1>13 DEF vars
<1> QED BY <1>6, <1>7, <1>8, <1>9, <1>10, <1>11, <1>12, <1>13 DEF Next, CollectiveStep, LocalStep

\* Every variable of the vector has its type, for all layouts, values and programs; in
\* particular what a rank takes from a queue is a message for its own rows, and what
\* becomes of a row is a number.
THEOREM VectorTypeCorrect == Spec => []TypeOK
<1>1. Spec => [](ControlInv /\ TypeInv)
  BY ControlInit, ControlNext, TypeInit, TypeNext, PTL DEF Spec
<1> QED BY <1>1, TypeOKIs, PTL

=============================================================================
